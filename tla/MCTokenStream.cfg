CONSTANTS
  AllowComments = TRUE
  MaxCalls = 1
  Inputs <- MCInputs
  Half = 8
  Base = 2
SPECIFICATION Spec
INVARIANTS NumbersAreRFC8259 StringsDecode PositionsMatchOffsets TokensTileTheInput EscapedStringsScanBack CompactKeepsTokens IntegersAreExact
CHECK_DEADLOCK FALSE

CONSTANTS
  AllowComments = TRUE
  Family = "tails"
  Inputs <- MCInputs
  Parse <- MCParse
SPECIFICATION Spec
INVARIANTS NoTrailingData
CHECK_DEADLOCK FALSE

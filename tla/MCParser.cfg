CONSTANTS
  Keys = {"a", "b"}
  Tokens <- MCTokens
  Corpus <- MCCorpus
  MaxDepth = 2
  RejectDuplicateKeys = TRUE
  MaxTokens = 10
SPECIFICATION Spec
INVARIANTS RefusesOnlyForLimits IsParseTree SpansNest DepthBounded UniqueKeys VerdictNamesTheCause
PROPERTIES Terminates
CHECK_DEADLOCK FALSE

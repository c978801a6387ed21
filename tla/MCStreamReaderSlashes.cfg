CONSTANTS
  AllowComments = TRUE
  Family = "slashes"
  Inputs <- MCInputs
  Parse <- MCParse
SPECIFICATION Spec
INVARIANTS DeliversRootElements
CHECK_DEADLOCK FALSE

CONSTANTS
  AllowComments = TRUE
  Family = "all"
  Inputs <- MCInputs
  Parse <- MCParse
SPECIFICATION Spec
INVARIANTS ValueIsCurrent AgreesWithParse CleanEnd ElementsAreSlices
PROPERTIES ImplementsElementStream Terminates
CHECK_DEADLOCK FALSE

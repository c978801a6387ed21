CONSTANTS
  Nodes <- MCNodes
  Root <- MCRoot
  Heaps <- MCHeaps
  Settings <- MCSettings
  Occurrences <- MCOccurrences
  Texts <- MCTexts
  Bodies <- MCBodies
  Family = "references"
  MaxDepth = 2
SPECIFICATION Spec
PROPERTY Terminates
CHECK_DEADLOCK FALSE

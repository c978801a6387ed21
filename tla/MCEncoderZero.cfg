CONSTANTS
  Nodes <- MCNodes
  Root <- MCRoot
  Heaps <- MCHeaps
  Settings <- MCSettings
  Occurrences <- MCOccurrences
  Texts <- MCTexts
  Bodies <- MCBodies
  Family = "zero"
  MaxDepth = 2
SPECIFICATION Spec
INVARIANT NamesHaveValues
CHECK_DEADLOCK FALSE

CONSTANTS
  Nodes <- MCNodes
  Root <- MCRoot
  Heaps <- MCHeaps
  Settings <- MCSettings
  Occurrences <- MCOccurrences
  Texts <- MCTexts
  Bodies <- MCBodies
  Family = "prefix"
  MaxDepth = 2
SPECIFICATION Spec
INVARIANT OnlyCyclesAreCycles
CHECK_DEADLOCK FALSE

CONSTANTS
  Nodes <- MCNodes
  Root <- MCRoot
  Heaps <- MCHeaps
  Settings <- MCSettings
  Occurrences <- MCOccurrences
  Texts <- MCTexts
  Bodies <- MCBodies
  Family = "all"
  MaxDepth = 2
SPECIFICATION Spec
INVARIANTS ErrorsNameTheCause EncodesTheValue SeenIsTheStack BuffersAreRestored DepthBounded
PROPERTY Terminates
CHECK_DEADLOCK FALSE

CONSTANTS
  Calls = {c1, c2, c3}
  None = None
  Structs <- MCStructs
  Listed <- MCListed
SPECIFICATION Spec
INVARIANTS Published Complete
PROPERTY Frozen
CHECK_DEADLOCK FALSE

CONSTANTS
  Calls = {m1, m2, m3}
  Buffers = {b1, b2, b3, b4}
  NoBuffer = NoBuffer
  MaxWrites = 2
SPECIFICATION Spec
INVARIANTS OneOwner OutputIsOwn
SYMMETRY Symmetry
CHECK_DEADLOCK FALSE

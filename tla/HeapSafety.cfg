CONSTANTS
  Elem = {e1, e2, e3, e4, e5, e6, e7}
  Date = {1, 2, 3}
  NULL = NULL
  Chunk = 1
  SizeT = 16
  MaxLen = 7
SPECIFICATION Spec
SYMMETRY MCSymmetry
INVARIANTS TypeOK MemoryIsReturned
PROPERTIES ImplementsSet

\* Three sessions, two levels, up to three transactions, no wraparound.
SPECIFICATION Spec
CONSTANTS
  Sessions = {c1, c2, c3}
  Levels = {"ReadCommitted", "RepeatableRead"}
  XidLimit = 4
  MaxBegins = 3
  NoTxn = NoTxn
  NoSnapshot = NoSnapshot
SYMMETRY Symmetry
INVARIANTS
  EndsOnce
  
PROPERTIES
  DirtyOnlyInBeginWindow

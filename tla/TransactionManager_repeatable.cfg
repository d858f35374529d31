\* Expected violation: a commit between two statements of a repeatable-read transaction.
SPECIFICATION Spec
CONSTANTS
  Sessions = {c1, c2}
  Levels = {"RepeatableRead"}
  XidLimit = 8
  MaxBegins = 3
  NoTxn = NoTxn
  NoSnapshot = NoSnapshot
SYMMETRY Symmetry
PROPERTIES
  RepeatableReads

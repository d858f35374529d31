\* Three transactions, a relation with a shareable and an excluding mode, a row
\* and an advisory key: upgrades, re-entry, circular waits, requests refused,
\* queued late, retried and abandoned.
SPECIFICATION Spec
CONSTANTS
  Xids = {x1, x2, x3}
  Relations = {r1}
  Rows = {k1}
  Keys = {a1}
  TableModes = {"AccessShare", "Exclusive"}
  RowModes = {"ForUpdate"}
  MaxAdvisory = 2
  NoRequest = NoRequest
SYMMETRY Symmetry
CONSTRAINT AdvisoryApart
INVARIANTS
  NoConflictingHolders
  NoMissedDeadlock
  AdvisoryExclusion

\* Two connections, every kind of request, three requests in all.
SPECIFICATION Spec
CONSTANTS
  Clients = {c1, c2}
  Queries = {"begin", "commit", "rollback", "select", "dml", "ddl", "set", "sync", "unsupported", "unparsed"}
  MayStall = {}
  MaxRequests = 3
  NoXid = NoXid
  Nobody = Nobody
SYMMETRY Symmetry
INVARIANTS
  TypeOK
  CurrentIsActive
  OneReadyPerSuccess
  AckedIsDurable
  OneOutcome
  ImplicitLoggedBeforeVisible

\* Two connections, one of which may stop reading.
SPECIFICATION FairSpec
CONSTANTS
  Clients = {c1, c2}
  Queries = {"begin", "commit", "select", "dml"}
  MayStall = {c1}
  MaxRequests = 2
  NoXid = NoXid
  Nobody = Nobody
PROPERTIES
  Answered

SPECIFICATION FairSpec
CONSTANTS
  NONE = NONE
  Clients = {c1}
  Targets = {t1, t2}
  Nodes = {u, h}
  UdpNodes = {u}
  Attempts = 2
  Sessions = {s1, s2, s3}
  IdleLimit = 1
INVARIANTS
  TypeOK
  SessionHasReader
PROPERTIES
  RelayServes
  SilentSessionEnds
  RelayReturns
CHECK_DEADLOCK FALSE

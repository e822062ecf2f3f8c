SPECIFICATION FairSpec
CONSTANTS
  NONE = NONE
  Conns = {c1}
  Tags = {t1, t2}
  Attempts = 2
  Classes = {"local", "china", "chain", "name"}
  Hosts = {h1}
  FirstResponses = {1, 3}
  RaceThreshold = 2
  Interval = 1
  TTL = 2
  MaxEntries = 2
INVARIANTS
  TypeOK
  PinHolds
  SentOnce
  LedgersAgree
PROPERTY
  AnsweredOrOver

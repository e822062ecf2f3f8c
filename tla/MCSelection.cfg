SPECIFICATION FairSpec
CONSTANTS
  NONE = NONE
  Tags = {a, b}
  Clients = {c1}
  Capacity = 2
  JevOn = TRUE
INVARIANTS
  TypeOK
  NoWastedCandidate
PROPERTIES
  SchedulerNeverEmpties
  PinHonoured
  AutoRecovers

SPECIFICATION FairSpec
CONSTANTS
  NONE = NONE
  Tags = {t1, t2}
  HP_INITIAL = 0
  HP_MAX = 1
  FailCap = 3
  SampleCap = 1
  KeepAlive = 2
  Cooldown = 0
  BatchSize = 1
  MaxFailures = 2
  MinPool = 1
  BwResults = {TRUE, FALSE}
INVARIANTS
  TypeOK
  MarksAgree
PROPERTIES
  AliveKeepsItsPlace
  RetirementFloor
  DeadNodeLeaves

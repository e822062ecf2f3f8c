SPECIFICATION PersistSpec
CONSTANTS
  NONE = NONE
  Tags = {t1}
  HP_INITIAL = 2
  HP_MAX = 3
  FailCap = 1
  SampleCap = 1
  KeepAlive = 1
  Cooldown = 0
  BatchSize = 1
  MaxFailures = 1
  MinPool = 0
  BwResults = {TRUE, FALSE}
  MaxAge = 1
  Files = {f1, f2}
  DefaultFile = f1
INVARIANT
  PersistTypeOK
PROPERTY
  RestartRestores

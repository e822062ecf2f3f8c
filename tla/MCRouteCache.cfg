SPECIFICATION Spec
CONSTANTS
  NONE = NONE
  Hosts = {h1, h2, h3}
  FirstResponses = {1, 3, 7}
  RaceThreshold = 2
  Interval = 3
  TTL = 4
  MaxEntries = 2
SYMMETRY Symmetry
INVARIANTS
  TypeOK
  CacheBounded
  FailedRouteYields
  FailingDirectIsCompared
PROPERTIES
  SlowRaceIsRare

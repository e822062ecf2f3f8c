SPECIFICATION FairSpec
CONSTANTS
  NONE = NONE
  LITERAL = LITERAL
  GIVEN = GIVEN
  Tags = {t1, t2}
  Hosts = {h1, h2}
  Upstreams <- MCUpstreams
  Ports = {p1}
  Ids = {i1, i2, i3}
  MaxConcurrency = 1
INVARIANTS
  TypeOK
  AddressOfItsServer
  UpstreamsExhausted
PROPERTIES
  ReloadEnds

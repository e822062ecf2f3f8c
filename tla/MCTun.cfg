SPECIFICATION FairSpec
CONSTANTS
  NONE = NONE
  Tags = {a, d1, "DIRECT"}
  DirectTags = {d1}
  Gens = {g1, g2}
  MaxAttempts = 2
  Conns = {c1}
INVARIANTS
  TypeOK
PROPERTIES
  ImplementsExit
  FollowsSelection
  OldNodesLetGo

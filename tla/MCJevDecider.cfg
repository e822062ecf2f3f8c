SPECIFICATION FairSpec
CONSTANTS
  NONE = NONE
  Tags = {a, b, c}
  Capacity = 2
  CandidateCount = 2
  Hatches = {ask_user}
  Scale = 3
  Tolerance = 0
  MinProbability = 2
  TtlRounds = 1
  FailThreshold = 2
  CooldownRounds = 2
INVARIANTS
  TypeOK
  OneQuestion
PROPERTIES
  PromotionEarned
  JudgementExpires
  NeverStalls

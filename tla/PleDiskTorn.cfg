SPECIFICATION Spec
CONSTANTS
  s1 = s1
  s2 = s2
  Shards <- TwoShards
  Tiers = {"fp8", "bf16"}
  Offers <- AllShards
  AssembledTier = "bf16"
  MayPublish = FALSE
  PowerMayFail = FALSE
  FlushMayFail = FALSE
PROPERTIES AbortsOnlyForeign
CHECK_DEADLOCK FALSE

SPECIFICATION Spec
CONSTANTS
  s1 = s1
  s2 = s2
  Shards <- TwoShards
  Tiers = {"bf16"}
  Offers <- AllShards
  AssembledTier = "bf16"
  MayPublish = TRUE
  PowerMayFail = FALSE
  FlushMayFail = FALSE
PROPERTIES NeverClobbers
CHECK_DEADLOCK FALSE

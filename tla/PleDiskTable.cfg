SPECIFICATION Spec
CONSTANTS
  s1 = s1
  s2 = s2
  Shards <- TwoShards
  Tiers = {"fp8", "bf16"}
  Offers <- AllShards
  AssembledTier = "bf16"
  MayPublish = TRUE
  PowerMayFail = TRUE
  FlushMayFail = TRUE
INVARIANTS IInv DoneMeansWhole
PROPERTIES FinishedIsFinal
CHECK_DEADLOCK FALSE

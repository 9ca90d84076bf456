SPECIFICATION FairCacheSpec
CONSTANTS
  c1 = c1  f1 = f1
  Change = {c1}
  Kind <- Shapes
  Reader = {f1}
  MaxFaults = 1
  None = None
INVARIANT EvictionSticks
PROPERTY CachesSettle
CHECK_DEADLOCK FALSE

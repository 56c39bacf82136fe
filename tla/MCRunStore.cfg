CONSTANTS
  Run = {r1}
  BatchLimit = 2
  Retention = 1
  LineSize <- MCLineSize
  LineLimit = 4
  MaxEvents = 2
  MaxFiles = 2
  MaxTime = 2
  MaxFaults = 2
SPECIFICATION FairSpec
INVARIANT RunStoreInv
PROPERTIES OnlyARaceTakesYoungEvents RetentionEnds

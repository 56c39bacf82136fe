CONSTANTS
  MaxPending = 3
  BatchLimit = 2
  MaxProfile = 1
  MaxRuns = 2
  MaxMade = 5
  MaxFaults = 2
SPECIFICATION FairSpec
INVARIANTS TypeOK Attribution Accounted StoredInOrder
PROPERTIES RunsAreClosed DeliversAtLeastOnce EventuallyFiled

SPECIFICATION Spec
CONSTANTS
  Recorded <- MCRecorded
  SliceGap = 1
  MaxFile = 6
INVARIANTS SummaryInv LatestUnlessLate EndedRunStandsStill PingToCloseIsTrue
\* A file is full in the end.
CHECK_DEADLOCK FALSE

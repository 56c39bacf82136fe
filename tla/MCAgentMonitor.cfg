CONSTANTS
  MaxLogs = 2
  MaxLines = 1
  MaxLaunches = 1
  MaxStops = 2
  MaxRestarts = 1
  MaxMisses = 1
  MaxTurns = 2
SPECIFICATION FairSpec
INVARIANTS MonitorInv OneLogPerRun ActiveRunHasAch
PROPERTY ExitEndsRun

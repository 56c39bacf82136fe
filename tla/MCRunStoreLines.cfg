CONSTANTS
  Run = {r1}
  BatchLimit = 2
  Retention = 1
  LineSize <- MCLineSize
  LineLimit = 4
  MaxEvents = 2
  MaxFiles = 1
  MaxTime = 1
  MaxFaults = 1
SPECIFICATION Spec
INVARIANT EveryLineIsAnEvent

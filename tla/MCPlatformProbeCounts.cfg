SPECIFICATION Spec
CONSTANTS
  CodeLimit = 2147483647
  LengthLimit = 1073741824
  PayloadLimit = 131072
  Machines <- MCMachines
  Versions = {v1, v2}
  MaxAttempts = 2
INVARIANT
  BoundedIsRecorded

CONSTANTS
  Release = {v1, v2, v3}
  Corrupt = corrupt
  NoBinary = none
  MaxDeploys = 3
  MaxRemovals = 1
  MaxFaults = 2
SPECIFICATION FairSpec
INVARIANT UpdateInv
PROPERTIES OnlyInstallBreaks StaysRemoved Converges

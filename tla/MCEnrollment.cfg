CONSTANTS
  l1 = l1
  l2 = l2
  d1 = d1
  d2 = d2
  Label <- MCLabel
  Device <- MCDevice
  InviteTTL = 2
  MaxTime = 3
  MaxCodes = 3
  MaxFaults = 1
SPECIFICATION Spec
SYMMETRY Interchangeable
INVARIANTS RegistryInv ShownCodeWorks CleanInstall
PROPERTY ImplementsCredentials

SPECIFICATION Spec
CONSTANTS
  CodeLimit = 262144
  LengthLimit = 65536
  PayloadLimit = 8
  SizeLimit = 5242880
  GameLines <- MCGameLines
  LauncherLines <- MCLauncherLines
  ProtonLines <- MCProtonLines
  Hosts <- MCHosts
INVARIANTS EventsInv RpcsAreRecordedWhole ProfileIsRight

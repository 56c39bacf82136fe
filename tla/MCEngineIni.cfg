\* The bounds end every behaviour: nobody has to touch the file again.
SPECIFICATION IniSpec
CONSTANTS
  MaxScripts = 3
  MaxEdits = 3
  MaxDeaths = 1
INVARIANT EngineIniInv
PROPERTIES SettingsPreserved LeavesNoTrace
CHECK_DEADLOCK FALSE

SPECIFICATION Spec
CONSTANTS
  Tailers = {"game", "launcher", "probe", "proton"}
  Inodes = {1, 2}
  Chunk = 3
  MaxLen = 4
  MaxLogs = 3
  MaxFills = 1
  MaxRuns = 1
INVARIANTS LogTailInv NoSplicedLine
PROPERTY EverythingIsRead

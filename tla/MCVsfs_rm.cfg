SPECIFICATION Spec
CONSTANTS
  a = a
  b = b
  c = c
  Names = {a, b, c}
  NoName = NoName
  Nothing = Nothing
  HostSize <- MCHostSize
  FS_INODES = 3
  FS_DATA_BLOCKS = 4
  BLOCK = 2
  CLEAN = 4
  Garbage = Garbage
  MaxGarbage = 0
  MaxCommands = 6
  MaxKills = 0
INVARIANT
  ContentsKept
CHECK_DEADLOCK FALSE

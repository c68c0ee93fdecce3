SPECIFICATION Spec
CONSTANTS
  a = a
  b = b
  c = c
  Names = {a, b, c}
  NoName = NoName
  Nothing = Nothing
  HostSize <- MCHostSize
  FS_INODES = 3
  FS_DATA_BLOCKS = 4
  BLOCK = 2
  CLEAN = 4
  Garbage = Garbage
  MaxGarbage = 2
  MaxCommands = 7
  MaxKills = 1
INVARIANTS
  TypeOK
  UniqueNames
  ContentsKeptUntilMisfreed
  SpaceReported
CHECK_DEADLOCK FALSE

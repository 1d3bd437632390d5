SPECIFICATION Spec
CONSTANTS
  a = a
  b = b
  c = c
  Name = {a, b, c}
  Path <- MCPath
  LastInode = 3
  PerBlock = 2
  StaleCount = {0, 3}
  MaxRefs = 2
CHECK_DEADLOCK FALSE
INVARIANTS TypeOK EntriesAreLive FoundIsLive ListedIsFound FoundIsListed
PROPERTY IsANameSpace

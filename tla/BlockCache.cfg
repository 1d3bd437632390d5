SPECIFICATION MCSpec
CONSTANTS
  Block = {b1, b2, b3}
  i1 = i1
  Inum = {i1, i2}
  Content = {d, m}
  DataContent = {d}
  CacheSize = 2
  Node = {0, 1}
  NULL = NULL
  MaxGdl = 3
INVARIANTS TypeOK SlotAccounting DirtyQueued ListedResident SyncsInOrder
PROPERTIES IsDurable ListKeepsDirty CallsReturn

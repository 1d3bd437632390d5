SPECIFICATION MCSpec
CONSTANTS
  Key = {21, 22, 23, 24, 25}
  Page = {1, 2, 3, 4, 5, 6, 7}
  MaxKeys = 4
  MaxEntries = 6
CHECK_DEADLOCK FALSE
INVARIANTS TypeOK SingleLevel NoPhantom KeysMatch SmallIsExact

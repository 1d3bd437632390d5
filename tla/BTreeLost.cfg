SPECIFICATION MCSpec
CONSTANTS
  Key = {21, 22, 23, 24, 25}
  Page = {1, 2, 3, 4, 5, 6, 7, 8}
  MaxKeys = 4
  MaxEntries = 5
CHECK_DEADLOCK FALSE
INVARIANT InsertedIsFound

SPECIFICATION MCSpec
CONSTANTS
  Node = {n1, n2, n3, n4, n5}
  NULL = NULL
  MaxNodes = 4
INVARIANTS TypeOK RingSound
PROPERTIES OnlyEvictionDies RingIsAList
CHECK_DEADLOCK FALSE

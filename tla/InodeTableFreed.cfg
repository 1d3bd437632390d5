SPECIFICATION Spec
CONSTANTS
  Total = 16
  Usable = 3
  PerBlock = 2
  MaxRefs = 2
INVARIANT FreedIsFree

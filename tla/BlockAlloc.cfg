SPECIFICATION Spec
CONSTANTS
  Total = 16
  Usable = 6
  InodesPerBlock = 4
  Word = 32
INVARIANTS TypeOK PagesHeld NoPageLost

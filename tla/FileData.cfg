SPECIFICATION Spec
CONSTANTS
  File = {f1, f2}
  Page = {1, 2, 3}
  Usable = 2
  Direct = 1
  MaxIndex = 2
  Value = {11}
  MaxWrite = 3
  MaxCell = 5
SYMMETRY Symmetry
INVARIANTS TypeOK ReadNeverLies PagesApart NoPageLeaks DirectReadsBack

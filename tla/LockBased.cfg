SPECIFICATION ProgramSpec
CONSTANTS
  Threads = {main, t1, t2}
  Main = main
  Partner = t1
  Size = 2
  Values <- MCValues
  None = none
  MaxLength = 4
  FreeValues = {0, 1}
  FreeLength = 2
INVARIANTS IInv AllComeBack
PROPERTIES Linearizable ProgramEnds

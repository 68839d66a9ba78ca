SPECIFICATION Spec
CONSTANTS
  t1 = t1
  t2 = t2
  t3 = t3
  f1 = f1
  f2 = f2
  Threads = {t1, t2, t3}
  Paths = {f1, f2}
  Levels = {0, 1}
  MaxLines = 2
  MaxConfig = 2
  None = None
CHECK_DEADLOCK FALSE
SYMMETRY Symmetry
INVARIANTS UndisturbedLinesKept LinesWhereOpen

SPECIFICATION Spec
CONSTANTS
  Objects = {a, b, c}
  Fds = {4, 5}
  MaxWrote = 4
  NoSock = NoSock
CHECK_DEADLOCK FALSE
SYMMETRY Symmetry
INVARIANTS OneUserPerConnection ReceivedWithoutGap

SPECIFICATION FairSpec
CONSTANTS
  Callers = {loop, other}
  Threads = {t1, t2, t3, t4}
  Ids = {1, 2}
  Managed = {2}
  Nested = {1}
  NoThread = NoThread
  Nobody = Nobody
  NoId = 0
CHECK_DEADLOCK FALSE
INVARIANTS LiveTasksListed
PROPERTIES CallsReturnUnlessNested DestructionEnds ImplementsSlots

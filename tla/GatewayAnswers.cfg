CONSTANTS
  c1 = c1  t1 = t1
  e1 = e1  e2 = e2  r1 = r1  o1 = o1  k1 = k1
  Caps = {c1}
  Tasks = {t1}
  TaskOf <- MCTaskOf
  Keys = {k1}
  NoKey = NoKey
  MaxActions = 2
  Execs = {e1, e2}
  Revokers = {r1}
  Closers = {o1}
  Free = Free
  LoopOf <- OwnLoops
SPECIFICATION ToolFairSpec
INVARIANTS
  ToolTypeOK
  KeyChargedOnce
  ResultIsReal
  RetriesAgree
  WorkAccounted
PROPERTY EveryHandlerAnswers
CHECK_DEADLOCK FALSE

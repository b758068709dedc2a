CONSTANTS
  c1 = c1  c2 = c2  t1 = t1
  e1 = e1  e2 = e2  e3 = e3  r1 = r1  o1 = o1  o2 = o2  k1 = k1
  Caps = {c1, c2}
  Tasks = {t1}
  TaskOf <- MCTaskOf
  Keys = {k1}
  NoKey = NoKey
  MaxActions = 2
  Execs = {e1, e2}
  Revokers = {}
  Closers = {}
  Free = Free
  LoopOf <- OneLoop
SPECIFICATION LoopFairSpec
PROPERTY EveryHandlerAnswers
CHECK_DEADLOCK FALSE

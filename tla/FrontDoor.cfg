CONSTANTS
  a = a  b = b  h1 = h1  h2 = h2  o1 = o1  o2 = o2
  Requests = {1, 2, 3, 4, 5}
  Hosts = {h1, h2}
  NoHost = NoHost
  Rpm = 2
  Burst = 1
  Window = 2
  MaxClock = 3
  Empty = Empty
  Null = Null
  Names = {a, b, Empty}
  ApiKeys = {1, 2, 3, 4, 5}
  Entry <- MCEntry
  OldTasks = {o1, o2}
  OldRow <- MCOldRow
  Second = 2
  Ttl = 3
  MaxInside = 2
SPECIFICATION Spec
CONSTRAINTS InOrder AtRest
SYMMETRY Symmetry
INVARIANTS
  TypeOK
  WindowRespected
  LimitedOnlyWhenFull
  OnlyOwnersAct
  CallsAsItself
  ArrivedWithinLifetime
CHECK_DEADLOCK FALSE

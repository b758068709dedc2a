CONSTANTS
  s1 = s1  s2 = s2
  Requests = {1, 2, 3, 4, 5, 6, 7}
  Systems = {s1, s2}
  MaxInFlight = 3
  Free = Free
SPECIFICATION Spec
CONSTRAINT InOrder
INVARIANTS
  TypeOK
PROPERTIES
  ClosureSweepsAll
  ImplementsGrants
CHECK_DEADLOCK FALSE

CONSTANTS
  s1 = s1  s2 = s2
  Requests = {1, 2, 3, 4}
  Systems = {s1}
  MaxInFlight = 2
  Free = Free
SPECIFICATION Spec
CONSTRAINT InOrder
INVARIANT FailureRevokesAll
CHECK_DEADLOCK FALSE

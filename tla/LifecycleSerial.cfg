CONSTANTS
  s1 = s1  s2 = s2
  Requests = {1, 2, 3, 4, 11, 12, 13, 14}
  Systems = {s1, s2}
  MaxInFlight = 1
  Free = Free
  Own <- MCOwn
SPECIFICATION SessionSpec
CONSTRAINT InOrder
INVARIANTS
  SessionTypeOK
  RevokedOnce
  FailureRevokesAll
  VerdictsTrue
  BodyAuthorised
  LeftoversExplained
PROPERTY ImplementsMachine
CHECK_DEADLOCK FALSE

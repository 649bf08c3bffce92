CONSTANTS
  n1 = n1
  n2 = n2
  p1 = p1
  p2 = p2
  Session = {s1, s2}
  Name = {n1, n2}
  Password = {p1, p2}
  EMPTY = EMPTY
  Salt = {1}
  Request <- MCRequest
  MaxRequests = 3
  MaxFailures = 1
  MaxBreaks = 1
  MaxCrashes = 1
  NONE = NONE
SPECIFICATION Spec
INVARIANTS ConfirmedOnce ConfirmedStays
PROPERTY ImplementsAccounts
CHECK_DEADLOCK FALSE

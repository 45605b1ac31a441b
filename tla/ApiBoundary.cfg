SPECIFICATION Spec
CONSTANTS
  c1 = c1
  c2 = c2
  q1 = q1
  q2 = q2
  NoRequest = NoRequest
  Callers = {c1, c2}
  Supplied = {c1}
  Requests = {q1, q2}
  Limit = 1
  MaxTries = 1
  MaxFaults = 2
INVARIANTS
  NothingUnaudited
  RefusedWithoutWork
PROPERTIES
  RetriesSucceed
CHECK_DEADLOCK FALSE

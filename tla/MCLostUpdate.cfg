SPECIFICATION Spec
CONSTANTS
  NaN = NaN
  PosInf = PosInf
  NegInf = NegInf
  Garbage = Garbage
  u1 = u1
  u2 = u2
  r1 = r1
  gone = gone
  bad = bad
  Users = {u1, u2}
  Rooms = {r1}
  Missing = {gone}
  Malformed = {}
  Workers = {w1, w2}
  Requests <- Distinct
  NoRequest = NoRequest
  BudgetOf <- Budgets
  IntMax = 10
  MaxRequests = 2
  MaxFaults = 0
  Repeats = FALSE
INVARIANTS
  ReceivedCountsLikes
CHECK_DEADLOCK FALSE

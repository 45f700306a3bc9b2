SPECIFICATION LikesSpec
CONSTANTS
  NaN = NaN
  PosInf = PosInf
  NegInf = NegInf
  Garbage = Garbage
  u1 = u1
  u2 = u2
  r1 = r1
  gone = gone
  bad = bad
  Users = {u1, u2}
  Rooms = {r1}
  Missing = {gone}
  Malformed = {bad}
  Workers = {w1}
  Requests <- Dislikings
  NoRequest = NoRequest
  BudgetOf <- Budgets
  IntMax = 10
  MaxRequests = 1
  MaxFaults = 0
  Repeats = FALSE
  Listers = {l1}
  Lists <- Asked
  NoList = NoList
  NoUser = NoUser
INVARIANTS
  OnlyLikersListed
CHECK_DEADLOCK FALSE

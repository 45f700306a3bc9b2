SPECIFICATION FairSpec
CONSTANTS
  NaN = NaN
  PosInf = PosInf
  NegInf = NegInf
  Garbage = Garbage
  u1 = u1
  u2 = u2
  r1 = r1
  gone = gone
  bad = bad
  Users = {u1, u2}
  Rooms = {}
  Missing = {}
  Malformed = {}
  Workers = {w1, w2, w3}
  Requests <- Likings
  NoRequest = NoRequest
  BudgetOf <- Budgets
  IntMax = 10
  MaxRequests = 3
  MaxFaults = 0
  Repeats = TRUE
INVARIANTS
  MutualLikeMatched
  ReceivedBounds
PROPERTIES
  LikesLeadToMatch
CHECK_DEADLOCK FALSE

SPECIFICATION LikesSpec
CONSTANTS
  NaN = NaN
  PosInf = PosInf
  NegInf = NegInf
  Garbage = Garbage
  u1 = u1
  u2 = u2
  r1 = r1
  gone = gone
  bad = bad
  Users = {u1, u2}
  Rooms = {r1}
  Missing = {gone}
  Malformed = {bad}
  Workers = {w1, w2}
  Requests <- SwipesOnU2
  NoRequest = NoRequest
  BudgetOf <- Budgets
  IntMax = 1
  MaxRequests = 3
  MaxFaults = 1
  Repeats = TRUE
  Listers = {l1}
  Lists <- Asked
  NoList = NoList
  NoUser = NoUser
SYMMETRY Symmetry
INVARIANTS
  LikesTypeOK
  AnsweredLikesListed
  ListedAsRecorded
CHECK_DEADLOCK FALSE

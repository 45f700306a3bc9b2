SPECIFICATION Spec
CONSTANTS
  NaN = NaN
  PosInf = PosInf
  NegInf = NegInf
  Garbage = Garbage
  MaxCount = 2
INVARIANTS
  RankInRange
  BudgetOnlyBreaksTies
CHECK_DEADLOCK FALSE

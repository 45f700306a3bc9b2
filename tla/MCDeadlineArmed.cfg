SPECIFICATION Spec
CONSTANTS
  c1 = c1
  c2 = c2
  Conns = {c1, c2}
  NoConn = NoConn
  Kinds = {"keep", "close"}
  MaxRequests = 2
  MaxAge = 1
INVARIANT DeadlineArmed
CHECK_DEADLOCK FALSE

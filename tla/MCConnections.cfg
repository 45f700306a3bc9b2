SPECIFICATION SmallSpec
CONSTANTS
  c1 = c1
  c2 = c2
  Conns = {c1, c2}
  NoConn = NoConn
  Kinds = {"keep", "close", "stream", "nohost", "upgrade", "unknown", "garbled"}
  MaxRequests = 2
  MaxAge = 1
INVARIANTS TypeOK TasksOwned OpenServed AllAnswered CloseHonoured WrongOnlyIfCut
PROPERTIES KeepsSession SilentClosed
CHECK_DEADLOCK FALSE

SPECIFICATION Spec
CONSTANTS
  c1 = c1
  c2 = c2
  c3 = c3
  N = 2
  Conns = {c1, c2, c3}
  NoWorker = NoWorker
  MaxFailures = 1
INVARIANTS TypeOK Balanced WorkersStay
PROPERTIES TimerAlive AcceptedStarts StopReturns
CHECK_DEADLOCK FALSE

SPECIFICATION FairScheduler
CONSTANTS
  t1 = t1
  t2 = t2
  t3 = t3
  TimeoutID <- MCTimeoutID
  MaxEntries = 2
  Delays = {1, 2}
  Separation = 2
  FD_SET_SIZE = 4
  Fd = {3}
  Jumps = {8}
  MaxLate = 1
  MaxBusy = 1
  MaxWait = 6
  MaxLeft = 4
INVARIANTS
  QueueOrdered
  LoopSurvives
PROPERTY
  TimeoutsDispatched
CHECK_DEADLOCK FALSE

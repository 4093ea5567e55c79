SPECIFICATION FairAssociation
CONSTANTS
  t1 = t1
  t2 = t2
  TimeoutID <- MCTimeoutID
  Params <- MCParams
  Bursts <- MCBursts
  IBurst <- MCIBurst
  MinPolls = {1, 2}
  MaxPolls = {1, 2}
  REACH_BITS = 2
  REACH_SIZE = 4
  MaxInFlight = 1
INVARIANTS
  TimerMatchesMode
  ModeFollowsOperator
  BurstBudget
  PacingMatchesMode
  UnansweredMeansUnreachable
PROPERTY
  BurstEnds

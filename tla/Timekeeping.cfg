SPECIFICATION TimeSpec
CONSTANTS
  Parts = {"clock", "reference", "exchange"}
  h1 = h1
  Handler = {h1}
  nominal_tick = 12
  max_tick_bias = 5
  slew_delta_tick = 4
  Grain = 2
  MAX_ADJUST_WITH_NANOPLL = 5
  MAX_ADJUST_WITH_ADJTIME = 4
  MAX_FASTSLEW_TIMEOUT = 30
  Amounts <- MCAmounts
  Frequencies <- MCFrequencies
  Compensations = {1, 2}
  MaxComp = 2
  Thresholds = {2}
  Ticks = 3
  Changes = 3
  Configs <- MCConfigs
  MaxAge = 4
  Forever = 1000
  a = a
  b = b
  Node <- MCNode
  Peer <- MCPeer
  Steps <- MCSteps
  Pairs <- MCPairs
  Offsets = {0, 3}
  MaxTime = 8
INVARIANTS
  CookedIsIdeal
  TimestampsHold
  SlewsAreEnded
  FallbackSound
  LadderContinues
  LimitsRespected
  LeapDisarmed
  SampleBoundsOffset
  FreshAnswerPasses
PROPERTY
  SamplesAdvance
CHECK_DEADLOCK FALSE

SPECIFICATION MeasurementSpec
CONSTANTS
  MAX_SAMPLES = 4
  REGRESS_RUNS_RATIO = 2
  Delay = {1, 4}
  Measured = {0}
  Gap <- MCGap
  Skew = {1}
  WorstSkew = 1
  Steps <- MCSteps
  MaxTime = 4
  MaxOffset = 1
  MaxDispersion = 1
  Arrays <- MCArrays
  Points <- MCPoints
  MAX_POINTS = 128
  Incr = 3
  Expansions = 2
  s1 = s1
  s2 = s2
  s3 = s3
  s4 = s4
  Source <- MCSource
  Scanned <- MCScanned
  Option = {"normal"}
  Data <- MCData
  REACH_SIZE = 2
  stratum_weight = 4
  reselect_distance = 1
  NoMatch = NoMatch
  Unsynchronised = Unsynchronised
  ScanOffset <- MCScanOffset
  Pair <- MCPair
  PairOption = {"normal", "noselect"}
  PAIR_REACH_SIZE = 4
  Clock <- MCClock
  FilterLength <- MCFilterLength
  Pps = {1}
  DriverPolls <- MCDriverPolls
  Second = 10
  Noise = {0, 1}
  Precision = 0
  Elapse = {5, 16}
  ClockSteps <- MCClockSteps
  MaxError = 10
  Events = 5
  Filters <- MCFilters
SYMMETRY MCSymmetry
INVARIANTS
  MinDelayIsLeast
  ReadsAreRight
  PulsesHold
  MiddleSelected
  RegressionSound
  SelectionSound
PROPERTIES
  LogSpec
  NoHopWithoutSample
CHECK_DEADLOCK FALSE

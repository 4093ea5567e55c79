SPECIFICATION Spec
CONSTANTS
  Arrays = {}
  Points = {}
  MAX_POINTS = 8
  REGRESS_RUNS_RATIO = 2
  Incr = 4
  Expansions = 2
INVARIANT SlopeWithinTolerance
CHECK_DEADLOCK FALSE

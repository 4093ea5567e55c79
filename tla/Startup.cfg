SPECIFICATION StartupSpec
CONSTANTS
  n_sources = 3
  Networks = {"timely", "late", "duplicating"}
  MAX_DEAD_PROBES = 2
  N_GOOD_SAMPLES = 2
  MAX_SAMPLES = 3
  t1 = t1
  t2 = t2
  t3 = t3
  TimeoutID <- MCTimeoutID
  Starts <- MCStarts
  Faults = {"open", "read", "time", "on", "off"}
  MaxRefusals = 1
  INITIAL_SAMPLES = 3
  MAX_RTC_SAMPLES = 5
  NEW_FIRST_WHEN_FULL = 2
  MIN_SAMPLES_FOR_REGRESS = 3
INVARIANTS
  NothingDangling
  SamplesFit
  RtcSound
PROPERTIES
  StartGoesOn
CHECK_DEADLOCK FALSE

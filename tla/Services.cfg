SPECIFICATION ServiceSpec
CONSTANTS
  c1 = c1
  c2 = c2
  Client <- MCClient
  Window = 3
  Margin = 1
  MaxAge = 0
  max_retries = 1
  Kind = {"logon", "change"}
  MaxSeq = 2
  MaxEvents = 4
  MaxTime = 1
  MaxRestarts = 1
  InFlight = 2
  MaxCopies = 1
  Block = 2
  MaxDestinations = 3
  NBITS = 2
  FilterLevels = 2
  Subnet <- MCSubnet
  MaxRules = 3
  LogClient <- MCLogClient
  LogLevels = 3
  SubnetSize = 4
  NodeSize = 2
  PointerSize = 1
  FirstNodes = 1
  Limit = 30
  MaxHits = 6
  KeyId = {1, 2}
  Secret = {1, 2}
  MaxKeys = 2
  MAX_SAMPLES = 3
  Mistakes = {0, 1}
  Corrections <- MCCorrections
  MaxError = 2
  MaxEntries = 5
SYMMETRY MCSymmetry
INVARIANTS
  ExecutedOnce
  SuccessIsOwn
  RetryFindsReply
  AllowedAsRuled
  TablesHold
CHECK_DEADLOCK FALSE

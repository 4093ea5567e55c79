SPECIFICATION FairSpec
CONSTANTS
  a1 = a1
  a2 = a2
  n1 = n1
  n2 = n2
  Address <- MCAddress
  Port = {123, 456}
  Unspecified = Unspecified
  Hash <- MCHash
  Name <- MCName
  Configs <- MCConfigs
  Online = {TRUE}
  Commands = {"online", "offline"}
  N_RECORDS = 3
  MAX_SOURCES = 2
  MaxInterval = 2
  Free = Free
INVARIANTS
  RetryWhileUnresolved
  CommandReachesNames
PROPERTIES
  MapSpec
  NamesResolved

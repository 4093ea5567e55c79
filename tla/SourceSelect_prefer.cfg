SPECIFICATION Spec
CONSTANTS
  s1 = s1
  s2 = s2
  Source <- MCTwoSources
  Option = {"normal", "prefer"}
  Data <- MCNearAndFar
  REACH_SIZE = 4
  stratum_weight = 4
  reselect_distance = 1
  NoMatch = NoMatch
  Unsynchronised = Unsynchronised
PROPERTY
  PreferHonoured

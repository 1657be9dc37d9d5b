SPECIFICATION Spec
CONSTANTS
  Calls = {c1, c2}
  Servers = {s1, s2}
  MaxFaults = 1
SYMMETRY Symm
INVARIANTS StopIsAsked PlayersAreTold ShutdownIsDrained
PROPERTIES TagsMoveDrained UpgradedMeansRestarted
CHECK_DEADLOCK FALSE

SPECIFICATION Spec
CONSTANTS
  h1 = h1
  h2 = h2
  p1 = p1
  p2 = p2
  None = None
  Hosts <- MCHosts
  Status <- MCStatus
  Worlds <- MCWorlds
  StackMax = 2
  Page = 2
  MaxFlight = 2
INVARIANTS CursorInBounds BusyTellsTheTruth WaitingSeesSelection EditHitsItsRow

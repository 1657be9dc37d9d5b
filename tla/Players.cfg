SPECIFICATION Spec
CONSTANTS
  Jobs = {j1, j2}
  None = None
  Clusters <- MCClusters
  Faults = {"refused", "lost", "store"}
  MaxLogins = 1
SYMMETRY MCSymmetry
INVARIANTS
  OfflineWriteSticks
  OwnMessageOnce
  AuditMatchesEffects

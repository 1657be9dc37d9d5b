SPECIFICATION Spec
CONSTANTS
  Admins = {a1, a2}
  Nodes = {n1, n2}
  Maps = {m1}
  Names = {w1, w2}
  MaxRuns = 3
SYMMETRY Symm
INVARIANTS OneWorld ConfigDescribesWorld
PROPERTIES DoneMeansUp
CHECK_DEADLOCK FALSE

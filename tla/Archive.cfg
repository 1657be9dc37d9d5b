SPECIFICATION Spec
CONSTANTS
  Hosts = {h1, h2}
  Starts <- MCStarts
  None = None
  Faulty = TRUE
  MaxSeconds = 1
SYMMETRY MCSymmetry
INVARIANTS
  RecordsKeepTheirFiles
  NeverAcrossBuilds
  PutBackAsRecorded
  OverwritesAreAudited

SPECIFICATION Spec
CONSTANTS
  Sources = {t1, t2}
  Passing = {t1, t2}
  Cores = {e1, e2}
  ValidCores = {e1}
  None = None
  Failed = Failed
  MaxEdits = 1
  MaxCommits = 2
  MaxBuilds = 2
  MaxChurn = 2
CHECK_DEADLOCK FALSE
SYMMETRY Symmetry
INVARIANTS
  CurrentReceiptIsTrue
  PackagedIsOneRelease
  ReleasedReplayIsTrue

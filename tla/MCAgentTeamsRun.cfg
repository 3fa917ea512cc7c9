SPECIFICATION Spec
CHECK_DEADLOCK FALSE
CONSTANTS
  Text = {"old", "new", "overfit", "twice"}
  EXPECTED_OLD = "old"
  Missing = "missing"
  Repair <- MCRepair
  Correct = {"new", "twice"}
  Rest = {"here", "elsewhere", "bare"}
  WithSuites = {"here", "elsewhere"}
  Discriminating = {"here", "elsewhere"}
  Refused = {}
  Risky = {}
  run = run
  oldRun = oldRun
  Run = {run, oldRun}
  NoRun = NoRun
  NoDigest = NoDigest
  Locked = "locked"
  Upgraded = "upgraded"
  NoDecision = "none"
  ThisRun = run
  Session = 1
  Bound <- MCBound
  OtherTree <- MCOtherTree
  OtherCandidate <- MCOtherCandidate
  Leftover <- MCLeftover
  MaxTrouble = 2
  MaxMistakes = 1
INVARIANTS
  TestedAsAttested
  DecidedLast
  OneVoice
  DecidedOnWhatItConsumed
  FaultsDoNotSpoil

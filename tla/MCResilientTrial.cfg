\* Another process may leave a file in the workspace or change the one beside it, beside
\* a few of the Worker faults.
CONSTANTS
  w1 = w1
  w2 = w2
  w3 = w3
  v1 = v1
  v2 = v2
  c1 = c1
  g1 = g1
  ReleaseManager = rm
  FirstWorker = w1
  SecondWorker = w2
  FirstVerifier = v1
  run = run
  priorRun = priorRun
  snapshot = snapshot
  otherSnapshot = otherSnapshot
  artifact = artifact
  forged = forged
  safe = safe
  unsafe = unsafe
  traversal = traversal
  symlink = symlink
  NoRun = NoRun
  NoDigest = NoDigest
  NoPatch = NoPatch
  Actor <- MCMember
  Member <- MCMember
  RoleOf <- MCRoleOf
  proposal_quorum = 2
  verifier_quorum = 2
  challenger_quorum = 1
  governor_quorum = 1
  max_faulty_workers = 1
  WorkerFaults <- MCWorkerFaults
  MaxDisturb = 1
  DisturbedFaults <- FewWorkerFaults
SPECIFICATION FairSpec
INVARIANT NoUnsafeRelease
INVARIANT WrittenOnlyWithEvidence
INVARIANT ReleasedOrRestored
INVARIANT ToleratedFaultsRecover
INVARIANT ReceiptIsTrue
INVARIANT ValidationIsExact
PROPERTY Terminates
CHECK_DEADLOCK FALSE

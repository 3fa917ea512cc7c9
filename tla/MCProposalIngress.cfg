\* Two out of three Workers, one of them faulty.
CONSTANTS
  w1 = w1
  w2 = w2
  w3 = w3
  v1 = v1
  rm = rm
  stranger = stranger
  good = good
  bad = bad
  run = run
  oldRun = oldRun
  snap = snap
  oldSnap = oldSnap
  NoRun = NoRun
  NoDigest = NoDigest
  NoPatch = NoPatch
  Actor <- MCActor
  Member <- MCMember
  RoleOf <- MCRoleOf
  proposal_quorum = 2
  verifier_quorum = 2
  challenger_quorum = 1
  governor_quorum = 1
  max_faulty_workers = 1
  Context <- MCContext
  ProposalPool <- MCProposalPool
SPECIFICATION Spec
INVARIANT TypeOK
INVARIANT GateHasNoWorkerObjection
INVARIANT HonestQuorumPrevails
INVARIANT SelectionHasHonestBacking
INVARIANT SelectionFollowsRule
CHECK_DEADLOCK FALSE

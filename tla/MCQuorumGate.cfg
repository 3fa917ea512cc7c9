\* Every kind of proposal and every kind of attestation, one of the two at a time; one
\* Verifier suffices, so that the other one may disagree.
CONSTANTS
  w1 = w1
  w2 = w2
  w3 = w3
  v1 = v1
  v2 = v2
  c1 = c1
  g1 = g1
  rm = rm
  stranger = stranger
  good = good
  bad = bad
  art1 = art1
  art2 = art2
  run = run
  oldRun = oldRun
  snap = snap
  NoRun = NoRun
  NoDigest = NoDigest
  Actor <- MCActor
  Member <- MCMember
  RoleOf <- MCRoleOf
  proposal_quorum = 2
  verifier_quorum = 1
  challenger_quorum = 1
  governor_quorum = 1
  max_faulty_workers = 1
  Requests <- AllRequests
  ProposalPool <- AllProposals
  AttestationPool <- AllAttestations
SPECIFICATION Spec
CONSTRAINT OneLoopDisputed
INVARIANT TypeOK
INVARIANT DecisionFollowsRule
INVARIANT HonestEndorsement
INVARIANT NobodyCountedTwice
INVARIANT ReleaseIsUndisputed
CHECK_DEADLOCK FALSE

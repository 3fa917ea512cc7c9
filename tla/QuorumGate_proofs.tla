--------------------------- MODULE QuorumGate_proofs ---------------------------
(***************************************************************************)
(* What holds of QuorumGate.evaluate for every membership, every threshold *)
(* the constructor admits and every sequence of messages.  The inductive   *)
(* invariant says what each accumulator of the two loops has gathered: it  *)
(* is always the declarative operator of QuorumRule applied to the set of  *)
(* messages read so far.                                                   *)
(***************************************************************************)
EXTENDS QuorumGate, FiniteSetTheorems, TLAPS

Claims(m) == {p.claimed : p \in {x \in WorkerProposals(proposals) : x.actor = m}}

Seen(m) == {Fingerprint(a) : a \in {x \in ControlAttestations(attestations) : x.actor = m}}

Accumulated ==
  /\ proposal_patches = [m \in Member |-> Claims(m)]
  /\ observed = [m \in Member |-> Seen(m)]
  /\ endorsers = Endorsers(request, proposals)
  /\ approvals = [r \in ControlRole |-> Approvers(request, attestations, r)]
  /\ \A m \in Member : IsFiniteSet(Claims(m)) /\ IsFiniteSet(Seen(m))

RaisedByProposals == UNION {ProposalObjections(request, p) : p \in WorkerProposals(proposals)}

RaisedByAttestations ==
  UNION {AttestationObjections(request, a) : a \in ControlAttestations(attestations)}

Raised ==
  /\ phase = "request" => proposals = {} /\ attestations = {} /\ blocking = {}
  /\ phase = "proposals" =>
       attestations = {} /\ blocking = RequestObjections(request) \union RaisedByProposals
  /\ phase = "attestations" =>
       blocking = RequestObjections(request) \union WorkerObjections(request, proposals)
                    \union RaisedByAttestations
  /\ phase = "decided" => blocking = Blocking(request, proposals, attestations)
  /\ action = IF phase # "decided" THEN "none"
              ELSE IF blocking = {} THEN "release" ELSE "rollback"

IInv == TypeOK /\ Accumulated /\ Raised

-------------------------------------------------------------------------------
(* Lemmas on the messages                                                  *)

LEMMA MoreThanOne ==
  ASSUME NEW S, IsFiniteSet(S)
  PROVE  Cardinality(S) > 1 <=> \E x, y \in S : x # y
<1>1. Cardinality(S) \in Nat
  BY FS_CardinalityType
<1>2. Cardinality(S) = 0 <=> S = {}
  BY FS_EmptySet
<1>3. Cardinality(S) = 1 <=> \E x : S = {x}
  BY FS_Singleton
<1>4. QED
  BY <1>1, <1>2, <1>3

LEMMA WorkerProposalsAdd ==
  ASSUME NEW P, NEW p
  PROVE  WorkerProposals(P \union {p}) =
           WorkerProposals(P) \union (IF Registered(p) /\ p.role = "worker" THEN {p} ELSE {})
BY DEF WorkerProposals

LEMMA ControlAttestationsAdd ==
  ASSUME NEW A, NEW a
  PROVE  ControlAttestations(A \union {a}) =
           ControlAttestations(A) \union
             (IF Registered(a) /\ a.role \in ControlRole THEN {a} ELSE {})
BY DEF ControlAttestations

LEMMA EndorsersRegistered ==
  ASSUME NEW q, NEW P
  PROVE  /\ Endorsers(q, P) \subseteq Member
         /\ IsFiniteSet(Endorsers(q, P))
         /\ \A m \in Endorsers(q, P) : RoleOf[m] = "worker"
<1>1. \A m \in Endorsers(q, P) : m \in Member /\ RoleOf[m] = "worker"
  BY DEF Endorsers, WorkerProposals, Registered
<1>2. QED
  BY <1>1, FS_Subset, MembershipAssumption

LEMMA ApproversRegistered ==
  ASSUME NEW q, NEW A, NEW r
  PROVE  \A m \in Approvers(q, A, r) : m \in Member /\ RoleOf[m] = r
BY DEF Approvers, ControlAttestations, Registered

\* The Workers' loop keeps enough to recognise an equivocation.
LEMMA EquivocationSeen ==
  ASSUME Accumulated
  PROVE  /\ (\E m \in Member : Cardinality(proposal_patches[m]) > 1)
              <=> WorkerEquivocates(proposals)
         /\ (\E m \in Member : Cardinality(observed[m]) > 1)
              <=> ControlEquivocates(attestations)
<1>1. \A m \in Member : Cardinality(proposal_patches[m]) > 1
                          <=> \E x, y \in Claims(m) : x # y
  BY MoreThanOne DEF Accumulated
<1>2. \A m \in Member : Cardinality(observed[m]) > 1 <=> \E x, y \in Seen(m) : x # y
  BY MoreThanOne DEF Accumulated
<1>3. \A p \in WorkerProposals(proposals) : p.actor \in Member
  BY DEF WorkerProposals, Registered
<1>4. \A a \in ControlAttestations(attestations) : a.actor \in Member
  BY DEF ControlAttestations, Registered
<1>5. (\E m \in Member : \E x, y \in Claims(m) : x # y) <=> WorkerEquivocates(proposals)
  <2>1. ASSUME NEW m \in Member, NEW x \in Claims(m), NEW y \in Claims(m), x # y
        PROVE  WorkerEquivocates(proposals)
    BY <2>1 DEF Claims, WorkerEquivocates
  <2>2. ASSUME NEW p1 \in WorkerProposals(proposals), NEW p2 \in WorkerProposals(proposals),
               p1.actor = p2.actor, p1.claimed # p2.claimed
        PROVE  \E m \in Member : \E x, y \in Claims(m) : x # y
    <3>1. p1.claimed \in Claims(p1.actor) /\ p2.claimed \in Claims(p1.actor)
      BY <2>2 DEF Claims
    <3>2. QED
      BY <1>3, <2>2, <3>1
  <2>3. QED
    BY <2>1, <2>2 DEF WorkerEquivocates
<1>6. (\E m \in Member : \E x, y \in Seen(m) : x # y) <=> ControlEquivocates(attestations)
  <2>1. ASSUME NEW m \in Member, NEW x \in Seen(m), NEW y \in Seen(m), x # y
        PROVE  ControlEquivocates(attestations)
    BY <2>1 DEF Seen, ControlEquivocates
  <2>2. ASSUME NEW a1 \in ControlAttestations(attestations),
               NEW a2 \in ControlAttestations(attestations),
               a1.actor = a2.actor, Fingerprint(a1) # Fingerprint(a2)
        PROVE  \E m \in Member : \E x, y \in Seen(m) : x # y
    <3>1. Fingerprint(a1) \in Seen(a1.actor) /\ Fingerprint(a2) \in Seen(a1.actor)
      BY <2>2 DEF Seen
    <3>2. QED
      BY <1>4, <2>2, <3>1
  <2>3. QED
    BY <2>1, <2>2 DEF ControlEquivocates
<1>7. QED
  BY <1>1, <1>2, <1>5, <1>6

-------------------------------------------------------------------------------
(* The inductive invariant                                                 *)

LEMMA InitInvariant == Init => IInv
<1> SUFFICES ASSUME Init PROVE IInv
  OBVIOUS
<1>1. WorkerProposals(proposals) = {} /\ ControlAttestations(attestations) = {}
  BY DEF Init, WorkerProposals, ControlAttestations
<1>2. \A m \in Member : Claims(m) = {} /\ Seen(m) = {}
  BY <1>1 DEF Claims, Seen
<1>3. Endorsers(request, proposals) = {}
  BY <1>1 DEF Endorsers
<1>4. \A r \in ControlRole : Approvers(request, attestations, r) = {}
  BY <1>1 DEF Approvers
<1>5. TypeOK
  BY DEF Init, TypeOK
<1>6. Accumulated
  BY <1>2, <1>3, <1>4, FS_EmptySet DEF Init, Accumulated
<1>7. Raised
  BY DEF Init, Raised
<1>8. QED
  BY <1>5, <1>6, <1>7 DEF IInv

LEMMA StepCheckRequest == IInv /\ CheckRequest => IInv'
<1> SUFFICES ASSUME IInv, CheckRequest PROVE IInv'
  OBVIOUS
<1>1. WorkerProposals(proposals') = {} /\ RaisedByProposals' = {}
  BY DEF IInv, Raised, CheckRequest, WorkerProposals, RaisedByProposals
<1>2. TypeOK'
  BY DEF IInv, TypeOK, CheckRequest, Digest, Fingerprints
<1>3. Accumulated'
  BY DEF IInv, Accumulated, CheckRequest, Claims, Seen
<1>4. Raised'
  BY <1>1 DEF IInv, Raised, CheckRequest
<1>5. QED
  BY <1>2, <1>3, <1>4 DEF IInv

LEMMA StepIgnoreProposal ==
  ASSUME IInv, NEW p \in ProposalPool, IgnoreProposal(p)
  PROVE  IInv'
<1>1. WorkerProposals(proposals') = WorkerProposals(proposals)
  BY WorkerProposalsAdd DEF IgnoreProposal, WorkerProposals
<1>2. TypeOK'
  BY DEF IInv, TypeOK, IgnoreProposal, Digest, Fingerprints
<1>3. Accumulated'
  BY <1>1 DEF IInv, Accumulated, IgnoreProposal, Claims, Seen, Endorsers
<1>4. RaisedByProposals' = RaisedByProposals
  BY <1>1 DEF RaisedByProposals, IgnoreProposal
<1>5. Raised'
  BY <1>4 DEF IInv, Raised, IgnoreProposal
<1>6. QED
  BY <1>2, <1>3, <1>5 DEF IInv

LEMMA StepReadProposal ==
  ASSUME IInv, NEW p \in ProposalPool, ReadProposal(p)
  PROVE  IInv'
<1>1. Registered(p) /\ p.role = "worker" /\ p.actor \in Member
  BY DEF ReadProposal, Claim, WorkerProposals, Registered
<1>2. WorkerProposals(proposals') = WorkerProposals(proposals) \union {p}
  BY <1>1, WorkerProposalsAdd DEF ReadProposal, Claim
<1>3. \A m \in Member : 
        Claims(m)' = IF m = p.actor THEN Claims(m) \union {p.claimed} ELSE Claims(m)
  BY <1>2 DEF Claims
<1>4. TypeOK'
  BY <1>1 DEF IInv, TypeOK, ReadProposal, Claim, Digest, Fingerprints
<1>5. Accumulated'
  <2>1. proposal_patches' = [m \in Member |-> Claims(m)']
    BY <1>1, <1>3 DEF IInv, TypeOK, Accumulated, ReadProposal, Claim
  <2>2. /\ observed' = [m \in Member |-> Seen(m)']
        /\ approvals' = [r \in ControlRole |-> Approvers(request', attestations', r)]
        /\ \A m \in Member : IsFiniteSet(Seen(m)')
    <3>1. \A m \in Member : Seen(m)' = Seen(m)
      BY DEF Seen, ReadProposal, Claim
    <3>2. QED
      BY <3>1 DEF IInv, Accumulated, ReadProposal, Claim
  <2>3. endorsers' = Endorsers(request, proposals)'
    <3>1. /\ endorsers = Endorsers(request, proposals) /\ request' = request
          /\ endorsers' = endorsers \union (IF Endorses(request, p) THEN {p.actor} ELSE {})
      BY DEF IInv, Accumulated, ReadProposal
    <3>2. Endorsers(request, proposals') = endorsers'
      BY <1>2, <3>1 DEF Endorsers
    <3>3. QED
      BY <3>1, <3>2 DEF Endorsers
  <2>4. \A m \in Member : IsFiniteSet(Claims(m)')
    <3>1. \A m \in Member : IsFiniteSet(Claims(m)) /\ IsFiniteSet(Claims(m) \union {p.claimed})
      BY FS_AddElement DEF IInv, Accumulated
    <3>2. QED
      BY <1>3, <3>1
  <2>5. QED
    BY <2>1, <2>2, <2>3, <2>4 DEF Accumulated
<1>6. RaisedByProposals' = RaisedByProposals \union ProposalObjections(request, p)
  BY <1>2 DEF RaisedByProposals, ReadProposal, Claim
<1>7. Raised'
  BY <1>6 DEF IInv, Raised, ReadProposal, Claim
<1>8. QED
  BY <1>4, <1>5, <1>7 DEF IInv

LEMMA StepCountProposals == IInv /\ CountProposals => IInv'
<1> SUFFICES ASSUME IInv, CountProposals PROVE IInv'
  OBVIOUS
<1>1. WorkerQuorumObjections(request, proposals) =
        Raise("WORKER_EQUIVOCATION", \E m \in Member : Cardinality(proposal_patches[m]) > 1)
          \union Raise("PROPOSAL_QUORUM_MISSING", Cardinality(endorsers) < proposal_quorum)
  BY EquivocationSeen DEF IInv, Accumulated, WorkerQuorumObjections, Raise
<1>2. ControlAttestations(attestations') = {} /\ RaisedByAttestations' = {}
  BY DEF IInv, Raised, CountProposals, WorkerEquivocated, ProposalQuorumMissing, ControlAttestations, RaisedByAttestations
<1>3. TypeOK'
  BY DEF IInv, TypeOK, CountProposals, WorkerEquivocated, ProposalQuorumMissing, Digest, Fingerprints
<1>4. Accumulated'
  BY DEF IInv, Accumulated, CountProposals, WorkerEquivocated, ProposalQuorumMissing, Claims, Seen
<1>5. blocking' = RequestObjections(request') \union WorkerObjections(request', proposals')
                    \union RaisedByAttestations'
  <2>1. WorkerObjections(request, proposals) =
          RaisedByProposals \union WorkerQuorumObjections(request, proposals)
    BY DEF WorkerObjections, RaisedByProposals
  <2>2. blocking = RequestObjections(request) \union RaisedByProposals
    BY DEF IInv, Raised, CountProposals, WorkerEquivocated, ProposalQuorumMissing
  <2>3. blocking' = blocking \union WorkerQuorumObjections(request, proposals)
    BY <1>1 DEF CountProposals, WorkerEquivocated, ProposalQuorumMissing
  <2>4. request' = request /\ proposals' = proposals
    BY DEF CountProposals, WorkerEquivocated, ProposalQuorumMissing
  <2>5. QED
    BY <1>2, <2>1, <2>2, <2>3, <2>4
<1>6. Raised'
  BY <1>5 DEF IInv, Raised, CountProposals, WorkerEquivocated, ProposalQuorumMissing
<1>7. QED
  BY <1>3, <1>4, <1>6 DEF IInv

LEMMA StepIgnoreAttestation ==
  ASSUME IInv, NEW a \in AttestationPool, IgnoreAttestation(a)
  PROVE  IInv'
<1>1. ControlAttestations(attestations') = ControlAttestations(attestations)
  BY ControlAttestationsAdd DEF IgnoreAttestation, ControlAttestations
<1>2. TypeOK'
  BY DEF IInv, TypeOK, IgnoreAttestation, Digest, Fingerprints
<1>3. Accumulated'
  BY <1>1 DEF IInv, Accumulated, IgnoreAttestation, Claims, Seen, Approvers
<1>4. RaisedByAttestations' = RaisedByAttestations
  BY <1>1 DEF RaisedByAttestations, IgnoreAttestation
<1>5. Raised'
  BY <1>4 DEF IInv, Raised, IgnoreAttestation
<1>6. QED
  BY <1>2, <1>3, <1>5 DEF IInv

LEMMA StepReadAttestation ==
  ASSUME IInv, NEW a \in AttestationPool, ReadAttestation(a)
  PROVE  IInv'
<1>1. Registered(a) /\ a.role \in ControlRole /\ a.actor \in Member
  BY DEF ReadAttestation, Mark, ControlAttestations, Registered
<1>2. ControlAttestations(attestations') = ControlAttestations(attestations) \union {a}
  BY <1>1, ControlAttestationsAdd DEF ReadAttestation, Mark
<1>3. \A m \in Member :
        Seen(m)' = IF m = a.actor THEN Seen(m) \union {Fingerprint(a)} ELSE Seen(m)
  BY <1>2 DEF Seen
<1>4. \A r \in ControlRole :
        Approvers(request, attestations, r)' =
          Approvers(request, attestations, r) \union
            (IF a.role = r /\ Effective(request, a) /\ a.verdict = "approve"
             THEN {a.actor} ELSE {})
  BY <1>2 DEF Approvers, ReadAttestation, Mark
<1>5. TypeOK'
  BY <1>1 DEF IInv, TypeOK, ReadAttestation, Mark, Digest, Fingerprints
<1>6. Accumulated'
  <2>1. observed' = [m \in Member |-> Seen(m)']
    BY <1>1, <1>3 DEF IInv, TypeOK, Accumulated, ReadAttestation, Mark
  <2>2. \A m \in Member : Claims(m)' = Claims(m)
    BY DEF Claims, ReadAttestation, Mark
  <2>3. approvals' = [r \in ControlRole |-> Approvers(request, attestations, r)']
    BY <1>1, <1>4 DEF IInv, TypeOK, Accumulated, ReadAttestation, Mark
  <2>4. \A m \in Member : IsFiniteSet(Seen(m)')
    <3>1. \A m \in Member :
            IsFiniteSet(Seen(m)) /\ IsFiniteSet(Seen(m) \union {Fingerprint(a)})
      BY FS_AddElement DEF IInv, Accumulated
    <3>2. QED
      BY <1>3, <3>1
  <2>5. QED
    BY <2>1, <2>2, <2>3, <2>4 DEF IInv, Accumulated, ReadAttestation, Mark
<1>7. RaisedByAttestations' = RaisedByAttestations \union AttestationObjections(request, a)
  BY <1>2 DEF RaisedByAttestations, ReadAttestation, Mark
<1>8. Raised'
  BY <1>7 DEF IInv, Raised, ReadAttestation, Mark
<1>9. QED
  BY <1>5, <1>6, <1>8 DEF IInv

LEMMA StepDecide == IInv /\ Decide => IInv'
<1> SUFFICES ASSUME IInv, Decide PROVE IInv'
  OBVIOUS
<1>1. ControlQuorumObjections(request, attestations) =
        Raise("CONTROL_EQUIVOCATION", \E m \in Member : Cardinality(observed[m]) > 1)
          \union {QUORUM_MISSING[r] : r \in {x \in ControlRole :
                                               Cardinality(approvals[x]) < required[x]}}
  BY EquivocationSeen DEF IInv, Accumulated, ControlQuorumObjections, Raise
<1>2. blocking' = Blocking(request', proposals', attestations')
  <2>1. ControlObjections(request, attestations) =
          RaisedByAttestations \union ControlQuorumObjections(request, attestations)
    BY DEF ControlObjections, RaisedByAttestations
  <2>2. blocking = RequestObjections(request) \union WorkerObjections(request, proposals)
                     \union RaisedByAttestations
    BY DEF IInv, Raised, Decide
  <2>3. blocking' = blocking \union ControlQuorumObjections(request, attestations)
    BY <1>1 DEF Decide
  <2>4. request' = request /\ proposals' = proposals /\ attestations' = attestations
    BY DEF Decide
  <2>5. QED
    BY <2>1, <2>2, <2>3, <2>4 DEF Blocking
<1>3. TypeOK'
  BY DEF IInv, TypeOK, Decide, Digest, Fingerprints
<1>4. Accumulated'
  BY DEF IInv, Accumulated, Decide, Claims, Seen
<1>5. Raised'
  BY <1>2 DEF IInv, Raised, Decide
<1>6. QED
  BY <1>3, <1>4, <1>5 DEF IInv

\* Every accumulator of evaluate holds exactly what the rule's operators say of the
\* messages read so far.
THEOREM Invariance == Spec => []IInv
<1>1. ASSUME IInv, UNCHANGED vars PROVE IInv'
  <2>1. TypeOK'
    BY <1>1 DEF IInv, TypeOK, vars, Digest, Fingerprints
  <2>2. Accumulated'
    BY <1>1 DEF IInv, Accumulated, vars, Claims, Seen
  <2>3. Raised'
    BY <1>1 DEF IInv, Raised, vars, RaisedByProposals, RaisedByAttestations
  <2>4. QED
    BY <2>1, <2>2, <2>3 DEF IInv
<1>2. IInv /\ [Next]_vars => IInv'
  BY <1>1, StepCheckRequest, StepIgnoreProposal, StepReadProposal, StepCountProposals,
     StepIgnoreAttestation, StepReadAttestation, StepDecide DEF Next
<1>3. QED
  BY InitInvariant, <1>2, PTL DEF Spec

\* The variables of evaluate keep their types.
THEOREM TypeCorrect == Spec => []TypeOK
<1>1. IInv => TypeOK
  BY DEF IInv
<1>2. QED
  BY Invariance, <1>1, PTL

-------------------------------------------------------------------------------
(* The properties                                                          *)

\* For every membership and configuration, the decision depends on the set of
\* messages presented and on nothing else: order and repetition do not matter.
THEOREM DecisionIsTheRule == Spec => []DecisionFollowsRule
<1>1. IInv => DecisionFollowsRule
  BY DEF IInv, Raised, DecisionFollowsRule, Authorized
<1>2. QED
  BY Invariance, <1>1, PTL

LEMMA ReleaseMeansNoObjection ==
  ASSUME IInv, action = "release"
  PROVE  /\ phase = "decided"
         /\ RequestObjections(request) = {}
         /\ \A p \in WorkerProposals(proposals) : ProposalObjections(request, p) = {}
         /\ WorkerQuorumObjections(request, proposals) = {}
         /\ \A a \in ControlAttestations(attestations) : AttestationObjections(request, a) = {}
         /\ ControlQuorumObjections(request, attestations) = {}
<1>1. phase = "decided" /\ Blocking(request, proposals, attestations) = {}
  BY DEF IInv, Raised
<1>2. /\ RequestObjections(request) = {}
      /\ WorkerObjections(request, proposals) = {}
      /\ ControlObjections(request, attestations) = {}
  BY <1>1 DEF Blocking
<1>3. /\ RaisedByProposals = {}
      /\ WorkerQuorumObjections(request, proposals) = {}
      /\ RaisedByAttestations = {}
      /\ ControlQuorumObjections(request, attestations) = {}
  BY <1>2 DEF WorkerObjections, ControlObjections, RaisedByProposals, RaisedByAttestations
<1>4. /\ \A p \in WorkerProposals(proposals) : ProposalObjections(request, p) = {}
      /\ \A a \in ControlAttestations(attestations) : AttestationObjections(request, a) = {}
  BY <1>3 DEF RaisedByProposals, RaisedByAttestations
<1>5. QED
  BY <1>1, <1>2, <1>3, <1>4

\* A quorum of proposals outnumbers any tolerated set of faulty members.
LEMMA QuorumOutnumbersFaulty ==
  ASSUME NEW Q \in SUBSET Member, NEW F \in SUBSET Member,
         ~(Cardinality(Q) < proposal_quorum), Cardinality(F) <= max_faulty_workers
  PROVE  \E m \in Q : m \notin F
<1>1. IsFiniteSet(Q) /\ IsFiniteSet(F)
  BY FS_Subset, MembershipAssumption
<1>2. Cardinality(Q) \in Nat /\ Cardinality(F) \in Nat
  BY <1>1, FS_CardinalityType
<1>3. Cardinality(Q) > Cardinality(F)
  BY <1>2, QuorumConfigAssumption
<1>4. SUFFICES ASSUME Q \subseteq F PROVE FALSE
  OBVIOUS
<1>5. Cardinality(Q) <= Cardinality(F)
  BY <1>1, <1>4, FS_Subset
<1>6. QED
  BY <1>2, <1>3, <1>5

\* One Worker cannot authorize its own patch, for every membership and every
\* proposal_quorum > max_faulty_workers.
THEOREM SomeHonestWorkerEndorsed == Spec => []HonestEndorsement
<1>1. ASSUME IInv, action = "release",
             NEW F \in SUBSET Member, Cardinality(F) <= max_faulty_workers
      PROVE  \E p \in WorkerProposals(proposals) :
               p.actor \notin F /\ p.patch = request.candidate /\ InRunContext(request, p)
  <2>1. ~(Cardinality(Endorsers(request, proposals)) < proposal_quorum)
    BY <1>1, ReleaseMeansNoObjection DEF WorkerQuorumObjections, Raise
  <2>2. PICK m \in Endorsers(request, proposals) : m \notin F
    BY <1>1, <2>1, EndorsersRegistered, QuorumOutnumbersFaulty
  <2>3. QED
    BY <2>2 DEF Endorsers, Endorses, ProposalIntegrity
<1>2. IInv => HonestEndorsement
  BY <1>1 DEF HonestEndorsement
<1>3. QED
  BY Invariance, <1>2, PTL

\* Separation of duty, for every membership: it rests on RoleOf being a function.
THEOREM SeatsAreDisjoint == Spec => []NobodyCountedTwice
<1>1. ASSUME IInv, action = "release" PROVE NobodyCountedTwice
  <2>1. \A r \in DOMAIN Seats : \A m \in Seats[r] : m \in Member /\ RoleOf[m] = r
    BY <1>1, EndorsersRegistered, ApproversRegistered DEF Seats, IInv, Accumulated
  <2>2. Registered(request) /\ request.role = "release-manager"
    BY <1>1, ReleaseMeansNoObjection DEF RequestObjections, Raise, RequesterAllowed
  <2>3. "release-manager" \notin DOMAIN Seats
    BY DEF Seats, ControlRole, EXPECTED_EVIDENCE
  <2>4. QED
    BY <2>1, <2>2, <2>3 DEF NobodyCountedTwice, Registered
<1>2. IInv => NobodyCountedTwice
  BY <1>1 DEF NobodyCountedTwice
<1>3. QED
  BY Invariance, <1>2, PTL

\* Nothing a registered Worker or control actor says against a release is outvoted.
THEOREM NoOverride == Spec => []ReleaseIsUndisputed
<1>1. ASSUME IInv, action = "release" PROVE ReleaseIsUndisputed
  <2>1. \A p \in WorkerProposals(proposals) : ProposalIntegrity(p) /\ InRunContext(request, p)
    BY <1>1, ReleaseMeansNoObjection DEF ProposalObjections, Raise
  <2>2. ~WorkerEquivocates(proposals)
    BY <1>1, ReleaseMeansNoObjection DEF WorkerQuorumObjections, Raise
  <2>3. \A a \in ControlAttestations(attestations) :
          Effective(request, a) /\ a.verdict # "reject"
    BY <1>1, ReleaseMeansNoObjection DEF AttestationObjections, Raise
  <2>4. ~ControlEquivocates(attestations)
    BY <1>1, ReleaseMeansNoObjection DEF ControlQuorumObjections, Raise
  <2>5. QED
    BY <2>1, <2>2, <2>3, <2>4 DEF ReleaseIsUndisputed
<1>2. IInv => ReleaseIsUndisputed
  BY <1>1 DEF ReleaseIsUndisputed
<1>3. QED
  BY Invariance, <1>2, PTL
===============================================================================

------------------------- MODULE ProposalIngress_proofs -------------------------
(***************************************************************************)
(* What holds of validate_and_select_proposals for every membership, every *)
(* quorum and every batch.  The inductive invariant says that the first    *)
(* loop has gathered the admissible proposals and that the second has one  *)
(* of them for each Worker that it has passed and that proposed one patch. *)
(***************************************************************************)
EXTENDS ProposalIngress, FiniteSetTheorems, TLAPS

\* Every Worker passed and consistent is represented, and nobody else.
Represented ==
  /\ \A p \in accepted : Consistent(p.actor) /\ p.actor \notin pending
  /\ \A x \in valid : Consistent(x.actor) /\ x.actor \notin pending =>
       \E p \in accepted : p.actor = x.actor /\ p.claimed = x.claimed

Phases ==
  /\ phase = "read" => pending = {} /\ accepted = {}
  /\ phase # "read" => Represented
  /\ phase # "selected" => selected = NoPatch
  /\ phase = "selected" =>
       /\ pending = {}
       /\ \/ Eligible = {selected}
          \/ selected = NoPatch /\ ~\E d : Eligible = {d}

IInv == TypeOK /\ valid = Admitted(Context, raw) /\ Phases

-------------------------------------------------------------------------------
(* The inductive invariant                                                 *)

LEMMA AdmittedAdd ==
  ASSUME NEW c, NEW P, NEW p
  PROVE  Admitted(c, P \union {p}) =
           Admitted(c, P) \union (IF Admissible(c, p) THEN {p} ELSE {})
BY DEF Admitted

LEMMA AdmittedSenders ==
  ASSUME NEW c, NEW P, NEW p \in Admitted(c, P)
  PROVE  p \in P /\ p.actor \in Member /\ RoleOf[p.actor] = "worker"
BY DEF Admitted, Admissible, Registered

LEMMA InitInvariant == Init => IInv
BY DEF Init, IInv, TypeOK, Phases, Admitted

LEMMA ReadInvariant ==
  ASSUME IInv, NEW p \in ProposalPool, Admit(p) \/ Quarantine(p)
  PROVE  IInv'
<1>1. valid' = Admitted(Context, raw')
  BY AdmittedAdd DEF IInv, Admit, Quarantine
<1>2. TypeOK'
  BY DEF IInv, TypeOK, Admit, Quarantine
<1>3. phase = "read" /\ phase' = "read" /\ pending' = {} /\ accepted' = {} /\ selected' = NoPatch
  BY DEF IInv, Phases, Admit, Quarantine
<1>4. QED
  BY <1>1, <1>2, <1>3 DEF IInv, Phases

LEMMA EndOfBatchInvariant ==
  ASSUME IInv, EndOfBatch
  PROVE  IInv'
<1>1. \A p \in valid : p.actor \in ValidSenders
  BY DEF ValidSenders
<1>2. ValidSenders \subseteq Member
  BY AdmittedSenders DEF IInv, ValidSenders
<1>3. TypeOK' /\ valid' = Admitted(Context, raw')
  BY <1>2 DEF IInv, TypeOK, EndOfBatch
<1>4. phase = "read" /\ phase' = "group" /\ accepted' = {} /\ selected' = NoPatch
  BY DEF IInv, Phases, EndOfBatch
<1>5. Represented'
  BY <1>1, <1>4 DEF Represented, EndOfBatch
<1>6. QED
  BY <1>3, <1>4, <1>5 DEF IInv, Phases

LEMMA AcceptInvariant ==
  ASSUME IInv, NEW m \in Member, AcceptWorker(m)
  PROVE  IInv'
<1> USE DEF AcceptWorker
<1>1. PICK p \in ValidOf(m) : accepted' = accepted \union {p}
  OBVIOUS
<1>2. p \in valid /\ p.actor = m
  BY DEF ValidOf
<1>3. TypeOK' /\ valid' = Admitted(Context, raw')
  BY <1>1, <1>2 DEF IInv, TypeOK
<1>4. \A k : Consistent(k)' <=> Consistent(k)
  BY DEF Consistent, ValidOf
<1>5. Represented
  BY DEF IInv, Phases
<1>6. Represented'
  <2>1. \A q \in accepted' : Consistent(q.actor)' /\ q.actor \notin pending'
    BY <1>1, <1>2, <1>4, <1>5 DEF Represented
  <2>2. ASSUME NEW x \in valid, Consistent(x.actor), x.actor \notin pending'
        PROVE  \E q \in accepted' : q.actor = x.actor /\ q.claimed = x.claimed
    <3>1. CASE x.actor = m
      <4>1. x.claimed = p.claimed
        BY <1>2, <3>1 DEF Consistent, ValidOf
      <4>2. QED
        BY <1>1, <1>2, <3>1, <4>1
    <3>2. CASE x.actor # m
      BY <1>1, <1>5, <2>2, <3>2 DEF Represented
    <3>3. QED
      BY <3>1, <3>2
  <2>3. QED
    BY <1>4, <2>1, <2>2 DEF Represented
<1>7. QED
  BY <1>3, <1>6 DEF IInv, Phases

LEMMA QuarantineInvariant ==
  ASSUME IInv, NEW m \in Member, QuarantineEquivocator(m)
  PROVE  IInv'
<1> USE DEF QuarantineEquivocator
<1>1. TypeOK' /\ valid' = Admitted(Context, raw')
  BY DEF IInv, TypeOK
<1>2. \A k : Consistent(k)' <=> Consistent(k)
  BY DEF Consistent, ValidOf
<1>3. Represented'
  BY <1>2 DEF IInv, Phases, Represented
<1>4. QED
  BY <1>1, <1>3 DEF IInv, Phases

LEMMA SelectInvariant ==
  ASSUME IInv, Select
  PROVE  IInv'
<1> USE DEF Select
<1>1. \A k : Consistent(k)' <=> Consistent(k)
  BY DEF Consistent, ValidOf
<1>2. Represented'
  BY <1>1 DEF IInv, Phases, Represented
<1>3. Eligible' = Eligible
  BY DEF Eligible
<1>4. Eligible \subseteq Patch
  BY DEF Eligible, Patch, IInv, TypeOK
<1>5. \/ selected' \in Eligible /\ Eligible = {selected'}
      \/ selected' = NoPatch /\ ~\E d : Eligible = {d}
  BY DEF IInv, Phases, OnlyWinner
<1>6. TypeOK' /\ valid' = Admitted(Context, raw')
  BY <1>4, <1>5 DEF IInv, TypeOK, Patch
<1>7. QED
  BY <1>2, <1>3, <1>5, <1>6 DEF IInv, Phases

LEMMA NextInvariant == IInv /\ [Next]_vars => IInv'
<1> SUFFICES ASSUME IInv, [Next]_vars PROVE IInv'
  OBVIOUS
<1>1. CASE \E p \in ProposalPool : Admit(p) \/ Quarantine(p)
  BY <1>1, ReadInvariant
<1>2. CASE EndOfBatch
  BY <1>2, EndOfBatchInvariant
<1>3. CASE \E m \in Member : AcceptWorker(m) \/ QuarantineEquivocator(m)
  BY <1>3, AcceptInvariant, QuarantineInvariant
<1>4. CASE Select
  BY <1>4, SelectInvariant
<1>5. CASE UNCHANGED vars
  <2> USE <1>5 DEF vars
  <2>1. \A k : Consistent(k)' <=> Consistent(k)
    BY DEF Consistent, ValidOf
  <2>2. Represented' <=> Represented
    BY <2>1 DEF Represented
  <2>3. Eligible' = Eligible
    BY DEF Eligible
  <2>4. TypeOK' /\ valid' = Admitted(Context, raw')
    BY DEF IInv, TypeOK
  <2>5. QED
    BY <2>2, <2>3, <2>4 DEF IInv, Phases
<1>6. QED
  BY <1>1, <1>2, <1>3, <1>4, <1>5 DEF Next

\* The ingress keeps its inductive invariant, whatever batch arrives.
THEOREM Invariance == Spec => []IInv
BY InitInvariant, NextInvariant, PTL DEF Spec

\* The variables of the ingress have their types, for every membership and batch.
THEOREM TypeCorrect == Spec => []TypeOK
<1>1. IInv => TypeOK
  BY DEF IInv
<1>2. QED
  BY Invariance, <1>1, PTL

-------------------------------------------------------------------------------
(* The loops compute the rule                                              *)

\* A patch is endorsed by the forwarded proposals of exactly its backers.
LEMMA AcceptedAreBackers ==
  ASSUME IInv, phase = "selected", NEW d
  PROVE  {p.actor : p \in {x \in accepted : x.claimed = d}} = Backers(Context, raw, d)
<1>1. /\ valid = Admitted(Context, raw) /\ accepted \subseteq valid
      /\ Represented /\ pending = {}
  BY DEF IInv, TypeOK, Phases
<1>2. \A m : Consistent(m) <=> ~Equivocates(Context, raw, m)
  BY <1>1 DEF Consistent, ValidOf, Equivocates
<1>3. ASSUME NEW p \in accepted, p.claimed = d
      PROVE  p.actor \in Backers(Context, raw, d)
  BY <1>1, <1>2, <1>3, AdmittedSenders DEF Backers, Represented
<1>4. ASSUME NEW m \in Backers(Context, raw, d)
      PROVE  \E p \in accepted : p.actor = m /\ p.claimed = d
  BY <1>1, <1>2 DEF Backers, Represented
<1>5. QED
  BY <1>3, <1>4

LEMMA BackersFinite ==
  ASSUME NEW c, NEW P, NEW d
  PROVE  /\ Backers(c, P, d) \subseteq Member
         /\ IsFiniteSet(Backers(c, P, d))
         /\ Cardinality(Backers(c, P, d)) \in Nat
BY FS_Subset, FS_CardinalityType, MembershipAssumption DEF Backers

\* A quorum is never empty.
LEMMA QuorumHasBacker ==
  ASSUME NEW c, NEW P, NEW d, Cardinality(Backers(c, P, d)) >= proposal_quorum
  PROVE  \E m : m \in Backers(c, P, d)
<1>1. Cardinality({}) = 0
  BY FS_EmptySet
<1>2. QED
  BY <1>1, QuorumConfigAssumption

LEMMA EligibleAreQuorumPatches ==
  ASSUME IInv, phase = "selected"
  PROVE  Eligible = QuorumPatches(Context, raw)
<1>1. valid = Admitted(Context, raw) /\ accepted \subseteq valid
  BY DEF IInv, TypeOK
<1>2. ASSUME NEW d \in Eligible
      PROVE  d \in QuorumPatches(Context, raw)
  BY <1>1, AcceptedAreBackers DEF Eligible, QuorumPatches
<1>3. ASSUME NEW d \in QuorumPatches(Context, raw)
      PROVE  d \in Eligible
  <2>1. Cardinality({p.actor : p \in {x \in accepted : x.claimed = d}}) >= proposal_quorum
    BY AcceptedAreBackers DEF QuorumPatches
  <2>2. PICK m \in Backers(Context, raw, d) : TRUE
    BY QuorumHasBacker DEF QuorumPatches
  <2>3. d \in {p.claimed : p \in accepted}
    BY <2>2, AcceptedAreBackers
  <2>4. QED
    BY <2>1, <2>3 DEF Eligible
<1>4. QED
  BY <1>2, <1>3

\* The two loops compute the order-free rule, for every batch, its order and its
\* duplicates, and every quorum, small ones under which patches compete included.
THEOREM SelectionIsTheRule == Spec => []SelectionFollowsRule
<1>1. ASSUME IInv, phase = "selected"
      PROVE  selected = SelectedPatch(Context, raw)
  <2>1. Eligible = QuorumPatches(Context, raw)
    BY <1>1, EligibleAreQuorumPatches
  <2>2. Eligible = {selected} \/ (selected = NoPatch /\ ~\E d : Eligible = {d})
    BY <1>1 DEF IInv, Phases
  <2>3. QED
    BY <2>1, <2>2 DEF SelectedPatch
<1>2. ASSUME IInv, phase = "selected"
      PROVE  {<<p.actor, p.claimed>> : p \in accepted} =
               {<<p.actor, p.claimed>> : p \in {x \in Admitted(Context, raw) :
                                                  ~Equivocates(Context, raw, x.actor)}}
  <2>1. /\ valid = Admitted(Context, raw) /\ accepted \subseteq valid
        /\ Represented /\ pending = {}
    BY <1>2 DEF IInv, TypeOK, Phases
  <2>2. \A m : Consistent(m) <=> ~Equivocates(Context, raw, m)
    BY <2>1 DEF Consistent, ValidOf, Equivocates
  <2>3. QED
    BY <2>1, <2>2 DEF Represented
<1>3. IInv => SelectionFollowsRule
  BY <1>1, <1>2 DEF SelectionFollowsRule
<1>4. QED
  BY Invariance, <1>3, PTL

-------------------------------------------------------------------------------
(* What follows from the rule                                              *)

LEMMA MoreThanFaulty ==
  ASSUME NEW F \in SUBSET Member, NEW c, NEW P, NEW d,
         Cardinality(F) <= max_faulty_workers,
         Cardinality(Backers(c, P, d)) >= proposal_quorum
  PROVE  \E m \in Backers(c, P, d) : m \notin F
<1>1. IsFiniteSet(F) /\ Cardinality(F) \in Nat
  BY FS_Subset, FS_CardinalityType, MembershipAssumption
<1>2. SUFFICES ASSUME Backers(c, P, d) \subseteq F PROVE FALSE
  OBVIOUS
<1>3. Cardinality(Backers(c, P, d)) <= Cardinality(F)
  BY <1>1, <1>2, FS_Subset
<1>4. QED
  BY <1>1, <1>3, BackersFinite, QuorumConfigAssumption

LEMMA SelectedHasQuorum ==
  ASSUME IInv, selected # NoPatch
  PROVE  /\ phase = "selected" /\ Eligible = {selected}
         /\ Cardinality(Backers(Context, raw, selected)) >= proposal_quorum
<1>1. phase = "selected" /\ Eligible = {selected}
  BY DEF IInv, Phases, TypeOK
<1>2. QED
  BY <1>1, EligibleAreQuorumPatches DEF QuorumPatches

\* Whatever max_faulty_workers is, a Worker outside any set of that many stands
\* behind the selected patch and behind no other.
THEOREM HonestBacking == Spec => []SelectionHasHonestBacking
<1>1. ASSUME IInv, selected # NoPatch, NEW F \in SUBSET Workers,
             Cardinality(F) <= max_faulty_workers
      PROVE  \E m \in Workers \ F :
               /\ \E p \in raw : p.actor = m /\ Admissible(Context, p) /\ p.patch = selected
               /\ \A p \in raw : p.actor = m /\ Admissible(Context, p) => p.patch = selected
  <2>1. PICK m \in Backers(Context, raw, selected) : m \notin F
    BY <1>1, SelectedHasQuorum, MoreThanFaulty DEF Workers
  <2>2. PICK q \in Admitted(Context, raw) : q.actor = m /\ q.claimed = selected
    BY <2>1 DEF Backers
  <2>3. m \in Workers \ F
    BY <2>1, <2>2, AdmittedSenders DEF Workers
  <2>4. \A p \in raw : p.actor = m /\ Admissible(Context, p) => p.claimed = selected
    BY <2>1, <2>2 DEF Backers, Equivocates, Admitted
  <2>5. \A p : Admissible(Context, p) => p.patch = p.claimed
    BY DEF Admissible, ProposalIntegrity
  <2>6. QED
    BY <2>2, <2>3, <2>4, <2>5 DEF Admitted
<1>2. IInv => SelectionHasHonestBacking
  BY <1>1 DEF SelectionHasHonestBacking
<1>3. QED
  BY Invariance, <1>2, PTL

\* If all Workers but a tolerated number of faulty ones did nothing but propose one
\* patch, that patch is selected whatever the rest of the batch holds.
THEOREM HonestQuorumSelected == Spec => []HonestQuorumPrevails
<1>1. ASSUME IInv, phase = "selected", NEW F \in SUBSET Workers, NEW d \in Patch,
             Cardinality(F) <= max_faulty_workers,
             Cardinality(Workers \ F) >= proposal_quorum,
             \A m \in Workers \ F :
               /\ \E p \in raw : p.actor = m
               /\ \A p \in raw : p.actor = m => Admissible(Context, p) /\ p.claimed = d
      PROVE  selected = d
  <2>1. \A m \in Workers \ F : m \in Member /\ ~Equivocates(Context, raw, m)
    BY <1>1 DEF Workers, Equivocates, Admitted
  <2>2. Workers \ F \subseteq Backers(Context, raw, d)
    BY <1>1, <2>1 DEF Backers, Admitted
  <2>3. Cardinality(Backers(Context, raw, d)) >= proposal_quorum
    <3>1. /\ Cardinality(Workers \ F) <= Cardinality(Backers(Context, raw, d))
          /\ Cardinality(Workers \ F) \in Nat
      BY <2>2, BackersFinite, FS_Subset, FS_CardinalityType
    <3>2. QED
      BY <1>1, <3>1, BackersFinite, QuorumConfigAssumption
  <2>4. d \in Eligible
    <3>1. PICK m \in Backers(Context, raw, d) : TRUE
      BY <2>3, QuorumHasBacker
    <3>2. QED
      BY <1>1, <2>3, <3>1, EligibleAreQuorumPatches DEF QuorumPatches, Backers
  <2>5. ASSUME NEW e \in Eligible
        PROVE  e = d
    <3>1. Cardinality(Backers(Context, raw, e)) >= proposal_quorum
      BY <1>1, EligibleAreQuorumPatches DEF QuorumPatches
    <3>2. PICK m \in Backers(Context, raw, e) : m \notin F
      BY <1>1, <3>1, MoreThanFaulty DEF Workers
    <3>3. PICK p \in Admitted(Context, raw) : p.actor = m /\ p.claimed = e
      BY <3>2 DEF Backers
    <3>4. p \in raw /\ m \in Workers \ F
      BY <3>2, <3>3, AdmittedSenders DEF Workers
    <3>5. QED
      BY <1>1, <3>3, <3>4
  <2>6. Eligible = {d}
    BY <2>4, <2>5
  <2>7. Eligible = {selected} \/ ~\E e : Eligible = {e}
    BY <1>1 DEF IInv, Phases
  <2>8. QED
    BY <2>6, <2>7
<1>2. IInv => HonestQuorumPrevails
  BY <1>1 DEF HonestQuorumPrevails
<1>3. QED
  BY Invariance, <1>2, PTL

\* Whatever was in the batch, what the ingress forwards with a selected patch raises
\* no objection of the gate: a faulty Worker cannot veto the release.
THEOREM NothingToVeto == Spec => []GateHasNoWorkerObjection
<1>1. ASSUME IInv, phase = "selected", selected # NoPatch
      PROVE  WorkerObjections(GateRequest, accepted) = {}
  <2>1. /\ accepted \subseteq Admitted(Context, raw)
        /\ Represented /\ valid = Admitted(Context, raw)
    BY <1>1 DEF IInv, TypeOK, Phases
  <2>2. /\ GateRequest.run = Context.run /\ GateRequest.snapshot = Context.snapshot
        /\ GateRequest.candidate = selected
    BY DEF GateRequest
  <2>3. \A p \in accepted : Registered(p) /\ p.role = "worker" /\ ProposalIntegrity(p)
                             /\ InRunContext(GateRequest, p)
    BY <2>1, <2>2 DEF Admitted, Admissible, InRunContext
  <2>4. \A p \in WorkerProposals(accepted) : ProposalObjections(GateRequest, p) = {}
    BY <2>3 DEF WorkerProposals, ProposalObjections, Raise
  <2>5. ~WorkerEquivocates(accepted)
    BY <2>1 DEF WorkerEquivocates, WorkerProposals, Represented, Consistent, ValidOf
  <2>6. Endorsers(GateRequest, accepted) = {p.actor : p \in {x \in accepted : x.claimed = selected}}
    BY <2>2, <2>3 DEF Endorsers, Endorses, WorkerProposals
  <2>7. ~(Cardinality(Endorsers(GateRequest, accepted)) < proposal_quorum)
    <3>1. Endorsers(GateRequest, accepted) = Backers(Context, raw, selected)
      BY <1>1, <2>6, AcceptedAreBackers
    <3>2. Cardinality(Backers(Context, raw, selected)) >= proposal_quorum
      BY <1>1, SelectedHasQuorum
    <3>3. Cardinality(Backers(Context, raw, selected)) \in Nat
      BY BackersFinite
    <3>4. QED
      BY <3>1, <3>2, <3>3, QuorumConfigAssumption
  <2>8. WorkerQuorumObjections(GateRequest, accepted) = {}
    BY <2>5, <2>7 DEF WorkerQuorumObjections, Raise
  <2>9. UNION {ProposalObjections(GateRequest, p) : p \in WorkerProposals(accepted)} = {}
    BY <2>4
  <2>10. QED
    BY <2>8, <2>9 DEF WorkerObjections
<1>2. IInv => GateHasNoWorkerObjection
  BY <1>1 DEF GateHasNoWorkerObjection
<1>3. QED
  BY Invariance, <1>2, PTL
===============================================================================

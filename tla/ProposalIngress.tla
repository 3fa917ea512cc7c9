---------------------------- MODULE ProposalIngress ----------------------------
(***************************************************************************)
(* validate_and_select_proposals (src/remedyfabric/resilient.py): the      *)
(* typed ingress between the Workers and the gate.  It quarantines invalid *)
(* proposals and equivocating Workers, forwards one proposal per Worker    *)
(* that is left, and selects the patch that reaches the proposal quorum,   *)
(* if exactly one does.                                                    *)
(*                                                                         *)
(* As in QuorumGate, the batch is any sequence over the pool: `raw' is the *)
(* set of proposals read so far.                                           *)
(***************************************************************************)
EXTENDS IngressRule

CONSTANTS
  Context,            \* [run, snapshot] of the recovery the batch is for
  ProposalPool        \* proposals that may arrive

VARIABLES
  phase,
  raw,
  valid,              \* the proposals that passed every check
  pending,            \* Workers with a valid proposal not grouped yet
  accepted,           \* proposals_for_gate
  reasons,            \* reason_codes
  selected

vars == <<phase, raw, valid, pending, accepted, reasons, selected>>

Patch == {p.claimed : p \in ProposalPool}

TypeOK ==
  /\ phase \in {"read", "group", "selected"}
  /\ raw \subseteq ProposalPool
  /\ valid \subseteq raw
  /\ pending \subseteq Member
  /\ accepted \subseteq valid
  /\ selected \in Patch \union {NoPatch}

Init ==
  /\ phase = "read"
  /\ raw = {}
  /\ valid = {}
  /\ pending = {}
  /\ accepted = {}
  /\ reasons = {}
  /\ selected = NoPatch

-------------------------------------------------------------------------------

\* The first check a proposal that is not admissible fails.
QuarantineReason(p) ==
  CASE p.actor \notin Member -> "UNREGISTERED_WORKER_PROPOSAL"
    [] p.actor \in Member /\ ~(Registered(p) /\ p.role = "worker") -> "WORKER_ROLE_MISMATCH"
    [] OTHER -> IF ~ProposalIntegrity(p) THEN "WORKER_PROPOSAL_INTEGRITY_INVALID"
                ELSE IF p.run # Context.run THEN "WORKER_RUN_CONTEXT_MISMATCH"
                ELSE "WORKER_SNAPSHOT_CONTEXT_MISMATCH"

Admit(p) ==
  /\ phase = "read"
  /\ Admissible(Context, p)
  /\ raw' = raw \union {p}
  /\ valid' = valid \union {p}
  /\ UNCHANGED <<phase, pending, accepted, reasons, selected>>

Quarantine(p) ==
  /\ phase = "read"
  /\ ~Admissible(Context, p)
  /\ raw' = raw \union {p}
  /\ reasons' = reasons \union {QuarantineReason(p)}
  /\ UNCHANGED <<phase, valid, pending, accepted, selected>>

\* Mutant: quarantined proposals are grouped too.
AllSenders == {p.actor : p \in raw}

ValidSenders == {p.actor : p \in valid}

EndOfBatch ==
  /\ phase = "read"
  /\ phase' = "group"
  /\ pending' = ValidSenders
  /\ UNCHANGED <<raw, valid, accepted, reasons, selected>>

ValidOf(m) == {p \in valid : p.actor = m}

\* Mutant: the first proposal of a Worker stands, whatever else it sent.
Trusting(m) == m \in Member

Consistent(m) == \A p1, p2 \in ValidOf(m) : p1.claimed = p2.claimed

\* A Worker with one patch is represented by the first of its proposals, which in
\* some arrival order is any of them; the others are duplicates.
AcceptWorker(m) ==
  /\ phase = "group"
  /\ m \in pending
  /\ Consistent(m)
  /\ pending' = pending \ {m}
  /\ \E p \in ValidOf(m) : accepted' = accepted \union {p}
  /\ UNCHANGED <<phase, raw, valid, reasons, selected>>

QuarantineEquivocator(m) ==
  /\ phase = "group"
  /\ m \in pending
  /\ ~Consistent(m)
  /\ pending' = pending \ {m}
  /\ reasons' = reasons \union {"WORKER_EQUIVOCATION_QUARANTINED"}
  /\ UNCHANGED <<phase, raw, valid, accepted, selected>>

\* Mutant: one endorsement more than the quorum.
EligibleAbove ==
  {d \in {p.claimed : p \in accepted} :
     Cardinality({p.actor : p \in {x \in accepted : x.claimed = d}}) > proposal_quorum}

\* The patches with a quorum of accepted proposals.
Eligible ==
  {d \in {p.claimed : p \in accepted} :
     Cardinality({p.actor : p \in {x \in accepted : x.claimed = d}}) >= proposal_quorum}

OnlyWinner(d) == Eligible = {d}

Select ==
  /\ phase = "group"
  /\ pending = {}
  /\ phase' = "selected"
  /\ \/ /\ \E d \in Eligible : OnlyWinner(d) /\ selected' = d
        /\ UNCHANGED reasons
     \/ /\ Eligible = {}
        /\ reasons' = reasons \union {"WORKER_PROPOSAL_QUORUM_MISSING"}
        /\ UNCHANGED selected
     \/ /\ \E d1, d2 \in Eligible : d1 # d2
        /\ reasons' = reasons \union {"WORKER_PROPOSAL_QUORUM_AMBIGUOUS"}
        /\ UNCHANGED selected
  /\ UNCHANGED <<raw, valid, pending, accepted>>

Next ==
  \/ \E p \in ProposalPool : Admit(p) \/ Quarantine(p)
  \/ EndOfBatch
  \/ \E m \in Member : AcceptWorker(m) \/ QuarantineEquivocator(m)
  \/ Select

Spec == Init /\ [][Next]_vars

-------------------------------------------------------------------------------
(* Properties                                                              *)

Workers == {m \in Member : RoleOf[m] = "worker"}

\* What the gate is asked once a patch is selected.
GateRequest == [run |-> Context.run, snapshot |-> Context.snapshot, candidate |-> selected]

\* The ingress hands the gate nothing a Worker can veto a release with: whatever was
\* in the batch, the forwarded proposals raise no objection to the selected patch,
\* their quorum included.
GateHasNoWorkerObjection ==
  phase = "selected" /\ selected # NoPatch => WorkerObjections(GateRequest, accepted) = {}

\* If all Workers but at most max_faulty_workers did nothing but propose one patch,
\* and they are a quorum, that patch is selected whatever the others sent.
HonestQuorumPrevails ==
  phase = "selected" =>
    \A F \in SUBSET Workers : \A d \in Patch :
      /\ Cardinality(F) <= max_faulty_workers
      /\ Cardinality(Workers \ F) >= proposal_quorum
      /\ \A m \in Workers \ F :
           /\ \E p \in raw : p.actor = m
           /\ \A p \in raw : p.actor = m => Admissible(Context, p) /\ p.claimed = d
      => selected = d

\* A selected patch was proposed for this run by a Worker outside any tolerated set
\* of faulty ones, and that Worker proposed no other patch for it.
SelectionHasHonestBacking ==
  selected # NoPatch =>
    \A F \in SUBSET Workers : Cardinality(F) <= max_faulty_workers =>
      \E m \in Workers \ F :
        /\ \E p \in raw : p.actor = m /\ Admissible(Context, p) /\ p.patch = selected
        /\ \A p \in raw : p.actor = m /\ Admissible(Context, p) => p.patch = selected

\* The loops compute the rule: neither the order of arrival, nor duplicates, nor the
\* first-check-wins cascade changes which patch is selected.
SelectionFollowsRule ==
  phase = "selected" =>
    /\ selected = SelectedPatch(Context, raw)
    /\ {<<p.actor, p.claimed>> : p \in accepted} =
         {<<p.actor, p.claimed>> : p \in {x \in Admitted(Context, raw) :
                                            ~Equivocates(Context, raw, x.actor)}}
===============================================================================

------------------------------ MODULE QuorumRule ------------------------------
(***************************************************************************)
(* The release rule of src/remedyfabric/quorum.py and the messages of      *)
(* src/remedyfabric/faults.py it is a rule about: typed Worker proposals,  *)
(* control attestations bound to one run, snapshot and candidate, and the  *)
(* codes that block a release.                                             *)
(*                                                                         *)
(* A SHA-256 digest is modelled by the value it is the digest of: two      *)
(* digests are equal iff their contents are (no collisions).  Hence a      *)
(* `patch' is the executable content of a PatchCandidate (patch_digest     *)
(* leaves diagnosis, reasons and confidence out), and a binding's digest   *)
(* is the binding.                                                         *)
(***************************************************************************)
EXTENDS Naturals, FiniteSets

CONSTANTS
  Actor,              \* every actor id a message can carry
  Member,             \* the actor ids registered with the gate
  RoleOf,             \* the one role each member is registered with
  proposal_quorum, verifier_quorum, challenger_quorum, governor_quorum,
  max_faulty_workers,
  NoRun,              \* the empty run id
  NoDigest            \* a string that is not a SHA-256 digest

AgentRole == {"worker", "verifier", "challenger", "governor", "release-manager"}

\* QuorumGate.__init__ rejects a membership that lists an actor id twice, so the
\* registry is a function.
ASSUME MembershipAssumption ==
  /\ IsFiniteSet(Member)
  /\ Member \subseteq Actor
  /\ RoleOf \in [Member -> AgentRole]

\* QuorumConfig.__post_init__ raises ValueError on any other thresholds.
ASSUME QuorumConfigAssumption ==
  /\ {proposal_quorum, verifier_quorum, challenger_quorum, governor_quorum} \subseteq Nat \ {0}
  /\ max_faulty_workers \in Nat
  /\ proposal_quorum > max_faulty_workers

EXPECTED_EVIDENCE == [verifier |-> "test", challenger |-> "challenge", governor |-> "policy"]

ControlRole == DOMAIN EXPECTED_EVIDENCE

required == [verifier |-> verifier_quorum, challenger |-> challenger_quorum,
             governor |-> governor_quorum]

-------------------------------------------------------------------------------
(* Messages.  A proposal is a record with fields actor, role, run,         *)
(* snapshot, patch and claimed; an attestation has actor, role, verdict,   *)
(* binding and claimed, where the binding has run, candidate, snapshot,    *)
(* kind and artifact.  The free-text detail of an attestation is folded    *)
(* into the artifact: both only make two fingerprints differ.              *)

\* Mutant: only the actor id is looked up.
RegisteredById(m) == m.actor \in Member

\* The identity a message carries is one the registry holds, role included.
Registered(m) == m.actor \in Member /\ RoleOf[m.actor] = m.role

ProposalIntegrity(p) ==
  /\ p.role = "worker"
  /\ p.run # NoRun
  /\ p.snapshot # NoDigest
  /\ p.claimed = p.patch

HasValidShape(b) == b.run # NoRun /\ NoDigest \notin {b.candidate, b.snapshot, b.artifact}

AttestationIntegrity(a) == HasValidShape(a.binding) /\ a.claimed = a.binding

\* The fingerprint covers the digest the actor claims, not the computed one.
Fingerprint(a) == <<a.actor, a.role, a.verdict, a.claimed>>

\* Mutant: the registry is not consulted.
SelfDeclaredWorkers(P) == {p \in P : p.role = "worker"}

WorkerProposals(P) == {p \in P : Registered(p) /\ p.role = "worker"}

ControlAttestations(A) == {a \in A : Registered(a) /\ a.role \in ControlRole}

-------------------------------------------------------------------------------
(* The rule.  A request q carries run, snapshot, candidate and the         *)
(* requester's actor and role; P and A are the proposals and attestations  *)
(* presented with it.                                                      *)

ValidContext(q) == q.run # NoRun /\ q.snapshot # NoDigest

RequesterAllowed(q) == Registered(q) /\ q.role = "release-manager"

InRunContext(q, p) == p.run = q.run /\ p.snapshot = q.snapshot

BoundTo(q, a) == InRunContext(q, a.binding) /\ a.binding.candidate = q.candidate

Endorses(q, p) == ProposalIntegrity(p) /\ InRunContext(q, p) /\ p.claimed = q.candidate

Endorsers(q, P) == {p.actor : p \in {x \in WorkerProposals(P) : Endorses(q, x)}}

\* Sound evidence of the kind the role owes, about exactly this release.
Effective(q, a) ==
  /\ AttestationIntegrity(a)
  /\ BoundTo(q, a)
  /\ a.binding.kind = EXPECTED_EVIDENCE[a.role]

Approvers(q, A, r) ==
  {a.actor : a \in {x \in ControlAttestations(A) :
                      x.role = r /\ Effective(q, x) /\ x.verdict = "approve"}}

WorkerEquivocates(P) ==
  \E p1, p2 \in WorkerProposals(P) : p1.actor = p2.actor /\ p1.claimed # p2.claimed

ControlEquivocates(A) ==
  \E a1, a2 \in ControlAttestations(A) :
    a1.actor = a2.actor /\ Fingerprint(a1) # Fingerprint(a2)

Raise(code, condition) == IF condition THEN {code} ELSE {}

RequestObjections(q) ==
  Raise("REQUESTER_NOT_RELEASE_MANAGER", ~RequesterAllowed(q))
    \union Raise("INVALID_RUN_CONTEXT", ~ValidContext(q))

\* What one proposal of a registered Worker raises: the first check it fails.
ProposalObjections(q, p) ==
  IF ~ProposalIntegrity(p) THEN {"INVALID_PROPOSAL_INTEGRITY"}
  ELSE Raise("PROPOSAL_CONTEXT_MISMATCH", ~InRunContext(q, p))

\* Mutant: a rejection is a missing approval and no more.
ObjectionsButRejection(q, a) ==
  IF ~AttestationIntegrity(a) THEN {"INVALID_ATTESTATION_INTEGRITY"}
  ELSE IF ~BoundTo(q, a) THEN {"ATTESTATION_CONTEXT_MISMATCH"}
  ELSE Raise("EVIDENCE_KIND_MISMATCH", ~Effective(q, a))

\* What one attestation of a registered control actor raises.
AttestationObjections(q, a) ==
  IF ~AttestationIntegrity(a) THEN {"INVALID_ATTESTATION_INTEGRITY"}
  ELSE IF ~BoundTo(q, a) THEN {"ATTESTATION_CONTEXT_MISMATCH"}
  ELSE IF ~Effective(q, a) THEN {"EVIDENCE_KIND_MISMATCH"}
  ELSE Raise("CONTROL_REJECTION", a.verdict = "reject")

WorkerQuorumObjections(q, P) ==
  Raise("WORKER_EQUIVOCATION", WorkerEquivocates(P))
    \union Raise("PROPOSAL_QUORUM_MISSING", Cardinality(Endorsers(q, P)) < proposal_quorum)

QUORUM_MISSING == [verifier |-> "VERIFIER_QUORUM_MISSING",
                   challenger |-> "CHALLENGER_QUORUM_MISSING",
                   governor |-> "GOVERNOR_QUORUM_MISSING"]

ControlQuorumObjections(q, A) ==
  Raise("CONTROL_EQUIVOCATION", ControlEquivocates(A))
    \union {QUORUM_MISSING[r] : r \in {x \in ControlRole :
                                         Cardinality(Approvers(q, A, x)) < required[x]}}

WorkerObjections(q, P) ==
  (UNION {ProposalObjections(q, p) : p \in WorkerProposals(P)}) \union WorkerQuorumObjections(q, P)

ControlObjections(q, A) ==
  (UNION {AttestationObjections(q, a) : a \in ControlAttestations(A)})
    \union ControlQuorumObjections(q, A)

\* The blocking set of one decision; a release needs it empty.
Blocking(q, P, A) == RequestObjections(q) \union WorkerObjections(q, P) \union ControlObjections(q, A)

Authorized(q, P, A) == Blocking(q, P, A) = {}
===============================================================================

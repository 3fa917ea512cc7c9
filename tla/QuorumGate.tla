------------------------------ MODULE QuorumGate ------------------------------
(***************************************************************************)
(* QuorumGate.evaluate, one action per step of its two loops.  The         *)
(* proposals and attestations the caller passes are sequences in any order *)
(* and with any repetition, so a step may read any message of the pools,   *)
(* one read before included: every sequence over the pools is a behaviour. *)
(* `proposals' and `attestations' record which messages have been read;    *)
(* the code's accumulators are the other variables.                        *)
(***************************************************************************)
EXTENDS QuorumRule

CONSTANTS
  Requests,           \* requests the Release Manager or another actor may make
  ProposalPool,       \* proposals that may be presented
  AttestationPool     \* attestations that may be presented

VARIABLES
  request,            \* the arguments run_id, snapshot_digest, candidate, requested_by
  phase,              \* where evaluate is
  proposals, attestations,
  proposal_patches,   \* per Worker, the patch digests it has claimed
  endorsers,
  observed,           \* per control actor, the fingerprints seen
  approvals,
  blocking,
  action              \* "none" until the decision

vars == <<request, phase, proposals, attestations, proposal_patches, endorsers,
          observed, approvals, blocking, action>>

Digest == {p.claimed : p \in ProposalPool}

Fingerprints == {Fingerprint(a) : a \in AttestationPool}

TypeOK ==
  /\ request \in Requests
  /\ phase \in {"request", "proposals", "attestations", "decided"}
  /\ proposals \subseteq ProposalPool
  /\ attestations \subseteq AttestationPool
  /\ proposal_patches \in [Member -> SUBSET Digest]
  /\ endorsers \subseteq Member
  /\ observed \in [Member -> SUBSET Fingerprints]
  /\ approvals \in [ControlRole -> SUBSET Member]
  /\ action \in {"none", "release", "rollback"}

Init ==
  /\ request \in Requests
  /\ phase = "request"
  /\ proposals = {}
  /\ attestations = {}
  /\ proposal_patches = [m \in Member |-> {}]
  /\ endorsers = {}
  /\ observed = [m \in Member |-> {}]
  /\ approvals = [r \in ControlRole |-> {}]
  /\ blocking = {}
  /\ action = "none"

-------------------------------------------------------------------------------

CheckRequest ==
  /\ phase = "request"
  /\ phase' = "proposals"
  /\ blocking' = RequestObjections(request)
  /\ UNCHANGED <<request, proposals, attestations, proposal_patches, endorsers,
                 observed, approvals, action>>

\* A message under an unregistered identity, a borrowed role or a role that may
\* not propose leaves nothing behind but a diagnostic.
IgnoreProposal(p) ==
  /\ phase = "proposals"
  /\ p \notin WorkerProposals(ProposalPool)
  /\ proposals' = proposals \union {p}
  /\ UNCHANGED <<request, phase, attestations, proposal_patches, endorsers,
                 observed, approvals, blocking, action>>

\* The claimed digest is recorded before the proposal is checked.
Claim(p) == {p.claimed}

ReadProposal(p) ==
  /\ phase = "proposals"
  /\ p \in WorkerProposals(ProposalPool)
  /\ proposals' = proposals \union {p}
  /\ proposal_patches' = [proposal_patches EXCEPT ![p.actor] = @ \union Claim(p)]
  /\ blocking' = blocking \union ProposalObjections(request, p)
  /\ endorsers' = endorsers \union (IF Endorses(request, p) THEN {p.actor} ELSE {})
  /\ UNCHANGED <<request, phase, attestations, observed, approvals, action>>

WorkerEquivocated == \E m \in Member : Cardinality(proposal_patches[m]) > 1

\* Mutant: the wrong threshold.
EndorsersTooFew == Cardinality(endorsers) < max_faulty_workers

ProposalQuorumMissing == Cardinality(endorsers) < proposal_quorum

CountProposals ==
  /\ phase = "proposals"
  /\ phase' = "attestations"
  /\ blocking' = blocking
       \union Raise("WORKER_EQUIVOCATION", WorkerEquivocated)
       \union Raise("PROPOSAL_QUORUM_MISSING", ProposalQuorumMissing)
  /\ UNCHANGED <<request, proposals, attestations, proposal_patches, endorsers,
                 observed, approvals, action>>

IgnoreAttestation(a) ==
  /\ phase = "attestations"
  /\ a \notin ControlAttestations(AttestationPool)
  /\ attestations' = attestations \union {a}
  /\ UNCHANGED <<request, phase, proposals, proposal_patches, endorsers,
                 observed, approvals, blocking, action>>

\* Mutant: only the fingerprint of effective evidence is recorded.
MarkIfEffective(a) == IF Effective(request, a) THEN {Fingerprint(a)} ELSE {}

\* The fingerprint is recorded whatever the attestation turns out to be worth.
Mark(a) == {Fingerprint(a)}

ReadAttestation(a) ==
  /\ phase = "attestations"
  /\ a \in ControlAttestations(AttestationPool)
  /\ attestations' = attestations \union {a}
  /\ observed' = [observed EXCEPT ![a.actor] = @ \union Mark(a)]
  /\ blocking' = blocking \union AttestationObjections(request, a)
  /\ approvals' = IF Effective(request, a) /\ a.verdict = "approve"
                  THEN [approvals EXCEPT ![a.role] = @ \union {a.actor}]
                  ELSE approvals
  /\ UNCHANGED <<request, phase, proposals, proposal_patches, endorsers, action>>

Decide ==
  /\ phase = "attestations"
  /\ phase' = "decided"
  /\ blocking' = blocking
       \union Raise("CONTROL_EQUIVOCATION", \E m \in Member : Cardinality(observed[m]) > 1)
       \union {QUORUM_MISSING[r] : r \in {x \in ControlRole :
                                            Cardinality(approvals[x]) < required[x]}}
  /\ action' = IF blocking' = {} THEN "release" ELSE "rollback"
  /\ UNCHANGED <<request, proposals, attestations, proposal_patches, endorsers,
                 observed, approvals>>

Next ==
  \/ CheckRequest
  \/ \E p \in ProposalPool : IgnoreProposal(p) \/ ReadProposal(p)
  \/ CountProposals
  \/ \E a \in AttestationPool : IgnoreAttestation(a) \/ ReadAttestation(a)
  \/ Decide

Spec == Init /\ [][Next]_vars

-------------------------------------------------------------------------------
(* Properties                                                              *)

\* The two loops decide what the rule says of the SET of messages read: neither
\* their order nor their repetition, nor an early `continue', changes a code.
DecisionFollowsRule ==
  phase = "decided" =>
    /\ blocking = Blocking(request, proposals, attestations)
    /\ action = IF Authorized(request, proposals, attestations) THEN "release" ELSE "rollback"

\* One Worker cannot authorize its own patch: whichever max_faulty_workers members
\* are faulty, some other registered Worker proposed exactly the released content
\* for exactly this run and snapshot.
HonestEndorsement ==
  action = "release" =>
    \A F \in SUBSET Member :
      Cardinality(F) <= max_faulty_workers =>
        \E p \in WorkerProposals(proposals) :
          p.actor \notin F /\ p.patch = request.candidate /\ InRunContext(request, p)

\* The members counted towards one threshold of the release.
Seats == [r \in ControlRole \union {"worker"} |->
            IF r = "worker" THEN endorsers ELSE approvals[r]]

\* Separation of duty: nobody is counted towards two thresholds, and whoever asks
\* for the release is counted towards none.
NobodyCountedTwice ==
  action = "release" =>
    /\ \A r1, r2 \in DOMAIN Seats : r1 # r2 => Seats[r1] \intersect Seats[r2] = {}
    /\ request.actor \notin UNION {Seats[r] : r \in DOMAIN Seats}

\* A rejection, a contradiction, or a stale, forged or misdirected message of any
\* registered Worker or control actor cannot be outvoted.
ReleaseIsUndisputed ==
  action = "release" =>
    /\ \A p \in WorkerProposals(proposals) : ProposalIntegrity(p) /\ InRunContext(request, p)
    /\ ~WorkerEquivocates(proposals)
    /\ \A a \in ControlAttestations(attestations) : Effective(request, a) /\ a.verdict # "reject"
    /\ ~ControlEquivocates(attestations)
===============================================================================

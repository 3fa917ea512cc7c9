------------------------- MODULE ResilientTrial_proofs -------------------------
(***************************************************************************)
(* What a trial may do to the governed workspace, proved for every finite  *)
(* membership, every thresholds and every assignment of faults.            *)
(*                                                                         *)
(* An authorized release was approved by a Verifier, which approves only   *)
(* the safe candidate; the candidate was selected by a quorum of Workers   *)
(* whose faults the ingress does not quarantine; and every tampered        *)
(* control blocks the gate.  The rest is bookkeeping: which answers of the *)
(* preauthorization check still hold when the candidate is written.        *)
(*                                                                         *)
(* A trial with tolerated Worker faults only never takes another way than  *)
(* to the release.  And the record it leaves is made of what was sent,     *)
(* staged, judged and decided, so that the validator accepts it exactly    *)
(* when the record is of the trial that was asked for.                     *)
(***************************************************************************)
EXTENDS TrialValidation, FiniteSetTheorems, TLAPS

Binding ==
  [run : {run, priorRun}, snapshot : {snapshot, otherSnapshot}, candidate : {selected},
   kind : {"test", "challenge", "policy"}, artifact : {artifact, forged}]

Attestation ==
  [actor : Control, role : ControlRole, verdict : {"approve", "reject"},
   binding : Binding, claimed : Binding]

Early == {"workers", "stage", "attest", "preauthorize"}

Phase == Early \union {"gate", "materialize", "restore", "verify", "finalize", "done", "aborted"}

Typed ==
  /\ worker_faults \in [Worker -> WorkerFault]
  /\ control_fault \in ControlFault
  /\ pc \in Phase
  /\ emitted \subseteq Worker
  /\ attestations \subseteq Attestation
  /\ \A a \in attestations : a.role = RoleOf[a.actor]
  /\ workspace \in [service : {"faulty", safe, "other"}, stray : BOOLEAN]
  /\ outside \in {"original", "changed"}
  /\ preauth \in [workspace : BOOLEAN, outside : BOOLEAN]
  /\ {authorized, workspace_materialized, verified, candidate_staged, raced} \subseteq BOOLEAN
  /\ disturbed \in Nat

\* A Worker sends what its fault makes it send, and an equivocator both its patches.
Proposed ==
  /\ \A p \in proposals : p.actor \in emitted /\ \E batch \in Emissions(p.actor) : p \in batch
  /\ \A w \in emitted :
       worker_faults[w] = "equivocation" => {Issue(w, safe), Issue(w, unsafe)} \subseteq proposals

\* What was selected and staged does not change any more.
Chosen ==
  /\ pc = "workers" => selected = NoPatch
  /\ selected # NoPatch => selected = SelectedPatch(Context, proposals)
  /\ pc \in {"workers", "stage"} => ~candidate_staged /\ attestations = {}
  /\ candidate_staged => staging = selected

\* A Verifier approves the safe candidate only; evidence is sound until it is tampered with.
Judged ==
  \A a \in attestations :
    /\ a.role = "verifier" /\ a.verdict = "approve" => selected = safe
    /\ pc = "attest" => a.binding.artifact = artifact

\* What each control fault leaves for the gate to find.
Tainted ==
  pc \in {"preauthorize", "gate"} =>
    CASE control_fault = "forged_verifier_evidence" -> \E a \in attestations : a.claimed # a.binding
      [] control_fault = "replayed_verifier_evidence" ->
           \E a \in attestations : a.binding.run # run
      [] control_fault = "verifier_context_mismatch" ->
           \E a \in attestations : a.binding.snapshot # snapshot
      [] control_fault = "release_role_impersonation" -> requested_by = FirstWorker
      [] control_fault = "challenger_crash" -> \A a \in attestations : a.role # "challenger"
      [] control_fault = "governor_crash" -> \A a \in attestations : a.role # "governor"
      [] OTHER -> TRUE

\* What an authorization says.
Granted ==
  /\ pc \in Early \union {"gate"} => ~authorized
  /\ authorized =>
       /\ selected = safe
       /\ control_fault \in {"none", "verifier_timeout"}
       /\ \A a \in attestations : a.verdict = "approve"

\* The answers of the preauthorization check, and when they are still true.
Checked ==
  /\ pc \in Early => ~raced /\ (disturbed = 0 \/ workspace.stray \/ outside = "changed")
  /\ pc \in {"gate", "materialize"} =>
       /\ preauth.workspace /\ ~raced => workspace = Captured
       /\ preauth.outside /\ ~raced => outside = "original"
       /\ preauth.workspace /\ preauth.outside => disturbed = 0

Repaired == [Captured EXCEPT !.service = safe]

Untouched == disturbed = 0 /\ ~raced

\* The governed workspace: what an authorized materialization, a failed one and a restore leave
\* of it, and what the receipt says of it.
Governed ==
  /\ pc \in Early => workspace.service = "faulty"
  /\ workspace.service = safe => authorized
  /\ ~workspace_materialized /\ Untouched /\ pc \notin {"restore", "aborted"} => workspace = Captured
  /\ workspace_materialized =>
       /\ pc \in {"verify", "finalize", "done", "aborted"}
       /\ authorized /\ preauth.workspace /\ preauth.outside /\ disturbed = 0
       /\ raced \/ outside = "original"
       /\ pc \in {"verify", "finalize"} => workspace.service = safe /\ (raced \/ workspace = Repaired)
  /\ pc = "restore" => Cleared
  /\ pc \in Early \union {"gate", "materialize", "restore", "verify"} => ~verified
  /\ verified => workspace_materialized
  /\ pc # "done" => receipt = NoReceipt
  /\ receipt.released =>
       workspace_materialized /\ workspace.service = safe /\ (raced \/ workspace = Repaired)
  /\ ReleasedOrRestored
  /\ ReceiptIsTrue

IInv ==
  /\ Typed /\ Proposed /\ Chosen /\ Judged /\ Tainted /\ Granted /\ Checked /\ Governed

-------------------------------------------------------------------------------
(* Lemmas about the operators.                                             *)

\* An authorization answers every objection of QuorumRule.
LEMMA AuthorizedMeans ==
  ASSUME NEW q, NEW P, NEW A, Authorized(q, P, A), \A a \in A : Registered(a) /\ a.role \in ControlRole
  PROVE  /\ q.role = "release-manager" /\ RoleOf[q.actor] = q.role
         /\ \A a \in A : AttestationIntegrity(a) /\ BoundTo(q, a) /\ a.verdict # "reject"
         /\ \A r \in ControlRole : \E a \in A : a.role = r /\ a.verdict = "approve"
<1>1. RequestObjections(q) = {} /\ ControlObjections(q, A) = {}
  BY DEF Authorized, Blocking
<1>2. RequesterAllowed(q)
  BY <1>1 DEF RequestObjections, Raise
<1>3. ControlAttestations(A) = A
  BY DEF ControlAttestations
<1>4. \A a \in A : AttestationObjections(q, a) = {}
  BY <1>1, <1>3 DEF ControlObjections
<1>5. \A a \in A : AttestationIntegrity(a) /\ BoundTo(q, a) /\ a.verdict # "reject"
  BY <1>4 DEF AttestationObjections, Raise
<1>6. ASSUME NEW r \in ControlRole
      PROVE  \E a \in A : a.role = r /\ a.verdict = "approve"
  <2>1. ControlQuorumObjections(q, A) = {}
    BY <1>1 DEF ControlObjections
  <2>2. ~(Cardinality(Approvers(q, A, r)) < required[r])
    BY <2>1 DEF ControlQuorumObjections
  <2>3. required[r] \in Nat \ {0}
    BY <1>6, QuorumConfigAssumption DEF required, ControlRole, EXPECTED_EVIDENCE
  <2>4. Approvers(q, A, r) # {}
    BY <2>2, <2>3, FS_EmptySet
  <2> QED
    BY <2>4, <1>3 DEF Approvers
<1> QED
  BY <1>2, <1>5, <1>6 DEF RequesterAllowed, Registered

\* A selected patch has a quorum of backers.
LEMMA SelectionHasQuorum ==
  ASSUME NEW c, NEW P, NEW d, d = SelectedPatch(c, P), d # NoPatch
  PROVE  Cardinality(Backers(c, P, d)) >= proposal_quorum
<1>1. d \in QuorumPatches(c, P)
  BY DEF SelectedPatch
<1> QED
  BY <1>1 DEF QuorumPatches

\* Only Workers that are at worst slow back the safe candidate.
LEMMA SafeBackers ==
  ASSUME Typed, Proposed
  PROVE  Backers(Context, proposals, safe)
           \subseteq {w \in Worker : worker_faults[w] \in {"none", "timeout"}}
<1> SUFFICES ASSUME NEW m \in Backers(Context, proposals, safe)
             PROVE  m \in Worker /\ worker_faults[m] \in {"none", "timeout"}
  OBVIOUS
<1>1. /\ ~Equivocates(Context, proposals, m)
      /\ \E p \in proposals : Admissible(Context, p) /\ p.actor = m /\ p.claimed = safe
  BY DEF Backers, Admitted
<1>2. PICK p \in proposals : Admissible(Context, p) /\ p.actor = m /\ p.claimed = safe
  BY <1>1
<1>3. m \in emitted /\ m \in Worker /\ worker_faults[m] \in WorkerFault
  BY <1>2 DEF Typed, Proposed
<1>4. PICK batch \in Emissions(m) : p \in batch
  BY <1>2 DEF Proposed
<1>5. p.role = "worker" /\ p.run = run /\ p.snapshot = snapshot /\ p.patch = safe
  BY <1>2 DEF Admissible, ProposalIntegrity, InRunContext, Context
<1>6. CASE worker_faults[m] = "equivocation"
  <2>1. Issue(m, safe) \in proposals /\ Issue(m, unsafe) \in proposals
    BY <1>3, <1>6 DEF Proposed
  <2>2. \A c \in {safe, unsafe} : Admissible(Context, Issue(m, c))
    BY <1>2, <1>5 DEF Admissible, ProposalIntegrity, InRunContext, Context, Issue, Registered
  <2>3. Equivocates(Context, proposals, m)
    BY <2>1, <2>2, TrialAssumption DEF Equivocates, Admitted, Issue
  <2> QED
    BY <2>3, <1>1
<1>7. CASE worker_faults[m] \in {"crash", "forged", "replay", "unsafe_patch", "traversal",
                                "symlink_path", "context_mismatch", "role_impersonation"}
  BY <1>2, <1>4, <1>5, <1>7, TrialAssumption DEF Emissions, Issue
<1> QED
  BY <1>3, <1>6, <1>7 DEF WorkerFault

\* Whoever is tampered with, what the gate is given is typed, and no verdict changes.
LEMMA TamperedIs ==
  ASSUME Typed, {a.actor : a \in attestations} = Control
  PROVE  /\ Of(FirstVerifier, attestations) \in attestations
         /\ \A x \in Tampered(attestations) :
              /\ x \in Attestation /\ x.role = RoleOf[x.actor]
              /\ \E a \in attestations : a.role = x.role /\ a.verdict = x.verdict
<1> DEFINE v == Of(FirstVerifier, attestations)
<1>1. v \in attestations
  BY TrialAssumption DEF Of
<1>2. \A a \in attestations : a \in Attestation /\ a.role = RoleOf[a.actor]
  BY DEF Typed
<1>3. ASSUME NEW x \in Tampered(attestations), x \notin attestations
      PROVE  x \in Attestation /\ x.actor = v.actor /\ x.role = v.role /\ x.verdict = v.verdict
  <2>1. v \in Attestation
    BY <1>1, <1>2
  <2> HIDE DEF v
  <2>2. x \in {[v EXCEPT !.claimed = [v.binding EXCEPT !.artifact = forged]],
               [v EXCEPT !.binding.run = priorRun, !.claimed.run = priorRun],
               [v EXCEPT !.binding.snapshot = otherSnapshot, !.claimed.snapshot = otherSnapshot]}
    BY <1>3 DEF Tampered, Replacing, v
  <2>3. CASE x = [v EXCEPT !.claimed = [v.binding EXCEPT !.artifact = forged]]
    BY <2>1, <2>3 DEF Attestation, Binding
  <2>4. CASE x = [v EXCEPT !.binding.run = priorRun, !.claimed.run = priorRun]
    BY <2>1, <2>4 DEF Attestation, Binding
  <2>5. CASE x = [v EXCEPT !.binding.snapshot = otherSnapshot, !.claimed.snapshot = otherSnapshot]
    BY <2>1, <2>5 DEF Attestation, Binding
  <2> QED
    BY <2>2, <2>3, <2>4, <2>5
<1> QED
  BY <1>1, <1>2, <1>3

-------------------------------------------------------------------------------
(* The invariant: it holds initially, and each step preserves each part.   *)

LEMMA IInvInit == Init => IInv
<1> SUFFICES ASSUME Init PROVE IInv
  OBVIOUS
<1>1. Typed
  BY TrialAssumption DEF Init, Typed, Phase, Early, Captured
<1>2. Proposed /\ Chosen /\ Judged /\ Tainted /\ Granted /\ Checked
  BY DEF Init, Proposed, Chosen, Judged, Tainted, Granted, Checked, Early
<1>3. Governed
  BY TrialAssumption DEF Init, Governed, Early, Captured, NoReceipt, ReleasedOrRestored, ReceiptIsTrue,
                         Done, Untouched, Candidate
<1> QED
  BY <1>1, <1>2, <1>3 DEF IInv

\* A candidate is written only where Applicable says, so that it never leaves the workspace.
LEMMA NothingEscapes ==
  ASSUME NEW c, NEW service, Applicable(c, service)
  PROVE  WrittenOutside(c) = outside
  BY DEF Applicable, WrittenOutside

LEMMA TypedStep == IInv /\ [Next]_vars => Typed'
<1> SUFFICES ASSUME IInv, [Next]_vars PROVE Typed'
  OBVIOUS
<1> USE DEF Typed, Phase, Early
<1>1. ASSUME NEW w \in Worker, EmitWorker(w) PROVE Typed'
  BY <1>1 DEF IInv, EmitWorker, Attestation, Binding, faults, history
<1>2. CASE SelectProposal
  BY <1>2 DEF IInv, SelectProposal, Chosen, faults, history
<1>3. CASE StageCandidate
  BY <1>3, NothingEscapes DEF IInv, StageCandidate, Attestation, Binding, faults
<1>4. ASSUME NEW m \in Control, BuildControl(m) PROVE Typed'
  <2>1. RoleOf[m] \in {"verifier", "challenger", "governor"}
    BY DEF Control, ControlRole, EXPECTED_EVIDENCE
  <2>2. \A verdict \in {"approve", "reject"} :
          Attest(m, verdict) \in Attestation /\ Attest(m, verdict).role = RoleOf[m]
                                            /\ Attest(m, verdict).actor = m
    BY <2>1 DEF Attest, Attestation, Binding, ControlRole, EXPECTED_EVIDENCE
  <2>3. selected' = selected /\ Attestation' = Attestation
    BY <1>4 DEF BuildControl, Attestation, Binding
  <2>4. attestations' \subseteq Attestation /\ \A a \in attestations' : a.role = RoleOf[a.actor]
    BY <1>4, <2>2 DEF IInv, BuildControl
  <2> QED
    BY <1>4, <2>3, <2>4 DEF IInv, BuildControl, faults
<1>5. CASE InjectControlFault
  <2>1. /\ Tampered(attestations) \subseteq Attestation
        /\ \A a \in Tampered(attestations) : a.role = RoleOf[a.actor]
    BY <1>5, TamperedIs DEF IInv, InjectControlFault
  <2>2. Attestation' = Attestation
    BY <1>5 DEF InjectControlFault, Attestation, Binding
  <2> QED
    BY <1>5, <2>1, <2>2 DEF IInv, InjectControlFault, faults, history
<1>6. CASE Preauthorize
  BY <1>6 DEF IInv, Preauthorize, Attestation, Binding, faults, history
<1>7. CASE Decide
  BY <1>7 DEF IInv, Decide, Authorized, Attestation, Binding, faults, history
<1>8. CASE Materialize
  BY <1>8, NothingEscapes DEF IInv, Materialize, Cleared, Granted, Attestation, Binding, faults, history
<1>9. CASE MaterializeFails
  <2>1. workspace' \in [service : {"faulty", safe, "other"}, stray : BOOLEAN]
    <3>1. authorized /\ selected = safe
      BY <1>9 DEF IInv, Granted, MaterializeFails, Cleared
    <3>2. workspace' \in [service : {workspace.service, safe}, stray : {workspace.stray, TRUE}]
          \/ workspace' = workspace
      BY <1>9, <3>1 DEF MaterializeFails
    <3> QED
      BY <3>1, <3>2 DEF IInv
  <2> QED
    BY <1>9, <2>1 DEF IInv, MaterializeFails, Attestation, Binding, faults
<1>10. CASE VerifyRelease
  BY <1>10 DEF IInv, VerifyRelease, Attestation, Binding, faults
<1>11. CASE Finalize
  BY <1>11 DEF IInv, Finalize, FinalWorkspace, Restored, Captured, Attestation, Binding, faults, history
<1>12. CASE Abort
  BY <1>12 DEF IInv, Abort, Attestation, Binding, faults
<1>13. CASE Disturb
  <2>1. /\ workspace' \in [service : {"faulty", safe, "other"}, stray : BOOLEAN]
        /\ outside' \in {"original", "changed"}
    BY <1>13 DEF IInv, Disturb
  <2>2. disturbed' \in Nat
    BY <1>13 DEF IInv, Disturb
  <2> QED
    BY <1>13, <2>1, <2>2 DEF IInv, Disturb, Attestation, Binding, faults
<1>14. CASE Withhold
  BY <1>14 DEF IInv, Withhold, Attestation, Binding, faults, history
<1>15. CASE UNCHANGED vars
  BY <1>15 DEF IInv, vars, Attestation, Binding
<1>16. CASE RestoreTorn
  BY <1>16 DEF IInv, RestoreTorn, Restored, Captured, Attestation, Binding, faults, history
<1>17. CASE RestoreFails
  <2>1. workspace' \in [service : {"faulty", safe, "other"}, stray : BOOLEAN]
    BY <1>17 DEF IInv, RestoreFails
  <2> QED
    BY <1>17, <2>1 DEF IInv, RestoreFails, Attestation, Binding, faults
<1>18. CASE Race
  <2>1. /\ workspace' \in [service : {"faulty", safe, "other"}, stray : BOOLEAN]
        /\ outside' \in {"original", "changed"}
    BY <1>18 DEF IInv, Race
  <2> QED
    BY <1>18, <2>1 DEF IInv, Race, Attestation, Binding, faults
<1> QED
  BY <1>1, <1>2, <1>3, <1>4, <1>5, <1>6, <1>7, <1>8, <1>9, <1>10, <1>11, <1>12, <1>13, <1>14, <1>15,
     <1>16, <1>17, <1>18
     DEF Next, Step

\* Whatever a Worker sends carries its own name.
LEMMA EmittedAs ==
  ASSUME NEW w \in Worker, worker_faults[w] \in WorkerFault, NEW batch \in Emissions(w),
         NEW p \in batch
  PROVE  p.actor = w
<1> DEFINE honest == Issue(w, safe)
<1>1. \A c : Issue(w, c).actor = w
  BY DEF Issue
<1>2. [honest EXCEPT !.claimed = forged].actor = w
  BY DEF Issue
<1>3. [honest EXCEPT !.run = priorRun].actor = w
  BY DEF Issue
<1>4. [honest EXCEPT !.snapshot = otherSnapshot].actor = w
  BY DEF Issue
<1>5. [honest EXCEPT !.role = "release-manager"].actor = w
  BY DEF Issue
<1>6. CASE worker_faults[w] \in {"forged", "replay", "context_mismatch", "role_impersonation"}
  BY <1>2, <1>3, <1>4, <1>5, <1>6 DEF Emissions
<1>7. CASE worker_faults[w] \in {"none", "crash", "timeout", "equivocation", "unsafe_patch",
                                "traversal", "symlink_path"}
  BY <1>1, <1>7 DEF Emissions
<1> QED
  BY <1>6, <1>7 DEF WorkerFault

LEMMA ProposedStep == IInv /\ [Next]_vars => Proposed'
<1> SUFFICES ASSUME IInv, [Next]_vars PROVE Proposed'
  OBVIOUS
<1>1. ASSUME NEW w \in Worker, EmitWorker(w) PROVE Proposed'
  <2>1. worker_faults' = worker_faults /\ emitted' = emitted \union {w} /\ w \notin emitted
    BY <1>1 DEF EmitWorker, faults
  <2>2. PICK batch \in Emissions(w) : proposals' = proposals \union batch
    BY <1>1 DEF EmitWorker
  <2>3. \A p \in batch : p.actor = w
    BY <2>2, EmittedAs DEF IInv, Typed
  <2>4. worker_faults[w] = "equivocation" => batch = {Issue(w, safe), Issue(w, unsafe)}
    BY <2>2 DEF Emissions
  <2>5. \A m : Emissions(m)' = Emissions(m)
    BY <2>1 DEF Emissions
  <2>6. ASSUME NEW p \in proposals'
        PROVE  p.actor \in emitted' /\ \E b \in Emissions(p.actor)' : p \in b
    BY <2>1, <2>2, <2>3, <2>5 DEF IInv, Proposed
  <2>7. ASSUME NEW m \in emitted', worker_faults'[m] = "equivocation"
        PROVE  {Issue(m, safe), Issue(m, unsafe)} \subseteq proposals'
    BY <2>1, <2>2, <2>4, <2>7 DEF IInv, Proposed
  <2> QED
    BY <2>6, <2>7 DEF Proposed
<1>2. CASE UNCHANGED <<worker_faults, emitted, proposals>>
  BY <1>2 DEF IInv, Proposed, Emissions
<1> QED
  BY <1>1, <1>2 DEF Next, Step, vars, SelectProposal, StageCandidate, BuildControl, InjectControlFault,
    Preauthorize, Decide, Materialize, MaterializeFails, RestoreTorn, Withhold, VerifyRelease, Finalize, Abort,
    RestoreFails, Disturb, Race, faults

\* Everything after the Workers leaves what they sent and what was selected alone.
Afterwards ==
  \/ StageCandidate \/ InjectControlFault \/ Preauthorize \/ Decide \/ Materialize
  \/ MaterializeFails \/ RestoreTorn \/ Withhold \/ VerifyRelease \/ Finalize
  \/ \E m \in Control : BuildControl(m)

LEMMA ChosenStep == IInv /\ [Next]_vars => Chosen'
<1> SUFFICES ASSUME IInv, [Next]_vars PROVE Chosen'
  OBVIOUS
<1> USE DEF IInv, Chosen, Context
<1>1. ASSUME NEW w \in Worker, EmitWorker(w) PROVE Chosen'
  BY <1>1 DEF EmitWorker
<1>2. CASE SelectProposal
  BY <1>2, TrialAssumption DEF SelectProposal
<1>3. CASE StageCandidate
  BY <1>3 DEF StageCandidate
<1>4. CASE Abort \/ Disturb
  BY <1>4 DEF Abort, Disturb
<1>5. CASE MaterializeFails \/ RestoreFails \/ Race
  <2>1. /\ UNCHANGED <<proposals, selected, staging, candidate_staged, attestations>>
        /\ pc \notin {"workers", "stage"} /\ pc' \notin {"workers", "stage"}
    BY <1>5 DEF MaterializeFails, RestoreFails, Race
  <2> QED
    BY <2>1
<1>6. CASE (Afterwards /\ ~StageCandidate /\ ~MaterializeFails) \/ UNCHANGED vars
  BY <1>6 DEF Afterwards, BuildControl, InjectControlFault, Preauthorize, Decide, Materialize,
    RestoreTorn, Withhold, VerifyRelease, Finalize, vars
<1> QED
  BY <1>1, <1>2, <1>3, <1>4, <1>5, <1>6 DEF Next, Step, Afterwards

LEMMA JudgedStep == IInv /\ [Next]_vars => Judged'
<1> SUFFICES ASSUME IInv, [Next]_vars PROVE Judged'
  OBVIOUS
<1> USE DEF IInv, Judged
<1>1. CASE SelectProposal
  BY <1>1 DEF SelectProposal, Chosen
<1>2. ASSUME NEW m \in Control, BuildControl(m) PROVE Judged'
  <2>1. PICK verdict : /\ attestations' = attestations \union {Attest(m, verdict)}
                       /\ verdict = "approve" => Satisfied(RoleOf[m])
    BY <1>2 DEF BuildControl
  <2>2. Satisfied("verifier") => selected = safe
    BY TrialAssumption DEF Satisfied, VisiblePass, InvariantPass, Chosen, Candidate
  <2>3. /\ Attest(m, verdict).binding.artifact = artifact
        /\ Attest(m, verdict).role = RoleOf[m] /\ Attest(m, verdict).verdict = verdict
    BY DEF Attest
  <2> QED
    BY <1>2, <2>1, <2>2, <2>3 DEF BuildControl
<1>3. CASE InjectControlFault
  BY <1>3, TamperedIs DEF InjectControlFault
<1>4. CASE UNCHANGED <<selected, attestations>> /\ (pc' # "attest" \/ pc' = pc)
  BY <1>4
<1>5. CASE StageCandidate
  BY <1>5 DEF StageCandidate, Chosen
<1> QED
  BY <1>1, <1>2, <1>3, <1>4, <1>5 DEF Next, Step, vars, EmitWorker, Preauthorize, Decide, Materialize,
    MaterializeFails, RestoreTorn, Withhold, VerifyRelease, Finalize, Abort,
    RestoreFails, Disturb, Race

LEMMA TaintedStep == IInv /\ [Next]_vars => Tainted'
<1> SUFFICES ASSUME IInv, [Next]_vars PROVE Tainted'
  OBVIOUS
<1>1. CASE InjectControlFault
  <2> DEFINE v == Of(FirstVerifier, attestations)
  <2>1. v \in attestations /\ v \in Attestation /\ v.binding.artifact = artifact
    BY <1>1, TamperedIs DEF IInv, Typed, Judged, InjectControlFault
  <2>2. /\ attestations' = Tampered(attestations) /\ requested_by' = Requester
        /\ control_fault' = control_fault
    BY <1>1 DEF InjectControlFault, faults
  <2> HIDE DEF v
  <2>3. CASE control_fault = "forged_verifier_evidence"
    <3>1. [v EXCEPT !.claimed = [v.binding EXCEPT !.artifact = forged]] \in attestations'
      BY <2>2, <2>3 DEF Tampered, Replacing, v
    <3>2. [v.binding EXCEPT !.artifact = forged] # v.binding
      BY <2>1, TrialAssumption DEF Attestation, Binding
    <3> QED
      BY <2>1, <2>2, <2>3, <3>1, <3>2 DEF Tainted, Attestation
  <2>4. CASE control_fault = "replayed_verifier_evidence"
    <3>1. [v EXCEPT !.binding.run = priorRun, !.claimed.run = priorRun] \in attestations'
      BY <2>2, <2>4 DEF Tampered, Replacing, v
    <3> QED
      BY <2>1, <2>2, <2>4, <3>1, TrialAssumption DEF Tainted, Attestation, Binding
  <2>5. CASE control_fault = "verifier_context_mismatch"
    <3>1. [v EXCEPT !.binding.snapshot = otherSnapshot, !.claimed.snapshot = otherSnapshot]
            \in attestations'
      BY <2>2, <2>5 DEF Tampered, Replacing, v
    <3> QED
      BY <2>1, <2>2, <2>5, <3>1, TrialAssumption DEF Tainted, Attestation, Binding
  <2> QED
    BY <2>2, <2>3, <2>4, <2>5 DEF Tainted, Tampered, Requester
<1>2. CASE Preauthorize \/ UNCHANGED vars
  BY <1>2 DEF IInv, Tainted, Preauthorize, vars, faults
<1>3. CASE pc' \notin {"preauthorize", "gate"}
  BY <1>3 DEF Tainted
<1>4. CASE Disturb \/ Race
  BY <1>4 DEF IInv, Tainted, Disturb, Race, faults
<1> QED
  BY <1>1, <1>2, <1>3, <1>4 DEF Next, Step, EmitWorker, SelectProposal, StageCandidate, BuildControl,
    Decide, Materialize, MaterializeFails, RestoreTorn, Withhold, VerifyRelease, Finalize, Abort, RestoreFails

\* The gate authorizes only what untampered controls approved.
LEMMA GrantedStep == IInv /\ [Next]_vars => Granted'
<1> SUFFICES ASSUME IInv, [Next]_vars PROVE Granted'
  OBVIOUS
<1>1. CASE Decide
  <2> DEFINE q == Request
  <2>1. SUFFICES ASSUME Authorized(q, proposals_for_gate, attestations)
                 PROVE  /\ selected = safe
                        /\ control_fault \in {"none", "verifier_timeout"}
                        /\ \A a \in attestations : a.verdict = "approve"
    BY <1>1 DEF Decide, Granted, Early, faults
  <2>2. \A a \in attestations : a \in Attestation /\ a.role = RoleOf[a.actor]
    BY DEF IInv, Typed
  <2>3. \A a \in attestations : Registered(a) /\ a.role \in ControlRole
    BY <2>2 DEF Registered, Attestation, Control
  <2> HIDE DEF q
  <2>4. /\ q.role = "release-manager" /\ RoleOf[q.actor] = q.role
        /\ \A a \in attestations : AttestationIntegrity(a) /\ BoundTo(q, a) /\ a.verdict # "reject"
        /\ \A r \in ControlRole : \E a \in attestations : a.role = r /\ a.verdict = "approve"
    BY <2>1, <2>3, AuthorizedMeans
  <2>5. \A r \in {"verifier", "challenger", "governor"} :
          \E a \in attestations : a.role = r /\ a.verdict = "approve"
    BY <2>4 DEF ControlRole, EXPECTED_EVIDENCE
  <2>6. selected = safe
    BY <2>5 DEF IInv, Judged
  <2>7. requested_by # FirstWorker
    BY <2>4, TrialAssumption DEF q, Request, Worker
  <2>8. \A a \in attestations :
          a.claimed = a.binding /\ a.binding.run = run /\ a.binding.snapshot = snapshot
    BY <2>4 DEF AttestationIntegrity, BoundTo, InRunContext, q, Request
  <2>9. control_fault \in {"none", "verifier_timeout"}
    <3>1. control_fault \in ControlFault /\ pc = "gate" /\ Tainted
      BY <1>1 DEF IInv, Typed, Decide
    <3> QED
      BY <3>1, <2>5, <2>7, <2>8 DEF Tainted, ControlFault
  <2> QED
    BY <2>2, <2>4, <2>6, <2>9 DEF Attestation
<1>2. CASE UNCHANGED <<control_fault, selected, attestations, authorized>>
           /\ (pc' \in Early \union {"gate"} => pc \in Early \union {"gate"})
  BY <1>2 DEF IInv, Granted
<1>3. CASE pc \in {"workers", "attest"} /\ UNCHANGED authorized
  BY <1>3 DEF IInv, Granted, Early
<1> QED
  BY <1>1, <1>2, <1>3 DEF Next, Step, vars, EmitWorker, SelectProposal, StageCandidate, BuildControl,
    InjectControlFault, Preauthorize, Materialize, MaterializeFails, RestoreTorn, Withhold, VerifyRelease,
    Finalize, Abort,
    RestoreFails, Disturb, Race, faults, Early

LEMMA CheckedStep == IInv /\ [Next]_vars => Checked'
<1> SUFFICES ASSUME IInv, [Next]_vars PROVE Checked'
  OBVIOUS
<1> USE DEF Checked, Early
<1>1. CASE StageCandidate
  BY <1>1, NothingEscapes DEF IInv, StageCandidate
<1>2. CASE Preauthorize
  <2>1. /\ preauth'.workspace <=> (workspace = Captured)
        /\ preauth'.outside <=> (outside = "original")
    BY <1>2 DEF Preauthorize
  <2>2. ~raced /\ (disturbed = 0 \/ workspace.stray \/ outside = "changed")
    BY <1>2 DEF IInv, Preauthorize
  <2>3. workspace = Captured => ~workspace.stray
    BY DEF Captured
  <2>4. pc' = "gate" /\ UNCHANGED <<workspace, outside, disturbed, raced>>
    BY <1>2 DEF Preauthorize, history
  <2> QED
    BY <2>1, <2>2, <2>3, <2>4
<1>3. CASE Disturb
  BY <1>3 DEF IInv, Typed, Disturb
<1>4. CASE UNCHANGED <<workspace, outside, preauth, disturbed, raced>>
           /\ (pc' \in Early => pc \in Early)
           /\ (pc' \in {"gate", "materialize"} => pc \in {"gate", "materialize"})
  BY <1>4 DEF IInv
<1>5. CASE pc' \notin Early \union {"gate", "materialize"}
  BY <1>5
<1>6. CASE Race
  BY <1>6 DEF IInv, Race
<1> QED
  BY <1>1, <1>2, <1>3, <1>4, <1>5, <1>6 DEF Next, Step, vars, EmitWorker, SelectProposal, BuildControl,
    InjectControlFault, Decide, Materialize, MaterializeFails, RestoreTorn, Withhold, VerifyRelease, Finalize,
    Abort, RestoreFails, faults, history

LEMMA GovernedStep == IInv /\ [Next]_vars => Governed'
<1> SUFFICES ASSUME IInv, [Next]_vars PROVE Governed'
  OBVIOUS
<1> USE DEF Governed, Early, ReleasedOrRestored, ReceiptIsTrue, Done, NoReceipt, Untouched
<1>0. safe # "faulty" /\ safe # "other"
  BY TrialAssumption DEF Candidate
<1>1. CASE StageCandidate
  BY <1>1, NothingEscapes DEF IInv, StageCandidate
<1>2. CASE Materialize
  <2>1. authorized /\ preauth.workspace /\ preauth.outside /\ selected = safe /\ disturbed = 0
        /\ receipt = NoReceipt /\ ~verified /\ (~raced => workspace = Captured /\ outside = "original")
    BY <1>2 DEF IInv, Materialize, Cleared, Granted, Checked
  <2>2. /\ workspace' = [workspace EXCEPT !.service = safe] /\ outside' = outside
        /\ workspace_materialized' /\ pc' = "verify"
    BY <1>2, <2>1, NothingEscapes DEF Materialize
  <2>3. UNCHANGED <<authorized, preauth, disturbed, raced, receipt, verified>>
    BY <1>2 DEF Materialize, history
  <2>4. workspace'.service = safe /\ (raced \/ workspace' = Repaired)
    BY <2>1, <2>2 DEF IInv, Typed, Repaired
  <2> QED
    BY <2>1, <2>2, <2>3, <2>4
<1>3. CASE MaterializeFails
  <2>1. /\ pc = "materialize" /\ pc' = "restore" /\ Cleared /\ authorized
        /\ UNCHANGED <<authorized, preauth, receipt, verified, workspace_materialized>>
    BY <1>3 DEF MaterializeFails, Cleared
  <2>2. ~verified /\ ~workspace_materialized /\ receipt = NoReceipt
    BY <2>1 DEF IInv
  <2> QED
    BY <2>1, <2>2 DEF Cleared
<1>4. CASE VerifyRelease
  BY <1>4 DEF IInv, VerifyRelease, Cleared
<1>5. CASE Finalize
  <2>1. CASE Released
    BY <1>5, <2>1 DEF IInv, Finalize, Released, FinalWorkspace, Undoes, RollbackVerified, Captured, history
  <2>2. CASE ~Released
    BY <1>0, <1>5, <2>2 DEF IInv, Typed, Finalize, Released, FinalWorkspace, Undoes, Restored,
                            RollbackVerified, Captured, history
  <2> QED
    BY <2>1, <2>2
<1>6. CASE Disturb
  BY <1>6 DEF IInv, Typed, Disturb
<1>7. CASE Abort
  BY <1>7 DEF IInv, Abort, Running
<1>8. CASE Decide
  BY <1>8 DEF IInv, Decide, Granted, history
<1>9. CASE UNCHANGED <<workspace, outside, workspace_materialized, verified, receipt, authorized,
                      preauth, disturbed, raced>>
           /\ (pc' = pc \/ (pc' \in Early /\ pc \in Early))
  BY <1>9 DEF IInv, Cleared
<1>10. CASE Preauthorize
  BY <1>10 DEF IInv, Preauthorize, history
<1>11. CASE Withhold
  BY <1>11 DEF IInv, Withhold, Cleared, history
<1>12. CASE RestoreTorn
  BY <1>0, <1>12 DEF IInv, RestoreTorn, Restored, Captured, history
<1>13. CASE RestoreFails
  <2>1. /\ pc \in {"restore", "finalize"} /\ pc' = "aborted"
        /\ UNCHANGED <<authorized, preauth, receipt, verified, workspace_materialized, outside, disturbed, raced>>
    BY <1>13 DEF RestoreFails
  <2>2. workspace'.service = safe => workspace.service = safe
    BY <1>0, <1>13 DEF RestoreFails
  <2> QED
    BY <2>1, <2>2 DEF IInv
<1>14. CASE Race
  <2>1. /\ pc \in {"gate", "materialize"} /\ pc' = pc /\ raced'
        /\ UNCHANGED <<authorized, preauth, receipt, verified, workspace_materialized, disturbed>>
    BY <1>14 DEF Race
  <2>2. workspace'.service = safe => workspace.service = safe
    BY <1>0, <1>14 DEF IInv, Typed, Race
  <2> QED
    BY <2>1, <2>2 DEF IInv
<1> QED
  BY <1>1, <1>2, <1>3, <1>4, <1>5, <1>6, <1>7, <1>8, <1>9, <1>10, <1>11, <1>12, <1>13, <1>14
     DEF Next, Step, vars, EmitWorker, SelectProposal, BuildControl, InjectControlFault, history

-------------------------------------------------------------------------------
(* A trial in which nothing happens but tolerated Worker faults.           *)

Honest == {w \in Worker : worker_faults[w] = "none"}

Tolerated == Cardinality({w \in Worker : worker_faults[w] # "none"}) <= max_faulty_workers

Smooth == ~failed /\ timed_out = {} /\ Untouched /\ control_fault = "none" /\ Tolerated

Past(phases) == pc \notin {"workers"} \union phases

\* What each stage of a smooth trial has achieved when it is past.
Course ==
  /\ \A w \in emitted : worker_faults[w] = "none" => Issue(w, safe) \in proposals
  /\ pc = "aborted" => failed
  /\ pc \in {"workers", "stage"} => staging = "faulty"
  /\ Untouched => outside = "original"
  /\ control_fault = "none" => requested_by = ReleaseManager
  /\ Past({"aborted"}) => emitted = Worker /\ selected = SelectedPatch(Context, proposals)

Achieved ==
  /\ Past({}) => selected = safe
  /\ Past({"stage"}) => candidate_staged /\ staging = safe
  /\ \A a \in attestations : a = Attest(a.actor, "approve")
  /\ Past({"stage", "attest"}) => {a.actor : a \in attestations} = Control
  /\ Past(Early) => preauth.workspace /\ preauth.outside
  /\ Past(Early \union {"gate"}) => authorized
  /\ Past(Early \union {"gate", "materialize"}) => workspace_materialized
  /\ Past(Early \union {"gate", "materialize", "verify"}) => verified
  /\ Done => receipt.recovered

RecoveryInv == Course /\ (Smooth => Achieved)

LEMMA HonestQuorum ==
  ASSUME Tolerated
  PROVE  /\ Cardinality(Honest) \in Nat /\ Cardinality(Honest) >= proposal_quorum
         /\ IsFiniteSet(Worker) /\ IsFiniteSet(Honest)
<1> DEFINE Faulty == {w \in Worker : worker_faults[w] # "none"}
<1>1. IsFiniteSet(Worker)
  BY MembershipAssumption, FS_Subset DEF Worker
<1>2. IsFiniteSet(Honest) /\ IsFiniteSet(Faulty)
  BY <1>1, FS_Subset DEF Honest
<1>3. Honest = Worker \ Faulty /\ Worker \intersect Faulty = Faulty
  BY DEF Honest
<1>4. Cardinality(Worker \ Faulty) = Cardinality(Worker) - Cardinality(Worker \intersect Faulty)
  BY <1>1, FS_Difference
<1>5. /\ Cardinality(Worker) \in Nat /\ Cardinality(Faulty) \in Nat
      /\ Cardinality(Honest) \in Nat
  BY <1>1, <1>2, FS_CardinalityType
<1>6. Cardinality(Honest) = Cardinality(Worker) - Cardinality(Faulty)
  BY <1>3, <1>4
<1>7. Cardinality(Faulty) <= max_faulty_workers
  BY DEF Tolerated
<1>8. Cardinality(Worker) >= proposal_quorum + max_faulty_workers
  BY RosterAssumption
<1> HIDE DEF Faulty
<1>9. Cardinality(Honest) >= proposal_quorum
  BY <1>5, <1>6, <1>7, <1>8, QuorumConfigAssumption
<1> QED
  BY <1>1, <1>2, <1>5, <1>9

\* An honest Worker's proposal is admitted, and it is the only one of that Worker.
LEMMA HonestProposal ==
  ASSUME Typed, Proposed, Course, emitted = Worker, NEW w \in Honest
  PROVE  /\ w \in Member /\ RoleOf[w] = "worker"
         /\ Issue(w, safe) \in Admitted(Context, proposals)
         /\ \A p \in proposals : p.actor = w => p = Issue(w, safe)
         /\ ~Equivocates(Context, proposals, w)
<1>1. w \in Worker /\ worker_faults[w] = "none" /\ w \in Member /\ RoleOf[w] = "worker"
  BY DEF Honest, Worker
<1>2. Issue(w, safe) \in proposals
  BY <1>1 DEF Course
<1>3. Admissible(Context, Issue(w, safe))
  BY <1>1, RosterAssumption
     DEF Admissible, Registered, ProposalIntegrity, InRunContext, Context, Issue
<1>4. ASSUME NEW p \in proposals, p.actor = w
      PROVE  p = Issue(w, safe)
  <2>1. \E batch \in Emissions(w) : p \in batch
    BY <1>4 DEF Proposed
  <2>2. Emissions(w) = {{Issue(w, safe)}}
    BY <1>1 DEF Emissions
  <2> QED
    BY <2>1, <2>2
<1>5. ~Equivocates(Context, proposals, w)
  BY <1>4 DEF Equivocates, Admitted
<1> QED
  BY <1>1, <1>2, <1>3, <1>4, <1>5 DEF Admitted

LEMMA SelectsSafe ==
  ASSUME Typed, Proposed, Course, emitted = Worker, Tolerated
  PROVE  SelectedPatch(Context, proposals) = safe
<1>1. /\ Cardinality(Honest) \in Nat /\ Cardinality(Honest) >= proposal_quorum
      /\ IsFiniteSet(Worker)
  BY HonestQuorum
<1>2. \A d : Backers(Context, proposals, d) \subseteq Worker
  BY DEF Backers, Admitted, Admissible, Registered, Worker
<1>3. \A d : /\ IsFiniteSet(Backers(Context, proposals, d))
             /\ Cardinality(Backers(Context, proposals, d)) \in Nat
  BY <1>1, <1>2, FS_Subset, FS_CardinalityType
<1>4. Issue(CHOOSE w \in Honest : TRUE, safe) \in Admitted(Context, proposals)
  <2>1. Honest # {}
    BY <1>1, QuorumConfigAssumption, FS_EmptySet
  <2> QED
    BY <2>1, HonestProposal
<1>5. safe \in QuorumPatches(Context, proposals)
  <2>1. Honest \subseteq Backers(Context, proposals, safe)
    <3> SUFFICES ASSUME NEW w \in Honest PROVE w \in Backers(Context, proposals, safe)
      OBVIOUS
    <3>1. /\ w \in Member /\ Issue(w, safe) \in Admitted(Context, proposals)
          /\ ~Equivocates(Context, proposals, w)
      BY HonestProposal
    <3>2. Issue(w, safe).actor = w /\ Issue(w, safe).claimed = safe
      BY DEF Issue
    <3> QED
      BY <3>1, <3>2 DEF Backers
  <2>2. Cardinality(Honest) <= Cardinality(Backers(Context, proposals, safe))
    BY <1>3, <2>1, FS_Subset
  <2>3. Cardinality(Backers(Context, proposals, safe)) >= proposal_quorum
    BY <1>1, <1>3, <2>2, QuorumConfigAssumption
  <2>4. safe \in {p.claimed : p \in Admitted(Context, proposals)}
    BY <1>4 DEF Issue
  <2> QED
    BY <2>3, <2>4 DEF QuorumPatches
<1>6. ASSUME NEW d \in QuorumPatches(Context, proposals), d # safe
      PROVE  FALSE
  <2> DEFINE Faulty == {w \in Worker : worker_faults[w] # "none"}
  <2>1. Backers(Context, proposals, d) \subseteq Faulty
    <3> SUFFICES ASSUME NEW m \in Backers(Context, proposals, d), worker_faults[m] = "none"
                 PROVE  FALSE
      BY <1>2
    <3>1. m \in Honest
      BY <1>2 DEF Honest
    <3>2. PICK p \in Admitted(Context, proposals) : p.actor = m /\ p.claimed = d
      BY DEF Backers
    <3>3. p = Issue(m, safe)
      BY <3>1, <3>2, HonestProposal DEF Admitted
    <3> QED
      BY <1>6, <3>2, <3>3 DEF Issue
  <2>2. IsFiniteSet(Faulty)
    BY <1>1, FS_Subset
  <2>3. /\ Cardinality(Faulty) \in Nat
        /\ Cardinality(Backers(Context, proposals, d)) <= Cardinality(Faulty)
    BY <2>1, <2>2, FS_Subset, FS_CardinalityType
  <2>4. Cardinality(Faulty) <= max_faulty_workers
    BY DEF Tolerated
  <2>5. Cardinality(Backers(Context, proposals, d)) >= proposal_quorum
    BY DEF QuorumPatches
  <2> HIDE DEF Faulty
  <2> QED
    BY <1>3, <2>3, <2>4, <2>5, QuorumConfigAssumption
<1>7. QuorumPatches(Context, proposals) = {safe}
  BY <1>5, <1>6
<1> QED
  BY <1>7 DEF SelectedPatch

LEMMA SafeIsAuthorized ==
  ASSUME Typed, Proposed, Course, Tolerated, emitted = Worker, selected = safe,
         requested_by = ReleaseManager, {a.actor : a \in attestations} = Control,
         \A a \in attestations : a = Attest(a.actor, "approve")
  PROVE  Authorized(Request, proposals_for_gate, attestations)
<1> DEFINE q == Request
<1>1. /\ q.run = run /\ q.snapshot = snapshot /\ q.candidate = safe
      /\ q.actor = ReleaseManager /\ q.role = RoleOf[ReleaseManager]
  BY DEF Request
<1> HIDE DEF q
<1>2. RequestObjections(q) = {}
  BY <1>1, RosterAssumption DEF RequestObjections, Raise, RequesterAllowed, Registered, ValidContext
<1>3. WorkerObjections(q, proposals_for_gate) = {}
  <2>1. \A p \in proposals_for_gate :
          ProposalIntegrity(p) /\ InRunContext(q, p) /\ p \in Admitted(Context, proposals)
            /\ ~Equivocates(Context, proposals, p.actor)
    BY <1>1 DEF proposals_for_gate, Admitted, Admissible, InRunContext, Context
  <2>2. \A p \in WorkerProposals(proposals_for_gate) : ProposalObjections(q, p) = {}
    BY <2>1 DEF WorkerProposals, ProposalObjections, Raise
  <2>3. ~WorkerEquivocates(proposals_for_gate)
    BY <2>1 DEF WorkerEquivocates, WorkerProposals, Equivocates
  <2>4. Honest \subseteq Endorsers(q, proposals_for_gate)
    <3> SUFFICES ASSUME NEW w \in Honest PROVE w \in Endorsers(q, proposals_for_gate)
      OBVIOUS
    <3>1. PICK p : p = Issue(w, safe)
      OBVIOUS
    <3>2. p.actor = w /\ p.role = "worker" /\ p.claimed = safe
      BY <3>1 DEF Issue
    <3>3. p \in proposals_for_gate /\ w \in Member /\ RoleOf[w] = "worker"
      BY <3>1, <3>2, HonestProposal DEF proposals_for_gate
    <3>4. p \in WorkerProposals(proposals_for_gate) /\ Endorses(q, p)
      BY <1>1, <2>1, <3>2, <3>3 DEF WorkerProposals, Registered, Endorses
    <3> QED
      BY <3>2, <3>4 DEF Endorsers
  <2>5. Endorsers(q, proposals_for_gate) \subseteq Member
    BY DEF Endorsers, WorkerProposals, Registered
  <2>6. /\ Cardinality(Endorsers(q, proposals_for_gate)) \in Nat
        /\ Cardinality(Honest) <= Cardinality(Endorsers(q, proposals_for_gate))
    BY <2>4, <2>5, MembershipAssumption, FS_Subset, FS_CardinalityType
  <2>7. ~(Cardinality(Endorsers(q, proposals_for_gate)) < proposal_quorum)
    BY <2>6, HonestQuorum, QuorumConfigAssumption
  <2>8. WorkerQuorumObjections(q, proposals_for_gate) = {}
    BY <2>3, <2>7 DEF WorkerQuorumObjections, Raise
  <2> QED
    BY <2>2, <2>8 DEF WorkerObjections
<1>4. ASSUME NEW a \in attestations
      PROVE  /\ a.actor \in Member /\ a.role = RoleOf[a.actor] /\ a.role \in ControlRole
             /\ AttestationIntegrity(a) /\ BoundTo(q, a) /\ Effective(q, a)
             /\ a.verdict = "approve"
  <2>1. PICK m : m = a.actor /\ a = Attest(m, "approve")
    OBVIOUS
  <2>2. m \in Control
    BY <2>1
  <2>3. /\ a.role = RoleOf[m] /\ a.verdict = "approve" /\ a.claimed = a.binding
        /\ a.binding.run = run /\ a.binding.snapshot = snapshot /\ a.binding.candidate = safe
        /\ a.binding.kind = EXPECTED_EVIDENCE[RoleOf[m]] /\ a.binding.artifact = artifact
    BY <2>1 DEF Attest
  <2>4. AttestationIntegrity(a)
    BY <2>3, RosterAssumption DEF AttestationIntegrity, HasValidShape
  <2>5. BoundTo(q, a)
    BY <1>1, <2>3 DEF BoundTo, InRunContext
  <2> QED
    BY <2>1, <2>2, <2>3, <2>4, <2>5 DEF Effective, Control
<1>5. ControlObjections(q, attestations) = {}
  <2>1. ControlAttestations(attestations) = attestations
    BY <1>4 DEF ControlAttestations, Registered
  <2>2. \A a \in attestations : AttestationObjections(q, a) = {}
    BY <1>4 DEF AttestationObjections, Raise
  <2>3. ~ControlEquivocates(attestations)
    <3> SUFFICES ASSUME NEW a \in attestations, NEW b \in attestations, a.actor = b.actor
                 PROVE  Fingerprint(a) = Fingerprint(b)
      BY <2>1 DEF ControlEquivocates
    <3>1. a = b
      OBVIOUS
    <3> QED
      BY <3>1
  <2>4. ASSUME NEW r \in ControlRole
        PROVE  ~(Cardinality(Approvers(q, attestations, r)) < required[r])
    <3> DEFINE Staff == {m \in Member : RoleOf[m] = r}
    <3>1. Staff \subseteq Approvers(q, attestations, r)
      <4> SUFFICES ASSUME NEW m \in Staff PROVE m \in Approvers(q, attestations, r)
        OBVIOUS
      <4>1. m \in Control
        BY DEF Control
      <4>2. PICK a \in attestations : a.actor = m
        BY <4>1
      <4> QED
        BY <1>4, <2>1, <4>2 DEF Approvers
    <3>2. Approvers(q, attestations, r) \subseteq Member
      BY <1>4, <2>1 DEF Approvers
    <3>3. /\ Cardinality(Approvers(q, attestations, r)) \in Nat /\ Cardinality(Staff) \in Nat
          /\ Cardinality(Staff) <= Cardinality(Approvers(q, attestations, r))
      BY <3>1, <3>2, MembershipAssumption, FS_Subset, FS_CardinalityType
    <3>4. Cardinality(Staff) >= required[r] /\ required[r] \in Nat
      BY RosterAssumption, QuorumConfigAssumption DEF required, ControlRole, EXPECTED_EVIDENCE
    <3> HIDE DEF Staff
    <3> QED
      BY <3>3, <3>4
  <2>5. ControlQuorumObjections(q, attestations) = {}
    BY <2>3, <2>4 DEF ControlQuorumObjections, Raise
  <2> QED
    BY <2>1, <2>2, <2>5 DEF ControlObjections
<1> QED
  BY <1>2, <1>3, <1>5 DEF Authorized, Blocking, q

\* Nothing that disturbs a trial is ever undone, so that a smooth one always was.
LEMMA SmoothBefore == IInv /\ [Next]_vars /\ Smooth' => Smooth
<1> SUFFICES ASSUME IInv, [Next]_vars, Smooth' PROVE Smooth
  OBVIOUS
<1>1. ~failed' /\ timed_out' = {} /\ Untouched' /\ control_fault' = "none" /\ Tolerated'
  BY DEF Smooth
<1> USE DEF Untouched
<1>2. disturbed \in Nat
  BY DEF IInv, Typed
<1>3. CASE StageCandidate
  <2>1. \/ failed' = failed
        \/ failed' = TRUE
        \/ failed' = (failed \/ Applicable(selected, staging))
    BY <1>3 DEF StageCandidate
  <2>2. ~failed
    BY <1>1, <2>1
  <2>3. UNCHANGED <<faults, timed_out, disturbed, raced>>
    BY <1>3 DEF StageCandidate, faults
  <2> QED
    BY <1>1, <2>2, <2>3 DEF Smooth, Tolerated, faults
<1>4. ASSUME NEW m \in Control, BuildControl(m) PROVE Smooth
  BY <1>1, <1>4 DEF BuildControl, Smooth, Tolerated, faults
<1>5. CASE VerifyRelease
  BY <1>1, <1>5 DEF VerifyRelease, Smooth, Tolerated, faults
<1>6. CASE Disturb
  BY <1>1, <1>2, <1>6 DEF Disturb
<1>7. CASE Race \/ RestoreFails \/ Abort
  BY <1>1, <1>7 DEF Race, RestoreFails, Abort
<1>8. CASE MaterializeFails
  <2>1. ~failed
    BY <1>1, <1>8 DEF MaterializeFails
  <2> QED
    BY <1>1, <1>8, <2>1 DEF MaterializeFails, Smooth, Tolerated, faults
<1>9. CASE UNCHANGED <<faults, history>>
  BY <1>1, <1>9 DEF Smooth, Tolerated, faults, history
<1> QED
  BY <1>3, <1>4, <1>5, <1>6, <1>7, <1>8, <1>9 DEF Next, Step, vars, EmitWorker, SelectProposal,
    InjectControlFault, Preauthorize, Decide, Materialize, RestoreTorn, Withhold, Finalize, faults, history

LEMMA CourseStep == IInv /\ Course /\ [Next]_vars => Course'
<1> SUFFICES ASSUME IInv, Course, [Next]_vars PROVE Course'
  OBVIOUS
<1> USE DEF Course, Past, Untouched
<1>1. ASSUME NEW w \in Worker, EmitWorker(w) PROVE Course'
  <2>1. /\ worker_faults' = worker_faults /\ emitted' = emitted \union {w} /\ pc = "workers" /\ pc' = pc
        /\ UNCHANGED <<staging, outside, disturbed, raced, requested_by, control_fault, failed>>
    BY <1>1 DEF EmitWorker, faults, history
  <2>2. PICK batch \in Emissions(w) : proposals' = proposals \union batch
    BY <1>1 DEF EmitWorker
  <2>3. worker_faults[w] = "none" => Issue(w, safe) \in batch
    BY <2>2 DEF Emissions
  <2>4. \A m : Issue(m, safe)' = Issue(m, safe)
    BY DEF Issue
  <2> QED
    BY <2>1, <2>2, <2>3, <2>4
<1>2. CASE SelectProposal
  BY <1>2 DEF SelectProposal, AllEmitted, Context, Issue, faults, history
<1>3. CASE StageCandidate
  BY <1>3, NothingEscapes DEF StageCandidate, Context, Issue, faults
<1>4. CASE InjectControlFault
  BY <1>4 DEF InjectControlFault, Requester, Context, Issue, faults, history
<1>5. CASE Disturb
  <2>1. disturbed' # 0
    BY <1>5 DEF Disturb, IInv, Typed
  <2> QED
    BY <1>5, <2>1 DEF Disturb, Context, Issue, faults
<1>6. CASE Abort
  BY <1>6 DEF Abort, Context, Issue, faults
<1>7. CASE Materialize
  BY <1>7, NothingEscapes DEF Materialize, Context, Issue, faults, history
<1>8. CASE MaterializeFails
  <2>1. pc = "materialize" /\ pc' = "restore"
        /\ UNCHANGED <<faults, emitted, proposals, selected, staging, requested_by, outside, disturbed, raced>>
    BY <1>8 DEF MaterializeFails
  <2> QED
    BY <2>1 DEF Context, Issue, faults
<1>9. ASSUME NEW m \in Control, BuildControl(m) PROVE Course'
  BY <1>9 DEF BuildControl, Context, Issue, faults
<1>10. CASE VerifyRelease
  BY <1>10 DEF VerifyRelease, Context, Issue, faults
<1>11. CASE Preauthorize \/ Decide \/ Withhold \/ Finalize
  BY <1>11 DEF Preauthorize, Decide, Withhold, Finalize, Context, Issue, faults, history
<1>12. CASE UNCHANGED vars
  BY <1>12 DEF vars, Context, Issue
<1>13. CASE RestoreTorn
  BY <1>13 DEF RestoreTorn, Context, Issue, faults, history
<1>14. CASE RestoreFails
  BY <1>14 DEF RestoreFails, Context, Issue, faults
<1>15. CASE Race
  BY <1>15 DEF Race, Context, Issue, faults
<1> QED
  BY <1>1, <1>2, <1>3, <1>4, <1>5, <1>6, <1>7, <1>8, <1>9, <1>10, <1>11, <1>12, <1>13, <1>14, <1>15
     DEF Next, Step

\* What is cleared applies, unless another process was there after the check.
LEMMA MaterializeApplies ==
  ASSUME IInv, pc = "materialize", Cleared, ~raced
  PROVE  Applicable(selected, workspace.service)
<1>1. selected = safe /\ workspace = Captured
  BY DEF IInv, Granted, Checked, Cleared
<1>2. ~Escapes(safe)
  BY TrialAssumption DEF Escapes
<1> QED
  BY <1>1, <1>2 DEF Applicable, Captured

LEMMA AchievedStep == IInv /\ Course /\ Smooth /\ Achieved /\ [Next]_vars /\ Smooth' => Achieved'
<1> SUFFICES ASSUME IInv, Course, Smooth, Achieved, [Next]_vars, Smooth' PROVE Achieved'
  OBVIOUS
<1>1. ~failed /\ timed_out = {} /\ disturbed = 0 /\ ~raced /\ control_fault = "none" /\ Tolerated
  BY DEF Smooth, Untouched
<1>2. ~failed' /\ timed_out' = {} /\ disturbed' = 0 /\ ~raced'
  BY DEF Smooth, Untouched
<1>3. safe \in Candidate /\ ~Escapes(safe) /\ VisiblePass(safe) /\ InvariantPass(safe) /\ safe # NoPatch
  BY TrialAssumption DEF Candidate, Escapes, VisiblePass, InvariantPass
<1> USE DEF Achieved, Past, Early
<1>4. ASSUME NEW w \in Worker, EmitWorker(w) PROVE Achieved'
  <2>1. attestations = {}
    BY <1>4 DEF EmitWorker, IInv, Chosen
  <2> QED
    BY <1>4, <2>1 DEF EmitWorker, Done
<1>5. CASE SelectProposal
  <2>1. emitted = Worker /\ pc = "workers"
    BY <1>5 DEF SelectProposal, AllEmitted
  <2>2. selected' = safe
    BY <1>1, <1>5, <2>1, SelectsSafe DEF SelectProposal, IInv
  <2>3. attestations' = {} /\ pc' = "stage"
    BY <1>5 DEF SelectProposal, IInv, Chosen
  <2> QED
    BY <2>2, <2>3 DEF Done
<1>6. CASE StageCandidate
  <2>1. selected = safe /\ staging = "faulty" /\ attestations = {} /\ pc = "stage"
    BY <1>6 DEF StageCandidate, Course, IInv, Chosen
  <2>2. Applicable(selected, staging)
    BY <1>3, <2>1 DEF Applicable
  <2>3. staging' = selected /\ candidate_staged'
    BY <1>2, <1>3, <1>6, <2>1, <2>2 DEF StageCandidate
  <2>4. pc' = "attest" /\ attestations' = {} /\ selected' = selected
    BY <1>6, <2>1 DEF StageCandidate
  <2> QED
    BY <2>1, <2>3, <2>4 DEF Done
<1>7. ASSUME NEW m \in Control, BuildControl(m) PROVE Achieved'
  <2>1. selected = safe /\ candidate_staged /\ staging = safe /\ pc = "attest"
    BY <1>7 DEF BuildControl
  <2>2. RoleOf[m] \in {"verifier", "challenger", "governor"}
    BY DEF Control, ControlRole, EXPECTED_EVIDENCE
  <2>3. Satisfied(RoleOf[m])
    BY <1>3, <2>1, <2>2 DEF Satisfied, PolicyApproves
  <2>4. attestations' = attestations \union {Attest(m, "approve")}
    BY <1>2, <1>7, <2>3 DEF BuildControl
  <2>5. UNCHANGED <<pc, selected, candidate_staged, staging>>
    BY <1>7 DEF BuildControl
  <2>6. \A x, v : Attest(x, v)' = Attest(x, v)
    BY <2>5 DEF Attest
  <2>7. Attest(m, "approve").actor = m
    BY DEF Attest
  <2>8. \A a \in attestations' : a = Attest(a.actor, "approve")'
    BY <2>4, <2>6, <2>7
  <2> QED
    BY <2>1, <2>5, <2>8 DEF Done
<1>8. CASE InjectControlFault
  <2>1. Tampered(attestations) = attestations
    BY <1>1 DEF Tampered
  <2>2. /\ attestations' = attestations /\ pc = "attest" /\ pc' = "preauthorize"
        /\ {a.actor : a \in attestations} = Control
        /\ UNCHANGED <<selected, candidate_staged, staging>>
    BY <1>8, <2>1 DEF InjectControlFault
  <2>3. \A x, v : Attest(x, v)' = Attest(x, v)
    BY <2>2 DEF Attest
  <2> QED
    BY <2>2, <2>3 DEF Done
<1>9. CASE Preauthorize
  <2>1. ~workspace_materialized
    BY <1>9 DEF Preauthorize, IInv, Governed
  <2>2. workspace = Captured /\ outside = "original"
    <3>1. pc = "preauthorize"
      BY <1>9 DEF Preauthorize
    <3> QED
      BY <1>1, <2>1, <3>1 DEF IInv, Governed, Course, Untouched
  <2>3. preauth'.workspace /\ preauth'.outside
    BY <1>9, <2>2 DEF Preauthorize
  <2>4. pc = "preauthorize" /\ pc' = "gate" /\ UNCHANGED <<selected, candidate_staged, staging, attestations>>
    BY <1>9 DEF Preauthorize
  <2> QED
    BY <2>3, <2>4 DEF Done, Attest
<1>10. CASE Decide
  <2>1. pc = "gate" /\ pc' = "materialize"
        /\ UNCHANGED <<selected, candidate_staged, staging, attestations, preauth>>
    BY <1>10 DEF Decide
  <2>2. emitted = Worker /\ requested_by = ReleaseManager
    BY <1>1, <2>1 DEF Course
  <2>3. Authorized(Request, proposals_for_gate, attestations)
    BY <1>1, <2>1, <2>2, SafeIsAuthorized DEF IInv
  <2>4. authorized'
    BY <1>10, <2>3 DEF Decide
  <2> QED
    BY <2>1, <2>4 DEF Done, Attest
<1>11. CASE Materialize
  <2>1. pc = "materialize" /\ pc' = "verify" /\ workspace_materialized'
        /\ UNCHANGED <<selected, candidate_staged, staging, attestations, preauth, authorized>>
    BY <1>11 DEF Materialize
  <2> QED
    BY <2>1 DEF Done, Attest
<1>12. CASE Withhold
  BY <1>12 DEF Withhold, Cleared
<1>13. CASE VerifyRelease
  <2>1. pc = "verify" /\ pc' = "finalize"
        /\ UNCHANGED <<selected, candidate_staged, staging, attestations, preauth, authorized,
                       workspace_materialized>>
    BY <1>13 DEF VerifyRelease
  <2>2. workspace_materialized /\ workspace.service = safe
    BY <2>1 DEF IInv, Governed
  <2>3. verified' = (workspace_materialized /\ VisiblePass(workspace.service) /\ InvariantPass(workspace.service))
    BY <1>2, <1>13 DEF VerifyRelease
  <2>4. verified'
    BY <1>3, <2>2, <2>3
  <2> QED
    BY <2>1, <2>4 DEF Done, Attest
<1>14. CASE Finalize
  <2>1. pc = "finalize" /\ pc' = "done"
        /\ UNCHANGED <<selected, candidate_staged, staging, attestations, preauth, authorized,
                       workspace_materialized, verified>>
    BY <1>14 DEF Finalize
  <2>2. Released /\ selected = safe
    BY <2>1 DEF Released
  <2>3. receipt'.recovered
    BY <1>14, <2>2 DEF Finalize
  <2> QED
    BY <2>1, <2>3 DEF Done, Attest
<1>15. CASE MaterializeFails
  <2>1. Applicable(selected, workspace.service)
    BY <1>1, <1>15, MaterializeApplies DEF MaterializeFails
  <2> QED
    BY <1>2, <1>15, <2>1 DEF MaterializeFails
<1>16. CASE Disturb \/ Abort
  BY <1>1, <1>2, <1>16 DEF Disturb, Abort
<1>17. CASE Race \/ RestoreFails
  BY <1>2, <1>17 DEF Race, RestoreFails
<1>18. CASE RestoreTorn
  BY <1>18 DEF RestoreTorn, IInv, Governed
<1>19. CASE UNCHANGED vars
  BY <1>19 DEF vars, Done, Attest
<1> QED
  BY <1>4, <1>5, <1>6, <1>7, <1>8, <1>9, <1>10, <1>11, <1>12, <1>13, <1>14, <1>15, <1>16, <1>17,
     <1>18, <1>19
     DEF Next, Step

-------------------------------------------------------------------------------
(* The record of a trial: what is found in it was made of what was sent,   *)
(* staged, judged and decided.                                             *)

Sent == \A w \in emitted : {p \in proposals : p.actor = w} \in Emissions(w)

Verdict(m) == IF Satisfied(RoleOf[m]) /\ m \notin timed_out THEN "approve" ELSE "reject"

Attested == {a.actor : a \in attestations}

Evidence == {Attest(m, Verdict(m)) : m \in Control}

Presented == Tampered(Evidence)

Evidenced ==
  /\ pc \in {"workers", "stage"} => timed_out = {}
  /\ pc \in Early \union {"gate", "materialize", "restore", "verify"} => "trial" \notin timed_out
  /\ pc = "attest" =>
       attestations = {Attest(m, Verdict(m)) : m \in Attested} /\ timed_out \subseteq Attested
  /\ Past({"stage", "attest", "aborted"}) => attestations = Presented /\ requested_by = Requester

Staged ==
  ~failed /\ Past({"stage"}) =>
    /\ candidate_staged = ExpectedStaged
    /\ staging = IF ExpectedStaged THEN selected ELSE "faulty"

Authorizes == Authorized(Request, proposals_for_gate, attestations)

Recalled ==
  [released |-> Released,
   rollback_verified |-> (~Released /\ workspace = Captured),
   recovered |-> (Released /\ selected = safe),
   fail_closed |-> (~Released /\ workspace = Captured /\ outside = "original")]

Decided ==
  /\ pc \in Early => ~preauth.workspace /\ ~preauth.outside
  /\ preauth.workspace /\ preauth.outside => disturbed = 0
  /\ disturbed = 0 /\ Past(Early \union {"aborted"}) => preauth.workspace /\ preauth.outside
  /\ Past(Early \union {"gate", "aborted"}) => (authorized <=> Authorizes)
  /\ pc = "restore" => failed \/ raced
  /\ ~failed /\ ~raced /\ Past(Early \union {"gate", "materialize"}) =>
       (workspace_materialized <=> Cleared)
  /\ ~failed /\ "trial" \notin timed_out
       /\ Past(Early \union {"gate", "materialize", "restore", "verify"}) =>
       (verified <=> workspace_materialized)
  /\ Done => receipt = Recalled

RecordInv == Sent /\ Evidenced /\ Staged /\ Decided

LEMMA SentStep == IInv /\ Sent /\ [Next]_vars => Sent'
<1> SUFFICES ASSUME IInv, Sent, [Next]_vars PROVE Sent'
  OBVIOUS
<1>1. ASSUME NEW w \in Worker, EmitWorker(w) PROVE Sent'
  <2>1. worker_faults' = worker_faults /\ emitted' = emitted \union {w} /\ w \notin emitted
    BY <1>1 DEF EmitWorker, faults
  <2>2. PICK batch \in Emissions(w) : proposals' = proposals \union batch
    BY <1>1 DEF EmitWorker
  <2>3. \A p \in batch : p.actor = w
    BY <2>2, EmittedAs DEF IInv, Typed
  <2>4. \A p \in proposals : p.actor # w
    BY <2>1 DEF IInv, Proposed
  <2>5. \A m : Emissions(m)' = Emissions(m)
    BY <2>1 DEF Emissions
  <2>6. {p \in proposals' : p.actor = w} = batch
    BY <2>2, <2>3, <2>4
  <2>7. ASSUME NEW m \in emitted
        PROVE  {p \in proposals' : p.actor = m} \in Emissions(m)
    <3>1. {p \in proposals' : p.actor = m} = {p \in proposals : p.actor = m}
      BY <2>1, <2>2, <2>3
    <3> QED
      BY <3>1 DEF Sent
  <2> QED
    BY <2>1, <2>2, <2>5, <2>6, <2>7 DEF Sent
<1>2. CASE UNCHANGED <<worker_faults, emitted, proposals>>
  <2>1. \A m : Emissions(m)' = Emissions(m)
    BY <1>2 DEF Emissions
  <2> QED
    BY <1>2, <2>1 DEF Sent
<1> QED
  BY <1>1, <1>2 DEF Next, Step, vars, SelectProposal, StageCandidate, BuildControl, InjectControlFault,
    Preauthorize, Decide, Materialize, MaterializeFails, RestoreTorn, Withhold, VerifyRelease, Finalize, Abort,
    RestoreFails, Disturb, Race, faults

\* A control attests the same as long as the staging copy does not change.
LEMMA SameEvidence ==
  ASSUME UNCHANGED <<selected, staging, candidate_staged>>
  PROVE  /\ \A r : Satisfied(r)' = Satisfied(r)
         /\ \A m, v : Attest(m, v)' = Attest(m, v)
  BY DEF Satisfied, Attest

\* What is presented to the gate is not changed by the trial's own timeout.
LEMMA SamePresented ==
  ASSUME UNCHANGED <<selected, staging, candidate_staged, control_fault>>,
         timed_out' \in {timed_out, timed_out \union {"trial"}}
  PROVE  Evidence' = Evidence /\ Presented' = Presented /\ Requester' = Requester
<1>1. \A m \in Control : m # "trial"
  BY MatrixAssumption DEF Control
<1>2. \A m \in Control : Verdict(m)' = Verdict(m)
  BY <1>1, SameEvidence DEF Verdict
<1>3. \A m \in Control : Attest(m, Verdict(m))' = Attest(m, Verdict(m))
  BY <1>2 DEF Attest
<1>4. Evidence' = Evidence
  BY <1>3 DEF Evidence
<1>5. Tampered(Evidence)' = Tampered(Evidence)
  BY <1>4 DEF Tampered, Replacing, Of
<1> QED
  BY <1>4, <1>5 DEF Presented, Requester

LEMMA EvidencedStep == IInv /\ Evidenced /\ [Next]_vars => Evidenced'
<1> SUFFICES ASSUME IInv, Evidenced, [Next]_vars PROVE Evidenced'
  OBVIOUS
<1> USE DEF Past, Early
<1>1. ASSUME NEW m \in Control, BuildControl(m) PROVE Evidenced'
  <2>1. /\ pc = "attest" /\ pc' = "attest" /\ m \notin Attested
        /\ UNCHANGED <<selected, staging, candidate_staged>>
    BY <1>1 DEF BuildControl, Attested
  <2>2. attestations = {Attest(n, Verdict(n)) : n \in Attested} /\ timed_out \subseteq Attested
        /\ "trial" \notin timed_out
    BY <2>1 DEF Evidenced
  <2>3. m # "trial"
    BY MatrixAssumption DEF Control
  <2>4. PICK v : /\ attestations' = attestations \union {Attest(m, v)}
                 /\ \/ /\ v = IF Satisfied(RoleOf[m]) THEN "approve" ELSE "reject"
                       /\ timed_out' = timed_out
                    \/ v = "reject" /\ timed_out' = timed_out \union {m}
    BY <1>1 DEF BuildControl
  <2>5. \A n, x : Attest(n, x).actor = n
    BY DEF Attest
  <2>6. Attested' = Attested \union {m}
    BY <2>4, <2>5 DEF Attested
  <2>7. Verdict(m)' = v /\ \A n \in Attested : Verdict(n)' = Verdict(n)
    <3>1. \A r : Satisfied(r)' = Satisfied(r)
      BY <2>1, SameEvidence
    <3> QED
      BY <2>1, <2>2, <2>4, <3>1 DEF Verdict
  <2>8. /\ Attest(m, Verdict(m))' = Attest(m, v)
        /\ \A n \in Attested : Attest(n, Verdict(n))' = Attest(n, Verdict(n))
    BY <2>1, <2>7 DEF Attest
  <2>9. attestations' = {Attest(n, Verdict(n))' : n \in Attested \union {m}}
    BY <2>2, <2>4, <2>8
  <2>10. timed_out' \subseteq Attested' /\ "trial" \notin timed_out'
    BY <2>2, <2>3, <2>4, <2>6
  <2> QED
    BY <2>1, <2>6, <2>9, <2>10 DEF Evidenced
<1>2. CASE InjectControlFault
  <2>1. /\ pc = "attest" /\ pc' = "preauthorize" /\ Attested = Control
        /\ attestations' = Tampered(attestations) /\ requested_by' = Requester
        /\ UNCHANGED <<selected, staging, candidate_staged, control_fault, timed_out>>
    BY <1>2 DEF InjectControlFault, Attested, faults, history
  <2>2. attestations = Evidence /\ "trial" \notin timed_out
    BY <2>1 DEF Evidenced, Evidence
  <2>3. attestations' = Presented'
    BY <2>1, <2>2, SamePresented DEF Presented
  <2>4. Requester' = Requester
    BY <2>1, SamePresented
  <2> QED
    BY <2>1, <2>2, <2>3, <2>4 DEF Evidenced
<1>3. CASE Preauthorize \/ Decide \/ Materialize \/ MaterializeFails \/ RestoreTorn \/ Withhold \/ VerifyRelease
           \/ Finalize
  <2>1. /\ UNCHANGED <<selected, staging, candidate_staged, control_fault, attestations, requested_by>>
        /\ timed_out' \in {timed_out, timed_out \union {"trial"}}
        /\ Past({"stage", "attest", "aborted"})
        /\ pc' \in Early \union {"gate", "materialize", "restore", "verify"} =>
             timed_out' = timed_out /\ pc \in Early \union {"gate", "materialize", "restore", "verify"}
        /\ pc' \notin {"workers", "stage", "attest"}
    BY <1>3 DEF Preauthorize, Decide, Materialize, MaterializeFails, RestoreTorn, Withhold, VerifyRelease, Finalize,
                faults, history
  <2>2. attestations = Presented /\ requested_by = Requester
    BY <2>1 DEF Evidenced
  <2>3. attestations' = Presented' /\ requested_by' = Requester'
    BY <2>1, <2>2, SamePresented
  <2>4. pc' \in Early \union {"gate", "materialize", "restore", "verify"} => "trial" \notin timed_out'
    BY <2>1 DEF Evidenced
  <2> QED
    BY <2>1, <2>3, <2>4 DEF Evidenced
<1>4. CASE StageCandidate
  <2>1. pc = "stage" /\ pc' = "attest" /\ attestations = {} /\ timed_out = {}
        /\ UNCHANGED <<attestations, timed_out>>
    BY <1>4 DEF StageCandidate, IInv, Chosen, Evidenced
  <2>2. Attested' = {}
    BY <2>1 DEF Attested
  <2>3. attestations' = {Attest(m, Verdict(m))' : m \in Attested'}
    BY <2>1, <2>2
  <2> QED
    BY <2>1, <2>3 DEF Evidenced
<1>5. ASSUME NEW w \in Worker, EmitWorker(w) PROVE Evidenced'
  BY <1>5 DEF EmitWorker, history, Evidenced
<1>6. CASE SelectProposal
  BY <1>6 DEF SelectProposal, history, Evidenced
<1>7. CASE Abort \/ RestoreFails
  <2>1. pc' = "aborted"
    BY <1>7 DEF Abort, RestoreFails
  <2> QED
    BY <2>1 DEF Evidenced
<1>8. CASE Disturb \/ Race \/ UNCHANGED vars
  <2>1. UNCHANGED <<pc, selected, staging, candidate_staged, control_fault, attestations,
                    requested_by, timed_out>>
    BY <1>8 DEF Disturb, Race, vars, faults
  <2>2. Presented' = Presented /\ Requester' = Requester
    BY <2>1, SamePresented
  <2>3. Attested' = Attested
    BY <2>1 DEF Attested
  <2>4. \A m : Verdict(m)' = Verdict(m)
    BY <2>1, SameEvidence DEF Verdict
  <2>5. \A m : Attest(m, Verdict(m))' = Attest(m, Verdict(m))
    BY <2>1, <2>4 DEF Attest
  <2> QED
    BY <2>1, <2>2, <2>3, <2>5 DEF Evidenced
<1> QED
  BY <1>1, <1>2, <1>3, <1>4, <1>5, <1>6, <1>7, <1>8 DEF Next, Step

LEMMA StagedStep == IInv /\ Course /\ Staged /\ [Next]_vars => Staged'
<1> SUFFICES ASSUME IInv, Course, Staged, [Next]_vars PROVE Staged'
  OBVIOUS
<1> USE DEF Past
<1>1. CASE StageCandidate
  <2>1. /\ pc = "stage" /\ staging = "faulty" /\ ~candidate_staged /\ selected' = selected
        /\ candidate_staged \in BOOLEAN /\ candidate_staged' \in {TRUE, candidate_staged}
    BY <1>1 DEF StageCandidate, Course, IInv, Chosen, Typed
  <2>2. Applicable(selected, staging) <=> ~Escapes(selected)
    BY <2>1 DEF Applicable
  <2>3. ExpectedStaged' = ExpectedStaged
    BY <2>1 DEF ExpectedStaged, Escapes
  <2>4. ASSUME ~failed'
        PROVE  \/ ExpectedStaged /\ candidate_staged' = TRUE /\ staging' = selected
               \/ ~ExpectedStaged /\ candidate_staged' = candidate_staged /\ staging' = staging
    <3>1. CASE selected = NoPatch
      BY <1>1, <3>1 DEF StageCandidate, ExpectedStaged
    <3>2. CASE selected # NoPatch /\ Applicable(selected, staging)
      <4>1. \/ candidate_staged' = TRUE /\ staging' = selected
            \/ failed' = (failed \/ Applicable(selected, staging))
            \/ failed' = TRUE
        BY <1>1, <3>2 DEF StageCandidate
      <4>2. failed' # (failed \/ Applicable(selected, staging))
        BY <2>4, <3>2
      <4> QED
        BY <2>2, <2>4, <3>2, <4>1, <4>2 DEF ExpectedStaged
    <3>3. CASE selected # NoPatch /\ ~Applicable(selected, staging)
      <4>1. candidate_staged' = candidate_staged /\ staging' = staging
        BY <1>1, <3>3 DEF StageCandidate
      <4> QED
        BY <2>2, <3>3, <4>1 DEF ExpectedStaged
    <3> QED
      BY <3>1, <3>2, <3>3
  <2>5. ASSUME ~failed'
        PROVE  /\ candidate_staged' = ExpectedStaged
               /\ staging' = IF ExpectedStaged THEN selected ELSE "faulty"
    <3>1. ExpectedStaged \in BOOLEAN /\ candidate_staged = FALSE
      BY <2>1 DEF ExpectedStaged, Escapes
    <3>2. CASE ExpectedStaged /\ candidate_staged' = TRUE /\ staging' = selected
      BY <3>1, <3>2
    <3>3. CASE ~ExpectedStaged /\ candidate_staged' = candidate_staged /\ staging' = staging
      BY <2>1, <3>1, <3>3
    <3> QED
      BY <2>4, <2>5, <3>2, <3>3
  <2>6. ASSUME ~failed'
        PROVE  /\ candidate_staged' = ExpectedStaged'
               /\ staging' = IF ExpectedStaged' THEN selected' ELSE "faulty"
    BY <2>1, <2>3, <2>5, <2>6
  <2> QED
    BY <2>6 DEF Staged
<1>2. CASE SelectProposal \/ \E w \in Worker : EmitWorker(w)
  BY <1>2 DEF EmitWorker, SelectProposal, Staged
<1>3. CASE /\ UNCHANGED <<selected, staging, candidate_staged>>
           /\ ~failed' => ~failed
           /\ pc' \notin {"workers", "stage"} /\ ~failed' => pc \notin {"workers", "stage"}
  <2>1. ExpectedStaged' = ExpectedStaged
    BY <1>3 DEF ExpectedStaged, Escapes
  <2> QED
    BY <1>3, <2>1 DEF Staged
<1>4. CASE MaterializeFails \/ RestoreFails \/ Race
  <2>1. pc \notin {"workers", "stage"} /\ UNCHANGED <<selected, staging, candidate_staged>>
    BY <1>4 DEF MaterializeFails, RestoreFails, Race
  <2>2. ~failed' => ~failed
    BY <1>4 DEF MaterializeFails, RestoreFails, Race
  <2> QED
    BY <1>3, <2>1, <2>2
<1> QED
  BY <1>1, <1>2, <1>3, <1>4 DEF Next, Step, vars, BuildControl, InjectControlFault, Preauthorize, Decide,
    Materialize, RestoreTorn, Withhold, VerifyRelease, Finalize, Abort, Disturb, faults, history

LEMMA DecidedStep == IInv /\ Course /\ Decided /\ [Next]_vars => Decided'
<1> SUFFICES ASSUME IInv, Course, Decided, [Next]_vars PROVE Decided'
  OBVIOUS
<1> USE DEF Past, Early, Done
<1>1. CASE /\ pc \in Early /\ pc' \in Early /\ UNCHANGED <<preauth, disturbed>>
  BY <1>1 DEF Decided
<1>2. CASE Disturb
  BY <1>2 DEF Disturb, Decided
<1>3. CASE Preauthorize
  <2>1. /\ pc = "preauthorize" /\ pc' = "gate" /\ UNCHANGED <<workspace, outside, disturbed, raced>>
        /\ preauth'.workspace <=> (workspace = Captured)
        /\ preauth'.outside <=> (outside = "original")
    BY <1>3 DEF Preauthorize, history
  <2>2. ~raced /\ (disturbed = 0 \/ workspace.stray \/ outside = "changed")
    BY <2>1 DEF IInv, Checked
  <2>3. workspace = Captured => ~workspace.stray
    BY DEF Captured
  <2>4. disturbed = 0 => workspace = Captured /\ outside = "original"
    BY <2>1, <2>2 DEF IInv, Governed, Course, Untouched
  <2> QED
    BY <2>1, <2>2, <2>3, <2>4 DEF Decided
<1>4. CASE Decide
  <2>1. /\ pc = "gate" /\ pc' = "materialize" /\ authorized' = Authorizes
        /\ UNCHANGED <<proposals, selected, attestations, requested_by, preauth, disturbed>>
    BY <1>4 DEF Decide, Authorizes, history
  <2>2. Authorizes' = Authorizes
    BY <2>1 DEF Authorizes, Request, proposals_for_gate, Context
  <2>3. authorized' <=> Authorizes'
    BY <2>1, <2>2
  <2> QED
    BY <2>1, <2>3 DEF Decided
<1>5. ASSUME UNCHANGED <<proposals, selected, attestations, requested_by, preauth, authorized, disturbed>>
      PROVE  /\ pc \notin Early \union {"gate", "aborted"} => (authorized' <=> Authorizes')
             /\ Cleared' = Cleared
             /\ pc' \notin Early =>
                  /\ preauth'.workspace /\ preauth'.outside => disturbed' = 0
                  /\ pc \notin Early \union {"aborted"} /\ disturbed' = 0 =>
                       preauth'.workspace /\ preauth'.outside
  <2>1. Authorizes' = Authorizes
    BY <1>5 DEF Authorizes, Request, proposals_for_gate, Context
  <2>2. pc \notin Early \union {"gate", "aborted"} => (authorized <=> Authorizes)
    BY DEF Decided
  <2>3. Cleared' = Cleared
    BY <1>5 DEF Cleared
  <2> QED
    BY <1>5, <2>1, <2>2, <2>3 DEF Decided
<1>6. CASE Materialize \/ Withhold
  <2>1. /\ pc = "materialize" /\ pc' = "verify"
        /\ UNCHANGED <<proposals, selected, attestations, requested_by, preauth, authorized, disturbed>>
    BY <1>6 DEF Materialize, Withhold, history
  <2>2. workspace_materialized' <=> Cleared
    BY <1>6 DEF Materialize, Withhold, IInv, Governed
  <2> QED
    BY <1>5, <2>1, <2>2 DEF Decided
<1>7. CASE MaterializeFails
  <2>1. /\ pc = "materialize" /\ pc' = "restore" /\ Cleared /\ raced' = raced
        /\ UNCHANGED <<proposals, selected, attestations, requested_by, preauth, authorized, disturbed>>
    BY <1>7 DEF MaterializeFails
  <2>2. raced \/ failed'
    BY <1>7, <2>1, MaterializeApplies DEF MaterializeFails
  <2> QED
    BY <1>5, <2>1, <2>2 DEF Decided
<1>8. CASE VerifyRelease
  <2>1. /\ pc = "verify" /\ pc' = "finalize" /\ failed' = failed /\ raced' = raced
        /\ UNCHANGED <<proposals, selected, attestations, requested_by, preauth, authorized, disturbed,
                       workspace_materialized>>
    BY <1>8 DEF VerifyRelease
  <2>2. "trial" \notin timed_out' => (verified' <=> workspace_materialized)
    <3>1. CASE timed_out' = timed_out \union {"trial"}
      BY <3>1
    <3>2. CASE verified' = (workspace_materialized /\ VisiblePass(workspace.service)
                              /\ InvariantPass(workspace.service))
      <4>1. workspace_materialized => workspace.service = safe
        BY <2>1 DEF IInv, Governed
      <4>2. VisiblePass(safe) /\ InvariantPass(safe)
        BY DEF VisiblePass, InvariantPass
      <4> QED
        BY <3>2, <4>1, <4>2
    <3> QED
      BY <1>8, <3>1, <3>2 DEF VerifyRelease
  <2>3. ~failed /\ ~raced => (workspace_materialized <=> Cleared)
    BY <2>1 DEF Decided
  <2> QED
    BY <1>5, <2>1, <2>2, <2>3 DEF Decided
<1>9. CASE Finalize
  <2>1. /\ pc = "finalize" /\ pc' = "done" /\ workspace' = FinalWorkspace
        /\ UNCHANGED <<proposals, selected, attestations, requested_by, preauth, authorized, disturbed,
                       workspace_materialized, verified, outside, failed, timed_out, raced>>
    BY <1>9 DEF Finalize, history
  <2>2. Released' = Released
    BY <2>1 DEF Released
  <2>3. receipt' = Recalled'
    BY <1>9, <2>1, <2>2 DEF Finalize, Recalled, RollbackVerified
  <2>4. /\ ~failed /\ ~raced => (workspace_materialized <=> Cleared)
        /\ ~failed /\ "trial" \notin timed_out => (verified <=> workspace_materialized)
    BY <2>1 DEF Decided
  <2> QED
    BY <1>5, <2>1, <2>3, <2>4 DEF Decided
<1>10. CASE Abort \/ RestoreFails
  <2>1. /\ pc' = "aborted" /\ failed' = TRUE /\ UNCHANGED <<preauth, disturbed>>
    BY <1>10 DEF Abort, RestoreFails
  <2> QED
    BY <2>1 DEF Decided
<1>11. CASE UNCHANGED vars
  <2>1. /\ UNCHANGED <<proposals, selected, attestations, requested_by, preauth, authorized, disturbed,
                       workspace_materialized, verified, outside, workspace, receipt, failed,
                       timed_out, raced, pc>>
    BY <1>11 DEF vars
  <2>2. Recalled' = Recalled /\ Authorizes' = Authorizes /\ Cleared' = Cleared
    BY <2>1 DEF Recalled, Released, Authorizes, Request, proposals_for_gate, Context, Cleared
  <2> QED
    BY <2>1, <2>2 DEF Decided
<1>12. CASE RestoreTorn
  <2>1. /\ pc = "restore" /\ pc' = "verify" /\ UNCHANGED <<failed, raced>>
        /\ UNCHANGED <<proposals, selected, attestations, requested_by, preauth, authorized, disturbed>>
    BY <1>12 DEF RestoreTorn, history
  <2>2. failed \/ raced
    BY <2>1 DEF Decided
  <2> QED
    BY <1>5, <2>1, <2>2 DEF Decided
<1>13. CASE Race
  <2>1. /\ pc \in {"gate", "materialize"} /\ pc' = pc
        /\ UNCHANGED <<proposals, selected, attestations, requested_by, preauth, authorized, disturbed>>
    BY <1>13 DEF Race
  <2> QED
    BY <1>5, <2>1 DEF Decided
<1> QED
  BY <1>1, <1>2, <1>3, <1>4, <1>6, <1>7, <1>8, <1>9, <1>10, <1>11, <1>12, <1>13 DEF Next, Step, EmitWorker,
    SelectProposal, StageCandidate, BuildControl, InjectControlFault, history

-------------------------------------------------------------------------------
(* What the validator makes of the record.                                 *)

\* A record it accepts is one of a trial with the outcome its scope calls for.
LEMMA AcceptedIsRight ==
  ASSUME IInv, RecordInv, Done, Accepted
  PROVE  /\ OutcomeOfScope
         /\ disturbed = 0 /\ outside = "original"
         /\ IF ReleaseExpected
            THEN workspace.service = safe /\ (workspace.stray => raced)
            ELSE workspace = Captured
<1>1. preauth.workspace /\ preauth.outside /\ outside = "original"
  BY DEF Accepted, PreauthorizationValid
<1>2. disturbed = 0
  BY <1>1 DEF RecordInv, Decided
<1>3. /\ workspace_materialized = authorized
      /\ authorized => workspace # Captured
      /\ ~authorized => workspace = Captured
  BY DEF Accepted, DecisionValid
<1>4. /\ receipt.released = ReleaseExpected
      /\ receipt.rollback_verified = (~receipt.released /\ workspace = Captured)
      /\ receipt.recovered = (receipt.released /\ selected = safe)
      /\ receipt.fail_closed = (receipt.rollback_verified /\ outside = "original")
  BY DEF Accepted, OutcomeValid
<1>5. CASE ReleaseExpected
  <2>1. receipt.released
    BY <1>4, <1>5
  <2>2. workspace_materialized /\ workspace.service = safe /\ (raced \/ workspace = Repaired)
    BY <2>1 DEF IInv, Governed
  <2>3. selected = safe
    BY <2>2 DEF IInv, Governed, Granted
  <2> QED
    BY <1>1, <1>2, <1>4, <1>5, <2>1, <2>2, <2>3 DEF OutcomeOfScope, Repaired, Captured
<1>6. CASE ~ReleaseExpected
  <2>1. ~receipt.released
    BY <1>4, <1>6 DEF ReleaseExpected
  <2>2. workspace = Captured
    BY <1>3, <2>1 DEF IInv, Governed, ReleasedOrRestored
  <2>3. receipt.rollback_verified /\ receipt.fail_closed
    BY <1>1, <1>4, <2>1, <2>2
  <2> QED
    BY <1>1, <1>2, <1>6, <2>2, <2>3 DEF OutcomeOfScope
<1> QED
  BY <1>5, <1>6

LEMMA AsEmitted ==
  ASSUME IInv, Course, RecordInv, Done, AsInjected
  PROVE  EmissionsValid
<1>1. emitted = Worker
  BY DEF Course, Past, Done
<1>2. \A p \in proposals : p.actor \in Worker
  BY <1>1 DEF IInv, Proposed
<1>3. ASSUME NEW w \in Worker
      PROVE  ExpectedEmissions(w) = {p \in proposals : p.actor = w}
  <2>1. PICK B : B = {p \in proposals : p.actor = w}
    OBVIOUS
  <2>2. B \in Emissions(w)
    BY <1>1, <2>1 DEF RecordInv, Sent
  <2>3. worker_faults[w] \in WorkerFault
    BY DEF IInv, Typed
  <2>4. CASE worker_faults[w] = "timeout"
    <3>1. B = {}
      BY <2>1, <2>4 DEF AsInjected
    <3> QED
      BY <2>1, <2>4, <3>1 DEF ExpectedEmissions
  <2>5. CASE worker_faults[w] # "timeout"
    <3>1. PICK E : E = Emissions(w)
      OBVIOUS
    <3>2. \E C : E = {C} /\ (worker_faults[w] = "crash" => C = {})
      BY <2>3, <2>5, <3>1 DEF Emissions, WorkerFault
    <3>3. E = {B} /\ (worker_faults[w] = "crash" => B = {})
      BY <2>2, <3>1, <3>2
    <3>4. UNION E = B
      BY <3>3
    <3> QED
      BY <2>1, <2>5, <3>1, <3>3, <3>4 DEF ExpectedEmissions
  <2> QED
    BY <2>4, <2>5
<1>4. proposals = UNION {ExpectedEmissions(w) : w \in Worker}
  <2>1. \A p \in proposals : p \in ExpectedEmissions(p.actor)
    BY <1>2, <1>3
  <2>2. \A w \in Worker : ExpectedEmissions(w) \subseteq proposals
    BY <1>3
  <2> QED
    BY <1>2, <2>1, <2>2
<1> QED
  BY <1>4 DEF EmissionsValid

LEMMA AsJudged ==
  ASSUME IInv, RecordInv, Done, AsInjected
  PROVE  ControlsValid
<1>1. /\ timed_out = ExpectedTimeouts /\ attestations = Presented /\ requested_by = Requester
      /\ candidate_staged = ExpectedStaged
      /\ staging = IF ExpectedStaged THEN selected ELSE "faulty"
  BY DEF AsInjected, RecordInv, Evidenced, Staged, Past, Done
<1>2. /\ "faulty" \notin Candidate /\ safe # unsafe /\ safe \in Candidate
      /\ unsafe \in Candidate /\ ~Escapes(safe)
  BY TrialAssumption DEF Candidate, Escapes
<1>3. ASSUME NEW m \in Control
      PROVE  Verdict(m) = ExpectedVerdict(m)
  <2>1. RoleOf[m] \in {"verifier", "challenger", "governor"}
    BY DEF Control, ControlRole, EXPECTED_EVIDENCE
  <2>2. CASE ~ExpectedStaged
    BY <1>1, <2>2 DEF Verdict, Satisfied, ExpectedVerdict
  <2>3. CASE ExpectedStaged
    <3>1. candidate_staged /\ staging = selected
      BY <1>1, <2>3
    <3>2. CASE RoleOf[m] = "verifier"
      <4>1. Satisfied("verifier") <=> selected = safe
        BY <1>2, <3>1 DEF Satisfied, VisiblePass, InvariantPass
      <4> QED
        BY <1>1, <2>3, <3>2, <4>1 DEF Verdict, ExpectedVerdict
    <3>3. CASE RoleOf[m] = "challenger"
      <4>1. Satisfied("challenger") <=> selected = safe
        BY <1>2, <3>1 DEF Satisfied, InvariantPass, PolicyApproves
      <4> QED
        BY <1>1, <2>3, <3>3, <4>1 DEF Verdict, ExpectedVerdict
    <3>4. CASE RoleOf[m] = "governor"
      <4>1. Satisfied("governor") <=> PolicyApproves(selected)
        BY <3>1 DEF Satisfied
      <4> QED
        BY <1>1, <2>3, <3>4, <4>1 DEF Verdict, ExpectedVerdict
    <3> QED
      BY <2>1, <3>2, <3>3, <3>4
  <2> QED
    BY <2>2, <2>3
<1>4. Evidence = {Attest(m, ExpectedVerdict(m)) : m \in Control}
  BY <1>3 DEF Evidence
<1> QED
  BY <1>1, <1>4 DEF ControlsValid, Presented

\* Two Workers that do not propose the repair leave it without a quorum.
LEMMA TwoAreTooMany ==
  ASSUME IInv, Done, AsInjected, authorized,
         worker_faults[FirstWorker] # "none", worker_faults[SecondWorker] # "none"
  PROVE  FALSE
<1>1. /\ FirstWorker \in Worker /\ SecondWorker \in Worker /\ FirstWorker # SecondWorker
      /\ IsFiniteSet(Worker)
  BY TrialAssumption, MatrixAssumption, MembershipAssumption, FS_Subset DEF Worker
<1>2. safe = SelectedPatch(Context, proposals) /\ safe # NoPatch
  BY TrialAssumption DEF IInv, Granted, Chosen, Candidate
<1>3. PICK S : S = Backers(Context, proposals, safe)
  OBVIOUS
<1>4. Cardinality(S) >= proposal_quorum
  BY <1>2, <1>3, SelectionHasQuorum
<1>5. S \subseteq (Worker \ {FirstWorker}) \ {SecondWorker}
  <2> SUFFICES ASSUME NEW m \in S
               PROVE  m \in Worker /\ worker_faults[m] = "none"
    OBVIOUS
  <2>1. m \in Worker /\ worker_faults[m] \in {"none", "timeout"}
    BY <1>3, SafeBackers DEF IInv
  <2>2. \E p \in proposals : p.actor = m
    BY <1>3 DEF Backers, Admitted
  <2>3. worker_faults[m] # "timeout"
    BY <2>2 DEF AsInjected
  <2> QED
    BY <2>1, <2>3
<1>6. /\ Cardinality(Worker) \in Nat
      /\ Cardinality(Worker \ {FirstWorker}) = Cardinality(Worker) - 1
      /\ IsFiniteSet(Worker \ {FirstWorker})
  BY <1>1, FS_CardinalityType, FS_RemoveElement
<1>7. /\ Cardinality((Worker \ {FirstWorker}) \ {SecondWorker}) = Cardinality(Worker) - 1 - 1
      /\ IsFiniteSet((Worker \ {FirstWorker}) \ {SecondWorker})
  <2>1. SecondWorker \in Worker \ {FirstWorker}
    BY <1>1
  <2> QED
    BY <1>6, <2>1, FS_RemoveElement
<1>8. /\ Cardinality(S) \in Nat
      /\ Cardinality(S) <= Cardinality((Worker \ {FirstWorker}) \ {SecondWorker})
  BY <1>5, <1>7, FS_Subset, FS_CardinalityType
<1>9. proposal_quorum \in Nat /\ Cardinality(Worker) < proposal_quorum + 2
  BY MatrixAssumption, QuorumConfigAssumption
<1> QED
  BY <1>4, <1>6, <1>7, <1>8, <1>9

\* A trial of the matrix is authorized exactly when its scope calls for a release.
LEMMA AuthorizedAsExpected ==
  ASSUME IInv, RecoveryInv, RecordInv, Done, Preregistered, AsInjected
  PROVE  authorized <=> ReleaseExpected
<1>1. ~failed /\ Untouched /\ timed_out = ExpectedTimeouts
  BY DEF AsInjected, Untouched
<1>2. FirstWorker \in Worker /\ SecondWorker \in Worker \ {FirstWorker}
  BY TrialAssumption, MatrixAssumption
<1>3. ASSUME ReleaseExpected PROVE authorized
  <2>1. faults \in trial_specs.baseline \union trial_specs.single_worker
    BY <1>3 DEF Preregistered, ReleaseExpected, trial_specs
  <2>2. PICK f : faults = <<Faults(f, "none"), "none">>
    BY <2>1 DEF trial_specs
  <2>3. worker_faults = Faults(f, "none") /\ control_fault = "none"
    BY <2>2 DEF faults
  <2>4. {w \in Worker : worker_faults[w] # "none"} \subseteq {FirstWorker}
    BY <2>3 DEF Faults
  <2>5. Tolerated
    <3>1. IsFiniteSet({FirstWorker}) /\ Cardinality({FirstWorker}) = 1
      BY FS_Singleton
    <3>2. PICK F : F = {w \in Worker : worker_faults[w] # "none"}
      OBVIOUS
    <3>3. F \subseteq {FirstWorker}
      BY <2>4, <3>2
    <3>4. Cardinality(F) \in Nat /\ Cardinality(F) <= 1
      BY <3>1, <3>3, FS_Subset, FS_CardinalityType
    <3>5. max_faulty_workers \in Nat /\ max_faulty_workers >= 1
      BY MatrixAssumption, QuorumConfigAssumption
    <3>6. Cardinality(F) <= max_faulty_workers
      BY <3>4, <3>5
    <3> QED
      BY <3>2, <3>6 DEF Tolerated
  <2>6. timed_out = {}
    BY <1>1, <2>3 DEF ExpectedTimeouts
  <2>7. Smooth
    BY <1>1, <2>3, <2>5, <2>6 DEF Smooth
  <2> QED
    BY <2>7 DEF RecoveryInv, Achieved, Past, Done, Early
<1>4. ASSUME ~ReleaseExpected, authorized PROVE FALSE
  <2>1. control_fault \in {"none", "verifier_timeout"} /\ \A a \in attestations : a.verdict = "approve"
    BY <1>4 DEF IInv, Granted
  <2>2. faults \in trial_specs.out_of_boundary
    BY <1>4 DEF ReleaseExpected
  <2>3. CASE control_fault = "none"
    <3>1. \E f \in {"crash", "timeout", "unsafe_patch", "traversal", "symlink_path", "equivocation"} :
            faults = <<Faults(f, f), "none">>
      BY <2>2, <2>3 DEF trial_specs, faults
    <3>2. PICK f : f # "none" /\ worker_faults = Faults(f, f)
      BY <3>1 DEF faults
    <3>3. worker_faults[FirstWorker] = f /\ worker_faults[SecondWorker] = f
      BY <1>2, <3>2 DEF Faults
    <3> QED
      BY <1>4, <3>2, <3>3, TwoAreTooMany
  <2>4. CASE control_fault = "verifier_timeout"
    <3>1. attestations = Evidence
      BY <2>4 DEF RecordInv, Evidenced, Past, Done, Presented, Tampered
    <3>2. FirstVerifier \in Control /\ FirstVerifier \in timed_out
      BY <1>1, <2>4, TrialAssumption DEF ExpectedTimeouts
    <3>3. Verdict(FirstVerifier) = "reject"
      BY <3>2 DEF Verdict
    <3>4. Attest(FirstVerifier, "reject") \in attestations
      BY <3>1, <3>2, <3>3 DEF Evidence
    <3> QED
      BY <2>1, <3>4 DEF Attest
  <2> QED
    BY <2>1, <2>3, <2>4
<1> QED
  BY <1>3, <1>4

\* The record of a trial in which nothing went wrong but what it injects is accepted.
LEMMA InjectedIsAccepted ==
  ASSUME IInv, RecoveryInv, RecordInv, Done, Preregistered, AsInjected
  PROVE  Accepted
<1>1. ~failed /\ disturbed = 0 /\ ~raced /\ timed_out = ExpectedTimeouts /\ Course
  BY DEF AsInjected, RecoveryInv
<1>2. EmissionsValid /\ ControlsValid
  BY <1>1, AsEmitted, AsJudged
<1>3. preauth.workspace /\ preauth.outside /\ outside = "original"
  BY <1>1 DEF RecordInv, Decided, Past, Done, Early, Course, Untouched
<1>4. PreauthorizationValid
  BY <1>1, <1>3 DEF PreauthorizationValid, RecordInv, Staged, Past, Done, Course
<1>5. "trial" \notin timed_out
  BY <1>1, TrialAssumption, MatrixAssumption DEF ExpectedTimeouts, Control
<1>6. (authorized <=> Authorizes) /\ (workspace_materialized <=> Cleared)
      /\ (verified <=> workspace_materialized) /\ receipt = Recalled
  BY <1>1, <1>5 DEF RecordInv, Decided, Past, Done, Early
<1>7. {authorized, workspace_materialized, verified} \subseteq BOOLEAN
      /\ Authorizes \in BOOLEAN /\ ReleaseExpected \in BOOLEAN
  BY DEF IInv, Typed, Authorizes, Authorized, ReleaseExpected
<1>8. (workspace_materialized <=> authorized) /\ (verified <=> authorized)
  BY <1>3, <1>6 DEF Cleared
<1>9. (authorized => workspace = Repaired) /\ (~authorized => workspace = Captured)
  <2>1. Released <=> authorized
    BY <1>8 DEF Released
  <2>2. receipt.released <=> authorized
    BY <1>6, <2>1 DEF Recalled
  <2> QED
    BY <1>1, <2>2 DEF IInv, Governed, ReleasedOrRestored
<1>10. Repaired # Captured
  <2>1. safe # "faulty"
    BY TrialAssumption DEF Candidate
  <2> QED
    BY <2>1 DEF Repaired, Captured
<1>11. DecisionValid
  <2>1. authorized = Authorizes /\ workspace_materialized = authorized
    BY <1>6, <1>7, <1>8
  <2>2. IF authorized THEN workspace # Captured ELSE workspace = Captured
    BY <1>9, <1>10
  <2> QED
    BY <2>1, <2>2 DEF DecisionValid, Authorizes
<1>12. OutcomeValid
  <2>1. authorized <=> ReleaseExpected
    BY AuthorizedAsExpected
  <2>2. verified = ReleaseExpected
    BY <1>7, <1>8, <2>1
  <2>3. /\ receipt.released = Released
        /\ receipt.rollback_verified = (~Released /\ workspace = Captured)
        /\ receipt.recovered = (Released /\ selected = safe)
        /\ receipt.fail_closed = (~Released /\ workspace = Captured /\ outside = "original")
    BY <1>6 DEF Recalled
  <2>4. Released = (authorized /\ verified) /\ Released = ReleaseExpected
    BY <1>7, <1>8, <2>1 DEF Released
  <2> QED
    BY <2>2, <2>3, <2>4 DEF OutcomeValid
<1> QED
  BY <1>2, <1>4, <1>11, <1>12 DEF Accepted

-------------------------------------------------------------------------------
(* The theorems.                                                           *)

THEOREM Inductive == Spec => []IInv
<1>1. IInv /\ [Next]_vars => IInv'
  BY TypedStep, ProposedStep, ChosenStep, JudgedStep, TaintedStep, GrantedStep, CheckedStep,
     GovernedStep DEF IInv
<1> QED
  BY <1>1, IInvInit, PTL DEF Spec

\* No trial releases anything but the repair, or writes outside the workspace: _run_trial with
\* _inject_worker_fault, the ingress and the gate.
THEOREM NeverUnsafe == Spec => []NoUnsafeRelease
<1>1. IInv => NoUnsafeRelease
  BY DEF IInv, Typed, Governed, NoUnsafeRelease, Captured, Repaired
<1> QED
  BY <1>1, Inductive, PTL

\* A candidate is in the governed workspace only with a quorum of Workers that were at worst
\* slow and with untampered, approving controls, also when an application fails half-way.
THEOREM EvidenceFirst == Spec => []WrittenOnlyWithEvidence
<1>1. IInv => WrittenOnlyWithEvidence
  <2> SUFFICES ASSUME IInv, workspace.service \in Candidate
               PROVE  WrittenOnlyWithEvidence
    BY DEF WrittenOnlyWithEvidence
  <2> DEFINE Slow == {w \in Worker : worker_faults[w] \in {"none", "timeout"}}
  <2>1. authorized
    BY TrialAssumption DEF IInv, Typed, Governed
  <2>2. /\ selected = safe /\ control_fault \in {"none", "verifier_timeout"}
        /\ \A a \in attestations : a.verdict = "approve"
    BY <2>1 DEF IInv, Granted
  <2>3. safe = SelectedPatch(Context, proposals) /\ safe # NoPatch
    BY <2>2, TrialAssumption DEF IInv, Chosen, Candidate
  <2>4. Cardinality(Backers(Context, proposals, safe)) >= proposal_quorum
    BY <2>3, SelectionHasQuorum
  <2>5. Backers(Context, proposals, safe) \subseteq Slow
    BY SafeBackers DEF IInv
  <2>6. IsFiniteSet(Slow)
    BY MembershipAssumption, FS_Subset DEF Worker
  <2>7. /\ Cardinality(Backers(Context, proposals, safe)) \in Nat
        /\ Cardinality(Slow) \in Nat
        /\ Cardinality(Backers(Context, proposals, safe)) <= Cardinality(Slow)
    BY <2>5, <2>6, FS_Subset, FS_CardinalityType
  <2>8. Cardinality(Slow) >= proposal_quorum
    BY <2>4, <2>7, QuorumConfigAssumption
  <2> QED
    BY <2>2, <2>8 DEF WrittenOnlyWithEvidence
<1> QED
  BY <1>1, Inductive, PTL

\* A trial nobody disturbed, and an authorized one whoever disturbed it, ends with a release or
\* with the workspace as captured; what a failed application left is undone before the suites run.
THEOREM AlwaysReleasedOrRestored == Spec => []ReleasedOrRestored
<1>1. IInv => ReleasedOrRestored
  BY DEF IInv, Governed
<1> QED
  BY <1>1, Inductive, PTL

\* The receipt tells the truth about the workspace, whatever another process does before the
\* preauthorization check and once more between the check and the write.
THEOREM ReceiptAlwaysTrue == Spec => []ReceiptIsTrue
<1>1. IInv => ReceiptIsTrue
  BY DEF IInv, Governed
<1> QED
  BY <1>1, Inductive, PTL

\* The inductive invariant of a trial in which nothing happens but tolerated Worker faults: each
\* stage has achieved what the next one needs.
THEOREM RecoveryInvariant == Spec => []RecoveryInv
<1>1. Init => RecoveryInv
  <2> SUFFICES ASSUME Init PROVE RecoveryInv
    OBVIOUS
  <2>1. Course
    BY DEF Init, Course, Past
  <2>2. Achieved
    BY DEF Init, Achieved, Past, Done, Early
  <2> QED
    BY <2>1, <2>2 DEF RecoveryInv
<1>2. IInv /\ RecoveryInv /\ [Next]_vars => RecoveryInv'
  BY SmoothBefore, CourseStep, AchievedStep DEF RecoveryInv
<1> QED
  BY <1>1, <1>2, Inductive, PTL DEF Spec

\* With intact controls and at most max_faulty_workers Workers of any fault, nothing else going
\* wrong, a trial that ends has released the repair: _run_trial.
THEOREM ToleratedFaultsAlwaysRecover == Spec => []ToleratedFaultsRecover
<1>1. RecoveryInv => ToleratedFaultsRecover
  BY DEF RecoveryInv, Achieved, Smooth, Untouched, Tolerated, ToleratedFaultsRecover
<1> QED
  BY <1>1, RecoveryInvariant, PTL

\* The inductive invariant of the record: each part of it is what the stage before made of the
\* parts before, however slow the controls are and whatever fails.
THEOREM RecordInvariant == Spec => []RecordInv
<1>1. Init => RecordInv
  <2> SUFFICES ASSUME Init PROVE RecordInv
    OBVIOUS
  <2>1. Sent /\ Staged
    BY DEF Init, Sent, Staged, Past
  <2>2. Evidenced
    BY DEF Init, Evidenced, Past
  <2>3. Decided
    BY DEF Init, Decided, Past, Early, Done
  <2> QED
    BY <2>1, <2>2, <2>3 DEF RecordInv
<1>2. IInv /\ RecoveryInv /\ RecordInv /\ [Next]_vars => RecordInv'
  BY SentStep, EvidencedStep, StagedStep, DecidedStep DEF RecordInv, RecoveryInv
<1> QED
  BY <1>1, <1>2, Inductive, RecoveryInvariant, PTL DEF Spec

\* _validate_trial accepts every finished trial of the matrix in which only what it injects went
\* wrong, and nothing it accepts had another outcome than its scope calls for.
THEOREM ValidationAlwaysExact == Spec => []ValidationIsExact
<1>1. IInv /\ RecoveryInv /\ RecordInv => ValidationIsExact
  BY InjectedIsAccepted, AcceptedIsRight DEF ValidationIsExact
<1> QED
  BY <1>1, Inductive, RecoveryInvariant, RecordInvariant, PTL
===============================================================================

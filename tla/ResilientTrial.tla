---------------------------- MODULE ResilientTrial ----------------------------
(***************************************************************************)
(* One fault-injection trial, _run_trial of                                *)
(* src/remedyfabric/resilient.py: Workers propose, the ingress selects,    *)
(* the candidate is staged in a copy, the control actors judge the copy,   *)
(* the gate decides, and only an authorized candidate is applied to the    *)
(* governed workspace, verified there and kept or undone.                  *)
(*                                                                         *)
(* The ingress and the gate are the functions IngressRule and QuorumRule   *)
(* define; ProposalIngress and QuorumGate show that the loops compute them.*)
(* apply_candidate has the outcomes AtomicApply allows, and a restore that *)
(* fails those of WorkspaceSnapshot.  Test commands may time out, system   *)
(* calls may fail, and another process may change the workspace or the     *)
(* file beside it: MaxDisturb times before the preauthorization check, and *)
(* once between the check and the write, which nothing looks at again (the *)
(* docs name this window and promise nothing for it).  Changes during the  *)
(* write, the verification and the rollback are excluded by the docs.      *)
(***************************************************************************)
EXTENDS IngressRule

CONSTANTS
  run, priorRun, snapshot, otherSnapshot, artifact, forged,   \* opaque digests
  safe, unsafe, traversal, symlink,                           \* the candidates
  ReleaseManager,
  FirstWorker, FirstVerifier,                                 \* "worker-1" and "verifier-1"
  WorkerFaults,       \* the fault assignments to try
  MaxDisturb,         \* bound: changes made by another process before the check
  DisturbedFaults     \* bound: the assignments beside which it makes them

Worker == {m \in Member : RoleOf[m] = "worker"}

Control == {m \in Member : RoleOf[m] \in ControlRole}

WorkerFault ==
  {"none", "crash", "timeout", "equivocation", "forged", "replay", "unsafe_patch", "traversal",
   "symlink_path", "context_mismatch", "role_impersonation"}

ControlFault ==
  {"none", "forged_verifier_evidence", "replayed_verifier_evidence", "verifier_context_mismatch",
   "release_role_impersonation", "verifier_timeout", "challenger_crash", "governor_crash"}

Candidate == {safe, unsafe, traversal, symlink}

\* The trials inject known faults; digests and candidates that ought to differ do.
ASSUME TrialAssumption ==
  /\ WorkerFaults \subseteq [Worker -> WorkerFault]
  /\ FirstWorker \in Worker
  /\ FirstVerifier \in Control /\ RoleOf[FirstVerifier] = "verifier"
  /\ safe \notin {unsafe, traversal, symlink, forged}
  /\ {"faulty", "other", NoPatch} \intersect Candidate = {}
  /\ priorRun # run /\ otherSnapshot # snapshot /\ forged # artifact

\* _members and the defaults of QuorumConfig: every threshold can be met without the faulty
\* Workers it is to tolerate, and what is bound to a release is well formed.
ASSUME RosterAssumption ==
  /\ ReleaseManager \in Member /\ RoleOf[ReleaseManager] = "release-manager"
  /\ Cardinality(Worker) >= proposal_quorum + max_faulty_workers
  /\ \A r \in ControlRole : Cardinality({m \in Member : RoleOf[m] = r}) >= required[r]
  /\ run # NoRun /\ NoDigest \notin {snapshot, safe, artifact}

VARIABLES
  worker_faults, control_fault,     \* the trial's specification
  pc,
  emitted,            \* Workers that have been run
  proposals,
  selected,
  staging,            \* the service in the staging copy
  candidate_staged,
  attestations,
  requested_by,
  workspace,          \* the governed one: its service, and whether a stray file is in it
  outside,            \* the sentinel beside it
  preauth,            \* the two answers of the preauthorization check
  authorized,
  workspace_materialized,
  verified,
  receipt,
  timed_out,          \* history: the controls whose commands timed out, and "trial" itself
  failed,             \* history: a system call failed
  disturbed,          \* history: changes made by another process before the check
  raced               \* history: it made one between the check and the write

vars == <<worker_faults, control_fault, pc, emitted, proposals, selected, staging,
          candidate_staged, attestations, requested_by, workspace, outside, preauth, authorized,
          workspace_materialized, verified, receipt, timed_out, failed, disturbed, raced>>

history == <<timed_out, failed, disturbed, raced>>

faults == <<worker_faults, control_fault>>

Captured == [service |-> "faulty", stray |-> FALSE]     \* what the snapshot holds

NoReceipt == [released |-> FALSE, recovered |-> FALSE, rollback_verified |-> FALSE,
              fail_closed |-> FALSE]

Init ==
  /\ worker_faults \in WorkerFaults
  /\ control_fault \in ControlFault
  /\ pc = "workers"
  /\ emitted = {}
  /\ proposals = {}
  /\ selected = NoPatch
  /\ staging = "faulty"
  /\ candidate_staged = FALSE
  /\ attestations = {}
  /\ requested_by = ReleaseManager
  /\ workspace = Captured
  /\ outside = "original"
  /\ preauth = [workspace |-> FALSE, outside |-> FALSE]
  /\ authorized = FALSE
  /\ workspace_materialized = FALSE
  /\ verified = FALSE
  /\ receipt = NoReceipt
  /\ timed_out = {}
  /\ failed = FALSE
  /\ disturbed = 0
  /\ raced = FALSE

-------------------------------------------------------------------------------
(* Workers and ingress                                                     *)

Issue(w, c) ==
  [actor |-> w, role |-> "worker", run |-> run, snapshot |-> snapshot, patch |-> c, claimed |-> c]

\* What _emit_worker may return.  A late answer is dropped, unless the collector
\* itself is so late that the answer is there before it starts to wait.
Emissions(w) ==
  LET honest == Issue(w, safe) IN
  CASE worker_faults[w] = "none" -> {{honest}}
    [] worker_faults[w] = "crash" -> {{}}
    [] worker_faults[w] = "timeout" -> {{}, {honest}}
    [] worker_faults[w] = "equivocation" -> {{honest, Issue(w, unsafe)}}
    [] worker_faults[w] = "forged" -> {{[honest EXCEPT !.claimed = forged]}}
    [] worker_faults[w] = "replay" -> {{[honest EXCEPT !.run = priorRun]}}
    [] worker_faults[w] = "unsafe_patch" -> {{Issue(w, unsafe)}}
    [] worker_faults[w] = "traversal" -> {{Issue(w, traversal)}}
    [] worker_faults[w] = "symlink_path" -> {{Issue(w, symlink)}}
    [] worker_faults[w] = "context_mismatch" -> {{[honest EXCEPT !.snapshot = otherSnapshot]}}
    [] worker_faults[w] = "role_impersonation" -> {{[honest EXCEPT !.role = "release-manager"]}}

EmitWorker(w) ==
  /\ pc = "workers"
  /\ w \in Worker \ emitted
  /\ emitted' = emitted \union {w}
  /\ \E batch \in Emissions(w) : proposals' = proposals \union batch
  /\ UNCHANGED <<faults, pc, selected, staging, candidate_staged, attestations, requested_by,
                 workspace, outside, preauth, authorized, workspace_materialized, verified,
                 receipt, history>>

Context == [run |-> run, snapshot |-> snapshot]

\* Mutant: selection waits for a proposal of every Worker.
AllProposed == emitted = Worker /\ {p.actor : p \in proposals} = Worker

AllEmitted == emitted = Worker

SelectProposal ==
  /\ pc = "workers"
  /\ AllEmitted
  /\ pc' = "stage"
  /\ selected' = SelectedPatch(Context, proposals)
  /\ UNCHANGED <<faults, emitted, proposals, staging, candidate_staged, attestations,
                 requested_by, workspace, outside, preauth, authorized, workspace_materialized,
                 verified, receipt, history>>

\* Mutant: the gate is given what the Workers sent.
raw_proposals == proposals

\* No Worker sends a second copy of an admitted proposal, so what is left of
\* equivocators is what the gate is given.
proposals_for_gate ==
  {p \in Admitted(Context, proposals) : ~Equivocates(Context, proposals, p.actor)}

-------------------------------------------------------------------------------
(* Staging and controls                                                    *)

\* The two candidates whose path leaves the workspace, by `..' or through a link.
Escapes(c) == c \in {traversal, symlink}

\* Mutant: paths are not validated.
ApplicableAnywhere(c, service) == service = "faulty"

\* AtomicApply!Commit needs edits whose path is safe and whose old text is there.
Applicable(c, service) == ~Escapes(c) /\ service = "faulty"

\* The sentinel after the candidate is written.
WrittenOutside(c) == IF Escapes(c) THEN "owned" ELSE outside

StageCandidate ==
  /\ pc = "stage"
  /\ pc' = "attest"
  /\ \/ /\ selected # NoPatch /\ Applicable(selected, staging)
        /\ staging' = selected
        /\ outside' = WrittenOutside(selected)
        /\ candidate_staged' = TRUE
        /\ UNCHANGED failed
     \/ /\ selected # NoPatch
        /\ failed' = (failed \/ Applicable(selected, staging))
        /\ UNCHANGED <<staging, outside, candidate_staged>>
     \/ /\ selected # NoPatch /\ Applicable(selected, staging)      \* torn
        /\ staging' = selected
        /\ outside' = WrittenOutside(selected)
        /\ failed' = TRUE
        /\ UNCHANGED candidate_staged
     \/ /\ selected = NoPatch
        /\ UNCHANGED <<staging, outside, candidate_staged, failed>>
  /\ UNCHANGED <<faults, emitted, proposals, selected, attestations, requested_by, workspace,
                 preauth, authorized, workspace_materialized, verified, receipt, timed_out, disturbed, raced>>

VisiblePass(service) == service \in {safe, unsafe}

InvariantPass(service) == service \in {safe, "faulty"}

\* RecoveryPolicy: there are edits, and they stay under the allowed roots.
PolicyApproves(c) == c \in Candidate /\ ~Escapes(c)

\* What an actor of role r finds in the staging copy if no command times out.
Satisfied(r) ==
  candidate_staged /\
  CASE r = "verifier" -> VisiblePass(staging) /\ InvariantPass(staging)
    [] r = "challenger" -> InvariantPass(staging) /\ PolicyApproves(selected)
    [] r = "governor" -> PolicyApproves(selected)

Runs(r) == r \in {"verifier", "challenger"}       \* executes commands, which may time out

Attest(m, verdict) ==
  LET b == [run |-> run, snapshot |-> snapshot, candidate |-> selected,
            kind |-> EXPECTED_EVIDENCE[RoleOf[m]], artifact |-> artifact]
  IN  [actor |-> m, role |-> RoleOf[m], verdict |-> verdict, binding |-> b, claimed |-> b]

BuildControl(m) ==
  /\ pc = "attest"
  /\ m \in Control /\ \A a \in attestations : a.actor # m
  /\ \/ /\ attestations' = attestations \union
             {Attest(m, IF Satisfied(RoleOf[m]) THEN "approve" ELSE "reject")}
        /\ UNCHANGED timed_out
     \/ /\ Runs(RoleOf[m])
        /\ attestations' = attestations \union {Attest(m, "reject")}
        /\ timed_out' = timed_out \union {m}
  /\ UNCHANGED <<faults, pc, emitted, proposals, selected, staging, candidate_staged,
                 requested_by, workspace, outside, preauth, authorized, workspace_materialized,
                 verified, receipt, failed, disturbed, raced>>

Of(m, evidence) == CHOOSE a \in evidence : a.actor = m

Replacing(a, b, evidence) == (evidence \ {a}) \union {b}

\* The evidence presented after the trial's control fault.
Tampered(evidence) ==
  LET a == Of(FirstVerifier, evidence) IN
  CASE control_fault = "forged_verifier_evidence" ->
         Replacing(a, [a EXCEPT !.claimed = [a.binding EXCEPT !.artifact = forged]], evidence)
    [] control_fault = "replayed_verifier_evidence" ->
         Replacing(a, [a EXCEPT !.binding.run = priorRun, !.claimed.run = priorRun], evidence)
    [] control_fault = "verifier_context_mismatch" ->
         Replacing(a, [a EXCEPT !.binding.snapshot = otherSnapshot,
                                !.claimed.snapshot = otherSnapshot], evidence)
    [] control_fault = "challenger_crash" -> {x \in evidence : x.role # "challenger"}
    [] control_fault = "governor_crash" -> {x \in evidence : x.role # "governor"}
    [] OTHER -> evidence

Requester ==
  IF control_fault = "release_role_impersonation" THEN FirstWorker ELSE ReleaseManager

InjectControlFault ==
  /\ pc = "attest"
  /\ {a.actor : a \in attestations} = Control
  /\ pc' = "preauthorize"
  /\ attestations' = Tampered(attestations)
  /\ requested_by' = Requester
  /\ UNCHANGED <<faults, emitted, proposals, selected, staging, candidate_staged, workspace,
                 outside, preauth, authorized, workspace_materialized, verified, receipt, history>>

-------------------------------------------------------------------------------
(* Authorization and release                                               *)

Preauthorize ==
  /\ pc = "preauthorize"
  /\ pc' = "gate"
  /\ preauth' = [workspace |-> workspace = Captured, outside |-> outside = "original"]
  /\ UNCHANGED <<faults, emitted, proposals, selected, staging, candidate_staged, attestations,
                 requested_by, workspace, outside, authorized, workspace_materialized, verified,
                 receipt, history>>

Request ==
  [run |-> run, snapshot |-> snapshot, candidate |-> selected, actor |-> requested_by,
   role |-> RoleOf[requested_by]]

Decide ==
  /\ pc = "gate"
  /\ pc' = "materialize"
  /\ authorized' = Authorized(Request, proposals_for_gate, attestations)
  /\ UNCHANGED <<faults, emitted, proposals, selected, staging, candidate_staged, attestations,
                 requested_by, workspace, outside, preauth, workspace_materialized, verified,
                 receipt, history>>

\* Mutant: the decision is not consulted.
ClearedUndecided == preauth.workspace /\ preauth.outside

Cleared == authorized /\ preauth.workspace /\ preauth.outside

Materialize ==
  /\ pc = "materialize"
  /\ Cleared
  /\ Applicable(selected, workspace.service)
  /\ pc' = "verify"
  /\ workspace' = [workspace EXCEPT !.service = selected]
  /\ outside' = WrittenOutside(selected)
  /\ workspace_materialized' = TRUE
  /\ UNCHANGED <<faults, emitted, proposals, selected, staging, candidate_staged, attestations,
                 requested_by, preauth, authorized, verified, receipt, history>>

\* apply_candidate raised: it refused the edits, or a system call failed, after which
\* temporary files and the edited source may be there.
MaterializeFails ==
  /\ pc = "materialize"
  /\ Cleared
  /\ pc' = "restore"
  /\ IF Applicable(selected, workspace.service)
     THEN /\ workspace' \in [service : {workspace.service, selected}, stray : {workspace.stray, TRUE}]
          /\ failed' = TRUE
     ELSE UNCHANGED <<workspace, failed>>
  /\ UNCHANGED <<faults, emitted, proposals, selected, staging, candidate_staged, attestations,
                 requested_by, outside, preauth, authorized, workspace_materialized, verified,
                 receipt, timed_out, disturbed, raced>>

\* Mutant: a restore leaves files in place that were not captured.
AddedFilesStay == [Captured EXCEPT !.stray = workspace.stray]

\* The workspace after a restore: what was not captured is removed, the rest rewritten.
Restored == Captured

\* Within the handler, if the digest shows anything left.
RestoreTorn ==
  /\ pc = "restore"
  /\ pc' = "verify"
  /\ workspace' = Restored
  /\ UNCHANGED <<faults, emitted, proposals, selected, staging, candidate_staged, attestations,
                 requested_by, outside, preauth, authorized, workspace_materialized, verified,
                 receipt, history>>

Withhold ==
  /\ pc = "materialize"
  /\ ~Cleared
  /\ pc' = "verify"
  /\ UNCHANGED <<faults, emitted, proposals, selected, staging, candidate_staged, attestations,
                 requested_by, workspace, outside, preauth, authorized, workspace_materialized,
                 verified, receipt, history>>

\* Both suites run in the governed workspace, whatever was decided.
VerifyRelease ==
  /\ pc = "verify"
  /\ pc' = "finalize"
  /\ \/ /\ verified' = (workspace_materialized /\ VisiblePass(workspace.service)
                          /\ InvariantPass(workspace.service))
        /\ UNCHANGED timed_out
     \/ /\ verified' = FALSE
        /\ timed_out' = timed_out \union {"trial"}
  /\ UNCHANGED <<faults, emitted, proposals, selected, staging, candidate_staged, attestations,
                 requested_by, workspace, outside, preauth, authorized, workspace_materialized,
                 receipt, failed, disturbed, raced>>

Released == authorized /\ verified

\* What is authorized and not verified is undone.
Undoes == authorized /\ ~Released

FinalWorkspace == IF Undoes THEN Restored ELSE workspace

\* Mutant: a denied release is taken for a rollback.
RollbackAssumed == ~Released

RollbackVerified == ~Released /\ FinalWorkspace = Captured

Finalize ==
  /\ pc = "finalize"
  /\ pc' = "done"
  /\ workspace' = FinalWorkspace
  /\ receipt' = [released |-> Released, rollback_verified |-> RollbackVerified,
                 recovered |-> Released /\ selected = safe,
                 fail_closed |-> RollbackVerified /\ outside = "original"]
  /\ UNCHANGED <<faults, emitted, proposals, selected, staging, candidate_staged, attestations,
                 requested_by, outside, preauth, authorized, workspace_materialized, verified,
                 history>>

-------------------------------------------------------------------------------
(* The surroundings                                                        *)

Running == pc \notin {"done", "aborted"}

\* An exception no handler names (copying a tree, capturing or restoring a snapshot,
\* starting a process) ends the trial without a receipt.
Abort ==
  /\ Running
  /\ pc' = "aborted"
  /\ failed' = TRUE
  /\ UNCHANGED <<faults, emitted, proposals, selected, staging, candidate_staged, attestations,
                 requested_by, workspace, outside, preauth, authorized, workspace_materialized,
                 verified, receipt, timed_out, disturbed, raced>>

\* A restore raised half-way: nothing that was as captured is damaged, and of the rest
\* some is still to be rewritten.
RestoreFails ==
  /\ pc = "restore" \/ (pc = "finalize" /\ Undoes)
  /\ workspace # Captured
  /\ pc' = "aborted"
  /\ failed' = TRUE
  /\ workspace' \in [service : {"faulty"} \union (IF workspace.service = "faulty" THEN {}
                                               ELSE {workspace.service, "other"}),
                     stray : {FALSE, workspace.stray}]
  /\ UNCHANGED <<faults, emitted, proposals, selected, staging, candidate_staged, attestations,
                 requested_by, outside, preauth, authorized, workspace_materialized, verified,
                 receipt, timed_out, disturbed, raced>>

Disturb ==
  /\ pc \in {"workers", "stage", "attest", "preauthorize"}
  /\ disturbed < MaxDisturb
  /\ worker_faults \in DisturbedFaults
  /\ disturbed' = disturbed + 1
  /\ \/ /\ ~workspace.stray
        /\ workspace' = [workspace EXCEPT !.stray = TRUE]
        /\ UNCHANGED outside
     \/ /\ outside' = "changed"
        /\ UNCHANGED workspace
  /\ UNCHANGED <<faults, pc, emitted, proposals, selected, staging, candidate_staged,
                 attestations, requested_by, preauth, authorized, workspace_materialized,
                 verified, receipt, timed_out, failed, raced>>

\* Between the check and the write: a file appears, the source is edited, or the file
\* beside the workspace is.
Race ==
  /\ pc \in {"gate", "materialize"}
  /\ ~raced /\ MaxDisturb > 0
  /\ worker_faults \in DisturbedFaults
  /\ raced' = TRUE
  /\ \/ /\ workspace' \in {[workspace EXCEPT !.stray = TRUE], [workspace EXCEPT !.service = "other"]}
        /\ UNCHANGED outside
     \/ /\ outside' = "changed"
        /\ UNCHANGED workspace
  /\ UNCHANGED <<faults, pc, emitted, proposals, selected, staging, candidate_staged,
                 attestations, requested_by, preauth, authorized, workspace_materialized,
                 verified, receipt, timed_out, failed, disturbed>>

Step ==
  \/ \E w \in Worker : EmitWorker(w)
  \/ SelectProposal \/ StageCandidate
  \/ \E m \in Control : BuildControl(m)
  \/ InjectControlFault \/ Preauthorize \/ Decide
  \/ Materialize \/ MaterializeFails \/ RestoreTorn \/ Withhold
  \/ VerifyRelease \/ Finalize

Next == Step \/ Abort \/ RestoreFails \/ Disturb \/ Race

Spec == Init /\ [][Next]_vars

\* The trial is one thread, and each of its waits has a timeout.
FairSpec == Spec /\ WF_vars(Step)

-------------------------------------------------------------------------------
(* Properties                                                              *)

Done == pc = "done"

\* Whoever colludes, a trial never ends with an unsafe patch released, nor has the
\* file beside the workspace been written by a candidate.  A change made between the check
\* and the write can stay beside the release, but does not alter what is released.
NoUnsafeRelease ==
  /\ receipt.released =>
       /\ workspace.service = safe
       /\ raced \/ (~workspace.stray /\ outside = "original")
  /\ outside # "owned"

\* A candidate is in the governed workspace only after a quorum of Workers that were
\* at worst slow proposed it, and no control actor or requester was tampered with.
WrittenOnlyWithEvidence ==
  workspace.service \in Candidate =>
    /\ Cardinality({w \in Worker : worker_faults[w] \in {"none", "timeout"}}) >= proposal_quorum
    /\ control_fault \in {"none", "verifier_timeout"}
    /\ \A a \in attestations : a.verdict = "approve"

\* A trial that ends has released, or left the workspace as it was captured: what a failed
\* application left behind is gone when the suites run, and at the end.  A denied trial
\* restores nothing, so that this needs nobody else to have changed it.
ReleasedOrRestored ==
  /\ Done /\ ((disturbed = 0 /\ ~raced) \/ authorized) => receipt.released \/ workspace = Captured
  /\ pc \in {"verify", "finalize"} /\ Cleared /\ ~workspace_materialized => workspace = Captured

\* The demonstrated guarantee: with at most max_faulty_workers faulty Workers of any
\* kind, intact controls and no timeout, I/O failure or change by another process, the
\* repair is released.
ToleratedFaultsRecover ==
  /\ Done /\ ~failed /\ timed_out = {} /\ disturbed = 0 /\ ~raced /\ control_fault = "none"
  /\ Cardinality({w \in Worker : worker_faults[w] # "none"}) <= max_faulty_workers
  => receipt.recovered

\* What the receipt says of the workspace is so, also when another process has been
\* there: a rollback it vouches for is byte-exact, and a release was made on a
\* workspace nobody had touched before it was checked.
ReceiptIsTrue ==
  /\ receipt.rollback_verified => workspace = Captured
  /\ receipt.fail_closed => outside = "original" /\ ~receipt.released
  /\ receipt.released => preauth.workspace /\ preauth.outside /\ disturbed = 0

\* Every trial ends, whichever Workers and controls are silent.
Terminates == <>(pc \in {"done", "aborted"})
===============================================================================

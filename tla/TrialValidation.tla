---------------------------- MODULE TrialValidation ----------------------------
(***************************************************************************)
(* What a finished trial is published by: _validate_trial of               *)
(* src/remedyfabric/evidence_validation.py recomputes a trial's record     *)
(* from the preregistered specification and from what the record itself    *)
(* says was sent, run and found, and the matrix of resilient.py passes     *)
(* its gate only if every trial has the outcome its scope calls for.       *)
(*                                                                         *)
(* The record of a trial is its state at the end.  A record holds more     *)
(* than the state does (digests, counts, reason codes, durations), all of  *)
(* it derived; a control in timed_out has had each of its commands time    *)
(* out, since the validator refuses one of two.                            *)
(***************************************************************************)
EXTENDS ResilientTrial

CONSTANT SecondWorker       \* "worker-2"

\* The matrix is made for the default membership: it tolerates one faulty Worker, and the
\* others are no quorum without two of them.
ASSUME MatrixAssumption ==
  /\ SecondWorker \in Worker \ {FirstWorker}
  /\ max_faulty_workers >= 1
  /\ Cardinality(Worker) < proposal_quorum + 2
  /\ "trial" \notin Member

-------------------------------------------------------------------------------
(* The preregistered trials.                                               *)

Faults(f, g) ==
  [w \in Worker |-> CASE w = FirstWorker -> f [] w = SecondWorker -> g [] OTHER -> "none"]

trial_specs ==
  [baseline |-> {<<Faults("none", "none"), "none">>},
   single_worker |->
     {<<Faults(f, "none"), "none">> : f \in WorkerFault \ {"none", "traversal", "symlink_path"}},
   out_of_boundary |->
     {<<Faults(f, f), "none">> :
        f \in {"crash", "timeout", "unsafe_patch", "traversal", "symlink_path", "equivocation"}}
     \union {<<Faults("none", "none"), c>> : c \in ControlFault \ {"none"}}]

Preregistered == \E scope \in DOMAIN trial_specs : faults \in trial_specs[scope]

ReleaseExpected == faults \notin trial_specs.out_of_boundary

-------------------------------------------------------------------------------
(* The trial recomputed.                                                   *)

ExpectedEmissions(w) ==
  IF worker_faults[w] \in {"crash", "timeout"} THEN {} ELSE UNION Emissions(w)

EmissionsValid == proposals = UNION {ExpectedEmissions(w) : w \in Worker}

ExpectedStaged == selected # NoPatch /\ ~Escapes(selected)

\* Mutant: what the record says was unchanged before the gate is not looked at.
StagingOnly ==
  /\ selected = SelectedPatch(Context, proposals)
  /\ candidate_staged = ExpectedStaged
  /\ staging = IF ExpectedStaged THEN selected ELSE "faulty"

\* The candidate was staged unless its path leaves the workspace, and up to the gate
\* neither the governed workspace nor the file beside it had changed.
PreauthorizationValid ==
  /\ selected = SelectedPatch(Context, proposals)
  /\ candidate_staged = ExpectedStaged
  /\ staging = IF ExpectedStaged THEN selected ELSE "faulty"
  /\ preauth.workspace /\ preauth.outside
  /\ outside = "original"

ExpectedTimeouts == IF control_fault = "verifier_timeout" THEN {FirstVerifier} ELSE {}

\* The suites' results are not taken from the record: a staged candidate passes the
\* visible suite, and the invariant suite only if it is the one the Workers ought to find.
ExpectedVerdict(m) ==
  IF /\ ExpectedStaged /\ m \notin ExpectedTimeouts
     /\ IF RoleOf[m] = "governor" THEN PolicyApproves(selected) ELSE selected = safe
  THEN "approve" ELSE "reject"

ControlsValid ==
  /\ timed_out = ExpectedTimeouts
  /\ attestations = Tampered({Attest(m, ExpectedVerdict(m)) : m \in Control})
  /\ requested_by = Requester

\* The decision is the gate's, asked again; an authorized candidate is in the workspace at
\* the end and nothing else is.
DecisionValid ==
  /\ authorized = Authorized(Request, proposals_for_gate, attestations)
  /\ workspace_materialized = authorized
  /\ IF authorized THEN workspace # Captured ELSE workspace = Captured

OutcomeValid ==
  /\ verified = ReleaseExpected
  /\ receipt.released = (authorized /\ verified)
  /\ receipt.released = ReleaseExpected
  /\ receipt.rollback_verified = (~receipt.released /\ workspace = Captured)
  /\ receipt.recovered = (receipt.released /\ selected = safe)
  /\ receipt.fail_closed = (receipt.rollback_verified /\ outside = "original")

\* _validate_trial finds no failure.
Accepted ==
  /\ Preregistered
  /\ EmissionsValid
  /\ PreauthorizationValid
  /\ ControlsValid
  /\ DecisionValid
  /\ OutcomeValid

-------------------------------------------------------------------------------

\* The matrix's gate needs this of every trial: 90 % of the baseline's recovery rate is, of
\* eight trials, all.
OutcomeOfScope ==
  /\ IF ReleaseExpected THEN receipt.recovered ELSE receipt.fail_closed
  /\ receipt.released \/ receipt.rollback_verified

\* Nothing went wrong but what the trial injects, and no injected delay was too short.
AsInjected ==
  /\ ~failed /\ disturbed = 0 /\ ~raced
  /\ timed_out = ExpectedTimeouts
  /\ \A p \in proposals : worker_faults[p.actor] # "timeout"

\* The validator and the trial agree: a finished trial of the matrix is accepted whenever
\* only what it injects went wrong, whichever it is, and an accepted one had the outcome its
\* scope calls for, beside a file nobody else had touched and on a workspace that nobody
\* else had touched before it was checked.
ValidationIsExact ==
  Done /\ Preregistered =>
    /\ AsInjected => Accepted
    /\ Accepted =>
         /\ OutcomeOfScope
         /\ disturbed = 0 /\ outside = "original"
         /\ IF ReleaseExpected
            THEN workspace.service = safe /\ (workspace.stray => raced)
            ELSE workspace = Captured
===============================================================================

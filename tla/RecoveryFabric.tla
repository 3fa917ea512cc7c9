----------------------------- MODULE RecoveryFabric -----------------------------
(***************************************************************************)
(* RecoveryFabric.run (src/remedyfabric/orchestrator.py) with its agents   *)
(* (agents.py): one incident through diagnosis, proposal, policy,          *)
(* application and verification under one of the five profiles of the      *)
(* ablation, every event appended to the ledger.  A run of the test suite  *)
(* may time out and may leave something in the workspace; every call may   *)
(* fail and the process may be killed.                                     *)
(*                                                                         *)
(* apply_candidate and restore are used as ApplyCandidate and              *)
(* WorkspaceSnapshot show them to be: all, nothing, or an error that says  *)
(* the tree is torn; the snapshot, or an error.                            *)
(***************************************************************************)
EXTENDS EvidenceLedger

CONSTANT None

VARIABLES
  profile,            \* the switches that are on
  candidate,          \* what is proposed, and what is true of it
  workspace,
  approved,
  before, visible, invariant,   \* which suites were seen to pass
  pc,
  result

run == <<profile, candidate, workspace, approved, before, visible, invariant, pc, result>>

PROFILES ==
  {{"governor", "verifier", "rollback"}, {"verifier", "rollback"},
   {"governor", "rollback"}, {"governor", "verifier"}, {}}

Full == {"governor", "verifier", "rollback"}

\* Edits of sources, of tests or workflows, or others the policy rejects; and whether the
\* suites pass: the visible one before the patch, both after it.
Candidate ==
  [edits : {"source", "protected", "other"}, wasPassing : BOOLEAN,
   fixesVisible : BOOLEAN, fixesInvariant : BOOLEAN]

Tree == [content : {"captured", "patched", "torn"}, littered : BOOLEAN]

Captured == [content |-> "captured", littered |-> FALSE]

Result ==
  [outcome : {"recovered", "blocked", "rolled_back", "failed"}, accepted : BOOLEAN,
   invariant_tests_passed : BOOLEAN, safety_violation : BOOLEAN, rollback_verified : BOOLEAN]

Terminal == {"returned", "raised", "killed"}

\* The event appended at each point, and where the run goes on.
Following ==
  [incident_received |-> "diagnose", diagnosis |-> "propose", patch_proposed |-> "decide",
   policy_decision |-> "act", policy_bypassed |-> "act", run_blocked |-> "blocked",
   patch_applied |-> "verify", patch_apply_failed |-> "repair",
   independent_verification |-> "conclude", verification_bypassed |-> "conclude",
   recovery_committed |-> "recovered", recovery_rolled_back |-> "rolled_back",
   unsafe_failure_retained |-> "retained"]

ASSUME FabricAssumption == DOMAIN Following \subseteq Event \ Separated /\ None \notin Result

\* `pc' is the event about to be appended, or the call about to be made.
FabricTypeOK ==
  /\ profile \in PROFILES
  /\ candidate \in Candidate
  /\ workspace \in Tree
  /\ {approved, before, visible, invariant} \subseteq BOOLEAN
  /\ result \in Result \union {None}
  /\ pc \in DOMAIN Following \union Terminal
           \union {Following[e] : e \in DOMAIN Following} \union {"apply", "apply_failed"}
  /\ (pc = "returned") <=> (result # None)

FabricInit ==
  /\ Init
  /\ profile \in PROFILES
  /\ candidate \in Candidate
  /\ workspace = Captured
  /\ approved = FALSE /\ before = FALSE /\ visible = FALSE /\ invariant = FALSE
  /\ pc = "incident_received"
  /\ result = None

-------------------------------------------------------------------------------

Log ==
  /\ pc \in DOMAIN Following
  /\ Record(pc)
  /\ pc' = Following[pc]
  /\ UNCHANGED <<profile, candidate, workspace, approved, before, visible, invariant, result>>

\* Mutant: a verdict that cannot be recorded is given all the same.
OnAppendErrorGoOn(event) ==
  CASE event = "patch_applied" -> "patch_apply_failed"
    [] event \in {"recovery_committed", "recovery_rolled_back", "run_blocked"} -> Following[event]
    [] OTHER -> "raised"

\* Mutant: a decision that cannot be recorded is carried out.
OnDecisionErrorGoOn(event) ==
  CASE event = "patch_applied" -> "patch_apply_failed"
    [] event = "policy_decision" -> Following[event]
    [] OTHER -> "raised"

\* Only the append after apply_candidate is inside its try.
OnAppendError(event) == IF event = "patch_applied" THEN "patch_apply_failed" ELSE "raised"

LogFails ==
  /\ pc \in DOMAIN Following
  /\ RecordFails(pc)
  /\ pc' = OnAppendError(pc)
  /\ UNCHANGED <<profile, candidate, workspace, approved, before, visible, invariant, result>>

\* A suite that would pass may still time out.
Outcomes(passing) == {FALSE, passing}

\* Whatever a test writes stays beside the content.
RunSuite(tree) == {tree, [tree EXCEPT !.littered = TRUE]}

Diagnose ==
  /\ pc = "diagnose"
  /\ before' \in Outcomes(candidate.wasPassing)
  /\ workspace' \in RunSuite(workspace)
  /\ pc' = "diagnosis"
  /\ UNCHANGED <<ledger, profile, candidate, approved, visible, invariant, result>>

Propose ==
  /\ pc = "propose"
  /\ pc' = "patch_proposed"
  /\ UNCHANGED <<ledger, profile, candidate, workspace, approved, before, visible, invariant, result>>

Approves == "governor" \in profile => candidate.edits = "source"

Decide ==
  /\ pc = "decide"
  /\ approved' = Approves
  /\ pc' = IF "governor" \in profile THEN "policy_decision" ELSE "policy_bypassed"
  /\ UNCHANGED <<ledger, profile, candidate, workspace, before, visible, invariant, result>>

Act ==
  /\ pc = "act"
  /\ pc' = IF approved THEN "apply" ELSE "run_blocked"
  /\ UNCHANGED <<ledger, profile, candidate, workspace, approved, before, visible, invariant, result>>

Apply ==
  /\ pc = "apply"
  /\ \/ workspace' = [workspace EXCEPT !.content = "patched"] /\ pc' = "patch_applied"
     \/ workspace' \in {workspace, [workspace EXCEPT !.content = "torn"]} /\ pc' = "patch_apply_failed"
  /\ UNCHANGED <<ledger, profile, candidate, approved, before, visible, invariant, result>>

\* The restore of the handler.
Repair ==
  /\ pc = "repair"
  /\ pc' = "apply_failed"
  /\ workspace' = IF "rollback" \in profile THEN Captured ELSE workspace
  /\ UNCHANGED <<ledger, profile, candidate, approved, before, visible, invariant, result>>

\* Both suites, in the patched workspace; without a verifier the diagnosis stands for both.
Verify ==
  /\ pc = "verify"
  /\ IF "verifier" \in profile
       THEN /\ visible' \in Outcomes(candidate.fixesVisible)
            /\ invariant' \in Outcomes(candidate.fixesInvariant)
            /\ workspace' \in RunSuite(workspace)
            /\ pc' = "independent_verification"
       ELSE /\ visible' = before /\ invariant' = before
            /\ pc' = "verification_bypassed"
            /\ UNCHANGED workspace
  /\ UNCHANGED <<ledger, profile, candidate, approved, before, result>>

\* Mutant: one suite is enough.
EitherPassed == visible \/ invariant

verified == visible /\ invariant

\* Mutant: the check of the rollback compares contents only.
MatchesContent == workspace.content = "captured"

Matches == workspace = Captured

Conclude ==
  /\ pc = "conclude"
  /\ pc' = CASE verified -> "recovery_committed"
             [] ~verified /\ "rollback" \in profile -> "recovery_rolled_back"
             [] OTHER -> "unsafe_failure_retained"
  /\ workspace' = IF pc' = "recovery_rolled_back" THEN Captured ELSE workspace
  /\ UNCHANGED <<ledger, profile, candidate, approved, before, visible, invariant, result>>

Return(outcome, accepted, passed, violation, rollback) ==
  /\ result' = [outcome |-> outcome, accepted |-> accepted, invariant_tests_passed |-> passed,
                safety_violation |-> violation, rollback_verified |-> rollback]
  /\ pc' = "returned"
  /\ UNCHANGED <<ledger, profile, candidate, workspace, approved, before, visible, invariant>>

Touched == candidate.edits = "protected"

ReturnBlocked == pc = "blocked" /\ Return("blocked", FALSE, FALSE, FALSE, Matches)

ReturnApplyFailed == pc = "apply_failed" /\ Return("failed", FALSE, FALSE, TRUE, Matches)

ReturnRecovered == pc = "recovered" /\ Return("recovered", TRUE, invariant, Touched, FALSE)

ReturnRolledBack == pc = "rolled_back" /\ Return("rolled_back", FALSE, invariant, Touched, Matches)

ReturnRetained == pc = "retained" /\ Return("failed", TRUE, invariant, Touched, FALSE)

Step ==
  \/ Log \/ LogFails
  \/ Diagnose \/ Propose \/ Decide \/ Act \/ Apply \/ Repair \/ Verify \/ Conclude
  \/ ReturnBlocked \/ ReturnApplyFailed \/ ReturnRecovered \/ ReturnRolledBack \/ ReturnRetained

Restoring ==
  /\ "rollback" \in profile
  /\ pc = "repair" \/ (pc = "conclude" /\ ~verified)

\* The points outside the try at which something is called, the appends apart.
Calling ==
  \/ pc \in {"diagnose", "propose", "blocked", "apply_failed"}
  \/ pc = "decide" /\ "governor" \in profile
  \/ pc = "verify" /\ "verifier" \in profile
  \/ Restoring

\* What a call that does not come to its end may have done to the workspace.
HalfDone ==
  CASE pc = "diagnose" -> RunSuite(workspace)
    [] pc = "verify" /\ Calling -> RunSuite(workspace)
    [] pc = "apply" \/ Restoring ->
         {[content |-> c, littered |-> l] : c \in {workspace.content, "captured", "patched", "torn"},
                                            l \in {workspace.littered, FALSE}}
    [] OTHER -> {workspace}

\* An exception there ends the run: a suite whose output is no text, a link or an
\* unreadable file in the workspace, no space left.
Escape ==
  /\ Calling
  /\ workspace' \in HalfDone
  /\ pc' = "raised"
  /\ UNCHANGED <<ledger, profile, candidate, approved, before, visible, invariant, result>>

\* Also an exception apply_candidate raises that is not caught, like KeyboardInterrupt.
Kill ==
  /\ pc \notin Terminal
  /\ \/ workspace' \in HalfDone /\ UNCHANGED ledger
     \/ pc \in DOMAIN Following /\ RecordFails(pc) /\ UNCHANGED workspace
  /\ pc' = "killed"
  /\ UNCHANGED <<profile, candidate, approved, before, visible, invariant, result>>

FabricNext == Step \/ Escape \/ Kill

FabricSpec == FabricInit /\ [][FabricNext]_<<ledger, run>>

-------------------------------------------------------------------------------
(* Properties                                                              *)

Sound == candidate.fixesVisible /\ candidate.fixesInvariant

\* What run returns is so: what it says of the rollback is what is in the workspace, a
\* recovery is the patch, which passes both suites if there was a verifier, and with a
\* rollback nothing that was not accepted is left behind.  Of the invariant suite a verifier
\* has seen the patch; without one the result is that of the workspace before it, and says
\* nothing of the patch.
ResultIsTrue ==
  result # None =>
    /\ result.rollback_verified => workspace = Captured
    /\ result.outcome \in {"rolled_back", "blocked"} => workspace.content = "captured"
    /\ result.outcome = "recovered" =>
         /\ workspace.content = "patched" /\ result.invariant_tests_passed
         /\ "verifier" \in profile => Sound
    /\ result.invariant_tests_passed =>
         IF "verifier" \in profile THEN candidate.fixesInvariant ELSE candidate.wasPassing
    /\ "rollback" \in profile /\ ~result.accepted => workspace.content = "captured"
    /\ "rollback" \in profile /\ result.accepted => result.outcome = "recovered"

\* Every result but a failed application is the last event of a journal that verifies: an
\* append that failed on the way never goes unnoticed.
Verdict ==
  [recovered |-> {"recovery_committed"}, blocked |-> {"run_blocked"},
   rolled_back |-> {"recovery_rolled_back"},
   failed |-> {"unsafe_failure_retained", "patch_apply_failed"}]

ResultIsRecorded ==
  result # None /\ result.outcome # "failed" =>
    Verified /\ Last(journal).body.event \in Verdict[result.outcome]

\* However the run ended, a journal that verifies and ends with a verdict tells the truth
\* about the workspace.
JournalIsTrue ==
  Verified =>
    LET event == Last(journal).body.event
    IN /\ event = "recovery_committed" =>
            workspace.content = "patched" /\ ("verifier" \in profile => Sound)
       /\ event = "recovery_rolled_back" => workspace = Captured
       /\ event = "run_blocked" => workspace.content = "captured"
       /\ event = "unsafe_failure_retained" => "rollback" \notin profile

\* Under the full profile a patch that was not verified, or a part of one, is left behind
\* only by a run that gives no result and whose journal stops between the decision and the
\* verdict: an exception or a failed append after the application is the one way out that
\* restores nothing.
Unconcluded == {"policy_decision", "patch_applied", "patch_apply_failed",
                "independent_verification"}

ResidueIsUnconcluded ==
  profile = Full /\ pc \in Terminal /\ workspace.content # "captured" =>
    \/ verified /\ Sound
    \/ result = None /\ (Verified => Last(journal).body.event \in Unconcluded)
===============================================================================

------------------------------- MODULE RoleTool -------------------------------
(***************************************************************************)
(* scripts/agentteams_role_tool.py: one execution of one role in a Worker  *)
(* container, as a function of its JSON payload and of the workspace it    *)
(* finds there.  An execution that raises leaves no output, but may leave  *)
(* a changed workspace.                                                    *)
(*                                                                         *)
(* A workspace is the source app/service.py and everything else; a         *)
(* candidate is the one edit the tool knows, of that source; one that      *)
(* changes nothing stands for a candidate without edits.  A digest is the  *)
(* value it is the digest of.                                              *)
(***************************************************************************)
EXTENDS Naturals, FiniteSets

CONSTANTS
  Text,               \* contents of app/service.py
  EXPECTED_OLD,       \* the faulty one
  Missing,            \* there is no such file
  Repair,             \* [Text -> Text]: what the rules of the recovery skill make of it
  Correct,            \* the contents both suites accept
  Rest,               \* contents of the other files
  WithSuites,         \* those with a visible and an invariant suite
  Discriminating,     \* of these, suites that differ and reject the overfit mutant
  Refused, Risky,     \* candidates the policy refuses, or approves at some risk
  Run, NoRun, NoDigest

ASSUME RoleToolAssumption ==
  /\ EXPECTED_OLD \in Text /\ Missing \notin Text
  /\ Repair \in [Text -> Text]
  /\ Correct \subseteq Text
  /\ Discriminating \subseteq WithSuites /\ WithSuites \subseteq Rest
  /\ NoRun \notin Run

Tree == [service : Text \union {Missing}, rest : Rest]

Candidate == [old : Text, new : Text]

MEMBERS ==
  [a \in {"rf-proposer-a", "rf-proposer-b", "rf-verifier", "rf-verifier-b", "rf-challenger",
          "rf-governor", "rf-release-manager"} |->
     CASE a \in {"rf-proposer-a", "rf-proposer-b"} -> "worker"
       [] a \in {"rf-verifier", "rf-verifier-b"} -> "verifier"
       [] a = "rf-challenger" -> "challenger"
       [] a = "rf-governor" -> "governor"
       [] a = "rf-release-manager" -> "release-manager"]

Proposers == {a \in DOMAIN MEMBERS : MEMBERS[a] = "worker"}

\* The gate with the members above and the thresholds of QuorumConfig.
Gate == INSTANCE QuorumRule WITH
  Actor <- DOMAIN MEMBERS, Member <- DOMAIN MEMBERS, RoleOf <- MEMBERS,
  proposal_quorum <- 2, verifier_quorum <- 2, challenger_quorum <- 1, governor_quorum <- 1,
  max_faulty_workers <- 1

\* Who may execute which role.
Authorized ==
  [proposer |-> Proposers, verifier |-> {"rf-verifier", "rf-verifier-b"},
   challenger |-> {"rf-challenger"}, reviewer |-> {"rf-lead"}, governor |-> {"rf-governor"},
   release_manager |-> {"rf-release-manager"}, cloud_preflight |-> {"rf-verifier"}]

\* A payload p has the role, the actor, the run, the snapshot and the candidate, the digests
\* `in' of the receipts it consumes, and, of two roles, proposals and attestations.
MinimumInputs ==
  [r \in DOMAIN Authorized |-> CASE r = "proposer" -> 0 [] r = "release_manager" -> 7 [] OTHER -> 2]

Admitted(p) ==
  /\ p.actor \in Authorized[p.role]
  /\ Cardinality(p.in) >= MinimumInputs[p.role]

-------------------------------------------------------------------------------
(* The proposer runs the recovery skill on the workspace it is bound to.   *)

WithSource(tree) == IF tree.service = Missing THEN [tree EXCEPT !.service = EXPECTED_OLD] ELSE tree

Propose(tree) == [old |-> tree.service, new |-> Repair[tree.service]]

Issue(p, candidate) ==
  [actor |-> p.actor, role |-> "worker", run |-> p.run, snapshot |-> p.snapshot,
   patch |-> candidate, claimed |-> candidate]

ObservesSnapshot(p, tree) == WithSource(tree) = p.snapshot

-------------------------------------------------------------------------------
(* Verifiers, Challenger and Governor test the candidate on a copy of the  *)
(* faulty tree, and attest what they saw.                                  *)

Staging == {"verifier", "challenger", "governor"}

Staged(tree, candidate) == [tree EXCEPT !.service = candidate.new]

\* Mutant: the workspace is not compared with the snapshot the payload names.
AppliesToAnyTree(p, tree) == tree.service = p.candidate.old

\* The tree is the bound snapshot, byte for byte, and the candidate applies to it.
Applies(p, tree) == tree = p.snapshot /\ tree.service = p.candidate.old

\* The candidate edits something, and the staged tree has both suites to run.
Stageable(p, tree) ==
  Applies(p, tree) /\ p.candidate.old # p.candidate.new /\ tree.rest \in WithSuites

SuitesPass(tree) == tree.service \in Correct /\ tree.rest \in WithSuites

NegativeControlHolds(tree) == tree.rest \in Discriminating

Approves(p, tested) ==
  CASE p.role = "verifier" -> SuitesPass(tested)
    [] p.role = "challenger" -> SuitesPass(tested) /\ NegativeControlHolds(tested)
    [] p.role = "governor" -> p.candidate \notin Refused

\* What the suites print, their duration included, is in the artifact of those who run them.
Artifact(p, tested, printed) ==
  [actor |-> p.actor, staged |-> tested, passed |-> SuitesPass(tested),
   risk |-> p.candidate \in Risky, stdout |-> IF p.role = "governor" THEN 0 ELSE printed]

\* NoDigest is the digest of none of these.
ASSUME DigestAssumption ==
  /\ NoDigest \notin Tree /\ NoDigest \notin Candidate
  /\ NoDigest \notin [actor : DOMAIN MEMBERS, staged : Tree, passed : BOOLEAN, risk : BOOLEAN,
                       stdout : Nat]

Attest(p, tested, printed) ==
  LET binding ==
        [run |-> p.run, candidate |-> p.candidate, snapshot |-> p.snapshot,
         kind |-> Gate!EXPECTED_EVIDENCE[p.role], artifact |-> Artifact(p, tested, printed)]
  IN  [actor |-> p.actor, role |-> p.role, binding |-> binding, claimed |-> binding,
       verdict |-> IF Approves(p, tested) THEN "approve" ELSE "reject"]

-------------------------------------------------------------------------------
(* The reviewer recomputes that both proposals are sound and agree.        *)

Converged(p) ==
  /\ Cardinality(p.proposals) = 2
  /\ {x.actor : x \in p.proposals} = Proposers
  /\ \A x \in p.proposals :
       /\ Gate!ProposalIntegrity(x)
       /\ x.run = p.run /\ x.snapshot = p.snapshot /\ x.claimed = p.candidate

-------------------------------------------------------------------------------
(* The Release Manager asks the quorum gate.                               *)

Request(p) ==
  [run |-> p.run, snapshot |-> p.snapshot, candidate |-> p.candidate, actor |-> p.actor,
   role |-> "release-manager"]

Decision(p) == IF Gate!Authorized(Request(p), p.proposals, p.attestations) THEN "release" ELSE "rollback"

-------------------------------------------------------------------------------
(* execute(): whether it returns, what it returns, and what it leaves.     *)

Returns(p, tree) ==
  /\ Admitted(p)
  /\ p.role = "proposer" => ObservesSnapshot(p, tree)
  /\ p.role \in Staging => Stageable(p, tree)
  /\ p.role = "reviewer" => Converged(p)

\* The messages in the output: a proposal, an attestation, or none.
Says(p, tree, printed) ==
  CASE p.role = "proposer" -> {Issue(p, Propose(WithSource(tree)))}
    [] p.role \in Staging -> {Attest(p, Staged(tree, p.candidate), printed)}
    [] OTHER -> {}

\* The preflight stops for want of credentials: exit code 2.
ExitCode(p) == IF p.role = "cloud_preflight" THEN 2 ELSE 0

\* The source is created, and the candidate applied, before the checks that follow.
Leaves(p, tree) ==
  CASE p.role = "proposer" /\ Admitted(p) -> WithSource(tree)
    [] p.role \in Staging /\ Admitted(p) /\ Applies(p, tree) -> Staged(tree, p.candidate)
    [] OTHER -> tree
===============================================================================

------------------------------ MODULE AtomicApply ------------------------------
(***************************************************************************)
(* What apply_candidate promises its callers: all edits of a valid         *)
(* candidate or none, decided in one step.  Only when the caller is told   *)
(* so (`torn': the error says that restoring failed too, or the call was   *)
(* interrupted or killed) may some of the edits be left behind.  Nothing is *)
(* promised once another process has changed the tree.                     *)
(***************************************************************************)
EXTENDS Workspace

VARIABLES
  targets,            \* what is at each path
  edits,              \* the candidate
  result

vars == <<targets, edits, result>>

\* Nothing can be applied to a tree in which some edit is stale or misplaced.
Applicable ==
  \A i \in DOMAIN edits :
    /\ edits[i].path \notin UnsafePath
    /\ Text(targets[edits[i].path]) = edits[i].old

Init == result = "pending"

Commit ==
  /\ result = "pending"
  /\ Applicable
  /\ result' = "applied"
  /\ targets' = AfterEdits(targets, edits, DOMAIN edits)
  /\ UNCHANGED edits

Refuse ==
  /\ result = "pending"
  /\ result' = "refused"
  /\ UNCHANGED <<targets, edits>>

Tear ==
  /\ result = "pending"
  /\ Applicable
  /\ result' = "torn"
  /\ \E S \in SUBSET DOMAIN edits : targets' = AfterEdits(targets, edits, S)
  /\ UNCHANGED edits

Void ==
  /\ result = "pending"
  /\ result' = "void"
  /\ UNCHANGED <<targets, edits>>

Next == Commit \/ Refuse \/ Tear \/ Void

Spec == Init /\ [][Next]_vars
===============================================================================

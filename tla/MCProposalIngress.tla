--------------------------- MODULE MCProposalIngress ---------------------------
(* Three Workers and the rest of the champion membership; every kind of    *)
(* faulty proposal src/remedyfabric/resilient.py injects (_emit_worker),   *)
(* and a duplicate that differs only in its wording.                       *)
EXTENDS ProposalIngress

CONSTANTS w1, w2, w3, v1, rm, stranger, good, bad, run, oldRun, snap, oldSnap

MCRoleOf ==
  [m \in {w1, w2, w3, v1, rm} |->
     CASE m \in {w1, w2, w3} -> "worker"
       [] m = v1 -> "verifier"
       [] m = rm -> "release-manager"]

MCMember == DOMAIN MCRoleOf

MCActor == MCMember \union {stranger}

MCContext == [run |-> run, snapshot |-> snap]

Issue(actor, patch) ==
  [actor |-> actor, role |-> "worker", run |-> run, snapshot |-> snap, patch |-> patch,
   claimed |-> patch, wording |-> "plain"]

MCProposalPool ==
  {Issue(m, d) : m \in {w1, w2, w3}, d \in {good, bad}} \union
  {[Issue(w1, good) EXCEPT !.wording = "other"],
   [Issue(w1, bad) EXCEPT !.claimed = good],
   [Issue(w1, good) EXCEPT !.run = oldRun],
   [Issue(w2, good) EXCEPT !.snapshot = oldSnap],
   [Issue(w2, good) EXCEPT !.role = "release-manager"],
   Issue(v1, good),
   Issue(stranger, good)}
===============================================================================

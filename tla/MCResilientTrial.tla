--------------------------- MODULE MCResilientTrial ---------------------------
(* The champion membership under every control fault and every assignment  *)
(* of Worker faults up to the Workers' names.                              *)
EXTENDS TrialValidation, Sequences

CONSTANTS w1, w2, w3, v1, v2, c1, g1

MCRoleOf ==
  [m \in {w1, w2, w3, v1, v2, c1, g1, ReleaseManager} |->
     CASE m \in {w1, w2, w3} -> "worker"
       [] m \in {v1, v2} -> "verifier"
       [] m = c1 -> "challenger"
       [] m = g1 -> "governor"
       [] m = ReleaseManager -> "release-manager"]

MCMember == DOMAIN MCRoleOf

\* Workers with a fault the ingress quarantines are alike to everything after it.
Mild == {"none", "timeout", "equivocation", "unsafe_patch", "traversal"}

Assign(f1, f2, f3) == [w \in {w1, w2, w3} |-> CASE w = w1 -> f1 [] w = w2 -> f2 [] w = w3 -> f3]

MCWorkerFaults ==
  {Assign(f, g, h) : f \in WorkerFault, g \in Mild, h \in {"none", "timeout"}} \union
  {Assign(f, f, f) : f \in WorkerFault} \union
  {Assign(f, f, "none") : f \in WorkerFault}

FewWorkerFaults == {Assign(f, g, "none") : f, g \in {"none", "crash", "unsafe_patch"}}
===============================================================================

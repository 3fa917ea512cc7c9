------------------------------ MODULE IngressRule ------------------------------
(***************************************************************************)
(* The rule validate_and_select_proposals (src/remedyfabric/resilient.py)  *)
(* follows: which of the proposals P of a recovery with context c count,   *)
(* and which patch they select.                                            *)
(***************************************************************************)
EXTENDS QuorumRule

CONSTANT NoPatch      \* no candidate selected

\* Mutant: a proposal of an earlier run counts.
AdmissibleFromAnyRun(c, p) == Registered(p) /\ p.role = "worker" /\ ProposalIntegrity(p)

Admissible(c, p) ==
  /\ Registered(p)
  /\ p.role = "worker"
  /\ ProposalIntegrity(p)
  /\ InRunContext(c, p)

Admitted(c, P) == {p \in P : Admissible(c, p)}

Equivocates(c, P, m) ==
  \E p1, p2 \in Admitted(c, P) : p1.actor = m /\ p2.actor = m /\ p1.claimed # p2.claimed

\* The Workers that propose patch d and, for this recovery, no other.
Backers(c, P, d) ==
  {m \in Member : /\ \E p \in Admitted(c, P) : p.actor = m /\ p.claimed = d
                  /\ ~Equivocates(c, P, m)}

QuorumPatches(c, P) ==
  {d \in {p.claimed : p \in Admitted(c, P)} : Cardinality(Backers(c, P, d)) >= proposal_quorum}

\* A patch is selected only if it alone has a quorum.
SelectedPatch(c, P) ==
  IF \E d \in QuorumPatches(c, P) : QuorumPatches(c, P) = {d}
  THEN CHOOSE d \in QuorumPatches(c, P) : TRUE
  ELSE NoPatch
===============================================================================

---------------------------- MODULE MCAgentTeamsRun ----------------------------
(* The run of tests/test_agentteams_evidence.py, after an earlier session  *)
(* of the same run left three receipts: of a proposer, of a Verifier and   *)
(* of the Challenger.                                                      *)
EXTENDS AgentTeamsRun

CONSTANTS run, oldRun

MCRepair == [t \in Text |-> CASE t = "old" -> "new" [] t = "new" -> "twice" [] OTHER -> t]

MCBound == [service |-> "old", rest |-> "here"]

MCOtherTree == [service |-> "old", rest |-> "elsewhere"]

MCOtherCandidate == [old |-> "old", new |-> "overfit"]

Consumed ==
  {ProposalDigest([actor |-> a, role |-> "worker", run |-> run, snapshot |-> MCBound,
                   patch |-> Propose(MCBound), claimed |-> Propose(MCBound)]) : a \in Proposers}

Earlier(n, role, actor, in) ==
  LET p == [role |-> role, actor |-> actor, run |-> run, snapshot |-> MCBound,
            candidate |-> Propose(MCBound), in |-> in, proposals |-> {}, attestations |-> {}]
  IN  [id |-> n, tool |-> IF role = "proposer" THEN "skill" ELSE "role", actor |-> actor,
       container |-> [actor |-> actor, incarnation |-> 1, image |-> Locked],
       session |-> Session - 1, source |-> 0, run |-> run, snapshot |-> MCBound,
       candidate |-> p.candidate, in |-> in, proposals |-> {}, attestations |-> {},
       says |-> Says(p, MCBound, n), exit |-> 0, decision |-> NoDecision, found |-> MCBound]

MCLeftover ==
  <<Earlier(1, "proposer", "rf-proposer-a", {}), Earlier(2, "verifier", "rf-verifier-b", Consumed),
    Earlier(3, "challenger", "rf-challenger", Consumed)>>
===============================================================================

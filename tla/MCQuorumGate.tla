----------------------------- MODULE MCQuorumGate -----------------------------
(* The champion membership (three Workers, two Verifiers, one each of      *)
(* Challenger, Governor and Release Manager) and the message pools TLC     *)
(* presents to the gate.                                                   *)
EXTENDS QuorumGate

CONSTANTS w1, w2, w3, v1, v2, c1, g1, rm, stranger, good, bad, art1, art2, run, oldRun, snap

MCRoleOf ==
  [m \in {w1, w2, w3, v1, v2, c1, g1, rm} |->
     CASE m \in {w1, w2, w3} -> "worker"
       [] m \in {v1, v2} -> "verifier"
       [] m = c1 -> "challenger"
       [] m = g1 -> "governor"
       [] m = rm -> "release-manager"]

MCMember == DOMAIN MCRoleOf

MCActor == MCMember \union {stranger}

Ask(actor, role, r, candidate) ==
  [run |-> r, snapshot |-> snap, candidate |-> candidate, actor |-> actor, role |-> role]

\* The Release Manager, also of an invalid run, a Worker, and a Worker that claims to be it.
AllRequests ==
  {Ask(rm, "release-manager", run, good), Ask(rm, "release-manager", NoRun, good),
   Ask(w1, "worker", run, good), Ask(w1, "release-manager", run, good)}

Proposal(actor, role, r, patch, claimed) ==
  [actor |-> actor, role |-> role, run |-> r, snapshot |-> snap, patch |-> patch,
   claimed |-> claimed]

Issue(actor, patch) == Proposal(actor, "worker", run, patch, patch)

\* An honest w3, an erratic w2 and a w1 with every fault; a Verifier and a stranger
\* that propose, and a Worker that claims to be the Release Manager.
AllProposals ==
  {Issue(w1, good), Issue(w1, bad), Proposal(w1, "worker", run, bad, good),
   Proposal(w1, "worker", oldRun, good, good), Issue(w2, good), Issue(w2, bad),
   Issue(w3, good), Issue(v1, good), Issue(stranger, good),
   Proposal(w2, "release-manager", run, good, good)}

FewProposals == {Issue(w1, good), Issue(w2, good)}

Binding(r, candidate, kind, artifact) ==
  [run |-> r, candidate |-> candidate, snapshot |-> snap, kind |-> kind, artifact |-> artifact]

Attest(actor, role, verdict, b) ==
  [actor |-> actor, role |-> role, verdict |-> verdict, binding |-> b, claimed |-> b]

Approval(actor, candidate) ==
  LET role == MCRoleOf[actor]
  IN  Attest(actor, role, "approve", Binding(run, candidate, EXPECTED_EVIDENCE[role], art1))

Approvals == {Approval(a, good) : a \in {v1, v2, c1, g1}}

\* Every way one control message can go wrong: a rejection, a second artifact, the
\* wrong kind, an earlier run, another candidate, a malformed digest, a forged
\* claim, a borrowed role and a Worker that attests.
AllAttestations ==
  Approvals \union
  {Attest(v1, "verifier", "reject", Binding(run, good, "test", art1)),
   Attest(v2, "verifier", "approve", Binding(run, good, "test", art2)),
   Attest(c1, "challenger", "approve", Binding(run, good, "test", art1)),
   Attest(g1, "governor", "approve", Binding(oldRun, good, "policy", art1)),
   Attest(v2, "verifier", "approve", Binding(run, bad, "test", NoDigest)),
   [Approval(v1, good) EXCEPT !.claimed = Binding(run, bad, "test", art1)],
   [Approval(c1, good) EXCEPT !.actor = v1],
   Attest(w1, "worker", "approve", Binding(run, good, "test", art1))}

\* The bound: one of the two batches is sound.
OneLoopDisputed == proposals \subseteq FewProposals \/ attestations \subseteq Approvals
===============================================================================

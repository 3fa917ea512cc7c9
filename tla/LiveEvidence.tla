----------------------------- MODULE LiveEvidence -----------------------------
(***************************************************************************)
(* validate_live_evidence (src/remedyfabric/agentteams_evidence.py): the   *)
(* checks a record of a live AgentTeams run must pass before it is         *)
(* published.  A record e has                                              *)
(*   run, session, source   the capture header: run id, challenge nonce    *)
(*                          (with the task) and digest of the source tree  *)
(*   component              the running container of every actor           *)
(*   running                all containers Docker reports as running       *)
(*   trace                  the typed events, in the order claimed         *)
(*   export                 what each event's sender captured              *)
(*   skill, cloud, role     the tool receipts: of the proposers, of the    *)
(*                          preflight and of the role helpers              *)
(*   terminal               the event of the final decision                *)
(*   probes                 the access-denied and gateway probes           *)
(* Times within the capture window are its session; free text, timestamps, *)
(* and the secrets looked for in it are left out.                          *)
(***************************************************************************)
EXTENDS RoleTool, Sequences, FiniteSetsExt

CONSTANTS Locked, NoDecision

Controls == {"rf-verifier", "rf-verifier-b", "rf-lead", "rf-challenger", "rf-governor"}

Workers == Proposers \union Controls \union {"rf-release-manager"}

Actors == Workers \union {"manager"}

\* The helper's role of each Worker, which is its function; its stage in the loop.
Operation ==
  [a \in Workers |->
     CASE a \in Proposers -> "proposer"
       [] a = "rf-lead" -> "reviewer"
       [] a = "rf-release-manager" -> "release_manager"
       [] OTHER -> MEMBERS[a]]

Stage ==
  [proposer |-> "propose", verifier |-> "verify", reviewer |-> "review",
   challenger |-> "challenge", governor |-> "govern", release_manager |-> "decide"]

\* Receipts: of an execution, of a proposal, of the task.
Digest(r) == <<"execution", r.id>>

ProposalDigest(p) == <<"proposal", p>>

TaskDigest(run) == <<"task", run>>

\* An event without an output receipt.
NoReceipt == <<"none", 0>>

-------------------------------------------------------------------------------
(* The runtime: header, images, containers and components.                 *)

HeaderValid(e, source) == e.run # NoRun /\ e.source = source

\* Every actor runs a locked image in a container of its own.
ComponentsValid(e) ==
  /\ DOMAIN e.component = Actors
  /\ \A a \in Actors : e.component[a] \in e.running /\ e.component[a].image = Locked
  /\ \A a, b \in Actors : e.component[a] = e.component[b] => a = b

-------------------------------------------------------------------------------
(* The trace.                                                              *)

Content(e, i) == e.trace[i].content

\* Mutant: the event is not compared with the request its sender captured.
AnyContentSent(e, i, x) ==
  x.event = e.trace[i].id /\ x.container = e.component[Content(e, i).actor]

\* The capture x was taken where the event's actor runs, of a request for this event.
Captures(e, i, x) ==
  /\ x.event = e.trace[i].id
  /\ x.container = e.component[Content(e, i).actor]
  /\ x.content = Content(e, i)

ExportValid(e) ==
  /\ \A i \in DOMAIN e.trace : \E x \in e.export : Captures(e, i, x)
  /\ Cardinality(e.export) = Len(e.trace)

Previous(e, i) == IF i = 1 THEN 0 ELSE e.trace[i - 1].id

\* Mutant: the trace has every event of the room.
WithoutGaps(e, i) == e.trace[i].id = Previous(e, i) + 1 /\ Content(e, i).prev = Previous(e, i)

InSequence(e, i) == e.trace[i].id > Previous(e, i) /\ Content(e, i).prev = Previous(e, i)

\* Each event names the one before it, in the order of the server, and announces a receipt no
\* earlier event has.
Follows(e, i) ==
  /\ InSequence(e, i)
  /\ Content(e, i).out # NoReceipt => \A j \in 1..(i - 1) : Content(e, j).out # Content(e, i).out

EventValid(e, i) ==
  /\ Content(e, i).actor \in Actors
  /\ Content(e, i).run = e.run /\ Content(e, i).session = e.session
  /\ Follows(e, i)

\* The positions of an actor's events at a stage; what the last announces, the first consumes.
At(e, a, stage) ==
  {i \in DOMAIN e.trace : Content(e, i).actor = a /\ Content(e, i).stage = stage}

OutputOf(e, a, stage) ==
  IF At(e, a, stage) = {} THEN NoReceipt ELSE Content(e, Max(At(e, a, stage))).out

InputsOf(e, a, stage) ==
  IF At(e, a, stage) = {} THEN {} ELSE Content(e, Min(At(e, a, stage))).in

ProposerReceipts(e) == {OutputOf(e, a, "propose") : a \in Proposers} \ {NoReceipt}

ControlReceipts(e) == {OutputOf(e, a, Stage[Operation[a]]) : a \in Controls}

\* The loop is complete, and the Manager begins and ends it.
LoopComplete(e) ==
  /\ \A a \in Workers : At(e, a, Stage[Operation[a]]) # {}
  /\ 1 \in At(e, "manager", "delegate")
  /\ Len(e.trace) \in At(e, "manager", "relay")

DecisionReceipt(e) == Content(e, Min(At(e, "rf-release-manager", "decide"))).out

\* Each announcement consumes those it depends on.
Causal(e) ==
  /\ \A a \in Controls :
       /\ OutputOf(e, a, Stage[Operation[a]]) # NoReceipt
       /\ ProposerReceipts(e) # {}
       /\ ProposerReceipts(e) \subseteq InputsOf(e, a, Stage[Operation[a]])
  /\ DecisionReceipt(e) # NoReceipt
  /\ InputsOf(e, "rf-release-manager", "decide") = ProposerReceipts(e) \union ControlReceipts(e)
  /\ Content(e, Len(e.trace)).in = {DecisionReceipt(e)}

TraceValid(e) ==
  /\ e.trace # <<>>
  /\ \A i \in DOMAIN e.trace : EventValid(e, i)
  /\ LoopComplete(e)
  /\ Causal(e)

-------------------------------------------------------------------------------
(* The receipts.                                                           *)

Listed(e) == {e.skill[a] : a \in DOMAIN e.skill} \union {e.cloud}
               \union {e.role[a] : a \in DOMAIN e.role}

\* Mutant: the nonce of a receipt is not compared.
OfAnySession(e, r, source) ==
  r.run = e.run /\ r.container \in e.running /\ r.source = source

\* An execution of this session and source tree in a container of the topology.
ReceiptValid(e, r, source) ==
  /\ r.run = e.run /\ r.session = e.session
  /\ r.container \in e.running
  /\ r.source = source

\* The events that announce a receipt: one, when the trace is valid.
AnnouncedAt(e, r) == {i \in DOMAIN e.trace : Content(e, i).out = Digest(r)}

ProposalOf(r) == CHOOSE p \in r.says : TRUE

CandidateOf(r) == ProposalOf(r).patch

\* A proposer executed the skill, announced the execution, then the proposal it made.
SkillValid(e, a) ==
  LET r == e.skill[a] IN
  /\ r.tool = "skill" /\ r.actor = a /\ r.exit = 0
  /\ CandidateOf(r).old # CandidateOf(r).new
  /\ \E i \in AnnouncedAt(e, r) \intersect At(e, a, "tool_execute") :
       Content(e, i).in = {OutputOf(e, "manager", "delegate")}
  /\ OutputOf(e, a, "propose") = ProposalDigest(ProposalOf(r))
  /\ InputsOf(e, a, "propose") = {Digest(r)}

SkillsValid(e) ==
  /\ \A a \in Proposers : SkillValid(e, a)
  /\ \A a, b \in Proposers : CandidateOf(e.skill[a]) = CandidateOf(e.skill[b])
  /\ OutputOf(e, "manager", "delegate") = TaskDigest(e.run)
  /\ InputsOf(e, "manager", "delegate") = {}

CloudValid(e) ==
  /\ e.cloud.tool = "cloud" /\ e.cloud.exit = 2
  /\ e.cloud.in = ProposerReceipts(e)
  /\ \E i \in AnnouncedAt(e, e.cloud) \intersect At(e, e.cloud.actor, "tool_execute") :
       /\ Operation[e.cloud.actor] = "verifier"
       /\ Content(e, i).in = ProposerReceipts(e)

\* A Worker of this function announced the execution with the inputs it consumed.
RoleValid(e, a) ==
  LET r == e.role[a] IN
  /\ r.tool = "role" /\ r.actor = a /\ r.exit = 0
  /\ \E i \in AnnouncedAt(e, r) :
       /\ Content(e, i).actor \in Workers
       /\ Operation[Content(e, i).actor] = Operation[a]
       /\ Content(e, i).in = r.in

ExpectedInputs(e, a) ==
  CASE a = "rf-verifier" -> ProposerReceipts(e) \union {Digest(e.cloud)}
    [] a \in Controls \ {"rf-verifier"} -> ProposerReceipts(e)
    [] a = "rf-release-manager" ->
         ProposerReceipts(e) \union {Digest(e.role[c]) : c \in Controls}

RolesValid(e) ==
  \A a \in DOMAIN e.role : RoleValid(e, a) /\ e.role[a].in = ExpectedInputs(e, a)

-------------------------------------------------------------------------------
(* The decision, recomputed from what the receipts say.                    *)

Converging(e) == CandidateOf(e.skill["rf-proposer-a"])

Proposals(e) == {ProposalOf(e.skill[a]) : a \in Proposers}

BoundSnapshot(e) == ProposalOf(e.skill["rf-proposer-a"]).snapshot

Attesters == Controls \ {"rf-lead"}

AttestationOf(r) == CHOOSE x \in r.says : TRUE

Attestations(e) == {AttestationOf(e.role[a]) : a \in Attesters}

AttestationValid(e, a) ==
  LET x == AttestationOf(e.role[a]) IN
  /\ x.actor = a /\ x.role = MEMBERS[a] /\ x.verdict = "approve"
  /\ Gate!AttestationIntegrity(x)
  /\ x.binding.run = e.run /\ x.binding.snapshot = BoundSnapshot(e)
  /\ x.binding.candidate = Converging(e)
  /\ x.binding.kind = Gate!EXPECTED_EVIDENCE[x.role]
  /\ IF a = "rf-governor" THEN ~x.binding.artifact.risk ELSE x.binding.artifact.passed

ReviewValid(e) ==
  LET r == e.role["rf-lead"] IN
  r.candidate = Converging(e) /\ r.in = ProposerReceipts(e)

\* Mutant: the helper's own proposals and attestations are not compared.
DecisionReplays(e) ==
  LET r == e.role["rf-release-manager"] IN
  /\ r.run = e.run /\ r.snapshot = BoundSnapshot(e) /\ r.candidate = Converging(e)
  /\ r.decision = "release"

\* The helper was given exactly what the others said, and the gate says what it said.
ReleaseValid(e) ==
  LET r == e.role["rf-release-manager"] IN
  /\ DecisionReplays(e)
  /\ r.proposals = Proposals(e) /\ r.attestations = Attestations(e)
  /\ Gate!Authorized(Request(r), Proposals(e), Attestations(e))

TerminalValid(e) ==
  /\ e.terminal \in At(e, "rf-release-manager", "decide")
  /\ Content(e, e.terminal).out = DecisionReceipt(e)
  /\ Content(e, e.terminal).decision = e.role["rf-release-manager"].decision

\* A Worker's request was denied, and the model gateway answered, in this session.
ProbesValid(e) ==
  /\ \E x \in e.probes : x.kind = "acl" /\ x.session = e.session /\ x.container \in e.running
  /\ \E x \in e.probes : x.kind = "gateway" /\ x.session = e.session /\ x.run = e.run

-------------------------------------------------------------------------------

\* No failure is found, with this source tree.
Valid(e, source) ==
  /\ HeaderValid(e, source)
  /\ ComponentsValid(e)
  /\ ExportValid(e)
  /\ TraceValid(e)
  /\ \A r \in Listed(e) : ReceiptValid(e, r, source)
  /\ SkillsValid(e)
  /\ CloudValid(e)
  /\ RolesValid(e)
  /\ \A a \in Attesters : AttestationValid(e, a)
  /\ ReviewValid(e)
  /\ ReleaseValid(e)
  /\ TerminalValid(e)
  /\ ProbesValid(e)
===============================================================================

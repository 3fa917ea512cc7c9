---------------------------- MODULE AgentTeamsRun ----------------------------
(***************************************************************************)
(* A live AgentTeams run: an operator has the roles executed in the Worker *)
(* containers, has each Worker announce its execution in the Matrix room,  *)
(* and at the end assembles the record persist_validated_live_evidence     *)
(* publishes if validate_live_evidence finds no failure in it.  The        *)
(* operator is no program of the repository: it follows the loop of        *)
(* tests/test_agentteams_evidence.py.  Faults: an execution is killed half *)
(* way, a send has no answer.  Mistakes: the operator takes a step out of  *)
(* turn or once more, gives a payload or an event that is not the one      *)
(* meant, takes a receipt of an earlier session for this one's, executes   *)
(* in another container, provisions another tree, replaces a container or  *)
(* edits the source tree.  The bounds are MaxTrouble, on both, and         *)
(* MaxMistakes.                                                            *)
(***************************************************************************)
EXTENDS LiveEvidence, MatrixSender, SequencesExt

CONSTANTS
  ThisRun, Session,   \* the run id and the nonce of the session
  Bound,              \* the snapshot the run is about
  OtherTree,          \* another tree the suites pass on once the candidate is applied
  OtherCandidate,
  Leftover,           \* receipts of an earlier session of the same run
  Upgraded,           \* an image that is not locked
  MaxTrouble, MaxMistakes

ASSUME AgentTeamsRunAssumption ==
  /\ ThisRun \in Run
  /\ {Bound, OtherTree} \subseteq Tree
  /\ OtherCandidate \in Candidate
  /\ {MaxTrouble, MaxMistakes} \subseteq Nat

VARIABLES
  container,          \* where each actor runs
  workspace,          \* the tree in it
  receipts,           \* of the executions that returned, in their order
  captures,           \* of the sends that were acknowledged
  probes,
  source,             \* digest of the source tree
  done,               \* the steps of the plan carried out
  tip,                \* the event acknowledged last
  faults, mistakes,
  published           \* the record persisted, or {}

vars == <<room, inflight, container, workspace, receipts, captures, probes, source, done, tip,
          faults, mistakes, published>>

Execute(role, actor) == [do |-> "execute", what |-> role, actor |-> actor]

Announce(stage, actor) == [do |-> "announce", what |-> stage, actor |-> actor]

Turn(a) == <<Execute(Operation[a], a), Announce(Stage[Operation[a]], a)>>

ProposerTurn(a) ==
  <<Execute("proposer", a), Announce("tool_execute", a), Announce("propose", a)>>

Plan ==
  <<Announce("delegate", "manager")>>
    \o ProposerTurn("rf-proposer-a") \o ProposerTurn("rf-proposer-b")
    \o <<Execute("cloud_preflight", "rf-verifier"), Announce("tool_execute", "rf-verifier")>>
    \o Turn("rf-verifier") \o Turn("rf-verifier-b") \o Turn("rf-lead")
    \o Turn("rf-challenger") \o Turn("rf-governor") \o Turn("rf-release-manager")
    \o <<[do |-> "probe", what |-> "acl", actor |-> "rf-lead"],
         [do |-> "probe", what |-> "gateway", actor |-> "manager"],
         Announce("relay", "manager")>>

Completed == done = DOMAIN Plan

Due(s) == s \in DOMAIN Plan \ done /\ \A t \in 1..(s - 1) : t \in done

trouble == <<faults, mistakes>>

Fault == faults + mistakes < MaxTrouble /\ faults' = faults + 1 /\ UNCHANGED mistakes

Mistake ==
  /\ mistakes < MaxMistakes /\ faults + mistakes < MaxTrouble
  /\ mistakes' = mistakes + 1 /\ UNCHANGED faults

\* Step s in its turn, or, by mistake, too early or again.
Taken(s) == IF Due(s) THEN UNCHANGED trouble ELSE Mistake

-------------------------------------------------------------------------------
(* What the operator has at hand.                                          *)

Tool(role) == CASE role = "proposer" -> "skill" [] role = "cloud_preflight" -> "cloud" [] OTHER -> "role"

Made(actor, tool) ==
  {i \in DOMAIN receipts :
     /\ receipts[i].actor = actor /\ receipts[i].tool = tool
     /\ receipts[i].session = Session \/ receipts[i].id # i}

\* The receipts the operator goes by are the latest of this session, or taken to be.
Latest(actors, tool) ==
  {receipts[Max(Made(a, tool))] : a \in {x \in actors : Made(x, tool) # {}}}

SaidBy(rs) == UNION {r.says : r \in rs}

ProposalsMade == SaidBy(Latest(Proposers, "skill"))

ProposalDigests == {ProposalDigest(p) : p \in ProposalsMade}

Digests(rs) == {Digest(r) : r \in rs}

Inputs(role, actor) ==
  CASE role = "proposer" -> {}
    [] role = "release_manager" -> ProposalDigests \union Digests(Latest(Controls, "role"))
    [] role = "verifier" /\ actor = "rf-verifier" ->
         ProposalDigests \union Digests(Latest({"rf-verifier"}, "cloud"))
    [] OTHER -> ProposalDigests

\* The candidate of the first proposal at hand, and the tool's own before there is one.
CandidateAtHand ==
  IF ProposalsMade = {} THEN Propose([Bound EXCEPT !.service = EXPECTED_OLD])
  ELSE (CHOOSE p \in ProposalsMade : "rf-proposer-a" \in {x.actor : x \in ProposalsMade}
                                       => p.actor = "rf-proposer-a").patch

Payload(role, actor) ==
  [role |-> role, actor |-> actor, run |-> ThisRun, snapshot |-> Bound,
   candidate |-> CandidateAtHand, in |-> Inputs(role, actor), proposals |-> ProposalsMade,
   attestations |-> SaidBy(Latest(Attesters, "role"))]

\* Executions by a Worker of the same function, in this session or before.
Alike(actor) == {r \in Range(receipts) : actor \in Workers /\ Operation[r.actor] = Operation[actor]}

\* The same with one thing wrong: a snapshot, candidate or run that is not meant, an input left
\* out or taken from another execution, another attestation.
Mistaken(p) ==
  {[p EXCEPT !.snapshot = OtherTree], [p EXCEPT !.candidate = OtherCandidate]}
    \union {[p EXCEPT !.run = r] : r \in Run \ {ThisRun}}
    \union {[p EXCEPT !.in = @ \ {d}] : d \in p.in}
    \union UNION {UNION {{[p EXCEPT !.in = (@ \ {Digest(r)}) \union {Digest(q)}],
                           [p EXCEPT !.attestations = (@ \ r.says) \union q.says]} :
                            q \in Alike(r.actor)} :
                     r \in {x \in Range(receipts) : Digest(x) \in p.in}}

Receipt(p, a) ==
  [id |-> Len(receipts) + 1, tool |-> Tool(p.role), actor |-> p.actor,
   container |-> container[a], session |-> Session, source |-> source, run |-> p.run,
   snapshot |-> p.snapshot, candidate |-> p.candidate, in |-> p.in,
   proposals |-> IF p.role = "release_manager" THEN p.proposals ELSE {},
   attestations |-> IF p.role = "release_manager" THEN p.attestations ELSE {},
   says |-> Says(p, workspace[a], Len(receipts) + 1), exit |-> ExitCode(p),
   decision |-> IF p.role = "release_manager" THEN Decision(p) ELSE NoDecision,
   found |-> workspace[a]]

\* The payload behind a receipt, as far as the messages in it depend on it.
As(role, r) ==
  [role |-> role, actor |-> r.actor, run |-> r.run, snapshot |-> r.snapshot,
   candidate |-> r.candidate]

\* The role tool can have returned with this receipt.
ReturnedAs(role, r) ==
  /\ r.tool = Tool(role) /\ r.actor \in Authorized[role]
  /\ role = "proposer" => ObservesSnapshot(r, r.found)
  /\ role \in Staging => Stageable(r, r.found)
  /\ r.says = Says(As(role, r), r.found, r.id)

\* The executions it consumed were before it.
Grounded(r) == \A d \in r.in : d[1] = "execution" => d[2] < r.id

\* What an earlier session left was made by the role tool as well, under another nonce.
ASSUME LeftoverAssumption ==
  /\ Leftover \in Seq(Range(Leftover))
  /\ \A i \in DOMAIN Leftover :
       /\ Leftover[i].id = i /\ Leftover[i].session # Session /\ Grounded(Leftover[i])
       /\ \E role \in DOMAIN Authorized : ReturnedAs(role, Leftover[i])

-------------------------------------------------------------------------------

Init ==
  /\ MatrixInit
  /\ container = [a \in Actors |-> [actor |-> a, incarnation |-> 1, image |-> Locked]]
  /\ workspace = [a \in Actors |->
       IF a \in Proposers THEN [Bound EXCEPT !.service = Missing] ELSE Bound]
  /\ receipts = Leftover
  /\ captures = {} /\ probes = {} /\ done = {} /\ published = {}
  /\ source = 0 /\ tip = 0 /\ faults = 0 /\ mistakes = 0

\* The role tool runs with payload p in the container of a.
Runs(p, a) ==
  /\ workspace' = [workspace EXCEPT ![a] = Leaves(p, @)]
  /\ receipts' = IF Returns(p, workspace[a]) THEN Append(receipts, Receipt(p, a)) ELSE receipts

Executes(s, p, a) ==
  /\ Runs(p, a)
  /\ done' = IF Returns(p, workspace[a]) THEN done \union {s} ELSE done
  /\ UNCHANGED <<matrix, container, captures, probes, source, tip, published>>

ExecuteRole(s) ==
  /\ published = {}
  /\ Plan[s].do = "execute"
  /\ Taken(s)
  /\ Executes(s, Payload(Plan[s].what, Plan[s].actor), Plan[s].actor)

ExecuteMistaken(s) ==
  /\ published = {}
  /\ Plan[s].do = "execute" /\ Due(s)
  /\ Mistake
  /\ LET p == Payload(Plan[s].what, Plan[s].actor)
     IN  \E q \in Mistaken(p) \ {p} : Executes(s, q, p.actor)

\* The receipt of an earlier session is taken for the execution due.
Adopt(s) ==
  /\ published = {}
  /\ Plan[s].do = "execute" /\ Due(s)
  /\ Mistake
  /\ \E r \in Range(receipts) :
       /\ r.session # Session /\ r.actor = Plan[s].actor /\ r.tool = Tool(Plan[s].what)
       /\ receipts' = Append(receipts, r)
  /\ done' = done \union {s}
  /\ UNCHANGED <<matrix, container, workspace, captures, probes, source, tip, published>>

\* The right payload in the container of another Worker.
ExecuteElsewhere(s, a) ==
  /\ published = {}
  /\ Plan[s].do = "execute" /\ Due(s) /\ a # Plan[s].actor
  /\ Mistake
  /\ Executes(s, Payload(Plan[s].what, Plan[s].actor), a)

\* The process is killed after it changed the workspace: no receipt.
ExecutionKilled(s) ==
  LET a == Plan[s].actor IN
  /\ published = {}
  /\ Plan[s].do = "execute" /\ Due(s)
  /\ Fault
  /\ workspace' = [workspace EXCEPT ![a] = Leaves(Payload(Plan[s].what, a), @)]
  /\ UNCHANGED <<matrix, container, receipts, captures, probes, source, done, tip, published>>

\* The operator puts a tree back for a Worker to execute on; by mistake, another one.
Provision(a, tree) ==
  /\ published = {}
  /\ \E s \in DOMAIN Plan :
       /\ Due(s) /\ Plan[s].do = "execute" /\ Plan[s].actor = a
       /\ tree = Bound => ~Returns(Payload(Plan[s].what, a), workspace[a])
  /\ workspace[a] # tree
  /\ IF tree = Bound THEN UNCHANGED trouble ELSE Mistake
  /\ workspace' = [workspace EXCEPT ![a] = tree]
  /\ UNCHANGED <<matrix, container, receipts, captures, probes, source, done, tip, published>>

\* A container is lost and replaced, perhaps with a newer image; its workspace is set up again.
Recreate(a, image) ==
  /\ published = {}
  /\ Mistake
  /\ container' = [container EXCEPT ![a].incarnation = @ + 1, ![a].image = image]
  /\ workspace' = [workspace EXCEPT ![a] = Bound]
  /\ UNCHANGED <<matrix, receipts, captures, probes, source, done, tip, published>>

EditSource ==
  /\ published = {}
  /\ Mistake
  /\ source' = source + 1
  /\ UNCHANGED <<matrix, container, workspace, receipts, captures, probes, done, tip, published>>

-------------------------------------------------------------------------------
(* Announcements.                                                          *)

OutputToAnnounce(stage, actor) ==
  CASE stage = "delegate" -> {TaskDigest(ThisRun)}
    [] stage = "relay" -> {NoReceipt}
    [] stage = "tool_execute" /\ actor \in Proposers -> Digests(Latest({actor}, "skill"))
    [] stage = "tool_execute" /\ actor \notin Proposers -> Digests(Latest({actor}, "cloud"))
    [] stage = "propose" -> {ProposalDigest(p) : p \in SaidBy(Latest({actor}, "skill"))}
    [] OTHER -> Digests(Latest({actor}, "role"))

InputsToAnnounce(stage, actor) ==
  CASE stage = "delegate" -> {}
    [] stage = "relay" -> Digests(Latest({"rf-release-manager"}, "role"))
    [] stage = "tool_execute" /\ actor \in Proposers -> {TaskDigest(ThisRun)}
    [] stage = "tool_execute" /\ actor \notin Proposers ->
         UNION {r.in : r \in Latest({actor}, "cloud")}
    [] stage = "propose" -> Digests(Latest({actor}, "skill"))
    [] OTHER -> UNION {r.in : r \in Latest({actor}, "role")}

\* The typed event of step s; there is none while its receipt is missing.
Events(s) ==
  LET stage == Plan[s].what
      actor == Plan[s].actor
      last == Latest({"rf-release-manager"}, "role")
  IN  {[actor |-> actor, stage |-> stage, run |-> ThisRun, session |-> Session, prev |-> tip,
        in |-> InputsToAnnounce(stage, actor), out |-> out,
        decision |-> IF stage = "decide" THEN (CHOOSE r \in last : TRUE).decision ELSE NoDecision] :
         out \in OutputToAnnounce(stage, actor)}

\* The same about another execution: its digest, or its digest and its inputs.
MistakenEvents(c) ==
  UNION {{[c EXCEPT !.out = Digest(r)], [c EXCEPT !.out = Digest(r), !.in = r.in]} :
           r \in Alike(c.actor)}

\* The request of step s: a repeated step repeats its transaction id unless it is fresh.
Message(s, c, fresh) == [actor |-> c.actor, txn |-> <<s, fresh>>, content |-> c]

AnswerTo(s, m) ==
  /\ Acknowledged(m)
  /\ captures' = captures \union
       {[event |-> EventOf(m), container |-> container[m.actor], content |-> m.content]}
  /\ tip' = EventOf(m)
  /\ done' = done \union {s}
  /\ UNCHANGED <<container, workspace, receipts, probes, source, published>>

Send(s) ==
  /\ published = {}
  /\ Plan[s].do = "announce"
  /\ Taken(s)
  /\ \E c \in Events(s) : AnswerTo(s, Message(s, c, FALSE))

SendMistaken(s) ==
  /\ published = {}
  /\ Plan[s].do = "announce" /\ Due(s)
  /\ Mistake
  /\ \E c \in Events(s) :
       \/ \E x \in MistakenEvents(c) \ {c} : AnswerTo(s, Message(s, x, FALSE))
       \/ AnswerTo(s, Message(s, c, TRUE))

\* The sender fails; the step is still to be done.
SendFails(s) ==
  /\ published = {}
  /\ Plan[s].do = "announce" /\ Due(s)
  /\ Fault
  /\ \E c \in Events(s) : Unacknowledged(Message(s, c, FALSE))
  /\ UNCHANGED <<container, workspace, receipts, captures, probes, source, done, tip, published>>

LateArrival ==
  /\ published = {}
  /\ \E m \in inflight : Arrives(m)
  /\ UNCHANGED <<container, workspace, receipts, captures, probes, source, done, tip,
                 trouble, published>>

Probe(s) ==
  /\ published = {}
  /\ Plan[s].do = "probe" /\ Due(s)
  /\ probes' = probes \union
       {[kind |-> Plan[s].what, session |-> Session, run |-> ThisRun,
         container |-> container[Plan[s].actor]]}
  /\ done' = done \union {s}
  /\ UNCHANGED <<matrix, container, workspace, receipts, captures, source, tip, trouble, published>>

-------------------------------------------------------------------------------
(* The record.                                                             *)

Captured(i) == {x \in captures : x.event = i}

\* The events from the first one to event i, each the one its successor names.
Chain[i \in 0..Len(room)] ==
  IF i = 0 THEN <<>>
  ELSE LET prev == room[i].content.prev
       IN  Append(IF prev < i THEN Chain[prev] ELSE <<>>, [id |-> i, content |-> room[i].content])

\* Executions of an actor the trace announces.
AnnouncedBy(trace, actor, tool) ==
  {r \in Range(receipts) : /\ r.actor = actor /\ r.tool = tool
                           /\ \E i \in DOMAIN trace : trace[i].content.out = Digest(r)}

Record(trace, export, skillA, skillB, cloud, role) ==
  [run |-> ThisRun, session |-> Session, source |-> source, component |-> container,
   running |-> Range(container), trace |-> trace, export |-> export,
   skill |-> [a \in Proposers |-> IF a = "rf-proposer-a" THEN skillA ELSE skillB],
   cloud |-> cloud, role |-> role,
   terminal |-> Min({i \in DOMAIN trace : trace[i].content.stage = "decide"}),
   probes |-> probes]

\* What the senders captured of the events of a trace.
ExportOf(trace) == UNION {Captured(trace[i].id) : i \in DOMAIN trace}

\* The executions of the role helper a trace announces, one for each Worker that runs it.
Helpers(trace) ==
  LET announced == UNION {AnnouncedBy(trace, a, "role") : a \in Workers \ Proposers}
  IN  {S \in SUBSET announced :
         Cardinality(S) = 6 /\ {r.actor : r \in S} = Workers \ Proposers}

RoleReceipts(S) == [w \in Workers \ Proposers |-> CHOOSE r \in S : r.actor = w]

\* Every record an operator could assemble that lists what its trace announces.
RecordsOf(trace) ==
  {Record(trace, ExportOf(trace), a, b, c, RoleReceipts(S)) :
     a \in AnnouncedBy(trace, "rf-proposer-a", "skill"),
     b \in AnnouncedBy(trace, "rf-proposer-b", "skill"),
     c \in AnnouncedBy(trace, "rf-verifier", "cloud"), S \in Helpers(trace)}

Records ==
  UNION {RecordsOf(Chain[i]) : i \in {k \in DOMAIN room : room[k].content.stage = "relay"}}

\* persist_validated_live_evidence writes a record only without failures.
Publish ==
  /\ published = {}
  /\ \E e \in Records : Valid(e, source) /\ published' = {e}
  /\ UNCHANGED <<matrix, container, workspace, receipts, captures, probes, source, done, tip, trouble>>

-------------------------------------------------------------------------------

Next ==
  \/ \E s \in DOMAIN Plan :
       \/ ExecuteRole(s) \/ ExecuteMistaken(s) \/ ExecutionKilled(s) \/ Adopt(s)
       \/ \E a \in Workers : ExecuteElsewhere(s, a)
       \/ Send(s) \/ SendMistaken(s) \/ SendFails(s)
       \/ Probe(s)
  \/ \E a \in Workers, tree \in {Bound, OtherTree} : Provision(a, tree)
  \/ \E a \in Actors, image \in {Locked, Upgraded} : Recreate(a, image)
  \/ EditSource
  \/ LateArrival
  \/ Publish

Spec == Init /\ [][Next]_vars

-------------------------------------------------------------------------------
(* Properties.                                                             *)

\* What a published record says was tested was: each control execution it lists found exactly the
\* snapshot the proposals are about, and the candidate both proposers made of that snapshot passes
\* the suites there.  (The executions and the record meet only in digests.)
TestedAsAttested ==
  \A e \in published :
    /\ \A a \in Attesters : e.role[a].found = BoundSnapshot(e)
    /\ \A a \in Proposers :
         /\ WithSource(e.skill[a].found) = BoundSnapshot(e)
         /\ Propose(BoundSnapshot(e)) = CandidateOf(e.skill[a])
    /\ SuitesPass(Staged(BoundSnapshot(e), Converging(e)))

\* A published record lists executions of this session only, all on the source tree it is
\* validated with; the preflight came before the Verifier that consumes it, and the Release Manager
\* after every control execution listed.
DecidedLast ==
  \A e \in published :
    /\ \A r \in Listed(e) : r.session = Session /\ r.source = source
    /\ e.cloud.id < e.role["rf-verifier"].id
    /\ \A a \in Controls : e.role[a].id < e.role["rf-release-manager"].id

\* Behind a published record, whatever was lost, repeated or late: every listed execution was
\* announced by exactly one of its events; what a sender captured is what stands in the room; and
\* all of it happened in the containers that run now.
OneVoice ==
  \A e \in published :
    /\ \A r \in Listed(e) : Cardinality(AnnouncedAt(e, r)) = 1 /\ r.container \in Range(container)
    /\ \A x \in e.export :
         /\ room[x.event].content = x.content
         /\ x.container = container[x.content.actor]

\* The Release Manager of a published record was given exactly the proposals and attestations of
\* the executions whose receipts it consumed, and released by the quorum rule on them.
DecidedOnWhatItConsumed ==
  \A e \in published :
    LET r == e.role["rf-release-manager"]
        consumed == {x \in Range(receipts) : Digest(x) \in r.in}
    IN  /\ r.attestations = SaidBy(consumed)
        /\ {ProposalDigest(p) : p \in r.proposals} = r.in \ Digests(consumed)
        /\ Gate!Authorized(Request(r), r.proposals, r.attestations)

\* The skill repairs the tree the run is about: both suites pass on the result, they reject what
\* the Challenger tries, and the policy approves the candidate at no risk.
Repairable ==
  LET candidate == Propose(Bound) IN
  /\ SuitesPass(Staged(Bound, candidate)) /\ NegativeControlHolds(Bound)
  /\ candidate \notin Refused \union Risky

\* Faults alone never spoil a run about such a tree: however executions were killed and sends
\* unanswered, when every step is done there is a record without failures.
FaultsDoNotSpoil ==
  Repairable /\ Completed /\ mistakes = 0 /\ published = {} => \E e \in Records : Valid(e, source)

\* docs/AGENTTEAMS_LIVE_RUN.md: the proposers executed the skill in their own Worker containers.
OwnContainer ==
  \A e \in published : \A a \in Proposers : e.skill[a].container = e.component[a]
===============================================================================

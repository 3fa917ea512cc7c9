-------------------------- MODULE AgentTeamsRun_proofs --------------------------
(***************************************************************************)
(* What a published record of a live run says is so, for any trees,        *)
(* candidates, leftovers and any number of faults and mistakes.  Three     *)
(* things meet: every receipt was made by the role tool, from receipts     *)
(* made before it; the events of a trace are messages of the room, each    *)
(* named by the next; and the checks of the validator bind one to the      *)
(* other by digests.  And a run that meets faults but no mistake ends with *)
(* a record in which the validator finds no failure.                       *)
(***************************************************************************)
EXTENDS AgentTeamsRun, FiniteSetTheorems, WellFoundedInduction, TLAPS

IsSeq(s) == \E S : s \in Seq(S)

\* A list of receipts of the role tool: known by their digests, each after those it names.
Filed(rs) ==
  /\ IsSeq(rs)
  /\ \A i \in DOMAIN rs :
       /\ rs[i].id \in DOMAIN rs
       /\ rs[rs[i].id] = rs[i]
       /\ Grounded(rs[i])
       /\ \E role \in DOMAIN Authorized : ReturnedAs(role, rs[i])

ReceiptsInv == Filed(receipts)

RoomInv ==
  /\ IsSeq(room)
  /\ \A i \in DOMAIN room : room[i].content.prev \in Nat
  /\ \A m \in inflight : m.content.prev \in Nat
  /\ tip \in Nat
  /\ IsFiniteSet(captures)

-------------------------------------------------------------------------------
(* The membership and the roles.                                           *)

LEMMA WhoProposes == Proposers = {"rf-proposer-a", "rf-proposer-b"}
BY DEF Proposers, MEMBERS

LEMMA WhoControls ==
  /\ Attesters = {"rf-verifier", "rf-verifier-b", "rf-challenger", "rf-governor"}
  /\ Controls = Attesters \union {"rf-lead"}
  /\ Workers \ Proposers = Controls \union {"rf-release-manager"}
BY WhoProposes DEF Attesters, Controls, Workers

LEMMA RoleNames ==
  DOMAIN Authorized = {"proposer", "verifier", "challenger", "reviewer", "governor",
                       "release_manager", "cloud_preflight"}
BY DEF Authorized

\* An execution of a control helper had the role of its actor.
LEMMA HelperRole ==
  ASSUME NEW r, NEW role \in DOMAIN Authorized, ReturnedAs(role, r), r.tool = "role"
  PROVE  /\ r.actor \in Attesters => role \in Staging /\ role = MEMBERS[r.actor]
         /\ r.actor = "rf-lead" => role = "reviewer"
<1>1. role \in {"proposer", "verifier", "challenger", "reviewer", "governor",
                "release_manager", "cloud_preflight"}
  BY RoleNames
<1>2. Tool(role) = "role" /\ r.actor \in Authorized[role]
  BY DEF ReturnedAs
<1>3. role # "proposer" /\ role # "cloud_preflight"
  BY <1>2 DEF Tool
<1> QED
  BY <1>1, <1>2, <1>3, WhoControls, WhoProposes DEF Authorized, MEMBERS, Staging

\* What a control execution attested is about the tree it found, which is the bound one.
LEMMA Attested ==
  ASSUME NEW r, NEW role \in DOMAIN Authorized, ReturnedAs(role, r), r.tool = "role",
         r.actor \in Attesters
  PROVE  /\ r.found = r.snapshot
         /\ r.says = {AttestationOf(r)}
         /\ AttestationOf(r).binding.snapshot = r.snapshot
         /\ AttestationOf(r).binding.candidate = r.candidate
         /\ AttestationOf(r).binding.artifact.passed = SuitesPass(Staged(r.found, r.candidate))
<1>1. role \in Staging
  BY HelperRole
<1>2. r.found = r.snapshot
  BY <1>1 DEF ReturnedAs, Stageable, Applies
<1> DEFINE x == Attest(As(role, r), Staged(r.found, As(role, r).candidate), r.id)
<1>3. r.says = {x}
  BY <1>1 DEF ReturnedAs, Says, As, Staging
<1>4. AttestationOf(r) = x
  BY <1>3 DEF AttestationOf
<1>5. /\ x.binding.snapshot = r.snapshot /\ x.binding.candidate = r.candidate
      /\ x.binding.artifact.passed = SuitesPass(Staged(r.found, r.candidate))
  BY DEF Attest, Artifact, As
<1> QED
  BY <1>2, <1>3, <1>4, <1>5

\* The Lead attests nothing.
LEMMA ReviewedInSilence ==
  ASSUME NEW r, NEW role \in DOMAIN Authorized, ReturnedAs(role, r), r.tool = "role",
         r.actor = "rf-lead"
  PROVE  r.says = {}
<1>1. role = "reviewer"
  BY HelperRole
<1> QED
  BY <1>1 DEF ReturnedAs, Says, As, Staging

\* The proposal of an execution of the skill is what the skill makes of its snapshot.
LEMMA Proposed ==
  ASSUME NEW r, NEW role \in DOMAIN Authorized, ReturnedAs(role, r), r.tool = "skill"
  PROVE  /\ WithSource(r.found) = r.snapshot
         /\ r.says = {ProposalOf(r)}
         /\ ProposalOf(r).snapshot = r.snapshot
         /\ ProposalOf(r).patch = Propose(r.snapshot)
         /\ ProposalOf(r).actor = r.actor
         /\ ProposalOf(r).role = "worker"
<1>1. role = "proposer"
  BY RoleNames DEF ReturnedAs, Tool
<1>2. WithSource(r.found) = r.snapshot
  BY <1>1 DEF ReturnedAs, ObservesSnapshot
<1> DEFINE x == Issue(As(role, r), Propose(WithSource(r.found)))
<1>3. r.says = {x}
  BY <1>1 DEF ReturnedAs, Says, As, Staging
<1>4. ProposalOf(r) = x
  BY <1>3 DEF ProposalOf
<1>5. x.snapshot = r.snapshot /\ x.patch = Propose(WithSource(r.found)) /\ x.actor = r.actor
      /\ x.role = "worker"
  BY DEF Issue, As
<1> QED
  BY <1>2, <1>3, <1>4, <1>5

-------------------------------------------------------------------------------
(* The record.                                                             *)

LEMMA AnnouncedIsReceived ==
  ASSUME NEW trace, NEW actor, NEW tool, NEW r \in AnnouncedBy(trace, actor, tool)
  PROVE  r \in Range(receipts) /\ r.actor = actor
BY DEF AnnouncedBy

\* A record lists receipts, and the events that lead to one of the room.
LEMMA Recorded ==
  ASSUME NEW e \in Records
  PROVE  /\ e.run = ThisRun /\ e.session = Session /\ e.source = source
         /\ e.component = container /\ e.running = Range(container)
         /\ \E i \in DOMAIN room : e.trace = Chain[i] /\ e.export = ExportOf(Chain[i])
         /\ DOMAIN e.skill = Proposers
         /\ \A a \in Proposers : e.skill[a] \in Range(receipts)
         /\ e.cloud \in Range(receipts)
         /\ DOMAIN e.role = Workers \ Proposers
         /\ \A a \in Workers \ Proposers : e.role[a] \in Range(receipts)
<1>1. PICK i \in DOMAIN room : e \in RecordsOf(Chain[i])
  BY DEF Records
<1> DEFINE trace == Chain[i]
<1>2. \E a \in AnnouncedBy(trace, "rf-proposer-a", "skill"),
         b \in AnnouncedBy(trace, "rf-proposer-b", "skill"),
         c \in AnnouncedBy(trace, "rf-verifier", "cloud"), S \in Helpers(trace) :
        e = Record(trace, ExportOf(trace), a, b, c, RoleReceipts(S))
  BY <1>1 DEF RecordsOf
<1> HIDE DEF trace
<1>3. PICK a \in AnnouncedBy(trace, "rf-proposer-a", "skill"),
           b \in AnnouncedBy(trace, "rf-proposer-b", "skill"),
           c \in AnnouncedBy(trace, "rf-verifier", "cloud"), S \in Helpers(trace) :
        e = Record(trace, ExportOf(trace), a, b, c, RoleReceipts(S))
  BY <1>2
<1>4. a \in Range(receipts) /\ b \in Range(receipts) /\ c \in Range(receipts)
  BY <1>3, AnnouncedIsReceived
<1>5. S \subseteq Range(receipts) /\ {r.actor : r \in S} = Workers \ Proposers
  BY <1>3, AnnouncedIsReceived DEF Helpers
<1>6. \A w \in Workers \ Proposers : RoleReceipts(S)[w] \in Range(receipts)
  BY <1>5 DEF RoleReceipts
<1>7. DOMAIN RoleReceipts(S) = Workers \ Proposers
  BY DEF RoleReceipts
<1>8. /\ e.run = ThisRun /\ e.session = Session /\ e.source = source
      /\ e.component = container /\ e.running = Range(container)
      /\ e.trace = trace /\ e.export = ExportOf(trace)
      /\ e.cloud = c /\ e.role = RoleReceipts(S)
      /\ e.skill = [x \in Proposers |-> IF x = "rf-proposer-a" THEN a ELSE b]
  BY <1>3 DEF Record
<1> QED
  BY <1>4, <1>6, <1>7, <1>8 DEF trace

\* A receipt is known by its digest, and came after those it names.
LEMMA ReceiptsBound ==
  ASSUME ReceiptsInv
  PROVE  /\ \A x, y \in Range(receipts) : Digest(x) = Digest(y) => x = y
         /\ \A x \in Range(receipts) :
              Grounded(x) /\ \E role \in DOMAIN Authorized : ReturnedAs(role, x)
<1>1. \A x \in Range(receipts) : x.id \in DOMAIN receipts /\ receipts[x.id] = x
  BY DEF ReceiptsInv, Filed, Range
<1>2. \A x, y : Digest(x) = Digest(y) => x.id = y.id
  BY DEF Digest
<1> QED
  BY <1>1, <1>2 DEF ReceiptsInv, Filed, Range

LEMMA ConsumedBefore ==
  ASSUME NEW r, Grounded(r), NEW x, Digest(x) \in r.in
  PROVE  x.id < r.id
BY DEF Grounded, Digest

-------------------------------------------------------------------------------
(* What the validator leaves no doubt about.                               *)

LastTo(e) ==
  /\ \A r \in Listed(e) : r.session = Session /\ r.source = source
  /\ e.cloud.id < e.role["rf-verifier"].id
  /\ \A a \in Controls : e.role[a].id < e.role["rf-release-manager"].id

LEMMA ValidIsLast ==
  ASSUME ReceiptsInv, NEW e \in Records, Valid(e, source)
  PROVE  LastTo(e)
<1>1. \A r \in Listed(e) : r.session = Session /\ r.source = source
  BY Recorded DEF Valid, ReceiptValid
<1>2. \A a \in Workers \ Proposers :
        Grounded(e.role[a]) /\ e.role[a].in = ExpectedInputs(e, a)
  BY Recorded, ReceiptsBound DEF Valid, RolesValid
<1>3. /\ "rf-verifier" \in Workers \ Proposers /\ "rf-release-manager" \in Workers \ Proposers
      /\ "rf-verifier" \notin {"rf-release-manager"}
      /\ "rf-release-manager" \notin Controls
  BY WhoControls
<1>4. Digest(e.cloud) \in e.role["rf-verifier"].in
  <2>1. Digest(e.cloud) \in ExpectedInputs(e, "rf-verifier")
    BY DEF ExpectedInputs
  <2> QED
    BY <1>2, <1>3, <2>1
<1>5. \A a \in Controls : Digest(e.role[a]) \in e.role["rf-release-manager"].in
  <2>1. \A a \in Controls : Digest(e.role[a]) \in ExpectedInputs(e, "rf-release-manager")
    BY <1>3 DEF ExpectedInputs
  <2> QED
    BY <1>2, <1>3, <2>1
<1>6. e.cloud.id < e.role["rf-verifier"].id
  BY <1>2, <1>3, <1>4, ConsumedBefore
<1>7. \A a \in Controls : e.role[a].id < e.role["rf-release-manager"].id
  BY <1>2, <1>3, <1>5, ConsumedBefore
<1> QED
  BY <1>1, <1>6, <1>7 DEF LastTo

\* The receipts a valid record lists are of the actors and tools it lists them for.
LEMMA ListedAs ==
  ASSUME ReceiptsInv, NEW e \in Records, Valid(e, source)
  PROVE  /\ \A a \in Proposers :
              /\ e.skill[a].tool = "skill" /\ e.skill[a].actor = a
              /\ e.skill[a] \in Range(receipts)
              /\ \E role \in DOMAIN Authorized : ReturnedAs(role, e.skill[a])
         /\ \A a \in Workers \ Proposers :
              /\ e.role[a].tool = "role" /\ e.role[a].actor = a
              /\ e.role[a] \in Range(receipts)
              /\ \E role \in DOMAIN Authorized : ReturnedAs(role, e.role[a])
<1>1. \A a \in Proposers : e.skill[a].tool = "skill" /\ e.skill[a].actor = a
  BY DEF Valid, SkillsValid, SkillValid
<1>2. \A a \in Workers \ Proposers : e.role[a].tool = "role" /\ e.role[a].actor = a
  BY Recorded DEF Valid, RolesValid, RoleValid
<1> QED
  BY <1>1, <1>2, Recorded, ReceiptsBound

\* The gate, asked by the Release Manager, refuses a proposal about another snapshot.
LEMMA ProposalsInContext ==
  ASSUME NEW q, NEW P, NEW A, Gate!Authorized(q, P, A), NEW p \in P,
         p.actor \in Proposers, p.role = "worker"
  PROVE  p.snapshot = q.snapshot
<1>1. Gate!WorkerObjections(q, P) = {}
  BY DEF Gate!Authorized, Gate!Blocking
<1>2. p \in Gate!WorkerProposals(P)
  BY DEF Gate!WorkerProposals, Gate!Registered, Proposers
<1>3. Gate!ProposalObjections(q, p) = {}
  BY <1>1, <1>2 DEF Gate!WorkerObjections
<1> QED
  BY <1>3 DEF Gate!ProposalObjections, Gate!Raise, Gate!InRunContext

TestedFor(e) ==
  /\ \A a \in Attesters : e.role[a].found = BoundSnapshot(e)
  /\ \A a \in Proposers :
       /\ WithSource(e.skill[a].found) = BoundSnapshot(e)
       /\ Propose(BoundSnapshot(e)) = CandidateOf(e.skill[a])
  /\ SuitesPass(Staged(BoundSnapshot(e), Converging(e)))

LEMMA ValidIsTested ==
  ASSUME ReceiptsInv, NEW e \in Records, Valid(e, source)
  PROVE  TestedFor(e)
<1>1. \A a \in Attesters :
        /\ e.role[a].found = e.role[a].snapshot
        /\ AttestationOf(e.role[a]).binding.snapshot = e.role[a].snapshot
        /\ AttestationOf(e.role[a]).binding.candidate = e.role[a].candidate
        /\ AttestationOf(e.role[a]).binding.artifact.passed
             = SuitesPass(Staged(e.role[a].found, e.role[a].candidate))
  BY ListedAs, Attested, WhoControls
<1>2. \A a \in Attesters : e.role[a].snapshot = BoundSnapshot(e) /\ e.role[a].candidate = Converging(e)
  BY <1>1 DEF Valid, AttestationValid
<1>3. SuitesPass(Staged(BoundSnapshot(e), Converging(e)))
  <2>1. "rf-verifier" \in Attesters /\ "rf-verifier" # "rf-governor"
    BY WhoControls
  <2>2. AttestationOf(e.role["rf-verifier"]).binding.artifact.passed
    BY <2>1 DEF Valid, AttestationValid
  <2> QED
    BY <1>1, <1>2, <2>1, <2>2
<1>4. \A a \in Proposers :
        /\ WithSource(e.skill[a].found) = e.skill[a].snapshot
        /\ ProposalOf(e.skill[a]).snapshot = e.skill[a].snapshot
        /\ ProposalOf(e.skill[a]).patch = Propose(e.skill[a].snapshot)
        /\ ProposalOf(e.skill[a]).actor = a
        /\ ProposalOf(e.skill[a]).role = "worker"
  BY ListedAs, Proposed
<1>5. \A a \in Proposers : ProposalOf(e.skill[a]).snapshot = BoundSnapshot(e)
  <2> DEFINE r == e.role["rf-release-manager"]
  <2>1. Gate!Authorized(Request(r), Proposals(e), Attestations(e)) /\ r.snapshot = BoundSnapshot(e)
    BY DEF Valid, ReleaseValid, DecisionReplays
  <2>2. Request(r).snapshot = BoundSnapshot(e)
    BY <2>1 DEF Request
  <2>3. \A a \in Proposers : ProposalOf(e.skill[a]) \in Proposals(e)
    BY DEF Proposals
  <2> HIDE DEF r
  <2> QED
    BY <1>4, <2>1, <2>2, <2>3, ProposalsInContext
<1> QED
  BY <1>1, <1>2, <1>3, <1>4, <1>5 DEF TestedFor, CandidateOf

DecidedFor(e) ==
  LET r == e.role["rf-release-manager"]
      consumed == {x \in Range(receipts) : Digest(x) \in r.in}
  IN  /\ r.attestations = SaidBy(consumed)
      /\ {ProposalDigest(p) : p \in r.proposals} = r.in \ Digests(consumed)
      /\ Gate!Authorized(Request(r), r.proposals, r.attestations)

LEMMA ValidIsDecided ==
  ASSUME ReceiptsInv, NEW e \in Records, Valid(e, source)
  PROVE  DecidedFor(e)
<1> DEFINE r == e.role["rf-release-manager"]
           consumed == {x \in Range(receipts) : Digest(x) \in r.in}
           proposed == {ProposalDigest(p) : p \in Proposals(e)}
<1>1. /\ r.proposals = Proposals(e) /\ r.attestations = Attestations(e)
      /\ Gate!Authorized(Request(r), Proposals(e), Attestations(e))
  BY DEF Valid, ReleaseValid
<1>2. r.in = ProposerReceipts(e) \union {Digest(e.role[c]) : c \in Controls}
  <2>1. "rf-release-manager" \in DOMAIN e.role /\ "rf-release-manager" \notin Controls
    BY Recorded, WhoControls
  <2> QED
    BY <2>1 DEF Valid, RolesValid, ExpectedInputs
<1>3. ProposerReceipts(e) = proposed
  <2>1. \A a \in Proposers : OutputOf(e, a, "propose") = ProposalDigest(ProposalOf(e.skill[a]))
    BY DEF Valid, SkillsValid, SkillValid
  <2>2. \A p : ProposalDigest(p) # NoReceipt
    BY DEF ProposalDigest, NoReceipt
  <2> QED
    BY <2>1, <2>2 DEF ProposerReceipts, Proposals
<1>4. \A x : Digest(x) \notin proposed
  BY DEF Digest, ProposalDigest
<1>5. consumed = {e.role[c] : c \in Controls}
  <2>1. \A c \in Controls : e.role[c] \in Range(receipts)
    BY Recorded, WhoControls
  <2>2. \A x \in Range(receipts) : Digest(x) \in r.in <=> \E c \in Controls : x = e.role[c]
    BY <1>2, <1>3, <1>4, <2>1, ReceiptsBound
  <2> QED
    BY <2>1, <2>2
<1>6. /\ \A c \in Attesters : e.role[c].says = {AttestationOf(e.role[c])}
      /\ e.role["rf-lead"].says = {}
  BY ListedAs, Attested, ReviewedInSilence, WhoControls
<1>7. SaidBy(consumed) = Attestations(e)
  BY <1>5, <1>6, WhoControls DEF SaidBy, Attestations
<1>8. r.in \ Digests(consumed) = proposed
  <2>1. Digests(consumed) = {Digest(e.role[c]) : c \in Controls}
    BY <1>5 DEF Digests
  <2> QED
    BY <1>2, <1>3, <1>4, <2>1
<1> QED
  BY <1>1, <1>7, <1>8 DEF DecidedFor

-------------------------------------------------------------------------------
(* The trace.                                                              *)

\* Every set of naturals has a least element; what replaces induction below.
LEMMA LeastNat ==
  ASSUME NEW T, T \subseteq Nat, T # {}
  PROVE  \E m \in T : \A k \in T : m <= k
<1>1. PICK n \in T : TRUE
  OBVIOUS
<1> DEFINE S == 0 .. n
           R == StrictSubsetOrdering(S)
           B == {0 .. k : k \in {t \in T : t <= n}}
<1>2. IsWellFoundedOn(R, SUBSET S)
  <2>1. IsFiniteSet(S)
    BY FS_Interval
  <2>2. FiniteSubsetsOf(S) = SUBSET S
    BY <2>1, FS_FiniteSubsetsOfFinite
  <2> QED
    BY <2>2, FS_StrictSubsetOrderingWellFounded
<1>3. \A x, y \in SUBSET S : x \subseteq y /\ x # y => <<x, y>> \in R
  BY DEF StrictSubsetOrdering
<1>4. B \subseteq SUBSET S /\ 0 .. n \in B
  OBVIOUS
<1> HIDE DEF R
<1>5. PICK b \in B : \A y \in B : ~(<<y, b>> \in R)
  <2> HIDE DEF B, S
  <2> QED
    BY <1>2, <1>4, WFMin
<1>6. PICK m \in T : m <= n /\ b = 0 .. m
  BY <1>5
<1>7. ASSUME NEW k \in T, k < m
      PROVE  FALSE
  <2>1. 0 .. k \in B /\ 0 .. k \subseteq 0 .. m /\ m \notin 0 .. k
    BY <1>6, <1>7
  <2>2. 0 .. k # 0 .. m
    BY <2>1, <1>7
  <2> QED
    BY <2>1, <2>2, <1>3, <1>4, <1>5, <1>6
<1> QED
  BY <1>7

LEMMA AppendSeq ==
  ASSUME NEW s, IsSeq(s), NEW e
  PROVE  /\ IsSeq(Append(s, e)) /\ Len(s) \in Nat
         /\ DOMAIN s = 1 .. Len(s) /\ DOMAIN Append(s, e) = 1 .. Len(s) + 1
         /\ \A i \in DOMAIN s : Append(s, e)[i] = s[i]
         /\ Append(s, e)[Len(s) + 1] = e
<1>1. PICK S : s \in Seq(S)
  BY DEF IsSeq
<1>2. s \in Seq(S \union {e}) /\ e \in S \union {e}
  BY <1>1
<1>3. Append(s, e) \in Seq(S \union {e})
  BY <1>2
<1> QED
  BY <1>2, <1>3 DEF IsSeq

LEMMA NothingIsSeq ==
  ASSUME NEW s, s = <<>>
  PROVE  IsSeq(s) /\ DOMAIN s = {} /\ Len(s) = 0
<1>1. s \in Seq({})
  OBVIOUS
<1>2. IsSeq(s)
  BY <1>1 DEF IsSeq
<1>3. DOMAIN s = {}
  OBVIOUS
<1>4. Len(s) = 0
  OBVIOUS
<1> QED
  BY <1>2, <1>3, <1>4

Before(i) == room[i].content.prev

Item(i) == [id |-> i, content |-> room[i].content]

\* One step of the recursion, from chains f of the events before i.
ChainStep(f, i) ==
  IF i = 0 THEN <<>> ELSE Append(IF Before(i) < i THEN f[Before(i)] ELSE <<>>, Item(i))

IsChain(f, n) == f = [i \in 0 .. n |-> ChainStep(f, i)]

LEMMA ChainExists ==
  ASSUME RoomInv, NEW n \in 0 .. Len(room)
  PROVE  \E f : IsChain(f, n)
<1>1. Len(room) \in Nat /\ DOMAIN room = 1 .. Len(room)
  BY DEF RoomInv, IsSeq
<1> DEFINE Bad == {k \in 0 .. Len(room) : ~ \E f : IsChain(f, k)}
<1> SUFFICES ASSUME Bad # {} PROVE FALSE
  OBVIOUS
<1>2. PICK m \in Bad : \A k \in Bad : m <= k
  <2>1. Bad \subseteq Nat
    BY <1>1
  <2> HIDE DEF Bad
  <2> QED
    BY <2>1, LeastNat
<1>3. CASE m = 0
  <2> DEFINE f == [i \in 0 .. 0 |-> <<>>]
  <2>1. f = [i \in 0 .. 0 |-> ChainStep(f, i)]
    BY DEF ChainStep
  <2>2. \E g : IsChain(g, 0)
    BY <2>1 DEF IsChain
  <2> QED
    BY <1>2, <1>3, <2>2
<1>4. CASE m # 0
  <2>1. m - 1 \in 0 .. Len(room) /\ m - 1 \notin Bad /\ m \in 1 .. Len(room)
    BY <1>1, <1>2, <1>4
  <2>2. PICK f : IsChain(f, m - 1)
    BY <2>1
  <2> DEFINE g == [i \in 0 .. m |-> IF i = m THEN ChainStep(f, m) ELSE f[i]]
  <2>3. \A i \in 1 .. m : Before(i) \in Nat
    BY <1>1, <2>1 DEF RoomInv, Before
  <2>4. \A i \in 0 .. m : ChainStep(g, i) = ChainStep(f, i)
    <3>1. \A k \in 0 .. m - 1 : g[k] = f[k]
      BY <2>1
    <3>2. \A i \in 1 .. m : Before(i) < i => g[Before(i)] = f[Before(i)]
      BY <2>1, <2>3, <3>1
    <3> HIDE DEF g
    <3> QED
      BY <2>1, <3>2 DEF ChainStep
  <2>5. \A i \in 0 .. m - 1 : f[i] = ChainStep(f, i)
    BY <2>2 DEF IsChain
  <2>6. \A i \in 0 .. m : g[i] = ChainStep(f, i)
    BY <2>1, <2>5
  <2>7. g = [i \in 0 .. m |-> ChainStep(g, i)]
    <3>1. DOMAIN g = 0 .. m /\ g = [i \in DOMAIN g |-> g[i]]
      OBVIOUS
    <3> HIDE DEF g
    <3> QED
      BY <2>4, <2>6, <3>1
  <2>8. \E h : IsChain(h, m)
    BY <2>7 DEF IsChain
  <2> QED
    BY <1>2, <2>8
<1> QED
  BY <1>3, <1>4

LEMMA ChainIs ==
  ASSUME RoomInv
  PROVE  IsChain(Chain, Len(room))
<1>1. Len(room) \in 0 .. Len(room)
  BY DEF RoomInv, IsSeq
<1>2. \E f : IsChain(f, Len(room))
  BY <1>1, ChainExists
<1>3. Chain = CHOOSE f : IsChain(f, Len(room))
  BY DEF Chain, IsChain, ChainStep, Before, Item
<1> QED
  BY <1>2, <1>3

\* A trace that ends in event i: messages of the room, in the order of the server.
InOrder(t, i) ==
  /\ IsSeq(t)
  /\ \A j \in DOMAIN t : /\ t[j].id \in DOMAIN room /\ t[j].id <= i
                         /\ t[j].content = room[t[j].id].content
  /\ \A j, k \in DOMAIN t : j < k => t[j].id < t[k].id

LEMMA ChainInOrder ==
  ASSUME RoomInv, NEW n \in 0 .. Len(room)
  PROVE  InOrder(Chain[n], n)
<1>1. Len(room) \in Nat /\ DOMAIN room = 1 .. Len(room)
  BY DEF RoomInv, IsSeq
<1>2. \A i \in 0 .. Len(room) : Chain[i] = ChainStep(Chain, i)
  BY ChainIs DEF IsChain
<1> DEFINE Bad == {k \in 0 .. Len(room) : ~InOrder(Chain[k], k)}
<1> SUFFICES ASSUME Bad # {} PROVE FALSE
  OBVIOUS
<1>3. PICK m \in Bad : \A k \in Bad : m <= k
  <2>1. Bad \subseteq Nat
    BY <1>1
  <2> HIDE DEF Bad
  <2> QED
    BY <2>1, LeastNat
<1>4. m \in 0 .. Len(room) /\ ~InOrder(Chain[m], m)
  BY <1>3
<1>5. \A t : t = <<>> => InOrder(t, 0)
  BY NothingIsSeq DEF InOrder
<1>6. CASE m = 0
  BY <1>2, <1>4, <1>5, <1>6 DEF ChainStep
<1>7. CASE m # 0
  <2>1. m \in DOMAIN room /\ Before(m) \in Nat
    BY <1>1, <1>4, <1>7 DEF RoomInv, Before
  <2> DEFINE t == IF Before(m) < m THEN Chain[Before(m)] ELSE <<>>
  <2>2. \E p \in Nat : p < m /\ InOrder(t, p)
    <3>1. CASE Before(m) < m
      <4>1. Before(m) \in 0 .. Len(room) /\ Before(m) \notin Bad
        BY <1>1, <1>3, <1>4, <2>1, <3>1
      <4> QED
        BY <2>1, <3>1, <4>1
    <3>2. CASE ~(Before(m) < m)
      BY <1>4, <1>5, <1>7, <3>2
    <3> QED
      BY <3>1, <3>2
  <2>3. Chain[m] = Append(t, Item(m))
    BY <1>2, <1>4, <1>7 DEF ChainStep
  <2> HIDE DEF t
  <2>4. PICK p \in Nat : p < m /\ InOrder(t, p)
    BY <2>2
  <2> DEFINE u == Append(t, Item(m))
             l == Len(t) + 1
  <2>5. /\ IsSeq(u) /\ l \in Nat
        /\ DOMAIN t = 1 .. l - 1 /\ DOMAIN u = 1 .. l
        /\ \A i \in DOMAIN t : u[i] = t[i]
        /\ u[l] = Item(m)
    BY <2>4, AppendSeq DEF InOrder
  <2>6. Item(m).id = m /\ Item(m).content = room[m].content
    BY DEF Item
  <2> HIDE DEF u, l
  <2>7. \A j \in DOMAIN t : /\ t[j].id \in DOMAIN room /\ t[j].id <= p
                            /\ t[j].content = room[t[j].id].content
    BY <2>4 DEF InOrder
  <2>8. \A j \in DOMAIN u : /\ u[j].id \in DOMAIN room /\ u[j].id <= m
                            /\ u[j].content = room[u[j].id].content
                            /\ (j # l => u[j].id < m)
    <3> SUFFICES ASSUME NEW j \in DOMAIN u
                 PROVE  /\ u[j].id \in DOMAIN room /\ u[j].id <= m
                        /\ u[j].content = room[u[j].id].content
                        /\ (j # l => u[j].id < m)
      OBVIOUS
    <3>1. CASE j = l
      BY <1>1, <2>1, <2>5, <2>6, <3>1
    <3>2. CASE j # l
      <4>1. j \in DOMAIN t /\ u[j] = t[j]
        BY <2>5, <3>2
      <4>2. u[j].id \in DOMAIN room /\ u[j].id <= p /\ u[j].content = room[u[j].id].content
        BY <2>7, <4>1
      <4> QED
        BY <1>1, <2>1, <2>4, <4>2
    <3> QED
      BY <3>1, <3>2
  <2>9. \A j, k \in DOMAIN u : j < k => u[j].id < u[k].id
    <3> SUFFICES ASSUME NEW j \in DOMAIN u, NEW k \in DOMAIN u, j < k
                 PROVE  u[j].id < u[k].id
      OBVIOUS
    <3>1. j \in DOMAIN t /\ u[j] = t[j] /\ j # l
      BY <2>5
    <3>2. CASE k = l
      BY <2>5, <2>6, <2>8, <3>1, <3>2
    <3>3. CASE k # l
      <4>1. k \in DOMAIN t /\ u[k] = t[k]
        BY <2>5, <3>3
      <4>2. t[j].id < t[k].id
        BY <2>4, <3>1, <4>1 DEF InOrder
      <4> QED
        BY <3>1, <4>1, <4>2
    <3> QED
      BY <3>2, <3>3
  <2>10. InOrder(u, m)
    BY <2>5, <2>8, <2>9 DEF InOrder
  <2>11. Chain[m] = u
    BY <2>3 DEF u
  <2> QED
    BY <1>4, <2>10, <2>11
<1> QED
  BY <1>6, <1>7

-------------------------------------------------------------------------------

\* An execution a valid record lists has one event, for a receipt is announced once.
LEMMA AnnouncedOnce ==
  ASSUME NEW e, TraceValid(e), IsSeq(e.trace), NEW r, AnnouncedAt(e, r) # {}
  PROVE  Cardinality(AnnouncedAt(e, r)) = 1
<1>1. PICK i \in AnnouncedAt(e, r) : TRUE
  OBVIOUS
<1>2. \A x, y \in AnnouncedAt(e, r) : ~(x < y)
  <2> SUFFICES ASSUME NEW x \in AnnouncedAt(e, r), NEW y \in AnnouncedAt(e, r), x < y
               PROVE  FALSE
    OBVIOUS
  <2>1. /\ x \in DOMAIN e.trace /\ Content(e, x).out = Digest(r)
        /\ y \in DOMAIN e.trace /\ Content(e, y).out = Digest(r)
    BY DEF AnnouncedAt
  <2>2. Digest(r) # NoReceipt
    BY DEF Digest, NoReceipt
  <2>3. \A j \in 1 .. (y - 1) : Content(e, j).out # Content(e, y).out
    BY <2>1, <2>2 DEF TraceValid, EventValid, Follows
  <2> QED
    BY <2>1, <2>3 DEF IsSeq
<1>3. AnnouncedAt(e, r) \subseteq Nat
  BY DEF AnnouncedAt, IsSeq
<1>4. AnnouncedAt(e, r) = {i}
  BY <1>1, <1>2, <1>3
<1> QED
  BY <1>4, FS_Singleton

\* The captures of a valid record are those of its events and no others.
LEMMA CapturedFaithfully ==
  ASSUME RoomInv, NEW e, ExportValid(e), IsSeq(e.trace),
         IsFiniteSet(e.export),
         \A j, k \in DOMAIN e.trace : j < k => e.trace[j].id < e.trace[k].id,
         \A j \in DOMAIN e.trace : e.trace[j].id \in Nat,
         NEW x \in e.export
  PROVE  \E j \in DOMAIN e.trace : Captures(e, j, x)
<1> DEFINE n == Len(e.trace)
<1>1. n \in Nat /\ DOMAIN e.trace = 1 .. n
  BY DEF IsSeq
<1>2. Cardinality(e.export) = n /\ \A j \in 1 .. n : \E y \in e.export : Captures(e, j, y)
  BY <1>1 DEF ExportValid
<1> HIDE DEF n
<1> DEFINE f == [j \in 1 .. n |-> CHOOSE y \in e.export : Captures(e, j, y)]
<1>3. \A j \in 1 .. n : f[j] \in e.export /\ Captures(e, j, f[j])
  BY <1>2
<1>4. f \in [1 .. n -> e.export]
  BY <1>3
<1> HIDE DEF f
<1>5. \A j \in 1 .. n : f[j].event = e.trace[j].id
  BY <1>3 DEF Captures
<1>6. \A j, k \in 1 .. n : f[j] = f[k] => j = k
  <2> SUFFICES ASSUME NEW j \in 1 .. n, NEW k \in 1 .. n, f[j] = f[k]
               PROVE  j = k
    OBVIOUS
  <2>1. e.trace[j].id = e.trace[k].id /\ e.trace[j].id \in Nat
    BY <1>1, <1>5
  <2>2. ~(j < k) /\ ~(k < j)
    BY <1>1, <2>1
  <2> QED
    BY <1>1, <2>2
<1>7. f \in Injection(1 .. n, e.export)
  BY <1>4, <1>6 DEF Injection, IsInjective
<1>8. Cardinality(1 .. n) = n
  BY <1>1, FS_Interval
<1>9. f \in Surjection(1 .. n, e.export)
  BY <1>2, <1>7, <1>8, FS_Injection
<1>10. PICK j \in 1 .. n : f[j] = x
  BY <1>9 DEF Surjection
<1> QED
  BY <1>1, <1>3, <1>10

HeardFor(e) ==
  /\ \A r \in Listed(e) : Cardinality(AnnouncedAt(e, r)) = 1 /\ r.container \in Range(container)
  /\ \A x \in e.export :
       /\ room[x.event].content = x.content
       /\ x.container = container[x.content.actor]

LEMMA ValidIsHeard ==
  ASSUME RoomInv, NEW e \in Records, Valid(e, source)
  PROVE  HeardFor(e)
<1>1. PICK i \in DOMAIN room : e.trace = Chain[i] /\ e.export = ExportOf(Chain[i])
  BY Recorded
<1>2. InOrder(e.trace, i)
  <2>1. i \in 0 .. Len(room)
    BY DEF RoomInv, IsSeq
  <2> QED
    BY <1>1, <2>1, ChainInOrder
<1>3. IsSeq(e.trace)
  BY <1>2 DEF InOrder
<1>4. \A r \in Listed(e) : AnnouncedAt(e, r) # {}
  <2>1. \A a \in Proposers : AnnouncedAt(e, e.skill[a]) # {}
    BY DEF Valid, SkillsValid, SkillValid
  <2>2. AnnouncedAt(e, e.cloud) # {}
    BY DEF Valid, CloudValid
  <2>3. \A a \in DOMAIN e.role : AnnouncedAt(e, e.role[a]) # {}
    BY DEF Valid, RolesValid, RoleValid
  <2>4. DOMAIN e.skill = Proposers
    BY Recorded
  <2> QED
    BY <2>1, <2>2, <2>3, <2>4 DEF Listed
<1>5. \A r \in Listed(e) : Cardinality(AnnouncedAt(e, r)) = 1
  BY <1>3, <1>4, AnnouncedOnce DEF Valid
<1>6. \A r \in Listed(e) : r.container \in Range(container)
  BY Recorded DEF Valid, ReceiptValid
<1>7. IsFiniteSet(e.export)
  <2>1. e.export \subseteq captures
    BY <1>1 DEF ExportOf, Captured
  <2> QED
    BY <2>1, FS_Subset DEF RoomInv
<1>8. ASSUME NEW x \in e.export
      PROVE  /\ room[x.event].content = x.content
             /\ x.container = container[x.content.actor]
  <2>1. /\ \A j, k \in DOMAIN e.trace : j < k => e.trace[j].id < e.trace[k].id
        /\ \A j \in DOMAIN e.trace : /\ e.trace[j].id \in DOMAIN room
                                     /\ e.trace[j].content = room[e.trace[j].id].content
    BY <1>2 DEF InOrder
  <2>2. \A j \in DOMAIN e.trace : e.trace[j].id \in Nat
    BY <2>1 DEF RoomInv, IsSeq
  <2>3. ExportValid(e)
    BY DEF Valid
  <2>4. PICK j \in DOMAIN e.trace : Captures(e, j, x)
    BY <1>3, <1>7, <2>1, <2>2, <2>3, CapturedFaithfully
  <2>5. e.component = container
    BY Recorded
  <2> QED
    BY <2>1, <2>4, <2>5 DEF Captures, Content
<1> QED
  BY <1>5, <1>6, <1>8 DEF HeardFor

-------------------------------------------------------------------------------
(* What an execution leaves.                                               *)

Grown(rs, r) == Append(rs, r)

LEMMA FiledNext ==
  ASSUME NEW rs, Filed(rs), NEW r, Grounded(r),
         \E role \in DOMAIN Authorized : ReturnedAs(role, r),
         r.id = Len(rs) + 1 \/ r \in Range(rs)
  PROVE  Filed(Grown(rs, r))
<1> DEFINE u == Grown(rs, r)
           l == Len(rs) + 1
<1>1. /\ IsSeq(u) /\ l \in Nat \ {0} /\ DOMAIN rs = 1 .. l - 1 /\ DOMAIN u = 1 .. l
      /\ \A i \in DOMAIN rs : u[i] = rs[i]
      /\ u[l] = r
  BY AppendSeq DEF Filed, Grown
<1>2. r.id \in DOMAIN u /\ u[r.id] = r
  <2>1. CASE r.id = l
    BY <1>1, <2>1
  <2>2. CASE r \in Range(rs)
    <3>1. r.id \in DOMAIN rs /\ rs[r.id] = r
      BY <2>2 DEF Filed, Range
    <3> HIDE DEF u, l
    <3> QED
      BY <1>1, <3>1
  <2> QED
    BY <2>1, <2>2
<1> HIDE DEF u, l
<1>3. ASSUME NEW i \in DOMAIN u
      PROVE  /\ u[i].id \in DOMAIN u /\ u[u[i].id] = u[i] /\ Grounded(u[i])
             /\ \E role \in DOMAIN Authorized : ReturnedAs(role, u[i])
  <2>1. CASE i = l
    BY <1>1, <1>2, <2>1
  <2>2. CASE i # l
    <3>1. i \in DOMAIN rs /\ u[i] = rs[i]
      BY <1>1, <2>2
    <3>2. rs[i].id \in DOMAIN rs /\ rs[rs[i].id] = rs[i]
      BY <3>1 DEF Filed
    <3>3. u[i].id \in DOMAIN u /\ u[u[i].id] = u[i]
      BY <1>1, <3>1, <3>2
    <3> QED
      BY <3>1, <3>3 DEF Filed
  <2> QED
    BY <2>1, <2>2
<1>4. Filed(u)
  BY <1>1, <1>3 DEF Filed
<1> QED
  BY <1>4 DEF u

\* What the role tool says depends on no more than these fields of its payload.
LEMMA SameWords ==
  ASSUME NEW p, NEW q, p.role = q.role, p.actor = q.actor, p.run = q.run,
         p.snapshot = q.snapshot, p.candidate = q.candidate, NEW tree, NEW n
  PROVE  Says(p, tree, n) = Says(q, tree, n)
<1> DEFINE c == Propose(WithSource(tree))
           t == Staged(tree, p.candidate)
<1>1. Issue(p, c) = Issue(q, c)
  BY DEF Issue
<1>2. Artifact(p, t, n) = Artifact(q, t, n)
  BY DEF Artifact
<1>3. Approves(p, t) <=> Approves(q, t)
  BY DEF Approves
<1>4. Attest(p, t, n) = Attest(q, t, n)
  BY <1>2, <1>3 DEF Attest
<1> QED
  BY <1>1, <1>4 DEF Says

\* The execution of p in the container of a returned.
LEMMA ReceiptReturned ==
  ASSUME NEW p, NEW a, p.role \in DOMAIN Authorized, Returns(p, workspace[a])
  PROVE  ReturnedAs(p.role, Receipt(p, a))
<1> DEFINE r == Receipt(p, a)
<1>1. /\ r.id = Len(receipts) + 1 /\ r.tool = Tool(p.role) /\ r.actor = p.actor /\ r.run = p.run
      /\ r.snapshot = p.snapshot /\ r.candidate = p.candidate /\ r.found = workspace[a]
      /\ r.says = Says(p, workspace[a], Len(receipts) + 1)
  BY DEF Receipt
<1> HIDE DEF r
<1>2. p.actor \in Authorized[p.role]
  BY DEF Returns, Admitted
<1>3. p.role = "proposer" => ObservesSnapshot(r, r.found)
  BY <1>1 DEF Returns, ObservesSnapshot
<1>4. p.role \in Staging => Stageable(r, r.found)
  BY <1>1 DEF Returns, Stageable, Applies
<1>5. r.says = Says(As(p.role, r), r.found, r.id)
  <2>1. /\ As(p.role, r).role = p.role /\ As(p.role, r).actor = p.actor /\ As(p.role, r).run = p.run
        /\ As(p.role, r).snapshot = p.snapshot /\ As(p.role, r).candidate = p.candidate
    BY <1>1 DEF As
  <2> QED
    BY <1>1, <2>1, SameWords
<1>6. ReturnedAs(p.role, r)
  BY <1>1, <1>2, <1>3, <1>4, <1>5 DEF ReturnedAs
<1> QED
  BY <1>6 DEF r

\* A payload names no executions but those whose receipts are at hand.
AtHand(p) == \A d \in p.in : d[1] = "execution" => \E x \in Range(receipts) : d = Digest(x)

LEMMA ReceiptFiled ==
  ASSUME ReceiptsInv, NEW p, NEW a, p.role \in DOMAIN Authorized, AtHand(p), Runs(p, a)
  PROVE  Filed(receipts')
<1>1. CASE Returns(p, workspace[a])
  <2> DEFINE r == Receipt(p, a)
  <2>1. r.id = Len(receipts) + 1 /\ r.in = p.in
    BY DEF Receipt
  <2>2. receipts' = Grown(receipts, r)
    BY <1>1 DEF Runs, Grown
  <2>3. ReturnedAs(p.role, r)
    BY <1>1, ReceiptReturned
  <2> HIDE DEF r
  <2>4. \A x \in Range(receipts) : x.id < Len(receipts) + 1
    BY DEF ReceiptsInv, Filed, Range, IsSeq
  <2>5. Grounded(r)
    BY <2>1, <2>4 DEF Grounded, AtHand, Digest
  <2> QED
    BY <2>1, <2>2, <2>3, <2>5, FiledNext DEF ReceiptsInv
<1>2. CASE ~Returns(p, workspace[a])
  BY <1>2 DEF Runs, ReceiptsInv
<1> QED
  BY <1>1, <1>2

-------------------------------------------------------------------------------
(* What the operator asks for.                                             *)

LEMMA GreatestNat ==
  ASSUME NEW n \in Nat, NEW S, S \subseteq 1 .. n, S # {}
  PROVE  Max(S) \in S
<1> DEFINE T == {n - k : k \in S}
<1>1. T \subseteq Nat /\ T # {}
  <2>1. \A k \in S : n - k \in Nat
    OBVIOUS
  <2>2. PICK k \in S : TRUE
    OBVIOUS
  <2>3. n - k \in T
    BY <2>2
  <2> QED
    BY <2>1, <2>3
<1>2. PICK t \in T : \A u \in T : t <= u
  BY <1>1, LeastNat
<1>3. PICK k \in S : t = n - k
  BY <1>2
<1>4. \A l \in S : n - l \in T
  OBVIOUS
<1>5. \A l \in S : l <= k
  <2> HIDE DEF T
  <2> QED
    BY <1>2, <1>3, <1>4
<1> HIDE DEF T
<1> QED
  BY <1>3, <1>5 DEF Max

LEMMA LatestIsReceived ==
  ASSUME ReceiptsInv, NEW actors, NEW tool
  PROVE  Latest(actors, tool) \subseteq Range(receipts)
<1>1. Len(receipts) \in Nat /\ DOMAIN receipts = 1 .. Len(receipts)
  BY DEF ReceiptsInv, Filed, IsSeq
<1>2. \A a : Made(a, tool) \subseteq 1 .. Len(receipts)
  BY <1>1 DEF Made
<1>3. \A a : Made(a, tool) # {} => Max(Made(a, tool)) \in DOMAIN receipts
  BY <1>1, <1>2, GreatestNat
<1> QED
  BY <1>3 DEF Latest, Range

\* The operator names proposals, and executions whose receipts it has.
LEMMA InputsAtHand ==
  ASSUME ReceiptsInv, NEW role, NEW actor, NEW d \in Inputs(role, actor), d[1] = "execution"
  PROVE  \E x \in Range(receipts) : d = Digest(x)
<1>1. \A p : ProposalDigest(p)[1] # "execution"
  BY DEF ProposalDigest
<1>2. d \notin ProposalDigests
  BY <1>1 DEF ProposalDigests
<1>3. \A actors, tool : Digests(Latest(actors, tool)) \subseteq {Digest(x) : x \in Range(receipts)}
  BY LatestIsReceived DEF Digests
<1> QED
  BY <1>2, <1>3 DEF Inputs

LEMMA PayloadAtHand ==
  ASSUME ReceiptsInv, NEW role, NEW actor
  PROVE  AtHand(Payload(role, actor)) /\ Payload(role, actor).role = role
<1>1. Payload(role, actor).in = Inputs(role, actor) /\ Payload(role, actor).role = role
  BY DEF Payload
<1> QED
  BY <1>1, InputsAtHand DEF AtHand

\* A mistaken payload has the role that is due, and names no other executions.
LEMMA MistakenAtHand ==
  ASSUME ReceiptsInv, NEW role, NEW actor, NEW q \in Mistaken(Payload(role, actor))
  PROVE  AtHand(q) /\ q.role = role
<1> DEFINE p == Payload(role, actor)
<1>1. AtHand(p) /\ p.role = role
  BY PayloadAtHand
<1>2. DOMAIN p = {"role", "actor", "run", "snapshot", "candidate", "in", "proposals",
                  "attestations"}
  BY DEF Payload
<1>3. q \in Mistaken(p)
  OBVIOUS
<1> HIDE DEF p
<1>4. \/ q = [p EXCEPT !.snapshot = OtherTree] \/ q = [p EXCEPT !.candidate = OtherCandidate]
      \/ \E r : q = [p EXCEPT !.run = r]
      \/ \E d : q = [p EXCEPT !.in = @ \ {d}]
      \/ \E r, x \in Range(receipts) : q = [p EXCEPT !.in = (@ \ {Digest(r)}) \union {Digest(x)}]
      \/ \E r, x \in Range(receipts) :
           q = [p EXCEPT !.attestations = (@ \ r.says) \union x.says]
  BY <1>3 DEF Mistaken, Alike
<1>5. q.role = role
  BY <1>1, <1>2, <1>4
<1>6. \A d \in q.in : d \in p.in \/ \E x \in Range(receipts) : d = Digest(x)
  BY <1>2, <1>4
<1> QED
  BY <1>1, <1>5, <1>6 DEF AtHand

\* A list of steps in which every execution is of a role the tool knows.
Feasible(p) ==
  /\ IsSeq(p)
  /\ \A s \in DOMAIN p : p[s].do = "execute" => p[s].what \in DOMAIN Authorized

LEMMA FeasibleJoin ==
  ASSUME NEW p, NEW q, Feasible(p), Feasible(q)
  PROVE  Feasible(p \o q)
<1>1. PICK S : p \in Seq(S)
  BY DEF Feasible, IsSeq
<1>2. PICK T : q \in Seq(T)
  BY DEF Feasible, IsSeq
<1>3. p \in Seq(S \union T) /\ q \in Seq(S \union T)
  BY <1>1, <1>2
<1>4. p \o q \in Seq(S \union T) /\ Len(p) \in Nat /\ Len(q) \in Nat
  BY <1>3
<1>5. IsSeq(p \o q)
  BY <1>4 DEF IsSeq
<1>6. \A s \in DOMAIN (p \o q) :
        \/ s \in DOMAIN p /\ (p \o q)[s] = p[s]
        \/ s - Len(p) \in DOMAIN q /\ (p \o q)[s] = q[s - Len(p)]
  BY <1>3
<1> QED
  BY <1>5, <1>6 DEF Feasible

LEMMA FeasiblePlan == Feasible(Plan)
<1>1. \A x, y : (x.do = "execute" => x.what \in DOMAIN Authorized)
                /\ (y.do = "execute" => y.what \in DOMAIN Authorized) => Feasible(<<x, y>>)
  <2> SUFFICES ASSUME NEW x, NEW y, x.do = "execute" => x.what \in DOMAIN Authorized,
                      y.do = "execute" => y.what \in DOMAIN Authorized
               PROVE  Feasible(<<x, y>>)
    OBVIOUS
  <2>1. <<x, y>> \in Seq({x, y})
    OBVIOUS
  <2>2. IsSeq(<<x, y>>)
    BY <2>1 DEF IsSeq
  <2> QED
    BY <2>2 DEF Feasible
<1>2. \A x, y, z : (x.do = "execute" => x.what \in DOMAIN Authorized)
                   /\ y.do # "execute" /\ z.do # "execute" => Feasible(<<x, y, z>>)
  <2> SUFFICES ASSUME NEW x, NEW y, NEW z, x.do = "execute" => x.what \in DOMAIN Authorized,
                      y.do # "execute", z.do # "execute"
               PROVE  Feasible(<<x, y, z>>)
    OBVIOUS
  <2>1. <<x, y, z>> \in Seq({x, y, z})
    OBVIOUS
  <2>2. IsSeq(<<x, y, z>>)
    BY <2>1 DEF IsSeq
  <2> QED
    BY <2>2 DEF Feasible
<1>3. \A x : x.do # "execute" => Feasible(<<x>>)
  <2> SUFFICES ASSUME NEW x, x.do # "execute"
               PROVE  Feasible(<<x>>)
    OBVIOUS
  <2>1. <<x>> \in Seq({x})
    OBVIOUS
  <2>2. IsSeq(<<x>>)
    BY <2>1 DEF IsSeq
  <2> QED
    BY <2>2 DEF Feasible
<1>4. \A a : Operation[a] \in DOMAIN Authorized => Feasible(Turn(a))
  BY <1>1 DEF Turn, Execute, Announce
<1>5. \A a : Feasible(ProposerTurn(a))
  BY <1>2, RoleNames DEF ProposerTurn, Execute, Announce
<1>6. /\ Operation["rf-verifier"] = "verifier" /\ Operation["rf-verifier-b"] = "verifier"
      /\ Operation["rf-lead"] = "reviewer" /\ Operation["rf-challenger"] = "challenger"
      /\ Operation["rf-governor"] = "governor"
      /\ Operation["rf-release-manager"] = "release_manager"
  <2>1. \A a \in Workers \ Proposers :
          Operation[a] = IF a = "rf-lead" THEN "reviewer"
                         ELSE IF a = "rf-release-manager" THEN "release_manager" ELSE MEMBERS[a]
    BY DEF Operation
  <2>2. /\ MEMBERS["rf-verifier"] = "verifier" /\ MEMBERS["rf-verifier-b"] = "verifier"
        /\ MEMBERS["rf-challenger"] = "challenger" /\ MEMBERS["rf-governor"] = "governor"
    BY DEF MEMBERS
  <2> QED
    BY <2>1, <2>2, WhoControls
<1>7. /\ Feasible(Turn("rf-verifier")) /\ Feasible(Turn("rf-verifier-b"))
      /\ Feasible(Turn("rf-lead")) /\ Feasible(Turn("rf-challenger"))
      /\ Feasible(Turn("rf-governor")) /\ Feasible(Turn("rf-release-manager"))
  BY <1>4, <1>6, RoleNames
<1>8. Feasible(<<Announce("delegate", "manager")>>)
  BY <1>3 DEF Announce
<1>9. Feasible(<<Execute("cloud_preflight", "rf-verifier"),
                 Announce("tool_execute", "rf-verifier")>>)
  BY <1>1, RoleNames DEF Execute, Announce
<1>10. Feasible(<<[do |-> "probe", what |-> "acl", actor |-> "rf-lead"],
                  [do |-> "probe", what |-> "gateway", actor |-> "manager"],
                  Announce("relay", "manager")>>)
  BY <1>2 DEF Announce
<1> QED
  BY <1>5, <1>7, <1>8, <1>9, <1>10, FeasibleJoin DEF Plan

-------------------------------------------------------------------------------
(* What the room holds.                                                    *)

\* Every message names an event before its sender asked for it.
Posted(messages) == IsSeq(messages) /\ \A i \in DOMAIN messages : messages[i].content.prev \in Nat

Pending(requests) == \A m \in requests : m.content.prev \in Nat

LEMMA DeliveredPosted ==
  ASSUME Posted(room), NEW m, m.content.prev \in Nat
  PROVE  Posted(Delivered(m)) /\ EventOf(m) \in Nat
<1>1. Posted(Append(room, m)) /\ Len(room) \in Nat /\ DOMAIN room \subseteq Nat
  <2> DEFINE u == Append(room, m)
             l == Len(room) + 1
  <2>1. /\ IsSeq(u) /\ Len(room) \in Nat /\ DOMAIN room = 1 .. Len(room) /\ DOMAIN u = 1 .. l
        /\ \A i \in DOMAIN room : u[i] = room[i]
        /\ u[l] = m
    BY AppendSeq DEF Posted
  <2> HIDE DEF u
  <2>2. \A i \in DOMAIN u : u[i].content.prev \in Nat
    <3> SUFFICES ASSUME NEW i \in DOMAIN u PROVE u[i].content.prev \in Nat
      OBVIOUS
    <3>1. i = l \/ i \in DOMAIN room
      BY <2>1
    <3> QED
      BY <2>1, <3>1 DEF Posted
  <2>3. Posted(u)
    BY <2>1, <2>2 DEF Posted
  <2> QED
    BY <2>1, <2>3 DEF u
<1>2. Posted(Delivered(m))
  BY <1>1 DEF Delivered
<1>3. Known(room, m) => (CHOOSE i \in DOMAIN room : Same(room[i], m)) \in DOMAIN room
  BY DEF Known
<1>4. EventOf(m) \in Nat
  BY <1>1, <1>3 DEF EventOf
<1> QED
  BY <1>2, <1>4

LEMMA RoomParts == RoomInv <=> Posted(room) /\ Pending(inflight) /\ tip \in Nat /\ IsFiniteSet(captures)
BY DEF RoomInv, Posted, Pending

\* An acknowledged message.
LEMMA AnswerKeepsRoom ==
  ASSUME RoomInv, NEW s, NEW m, m.content.prev \in Nat, AnswerTo(s, m)
  PROVE  RoomInv'
<1>1. Posted(Delivered(m)) /\ EventOf(m) \in Nat
  BY RoomParts, DeliveredPosted
<1>2. room' = Delivered(m) /\ inflight' = inflight /\ tip' = EventOf(m)
  BY DEF AnswerTo, Acknowledged
<1> DEFINE x == [event |-> EventOf(m), container |-> container[m.actor], content |-> m.content]
<1>3. captures' = captures \union {x}
  BY DEF AnswerTo
<1> HIDE DEF x
<1>4. IsFiniteSet(captures \union {x})
  BY RoomParts, FS_AddElement
<1>5. Posted(room)' /\ Pending(inflight)' /\ (tip \in Nat)' /\ IsFiniteSet(captures)'
  <2>1. Posted(room)' <=> Posted(Delivered(m))
    BY <1>2
  <2>2. Pending(inflight)'
    BY <1>2, RoomParts DEF Pending
  <2> QED
    BY <1>1, <1>2, <1>3, <1>4, <2>1, <2>2
<1> QED
  BY <1>5 DEF RoomInv, Posted, Pending

\* The sender names the event acknowledged last, also where it is mistaken about the receipt.
LEMMA EventsNameTip ==
  ASSUME RoomInv, NEW s, NEW c \in Events(s)
  PROVE  /\ c.prev \in Nat
         /\ \A x \in MistakenEvents(c) : x.prev \in Nat
<1>1. /\ c.prev = tip
      /\ DOMAIN c = {"actor", "stage", "run", "session", "prev", "in", "out", "decision"}
  BY DEF Events
<1>2. ASSUME NEW x \in MistakenEvents(c)
      PROVE  x.prev = c.prev
  <2>1. PICK r \in Alike(c.actor) :
          x = [c EXCEPT !.out = Digest(r)] \/ x = [c EXCEPT !.out = Digest(r), !.in = r.in]
    BY <1>2 DEF MistakenEvents
  <2> QED
    BY <1>1, <2>1
<1> QED
  BY <1>1, <1>2 DEF RoomInv

LEMMA MessageNames ==
  ASSUME NEW s, NEW c, c.prev \in Nat, NEW fresh
  PROVE  Message(s, c, fresh).content.prev \in Nat
<1>1. Message(s, c, fresh).content = c
  BY DEF Message
<1> QED
  BY <1>1

-------------------------------------------------------------------------------
(* The steps of a run.                                                     *)

LEMMA ExecutesKeeps ==
  ASSUME ReceiptsInv, RoomInv, NEW s, NEW p, NEW a, p.role \in DOMAIN Authorized, AtHand(p),
         Executes(s, p, a)
  PROVE  ReceiptsInv' /\ RoomInv'
<1>1. Filed(receipts')
  BY ReceiptFiled DEF Executes
<1>2. RoomInv'
  BY DEF Executes, RoomInv, matrix
<1> QED
  BY <1>1, <1>2 DEF ReceiptsInv

LEMMA AdoptKeeps ==
  ASSUME ReceiptsInv, RoomInv, NEW s, Adopt(s)
  PROVE  ReceiptsInv' /\ RoomInv'
<1>1. PICK r \in Range(receipts) : receipts' = Grown(receipts, r)
  BY DEF Adopt, Grown
<1>2. Grounded(r) /\ \E role \in DOMAIN Authorized : ReturnedAs(role, r)
  BY ReceiptsBound
<1>3. Filed(Grown(receipts, r))
  BY <1>2, FiledNext DEF ReceiptsInv
<1>4. Filed(receipts')
  BY <1>1, <1>3
<1>5. RoomInv'
  BY DEF Adopt, RoomInv, matrix
<1> QED
  BY <1>4, <1>5 DEF ReceiptsInv

LEMMA SameKept ==
  ASSUME ReceiptsInv, RoomInv, UNCHANGED <<receipts, matrix, tip, captures>>
  PROVE  ReceiptsInv' /\ RoomInv'
BY DEF ReceiptsInv, Filed, RoomInv, matrix

LEMMA AnswerKeeps ==
  ASSUME ReceiptsInv, RoomInv, NEW s, NEW m, m.content.prev \in Nat, AnswerTo(s, m)
  PROVE  ReceiptsInv' /\ RoomInv'
<1>1. RoomInv'
  BY AnswerKeepsRoom
<1>2. receipts' = receipts
  BY DEF AnswerTo
<1> QED
  BY <1>1, <1>2 DEF ReceiptsInv, Filed

\* A request without an answer, or one that arrives late.
LEMMA LossKeeps ==
  ASSUME ReceiptsInv, RoomInv, NEW m, m.content.prev \in Nat,
         Unacknowledged(m) \/ Arrives(m), UNCHANGED <<receipts, tip, captures>>
  PROVE  ReceiptsInv' /\ RoomInv'
<1>1. Posted(Delivered(m))
  BY RoomParts, DeliveredPosted
<1>2. /\ room' \in {room, Delivered(m)}
      /\ inflight' \in {inflight, inflight \union {m}, inflight \ {m}}
  BY DEF Unacknowledged, Arrives, matrix
<1>3. Posted(room') /\ Pending(inflight')
  BY <1>1, <1>2, RoomParts DEF Pending
<1>4. RoomInv'
  BY <1>3 DEF RoomInv, Posted, Pending
<1> QED
  BY <1>4 DEF ReceiptsInv, Filed

\* What the validator is sure of is so of the record published, if one is.
Told ==
  \A e \in published : LastTo(e) /\ TestedFor(e) /\ DecidedFor(e) /\ HeardFor(e)

LEMMA PublishKeeps ==
  ASSUME ReceiptsInv, RoomInv, Publish
  PROVE  ReceiptsInv' /\ RoomInv' /\ Told'
<1>1. UNCHANGED <<receipts, matrix, tip, captures, source, container>>
  BY DEF Publish
<1>2. ReceiptsInv' /\ RoomInv'
  BY <1>1, SameKept
<1>3. PICK e \in Records : Valid(e, source) /\ published' = {e}
  BY DEF Publish
<1>4. LastTo(e) /\ TestedFor(e) /\ DecidedFor(e) /\ HeardFor(e)
  BY <1>3, ValidIsLast, ValidIsTested, ValidIsDecided, ValidIsHeard
<1>5. \A x : LastTo(x)' <=> LastTo(x)
  BY <1>1 DEF LastTo
<1>6. \A x : TestedFor(x)' <=> TestedFor(x)
  OBVIOUS
<1>7. \A x : DecidedFor(x)' <=> DecidedFor(x)
  BY <1>1 DEF DecidedFor
<1>8. \A x : HeardFor(x)' <=> HeardFor(x)
  BY <1>1 DEF HeardFor, matrix
<1>9. Told'
  BY <1>3, <1>4, <1>5, <1>6, <1>7, <1>8 DEF Told
<1> QED
  BY <1>2, <1>9

\* Before the record is published a step of the plan keeps both.
LEMMA StepKeeps ==
  ASSUME ReceiptsInv, RoomInv, NEW s \in DOMAIN Plan,
         \/ ExecuteRole(s) \/ ExecuteMistaken(s) \/ ExecutionKilled(s) \/ Adopt(s)
         \/ \E a \in Workers : ExecuteElsewhere(s, a)
         \/ Send(s) \/ SendMistaken(s) \/ SendFails(s)
         \/ Probe(s)
  PROVE  ReceiptsInv' /\ RoomInv'
<1> DEFINE role == Plan[s].what
           p == Payload(role, Plan[s].actor)
<1>1. Plan[s].do = "execute" => role \in DOMAIN Authorized
  BY FeasiblePlan DEF Feasible
<1>2. AtHand(p) /\ p.role = role
  BY PayloadAtHand
<1>3. \A c \in Events(s) : c.prev \in Nat /\ \A x \in MistakenEvents(c) : x.prev \in Nat
  BY EventsNameTip
<1>4. CASE ExecuteRole(s)
  <2>1. Executes(s, p, Plan[s].actor) /\ Plan[s].do = "execute"
    BY <1>4 DEF ExecuteRole
  <2> HIDE DEF p, role
  <2> QED
    BY <1>1, <1>2, <2>1, ExecutesKeeps
<1>5. CASE ExecuteMistaken(s)
  <2>1. Plan[s].do = "execute" /\ \E q \in Mistaken(p) : Executes(s, q, p.actor)
    BY <1>5 DEF ExecuteMistaken
  <2>2. PICK q \in Mistaken(p) : Executes(s, q, p.actor)
    BY <2>1
  <2>3. AtHand(q) /\ q.role = role
    BY MistakenAtHand
  <2> HIDE DEF p, role
  <2> QED
    BY <1>1, <2>1, <2>2, <2>3, ExecutesKeeps
<1>6. CASE ExecutionKilled(s)
  BY <1>6, SameKept DEF ExecutionKilled
<1>7. CASE Adopt(s)
  BY <1>7, AdoptKeeps
<1>8. CASE \E a \in Workers : ExecuteElsewhere(s, a)
  <2>1. PICK a \in Workers : ExecuteElsewhere(s, a)
    BY <1>8
  <2>2. Executes(s, p, a) /\ Plan[s].do = "execute"
    BY <2>1 DEF ExecuteElsewhere
  <2> HIDE DEF p, role
  <2> QED
    BY <1>1, <1>2, <2>2, ExecutesKeeps
<1>9. CASE Send(s)
  <2>1. PICK c \in Events(s) : AnswerTo(s, Message(s, c, FALSE))
    BY <1>9 DEF Send
  <2>0. c.prev \in Nat
    BY <1>3
  <2>2. Message(s, c, FALSE).content.prev \in Nat
    BY <2>0, MessageNames
  <2> QED
    BY <2>1, <2>2, AnswerKeeps
<1>10. CASE SendMistaken(s)
  <2>1. PICK c \in Events(s) :
          \/ \E x \in MistakenEvents(c) : AnswerTo(s, Message(s, x, FALSE))
          \/ AnswerTo(s, Message(s, c, TRUE))
    BY <1>10 DEF SendMistaken
  <2>2. CASE AnswerTo(s, Message(s, c, TRUE))
    <3>0. c.prev \in Nat
      BY <1>3
    <3>1. Message(s, c, TRUE).content.prev \in Nat
      BY <3>0, MessageNames
    <3> QED
      BY <2>2, <3>1, AnswerKeeps
  <2>3. CASE \E x \in MistakenEvents(c) : AnswerTo(s, Message(s, x, FALSE))
    <3>1. PICK x \in MistakenEvents(c) : AnswerTo(s, Message(s, x, FALSE))
      BY <2>3
    <3>2. x.prev \in Nat
      BY <1>3
    <3>3. Message(s, x, FALSE).content.prev \in Nat
      BY <3>2, MessageNames
    <3> DEFINE m == Message(s, x, FALSE)
    <3> HIDE DEF m
    <3>4. m.content.prev \in Nat /\ AnswerTo(s, m)
      BY <3>1, <3>3 DEF m
    <3> QED
      BY <3>4, AnswerKeeps
  <2> QED
    BY <2>1, <2>2, <2>3
<1>11. CASE SendFails(s)
  <2>1. PICK c \in Events(s) : Unacknowledged(Message(s, c, FALSE))
    BY <1>11 DEF SendFails
  <2>0. c.prev \in Nat
    BY <1>3
  <2>2. Message(s, c, FALSE).content.prev \in Nat
    BY <2>0, MessageNames
  <2>3. UNCHANGED <<receipts, tip, captures>>
    BY <1>11 DEF SendFails
  <2> QED
    BY <2>1, <2>2, <2>3, LossKeeps
<1>12. CASE Probe(s)
  BY <1>12, SameKept DEF Probe
<1> QED
  BY <1>4, <1>5, <1>6, <1>7, <1>8, <1>9, <1>10, <1>11, <1>12

LEMMA LateArrivalKeeps ==
  ASSUME ReceiptsInv, RoomInv, LateArrival
  PROVE  ReceiptsInv' /\ RoomInv'
<1>1. PICK m \in inflight : Arrives(m)
  BY DEF LateArrival
<1>2. m.content.prev \in Nat /\ UNCHANGED <<receipts, tip, captures>>
  BY DEF LateArrival, RoomInv
<1> QED
  BY <1>1, <1>2, LossKeeps

\* A replaced container, a tree put back or an edited source touch neither receipts nor room.
LEMMA SurroundingsKeep ==
  ASSUME ReceiptsInv, RoomInv,
         \/ \E a \in Workers, tree \in {Bound, OtherTree} : Provision(a, tree)
         \/ \E a \in Actors, image \in {Locked, Upgraded} : Recreate(a, image)
         \/ EditSource
  PROVE  ReceiptsInv' /\ RoomInv'
<1>1. UNCHANGED <<receipts, matrix, tip, captures>>
  BY DEF Provision, Recreate, EditSource
<1> QED
  BY <1>1, SameKept

\* The published record is the last thing a run does, and nothing else publishes one.
LEMMA PublishedLast ==
  ASSUME Next
  PROVE  published = {} /\ (published' = published \/ Publish)
<1>1. CASE \E s \in DOMAIN Plan :
             \/ ExecuteRole(s) \/ ExecuteMistaken(s) \/ ExecutionKilled(s) \/ Adopt(s)
             \/ \E a \in Workers : ExecuteElsewhere(s, a)
  BY <1>1 DEF ExecuteRole, ExecuteMistaken, ExecutionKilled, Adopt, ExecuteElsewhere, Executes
<1>2. CASE \E s \in DOMAIN Plan : Send(s) \/ SendMistaken(s)
  <2>1. PICK s \in DOMAIN Plan : Send(s) \/ SendMistaken(s)
    BY <1>2
  <2>2. CASE Send(s)
    BY <2>2, Zenon DEF Send, AnswerTo
  <2>3. CASE SendMistaken(s)
    BY <2>3, Zenon DEF SendMistaken, AnswerTo
  <2> QED
    BY <2>1, <2>2, <2>3
<1>3. CASE \E s \in DOMAIN Plan : SendFails(s) \/ Probe(s)
  BY <1>3 DEF SendFails, Probe
<1>4. CASE \/ \E a \in Workers, tree \in {Bound, OtherTree} : Provision(a, tree)
           \/ \E a \in Actors, image \in {Locked, Upgraded} : Recreate(a, image)
           \/ EditSource
  BY <1>4 DEF Provision, Recreate, EditSource
<1>5. CASE LateArrival \/ Publish
  BY <1>5 DEF LateArrival, Publish
<1> QED
  BY <1>1, <1>2, <1>3, <1>4, <1>5, Zenon DEF Next

-------------------------------------------------------------------------------

RunInv == ReceiptsInv /\ RoomInv /\ Told

LEMMA RunInit == Init => RunInv
<1> SUFFICES ASSUME Init PROVE RunInv
  OBVIOUS
<1>1. ReceiptsInv
  BY LeftoverAssumption DEF Init, ReceiptsInv, Filed, IsSeq
<1>2. RoomInv
  BY NothingIsSeq, FS_EmptySet DEF Init, MatrixInit, RoomInv
<1>3. Told
  BY DEF Init, Told
<1> QED
  BY <1>1, <1>2, <1>3 DEF RunInv

LEMMA RunStep == RunInv /\ [Next]_vars => RunInv'
<1> SUFFICES ASSUME RunInv, [Next]_vars PROVE RunInv'
  OBVIOUS
<1>1. CASE Next
  <2>1. ReceiptsInv' /\ RoomInv'
    BY <1>1, StepKeeps, SurroundingsKeep, LateArrivalKeeps, PublishKeeps DEF Next, RunInv
  <2>2. Told'
    <3>1. CASE Publish
      BY <3>1, PublishKeeps DEF RunInv
    <3>2. CASE published' = {}
      BY <3>2 DEF Told
    <3> QED
      BY <1>1, <3>1, <3>2, PublishedLast
  <2> QED
    BY <2>1, <2>2 DEF RunInv
<1>2. CASE UNCHANGED vars
  <2>1. UNCHANGED <<receipts, matrix, tip, captures, source, container, published>>
    BY <1>2 DEF vars, matrix
  <2>2. ReceiptsInv' /\ RoomInv'
    BY <2>1, SameKept DEF RunInv
  <2>3. Told'
    BY <2>1 DEF Told, RunInv, LastTo, TestedFor, DecidedFor, HeardFor, matrix
  <2> QED
    BY <2>2, <2>3 DEF RunInv
<1> QED
  BY <1>1, <1>2

\* Every receipt the operator holds was made by the role tool, after the executions it consumed,
\* and is known by its digest; every message of the room names an event before it was asked for;
\* and what the checks of the validator imply is so of what was published.
THEOREM LiveRunInvariant == Spec => []RunInv
<1> QED
  BY RunInit, RunStep, PTL DEF Spec

\* persist_validated_live_evidence publishes only what was tested: every control execution listed
\* found the snapshot the proposals are about, byte for byte, and the candidate passes there.
THEOREM AlwaysTestedAsAttested == Spec => []TestedAsAttested
<1>1. RunInv => TestedAsAttested
  BY DEF RunInv, Told, TestedFor, TestedAsAttested
<1> QED
  BY <1>1, LiveRunInvariant, PTL

\* ... only executions of this session and source tree, the Release Manager's after those of every
\* control helper, although the validator compares no times of receipts.
THEOREM AlwaysDecidedLast == Spec => []DecidedLast
<1>1. RunInv => DecidedLast
  BY DEF RunInv, Told, LastTo, DecidedLast
<1> QED
  BY <1>1, LiveRunInvariant, PTL

\* ... executions each announced by exactly one event of the record, and captures that say what
\* stands in the room, whatever was lost, repeated or late.
THEOREM AlwaysOneVoice == Spec => []OneVoice
<1>1. RunInv => OneVoice
  BY DEF RunInv, Told, HeardFor, OneVoice
<1> QED
  BY <1>1, LiveRunInvariant, PTL

\* ... a decision on exactly the proposals and attestations of the executions it consumed.
THEOREM AlwaysDecidedOnWhatItConsumed == Spec => []DecidedOnWhatItConsumed
<1>1. RunInv => DecidedOnWhatItConsumed
  BY DEF RunInv, Told, DecidedFor, DecidedOnWhatItConsumed
<1> QED
  BY <1>1, LiveRunInvariant, PTL

-------------------------------------------------------------------------------
(* The plan.                                                               *)

\* The plan is put together from turns; its table is read off join by join.
Joined(p, q) == p \o q

\* p is a sequence of n elements.
Sized(p, n) == IsSeq(p) /\ n \in Nat /\ Len(p) = n

\* u is p, of m elements, and then q, of n.
Continues(u, p, m, q, n) ==
  /\ Sized(u, m + n)
  /\ \A i \in 1 .. m : u[i] = p[i]
  /\ \A i \in 1 .. n : u[m + i] = q[i]

\* A joined sequence has the elements of both, in order.
LEMMA JoinedTable ==
  ASSUME NEW p, NEW q, NEW m, NEW n, Sized(p, m), Sized(q, n)
  PROVE  Continues(Joined(p, q), p, m, q, n)
<1>1. PICK S : p \in Seq(S)
  BY DEF IsSeq, Sized
<1>2. PICK T : q \in Seq(T)
  BY DEF IsSeq, Sized
<1>3. p \in Seq(S \union T) /\ q \in Seq(S \union T)
  BY <1>1, <1>2
<1>4. p \o q \in Seq(S \union T)
  BY <1>3
<1>5. IsSeq(p \o q)
  BY <1>4 DEF IsSeq
<1> QED
  BY <1>3, <1>5 DEF Sized, Joined, Continues

\* Tuples are sequences.
LEMMA TupleTable ==
  /\ \A x : Sized(<<x>>, 1)
  /\ \A x, y : Sized(<<x, y>>, 2)
  /\ \A x, y, z : Sized(<<x, y, z>>, 3)
<1>1. ASSUME NEW x PROVE Sized(<<x>>, 1)
  <2>1. <<x>> \in Seq({x})
    OBVIOUS
  <2> QED
    BY <2>1 DEF IsSeq, Sized
<1>2. ASSUME NEW x, NEW y PROVE Sized(<<x, y>>, 2)
  <2>1. <<x, y>> \in Seq({x, y})
    OBVIOUS
  <2> QED
    BY <2>1 DEF IsSeq, Sized
<1>3. ASSUME NEW x, NEW y, NEW z PROVE Sized(<<x, y, z>>, 3)
  <2>1. <<x, y, z>> \in Seq({x, y, z})
    OBVIOUS
  <2> QED
    BY <2>1 DEF IsSeq, Sized
<1> QED
  BY <1>1, <1>2, <1>3

\* The role of the helper each Worker runs.
LEMMA OperationTable ==
  /\ Operation["rf-proposer-a"] = "proposer" /\ Operation["rf-proposer-b"] = "proposer"
  /\ Operation["rf-verifier"] = "verifier" /\ Operation["rf-verifier-b"] = "verifier"
  /\ Operation["rf-lead"] = "reviewer" /\ Operation["rf-challenger"] = "challenger"
  /\ Operation["rf-governor"] = "governor" /\ Operation["rf-release-manager"] = "release_manager"
<1>1. \A a \in Workers \ Proposers :
        Operation[a] = IF a = "rf-lead" THEN "reviewer"
                       ELSE IF a = "rf-release-manager" THEN "release_manager" ELSE MEMBERS[a]
  BY DEF Operation
<1>2. /\ MEMBERS["rf-verifier"] = "verifier" /\ MEMBERS["rf-verifier-b"] = "verifier"
      /\ MEMBERS["rf-challenger"] = "challenger" /\ MEMBERS["rf-governor"] = "governor"
  BY DEF MEMBERS
<1>3. \A a \in Workers : a \in Proposers => Operation[a] = "proposer"
  BY WhoProposes DEF Operation
<1>4. Proposers \subseteq Workers
  BY DEF Workers
<1> QED
  BY <1>1, <1>2, <1>3, <1>4, WhoControls, WhoProposes

\* The plan, step by step.
LEMMA PlanTable ==
  /\ DOMAIN Plan = 1 .. 24
  /\ Plan[1] = Announce("delegate", "manager")
  /\ Plan[2] = Execute("proposer", "rf-proposer-a")
  /\ Plan[3] = Announce("tool_execute", "rf-proposer-a")
  /\ Plan[4] = Announce("propose", "rf-proposer-a")
  /\ Plan[5] = Execute("proposer", "rf-proposer-b")
  /\ Plan[6] = Announce("tool_execute", "rf-proposer-b")
  /\ Plan[7] = Announce("propose", "rf-proposer-b")
  /\ Plan[8] = Execute("cloud_preflight", "rf-verifier")
  /\ Plan[9] = Announce("tool_execute", "rf-verifier")
  /\ Plan[10] = Execute("verifier", "rf-verifier")
  /\ Plan[11] = Announce("verify", "rf-verifier")
  /\ Plan[12] = Execute("verifier", "rf-verifier-b")
  /\ Plan[13] = Announce("verify", "rf-verifier-b")
  /\ Plan[14] = Execute("reviewer", "rf-lead")
  /\ Plan[15] = Announce("review", "rf-lead")
  /\ Plan[16] = Execute("challenger", "rf-challenger")
  /\ Plan[17] = Announce("challenge", "rf-challenger")
  /\ Plan[18] = Execute("governor", "rf-governor")
  /\ Plan[19] = Announce("govern", "rf-governor")
  /\ Plan[20] = Execute("release_manager", "rf-release-manager")
  /\ Plan[21] = Announce("decide", "rf-release-manager")
  /\ Plan[22] = [do |-> "probe", what |-> "acl", actor |-> "rf-lead"]
  /\ Plan[23] = [do |-> "probe", what |-> "gateway", actor |-> "manager"]
  /\ Plan[24] = Announce("relay", "manager")
<1> DEFINE p1 == <<Announce("delegate", "manager")>>
           q2 == ProposerTurn("rf-proposer-a")
           q3 == ProposerTurn("rf-proposer-b")
           q4 == <<Execute("cloud_preflight", "rf-verifier"),
                   Announce("tool_execute", "rf-verifier")>>
           q5 == Turn("rf-verifier")
           q6 == Turn("rf-verifier-b")
           q7 == Turn("rf-lead")
           q8 == Turn("rf-challenger")
           q9 == Turn("rf-governor")
           q10 == Turn("rf-release-manager")
           q11 == <<[do |-> "probe", what |-> "acl", actor |-> "rf-lead"],
                    [do |-> "probe", what |-> "gateway", actor |-> "manager"],
                    Announce("relay", "manager")>>
           p2 == Joined(p1, q2)
           p3 == Joined(p2, q3)
           p4 == Joined(p3, q4)
           p5 == Joined(p4, q5)
           p6 == Joined(p5, q6)
           p7 == Joined(p6, q7)
           p8 == Joined(p7, q8)
           p9 == Joined(p8, q9)
           p10 == Joined(p9, q10)
           p11 == Joined(p10, q11)
<1>1. Plan = p11
  BY DEF Plan, Joined
<1>2. Sized(p1, 1) /\ p1[1] = Announce("delegate", "manager")
  BY TupleTable
<1>3. \A a : LET t == ProposerTurn(a) IN
        /\ Sized(t, 3) /\ t[1] = Execute("proposer", a)
        /\ t[2] = Announce("tool_execute", a) /\ t[3] = Announce("propose", a)
  BY TupleTable DEF ProposerTurn
<1>4. \A a : LET t == Turn(a) IN
        /\ Sized(t, 2) /\ t[1] = Execute(Operation[a], a)
        /\ t[2] = Announce(Stage[Operation[a]], a)
  BY TupleTable DEF Turn
<1>5. /\ Sized(q4, 2) /\ q4[1] = Execute("cloud_preflight", "rf-verifier")
      /\ q4[2] = Announce("tool_execute", "rf-verifier")
  BY TupleTable
<1>6. /\ Sized(q11, 3)
      /\ q11[1] = [do |-> "probe", what |-> "acl", actor |-> "rf-lead"]
      /\ q11[2] = [do |-> "probe", what |-> "gateway", actor |-> "manager"]
      /\ q11[3] = Announce("relay", "manager")
  BY TupleTable
<1>7. /\ Stage["verifier"] = "verify" /\ Stage["reviewer"] = "review"
      /\ Stage["challenger"] = "challenge" /\ Stage["governor"] = "govern"
      /\ Stage["release_manager"] = "decide"
  BY DEF Stage
<1> HIDE DEF p1, q2, q3, q4, q5, q6, q7, q8, q9, q10, q11
<1> HIDE DEF p2, p3, p4, p5, p6, p7, p8, p9, p10, p11
<1>8. /\ Sized(p2, 4) /\ \A i \in 1 .. 1 : p2[i] = p1[i]
      /\ \A i \in 1 .. 3 : p2[1 + i] = q2[i]
  <2>1. Sized(p1, 1) /\ Sized(q2, 3)
    BY <1>2, <1>3 DEF q2
  <2>2. p2 = Joined(p1, q2)
    BY DEF p2
  <2>3. Continues(Joined(p1, q2), p1, 1, q2, 3)
    BY <2>1, JoinedTable
  <2>4. 1 + 3 = 4
    OBVIOUS
  <2> QED
    BY <2>2, <2>3, <2>4 DEF Continues
<1>9. /\ Sized(p3, 7) /\ \A i \in 1 .. 4 : p3[i] = p2[i]
      /\ \A i \in 1 .. 3 : p3[4 + i] = q3[i]
  <2>1. Sized(p2, 4) /\ Sized(q3, 3)
    BY <1>8, <1>3 DEF q3
  <2>2. p3 = Joined(p2, q3)
    BY DEF p3
  <2>3. Continues(Joined(p2, q3), p2, 4, q3, 3)
    BY <2>1, JoinedTable
  <2>4. 4 + 3 = 7
    OBVIOUS
  <2> QED
    BY <2>2, <2>3, <2>4 DEF Continues
<1>10. /\ Sized(p4, 9) /\ \A i \in 1 .. 7 : p4[i] = p3[i]
       /\ \A i \in 1 .. 2 : p4[7 + i] = q4[i]
  <2>1. Sized(p3, 7) /\ Sized(q4, 2)
    BY <1>9, <1>5
  <2>2. p4 = Joined(p3, q4)
    BY DEF p4
  <2>3. Continues(Joined(p3, q4), p3, 7, q4, 2)
    BY <2>1, JoinedTable
  <2>4. 7 + 2 = 9
    OBVIOUS
  <2> QED
    BY <2>2, <2>3, <2>4 DEF Continues
<1>11. /\ Sized(p5, 11) /\ \A i \in 1 .. 9 : p5[i] = p4[i]
       /\ \A i \in 1 .. 2 : p5[9 + i] = q5[i]
  <2>1. Sized(p4, 9) /\ Sized(q5, 2)
    BY <1>10, <1>4 DEF q5
  <2>2. p5 = Joined(p4, q5)
    BY DEF p5
  <2>3. Continues(Joined(p4, q5), p4, 9, q5, 2)
    BY <2>1, JoinedTable
  <2>4. 9 + 2 = 11
    OBVIOUS
  <2> QED
    BY <2>2, <2>3, <2>4 DEF Continues
<1>12. /\ Sized(p6, 13) /\ \A i \in 1 .. 11 : p6[i] = p5[i]
       /\ \A i \in 1 .. 2 : p6[11 + i] = q6[i]
  <2>1. Sized(p5, 11) /\ Sized(q6, 2)
    BY <1>11, <1>4 DEF q6
  <2>2. p6 = Joined(p5, q6)
    BY DEF p6
  <2>3. Continues(Joined(p5, q6), p5, 11, q6, 2)
    BY <2>1, JoinedTable
  <2>4. 11 + 2 = 13
    OBVIOUS
  <2> QED
    BY <2>2, <2>3, <2>4 DEF Continues
<1>13. /\ Sized(p7, 15) /\ \A i \in 1 .. 13 : p7[i] = p6[i]
       /\ \A i \in 1 .. 2 : p7[13 + i] = q7[i]
  <2>1. Sized(p6, 13) /\ Sized(q7, 2)
    BY <1>12, <1>4 DEF q7
  <2>2. p7 = Joined(p6, q7)
    BY DEF p7
  <2>3. Continues(Joined(p6, q7), p6, 13, q7, 2)
    BY <2>1, JoinedTable
  <2>4. 13 + 2 = 15
    OBVIOUS
  <2> QED
    BY <2>2, <2>3, <2>4 DEF Continues
<1>14. /\ Sized(p8, 17) /\ \A i \in 1 .. 15 : p8[i] = p7[i]
       /\ \A i \in 1 .. 2 : p8[15 + i] = q8[i]
  <2>1. Sized(p7, 15) /\ Sized(q8, 2)
    BY <1>13, <1>4 DEF q8
  <2>2. p8 = Joined(p7, q8)
    BY DEF p8
  <2>3. Continues(Joined(p7, q8), p7, 15, q8, 2)
    BY <2>1, JoinedTable
  <2>4. 15 + 2 = 17
    OBVIOUS
  <2> QED
    BY <2>2, <2>3, <2>4 DEF Continues
<1>15. /\ Sized(p9, 19) /\ \A i \in 1 .. 17 : p9[i] = p8[i]
       /\ \A i \in 1 .. 2 : p9[17 + i] = q9[i]
  <2>1. Sized(p8, 17) /\ Sized(q9, 2)
    BY <1>14, <1>4 DEF q9
  <2>2. p9 = Joined(p8, q9)
    BY DEF p9
  <2>3. Continues(Joined(p8, q9), p8, 17, q9, 2)
    BY <2>1, JoinedTable
  <2>4. 17 + 2 = 19
    OBVIOUS
  <2> QED
    BY <2>2, <2>3, <2>4 DEF Continues
<1>16. /\ Sized(p10, 21) /\ \A i \in 1 .. 19 : p10[i] = p9[i]
       /\ \A i \in 1 .. 2 : p10[19 + i] = q10[i]
  <2>1. Sized(p9, 19) /\ Sized(q10, 2)
    BY <1>15, <1>4 DEF q10
  <2>2. p10 = Joined(p9, q10)
    BY DEF p10
  <2>3. Continues(Joined(p9, q10), p9, 19, q10, 2)
    BY <2>1, JoinedTable
  <2>4. 19 + 2 = 21
    OBVIOUS
  <2> QED
    BY <2>2, <2>3, <2>4 DEF Continues
<1>17. /\ Sized(p11, 24) /\ \A i \in 1 .. 21 : p11[i] = p10[i]
       /\ \A i \in 1 .. 3 : p11[21 + i] = q11[i]
  <2>1. Sized(p10, 21) /\ Sized(q11, 3)
    BY <1>16, <1>6
  <2>2. p11 = Joined(p10, q11)
    BY DEF p11
  <2>3. Continues(Joined(p10, q11), p10, 21, q11, 3)
    BY <2>1, JoinedTable
  <2>4. 21 + 3 = 24
    OBVIOUS
  <2> QED
    BY <2>2, <2>3, <2>4 DEF Continues
<1>18. /\ p11[1] = p1[1]
       /\ p11[2] = q2[1] /\ p11[3] = q2[2] /\ p11[4] = q2[3]
       /\ p11[5] = q3[1] /\ p11[6] = q3[2] /\ p11[7] = q3[3]
       /\ p11[8] = q4[1] /\ p11[9] = q4[2]
  BY <1>8, <1>9, <1>10, <1>11, <1>12, <1>13, <1>14, <1>15, <1>16, <1>17
<1>19. /\ p11[10] = q5[1] /\ p11[11] = q5[2] /\ p11[12] = q6[1] /\ p11[13] = q6[2]
       /\ p11[14] = q7[1] /\ p11[15] = q7[2] /\ p11[16] = q8[1] /\ p11[17] = q8[2]
       /\ p11[18] = q9[1] /\ p11[19] = q9[2] /\ p11[20] = q10[1] /\ p11[21] = q10[2]
       /\ p11[22] = q11[1] /\ p11[23] = q11[2] /\ p11[24] = q11[3]
  BY <1>11, <1>12, <1>13, <1>14, <1>15, <1>16, <1>17
<1>20. /\ q2[1] = Execute("proposer", "rf-proposer-a")
       /\ q2[2] = Announce("tool_execute", "rf-proposer-a")
       /\ q2[3] = Announce("propose", "rf-proposer-a")
       /\ q3[1] = Execute("proposer", "rf-proposer-b")
       /\ q3[2] = Announce("tool_execute", "rf-proposer-b")
       /\ q3[3] = Announce("propose", "rf-proposer-b")
  BY <1>3 DEF q2, q3
<1>21. /\ q5[1] = Execute("verifier", "rf-verifier") /\ q5[2] = Announce("verify", "rf-verifier")
       /\ q6[1] = Execute("verifier", "rf-verifier-b")
       /\ q6[2] = Announce("verify", "rf-verifier-b")
       /\ q7[1] = Execute("reviewer", "rf-lead") /\ q7[2] = Announce("review", "rf-lead")
  BY <1>4, <1>7, OperationTable DEF q5, q6, q7
<1>22. /\ q8[1] = Execute("challenger", "rf-challenger")
       /\ q8[2] = Announce("challenge", "rf-challenger")
       /\ q9[1] = Execute("governor", "rf-governor") /\ q9[2] = Announce("govern", "rf-governor")
       /\ q10[1] = Execute("release_manager", "rf-release-manager")
       /\ q10[2] = Announce("decide", "rf-release-manager")
  BY <1>4, <1>7, OperationTable DEF q8, q9, q10
<1>23. DOMAIN p11 = 1 .. 24
  BY <1>17 DEF IsSeq, Sized
<1> QED
  BY <1>1, <1>2, <1>5, <1>6, <1>23, <1>18, <1>19, <1>20, <1>21, <1>22

\* The steps that execute a role, and those that announce an event.
Executing == {2, 5, 8, 10, 12, 14, 16, 18, 20}

Announcing == {1, 3, 4, 6, 7, 9, 11, 13, 15, 17, 19, 21, 24}

\* The steps of each kind, by number.
LEMMA StepKinds ==
  /\ \A s \in DOMAIN Plan : Plan[s].do = "execute" <=> s \in Executing
  /\ \A s \in DOMAIN Plan : Plan[s].do = "announce" <=> s \in Announcing
  /\ \A s \in DOMAIN Plan : Plan[s].do = "probe" <=> s \in {22, 23}
<1>1. \A s \in Executing : s \in DOMAIN Plan /\ Plan[s].do = "execute"
  BY PlanTable DEF Execute, Executing
<1>2. \A s \in Announcing : s \in DOMAIN Plan /\ Plan[s].do = "announce"
  BY PlanTable DEF Announce, Announcing
<1>3. \A s \in {22, 23} : s \in DOMAIN Plan /\ Plan[s].do = "probe"
  BY PlanTable
<1>4. \A s \in DOMAIN Plan : s \in Executing \/ s \in Announcing \/ s \in {22, 23}
  BY PlanTable DEF Executing, Announcing
<1> QED
  BY <1>1, <1>2, <1>3, <1>4

\* Each Worker executes each tool once, and announces each stage once.
LEMMA ExecutedOnce ==
  ASSUME NEW s \in Executing, NEW u \in Executing, Plan[s].actor = Plan[u].actor,
         Tool(Plan[s].what) = Tool(Plan[u].what)
  PROVE  s = u
<1>1. /\ Tool("proposer") = "skill" /\ Tool("cloud_preflight") = "cloud"
      /\ \A r \in {"verifier", "reviewer", "challenger", "governor", "release_manager"} :
           Tool(r) = "role"
  BY DEF Tool
<1>2. \A i \in Executing : Plan[i].actor =
        CASE i = 2 -> "rf-proposer-a" [] i = 5 -> "rf-proposer-b" [] i = 8 -> "rf-verifier"
          [] i = 10 -> "rf-verifier" [] i = 12 -> "rf-verifier-b" [] i = 14 -> "rf-lead"
          [] i = 16 -> "rf-challenger" [] i = 18 -> "rf-governor" [] i = 20 -> "rf-release-manager"
  BY PlanTable DEF Executing, Execute
<1>3. Tool(Plan[8].what) = "cloud" /\ Tool(Plan[10].what) = "role"
  BY <1>1, PlanTable DEF Execute
<1> QED
  BY <1>2, <1>3 DEF Executing

\* An actor announces a stage in one step of the plan.
LEMMA AnnouncedInOneStep ==
  ASSUME NEW s \in Announcing, NEW u \in Announcing, Plan[s].actor = Plan[u].actor,
         Plan[s].what = Plan[u].what
  PROVE  s = u
<1>1. \A i \in Announcing : Plan[i].actor =
        CASE i = 1 -> "manager" [] i = 3 -> "rf-proposer-a" [] i = 4 -> "rf-proposer-a"
          [] i = 6 -> "rf-proposer-b" [] i = 7 -> "rf-proposer-b" [] i = 9 -> "rf-verifier"
          [] i = 11 -> "rf-verifier" [] i = 13 -> "rf-verifier-b" [] i = 15 -> "rf-lead"
          [] i = 17 -> "rf-challenger" [] i = 19 -> "rf-governor"
          [] i = 21 -> "rf-release-manager" [] i = 24 -> "manager"
  BY PlanTable DEF Announcing, Announce
<1>2. /\ Plan[1].what = "delegate" /\ Plan[24].what = "relay"
      /\ Plan[3].what = "tool_execute" /\ Plan[4].what = "propose"
      /\ Plan[6].what = "tool_execute" /\ Plan[7].what = "propose"
      /\ Plan[9].what = "tool_execute" /\ Plan[11].what = "verify"
  BY PlanTable DEF Announce
<1> QED
  BY <1>1, <1>2 DEF Announcing

-------------------------------------------------------------------------------
(* A run without mistakes.                                                 *)

\* The container an actor runs in when none was replaced.
Home(a) == [actor |-> a, incarnation |-> 1, image |-> Locked]

\* The candidate of the recovery skill, and the proposal it makes of it for a Worker.
Repairing == Propose(Bound)

Proposing(a) == Issue([actor |-> a, run |-> ThisRun, snapshot |-> Bound], Repairing)

\* The proposals both proposers come to.
Agreed == {Proposing(a) : a \in Proposers}

AgreedDigests == {ProposalDigest(p) : p \in Agreed}

\* The executions whose receipts the Release Manager consumes, and those that attest.
Controlling == {10, 12, 14, 16, 18}

Attesting == {10, 12, 16, 18}

\* The attestation of step s in receipt n.
Attestation(s, n) ==
  Attest([role |-> Plan[s].what, actor |-> Plan[s].actor, run |-> ThisRun, snapshot |-> Bound,
          candidate |-> Repairing], Staged(Bound, Repairing), n)

\* The digest of receipt n.
Ran(n) == <<"execution", n>>

\* Below, f[s] is the receipt of step s, and h[s] its event.
Consumes(f, s) ==
  CASE s \in {2, 5} -> {}
    [] s = 10 -> AgreedDigests \union {Ran(f[8])}
    [] s = 20 -> AgreedDigests \union {Ran(f[x]) : x \in Controlling}
    [] OTHER -> AgreedDigests

\* What the control executions attest.
Testimony(f) == {Attestation(x, f[x]) : x \in Attesting}

\* r is the receipt step s is to have.
Owed(f, s, r) ==
  /\ r.actor = Plan[s].actor /\ r.tool = Tool(Plan[s].what)
  /\ r.container = Home(Plan[s].actor) /\ r.session = Session /\ r.source = 0 /\ r.run = ThisRun
  /\ r.exit = (IF s = 8 THEN 2 ELSE 0)
  /\ r.in = Consumes(f, s)
  /\ s \in {2, 5} => Bound.service \in Text /\ r.says = {Proposing(Plan[s].actor)}
  /\ s \notin {2, 5} => r.candidate = Repairing /\ r.snapshot = Bound
  /\ s \in Attesting => Repairing.old # Repairing.new /\ r.says = {Attestation(s, f[s])}
  /\ s = 20 => r.proposals = Agreed /\ r.attestations = Testimony(f) /\ r.decision = "release"

\* Of each step done there is the receipt owed, and no other of this session.
Kept(f) ==
  /\ \A i \in DOMAIN receipts : receipts[i].id = i
  /\ \A s \in Executing :
       Made(Plan[s].actor, Tool(Plan[s].what)) = IF s \in done THEN {f[s]} ELSE {}
  /\ \A s \in Executing \intersect done : f[s] \in DOMAIN receipts /\ Owed(f, s, receipts[f[s]])

\* The announcement before step s, and the event step s names.
Prior(s) == IF s = 24 THEN 21 ELSE IF s \in {1, 4, 7} THEN s - 1 ELSE s - 2

Named(h, s) == IF s = 1 THEN 0 ELSE h[Prior(s)]

\* What the event of step s consumes and what it announces.
TellsIn(f, s) ==
  CASE s = 1 -> {}
    [] s \in {3, 6} -> {TaskDigest(ThisRun)}
    [] s \in {4, 7} -> {Ran(f[s - 2])}
    [] s = 24 -> {Ran(f[20])}
    [] OTHER -> Consumes(f, s - 1)

TellsOut(f, s) ==
  CASE s = 1 -> TaskDigest(ThisRun)
    [] s \in {4, 7} -> ProposalDigest(Proposing(Plan[s].actor))
    [] s = 24 -> NoReceipt
    [] OTHER -> Ran(f[s - 1])

\* The event of step s, and what its sender captures.
Telling(f, h, s) ==
  [actor |-> Plan[s].actor, stage |-> Plan[s].what, run |-> ThisRun, session |-> Session,
   prev |-> Named(h, s), in |-> TellsIn(f, s), out |-> TellsOut(f, s),
   decision |-> IF s = 21 THEN "release" ELSE NoDecision]

Heard(f, h, s) ==
  [event |-> h[s], container |-> Home(Plan[s].actor), content |-> Telling(f, h, s)]

\* The event of each step done is in the room, after the one it names, and the tip is the event
\* the next one will name.
Spoken(f, h) ==
  /\ \A s \in Announcing \intersect done :
       /\ h[s] \in DOMAIN room /\ room[h[s]].content = Telling(f, h, s)
       /\ s # 1 => h[Prior(s)] < h[s]
  /\ tip \in 0 .. Len(room)
  /\ \A s \in Announcing \ done : Prior(s) \in done \union {0} => tip = Named(h, s)
  /\ captures = {Heard(f, h, s) : s \in Announcing \intersect done}

\* The request of step s.
Asks(f, h, s) == Message(s, Telling(f, h, s), FALSE)

\* A request of a Worker that is not done yet is the one due.
Wanted(f, h, m) ==
  m.actor # "manager" =>
    \/ m.txn[1] \in done
    \/ /\ m.txn[1] \in Announcing /\ Due(m.txn[1])
       /\ m = Asks(f, h, m.txn[1])

\* What is under way, or in the room without an answer, is no obstacle: it is of a step done, or
\* it is the very request of the step due, and it came after the tip.
Asked(f, h) ==
  /\ \A m \in inflight : Wanted(f, h, m)
  /\ \A i \in DOMAIN room :
       /\ Wanted(f, h, room[i])
       /\ room[i].actor # "manager" /\ room[i].txn[1] \notin done => i > tip

\* The probes made are recorded.
Probed ==
  \A s \in {22, 23} \intersect done :
    [kind |-> Plan[s].what, session |-> Session, run |-> ThisRun,
     container |-> Home(Plan[s].actor)] \in probes

\* The steps done are the first ones.
InTurn == done \subseteq 1 .. 24 /\ \A s \in done : \A u \in 1 .. (s - 1) : u \in done

\* The run is as it was meant.
Steady(f, h) ==
  /\ container = [a \in Actors |-> Home(a)] /\ source = 0
  /\ InTurn /\ Kept(f) /\ Spoken(f, h) /\ Asked(f, h) /\ Probed

-------------------------------------------------------------------------------
(* The gate releases on what such a run gives it.                          *)

\* The size of a pair.
LEMMA PairSize ==
  ASSUME NEW x, NEW y, x # y
  PROVE  Cardinality({x, y}) = 2 /\ IsFiniteSet({x, y})
<1>1. IsFiniteSet({x}) /\ Cardinality({x}) = 1
  BY FS_Singleton
<1>2. {x, y} = {x} \union {y} /\ y \notin {x}
  OBVIOUS
<1>3. IsFiniteSet({x} \union {y}) /\ Cardinality({x} \union {y}) = Cardinality({x}) + 1
  BY <1>1, <1>2, FS_AddElement
<1> QED
  BY <1>1, <1>2, <1>3

\* The cardinality the instance of the rule counts with.
LEMMA GateCounts ==
  ASSUME NEW S
  PROVE  Gate!Cardinality(S) = Cardinality(S)
BY DEF Cardinality, Gate!Cardinality

\* What both proposals say.
LEMMA AgreedSays ==
  ASSUME NEW p \in Agreed
  PROVE  /\ p.actor \in Proposers /\ p.role = "worker" /\ p.run = ThisRun /\ p.snapshot = Bound
         /\ p.patch = Repairing /\ p.claimed = Repairing
BY DEF Agreed, Proposing, Issue

\* Who attests in step x, and as what.
LEMMA AttestingTable ==
  /\ \A x \in Attesting : Plan[x].actor \in DOMAIN MEMBERS /\ Plan[x].what = MEMBERS[Plan[x].actor]
                          /\ Plan[x].what \in Staging
  /\ \A x, y \in Attesting : Plan[x].actor = Plan[y].actor => x = y
  /\ Plan[10].actor = "rf-verifier" /\ Plan[12].actor = "rf-verifier-b"
  /\ Plan[16].actor = "rf-challenger" /\ Plan[18].actor = "rf-governor"
<1>1. /\ Plan[10].actor = "rf-verifier" /\ Plan[10].what = "verifier"
      /\ Plan[12].actor = "rf-verifier-b" /\ Plan[12].what = "verifier"
      /\ Plan[16].actor = "rf-challenger" /\ Plan[16].what = "challenger"
      /\ Plan[18].actor = "rf-governor" /\ Plan[18].what = "governor"
  BY PlanTable DEF Execute
<1>2. /\ DOMAIN MEMBERS = {"rf-proposer-a", "rf-proposer-b", "rf-verifier", "rf-verifier-b",
                           "rf-challenger", "rf-governor", "rf-release-manager"}
      /\ MEMBERS["rf-verifier"] = "verifier" /\ MEMBERS["rf-verifier-b"] = "verifier"
      /\ MEMBERS["rf-challenger"] = "challenger" /\ MEMBERS["rf-governor"] = "governor"
  BY DEF MEMBERS
<1> QED
  BY <1>1, <1>2 DEF Attesting, Staging

\* Each attestation approves the candidate of the skill, on sound evidence of its kind.
LEMMA Vouched ==
  ASSUME Repairable, Bound.service \in Text, NEW x \in Attesting, NEW n \in Nat
  PROVE  LET a == Attestation(x, n) IN
         /\ a.actor = Plan[x].actor /\ a.role = Plan[x].what /\ a.verdict = "approve"
         /\ a.claimed = a.binding
         /\ a.binding.run = ThisRun /\ a.binding.snapshot = Bound
         /\ a.binding.candidate = Repairing
         /\ a.binding.kind = Gate!EXPECTED_EVIDENCE[Plan[x].what]
         /\ Gate!AttestationIntegrity(a)
         /\ a.binding.artifact.passed /\ ~a.binding.artifact.risk
<1> DEFINE tested == Staged(Bound, Repairing)
           p == [role |-> Plan[x].what, actor |-> Plan[x].actor, run |-> ThisRun,
                 snapshot |-> Bound, candidate |-> Repairing]
           a == Attestation(x, n)
<1>1. /\ a = Attest(p, tested, n)
      /\ p.role = Plan[x].what /\ p.actor = Plan[x].actor /\ p.run = ThisRun
      /\ p.snapshot = Bound /\ p.candidate = Repairing
  BY DEF Attestation
<1>2. SuitesPass(tested) /\ NegativeControlHolds(Bound) /\ Repairing \notin Refused /\ Repairing \notin Risky
  BY DEF Repairable, Repairing
<1>3. Bound \in Tree /\ ThisRun \in Run /\ ThisRun # NoRun
  BY AgentTeamsRunAssumption, RoleToolAssumption
<1>4. Repairing \in Candidate
  BY RoleToolAssumption DEF Repairing, Propose, Candidate
<1>5. tested \in Tree
  BY <1>3, <1>4 DEF Staged, Tree, Candidate
<1>6. NegativeControlHolds(tested)
  BY <1>2, <1>3 DEF NegativeControlHolds, Staged, Tree
<1>7. Plan[x].what \in Staging /\ Plan[x].actor \in DOMAIN MEMBERS
  BY AttestingTable
<1> HIDE DEF tested, p, a
<1>8. Approves(p, tested)
  BY <1>1, <1>2, <1>6, <1>7 DEF Approves, Staging
<1>9. /\ a.actor = Plan[x].actor /\ a.role = Plan[x].what /\ a.verdict = "approve"
      /\ a.claimed = a.binding
      /\ a.binding.run = ThisRun /\ a.binding.snapshot = Bound /\ a.binding.candidate = Repairing
      /\ a.binding.kind = Gate!EXPECTED_EVIDENCE[Plan[x].what]
      /\ a.binding.artifact = Artifact(p, tested, n)
  BY <1>1, <1>8 DEF Attest
<1>10. Artifact(p, tested, n) \in [actor : DOMAIN MEMBERS, staged : Tree, passed : BOOLEAN,
                                   risk : BOOLEAN, stdout : Nat]
  BY <1>1, <1>5, <1>7 DEF Artifact, SuitesPass
<1>11. Artifact(p, tested, n).passed /\ ~Artifact(p, tested, n).risk
  BY <1>1, <1>2 DEF Artifact
<1>12. Gate!AttestationIntegrity(a)
  BY <1>3, <1>4, <1>9, <1>10, DigestAssumption DEF Gate!AttestationIntegrity, Gate!HasValidShape
<1> QED
  BY <1>9, <1>11, <1>12 DEF a

\* The request of the Release Manager.
Asking ==
  [run |-> ThisRun, snapshot |-> Bound, candidate |-> Repairing, actor |-> "rf-release-manager",
   role |-> "release-manager"]

\* The quorum rule releases on the proposals and attestations of such a run.
LEMMA GateReleases ==
  ASSUME Repairable, Bound.service \in Text, NEW f, \A x \in Attesting : f[x] \in Nat
  PROVE  Gate!Authorized(Asking, Agreed, Testimony(f))
<1> DEFINE q == Asking
           A == Testimony(f)
<1>1. /\ q.run = ThisRun /\ q.snapshot = Bound /\ q.candidate = Repairing
      /\ q.actor = "rf-release-manager" /\ q.role = "release-manager"
  BY DEF Asking
<1>2. Bound # NoDigest /\ ThisRun # NoRun
  BY AgentTeamsRunAssumption, RoleToolAssumption, DigestAssumption
<1>3. \A a \in Proposers : a \in DOMAIN MEMBERS /\ MEMBERS[a] = "worker"
  BY DEF Proposers
<1>4. "rf-release-manager" \in DOMAIN MEMBERS /\ MEMBERS["rf-release-manager"] = "release-manager"
  BY DEF MEMBERS
<1>5. \A a \in A : \E x \in Attesting : a = Attestation(x, f[x])
  BY DEF Testimony
<1>6. \A x \in Attesting : Attestation(x, f[x]) \in A
  BY DEF Testimony
<1> HIDE DEF q, A
<1>7. Gate!RequestObjections(q) = {}
  BY <1>1, <1>2, <1>4
     DEF Gate!RequestObjections, Gate!Raise, Gate!RequesterAllowed, Gate!Registered,
         Gate!ValidContext
<1>8. \A p \in Agreed : Gate!Registered(p) /\ Gate!ProposalIntegrity(p) /\ Gate!InRunContext(q, p)
  BY <1>1, <1>2, <1>3, AgreedSays DEF Gate!Registered, Gate!ProposalIntegrity, Gate!InRunContext
<1>9. Gate!WorkerProposals(Agreed) = Agreed
  BY <1>8, AgreedSays DEF Gate!WorkerProposals
<1>10. \A p \in Agreed : Gate!ProposalObjections(q, p) = {}
  BY <1>8 DEF Gate!ProposalObjections, Gate!Raise
<1>11. ~Gate!WorkerEquivocates(Agreed)
  BY <1>9, AgreedSays DEF Gate!WorkerEquivocates
<1>12. Cardinality(Gate!Endorsers(q, Agreed)) = 2
  <2>1. \A p \in Agreed : Gate!Endorses(q, p)
    BY <1>1, <1>8, AgreedSays DEF Gate!Endorses
  <2>2. \A a \in Proposers : \E p \in Agreed : p.actor = a
    <3>1. \A a : Proposing(a).actor = a
      BY DEF Proposing, Issue
    <3> QED
      BY <3>1 DEF Agreed
  <2>3. Gate!Endorsers(q, Agreed) = Proposers
    BY <1>9, <2>1, <2>2, AgreedSays DEF Gate!Endorsers
  <2> QED
    <3>1. Cardinality({"rf-proposer-a", "rf-proposer-b"}) = 2
      BY PairSize
    <3> QED
      BY <2>3, <3>1, WhoProposes
<1>13. Gate!WorkerObjections(q, Agreed) = {}
  <2>1. Gate!WorkerQuorumObjections(q, Agreed) = {}
    <3>1. ~(Cardinality(Gate!Endorsers(q, Agreed)) < 2)
      BY <1>12
    <3>2. Gate!WorkerQuorumObjections(q, Agreed)
            = (IF Gate!WorkerEquivocates(Agreed) THEN {"WORKER_EQUIVOCATION"} ELSE {})
                \union (IF Gate!Cardinality(Gate!Endorsers(q, Agreed)) < 2
                        THEN {"PROPOSAL_QUORUM_MISSING"} ELSE {})
      BY DEF Gate!WorkerQuorumObjections, Gate!Raise
    <3> QED
      BY <1>11, <3>1, <3>2, GateCounts
  <2> QED
    BY <1>9, <1>10, <2>1 DEF Gate!WorkerObjections
<1>14. \A a \in A : /\ a.actor \in DOMAIN MEMBERS /\ MEMBERS[a.actor] = a.role /\ a.role \in Staging
                    /\ a.verdict = "approve" /\ Gate!AttestationIntegrity(a)
                    /\ a.binding.run = ThisRun /\ a.binding.snapshot = Bound
                    /\ a.binding.candidate = Repairing
                    /\ a.binding.kind = Gate!EXPECTED_EVIDENCE[a.role]
  BY <1>5, Vouched, AttestingTable
<1>15. Gate!ControlRole = Staging
  BY DEF Gate!ControlRole, Gate!EXPECTED_EVIDENCE, Staging
<1>16. Gate!ControlAttestations(A) = A
  BY <1>14, <1>15 DEF Gate!ControlAttestations, Gate!Registered
<1>17. \A a \in A : Gate!Effective(q, a)
  BY <1>1, <1>14 DEF Gate!Effective, Gate!BoundTo, Gate!InRunContext
<1>18. \A a \in A : Gate!AttestationObjections(q, a) = {}
  BY <1>14, <1>17 DEF Gate!AttestationObjections, Gate!Effective, Gate!Raise
<1>19. ~Gate!ControlEquivocates(A)
  <2>1. \A a, b \in A : a.actor = b.actor => a = b
    BY <1>5, Vouched, AttestingTable
  <2> QED
    BY <2>1, <1>16 DEF Gate!ControlEquivocates
<1>20. \A r \in Gate!ControlRole : Cardinality(Gate!Approvers(q, A, r)) >= Gate!required[r]
  <2>1. \A r : \A a \in Gate!Approvers(q, A, r) : a \in DOMAIN MEMBERS /\ MEMBERS[a] = r
    BY <1>14, <1>16 DEF Gate!Approvers
  <2>2. \A x \in Attesting : Plan[x].actor \in Gate!Approvers(q, A, Plan[x].what)
    <3> SUFFICES ASSUME NEW x \in Attesting
                 PROVE  Plan[x].actor \in Gate!Approvers(q, A, Plan[x].what)
      OBVIOUS
    <3> DEFINE a == Attestation(x, f[x])
    <3>1. a \in A /\ a.actor = Plan[x].actor /\ a.role = Plan[x].what
      BY <1>6, Vouched
    <3> HIDE DEF a
    <3> QED
      BY <3>1, <1>14, <1>16, <1>17 DEF Gate!Approvers
  <2>3. /\ Gate!Approvers(q, A, "verifier") = {"rf-verifier", "rf-verifier-b"}
        /\ Gate!Approvers(q, A, "challenger") = {"rf-challenger"}
        /\ Gate!Approvers(q, A, "governor") = {"rf-governor"}
    <3>1. /\ Plan[10].what = "verifier" /\ Plan[12].what = "verifier"
          /\ Plan[16].what = "challenger" /\ Plan[18].what = "governor"
      BY PlanTable DEF Execute
    <3>2. /\ \A a \in DOMAIN MEMBERS : MEMBERS[a] = "verifier" => a \in {"rf-verifier", "rf-verifier-b"}
          /\ \A a \in DOMAIN MEMBERS : MEMBERS[a] = "challenger" => a = "rf-challenger"
          /\ \A a \in DOMAIN MEMBERS : MEMBERS[a] = "governor" => a = "rf-governor"
      BY DEF MEMBERS
    <3>3. /\ "rf-verifier" \in Gate!Approvers(q, A, "verifier")
          /\ "rf-verifier-b" \in Gate!Approvers(q, A, "verifier")
          /\ "rf-challenger" \in Gate!Approvers(q, A, "challenger")
          /\ "rf-governor" \in Gate!Approvers(q, A, "governor")
      <4>1. 10 \in Attesting /\ 12 \in Attesting /\ 16 \in Attesting /\ 18 \in Attesting
        BY DEF Attesting
      <4> QED
        BY <2>2, <3>1, <4>1, AttestingTable
    <3> QED
      BY <2>1, <3>2, <3>3
  <2>4. /\ Cardinality({"rf-verifier", "rf-verifier-b"}) = 2
        /\ Cardinality({"rf-challenger"}) = 1 /\ Cardinality({"rf-governor"}) = 1
    BY FS_Singleton, PairSize
  <2>5. /\ Gate!required["verifier"] = 2 /\ Gate!required["challenger"] = 1
        /\ Gate!required["governor"] = 1
    BY DEF Gate!required
  <2> QED
    BY <1>15, <2>3, <2>4, <2>5 DEF Staging
<1>21. \A r \in Gate!ControlRole : ~(Cardinality(Gate!Approvers(q, A, r)) < Gate!required[r])
  <2>1. \A r \in Staging : Gate!required[r] \in Nat
    BY DEF Gate!required, Staging
  <2>2. \A r : Gate!Approvers(q, A, r) \subseteq DOMAIN MEMBERS
    BY <1>14, <1>16 DEF Gate!Approvers
  <2>3. IsFiniteSet(DOMAIN MEMBERS)
    <3>1. DOMAIN MEMBERS = {"rf-proposer-a", "rf-proposer-b", "rf-verifier", "rf-verifier-b",
                            "rf-challenger", "rf-governor", "rf-release-manager"}
      BY DEF MEMBERS
    <3>3. /\ IsFiniteSet({"rf-proposer-a", "rf-proposer-b"})
          /\ IsFiniteSet({"rf-verifier", "rf-verifier-b"})
          /\ IsFiniteSet({"rf-challenger", "rf-governor"})
          /\ IsFiniteSet({"rf-release-manager"})
      BY PairSize, FS_Singleton
    <3>4. IsFiniteSet({"rf-proposer-a", "rf-proposer-b"} \union {"rf-verifier", "rf-verifier-b"})
      BY <3>3, FS_Union
    <3>5. IsFiniteSet({"rf-challenger", "rf-governor"} \union {"rf-release-manager"})
      BY <3>3, FS_Union
    <3>6. DOMAIN MEMBERS = ({"rf-proposer-a", "rf-proposer-b"} \union {"rf-verifier", "rf-verifier-b"})
                             \union ({"rf-challenger", "rf-governor"} \union {"rf-release-manager"})
      BY <3>1
    <3>7. IsFiniteSet(({"rf-proposer-a", "rf-proposer-b"} \union {"rf-verifier", "rf-verifier-b"})
                        \union ({"rf-challenger", "rf-governor"} \union {"rf-release-manager"}))
      BY <3>4, <3>5, FS_Union
    <3> QED
      BY <3>6, <3>7
  <2>4. \A r : Cardinality(Gate!Approvers(q, A, r)) \in Nat
    BY <2>2, <2>3, FS_Subset, FS_CardinalityType
  <2> SUFFICES ASSUME NEW r \in Gate!ControlRole
               PROVE  ~(Cardinality(Gate!Approvers(q, A, r)) < Gate!required[r])
    OBVIOUS
  <2>5. Gate!required[r] \in Nat /\ Cardinality(Gate!Approvers(q, A, r)) \in Nat
    BY <1>15, <2>1, <2>4
  <2>6. Cardinality(Gate!Approvers(q, A, r)) >= Gate!required[r]
    BY <1>20
  <2> QED
    BY <2>5, <2>6
<1>22. Gate!ControlObjections(q, A) = {}
  <2>1. Gate!ControlQuorumObjections(q, A) = {}
    <3>1. Gate!ControlQuorumObjections(q, A)
            = (IF Gate!ControlEquivocates(A) THEN {"CONTROL_EQUIVOCATION"} ELSE {})
                \union {Gate!QUORUM_MISSING[r] : r \in {x \in Gate!ControlRole :
                           Gate!Cardinality(Gate!Approvers(q, A, x)) < Gate!required[x]}}
      BY DEF Gate!ControlQuorumObjections, Gate!Raise
    <3> QED
      BY <1>19, <1>21, <3>1, GateCounts
  <2> QED
    BY <1>16, <1>18, <2>1 DEF Gate!ControlObjections
<1>23. Gate!Authorized(q, Agreed, A)
  BY <1>7, <1>13, <1>22 DEF Gate!Authorized, Gate!Blocking
<1> QED
  BY <1>23 DEF q, A

-------------------------------------------------------------------------------
(* What is due, and what it goes by.                                       *)

\* Of the steps not done the first is due, and no other.
LEMMA DueIs ==
  ASSUME InTurn, NEW s, Due(s)
  PROVE  /\ s \in 1 .. 24 /\ s \notin done
         /\ \A u \in 1 .. (s - 1) : u \in done
         /\ \A u \in done : u \in 1 .. 24 /\ u < s
         /\ \A v : Due(v) => v = s
<1>1. \A v : Due(v) => v \in 1 .. 24 /\ v \notin done /\ \A u \in 1 .. (v - 1) : u \in done
  BY PlanTable DEF Due
<1>2. \A u \in done : u \in 1 .. 24 /\ u < s
  <2> SUFFICES ASSUME NEW u \in done PROVE u \in 1 .. 24 /\ u < s
    OBVIOUS
  <2>1. u \in 1 .. 24 /\ \A v \in 1 .. (u - 1) : v \in done
    BY DEF InTurn
  <2> QED
    BY <1>1, <2>1
<1>3. \A v : Due(v) => v = s
  <2> SUFFICES ASSUME NEW v, Due(v) PROVE v = s
    OBVIOUS
  <2>1. v \in 1 .. 24 /\ s \in 1 .. 24 /\ ~(v < s) /\ ~(s < v)
    BY <1>1
  <2> QED
    BY <2>1
<1> QED
  BY <1>1, <1>2, <1>3

\* A step goes by the receipts of earlier steps, and names the event before it.
LEMMA GoesByEarlier ==
  ASSUME NEW f, NEW g
  PROVE  /\ \A s \in Executing :
              (\A x \in Executing : x < s => g[x] = f[x]) => Consumes(g, s) = Consumes(f, s)
         /\ \A s \in Executing : \A r :
              (\A x \in Executing : x <= s => g[x] = f[x]) => (Owed(g, s, r) <=> Owed(f, s, r))
         /\ \A s \in Announcing :
              (\A x \in Executing : x < s => g[x] = f[x])
                => TellsIn(g, s) = TellsIn(f, s) /\ TellsOut(g, s) = TellsOut(f, s)
<1>1. /\ \A s \in Executing : s \in 1 .. 20 /\ (s < 20 => s <= 18)
      /\ \A s \in Announcing : s \in 1 .. 24
      /\ Controlling \subseteq Executing /\ Attesting \subseteq Executing
      /\ \A x \in Controlling : x < 20 /\ \A y \in Attesting : y < 20
      /\ 8 \in Executing /\ 20 \in Executing
  BY DEF Executing, Announcing, Controlling, Attesting
<1>2. ASSUME NEW s \in Executing, \A x \in Executing : x < s => g[x] = f[x]
      PROVE  Consumes(g, s) = Consumes(f, s)
  <2>1. CASE s = 10
    <3>1. g[8] = f[8]
      BY <1>1, <1>2, <2>1
    <3> QED
      BY <2>1, <3>1 DEF Consumes
  <2>2. CASE s = 20
    <3>1. \A x \in Controlling : g[x] = f[x]
      BY <1>1, <1>2, <2>2
    <3> QED
      BY <2>2, <3>1 DEF Consumes
  <2>3. CASE s \notin {10, 20}
    BY <2>3 DEF Consumes
  <2> QED
    BY <2>1, <2>2, <2>3
<1>3. ASSUME NEW s \in Executing, NEW r, \A x \in Executing : x <= s => g[x] = f[x]
      PROVE  Owed(g, s, r) <=> Owed(f, s, r)
  <2>1. Consumes(g, s) = Consumes(f, s)
    BY <1>1, <1>2, <1>3
  <2>2. g[s] = f[s]
    BY <1>1, <1>3
  <2>3. s = 20 => Testimony(g) = Testimony(f)
    <3> SUFFICES ASSUME s = 20 PROVE Testimony(g) = Testimony(f)
      OBVIOUS
    <3>1. \A x \in Attesting : g[x] = f[x]
      BY <1>1, <1>3
    <3> QED
      BY <3>1 DEF Testimony
  <2> QED
    BY <2>1, <2>2, <2>3 DEF Owed
<1>4. ASSUME NEW s \in Announcing, \A x \in Executing : x < s => g[x] = f[x]
      PROVE  TellsIn(g, s) = TellsIn(f, s) /\ TellsOut(g, s) = TellsOut(f, s)
  <2>1. s \in {4, 7} => g[s - 2] = f[s - 2]
    BY <1>4 DEF Executing
  <2>2. s = 24 => g[20] = f[20]
    BY <1>4 DEF Executing
  <2>3. s \notin {1, 4, 7, 24} => s - 1 \in Executing /\ s - 1 < s
    BY DEF Executing, Announcing
  <2>4. s \notin {1, 4, 7, 24} => g[s - 1] = f[s - 1] /\ Consumes(g, s - 1) = Consumes(f, s - 1)
    <3> SUFFICES ASSUME s \notin {1, 4, 7, 24}
                 PROVE  g[s - 1] = f[s - 1] /\ Consumes(g, s - 1) = Consumes(f, s - 1)
      OBVIOUS
    <3>1. \A x \in Executing : x < s - 1 => g[x] = f[x]
      BY <1>1, <1>4
    <3> QED
      BY <1>2, <1>4, <2>3, <3>1
  <2>5. TellsIn(g, s) = TellsIn(f, s)
    BY <2>1, <2>2, <2>4 DEF TellsIn
  <2>6. TellsOut(g, s) = TellsOut(f, s)
    BY <2>4 DEF TellsOut
  <2> QED
    BY <2>5, <2>6
<1> QED
  BY <1>2, <1>3, <1>4

\* The tool and the actor of each execution.
LEMMA ToolTable ==
  /\ Tool(Plan[2].what) = "skill" /\ Tool(Plan[5].what) = "skill" /\ Tool(Plan[8].what) = "cloud"
  /\ \A x \in Controlling \union {20} : Tool(Plan[x].what) = "role"
  /\ Plan[2].actor = "rf-proposer-a" /\ Plan[5].actor = "rf-proposer-b"
  /\ Plan[8].actor = "rf-verifier" /\ Plan[10].actor = "rf-verifier"
  /\ Plan[12].actor = "rf-verifier-b" /\ Plan[14].actor = "rf-lead"
  /\ Plan[16].actor = "rf-challenger" /\ Plan[18].actor = "rf-governor"
  /\ Plan[20].actor = "rf-release-manager"
<1>1. /\ Tool("proposer") = "skill" /\ Tool("cloud_preflight") = "cloud"
      /\ \A r \in {"verifier", "reviewer", "challenger", "governor", "release_manager"} :
           Tool(r) = "role"
  BY DEF Tool
<1> QED
  BY <1>1, PlanTable DEF Execute, Controlling

\* The greatest element of a singleton.
LEMMA MaxOne ==
  ASSUME NEW n \in Nat \ {0}
  PROVE  Max({n}) = n
<1>1. Max({n}) \in {n}
  BY GreatestNat
<1> QED
  BY <1>1

\* The latest receipts the operator goes by are those of the steps done.
LEMMA LatestKept ==
  ASSUME ReceiptsInv, NEW f, Kept(f), NEW actors, NEW tool, NEW X, X \subseteq Executing \intersect done,
         \A x \in X : Plan[x].actor \in actors /\ Tool(Plan[x].what) = tool,
         \A a \in actors : \E x \in X : a = Plan[x].actor
  PROVE  Latest(actors, tool) = {receipts[f[x]] : x \in X}
<1>1. \A x \in X : Made(Plan[x].actor, tool) = {f[x]} /\ f[x] \in DOMAIN receipts
  BY DEF Kept
<1>2. DOMAIN receipts \subseteq Nat \ {0}
  BY DEF ReceiptsInv, Filed, IsSeq
<1>3. \A x \in X : Made(Plan[x].actor, tool) # {} /\ Max(Made(Plan[x].actor, tool)) = f[x]
  BY <1>1, <1>2, MaxOne
<1>4. \A a \in actors : \E x \in X : a = Plan[x].actor /\ Made(a, tool) # {}
                                     /\ receipts[Max(Made(a, tool))] = receipts[f[x]]
  BY <1>3
<1>5. \A x \in X : \E a \in actors : Made(a, tool) # {}
                                     /\ receipts[Max(Made(a, tool))] = receipts[f[x]]
  BY <1>3
<1> QED
  BY <1>4, <1>5 DEF Latest

\* The digests of the receipts that are kept.
LEMMA DigestsKept ==
  ASSUME NEW f, Kept(f), NEW X, X \subseteq Executing \intersect done
  PROVE  Digests({receipts[f[x]] : x \in X}) = {Ran(f[x]) : x \in X}
<1>1. \A x \in X : Digest(receipts[f[x]]) = Ran(f[x])
  BY DEF Kept, Digest, Ran
<1> QED
  BY <1>1 DEF Digests

\* Once both proposers are through, the proposals at hand are the two that agree.
LEMMA ProposalsKept ==
  ASSUME ReceiptsInv, NEW f, Kept(f), {2, 5} \subseteq done
  PROVE  /\ ProposalsMade = Agreed /\ ProposalDigests = AgreedDigests
         /\ CandidateAtHand = Repairing
<1>1. Latest(Proposers, "skill") = {receipts[f[x]] : x \in {2, 5}}
  <2> DEFINE X == {2, 5}
  <2>1. X \subseteq Executing \intersect done
    BY DEF Executing
  <2>2. \A x \in X : Plan[x].actor \in Proposers /\ Tool(Plan[x].what) = "skill"
    BY ToolTable, WhoProposes
  <2>3. \A a \in Proposers : \E x \in X : a = Plan[x].actor
    BY ToolTable, WhoProposes
  <2> HIDE DEF X
  <2>4. Latest(Proposers, "skill") = {receipts[f[x]] : x \in X}
    BY <2>1, <2>2, <2>3, LatestKept
  <2> QED
    BY <2>4 DEF X
<1>2. /\ receipts[f[2]].says = {Proposing("rf-proposer-a")}
      /\ receipts[f[5]].says = {Proposing("rf-proposer-b")}
  BY ToolTable DEF Kept, Owed, Executing
<1>3. ProposalsMade = Agreed
  BY <1>1, <1>2, WhoProposes DEF ProposalsMade, SaidBy, Agreed
<1>4. ProposalDigests = AgreedDigests
  BY <1>3 DEF ProposalDigests, AgreedDigests
<1>5. CandidateAtHand = Repairing
  <2>1. Proposing("rf-proposer-a") \in Agreed /\ Proposing("rf-proposer-a").actor = "rf-proposer-a"
    BY WhoProposes DEF Agreed, Proposing, Issue
  <2>2. Agreed # {} /\ \E p \in Agreed : "rf-proposer-a" \in {x.actor : x \in Agreed}
                                           => p.actor = "rf-proposer-a"
    BY <2>1
  <2>3. (CHOOSE p \in Agreed : "rf-proposer-a" \in {x.actor : x \in Agreed}
                                 => p.actor = "rf-proposer-a") \in Agreed
    BY <2>2
  <2> QED
    BY <1>3, <2>2, <2>3, AgreedSays DEF CandidateAtHand
<1> QED
  BY <1>3, <1>4, <1>5

\* A step in its turn consumes what it is to consume.
LEMMA InputsKept ==
  ASSUME ReceiptsInv, NEW f, Kept(f), NEW s \in Executing, \A x \in Executing : x < s => x \in done
  PROVE  Inputs(Plan[s].what, Plan[s].actor) = Consumes(f, s)
<1>1. CASE s \in {2, 5}
  <2>1. Plan[s].what = "proposer"
    BY <1>1, PlanTable DEF Execute
  <2> QED
    BY <1>1, <2>1 DEF Inputs, Consumes
<1>2. CASE s = 10
  <2> DEFINE X == {8}
             c == "rf-verifier"
  <2>1. {2, 5} \subseteq done /\ X \subseteq Executing \intersect done
    BY <1>2 DEF Executing
  <2>2. \A x \in X : Plan[x].actor \in {c} /\ Tool(Plan[x].what) = "cloud"
    BY ToolTable
  <2>3. \A a \in {c} : \E x \in X : a = Plan[x].actor
    BY ToolTable
  <2> HIDE DEF X
  <2>5. Digests(Latest({c}, "cloud")) = {Ran(f[x]) : x \in X}
    <3> DEFINE Y == {c}
    <3> HIDE DEF Y
    <3>1. Latest(Y, "cloud") = {receipts[f[x]] : x \in X}
      BY <2>1, <2>2, <2>3, LatestKept DEF Y
    <3>2. Digests(Latest(Y, "cloud")) = {Ran(f[x]) : x \in X}
      BY <2>1, <3>1, DigestsKept
    <3> QED
      BY <3>2 DEF Y
  <2>4. Plan[s].what = "verifier" /\ Plan[s].actor = "rf-verifier"
    BY <1>2, PlanTable DEF Execute
  <2> QED
    BY <1>2, <2>1, <2>5, <2>4, ProposalsKept DEF Inputs, Consumes, X
<1>3. CASE s = 20
  <2>1. {2, 5} \subseteq done /\ Controlling \subseteq Executing \intersect done
    BY <1>3 DEF Executing, Controlling
  <2>2. Latest(Controls, "role") = {receipts[f[x]] : x \in Controlling}
    <3>1. \A x \in Controlling : Plan[x].actor \in Controls /\ Tool(Plan[x].what) = "role"
      BY ToolTable, WhoControls DEF Controlling
    <3>2. \A a \in Controls : \E x \in Controlling : a = Plan[x].actor
      BY ToolTable, WhoControls DEF Controlling
    <3> QED
      BY <2>1, <3>1, <3>2, LatestKept
  <2>3. Digests(Latest(Controls, "role")) = {Ran(f[x]) : x \in Controlling}
    BY <2>1, <2>2, DigestsKept
  <2>4. Plan[s].what = "release_manager"
    BY <1>3, PlanTable DEF Execute
  <2> QED
    BY <1>3, <2>1, <2>3, <2>4, ProposalsKept DEF Inputs, Consumes
<1>4. CASE s \in {8, 12, 14, 16, 18}
  <2>1. {2, 5} \subseteq done
    BY <1>4 DEF Executing
  <2>2. /\ Plan[s].what \in {"cloud_preflight", "verifier", "reviewer", "challenger", "governor"}
        /\ Plan[s].what = "verifier" => Plan[s].actor = "rf-verifier-b"
    BY <1>4, PlanTable DEF Execute
  <2> QED
    BY <1>4, <2>1, <2>2, ProposalsKept DEF Inputs, Consumes
<1> QED
  BY <1>1, <1>2, <1>3, <1>4 DEF Executing

\* The attestations at hand are those of the control executions.
LEMMA TestimonyKept ==
  ASSUME ReceiptsInv, NEW f, Kept(f), Attesting \subseteq done
  PROVE  SaidBy(Latest(Attesters, "role")) = Testimony(f)
<1>1. Attesting \subseteq Executing \intersect done /\ Attesting \subseteq Controlling
  BY DEF Attesting, Executing, Controlling
<1>2. Latest(Attesters, "role") = {receipts[f[x]] : x \in Attesting}
  <2>1. \A x \in Attesting : Plan[x].actor \in Attesters /\ Tool(Plan[x].what) = "role"
    BY <1>1, ToolTable, WhoControls DEF Attesting
  <2>2. \A a \in Attesters : \E x \in Attesting : a = Plan[x].actor
    BY ToolTable, WhoControls DEF Attesting
  <2> QED
    BY <1>1, <2>1, <2>2, LatestKept
<1>3. \A x \in Attesting : receipts[f[x]].says = {Attestation(x, f[x])}
  BY <1>1 DEF Kept, Owed
<1> QED
  BY <1>2, <1>3 DEF SaidBy, Testimony

-------------------------------------------------------------------------------
(* The executions of such a run.                                           *)

\* The receipt of the execution that is due.
LEMMA ReceiptOwed ==
  ASSUME Repairable, ReceiptsInv, NEW f, Kept(f), NEW g, NEW s \in Executing,
         container = [a \in Actors |-> Home(a)], source = 0,
         \A x \in Executing : x < s => x \in done /\ g[x] = f[x],
         g[s] = Len(receipts) + 1,
         Returns(Payload(Plan[s].what, Plan[s].actor), workspace[Plan[s].actor])
  PROVE  Owed(g, s, Receipt(Payload(Plan[s].what, Plan[s].actor), Plan[s].actor))
<1> DEFINE role == Plan[s].what
           a == Plan[s].actor
           p == Payload(role, a)
           r == Receipt(p, a)
           tree == workspace[a]
           n == Len(receipts) + 1
<1>1. /\ p.role = role /\ p.actor = a /\ p.run = ThisRun /\ p.snapshot = Bound
      /\ p.candidate = CandidateAtHand /\ p.in = Inputs(role, a) /\ p.proposals = ProposalsMade
      /\ p.attestations = SaidBy(Latest(Attesters, "role"))
  BY DEF Payload
<1>2. /\ r.actor = p.actor /\ r.tool = Tool(p.role) /\ r.container = container[a]
      /\ r.session = Session /\ r.source = source /\ r.run = p.run /\ r.snapshot = p.snapshot
      /\ r.candidate = p.candidate /\ r.in = p.in /\ r.exit = ExitCode(p)
      /\ r.says = Says(p, tree, n)
      /\ p.role = "release_manager" => /\ r.proposals = p.proposals
                                       /\ r.attestations = p.attestations
                                       /\ r.decision = Decision(p)
  BY DEF Receipt
<1>3. Returns(p, tree)
  OBVIOUS
<1>4. /\ role = "proposer" <=> s \in {2, 5}
      /\ role = "cloud_preflight" <=> s = 8
      /\ role = "release_manager" <=> s = 20
      /\ s \in Attesting => role \in Staging
      /\ a \in Actors
  <2>1. /\ role = "proposer" <=> s \in {2, 5}
        /\ role = "cloud_preflight" <=> s = 8
        /\ role = "release_manager" <=> s = 20
    <3>1. /\ Plan[2].what = "proposer" /\ Plan[5].what = "proposer"
          /\ Plan[8].what = "cloud_preflight" /\ Plan[10].what = "verifier"
          /\ Plan[12].what = "verifier" /\ Plan[14].what = "reviewer"
          /\ Plan[16].what = "challenger" /\ Plan[18].what = "governor"
          /\ Plan[20].what = "release_manager"
      BY PlanTable DEF Execute
    <3> QED
      BY <3>1 DEF Executing
  <2>2. s \in Attesting => role \in Staging
    BY AttestingTable
  <2>3. a \in Actors
    <3>1. a \in {"rf-proposer-a", "rf-proposer-b", "rf-verifier", "rf-verifier-b", "rf-lead",
                 "rf-challenger", "rf-governor", "rf-release-manager"}
      BY ToolTable DEF Executing, Controlling
    <3> QED
      BY <3>1, WhoProposes, WhoControls DEF Actors, Workers
  <2> QED
    BY <2>1, <2>2, <2>3
<1>5. n \in Nat
  BY DEF ReceiptsInv, Filed, IsSeq
<1>6. Consumes(g, s) = Consumes(f, s) /\ p.in = Consumes(f, s)
  BY <1>1, InputsKept, GoesByEarlier
<1>7. g[s] = n
  OBVIOUS
<1>8. Bound \in Tree
  BY AgentTeamsRunAssumption
<1> HIDE DEF role, a, p, r, tree, n
<1>9. /\ r.actor = a /\ r.tool = Tool(role) /\ r.container = Home(a) /\ r.session = Session
      /\ r.source = 0 /\ r.run = ThisRun /\ r.in = Consumes(g, s)
  BY <1>1, <1>2, <1>4, <1>6
<1>10. r.exit = (IF s = 8 THEN 2 ELSE 0)
  BY <1>1, <1>2, <1>4 DEF ExitCode
<1>11. ASSUME s \in {2, 5}
       PROVE  Bound.service \in Text /\ r.says = {Proposing(a)}
  <2>1. WithSource(tree) = Bound
    BY <1>1, <1>3, <1>4, <1>11 DEF Returns, ObservesSnapshot
  <2>2. Bound.service \in Text
    <3>1. CASE tree.service = Missing
      <4>1. Bound = [tree EXCEPT !.service = EXPECTED_OLD]
        BY <2>1, <3>1 DEF WithSource
      <4>2. DOMAIN Bound = {"service", "rest"}
        BY <1>8 DEF Tree
      <4>3. DOMAIN tree = {"service", "rest"}
        BY <4>1, <4>2
      <4> QED
        BY <4>1, <4>3, RoleToolAssumption
    <3>2. CASE tree.service # Missing
      BY <1>8, <2>1, <3>2 DEF WithSource, Tree
    <3> QED
      BY <3>1, <3>2
  <2>3. r.says = {Issue(p, Repairing)}
    BY <1>1, <1>2, <1>4, <1>11, <2>1 DEF Says, Repairing, Staging
  <2>4. Issue(p, Repairing) = Proposing(a)
    BY <1>1 DEF Issue, Proposing
  <2> QED
    BY <2>2, <2>3, <2>4
<1>12. ASSUME s \notin {2, 5}
       PROVE  r.candidate = Repairing /\ r.snapshot = Bound
  <2>1. {2, 5} \subseteq done
    BY <1>12 DEF Executing
  <2> QED
    BY <1>1, <1>2, <2>1, ProposalsKept
<1>13. ASSUME s \in Attesting
       PROVE  Repairing.old # Repairing.new /\ r.says = {Attestation(s, g[s])}
  <2>1. s \notin {2, 5}
    BY <1>13 DEF Attesting
  <2>2. p.candidate = Repairing
    BY <1>2, <1>12, <2>1
  <2>3. Stageable(p, tree)
    BY <1>1, <1>3, <1>4, <1>13 DEF Returns
  <2>4. tree = Bound /\ Repairing.old # Repairing.new
    BY <1>1, <2>2, <2>3 DEF Stageable, Applies
  <2> DEFINE q == [role |-> role, actor |-> a, run |-> ThisRun, snapshot |-> Bound,
                   candidate |-> Repairing]
  <2>5. /\ q.role = role /\ q.actor = a /\ q.run = ThisRun /\ q.snapshot = Bound
        /\ q.candidate = Repairing
    OBVIOUS
  <2>6. Attestation(s, n) = Attest(q, Staged(Bound, Repairing), n)
    BY DEF Attestation, role, a
  <2> HIDE DEF q
  <2>7. Says(p, tree, n) = Says(q, tree, n)
    BY <1>1, <2>2, <2>5, SameWords
  <2>8. Says(q, Bound, n) = {Attest(q, Staged(Bound, Repairing), n)}
    BY <1>4, <1>13, <2>5 DEF Says, Staging
  <2> QED
    BY <1>2, <1>7, <2>4, <2>6, <2>7, <2>8
<1>14. ASSUME s = 20
       PROVE  r.proposals = Agreed /\ r.attestations = Testimony(g) /\ r.decision = "release"
  <2>1. {2, 5} \subseteq done /\ Attesting \subseteq done
    BY <1>14 DEF Executing, Attesting
  <2>2. ProposalsMade = Agreed /\ CandidateAtHand = Repairing
    BY <2>1, ProposalsKept
  <2>3. SaidBy(Latest(Attesters, "role")) = Testimony(f)
    BY <2>1, TestimonyKept
  <2>4. \A x \in Attesting : g[x] = f[x]
    BY <1>14 DEF Attesting, Executing
  <2>5. Testimony(g) = Testimony(f)
    BY <2>4 DEF Testimony
  <2>6. Bound.service \in Text
    BY <2>1 DEF Kept, Owed, Executing
  <2>7. \A x \in Attesting : f[x] \in Nat
    <3>1. \A x \in Attesting : x \in Executing \intersect done
      BY <2>1 DEF Executing, Attesting
    <3>2. \A x \in Attesting : f[x] \in DOMAIN receipts
      BY <3>1 DEF Kept
    <3> QED
      BY <3>2 DEF ReceiptsInv, Filed, IsSeq
  <2>8. Gate!Authorized(Asking, Agreed, Testimony(f))
    BY <2>6, <2>7, GateReleases
  <2>9. Request(p) = Asking
    <3>1. a = "rf-release-manager"
      BY <1>14, ToolTable DEF a
    <3> QED
      BY <1>1, <2>2, <3>1 DEF Request, Asking
  <2>10. Decision(p) = "release"
    BY <1>1, <2>2, <2>3, <2>8, <2>9 DEF Decision
  <2> QED
    BY <1>1, <1>2, <1>4, <1>14, <2>2, <2>3, <2>5, <2>10
<1>15. Owed(g, s, r)
  BY <1>9, <1>10, <1>11, <1>12, <1>13, <1>14 DEF Owed, role, a
<1> QED
  BY <1>15 DEF r, p, a, role

\* The receipts once r has joined them, of step s, which is due.
LEMMA ReturnKeeps ==
  ASSUME ReceiptsInv, InTurn, NEW f, Kept(f), NEW s \in Executing, Due(s), NEW r, NEW g,
         \A x \in Executing : x # s => g[x] = f[x],
         g[s] = Len(receipts) + 1, r.id = Len(receipts) + 1, Owed(g, s, r),
         receipts' = Append(receipts, r), done' = done \union {s}
  PROVE  Kept(g)'
<1> DEFINE n == Len(receipts) + 1
           u == Append(receipts, r)
<1>1. /\ n \in Nat \ {0} /\ DOMAIN receipts = 1 .. n - 1 /\ DOMAIN u = 1 .. n
      /\ \A i \in DOMAIN receipts : u[i] = receipts[i]
      /\ u[n] = r
  BY AppendSeq DEF ReceiptsInv, Filed
<1>2. receipts' = u /\ g[s] = n /\ r.id = n
  OBVIOUS
<1>3. s \notin done /\ \A x \in done : x < s /\ x \in 1 .. 24
  BY DueIs
<1> HIDE DEF n, u
<1>4. \A i \in DOMAIN u : u[i].id = i
  <2> SUFFICES ASSUME NEW i \in DOMAIN u PROVE u[i].id = i
    OBVIOUS
  <2>1. CASE i = n
    BY <1>1, <1>2, <2>1
  <2>2. CASE i # n
    <3>1. i \in DOMAIN receipts /\ u[i] = receipts[i]
      BY <1>1, <2>2
    <3> QED
      BY <3>1 DEF Kept
  <2> QED
    BY <2>1, <2>2
<1>5. r.actor = Plan[s].actor /\ r.tool = Tool(Plan[s].what) /\ r.session = Session
  BY DEF Owed
<1>6. ASSUME NEW x \in Executing
      PROVE  Made(Plan[x].actor, Tool(Plan[x].what))' = IF x \in done' THEN {g[x]} ELSE {}
  <2> DEFINE a == Plan[x].actor
             t == Tool(Plan[x].what)
  <2>1. \A i \in DOMAIN u :
          i \in Made(a, t)' <=> u[i].actor = a /\ u[i].tool = t /\ u[i].session = Session
    BY <1>2, <1>4 DEF Made
  <2>2. \A i \in DOMAIN receipts :
          i \in Made(a, t) <=> receipts[i].actor = a /\ receipts[i].tool = t
                                 /\ receipts[i].session = Session
    BY DEF Made, Kept
  <2>3. Made(a, t)' \subseteq DOMAIN u /\ Made(a, t) \subseteq DOMAIN receipts
    BY <1>2 DEF Made
  <2>4. Made(a, t) = IF x \in done THEN {f[x]} ELSE {}
    BY DEF Kept
  <2>5. x = s \/ ~(r.actor = a /\ r.tool = t)
    BY <1>5, ExecutedOnce
  <2> HIDE DEF a, t
  <2>6. n \in Made(a, t)' <=> r.actor = a /\ r.tool = t /\ r.session = Session
    BY <1>1, <2>1
  <2>7. \A i \in DOMAIN receipts : i \in Made(a, t)' <=> i \in Made(a, t)
    BY <1>1, <2>1, <2>2
  <2>8. CASE x = s
    <3>1. Made(a, t) = {}
      BY <1>3, <2>4, <2>8
    <3>2. n \in Made(a, t)'
      BY <1>5, <2>6, <2>8 DEF a, t
    <3>3. Made(a, t)' = {n}
      BY <1>1, <2>3, <2>7, <3>1, <3>2
    <3> QED
      BY <1>2, <2>8, <3>3 DEF a, t
  <2>9. CASE x # s
    <3>1. n \notin Made(a, t)'
      BY <2>5, <2>6, <2>9
    <3>2. Made(a, t)' = Made(a, t)
      <4>1. \A i \in DOMAIN u : i = n \/ i \in DOMAIN receipts
        BY <1>1
      <4> HIDE DEF Made
      <4> QED
        BY <2>3, <2>7, <3>1, <4>1, <1>1
    <3>3. g[x] = f[x] /\ (x \in done' <=> x \in done)
      BY <2>9
    <3> QED
      BY <2>4, <3>2, <3>3 DEF a, t
  <2> QED
    BY <2>8, <2>9
<1>7. ASSUME NEW x \in Executing \intersect done'
      PROVE  g[x] \in DOMAIN u /\ Owed(g, x, u[g[x]])
  <2>1. CASE x = s
    BY <1>1, <1>2, <2>1
  <2>2. CASE x # s
    <3>1. x \in Executing \intersect done /\ g[x] = f[x] /\ x < s
      BY <1>3, <2>2
    <3>2. f[x] \in DOMAIN receipts /\ Owed(f, x, receipts[f[x]])
      BY <3>1 DEF Kept
    <3>3. \A y \in Executing : y <= x => g[y] = f[y]
      <4>1. Executing \subseteq Nat /\ s \in Nat
        BY DEF Executing
      <4> QED
        BY <3>1, <4>1
    <3>4. Owed(g, x, receipts[f[x]])
      BY <3>2, <3>3, GoesByEarlier
    <3> QED
      BY <1>1, <3>1, <3>2, <3>4
  <2> QED
    BY <2>1, <2>2
<1> QED
  BY <1>2, <1>4, <1>6, <1>7 DEF Kept

-------------------------------------------------------------------------------
(* The announcements of such a run.                                        *)

\* The announcement before one is an earlier step, and nothing is announced between them.
LEMMA PriorIs ==
  /\ Prior(1) = 0
  /\ \A s \in Announcing : s \in 1 .. 24
  /\ \A s \in Announcing : s # 1 => Prior(s) \in Announcing /\ Prior(s) < s
  /\ \A s, u \in Announcing : u < s => u <= Prior(s)
  /\ \A s \in Announcing : Prior(s) \in 0 .. 24 /\ Prior(s) \notin Executing /\ Prior(s) # 22 /\ Prior(s) # 23
BY DEF Prior, Announcing, Executing

\* An event depends on earlier receipts and on the event before it only.
LEMMA TellingSame ==
  ASSUME NEW f, NEW g, NEW h, NEW k, NEW s \in Announcing,
         \A x \in Executing : x < s => g[x] = f[x],
         s # 1 => k[Prior(s)] = h[Prior(s)]
  PROVE  Telling(g, k, s) = Telling(f, h, s)
<1>1. TellsIn(g, s) = TellsIn(f, s) /\ TellsOut(g, s) = TellsOut(f, s)
  BY GoesByEarlier
<1>2. Named(k, s) = Named(h, s)
  BY DEF Named
<1> QED
  BY <1>1, <1>2 DEF Telling

\* The receipt an actor goes by is the one of its step.
LEMMA LatestOne ==
  ASSUME ReceiptsInv, NEW f, Kept(f), NEW x \in Executing \intersect done
  PROVE  LET rs == Latest({Plan[x].actor}, Tool(Plan[x].what)) IN
         /\ rs = {receipts[f[x]]} /\ Digests(rs) = {Ran(f[x])}
         /\ UNION {r.in : r \in rs} = Consumes(f, x)
         /\ SaidBy(rs) = receipts[f[x]].says
<1> DEFINE X == {x}
           actors == {Plan[x].actor}
           tool == Tool(Plan[x].what)
           rs == Latest(actors, tool)
<1>1. /\ X \subseteq Executing \intersect done
      /\ \A y \in X : Plan[y].actor \in actors /\ Tool(Plan[y].what) = tool
      /\ \A a \in actors : \E y \in X : a = Plan[y].actor
  OBVIOUS
<1> HIDE DEF X, actors, tool
<1>2. rs = {receipts[f[y]] : y \in X}
  BY <1>1, LatestKept
<1>3. Digests(rs) = {Ran(f[y]) : y \in X}
  BY <1>1, <1>2, DigestsKept
<1> HIDE DEF rs
<1>4. rs = {receipts[f[x]]} /\ Digests(rs) = {Ran(f[x])}
  BY <1>2, <1>3 DEF X
<1>5. receipts[f[x]].in = Consumes(f, x)
  BY DEF Kept, Owed
<1>6. UNION {r.in : r \in rs} = Consumes(f, x) /\ SaidBy(rs) = receipts[f[x]].says
  BY <1>4, <1>5 DEF SaidBy
<1> QED
  BY <1>4, <1>6 DEF rs, actors, tool

\* The event of the announcement that is due.
LEMMA EventsDue ==
  ASSUME ReceiptsInv, InTurn, NEW f, Kept(f), NEW h, Spoken(f, h), NEW s \in Announcing, Due(s)
  PROVE  Events(s) = {Telling(f, h, s)}
<1> DEFINE stage == Plan[s].what
           a == Plan[s].actor
           last == Latest({"rf-release-manager"}, "role")
           decision == IF stage = "decide" THEN (CHOOSE r \in last : TRUE).decision ELSE NoDecision
<1>1. \A x \in Executing : x < s => x \in Executing \intersect done
  BY DueIs DEF Executing
<1>2. tip = Named(h, s)
  <2>1. Prior(s) \in done \union {0} /\ s \notin done
    BY DueIs, PriorIs
  <2> QED
    BY <2>1 DEF Spoken
<1>3. OutputToAnnounce(stage, a) = {TellsOut(f, s)} /\ InputsToAnnounce(stage, a) = TellsIn(f, s)
  <2>1. CASE s = 1
    <3>1. stage = "delegate"
      BY <2>1, PlanTable DEF Announce
    <3> QED
      BY <2>1, <3>1 DEF OutputToAnnounce, InputsToAnnounce, TellsOut, TellsIn
  <2>2. CASE s = 24
    <3>1. stage = "relay"
      BY <2>2, PlanTable DEF Announce
    <3>2. 20 \in Executing \intersect done
      BY <1>1, <2>2 DEF Executing
    <3>3. Digests(Latest({Plan[20].actor}, Tool(Plan[20].what))) = {Ran(f[20])}
      BY <3>2, LatestOne
    <3>4. Plan[20].actor = "rf-release-manager" /\ Tool(Plan[20].what) = "role"
      BY ToolTable
    <3> QED
      BY <2>2, <3>1, <3>3, <3>4 DEF OutputToAnnounce, InputsToAnnounce, TellsOut, TellsIn
  <2>3. CASE s \in {3, 6}
    <3>1. stage = "tool_execute" /\ a \in Proposers
      BY <2>3, PlanTable, WhoProposes DEF Announce
    <3>2. /\ s - 1 \in Executing \intersect done /\ Plan[s - 1].actor = a
          /\ Tool(Plan[s - 1].what) = "skill"
      <4>1. s - 1 \in Executing \intersect done
        BY <1>1, <2>3 DEF Executing
      <4>2. Plan[s - 1].actor = a /\ Tool(Plan[s - 1].what) = "skill"
        BY <2>3, PlanTable, ToolTable DEF Announce
      <4> QED
        BY <4>1, <4>2
    <3>3. Digests(Latest({a}, "skill")) = {Ran(f[s - 1])}
      BY <3>2, LatestOne
    <3> HIDE DEF stage, a
    <3> QED
      BY <2>3, <3>1, <3>3 DEF OutputToAnnounce, InputsToAnnounce, TellsOut, TellsIn
  <2>4. CASE s \in {4, 7}
    <3>1. stage = "propose"
      BY <2>4, PlanTable DEF Announce
    <3>2. /\ s - 2 \in Executing \intersect done /\ Plan[s - 2].actor = a
          /\ Tool(Plan[s - 2].what) = "skill" /\ s - 2 \in {2, 5}
      <4>1. s - 2 \in Executing \intersect done
        BY <1>1, <2>4 DEF Executing
      <4>2. Plan[s - 2].actor = a /\ Tool(Plan[s - 2].what) = "skill"
        BY <2>4, PlanTable, ToolTable DEF Announce
      <4> QED
        BY <2>4, <4>1, <4>2
    <3>3. /\ Digests(Latest({a}, "skill")) = {Ran(f[s - 2])}
          /\ SaidBy(Latest({a}, "skill")) = receipts[f[s - 2]].says
      BY <3>2, LatestOne
    <3>4. receipts[f[s - 2]].says = {Proposing(a)}
      BY <3>2 DEF Kept, Owed
    <3>5. TellsOut(f, s) = ProposalDigest(Proposing(a)) /\ TellsIn(f, s) = {Ran(f[s - 2])}
      BY <2>4 DEF TellsOut, TellsIn
    <3> HIDE DEF stage, a
    <3> QED
      BY <3>1, <3>3, <3>4, <3>5 DEF OutputToAnnounce, InputsToAnnounce
  <2>5. CASE s = 9
    <3>1. stage = "tool_execute" /\ a = "rf-verifier" /\ a \notin Proposers
      BY <2>5, PlanTable, WhoProposes DEF Announce
    <3>2. 8 \in Executing \intersect done
      BY <1>1, <2>5 DEF Executing
    <3>3. /\ Digests(Latest({a}, "cloud")) = {Ran(f[8])}
          /\ UNION {r.in : r \in Latest({a}, "cloud")} = Consumes(f, 8)
      <4>1. Plan[8].actor = a /\ Tool(Plan[8].what) = "cloud"
        BY <3>1, ToolTable
      <4> QED
        BY <3>2, <4>1, LatestOne
    <3>4. TellsOut(f, s) = Ran(f[8]) /\ TellsIn(f, s) = Consumes(f, 8)
      BY <2>5 DEF TellsOut, TellsIn
    <3> HIDE DEF stage, a
    <3> QED
      BY <3>1, <3>3, <3>4 DEF OutputToAnnounce, InputsToAnnounce
  <2>6. CASE s \in {11, 13, 15, 17, 19, 21}
    <3>1. stage \notin {"delegate", "relay", "tool_execute", "propose"}
      BY <2>6, PlanTable DEF Announce
    <3>2. /\ s - 1 \in Executing \intersect done /\ Plan[s - 1].actor = a
          /\ Tool(Plan[s - 1].what) = "role"
      <4>1. s - 1 \in Executing \intersect done
        BY <1>1, <2>6 DEF Executing
      <4>2. s - 1 \in Controlling \union {20}
        BY <2>6 DEF Controlling
      <4>3. Plan[s - 1].actor = a
        BY <2>6, PlanTable DEF Announce, Execute
      <4> QED
        BY <4>1, <4>2, <4>3, ToolTable
    <3>3. /\ Digests(Latest({a}, "role")) = {Ran(f[s - 1])}
          /\ UNION {r.in : r \in Latest({a}, "role")} = Consumes(f, s - 1)
      BY <3>2, LatestOne
    <3>4. TellsOut(f, s) = Ran(f[s - 1]) /\ TellsIn(f, s) = Consumes(f, s - 1)
      BY <2>6 DEF TellsOut, TellsIn
    <3> HIDE DEF stage, a
    <3> QED
      BY <3>1, <3>3, <3>4 DEF OutputToAnnounce, InputsToAnnounce
  <2> QED
    BY <2>1, <2>2, <2>3, <2>4, <2>5, <2>6 DEF Announcing
<1>4. decision = IF s = 21 THEN "release" ELSE NoDecision
  <2>1. stage = "decide" <=> s = 21
    BY PlanTable DEF Announce, Announcing
  <2>2. s = 21 => last = {receipts[f[20]]} /\ receipts[f[20]].decision = "release"
    <3> SUFFICES ASSUME s = 21
                 PROVE  last = {receipts[f[20]]} /\ receipts[f[20]].decision = "release"
      OBVIOUS
    <3>1. 20 \in Executing \intersect done
      BY <1>1 DEF Executing
    <3>2. last = {receipts[f[20]]}
      <4>1. Latest({Plan[20].actor}, Tool(Plan[20].what)) = {receipts[f[20]]}
        BY <3>1, LatestOne
      <4> QED
        BY <4>1, ToolTable
    <3>3. receipts[f[20]].decision = "release"
      BY <3>1 DEF Kept, Owed
    <3> QED
      BY <3>2, <3>3
  <2> HIDE DEF last, stage
  <2>3. s = 21 => (CHOOSE r \in last : TRUE) = receipts[f[20]]
    BY <2>2
  <2> QED
    BY <2>1, <2>2, <2>3
<1>5. Events(s) = {[actor |-> a, stage |-> stage, run |-> ThisRun, session |-> Session, prev |-> tip,
                    in |-> InputsToAnnounce(stage, a), out |-> out, decision |-> decision] :
                     out \in OutputToAnnounce(stage, a)}
  BY DEF Events
<1> HIDE DEF decision
<1> QED
  BY <1>2, <1>3, <1>4, <1>5 DEF Telling

-------------------------------------------------------------------------------
(* The room of such a run.                                                 *)

\* What a request that is handled adds to the room comes after the event acknowledged last.
LEMMA Handled ==
  ASSUME RoomInv, tip \in 0 .. Len(room), NEW m
  PROVE  /\ IsSeq(Delivered(m)) /\ Len(Delivered(m)) \in Nat /\ Len(room) <= Len(Delivered(m))
         /\ DOMAIN Delivered(m) = 1 .. Len(Delivered(m)) /\ DOMAIN room = 1 .. Len(room)
         /\ \A i \in DOMAIN room : i \in DOMAIN Delivered(m) /\ Delivered(m)[i] = room[i]
         /\ \A i \in DOMAIN Delivered(m) : i \in DOMAIN room \/ (Delivered(m)[i] = m /\ i > tip)
<1>1. /\ IsSeq(Append(room, m)) /\ Len(room) \in Nat
      /\ DOMAIN room = 1 .. Len(room) /\ DOMAIN Append(room, m) = 1 .. Len(room) + 1
      /\ \A i \in DOMAIN room : Append(room, m)[i] = room[i]
      /\ Append(room, m)[Len(room) + 1] = m
      /\ IsSeq(room)
  BY AppendSeq DEF RoomInv
<1>2. Len(Append(room, m)) = Len(room) + 1
  <2>1. PICK S : Append(room, m) \in Seq(S)
    BY <1>1 DEF IsSeq
  <2> QED
    BY <1>1, <2>1
<1> DEFINE u == Append(room, m)
<1> HIDE DEF u
<1>3. CASE Known(room, m)
  <2>1. Delivered(m) = room
    BY <1>3 DEF Delivered
  <2> QED
    BY <1>1, <2>1
<1>4. CASE ~Known(room, m)
  <2>1. Delivered(m) = u
    BY <1>4 DEF Delivered, u
  <2>2. /\ IsSeq(u) /\ Len(u) = Len(room) + 1 /\ DOMAIN u = 1 .. Len(room) + 1
        /\ \A i \in DOMAIN room : u[i] = room[i]
        /\ u[Len(room) + 1] = m
    BY <1>1, <1>2 DEF u
  <2> QED
    BY <1>1, <2>1, <2>2
<1> QED
  BY <1>3, <1>4

\* The announcement that is due is answered with an event that says it, posted now or, unnoticed,
\* before, but after the event acknowledged last.
LEMMA Answered ==
  ASSUME RoomInv, tip \in 0 .. Len(room), NEW f, NEW h, Asked(f, h), NEW s, Due(s),
         NEW m, m = Asks(f, h, s)
  PROVE  /\ EventOf(m) \in DOMAIN Delivered(m)
         /\ Delivered(m)[EventOf(m)].content = Telling(f, h, s)
         /\ EventOf(m) > tip
<1>1. m.txn[1] = s /\ m.content = Telling(f, h, s)
  BY DEF Asks, Message
<1>2. s \notin done
  BY DEF Due
<1>3. Len(room) \in Nat /\ DOMAIN room = 1 .. Len(room)
  BY Handled
<1>4. CASE Known(room, m)
  <2>1. PICK k \in DOMAIN room : Same(room[k], m) /\ EventOf(m) = k
    BY <1>4 DEF Known, EventOf
  <2>2. room[k].actor # "manager" /\ room[k].txn[1] = s
    BY <1>1, <2>1 DEF Same
  <2>3. Wanted(f, h, room[k]) /\ k > tip
    BY <1>2, <2>2 DEF Asked
  <2>4. room[k] = m
    BY <1>2, <2>2, <2>3 DEF Wanted
  <2>5. Delivered(m) = room
    BY <1>4 DEF Delivered
  <2> QED
    BY <1>1, <2>1, <2>3, <2>4, <2>5
<1>5. CASE ~Known(room, m)
  <2> DEFINE u == Append(room, m)
  <2>1. /\ DOMAIN u = 1 .. Len(room) + 1
        /\ u[Len(room) + 1] = m
    BY AppendSeq DEF RoomInv
  <2>2. Delivered(m) = u /\ EventOf(m) = Len(room) + 1
    BY <1>5 DEF Delivered, EventOf
  <2> HIDE DEF u
  <2>3. EventOf(m) \in DOMAIN Delivered(m)
    BY <1>3, <2>1, <2>2
  <2>5. EventOf(m) > tip
    BY <1>3, <2>2
  <2>4. Delivered(m)[EventOf(m)] = m
    BY <2>1, <2>2
  <2> QED
    BY <1>1, <2>3, <2>4, <2>5
<1> QED
  BY <1>4, <1>5

-------------------------------------------------------------------------------
(* The steps of such a run.                                                *)

\* A step taken when it is due keeps the steps done the first ones.
LEMMA InTurnNext ==
  ASSUME InTurn, NEW s, Due(s), done' = done \union {s}
  PROVE  InTurn'
<1>1. s \in 1 .. 24 /\ \A u \in 1 .. (s - 1) : u \in done
  BY DueIs
<1> QED
  BY <1>1 DEF InTurn

\* Once a step is carried out, every request there is is of a step done.
LEMMA AskedNext ==
  ASSUME InTurn, NEW f, NEW h, Asked(f, h), NEW s, Due(s), done' = done \union {s},
         inflight' = inflight,
         \A i \in DOMAIN room' :
           (i \in DOMAIN room /\ room'[i] = room[i]) \/ Wanted(f, h, room'[i]),
         NEW g, NEW k
  PROVE  Asked(g, k)'
<1>1. ASSUME NEW m, Wanted(f, h, m)
      PROVE  m.actor # "manager" => m.txn[1] \in done'
  <2>1. \A v : Due(v) => v = s
    BY DueIs
  <2> QED
    BY <1>1, <2>1 DEF Wanted
<1>2. \A m \in inflight' : m.actor # "manager" => m.txn[1] \in done'
  BY <1>1 DEF Asked
<1>3. \A i \in DOMAIN room' : room'[i].actor # "manager" => room'[i].txn[1] \in done'
  <2> SUFFICES ASSUME NEW i \in DOMAIN room'
               PROVE  room'[i].actor # "manager" => room'[i].txn[1] \in done'
    OBVIOUS
  <2>1. Wanted(f, h, room'[i])
    BY DEF Asked
  <2> QED
    BY <1>1, <2>1
<1> QED
  BY <1>2, <1>3 DEF Asked, Wanted

\* An execution that returns keeps the run as it was meant.
LEMMA ReturnSteady ==
  ASSUME Repairable, ReceiptsInv, NEW f, NEW h, Steady(f, h), NEW s \in Executing, Due(s),
         Executes(s, Payload(Plan[s].what, Plan[s].actor), Plan[s].actor),
         Returns(Payload(Plan[s].what, Plan[s].actor), workspace[Plan[s].actor])
  PROVE  \E g : Steady(g, h)'
<1> DEFINE p == Payload(Plan[s].what, Plan[s].actor)
           a == Plan[s].actor
           r == Receipt(p, a)
<1>1. /\ receipts' = Append(receipts, r) /\ done' = done \union {s}
      /\ UNCHANGED <<room, inflight, container, captures, probes, source, tip>>
  BY DEF Executes, Runs, matrix
<1>2. r.id = Len(receipts) + 1
  BY DEF Receipt
<1>3. PICK g : g = [x \in Executing |-> IF x = s THEN Len(receipts) + 1 ELSE f[x]]
  OBVIOUS
<1>4. g[s] = Len(receipts) + 1 /\ \A x \in Executing : x # s => g[x] = f[x]
  BY <1>3
<1>5. InTurn /\ Kept(f) /\ Spoken(f, h) /\ Asked(f, h) /\ Probed
      /\ container = [x \in Actors |-> Home(x)] /\ source = 0
  BY DEF Steady
<1>6. s \in 1 .. 24 /\ s \notin done /\ (\A u \in 1 .. (s - 1) : u \in done)
      /\ \A u \in done : u \in 1 .. 24 /\ u < s
  BY <1>5, DueIs
<1>7. \A x \in Executing : x < s => x \in done /\ g[x] = f[x]
  BY <1>4, <1>6 DEF Executing
<1>8. Owed(g, s, r)
  BY <1>4, <1>5, <1>7, ReceiptOwed
<1> HIDE DEF r
<1>9. Kept(g)'
  BY <1>1, <1>2, <1>4, <1>5, <1>8, ReturnKeeps
<1>10. s \notin Announcing /\ s # 22 /\ s # 23
  BY DEF Executing, Announcing
<1>11. Spoken(g, h)'
  <2>1. Announcing \intersect done' = Announcing \intersect done /\ Announcing \ done' = Announcing \ done
    BY <1>1, <1>10
  <2>2. \A u \in Announcing \intersect done : Telling(g, h, u) = Telling(f, h, u)
    <3> SUFFICES ASSUME NEW u \in Announcing \intersect done PROVE Telling(g, h, u) = Telling(f, h, u)
      OBVIOUS
    <3>1. \A x \in Executing : x < u => g[x] = f[x]
      <4>1. s \in Nat /\ u \in Nat /\ u < s
        BY <1>6
      <4>2. ~(s < u)
        BY <4>1
      <4> QED
        BY <1>4, <4>2
    <3> QED
      BY <3>1, TellingSame
  <2>3. \A u \in Announcing : Prior(u) \in done' \union {0} => Prior(u) \in done \union {0}
    BY <1>1, PriorIs
  <2>4. \A u \in Announcing \intersect done : Heard(g, h, u) = Heard(f, h, u)
    BY <2>2 DEF Heard
  <2>5. {Heard(g, h, u) : u \in Announcing \intersect done} = {Heard(f, h, u) : u \in Announcing \intersect done}
    BY <2>4
  <2> QED
    BY <1>1, <1>5, <2>1, <2>2, <2>3, <2>5 DEF Spoken
<1>12. Asked(g, h)'
  BY <1>1, <1>5, AskedNext
<1>13. InTurn'
  BY <1>1, <1>5, InTurnNext
<1>14. Probed'
  BY <1>1, <1>5, <1>10 DEF Probed
<1>15. Steady(g, h)'
  BY <1>1, <1>5, <1>9, <1>11, <1>12, <1>13, <1>14 DEF Steady
<1> QED
  BY <1>15

\* A step that is no execution touches neither the receipts nor what they are of.
LEMMA KeptStays ==
  ASSUME NEW f, Kept(f), receipts' = receipts, Executing \intersect done' = Executing \intersect done
  PROVE  Kept(f)'
<1>1. \A a, t : Made(a, t)' = Made(a, t)
  BY DEF Made
<1>2. \A x \in Executing : x \in done' <=> x \in done
  OBVIOUS
<1>3. \A i \in DOMAIN receipts' : receipts'[i].id = i
  BY DEF Kept
<1>4. \A x \in Executing :
        Made(Plan[x].actor, Tool(Plan[x].what))' = IF x \in done' THEN {f[x]} ELSE {}
  BY <1>1, <1>2 DEF Kept
<1>5. \A x \in Executing \intersect done' : f[x] \in DOMAIN receipts' /\ Owed(f, x, receipts'[f[x]])
  BY <1>2 DEF Kept
<1> QED
  BY <1>3, <1>4, <1>5 DEF Kept

\* A send that is answered keeps it so.
LEMMA SendSteady ==
  ASSUME ReceiptsInv, RoomInv, NEW f, NEW h, Steady(f, h), NEW s \in Announcing, Due(s),
         NEW c \in Events(s), AnswerTo(s, Message(s, c, FALSE))
  PROVE  \E k : Steady(f, k)'
<1>1. InTurn /\ Kept(f) /\ Spoken(f, h) /\ Asked(f, h) /\ Probed
      /\ container = [x \in Actors |-> Home(x)] /\ source = 0
  BY DEF Steady
<1>2. c = Telling(f, h, s)
  BY <1>1, EventsDue
<1>3. PICK m : m = Asks(f, h, s)
  OBVIOUS
<1>4. AnswerTo(s, m)
  BY <1>2, <1>3, Zenon DEF Asks
<1>5. /\ m.actor = Plan[s].actor /\ m.content = Telling(f, h, s) /\ Plan[s].actor \in Actors
  <2>1. m.actor = Plan[s].actor /\ m.content = Telling(f, h, s)
    BY <1>3 DEF Asks, Message, Telling
  <2>2. Plan[s].actor \in Actors
    BY PlanTable, WhoControls, WhoProposes DEF Announcing, Announce, Actors, Workers
  <2> QED
    BY <2>1, <2>2
<1>6. PICK n : n = EventOf(m)
  OBVIOUS
<1>7. /\ room' = Delivered(m) /\ inflight' = inflight
      /\ captures' = captures \union
           {[event |-> n, container |-> Home(Plan[s].actor), content |-> Telling(f, h, s)]}
      /\ tip' = n /\ done' = done \union {s}
      /\ container' = container /\ receipts' = receipts /\ probes' = probes /\ source' = source
  BY <1>1, <1>4, <1>5, <1>6 DEF AnswerTo, Acknowledged
<1>8. tip \in 0 .. Len(room)
  BY <1>1 DEF Spoken
<1>9. n \in DOMAIN room' /\ room'[n].content = Telling(f, h, s) /\ n > tip
  BY <1>1, <1>3, <1>6, <1>7, <1>8, Answered
<1>10. /\ Len(room') \in Nat /\ DOMAIN room' = 1 .. Len(room')
       /\ \A i \in DOMAIN room : i \in DOMAIN room' /\ room'[i] = room[i]
       /\ \A i \in DOMAIN room' : i \in DOMAIN room \/ room'[i] = m
  BY <1>7, <1>8, Handled
<1>11. s \in 1 .. 24 /\ s \notin done /\ (\A u \in 1 .. (s - 1) : u \in done)
       /\ \A u \in done : u \in 1 .. 24 /\ u < s
  BY <1>1, DueIs
<1>12. PICK k : k = [u \in Announcing |-> IF u = s THEN n ELSE h[u]]
  OBVIOUS
<1>13. k[s] = n /\ \A u \in Announcing : u < s => k[u] = h[u]
  BY <1>11, <1>12
<1>14. \A u \in Announcing : u <= s => Telling(f, k, u) = Telling(f, h, u)
                                       /\ (u # 1 => k[Prior(u)] = h[Prior(u)])
  <2> SUFFICES ASSUME NEW u \in Announcing, u <= s
               PROVE  Telling(f, k, u) = Telling(f, h, u) /\ (u # 1 => k[Prior(u)] = h[Prior(u)])
    OBVIOUS
  <2>1. u # 1 => Prior(u) \in Announcing /\ Prior(u) < s
    <3>1. u # 1 => Prior(u) \in Announcing /\ Prior(u) < u /\ Prior(u) \in 0 .. 24 /\ u \in 1 .. 24
      BY PriorIs
    <3> QED
      BY <1>11, <3>1
  <2>2. u # 1 => k[Prior(u)] = h[Prior(u)]
    BY <1>13, <2>1
  <2> QED
    BY <2>2, TellingSame
<1>15. \A u \in Announcing \intersect done' : u = s \/ (u \in done /\ u < s /\ u <= s)
  <2> SUFFICES ASSUME NEW u \in done PROVE u < s /\ u <= s
    BY <1>7
  <2> QED
    BY <1>11
<1>16. ASSUME NEW u \in Announcing \intersect done'
       PROVE  /\ k[u] \in DOMAIN room' /\ room'[k[u]].content = Telling(f, k, u)
              /\ u # 1 => k[Prior(u)] < k[u]
  <2>1. CASE u = s
    <3>1. Telling(f, k, s) = Telling(f, h, s) /\ (s # 1 => k[Prior(s)] = h[Prior(s)])
      BY <1>11, <1>14
    <3>2. s # 1 => tip = h[Prior(s)]
      <4>1. Prior(s) \in done \union {0}
        BY <1>11, PriorIs
      <4> QED
        BY <1>1, <1>11, <4>1 DEF Spoken, Named
    <3> QED
      BY <1>9, <1>13, <2>1, <3>1, <3>2
  <2>2. CASE u # s
    <3>1. u \in done /\ u < s /\ u <= s
      BY <1>15, <2>2
    <3>2. k[u] = h[u] /\ Telling(f, k, u) = Telling(f, h, u) /\ (u # 1 => k[Prior(u)] = h[Prior(u)])
      BY <1>13, <1>14, <3>1
    <3>3. /\ h[u] \in DOMAIN room /\ room[h[u]].content = Telling(f, h, u)
          /\ u # 1 => h[Prior(u)] < h[u]
      BY <1>1, <3>1 DEF Spoken
    <3> QED
      BY <1>10, <3>2, <3>3
  <2> QED
    BY <2>1, <2>2
<1>17. ASSUME NEW u \in Announcing \ done', Prior(u) \in done' \union {0}
       PROVE  tip' = Named(k, u)
  <2>1. u \in 1 .. 24 /\ u \notin done /\ u # s /\ Prior(u) \in 0 .. 24
    BY <1>7, PriorIs
  <2>2. s < u
    BY <1>11, <2>1
  <2>3. s <= Prior(u)
    BY <2>2, PriorIs
  <2>4. Prior(u) = s
    <3>1. Prior(u) = s \/ Prior(u) = 0 \/ Prior(u) \in done
      BY <1>7, <1>17
    <3>2. Prior(u) # 0
      BY <1>11, <2>3
    <3>3. Prior(u) \notin done
      <4>1. Prior(u) \in done => Prior(u) < s
        BY <1>11
      <4> QED
        BY <1>11, <2>1, <2>3, <4>1
    <3> QED
      BY <3>1, <3>2, <3>3
  <2>5. u # 1
    BY <1>11, <2>1, <2>2
  <2> QED
    BY <1>7, <1>13, <2>4, <2>5 DEF Named
<1>18. captures' = {Heard(f, k, u) : u \in Announcing \intersect done'}
  <2>1. Heard(f, k, s) = [event |-> n, container |-> Home(Plan[s].actor), content |-> Telling(f, h, s)]
    <3>1. Telling(f, k, s) = Telling(f, h, s)
      BY <1>11, <1>14
    <3> QED
      BY <1>13, <3>1 DEF Heard
  <2>2. \A u \in Announcing \intersect done : Heard(f, k, u) = Heard(f, h, u)
    <3> SUFFICES ASSUME NEW u \in Announcing \intersect done PROVE Heard(f, k, u) = Heard(f, h, u)
      OBVIOUS
    <3>1. u < s /\ u <= s
      BY <1>7, <1>11, <1>15
    <3>2. k[u] = h[u] /\ Telling(f, k, u) = Telling(f, h, u)
      BY <1>13, <1>14, <3>1
    <3> QED
      BY <3>2 DEF Heard
  <2>3. captures = {Heard(f, h, u) : u \in Announcing \intersect done}
    BY <1>1 DEF Spoken
  <2>4. captures = {Heard(f, k, u) : u \in Announcing \intersect done}
    BY <2>2, <2>3
  <2>5. captures' = captures \union {Heard(f, k, s)}
    BY <1>7, <2>1
  <2>6. Announcing \intersect done' = (Announcing \intersect done) \union {s}
    BY <1>7
  <2> QED
    BY <2>4, <2>5, <2>6
<1>19. Spoken(f, k)'
  <2>1. tip' \in 0 .. Len(room')
    BY <1>7, <1>9, <1>10
  <2> QED
    BY <1>16, <1>17, <1>18, <2>1 DEF Spoken
<1>20. Asked(f, k)'
  <2>1. Wanted(f, h, m)
    BY <1>3, <1>5, <1>11, Zenon DEF Wanted, Asks, Message
  <2>2. \A i \in DOMAIN room' :
          (i \in DOMAIN room /\ room'[i] = room[i]) \/ Wanted(f, h, room'[i])
    BY <1>10, <2>1
  <2> QED
    BY <1>1, <1>7, <2>2, AskedNext
<1>21. s \notin Executing /\ s # 22 /\ s # 23
  BY DEF Announcing, Executing
<1>22. Kept(f)'
  BY <1>1, <1>7, <1>21, KeptStays
<1>23. InTurn'
  BY <1>1, <1>7, InTurnNext
<1>24. Probed'
  BY <1>1, <1>7, <1>21 DEF Probed
<1>25. Steady(f, k)'
  BY <1>1, <1>7, <1>19, <1>20, <1>22, <1>23, <1>24 DEF Steady
<1> QED
  BY <1>25

\* Nothing is done, but the room or the requests under way may have changed.
LEMMA NothingDone ==
  ASSUME NEW f, NEW h, Steady(f, h),
         \A m \in inflight' : Wanted(f, h, m),
         Len(room) <= Len(room'), Len(room) \in Nat, Len(room') \in Nat,
         \A i \in DOMAIN room : i \in DOMAIN room' /\ room'[i] = room[i],
         \A i \in DOMAIN room' : i \in DOMAIN room \/ (Wanted(f, h, room'[i]) /\ i > tip),
         UNCHANGED <<container, receipts, captures, probes, source, done, tip>>
  PROVE  Steady(f, h)'
<1>1. InTurn /\ Kept(f) /\ Spoken(f, h) /\ Asked(f, h) /\ Probed
      /\ container = [x \in Actors |-> Home(x)] /\ source = 0
  BY DEF Steady
<1>2. Kept(f)'
  BY <1>1, KeptStays
<1>3. InTurn' /\ Probed'
  BY <1>1 DEF InTurn, Probed
<1>4. Spoken(f, h)'
  <2>1. \A u \in Announcing \intersect done :
          h[u] \in DOMAIN room' /\ room'[h[u]].content = Telling(f, h, u)
    BY <1>1 DEF Spoken
  <2>2. tip' \in 0 .. Len(room')
    BY <1>1 DEF Spoken
  <2> QED
    BY <1>1, <2>1, <2>2 DEF Spoken
<1>5. \A i \in DOMAIN room' :
        /\ Wanted(f, h, room'[i])
        /\ room'[i].actor # "manager" /\ room'[i].txn[1] \notin done => i > tip
  <2> SUFFICES ASSUME NEW i \in DOMAIN room'
               PROVE  /\ Wanted(f, h, room'[i])
                      /\ room'[i].actor # "manager" /\ room'[i].txn[1] \notin done => i > tip
    OBVIOUS
  <2>1. CASE i \in DOMAIN room
    <3>1. room'[i] = room[i]
      BY <2>1
    <3> QED
      BY <1>1, <2>1, <3>1 DEF Asked
  <2>2. CASE i \notin DOMAIN room
    BY <2>2
  <2> QED
    BY <2>1, <2>2
<1>6. Asked(f, h)'
  BY <1>5 DEF Asked, Wanted, Due
<1> QED
  BY <1>1, <1>2, <1>3, <1>4, <1>6 DEF Steady

\* So does a step that changes nothing of the run, like an execution that fails or is killed.
LEMMA StandingSteady ==
  ASSUME RoomInv, NEW f, NEW h, Steady(f, h),
         UNCHANGED <<room, inflight, container, receipts, captures, probes, source, done, tip>>
  PROVE  Steady(f, h)'
<1>1. Len(room) \in Nat
  BY DEF RoomInv, IsSeq
<1>2. \A m \in inflight' : Wanted(f, h, m)
  BY DEF Steady, Asked
<1> QED
  BY <1>1, <1>2, NothingDone

\* A request that is handled, late or without an answer.
LEMMA LossSteady ==
  ASSUME RoomInv, NEW f, NEW h, Steady(f, h), NEW m, Wanted(f, h, m),
         Unacknowledged(m) \/ Arrives(m),
         UNCHANGED <<container, receipts, captures, probes, source, done, tip>>
  PROVE  Steady(f, h)'
<1>1. /\ room' = room \/ room' = Delivered(m)
      /\ \A x \in inflight' : x \in inflight \/ x = m
  BY DEF Unacknowledged, Arrives, matrix
<1>2. tip \in 0 .. Len(room) /\ \A x \in inflight : Wanted(f, h, x)
  BY DEF Steady, Spoken, Asked
<1>3. \A x \in inflight' : Wanted(f, h, x)
  BY <1>1, <1>2
<1>4. /\ Len(Delivered(m)) \in Nat /\ Len(room) <= Len(Delivered(m))
      /\ \A i \in DOMAIN room : i \in DOMAIN Delivered(m) /\ Delivered(m)[i] = room[i]
      /\ \A i \in DOMAIN Delivered(m) : i \in DOMAIN room \/ (Delivered(m)[i] = m /\ i > tip)
  BY <1>2, Handled
<1>5. Len(room) \in Nat
  BY DEF RoomInv, IsSeq
<1>6. CASE room' = room
  BY <1>3, <1>5, <1>6, NothingDone
<1>7. CASE room' = Delivered(m)
  <2>1. /\ Len(room') \in Nat /\ Len(room) <= Len(room')
        /\ \A i \in DOMAIN room : i \in DOMAIN room' /\ room'[i] = room[i]
        /\ \A i \in DOMAIN room' : i \in DOMAIN room \/ (Wanted(f, h, room'[i]) /\ i > tip)
    BY <1>4, <1>7
  <2> QED
    BY <1>3, <1>5, <2>1, NothingDone
<1> QED
  BY <1>1, <1>6, <1>7

\* So does a send without an answer.
LEMMA SendFailsSteady ==
  ASSUME ReceiptsInv, RoomInv, NEW f, NEW h, Steady(f, h), NEW s \in DOMAIN Plan, SendFails(s)
  PROVE  Steady(f, h)'
<1>1. s \in Announcing /\ Due(s)
  BY StepKinds DEF SendFails
<1>2. PICK c \in Events(s) : Unacknowledged(Message(s, c, FALSE))
  BY DEF SendFails
<1>3. c = Telling(f, h, s)
  BY <1>1, EventsDue DEF Steady
<1>4. PICK m : m = Asks(f, h, s)
  OBVIOUS
<1>5. Unacknowledged(m)
  BY <1>2, <1>3, <1>4, Zenon DEF Asks
<1>6. m.txn[1] = s
  BY <1>4 DEF Asks, Message
<1>7. Wanted(f, h, m)
  BY <1>1, <1>4, <1>6 DEF Wanted
<1>8. UNCHANGED <<container, receipts, captures, probes, source, done, tip>>
  BY DEF SendFails
<1> QED
  BY <1>5, <1>7, <1>8, LossSteady

\* So does a request that arrives late.
LEMMA LateArrivalSteady ==
  ASSUME RoomInv, NEW f, NEW h, Steady(f, h), LateArrival
  PROVE  Steady(f, h)'
<1>1. PICK m \in inflight : Arrives(m)
  BY DEF LateArrival
<1>2. Wanted(f, h, m)
  BY DEF Steady, Asked
<1>3. UNCHANGED <<container, receipts, captures, probes, source, done, tip>>
  BY DEF LateArrival
<1> QED
  BY <1>1, <1>2, <1>3, LossSteady

\* So does a probe.
LEMMA ProbeSteady ==
  ASSUME RoomInv, NEW f, NEW h, Steady(f, h), NEW s \in DOMAIN Plan, Probe(s)
  PROVE  Steady(f, h)'
<1>1. s \in {22, 23} /\ Due(s)
  BY StepKinds DEF Probe
<1>2. InTurn /\ Kept(f) /\ Spoken(f, h) /\ Asked(f, h) /\ Probed
      /\ container = [x \in Actors |-> Home(x)] /\ source = 0
  BY DEF Steady
<1>3. /\ probes' = probes \union
           {[kind |-> Plan[s].what, session |-> Session, run |-> ThisRun,
             container |-> container[Plan[s].actor]]}
      /\ done' = done \union {s}
      /\ UNCHANGED <<room, inflight, container, receipts, captures, source, tip>>
  BY DEF Probe, matrix
<1>4. s \notin Executing /\ s \notin Announcing
  BY <1>1 DEF Executing, Announcing
<1>5. Kept(f)'
  BY <1>2, <1>3, <1>4, KeptStays
<1>6. InTurn'
  BY <1>1, <1>2, <1>3, InTurnNext
<1>7. Asked(f, h)'
  BY <1>1, <1>2, <1>3, AskedNext
<1>8. Spoken(f, h)'
  <2>1. Announcing \intersect done' = Announcing \intersect done /\ Announcing \ done' = Announcing \ done
    BY <1>3, <1>4
  <2>2. \A u \in Announcing : Prior(u) \in done' \union {0} => Prior(u) \in done \union {0}
    BY <1>1, <1>3, PriorIs
  <2> QED
    BY <1>2, <1>3, <2>1, <2>2 DEF Spoken
<1>9. Probed'
  <2>1. Plan[s].actor \in Actors
    BY <1>1, PlanTable, WhoControls DEF Actors, Workers
  <2>2. container[Plan[s].actor] = Home(Plan[s].actor)
    BY <1>2, <2>1
  <2> QED
    BY <1>2, <1>3, <2>2 DEF Probed
<1> QED
  BY <1>2, <1>3, <1>5, <1>6, <1>7, <1>8, <1>9 DEF Steady

-------------------------------------------------------------------------------
(* As long as there are no mistakes, the run is such a run.                *)

\* The run is as it was meant until the operator makes a mistake.
Smooth == mistakes \in Nat /\ (Repairable /\ mistakes = 0 => \E f, h : Steady(f, h))

\* It begins so.
LEMMA SmoothInit == Init => Smooth
<1> SUFFICES ASSUME Init PROVE Smooth
  OBVIOUS
<1> DEFINE z == [x \in {} |-> 0]
<1>1. /\ room = <<>> /\ inflight = {} /\ receipts = Leftover
      /\ captures = {} /\ done = {} /\ source = 0 /\ tip = 0 /\ mistakes = 0
  BY DEF Init, MatrixInit
<1>2. container = [a \in Actors |-> Home(a)]
  BY DEF Init, Home
<1>3. Kept(z)
  <2>1. \A i \in DOMAIN receipts : receipts[i].id = i /\ receipts[i].session # Session
    BY <1>1, LeftoverAssumption
  <2>2. \A a, t : Made(a, t) = {}
    BY <2>1 DEF Made
  <2> QED
    BY <1>1, <2>1, <2>2 DEF Kept
<1>4. DOMAIN room = {} /\ Len(room) = 0
  BY <1>1, NothingIsSeq
<1>5. Spoken(z, z)
  <2>1. \A s \in Announcing : Prior(s) = 0 => s = 1
    <3>1. 0 \notin Announcing
      BY DEF Announcing
    <3> QED
      BY <3>1, PriorIs
  <2>2. \A s \in Announcing \ done : Prior(s) \in done \union {0} => tip = Named(z, s)
    BY <1>1, <2>1 DEF Named
  <2> QED
    BY <1>1, <1>4, <2>2 DEF Spoken
<1>6. Asked(z, z)
  BY <1>1, <1>4 DEF Asked
<1>7. InTurn /\ Probed
  BY <1>1 DEF InTurn, Probed
<1>8. Steady(z, z)
  BY <1>1, <1>2, <1>3, <1>5, <1>6, <1>7 DEF Steady
<1> QED
  BY <1>1, <1>8 DEF Smooth

\* A step taken by mistake is counted; any other keeps the run as it was meant.
LEMMA StepSteady ==
  ASSUME Repairable, ReceiptsInv, RoomInv, NEW f, NEW h, Steady(f, h), mistakes' = mistakes,
         mistakes \in Nat, Next
  PROVE  \E g, k : Steady(g, k)'
<1>1. ~Mistake
  BY DEF Mistake
<1>2. ASSUME NEW s \in DOMAIN Plan, ExecuteRole(s)
      PROVE  \E g, k : Steady(g, k)'
  <2> DEFINE p == Payload(Plan[s].what, Plan[s].actor)
             a == Plan[s].actor
  <2>1. s \in Executing /\ Due(s) /\ Executes(s, p, a)
    BY <1>1, <1>2, StepKinds DEF ExecuteRole, Taken
  <2>2. CASE Returns(p, workspace[a])
    BY <2>1, <2>2, ReturnSteady
  <2>3. CASE ~Returns(p, workspace[a])
    <3> HIDE DEF p, a
    <3>1. UNCHANGED <<room, inflight, container, receipts, captures, probes, source, done, tip>>
      BY <2>1, <2>3 DEF Executes, Runs, matrix
    <3> QED
      BY <3>1, StandingSteady
  <2> QED
    BY <2>2, <2>3
<1>3. ASSUME NEW s \in DOMAIN Plan,
             ExecuteMistaken(s) \/ Adopt(s) \/ (\E a \in Workers : ExecuteElsewhere(s, a))
               \/ SendMistaken(s)
      PROVE  FALSE
  BY <1>1, <1>3, Zenon DEF ExecuteMistaken, Adopt, ExecuteElsewhere, SendMistaken
<1>4. ASSUME NEW s \in DOMAIN Plan, ExecutionKilled(s)
      PROVE  \E g, k : Steady(g, k)'
  <2>1. UNCHANGED <<room, inflight, container, receipts, captures, probes, source, done, tip>>
    BY <1>4 DEF ExecutionKilled, matrix
  <2> QED
    BY <2>1, StandingSteady
<1>5. ASSUME NEW s \in DOMAIN Plan, Send(s)
      PROVE  \E g, k : Steady(g, k)'
  <2>1. s \in Announcing /\ Due(s) /\ \E c \in Events(s) : AnswerTo(s, Message(s, c, FALSE))
    BY <1>1, <1>5, StepKinds, Zenon DEF Send, Taken
  <2>2. PICK c \in Events(s) : AnswerTo(s, Message(s, c, FALSE))
    BY <2>1
  <2> QED
    BY <2>1, <2>2, SendSteady
<1>6. ASSUME NEW s \in DOMAIN Plan, SendFails(s) \/ Probe(s)
      PROVE  \E g, k : Steady(g, k)'
  BY <1>6, SendFailsSteady, ProbeSteady
<1>7. ASSUME NEW a, NEW tree, Provision(a, tree)
      PROVE  \E g, k : Steady(g, k)'
  <2>1. UNCHANGED <<room, inflight, container, receipts, captures, probes, source, done, tip>>
    BY <1>7 DEF Provision, matrix
  <2> QED
    BY <2>1, StandingSteady
<1>8. ASSUME EditSource \/ \E a \in Actors, image \in {Locked, Upgraded} : Recreate(a, image)
      PROVE  FALSE
  BY <1>1, <1>8 DEF EditSource, Recreate
<1>9. CASE LateArrival
  BY <1>9, LateArrivalSteady
<1>10. CASE Publish
  <2>1. UNCHANGED <<room, inflight, container, receipts, captures, probes, source, done, tip>>
    BY <1>10 DEF Publish, matrix
  <2> QED
    BY <2>1, StandingSteady
<1> QED
  BY <1>2, <1>3, <1>4, <1>5, <1>6, <1>7, <1>8, <1>9, <1>10, Zenon DEF Next

\* A step counts at most one mistake.
LEMMA Counted ==
  ASSUME Next
  PROVE  mistakes' = mistakes \/ mistakes' = mistakes + 1
<1>1. \A s \in DOMAIN Plan : Taken(s) \/ Fault \/ Mistake => mistakes' = mistakes \/ mistakes' = mistakes + 1
  BY DEF Taken, Fault, Mistake, trouble
<1>2. ASSUME NEW s \in DOMAIN Plan,
             \/ ExecuteRole(s) \/ ExecuteMistaken(s) \/ ExecutionKilled(s) \/ Adopt(s)
             \/ \E a \in Workers : ExecuteElsewhere(s, a)
             \/ Send(s) \/ SendMistaken(s) \/ SendFails(s)
      PROVE  Taken(s) \/ Fault \/ Mistake
  BY <1>2, Zenon DEF ExecuteRole, ExecuteMistaken, ExecutionKilled, Adopt, ExecuteElsewhere,
                     Send, SendMistaken, SendFails
<1>3. ASSUME NEW s \in DOMAIN Plan, Probe(s) PROVE mistakes' = mistakes
  BY <1>3 DEF Probe, trouble
<1>4. CASE \/ \E a \in Workers, tree \in {Bound, OtherTree} : Provision(a, tree)
           \/ \E a \in Actors, image \in {Locked, Upgraded} : Recreate(a, image)
           \/ EditSource
  BY <1>4 DEF Provision, Recreate, EditSource, Mistake, trouble
<1>5. CASE LateArrival \/ Publish
  BY <1>5 DEF LateArrival, Publish, trouble
<1> QED
  BY <1>1, <1>2, <1>3, <1>4, <1>5, Zenon DEF Next

\* No step but a mistake changes that.
LEMMA SmoothStep == RunInv /\ Smooth /\ [Next]_vars => Smooth'
<1> SUFFICES ASSUME RunInv, Smooth, [Next]_vars PROVE Smooth'
  OBVIOUS
<1>1. ReceiptsInv /\ RoomInv /\ mistakes \in Nat
  BY DEF RunInv, Smooth
<1>2. mistakes' = mistakes \/ mistakes' = mistakes + 1
  BY Counted DEF vars
<1>3. CASE mistakes' = mistakes + 1
  BY <1>1, <1>3 DEF Smooth
<1>4. CASE mistakes' = mistakes
  <2> SUFFICES ASSUME Repairable, mistakes = 0 PROVE \E g, k : Steady(g, k)'
    BY <1>1, <1>4 DEF Smooth
  <2>1. PICK f, h : Steady(f, h)
    BY DEF Smooth
  <2>2. CASE Next
    BY <1>1, <1>4, <2>1, <2>2, StepSteady
  <2>3. CASE UNCHANGED vars
    <3>1. UNCHANGED <<room, inflight, container, receipts, captures, probes, source, done, tip>>
      BY <2>3 DEF vars
    <3> QED
      BY <1>1, <2>1, <3>1, StandingSteady
  <2> QED
    BY <2>2, <2>3
<1> QED
  BY <1>2, <1>3, <1>4

\* As long as the operator makes no mistake, whatever is killed, lost or late: the receipts of the
\* steps done are those owed, one each, and what the room and the senders have of them is what the
\* steps tell, each event after the one it names.
THEOREM SmoothRun == Spec => []Smooth
<1>1. Spec => []RunInv
  BY LiveRunInvariant
<1> QED
  BY <1>1, SmoothInit, SmoothStep, PTL DEF Spec

-------------------------------------------------------------------------------
(* The trace of such a run once it is complete.                            *)

\* The j-th announcement is step Order(j).
Order(j) ==
  IF j = 1 THEN 1 ELSE IF j \in {2, 3} THEN j + 1 ELSE IF j \in {4, 5} THEN j + 2
  ELSE IF j = 13 THEN 24 ELSE 2 * j - 3

\* The trace of the first n announcements.
Entry(f, h, s) == [id |-> h[s], content |-> Telling(f, h, s)]

Trace(f, h, n) == [j \in 1 .. n |-> Entry(f, h, Order(j))]

\* Order lists the announcements in the order of the plan, each after the one it names.
LEMMA OrderIs ==
  /\ \A j \in 1 .. 13 : Order(j) \in Announcing
  /\ \A s \in Announcing : \E j \in 1 .. 13 : Order(j) = s
  /\ \A j, k \in 1 .. 13 : j < k => Order(j) < Order(k)
  /\ \A j \in 2 .. 13 : Prior(Order(j)) = Order(j - 1) /\ Order(j) # 1
  /\ Order(1) = 1 /\ Order(13) = 24
<1>1. \A j \in 1 .. 13 : Order(j) \in Announcing
  BY DEF Order, Announcing
<1>2. \A s \in Announcing : \E j \in 1 .. 13 : Order(j) = s
  <2>1. /\ Order(1) = 1 /\ Order(2) = 3 /\ Order(3) = 4 /\ Order(4) = 6 /\ Order(5) = 7
        /\ Order(6) = 9 /\ Order(7) = 11 /\ Order(8) = 13 /\ Order(9) = 15 /\ Order(10) = 17
        /\ Order(11) = 19 /\ Order(12) = 21 /\ Order(13) = 24
    BY DEF Order
  <2>2. \A s \in Announcing : s \in {Order(j) : j \in 1 .. 13}
    BY <2>1 DEF Announcing
  <2> QED
    BY <2>2
<1>3. \A j, k \in 1 .. 13 : j < k => Order(j) < Order(k)
  BY DEF Order
<1>4. \A j \in 2 .. 13 : Prior(Order(j)) = Order(j - 1) /\ Order(j) # 1
  BY DEF Order, Prior
<1> QED
  BY <1>1, <1>2, <1>3, <1>4 DEF Order

\* The trace grows by one entry.
LEMMA TraceGrows ==
  ASSUME NEW f, NEW h, NEW n \in Nat
  PROVE  /\ IsSeq(Trace(f, h, n)) /\ Len(Trace(f, h, n)) = n
         /\ Append(Trace(f, h, n), Entry(f, h, Order(n + 1))) = Trace(f, h, n + 1)
<1> DEFINE t == Trace(f, h, n)
           v == Trace(f, h, n + 1)
           x == Entry(f, h, Order(n + 1))
           S == {Entry(f, h, Order(j)) : j \in 1 .. n + 1}
<1>1. /\ t = [j \in 1 .. n |-> Entry(f, h, Order(j))]
      /\ v = [j \in 1 .. n + 1 |-> Entry(f, h, Order(j))]
  BY DEF Trace
<1>2. t \in Seq(S)
  <2>1. t \in [1 .. n -> S]
    BY <1>1
  <2> HIDE DEF t, S
  <2> QED
    BY <2>1
<1>3. DOMAIN t = 1 .. n
  BY <1>1
<1> HIDE DEF S
<1>4. IsSeq(t) /\ Len(t) = n
  <2> HIDE DEF t
  <2> QED
    BY <1>2, <1>3 DEF IsSeq
<1>5. Append(t, x) = v
  <2> DEFINE u == Append(t, x)
  <2>1. /\ DOMAIN u = 1 .. n + 1 /\ \A i \in 1 .. n : u[i] = t[i]
        /\ u[n + 1] = x
    <3> HIDE DEF t, x
    <3> QED
      BY <1>3, <1>4, AppendSeq
  <2>2. u = [i \in DOMAIN u |-> u[i]]
    <3>1. u \in Seq(S \union {x})
      <4> HIDE DEF t, x
      <4> QED
        BY <1>2
    <3> HIDE DEF u, x
    <3> QED
      BY <3>1
  <2> HIDE DEF u
  <2>3. \A i \in 1 .. n + 1 : u[i] = v[i]
    <3> SUFFICES ASSUME NEW i \in 1 .. n + 1 PROVE u[i] = v[i]
      OBVIOUS
    <3>1. CASE i = n + 1
      BY <1>1, <2>1, <3>1
    <3>2. CASE i # n + 1
      BY <1>1, <2>1, <3>2
    <3> QED
      BY <3>1, <3>2
  <2>4. v = [i \in 1 .. n + 1 |-> v[i]]
    BY <1>1
  <2>5. u = v
    <3> HIDE DEF v
    <3> QED
      BY <2>1, <2>2, <2>3, <2>4
  <2> QED
    BY <2>5 DEF u
<1> QED
  BY <1>4, <1>5

\* The events followed back from an announcement are those announced up to it.
LEMMA TraceIs ==
  ASSUME RoomInv, NEW f, NEW h, Spoken(f, h), Announcing \subseteq done, NEW n \in 1 .. 13
  PROVE  Chain[h[Order(n)]] = Trace(f, h, n)
<1> DEFINE Bad == {k \in 1 .. 13 : Chain[h[Order(k)]] # Trace(f, h, k)}
<1> SUFFICES ASSUME Bad # {} PROVE FALSE
  OBVIOUS
<1>1. PICK m \in Bad : \A k \in Bad : m <= k
  <2>1. Bad \subseteq Nat
    OBVIOUS
  <2> HIDE DEF Bad
  <2> QED
    BY <2>1, LeastNat
<1>2. m \in 1 .. 13 /\ Chain[h[Order(m)]] # Trace(f, h, m)
  BY <1>1
<1> DEFINE s == Order(m)
           i == h[s]
<1>3. s \in Announcing
  BY <1>2, OrderIs
<1>4. /\ i \in DOMAIN room /\ room[i].content = Telling(f, h, s)
      /\ s # 1 => h[Prior(s)] < i
  BY <1>3 DEF Spoken
<1>5. Len(room) \in Nat /\ DOMAIN room = 1 .. Len(room)
  BY DEF RoomInv, IsSeq
<1>6. Before(i) = Named(h, s) /\ Item(i) = Entry(f, h, s)
  BY <1>4 DEF Before, Item, Entry, Telling
<1>7. \A k \in 0 .. Len(room) : Chain[k] = ChainStep(Chain, k)
  BY ChainIs DEF IsChain
<1>8. Chain[i] = Append(IF Before(i) < i THEN Chain[Before(i)] ELSE <<>>, Item(i))
  <2>1. i \in 0 .. Len(room) /\ i # 0
    BY <1>4, <1>5
  <2>2. Chain[i] = ChainStep(Chain, i)
    BY <1>7, <2>1
  <2> QED
    BY <2>1, <2>2 DEF ChainStep
<1>9. CASE m = 1
  <2>1. s = 1 /\ Before(i) = 0
    BY <1>6, <1>9, OrderIs DEF Named
  <2>2. Chain[0] = <<>>
    BY <1>5, <1>7 DEF ChainStep
  <2>3. Trace(f, h, 0) = <<>>
    <3>1. IsSeq(Trace(f, h, 0)) /\ Len(Trace(f, h, 0)) = 0
      BY TraceGrows
    <3> DEFINE t == Trace(f, h, 0)
    <3> HIDE DEF t
    <3>2. IsSeq(t) /\ Len(t) = 0
      BY <3>1 DEF t
    <3>3. t = <<>>
      BY <3>2 DEF IsSeq
    <3> QED
      BY <3>3 DEF t
  <2>4. 0 < i
    BY <1>4, <1>5
  <2>5. Append(Trace(f, h, 0), Entry(f, h, Order(0 + 1))) = Trace(f, h, 0 + 1)
    BY TraceGrows
  <2>6. 0 + 1 = 1
    OBVIOUS
  <2>7. Chain[i] = Append(Trace(f, h, 0), Item(i))
    BY <1>8, <2>1, <2>2, <2>3, <2>4
  <2>8. Item(i) = Entry(f, h, Order(1))
    BY <1>6, <1>9
  <2>9. Chain[i] = Trace(f, h, 1)
    BY <2>5, <2>6, <2>7, <2>8
  <2> QED
    BY <1>2, <1>9, <2>9
<1>10. CASE m # 1
  <2>1. m \in 2 .. 13 /\ m - 1 \in 1 .. 13 /\ m - 1 \in Nat /\ m - 1 + 1 = m
    BY <1>2, <1>10
  <2>2. m - 1 \notin Bad
    <3> HIDE DEF Bad
    <3> QED
      BY <1>1, <1>2, <2>1
  <2>3. Chain[h[Order(m - 1)]] = Trace(f, h, m - 1)
    BY <2>1, <2>2
  <2>4. Prior(s) = Order(m - 1) /\ s # 1
    BY <2>1, OrderIs
  <2>5. Before(i) = h[Order(m - 1)] /\ Before(i) < i
    BY <1>4, <1>6, <2>4 DEF Named
  <2>6. Append(Trace(f, h, m - 1), Entry(f, h, Order(m - 1 + 1))) = Trace(f, h, m - 1 + 1)
    BY <2>1, TraceGrows
  <2>7. Chain[i] = Append(Trace(f, h, m - 1), Entry(f, h, s))
    BY <1>6, <1>8, <2>3, <2>5
  <2>8. Chain[i] = Trace(f, h, m)
    BY <2>1, <2>6, <2>7
  <2> QED
    BY <1>2, <2>8
<1> QED
  BY <1>9, <1>10

-------------------------------------------------------------------------------
(* The record of such a run.                                               *)

\* The record e shows the whole run, and lists the receipts of its steps.
Traces(e, f, h) == e.trace = Trace(f, h, 13)

Ended(e, f, h) ==
  /\ e.run = ThisRun /\ e.session = Session /\ e.source = 0
  /\ e.component = container /\ e.running = Range(container)
  /\ Traces(e, f, h) /\ e.export = ExportOf(e.trace)
  /\ DOMAIN e.skill = Proposers
  /\ e.skill["rf-proposer-a"] = receipts[f[2]] /\ e.skill["rf-proposer-b"] = receipts[f[5]]
  /\ e.cloud = receipts[f[8]]
  /\ DOMAIN e.role = Workers \ Proposers
  /\ \A x \in Controlling \union {20} : e.role[Plan[x].actor] = receipts[f[x]]
  /\ e.terminal = 12
  /\ e.probes = probes

\* The least element of a singleton.
LEMMA MinOne ==
  ASSUME NEW n \in Nat
  PROVE  Min({n}) = n
<1>1. Min({n}) = CHOOSE x \in {n} : \A y \in {n} : x <= y
  BY DEF Min
<1>2. \E x \in {n} : \A y \in {n} : x <= y
  OBVIOUS
<1> QED
  BY <1>1, <1>2

\* The events of the trace, by position.
LEMMA Traced ==
  ASSUME NEW e, NEW f, NEW h, Traces(e, f, h)
  PROVE  /\ DOMAIN e.trace = 1 .. 13 /\ Len(e.trace) = 13
         /\ \A j \in 1 .. 13 : Content(e, j) = Telling(f, h, Order(j)) /\ e.trace[j].id = h[Order(j)]
<1>1. DOMAIN e.trace = 1 .. 13 /\ Len(e.trace) = 13
  <2>1. DOMAIN Trace(f, h, 13) = 1 .. 13
    BY DEF Trace
  <2> QED
    BY <2>1, TraceGrows DEF Traces
<1>2. \A j \in 1 .. 13 : Content(e, j) = Telling(f, h, Order(j)) /\ e.trace[j].id = h[Order(j)]
  <2>1. \A j \in 1 .. 13 : e.trace[j] = Entry(f, h, Order(j))
    BY DEF Trace, Traces
  <2> QED
    BY <2>1 DEF Entry, Content
<1> QED
  BY <1>1, <1>2

\* The trace has each announcement in one place.
LEMMA Positions ==
  ASSUME NEW e, NEW f, NEW h, Traces(e, f, h)
  PROVE  \A j \in 1 .. 13 : At(e, Plan[Order(j)].actor, Plan[Order(j)].what) = {j}
<1>1. DOMAIN e.trace = 1 .. 13
  BY Traced
<1>2. \A j \in 1 .. 13 : Content(e, j) = Telling(f, h, Order(j))
  BY Traced
<1>3. ASSUME NEW j \in 1 .. 13
      PROVE  At(e, Plan[Order(j)].actor, Plan[Order(j)].what) = {j}
  <2>1. \A i \in 1 .. 13 : Content(e, i).actor = Plan[Order(i)].actor
                           /\ Content(e, i).stage = Plan[Order(i)].what
    BY <1>2 DEF Telling
  <2>2. \A i \in 1 .. 13 : Order(i) = Order(j) => i = j
    <3> SUFFICES ASSUME NEW i \in 1 .. 13, Order(i) = Order(j) PROVE i = j
      OBVIOUS
    <3>1. Order(i) \in Nat /\ Order(j) \in Nat
      BY OrderIs, PriorIs
    <3>2. ~(i < j) /\ ~(j < i)
      BY <3>1, OrderIs
    <3> QED
      BY <3>2
  <2>3. \A i \in 1 .. 13 : i \in At(e, Plan[Order(j)].actor, Plan[Order(j)].what) <=> i = j
    <3> SUFFICES ASSUME NEW i \in 1 .. 13
                 PROVE  i \in At(e, Plan[Order(j)].actor, Plan[Order(j)].what) <=> i = j
      OBVIOUS
    <3>1. Order(i) \in Announcing /\ Order(j) \in Announcing
      BY OrderIs
    <3>2. i \in At(e, Plan[Order(j)].actor, Plan[Order(j)].what)
            <=> Plan[Order(i)].actor = Plan[Order(j)].actor /\ Plan[Order(i)].what = Plan[Order(j)].what
      BY <1>1, <2>1 DEF At
    <3> QED
      BY <2>2, <3>1, <3>2, AnnouncedInOneStep
  <2>4. At(e, Plan[Order(j)].actor, Plan[Order(j)].what) \subseteq 1 .. 13
    BY <1>1 DEF At
  <2> QED
    BY <2>3, <2>4
<1> QED
  BY <1>3

\* The trace states what each announcement tells.
LEMMA Stated ==
  ASSUME NEW e, NEW f, NEW h, Traces(e, f, h), NEW s \in Announcing,
         NEW a, NEW stage, a = Plan[s].actor, stage = Plan[s].what
  PROVE  /\ At(e, a, stage) # {}
         /\ OutputOf(e, a, stage) = TellsOut(f, s) /\ InputsOf(e, a, stage) = TellsIn(f, s)
         /\ Content(e, Min(At(e, a, stage))) = Telling(f, h, s)
<1>1. PICK j \in 1 .. 13 : Order(j) = s
  BY OrderIs
<1>2. At(e, a, stage) = {j} /\ Content(e, j) = Telling(f, h, s)
  BY <1>1, Positions, Traced
<1>3. Min({j}) = j /\ Max({j}) = j
  BY MinOne, MaxOne
<1>4. Telling(f, h, s).out = TellsOut(f, s) /\ Telling(f, h, s).in = TellsIn(f, s)
  BY DEF Telling
<1> QED
  BY <1>2, <1>3, <1>4 DEF OutputOf, InputsOf

\* A control execution, or the decision, is announced by the next step.
LEMMA HelperTurn ==
  ASSUME NEW x \in Controlling \union {20}
  PROVE  /\ x \in Executing /\ x + 1 \in Announcing
         /\ Plan[x + 1].actor = Plan[x].actor /\ Plan[x + 1].what = Stage[Operation[Plan[x].actor]]
         /\ Plan[x].actor \in Workers \ Proposers
         /\ x = 20 <=> Plan[x].actor = "rf-release-manager"
         /\ x # 20 <=> Plan[x].actor \in Controls
         /\ \A f : TellsOut(f, x + 1) = Ran(f[x]) /\ TellsIn(f, x + 1) = Consumes(f, x)
<1>1. x \in {10, 12, 14, 16, 18, 20}
  BY DEF Controlling
<1>2. x \in Executing /\ x + 1 \in Announcing
  BY <1>1 DEF Executing, Announcing
<1>3. /\ Stage["verifier"] = "verify" /\ Stage["reviewer"] = "review"
      /\ Stage["challenger"] = "challenge" /\ Stage["governor"] = "govern"
      /\ Stage["release_manager"] = "decide"
  BY DEF Stage
<1>4. Plan[x + 1].actor = Plan[x].actor
  BY <1>1, PlanTable DEF Announce, Execute
<1>5. Plan[x + 1].what = Stage[Operation[Plan[x].actor]]
  BY <1>1, <1>3, PlanTable, OperationTable DEF Announce, Execute
<1>6. /\ Plan[x].actor \in Workers \ Proposers
      /\ x = 20 <=> Plan[x].actor = "rf-release-manager"
      /\ x # 20 <=> Plan[x].actor \in Controls
  BY <1>1, ToolTable, WhoControls
<1>7. \A f : TellsOut(f, x + 1) = Ran(f[x]) /\ TellsIn(f, x + 1) = Consumes(f, x)
  BY <1>1 DEF TellsOut, TellsIn
<1> QED
  BY <1>2, <1>4, <1>5, <1>6, <1>7

\* What the announcements say.
LEMMA StatedAll ==
  ASSUME NEW e, NEW f, NEW h, Traces(e, f, h)
  PROVE  /\ OutputOf(e, "manager", "delegate") = TaskDigest(ThisRun)
         /\ InputsOf(e, "manager", "delegate") = {}
         /\ \A a \in Proposers : At(e, a, "propose") # {}
                                 /\ OutputOf(e, a, "propose") = ProposalDigest(Proposing(a))
         /\ InputsOf(e, "rf-proposer-a", "propose") = {Ran(f[2])}
         /\ InputsOf(e, "rf-proposer-b", "propose") = {Ran(f[5])}
         /\ \A x \in Controlling \union {20} :
              LET a == Plan[x].actor
                  stage == Stage[Operation[a]]
              IN  /\ At(e, a, stage) # {}
                  /\ OutputOf(e, a, stage) = Ran(f[x]) /\ InputsOf(e, a, stage) = Consumes(f, x)
         /\ ProposerReceipts(e) = AgreedDigests
         /\ ControlReceipts(e) = {Ran(f[x]) : x \in Controlling}
         /\ DecisionReceipt(e) = Ran(f[20])
<1>1. /\ OutputOf(e, "manager", "delegate") = TaskDigest(ThisRun)
      /\ InputsOf(e, "manager", "delegate") = {}
  <2>1. 1 \in Announcing /\ Plan[1].actor = "manager" /\ Plan[1].what = "delegate"
    BY PlanTable DEF Announcing, Announce
  <2>2. TellsOut(f, 1) = TaskDigest(ThisRun) /\ TellsIn(f, 1) = {}
    BY DEF TellsOut, TellsIn
  <2> QED
    BY <2>1, <2>2, Stated
<1>2. /\ \A a \in Proposers : At(e, a, "propose") # {}
                              /\ OutputOf(e, a, "propose") = ProposalDigest(Proposing(a))
      /\ InputsOf(e, "rf-proposer-a", "propose") = {Ran(f[2])}
      /\ InputsOf(e, "rf-proposer-b", "propose") = {Ran(f[5])}
  <2>1. /\ 4 \in Announcing /\ Plan[4].actor = "rf-proposer-a" /\ Plan[4].what = "propose"
        /\ 7 \in Announcing /\ Plan[7].actor = "rf-proposer-b" /\ Plan[7].what = "propose"
    BY PlanTable DEF Announcing, Announce
  <2>2. /\ TellsOut(f, 4) = ProposalDigest(Proposing("rf-proposer-a")) /\ TellsIn(f, 4) = {Ran(f[2])}
        /\ TellsOut(f, 7) = ProposalDigest(Proposing("rf-proposer-b")) /\ TellsIn(f, 7) = {Ran(f[5])}
    BY <2>1 DEF TellsOut, TellsIn
  <2>3. /\ At(e, "rf-proposer-a", "propose") # {}
        /\ OutputOf(e, "rf-proposer-a", "propose") = TellsOut(f, 4)
        /\ InputsOf(e, "rf-proposer-a", "propose") = TellsIn(f, 4)
    BY <2>1, Stated
  <2>4. /\ At(e, "rf-proposer-b", "propose") # {}
        /\ OutputOf(e, "rf-proposer-b", "propose") = TellsOut(f, 7)
        /\ InputsOf(e, "rf-proposer-b", "propose") = TellsIn(f, 7)
    BY <2>1, Stated
  <2> QED
    BY <2>2, <2>3, <2>4, WhoProposes
<1>3. ASSUME NEW x \in Controlling \union {20}
      PROVE  LET a == Plan[x].actor
                 stage == Stage[Operation[a]]
             IN  /\ At(e, a, stage) # {}
                 /\ OutputOf(e, a, stage) = Ran(f[x]) /\ InputsOf(e, a, stage) = Consumes(f, x)
                 /\ Content(e, Min(At(e, a, stage))) = Telling(f, h, x + 1)
  <2> DEFINE a == Plan[x].actor
             stage == Stage[Operation[a]]
  <2>1. x + 1 \in Announcing /\ a = Plan[x + 1].actor /\ stage = Plan[x + 1].what
    BY HelperTurn
  <2> HIDE DEF a, stage
  <2>2. /\ At(e, a, stage) # {}
        /\ OutputOf(e, a, stage) = TellsOut(f, x + 1) /\ InputsOf(e, a, stage) = TellsIn(f, x + 1)
        /\ Content(e, Min(At(e, a, stage))) = Telling(f, h, x + 1)
    BY <2>1, Stated
  <2> QED
    BY <2>2, HelperTurn DEF a, stage
<1>4. ProposerReceipts(e) = AgreedDigests
  <2>1. \A p : ProposalDigest(p) # NoReceipt
    BY DEF ProposalDigest, NoReceipt
  <2>2. {OutputOf(e, a, "propose") : a \in Proposers} = {ProposalDigest(Proposing(a)) : a \in Proposers}
    BY <1>2
  <2>3. AgreedDigests = {ProposalDigest(Proposing(a)) : a \in Proposers}
    BY DEF AgreedDigests, Agreed
  <2> QED
    BY <2>1, <2>2, <2>3 DEF ProposerReceipts
<1>5. ControlReceipts(e) = {Ran(f[x]) : x \in Controlling}
  <2>1. \A c \in Controls : \E x \in Controlling : c = Plan[x].actor
    BY ToolTable, WhoControls DEF Controlling
  <2>2. \A x \in Controlling : Plan[x].actor \in Controls
    BY ToolTable, WhoControls DEF Controlling
  <2>3. \A x \in Controlling : OutputOf(e, Plan[x].actor, Stage[Operation[Plan[x].actor]]) = Ran(f[x])
    BY <1>3
  <2> QED
    BY <2>1, <2>2, <2>3 DEF ControlReceipts
<1>6. DecisionReceipt(e) = Ran(f[20])
  <2>1. Plan[20].actor = "rf-release-manager" /\ Stage[Operation["rf-release-manager"]] = "decide"
    BY ToolTable, OperationTable DEF Stage
  <2>2. Content(e, Min(At(e, "rf-release-manager", "decide"))) = Telling(f, h, 20 + 1)
    BY <1>3, <2>1
  <2>3. Telling(f, h, 20 + 1).out = TellsOut(f, 20 + 1)
    BY DEF Telling
  <2>4. TellsOut(f, 20 + 1) = Ran(f[20])
    BY HelperTurn
  <2> QED
    BY <2>2, <2>3, <2>4 DEF DecisionReceipt
<1> QED
  BY <1>1, <1>2, <1>3, <1>4, <1>5, <1>6

\* The run is through.
Through(f, h) == ReceiptsInv /\ RoomInv /\ Steady(f, h) /\ done = 1 .. 24

\* The receipts of all steps are those owed, each under its own digest.
LEMMA ThroughAll ==
  ASSUME NEW f, NEW h, Through(f, h)
  PROVE  /\ Kept(f) /\ Spoken(f, h) /\ Probed /\ source = 0
         /\ container = [a \in Actors |-> Home(a)]
         /\ Executing \subseteq done /\ Announcing \subseteq done
         /\ \A x \in Executing : /\ f[x] \in DOMAIN receipts /\ Owed(f, x, receipts[f[x]])
                                 /\ Digest(receipts[f[x]]) = Ran(f[x])
         /\ \A x, y \in Executing : f[x] = f[y] => x = y
<1>1. /\ Kept(f) /\ Spoken(f, h) /\ Probed /\ source = 0
      /\ container = [a \in Actors |-> Home(a)]
  BY DEF Through, Steady
<1>2. Executing \subseteq done /\ Announcing \subseteq done
  BY DEF Through, Executing, Announcing
<1>3. \A x \in Executing : /\ f[x] \in DOMAIN receipts /\ Owed(f, x, receipts[f[x]])
                           /\ receipts[f[x]].id = f[x]
  BY <1>1, <1>2 DEF Kept
<1>4. \A x \in Executing : Digest(receipts[f[x]]) = Ran(f[x])
  BY <1>3 DEF Digest, Ran
<1>5. \A x \in Executing : /\ receipts[f[x]].actor = Plan[x].actor
                           /\ receipts[f[x]].tool = Tool(Plan[x].what)
  BY <1>3 DEF Owed
<1>6. \A x, y \in Executing : f[x] = f[y] => x = y
  <2> SUFFICES ASSUME NEW x \in Executing, NEW y \in Executing, f[x] = f[y] PROVE x = y
    OBVIOUS
  <2>1. Plan[x].actor = Plan[y].actor /\ Tool(Plan[x].what) = Tool(Plan[y].what)
    BY <1>5
  <2> QED
    BY <2>1, ExecutedOnce
<1> QED
  BY <1>1, <1>2, <1>3, <1>4, <1>6

\* No receipt is announced twice.
LEMMA OutOnce ==
  ASSUME NEW f, \A x, y \in Executing : f[x] = f[y] => x = y,
         NEW s \in Announcing, NEW u \in Announcing, s # 24, TellsOut(f, s) = TellsOut(f, u)
  PROVE  s = u
<1>1. \A v \in Announcing :
        \/ v = 1 /\ TellsOut(f, v) = TaskDigest(ThisRun)
        \/ v \in {4, 7} /\ TellsOut(f, v) = ProposalDigest(Proposing(Plan[v].actor))
        \/ v = 24 /\ TellsOut(f, v) = NoReceipt
        \/ v - 1 \in Executing /\ TellsOut(f, v) = Ran(f[v - 1])
  <2> SUFFICES ASSUME NEW v \in Announcing
               PROVE  \/ v = 1 /\ TellsOut(f, v) = TaskDigest(ThisRun)
                      \/ v \in {4, 7} /\ TellsOut(f, v) = ProposalDigest(Proposing(Plan[v].actor))
                      \/ v = 24 /\ TellsOut(f, v) = NoReceipt
                      \/ v - 1 \in Executing /\ TellsOut(f, v) = Ran(f[v - 1])
    OBVIOUS
  <2>1. v \notin {1, 4, 7, 24} => v - 1 \in Executing
    BY DEF Announcing, Executing
  <2> QED
    BY <2>1 DEF TellsOut
<1>2. /\ \A p, n : ProposalDigest(p) # Ran(n) /\ ProposalDigest(p) # TaskDigest(ThisRun)
                   /\ ProposalDigest(p) # NoReceipt
      /\ \A n : Ran(n) # TaskDigest(ThisRun) /\ Ran(n) # NoReceipt
      /\ TaskDigest(ThisRun) # NoReceipt
      /\ \A n, m : Ran(n) = Ran(m) => n = m
      /\ \A p, q : ProposalDigest(p) = ProposalDigest(q) => p = q
  BY DEF ProposalDigest, Ran, TaskDigest, NoReceipt
<1>3. \A a, b : Proposing(a) = Proposing(b) => a = b
  <2>1. \A a : Proposing(a).actor = a
    BY DEF Proposing, Issue
  <2> QED
    BY <2>1
<1>4. Plan[4].actor # Plan[7].actor
  BY PlanTable DEF Announce
<1>5. CASE s - 1 \in Executing /\ u - 1 \in Executing
           /\ TellsOut(f, s) = Ran(f[s - 1]) /\ TellsOut(f, u) = Ran(f[u - 1])
  <2>1. s - 1 = u - 1
    BY <1>2, <1>5
  <2> QED
    BY <2>1, PriorIs
<1>6. CASE s \in {4, 7} /\ u \in {4, 7}
           /\ TellsOut(f, s) = ProposalDigest(Proposing(Plan[s].actor))
           /\ TellsOut(f, u) = ProposalDigest(Proposing(Plan[u].actor))
  <2>1. Proposing(Plan[s].actor) = Proposing(Plan[u].actor)
    <3>1. ProposalDigest(Proposing(Plan[s].actor)) = ProposalDigest(Proposing(Plan[u].actor))
      BY <1>6
    <3> QED
      BY <1>2, <3>1, Zenon
  <2>2. Plan[s].actor = Plan[u].actor
    BY <1>3, <2>1
  <2> QED
    BY <1>4, <1>6, <2>2
<1> QED
  BY <1>1, <1>2, <1>5, <1>6

\* The record is about this run, and its containers are those that run.
LEMMA RunsWell ==
  ASSUME NEW f, NEW h, Through(f, h), NEW e, Ended(e, f, h)
  PROVE  HeaderValid(e, source) /\ ComponentsValid(e)
<1>1. source = 0 /\ container = [a \in Actors |-> Home(a)]
  BY ThroughAll
<1>2. e.run = ThisRun /\ e.source = 0 /\ e.component = container /\ e.running = Range(container)
  BY DEF Ended
<1>3. HeaderValid(e, source)
  BY <1>1, <1>2, AgentTeamsRunAssumption, RoleToolAssumption DEF HeaderValid
<1>4. DOMAIN container = Actors /\ \A a \in Actors : container[a] = Home(a)
  BY <1>1
<1>5. \A a \in Actors : container[a] \in Range(container)
  BY <1>4 DEF Range
<1>6. \A a : Home(a).actor = a /\ Home(a).image = Locked
  BY DEF Home
<1>7. ComponentsValid(e)
  BY <1>2, <1>4, <1>5, <1>6 DEF ComponentsValid
<1> QED
  BY <1>3, <1>7

\* The events of the trace are in the order of the server, from the first.
LEMMA TraceInOrder ==
  ASSUME NEW f, NEW h, Through(f, h), NEW e, Traces(e, f, h)
  PROVE  /\ Chain[h[24]] = Trace(f, h, 13) /\ h[24] \in DOMAIN room
         /\ \A j \in 1 .. 13 : e.trace[j].id \in Nat \ {0}
         /\ \A j, k \in 1 .. 13 : j < k => e.trace[j].id < e.trace[k].id
<1>1. RoomInv /\ Spoken(f, h) /\ Announcing \subseteq done
  BY ThroughAll DEF Through
<1>2. 13 \in 1 .. 13 /\ Order(13) = 24
  BY OrderIs
<1>3. Chain[h[24]] = Trace(f, h, 13)
  BY <1>1, <1>2, TraceIs
<1>4. h[24] \in DOMAIN room
  <2>1. 24 \in Announcing
    BY DEF Announcing
  <2> QED
    BY <1>1, <2>1 DEF Spoken
<1>5. Len(room) \in Nat /\ DOMAIN room = 1 .. Len(room)
  BY <1>1 DEF RoomInv, IsSeq
<1>6. InOrder(e.trace, h[24])
  <2>1. h[24] \in 0 .. Len(room)
    BY <1>4, <1>5
  <2>2. InOrder(Chain[h[24]], h[24])
    BY <1>1, <2>1, ChainInOrder
  <2> QED
    BY <1>3, <2>2 DEF Traces
<1>7. DOMAIN e.trace = 1 .. 13
  BY Traced
<1>8. \A j \in 1 .. 13 : e.trace[j].id \in Nat \ {0}
  <2>1. \A j \in 1 .. 13 : e.trace[j].id \in DOMAIN room
    BY <1>6, <1>7 DEF InOrder
  <2>2. DOMAIN room \subseteq Nat \ {0}
    BY <1>5
  <2> QED
    BY <2>1, <2>2
<1>9. \A j, k \in 1 .. 13 : j < k => e.trace[j].id < e.trace[k].id
  BY <1>6, <1>7 DEF InOrder
<1> QED
  BY <1>3, <1>4, <1>8, <1>9

\* The senders captured every event of the trace, and nothing else.
LEMMA ExportedWell ==
  ASSUME NEW f, NEW h, Through(f, h), NEW e, Ended(e, f, h)
  PROVE  ExportValid(e)
<1> DEFINE g == [j \in 1 .. 13 |-> Heard(f, h, Order(j))]
<1>1. Traces(e, f, h) /\ e.export = ExportOf(e.trace) /\ e.component = container
  BY DEF Ended
<1>2. /\ DOMAIN e.trace = 1 .. 13 /\ Len(e.trace) = 13
      /\ \A j \in 1 .. 13 : Content(e, j) = Telling(f, h, Order(j)) /\ e.trace[j].id = h[Order(j)]
  BY <1>1, Traced
<1>3. captures = {Heard(f, h, s) : s \in Announcing}
  <2>1. Announcing \intersect done = Announcing
    BY ThroughAll
  <2>2. captures = {Heard(f, h, s) : s \in Announcing \intersect done}
    BY ThroughAll DEF Spoken
  <2> QED
    BY <2>1, <2>2
<1>4. \A j \in 1 .. 13 : g[j] = Heard(f, h, Order(j)) /\ g[j].event = e.trace[j].id
  BY <1>2 DEF Heard
<1>5. \A j \in 1 .. 13 : g[j] \in captures
  BY <1>3, <1>4, OrderIs
<1>6. DOMAIN g = 1 .. 13 /\ g = [j \in 1 .. 13 |-> g[j]]
  OBVIOUS
<1>7. \A x \in captures : \E j \in 1 .. 13 : x = g[j]
  BY <1>3, <1>4, OrderIs
<1> HIDE DEF g
<1>8. e.export = captures
  <2>1. e.export \subseteq captures
    BY <1>1 DEF ExportOf, Captured
  <2>2. \A j \in 1 .. 13 : g[j] \in e.export
    <3> SUFFICES ASSUME NEW j \in 1 .. 13 PROVE g[j] \in e.export
      OBVIOUS
    <3>1. g[j] \in Captured(e.trace[j].id)
      BY <1>4, <1>5 DEF Captured
    <3> QED
      BY <1>1, <1>2, <3>1 DEF ExportOf
  <2> QED
    BY <1>7, <2>1, <2>2
<1>9. \A j \in 1 .. 13 : Captures(e, j, g[j])
  <2> SUFFICES ASSUME NEW j \in 1 .. 13 PROVE Captures(e, j, g[j])
    OBVIOUS
  <2>1. Plan[Order(j)].actor \in Actors
    <3>1. Order(j) \in Announcing
      BY OrderIs
    <3> QED
      BY <3>1, PlanTable, WhoControls, WhoProposes DEF Announcing, Announce, Actors, Workers
  <2>2. Content(e, j).actor = Plan[Order(j)].actor
    BY <1>2 DEF Telling
  <2>3. e.component[Plan[Order(j)].actor] = Home(Plan[Order(j)].actor)
    BY <1>1, <2>1, ThroughAll
  <2>4. g[j].container = Home(Plan[Order(j)].actor) /\ g[j].content = Telling(f, h, Order(j))
    BY <1>4 DEF Heard
  <2> QED
    BY <1>2, <1>4, <2>2, <2>3, <2>4 DEF Captures
<1>10. \A j \in 1 .. 13 : \E x \in e.export : Captures(e, j, x)
  BY <1>5, <1>8, <1>9
<1>12. /\ \A j \in 1 .. 13 : e.trace[j].id \in Nat
       /\ \A j, k \in 1 .. 13 : j < k => e.trace[j].id < e.trace[k].id
  <2>1. /\ \A j \in 1 .. 13 : e.trace[j].id \in Nat \ {0}
        /\ \A j, k \in 1 .. 13 : j < k => e.trace[j].id < e.trace[k].id
    BY <1>1, TraceInOrder, Zenon
  <2> QED
    BY <2>1
<1>11. Cardinality(e.export) = 13
  <2>1. g \in [1 .. 13 -> captures]
    BY <1>5, <1>6
  <2>2. \A j, k \in 1 .. 13 : g[j] = g[k] => j = k
    <3> SUFFICES ASSUME NEW j \in 1 .. 13, NEW k \in 1 .. 13, g[j] = g[k] PROVE j = k
      OBVIOUS
    <3>1. e.trace[j].id = e.trace[k].id /\ e.trace[j].id \in Nat
      BY <1>4, <1>12
    <3>2. ~(j < k) /\ ~(k < j)
      BY <1>12, <3>1
    <3> QED
      BY <3>2
  <2>3. g \in Bijection(1 .. 13, captures)
    BY <1>7, <2>1, <2>2 DEF Bijection, Injection, Surjection, IsInjective
  <2>4. IsFiniteSet(1 .. 13) /\ Cardinality(1 .. 13) = 13
    <3>1. 1 \in Int /\ 13 \in Int /\ ~(1 > 13) /\ 13 - 1 + 1 = 13
      OBVIOUS
    <3> QED
      BY <3>1, FS_Interval
  <2>5. Cardinality(captures) = 13
    <3>1. ExistsBijection(1 .. 13, captures)
      BY <2>3 DEF ExistsBijection
    <3> QED
      BY <2>4, <3>1, FS_Bijection
  <2> QED
    BY <1>8, <2>5
<1> QED
  BY <1>2, <1>10, <1>11 DEF ExportValid

\* Each announcement has its place in the trace.
LEMMA Placed ==
  ASSUME NEW e, NEW f, NEW h, Traces(e, f, h), NEW s \in Announcing
  PROVE  \E i \in DOMAIN e.trace :
           /\ Content(e, i) = Telling(f, h, s)
           /\ i \in At(e, Plan[s].actor, Plan[s].what)
           /\ \A r : Digest(r) = TellsOut(f, s) => i \in AnnouncedAt(e, r)
           /\ Content(e, i).in = TellsIn(f, s) /\ Content(e, i).actor = Plan[s].actor
<1>1. PICK j \in 1 .. 13 : Order(j) = s
  BY OrderIs
<1>2. j \in DOMAIN e.trace /\ Content(e, j) = Telling(f, h, s)
  BY <1>1, Traced
<1>3. /\ Telling(f, h, s).actor = Plan[s].actor /\ Telling(f, h, s).stage = Plan[s].what
      /\ Telling(f, h, s).in = TellsIn(f, s) /\ Telling(f, h, s).out = TellsOut(f, s)
  BY DEF Telling
<1>4. j \in At(e, Plan[s].actor, Plan[s].what)
  BY <1>2, <1>3 DEF At
<1>5. \A r : Digest(r) = TellsOut(f, s) => j \in AnnouncedAt(e, r)
  BY <1>2, <1>3 DEF AnnouncedAt
<1> QED
  BY <1>2, <1>3, <1>4, <1>5

\* The trace is complete, in order, causal and repeats nothing.
LEMMA TracedWell ==
  ASSUME NEW f, NEW h, Through(f, h), NEW e, Ended(e, f, h)
  PROVE  TraceValid(e)
<1>1. Traces(e, f, h) /\ e.run = ThisRun /\ e.session = Session
  BY DEF Ended
<1>2. /\ DOMAIN e.trace = 1 .. 13 /\ Len(e.trace) = 13
      /\ \A j \in 1 .. 13 : Content(e, j) = Telling(f, h, Order(j)) /\ e.trace[j].id = h[Order(j)]
  BY <1>1, Traced
<1>3. e.trace # <<>>
  BY <1>2, NothingIsSeq
<1>4. ASSUME NEW i \in 1 .. 13
      PROVE  EventValid(e, i)
  <2> DEFINE s == Order(i)
  <2>1. s \in Announcing /\ Content(e, i) = Telling(f, h, s)
    BY <1>2, OrderIs
  <2>2. Plan[s].actor \in Actors
    BY <2>1, PlanTable, WhoControls, WhoProposes DEF Announcing, Announce, Actors, Workers
  <2>3. /\ Content(e, i).actor \in Actors /\ Content(e, i).run = e.run
        /\ Content(e, i).session = e.session /\ Content(e, i).prev = Named(h, s)
    BY <1>1, <2>1, <2>2 DEF Telling
  <2>4. InSequence(e, i)
    <3>1. \A j \in 1 .. 13 : e.trace[j].id \in Nat \ {0}
      BY <1>1, TraceInOrder
    <3>2. \A j, k \in 1 .. 13 : j < k => e.trace[j].id < e.trace[k].id
      BY <1>1, TraceInOrder
    <3>3. CASE i = 1
      <4>1. Previous(e, i) = 0 /\ Named(h, s) = 0
        BY <3>3, OrderIs DEF Previous, Named
      <4> QED
        BY <2>3, <3>1, <4>1 DEF InSequence
    <3>4. CASE i # 1
      <4>1. i \in 2 .. 13 /\ i - 1 \in 1 .. 13 /\ i - 1 < i
        BY <3>4
      <4>2. Prior(s) = Order(i - 1) /\ s # 1
        BY <4>1, OrderIs
      <4>3. Named(h, s) = h[Order(i - 1)]
        BY <4>2 DEF Named
      <4>4. e.trace[i - 1].id = h[Order(i - 1)]
        BY <1>2, <4>1
      <4>5. Previous(e, i) = e.trace[i - 1].id
        BY <3>4 DEF Previous
      <4>6. e.trace[i - 1].id < e.trace[i].id
        BY <3>2, <4>1
      <4>7. e.trace[i].id > Previous(e, i)
        BY <3>1, <4>1, <4>5, <4>6
      <4> QED
        BY <2>3, <4>3, <4>4, <4>5, <4>7 DEF InSequence
    <3> QED
      BY <3>3, <3>4
  <2>5. ASSUME Content(e, i).out # NoReceipt, NEW j \in 1 .. (i - 1)
        PROVE  Content(e, j).out # Content(e, i).out
    <3>1. j \in 1 .. 13 /\ j < i
      OBVIOUS
    <3>2. Content(e, j) = Telling(f, h, Order(j)) /\ Order(j) \in Announcing
      BY <1>2, <3>1, OrderIs
    <3>3. Content(e, i).out = TellsOut(f, s) /\ Content(e, j).out = TellsOut(f, Order(j))
      BY <2>1, <3>2 DEF Telling
    <3>4. Order(j) < s /\ s <= 24
      BY <2>1, <3>1, OrderIs, PriorIs
    <3>5. Order(j) # s /\ Order(j) # 24
      <4>1. Order(j) \in 1 .. 24 /\ s \in 1 .. 24
        BY <2>1, <3>2, PriorIs
      <4> HIDE DEF s
      <4> QED
        BY <3>4, <4>1
    <3>6. \A x, y \in Executing : f[x] = f[y] => x = y
      BY ThroughAll
    <3>7. TellsOut(f, Order(j)) # TellsOut(f, s)
      BY <2>1, <3>2, <3>5, <3>6, OutOnce
    <3> QED
      BY <3>3, <3>7
  <2> HIDE DEF s
  <2> QED
    BY <2>3, <2>4, <2>5 DEF EventValid, Follows
<1>5. LoopComplete(e)
  <2>1. \A a \in Workers : At(e, a, Stage[Operation[a]]) # {}
    <3> SUFFICES ASSUME NEW a \in Workers PROVE At(e, a, Stage[Operation[a]]) # {}
      OBVIOUS
    <3>1. CASE a \in Proposers
      <4>1. Stage[Operation[a]] = "propose"
        BY <3>1, WhoProposes, OperationTable DEF Stage
      <4> QED
        BY <1>1, <3>1, <4>1, StatedAll
    <3>2. CASE a \notin Proposers
      <4>1. \E x \in Controlling \union {20} : a = Plan[x].actor
        BY <3>2, ToolTable, WhoControls DEF Controlling
      <4>2. PICK x \in Controlling \union {20} : a = Plan[x].actor
        BY <4>1
      <4> QED
        BY <1>1, <4>2, StatedAll
    <3> QED
      BY <3>1, <3>2
  <2>2. /\ Plan[1].actor = "manager" /\ Plan[1].what = "delegate"
        /\ Plan[24].actor = "manager" /\ Plan[24].what = "relay"
    BY PlanTable DEF Announce
  <2>3. 1 \in At(e, "manager", "delegate") /\ 13 \in At(e, "manager", "relay")
    <3>1. 1 \in 1 .. 13 /\ 13 \in 1 .. 13
      OBVIOUS
    <3>2. /\ At(e, Plan[Order(1)].actor, Plan[Order(1)].what) = {1}
          /\ At(e, Plan[Order(13)].actor, Plan[Order(13)].what) = {13}
      BY <1>1, <3>1, Positions
    <3>3. Order(1) = 1 /\ Order(13) = 24
      BY OrderIs
    <3> QED
      BY <2>2, <3>2, <3>3
  <2> QED
    BY <1>2, <2>1, <2>3 DEF LoopComplete
<1>6. Causal(e)
  <2>1. ProposerReceipts(e) = AgreedDigests /\ ControlReceipts(e) = {Ran(f[x]) : x \in Controlling}
        /\ DecisionReceipt(e) = Ran(f[20])
    BY <1>1, StatedAll
  <2>2. \A n : Ran(n) # NoReceipt
    BY DEF Ran, NoReceipt
  <2>3. AgreedDigests # {}
    BY WhoProposes DEF AgreedDigests, Agreed
  <2>4. ASSUME NEW a \in Controls
        PROVE  /\ OutputOf(e, a, Stage[Operation[a]]) # NoReceipt
               /\ AgreedDigests \subseteq InputsOf(e, a, Stage[Operation[a]])
    <3>1. \E x \in Controlling : a = Plan[x].actor
      BY ToolTable, WhoControls DEF Controlling
    <3>2. PICK x \in Controlling : a = Plan[x].actor
      BY <3>1
    <3>3. x \in Controlling \union {20}
      OBVIOUS
    <3>4. OutputOf(e, a, Stage[Operation[a]]) = Ran(f[x]) /\ InputsOf(e, a, Stage[Operation[a]]) = Consumes(f, x)
      BY <1>1, <3>2, <3>3, StatedAll
    <3>5. AgreedDigests \subseteq Consumes(f, x)
      <4>1. x \notin {2, 5}
        BY DEF Controlling
      <4> QED
        BY <4>1 DEF Consumes
    <3> QED
      BY <2>2, <3>4, <3>5
  <2>5. InputsOf(e, "rf-release-manager", "decide") = AgreedDigests \union {Ran(f[x]) : x \in Controlling}
    <3>1. Plan[20].actor = "rf-release-manager" /\ Stage[Operation["rf-release-manager"]] = "decide"
      BY ToolTable, OperationTable DEF Stage
    <3>2. 20 \in Controlling \union {20}
      OBVIOUS
    <3>3. InputsOf(e, "rf-release-manager", "decide") = Consumes(f, 20)
      BY <1>1, <3>1, <3>2, StatedAll
    <3> QED
      BY <3>3 DEF Consumes
  <2>6. Content(e, 13).in = {Ran(f[20])}
    <3>1. Content(e, 13) = Telling(f, h, 24)
      BY <1>2, OrderIs
    <3> QED
      BY <3>1 DEF Telling, TellsIn
  <2> QED
    BY <1>2, <2>1, <2>2, <2>3, <2>4, <2>5, <2>6 DEF Causal
<1> QED
  BY <1>2, <1>3, <1>4, <1>5, <1>6 DEF TraceValid

\* What a run that is through has made of its receipts.
LEMMA EndedAll ==
  ASSUME NEW f, NEW h, Through(f, h), NEW e, Ended(e, f, h)
  PROVE  /\ Traces(e, f, h) /\ e.run = ThisRun /\ e.session = Session /\ source = 0
         /\ \A a \in Actors : Home(a) \in e.running
         /\ \A x \in Executing : /\ f[x] \in Nat /\ Owed(f, x, receipts[f[x]])
                                 /\ Digest(receipts[f[x]]) = Ran(f[x]) /\ Plan[x].actor \in Actors
         /\ Bound.service \in Text /\ Repairing.old # Repairing.new
<1>1. Traces(e, f, h) /\ e.run = ThisRun /\ e.session = Session /\ e.running = Range(container)
  BY DEF Ended
<1>2. source = 0 /\ container = [a \in Actors |-> Home(a)]
  BY ThroughAll
<1>3. \A a \in Actors : Home(a) \in e.running
  BY <1>1, <1>2 DEF Range
<1>4. \A x \in Executing : /\ f[x] \in DOMAIN receipts /\ Owed(f, x, receipts[f[x]])
                           /\ Digest(receipts[f[x]]) = Ran(f[x])
  BY ThroughAll
<1>5. \A x \in Executing : f[x] \in Nat
  <2>1. DOMAIN receipts \subseteq Nat
    BY DEF Through, ReceiptsInv, Filed, IsSeq
  <2> QED
    BY <1>4, <2>1
<1>6. \A x \in Executing : Plan[x].actor \in Actors
  BY PlanTable, WhoProposes, WhoControls DEF Execute, Executing, Actors, Workers
<1>7. 2 \in Executing /\ 10 \in Executing /\ 10 \in Attesting
  BY DEF Executing, Attesting
<1>8. Bound.service \in Text
  BY <1>4, <1>7 DEF Owed
<1>9. Repairing.old # Repairing.new
  BY <1>4, <1>7 DEF Owed
<1> QED
  BY <1>1, <1>2, <1>3, <1>4, <1>5, <1>6, <1>8, <1>9

\* The receipts are of this session, run and source tree.
LEMMA ListedWell ==
  ASSUME NEW f, NEW h, Through(f, h), NEW e, Ended(e, f, h)
  PROVE  \A r \in Listed(e) : ReceiptValid(e, r, source)
<1>1. \A a \in DOMAIN e.skill : \E x \in Executing : e.skill[a] = receipts[f[x]]
  <2>1. 2 \in Executing /\ 5 \in Executing
    BY DEF Executing
  <2> QED
    BY <2>1, WhoProposes DEF Ended
<1>2. \E x \in Executing : e.cloud = receipts[f[x]]
  BY DEF Ended, Executing
<1>3. \A a \in DOMAIN e.role : \E x \in Executing : e.role[a] = receipts[f[x]]
  <2>1. \A a \in Workers \ Proposers : \E x \in Controlling \union {20} : a = Plan[x].actor
    BY ToolTable, WhoControls DEF Controlling
  <2>2. Controlling \union {20} \subseteq Executing
    BY DEF Controlling, Executing
  <2>3. DOMAIN e.role = Workers \ Proposers
        /\ \A x \in Controlling \union {20} : e.role[Plan[x].actor] = receipts[f[x]]
    BY DEF Ended
  <2> QED
    BY <2>1, <2>2, <2>3
<1>4. \A r \in Listed(e) : \E x \in Executing : r = receipts[f[x]]
  BY <1>1, <1>2, <1>3 DEF Listed
<1>5. ASSUME NEW x \in Executing
      PROVE  ReceiptValid(e, receipts[f[x]], source)
  <2> DEFINE r == receipts[f[x]]
  <2>1. Owed(f, x, r) /\ Plan[x].actor \in Actors
    BY EndedAll
  <2>2. /\ e.run = ThisRun /\ e.session = Session /\ source = 0
        /\ \A a \in Actors : Home(a) \in e.running
    BY EndedAll
  <2> HIDE DEF r
  <2>3. ReceiptValid(e, r, source)
    BY <2>1, <2>2 DEF Owed, ReceiptValid
  <2> QED
    BY <2>3 DEF r
<1> QED
  BY <1>4, <1>5

\* What the receipts of the proposers say.
LEMMA SkillSays ==
  ASSUME NEW f, NEW h, Through(f, h), NEW e, Ended(e, f, h), NEW a \in Proposers
  PROVE  /\ ProposalOf(e.skill[a]) = Proposing(a) /\ CandidateOf(e.skill[a]) = Repairing
         /\ ProposalOf(e.skill[a]).snapshot = Bound
         /\ \E x \in {2, 5} : /\ Plan[x].actor = a /\ e.skill[a] = receipts[f[x]]
                              /\ InputsOf(e, a, "propose") = {Ran(f[x])}
<1>1. PICK x \in {2, 5} : /\ Plan[x].actor = a /\ e.skill[a] = receipts[f[x]]
                          /\ InputsOf(e, a, "propose") = {Ran(f[x])}
  <2>1. /\ Plan[2].actor = "rf-proposer-a" /\ Plan[5].actor = "rf-proposer-b"
    BY ToolTable
  <2>2. /\ e.skill["rf-proposer-a"] = receipts[f[2]] /\ e.skill["rf-proposer-b"] = receipts[f[5]]
        /\ Traces(e, f, h)
    BY DEF Ended
  <2>3. /\ InputsOf(e, "rf-proposer-a", "propose") = {Ran(f[2])}
        /\ InputsOf(e, "rf-proposer-b", "propose") = {Ran(f[5])}
    BY <2>2, StatedAll
  <2> QED
    BY <2>1, <2>2, <2>3, WhoProposes
<1>2. receipts[f[x]].says = {Proposing(a)}
  <2>1. x \in Executing
    BY DEF Executing
  <2>2. Owed(f, x, receipts[f[x]])
    BY <2>1, EndedAll
  <2> QED
    BY <1>1, <2>2 DEF Owed
<1>3. ProposalOf(e.skill[a]) = Proposing(a)
  BY <1>1, <1>2 DEF ProposalOf
<1>4. Proposing(a).patch = Repairing /\ Proposing(a).snapshot = Bound
  BY DEF Proposing, Issue
<1> QED
  BY <1>1, <1>3, <1>4 DEF CandidateOf

\* The proposers announced their executions and the proposals these made, which agree.
LEMMA SkilledWell ==
  ASSUME NEW f, NEW h, Through(f, h), NEW e, Ended(e, f, h)
  PROVE  SkillsValid(e)
<1>1. /\ Traces(e, f, h) /\ e.run = ThisRun
      /\ Repairing.old # Repairing.new
  BY EndedAll
<1>2. OutputOf(e, "manager", "delegate") = TaskDigest(ThisRun) /\ InputsOf(e, "manager", "delegate") = {}
  BY <1>1, StatedAll
<1>3. \A a \in Proposers : OutputOf(e, a, "propose") = ProposalDigest(Proposing(a))
  BY <1>1, StatedAll
<1>4. ASSUME NEW a \in Proposers
      PROVE  SkillValid(e, a)
  <2> DEFINE r == e.skill[a]
  <2>1. /\ ProposalOf(r) = Proposing(a) /\ CandidateOf(r) = Repairing
        /\ \E x \in {2, 5} : /\ Plan[x].actor = a /\ r = receipts[f[x]]
                             /\ InputsOf(e, a, "propose") = {Ran(f[x])}
    BY SkillSays
  <2>2. PICK x \in {2, 5} : /\ Plan[x].actor = a /\ r = receipts[f[x]]
                            /\ InputsOf(e, a, "propose") = {Ran(f[x])}
    BY <2>1
  <2>3. x \in Executing
    BY DEF Executing
  <2>4. Owed(f, x, r) /\ Digest(r) = Ran(f[x])
    BY <2>2, <2>3, EndedAll
  <2>5. Tool(Plan[x].what) = "skill"
    BY ToolTable
  <2>6. r.tool = "skill" /\ r.actor = a /\ r.exit = 0
    BY <2>2, <2>4, <2>5 DEF Owed
  <2>7. /\ x + 1 \in Announcing /\ Plan[x + 1].actor = Plan[x].actor
        /\ Plan[x + 1].what = "tool_execute"
    BY PlanTable DEF Announcing, Announce, Execute
  <2>8. TellsOut(f, x + 1) = Ran(f[x]) /\ TellsIn(f, x + 1) = {TaskDigest(ThisRun)}
    BY DEF TellsOut, TellsIn
  <2> HIDE DEF r
  <2>9. \E i \in DOMAIN e.trace :
           /\ i \in At(e, Plan[x + 1].actor, Plan[x + 1].what)
           /\ i \in AnnouncedAt(e, r) /\ Content(e, i).in = TellsIn(f, x + 1)
    <3> DEFINE s == x + 1
    <3>1. s \in Announcing
      BY <2>7
    <3>2. Digest(r) = TellsOut(f, s)
      BY <2>4, <2>8
    <3> HIDE DEF s
    <3>3. \E i \in DOMAIN e.trace :
           /\ i \in At(e, Plan[s].actor, Plan[s].what)
           /\ i \in AnnouncedAt(e, r) /\ Content(e, i).in = TellsIn(f, s)
      BY <1>1, <3>1, <3>2, Placed
    <3> QED
      BY <3>3 DEF s
  <2>10. \E i \in AnnouncedAt(e, r) \intersect At(e, a, "tool_execute") :
           Content(e, i).in = {OutputOf(e, "manager", "delegate")}
    BY <1>2, <2>2, <2>7, <2>8, <2>9
  <2> QED
    BY <1>1, <1>3, <2>1, <2>2, <2>4, <2>6, <2>10 DEF SkillValid, r
<1>5. \A a, b \in Proposers : CandidateOf(e.skill[a]) = CandidateOf(e.skill[b])
  BY SkillSays
<1> QED
  BY <1>1, <1>2, <1>4, <1>5 DEF SkillsValid

\* The preflight was announced with what it consumed.
LEMMA CloudedWell ==
  ASSUME NEW f, NEW h, Through(f, h), NEW e, Ended(e, f, h)
  PROVE  CloudValid(e)
<1> DEFINE r == e.cloud
<1>1. Traces(e, f, h) /\ r = receipts[f[8]]
  BY EndedAll DEF Ended
<1>2. 8 \in Executing /\ 9 \in Announcing
  BY DEF Executing, Announcing
<1>3. Owed(f, 8, r) /\ Digest(r) = Ran(f[8])
  BY <1>1, <1>2, EndedAll
<1>4. ProposerReceipts(e) = AgreedDigests
  BY <1>1, StatedAll
<1>5. /\ Plan[8].actor = "rf-verifier" /\ Tool(Plan[8].what) = "cloud"
      /\ Operation["rf-verifier"] = "verifier"
  BY ToolTable, OperationTable
<1>6. Plan[9].actor = "rf-verifier" /\ Plan[9].what = "tool_execute"
  BY PlanTable DEF Announce
<1>7. Consumes(f, 8) = AgreedDigests
  BY DEF Consumes
<1>8. TellsOut(f, 9) = Ran(f[8]) /\ TellsIn(f, 9) = Consumes(f, 8)
  BY DEF TellsOut, TellsIn
<1> HIDE DEF r
<1>9. r.tool = "cloud" /\ r.exit = 2 /\ r.in = AgreedDigests /\ r.actor = "rf-verifier"
  BY <1>3, <1>5, <1>7 DEF Owed
<1>10. \E i \in AnnouncedAt(e, r) \intersect At(e, "rf-verifier", "tool_execute") :
          Content(e, i).in = AgreedDigests
  <2>1. \E i \in DOMAIN e.trace :
           /\ i \in At(e, Plan[9].actor, Plan[9].what)
           /\ i \in AnnouncedAt(e, r) /\ Content(e, i).in = TellsIn(f, 9)
    BY <1>1, <1>2, <1>3, <1>8, Placed
  <2> QED
    BY <1>6, <1>7, <1>8, <2>1
<1> QED
  BY <1>4, <1>5, <1>9, <1>10 DEF CloudValid, r

\* The receipt listed for the Worker of step x.
LEMMA RoleIs ==
  ASSUME NEW f, NEW h, Through(f, h), NEW e, Ended(e, f, h), NEW x \in Controlling \union {20},
         NEW a, a = Plan[x].actor
  PROVE  /\ e.role[a] = receipts[f[x]] /\ Owed(f, x, e.role[a]) /\ Digest(e.role[a]) = Ran(f[x])
         /\ e.role[a].tool = "role" /\ e.role[a].actor = a /\ e.role[a].exit = 0
         /\ e.role[a].in = Consumes(f, x)
         /\ e.role[a].run = ThisRun
         /\ e.role[a].candidate = Repairing /\ e.role[a].snapshot = Bound
<1>1. x \in Executing
  BY HelperTurn
<1>2. e.role[a] = receipts[f[x]]
  BY DEF Ended
<1>3. Owed(f, x, e.role[a]) /\ Digest(e.role[a]) = Ran(f[x])
  BY <1>1, <1>2, EndedAll
<1>4. Tool(Plan[x].what) = "role"
  BY ToolTable
<1>5. x # 8 /\ x \notin {2, 5}
  BY DEF Controlling
<1> QED
  BY <1>2, <1>3, <1>4, <1>5 DEF Owed

\* The helpers were announced with what they consumed, which is what they had to.
LEMMA RolesWell ==
  ASSUME NEW f, NEW h, Through(f, h), NEW e, Ended(e, f, h)
  PROVE  RolesValid(e)
<1>1. Traces(e, f, h) /\ DOMAIN e.role = Workers \ Proposers /\ e.cloud = receipts[f[8]]
  BY DEF Ended
<1>2. ProposerReceipts(e) = AgreedDigests
  BY <1>1, StatedAll
<1>3. \A a \in Workers \ Proposers : \E x \in Controlling \union {20} : a = Plan[x].actor
  BY ToolTable, WhoControls DEF Controlling
<1>4. Digest(e.cloud) = Ran(f[8])
  <2>1. 8 \in Executing
    BY DEF Executing
  <2> QED
    BY <1>1, <2>1, EndedAll
<1>5. {Digest(e.role[c]) : c \in Controls} = {Ran(f[x]) : x \in Controlling}
  <2>1. \A c \in Controls : \E x \in Controlling : c = Plan[x].actor
    BY ToolTable, WhoControls DEF Controlling
  <2>2. \A x \in Controlling : Plan[x].actor \in Controls
    BY ToolTable, WhoControls DEF Controlling
  <2>3. \A x \in Controlling : Digest(e.role[Plan[x].actor]) = Ran(f[x])
    BY RoleIs
  <2> QED
    BY <2>1, <2>2, <2>3
<1>6. ASSUME NEW a \in Workers \ Proposers
      PROVE  RoleValid(e, a) /\ e.role[a].in = ExpectedInputs(e, a)
  <2>1. PICK x \in Controlling \union {20} : a = Plan[x].actor
    BY <1>3
  <2> DEFINE r == e.role[a]
             s == x + 1
  <2>2. /\ Digest(r) = Ran(f[x]) /\ r.tool = "role" /\ r.actor = a /\ r.exit = 0
        /\ r.in = Consumes(f, x)
    BY <2>1, RoleIs
  <2>3. /\ s \in Announcing /\ Plan[s].actor = a
        /\ TellsOut(f, s) = Ran(f[x]) /\ TellsIn(f, s) = Consumes(f, x)
    BY <2>1, HelperTurn
  <2> HIDE DEF r, s
  <2>4. \E i \in DOMAIN e.trace : /\ i \in AnnouncedAt(e, r) /\ Content(e, i).in = TellsIn(f, s)
                                  /\ Content(e, i).actor = Plan[s].actor
    BY <1>1, <2>2, <2>3, Placed
  <2>5. \E i \in AnnouncedAt(e, r) : Content(e, i).in = r.in /\ Content(e, i).actor = a
    BY <2>2, <2>3, <2>4
  <2>6. RoleValid(e, a)
    BY <2>2, <2>5 DEF RoleValid, r
  <2>7. r.in = ExpectedInputs(e, a)
    <3>1. CASE a = "rf-verifier"
      <4>1. x = 10
        BY <2>1, <3>1, ToolTable DEF Controlling
      <4>2. Consumes(f, 10) = AgreedDigests \union {Ran(f[8])}
        BY DEF Consumes
      <4>3. a \in Controls /\ a # "rf-release-manager"
        BY <3>1, WhoControls
      <4> QED
        BY <1>2, <1>4, <2>2, <3>1, <4>1, <4>2, <4>3 DEF ExpectedInputs
    <3>2. CASE a \in Controls \ {"rf-verifier"}
      <4>1. x \notin {2, 5, 10, 20}
        BY <2>1, <3>2, ToolTable, WhoControls DEF Controlling
      <4>2. Consumes(f, x) = AgreedDigests
        BY <4>1 DEF Consumes
      <4>3. a # "rf-release-manager"
        BY <3>2, WhoControls
      <4> QED
        BY <1>2, <2>2, <3>2, <4>2, <4>3 DEF ExpectedInputs
    <3>3. CASE a = "rf-release-manager"
      <4>1. x = 20
        BY <2>1, <3>3, HelperTurn
      <4>2. Consumes(f, 20) = AgreedDigests \union {Ran(f[y]) : y \in Controlling}
        BY DEF Consumes
      <4>3. a \notin Controls /\ a # "rf-verifier"
        BY <3>3, WhoControls
      <4> QED
        BY <1>2, <1>5, <2>2, <3>3, <4>1, <4>2, <4>3 DEF ExpectedInputs
    <3> QED
      BY <3>1, <3>2, <3>3, WhoControls
  <2> QED
    BY <2>6, <2>7 DEF r
<1> QED
  BY <1>1, <1>6 DEF RolesValid

\* What the receipts of the attesting executions say.
LEMMA RoleAttests ==
  ASSUME NEW f, NEW h, Through(f, h), NEW e, Ended(e, f, h)
  PROVE  /\ \A x \in Attesting : AttestationOf(e.role[Plan[x].actor]) = Attestation(x, f[x])
         /\ Attestations(e) = Testimony(f)
         /\ \A a \in Attesters : \E x \in Attesting : a = Plan[x].actor
<1>1. ASSUME NEW x \in Attesting
      PROVE  AttestationOf(e.role[Plan[x].actor]) = Attestation(x, f[x])
  <2> DEFINE r == e.role[Plan[x].actor]
  <2>1. x \in Controlling \union {20}
    BY DEF Attesting, Controlling
  <2>2. Owed(f, x, r)
    BY <2>1, RoleIs
  <2> HIDE DEF r
  <2>3. r.says = {Attestation(x, f[x])}
    BY <2>2 DEF Owed
  <2> QED
    BY <2>3 DEF AttestationOf, r
<1>2. \A a \in Attesters : \E x \in Attesting : a = Plan[x].actor
  BY AttestingTable, WhoControls DEF Attesting
<1>3. \A x \in Attesting : Plan[x].actor \in Attesters
  BY AttestingTable, WhoControls DEF Attesting
<1>4. Attestations(e) = Testimony(f)
  BY <1>1, <1>2, <1>3 DEF Attestations, Testimony
<1> QED
  BY <1>1, <1>2, <1>4

\* What the record is about.
LEMMA RecordAbout ==
  ASSUME NEW f, NEW h, Through(f, h), NEW e, Ended(e, f, h)
  PROVE  /\ BoundSnapshot(e) = Bound /\ Converging(e) = Repairing /\ Proposals(e) = Agreed
<1>1. "rf-proposer-a" \in Proposers
  BY WhoProposes
<1>2. \A a \in Proposers : ProposalOf(e.skill[a]) = Proposing(a)
  BY SkillSays
<1>3. Proposals(e) = Agreed
  BY <1>2 DEF Proposals, Agreed
<1> QED
  BY <1>1, <1>3, SkillSays DEF BoundSnapshot, Converging

\* The attestations approve the candidate.
LEMMA AttestedWell ==
  ASSUME Repairable, NEW f, NEW h, Through(f, h), NEW e, Ended(e, f, h)
  PROVE  \A a \in Attesters : AttestationValid(e, a)
<1> SUFFICES ASSUME NEW a \in Attesters PROVE AttestationValid(e, a)
  OBVIOUS
<1>1. PICK x \in Attesting : a = Plan[x].actor
  BY RoleAttests
<1> DEFINE t == AttestationOf(e.role[a])
<1>2. t = Attestation(x, f[x])
  BY <1>1, RoleAttests
<1>3. Bound.service \in Text /\ f[x] \in Nat
  <2>1. x \in Executing
    BY DEF Attesting, Executing
  <2> QED
    BY <2>1, EndedAll
<1>4. /\ t.actor = Plan[x].actor /\ t.role = Plan[x].what /\ t.verdict = "approve"
      /\ t.binding.run = ThisRun /\ t.binding.snapshot = Bound
      /\ t.binding.candidate = Repairing
      /\ t.binding.kind = Gate!EXPECTED_EVIDENCE[Plan[x].what]
      /\ Gate!AttestationIntegrity(t)
      /\ t.binding.artifact.passed /\ ~t.binding.artifact.risk
  <2> DEFINE n == f[x]
  <2>1. n \in Nat /\ t = Attestation(x, n)
    BY <1>2, <1>3
  <2> HIDE DEF n, t
  <2> QED
    BY <1>3, <2>1, Vouched
<1>5. Plan[x].what = MEMBERS[a]
  BY <1>1, AttestingTable
<1>6. e.run = ThisRun /\ BoundSnapshot(e) = Bound /\ Converging(e) = Repairing
  BY EndedAll, RecordAbout
<1> HIDE DEF t
<1>7. /\ t.actor = a /\ t.role = MEMBERS[a] /\ t.verdict = "approve"
      /\ Gate!AttestationIntegrity(t)
      /\ t.binding.run = e.run /\ t.binding.snapshot = BoundSnapshot(e)
      /\ t.binding.candidate = Converging(e)
      /\ t.binding.kind = Gate!EXPECTED_EVIDENCE[t.role]
      /\ IF a = "rf-governor" THEN ~t.binding.artifact.risk ELSE t.binding.artifact.passed
  BY <1>1, <1>4, <1>5, <1>6
<1> QED
  BY <1>7 DEF AttestationValid, t

\* The review is of the proposals, and the gate releases on what the Release Manager was given.
LEMMA ReleasedWell ==
  ASSUME Repairable, NEW f, NEW h, Through(f, h), NEW e, Ended(e, f, h)
  PROVE  ReviewValid(e) /\ ReleaseValid(e)
<1>1. 14 \in Controlling \union {20} /\ 20 \in Controlling \union {20}
  BY DEF Controlling
<1>2. Plan[14].actor = "rf-lead" /\ Plan[20].actor = "rf-release-manager"
  BY ToolTable
<1>3. /\ e.run = ThisRun /\ BoundSnapshot(e) = Bound /\ Converging(e) = Repairing
      /\ Proposals(e) = Agreed /\ Attestations(e) = Testimony(f)
  BY EndedAll, RecordAbout, RoleAttests
<1>4. ReviewValid(e)
  <2> DEFINE r == e.role["rf-lead"]
  <2>1. r.candidate = Repairing /\ r.in = Consumes(f, 14)
    BY <1>1, <1>2, RoleIs
  <2>2. Consumes(f, 14) = AgreedDigests
    BY DEF Consumes
  <2>3. ProposerReceipts(e) = AgreedDigests
    BY EndedAll, StatedAll
  <2> QED
    BY <1>3, <2>1, <2>2, <2>3 DEF ReviewValid
<1>5. ReleaseValid(e)
  <2> DEFINE r == e.role["rf-release-manager"]
  <2>1. /\ Owed(f, 20, r) /\ r.run = ThisRun /\ r.snapshot = Bound /\ r.candidate = Repairing
        /\ r.actor = "rf-release-manager"
    BY <1>1, <1>2, RoleIs
  <2>2. r.proposals = Agreed /\ r.attestations = Testimony(f) /\ r.decision = "release"
    BY <2>1 DEF Owed
  <2> HIDE DEF r
  <2>3. Request(r) = Asking
    BY <2>1 DEF Request, Asking
  <2>4. Gate!Authorized(Asking, Agreed, Testimony(f))
    <3>1. Bound.service \in Text /\ \A x \in Attesting : f[x] \in Nat
      <4>1. Attesting \subseteq Executing
        BY DEF Attesting, Executing
      <4> QED
        BY <4>1, EndedAll
    <3> QED
      BY <3>1, GateReleases
  <2> QED
    BY <1>3, <2>1, <2>2, <2>3, <2>4 DEF ReleaseValid, DecisionReplays, r
<1> QED
  BY <1>4, <1>5

\* The final event is the decision.
LEMMA TerminatedWell ==
  ASSUME NEW f, NEW h, Through(f, h), NEW e, Ended(e, f, h)
  PROVE  TerminalValid(e)
<1>1. Traces(e, f, h) /\ e.terminal = 12
  BY DEF Ended
<1>2. 12 \in 1 .. 13 /\ Order(12) = 21
  BY DEF Order
<1>3. Plan[21].actor = "rf-release-manager" /\ Plan[21].what = "decide"
  BY PlanTable DEF Announce
<1>4. 12 \in At(e, "rf-release-manager", "decide")
  BY <1>1, <1>2, <1>3, Positions
<1>5. Content(e, 12) = Telling(f, h, 21)
  BY <1>1, <1>2, Traced
<1>6. Telling(f, h, 21).out = Ran(f[20]) /\ Telling(f, h, 21).decision = "release"
  <2>1. TellsOut(f, 21) = Ran(f[20])
    BY DEF TellsOut
  <2> QED
    BY <2>1 DEF Telling
<1>7. DecisionReceipt(e) = Ran(f[20])
  BY <1>1, StatedAll
<1>8. e.role["rf-release-manager"].decision = "release"
  <2>1. 20 \in Controlling \union {20} /\ Plan[20].actor = "rf-release-manager"
    BY ToolTable
  <2>2. Owed(f, 20, e.role["rf-release-manager"])
    BY <2>1, RoleIs
  <2> QED
    BY <2>2 DEF Owed
<1> QED
  BY <1>1, <1>4, <1>5, <1>6, <1>7, <1>8 DEF TerminalValid

\* Both probes are in the record.
LEMMA ProbedWell ==
  ASSUME NEW f, NEW h, Through(f, h), NEW e, Ended(e, f, h)
  PROVE  ProbesValid(e)
<1>1. e.probes = probes /\ e.run = ThisRun /\ e.session = Session
  BY DEF Ended
<1>2. \A s \in {22, 23} : [kind |-> Plan[s].what, session |-> Session, run |-> ThisRun,
                           container |-> Home(Plan[s].actor)] \in probes
  <2>1. Probed
    BY ThroughAll
  <2>2. {22, 23} \subseteq done
    BY DEF Through
  <2> QED
    BY <2>1, <2>2 DEF Probed
<1>3. /\ Plan[22].what = "acl" /\ Plan[22].actor = "rf-lead"
      /\ Plan[23].what = "gateway" /\ Plan[23].actor = "manager"
  BY PlanTable
<1>4. Home("rf-lead") \in e.running
  <2>1. "rf-lead" \in Actors
    BY WhoControls DEF Actors, Workers
  <2> QED
    BY <2>1, EndedAll
<1> QED
  BY <1>1, <1>2, <1>3, <1>4 DEF ProbesValid

\* Nothing is wrong with the record of such a run.
LEMMA EndedWell ==
  ASSUME Repairable, NEW f, NEW h, Through(f, h), NEW e, Ended(e, f, h)
  PROVE  Valid(e, source)
BY RunsWell, ExportedWell, TracedWell, ListedWell, SkilledWell, CloudedWell, RolesWell,
   AttestedWell, ReleasedWell, TerminatedWell, ProbedWell DEF Valid

-------------------------------------------------------------------------------
(* The operator can assemble that record.                                  *)

\* Each execution is announced.
LEMMA AllAnnounced ==
  ASSUME NEW f, NEW h, Through(f, h), NEW t, t = Trace(f, h, 13), NEW x \in Executing,
         NEW a, NEW tool, a = Plan[x].actor, tool = Tool(Plan[x].what)
  PROVE  receipts[f[x]] \in AnnouncedBy(t, a, tool)
<1> DEFINE e == [trace |-> t]
           s == x + 1
           r == receipts[f[x]]
<1>1. Traces(e, f, h) /\ e.trace = t
  BY DEF Traces
<1>2. s \in Announcing /\ s \notin {1, 4, 7, 24}
  BY DEF Executing, Announcing
<1>3. TellsOut(f, s) = Ran(f[x])
  <2>1. s - 1 = x
    BY DEF Executing
  <2> HIDE DEF s
  <2> QED
    BY <1>2, <2>1 DEF TellsOut
<1>4. f[x] \in DOMAIN receipts /\ Owed(f, x, r) /\ Digest(r) = Ran(f[x])
  BY ThroughAll
<1>5. r \in Range(receipts)
  BY <1>4 DEF Range
<1>6. r.actor = a /\ r.tool = tool
  BY <1>4 DEF Owed
<1> HIDE DEF e, s, r
<1>7. \E i \in DOMAIN e.trace : i \in AnnouncedAt(e, r)
  BY <1>1, <1>2, <1>3, <1>4, Placed
<1>8. \E i \in DOMAIN t : t[i].content.out = Digest(r)
  BY <1>1, <1>7 DEF AnnouncedAt, Content
<1>9. r \in AnnouncedBy(t, a, tool)
  BY <1>5, <1>6, <1>8 DEF AnnouncedBy
<1> QED
  BY <1>9 DEF r

\* The receipts of the role helper.
Helping(f) == {receipts[f[x]] : x \in Controlling \union {20}}

\* They are six, one of each Worker that runs the helper.
LEMMA HelpingIs ==
  ASSUME NEW f, NEW h, Through(f, h), NEW t, t = Trace(f, h, 13)
  PROVE  /\ Helping(f) \in Helpers(t)
         /\ DOMAIN RoleReceipts(Helping(f)) = Workers \ Proposers
         /\ \A x \in Controlling \union {20} :
              RoleReceipts(Helping(f))[Plan[x].actor] = receipts[f[x]]
<1> DEFINE S == Helping(f)
           X == Controlling \union {20}
           announced == UNION {AnnouncedBy(t, a, "role") : a \in Workers \ Proposers}
<1>1. \A x \in X : /\ x \in Executing /\ Plan[x].actor \in Workers \ Proposers
                   /\ Tool(Plan[x].what) = "role" /\ receipts[f[x]].actor = Plan[x].actor
  <2>1. \A x \in X : x \in Executing /\ Plan[x].actor \in Workers \ Proposers /\ Tool(Plan[x].what) = "role"
    BY HelperTurn, ToolTable
  <2>2. \A x \in Executing : Owed(f, x, receipts[f[x]])
    BY ThroughAll
  <2>3. \A x \in Executing : receipts[f[x]].actor = Plan[x].actor
    BY <2>2 DEF Owed
  <2> QED
    BY <2>1, <2>3
<1>2. \A a \in Workers \ Proposers : \E x \in X : a = Plan[x].actor
  BY ToolTable, WhoControls DEF Controlling
<1>3. \A x, y \in X : Plan[x].actor = Plan[y].actor => x = y
  BY <1>1, ExecutedOnce
<1>4. \A r \in S : \E x \in X : r = receipts[f[x]]
  BY DEF Helping
<1>5. \A x \in X : receipts[f[x]] \in S
  BY DEF Helping
<1>6. \A x \in X : receipts[f[x]] \in AnnouncedBy(t, Plan[x].actor, "role")
  BY <1>1, AllAnnounced
<1> HIDE DEF S
<1>7. S \subseteq announced
  BY <1>1, <1>4, <1>6
<1>8. {r.actor : r \in S} = Workers \ Proposers
  <2> HIDE DEF X
  <2> QED
    BY <1>1, <1>2, <1>4, <1>5
<1>9. Cardinality(S) = 6
  <2> DEFINE g == [j \in 1 .. 6 |-> receipts[f[2 * j + 8]]]
  <2>1. /\ \A j \in 1 .. 6 : 2 * j + 8 \in X
        /\ \A x \in X : \E j \in 1 .. 6 : x = 2 * j + 8
    <3>1. \A j \in 1 .. 6 : 2 * j + 8 \in X
      BY DEF Controlling
    <3>2. /\ 10 = 2 * 1 + 8 /\ 12 = 2 * 2 + 8 /\ 14 = 2 * 3 + 8 /\ 16 = 2 * 4 + 8
          /\ 18 = 2 * 5 + 8 /\ 20 = 2 * 6 + 8
      OBVIOUS
    <3>3. \A x \in X : x \in {2 * j + 8 : j \in 1 .. 6}
      BY <3>2 DEF Controlling
    <3> QED
      BY <3>1, <3>3
  <2>2. \A j \in 1 .. 6 : g[j] = receipts[f[2 * j + 8]]
    OBVIOUS
  <2>3. g = [j \in 1 .. 6 |-> g[j]]
    OBVIOUS
  <2> HIDE DEF g, X
  <2>4. g \in [1 .. 6 -> S]
    BY <1>5, <2>1, <2>2, <2>3
  <2>5. \A j, k \in 1 .. 6 : g[j] = g[k] => j = k
    <3> SUFFICES ASSUME NEW j \in 1 .. 6, NEW k \in 1 .. 6, g[j] = g[k] PROVE j = k
      OBVIOUS
    <3>1. Plan[2 * j + 8].actor = Plan[2 * k + 8].actor
      BY <1>1, <2>1, <2>2
    <3>2. 2 * j + 8 = 2 * k + 8
      BY <1>3, <2>1, <3>1
    <3> QED
      BY <3>2
  <2>6. \A r \in S : \E j \in 1 .. 6 : r = g[j]
    BY <1>4, <2>1, <2>2
  <2>7. g \in Bijection(1 .. 6, S)
    BY <2>4, <2>5, <2>6 DEF Bijection, Injection, Surjection, IsInjective
  <2>8. IsFiniteSet(1 .. 6) /\ Cardinality(1 .. 6) = 6
    <3>1. 1 \in Int /\ 6 \in Int /\ ~(1 > 6) /\ 6 - 1 + 1 = 6
      OBVIOUS
    <3> QED
      BY <3>1, FS_Interval
  <2>9. ExistsBijection(1 .. 6, S)
    BY <2>7 DEF ExistsBijection
  <2> QED
    BY <2>8, <2>9, FS_Bijection
<1>10. S \in Helpers(t)
  BY <1>7, <1>8, <1>9 DEF Helpers
<1>11. DOMAIN RoleReceipts(S) = Workers \ Proposers
  BY DEF RoleReceipts
<1>12. ASSUME NEW x \in X
       PROVE  RoleReceipts(S)[Plan[x].actor] = receipts[f[x]]
  <2> DEFINE a == Plan[x].actor
             r == CHOOSE q \in S : q.actor = a
  <2>1. a \in Workers \ Proposers /\ receipts[f[x]] \in S /\ receipts[f[x]].actor = a
    BY <1>1, <1>5
  <2> HIDE DEF a
  <2>2. r \in S /\ r.actor = a
    BY <2>1
  <2>3. RoleReceipts(S)[a] = r
    BY <2>1 DEF RoleReceipts
  <2> HIDE DEF r, X
  <2>4. PICK y \in X : r = receipts[f[y]]
    BY <1>4, <2>2
  <2>5. y = x
    BY <1>1, <1>3, <2>2, <2>4 DEF a
  <2> QED
    BY <2>3, <2>4, <2>5 DEF a
<1> QED
  BY <1>10, <1>11, <1>12 DEF S

\* The decision is the twelfth event.
LEMMA DecidedTwelfth ==
  ASSUME NEW f, NEW h, NEW t, t = Trace(f, h, 13)
  PROVE  Min({i \in DOMAIN t : t[i].content.stage = "decide"}) = 12
<1>1. DOMAIN t = 1 .. 13 /\ \A j \in 1 .. 13 : t[j].content = Telling(f, h, Order(j))
  BY DEF Trace, Entry
<1>2. \A j \in 1 .. 13 : t[j].content.stage = Plan[Order(j)].what
  BY <1>1 DEF Telling
<1>3. \A s \in Announcing : Plan[s].what = "decide" <=> s = 21
  BY PlanTable DEF Announcing, Announce
<1>4. \A j \in 1 .. 13 : Order(j) = 21 <=> j = 12
  BY DEF Order
<1>5. \A j \in 1 .. 13 : t[j].content.stage = "decide" <=> j = 12
  BY <1>2, <1>3, <1>4, OrderIs
<1>6. {i \in DOMAIN t : t[i].content.stage = "decide"} = {12}
  BY <1>1, <1>5
<1>7. Min({12}) = 12
  BY MinOne
<1> QED
  BY <1>6, <1>7

\* The record of a run that is through is one of those the operator can assemble.
LEMMA RecordEnds ==
  ASSUME NEW f, NEW h, Through(f, h)
  PROVE  \E e \in Records : Ended(e, f, h)
<1> DEFINE t == Trace(f, h, 13)
           S == Helping(f)
           e == Record(t, ExportOf(t), receipts[f[2]], receipts[f[5]], receipts[f[8]],
                       RoleReceipts(S))
           i == h[24]
<1>1. Chain[i] = t /\ i \in DOMAIN room
  <2> DEFINE d == [trace |-> t]
  <2>1. Traces(d, f, h)
    BY DEF Traces
  <2> QED
    BY <2>1, TraceInOrder
<1>2. room[i].content.stage = "relay"
  <2>1. 24 \in Announcing /\ 24 \in done /\ Plan[24].what = "relay"
    BY PlanTable DEF Announcing, Announce, Through
  <2>2. room[h[24]].content = Telling(f, h, 24)
    BY <2>1, ThroughAll DEF Spoken
  <2> QED
    BY <2>1, <2>2 DEF Telling
<1>3. /\ S \in Helpers(t) /\ DOMAIN RoleReceipts(S) = Workers \ Proposers
      /\ \A x \in Controlling \union {20} : RoleReceipts(S)[Plan[x].actor] = receipts[f[x]]
  BY HelpingIs
<1>4. /\ receipts[f[2]] \in AnnouncedBy(t, "rf-proposer-a", "skill")
      /\ receipts[f[5]] \in AnnouncedBy(t, "rf-proposer-b", "skill")
      /\ receipts[f[8]] \in AnnouncedBy(t, "rf-verifier", "cloud")
  <2>1. 2 \in Executing /\ 5 \in Executing /\ 8 \in Executing
    BY DEF Executing
  <2> QED
    BY <2>1, AllAnnounced, ToolTable
<1>5. Min({j \in DOMAIN t : t[j].content.stage = "decide"}) = 12
  BY DecidedTwelfth
<1>6. source = 0
  BY ThroughAll
<1>7. t = Trace(f, h, 13)
  OBVIOUS
<1> HIDE DEF t, S, i
<1>8. e \in RecordsOf(t)
  BY <1>3, <1>4 DEF RecordsOf
<1>9. e \in Records
  <2> HIDE DEF e
  <2> QED
    BY <1>1, <1>2, <1>8 DEF Records
<1>10. /\ e.run = ThisRun /\ e.session = Session /\ e.source = source
       /\ e.component = container /\ e.running = Range(container)
       /\ e.trace = t /\ e.export = ExportOf(t)
       /\ e.skill = [a \in Proposers |-> IF a = "rf-proposer-a" THEN receipts[f[2]] ELSE receipts[f[5]]]
       /\ e.cloud = receipts[f[8]] /\ e.role = RoleReceipts(S)
       /\ e.terminal = Min({j \in DOMAIN t : t[j].content.stage = "decide"})
       /\ e.probes = probes
  BY DEF Record
<1> HIDE DEF e
<1>11. /\ DOMAIN e.skill = Proposers
       /\ e.skill["rf-proposer-a"] = receipts[f[2]] /\ e.skill["rf-proposer-b"] = receipts[f[5]]
  BY <1>10, WhoProposes
<1>12. Ended(e, f, h)
  BY <1>3, <1>5, <1>6, <1>7, <1>10, <1>11 DEF Ended, Traces
<1> QED
  BY <1>9, <1>12

\* When every step is done there is a record without failures.
LEMMA SmoothEnd == RunInv /\ Smooth => FaultsDoNotSpoil
<1> SUFFICES ASSUME RunInv, Smooth, Repairable, Completed, mistakes = 0
             PROVE  \E e \in Records : Valid(e, source)
  BY DEF FaultsDoNotSpoil
<1>1. PICK f, h : Steady(f, h)
  BY DEF Smooth
<1>2. done = 1 .. 24
  BY PlanTable DEF Completed
<1>3. Through(f, h)
  BY <1>1, <1>2 DEF Through, RunInv
<1>4. PICK e \in Records : Ended(e, f, h)
  BY <1>3, RecordEnds
<1>5. Valid(e, source)
  BY <1>3, <1>4, EndedWell
<1> QED
  BY <1>5

\* Faults alone never spoil a run: however executions were killed and sends unanswered or late,
\* when every step of the plan is done there is a record in which no failure is found, if the skill
\* repairs the tree the run is about.
THEOREM FaultsNeverSpoil == Spec => []FaultsDoNotSpoil
<1>1. Spec => []RunInv
  BY LiveRunInvariant
<1>2. Spec => []Smooth
  BY SmoothRun
<1> QED
  BY <1>1, <1>2, SmoothEnd, PTL

===============================================================================

# RemedyFabric in TLA+

RemedyFabric repairs a Python repository with a team of agents, some of which may
be faulty.  Workers propose patches, control actors (two Verifiers, a Challenger,
a Governor) judge a staged copy, a Release Manager asks a quorum gate for the
release, and a transactional writer applies an authorized patch to the governed
workspace, which is kept if the tests pass and restored otherwise.  This directory
holds TLA+ modules of that core and of the ways its results leave the machine - a
live run with the AgentTeams runtime, the published evidence, the release archive -,
the TLC runs that check them on small instances and the TLAPS proofs of what holds on
all of them.  Paths below are relative to
the repository; the code is under `src/remedyfabric/` and `scripts/`.

## 1. Inventory

| Component | State | Operations | What is hard | What makes it correct |
|---|---|---|---|---|
| Quorum gate: `quorum.py`, `faults.py` | registry of members and roles, thresholds; per call the accumulators of two loops | `evaluate` | messages in any order and number, some stale, forged, contradictory or under a borrowed role | the decision is a function of the set of messages; one honest Worker endorsed; nobody counted twice; nothing outvoted |
| Proposal ingress: `resilient.py` `validate_and_select_proposals` | valid proposals, per-Worker groups, endorsers | quarantine, group, select | must drop exactly what the gate would object to | an honest quorum prevails; no faulty Worker can veto |
| Candidate application: `skills.py` `apply_candidate` | the file system, temporary files, what was replaced and created | validate, stage, validate again, rename, undo | any system call may fail, interrupts, kills, another process | all or nothing |
| Resilient trial: `resilient.py` `_run_trial` | governed workspace, snapshot, staging copy, messages, decision, receipt | one trial from fault injection to receipt | eleven Worker and eight control faults in combination, timeouts, I/O failures at every stage | no unsafe release, no write without evidence, released or restored, tolerated faults recovered |
| Workspace snapshot: `snapshot.py` | contents and modes of the files | `capture`, `restore`, `matches` | foreign links, special files, failures half-way | a finished restore matches |
| Recovery fabric: `orchestrator.py`, `agents.py` | workspace, snapshot, run result | `run` under five ablation profiles | failures between apply, ledger and rollback | outcome says what the workspace holds |
| Evidence ledger: `ledger.py` | sequence, previous hash, the journal | `append`, `verify_ledger` | failed and torn appends | a journal written by surviving appends verifies |
| Policy, executors: `policy.py`, `executor.py`, `container_executor.py` | none that outlives a call | `evaluate`, `run` | timeouts, removal of containers | a timeout is never a pass |
| Fault bench, benchmark: `faultbench.py`, `benchmark.py` | per case a membership and messages | `evaluate_case`, aggregation | topologies and faults in combination | a case's outcome matches its label |
| AgentTeams role tool and Matrix sender: `scripts/agentteams_*.py` | receipts handed from role to role; one PUT | `execute`, `send_message` | separate processes, lost responses | authority of each role, binding to one run |
| Evidence validation: `agentteams_evidence.py`, `evidence_validation.py`, `delivery_validation.py`, `public_ci_validation.py` | captured JSON documents | `validate_*`, `persist_*` | causality of a captured history, re-derivation of outcomes | accepts only what the runtime could have produced |
| Release integrity and packaging: `release_integrity.py`, `scripts/package_submission.py`, `run_clean_replay.py`, `champion_gate.py` | receipts bound to source digests, the archive | digest, replay, gate, build | files that change between validation and use | what is shipped is what was validated |
| Command line, reports, media | none | formatting | - | - |

The trial composes the rest: it calls the Workers, passes what they send to the
ingress, the selected patch to `apply_candidate` on a staging copy, the copy to the
control actors, everything to the gate, and an authorized patch to
`apply_candidate` on the governed workspace, with the snapshot as the way back.
The fabric is the older single-chain pipeline over the same parts.  Nothing runs
in parallel inside one trial except the thread of a slow Worker; the concurrency
is with the host: commands that time out, system calls that fail, signals, other
processes in the same tree.  A finished trial is published only if the evidence
validator re-derives its record.

In a live run the same roles are executions of `agentteams_role_tool.py` in the
containers of an AgentTeams installation.  They share nothing but JSON receipts, which an
operator carries from one to the next, and a Matrix room in which each Worker announces
what it did, over a sender that gives up after one lost answer.  The validator of
`agentteams_evidence.py` sees only the captured record of all this.  The release
programs share one working directory with each other, with an editor and with git, and
each reads files that another wrote some time ago.

## 2. Modules

| Module | Models | How |
|---|---|---|
| `QuorumRule` | the rule `QuorumGate.evaluate` implements, and the messages it is about | operators over sets of messages; each blocking code of the source is an objection |
| `QuorumGate` | `evaluate` itself | `ReadProposal`/`IgnoreProposal` and `ReadAttestation`/`IgnoreAttestation` are the bodies of the two loops, `CountProposals` and `Decide` what follows them; `proposal_patches`, `endorsers`, `observed`, `approvals`, `blocking` are the accumulators of the code |
| `IngressRule` | which proposals count and which patch is selected | operators over sets |
| `ProposalIngress` | `validate_and_select_proposals` | `Admit`/`Quarantine` are its first loop, `AcceptWorker`/`QuarantineEquivocator` the second, `Select` the count |
| `Workspace` | paths, directories, nodes, edits, `_validated_edits` | data shared by the next two |
| `AtomicApply` | the promise of `apply_candidate` | `Commit`, `Refuse`, `Tear`: one step each; `Void` once another process has changed the tree, when nothing is promised |
| `ApplyCandidate` | `apply_candidate` and its helpers | one action per system call, with its failure beside it (that of `rmdir`, which the code ignores, within `RemoveDirectory`), plus `Interrupt`, `Kill` and `Meddle` |
| `ResilientTrial` | `_run_trial` | one action per stage; Workers and controls may act in any order; uses the two rules for ingress and gate and the contract of `AtomicApply` for the writer; `MaterializeFails`, `RestoreTorn` and `RestoreFails` are the application that raises, the restore in its handler and a restore that raises; `Disturb` and `Race` are another process before and after the preauthorization check |
| `WorkspaceSnapshot` | `capture` and `restore` | one action per system call of `restore`'s four loops (links, foreign files, writing back, empty directories); a snapshot is the function from places to contents and modes |
| `EvidenceLedger` | `append`, `verify_ledger` and an editor of the file | `Record` is an append that returns, `RecordFails` one that raises with any part of its line written, `Edit` removes, repeats or forges a line; `Verified` is `verify_ledger` |
| `RecoveryFabric` | `RecoveryFabric.run` with its four agents | extends `EvidenceLedger`: `Log` and `LogFails` append the event due at `pc`, the other actions are the calls in between; `Escape` is an exception in no handler, `Kill` a dead process |
| `TrialValidation` | `_validate_trial` of `evidence_validation.py`, the preregistered matrix and its gate | extends `ResilientTrial`: the record is the state a trial ends in; `Accepted` recomputes it from the specification, part by part as the validator does |
| `RoleTool` | `agentteams_role_tool.py` | one execution of one role, as a function of its payload and of the workspace it finds; uses `QuorumRule` for the Release Manager |
| `MatrixSender` | `agentteams_matrix_sender.py` | one PUT: acknowledged, given up, or delivered late; the homeserver is external |
| `LiveEvidence` | `validate_live_evidence` | operators over a record; `Failures` of the code are conjuncts of `Valid` |
| `AgentTeamsRun` | a run from the first execution to the published record | extends the last three: an execution, a send, a loss, a late arrival or a mistake of the operator is a step; `Publish` is `persist_validated_live_evidence` |
| `ReleaseEvidence` | the judgements of `release_integrity.py`, `delivery_validation.py`, `public_ci_validation.py`, `champion_gate.py` and the checks of `package_submission.py` | operators over a disk, a record of the files a release consists of |
| `ReleasePackage` | the programs that write those files, and the packager | each write, commit, checkout and download is a step, and each read of the packager's members; the three groups of its judgements, the gate and the hashing of the manifest are one step each; `Disturb` counts the changes that fall between the steps of a running program |
| `*_proofs` | | theorems about the module of that name; `RecoveryFabric_proofs` also holds those about the ledger it extends |
| `MC*` | | the instances TLC checks |

Data is abstract.  A SHA-256 digest is the value it is the digest of (no
collisions); `patch_digest` leaves diagnosis, reasons and confidence out, so a patch
is its executable content.  An attestation's free-text detail is folded into its
artifact.  File contents and modes are model values.  A path stands for the
normalised relative path; absolute paths, `..` and NUL are one set `UnsafePath`.
A receipt hash in the ledger is the body it hashes.  The snapshot digest is the
captured function; its encoding in `snapshot.py` has no length prefixes, so that this
also assumes that no two trees are encoded alike.

An execution receipt of the role tool is identified by the execution, a tree by the
one source file the tool repairs and everything else, the time of an event by its
session.  In a release a file is the identity of its bytes, a commit is its number.

A batch of messages is a sequence in the code.  `QuorumGate` and `ProposalIngress`
may read any message of a pool at any step, again and again, so that their
behaviours are all sequences over the pool; the variables `proposals`,
`attestations` and `raw` remember the set read.  That the result depends on this
set alone is what `DecisionFollowsRule` and `SelectionFollowsRule` say, and what
lets `ResilientTrial` use the rules in one step.

Definitions commented "Mutant" are deliberate bugs, used by nothing; each stands
in front of the definition it would replace and shows which property notices.

## 3. Runs

| Run | States | Question | Bounds |
|---|---|---|---|
| `gate` | 265,732 | Does the gate decide by the rule, with an honest endorser, nobody counted twice, nothing outvoted? | the champion membership; requests of the Release Manager, of an invalid run, of a Worker and of one that claims to be the Release Manager; every kind of bad proposal and of bad attestation, one of the two batches sound (`OneLoopDisputed`); `verifier_quorum` 1 with two Verifiers, so that a rejection could be outvoted |
| `ingress` | 67,584 | Is the honest quorum's patch selected, by the rule, and nothing left to veto it? | three Workers, quorum 2, one faulty; every kind of bad proposal; two patches never reach the quorum at once, so that the ambiguous case of `SelectionFollowsRule` is covered by its theorem only |
| `apply` | 151,650 | Is a candidate applied entirely or not at all, whatever fails? Does the second validation protect what another process wrote? Refines `AtomicApply`. | up to three edits of four paths, nested parents, missing, present and empty targets, links and directories in the way, stale and duplicate edits; one change by another process (`MaxMeddle`) |
| `apply_interrupted` | finds a violation | Does the docstring's promise cover `KeyboardInterrupt`? | as `apply` |
| `trial` | 745,772 | The trial end to end, and its record against the validator: a trial that ran as it was specified is accepted, and an accepted one has the outcome its scope calls for (`ValidationIsExact`). | the champion membership, all control faults; all Worker faults on one Worker, all non-quarantined ones on the second and a silent or honest third; every fault on two or on all three; one change by another process before the preauthorization check and one between the check and the write, beside the Worker faults in `DisturbedFaults` |
| `snapshot` | 37,664 | Does a finished restore match, does a stopped one do no harm? | five places, one of them below `.git`, two contents, two modes, five captured trees, every damaged tree a file system can be in |
| `ledger` | 120,535 | What does a journal that verifies say? | three appends of two kinds of event, two edits |
| `ledger_separator` | finds a violation | Does an untouched journal verify? | one event with a line separator in its text |
| `fabric` | 42,568 | Is what a run returns and records true, and what does a run that returns nothing leave behind? | all five profiles, every kind of candidate, every call and append failing; no bound is reached |
| `agentteams` | 135,459 | What does a published live record vouch for, and do lost executions and answers ever spoil a run? | the champion team; two faults or mistakes (`MaxTrouble`), at most one of them a mistake of the operator (`MaxMistakes`); receipts of an earlier session, of another tree and of another candidate at hand (`Leftover`) |
| `agentteams_containers` | finds a violation | Were the listed executions made in the container of their actor? | as `agentteams` |
| `release` | 2,181,108 | Are the receipts of a release true, and is what is packaged one release? | two sources and two core receipts, one of them invalid; one edit, two commits, two builds; at most two disturbances during one program (`MaxChurn`); symmetry on the sources |

Why the bounds are enough.  The gate's and the ingress's verdicts depend on whether
some message fails a check, whether two messages of one actor differ and how many
actors pass: two messages per actor of every kind and one actor more than each
threshold reach every combination, and the proofs remove the bound altogether.
`apply_candidate` treats its edits alike and in order; three edits, two of them below
one directory and one of these a level deeper, give every position of a failure
relative to a replaced, a staged and an untouched edit.  In the trial every Worker
message is either forwarded or quarantined, so a fault that is quarantined needs
one representative beside each of the forwarded ones.  `restore` treats each place by
itself but for its parents: a file at the root and one two levels deep meet every
kind of obstacle above, at and below a captured file.  `verify_ledger` compares
neighbours; three records with two edits include a removed, a repeated and a forged
record, and a forged record with a forged successor.  In a live run one mistake is what
every rule of the validator is about, and a fault beside it is what could hide it; in a
release one edit, or a commit and a checkout, put a file out of step with its receipt
and two put it back.

One of these bounds is tight.  With three changes during one packaging
`PackagedIsOneRelease` fails: a file is good when the judgements read it, other while
the snapshot is taken, good again when they are repeated, and other again for the last
comparison with the snapshot.  The comment at `package_submission.py:789` ("Detect any
source/evidence drift") holds for changes that are not undone, which the property says
with its bound.  That a group of judgements is one step in the model and several reads in the
code hides nothing within the bound, by an argument made by hand and not checked: after a
change of a file in a group of the first pass, the second pass judges all of what was then
taken, or the second change falls into it and the last comparison sees that.  Programs of the release are started one at a time (`NothingRuns`),
which is a bound too, not a lock in the code.

Fairness is assumed in `trial` and `snapshot` only, and only weak fairness of the code's
own steps.  The trial is one thread, and each of its waits has a timeout (2 ms for a
Worker, 20 s for a command), so that it always takes some next step; `restore` is a
sequence of system calls with no wait at all.  Nothing is assumed about failures,
timeouts or other processes.

`CHECK_DEADLOCK FALSE` is set because a call, a restore, a run or a trial ends.

Three runs show that a text of the repository says more than the code does:

* `apply_interrupted`: the docstring of `apply_candidate` promises that all touched
  targets are restored before the error escapes; the handler is `except Exception`,
  which `KeyboardInterrupt` passes.  The property asks for less than the docstring, that no
  error escapes with some targets replaced and others not; in the trace a candidate of two
  edits is interrupted after its first rename, and ends with the first target replaced and
  the second not.
* `ledger_separator`: `append` writes text unescaped and `verify_ledger` reads the file
  with `splitlines`, which also splits at U+0085, U+2028 and U+2029.  A journal that
  was only appended to fails to verify after an event with such a character.
* `agentteams_containers`: `docs/AGENTTEAMS_LIVE_RUN.md` says that the proposers executed the
  skill in their own Worker containers.  The validator accepts a receipt from any running
  container of the capture (`agentteams_evidence.py:1200`), that of another Worker or of
  the Manager included.

Three more divergences were met on the way and have no run of their own.
`RecoveryFabric` is documented as fail-closed; the handler of a failed application appends
to the ledger before it restores, and the verification is in no handler, so that an
error there leaves a torn or an unverified workspace behind, under the full profile
too.  `ResidueIsUnconcluded` says that this is the only way out, and that such a run gives no
result and no verdict.  The threat
model lists "Refuse candidate; restore snapshot" for a missing quorum, while the
trial restores only after an authorized decision: what another process put into the
workspace stays, and the receipt then says that the rollback is not verified
(`ReceiptIsTrue`).  And `restore` removes every directory it finds empty, also one that
was empty when the snapshot was taken; `matches` looks at files only.  A directory in
the place of a captured file is not removed either: writing the file back raises
(`DirectoryInTheWay`), which is the one thing besides a failing call that keeps a
restore from its end (`Restores`).

What the larger models leave out, and what they showed:

* `TrialValidation`: the validator accepts every trial that ran as injected, and what it
  accepts has the outcome of its scope.  The rate it asks for inside the boundary, 90 % of
  eight trials, is all eight.  Durations and the diagnosis' own command are not modelled.
* `AgentTeamsRun`: the validator orders the decision after the controls by nothing but the
  digests it consumes, and a proposal's digest contains no session: the receipts' digests
  carry the freshness (`DecidedLast`).  A receipt's event is compared by function only, so that
  the announcements of the two Verifiers could be exchanged.  If the Release Manager is
  executed twice, the first decision announced need not be the receipt listed.  The
  shared-context chain, redaction and secret markers, timestamps, image inspection and
  provider details are left out.
* `ReleasePackage`: the replay compares digests before and after the build only, so an edit
  between its check and the copy of its inputs that is put back later leaves a receipt
  that is current and replayed another tree.  `CurrentReceiptIsTrue` therefore speaks of replays
  nothing changed under, and `ReleasedReplayIsTrue` shows that the archive bound by the
  public workflow closes this for what is published.  The champion gate does not ask
  whether the public receipt is about HEAD; the packager does.  A failed receipt is one
  value; privacy scans, archive member safety, ZIP details and container flags are left
  out.  The initial disk is a frozen release candidate, or an older one.

## 4. Proofs

Each `*_proofs` module proves for every value of the constants what the run of its
component checks on an instance, along one inductive invariant, by one lemma per action.
What the constants must be is said in named assumptions, which TLC evaluates in the
runs: `MembershipAssumption`, `QuorumConfigAssumption`, `WorkspaceAssumption`,
`HierarchyAssumption`, `TreesAssumption`, `CallAssumption`, `SnapshotAssumption`,
`LedgerAssumption`, `FabricAssumption`, `TrialAssumption`, `RosterAssumption`,
`MatrixAssumption`, `RoleToolAssumption`, `DigestAssumption`, `AgentTeamsRunAssumption`,
`LeftoverAssumption`, `SourceAssumption`, `CoreAssumption` and `CommitAssumption`.

**The gate and the ingress.**  `QuorumGate_proofs` proves, for every finite membership, every
thresholds `QuorumConfig` accepts and every pool of messages, the five invariants `gate`
checks; `ProposalIngress_proofs` the five that `ingress` checks.

The gate's invariants are about the moment of the decision, which does not follow from
the state just before it unless one knows what the accumulators stand for.  The
inductive invariant `IInv` has three parts: `TypeOK`; `Accumulated`, that
`proposal_patches`, `endorsers`, `observed` and `approvals` are the functions of the
set of messages read that the rule is made of; and `Raised`, that `blocking` is, phase
by phase, the part of `Blocking` decided so far.  Both loops preserve it because each
message adds to each accumulator what it adds to the corresponding set; the only
step that is not set algebra is that a set of claims has more than one element
exactly when two of them differ, a lemma.  `DecisionFollowsRule` is then the last
part of `Raised`, `ReleaseIsUndisputed` and `NobodyCountedTwice` follow from an empty
`Blocking`, and `HonestEndorsement` from a counting lemma: more than
`max_faulty_workers` endorsers are not all in a set of at most that many.

The ingress has the same shape.  Its `IInv` says that `valid` is the set of admissible
proposals among those read, and (`Represented`) that `accepted` has a proposal of
exactly those Workers that were passed and found consistent, with the patch they
proposed.  When the second loop is done, the endorsers of a patch in `accepted` are
therefore its `Backers`, and `SelectionFollowsRule` is what `Select` does with them.  The
other three follow from the rule: a quorum of backers is not within any tolerated set
of faulty Workers, so each eligible patch has a backer that is honest
(`SelectionHasHonestBacking`), all honest Workers back one patch, so none other is
eligible (`HonestQuorumPrevails`), and whatever `accepted` holds has passed the checks
of the gate and never contradicts itself (`GateHasNoWorkerObjection`).

**The writer.**  `ApplyCandidate_proofs` proves the five invariants of `apply`, its
action property and the refinement of `AtomicApply`, for candidates of any length in any
workspace.  The core of `ApplyInv` is `Made`: while nobody else has changed the tree, the
targets are the original ones with the edits made that are in `materialized` or `failed`.
A replacement makes one edit more, a restoration one less, everything else leaves the
targets alone; `AfterOneMore` says what one edit more means, and needs that no two edits
have one target, which the first validation established (`Checked`).  `Ordered` says
that `materialized` is always `1..n`.  `Fresh` carries the second validation through the
replacements, which gives `NothingStaleOverwritten`.  For the refinement, `Outcome` says of
each end of a call what is in the targets, and each step is one of the abstract ones or
changes nothing the caller sees.  `NoResidue` is about the whole tree and not only about the
targets: `Tidy` says which edits have a staged file, and `Grown` that the tree is the original
one but for the targets and the directories the call lists as created, in an order in
which each is above the later ones, so that removing them from the last to the first finds each
empty.  That takes a file system in which a directory is above what is in it
(`HierarchyAssumption`, `TreesAssumption`).  The code ignores an error of `rmdir`
(`skills.py:271-275`), so that the call may leave a directory that was empty, and then
those above it; `unremoved` remembers which it was, and `NoResidue` and `Grown` except these
(`Stays`) and no others.

**The trial.**  `ResilientTrial_proofs` proves the safety invariants of `trial`.  An
authorized release was approved by a Verifier, which approves only the safe candidate; the
candidate was selected by a quorum of Workers that were at worst slow; every control
that was tampered with leaves an attestation the gate refuses.  What the
preauthorization found is still so when the governed workspace is written, or the writer
refuses, and after the write the trial either keeps a workspace that passes or restores.
An application that fails half-way leaves a torn workspace at `pc = "restore"`, and the
restore in its handler may itself fail, which ends the trial without a receipt; otherwise what
was left is gone before the suites run (`ReleasedOrRestored`).

Nothing looks at the workspace again between the preauthorization check and the write but the
writer, and that only at its targets.  `docs/SECURITY_THREAT_MODEL.md:158-163` leaves changes
in this window outside the repository's claim.  `Race` makes one, and shows what holds all the
same: what is released is the safe candidate, a receipt that vouches for a rollback is exact,
and no candidate is written without evidence.  What does not hold is excepted in
`NoUnsafeRelease`: a file that appears in the window stays beside the release, and the receipt
that follows is accepted, for the validator asks only that the patched snapshot differs from
the captured one and that the final one is the patched one.  A change during the write, the
suites or the rollback is not modelled.

`TrialAssumption` says that faults are assigned to Workers, that the first Verifier is
one, and that candidates, contents and bindings that are to differ do.

`ToleratedFaultsRecover` is the converse: nothing stands in the way of the release.
`RecoveryInv` follows a trial with tolerated Worker faults only through its stages: the honest
Workers are a quorum, so the safe candidate is the one selected; each control approves it,
so that nothing blocks; and the preauthorization, the writer and the verification find what
they look for.  It needs that the membership can fill each quorum (`RosterAssumption`).

`ValidationIsExact` relates what the trial did to what the validator reads in its record.
`RecordInv` says of each message, attestation, decision and receipt in the record that it is
the one its sender made, of the faults the scenario assigns; from it each of the validator's
comparisons is an equality of two descriptions of the same thing.  The other direction, that
an accepted record had the outcome of its scope, uses `RecoveryInv` as well: inside the boundary
no trial may end otherwise.  `MatrixAssumption` is what the fault matrix takes for granted of
its Workers.

**The snapshot.**  `WorkspaceSnapshot_proofs` proves `RestoredExactly` and
`NothingMadeWorse` for every captured and every damaged tree.  `RestoreInv` says of each of
the four loops what it has done so far, and that the later ones do not undo it: no
file is written through a link, because the links are gone; no directory that is made
is in the way of another captured file.  Ancestors are defined as the least
upward-closed set, so that no recursion is needed.

**The ledger and the fabric.**  `RecoveryFabric_proofs` begins with the ledger.  A journal
nobody edited either holds the acknowledged records and at most one more, or has a torn
line that will never go away; that is `LedgerInv` and gives `VerifiedIsComplete`.

`HashBindsHistory` is about a journal whose lines anybody removes, repeats or forges; they are
neither renumbered nor reordered.  What is proved is stronger than
the property and preserved step by step, so that no induction along the journal is
needed: `AllBound` says that every run of lines in which each line hashes the one before and
the last holds an acknowledged record repeats the acknowledged records that lead to it.  An
append prolongs a run by one line, an edit changes one line, and what it joins still has to
hash together.  Hashes are terms, free of collisions by construction; `GENESIS` is none
of them.

The fabric builds on this: `FabricInv` fixes, point by point, what the
workspace holds and which event is the last of an unbroken journal.  A verdict is
appended only where the workspace will not change any more; with that, `ResultIsTrue`,
`ResultIsRecorded`, `JournalIsTrue` and `ResidueIsUnconcluded` are read off.
`ResultIsTrue` also says what the two test results of a run mean: with a verifier a passed
invariant suite is one that passes on the patched workspace; without one it is the diagnosis'
result on the workspace before the patch, and says nothing else (`orchestrator.py:116-120`).

**The live run.**  `AgentTeamsRun_proofs` proves the five invariants `agentteams`
checks, for any trees and candidates, any receipts of other sessions that the role
tool made (`LeftoverAssumption`), and any number of faults and mistakes.  For the four that are
about a published record, `RunInv` says three things.  `ReceiptsInv`: every receipt the operator holds was made by the role tool, from
receipts made before it (`Grounded`), and is known by its digest.  `RoomInv`: what a message
of the room names as the event before it is a number, and what was captured is finite.
`Told`: what the checks of the validator imply is so of the record that was published, which
nothing changes afterwards (`PublishedLast`).

The work is in what the checks imply.  The validator sees digests; `ReceiptsBound` turns equal
digests into one receipt, and `ReturnedAs` says what an execution that returned with it found.
`TestedAsAttested`: a control's execution raises unless the tree it finds has the digest of
its payload, the gate refuses an attestation or a proposal about another snapshot, and the
proposals' snapshot is that of the record; all trees are therefore one.  `DecidedLast`: the
Release Manager consumed the digests of all controls, and an execution consumes only earlier
ones.  `DecidedOnWhatItConsumed`: a digest of a proposal is never that of an execution, so that
the inputs of the Release Manager fall apart into the proposals and exactly the control
executions listed.

`OneVoice` is about the trace, which is read back from its last event along the names of the
events before.  The function `Chain` that does so is recursive; that it exists and unfolds
(`ChainExists`, `ChainIs`) takes induction on the length of the room, which is carried out as
the choice of a least counterexample, from the well-foundedness of set inclusion on a
finite set.  `ChainInOrder` says that a trace goes forward through the room.  A receipt announced
is not announced again, which makes the event of a listed execution unique; and a record has
as many captures as events, each event having one, so that none is left to say anything
else (`CapturedFaithfully`, a pigeonhole argument).

`FaultsDoNotSpoil` is the converse: nothing stands in the way of a valid record.  It supposes that
the skill repairs the tree the run is about (`Repairable`: the suites pass on the result and
reject the Challenger's mutant, the policy approves the candidate at no risk), without which the
gate is right to refuse, that what is no digest is not the digest of anything
(`DigestAssumption`), and that no earlier session had the nonce of this one
(`LeftoverAssumption`).  The invariant is `Smooth`: until the operator makes a mistake there are
two functions, from the steps done to receipts and to events, with which the run is `Steady`.
`Kept`: each execution done has the receipt it is owed (`Owed`), and no other receipt of this
session is of its actor and tool, so that what the operator takes for the latest receipt is the
right one.  `Spoken`: each announcement done is in the room, tells what the step is to tell, and
comes after the event it names; the tip is the event the next one will name.  `Asked` is what
makes this inductive under lost and late messages: a request under way, or in the room without an
answer, is of a step done or is the very request of the step due, transaction id included,
and came after the tip; a repeated send therefore finds its own message or makes one, and never
another.  The Manager's messages are exempt: each is an event of its own, and one that arrives
late is an event nothing names.

When every step is done, the trace is the thirteen announcements in the order of the plan
(`TraceIs`), each named by the next, and the record with the receipts owed is one of those the
operator can assemble (`RecordEnds`).  `EndedWell` goes through the checks of the validator
one by one: `OutOnce`, that no receipt is announced twice; `ExportedWell`, that there are as many
captures as events; `GateReleases`, that the quorum rule authorizes the release on the two
proposals that agree and the four attestations.

**The release.**  `ReleasePackage_proofs` proves the three invariants of `release` for any
sources, receipts, commits and builds, and any number of changes between programs.
`ReplayInv` says that a replay nothing changed under has read one state of the disk, and
`ZipsAreSound` that such receipts, and every artifact of the workflow, are true, wherever
they are copied; `CurrentReceiptIsTrue` is read off.

`PackagedIsOneRelease` is about twenty-one reads of a disk that changes under them.  The
invariant of a packaging (`PackInv`) says that there is a history: three states, the last of
them the present one, and two moments between which they held, such that each read found in the
state of its moment what the code requires of it (`Found`), and that each state became
the next by one change (`Change`): of one member, or by unpacking an artifact, HEAD moving only
to a commit that is checked out.  A read extends the history, a change shifts it.
`TakenIsOneRelease` then looks at where the two changes fell.  If both fell into one of the two
passes, the other pass judged and took one state.  If one fell into each, the state in
between is what was taken, or differs from it in nothing that was taken: a change while
the snapshot is taken either came after its member, so that the first pass has judged what was
taken, or before it; it is no unpacking, because the first pass found the artifact unpacked;
and a change during the second judgement is seen by the last comparison unless it
only moved HEAD, to a commit with the same files.  `ReleasedReplayIsTrue` follows, because the
artifact that is bound is sound.

Only model-checked: liveness (`Restores`, `Terminates`), which is out of the provers' reach.

## 5. Plan

Done: the gate, the ingress, the writer, the trial and its validator, the snapshot, the
ledger, the fabric, a live run with its validator, the release with its packager; the
theorems above.  What remains is the container executor: its reaping of containers after
a timeout.

## 6. Not modelled

* The container executor: its state is Docker's, and what it returns to its caller is
  what the command executor returns.
* The fault bench, the ablation benchmark and the exhaustive quorum check: loops over
  cases, whose steps are a call of the gate or of the fabric each; the runs `gate` and
  `fabric` enumerate more than their cases.
* The fields of published documents beyond those `TrialValidation`, `LiveEvidence` and
  `ReleaseEvidence` name: digests, counts and durations that are derived from them.
* Command line, reports, and the rendering of PDF, video and dashboard but for the
  source they are rendered from.
* String-level policy scoring, JSON schemas, argument parsing.

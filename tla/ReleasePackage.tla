---------------------------- MODULE ReleasePackage ----------------------------
(***************************************************************************)
(* From a source tree to a published archive: run_clean_replay.py, the     *)
(* renderers and verify_delivery_artifacts.py, the public workflow, the    *)
(* capture of its receipt, build_champion_evidence.py, champion_gate.py    *)
(* and package_submission.py.  They are programs of their own that share   *)
(* one working directory, so a file may be edited, a commit made or        *)
(* another branch checked out between any two steps of any of them.  The    *)
(* packager reads its members one by one; each of its three groups of      *)
(* judgements is one step that reads several files, and so are the gate's  *)
(* evaluation, the hashing of the manifest, the copy of a replay's inputs  *)
(* and the renderers.                                                      *)
(***************************************************************************)
EXTENDS ReleaseEvidence, Sequences

CONSTANTS
  MaxEdits,       \* how often the working tree is edited
  MaxCommits,     \* how many commits there are
  MaxBuilds,      \* how often the archives are built, here or by the workflow
  MaxChurn        \* how often something changes while a program is running

\* The first commit is there from the beginning.
ASSUME CommitAssumption == MaxCommits \in Nat \ {0}

VARIABLES
  disk,           \* the files of the working directory
  commits,        \* the tracked files of each commit
  head,           \* the commit HEAD resolves to
  remote,         \* what GitHub knows of the run of each commit
  builds,         \* the builds made so far: a build is byte-unique
  edits,          \* the edits made so far
  replay,         \* run_clean_replay.py, or Idle
  maker,          \* the flags build_champion_evidence.py has in memory, or None
  pack,           \* package_submission.py, or Idle
  output          \* the published archive, or None

vars == <<disk, commits, head, remote, builds, edits, replay, maker, pack, output>>
programs == <<replay, maker, pack>>

Idle == [pc |-> "idle"]
Commits == 1..MaxCommits
Tracked == commits[head]

\* The order of the paths in which the members of the archive are read; the
\* tracked files are taken at the place of the source.
Members == <<"manifest", "gate", "zip", "clean", "ci", "dist", "work">>

\* The release candidate is frozen: it was replayed here, the delivery was
\* rendered and verified from that replay, and all of it is committed.
Frozen(s, e) ==
  LET dist  == [of |-> s, id |-> 0]
      clean == Receipt(s, TRUE, dist, [src |-> s, core |-> e, dist |-> dist], 0)
      bare  == [work |-> [src |-> s, core |-> e, media |-> <<s, e>>, qa |-> None],
                dist |-> dist, clean |-> clean,
                zip |-> None, ci |-> None, manifest |-> None, gate |-> None]
  IN  [bare EXCEPT !.work.qa = Inspection(bare)]

Init ==
  \E s \in Passing, e \in ValidCores :
    /\ disk = Frozen(s, e)
    /\ commits = <<disk.work>>
    /\ head = 1
    /\ remote = [c \in Commits |-> None]
    /\ builds = 0
    /\ edits = 0
    /\ replay = Idle
    /\ maker = None
    /\ pack = Idle
    /\ output = None

\* One of the programs that take several steps runs at a time.
NothingRuns == replay = Idle /\ maker = None /\ pack = Idle

------------------------------------------------------------------------------
(* A change of the working directory, of HEAD or of the public run while a *)
(* replay or a packaging is in progress.                                   *)

Disturbed(program) ==
  IF program.pc = "idle" THEN program ELSE [program EXCEPT !.churn = @ + 1]

MayDisturb ==
  /\ replay.pc # "idle" => replay.churn < MaxChurn
  /\ pack.pc # "idle" => pack.churn < MaxChurn

Disturb ==
  /\ MayDisturb
  /\ replay' = Disturbed(replay)
  /\ pack' = Disturbed(pack)

------------------------------------------------------------------------------
(* The operator and the other programs.                                    *)

Edit ==
  /\ edits < MaxEdits
  /\ edits' = edits + 1
  /\ \/ \E s \in Sources \ {disk.work.src} : disk' = [disk EXCEPT !.work.src = s]
     \/ \E e \in Cores \ {disk.work.core} : disk' = [disk EXCEPT !.work.core = e]
  /\ Disturb
  /\ UNCHANGED <<commits, head, remote, builds, maker, output>>

\* The same tracked files may be committed again: a commit is more than them.
Commit ==
  /\ Len(commits) < MaxCommits
  /\ commits' = Append(commits, disk.work)
  /\ head' = Len(commits) + 1
  /\ Disturb
  /\ UNCHANGED <<disk, remote, builds, edits, maker, output>>

Checkout ==
  \E c \in DOMAIN commits :
    /\ <<c, commits[c]>> # <<head, disk.work>>
    /\ head' = c
    /\ disk' = [disk EXCEPT !.work = commits[c]]
    /\ Disturb
    /\ UNCHANGED <<commits, remote, builds, edits, maker, output>>

\* The renderers refuse to write the delivery while the evidence is incomplete.
Render ==
  /\ EvidenceComplete(disk)
  /\ ~ShowsContract(disk)
  /\ disk' = [disk EXCEPT !.work.media = Contract(disk)]
  /\ Disturb
  /\ UNCHANGED <<commits, head, remote, builds, edits, maker, output>>

VerifyDelivery ==
  /\ disk.work.qa # Inspection(disk)
  /\ disk' = [disk EXCEPT !.work.qa = Inspection(disk)]
  /\ Disturb
  /\ UNCHANGED <<commits, head, remote, builds, edits, maker, output>>

\* The five jobs on a fresh checkout, which nobody edits; running them again
\* raises the attempt and makes new archives.
Workflow ==
  \E c \in DOMAIN commits :
    LET dist  == [of |-> commits[c].src, id |-> builds + 1]
        clean == Receipt(commits[c].src, TRUE, dist,
                   [src |-> commits[c].src, core |-> commits[c].core, dist |-> dist], 0)
        there == [disk EXCEPT !.work = commits[c], !.dist = dist, !.clean = clean]
    IN  /\ builds < MaxBuilds
        /\ builds' = builds + 1
        /\ remote' = [remote EXCEPT ![c] =
             [attempt |-> IF remote[c] = None THEN 1 ELSE remote[c].attempt + 1,
              success |-> EvidenceComplete(there) /\ DeliveryValid(there),
              zip     |-> IF clean # Failed THEN Artifact(dist, clean) ELSE None]]
        /\ Disturb
        /\ UNCHANGED <<disk, commits, head, edits, maker, output>>

Download ==
  \E c \in DOMAIN commits :
    /\ remote[c] # None
    /\ remote[c].zip \notin {None, disk.zip}
    /\ disk' = [disk EXCEPT !.zip = remote[c].zip]
    /\ Disturb
    /\ UNCHANGED <<commits, head, remote, builds, edits, maker, output>>

Unpack ==
  /\ disk.zip # None
  /\ ~ (disk.dist = disk.zip.dist /\ disk.clean = disk.zip.clean)
  /\ disk' = [disk EXCEPT !.dist = disk.zip.dist, !.clean = disk.zip.clean]
  /\ Disturb
  /\ UNCHANGED <<commits, head, remote, builds, edits, maker, output>>

\* capture_public_ci_receipt: the live run of this HEAD succeeded and its
\* artifact is the ZIP that was downloaded.
Capture ==
  /\ disk.zip # None
  /\ remote[head] # None
  /\ LiveRunMatches(remote[head], remote[head].attempt, disk.zip)
  /\ disk' = [disk EXCEPT !.ci = PublicReceipt(head, remote[head].attempt, disk.zip)]
  /\ disk' # disk
  /\ Disturb
  /\ UNCHANGED <<commits, head, remote, builds, edits, maker, output>>

------------------------------------------------------------------------------
(* run_clean_replay.py.                                                    *)

ReplayStarts ==
  /\ NothingRuns
  /\ builds < MaxBuilds
  /\ replay' = [pc |-> "build", of |-> disk.work.src, churn |-> 0]
  /\ UNCHANGED <<disk, commits, head, remote, builds, edits, maker, pack, output>>

\* uv build --clear: what was under dist/ goes, also when the build fails.
ReplayBuilds ==
  /\ replay.pc = "build"
  /\ builds < MaxBuilds
  /\ builds' = builds + 1
  /\ \/ disk' = [disk EXCEPT !.dist = [of |-> disk.work.src, id |-> builds + 1]]
     \/ disk' = [disk EXCEPT !.dist = None]
  /\ replay' = [replay EXCEPT !.pc = "check"]
  /\ MayDisturb /\ pack' = Disturbed(pack)
  /\ UNCHANGED <<commits, head, remote, edits, maker, output>>

\* The source is digested again and the archives are hashed.
ReplayChecks ==
  /\ replay.pc = "check"
  /\ replay' = [pc |-> "copy", of |-> replay.of, churn |-> replay.churn,
                unchanged |-> disk.work.src = replay.of, dist |-> disk.dist]
  /\ UNCHANGED <<disk, commits, head, remote, builds, edits, maker, pack, output>>

\* _copy_inputs: the wheel, the sources and the receipts as they are now.
ReplayCopies ==
  /\ replay.pc = "copy"
  /\ replay' = [pc |-> "write", of |-> replay.of, churn |-> replay.churn,
                unchanged |-> replay.unchanged, dist |-> replay.dist,
                ran |-> [src |-> disk.work.src, core |-> disk.work.core,
                         dist |-> disk.dist]]
  /\ UNCHANGED <<disk, commits, head, remote, builds, edits, maker, pack, output>>

\* The receipt is written whether the replay passed or not.
ReplayWrites ==
  /\ replay.pc = "write"
  /\ disk' = [disk EXCEPT !.clean =
                Receipt(replay.of, replay.unchanged, replay.dist, replay.ran, replay.churn)]
  /\ replay' = Idle
  /\ MayDisturb /\ pack' = Disturbed(pack)
  /\ UNCHANGED <<commits, head, remote, builds, edits, maker, output>>

\* The base image is missing or the program is killed: the receipt of the last
\* replay stays beside the archives of this one.
ReplayDies ==
  /\ replay.pc \in {"check", "copy", "write"}
  /\ replay' = Idle
  /\ UNCHANGED <<disk, commits, head, remote, builds, edits, maker, pack, output>>

------------------------------------------------------------------------------
(* build_champion_evidence.py reads the receipts first and hashes the      *)
(* files last; champion_gate.py.                                           *)

ManifestLoads ==
  /\ NothingRuns
  /\ disk.work.core \in ValidCores
  /\ maker' = [green |-> Flags(disk, head, remote)]
  /\ UNCHANGED <<disk, commits, head, remote, builds, edits, replay, pack, output>>

ManifestWrites ==
  /\ maker # None
  /\ disk' = [disk EXCEPT !.manifest = Manifest(maker.green, disk)]
  /\ maker' = None
  /\ Disturb
  /\ UNCHANGED <<commits, head, remote, builds, edits, output>>

Gate ==
  /\ disk.gate # GateStatus(disk)
  /\ disk' = [disk EXCEPT !.gate = GateStatus(disk)]
  /\ Disturb
  /\ UNCHANGED <<commits, head, remote, builds, edits, maker, output>>

------------------------------------------------------------------------------
(* package_submission.build.                                               *)

Packing == UNCHANGED <<disk, commits, head, remote, builds, edits, replay, maker>>

\* collect_members: every member that is packaged is there.
Begin ==
  /\ NothingRuns
  /\ \A n \in Names : disk[n] # None
  /\ pack' = [pc |-> "tree", pass |-> 1, commit |-> head, src |-> None, loaded |-> None,
              taken |-> [n \in Names |-> None], next |-> 1, churn |-> 0]
  /\ Packing /\ UNCHANGED output

\* The preflight loads the receipts and reads the files they are judged by, in three
\* groups of which each is one step.
JudgeTree ==
  /\ pack.pc = "tree"
  /\ TreeIsHead(disk, Tracked)
  /\ pack.pass = 2 => disk.work.src = pack.src
  /\ pack' = [pack EXCEPT !.pc = "evidence", !.src = disk.work.src, !.loaded = Loaded(disk)]
  /\ Packing /\ UNCHANGED output

JudgeEvidence ==
  /\ pack.pc = "evidence"
  /\ EvidenceIsReady(disk, pack.loaded)
  /\ pack' = [pack EXCEPT !.pc = "release"]
  /\ Packing /\ UNCHANGED output

JudgeRelease ==
  /\ pack.pc = "release"
  /\ ReleaseIsCurrent(disk, pack.loaded, pack.commit, remote)
  /\ pack' = [pack EXCEPT !.pc = IF pack.pass = 1 THEN "snapshot" ELSE "head", !.loaded = None]
  /\ Packing /\ UNCHANGED output

Snapshot ==
  /\ pack.pc = "snapshot"
  /\ LET n == Members[pack.next]
         more == pack.next < Len(Members)
     IN  pack' = [pack EXCEPT !.taken[n] = disk[n],
                              !.next = IF more THEN @ + 1 ELSE 1,
                              !.pc = IF more THEN "snapshot" ELSE "tree",
                              !.pass = IF more THEN 1 ELSE 2]
  /\ Packing /\ UNCHANGED output

HeadUnmoved ==
  /\ pack.pc = "head"
  /\ head = pack.commit
  /\ pack' = [pack EXCEPT !.pc = "reread"]
  /\ Packing /\ UNCHANGED output

\* Mutant: the members are read again and not compared.
RereadWithoutComparing ==
  /\ pack.pc = "reread"
  /\ pack' = [pack EXCEPT !.pc = "write"]
  /\ Packing /\ UNCHANGED output

Reread ==
  /\ pack.pc = "reread"
  /\ disk[Members[pack.next]] = pack.taken[Members[pack.next]]
  /\ pack' = IF pack.next < Len(Members)
             THEN [pack EXCEPT !.next = @ + 1]
             ELSE [pack EXCEPT !.pc = "write"]
  /\ Packing /\ UNCHANGED output

\* The archive is written to a temporary file, read back and moved into place.
Publish ==
  /\ pack.pc = "write"
  /\ output' = [files |-> pack.taken, commit |-> pack.commit, src |-> pack.src,
                churn |-> pack.churn]
  /\ pack' = Idle
  /\ Packing

\* A judgement that fails, a member that changed or an error ends the program
\* and leaves the archive that was there.
Refuse ==
  /\ pack.pc # "idle"
  /\ pack' = Idle
  /\ Packing /\ UNCHANGED output

------------------------------------------------------------------------------
Operator == Edit \/ Commit \/ Checkout \/ Render \/ VerifyDelivery \/ Workflow
            \/ Download \/ Unpack \/ Capture

CleanReplay == ReplayStarts \/ ReplayBuilds \/ ReplayChecks \/ ReplayCopies
               \/ ReplayWrites \/ ReplayDies

Champion == ManifestLoads \/ ManifestWrites \/ Gate

Package == Begin \/ JudgeTree \/ JudgeEvidence \/ JudgeRelease \/ Snapshot
           \/ HeadUnmoved \/ Reread \/ Publish \/ Refuse

Next == Operator \/ CleanReplay \/ Champion \/ Package

Spec == Init /\ [][Next]_vars

------------------------------------------------------------------------------
(* Properties.                                                             *)

(* A replay receipt that clean_replay_current accepts, written by a replay  *)
(* during which nothing changed, is true of the files as they are now: the *)
(* archives under dist/ were built from this source, and this source was   *)
(* replayed with this wheel.  Edits, commits, checkouts, failed and killed *)
(* replays and unpacked artifacts lie between the replay and the question. *)
CurrentReceiptIsTrue ==
  Current(disk) /\ disk.clean.churn = 0 =>
    /\ disk.dist.of = disk.work.src
    /\ disk.clean.ran.src = disk.work.src
    /\ disk.clean.ran.dist = disk.dist

Undrifted == output # None /\ output.churn <= 2

(* What package_submission.py publishes is one release: the tracked files  *)
(* of the commit its manifest names, the delivery rendered from that tree, *)
(* receipts and archives that bind each other, and a gate that is ready of *)
(* exactly those bytes.  Up to two changes of the disk or of HEAD may fall *)
(* anywhere between the first read and the last.                           *)
PackagedIsOneRelease ==
  Undrifted =>
    LET f == output.files IN
    /\ TreeIsHead(f, commits[output.commit])
    /\ output.src = f.work.src
    /\ EvidenceIsReady(f, Loaded(f))
    /\ Current(f)
    /\ DeliveryValid(f)
    /\ ArtifactBound(f)
    /\ f.ci.commit = output.commit

(* The archives in a published release were built from the source of its   *)
(* commit and that source was replayed with them, although a receipt made  *)
(* here may be about files that were edited during the replay and put back *)
(* before anything looked again.                                           *)
ReleasedReplayIsTrue ==
  Undrifted =>
    LET f == output.files
        s == commits[output.commit].src
    IN  /\ f.dist.of = s
        /\ f.clean.ran.src = s
        /\ f.clean.ran.dist = f.dist
==============================================================================

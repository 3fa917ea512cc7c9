--------------------------- MODULE ReleaseEvidence ---------------------------
(***************************************************************************)
(* The judgements of release_integrity.py, delivery_validation.py,         *)
(* public_ci_validation.py, champion_gate.py and package_submission.py: is *)
(* a receipt on this disk about this disk?  A disk is a record of the      *)
(* files that make up a release:                                           *)
(*   work      the tracked files: the source (src), the core and           *)
(*             AgentTeams receipts (core), the rendered PDF, video and     *)
(*             dashboard (media) and artifacts/delivery-qa.json (qa)       *)
(*   dist      the wheel and the source archive under dist/                *)
(*   clean     artifacts/clean-replay.json                                 *)
(*   zip       artifacts/clean-release-ci.zip                              *)
(*   ci        artifacts/public-ci.json                                    *)
(*   manifest  artifacts/champion-evidence.json                            *)
(*   gate      artifacts/champion-gate.json                                *)
(* A digest is the identity of what it digests.                            *)
(***************************************************************************)
EXTENDS Naturals, FiniteSets

CONSTANTS
  Sources,        \* the contents the source tree can have
  Passing,        \* those whose suite passes in the container
  Cores,          \* the contents the core and AgentTeams receipts can have
  ValidCores,     \* those the semantic validators accept
  None,           \* a file that is missing
  Failed          \* a receipt that says of itself that its program failed

ASSUME SourceAssumption == Passing \subseteq Sources
ASSUME CoreAssumption == ValidCores \subseteq Cores

Names == {"work", "dist", "clean", "zip", "ci", "manifest", "gate"}

------------------------------------------------------------------------------
(* One run of scripts/run_clean_replay.py.  of is the digest read before   *)
(* the build, dist the archives it hashed after it, ran the context that   *)
(* was copied into the image: sources, receipts and wheel.  churn, which   *)
(* no program reads, counts what changed on the disk while it ran.         *)

Replays(ran) == ran.src \in Passing /\ ran.core \in ValidCores /\ ran.dist # None

\* No judgement reads more of a receipt that failed than that it failed.
Receipt(of, unchanged, dist, ran, churn) ==
  IF unchanged /\ dist # None /\ Replays(ran)
  THEN [of |-> of, dist |-> dist, ran |-> ran, churn |-> churn]
  ELSE Failed

\* Mutant: the receipt is judged by the archives it hashed alone.
CurrentByArchives(d) ==
  d.clean \notin {None, Failed} /\ d.dist # None /\ d.clean.dist = d.dist

\* clean_replay_current: the receipt passed, its digest is that of the source
\* as it is now and the two archives on disk are the ones it hashed.
Current(d) ==
  /\ d.clean \notin {None, Failed}
  /\ d.clean.of = d.work.src
  /\ d.dist # None
  /\ d.clean.dist = d.dist

------------------------------------------------------------------------------
(* The delivery.                                                           *)

\* What the renderers may show is derived from the core receipts and from the
\* stable part of a current replay receipt: build_presentation_contract.
Contract(d) == <<d.work.src, d.work.core>>

EvidenceComplete(d) == Current(d) /\ d.work.core \in ValidCores

\* inspect_delivery: the pages of the PDF, the subtitles of the video, the metadata of its preview
\* and the text of the dashboard are what the contract asks for, and name its digest.
ShowsContract(d) == d.work.media = Contract(d)

\* verify_delivery_artifacts.py: the receipt names the contract and the bytes
\* it inspected, and passes when both agree and the evidence is complete.
Inspection(d) ==
  IF EvidenceComplete(d) /\ ShowsContract(d)
  THEN [contract |-> Contract(d), media |-> d.work.media]
  ELSE Failed

DeliveryValid(d) == d.work.qa \notin {None, Failed} /\ d.work.qa = Inspection(d)

------------------------------------------------------------------------------
(* The public workflow.  remote[c] is what GitHub says of the run of commit *)
(* c: its attempt, whether its five jobs succeeded and the artifact.       *)

Artifact(dist, clean) == [dist |-> dist, clean |-> clean]

PublicReceipt(commit, attempt, zip) == [commit |-> commit, attempt |-> attempt, zip |-> zip]

LiveRunMatches(run, attempt, zip) ==
  /\ run # None
  /\ run.success
  /\ run.attempt = attempt
  /\ run.zip = zip

PublicCIValid(ci, commit, remote) ==
  /\ ci # None
  /\ ci.commit = commit
  /\ LiveRunMatches(remote[commit], ci.attempt, ci.zip)

\* Mutant: the ZIP is compared with the receipt and not with what is packaged.
ZipIsReceipted(d) == d.zip # None /\ d.ci # None /\ d.ci.zip = d.zip

\* The downloaded ZIP is the one the receipt names, and its three members are
\* byte-exact with the files that are packaged.
ArtifactBound(d) ==
  /\ d.zip # None
  /\ d.ci # None
  /\ d.ci.zip = d.zip
  /\ d.zip.dist = d.dist
  /\ d.zip.clean = d.clean

------------------------------------------------------------------------------
(* The manifest and the gate.                                              *)

Bound(d) == [work |-> d.work, clean |-> d.clean, zip |-> d.zip, ci |-> d.ci]

\* build_champion_evidence.py: the flags, from the receipts it loaded first.
Flags(d, commit, remote) ==
  Current(d) /\ DeliveryValid(d) /\ PublicCIValid(d.ci, commit, remote)

\* A manifest with a flag that is not set fails the contract, whatever it binds.
Manifest(green, d) == IF green THEN [bound |-> Bound(d)] ELSE Failed

\* champion_gate.py: the manifest binds the bytes on disk, the receipts are
\* judged again, and every flag of the manifest is set.
GateReady(d) ==
  /\ d.manifest \notin {None, Failed}
  /\ d.manifest.bound = Bound(d)
  /\ d.work.core \in ValidCores
  /\ Current(d)
  /\ DeliveryValid(d)

GateStatus(d) == IF GateReady(d) THEN "ready" ELSE "not_ready"

------------------------------------------------------------------------------
(* package_submission._preflight.  It loads the receipts first (r) and      *)
(* judges them by the files as they are when each judgement reads them (d). *)

Loaded(d) == [clean |-> d.clean, ci |-> d.ci, manifest |-> d.manifest, gate |-> d.gate,
              qa |-> d.work.qa]

TreeIsHead(d, tracked) == d.work = tracked

EvidenceIsReady(d, r) == GateReady([d EXCEPT !.manifest = r.manifest]) /\ r.gate = "ready"

ReleaseIsCurrent(d, r, commit, remote) ==
  /\ Current([d EXCEPT !.clean = r.clean])
  /\ DeliveryValid([d EXCEPT !.work.qa = r.qa])
  /\ PublicCIValid(r.ci, commit, remote)
  /\ ArtifactBound([d EXCEPT !.ci = r.ci])
==============================================================================

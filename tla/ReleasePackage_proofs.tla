------------------------- MODULE ReleasePackage_proofs -------------------------
(***************************************************************************)
(* What package_submission.py publishes, proved for any sources, receipts, *)
(* commits and builds.                                                     *)
(*                                                                         *)
(* A packaging reads the disk at twenty-one moments.  At most two changes  *)
(* fall between the first and the last, so it has seen at most three       *)
(* states; the invariant keeps them, with the reads that each of them      *)
(* answered.  When the last member has been read again, one of the three   *)
(* was judged as a whole and is what was taken, or two of them that the    *)
(* judgements cannot tell apart.                                           *)
(***************************************************************************)
EXTENDS ReleasePackage, TLAPS

Work ==
  [src : Sources, core : Cores, media : Sources \X Cores,
   qa : {None, Failed} \union [contract : Sources \X Cores, media : Sources \X Cores]]

Shaped(d) == d = [n \in Names |-> d[n]] /\ d.work \in Work

Stages == {"tree", "evidence", "release", "snapshot", "head", "reread", "write"}

PackFields == {"pc", "pass", "commit", "src", "loaded", "taken", "next", "churn"}

Packaging(p, cs) ==
  /\ p = [f \in PackFields |-> p[f]]
  /\ p.taken = [n \in Names |-> p.taken[n]]
  /\ p.pc \in Stages
  /\ p.pass \in {1, 2} /\ p.next \in 1..7 /\ p.churn \in Nat
  /\ p.commit \in DOMAIN cs
  /\ p.pc = "snapshot" => p.pass = 1
  /\ p.pc \in {"head", "reread", "write"} => p.pass = 2
  /\ p.pc \notin {"snapshot", "reread", "write"} => p.next = 1

ReplayFields(pc) ==
  {"pc", "of", "churn"} \union (IF pc \in {"copy", "write"} THEN {"unchanged", "dist"} ELSE {})
                        \union (IF pc = "write" THEN {"ran"} ELSE {})

Replaying(r) ==
  /\ r = [f \in ReplayFields(r.pc) |-> r[f]]
  /\ r.pc \in {"build", "check", "copy", "write"}
  /\ r.churn \in Nat

World ==
  /\ Shaped(disk)
  /\ commits \in Seq(Work) /\ Len(commits) <= MaxCommits
  /\ head \in DOMAIN commits
  /\ remote = [c \in Commits |-> remote[c]]

Typed ==
  /\ World
  /\ pack.pc # "idle" => Packaging(pack, commits)
  /\ replay.pc # "idle" => Replaying(replay)

\* A packaging never runs beside the programs that write receipts in several steps.
Exclusive ==
  /\ maker # None => pack.pc = "idle"
  /\ replay.pc # "idle" => pack.pc = "idle"

-------------------------------------------------------------------------------
(* The replay, and the receipts that it leaves.                            *)

Sound(c) == c.dist.of = c.of /\ c.ran.src = c.of /\ c.ran.dist = c.dist

SoundZip(z) == z # None => Sound(z.clean)

BuiltOf(dist, s) == dist # None => dist.of = s

\* What a replay nothing disturbed has established about the disk, or has read.
Undisturbed(r, d) ==
  /\ r.pc \in {"build", "check", "copy"} => d.work.src = r.of
  /\ r.pc \in {"check", "copy"} => BuiltOf(d.dist, r.of)
  /\ r.pc = "copy" => r.dist = d.dist
  /\ r.pc = "write" => /\ r.ran.src = r.of
                       /\ r.ran.dist = r.dist
                       /\ BuiltOf(r.dist, r.of)

ReplayInv == replay.pc # "idle" /\ replay.churn = 0 => Undisturbed(replay, disk)

SoundReceipt(c) == c \notin {None, Failed} /\ c.churn = 0 => Sound(c)

\* Every artifact of the workflow holds a receipt of a replay nobody disturbed.
ZipsAreSound ==
  /\ SoundReceipt(disk.clean)
  /\ SoundZip(disk.zip)
  /\ \A c \in Commits : remote[c] # None => SoundZip(remote[c].zip)
  /\ pack.pc # "idle" => SoundZip(pack.taken.zip)
  /\ output # None => SoundZip(output.files.zip)

-------------------------------------------------------------------------------
(* The packaging, and the states that it has seen.                         *)

Now == [disk |-> disk, head |-> head, remote |-> remote]

Instant(s, cs) == Shaped(s.disk) /\ s.head \in DOMAIN cs

\* How many of its reads a packaging has done: the preflight reads 1 to 3, the
\* members 4 to 10, the preflight again 11 to 13, HEAD 14, the members 15 to 21.
Progress(p) ==
  CASE p.pc = "tree"     -> IF p.pass = 1 THEN 0 ELSE 10
    [] p.pc = "evidence" -> IF p.pass = 1 THEN 1 ELSE 11
    [] p.pc = "release"  -> IF p.pass = 1 THEN 2 ELSE 12
    [] p.pc = "snapshot" -> 2 + p.next
    [] p.pc = "head"     -> 13
    [] p.pc = "reread"   -> 13 + p.next
    [] p.pc = "write"    -> 21

\* What read j found, when it read state s and the receipts were loaded in state b.
Found(j, s, b, p, cs) ==
  /\ j \in {1, 11} => TreeIsHead(s.disk, cs[s.head]) /\ p.src = s.disk.work.src
  /\ j \in {2, 12} => EvidenceIsReady(s.disk, Loaded(b.disk))
  /\ j \in {3, 13} => ReleaseIsCurrent(s.disk, Loaded(b.disk), p.commit, s.remote)
  /\ j \in 4..10 => p.taken[Members[j - 3]] = s.disk[Members[j - 3]]
  /\ j = 14 => s.head = p.commit
  /\ j \in 15..21 => p.taken[Members[j - 14]] = s.disk[Members[j - 14]]

\* What a change from state a to state b is like: HEAD moves only to a commit
\* whose files are in the tree then, and but for an artifact that is unpacked
\* only one member changes.
Change(a, b, cs) ==
  /\ \/ b.head = a.head
     \/ b.disk.work = cs[b.head]
  /\ \/ \E n \in Names : \A m \in Names \ {n} : b.disk[m] = a.disk[m]
     \/ ~ (a.disk.dist = a.disk.zip.dist /\ a.disk.clean = a.disk.zip.clean)

\* Reads up to t1 were of s0, those up to t2 of s1, the others of s2.
At(h, j) == IF j <= h.t1 THEN h.s0 ELSE IF j <= h.t2 THEN h.s1 ELSE h.s2

LoadedAt(j) == IF j <= 10 THEN 1 ELSE 11

History(h, p, now, cs) ==
  /\ Instant(h.s0, cs) /\ Instant(h.s1, cs) /\ Instant(h.s2, cs)
  /\ h.t1 \in Nat /\ h.t2 \in Nat /\ h.t1 <= h.t2 /\ h.t2 <= Progress(p)
  /\ h.s2 = now
  /\ p.churn = 0 => h.s1 = h.s2
  /\ p.churn <= 1 => h.s0 = h.s1
  /\ Change(h.s0, h.s1, cs) /\ Change(h.s1, h.s2, cs)

Passed(h, p, cs) ==
  /\ h.s0.head = p.commit
  /\ \A j \in 1..Progress(p) : Found(j, At(h, j), At(h, LoadedAt(j)), p, cs)
  /\ Progress(p) \in {1, 2, 11, 12}
       => p.loaded = Loaded(At(h, LoadedAt(Progress(p))).disk)

PackInv ==
  pack.pc # "idle" /\ pack.churn <= 2 =>
    \E h : History(h, pack, Now, commits) /\ Passed(h, pack, commits)

OneRelease(f, commit, src, cs) ==
  /\ TreeIsHead(f, cs[commit])
  /\ src = f.work.src
  /\ EvidenceIsReady(f, Loaded(f))
  /\ Current(f)
  /\ DeliveryValid(f)
  /\ ArtifactBound(f)
  /\ f.ci.commit = commit

OutputInv ==
  output # None =>
    /\ output.commit \in DOMAIN commits
    /\ output.churn <= 2 => OneRelease(output.files, output.commit, output.src, commits)

ReleaseInv == Typed /\ Exclusive /\ ReplayInv /\ ZipsAreSound /\ PackInv /\ OutputInv

-------------------------------------------------------------------------------
(* Lemmas about the operators.                                             *)

LEMMA MembersAreNames ==
  /\ Len(Members) = 7
  /\ Members[1] = "manifest" /\ Members[2] = "gate" /\ Members[3] = "zip"
  /\ Members[4] = "clean" /\ Members[5] = "ci" /\ Members[6] = "dist" /\ Members[7] = "work"
  /\ \A k \in 1..7 : Members[k] \in Names
  /\ \A k, l \in 1..7 : Members[k] = Members[l] => k = l
  /\ \A n \in Names : \E k \in 1..7 : Members[k] = n
<1>1. /\ Len(Members) = 7
      /\ Members[1] = "manifest" /\ Members[2] = "gate" /\ Members[3] = "zip"
      /\ Members[4] = "clean" /\ Members[5] = "ci" /\ Members[6] = "dist" /\ Members[7] = "work"
  BY DEF Members
<1>2. \A k \in 1..7 : k \in {1, 2, 3, 4, 5, 6, 7}
  OBVIOUS
<1>3. \A k \in 1..7 : Members[k] \in Names
  BY <1>1, <1>2 DEF Names
<1>4. \A k, l \in 1..7 : Members[k] = Members[l] => k = l
  BY <1>1, <1>2
<1>5. \A n \in Names : \E k \in 1..7 : Members[k] = n
  <2> SUFFICES ASSUME NEW n \in Names PROVE \E k \in 1..7 : Members[k] = n
    OBVIOUS
  <2>1. n \in {Members[1], Members[2], Members[3], Members[4], Members[5], Members[6], Members[7]}
    BY <1>1 DEF Names
  <2> QED BY <2>1
<1> QED BY <1>1, <1>3, <1>4, <1>5

\* Two disks are one if they agree on every member.
LEMMA SameDisk ==
  ASSUME NEW f, NEW d, f = [n \in Names |-> f[n]], Shaped(d), \A n \in Names : f[n] = d[n]
  PROVE  f = d
  BY DEF Shaped

LEMMA SameReceipt ==
  ASSUME NEW d, Shaped(d)
  PROVE  /\ [d EXCEPT !.manifest = Loaded(d).manifest] = d
         /\ [d EXCEPT !.clean = Loaded(d).clean] = d
         /\ [d EXCEPT !.ci = Loaded(d).ci] = d
         /\ [d EXCEPT !.work.qa = Loaded(d).qa] = d
<1>1. /\ Loaded(d).manifest = d.manifest /\ Loaded(d).clean = d.clean
      /\ Loaded(d).ci = d.ci /\ Loaded(d).qa = d.work.qa
  BY DEF Loaded
<1>2. /\ [d EXCEPT !.manifest = d.manifest] = d
      /\ [d EXCEPT !.clean = d.clean] = d
      /\ [d EXCEPT !.ci = d.ci] = d
  BY DEF Shaped, Names
<1>3. [d EXCEPT !.work.qa = d.work.qa] = d
  BY DEF Shaped, Names, Work
<1> QED BY <1>1, <1>2, <1>3

\* A disk that passed every judgement as it is, is one release.
LEMMA JudgedAsAWhole ==
  ASSUME NEW f, NEW commit, NEW src, NEW cs, NEW remotes, Shaped(f),
         f.work = cs[commit], src = f.work.src,
         EvidenceIsReady(f, Loaded(f)),
         ReleaseIsCurrent(f, Loaded(f), commit, remotes)
  PROVE  OneRelease(f, commit, src, cs)
<1>1. Current(f) /\ DeliveryValid(f) /\ ArtifactBound(f)
  BY SameReceipt DEF ReleaseIsCurrent
<1>2. f.ci.commit = commit
  BY DEF ReleaseIsCurrent, PublicCIValid, Loaded
<1> QED BY <1>1, <1>2 DEF OneRelease, TreeIsHead

LEMMA ProgressOf ==
  ASSUME NEW p, NEW cs, Packaging(p, cs)
  PROVE  /\ Progress(p) \in 0..21
         /\ p.pc = "tree" => Progress(p) = IF p.pass = 1 THEN 0 ELSE 10
         /\ p.pc = "evidence" => Progress(p) = IF p.pass = 1 THEN 1 ELSE 11
         /\ p.pc = "release" => Progress(p) = IF p.pass = 1 THEN 2 ELSE 12
         /\ p.pc = "snapshot" => Progress(p) = 2 + p.next
         /\ p.pc = "head" => Progress(p) = 13
         /\ p.pc = "reread" => Progress(p) = 13 + p.next
         /\ p.pc = "write" => Progress(p) = 21
<1>1. /\ p.pc = "tree" => Progress(p) = IF p.pass = 1 THEN 0 ELSE 10
      /\ p.pc = "evidence" => Progress(p) = IF p.pass = 1 THEN 1 ELSE 11
      /\ p.pc = "release" => Progress(p) = IF p.pass = 1 THEN 2 ELSE 12
      /\ p.pc = "snapshot" => Progress(p) = 2 + p.next
      /\ p.pc = "head" => Progress(p) = 13
      /\ p.pc = "reread" => Progress(p) = 13 + p.next
      /\ p.pc = "write" => Progress(p) = 21
  BY DEF Progress
<1>2. Progress(p) \in 0..21
  BY <1>1 DEF Packaging, Stages
<1> QED BY <1>1, <1>2

-------------------------------------------------------------------------------
(* How the states that a packaging has seen follow its reads, and what     *)
(* changes while it runs.                                                  *)

\* A read adds what it found in the state as it is now.
LEMMA ReadStep ==
  ASSUME NEW h, NEW p, NEW q, NEW now, NEW cs,
         History(h, p, now, cs), Passed(h, p, cs),
         Progress(p) \in 0..20, Progress(q) = Progress(p) + 1,
         q.churn = p.churn, q.commit = p.commit,
         Progress(p) >= 1 => q.src = p.src,
         \A k \in 1..7 : Progress(p) >= 3 + k => q.taken[Members[k]] = p.taken[Members[k]],
         Found(Progress(q), now, At(h, LoadedAt(Progress(q))), q, cs),
         Progress(q) \in {2, 12} => q.loaded = p.loaded,
         Progress(q) \in {1, 11} => q.loaded = Loaded(now.disk)
  PROVE  History(h, q, now, cs) /\ Passed(h, q, cs)
<1> DEFINE K == Progress(p)
<1>1. /\ h.t1 \in Nat /\ h.t2 \in Nat /\ h.t1 <= h.t2 /\ h.t2 <= K
      /\ h.s2 = now
  BY DEF History
<1>2. At(h, K + 1) = now
  BY <1>1 DEF At
<1>3. History(h, q, now, cs)
  BY <1>1 DEF History
<1>4. \A j \in 1..K : Found(j, At(h, j), At(h, LoadedAt(j)), q, cs)
  <2> SUFFICES ASSUME NEW j \in 1..K PROVE Found(j, At(h, j), At(h, LoadedAt(j)), q, cs)
    OBVIOUS
  <2> DEFINE s == At(h, j)
             b == At(h, LoadedAt(j))
  <2>1. Found(j, s, b, p, cs)
    BY DEF Passed
  <2>2. q.src = p.src /\ q.commit = p.commit
    OBVIOUS
  <2>3. j \in 4..10 => q.taken[Members[j - 3]] = p.taken[Members[j - 3]]
    <3>1. ASSUME j \in 4..10 PROVE j - 3 \in 1..7 /\ K >= 3 + (j - 3)
      BY <3>1
    <3> QED BY <3>1
  <2>4. j \in 15..21 => q.taken[Members[j - 14]] = p.taken[Members[j - 14]]
    <3>1. ASSUME j \in 15..21 PROVE j - 14 \in 1..7 /\ K >= 3 + (j - 14)
      BY <3>1
    <3> QED BY <3>1
  <2> HIDE DEF s, b, K
  <2>5. Found(j, s, b, q, cs)
    BY <2>1, <2>2, <2>3, <2>4 DEF Found
  <2> QED BY <2>5 DEF s, b
<1>5. \A j \in 1..(K + 1) : Found(j, At(h, j), At(h, LoadedAt(j)), q, cs)
  <2> SUFFICES ASSUME NEW j \in 1..(K + 1) PROVE Found(j, At(h, j), At(h, LoadedAt(j)), q, cs)
    OBVIOUS
  <2>1. CASE j = K + 1
    BY <2>1, <1>2
  <2>2. CASE j # K + 1
    <3>1. j \in 1..K
      BY <2>2
    <3> QED BY <3>1, <1>4
  <2> QED BY <2>1, <2>2
<1>6. h.s0.head = q.commit
  BY DEF Passed
<1>7. Progress(q) \in {1, 2, 11, 12} => q.loaded = Loaded(At(h, LoadedAt(Progress(q))).disk)
  <2>1. CASE K + 1 \in {1, 11}
    <3>1. LoadedAt(K + 1) = K + 1
      BY <2>1 DEF LoadedAt
    <3> QED BY <3>1, <2>1, <1>2
  <2>2. CASE K + 1 \in {2, 12}
    <3>1. K \in {1, 2, 11, 12} /\ LoadedAt(K + 1) = LoadedAt(K)
      BY <2>2 DEF LoadedAt
    <3>2. p.loaded = Loaded(At(h, LoadedAt(K)).disk)
      BY <3>1 DEF Passed
    <3> QED BY <3>1, <3>2, <2>2
  <2> QED BY <2>1, <2>2
<1> QED BY <1>3, <1>5, <1>6, <1>7 DEF Passed

\* A change makes the state that it ends the one before the last.
LEMMA ChangeStep ==
  ASSUME NEW h, NEW p, NEW q, NEW now, NEW then, NEW cs, NEW ds,
         History(h, p, now, cs), Passed(h, p, cs),
         Progress(p) \in 0..21, Progress(q) = Progress(p),
         p.churn \in Nat, q.churn = p.churn + 1, q.churn <= 2,
         q.commit = p.commit, q.src = p.src, q.taken = p.taken, q.loaded = p.loaded,
         Instant(then, ds), Change(now, then, ds),
         \A c \in DOMAIN cs : c \in DOMAIN ds /\ ds[c] = cs[c]
  PROVE  \E g : History(g, q, then, ds) /\ Passed(g, q, ds)
<1> DEFINE K == Progress(p)
           g == [s0 |-> h.s1, s1 |-> h.s2, s2 |-> then, t1 |-> h.t2, t2 |-> K]
<1>1. /\ h.t1 \in Nat /\ h.t2 \in Nat /\ h.t1 <= h.t2 /\ h.t2 <= K
      /\ h.s2 = now /\ h.s0 = h.s1
      /\ p.churn = 0 => h.s1 = h.s2
  BY DEF History
<1>2. /\ g.s0 = h.s1 /\ g.s1 = now /\ g.s2 = then /\ g.t1 = h.t2 /\ g.t2 = K
  BY <1>1
<1>3. /\ Instant(h.s1, ds) /\ Instant(now, ds)
      /\ Change(h.s1, now, ds)
  <2>1. Instant(h.s1, cs) /\ Instant(now, cs) /\ Change(h.s1, now, cs)
    BY <1>1 DEF History
  <2> QED BY <2>1 DEF Instant, Change
<1> HIDE DEF g
<1>4. History(g, q, then, ds)
  <2>1. q.churn # 0 /\ (q.churn <= 1 => p.churn = 0)
    OBVIOUS
  <2> QED BY <1>1, <1>2, <1>3, <2>1 DEF History
<1>5. \A j \in 1..K : At(g, j) = At(h, j)
  BY <1>1, <1>2 DEF At
<1>6. \A j \in 1..K : LoadedAt(j) \in 1..K
  BY DEF LoadedAt
<1>7. \A j \in 1..K : At(h, j).head \in DOMAIN cs
  BY DEF At, History, Instant
<1>8. \A j \in 1..K : Found(j, At(g, j), At(g, LoadedAt(j)), q, ds)
  <2> SUFFICES ASSUME NEW j \in 1..K PROVE Found(j, At(g, j), At(g, LoadedAt(j)), q, ds)
    OBVIOUS
  <2>1. At(g, j) = At(h, j) /\ At(g, LoadedAt(j)) = At(h, LoadedAt(j))
    BY <1>5, <1>6
  <2>2. Found(j, At(h, j), At(h, LoadedAt(j)), p, cs)
    BY DEF Passed
  <2>3. ds[At(h, j).head] = cs[At(h, j).head]
    BY <1>7
  <2>4. Found(j, At(h, j), At(h, LoadedAt(j)), q, ds)
    BY <2>2, <2>3 DEF Found
  <2> QED BY <2>1, <2>4
<1>9. g.s0.head = q.commit
  BY <1>1, <1>2 DEF Passed
<1>10. K \in {1, 2, 11, 12} => q.loaded = Loaded(At(g, LoadedAt(K)).disk)
  <2> SUFFICES ASSUME K \in {1, 2, 11, 12} PROVE q.loaded = Loaded(At(g, LoadedAt(K)).disk)
    OBVIOUS
  <2>1. At(g, LoadedAt(K)) = At(h, LoadedAt(K))
    BY <1>5, <1>6
  <2> QED BY <2>1 DEF Passed
<1>11. Passed(g, q, ds)
  BY <1>8, <1>9, <1>10 DEF Passed
<1> QED BY <1>4, <1>11

-------------------------------------------------------------------------------
(* A packaging that has read everything has taken one release.             *)

LEMMA TakenIsOneRelease ==
  ASSUME NEW h, NEW p, NEW now, NEW cs,
         Packaging(p, cs), p.pc = "write", History(h, p, now, cs), Passed(h, p, cs)
  PROVE  OneRelease(p.taken, p.commit, p.src, cs)
<1> DEFINE f == p.taken
<1>1. Progress(p) = 21
  BY ProgressOf
<1>2. /\ h.t1 \in Nat /\ h.t2 \in Nat /\ h.t1 <= h.t2 /\ h.t2 <= 21
      /\ Shaped(h.s0.disk) /\ Shaped(h.s1.disk) /\ Shaped(h.s2.disk)
      /\ Change(h.s0, h.s1, cs) /\ Change(h.s1, h.s2, cs)
      /\ h.s0.head = p.commit
  BY <1>1 DEF History, Passed, Instant
<1>3. \A j \in 1..21 : Found(j, At(h, j), At(h, LoadedAt(j)), p, cs)
  BY <1>1 DEF Passed
<1>4. /\ At(h, 1).disk.work = cs[At(h, 1).head] /\ p.src = At(h, 1).disk.work.src
      /\ EvidenceIsReady(At(h, 2).disk, Loaded(At(h, 1).disk))
      /\ ReleaseIsCurrent(At(h, 3).disk, Loaded(At(h, 1).disk), p.commit, At(h, 3).remote)
  <2>1. /\ Found(1, At(h, 1), At(h, LoadedAt(1)), p, cs)
        /\ Found(2, At(h, 2), At(h, LoadedAt(2)), p, cs)
        /\ Found(3, At(h, 3), At(h, LoadedAt(3)), p, cs)
    BY <1>3
  <2>2. LoadedAt(2) = 1 /\ LoadedAt(3) = 1
    BY DEF LoadedAt
  <2> QED BY <2>1, <2>2 DEF Found, TreeIsHead
<1>5. /\ At(h, 11).disk.work = cs[At(h, 11).head] /\ p.src = At(h, 11).disk.work.src
      /\ EvidenceIsReady(At(h, 12).disk, Loaded(At(h, 11).disk))
      /\ ReleaseIsCurrent(At(h, 13).disk, Loaded(At(h, 11).disk), p.commit, At(h, 13).remote)
      /\ At(h, 14).head = p.commit
  <2>1. /\ Found(11, At(h, 11), At(h, LoadedAt(11)), p, cs)
        /\ Found(12, At(h, 12), At(h, LoadedAt(12)), p, cs)
        /\ Found(13, At(h, 13), At(h, LoadedAt(13)), p, cs)
        /\ Found(14, At(h, 14), At(h, LoadedAt(14)), p, cs)
    BY <1>3
  <2>2. LoadedAt(12) = 11 /\ LoadedAt(13) = 11
    BY DEF LoadedAt
  <2> QED BY <2>1, <2>2 DEF Found, TreeIsHead
<1>6. \A k \in 1..7 : /\ f[Members[k]] = At(h, 3 + k).disk[Members[k]]
                      /\ f[Members[k]] = At(h, 14 + k).disk[Members[k]]
  <2> SUFFICES ASSUME NEW k \in 1..7
               PROVE  /\ f[Members[k]] = At(h, 3 + k).disk[Members[k]]
                      /\ f[Members[k]] = At(h, 14 + k).disk[Members[k]]
    OBVIOUS
  <2>1. /\ Found(3 + k, At(h, 3 + k), At(h, LoadedAt(3 + k)), p, cs)
        /\ Found(14 + k, At(h, 14 + k), At(h, LoadedAt(14 + k)), p, cs)
    BY <1>3
  <2>2. 3 + k \in 4..10 /\ 14 + k \in 15..21 /\ (3 + k) - 3 = k /\ (14 + k) - 14 = k
    OBVIOUS
  <2> QED BY <2>1, <2>2 DEF Found
<1>7. f = [n \in Names |-> f[n]]
  BY DEF Packaging
<1> HIDE DEF f
<1>8. \A s : (Shaped(s.disk) /\ \A k \in 1..7 : f[Members[k]] = s.disk[Members[k]]) => f = s.disk
  <2> SUFFICES ASSUME NEW s, Shaped(s.disk), \A k \in 1..7 : f[Members[k]] = s.disk[Members[k]]
               PROVE  f = s.disk
    OBVIOUS
  <2>1. \A n \in Names : f[n] = s.disk[n]
    BY MembersAreNames
  <2> QED BY <2>1, <1>7, SameDisk
<1>9. CASE h.t1 >= 10
  \* Everything was first judged and taken in one state.
  <2>1. \A j \in 1..10 : At(h, j) = h.s0
    BY <1>2, <1>9 DEF At
  <2>2. f = h.s0.disk
    BY <2>1, <1>2, <1>6, <1>8
  <2>3. /\ f.work = cs[p.commit] /\ p.src = f.work.src /\ EvidenceIsReady(f, Loaded(f))
        /\ ReleaseIsCurrent(f, Loaded(f), p.commit, h.s0.remote)
    BY <2>1, <2>2, <1>2, <1>4
  <2> QED BY <2>2, <2>3, <1>2, JudgedAsAWhole DEF f
<1>10. CASE h.t2 <= 10
  \* Everything was judged and read again in one state.
  <2>1. \A j \in 11..21 : At(h, j) = h.s2
    BY <1>2, <1>10 DEF At
  <2>2. \A k \in 1..7 : At(h, 14 + k) = h.s2
    BY <2>1
  <2>3. f = h.s2.disk
    BY <2>2, <1>2, <1>6, <1>8
  <2>4. /\ f.work = cs[p.commit] /\ p.src = f.work.src /\ EvidenceIsReady(f, Loaded(f))
        /\ ReleaseIsCurrent(f, Loaded(f), p.commit, h.s2.remote)
    BY <2>1, <2>3, <1>2, <1>5
  <2> QED BY <2>3, <2>4, <1>2, JudgedAsAWhole DEF f
<1>11. CASE h.t1 <= 9 /\ h.t2 >= 11
  <2>1. f = h.s1.disk \/ (f = h.s0.disk /\ h.t1 >= 4)
    <3>1. CASE h.t1 <= 3
      <4>1. \A k \in 1..7 : At(h, 3 + k) = h.s1
        BY <3>1, <1>11, <1>2 DEF At
      <4> QED BY <4>1, <1>2, <1>6, <1>8
    <3>2. CASE h.t1 >= 4
      <4>1. \A j \in 1..3 : At(h, j) = h.s0
        BY <3>2, <1>2 DEF At
      <4>2. \A k \in 1..7 : At(h, 3 + k) = h.s0 \/ At(h, 3 + k) = h.s1
        BY <1>11, <1>2 DEF At
      <4>3. h.s0.disk.dist = h.s0.disk.zip.dist /\ h.s0.disk.clean = h.s0.disk.zip.clean
        <5>1. ReleaseIsCurrent(h.s0.disk, Loaded(h.s0.disk), p.commit, h.s0.remote)
          BY <4>1, <1>4
        <5>2. ArtifactBound(h.s0.disk)
          BY <5>1, <1>2, SameReceipt DEF ReleaseIsCurrent
        <5> QED BY <5>2 DEF ArtifactBound
      <4>4. PICK n \in Names : \A m \in Names \ {n} : h.s1.disk[m] = h.s0.disk[m]
        BY <4>3, <1>2 DEF Change
      <4>5. PICK i \in 1..7 : Members[i] = n
        BY MembersAreNames
      <4>6. \A k \in 1..7 : k # i => h.s1.disk[Members[k]] = h.s0.disk[Members[k]]
        BY <4>4, <4>5, MembersAreNames
      <4>7. CASE At(h, 3 + i) = h.s0
        <5>1. \A k \in 1..7 : f[Members[k]] = h.s0.disk[Members[k]]
          <6> SUFFICES ASSUME NEW k \in 1..7
                       PROVE  f[Members[k]] = h.s0.disk[Members[k]]
            OBVIOUS
          <6>1. f[Members[k]] = At(h, 3 + k).disk[Members[k]]
            BY <1>6
          <6>2. At(h, 3 + k) = h.s0 \/ (At(h, 3 + k) = h.s1 /\ k # i)
            BY <4>2, <4>7
          <6> QED BY <4>6, <6>1, <6>2
        <5> QED BY <5>1, <1>2, <1>8, <3>2
      <4>8. CASE At(h, 3 + i) = h.s1
        <5>1. \A k \in 1..7 : f[Members[k]] = h.s1.disk[Members[k]]
          <6> SUFFICES ASSUME NEW k \in 1..7
                       PROVE  f[Members[k]] = h.s1.disk[Members[k]]
            OBVIOUS
          <6>1. f[Members[k]] = At(h, 3 + k).disk[Members[k]]
            BY <1>6
          <6>2. At(h, 3 + k) = h.s1 \/ (At(h, 3 + k) = h.s0 /\ k # i)
            BY <4>2, <4>8
          <6> QED BY <4>6, <6>1, <6>2
        <5> QED BY <5>1, <1>2, <1>8
      <4> QED BY <4>2, <4>7, <4>8
    <3> QED BY <3>1, <3>2, <1>2
  <2>2. CASE f = h.s0.disk /\ h.t1 >= 4
    \* The change during the taking came after its member was taken.
    <3>1. \A j \in 1..3 : At(h, j) = h.s0
      BY <2>2, <1>2 DEF At
    <3>2. /\ f.work = cs[p.commit] /\ p.src = f.work.src /\ EvidenceIsReady(f, Loaded(f))
          /\ ReleaseIsCurrent(f, Loaded(f), p.commit, h.s0.remote)
      BY <3>1, <2>2, <1>2, <1>4
    <3> QED BY <3>2, <2>2, <1>2, JudgedAsAWhole DEF f
  <2>3. CASE f = h.s1.disk /\ h.t2 >= 14
    <3>1. \A j \in 11..14 : At(h, j) = h.s1
      BY <2>3, <1>2, <1>11 DEF At
    <3>2. /\ f.work = cs[p.commit] /\ p.src = f.work.src /\ EvidenceIsReady(f, Loaded(f))
          /\ ReleaseIsCurrent(f, Loaded(f), p.commit, h.s1.remote)
      BY <3>1, <2>3, <1>2, <1>5
    <3> QED BY <3>2, <2>3, <1>2, JudgedAsAWhole DEF f
  <2>4. CASE f = h.s1.disk /\ h.t2 <= 13
    \* The change during the second judgement left every member as it was.
    <3>1. \A k \in 1..7 : At(h, 14 + k) = h.s2
      BY <2>4, <1>2, <1>11 DEF At
    <3>2. f = h.s2.disk
      BY <3>1, <1>2, <1>6, <1>8
    <3>3. /\ At(h, 11) = h.s1 /\ At(h, 14) = h.s2
          /\ At(h, 12).disk = f /\ At(h, 13).disk = f
      <4>1. At(h, 11) = h.s1
        BY <1>2, <1>11 DEF At
      <4>2. At(h, 14) = h.s2
        BY <2>4, <1>2, <1>11 DEF At
      <4>3. At(h, 12) = h.s1 \/ At(h, 12) = h.s2
        BY <1>2, <1>11 DEF At
      <4>4. At(h, 13) = h.s1 \/ At(h, 13) = h.s2
        BY <1>2, <1>11 DEF At
      <4> QED BY <4>1, <4>2, <4>3, <4>4, <3>2, <2>4
    <3>4. f.work = cs[p.commit]
      <4>1. h.s2.head = p.commit /\ h.s1.disk.work = cs[h.s1.head]
        BY <3>3, <1>5
      <4>2. h.s2.head = h.s1.head \/ h.s2.disk.work = cs[h.s2.head]
        BY <1>2 DEF Change
      <4> QED BY <4>1, <4>2, <3>2, <2>4
    <3>5. /\ p.src = f.work.src /\ EvidenceIsReady(f, Loaded(f))
          /\ ReleaseIsCurrent(f, Loaded(f), p.commit, At(h, 13).remote)
      BY <3>3, <2>4, <1>5
    <3> QED BY <3>4, <3>5, <2>4, <1>2, JudgedAsAWhole DEF f
  <2> QED BY <2>1, <2>2, <2>3, <2>4, <1>2
<1> QED BY <1>2, <1>9, <1>10, <1>11

-------------------------------------------------------------------------------
(* What each step does to the disk, the commits and GitHub.                *)

LEMMA MemberReplaced ==
  ASSUME NEW d, Shaped(d), NEW x,
         NEW n \in Names \ {"work"}
  PROVE  /\ Shaped([d EXCEPT ![n] = x])
         /\ [d EXCEPT ![n] = x][n] = x
         /\ \A m \in Names \ {n} : [d EXCEPT ![n] = x][m] = d[m]
  BY DEF Shaped, Names

LEMMA WorkReplaced ==
  ASSUME NEW d, Shaped(d), NEW w \in Work
  PROVE  /\ Shaped([d EXCEPT !.work = w])
         /\ [d EXCEPT !.work = w].work = w
         /\ \A m \in Names \ {"work"} : [d EXCEPT !.work = w][m] = d[m]
  BY DEF Shaped, Names

LEMMA WorkTypes ==
  ASSUME NEW d, Shaped(d)
  PROVE  /\ \A s \in Sources : [d.work EXCEPT !.src = s] \in Work
         /\ \A e \in Cores : [d.work EXCEPT !.core = e] \in Work
         /\ [d.work EXCEPT !.media = Contract(d)] \in Work
         /\ [d.work EXCEPT !.qa = Inspection(d)] \in Work
<1>1. /\ d.work \in Work
      /\ d.work.src \in Sources /\ d.work.core \in Cores /\ d.work.media \in Sources \X Cores
  BY DEF Shaped, Work
<1>2. Contract(d) \in Sources \X Cores
  BY <1>1 DEF Contract
<1>3. Inspection(d) \in {None, Failed} \union [contract : Sources \X Cores, media : Sources \X Cores]
  BY <1>1, <1>2 DEF Inspection
<1> HIDE DEF Contract
<1>4. \A s \in Sources : [d.work EXCEPT !.src = s] \in Work
  BY <1>1 DEF Work
<1>5. \A e \in Cores : [d.work EXCEPT !.core = e] \in Work
  BY <1>1 DEF Work
<1>6. [d.work EXCEPT !.media = Contract(d)] \in Work
  BY <1>1, <1>2 DEF Work
<1>7. [d.work EXCEPT !.qa = Inspection(d)] \in Work
  BY <1>1, <1>3 DEF Work
<1> QED BY <1>4, <1>5, <1>6, <1>7

\* The programs that replace the tracked files, or one of them.
LEMMA OfWork ==
  ASSUME Typed, Edit \/ Render \/ VerifyDelivery
  PROVE  /\ Shaped(disk') /\ \A m \in Names \ {"work"} : disk'[m] = disk[m]
         /\ UNCHANGED <<commits, head, remote>>
<1>1. Shaped(disk) /\ DOMAIN disk = Names
  BY DEF Typed, World, Shaped
<1>2. \E w \in Work : disk' = [disk EXCEPT !.work = w]
  <2>1. CASE Edit
    <3>1. CASE \E s \in Sources \ {disk.work.src} : disk' = [disk EXCEPT !.work.src = s]
      <4>1. PICK s \in Sources : disk' = [disk EXCEPT !.work.src = s]
        BY <3>1
      <4>2. disk' = [disk EXCEPT !.work = [disk.work EXCEPT !.src = s]]
        BY <4>1
      <4> QED BY <4>2, <1>1, WorkTypes
    <3>2. CASE \E e \in Cores \ {disk.work.core} : disk' = [disk EXCEPT !.work.core = e]
      <4>1. PICK e \in Cores : disk' = [disk EXCEPT !.work.core = e]
        BY <3>2
      <4>2. disk' = [disk EXCEPT !.work = [disk.work EXCEPT !.core = e]]
        BY <4>1
      <4> QED BY <4>2, <1>1, WorkTypes
    <3> QED BY <2>1, <3>1, <3>2 DEF Edit
  <2>2. CASE Render
    <3>1. disk' = [disk EXCEPT !.work = [disk.work EXCEPT !.media = Contract(disk)]]
      BY <2>2 DEF Render
    <3> QED BY <3>1, <1>1, WorkTypes
  <2>3. CASE VerifyDelivery
    <3>1. disk' = [disk EXCEPT !.work = [disk.work EXCEPT !.qa = Inspection(disk)]]
      BY <2>3 DEF VerifyDelivery
    <3> QED BY <3>1, <1>1, WorkTypes
  <2> QED BY <2>1, <2>2, <2>3
<1>3. PICK w \in Work : disk' = [disk EXCEPT !.work = w]
  BY <1>2
<1>4. Shaped(disk') /\ \A m \in Names \ {"work"} : disk'[m] = disk[m]
  BY <1>1, <1>3, WorkReplaced
<1> QED BY <1>4 DEF Edit, Render, VerifyDelivery

\* Those that write one other file.
LEMMA OfReceipt ==
  ASSUME Typed, Download \/ Capture \/ ManifestWrites \/ Gate \/ ReplayBuilds \/ ReplayWrites
  PROVE  /\ Shaped(disk')
         /\ \E n \in Names \ {"work"} : \A m \in Names \ {n} : disk'[m] = disk[m]
         /\ UNCHANGED <<commits, head, remote>>
<1>1. \E n \in Names \ {"work"} : \E x : disk' = [disk EXCEPT ![n] = x]
  <2>1. CASE Download
    <3>1. \E x : disk' = [disk EXCEPT !["zip"] = x]
      BY <2>1 DEF Download
    <3> QED BY <3>1 DEF Names
  <2>2. CASE Capture
    <3>1. \E x : disk' = [disk EXCEPT !["ci"] = x]
      BY <2>2 DEF Capture
    <3> QED BY <3>1 DEF Names
  <2>3. CASE ManifestWrites
    <3>1. \E x : disk' = [disk EXCEPT !["manifest"] = x]
      BY <2>3 DEF ManifestWrites
    <3> QED BY <3>1 DEF Names
  <2>4. CASE Gate
    <3>1. \E x : disk' = [disk EXCEPT !["gate"] = x]
      BY <2>4 DEF Gate
    <3> QED BY <3>1 DEF Names
  <2>5. CASE ReplayBuilds
    <3>1. \E x : disk' = [disk EXCEPT !["dist"] = x]
      BY <2>5 DEF ReplayBuilds
    <3> QED BY <3>1 DEF Names
  <2>6. CASE ReplayWrites
    <3>1. \E x : disk' = [disk EXCEPT !["clean"] = x]
      BY <2>6 DEF ReplayWrites
    <3> QED BY <3>1 DEF Names
  <2> QED BY <2>1, <2>2, <2>3, <2>4, <2>5, <2>6
<1>2. PICK n \in Names \ {"work"} : \E x : disk' = [disk EXCEPT ![n] = x]
  BY <1>1
<1>3. PICK x : disk' = [disk EXCEPT ![n] = x]
  BY <1>2
<1>4. Shaped(disk)
  BY DEF Typed, World
<1>5. Shaped(disk') /\ \A m \in Names \ {n} : disk'[m] = disk[m]
  <2> DEFINE d == [disk EXCEPT ![n] = x]
  <2>1. Shaped(d) /\ \A m \in Names \ {n} : d[m] = disk[m]
    BY <1>4, MemberReplaced
  <2> HIDE DEF d
  <2>2. disk' = d
    BY <1>3 DEF d
  <2> QED BY <2>1, <2>2
<1>6. UNCHANGED <<commits, head, remote>>
  BY DEF Download, Capture, ManifestWrites, Gate, ReplayBuilds, ReplayWrites
<1> QED BY <1>5, <1>6

Grown == \A c \in DOMAIN commits : c \in DOMAIN commits' /\ commits'[c] = commits[c]

\* What a step makes of the world when it leaves commits and HEAD alone.
LEMMA SameCommits ==
  ASSUME World, UNCHANGED <<commits, head>>, Shaped(disk'), remote' = [c \in Commits |-> remote'[c]]
  PROVE  World' /\ Grown
  BY DEF World, Grown, Shaped, Commits

LEMMA Committed ==
  ASSUME Typed, Commit
  PROVE  /\ World' /\ Grown
         /\ disk' = disk /\ disk'.work = commits'[head']
<1>1. /\ commits \in Seq(Work) /\ disk.work \in Work /\ Len(commits) < MaxCommits
      /\ commits' = Append(commits, disk.work) /\ head' = Len(commits) + 1
      /\ disk' = disk /\ remote' = remote
  BY DEF Typed, World, Shaped, Commit
<1>2. /\ commits' \in Seq(Work) /\ Len(commits') = Len(commits) + 1
      /\ commits'[Len(commits) + 1] = disk.work
      /\ DOMAIN commits' = 1..(Len(commits) + 1) /\ DOMAIN commits = 1..Len(commits)
      /\ Len(commits) \in Nat
  BY <1>1
<1>3. \A c \in 1..Len(commits) : commits'[c] = commits[c]
  BY <1>1
<1>4. Grown
  BY <1>2, <1>3 DEF Grown
<1>5. head' \in DOMAIN commits' /\ disk'.work = commits'[head']
  BY <1>1, <1>2
<1>6. Len(commits') <= MaxCommits
  BY <1>1, <1>2, CommitAssumption
<1>7. Shaped(disk') /\ remote' = [c \in Commits |-> remote'[c]]
  BY <1>1 DEF Typed, World
<1> QED BY <1>1, <1>2, <1>4, <1>5, <1>6, <1>7 DEF World, Shaped, Commits

LEMMA CheckedOut ==
  ASSUME Typed, Checkout
  PROVE  /\ World' /\ Grown
         /\ UNCHANGED remote
         /\ disk'.work = commits'[head']
         /\ \A m \in Names \ {"work"} : disk'[m] = disk[m]
<1>1. PICK c \in DOMAIN commits : head' = c /\ disk' = [disk EXCEPT !.work = commits[c]]
  BY DEF Checkout
<1>2. Shaped(disk) /\ commits[c] \in Work /\ UNCHANGED <<commits, remote>>
  BY DEF Typed, World, Checkout
<1>3. /\ Shaped(disk') /\ disk'.work = commits[c]
      /\ \A m \in Names \ {"work"} : disk'[m] = disk[m]
  BY <1>1, <1>2, WorkReplaced
<1>4. remote' = [x \in Commits |-> remote'[x]] /\ head' \in DOMAIN commits'
  BY <1>1, <1>2 DEF Typed, World
<1> QED BY <1>1, <1>2, <1>3, <1>4 DEF World, Grown, Shaped, Commits, Typed

LEMMA Run ==
  ASSUME Typed, ZipsAreSound, Workflow
  PROVE  /\ World' /\ Grown
         /\ UNCHANGED <<disk, commits, head>>
         /\ \A c \in Commits : remote'[c] # None => SoundZip(remote'[c].zip)
<1> DEFINE D(c) == [of |-> commits[c].src, id |-> builds + 1]
           R(c) == Receipt(commits[c].src, TRUE, D(c),
                     [src |-> commits[c].src, core |-> commits[c].core, dist |-> D(c)], 0)
           Z(c) == IF R(c) # Failed THEN Artifact(D(c), R(c)) ELSE None
<1>1. \A c : SoundZip(Z(c))
  <2> SUFFICES ASSUME NEW c PROVE SoundZip(Z(c))
    OBVIOUS
  <2>1. CASE R(c) = Failed
    BY <2>1 DEF SoundZip
  <2>2. CASE R(c) # Failed
    <3>1. Sound(R(c))
      BY <2>2 DEF Receipt, Sound
    <3>2. Z(c).clean = R(c)
      BY <2>2 DEF Artifact
    <3> QED BY <3>1, <3>2 DEF SoundZip
  <2> QED BY <2>1, <2>2
<1> HIDE DEF D, R, Z
<1>2. PICK c \in DOMAIN commits : \E x : x.zip = Z(c) /\ remote' = [remote EXCEPT ![c] = x]
  <2>1. PICK c \in DOMAIN commits : \E a, b : remote' = [remote EXCEPT ![c] =
                                      [attempt |-> a, success |-> b, zip |-> Z(c)]]
    BY DEF Workflow, Z, R, D
  <2>2. PICK a, b : remote' = [remote EXCEPT ![c] = [attempt |-> a, success |-> b, zip |-> Z(c)]]
    BY <2>1
  <2>3. [attempt |-> a, success |-> b, zip |-> Z(c)].zip = Z(c)
    OBVIOUS
  <2> QED BY <2>2, <2>3
<1>3. PICK x : x.zip = Z(c) /\ remote' = [remote EXCEPT ![c] = x]
  BY <1>2
<1>4. remote = [a \in Commits |-> remote[a]] /\ c \in Commits
  BY CommitAssumption DEF Typed, World, Commits
<1>5. remote' = [a \in Commits |-> remote'[a]]
  BY <1>3, <1>4
<1>6. remote'[c] = x /\ \A a \in Commits \ {c} : remote'[a] = remote[a]
  BY <1>3, <1>4
<1>7. \A a \in Commits : remote'[a] # None => SoundZip(remote'[a].zip)
  BY <1>1, <1>3, <1>6 DEF ZipsAreSound
<1>8. UNCHANGED <<disk, commits, head>>
  BY DEF Workflow
<1>9. Shaped(disk')
  BY <1>8 DEF Typed, World, Shaped
<1> QED BY <1>5, <1>7, <1>8, <1>9, SameCommits DEF Typed

LEMMA Unpacked ==
  ASSUME Typed, Unpack
  PROVE  /\ Shaped(disk') /\ UNCHANGED <<commits, head, remote>>
         /\ disk.zip # None
         /\ ~ (disk.dist = disk.zip.dist /\ disk.clean = disk.zip.clean)
         /\ disk'.clean = disk.zip.clean
         /\ \A m \in Names \ {"dist", "clean"} : disk'[m] = disk[m]
  BY DEF Typed, World, Shaped, Unpack, Names

\* The steps that change nothing but the variables of their program.
Quiet == ReplayStarts \/ ReplayChecks \/ ReplayCopies \/ ReplayDies \/ ManifestLoads \/ Package

LEMMA QuietIsQuiet ==
  ASSUME Quiet
  PROVE  UNCHANGED <<disk, commits, head, remote>>
  BY DEF Quiet, Package, Packing, ReplayStarts, ReplayChecks, ReplayCopies, ReplayDies,
         ManifestLoads, Begin, JudgeTree, JudgeEvidence, JudgeRelease, Snapshot, HeadUnmoved,
         Reread, Publish, Refuse

\* The steps during which a packaging may be running.
Outside == Operator \/ ManifestWrites \/ Gate

LEMMA StepCases ==
  ASSUME Next
  PROVE  Quiet \/ Outside \/ ReplayBuilds \/ ReplayWrites
  BY DEF Next, Quiet, Outside, CleanReplay, Champion

LEMMA WorldStep ==
  ASSUME Typed, ZipsAreSound, [Next]_vars
  PROVE  World' /\ Grown
<1>1. CASE UNCHANGED <<disk, commits, head, remote>>
  BY <1>1, SameCommits DEF Typed, World
<1>2. CASE Quiet
  BY <1>1, <1>2, QuietIsQuiet
<1>3. CASE Edit \/ Render \/ VerifyDelivery
  BY <1>3, OfWork, SameCommits DEF Typed, World
<1>4. CASE Download \/ Capture \/ ManifestWrites \/ Gate \/ ReplayBuilds \/ ReplayWrites
  BY <1>4, OfReceipt, SameCommits DEF Typed, World
<1>5. CASE Commit
  BY <1>5, Committed
<1>6. CASE Checkout
  BY <1>6, CheckedOut
<1>7. CASE Workflow
  BY <1>7, Run
<1>8. CASE Unpack
  BY <1>8, Unpacked, SameCommits DEF Typed, World
<1>9. CASE UNCHANGED vars
  BY <1>1, <1>9 DEF vars
<1> QED BY <1>2, <1>3, <1>4, <1>5, <1>6, <1>7, <1>8, <1>9, StepCases DEF Outside, Operator

LEMMA ChangeOf ==
  ASSUME Typed, ZipsAreSound, Outside
  PROVE  Change(Now, Now', commits')
<1> DEFINE OneMember == \E n \in Names : \A m \in Names \ {n} : disk'[m] = disk[m]
           HeadFollows == head' = head \/ disk'.work = commits'[head']
<1>1. ASSUME OneMember \/ ~ (disk.dist = disk.zip.dist /\ disk.clean = disk.zip.clean), HeadFollows
      PROVE  Change(Now, Now', commits')
  BY <1>1 DEF Change, Now
<1>2. "work" \in Names
  BY DEF Names
<1>3. CASE Edit \/ Render \/ VerifyDelivery
  <2>1. OneMember
    BY <1>2, <1>3, OfWork
  <2>2. HeadFollows
    BY <1>3, OfWork
  <2> HIDE DEF OneMember, HeadFollows
  <2> QED BY <1>1, <2>1, <2>2
<1>4. CASE Download \/ Capture \/ ManifestWrites \/ Gate
  <2>1. OneMember
    BY <1>4, OfReceipt
  <2>2. HeadFollows
    BY <1>4, OfReceipt
  <2> HIDE DEF OneMember, HeadFollows
  <2> QED BY <1>1, <2>1, <2>2
<1>5. CASE Commit
  <2>1. OneMember
    BY <1>2, <1>5, Committed
  <2>2. HeadFollows
    BY <1>5, Committed
  <2> HIDE DEF OneMember, HeadFollows
  <2> QED BY <1>1, <2>1, <2>2
<1>6. CASE Checkout
  <2>1. OneMember
    BY <1>2, <1>6, CheckedOut
  <2>2. HeadFollows
    BY <1>6, CheckedOut
  <2> HIDE DEF OneMember, HeadFollows
  <2> QED BY <1>1, <2>1, <2>2
<1>7. CASE Workflow
  <2>1. OneMember
    BY <1>2, <1>7, Run
  <2>2. HeadFollows
    BY <1>7, Run
  <2> HIDE DEF OneMember, HeadFollows
  <2> QED BY <1>1, <2>1, <2>2
<1>8. CASE Unpack
  <2>1. HeadFollows
    BY <1>8, Unpacked
  <2> HIDE DEF OneMember, HeadFollows
  <2> QED BY <1>1, <1>8, <2>1, Unpacked
<1> QED BY <1>3, <1>4, <1>5, <1>6, <1>7, <1>8 DEF Outside, Operator

-------------------------------------------------------------------------------
(* What each step does to the programs.                                    *)

LEMMA DisturbedPackaging ==
  ASSUME NEW p, NEW cs, Packaging(p, cs), p.pc # "idle"
  PROVE  LET q == Disturbed(p) IN
         /\ Packaging(q, cs)
         /\ Progress(q) = Progress(p)
         /\ q.churn = p.churn + 1
         /\ q.pc = p.pc /\ q.commit = p.commit /\ q.src = p.src
         /\ q.taken = p.taken /\ q.loaded = p.loaded
<1> DEFINE q == Disturbed(p)
<1>1. q = [p EXCEPT !.churn = p.churn + 1]
  BY DEF Disturbed
<1>2. /\ p = [f \in PackFields |-> p[f]]
      /\ q = [f \in PackFields |-> q[f]]
      /\ q.churn = p.churn + 1
      /\ \A f \in PackFields \ {"churn"} : q[f] = p[f]
  BY <1>1 DEF Packaging, PackFields
<1> HIDE DEF q
<1>3. /\ q.pc = p.pc /\ q.commit = p.commit /\ q.src = p.src /\ q.pass = p.pass
      /\ q.taken = p.taken /\ q.loaded = p.loaded /\ q.next = p.next
  BY <1>2 DEF PackFields
<1>4. Packaging(q, cs)
  BY <1>2, <1>3 DEF Packaging
<1>5. Progress(q) = Progress(p)
  BY <1>3 DEF Progress
<1> QED BY <1>2, <1>3, <1>4, <1>5 DEF q

LEMMA DisturbedReplay ==
  ASSUME NEW r, Replaying(r), r.pc # "idle"
  PROVE  /\ Replaying(Disturbed(r))
         /\ Disturbed(r).churn = r.churn + 1
         /\ Disturbed(r).pc = r.pc
<1> DEFINE q == Disturbed(r)
<1>1. q = [r EXCEPT !.churn = r.churn + 1]
  BY DEF Disturbed
<1>2. r = [f \in ReplayFields(r.pc) |-> r[f]] /\ {"pc", "churn"} \subseteq ReplayFields(r.pc)
  BY DEF Replaying, ReplayFields
<1>3. /\ q.churn = r.churn + 1 /\ q.pc = r.pc
      /\ q = [f \in ReplayFields(r.pc) |-> q[f]]
  BY <1>1, <1>2
<1> HIDE DEF q
<1>4. Replaying(q)
  BY <1>3 DEF Replaying
<1> QED BY <1>3, <1>4 DEF q

\* A step from outside disturbs what runs and leaves the archive alone.
LEMMA OutsideStep ==
  ASSUME Outside
  PROVE  /\ replay' = Disturbed(replay) /\ pack' = Disturbed(pack)
         /\ maker' = maker \/ maker' = None
         /\ output' = output
  BY DEF Outside, Operator, Disturb, Edit, Commit, Checkout, Render, VerifyDelivery, Workflow,
         Download, Unpack, Capture, ManifestWrites, Gate

LEMMA CommitsGrow ==
  ASSUME NEW p, NEW cs, NEW ds, Packaging(p, cs), \A c \in DOMAIN cs : c \in DOMAIN ds
  PROVE  Packaging(p, ds)
  BY DEF Packaging

ReplaySteps == ReplayBuilds \/ ReplayChecks \/ ReplayCopies \/ ReplayWrites \/ ReplayDies

\* No packaging runs beside a replay, and a manifest is written beside neither.
LEMMA ReplayAlone ==
  ASSUME Exclusive, ReplaySteps
  PROVE  pack.pc = "idle" /\ pack' = pack /\ UNCHANGED <<maker, output>>
<1>1. replay.pc # "idle"
  BY DEF ReplaySteps, ReplayBuilds, ReplayChecks, ReplayCopies, ReplayWrites, ReplayDies
<1>2. pack.pc = "idle"
  BY <1>1 DEF Exclusive
<1>3. pack' = pack /\ UNCHANGED <<maker, output>>
  BY <1>2 DEF ReplaySteps, ReplayBuilds, ReplayChecks, ReplayCopies, ReplayWrites, ReplayDies,
              Disturbed
<1> QED BY <1>2, <1>3

LEMMA ReplayTypedStep ==
  ASSUME Typed, Next
  PROVE  replay'.pc # "idle" => Replaying(replay')
<1>1. CASE Outside
  <2>1. CASE replay.pc = "idle"
    BY <1>1, <2>1, OutsideStep DEF Disturbed
  <2>2. CASE replay.pc # "idle"
    BY <1>1, <2>2, OutsideStep, DisturbedReplay DEF Typed
  <2> QED BY <2>1, <2>2
<1>2. CASE ReplayStarts
  <2>1. /\ replay'.pc = "build" /\ replay'.churn = 0
        /\ replay' = [f \in {"pc", "of", "churn"} |-> replay'[f]]
    BY <1>2 DEF ReplayStarts
  <2>2. ReplayFields("build") = {"pc", "of", "churn"}
    BY DEF ReplayFields
  <2> QED BY <2>1, <2>2 DEF Replaying
<1>3. CASE ReplayBuilds
  <2>1. /\ replay.pc = "build" /\ replay' = [replay EXCEPT !.pc = "check"]
        /\ replay = [f \in {"pc", "of", "churn"} |-> replay[f]] /\ replay.churn \in Nat
    BY <1>3 DEF ReplayBuilds, Typed, Replaying, ReplayFields
  <2>2. /\ replay'.pc = "check" /\ replay'.churn = replay.churn
        /\ replay' = [f \in {"pc", "of", "churn"} |-> replay'[f]]
    BY <2>1
  <2>3. ReplayFields("check") = {"pc", "of", "churn"}
    BY DEF ReplayFields
  <2> QED BY <2>1, <2>2, <2>3 DEF Replaying
<1>4. CASE ReplayChecks
  <2>1. replay.churn \in Nat
    BY <1>4 DEF Typed, Replaying, ReplayChecks
  <2>2. /\ replay'.pc = "copy" /\ replay'.churn = replay.churn
        /\ replay' = [f \in {"pc", "of", "churn", "unchanged", "dist"} |-> replay'[f]]
    BY <1>4 DEF ReplayChecks
  <2>3. ReplayFields("copy") = {"pc", "of", "churn", "unchanged", "dist"}
    BY DEF ReplayFields
  <2> QED BY <2>1, <2>2, <2>3 DEF Replaying
<1>5. CASE ReplayCopies
  <2>1. replay.churn \in Nat
    BY <1>5 DEF Typed, Replaying, ReplayCopies
  <2>2. /\ replay'.pc = "write" /\ replay'.churn = replay.churn
        /\ replay' = [f \in {"pc", "of", "churn", "unchanged", "dist", "ran"} |-> replay'[f]]
    BY <1>5 DEF ReplayCopies
  <2>3. ReplayFields("write") = {"pc", "of", "churn", "unchanged", "dist", "ran"}
    BY DEF ReplayFields
  <2> QED BY <2>1, <2>2, <2>3 DEF Replaying
<1>6. CASE ReplayWrites \/ ReplayDies
  BY <1>6 DEF ReplayWrites, ReplayDies, Idle
<1>7. CASE ManifestLoads \/ Package
  <2>1. replay' = replay
    BY <1>7 DEF ManifestLoads, Package, Packing, Begin, JudgeTree, JudgeEvidence, JudgeRelease,
                Snapshot, HeadUnmoved, Reread, Publish, Refuse
  <2> QED BY <2>1 DEF Typed
<1> QED BY <1>1, <1>2, <1>3, <1>4, <1>5, <1>6, <1>7, StepCases DEF Quiet

-------------------------------------------------------------------------------
(* Each read of a packaging keeps the states that it has seen.             *)

\* What all reads have in common: p becomes q and nothing else changes.
Reads(p, q) ==
  /\ Packaging(q, commits)
  /\ Progress(p) \in 0..20 /\ Progress(q) = Progress(p) + 1
  /\ q.churn = p.churn /\ q.commit = p.commit
  /\ Progress(p) >= 1 => q.src = p.src
  /\ \A k \in 1..7 : Progress(p) >= 3 + k => q.taken[Members[k]] = p.taken[Members[k]]
  /\ Progress(q) \in {2, 12} => q.loaded = p.loaded
  /\ Progress(q) \in {1, 11} => q.loaded = Loaded(disk)

LEMMA NextRead ==
  ASSUME Typed, PackInv, Packing, pack.pc # "idle", Reads(pack, pack'),
         \A h : History(h, pack, Now, commits) /\ Passed(h, pack, commits)
                  => Found(Progress(pack'), Now, At(h, LoadedAt(Progress(pack'))), pack', commits)
  PROVE  PackInv'
<1> SUFFICES ASSUME pack'.churn <= 2
             PROVE  \E h : History(h, pack', Now', commits') /\ Passed(h, pack', commits')
  BY DEF PackInv
<1>1. Now' = Now /\ commits' = commits
  BY DEF Now, Packing
<1>2. pack.churn <= 2
  BY DEF Reads
<1>3. PICK h : History(h, pack, Now, commits) /\ Passed(h, pack, commits)
  BY <1>2 DEF PackInv
<1>4. Found(Progress(pack'), Now, At(h, LoadedAt(Progress(pack'))), pack', commits)
  BY <1>3
<1>5. Now.disk = disk
  BY DEF Now
<1>6. History(h, pack', Now, commits) /\ Passed(h, pack', commits)
  BY <1>3, <1>4, <1>5, ReadStep DEF Reads
<1> QED BY <1>1, <1>6

LEMMA PackFacts ==
  ASSUME Typed, pack.pc # "idle"
  PROVE  /\ Packaging(pack, commits)
         /\ pack = [f \in PackFields |-> pack[f]]
         /\ pack.taken = [n \in Names |-> pack.taken[n]]
         /\ pack.pass \in {1, 2} /\ pack.next \in 1..7 /\ pack.churn \in Nat
         /\ pack.commit \in DOMAIN commits
  BY DEF Typed, Packaging

LEMMA JudgeTreeReads ==
  ASSUME Typed, PackInv, JudgeTree
  PROVE  Packaging(pack', commits) /\ PackInv'
<1>1. pack.pc = "tree" /\ Packing
  BY DEF JudgeTree
<1>2. pack.next = 1
  BY <1>1, PackFacts DEF Packaging
<1>3. /\ pack' = [f \in PackFields |-> pack'[f]]
      /\ pack'.pc = "evidence" /\ pack'.src = disk.work.src /\ pack'.loaded = Loaded(disk)
      /\ pack'.pass = pack.pass /\ pack'.commit = pack.commit /\ pack'.taken = pack.taken
      /\ pack'.next = pack.next /\ pack'.churn = pack.churn
  BY <1>1, PackFacts DEF JudgeTree, PackFields
<1>4. Packaging(pack', commits)
  BY <1>1, <1>2, <1>3, PackFacts DEF Packaging, Stages
<1>5. /\ Progress(pack) = IF pack.pass = 1 THEN 0 ELSE 10
      /\ Progress(pack') = IF pack.pass = 1 THEN 1 ELSE 11
  <2>1. Progress(pack) = IF pack.pass = 1 THEN 0 ELSE 10
    BY <1>1, PackFacts, ProgressOf
  <2>2. Progress(pack') = IF pack'.pass = 1 THEN 1 ELSE 11
    BY <1>3, <1>4, ProgressOf
  <2> QED BY <2>1, <2>2, <1>3
<1>6. pack.pass \in {1, 2} /\ (pack.pass = 2 => pack'.src = pack.src)
  BY <1>1, <1>3, PackFacts DEF JudgeTree
<1>7. Reads(pack, pack')
  <2>1. CASE pack.pass = 1
    BY <2>1, <1>3, <1>4, <1>5 DEF Reads
  <2>2. CASE pack.pass = 2
    BY <2>2, <1>3, <1>4, <1>5, <1>6 DEF Reads
  <2> QED BY <2>1, <2>2, <1>6
<1>8. disk.work = commits[head]
  BY DEF JudgeTree, TreeIsHead, Tracked
<1>9. \A b : Found(Progress(pack'), Now, b, pack', commits)
  BY <1>3, <1>5, <1>6, <1>8 DEF Found, Now, TreeIsHead
<1> QED BY <1>1, <1>4, <1>7, <1>9, NextRead

LEMMA JudgeEvidenceReads ==
  ASSUME Typed, PackInv, JudgeEvidence
  PROVE  Packaging(pack', commits) /\ PackInv'
<1>1. pack.pc = "evidence" /\ Packing
  BY DEF JudgeEvidence
<1>2. pack.next = 1
  BY <1>1, PackFacts DEF Packaging
<1>3. /\ pack' = [f \in PackFields |-> pack'[f]]
      /\ pack'.pc = "release" /\ pack'.src = pack.src /\ pack'.loaded = pack.loaded
      /\ pack'.pass = pack.pass /\ pack'.commit = pack.commit /\ pack'.taken = pack.taken
      /\ pack'.next = pack.next /\ pack'.churn = pack.churn
  BY <1>1, PackFacts DEF JudgeEvidence, PackFields
<1>4. Packaging(pack', commits)
  BY <1>1, <1>2, <1>3, PackFacts DEF Packaging, Stages
<1>5. /\ Progress(pack) = IF pack.pass = 1 THEN 1 ELSE 11
      /\ Progress(pack') = IF pack.pass = 1 THEN 2 ELSE 12
  <2>1. Progress(pack) = IF pack.pass = 1 THEN 1 ELSE 11
    BY <1>1, PackFacts, ProgressOf
  <2>2. Progress(pack') = IF pack'.pass = 1 THEN 2 ELSE 12
    BY <1>3, <1>4, ProgressOf
  <2> QED BY <2>1, <2>2, <1>3
<1>6. Reads(pack, pack')
  BY <1>3, <1>4, <1>5 DEF Reads
<1>7. ASSUME NEW h, Passed(h, pack, commits)
      PROVE  Found(Progress(pack'), Now, At(h, LoadedAt(Progress(pack'))), pack', commits)
  <2>1. pack.loaded = Loaded(At(h, LoadedAt(Progress(pack))).disk)
    BY <1>5, <1>7 DEF Passed
  <2>2. LoadedAt(Progress(pack')) = LoadedAt(Progress(pack))
    BY <1>5 DEF LoadedAt
  <2>3. EvidenceIsReady(Now.disk, Loaded(At(h, LoadedAt(Progress(pack'))).disk))
    BY <2>1, <2>2 DEF JudgeEvidence, Now
  <2> QED BY <1>5, <2>3 DEF Found
<1> QED BY <1>1, <1>4, <1>6, <1>7, NextRead

LEMMA JudgeReleaseReads ==
  ASSUME Typed, PackInv, JudgeRelease
  PROVE  Packaging(pack', commits) /\ PackInv'
<1>1. pack.pc = "release" /\ Packing
  BY DEF JudgeRelease
<1>2. pack.next = 1
  BY <1>1, PackFacts DEF Packaging
<1>3. /\ pack' = [f \in PackFields |-> pack'[f]]
      /\ pack'.pc = IF pack.pass = 1 THEN "snapshot" ELSE "head"
      /\ pack'.src = pack.src
      /\ pack'.pass = pack.pass /\ pack'.commit = pack.commit /\ pack'.taken = pack.taken
      /\ pack'.next = pack.next /\ pack'.churn = pack.churn
  BY <1>1, PackFacts DEF JudgeRelease, PackFields
<1>4. Packaging(pack', commits)
  BY <1>1, <1>2, <1>3, PackFacts DEF Packaging, Stages
<1>5. /\ Progress(pack) = IF pack.pass = 1 THEN 2 ELSE 12
      /\ Progress(pack') = IF pack.pass = 1 THEN 3 ELSE 13
  <2>1. Progress(pack) = IF pack.pass = 1 THEN 2 ELSE 12
    BY <1>1, PackFacts, ProgressOf
  <2>2. CASE pack.pass = 1
    BY <2>1, <2>2, <1>2, <1>3, <1>4, ProgressOf
  <2>3. CASE pack.pass # 1
    BY <2>1, <2>3, <1>3, <1>4, ProgressOf
  <2> QED BY <2>2, <2>3
<1>6. Reads(pack, pack')
  BY <1>3, <1>4, <1>5 DEF Reads
<1>7. ASSUME NEW h, Passed(h, pack, commits)
      PROVE  Found(Progress(pack'), Now, At(h, LoadedAt(Progress(pack'))), pack', commits)
  <2>1. pack.loaded = Loaded(At(h, LoadedAt(Progress(pack))).disk)
    BY <1>5, <1>7 DEF Passed
  <2>2. LoadedAt(Progress(pack')) = LoadedAt(Progress(pack))
    BY <1>5 DEF LoadedAt
  <2>3. ReleaseIsCurrent(Now.disk, Loaded(At(h, LoadedAt(Progress(pack'))).disk),
                         pack'.commit, Now.remote)
    BY <2>1, <2>2, <1>3 DEF JudgeRelease, Now
  <2> QED BY <1>5, <2>3 DEF Found
<1> QED BY <1>1, <1>4, <1>6, <1>7, NextRead

LEMMA SnapshotReads ==
  ASSUME Typed, PackInv, ZipsAreSound, Snapshot
  PROVE  /\ Packaging(pack', commits) /\ PackInv'
         /\ SoundZip(pack'.taken.zip)
<1> DEFINE n == Members[pack.next]
           more == pack.next < Len(Members)
<1>1. pack.pc = "snapshot" /\ Packing /\ pack.pass = 1 /\ pack.next \in 1..7
  BY PackFacts DEF Snapshot, Packaging
<1>2. n \in Names /\ (more <=> pack.next < 7)
  BY <1>1, MembersAreNames
<1>3. /\ pack' = [f \in PackFields |-> pack'[f]]
      /\ pack'.taken = [pack.taken EXCEPT ![n] = disk[n]]
      /\ pack'.next = (IF more THEN pack.next + 1 ELSE 1)
      /\ pack'.pc = (IF more THEN "snapshot" ELSE "tree")
      /\ pack'.pass = (IF more THEN 1 ELSE 2)
      /\ pack'.src = pack.src /\ pack'.commit = pack.commit /\ pack'.churn = pack.churn
  BY <1>1, PackFacts DEF Snapshot, PackFields
<1> HIDE DEF more
<1>4. /\ pack'.taken = [m \in Names |-> pack'.taken[m]]
      /\ pack'.taken[n] = disk[n]
      /\ \A m \in Names \ {n} : pack'.taken[m] = pack.taken[m]
  BY <1>1, <1>2, <1>3, PackFacts
<1>5. Packaging(pack', commits)
  <2>1. CASE pack.next < 7
    BY <2>1, <1>1, <1>2, <1>3, <1>4, PackFacts DEF Packaging, Stages
  <2>2. CASE ~ (pack.next < 7)
    BY <2>2, <1>1, <1>2, <1>3, <1>4, PackFacts DEF Packaging, Stages
  <2> QED BY <2>1, <2>2
<1>6. Progress(pack) = 2 + pack.next /\ Progress(pack') = 3 + pack.next
  <2>1. Progress(pack) = 2 + pack.next
    BY <1>1, PackFacts, ProgressOf
  <2>2. CASE pack.next < 7
    <3>1. Progress(pack') = 2 + pack'.next
      BY <2>2, <1>2, <1>3, <1>5, ProgressOf
    <3> QED BY <2>1, <2>2, <3>1, <1>1, <1>2, <1>3
  <2>3. CASE ~ (pack.next < 7)
    <3>1. Progress(pack') = 10
      BY <2>3, <1>2, <1>3, <1>5, ProgressOf
    <3> QED BY <2>1, <2>3, <3>1, <1>1
  <2> QED BY <2>2, <2>3
<1> HIDE DEF n
<1>7. \A k \in 1..7 : k # pack.next => pack'.taken[Members[k]] = pack.taken[Members[k]]
  BY <1>1, <1>4, MembersAreNames DEF n
<1>8. Reads(pack, pack')
  BY <1>1, <1>3, <1>5, <1>6, <1>7 DEF Reads
<1>9. \A b : Found(Progress(pack'), Now, b, pack', commits)
  <2>1. Progress(pack') - 3 = pack.next /\ Progress(pack') \in 4..10
    BY <1>1, <1>6
  <2> QED BY <2>1, <1>4 DEF Found, Now, n
<1>10. SoundZip(pack'.taken.zip)
  <2>1. pack'.taken.zip = disk.zip \/ pack'.taken.zip = pack.taken.zip
    BY <1>4 DEF Names
  <2> QED BY <2>1, <1>1 DEF ZipsAreSound
<1> QED BY <1>1, <1>5, <1>8, <1>9, <1>10, NextRead

LEMMA HeadUnmovedReads ==
  ASSUME Typed, PackInv, HeadUnmoved
  PROVE  Packaging(pack', commits) /\ PackInv'
<1>1. pack.pc = "head" /\ Packing
  BY DEF HeadUnmoved
<1>2. pack.next = 1 /\ pack.pass = 2
  BY <1>1, PackFacts DEF Packaging
<1>3. /\ pack' = [f \in PackFields |-> pack'[f]]
      /\ pack'.pc = "reread" /\ pack'.src = pack.src
      /\ pack'.pass = pack.pass /\ pack'.commit = pack.commit /\ pack'.taken = pack.taken
      /\ pack'.next = pack.next /\ pack'.churn = pack.churn
  BY <1>1, PackFacts DEF HeadUnmoved, PackFields
<1>4. Packaging(pack', commits)
  BY <1>1, <1>2, <1>3, PackFacts DEF Packaging, Stages
<1>5. Progress(pack) = 13 /\ Progress(pack') = 14
  <2>1. Progress(pack) = 13
    BY <1>1, PackFacts, ProgressOf
  <2>2. Progress(pack') = 13 + pack'.next
    BY <1>3, <1>4, ProgressOf
  <2> QED BY <2>1, <2>2, <1>2, <1>3
<1>6. Reads(pack, pack')
  BY <1>3, <1>4, <1>5 DEF Reads
<1>7. \A b : Found(Progress(pack'), Now, b, pack', commits)
  BY <1>3, <1>5 DEF Found, Now, HeadUnmoved
<1> QED BY <1>1, <1>4, <1>6, <1>7, NextRead

LEMMA RereadReads ==
  ASSUME Typed, PackInv, Reread
  PROVE  /\ Packaging(pack', commits) /\ PackInv'
         /\ pack'.taken = pack.taken
<1>1. pack.pc = "reread" /\ Packing /\ pack.pass = 2 /\ pack.next \in 1..7
  BY PackFacts DEF Reread, Packaging
<1>2. Len(Members) = 7
  BY MembersAreNames
<1>3. /\ pack' = [f \in PackFields |-> pack'[f]]
      /\ pack'.pc = (IF pack.next < 7 THEN "reread" ELSE "write")
      /\ pack'.next = (IF pack.next < 7 THEN pack.next + 1 ELSE 7)
      /\ pack'.pass = pack.pass /\ pack'.commit = pack.commit /\ pack'.taken = pack.taken
      /\ pack'.src = pack.src /\ pack'.churn = pack.churn
  <2>1. CASE pack.next < 7
    <3>1. pack' = [pack EXCEPT !.next = pack.next + 1]
      BY <2>1, <1>2 DEF Reread
    <3> QED BY <2>1, <3>1, <1>1, PackFacts DEF PackFields
  <2>2. CASE ~ (pack.next < 7)
    <3>1. pack' = [pack EXCEPT !.pc = "write"]
      BY <2>2, <1>2 DEF Reread
    <3>2. pack.next = 7
      BY <2>2, <1>1
    <3> QED BY <3>1, <3>2, <1>1, PackFacts DEF PackFields
  <2> QED BY <2>1, <2>2
<1>4. Packaging(pack', commits)
  <2>1. CASE pack.next < 7
    BY <2>1, <1>1, <1>3, PackFacts DEF Packaging, Stages
  <2>2. CASE ~ (pack.next < 7)
    BY <2>2, <1>1, <1>3, PackFacts DEF Packaging, Stages
  <2> QED BY <2>1, <2>2
<1>5. Progress(pack) = 13 + pack.next /\ Progress(pack') = 14 + pack.next
  <2>1. Progress(pack) = 13 + pack.next
    BY <1>1, PackFacts, ProgressOf
  <2>2. CASE pack.next < 7
    <3>1. Progress(pack') = 13 + pack'.next
      BY <2>2, <1>3, <1>4, ProgressOf
    <3> QED BY <2>1, <2>2, <3>1, <1>1, <1>3
  <2>3. CASE ~ (pack.next < 7)
    <3>1. Progress(pack') = 21
      BY <2>3, <1>3, <1>4, ProgressOf
    <3> QED BY <2>1, <2>3, <3>1, <1>1
  <2> QED BY <2>2, <2>3
<1>6. Reads(pack, pack')
  BY <1>1, <1>3, <1>4, <1>5 DEF Reads
<1>7. \A b : Found(Progress(pack'), Now, b, pack', commits)
  <2> DEFINE j == Progress(pack')
  <2>1. j - 14 = pack.next /\ j \in 15..21
    BY <1>1, <1>5
  <2>2. pack'.taken[Members[j - 14]] = Now.disk[Members[j - 14]]
    BY <2>1, <1>3 DEF Now, Reread
  <2> HIDE DEF j
  <2>3. j \notin {1, 11} /\ j \notin {2, 12} /\ j \notin {3, 13} /\ j \notin 4..10 /\ j # 14
    BY <2>1
  <2>4. \A b : Found(j, Now, b, pack', commits)
    BY <2>2, <2>3 DEF Found
  <2> QED BY <2>4 DEF j
<1> QED BY <1>1, <1>3, <1>4, <1>6, <1>7, NextRead

\* A packaging begins with one state and no read.
LEMMA BeginReads ==
  ASSUME Typed, Begin
  PROVE  /\ Packaging(pack', commits) /\ PackInv'
         /\ SoundZip(pack'.taken.zip)
<1>1. /\ pack' = [f \in PackFields |-> pack'[f]]
      /\ pack'.taken = [n \in Names |-> None]
      /\ pack'.pc = "tree" /\ pack'.pass = 1 /\ pack'.next = 1 /\ pack'.churn = 0
      /\ pack'.commit = head
  BY DEF Begin, PackFields
<1>2. pack'.taken = [n \in Names |-> pack'.taken[n]] /\ pack'.taken.zip = None
  BY <1>1 DEF Names
<1>3. Packaging(pack', commits)
  BY <1>1, <1>2 DEF Packaging, Stages, Typed, World
<1>4. Progress(pack') = 0
  BY <1>1, <1>3, ProgressOf
<1>5. Now' = Now /\ commits' = commits /\ Instant(Now, commits)
  BY DEF Now, Begin, Packing, Instant, Typed, World
<1> DEFINE h == [s0 |-> Now, s1 |-> Now, s2 |-> Now, t1 |-> 0, t2 |-> 0]
<1>6. Change(Now, Now, commits)
  <2>1. "work" \in Names /\ \A m \in Names \ {"work"} : Now.disk[m] = Now.disk[m]
    BY DEF Names
  <2> QED BY <2>1 DEF Change
<1>7. History(h, pack', Now, commits)
  BY <1>1, <1>4, <1>5, <1>6 DEF History
<1>8. Passed(h, pack', commits)
  BY <1>1, <1>4 DEF Passed, Now
<1>9. PackInv'
  BY <1>5, <1>7, <1>8 DEF PackInv
<1> QED BY <1>2, <1>3, <1>9 DEF SoundZip

-------------------------------------------------------------------------------
(* The steps preserve the invariant, part by part.                         *)

\* What is not a read ends the packaging or lets it be.
Ends == Publish \/ Refuse

LEMMA Ending ==
  ASSUME Ends
  PROVE  pack'.pc = "idle" /\ Packing
  BY DEF Ends, Publish, Refuse, Idle

LEMMA PackageStep ==
  ASSUME Typed, PackInv, ZipsAreSound, Package
  PROVE  /\ pack'.pc # "idle" => /\ Packaging(pack', commits)
                                 /\ SoundZip(pack'.taken.zip)
         /\ PackInv'
         /\ Packing
<1>1. CASE Begin
  BY <1>1, BeginReads DEF Begin
<1>2. CASE Snapshot
  BY <1>2, SnapshotReads DEF Snapshot
<1>3. CASE Reread
  <2>1. pack.pc # "idle" /\ Packing
    BY <1>3 DEF Reread
  <2>2. SoundZip(pack'.taken.zip)
    BY <1>3, <2>1, RereadReads DEF ZipsAreSound
  <2> QED BY <1>3, <2>1, <2>2, RereadReads
<1>4. CASE JudgeTree
  <2>1. pack.pc # "idle" /\ Packing
    BY <1>4 DEF JudgeTree
  <2>2. pack'.taken = pack.taken
    BY <1>4, <2>1, PackFacts DEF JudgeTree, PackFields
  <2> QED BY <1>4, <2>1, <2>2, JudgeTreeReads DEF ZipsAreSound
<1>5. CASE JudgeEvidence
  <2>1. pack.pc # "idle" /\ Packing
    BY <1>5 DEF JudgeEvidence
  <2>2. pack'.taken = pack.taken
    BY <1>5, <2>1, PackFacts DEF JudgeEvidence, PackFields
  <2> QED BY <1>5, <2>1, <2>2, JudgeEvidenceReads DEF ZipsAreSound
<1>6. CASE JudgeRelease
  <2>1. pack.pc # "idle" /\ Packing
    BY <1>6 DEF JudgeRelease
  <2>2. pack'.taken = pack.taken
    BY <1>6, <2>1, PackFacts DEF JudgeRelease, PackFields
  <2> QED BY <1>6, <2>1, <2>2, JudgeReleaseReads DEF ZipsAreSound
<1>7. CASE HeadUnmoved
  <2>1. pack.pc # "idle" /\ Packing
    BY <1>7 DEF HeadUnmoved
  <2>2. pack'.taken = pack.taken
    BY <1>7, <2>1, PackFacts DEF HeadUnmoved, PackFields
  <2> QED BY <1>7, <2>1, <2>2, HeadUnmovedReads DEF ZipsAreSound
<1>8. CASE Ends
  BY <1>8, Ending DEF PackInv
<1> QED BY <1>1, <1>2, <1>3, <1>4, <1>5, <1>6, <1>7, <1>8 DEF Package, Ends

LEMMA PackStep ==
  ASSUME Typed, Exclusive, PackInv, ZipsAreSound, Next
  PROVE  /\ pack'.pc # "idle" => /\ Packaging(pack', commits')
                                 /\ SoundZip(pack'.taken.zip)
         /\ PackInv'
<1>1. CASE Package
  <2>1. commits' = commits
    BY <1>1, PackageStep DEF Packing
  <2> QED BY <1>1, <2>1, PackageStep
<1>2. CASE ReplaySteps
  BY <1>2, ReplayAlone DEF PackInv
<1>3. CASE ReplayStarts \/ ManifestLoads
  BY <1>3 DEF ReplayStarts, ManifestLoads, NothingRuns, Idle, PackInv
<1>4. CASE Outside
  <2>1. CASE pack.pc = "idle"
    <3>1. pack' = pack
      BY <1>4, <2>1, OutsideStep DEF Disturbed
    <3> QED BY <2>1, <3>1 DEF PackInv
  <2>2. CASE pack.pc # "idle"
    <3> DEFINE q == pack'
    <3>1. World' /\ Grown
      BY WorldStep
    <3>2. Packaging(pack, commits)
      BY <2>2, PackFacts
    <3>3. pack' = Disturbed(pack)
      BY <1>4, OutsideStep
    <3>4. /\ Packaging(q, commits)
          /\ Progress(q) = Progress(pack)
          /\ q.churn = pack.churn + 1
          /\ q.commit = pack.commit /\ q.src = pack.src
          /\ q.taken = pack.taken /\ q.loaded = pack.loaded
      BY <2>2, <3>2, <3>3, DisturbedPackaging
    <3> HIDE DEF q
    <3>5. Packaging(q, commits')
      BY <3>1, <3>4, CommitsGrow DEF Grown
    <3>6. SoundZip(q.taken.zip)
      BY <2>2, <3>4 DEF ZipsAreSound
    <3>7. ASSUME q.churn <= 2
          PROVE  \E g : History(g, q, Now', commits') /\ Passed(g, q, commits')
      <4>1. pack.churn \in Nat /\ pack.churn <= 2
        BY <3>2, <3>4, <3>7 DEF Packaging
      <4>2. PICK h : History(h, pack, Now, commits) /\ Passed(h, pack, commits)
        BY <2>2, <4>1 DEF PackInv
      <4>3. Change(Now, Now', commits')
        BY <1>4, ChangeOf
      <4>4. Instant(Now', commits')
        BY <3>1 DEF Instant, Now, World, Shaped
      <4>5. \A c \in DOMAIN commits : c \in DOMAIN commits' /\ commits'[c] = commits[c]
        BY <3>1 DEF Grown
      <4>6. Progress(pack) \in 0..21
        BY <3>2, ProgressOf
      <4> DEFINE then == Now'
      <4> HIDE DEF then
      <4>7. Instant(then, commits') /\ Change(Now, then, commits')
        BY <4>3, <4>4 DEF then
      <4>8. \E g : History(g, q, then, commits') /\ Passed(g, q, commits')
        BY <3>4, <3>7, <4>1, <4>2, <4>5, <4>6, <4>7, ChangeStep
      <4> QED BY <4>8 DEF then
    <3>8. PackInv'
      BY <3>7 DEF PackInv, q
    <3> QED BY <3>5, <3>6, <3>8 DEF q
  <2> QED BY <2>1, <2>2
<1> QED BY <1>1, <1>2, <1>3, <1>4, StepCases DEF Quiet, ReplaySteps

LEMMA TypedStep ==
  ASSUME Typed, Exclusive, PackInv, ZipsAreSound, Next
  PROVE  Typed'
<1>1. World'
  BY WorldStep
<1>2. pack'.pc # "idle" => Packaging(pack', commits')
  BY PackStep
<1>3. replay'.pc # "idle" => Replaying(replay')
  BY ReplayTypedStep
<1> QED BY <1>1, <1>2, <1>3 DEF Typed

LEMMA ExclusiveStep ==
  ASSUME Typed, Exclusive, Next
  PROVE  Exclusive'
<1>1. CASE Outside
  <2>1. pack'.pc = pack.pc
    <3>1. pack.pc # "idle" => Disturbed(pack).pc = pack.pc
      BY PackFacts, DisturbedPackaging
    <3> QED BY <1>1, <3>1, OutsideStep DEF Disturbed
  <2>2. replay'.pc = replay.pc
    <3>1. replay.pc # "idle" => Disturbed(replay).pc = replay.pc
      BY DisturbedReplay DEF Typed
    <3> QED BY <1>1, <3>1, OutsideStep DEF Disturbed
  <2>3. maker' # None => maker # None
    BY <1>1, OutsideStep
  <2> QED BY <2>1, <2>2, <2>3 DEF Exclusive
<1>2. CASE ReplaySteps
  BY <1>2, ReplayAlone DEF Exclusive
<1>3. CASE ReplayStarts \/ ManifestLoads
  BY <1>3 DEF ReplayStarts, ManifestLoads, NothingRuns, Idle, Exclusive
<1>4. CASE Begin
  BY <1>4 DEF Begin, NothingRuns, Packing, Idle, Exclusive
<1>5. CASE Package /\ ~ Begin
  <2>1. pack.pc # "idle" /\ Packing
    BY <1>5 DEF Package, JudgeTree, JudgeEvidence, JudgeRelease, Snapshot, HeadUnmoved, Reread,
                Publish, Refuse
  <2> QED BY <2>1 DEF Packing, Exclusive
<1> QED BY <1>1, <1>2, <1>3, <1>4, <1>5, StepCases DEF Quiet, ReplaySteps

LEMMA ReplayStep ==
  ASSUME Typed, Exclusive, ReplayInv, Next
  PROVE  ReplayInv'
<1> SUFFICES ASSUME replay'.pc # "idle", replay'.churn = 0
             PROVE  Undisturbed(replay', disk')
  BY DEF ReplayInv
<1>0. Shaped(disk) /\ (replay.pc # "idle" => Replaying(replay))
  BY DEF Typed, World
<1>1. CASE Outside
  <2>1. replay.pc # "idle"
    BY <1>1, OutsideStep DEF Disturbed
  <2>2. replay'.churn = replay.churn + 1 /\ replay.churn \in Nat
    BY <1>0, <1>1, <2>1, OutsideStep, DisturbedReplay DEF Replaying
  <2> QED BY <2>2
<1>2. CASE ReplayStarts
  BY <1>2 DEF ReplayStarts, Undisturbed
<1>3. CASE ReplayBuilds
  <2>1. /\ replay.pc = "build" /\ replay' = [replay EXCEPT !.pc = "check"]
        /\ replay = [f \in {"pc", "of", "churn"} |-> replay[f]]
    BY <1>0, <1>3 DEF ReplayBuilds, Replaying, ReplayFields
  <2>2. replay'.pc = "check" /\ replay'.of = replay.of /\ replay'.churn = replay.churn
    BY <2>1
  <2>3. disk.work.src = replay.of
    BY <2>1, <2>2 DEF ReplayInv, Undisturbed
  <2>4. PICK x : /\ x = None \/ x.of = disk.work.src
                 /\ disk' = [disk EXCEPT !.dist = x]
    BY <1>3 DEF ReplayBuilds
  <2>5. disk'.dist = x /\ disk'.work = disk.work
    BY <1>0, <2>4 DEF Shaped, Names
  <2> QED BY <2>2, <2>3, <2>4, <2>5 DEF Undisturbed, BuiltOf
<1>4. CASE ReplayChecks
  <2>1. replay.pc = "check" /\ replay'.pc = "copy" /\ replay'.of = replay.of
        /\ replay'.dist = disk.dist /\ replay'.churn = replay.churn /\ disk' = disk
    BY <1>4 DEF ReplayChecks
  <2> QED BY <2>1 DEF ReplayInv, Undisturbed
<1>5. CASE ReplayCopies
  <2>1. /\ replay.pc = "copy" /\ replay'.pc = "write" /\ replay'.of = replay.of
        /\ replay'.dist = replay.dist /\ replay'.churn = replay.churn
        /\ replay'.ran.src = disk.work.src /\ replay'.ran.dist = disk.dist
    BY <1>5 DEF ReplayCopies
  <2> QED BY <2>1 DEF ReplayInv, Undisturbed
<1>6. CASE ReplayWrites \/ ReplayDies
  BY <1>6 DEF ReplayWrites, ReplayDies, Idle
<1>7. CASE ManifestLoads \/ Package
  <2>1. replay' = replay /\ disk' = disk
    BY <1>7 DEF ManifestLoads, Package, Packing, Begin, JudgeTree, JudgeEvidence, JudgeRelease,
                Snapshot, HeadUnmoved, Reread, Publish, Refuse
  <2> QED BY <2>1 DEF ReplayInv
<1> QED BY <1>1, <1>2, <1>3, <1>4, <1>5, <1>6, <1>7, StepCases DEF Quiet

LEMMA ReceiptStep ==
  ASSUME Typed, ReplayInv, ZipsAreSound, Next
  PROVE  SoundReceipt(disk'.clean) /\ SoundZip(disk'.zip)
<1>0. "clean" \in Names /\ "zip" \in Names /\ "work" \in Names /\ Shaped(disk)
  BY DEF Names, Typed, World
<1>1. ASSUME disk'.clean = disk.clean, disk'.zip = disk.zip
      PROVE  SoundReceipt(disk'.clean) /\ SoundZip(disk'.zip)
  BY <1>1 DEF ZipsAreSound
<1>2. CASE Quiet
  BY <1>1, <1>2, QuietIsQuiet
<1>3. CASE Edit \/ Render \/ VerifyDelivery
  BY <1>0, <1>1, <1>3, OfWork
<1>4. CASE Commit
  BY <1>1, <1>4, Committed
<1>5. CASE Checkout
  BY <1>0, <1>1, <1>5, CheckedOut
<1>6. CASE Workflow
  BY <1>1, <1>6, Run
<1>7. CASE Unpack
  BY <1>0, <1>7, Unpacked DEF ZipsAreSound, SoundZip, SoundReceipt
<1>8. CASE Download
  <2>1. PICK c \in DOMAIN commits : /\ remote[c] # None
                                    /\ disk' = [disk EXCEPT !.zip = remote[c].zip]
    BY <1>8 DEF Download
  <2>2. c \in Commits
    BY CommitAssumption DEF Typed, World, Commits
  <2>3. disk'.zip = remote[c].zip /\ disk'.clean = disk.clean
    BY <1>0, <2>1 DEF Shaped, Names
  <2> QED BY <2>1, <2>2, <2>3 DEF ZipsAreSound
<1>9. CASE Capture \/ ManifestWrites \/ Gate \/ ReplayBuilds
  <2>1. disk'.clean = disk.clean /\ disk'.zip = disk.zip
    BY <1>0, <1>9 DEF Capture, ManifestWrites, Gate, ReplayBuilds, Shaped, Names
  <2> QED BY <1>1, <2>1
<1>10. CASE ReplayWrites
  <2> DEFINE c == Receipt(replay.of, replay.unchanged, replay.dist, replay.ran, replay.churn)
  <2>1. disk'.clean = c /\ disk'.zip = disk.zip
    BY <1>0, <1>10 DEF ReplayWrites, Shaped, Names
  <2>2. ASSUME c \notin {None, Failed}, c.churn = 0
        PROVE  Sound(c)
    <3>1. /\ c.of = replay.of /\ c.dist = replay.dist /\ c.ran = replay.ran
          /\ c.churn = replay.churn /\ replay.dist # None
      BY <2>2 DEF Receipt
    <3>2. replay.pc = "write" /\ replay.churn = 0
      BY <1>10, <2>2, <3>1 DEF ReplayWrites
    <3>3. replay.ran.src = replay.of /\ replay.ran.dist = replay.dist /\ replay.dist.of = replay.of
      BY <3>1, <3>2 DEF ReplayInv, Undisturbed, BuiltOf
    <3> QED BY <3>1, <3>3 DEF Sound
  <2> HIDE DEF c
  <2> QED BY <2>1, <2>2 DEF SoundReceipt, ZipsAreSound
<1> QED BY <1>2, <1>3, <1>4, <1>5, <1>6, <1>7, <1>8, <1>9, <1>10, StepCases DEF Outside, Operator

LEMMA OutputKept ==
  ASSUME Exclusive, Next, ~ Publish
  PROVE  output' = output
<1>1. CASE Quiet
  BY <1>1 DEF Quiet, Package, Packing, ReplayStarts, ReplayChecks, ReplayCopies, ReplayDies,
       ManifestLoads, Begin, JudgeTree, JudgeEvidence, JudgeRelease, Snapshot, HeadUnmoved,
       Reread, Refuse
<1>2. CASE Outside
  BY <1>2, OutsideStep
<1>3. CASE ReplayBuilds \/ ReplayWrites
  BY <1>3 DEF ReplayBuilds, ReplayWrites
<1> QED BY <1>1, <1>2, <1>3, StepCases

LEMMA Published ==
  ASSUME Publish
  PROVE  /\ pack.pc = "write"
         /\ output'.files = pack.taken /\ output'.commit = pack.commit
         /\ output'.src = pack.src /\ output'.churn = pack.churn
         /\ Packing
  BY DEF Publish

LEMMA ZipsStep ==
  ASSUME Typed, Exclusive, ReplayInv, PackInv, ZipsAreSound, Next
  PROVE  ZipsAreSound'
<1>1. SoundReceipt(disk'.clean) /\ SoundZip(disk'.zip)
  BY ReceiptStep
<1>2. \A c \in Commits : remote'[c] # None => SoundZip(remote'[c].zip)
  <2>1. CASE Workflow
    BY <2>1, Run
  <2>2. CASE ~ Workflow
    <3>1. remote' = remote
      BY <2>2, StepCases, QuietIsQuiet, OfWork, OfReceipt, Unpacked, CheckedOut
         DEF Outside, Operator, Commit
    <3> QED BY <3>1 DEF ZipsAreSound
  <2> QED BY <2>1, <2>2
<1>3. pack'.pc # "idle" => SoundZip(pack'.taken.zip)
  BY PackStep
<1>4. output' # None => SoundZip(output'.files.zip)
  <2>1. CASE Publish
    BY <2>1, Published DEF ZipsAreSound
  <2>2. CASE ~ Publish
    BY <2>2, OutputKept DEF ZipsAreSound
  <2> QED BY <2>1, <2>2
<1> QED BY <1>1, <1>2, <1>3, <1>4 DEF ZipsAreSound

LEMMA OutputStep ==
  ASSUME Typed, Exclusive, PackInv, ZipsAreSound, OutputInv, Next
  PROVE  OutputInv'
<1>1. CASE Publish
  <2>1. commits' = commits /\ pack.pc = "write"
    BY <1>1, Published DEF Packing
  <2>2. Packaging(pack, commits)
    BY <2>1, PackFacts
  <2>3. ASSUME pack.churn <= 2
        PROVE  OneRelease(pack.taken, pack.commit, pack.src, commits)
    <3>1. PICK h : History(h, pack, Now, commits) /\ Passed(h, pack, commits)
      BY <2>1, <2>3 DEF PackInv
    <3> QED BY <2>1, <2>2, <3>1, TakenIsOneRelease
  <2>4. pack.commit \in DOMAIN commits
    BY <2>2 DEF Packaging
  <2> QED BY <1>1, <2>1, <2>3, <2>4, Published DEF OutputInv
<1>2. CASE ~ Publish
  <2>1. output' = output /\ Grown
    BY <1>2, OutputKept, WorldStep
  <2>2. ASSUME output # None
        PROVE  /\ output.commit \in DOMAIN commits'
               /\ commits'[output.commit] = commits[output.commit]
    BY <2>1, <2>2 DEF Grown, OutputInv
  <2> QED BY <2>1, <2>2 DEF OutputInv, OneRelease
<1> QED BY <1>1, <1>2

LEMMA FrozenIsSound ==
  ASSUME NEW s \in Passing, NEW e \in ValidCores
  PROVE  /\ Shaped(Frozen(s, e))
         /\ SoundReceipt(Frozen(s, e).clean)
         /\ Frozen(s, e).zip = None
<1> DEFINE dist == [of |-> s, id |-> 0]
           clean == Receipt(s, TRUE, dist, [src |-> s, core |-> e, dist |-> dist], 0)
           bare == [work |-> [src |-> s, core |-> e, media |-> <<s, e>>, qa |-> None],
                    dist |-> dist, clean |-> clean,
                    zip |-> None, ci |-> None, manifest |-> None, gate |-> None]
<1>1. s \in Sources /\ e \in Cores
  BY SourceAssumption, CoreAssumption
<1>2. SoundReceipt(clean)
  <2> SUFFICES ASSUME clean \notin {None, Failed} PROVE Sound(clean)
    BY DEF SoundReceipt
  <2> QED BY DEF Receipt, Sound
<1> HIDE DEF dist, clean
<1>3. bare.work \in Work
  BY <1>1 DEF Work
<1>4. /\ bare = [n \in Names |-> bare[n]] /\ bare.clean = clean /\ bare.zip = None
  BY DEF Names
<1>5. Frozen(s, e) = [bare EXCEPT !.work.qa = Inspection(bare)]
  BY DEF Frozen, dist, clean
<1> HIDE DEF bare
<1>6. Shaped(bare)
  BY <1>3, <1>4 DEF Shaped
<1>7. Frozen(s, e) = [bare EXCEPT !.work = [bare.work EXCEPT !.qa = Inspection(bare)]]
  BY <1>4, <1>5 DEF Names
<1>8. /\ Shaped(Frozen(s, e))
      /\ Frozen(s, e).clean = bare.clean /\ Frozen(s, e).zip = bare.zip
  <2> DEFINE w == [bare.work EXCEPT !.qa = Inspection(bare)]
             d == [bare EXCEPT !.work = w]
  <2>1. w \in Work
    BY <1>6, WorkTypes
  <2> HIDE DEF w
  <2>2. Shaped(d) /\ \A m \in Names \ {"work"} : d[m] = bare[m]
    BY <1>6, <2>1, WorkReplaced
  <2> HIDE DEF d
  <2>3. d.clean = bare.clean /\ d.zip = bare.zip
    BY <2>2 DEF Names
  <2>4. Frozen(s, e) = d
    BY <1>7 DEF d, w
  <2> QED BY <2>2, <2>3, <2>4
<1> QED BY <1>2, <1>4, <1>8

LEMMA InitInv ==
  ASSUME Init
  PROVE  ReleaseInv
<1>1. PICK s \in Passing, e \in ValidCores : disk = Frozen(s, e)
  BY DEF Init
<1>2. Shaped(disk) /\ SoundReceipt(disk.clean) /\ disk.zip = None
  BY <1>1, FrozenIsSound
<1>3. /\ commits = <<disk.work>> /\ head = 1 /\ remote = [c \in Commits |-> None]
      /\ replay.pc = "idle" /\ maker = None /\ pack.pc = "idle" /\ output = None
  BY DEF Init, Idle
<1>4. commits \in Seq(Work) /\ Len(commits) = 1 /\ head \in DOMAIN commits
  <2>1. disk.work \in Work
    BY <1>2 DEF Shaped
  <2> QED BY <2>1, <1>3
<1>5. Len(commits) <= MaxCommits
  BY <1>4, CommitAssumption
<1>6. remote = [c \in Commits |-> remote[c]] /\ \A c \in Commits : remote[c] = None
  BY <1>3
<1>7. Typed
  BY <1>2, <1>3, <1>4, <1>5, <1>6 DEF Typed, World
<1>8. ZipsAreSound
  BY <1>2, <1>3, <1>6 DEF ZipsAreSound, SoundZip
<1> QED BY <1>3, <1>7, <1>8 DEF ReleaseInv, Exclusive, ReplayInv, PackInv, OutputInv

LEMMA StepInv ==
  ASSUME ReleaseInv, [Next]_vars
  PROVE  ReleaseInv'
<1>1. CASE Next
  BY <1>1, TypedStep, ExclusiveStep, ReplayStep, ZipsStep, PackStep, OutputStep DEF ReleaseInv
<1>2. CASE UNCHANGED vars
  <2>1. Typed'
    BY <1>2 DEF ReleaseInv, vars, Typed, World, Shaped, Packaging, Replaying, Commits
  <2>2. Exclusive' /\ ReplayInv' /\ ZipsAreSound' /\ OutputInv'
    BY <1>2 DEF ReleaseInv, vars, Exclusive, ReplayInv, ZipsAreSound, OutputInv
  <2>3. PackInv'
    BY <1>2 DEF ReleaseInv, vars, PackInv, Now
  <2> QED BY <2>1, <2>2, <2>3 DEF ReleaseInv
<1> QED BY <1>1, <1>2

-------------------------------------------------------------------------------
(* The theorems.                                                           *)

(* What the programs have established about the disk, HEAD and GitHub when *)
(* each of them has come to where it is: receipts tell the truth of what   *)
(* was replayed undisturbed, the artifacts of the workflow always do, and  *)
(* a packaging has seen at most three states.                              *)
THEOREM ReleaseInvariant == Spec => []ReleaseInv
<1>1. Init => ReleaseInv
  BY InitInv
<1>2. ReleaseInv /\ [Next]_vars => ReleaseInv'
  BY StepInv
<1> QED BY <1>1, <1>2, PTL DEF Spec

(* clean_replay_current accepts no receipt of an undisturbed replay that   *)
(* is about other archives or another source than those on the disk.       *)
THEOREM CurrentReceiptAlwaysTrue == Spec => []CurrentReceiptIsTrue
<1>1. ReleaseInv => CurrentReceiptIsTrue
  BY DEF ReleaseInv, ZipsAreSound, SoundReceipt, Sound, Current, CurrentReceiptIsTrue
<1> QED BY <1>1, ReleaseInvariant, PTL

(* package_submission.py publishes one release, wherever between its first *)
(* read and its last up to two changes of the disk or of HEAD fall.        *)
THEOREM AlwaysOneRelease == Spec => []PackagedIsOneRelease
<1>1. ReleaseInv => PackagedIsOneRelease
  BY DEF ReleaseInv, OutputInv, OneRelease, Undrifted, PackagedIsOneRelease
<1> QED BY <1>1, ReleaseInvariant, PTL

(* The archives in a published release were built from the source of its   *)
(* commit, and that source was replayed with them.                         *)
THEOREM ReleasedReplayAlwaysTrue == Spec => []ReleasedReplayIsTrue
<1>1. ReleaseInv => ReleasedReplayIsTrue
  <2> SUFFICES ASSUME ReleaseInv, Undrifted PROVE ReleasedReplayIsTrue
    BY DEF ReleasedReplayIsTrue
  <2> DEFINE f == output.files
  <2>1. OneRelease(f, output.commit, output.src, commits) /\ SoundZip(f.zip)
    BY DEF ReleaseInv, OutputInv, ZipsAreSound, Undrifted
  <2> HIDE DEF f
  <2>2. /\ f.work = commits[output.commit]
        /\ f.clean.of = f.work.src /\ f.clean.dist = f.dist
        /\ f.zip # None /\ f.zip.clean = f.clean
    BY <2>1 DEF OneRelease, TreeIsHead, Current, ArtifactBound
  <2>3. Sound(f.clean)
    BY <2>1, <2>2 DEF SoundZip
  <2>4. /\ f.dist.of = commits[output.commit].src
        /\ f.clean.ran.src = commits[output.commit].src
        /\ f.clean.ran.dist = f.dist
    BY <2>2, <2>3 DEF Sound
  <2> QED BY <2>4 DEF ReleasedReplayIsTrue, f
<1> QED BY <1>1, ReleaseInvariant, PTL
=============================================================================

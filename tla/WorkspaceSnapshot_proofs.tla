----------------------- MODULE WorkspaceSnapshot_proofs ------------------------
(***************************************************************************)
(* What restore leaves when it returns and wherever it is stopped, for any *)
(* hierarchy of places, any capture and any damage.  The argument: at each *)
(* loop, what the loops before it have brought about still holds, since    *)
(* directories are only made where nothing captured is and only removed    *)
(* after everything below them was looked at.                              *)
(***************************************************************************)
EXTENDS WorkspaceSnapshot, TLAPS

NoLinks == LinksAndSpecials(fs) = {}

Written(S) == \A p \in S : fs[p] = files[p]

\* The files of a tree: none of them is below another.
FilesOfATree ==
  /\ DOMAIN files \subseteq Place \ Hidden
  /\ files = [p \in DOMAIN files |-> files[p]]
  /\ \A p \in DOMAIN files :
       /\ files[p] \in Node /\ files[p].kind = "file"
       /\ \A d \in Ancestors[p] : d \notin DOMAIN files

Typed ==
  /\ fs \in Tree /\ found \in Tree
  /\ FilesOfATree
  /\ pc \in {"links", "foreign", "write", "directories", "restored", "raised", "killed"}
  /\ todo \subseteq Place \ Hidden
  /\ current \in DOMAIN files \union {NoPlace}
  /\ temp \in BOOLEAN /\ failed \in BOOLEAN

LinksLeft == pc = "links" => todo = LinksAndSpecials(fs)

ForeignLeft == pc = "foreign" => NoLinks /\ todo = Foreign

ToWrite ==
  pc = "write" =>
    /\ NoLinks /\ Foreign = {}
    /\ todo \subseteq DOMAIN files
    /\ Written(DOMAIN files \ todo)
    /\ current \in todo \union {NoPlace}
    /\ temp => current # NoPlace /\ \A d \in Ancestors[current] : fs[d] = Directory

AllWritten ==
  pc \in {"directories", "restored"} =>
    NoLinks /\ Foreign = {} /\ Written(DOMAIN files) /\ ~temp

Occupied(d) == \E p \in Place : ParentOf[p] = d /\ fs[p] # Absent

ToTidy ==
  pc = "directories" =>
    /\ todo \subseteq Entries(fs, "directory")
    /\ ~failed =>
         \A d \in Entries(fs, "directory") \ todo :
           Occupied(d) /\ \A e \in todo : d \notin Ancestors[e]

Tidied == pc = "restored" /\ ~failed => \A d \in Entries(fs, "directory") : Occupied(d)

Idle == pc \in {"links", "foreign"} => ~temp /\ current = NoPlace

Loops ==
  LinksLeft /\ ForeignLeft /\ ToWrite /\ AllWritten /\ ToTidy /\ Tidied /\ Idle

RestoreInv == Typed /\ Loops /\ NothingMadeWorse

-------------------------------------------------------------------------------
(* Places                                                                  *)

LEMMA AncestorsOf ==
  ASSUME NEW p \in Place
  PROVE  /\ Ancestors[p] \subseteq Place
         /\ ParentOf[p] \in Place => ParentOf[p] \in Ancestors[p]
         /\ p \notin Ancestors[p]
  BY SnapshotAssumption DEF Ancestors, Upward

LEMMA AncestorsTransitive ==
  ASSUME NEW p \in Place, NEW d \in Ancestors[p], NEW e \in Ancestors[d]
  PROVE  e \in Ancestors[p]
<1>1. d \in Place
  BY AncestorsOf
<1>2. e \in Place
  BY <1>1, AncestorsOf
<1> SUFFICES ASSUME NEW S \in SUBSET Place, Upward(S, p) PROVE e \in S
  BY <1>2 DEF Ancestors
<1>3. d \in S
  BY DEF Ancestors
<1>4. Upward(S, d)
  BY <1>3 DEF Upward
<1> QED
  BY <1>1, <1>4 DEF Ancestors

LEMMA ParentOfAncestor ==
  ASSUME NEW p \in Place, NEW d \in Ancestors[p], ParentOf[d] \in Place
  PROVE  ParentOf[d] \in Ancestors[p]
  BY AncestorsOf, AncestorsTransitive

\* What is below d is in d, or in a directory that is.
LEMMA BelowIsIn ==
  ASSUME NEW p \in Place, NEW d \in Ancestors[p], ParentOf[p] # d
  PROVE  \E e \in Ancestors[p] : ParentOf[e] = d
<1> DEFINE S == {x \in Place : ParentOf[p] = x \/ \E e \in Ancestors[p] : ParentOf[e] = x}
<1>1. ASSUME NEW q \in S \union {p}
      PROVE  ParentOf[q] \in S \union {Root}
  <2>1. q = p \/ q \in Ancestors[p]
    BY <1>1, AncestorsOf, ParentOfAncestor
  <2>2. q \in Place
    BY <2>1, AncestorsOf
  <2>3. ParentOf[q] \in Place \union {Root}
    BY <2>2, SnapshotAssumption
  <2> QED
    BY <2>1, <2>3
<1>2. Upward(S, p)
  BY <1>1 DEF Upward
<1>3. d \in S
  BY <1>2 DEF Ancestors
<1> QED
  BY <1>3

LEMMA NotBelowHidden ==
  ASSUME NEW p \in Place \ Hidden, NEW d \in Ancestors[p]
  PROVE  d \in Place \ Hidden
<1>1. Upward(Place \ Hidden, p)
  BY SnapshotAssumption DEF Upward
<1> QED
  BY <1>1 DEF Ancestors

-------------------------------------------------------------------------------
(* Trees                                                                   *)

LEMMA Kinds ==
  /\ Absent \in Node /\ Absent.kind = "absent"
  /\ Directory \in Node /\ Directory.kind = "directory"
  /\ \A n \in Node : /\ n.kind \in Kind
                     /\ n.kind = "absent" <=> n = Absent
                     /\ n.kind = "directory" <=> n = Directory
<1>1. Absent \in Node /\ Directory \in Node
  BY DEF Node, Absent, Directory, Kind
<1>2. Absent.kind = "absent" /\ Directory.kind = "directory"
  BY DEF Absent, Directory
<1>3. ASSUME NEW n \in Node
      PROVE  /\ n.kind \in Kind
             /\ n.kind = "absent" <=> n = Absent
             /\ n.kind = "directory" <=> n = Directory
  <2>1. CASE \E k \in Kind \ {"file"} : n = [kind |-> k]
    BY <2>1 DEF Absent, Directory
  <2>2. CASE \E d \in Data, m \in Mode : n = File(d, m)
    <3>1. n.kind = "file"
      BY <2>2 DEF File
    <3> QED
      BY <1>2, <3>1 DEF Kind
  <2> QED
    BY <2>1, <2>2 DEF Node
<1> QED
  BY <1>1, <1>2, <1>3

LEMMA TreeNodes ==
  ASSUME NEW t \in Tree
  PROVE  /\ t \in [Place -> Node]
         /\ \A p \in Place : t[p] # Absent => \A d \in Ancestors[p] : t[d] = Directory
  BY DEF Tree

Put(t, p, n) == [t EXCEPT ![p] = n]

\* Nothing is in p.
Bare(t, p) == \A q \in Place : ParentOf[q] = p => t[q] = Absent

LEMMA RemovedTree ==
  ASSUME NEW t \in Tree, NEW p \in Place, NEW u, u = Put(t, p, Absent),
         t[p] # Directory \/ Bare(t, p)
  PROVE  /\ u \in Tree /\ u[p] = Absent
         /\ \A q \in Place : q # p => u[q] = t[q]
<1>1. u \in [Place -> Node] /\ u[p] = Absent /\ \A q \in Place : q # p => u[q] = t[q]
  BY TreeNodes, Kinds DEF Put
<1>2. ASSUME NEW q \in Place, u[q] # Absent, NEW d \in Ancestors[q]
      PROVE  u[d] = Directory
  <2>1. t[q] # Absent /\ t[d] = Directory /\ d \in Place
    BY <1>1, <1>2, TreeNodes, AncestorsOf
  <2>2. d # p
    <3> SUFFICES ASSUME d = p PROVE FALSE
      OBVIOUS
    <3>1. \A x \in Place : ParentOf[x] = p => t[x] = Absent
      BY <2>1 DEF Bare
    <3>2. ParentOf[q] # d
      BY <2>1, <3>1
    <3>3. PICK e \in Ancestors[q] : ParentOf[e] = d
      BY <1>2, <3>2, BelowIsIn
    <3>4. t[e] = Directory /\ e \in Place
      BY <2>1, <3>3, TreeNodes, AncestorsOf
    <3> QED
      BY <3>1, <3>3, <3>4, Kinds
  <2> QED
    BY <1>1, <2>1, <2>2
<1> QED
  BY <1>1, <1>2 DEF Tree

\* The directories p is in exist.
Based(t, p) == \A d \in Ancestors[p] : t[d] = Directory

LEMMA PlacedTree ==
  ASSUME NEW t \in Tree, NEW p \in Place, NEW n \in Node, NEW u, u = Put(t, p, n),
         t[p] # Directory, Based(t, p)
  PROVE  /\ u \in Tree /\ u[p] = n
         /\ \A q \in Place : q # p => u[q] = t[q]
<1>1. u \in [Place -> Node] /\ u[p] = n /\ \A q \in Place : q # p => u[q] = t[q]
  BY TreeNodes DEF Put
<1>2. ASSUME NEW q \in Place, u[q] # Absent, NEW d \in Ancestors[q]
      PROVE  u[d] = Directory
  <2>1. d \in Place
    BY <1>2, AncestorsOf
  <2>2. t[d] = Directory
    BY <1>1, <1>2, TreeNodes DEF Based
  <2>3. d # p
    BY <2>2
  <2> QED
    BY <1>1, <2>1, <2>2, <2>3
<1> QED
  BY <1>1, <1>2 DEF Tree

\* The capture of a tree is as FilesOfATree says.
LEMMA CaptureOfATree ==
  ASSUME NEW t \in Tree, files = Capture(t)
  PROVE  FilesOfATree
<1>1. DOMAIN files = {p \in Place \ Hidden : t[p].kind = "file"}
      /\ \A p \in DOMAIN files : files[p] = t[p]
  <2>1. files = [p \in {p \in Place \ Hidden : t[p].kind = "file"} |-> t[p]]
    BY DEF Capture, Entries
  <2>2. /\ DOMAIN files = {p \in Place \ Hidden : t[p].kind = "file"}
        /\ \A p \in DOMAIN files : files[p] = t[p]
    BY <2>1
  <2> QED
    BY <2>2
<1>2. files = [p \in DOMAIN files |-> files[p]]
  BY DEF Capture
<1>3. \A p \in DOMAIN files : files[p] \in Node /\ files[p].kind = "file"
  BY <1>1, TreeNodes
<1>4. ASSUME NEW p \in DOMAIN files, NEW d \in Ancestors[p]
      PROVE  d \notin DOMAIN files
  <2>1. t[p] # Absent /\ p \in Place
    BY <1>1, Kinds
  <2>2. t[d] = Directory
    BY <1>4, <2>1, TreeNodes
  <2> QED
    BY <1>1, <2>2, Kinds
<1>5. DOMAIN files \subseteq Place \ Hidden
  BY <1>1
<1> QED
  BY <1>3, <1>4, <1>2, <1>5, Zenon DEF FilesOfATree

-------------------------------------------------------------------------------
(* The steps of restore                                                    *)

\* A step that changes one place, and no file that is as it was captured.
LEMMA OnePlaceMadeNoWorse ==
  ASSUME RestoreInv, NEW p \in Place \ Hidden,
         \A q \in Place : q # p => fs'[q] = fs[q],
         UNCHANGED <<files, found>>,
         p \in DOMAIN files =>
           fs'[p] = files[p] \/ (fs'[p] = Absent /\ fs[p].kind \notin {"file", "absent"})
  PROVE  NothingMadeWorse'
<1>1. DOMAIN files \subseteq Place /\ Hidden \subseteq Place
  BY SnapshotAssumption DEF RestoreInv, Typed, FilesOfATree
<1>2. \A q \in Hidden : fs'[q] = found'[q]
  BY <1>1 DEF RestoreInv, NothingMadeWorse
<1>3. ASSUME NEW q \in DOMAIN files, fs'[q] # files[q]
      PROVE  /\ found[q] # files[q]
             /\ fs'[q] = found[q] \/ (fs'[q] = Absent /\ found[q].kind # "file")
  <2>1. CASE q # p
    BY <1>1, <1>3, <2>1 DEF RestoreInv, NothingMadeWorse
  <2>2. CASE q = p
    <3>1. fs'[q] = Absent /\ fs[q].kind \notin {"file", "absent"}
      BY <1>3, <2>2
    <3>2. files[q].kind = "file"
      BY DEF RestoreInv, Typed, FilesOfATree
    <3>3. fs[q] # files[q] /\ fs[q] # Absent
      BY <3>1, <3>2, Kinds
    <3>4. found[q] # files[q] /\ fs[q] = found[q]
      BY <3>3 DEF RestoreInv, NothingMadeWorse
    <3> QED
      BY <3>1, <3>4
  <2> QED
    BY <2>1, <2>2
<1> QED
  BY <1>2, <1>3 DEF NothingMadeWorse

LEMMA StillWorse == ASSUME RestoreInv, UNCHANGED <<files, found, fs>> PROVE NothingMadeWorse'
  BY DEF RestoreInv, NothingMadeWorse

LEMMA FilesUnchanged == ASSUME FilesOfATree, files' = files PROVE FilesOfATree'
  BY DEF FilesOfATree

LEMMA UnlinkLinkKeeps ==
  ASSUME RestoreInv, NEW p \in Place, UnlinkLink(p)
  PROVE  RestoreInv'
<1>1. /\ pc = "links" /\ pc' = "links" /\ p \in todo /\ todo' = todo \ {p}
      /\ fs[p].kind = "symlink" /\ fs' = [fs EXCEPT ![p] = Absent]
      /\ UNCHANGED <<files, found, current, temp, failed>>
  BY DEF UnlinkLink, Remove
<1>2. Typed /\ p \in Place \ Hidden /\ fs \in Tree
  BY <1>1 DEF RestoreInv, Typed
<1>3. fs[p] # Directory
  BY <1>1, Kinds
<1>4. fs' \in Tree /\ fs'[p] = Absent /\ \A q \in Place : q # p => fs'[q] = fs[q]
  <2>1. p \in Place /\ fs' = Put(fs, p, Absent)
    BY <1>1 DEF Put
  <2> QED
    BY <1>2, <1>3, <2>1, RemovedTree
<1>5. Typed'
  BY <1>1, <1>2, <1>4, FilesUnchanged DEF Typed
<1>6. todo' = LinksAndSpecials(fs')
  <2>1. todo = LinksAndSpecials(fs)
    BY <1>1 DEF RestoreInv, Loops, LinksLeft
  <2>2. fs'[p].kind = "absent"
    BY <1>4, Kinds
  <2> QED
    BY <1>1, <1>2, <1>4, <2>1, <2>2 DEF LinksAndSpecials, Entries
<1>7. NothingMadeWorse'
  BY <1>1, <1>2, <1>4, OnePlaceMadeNoWorse
<1>8. ~temp /\ current = NoPlace
  BY <1>1 DEF RestoreInv, Loops, Idle
<1>9. Loops'
  BY <1>1, <1>6, <1>8 DEF Loops, LinksLeft, ForeignLeft, ToWrite, AllWritten, ToTidy, Tidied, Idle
<1> QED
  BY <1>5, <1>7, <1>9 DEF RestoreInv

LEMMA ListFilesKeeps == ASSUME RestoreInv, ListFiles PROVE RestoreInv'
<1>1. /\ pc = "links" /\ todo = {} /\ pc' = "foreign" /\ todo' = Foreign
      /\ UNCHANGED <<files, found, fs, current, temp, failed>>
  BY DEF ListFiles
<1>2. Foreign' = Foreign /\ Foreign \subseteq Place \ Hidden
  BY <1>1 DEF Foreign, Entries
<1>3. Typed'
  BY <1>1, <1>2, FilesUnchanged DEF RestoreInv, Typed
<1>4. NoLinks'
  BY <1>1 DEF RestoreInv, Loops, LinksLeft, NoLinks
<1>5. ~temp /\ current = NoPlace
  BY <1>1 DEF RestoreInv, Loops, Idle
<1>6. Loops'
  BY <1>1, <1>2, <1>4, <1>5 DEF Loops, LinksLeft, ForeignLeft, ToWrite, AllWritten, ToTidy, Tidied, Idle
<1> QED
  BY <1>1, <1>3, <1>6, StillWorse DEF RestoreInv

LEMMA UnlinkForeignKeeps ==
  ASSUME RestoreInv, NEW p \in Place, UnlinkForeign(p)
  PROVE  RestoreInv'
<1>1. /\ pc = "foreign" /\ pc' = "foreign" /\ p \in todo /\ todo' = todo \ {p}
      /\ fs' = [fs EXCEPT ![p] = Absent]
      /\ UNCHANGED <<files, found, current, temp, failed>>
  BY DEF UnlinkForeign, Remove
<1>2. Typed /\ p \in Place \ Hidden /\ fs \in Tree
  BY <1>1 DEF RestoreInv, Typed
<1>3. NoLinks /\ todo = Foreign
  BY <1>1 DEF RestoreInv, Loops, ForeignLeft
<1>4. fs[p].kind = "file" /\ p \notin DOMAIN files
  BY <1>1, <1>3 DEF Foreign, Entries
<1>5. fs[p] # Directory
  BY <1>4, Kinds
<1>6. fs' \in Tree /\ fs'[p] = Absent /\ \A q \in Place : q # p => fs'[q] = fs[q]
  <2>1. p \in Place /\ fs' = Put(fs, p, Absent)
    BY <1>1 DEF Put
  <2> QED
    BY <1>2, <1>5, <2>1, RemovedTree
<1>7. fs'[p].kind = "absent"
  BY <1>6, Kinds
<1>8. Typed'
  BY <1>1, <1>2, <1>6, FilesUnchanged DEF Typed
<1>9. NoLinks'
  BY <1>2, <1>3, <1>6, <1>7 DEF NoLinks, LinksAndSpecials, Entries
<1>10. todo' = Foreign'
  BY <1>1, <1>2, <1>3, <1>6, <1>7 DEF Foreign, Entries
<1>11. NothingMadeWorse'
  BY <1>1, <1>2, <1>4, <1>6, OnePlaceMadeNoWorse
<1>12. ~temp /\ current = NoPlace
  BY <1>1 DEF RestoreInv, Loops, Idle
<1>13. Loops'
  BY <1>1, <1>9, <1>10, <1>12 DEF Loops, LinksLeft, ForeignLeft, ToWrite, AllWritten, ToTidy, Tidied, Idle
<1> QED
  BY <1>8, <1>11, <1>13 DEF RestoreInv

LEMMA StartWritingKeeps == ASSUME RestoreInv, StartWriting PROVE RestoreInv'
<1>1. /\ pc = "foreign" /\ todo = {} /\ pc' = "write" /\ todo' = DOMAIN files
      /\ UNCHANGED <<files, found, fs, current, temp, failed>>
  BY DEF StartWriting
<1>2. Typed'
  BY <1>1, FilesUnchanged DEF RestoreInv, Typed, FilesOfATree
<1>3. NoLinks' /\ Foreign' = {}
  BY <1>1 DEF RestoreInv, Loops, ForeignLeft, NoLinks, Foreign
<1>4. ~temp /\ current = NoPlace
  BY <1>1 DEF RestoreInv, Loops, Idle
<1>5. Loops'
  BY <1>1, <1>3, <1>4 DEF Loops, LinksLeft, ForeignLeft, ToWrite, AllWritten, ToTidy, Tidied, Idle, Written
<1> QED
  BY <1>1, <1>2, <1>5, StillWorse DEF RestoreInv

LEMMA NextFileKeeps ==
  ASSUME RestoreInv, NEW p \in Place, NextFile(p)
  PROVE  RestoreInv'
<1>1. /\ pc = "write" /\ pc' = "write" /\ current = NoPlace /\ p \in todo /\ current' = p
      /\ UNCHANGED <<files, found, fs, todo, temp, failed>>
  BY DEF NextFile
<1>2. ToWrite
  BY DEF RestoreInv, Loops
<1>3. p \in DOMAIN files /\ ~temp
  BY <1>1, <1>2 DEF ToWrite
<1>4. Typed'
  BY <1>1, <1>3, FilesUnchanged DEF RestoreInv, Typed
<1>5. ToWrite'
  <2>1. NoLinks' = NoLinks /\ Foreign' = Foreign
    BY <1>1 DEF NoLinks, Foreign
  <2> QED
    BY <1>1, <1>2, <1>3, <2>1 DEF ToWrite, Written
<1>6. Loops'
  BY <1>1, <1>5 DEF Loops, LinksLeft, ForeignLeft, AllWritten, ToTidy, Tidied, Idle
<1> QED
  BY <1>1, <1>4, <1>6, StillWorse DEF RestoreInv

LEMMA MakeParentKeeps == ASSUME RestoreInv, MakeParent PROVE RestoreInv'
<1>1. /\ pc = "write" /\ pc' = "write" /\ current # NoPlace
      /\ UNCHANGED <<files, found, todo, current, temp, failed>>
  BY DEF MakeParent
<1>2. PICK d \in Missing : fs' = [fs EXCEPT ![d] = Directory]
  BY DEF MakeParent
<1>3. /\ Typed /\ ToWrite /\ fs \in Tree
      /\ current \in DOMAIN files /\ current \in Place \ Hidden
  BY <1>1 DEF RestoreInv, Loops, Typed, FilesOfATree
<1>4. /\ d \in Ancestors[current] /\ fs[d] = Absent /\ \A e \in Ancestors[d] : fs[e] = Directory
  BY DEF Missing
<1>5. d \in Place \ Hidden
  BY <1>3, <1>4, NotBelowHidden
<1>6. d \notin DOMAIN files
  BY <1>3, <1>4 DEF Typed, FilesOfATree
<1>7. fs[d] # Directory
  BY <1>4, Kinds
<1>8. fs' \in Tree /\ fs'[d] = Directory /\ \A q \in Place : q # d => fs'[q] = fs[q]
  <2>1. d \in Place /\ Directory \in Node /\ fs' = Put(fs, d, Directory)
    BY <1>2, <1>5, Kinds DEF Put
  <2>2. fs \in Tree /\ fs[d] # Directory /\ Based(fs, d)
    BY <1>3, <1>4, <1>7 DEF Based
  <2> QED
    BY <2>1, <2>2, PlacedTree
<1>9. fs'[d].kind = "directory" /\ DOMAIN files \subseteq Place
  BY <1>3, <1>8, Kinds DEF Typed, FilesOfATree
<1>10. Typed'
  BY <1>1, <1>3, <1>8, FilesUnchanged DEF Typed
<1>11. NoLinks' /\ Foreign' = {}
  <2>1. NoLinks /\ Foreign = {}
    BY <1>1, <1>3 DEF ToWrite
  <2> QED
    BY <1>1, <1>5, <1>8, <1>9, <2>1 DEF NoLinks, LinksAndSpecials, Foreign, Entries
<1>12. Written(DOMAIN files \ todo)'
  BY <1>1, <1>3, <1>6, <1>8, <1>9 DEF ToWrite, Written
<1>13. temp => \A e \in Ancestors[current] : fs'[e] = Directory
  <2>1. Ancestors[current] \subseteq Place
    BY <1>3, AncestorsOf
  <2> QED
    BY <1>1, <1>3, <1>8, <2>1 DEF ToWrite
<1>14. ToWrite'
  BY <1>1, <1>3, <1>11, <1>12, <1>13 DEF ToWrite
<1>15. Loops'
  BY <1>1, <1>14 DEF Loops, LinksLeft, ForeignLeft, AllWritten, ToTidy, Tidied, Idle
<1>16. NothingMadeWorse'
  BY <1>1, <1>5, <1>6, <1>8, OnePlaceMadeNoWorse
<1> QED
  BY <1>10, <1>15, <1>16 DEF RestoreInv

LEMMA OpenTempKeeps == ASSUME RestoreInv, OpenTemp PROVE RestoreInv'
<1>1. /\ pc = "write" /\ pc' = "write" /\ current # NoPlace /\ temp' = TRUE
      /\ \A d \in Ancestors[current] : fs[d] = Directory
      /\ UNCHANGED <<files, found, fs, todo, current, failed>>
  BY DEF OpenTemp
<1>2. Typed'
  BY <1>1, FilesUnchanged DEF RestoreInv, Typed
<1>3. ToWrite'
  <2>1. NoLinks' = NoLinks /\ Foreign' = Foreign
    BY <1>1 DEF NoLinks, Foreign
  <2> QED
    BY <1>1, <2>1 DEF RestoreInv, Loops, ToWrite, Written
<1>4. Loops'
  BY <1>1, <1>3 DEF Loops, LinksLeft, ForeignLeft, AllWritten, ToTidy, Tidied, Idle
<1> QED
  BY <1>1, <1>2, <1>4, StillWorse DEF RestoreInv

LEMMA WriteBackKeeps == ASSUME RestoreInv, WriteBack PROVE RestoreInv'
<1>1. /\ pc = "write" /\ pc' = "write" /\ temp /\ temp' = FALSE /\ current' = NoPlace
      /\ fs[current] # Directory /\ fs' = [fs EXCEPT ![current] = files[current]]
      /\ todo' = todo \ {current}
      /\ UNCHANGED <<files, found, failed>>
  BY DEF WriteBack, Original
<1>2. Typed /\ ToWrite /\ fs \in Tree /\ FilesOfATree
  BY DEF RestoreInv, Loops, Typed
<1>3. current # NoPlace /\ \A d \in Ancestors[current] : fs[d] = Directory
  BY <1>1, <1>2 DEF ToWrite
<1>4. current \in DOMAIN files
  BY <1>2, <1>3 DEF Typed
<1>5. current \in Place \ Hidden /\ files[current] \in Node /\ files[current].kind = "file"
      /\ DOMAIN files \subseteq Place
  BY <1>2, <1>4 DEF FilesOfATree
<1>6. /\ fs' \in Tree /\ fs'[current] = files[current]
      /\ \A q \in Place : q # current => fs'[q] = fs[q]
  <2>1. current \in Place /\ files[current] \in Node /\ fs' = Put(fs, current, files[current])
    BY <1>1, <1>5 DEF Put
  <2>2. fs \in Tree /\ fs[current] # Directory /\ Based(fs, current)
    BY <1>1, <1>2, <1>3 DEF Based
  <2> QED
    BY <2>1, <2>2, PlacedTree
<1>7. Typed'
  BY <1>1, <1>2, <1>6, FilesUnchanged DEF Typed
<1>8. NoLinks' /\ Foreign' = {}
  <2>1. NoLinks /\ Foreign = {}
    BY <1>1, <1>2 DEF ToWrite
  <2> QED
    BY <1>1, <1>4, <1>5, <1>6, <2>1 DEF NoLinks, LinksAndSpecials, Foreign, Entries
<1>9. Written(DOMAIN files \ todo)'
  BY <1>1, <1>2, <1>5, <1>6 DEF ToWrite, Written
<1>10. ToWrite'
  BY <1>1, <1>2, <1>8, <1>9 DEF ToWrite
<1>11. Loops'
  BY <1>1, <1>10 DEF Loops, LinksLeft, ForeignLeft, AllWritten, ToTidy, Tidied, Idle
<1>12. NothingMadeWorse'
  BY <1>1, <1>5, <1>6, OnePlaceMadeNoWorse
<1> QED
  BY <1>7, <1>11, <1>12 DEF RestoreInv

LEMMA StartTidyingKeeps == ASSUME RestoreInv, StartTidying PROVE RestoreInv'
<1>1. /\ pc = "write" /\ pc' = "directories" /\ todo = {} /\ todo' = Entries(fs, "directory")
      /\ UNCHANGED <<files, found, fs, current, temp, failed>>
  BY DEF StartTidying
<1>2. NoLinks /\ Foreign = {} /\ Written(DOMAIN files) /\ ~temp
  BY <1>1 DEF RestoreInv, Loops, ToWrite, Written
<1>3. Typed'
  <2>1. todo' \subseteq Place \ Hidden
    BY <1>1 DEF Entries
  <2> QED
    BY <1>1, <2>1, FilesUnchanged DEF RestoreInv, Typed
<1>4. AllWritten'
  <2>1. NoLinks' = NoLinks /\ Foreign' = Foreign
    BY <1>1 DEF NoLinks, Foreign
  <2> QED
    BY <1>1, <1>2, <2>1 DEF AllWritten, Written
<1>5. ToTidy'
  BY <1>1 DEF ToTidy
<1>6. Loops'
  BY <1>1, <1>4, <1>5 DEF Loops, LinksLeft, ForeignLeft, ToWrite, Tidied, Idle
<1> QED
  BY <1>1, <1>3, <1>6, StillWorse DEF RestoreInv

\* A directory is removed only after everything below it was looked at, so that none that
\* was kept because something is in it becomes empty.
LEMMA RemoveDirectoryKeeps ==
  ASSUME RestoreInv, NEW p \in Place, RemoveDirectory(p)
  PROVE  RestoreInv'
<1>1. /\ pc = "directories" /\ pc' = "directories" /\ p \in todo /\ todo' = todo \ {p}
      /\ \A e \in todo : p \notin Ancestors[e]
      /\ UNCHANGED <<files, found, current, temp>>
  BY DEF RemoveDirectory, InTurn
<1>2. Typed /\ AllWritten /\ ToTidy /\ fs \in Tree /\ FilesOfATree
  BY DEF RestoreInv, Loops, Typed
<1>3. /\ NoLinks /\ Foreign = {} /\ Written(DOMAIN files) /\ ~temp
      /\ todo \subseteq Entries(fs, "directory")
  BY <1>1, <1>2 DEF AllWritten, ToTidy
<1>4. p \in Place \ Hidden /\ fs[p].kind = "directory"
  BY <1>1, <1>3 DEF Entries
<1>5. CASE Empty(p) /\ Remove(p) /\ UNCHANGED failed
  <2>1. fs' = Put(fs, p, Absent) /\ Bare(fs, p)
    BY <1>5 DEF Empty, Remove, Put, Bare
  <2>2. fs' \in Tree /\ fs'[p] = Absent /\ \A q \in Place : q # p => fs'[q] = fs[q]
    BY <1>2, <2>1, RemovedTree
  <2>3. fs'[p].kind = "absent"
    BY <2>2, Kinds
  <2>4. Typed'
    BY <1>1, <1>2, <1>5, <2>2, FilesUnchanged DEF Typed
  <2>5. p \notin DOMAIN files /\ DOMAIN files \subseteq Place
    BY <1>2, <1>3, <1>4 DEF FilesOfATree, Written
  <2>6. AllWritten'
    <3>1. NoLinks'
      BY <1>3, <2>2, <2>3 DEF NoLinks, LinksAndSpecials, Entries
    <3>2. Foreign' = {}
      BY <1>1, <1>3, <2>2, <2>3 DEF Foreign, Entries
    <3>3. Written(DOMAIN files)'
      BY <1>1, <1>3, <2>2, <2>5 DEF Written
    <3> QED
      BY <1>1, <1>3, <3>1, <3>2, <3>3 DEF AllWritten
  <2>7. ToTidy'
    <3>1. todo' \subseteq Entries(fs', "directory")
      BY <1>1, <1>3, <2>2 DEF Entries
    <3>2. ASSUME ~failed, NEW d \in Entries(fs', "directory") \ todo'
          PROVE  Occupied(d)' /\ \A e \in todo' : d \notin Ancestors[e]
      <4>1. d # p /\ d \in Entries(fs, "directory") \ todo /\ d \in Place
        BY <1>1, <2>2, <2>3, <3>2 DEF Entries
      <4>2. Occupied(d) /\ \A e \in todo : d \notin Ancestors[e]
        BY <1>1, <1>2, <3>2, <4>1 DEF ToTidy
      <4>3. ParentOf[p] # d
        BY <1>1, <1>4, <4>1, <4>2, AncestorsOf
      <4>4. PICK q \in Place : ParentOf[q] = d /\ fs[q] # Absent
        BY <4>2 DEF Occupied
      <4>5. fs'[q] # Absent
        BY <2>2, <4>3, <4>4
      <4> QED
        BY <1>1, <4>2, <4>4, <4>5 DEF Occupied
    <3> QED
      BY <1>5, <3>1, <3>2 DEF ToTidy
  <2>8. Loops'
    BY <1>1, <2>6, <2>7 DEF Loops, LinksLeft, ForeignLeft, ToWrite, Tidied, Idle
  <2>9. NothingMadeWorse'
    BY <1>1, <1>4, <2>2, <2>5, OnePlaceMadeNoWorse
  <2> QED
    BY <2>4, <2>8, <2>9 DEF RestoreInv
<1>6. CASE ~Empty(p) /\ UNCHANGED <<fs, failed>>
  <2>1. Typed'
    BY <1>1, <1>2, <1>6, FilesUnchanged DEF Typed
  <2>2. AllWritten'
    BY <1>1, <1>2, <1>6 DEF AllWritten, NoLinks, Foreign, Written
  <2>3. Occupied(p)
    BY <1>6 DEF Empty, Occupied
  <2>4. ASSUME ~failed, NEW d \in Entries(fs, "directory") \ todo'
        PROVE  Occupied(d) /\ \A e \in todo' : d \notin Ancestors[e]
    <3>1. CASE d = p
      BY <1>1, <2>3, <3>1
    <3>2. CASE d # p
      BY <1>1, <1>2, <2>4, <3>2 DEF ToTidy
    <3> QED
      BY <3>1, <3>2
  <2>5. todo' \subseteq Entries(fs, "directory")
    BY <1>1, <1>3
  <2>6. ToTidy'
    BY <1>6, <2>4, <2>5 DEF ToTidy, Occupied
  <2>7. Loops'
    BY <1>1, <2>2, <2>6 DEF Loops, LinksLeft, ForeignLeft, ToWrite, Tidied, Idle
  <2> QED
    BY <1>1, <1>6, <2>1, <2>7, StillWorse DEF RestoreInv
<1>7. CASE failed' = TRUE /\ UNCHANGED fs
  <2>1. Typed'
    BY <1>1, <1>2, <1>7, FilesUnchanged DEF Typed
  <2>2. AllWritten'
    BY <1>1, <1>2, <1>7 DEF AllWritten, NoLinks, Foreign, Written
  <2>3. ToTidy'
    BY <1>1, <1>3, <1>7 DEF ToTidy
  <2>4. Loops'
    BY <1>1, <2>2, <2>3 DEF Loops, LinksLeft, ForeignLeft, ToWrite, Tidied, Idle
  <2> QED
    BY <1>1, <1>7, <2>1, <2>4, StillWorse DEF RestoreInv
<1> QED
  BY <1>5, <1>6, <1>7 DEF RemoveDirectory

LEMMA FinishKeeps == ASSUME RestoreInv, Finish PROVE RestoreInv'
<1>1. /\ pc = "directories" /\ pc' = "restored" /\ todo = {}
      /\ UNCHANGED <<files, found, fs, todo, current, temp, failed>>
  BY DEF Finish
<1>2. Typed'
  BY <1>1, FilesUnchanged DEF RestoreInv, Typed
<1>3. AllWritten'
  BY <1>1 DEF RestoreInv, Loops, AllWritten, NoLinks, Foreign, Written
<1>4. ~failed => \A d \in Entries(fs, "directory") : Occupied(d)
  BY <1>1 DEF RestoreInv, Loops, ToTidy
<1>5. Tidied'
  BY <1>1, <1>4 DEF Tidied, Occupied
<1>6. Loops'
  BY <1>1, <1>3, <1>5 DEF Loops, LinksLeft, ForeignLeft, ToWrite, ToTidy, Idle
<1> QED
  BY <1>1, <1>2, <1>6, StillWorse DEF RestoreInv

\* Restore stops without having come to its end: the workspace stays as it is.
LEMMA StopKeeps ==
  ASSUME RestoreInv, pc' \in {"raised", "killed"}, UNCHANGED <<files, found, fs, todo, current>>,
         temp' \in BOOLEAN, failed' \in BOOLEAN
  PROVE  RestoreInv'
<1>1. Typed'
  BY FilesUnchanged DEF RestoreInv, Typed
<1>2. Loops'
  BY DEF Loops, LinksLeft, ForeignLeft, ToWrite, AllWritten, ToTidy, Tidied, Idle
<1> QED
  BY <1>1, <1>2, StillWorse DEF RestoreInv

LEMMA RestoreStutters == ASSUME RestoreInv, UNCHANGED vars PROVE RestoreInv'
<1>1. UNCHANGED <<files, found, fs, pc, todo, current, temp, failed>>
  BY DEF vars
<1>2. Typed'
  BY <1>1, FilesUnchanged DEF RestoreInv, Typed
<1>3. LinksLeft' /\ ForeignLeft' /\ ToWrite' /\ AllWritten'
  BY <1>1 DEF RestoreInv, Loops, LinksLeft, ForeignLeft, ToWrite, AllWritten, NoLinks, Foreign,
              Written
<1>4. ToTidy' /\ Tidied' /\ Idle'
  BY <1>1 DEF RestoreInv, Loops, ToTidy, Tidied, Idle, Occupied
<1> QED
  BY <1>1, <1>2, <1>3, <1>4, StillWorse DEF RestoreInv, Loops

LEMMA InitRestore == Init => RestoreInv
<1> SUFFICES ASSUME Init PROVE RestoreInv
  OBVIOUS
<1>1. PICK t \in Captures : files = Capture(t)
  BY DEF Init
<1>2. FilesOfATree
  BY <1>1, SnapshotAssumption, CaptureOfATree
<1>3. found \in Tree /\ fs = found
  BY SnapshotAssumption DEF Init
<1>4. todo \subseteq Place \ Hidden
  BY DEF Init, LinksAndSpecials, Entries
<1>5. Typed
  BY <1>2, <1>3, <1>4 DEF Init, Typed
<1>6. Loops
  BY <1>3 DEF Init, Loops, LinksLeft, ForeignLeft, ToWrite, AllWritten, ToTidy, Tidied, Idle
<1>7. NothingMadeWorse
  BY <1>3 DEF NothingMadeWorse
<1> QED
  BY <1>5, <1>6, <1>7 DEF RestoreInv

-------------------------------------------------------------------------------

\* The invariant of WorkspaceSnapshot.restore: what the loops have done, up to the one that runs.
THEOREM RestoreInvariant == Spec => []RestoreInv
<1>1. RestoreInv /\ [Next]_vars => RestoreInv'
  <2> SUFFICES ASSUME RestoreInv, [Next]_vars PROVE RestoreInv'
    OBVIOUS
  <2>0. temp \in BOOLEAN /\ failed \in BOOLEAN
    BY DEF RestoreInv, Typed
  <2>1. ASSUME NEW p \in Place, UnlinkLink(p) PROVE RestoreInv'
    BY <2>1, UnlinkLinkKeeps
  <2>2. ASSUME NEW p \in Place, RefuseSpecial(p) PROVE RestoreInv'
    BY <2>0, <2>2, StopKeeps DEF RefuseSpecial
  <2>3. ASSUME NEW p \in Place, UnlinkForeign(p) PROVE RestoreInv'
    BY <2>3, UnlinkForeignKeeps
  <2>4. ASSUME NEW p \in Place, NextFile(p) PROVE RestoreInv'
    BY <2>4, NextFileKeeps
  <2>5. ASSUME NEW p \in Place, RemoveDirectory(p) PROVE RestoreInv'
    BY <2>5, RemoveDirectoryKeeps
  <2>6. CASE ListFiles
    BY <2>6, ListFilesKeeps
  <2>7. CASE StartWriting
    BY <2>7, StartWritingKeeps
  <2>8. CASE MakeParent
    BY <2>8, MakeParentKeeps
  <2>9. CASE OpenTemp
    BY <2>9, OpenTempKeeps
  <2>10. CASE WriteBack
    BY <2>10, WriteBackKeeps
  <2>11. CASE DirectoryInTheWay
    BY <2>0, <2>11, StopKeeps DEF DirectoryInTheWay
  <2>12. CASE StartTidying
    BY <2>12, StartTidyingKeeps
  <2>13. CASE Finish
    BY <2>13, FinishKeeps
  <2>14. CASE Fail
    BY <2>0, <2>14, StopKeeps DEF Fail
  <2>15. CASE Kill
    BY <2>0, <2>15, StopKeeps DEF Kill
  <2>16. CASE UNCHANGED vars
    BY <2>16, RestoreStutters
  <2> QED
    BY <2>1, <2>2, <2>3, <2>4, <2>5, <2>6, <2>7, <2>8, <2>9, <2>10, <2>11, <2>12, <2>13, <2>14,
       <2>15, <2>16 DEF Next, Step
<1> QED
  BY <1>1, InitRestore, PTL DEF Spec

LEMMA ExactIfRestored == RestoreInv => RestoredExactly
<1> SUFFICES ASSUME RestoreInv, pc = "restored" PROVE RestoredExactly
  BY DEF RestoredExactly
<1>1. NoLinks /\ Foreign = {} /\ Written(DOMAIN files) /\ ~temp
  BY DEF RestoreInv, Loops, AllWritten
<1>2. Capturable(fs)
  BY <1>1 DEF NoLinks, LinksAndSpecials, Capturable
<1>3. Entries(fs, "file") = DOMAIN files
  <2>1. DOMAIN files \subseteq Entries(fs, "file")
    BY <1>1 DEF RestoreInv, Typed, FilesOfATree, Written, Entries
  <2> QED
    BY <1>1, <2>1 DEF Foreign
<1>4. Capture(fs) = files
  <2>1. files = [p \in DOMAIN files |-> files[p]]
    BY DEF RestoreInv, Typed, FilesOfATree
  <2>2. Capture(fs) = [p \in DOMAIN files |-> fs[p]]
    BY <1>3 DEF Capture
  <2>3. [p \in DOMAIN files |-> fs[p]] = [p \in DOMAIN files |-> files[p]]
    BY <1>1 DEF Written
  <2> QED
    BY <2>1, <2>2, <2>3
<1>5. ~failed => \A d \in Entries(fs, "directory") : Occupied(d)
  BY DEF RestoreInv, Loops, Tidied
<1> QED
  BY <1>1, <1>2, <1>4, <1>5 DEF RestoredExactly, Occupied

\* A restore that returns has brought back exactly what was captured, whatever it found.
THEOREM RestoreIsExact == Spec => []RestoredExactly
  BY RestoreInvariant, ExactIfRestored, PTL

\* Stopped anywhere, restore has destroyed nothing that was as captured or is below .git.
THEOREM RestoreDoesNoHarm == Spec => []NothingMadeWorse
<1>1. RestoreInv => NothingMadeWorse
  BY DEF RestoreInv
<1> QED
  BY <1>1, RestoreInvariant, PTL
===============================================================================

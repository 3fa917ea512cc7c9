--------------------------- MODULE WorkspaceSnapshot ---------------------------
(***************************************************************************)
(* WorkspaceSnapshot (src/remedyfabric/snapshot.py): what a snapshot of a  *)
(* workspace holds, and how restore brings a damaged workspace back to it, *)
(* one system call per step.  Any of them may fail and the process may be  *)
(* killed; no other process touches the workspace while restore runs.      *)
(*                                                                         *)
(* A snapshot is the function from the places of its files to contents and *)
(* modes; two digests are equal iff these functions are.                   *)
(***************************************************************************)
EXTENDS Naturals, FiniteSets

CONSTANTS
  Place,              \* every place below the workspace root
  Root,
  ParentOf,           \* [Place -> Place \union {Root}]
  Hidden,             \* the places with a `.git' part
  Data, Mode,
  Captures,           \* trees a snapshot is taken of
  Damaged,            \* trees restore may find
  NoPlace

Kind == {"absent", "directory", "symlink", "special", "file"}

File(data, mode) == [kind |-> "file", data |-> data, mode |-> mode]

Absent == [kind |-> "absent"]

Directory == [kind |-> "directory"]

Node == {[kind |-> k] : k \in Kind \ {"file"}} \union {File(d, m) : d \in Data, m \in Mode}

\* The parent of p is in S, and with a place its parent: a set S that has this for p has
\* all directories p is in.
Upward(S, p) == \A q \in S \union {p} : ParentOf[q] \in S \union {Root}

Ancestors == [p \in Place |-> {d \in Place : \A S \in SUBSET Place : Upward(S, p) => d \in S}]

\* Trees a file system can be in: things are in directories.
Tree ==
  {t \in [Place -> Node] :
     \A p \in Place : t[p] # Absent => \A d \in Ancestors[p] : t[d] = Directory}

ASSUME SnapshotAssumption ==
  /\ Root \notin Place /\ NoPlace \notin Place
  /\ ParentOf \in [Place -> Place \union {Root}]
  /\ \A p \in Place : p \notin Ancestors[p]
  /\ Hidden \subseteq Place
  /\ \A p \in Place : ParentOf[p] \in Hidden => p \in Hidden
  /\ Captures \subseteq Tree /\ Damaged \subseteq Tree

\* The entries of one kind the walk finds.
Entries(tree, k) == {p \in Place \ Hidden : tree[p].kind = k}

Capturable(tree) == Entries(tree, "symlink") \union Entries(tree, "special") = {}

Capture(tree) == [p \in Entries(tree, "file") |-> tree[p]]

VARIABLES
  files,              \* the snapshot
  found,              \* history: the tree restore found
  fs,
  pc,                 \* the loop restore is in
  todo,               \* what the loop has not reached
  current,            \* the file being written back
  temp,               \* its temporary file exists
  failed              \* history: a system call failed

vars == <<files, found, fs, pc, todo, current, temp, failed>>

\* What the first loop acts on, of the entries listed at the start.
LinksAndSpecials(tree) == Entries(tree, "symlink") \union Entries(tree, "special")

Init ==
  /\ files \in {Capture(tree) : tree \in {t \in Captures : Capturable(t)}}
  /\ found \in Damaged
  /\ fs = found
  /\ pc = "links"
  /\ todo = LinksAndSpecials(found)
  /\ current = NoPlace
  /\ temp = FALSE
  /\ failed = FALSE

-------------------------------------------------------------------------------

Remove(p) == fs' = [fs EXCEPT ![p] = Absent]

UnlinkLink(p) ==
  /\ pc = "links" /\ p \in todo
  /\ fs[p].kind = "symlink"
  /\ Remove(p)
  /\ todo' = todo \ {p}
  /\ UNCHANGED <<files, found, pc, current, temp, failed>>

RefuseSpecial(p) ==
  /\ pc = "links" /\ p \in todo
  /\ fs[p].kind = "special"
  /\ pc' = "raised"
  /\ UNCHANGED <<files, found, fs, todo, current, temp, failed>>

\* Mutant: files are replaced by removing them first.
AllFiles == Entries(fs, "file")

Foreign == Entries(fs, "file") \ DOMAIN files

\* The entries are listed again once the links are gone.
ListFiles ==
  /\ pc = "links" /\ todo = {}
  /\ pc' = "foreign"
  /\ todo' = Foreign
  /\ UNCHANGED <<files, found, fs, current, temp, failed>>

UnlinkForeign(p) ==
  /\ pc = "foreign" /\ p \in todo
  /\ Remove(p)
  /\ todo' = todo \ {p}
  /\ UNCHANGED <<files, found, pc, current, temp, failed>>

StartWriting ==
  /\ pc = "foreign" /\ todo = {}
  /\ pc' = "write"
  /\ todo' = DOMAIN files
  /\ UNCHANGED <<files, found, fs, current, temp, failed>>

NextFile(p) ==
  /\ pc = "write" /\ current = NoPlace
  /\ p \in todo
  /\ current' = p
  /\ UNCHANGED <<files, found, fs, pc, todo, temp, failed>>

\* Mutant: only the parent itself is made.
MissingParent == {d \in {ParentOf[current]} \intersect Place : fs[d] = Absent /\ Ancestors[d] = {}}

\* The outermost of the directories that mkdir(parents=True) has to make.
Missing ==
  {d \in Ancestors[current] : fs[d] = Absent /\ \A e \in Ancestors[d] : fs[e] = Directory}

MakeParent ==
  /\ pc = "write" /\ current # NoPlace
  /\ \E d \in Missing : fs' = [fs EXCEPT ![d] = Directory]
  /\ UNCHANGED <<files, found, pc, todo, current, temp, failed>>

OpenTemp ==
  /\ pc = "write" /\ current # NoPlace /\ ~temp
  /\ \A d \in Ancestors[current] : fs[d] = Directory
  /\ temp' = TRUE
  /\ UNCHANGED <<files, found, fs, pc, todo, current, failed>>

\* Mutant: the mode is the one of the file in the way, if there is one.
DataOnly == IF fs[current].kind = "file"
            THEN File(files[current].data, fs[current].mode) ELSE files[current]

Original == files[current]

\* os.replace of the written and chmoded temporary file.
WriteBack ==
  /\ pc = "write" /\ temp
  /\ fs[current] # Directory
  /\ fs' = [fs EXCEPT ![current] = Original]
  /\ temp' = FALSE
  /\ todo' = todo \ {current}
  /\ current' = NoPlace
  /\ UNCHANGED <<files, found, pc, failed>>

\* A file cannot be renamed over a directory, not even an empty one.
DirectoryInTheWay ==
  /\ pc = "write" /\ temp
  /\ fs[current] = Directory
  /\ pc' = "raised"
  /\ temp' = FALSE
  /\ UNCHANGED <<files, found, fs, todo, current, failed>>

StartTidying ==
  /\ pc = "write" /\ todo = {}
  /\ pc' = "directories"
  /\ todo' = Entries(fs, "directory")
  /\ UNCHANGED <<files, found, fs, current, temp, failed>>

Empty(d) == \A p \in Place : ParentOf[p] = d => fs[p] = Absent

\* In reverse order of their paths a directory comes after all that are in it.
InTurn(d) == \A e \in todo : d \notin Ancestors[e]

\* rmdir, which only succeeds on an empty directory; an OSError is ignored.
RemoveDirectory(d) ==
  /\ pc = "directories" /\ d \in todo
  /\ InTurn(d)
  /\ todo' = todo \ {d}
  /\ \/ Empty(d) /\ Remove(d) /\ UNCHANGED failed
     \/ ~Empty(d) /\ UNCHANGED <<fs, failed>>
     \/ Empty(d) /\ failed' = TRUE /\ UNCHANGED fs
  /\ UNCHANGED <<files, found, pc, current, temp>>

Finish ==
  /\ pc = "directories" /\ todo = {}
  /\ pc' = "restored"
  /\ UNCHANGED <<files, found, fs, todo, current, temp, failed>>

Running == pc \in {"links", "foreign", "write", "directories"}

\* Any other system call fails and its OSError escapes; _atomic_write unlinks its
\* temporary file on the way.
Fail ==
  /\ Running
  /\ pc' = "raised"
  /\ failed' = TRUE
  /\ temp' = FALSE
  /\ UNCHANGED <<files, found, fs, todo, current>>

Kill ==
  /\ Running
  /\ pc' = "killed"
  /\ UNCHANGED <<files, found, fs, todo, current, temp, failed>>

Step ==
  \/ \E p \in Place :
       \/ UnlinkLink(p) \/ RefuseSpecial(p) \/ UnlinkForeign(p)
       \/ NextFile(p) \/ RemoveDirectory(p)
  \/ ListFiles \/ StartWriting \/ MakeParent \/ OpenTemp \/ WriteBack \/ DirectoryInTheWay
  \/ StartTidying \/ Finish

Next == Step \/ Fail \/ Kill

Spec == Init /\ [][Next]_vars

\* restore is sequential code without a wait.
FairSpec == Spec /\ WF_vars(Step)

-------------------------------------------------------------------------------
(* Properties                                                              *)

\* `matches' after restore: whatever was in the workspace, a restore that returns
\* has brought back exactly the captured files, modes included, and no link, foreign
\* file or needless directory is left beside them.
RestoredExactly ==
  pc = "restored" =>
    /\ Capturable(fs) /\ Capture(fs) = files
    /\ ~temp
    /\ ~failed => \A d \in Entries(fs, "directory") : \E p \in Place : ParentOf[p] = d /\ fs[p] # Absent

\* Stopped anywhere, restore has made nothing worse: a file that still was as captured
\* still is, every captured file holds what was found or the captured content, and
\* nothing below .git has changed.
NothingMadeWorse ==
  /\ \A p \in DOMAIN files :
       fs[p] # files[p] =>
         /\ found[p] # files[p]
         /\ \/ fs[p] = found[p]
            \/ fs[p] = Absent /\ found[p].kind # "file"
  /\ \A p \in Hidden : fs[p] = found[p]

\* Only a special file, or a directory where a captured file belongs, can keep the
\* workspace from being restored.
Obstructed ==
  \/ Entries(found, "special") # {}
  \/ \E p \in DOMAIN files : found[p] = Directory

\* Unless obstructed, failing or killed, restore comes to its end.
Restores == <>(pc = "restored" \/ pc = "killed" \/ failed \/ Obstructed)
===============================================================================

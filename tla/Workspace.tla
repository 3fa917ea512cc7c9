------------------------------- MODULE Workspace -------------------------------
(***************************************************************************)
(* A governed workspace as src/remedyfabric/skills.py sees it: the places  *)
(* below its root, what is at each, and the edits of a candidate.  A path  *)
(* stands for the normalised relative path (PurePosixPath.as_posix).       *)
(***************************************************************************)
EXTENDS Naturals, Sequences

CONSTANTS
  Path,               \* paths a candidate may edit
  Dir,                \* directories on the way to them
  ParentsOf,          \* [Path -> Seq(Dir)], from the root down
  UnsafePath,         \* absolute, empty, with a `..' part or a NUL
  Data,               \* file contents
  Empty,              \* the empty text
  Mode,               \* permission bits
  DefaultMode         \* those of a file that did not exist

ASSUME WorkspaceAssumption ==
  /\ Path \intersect Dir = {}
  /\ UnsafePath \subseteq Path
  /\ ParentsOf \in [Path -> Seq(Dir)]
  /\ Empty \in Data
  /\ DefaultMode \in Mode

\* A directory has one way to it from the root.
ASSUME HierarchyAssumption ==
  \A p, q \in Path : \A l \in DOMAIN ParentsOf[p], m \in DOMAIN ParentsOf[q] :
    ParentsOf[p][l] = ParentsOf[q][m] =>
      l = m /\ \A k \in 1 .. l : ParentsOf[p][k] = ParentsOf[q][k]

Absent == [kind |-> "absent"]

Directory == [kind |-> "directory"]

Symlink == [kind |-> "symlink"]

File(data, mode) == [kind |-> "file", data |-> data, mode |-> mode]

Node == {Absent, Directory, Symlink} \union {File(d, m) : d \in Data, m \in Mode}

Tree == [Path \union Dir -> Node]

Edit == [path : Path, old : Data, new : Data]

\* Reading a missing file gives the empty text; an undecodable one gives a value no
\* edit can name.
Text(node) == IF node.kind = "file" THEN node.data ELSE Empty

ModeOf(node) == IF node.kind = "file" THEN node.mode ELSE DefaultMode

OnTheWay(p) == {p} \union {ParentsOf[p][i] : i \in DOMAIN ParentsOf[p]}

\* The checks _validated_edits makes of one edit against the tree fs.
ValidEdit(fs, edit) ==
  /\ edit.path \notin UnsafePath
  /\ \A place \in OnTheWay(edit.path) : fs[place].kind # "symlink"
  /\ fs[edit.path].kind \in {"absent", "file"}
  /\ Text(fs[edit.path]) = edit.old

\* The whole edit set is checked before any of it is written.
Valid(fs, edits) ==
  /\ \A i \in DOMAIN edits : ValidEdit(fs, edits[i])
  /\ \A i, j \in DOMAIN edits : edits[i].path = edits[j].path => i = j

\* The targets of a tree once the edits with an index in S are made to it.
AfterEdits(targets, edits, S) ==
  [p \in Path |->
     IF \E i \in S : edits[i].path = p
     THEN File((CHOOSE e \in {edits[i] : i \in S} : e.path = p).new, ModeOf(targets[p]))
     ELSE targets[p]]
===============================================================================

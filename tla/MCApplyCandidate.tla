--------------------------- MODULE MCApplyCandidate ---------------------------
(* A file at the root, a new file two directories down and a file beside   *)
(* the inner directory; edits of one to three of them in several orders.   *)
EXTENDS ApplyCandidate, TLC

CONSTANTS top, deep, side, up, outer, inner, a, b, new, rw, rx

MCParentsOf ==
  (top :> <<>>) @@ (up :> <<>>) @@ (deep :> <<outer, inner>>) @@ (side :> <<outer>>)

MCNodes == {Absent, Symlink, File(a, rw), File(a, rx), File(b, rw), File(Empty, rw)}

Layout(t, o, n, d, s) ==
  (top :> t) @@ (up :> Absent) @@ (outer :> o) @@ (inner :> n) @@ (deep :> d) @@ (side :> s)

\* Every state of the way down, with and without links and files in it.
MCTrees ==
  {Layout(t, Absent, Absent, Absent, Absent) : t \in MCNodes} \union
  {Layout(File(a, rx), o, Absent, Absent, Absent) : o \in {Symlink, File(a, rw)}} \union
  {Layout(File(a, rx), Directory, n, Absent, s) :
     n \in {Absent, Directory, Symlink}, s \in {Absent, File(a, rw), Directory}} \union
  {Layout(File(a, rx), Directory, Directory, d, File(a, rw)) :
     d \in {File(Empty, rw), File(a, rw), Symlink}}

Change(p, o) == [path |-> p, old |-> o, new |-> new]

MCCandidates ==
  {<<Change(top, a), Change(deep, Empty), Change(side, a)>>,
   <<Change(deep, Empty), Change(side, Empty), Change(top, a)>>,
   <<Change(side, a), Change(top, a)>>,
   <<Change(top, Empty)>>,
   <<Change(top, a), Change(top, a)>>,
   <<Change(top, a), Change(up, Empty)>>,
   <<>>}
===============================================================================

-------------------------- MODULE MCWorkspaceSnapshot --------------------------
(* A file at the root and one two directories down, with a repository of   *)
(* its own in the outer directory; restore may find anything at all there. *)
EXTENDS WorkspaceSnapshot, TLC

CONSTANTS top, outer, inner, deep, git, a, b, rw, rx

MCParentOf == (top :> Root) @@ (outer :> Root) @@ (inner :> outer) @@ (deep :> inner) @@ (git :> outer)

Layout(t, o, i, d, g) == (top :> t) @@ (outer :> o) @@ (inner :> i) @@ (deep :> d) @@ (git :> g)

MCCaptures ==
  {Layout(File(a, rx), Absent, Absent, Absent, Absent),
   Layout(File(a, rw), Directory, Directory, File(b, rw), Absent),
   Layout(Absent, Directory, Directory, Absent, Absent),
   Layout(File(a, rw), Directory, Directory, File(a, rx), File(a, rw)),
   Layout(Absent, File(b, rw), Absent, Absent, Absent)}

MCDamaged == {t \in Tree : t[git] \in {Absent, File(a, rw)} /\ t[deep] # File(b, rx)}
===============================================================================

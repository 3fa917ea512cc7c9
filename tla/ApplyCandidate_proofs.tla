------------------------- MODULE ApplyCandidate_proofs -------------------------
(***************************************************************************)
(* What a call of apply_candidate leaves in the targets, for any workspace *)
(* and any candidate, wherever a system call fails or the call is cut      *)
(* short.  The argument: as long as no other process interferes, the       *)
(* targets are the original ones with the edits made that are in           *)
(* `materialized', or whose restoration has failed.  What else it may leave *)
(* behind, staged files and directories, is accounted for by ResidueInv.   *)
(***************************************************************************)
EXTENDS ApplyCandidate, TLAPS

Distinct == \A k, l \in Edits : edits[k].path = edits[l].path => k = l

After(S) == AfterEdits(Targets(initial), edits, S)

Typed ==
  /\ edits \in Candidates /\ edits \in Seq(Edit)
  /\ fs \in Tree /\ initial \in Tree
  /\ pc \in {"validate", "stage", "replace", "rollback", "cleanup", "returned", "refused",
             "escaped", "abandoned", "killed"}
  /\ i \in 1..Len(edits) + 1
  /\ i \in Edits => depth \in 0..Len(Parents)
  /\ created_directories \in Seq(Dir) /\ making \in Seq(Dir)
  /\ temp \in [Edits -> {"none", "open", "staged"}]
  /\ validated \in [Edits -> Node]
  /\ materialized \in Seq(Edits) /\ failed \subseteq Edits
  /\ error \in {"none", "stage", "recheck", "replace"}
  /\ interrupted \in BOOLEAN /\ meddled \in Nat /\ unremoved \subseteq Dir

\* The edits are made in order and undone in the reverse order.
Ordered ==
  /\ Len(materialized) <= Len(edits)
  /\ \A k \in DOMAIN materialized : materialized[k] = k
  /\ \A k \in failed : k > Len(materialized)

Checked ==
  pc \notin {"validate", "refused"} =>
    /\ Distinct
    /\ \A k \in Edits :
         /\ edits[k].path \notin UnsafePath
         /\ Text(initial[edits[k].path]) = edits[k].old
         /\ validated[k] = initial[edits[k].path]

Fresh ==
  pc = "replace" =>
    \A k \in Edits : k >= i =>
      fs[edits[k].path].kind \in {"absent", "file"} /\ Text(fs[edits[k].path]) = edits[k].old

Phased ==
  /\ pc \in {"validate", "refused"} => fs = initial /\ meddled = 0
  /\ pc \in {"validate", "refused", "stage"} => materialized = <<>> /\ failed = {}
  /\ pc = "replace" => failed = {} /\ Len(materialized) = i - 1
  /\ pc = "returned" => failed = {} /\ Len(materialized) = Len(edits)
  /\ pc \in {"cleanup", "escaped", "abandoned"} /\ ~interrupted => materialized = <<>>
  /\ pc \in {"validate", "refused", "stage", "replace", "rollback", "returned"} => ~interrupted
  /\ pc \in {"validate", "replace"} \/ (pc = "stage" /\ i \notin Edits) => depth = 0

Made == meddled = 0 => Targets(fs) = After(1..Len(materialized) \union failed)

ApplyInv == Typed /\ Ordered /\ Checked /\ Fresh /\ Phased /\ Made

-------------------------------------------------------------------------------
(* The edits of a candidate made to targets                                *)

LEMMA AfterAt ==
  ASSUME Distinct, NEW t, NEW S \in SUBSET Edits, NEW k \in S, edits[k].path \in Path
  PROVE  AfterEdits(t, edits, S)[edits[k].path] =
           File(edits[k].new, ModeOf(t[edits[k].path]))
<1>1. PICK p : p = edits[k].path
  OBVIOUS
<1>2. PICK e : e = CHOOSE x \in {edits[j] : j \in S} : x.path = p
  OBVIOUS
<1>3. edits[k] \in {edits[j] : j \in S} /\ edits[k].path = p
  BY <1>1
<1>4. e \in {edits[j] : j \in S} /\ e.path = p
  BY <1>2, <1>3
<1>5. e = edits[k]
  BY <1>3, <1>4 DEF Distinct
<1>6. p \in Path /\ \E j \in S : edits[j].path = p
  BY <1>1
<1>7. AfterEdits(t, edits, S)[p] = File(e.new, ModeOf(t[p]))
  BY <1>2, <1>6 DEF AfterEdits
<1> QED
  BY <1>1, <1>5, <1>7

LEMMA AfterElsewhere ==
  ASSUME NEW t, NEW S, NEW p \in Path, \A k \in S : edits[k].path # p
  PROVE  AfterEdits(t, edits, S)[p] = t[p]
  BY DEF AfterEdits

LEMMA AfterNone ==
  ASSUME NEW t, NEW D, t = [p \in Path |-> D[p]]
  PROVE  AfterEdits(t, edits, {}) = t
<1>1. AfterEdits(t, edits, {}) = [p \in Path |-> t[p]]
  BY DEF AfterEdits
<1> QED
  BY <1>1

\* One more edit changes its target only.
LEMMA AfterOneMore ==
  ASSUME Distinct, NEW t, NEW S \in SUBSET Edits, NEW k \in Edits, k \notin S,
         \A j \in Edits : edits[j].path \in Path
  PROVE  /\ \A p \in Path : p # edits[k].path =>
              AfterEdits(t, edits, S \union {k})[p] = AfterEdits(t, edits, S)[p]
         /\ AfterEdits(t, edits, S)[edits[k].path] = t[edits[k].path]
         /\ AfterEdits(t, edits, S \union {k})[edits[k].path] =
              File(edits[k].new, ModeOf(t[edits[k].path]))
<1>1. S \union {k} \in SUBSET Edits /\ k \in S \union {k}
  OBVIOUS
<1>2. \A j \in S : edits[j].path # edits[k].path
  BY DEF Distinct
<1>3. ASSUME NEW p \in Path, p # edits[k].path
      PROVE  AfterEdits(t, edits, S \union {k})[p] = AfterEdits(t, edits, S)[p]
  <2>1. CASE \E j \in S : edits[j].path = p
    <3>1. PICK j \in S : edits[j].path = p
      BY <2>1
    <3>2. AfterEdits(t, edits, S)[p] = File(edits[j].new, ModeOf(t[p]))
      BY <3>1, AfterAt
    <3>3. AfterEdits(t, edits, S \union {k})[p] = File(edits[j].new, ModeOf(t[p]))
      BY <1>1, <3>1, AfterAt
    <3> QED
      BY <3>2, <3>3
  <2>2. CASE \A j \in S : edits[j].path # p
    BY <1>3, <2>2, AfterElsewhere
  <2> QED
    BY <2>1, <2>2
<1>4. AfterEdits(t, edits, S)[edits[k].path] = t[edits[k].path]
  BY <1>2, AfterElsewhere
<1>5. AfterEdits(t, edits, S \union {k})[edits[k].path] =
        File(edits[k].new, ModeOf(t[edits[k].path]))
  BY <1>1, AfterAt
<1> QED
  BY <1>3, <1>4, <1>5

LEMMA AfterIsTargets ==
  ASSUME NEW t, NEW S, NEW u, u = [p \in Path |-> u[p]],
         \A p \in Path : u[p] = AfterEdits(t, edits, S)[p]
  PROVE  u = AfterEdits(t, edits, S)
<1>1. AfterEdits(t, edits, S) = [p \in Path |-> AfterEdits(t, edits, S)[p]]
  BY DEF AfterEdits
<1> QED
  BY <1>1

LEMMA TargetsAt ==
  ASSUME NEW t
  PROVE  /\ Targets(t) = [p \in Path |-> Targets(t)[p]]
         /\ \A p \in Path : Targets(t)[p] = t[p]
  BY DEF Targets

LEMMA PathsOfEdits ==
  ASSUME Typed
  PROVE  /\ Edits = 1..Len(edits) /\ Len(edits) \in Nat
         /\ \A k \in Edits : edits[k].path \in Path /\ edits[k].new \in Data /\ edits[k].old \in Data
<1>1. edits \in Seq(Edit)
  BY DEF Typed
<1>2. Edits = 1..Len(edits) /\ Len(edits) \in Nat
  BY <1>1 DEF Edits
<1>3. \A k \in Edits : edits[k] \in Edit
  BY <1>1, <1>2
<1> QED
  BY <1>2, <1>3 DEF Edit

LEMMA NewNode ==
  ASSUME NEW d \in Data, NEW n \in Node
  PROVE  File(d, ModeOf(n)) \in Node
<1>1. ModeOf(n) \in Mode
  <2>1. CASE \E e \in Data, m \in Mode : n = File(e, m)
    BY <2>1 DEF ModeOf, File
  <2>2. CASE n \in {Absent, Directory, Symlink}
    BY <2>2, WorkspaceAssumption DEF ModeOf, Absent, Directory, Symlink
  <2> QED
    BY <2>1, <2>2 DEF Node
<1> QED
  BY <1>1 DEF Node

\* The tree t with the node n at p.
Put(t, p, n) == [t EXCEPT ![p] = n]

LEMMA PutTree ==
  ASSUME NEW t \in Tree, NEW p \in Path \union Dir, NEW n \in Node
  PROVE  /\ Put(t, p, n) \in Tree
         /\ Put(t, p, n)[p] = n
         /\ \A q \in Path \union Dir : q # p => Put(t, p, n)[q] = t[q]
  BY DEF Tree, Put

\* Directories are no targets.
LEMMA TargetsBesideDir ==
  ASSUME NEW t \in Tree, NEW d \in Dir, NEW n
  PROVE  Targets(Put(t, d, n)) = Targets(t)
  BY WorkspaceAssumption DEF Tree, Targets, Put

LEMMA ParentsInDir ==
  ASSUME Typed, i \in Edits
  PROVE  Parents \in Seq(Dir) /\ Len(Parents) \in Nat /\ \A k \in 1..Len(Parents) : Parents[k] \in Dir
<1>1. edits[i].path \in Path
  BY PathsOfEdits
<1>2. Parents \in Seq(Dir)
  BY <1>1, WorkspaceAssumption DEF Parents
<1> QED
  BY <1>2

\* A step that moves no target and makes or undoes no edit.
LEMMA Steady ==
  ASSUME ApplyInv, UNCHANGED <<edits, initial, validated, materialized, failed, meddled>>,
         Targets(fs') = Targets(fs),
         pc \in {"validate", "refused"} => pc' \in {"validate", "refused"}
  PROVE  Ordered' /\ Checked' /\ Made'
<1>1. Ordered'
  BY DEF ApplyInv, Ordered
<1>2. Checked'
  BY DEF ApplyInv, Checked, Distinct, Edits
<1>3. After(1..Len(materialized) \union failed)' = After(1..Len(materialized) \union failed)
  BY DEF After, Targets
<1>4. Made'
  BY <1>3 DEF ApplyInv, Made
<1> QED
  BY <1>1, <1>2, <1>4

-------------------------------------------------------------------------------
(* The steps of a call                                                     *)

LEMMA RefuseKeeps == ASSUME ApplyInv, Refuse PROVE ApplyInv'
<1>1. /\ pc = "validate" /\ pc' = "refused"
      /\ UNCHANGED <<edits, fs, initial, i, depth, making, created_directories, temp, validated,
                     materialized, failed, error, interrupted, meddled, unremoved>>
  BY DEF Refuse
<1>2. Typed'
  BY <1>1 DEF ApplyInv, Typed, Edits, Parents
<1>3. Fresh' /\ Phased'
  BY <1>1 DEF ApplyInv, Fresh, Phased, Edits
<1>4. Ordered' /\ Checked' /\ Made'
  BY <1>1, Steady DEF Targets
<1> QED
  BY <1>2, <1>3, <1>4 DEF ApplyInv

LEMMA AcceptKeeps == ASSUME ApplyInv, Accept PROVE ApplyInv'
<1>1. /\ pc = "validate" /\ pc' = "stage" /\ Valid(fs, edits)
      /\ validated' = [k \in Edits |-> fs[edits[k].path]]
      /\ UNCHANGED <<edits, fs, initial, i, depth, making, created_directories, temp,
                     materialized, failed, error, interrupted, meddled, unremoved>>
  BY DEF Accept
<1>2. Typed /\ Phased /\ fs = initial
  BY <1>1 DEF ApplyInv, Phased
<1>3. validated' \in [Edits -> Node]
  <2>1. \A k \in Edits : fs[edits[k].path] \in Node
    BY <1>2, PathsOfEdits DEF Typed, Tree
  <2> QED
    BY <1>1, <2>1
<1>4. Typed'
  BY <1>1, <1>2, <1>3 DEF Typed, Edits, Parents
<1>5. Fresh' /\ Phased'
  BY <1>1, <1>2 DEF Fresh, Phased, Edits
<1>6. Checked'
  <2>1. Distinct
    BY <1>1 DEF Valid, Distinct, Edits
  <2>2. ASSUME NEW k \in Edits
        PROVE  /\ edits[k].path \notin UnsafePath
               /\ Text(initial[edits[k].path]) = edits[k].old
               /\ validated'[k] = initial[edits[k].path]
    <3>1. ValidEdit(fs, edits[k])
      BY <1>1 DEF Valid, Edits
    <3> QED
      BY <1>1, <1>2, <3>1 DEF ValidEdit
  <2> QED
    BY <1>1, <2>1, <2>2 DEF Checked, Distinct, Edits
<1>7. Ordered'
  BY <1>1 DEF ApplyInv, Ordered
<1>8. After(1..Len(materialized) \union failed)' = After(1..Len(materialized) \union failed)
      /\ Targets(fs') = Targets(fs)
  BY <1>1 DEF After, Targets
<1>9. Made'
  BY <1>1, <1>8 DEF ApplyInv, Made
<1> QED
  BY <1>4, <1>5, <1>6, <1>7, <1>9 DEF ApplyInv

LEMMA EnterParentKeeps == ASSUME ApplyInv, EnterParent PROVE ApplyInv'
<1>1. /\ pc = "stage" /\ pc' = "stage" /\ i \in Edits /\ depth < Len(Parents) /\ depth' = depth + 1
      /\ UNCHANGED <<edits, initial, i, created_directories, temp, validated, materialized,
                     failed, error, interrupted, meddled, unremoved>>
  BY DEF EnterParent
<1>2. PICK d : d = Parents[depth + 1]
  OBVIOUS
<1>3. \/ fs' = fs /\ making' = making
      \/ fs' = Put(fs, d, Directory) /\ making' = Append(making, d)
  BY <1>2 DEF EnterParent, Put
<1>4. Typed /\ fs \in Tree /\ making \in Seq(Dir) /\ depth \in 0..Len(Parents)
  BY <1>1 DEF ApplyInv, Typed
<1>5. d \in Dir /\ Len(Parents) \in Nat
  BY <1>1, <1>2, <1>4, ParentsInDir
<1>6. fs' \in Tree /\ Targets(fs') = Targets(fs)
  <2>1. CASE fs' = fs
    BY <1>4, <2>1 DEF Targets
  <2>2. CASE fs' = Put(fs, d, Directory)
    <3>1. Directory \in Node
      BY DEF Node
    <3> QED
      BY <1>4, <1>5, <2>2, <3>1, PutTree, TargetsBesideDir
  <2> QED
    BY <1>3, <2>1, <2>2
<1>7. making' \in Seq(Dir)
  BY <1>3, <1>4, <1>5
<1>8. depth' \in 0..Len(Parents)
  BY <1>1, <1>4, <1>5
<1>9. Typed'
  BY <1>1, <1>4, <1>6, <1>7, <1>8 DEF Typed, Edits, Parents
<1>10. Fresh' /\ Phased'
  BY <1>1 DEF ApplyInv, Fresh, Phased, Edits
<1>11. Ordered' /\ Checked' /\ Made'
  BY <1>1, <1>6, Steady
<1> QED
  BY <1>9, <1>10, <1>11 DEF ApplyInv

\* An Exception: the handler is next.
LEMMA RaiseKeeps ==
  ASSUME ApplyInv, pc \in {"stage", "replace"}, NEW w \in {"stage", "recheck", "replace"},
         Raise(w), fs' = fs, temp' = temp,
         making' \in Seq(Dir), created_directories' \in Seq(Dir)
  PROVE  ApplyInv'
<1>1. /\ pc' = "rollback" /\ error' = w
      /\ UNCHANGED <<edits, initial, i, depth, validated, materialized, failed, interrupted, meddled, unremoved>>
  BY DEF Raise
<1>2. Typed'
  BY <1>1 DEF ApplyInv, Typed, Edits, Parents
<1>3. Fresh' /\ Phased'
  BY <1>1 DEF ApplyInv, Fresh, Phased, Edits
<1>4. Ordered' /\ Checked' /\ Made'
  BY <1>1, Steady DEF Targets
<1> QED
  BY <1>2, <1>3, <1>4 DEF ApplyInv

LEMMA OpenTempKeeps == ASSUME ApplyInv, OpenTemp PROVE ApplyInv'
<1>1. /\ pc = "stage" /\ i \in Edits /\ making' = <<>>
      /\ created_directories' = created_directories \o making
  BY DEF OpenTemp
<1>2. Typed
  BY DEF ApplyInv
<1>3. making' \in Seq(Dir) /\ created_directories' \in Seq(Dir)
  BY <1>1, <1>2 DEF Typed
<1>4. CASE /\ temp' = [temp EXCEPT ![i] = "open"]
           /\ UNCHANGED <<edits, fs, initial, pc, i, depth, validated, materialized, failed,
                          error, interrupted, meddled, unremoved>>
  <2>1. temp' \in [Edits -> {"none", "open", "staged"}]
    BY <1>2, <1>4 DEF Typed
  <2>2. Typed'
    BY <1>2, <1>3, <1>4, <2>1 DEF Typed, Edits, Parents
  <2>3. Fresh' /\ Phased'
    BY <1>1, <1>4 DEF ApplyInv, Fresh, Phased, Edits
  <2>4. Ordered' /\ Checked' /\ Made'
    BY <1>1, <1>4, Steady DEF Targets
  <2> QED
    BY <2>2, <2>3, <2>4 DEF ApplyInv
<1>5. CASE Raise("stage") /\ UNCHANGED <<fs, temp>>
  BY <1>1, <1>3, <1>5, RaiseKeeps
<1> QED
  BY <1>4, <1>5 DEF OpenTemp

LEMMA WriteTempKeeps == ASSUME ApplyInv, WriteTemp PROVE ApplyInv'
<1>1. /\ pc = "stage" /\ i \in Edits /\ temp' = [temp EXCEPT ![i] = "staged"]
      /\ i' = i + 1 /\ depth' = 0
      /\ UNCHANGED <<edits, fs, initial, pc, making, created_directories, validated, materialized,
                     failed, error, interrupted, meddled, unremoved>>
  BY DEF WriteTemp
<1>2. Typed
  BY DEF ApplyInv
<1>3. temp' \in [Edits -> {"none", "open", "staged"}]
  BY <1>1, <1>2 DEF Typed
<1>4. i' \in 1..Len(edits) + 1
  BY <1>1, <1>2, PathsOfEdits
<1>5. i' \in Edits => depth' \in 0..Len(Parents')
  <2> SUFFICES ASSUME i' \in Edits PROVE Len(Parents') \in Nat
    BY <1>1
  <2>1. Parents' = ParentsOf[edits[i'].path] /\ edits[i'].path \in Path
    BY <1>1, <1>2, PathsOfEdits DEF Parents
  <2>2. Parents' \in Seq(Dir)
    BY <2>1, WorkspaceAssumption
  <2> QED
    BY <2>2
<1>6. Typed'
  BY <1>1, <1>2, <1>3, <1>4, <1>5 DEF Typed, Edits
<1>7. Fresh' /\ Phased'
  BY <1>1 DEF ApplyInv, Fresh, Phased
<1>8. Ordered' /\ Checked' /\ Made'
  BY <1>1, Steady DEF Targets
<1> QED
  BY <1>6, <1>7, <1>8 DEF ApplyInv

\* The second validation is of the tree the replacements are made in.
LEMMA RecheckKeeps == ASSUME ApplyInv, Recheck PROVE ApplyInv'
<1>1. /\ pc = "stage" /\ pc' = "replace" /\ i' = 1 /\ Valid(fs, edits)
      /\ UNCHANGED <<edits, fs, initial, depth, making, created_directories, temp, validated,
                     materialized, failed, error, interrupted, meddled, unremoved>>
      /\ i = Len(edits) + 1
  BY DEF Recheck, StillValid
<1>2. Typed /\ materialized = <<>> /\ failed = {} /\ ~interrupted
  BY <1>1 DEF ApplyInv, Phased
<1>3. Edits = 1..Len(edits) /\ Len(edits) \in Nat
  BY <1>2, PathsOfEdits
<1>4. depth = 0
  BY <1>1, <1>3 DEF ApplyInv, Phased
<1>5. i' \in Edits => depth' \in 0..Len(Parents')
  <2>1. i' \in Edits => ParentsOf[edits[i'].path] \in Seq(Dir)
    BY <1>2, PathsOfEdits, WorkspaceAssumption
  <2>2. i' \in Edits => Len(Parents') \in Nat
    BY <1>1, <2>1 DEF Parents
  <2> QED
    BY <1>1, <1>4, <2>2
<1>6. Typed'
  BY <1>1, <1>2, <1>3, <1>5 DEF Typed, Edits
<1>7. Fresh'
  <2>1. ASSUME NEW k \in Edits
        PROVE  fs[edits[k].path].kind \in {"absent", "file"} /\ Text(fs[edits[k].path]) = edits[k].old
    <3>1. ValidEdit(fs, edits[k])
      BY <1>1 DEF Valid, Edits
    <3> QED
      BY <3>1 DEF ValidEdit
  <2> QED
    BY <1>1, <2>1 DEF Fresh, Edits
<1>8. Phased'
  BY <1>1, <1>2, <1>4 DEF Phased
<1>9. Ordered' /\ Checked' /\ Made'
  BY <1>1, Steady DEF Targets
<1> QED
  BY <1>6, <1>7, <1>8, <1>9 DEF ApplyInv

\* A target is replaced: the next edit is made, and the checks of the later ones stand.
LEMMA ReplaceKeeps == ASSUME ApplyInv, Replace PROVE ApplyInv'
<1>1. PICK p : p = edits[i].path
  OBVIOUS
<1>2. PICK n : n = File(edits[i].new, ModeOf(validated[i]))
  OBVIOUS
<1>3. /\ pc = "replace" /\ i \in Edits /\ fs' = Put(fs, p, n)
      /\ temp' = [temp EXCEPT ![i] = "none"]
      /\ materialized' = Append(materialized, i) /\ i' = i + 1
      /\ UNCHANGED <<edits, initial, pc, depth, making, created_directories, validated, failed,
                     error, interrupted, meddled, unremoved>>
  BY <1>1, <1>2 DEF Replace, NewFile, Put
<1>4. Typed /\ fs \in Tree /\ materialized \in Seq(Edits)
  BY DEF ApplyInv, Typed
<1>5. /\ Edits = 1..Len(edits) /\ Len(edits) \in Nat /\ p \in Path /\ edits[i].new \in Data
      /\ \A k \in Edits : edits[k].path \in Path
  BY <1>1, <1>3, <1>4, PathsOfEdits
<1>6. failed = {} /\ Len(materialized) = i - 1 /\ depth = 0 /\ ~interrupted
  BY <1>3 DEF ApplyInv, Phased
<1>7. Distinct /\ validated[i] = initial[p] /\ validated[i] \in Node
  BY <1>1, <1>3, <1>4 DEF ApplyInv, Checked, Typed
<1>8. n \in Node
  BY <1>2, <1>5, <1>7, NewNode
<1>9. fs' \in Tree /\ fs'[p] = n /\ \A q \in Path \union Dir : q # p => fs'[q] = fs[q]
  <2>1. fs \in Tree /\ p \in Path \union Dir
    BY <1>4, <1>5
  <2>2. /\ Put(fs, p, n) \in Tree /\ Put(fs, p, n)[p] = n
        /\ \A q \in Path \union Dir : q # p => Put(fs, p, n)[q] = fs[q]
    BY <1>8, <2>1, PutTree
  <2> QED
    BY <1>3, <2>2
<1>10. /\ materialized' \in Seq(Edits) /\ Len(materialized') = i
       /\ \A k \in DOMAIN materialized' : materialized'[k] = k
  BY <1>3, <1>4, <1>5, <1>6 DEF ApplyInv, Ordered
<1>11. Typed'
  <2>1. temp' \in [Edits -> {"none", "open", "staged"}] /\ i' \in 1..Len(edits) + 1
    BY <1>3, <1>4, <1>5 DEF Typed
  <2>2. i' \in Edits => ParentsOf[edits[i'].path] \in Seq(Dir)
    BY <1>5, WorkspaceAssumption
  <2>3. i' \in Edits => depth' \in 0..Len(Parents')
    BY <1>3, <1>6, <2>2 DEF Parents
  <2>4. materialized' \in Seq(Edits')
    BY <1>3, <1>10 DEF Edits
  <2> QED
    BY <1>3, <1>4, <1>9, <2>1, <2>3, <2>4 DEF Typed, Edits
<1>12. Ordered'
  BY <1>3, <1>5, <1>6, <1>10 DEF Ordered
<1>13. Checked'
  BY <1>3 DEF ApplyInv, Checked, Distinct, Edits
<1>14. Fresh'
  <2>1. ASSUME NEW k \in Edits, k >= i + 1
        PROVE  /\ fs'[edits[k].path].kind \in {"absent", "file"}
               /\ Text(fs'[edits[k].path]) = edits[k].old
    <3>1. edits[k].path # p /\ k >= i
      BY <1>1, <1>3, <1>5, <1>7, <2>1 DEF Distinct
    <3>2. fs'[edits[k].path] = fs[edits[k].path]
      BY <1>5, <1>9, <3>1
    <3> QED
      BY <1>3, <3>1, <3>2 DEF ApplyInv, Fresh
  <2> QED
    BY <1>3, <2>1 DEF Fresh, Edits
<1>15. Phased'
  BY <1>3, <1>5, <1>6, <1>10 DEF Phased
<1>16. Made'
  <2> SUFFICES ASSUME meddled = 0 PROVE Targets(fs') = After(1..Len(materialized) \union failed)'
    BY <1>3 DEF Made
  <2> DEFINE S == 1 .. i - 1
             t == Targets(initial)
  <2>1. S \in SUBSET Edits /\ i \notin S /\ S \union {i} = 1 .. i
    BY <1>3, <1>5
  <2>2. Targets(fs) = AfterEdits(t, edits, S)
    BY <1>6 DEF ApplyInv, Made, After
  <2>3. After(1..Len(materialized) \union failed)' = AfterEdits(t, edits, S \union {i})
    BY <1>3, <1>6, <1>10, <2>1 DEF After, Targets
  <2>4. /\ \A q \in Path : q # p => AfterEdits(t, edits, S \union {i})[q] = AfterEdits(t, edits, S)[q]
        /\ AfterEdits(t, edits, S \union {i})[p] = File(edits[i].new, ModeOf(t[p]))
    <3> HIDE DEF S, t
    <3>1. Distinct /\ i \in Edits /\ \A j \in Edits : edits[j].path \in Path
      BY <1>3, <1>5, <1>7
    <3>2. S \in SUBSET Edits /\ i \notin S
      BY <2>1
    <3>3. /\ \A q \in Path : q # edits[i].path =>
               AfterEdits(t, edits, S \union {i})[q] = AfterEdits(t, edits, S)[q]
          /\ AfterEdits(t, edits, S \union {i})[edits[i].path] =
               File(edits[i].new, ModeOf(t[edits[i].path]))
      BY <3>1, <3>2, AfterOneMore
    <3> QED
      BY <1>1, <3>3
  <2>5. t[p] = initial[p]
    BY <1>5, TargetsAt
  <2>6. ASSUME NEW q \in Path
        PROVE  Targets(fs')[q] = AfterEdits(t, edits, S \union {i})[q]
    <3>1. Targets(fs')[q] = fs'[q] /\ Targets(fs)[q] = fs[q]
      BY TargetsAt
    <3>2. CASE q = p
      BY <1>2, <1>7, <1>9, <2>4, <2>5, <3>1, <3>2
    <3>3. CASE q # p
      BY <1>9, <2>2, <2>4, <3>1, <3>3
    <3> QED
      BY <3>2, <3>3
  <2> HIDE DEF S, t
  <2>7. Targets(fs') = AfterEdits(t, edits, S \union {i})
    BY <2>6, TargetsAt, AfterIsTargets
  <2> QED
    BY <2>3, <2>7
<1> QED
  BY <1>11, <1>12, <1>13, <1>14, <1>15, <1>16 DEF ApplyInv

LEMMA ReturnKeeps == ASSUME ApplyInv, Return PROVE ApplyInv'
<1>1. /\ pc = "replace" /\ i = Len(edits) + 1 /\ pc' = "returned"
      /\ UNCHANGED <<edits, fs, initial, i, depth, making, created_directories, temp, validated,
                     materialized, failed, error, interrupted, meddled, unremoved>>
  BY DEF Return
<1>2. Typed'
  BY <1>1 DEF ApplyInv, Typed, Edits, Parents
<1>3. Len(edits) \in Nat
  BY PathsOfEdits DEF ApplyInv
<1>4. Fresh' /\ Phased'
  BY <1>1, <1>3 DEF ApplyInv, Fresh, Phased
<1>5. Ordered' /\ Checked' /\ Made'
  BY <1>1, Steady DEF Targets
<1> QED
  BY <1>2, <1>4, <1>5 DEF ApplyInv

\* The last replacement is undone, or is one more that stays.
LEMMA RestoreKeeps == ASSUME ApplyInv, Restore PROVE ApplyInv'
<1>1. PICK m : m = Len(materialized)
  OBVIOUS
<1>2. Typed /\ fs \in Tree /\ materialized \in Seq(Edits) /\ failed \subseteq Edits
  BY DEF ApplyInv, Typed
<1>3. /\ pc = "rollback" /\ materialized # <<>> /\ materialized' = Front(materialized)
      /\ UNCHANGED <<edits, initial, pc, i, depth, making, created_directories, temp, validated,
                     error, interrupted, meddled, unremoved>>
  BY DEF Restore
<1>4. Edits = 1..Len(edits) /\ Len(edits) \in Nat /\ \A k \in Edits : edits[k].path \in Path
  BY <1>2, PathsOfEdits
<1>5. m \in Nat /\ m >= 1 /\ m \in DOMAIN materialized /\ m <= Len(edits) /\ m \in Edits
  BY <1>1, <1>2, <1>3, <1>4 DEF ApplyInv, Ordered
<1>6. Latest = m
  BY <1>1, <1>5 DEF Latest, Last, ApplyInv, Ordered
<1>7. /\ materialized' \in Seq(Edits) /\ Len(materialized') = m - 1
      /\ \A k \in DOMAIN materialized' : materialized'[k] = k
  <2>1. materialized' = SubSeq(materialized, 1, m - 1)
    BY <1>1, <1>3 DEF Front
  <2>2. /\ materialized' \in Seq(Edits) /\ Len(materialized') = m - 1
        /\ \A k \in 1 .. m - 1 : materialized'[k] = materialized[k]
    BY <1>1, <1>2, <1>5, <2>1
  <2> QED
    BY <1>1, <1>2, <1>5, <2>2 DEF ApplyInv, Ordered
<1>8. PICK p : p = edits[m].path
  OBVIOUS
<1>9. /\ Distinct /\ validated[m] = initial[p] /\ validated[m] \in Node /\ p \in Path
  BY <1>2, <1>3, <1>4, <1>5, <1>8 DEF ApplyInv, Checked, Typed
<1>10. \/ fs' = Put(fs, p, initial[p]) /\ failed' = failed
       \/ fs' = fs /\ failed' = failed \union {m}
  BY <1>6, <1>8, <1>9 DEF Restore, Put
<1>11. initial[p] \in Node
  BY <1>9
<1>12. fs' \in Tree
  BY <1>2, <1>9, <1>10, <1>11, PutTree
<1>13. failed' \subseteq Edits /\ \A k \in failed' : k > m - 1
  <2>1. \A k \in failed : k \in Nat /\ k > m
    BY <1>1, <1>2, <1>4 DEF ApplyInv, Ordered
  <2>2. \A k \in failed \union {m} : k > m - 1
    BY <1>5, <2>1
  <2>3. failed' = failed \/ failed' = failed \union {m}
    BY <1>10
  <2> QED
    BY <1>2, <1>5, <2>2, <2>3
<1>14. Typed'
  BY <1>2, <1>3, <1>7, <1>12, <1>13 DEF Typed, Edits, Parents
<1>15. Ordered'
  <2>1. Len(materialized') <= Len(edits')
    BY <1>3, <1>4, <1>5, <1>7
  <2>2. \A k \in failed' : k > Len(materialized')
    BY <1>7, <1>13
  <2> QED
    BY <1>7, <2>1, <2>2 DEF Ordered
<1>16. Checked' /\ Fresh'
  BY <1>3 DEF ApplyInv, Checked, Fresh, Distinct, Edits
<1>17. Phased'
  BY <1>3 DEF ApplyInv, Phased, Edits
<1>18. Made'
  <2> SUFFICES ASSUME meddled = 0 PROVE Targets(fs') = After(1..Len(materialized) \union failed)'
    BY <1>3 DEF Made
  <2> DEFINE S == (1 .. m - 1) \union failed
             t == Targets(initial)
  <2>1. S \in SUBSET Edits /\ m \notin S /\ S \union {m} = (1 .. m) \union failed
    <3>1. m \notin failed
      BY <1>1, <1>5 DEF ApplyInv, Ordered
    <3>2. m \notin 1 .. m - 1 /\ 1 .. m - 1 \subseteq 1 .. Len(edits)
          /\ (1 .. m - 1) \union {m} = 1 .. m
      BY <1>4, <1>5
    <3> QED
      BY <1>2, <1>4, <3>1, <3>2
  <2>2. Targets(fs) = AfterEdits(t, edits, S \union {m})
    BY <1>1, <2>1 DEF ApplyInv, Made, After
  <2>3. After(1..Len(materialized) \union failed)' = AfterEdits(t, edits, (1 .. m - 1) \union failed')
    BY <1>3, <1>7 DEF After, Targets
  <2>4. CASE fs' = fs /\ failed' = failed \union {m}
    <3>1. (1 .. m - 1) \union failed' = S \union {m}
      BY <2>4
    <3> QED
      BY <2>2, <2>3, <2>4, <3>1 DEF Targets
  <2>5. CASE fs' = Put(fs, p, initial[p]) /\ failed' = failed
    <3>1. fs'[p] = initial[p] /\ \A q \in Path \union Dir : q # p => fs'[q] = fs[q]
      BY <1>2, <1>9, <1>11, <2>5, PutTree
    <3>2. /\ \A q \in Path : q # p =>
               AfterEdits(t, edits, S \union {m})[q] = AfterEdits(t, edits, S)[q]
          /\ AfterEdits(t, edits, S)[p] = t[p]
      <4> HIDE DEF S, t
      <4>1. Distinct /\ m \in Edits /\ \A j \in Edits : edits[j].path \in Path
        BY <1>4, <1>5, <1>9
      <4>2. S \in SUBSET Edits /\ m \notin S
        BY <2>1
      <4>3. /\ \A q \in Path : q # edits[m].path =>
                 AfterEdits(t, edits, S \union {m})[q] = AfterEdits(t, edits, S)[q]
            /\ AfterEdits(t, edits, S)[edits[m].path] = t[edits[m].path]
        BY <4>1, <4>2, AfterOneMore
      <4> QED
        BY <1>8, <4>3
    <3>3. t[p] = initial[p]
      BY <1>9, TargetsAt
    <3>4. ASSUME NEW q \in Path
          PROVE  Targets(fs')[q] = AfterEdits(t, edits, S)[q]
      <4>1. Targets(fs')[q] = fs'[q] /\ Targets(fs)[q] = fs[q]
        BY TargetsAt
      <4>2. CASE q = p
        BY <3>1, <3>2, <3>3, <4>1, <4>2
      <4>3. CASE q # p
        BY <2>2, <3>1, <3>2, <4>1, <4>3
      <4> QED
        BY <4>2, <4>3
    <3>5. After(1..Len(materialized) \union failed)' = AfterEdits(t, edits, S)
      BY <2>3, <2>5
    <3> HIDE DEF S, t
    <3>6. Targets(fs') = AfterEdits(t, edits, S)
      BY <3>4, TargetsAt, AfterIsTargets
    <3> QED
      BY <3>5, <3>6
  <2> QED
    BY <1>10, <2>4, <2>5
<1> QED
  BY <1>14, <1>15, <1>16, <1>17, <1>18 DEF ApplyInv

LEMMA EndRollbackKeeps == ASSUME ApplyInv, EndRollback PROVE ApplyInv'
<1>1. /\ pc = "rollback" /\ materialized = <<>> /\ pc' = "cleanup"
      /\ UNCHANGED <<edits, fs, initial, i, depth, making, created_directories, temp, validated,
                     materialized, failed, error, interrupted, meddled, unremoved>>
  BY DEF EndRollback
<1>2. Typed'
  BY <1>1 DEF ApplyInv, Typed, Edits, Parents
<1>3. Fresh' /\ Phased'
  BY <1>1 DEF ApplyInv, Fresh, Phased
<1>4. Ordered' /\ Checked' /\ Made'
  BY <1>1, Steady DEF Targets
<1> QED
  BY <1>2, <1>3, <1>4 DEF ApplyInv

\* A step of the handler, of the finally block or of the surroundings that ends a phase.
LEMMA MoveOnKeeps ==
  ASSUME ApplyInv,
         UNCHANGED <<edits, fs, initial, i, depth, making, created_directories, temp, validated,
                     materialized, failed, error, meddled, unremoved>>,
         \/ pc = "cleanup" /\ pc' \in {"abandoned", "escaped"} /\ interrupted' \in {interrupted, TRUE}
         \/ pc \in {"stage", "replace", "rollback"} /\ pc' = "cleanup" /\ interrupted' = TRUE
         \/ pc \in {"stage", "replace", "rollback", "cleanup"} /\ pc' = "killed"
              /\ interrupted' = interrupted
  PROVE  ApplyInv'
<1>1. interrupted \in BOOLEAN
  BY DEF ApplyInv, Typed
<1>2. Typed'
  BY <1>1 DEF ApplyInv, Typed, Edits, Parents
<1>3. Fresh' /\ Phased'
  BY <1>1 DEF ApplyInv, Fresh, Phased
<1>4. Ordered' /\ Checked' /\ Made'
  BY Steady DEF Targets
<1> QED
  BY <1>2, <1>3, <1>4 DEF ApplyInv

LEMMA UnlinkTempKeeps == ASSUME ApplyInv, UnlinkTemp PROVE ApplyInv'
<1>1. /\ pc = "cleanup"
      /\ UNCHANGED <<edits, fs, initial, i, depth, making, created_directories, validated,
                     materialized, failed, error, interrupted, meddled, unremoved>>
  BY DEF UnlinkTemp
<1>2. CASE pc' = "abandoned" /\ temp' = temp
  BY <1>1, <1>2, MoveOnKeeps
<1>3. CASE pc' = pc /\ \E k \in Staged : temp' = [temp EXCEPT ![k] = "none"]
  <2>1. temp \in [Edits -> {"none", "open", "staged"}]
    BY DEF ApplyInv, Typed
  <2>2. temp' \in [Edits -> {"none", "open", "staged"}]
    BY <1>3, <2>1 DEF Staged
  <2>3. Typed'
    BY <1>1, <1>3, <2>2 DEF ApplyInv, Typed, Edits, Parents
  <2>4. Fresh' /\ Phased'
    BY <1>1, <1>3 DEF ApplyInv, Fresh, Phased, Edits
  <2>5. Ordered' /\ Checked' /\ Made'
    BY <1>1, <1>3, Steady DEF Targets
  <2> QED
    BY <2>3, <2>4, <2>5 DEF ApplyInv
<1> QED
  BY <1>2, <1>3 DEF UnlinkTemp

LEMMA RemoveDirectoryKeeps == ASSUME ApplyInv, RemoveDirectory PROVE ApplyInv'
<1>1. PICK d : d = Last(created_directories)
  OBVIOUS
<1>2. /\ pc = "cleanup" /\ pc' = "cleanup" /\ created_directories # <<>>
      /\ fs' \in {fs, Put(fs, d, Absent)}
      /\ created_directories' = Front(created_directories)
      /\ unremoved' \subseteq unremoved \union {d}
      /\ UNCHANGED <<edits, initial, i, depth, making, temp, validated, materialized, failed,
                     error, interrupted, meddled>>
  BY <1>1 DEF RemoveDirectory, Innermost, Put
<1>3. created_directories \in Seq(Dir) /\ fs \in Tree
  BY DEF ApplyInv, Typed
<1>4. d \in Dir
  BY <1>1, <1>2, <1>3 DEF Last
<1>5. created_directories' \in Seq(Dir)
  BY <1>2, <1>3 DEF Front
<1>6. fs' \in Tree /\ Targets(fs') = Targets(fs)
  <2>1. Absent \in Node
    BY DEF Node
  <2>2. Put(fs, d, Absent) \in Tree /\ Targets(Put(fs, d, Absent)) = Targets(fs)
    BY <1>3, <1>4, <2>1, PutTree, TargetsBesideDir
  <2> QED
    BY <1>2, <1>3, <2>2
<1>7. Typed'
  <2>1. unremoved' \subseteq Dir
    BY <1>2, <1>4 DEF ApplyInv, Typed
  <2> QED
    BY <1>2, <1>5, <1>6, <2>1 DEF ApplyInv, Typed, Edits, Parents
<1>8. Fresh' /\ Phased'
  BY <1>2 DEF ApplyInv, Fresh, Phased
<1>9. Ordered' /\ Checked' /\ Made'
  BY <1>2, <1>6, Steady
<1> QED
  BY <1>7, <1>8, <1>9 DEF ApplyInv

\* Another process changes the tree: the second validation has not begun.
LEMMA MeddleKeeps ==
  ASSUME ApplyInv, NEW place \in Path \union Dir, NEW node \in Node, Meddle(place, node)
  PROVE  ApplyInv'
<1>1. /\ pc = "stage" /\ fs' = Put(fs, place, node) /\ meddled' = meddled + 1
      /\ UNCHANGED <<edits, initial, pc, i, depth, making, created_directories, temp, validated,
                     materialized, failed, error, interrupted, unremoved>>
  BY DEF Meddle, Put
<1>2. meddled \in Nat /\ fs \in Tree
  BY DEF ApplyInv, Typed
<1>3. fs' \in Tree
  BY <1>1, <1>2, PutTree
<1>4. Typed'
  BY <1>1, <1>2, <1>3 DEF ApplyInv, Typed, Edits, Parents
<1>5. Fresh' /\ Phased'
  BY <1>1 DEF ApplyInv, Fresh, Phased, Edits
<1>6. Ordered'
  BY <1>1 DEF ApplyInv, Ordered
<1>7. Checked'
  BY <1>1 DEF ApplyInv, Checked, Distinct, Edits
<1>8. Made'
  BY <1>1, <1>2 DEF Made
<1> QED
  BY <1>4, <1>5, <1>6, <1>7, <1>8 DEF ApplyInv

LEMMA InitKeeps == ASSUME Init PROVE ApplyInv
<1>1. /\ edits \in Candidates /\ edits \in Seq(Edit) /\ fs \in Tree /\ initial = fs
      /\ pc = "validate" /\ i = 1 /\ depth = 0 /\ making = <<>> /\ created_directories = <<>>
      /\ temp = [k \in Edits |-> "none"] /\ validated = [k \in Edits |-> Absent]
      /\ materialized = <<>> /\ failed = {} /\ error = "none" /\ interrupted = FALSE /\ meddled = 0
      /\ unremoved = {}
  BY CallAssumption DEF Init
<1>2. Edits = 1..Len(edits) /\ Len(edits) \in Nat
  BY <1>1 DEF Edits
<1>3. i \in Edits => depth \in 0..Len(Parents)
  <2> SUFFICES ASSUME i \in Edits PROVE Len(Parents) \in Nat
    BY <1>1
  <2>1. edits[i] \in Edit
    BY <1>1, <1>2
  <2>2. ParentsOf[edits[i].path] \in Seq(Dir)
    BY <2>1, WorkspaceAssumption DEF Edit
  <2> QED
    BY <2>2 DEF Parents
<1>4. temp \in [Edits -> {"none", "open", "staged"}] /\ validated \in [Edits -> Node]
  BY <1>1 DEF Node
<1>5. Typed
  <2>1. /\ created_directories \in Seq(Dir) /\ making \in Seq(Dir)
        /\ materialized \in Seq(Edits) /\ failed \subseteq Edits
    BY <1>1
  <2>2. i \in 1..Len(edits) + 1 /\ initial \in Tree /\ meddled \in Nat
    BY <1>1, <1>2
  <2>3. interrupted \in BOOLEAN
    BY <1>1
  <2>4. /\ pc \in {"validate", "stage", "replace", "rollback", "cleanup", "returned", "refused",
                  "escaped", "abandoned", "killed"}
        /\ error \in {"none", "stage", "recheck", "replace"}
    BY <1>1
  <2> QED
    BY <1>1, <1>3, <1>4, <2>1, <2>2, <2>3, <2>4 DEF Typed
<1>6. Ordered
  BY <1>1, <1>2 DEF Ordered
<1>7. Checked /\ Fresh /\ Phased
  BY <1>1 DEF Checked, Fresh, Phased
<1>8. Made
  <2>1. 1..Len(materialized) \union failed = {}
    BY <1>1
  <2>2. AfterEdits(Targets(initial), edits, {}) = Targets(initial)
    BY AfterNone DEF Targets
  <2> QED
    BY <1>1, <2>1, <2>2 DEF Made, After
<1> QED
  BY <1>5, <1>6, <1>7, <1>8 DEF ApplyInv

LEMMA StepKeeps == ASSUME ApplyInv, [Next]_vars PROVE ApplyInv'
<1>1. created_directories \in Seq(Dir) /\ making \in Seq(Dir)
  BY DEF ApplyInv, Typed
<1>2. CASE ParentFails
  <2>1. pc = "stage" /\ Raise("stage") /\ UNCHANGED <<fs, making, created_directories, temp>>
    BY <1>2 DEF ParentFails
  <2> QED
    BY <1>1, <2>1, RaiseKeeps
<1>3. CASE WriteFails
  <2>1. pc = "stage" /\ Raise("stage") /\ UNCHANGED <<fs, making, created_directories, temp>>
    BY <1>3 DEF WriteFails
  <2> QED
    BY <1>1, <2>1, RaiseKeeps
<1>4. CASE RecheckFails
  <2>1. pc = "stage" /\ Raise("recheck") /\ UNCHANGED <<fs, making, created_directories, temp>>
    BY <1>4 DEF RecheckFails
  <2> QED
    BY <1>1, <2>1, RaiseKeeps
<1>5. CASE ReplaceFails
  <2>1. pc = "replace" /\ Raise("replace") /\ UNCHANGED <<fs, making, created_directories, temp>>
    BY <1>5 DEF ReplaceFails
  <2> QED
    BY <1>1, <2>1, RaiseKeeps
<1>6. CASE Escape
  BY <1>6, MoveOnKeeps DEF Escape
<1>7. CASE Interrupt
  BY <1>7, MoveOnKeeps DEF Interrupt, Running
<1>8. CASE Kill
  BY <1>8, MoveOnKeeps DEF Kill, Running
<1>9. CASE \E place \in Path \union Dir, node \in Node \ {Directory} : Meddle(place, node)
  BY <1>9, MeddleKeeps
<1>10. CASE UNCHANGED vars
  <2>1. UNCHANGED <<edits, fs, initial, pc, i, depth, making, created_directories, temp, validated,
                    materialized, failed, error, interrupted, meddled, unremoved>>
    BY <1>10 DEF vars
  <2>2. Typed'
    BY <2>1 DEF ApplyInv, Typed, Edits, Parents
  <2>3. Fresh' /\ Phased'
    BY <2>1 DEF ApplyInv, Fresh, Phased, Edits
  <2>4. Ordered' /\ Checked' /\ Made'
    BY <2>1, Steady DEF Targets
  <2> QED
    BY <2>2, <2>3, <2>4 DEF ApplyInv
<1> QED
  BY <1>2, <1>3, <1>4, <1>5, <1>6, <1>7, <1>8, <1>9, <1>10, RefuseKeeps, AcceptKeeps,
     EnterParentKeeps, OpenTempKeeps, WriteTempKeeps, RecheckKeeps, ReplaceKeeps, ReturnKeeps,
     RestoreKeeps, EndRollbackKeeps, UnlinkTempKeeps, RemoveDirectoryKeeps
     DEF Next

-------------------------------------------------------------------------------
(* What a call promises                                                    *)

\* The inductive invariant of apply_candidate: the targets are the original ones with
\* the edits made that are materialized or could not be undone, unless another process
\* interfered.
THEOREM ApplyInvariant == Spec => []ApplyInv
<1>1. Init => ApplyInv
  BY InitKeeps
<1>2. ApplyInv /\ [Next]_vars => ApplyInv'
  BY StepKeeps
<1> QED
  BY <1>1, <1>2, PTL DEF Spec

\* What the variables of a call hold, for any workspace and any candidate.
THEOREM TypeCorrect == Spec => []TypeOK
<1>1. ApplyInv => TypeOK
  <2> SUFFICES ASSUME ApplyInv PROVE TypeOK
    OBVIOUS
  <2>1. Typed
    BY DEF ApplyInv
  <2>2. ToSet(created_directories) \union ToSet(making) \subseteq Dir
    BY <2>1 DEF Typed, ToSet
  <2>3. ToSet(materialized) \union failed \subseteq Edits
    BY <2>1 DEF Typed, ToSet
  <2> QED
    BY <2>1, <2>2, <2>3 DEF Typed, TypeOK
<1> QED
  BY <1>1, ApplyInvariant, PTL

LEMMA NoEditLeft ==
  ASSUME ApplyInv, meddled = 0, failed = {}, materialized = <<>>
  PROVE  Targets(fs) = Targets(initial)
<1>1. 1..Len(materialized) \union failed = {}
  OBVIOUS
<1>2. AfterEdits(Targets(initial), edits, {}) = Targets(initial)
  BY AfterNone DEF Targets
<1> QED
  BY <1>1, <1>2 DEF ApplyInv, Made, After

LEMMA EveryEditMade ==
  ASSUME ApplyInv, meddled = 0, pc = "returned"
  PROVE  Targets(fs) = AfterEdits(Targets(initial), edits, Edits)
<1>1. Edits = 1..Len(edits)
  BY PathsOfEdits DEF ApplyInv
<1>2. 1..Len(materialized) \union failed = Edits
  BY <1>1 DEF ApplyInv, Phased
<1> QED
  BY <1>2 DEF ApplyInv, Made, After

\* A call that returns has made every edit, and an error that escapes one has left every
\* target as it was, unless it says that restoring failed or the call was interrupted.
THEOREM AppliedWholeOrUndone == Spec => []AllOrNothing
<1>1. ApplyInv => AllOrNothing
  <2> SUFFICES ASSUME ApplyInv, meddled = 0
               PROVE  /\ pc = "returned" =>
                           Targets(fs) = AfterEdits(Targets(initial), edits, Edits)
                      /\ pc \in {"escaped", "abandoned"} /\ failed = {} /\ ~interrupted =>
                           Targets(fs) = Targets(initial)
    BY DEF AllOrNothing
  <2>1. pc \in {"escaped", "abandoned"} /\ ~interrupted => materialized = <<>>
    BY DEF ApplyInv, Phased
  <2> QED
    BY <2>1, NoEditLeft, EveryEditMade
<1> QED
  BY <1>1, ApplyInvariant, PTL

\* Wherever a call is cut short, a prefix of its edits has been made.
THEOREM AlwaysAPrefix == Spec => []PrefixOfEdits
<1>1. ApplyInv => PrefixOfEdits
  <2> SUFFICES ASSUME ApplyInv, meddled = 0, failed = {}
               PROVE  \E k \in 0..Len(edits) :
                        Targets(fs) = AfterEdits(Targets(initial), edits, 1..k)
    BY DEF PrefixOfEdits
  <2>1. Len(materialized) \in 0..Len(edits)
    BY PathsOfEdits DEF ApplyInv, Typed, Ordered
  <2>2. 1..Len(materialized) \union failed = 1..Len(materialized)
    OBVIOUS
  <2>3. Targets(fs) = AfterEdits(Targets(initial), edits, 1..Len(materialized))
    BY <2>2 DEF ApplyInv, Made, After
  <2> QED
    BY <2>1, <2>3
<1> QED
  BY <1>1, ApplyInvariant, PTL

\* Only a replacement changes the tree while targets are being replaced, and it replaces
\* the target of the next edit.
LEMMA OnlyReplaceWrites ==
  ASSUME [Next]_vars, pc = "replace", fs' # fs
  PROVE  Replace
<1>1. ~(UNCHANGED vars)
  BY DEF vars
<1>2. /\ ~Refuse /\ ~Accept /\ ~EnterParent /\ ~ParentFails /\ ~OpenTemp /\ ~WriteTemp
      /\ ~WriteFails /\ ~Recheck /\ ~RecheckFails
  BY DEF Refuse, Accept, EnterParent, ParentFails, OpenTemp, WriteTemp, WriteFails, Recheck,
         RecheckFails
<1>3. ~Restore /\ ~EndRollback /\ ~UnlinkTemp /\ ~RemoveDirectory /\ ~Escape
  BY DEF Restore, EndRollback, UnlinkTemp, RemoveDirectory, Escape
<1>4. ~ReplaceFails /\ ~Return /\ ~Interrupt /\ ~Kill
  BY DEF ReplaceFails, Return, Interrupt, Kill
<1>5. ~\E place \in Path \union Dir, node \in Node \ {Directory} : Meddle(place, node)
  BY DEF Meddle
<1> QED
  BY <1>1, <1>2, <1>3, <1>4, <1>5 DEF Next

\* A replacement never destroys content its edit does not state, nor a link, not even one
\* that another process put there while the edits were being staged.
THEOREM NothingStaleIsOverwritten == Spec => NothingStaleOverwritten
<1> DEFINE Safe ==
      \A k \in Edits :
        LET p == edits[k].path IN
          pc = "replace" /\ fs'[p] # fs[p]
            => fs[p].kind \in {"absent", "file"} /\ Text(fs[p]) = edits[k].old
<1>1. ApplyInv /\ [Next]_vars => Safe
  <2> SUFFICES ASSUME ApplyInv, [Next]_vars, NEW k \in Edits, pc = "replace",
                      fs'[edits[k].path] # fs[edits[k].path]
               PROVE  /\ fs[edits[k].path].kind \in {"absent", "file"}
                      /\ Text(fs[edits[k].path]) = edits[k].old
    OBVIOUS
  <2>1. i \in Edits /\ fs' = [fs EXCEPT ![edits[i].path] = NewFile]
    BY OnlyReplaceWrites DEF Replace
  <2>2. fs \in Tree /\ edits[k].path \in Path /\ i \in Nat
    BY <2>1, PathsOfEdits DEF ApplyInv, Typed
  <2>3. edits[k].path = edits[i].path
    BY <2>1, <2>2 DEF Tree
  <2>4. k = i
    BY <2>1, <2>3 DEF ApplyInv, Checked, Distinct
  <2> QED
    BY <2>2, <2>4 DEF ApplyInv, Fresh
<1>2. ApplyInv /\ [Next]_vars => [Safe]_vars
  BY <1>1
<1> QED
  BY <1>2, ApplyInvariant, PTL DEF Spec, NothingStaleOverwritten

-------------------------------------------------------------------------------
(* A call implements the single step it promises                           *)

Active == {"validate", "stage", "replace", "rollback", "cleanup"}

LEMMA Frame ==
  ASSUME [Next]_vars
  PROVE  /\ edits' = edits /\ initial' = initial
         /\ meddled' = meddled \/ (meddled' = meddled + 1 /\ pc = "stage" /\ pc' = "stage")
         /\ pc \in Active \/ UNCHANGED vars
<1>1. CASE Refuse \/ Accept \/ EnterParent
  BY <1>1 DEF Refuse, Accept, EnterParent, Active
<1>2. CASE ParentFails \/ OpenTemp \/ WriteTemp \/ WriteFails \/ Recheck \/ RecheckFails
  BY <1>2 DEF ParentFails, OpenTemp, WriteTemp, WriteFails, Recheck, RecheckFails, Raise, Active
<1>3. CASE Replace \/ ReplaceFails \/ Return
  BY <1>3 DEF Replace, ReplaceFails, Return, Raise, Active
<1>4. CASE Restore \/ EndRollback \/ UnlinkTemp \/ RemoveDirectory \/ Escape
  BY <1>4 DEF Restore, EndRollback, UnlinkTemp, RemoveDirectory, Escape, Active
<1>5. CASE Interrupt \/ Kill
  BY <1>5 DEF Interrupt, Kill, Running, Active
<1>6. CASE \E place \in Path \union Dir, node \in Node \ {Directory} : Meddle(place, node)
  BY <1>6 DEF Meddle, Active
<1>7. CASE UNCHANGED vars
  BY <1>7 DEF vars
<1> QED
  BY <1>1, <1>2, <1>3, <1>4, <1>5, <1>6, <1>7 DEF Next

\* What the workspace holds when a call is over, and what that says of the candidate.
Outcome ==
  /\ pc \notin {"validate", "refused"} =>
       \A k \in DOMAIN edits :
         /\ edits[k].path \notin UnsafePath
         /\ Text(Targets(initial)[edits[k].path]) = edits[k].old
  /\ meddled = 0 =>
       /\ pc = "returned" => Targets(fs) = AfterEdits(Targets(initial), edits, DOMAIN edits)
       /\ pc = "refused" \/ (pc \in {"escaped", "abandoned"} /\ failed = {} /\ ~interrupted) =>
            Targets(fs) = Targets(initial)
       /\ \E S \in SUBSET DOMAIN edits : Targets(fs) = AfterEdits(Targets(initial), edits, S)

LEMMA OutcomeHolds == ASSUME ApplyInv PROVE Outcome
<1>1. ASSUME pc \notin {"validate", "refused"}
      PROVE  \A k \in DOMAIN edits :
               /\ edits[k].path \notin UnsafePath
               /\ Text(Targets(initial)[edits[k].path]) = edits[k].old
  <2>1. \A k \in Edits : Targets(initial)[edits[k].path] = initial[edits[k].path]
    BY PathsOfEdits, TargetsAt DEF ApplyInv
  <2> QED
    BY <1>1, <2>1 DEF ApplyInv, Checked, Edits
<1>2. ASSUME meddled = 0, pc = "returned"
      PROVE  Targets(fs) = AfterEdits(Targets(initial), edits, DOMAIN edits)
  BY <1>2, EveryEditMade DEF Edits
<1>3. ASSUME meddled = 0,
             pc = "refused" \/ (pc \in {"escaped", "abandoned"} /\ failed = {} /\ ~interrupted)
      PROVE  Targets(fs) = Targets(initial)
  <2>1. failed = {} /\ materialized = <<>>
    BY <1>3 DEF ApplyInv, Phased
  <2> QED
    BY <1>3, <2>1, NoEditLeft
<1>4. ASSUME meddled = 0
      PROVE  \E S \in SUBSET DOMAIN edits : Targets(fs) = AfterEdits(Targets(initial), edits, S)
  <2>1. 1..Len(materialized) \union failed \in SUBSET DOMAIN edits
    BY PathsOfEdits DEF ApplyInv, Typed, Ordered, Edits
  <2>2. Targets(fs) = AfterEdits(Targets(initial), edits, 1..Len(materialized) \union failed)
    BY <1>4 DEF ApplyInv, Made, After
  <2> QED
    BY <2>1, <2>2
<1> QED
  BY <1>1, <1>2, <1>3, <1>4 DEF Outcome

\* The promise speaks of texts and edits as the call does.
LEMMA SameWords ==
  /\ \A node : Promise!Text(node) = Text(node)
  /\ \A t, e, S : Promise!AfterEdits(t, e, S) = AfterEdits(t, e, S)
  BY DEF Promise!Text, Text, Promise!AfterEdits, AfterEdits, Promise!File, File,
         Promise!ModeOf, ModeOf

LEMMA PromisedStep ==
  ASSUME ApplyInv, Typed', Outcome', [Next]_vars
  PROVE  [Promise!Next]_(Promise!vars)
<1>1. /\ edits' = edits /\ initial' = initial /\ meddled \in Nat
      /\ meddled' = meddled \/ (meddled' = meddled + 1 /\ pc = "stage" /\ pc' = "stage")
      /\ pc \in Active \/ UNCHANGED vars
  BY Frame DEF ApplyInv, Typed
<1>2. Targets(initial)' = Targets(initial)
  BY <1>1 DEF Targets
<1>3. CASE meddled > 0
  <2>1. Result = "void" /\ Result' = "void"
    BY <1>1, <1>3 DEF Result
  <2> QED
    BY <1>1, <1>2, <2>1 DEF Promise!vars
<1>4. CASE meddled = 0 /\ meddled' # 0
  <2>1. meddled' > 0 /\ pc = "stage"
    BY <1>1, <1>4
  <2>2. Result = "pending" /\ Result' = "void"
    BY <1>4, <2>1 DEF Result
  <2>3. Promise!Void
    BY <1>1, <1>2, <2>2 DEF Promise!Void
  <2> QED
    BY <2>3 DEF Promise!Next
<1>5. CASE meddled = 0 /\ meddled' = 0 /\ pc \notin Active
  <2>1. UNCHANGED vars
    BY <1>1, <1>5
  <2>2. Result' = Result /\ Targets(fs)' = Targets(fs)
    BY <2>1 DEF vars, Result, Targets
  <2> QED
    BY <1>1, <1>2, <2>2 DEF Promise!vars
<1>6. CASE meddled = 0 /\ meddled' = 0 /\ pc \in Active
  <2>1. Result = "pending"
    BY <1>6 DEF Active, Result
  <2>2. CASE pc' \in Active
    <3>1. Result' = "pending"
      BY <1>6, <2>2 DEF Active, Result
    <3> QED
      BY <1>1, <1>2, <2>1, <3>1 DEF Promise!vars
  <2>3. ASSUME pc' \notin {"validate", "refused"}
        PROVE  \A k \in DOMAIN edits :
                 /\ edits[k].path \notin UnsafePath
                 /\ Text(Targets(initial)[edits[k].path]) = edits[k].old
    BY <1>1, <1>2, <2>3 DEF Outcome
  <2>4. CASE pc' = "returned"
    <3>1. Result' = "applied"
      BY <1>6, <2>4 DEF Result
    <3>2. Targets(fs)' = AfterEdits(Targets(initial), edits, DOMAIN edits)
      BY <1>1, <1>2, <1>6, <2>4 DEF Outcome
    <3>3. Promise!Applicable
      BY <2>1, <2>3, <2>4, SameWords DEF Promise!Applicable
    <3>4. Promise!Commit
      BY <1>1, <2>1, <3>1, <3>2, <3>3, SameWords DEF Promise!Commit
    <3> QED
      BY <3>4 DEF Promise!Next
  <2>5. CASE pc' = "refused" \/ (pc' \in {"escaped", "abandoned"} /\ failed' = {} /\ ~interrupted')
    <3>1. Result' = "refused"
      BY <1>6, <2>5 DEF Result
    <3>2. Targets(fs)' = Targets(initial)
      BY <1>2, <1>6, <2>5 DEF Outcome
    <3>3. Promise!Refuse
      BY <1>1, <2>1, <3>1, <3>2 DEF Promise!Refuse
    <3> QED
      BY <3>3 DEF Promise!Next
  <2>6. CASE pc' = "killed" \/ (pc' \in {"escaped", "abandoned"} /\ (failed' # {} \/ interrupted'))
    <3>1. Result' = "torn"
      BY <1>6, <2>6 DEF Result
    <3>2. Promise!Applicable
      BY <2>1, <2>3, <2>6, SameWords DEF Promise!Applicable
    <3>3. \E S \in SUBSET DOMAIN edits : Targets(fs)' = AfterEdits(Targets(initial), edits, S)
      BY <1>1, <1>2, <1>6 DEF Outcome
    <3>4. Promise!Tear
      BY <1>1, <2>1, <3>1, <3>2, <3>3, SameWords DEF Promise!Tear
    <3> QED
      BY <3>4 DEF Promise!Next
  <2> QED
    BY <2>2, <2>4, <2>5, <2>6 DEF Typed, Active
<1> QED
  BY <1>1, <1>3, <1>4, <1>5, <1>6

\* To its caller, a call of apply_candidate is one step: all of a valid candidate is
\* applied, or nothing, or the caller is told that the workspace may be torn.
THEOREM CallIsAtomic == Spec => ImplementsAtomicApply
<1>1. Init => Promise!Init
  BY DEF Init, Result, Promise!Init
<1>2. ApplyInv => Typed /\ Outcome
  BY OutcomeHolds DEF ApplyInv
<1>3. ApplyInv /\ (Typed /\ Outcome)' /\ [Next]_vars => [Promise!Next]_(Promise!vars)
  BY PromisedStep
<1> QED
  BY <1>1, <1>2, <1>3, ApplyInvariant, PTL DEF Spec, ImplementsAtomicApply, Promise!Spec

-------------------------------------------------------------------------------
(* What is cleaned up: the temporary files are those of the edits at hand, *)
(* and the directories made are known, each one after those above it, so   *)
(* that the last one is empty unless one below it could not be removed.    *)

Late == error \in {"recheck", "replace"}

Tidy ==
  /\ pc = "validate" =>
       i = 1 /\ making = <<>> /\ created_directories = <<>> /\ \A k \in Edits : temp[k] = "none"
  /\ pc = "stage" => \A k \in Edits : /\ k < i => temp[k] = "staged"
                                      /\ k = i => temp[k] # "staged"
                                      /\ k > i => temp[k] = "none"
  /\ pc = "replace" => \A k \in Edits : temp[k] = IF k < i THEN "none" ELSE "staged"
  /\ pc \in {"validate", "stage", "replace"} => error = "none"
  /\ Late => making = <<>> /\ \A k \in Edits : temp[k] # "open"
  /\ pc = "stage" /\ (i \in Edits => temp[i] = "open") => making = <<>>
  /\ pc = "replace" => making = <<>>
  /\ pc = "escaped" => created_directories = <<>> /\ Staged = {}
  /\ pc \in {"validate", "stage"} => unremoved = {}

Created == created_directories \o making

\* The directories in s were not there, and each is preceded by those above it that were not.
Nested(s) ==
  \A n \in DOMAIN s :
    /\ initial[s[n]] = Absent
    /\ \A m \in DOMAIN s : s[m] = s[n] => m = n
    /\ \A d \in Dir :
         Above(d, s[n]) => initial[d] = Directory \/ \E m \in DOMAIN s : m < n /\ s[m] = d

\* The directories of t are those of the initial tree, those in s and those that stay.
DirsAre(t, s) ==
  \A d \in Dir :
    \/ t[d] = IF \E n \in DOMAIN s : s[n] = d THEN Directory ELSE initial[d]
    \/ t[d] = Directory /\ Stays(d)

\* Nothing has been left behind yet.
Settled ==
  \/ pc \in {"validate", "refused", "stage", "replace", "rollback", "returned"}
  \/ failed = {} /\ ~interrupted /\ Late

Grown ==
  meddled = 0 /\ Settled =>
    /\ pc = "stage" /\ i \in Edits => \A k \in 1..depth : fs[Parents[k]] = Directory
    /\ Nested(Created)
    /\ DirsAre(fs, Created)

ResidueInv == initial \in Trees /\ Tidy /\ Grown

LEMMA AboveTransitive ==
  ASSUME NEW d, NEW e, NEW u, Above(d, e), Above(e, u)
  PROVE  Above(d, u)
<1>1. PICK p \in Path : \E k, l \in DOMAIN ParentsOf[p] :
                          k < l /\ ParentsOf[p][k] = d /\ ParentsOf[p][l] = e
  BY DEF Above
<1>2. PICK q \in Path : \E m, n \in DOMAIN ParentsOf[q] :
                          m < n /\ ParentsOf[q][m] = e /\ ParentsOf[q][n] = u
  BY DEF Above
<1>3. PICK k \in DOMAIN ParentsOf[p], l \in DOMAIN ParentsOf[p],
           m \in DOMAIN ParentsOf[q], n \in DOMAIN ParentsOf[q] :
        /\ k < l /\ ParentsOf[p][k] = d /\ ParentsOf[p][l] = e
        /\ m < n /\ ParentsOf[q][m] = e /\ ParentsOf[q][n] = u
  BY <1>1, <1>2
<1>4. ParentsOf[p] \in Seq(Dir) /\ ParentsOf[q] \in Seq(Dir)
  BY WorkspaceAssumption
<1>5. k \in Nat /\ l \in Nat /\ m \in Nat /\ n \in Nat /\ k \in 1 .. l
  BY <1>3, <1>4
<1>6. l = m /\ \A j \in 1 .. l : ParentsOf[p][j] = ParentsOf[q][j]
  BY <1>3, HierarchyAssumption
<1>7. ParentsOf[q][k] = d /\ k < n /\ k \in DOMAIN ParentsOf[q]
  BY <1>3, <1>4, <1>5, <1>6
<1> QED
  BY <1>3, <1>7 DEF Above

LEMMA AppendToConcat ==
  ASSUME NEW s \in Seq(Dir), NEW t \in Seq(Dir), NEW d \in Dir
  PROVE  s \o Append(t, d) = Append(s \o t, d)
  OBVIOUS

LEMMA ConcatNothing ==
  ASSUME NEW s \in Seq(Dir)
  PROVE  s \o <<>> = s
  OBVIOUS

LEMMA FrontOfDirs ==
  ASSUME NEW s \in Seq(Dir), s # <<>>
  PROVE  /\ Front(s) \in Seq(Dir) /\ Len(s) \in DOMAIN s /\ DOMAIN s = 1 .. Len(s)
         /\ DOMAIN Front(s) = 1 .. Len(s) - 1 /\ Len(s) \in Nat
         /\ \A n \in 1 .. Len(s) - 1 : Front(s)[n] = s[n]
  BY DEF Front

\* A directory made below those above it.
LEMMA NestedAppend ==
  ASSUME NEW s \in Seq(Dir), NEW d \in Dir, Nested(s), initial[d] = Absent,
         \A n \in DOMAIN s : s[n] # d,
         \A a \in Dir : Above(a, d) => initial[a] = Directory \/ \E m \in DOMAIN s : s[m] = a
  PROVE  Nested(Append(s, d))
<1>1. PICK N \in Nat : N = Len(s) /\ DOMAIN s = 1 .. N
  OBVIOUS
<1>2. PICK t : t = Append(s, d)
  OBVIOUS
<1>3. DOMAIN t = 1 .. N + 1 /\ t[N + 1] = d /\ \A n \in 1 .. N : t[n] = s[n]
  BY <1>1, <1>2
<1>4. ASSUME NEW n \in 1 .. N
      PROVE  /\ initial[t[n]] = Absent
             /\ \A m \in 1 .. N + 1 : t[m] = t[n] => m = n
             /\ \A a \in Dir : Above(a, t[n]) =>
                  initial[a] = Directory \/ \E m \in 1 .. N + 1 : m < n /\ t[m] = a
  <2>1. /\ initial[s[n]] = Absent
        /\ \A m \in 1 .. N : s[m] = s[n] => m = n
        /\ \A a \in Dir : Above(a, s[n]) =>
             initial[a] = Directory \/ \E m \in 1 .. N : m < n /\ s[m] = a
    BY <1>1 DEF Nested
  <2>2. s[n] # d /\ t[n] = s[n] /\ \A m \in 1 .. N : m \in 1 .. N + 1 /\ t[m] = s[m]
    BY <1>1, <1>3
  <2>3. \A m \in 1 .. N + 1 : m \in 1 .. N \/ m = N + 1
    BY <1>1
  <2> QED
    BY <1>3, <2>1, <2>2, <2>3
<1>5. /\ initial[t[N + 1]] = Absent
      /\ \A m \in 1 .. N + 1 : t[m] = t[N + 1] => m = N + 1
      /\ \A a \in Dir : Above(a, t[N + 1]) =>
           initial[a] = Directory \/ \E m \in 1 .. N + 1 : m < N + 1 /\ t[m] = a
  <2>1. \A m \in 1 .. N + 1 : m = N + 1 \/ (m \in 1 .. N /\ t[m] = s[m] /\ s[m] # d)
    BY <1>1, <1>3
  <2>2. \A m \in 1 .. N : m \in 1 .. N + 1 /\ m < N + 1 /\ t[m] = s[m]
    BY <1>1, <1>3
  <2>3. ASSUME NEW a \in Dir, Above(a, d)
        PROVE  initial[a] = Directory \/ \E m \in 1 .. N + 1 : m < N + 1 /\ t[m] = a
    BY <1>1, <2>2, <2>3
  <2> QED
    BY <1>3, <2>1, <2>3
<1>6. \A n \in 1 .. N + 1 : n \in 1 .. N \/ n = N + 1
  BY <1>1
<1>7. Nested(t)
  BY <1>3, <1>4, <1>5, <1>6 DEF Nested
<1> QED
  BY <1>2, <1>7

\* The directory made last is above no other.
LEMMA NestedFront ==
  ASSUME NEW s \in Seq(Dir), s # <<>>, Nested(s)
  PROVE  /\ Nested(Front(s))
         /\ \A n \in DOMAIN Front(s) : s[n] # Last(s)
         /\ \A n \in DOMAIN s : ~Above(Last(s), s[n])
<1>1. PICK N \in Nat : N = Len(s) /\ DOMAIN s = 1 .. N /\ N \in 1 .. N
  BY FrontOfDirs
<1>2. PICK t : t = Front(s)
  OBVIOUS
<1>3. DOMAIN t = 1 .. N - 1 /\ \A n \in 1 .. N - 1 : t[n] = s[n] /\ n \in 1 .. N
  BY <1>1, <1>2, FrontOfDirs
<1>4. PICK d \in Dir : d = s[N] /\ d = Last(s) /\ initial[d] = Absent
  <2>1. s[N] \in Dir
    BY <1>1
  <2>2. s[N] = Last(s) /\ initial[s[N]] = Absent
    BY <1>1 DEF Nested, Last
  <2> QED
    BY <2>1, <2>2
<1>5. \A m \in 1 .. N : s[m] = d => m = N
  <2>1. \A n \in DOMAIN s : \A m \in DOMAIN s : s[m] = s[n] => m = n
    BY DEF Nested
  <2>2. N \in DOMAIN s /\ d = s[N]
    BY <1>1, <1>4
  <2>3. \A m \in DOMAIN s : s[m] = d => m = N
    BY <2>1, <2>2
  <2> QED
    BY <1>1, <2>3
<1>6. ASSUME NEW n \in 1 .. N
      PROVE  ~Above(d, s[n])
  <2>1. Above(d, s[n]) => initial[d] = Directory \/ \E m \in 1 .. N : m < n /\ s[m] = d
    BY <1>1 DEF Nested
  <2>2. initial[d] # Directory
    BY <1>4 DEF Absent, Directory
  <2>3. ASSUME NEW m \in 1 .. N, m < n, s[m] = d PROVE FALSE
    BY <1>1, <1>5, <2>3
  <2> QED
    BY <2>1, <2>2, <2>3
<1>7. \A n \in 1 .. N - 1 : s[n] # d
  <2>1. \A n \in 1 .. N - 1 : n # N /\ n \in 1 .. N
    BY <1>1
  <2> QED
    BY <1>5, <2>1
<1>8. ASSUME NEW n \in 1 .. N - 1
      PROVE  /\ initial[t[n]] = Absent
             /\ \A m \in 1 .. N - 1 : t[m] = t[n] => m = n
             /\ \A a \in Dir : Above(a, t[n]) =>
                  initial[a] = Directory \/ \E m \in 1 .. N - 1 : m < n /\ t[m] = a
  <2>1. n \in 1 .. N /\ t[n] = s[n] /\ \A m \in 1 .. N - 1 : m \in 1 .. N /\ t[m] = s[m]
    BY <1>3
  <2>2. /\ initial[s[n]] = Absent
        /\ \A m \in 1 .. N : s[m] = s[n] => m = n
        /\ \A a \in Dir : Above(a, s[n]) =>
             initial[a] = Directory \/ \E m \in 1 .. N : m < n /\ s[m] = a
    <3>1. n \in DOMAIN s
      BY <1>1, <2>1
    <3>2. /\ initial[s[n]] = Absent
          /\ \A m \in DOMAIN s : s[m] = s[n] => m = n
          /\ \A a \in Dir : Above(a, s[n]) =>
               initial[a] = Directory \/ \E m \in DOMAIN s : m < n /\ s[m] = a
      BY <3>1 DEF Nested
    <3> QED
      BY <1>1, <3>2
  <2>3. \A m \in 1 .. N : m < n => m \in 1 .. N - 1
    BY <1>1
  <2> QED
    BY <2>1, <2>2, <2>3
<1>9. Nested(t)
  BY <1>3, <1>8 DEF Nested
<1> QED
  BY <1>1, <1>2, <1>3, <1>4, <1>6, <1>7, <1>9

-------------------------------------------------------------------------------
(* The steps of a call, and what they leave to clean up                    *)

LEMMA TidyInCall ==
  ASSUME Typed, Tidy, pc \in {"validate", "stage"},
         Refuse \/ Accept \/ EnterParent \/ OpenTemp \/ WriteTemp \/ Recheck
  PROVE  Tidy'
<1>1. /\ Edits = 1..Len(edits) /\ Len(edits) \in Nat /\ i \in 1..Len(edits) + 1
      /\ temp \in [Edits -> {"none", "open", "staged"}] /\ error = "none"
  BY PathsOfEdits DEF Typed, Tidy
<1>2. ~Late
  BY <1>1 DEF Late
<1>3. CASE Refuse
  BY <1>1, <1>3 DEF Refuse, Tidy, Late, Edits
<1>4. CASE Accept
  BY <1>1, <1>4 DEF Accept, Tidy, Late, Edits
<1>5. CASE EnterParent
  BY <1>1, <1>5 DEF EnterParent, Tidy, Late, Edits
<1>6. CASE OpenTemp
  <2>1. /\ pc = "stage" /\ i \in Edits /\ temp[i] = "none" /\ making' = <<>>
        /\ edits' = edits
    BY <1>6 DEF OpenTemp, Raise
  <2>2. CASE temp' = [temp EXCEPT ![i] = "open"] /\ UNCHANGED <<edits, pc, i, error, unremoved>>
    BY <1>1, <2>1, <2>2 DEF Tidy, Late, Edits
  <2>3. CASE Raise("stage")
    BY <2>1, <2>3 DEF Tidy, Late, Raise
  <2> QED
    BY <1>6, <2>2, <2>3 DEF OpenTemp
<1>7. CASE WriteTemp
  <2>1. /\ pc = "stage" /\ i \in Edits /\ temp[i] = "open" /\ i' = i + 1
        /\ temp' = [temp EXCEPT ![i] = "staged"]
        /\ UNCHANGED <<edits, pc, making, error, unremoved>>
    BY <1>7 DEF WriteTemp
  <2>2. making = <<>>
    BY <2>1 DEF Tidy
  <2>3. \A k \in Edits : /\ k < i + 1 => temp'[k] = "staged"
                         /\ k = i + 1 => temp'[k] # "staged"
                         /\ k > i + 1 => temp'[k] = "none"
    BY <1>1, <2>1 DEF Tidy
  <2> QED
    BY <1>1, <2>1, <2>2, <2>3 DEF Tidy, Late, Edits
<1>8. CASE Recheck
  <2>1. /\ pc = "stage" /\ pc' = "replace" /\ i = Len(edits) + 1 /\ i' = 1
        /\ UNCHANGED <<edits, making, temp, error>>
    BY <1>8 DEF Recheck
  <2>2. i \notin Edits
    BY <1>1, <2>1
  <2>3. making = <<>>
    BY <2>1, <2>2 DEF Tidy
  <2>4. \A k \in Edits : temp[k] = "staged" /\ ~(k < 1)
    BY <1>1, <2>1 DEF Tidy
  <2> QED
    BY <1>1, <2>1, <2>3, <2>4 DEF Tidy, Late, Edits
<1> QED
  BY <1>3, <1>4, <1>5, <1>6, <1>7, <1>8

LEMMA TidyInReplacing ==
  ASSUME Typed, Tidy, pc = "replace", Replace \/ Return
  PROVE  Tidy'
<1>1. /\ Edits = 1..Len(edits) /\ Len(edits) \in Nat /\ i \in 1..Len(edits) + 1
      /\ temp \in [Edits -> {"none", "open", "staged"}] /\ error = "none" /\ making = <<>>
  BY PathsOfEdits DEF Typed, Tidy
<1>2. CASE Replace
  <2>1. /\ i \in Edits /\ i' = i + 1 /\ pc' = "replace"
        /\ temp' = [temp EXCEPT ![i] = "none"]
        /\ UNCHANGED <<edits, making, error>>
    BY <1>2 DEF Replace
  <2>2. \A k \in Edits : temp'[k] = IF k < i + 1 THEN "none" ELSE "staged"
    BY <1>1, <2>1 DEF Tidy
  <2> QED
    BY <1>1, <2>1, <2>2 DEF Tidy, Late, Edits
<1>3. CASE Return
  BY <1>1, <1>3 DEF Return, Tidy, Late, Edits
<1> QED
  BY <1>2, <1>3

LEMMA TidyInHandler ==
  ASSUME Typed, Tidy,
         \/ Restore \/ EndRollback \/ UnlinkTemp \/ RemoveDirectory \/ Escape
  PROVE  Tidy'
<1>1. temp \in [Edits -> {"none", "open", "staged"}]
  BY DEF Typed
<1>2. CASE Restore
  BY <1>2 DEF Restore, Tidy, Late, Edits, Staged
<1>3. CASE EndRollback
  BY <1>3 DEF EndRollback, Tidy, Late, Edits, Staged
<1>4. CASE UnlinkTemp
  <2>1. pc = "cleanup" /\ pc' \in {"cleanup", "abandoned"} /\ UNCHANGED <<edits, making, error>>
    BY <1>4 DEF UnlinkTemp
  <2>2. temp' = temp \/ \E k \in Edits : temp' = [temp EXCEPT ![k] = "none"]
    BY <1>4 DEF UnlinkTemp, Staged
  <2>3. Late => \A k \in Edits : temp'[k] # "open"
    BY <1>1, <2>2 DEF Tidy
  <2> QED
    BY <2>1, <2>3 DEF Tidy, Late, Edits
<1>5. CASE RemoveDirectory
  BY <1>5 DEF RemoveDirectory, Tidy, Late, Edits
<1>6. CASE Escape
  BY <1>6 DEF Escape, Tidy, Late, Edits, Staged
<1> QED
  BY <1>2, <1>3, <1>4, <1>5, <1>6

LEMMA TidyInFailing ==
  ASSUME Typed, Tidy, ParentFails \/ WriteFails \/ RecheckFails \/ ReplaceFails
  PROVE  Tidy'
<1>1. Edits = 1..Len(edits) /\ Len(edits) \in Nat
  BY PathsOfEdits
<1>2. CASE ParentFails \/ WriteFails
  BY <1>2 DEF ParentFails, WriteFails, Raise, Tidy, Late
<1>3. CASE RecheckFails
  <2>1. /\ pc = "stage" /\ i = Len(edits) + 1 /\ pc' = "rollback"
        /\ UNCHANGED <<edits, making, temp>>
    BY <1>3 DEF RecheckFails, Raise
  <2>2. i \notin Edits /\ \A k \in Edits : k < i
    BY <1>1, <2>1
  <2>3. making = <<>> /\ \A k \in Edits : temp[k] # "open"
    BY <2>1, <2>2 DEF Tidy
  <2> QED
    BY <2>1, <2>3 DEF Tidy, Edits
<1>4. CASE ReplaceFails
  <2>1. pc = "replace" /\ pc' = "rollback" /\ UNCHANGED <<edits, making, temp>>
    BY <1>4 DEF ReplaceFails, Raise
  <2>2. making = <<>> /\ \A k \in Edits : temp[k] # "open"
    BY <2>1 DEF Tidy
  <2> QED
    BY <2>1, <2>2 DEF Tidy, Edits
<1> QED
  BY <1>2, <1>3, <1>4

LEMMA TidyInSurroundings ==
  ASSUME Typed, Tidy,
         \/ Interrupt \/ Kill \/ UNCHANGED vars
         \/ \E place \in Path \union Dir, node \in Node \ {Directory} : Meddle(place, node)
  PROVE  Tidy'
<1>1. UNCHANGED <<edits, i, making, created_directories, temp, error, unremoved>>
  BY DEF Interrupt, Kill, vars, Meddle
<1>2. pc' = pc \/ pc' \in {"cleanup", "abandoned", "killed"}
  BY DEF Interrupt, Kill, vars, Meddle
<1> QED
  BY <1>1, <1>2 DEF Tidy, Late, Edits, Staged

LEMMA TidyStep == ASSUME Typed, Tidy, [Next]_vars PROVE Tidy'
<1>1. CASE Refuse \/ Accept \/ EnterParent \/ OpenTemp \/ WriteTemp \/ Recheck
  <2>1. pc \in {"validate", "stage"}
    BY <1>1 DEF Refuse, Accept, EnterParent, OpenTemp, WriteTemp, Recheck
  <2> QED
    BY <1>1, <2>1, TidyInCall
<1>2. CASE Replace \/ Return
  <2>1. pc = "replace"
    BY <1>2 DEF Replace, Return
  <2> QED
    BY <1>2, <2>1, TidyInReplacing
<1> QED
  BY <1>1, <1>2, TidyInHandler, TidyInFailing, TidyInSurroundings DEF Next

\* A step that makes and removes no directory.
LEMMA GrownKeeps ==
  ASSUME ApplyInv, Grown, UNCHANGED <<edits, initial, meddled, unremoved>>,
         \A d \in Dir : fs'[d] = fs[d],
         created_directories' \o making' = Created,
         Settled' => Settled,
         pc' = "stage" => \/ depth' = 0
                          \/ pc = "stage" /\ UNCHANGED <<i, depth>>
  PROVE  Grown'
<1> SUFFICES ASSUME meddled = 0, Settled'
             PROVE  /\ pc' = "stage" /\ i' \in Edits' =>
                         \A k \in 1..depth' : fs'[Parents'[k]] = Directory
                    /\ Nested(Created)'
                    /\ DirsAre(fs, Created)'
  BY DEF Grown
<1>1. /\ pc = "stage" /\ i \in Edits => \A k \in 1..depth : fs[Parents[k]] = Directory
      /\ Nested(Created)
      /\ DirsAre(fs, Created)
  BY DEF Grown
<1>2. Created' = Created
  BY DEF Created
<1>3. Nested(Created)'
  BY <1>1, <1>2 DEF Nested
<1>4. DirsAre(fs, Created)'
  BY <1>1, <1>2 DEF DirsAre, Stays, Above
<1>5. ASSUME pc' = "stage", i' \in Edits', NEW k \in 1..depth'
      PROVE  fs'[Parents'[k]] = Directory
  <2>1. depth' # 0
    BY <1>5
  <2>2. pc = "stage" /\ i' = i /\ depth' = depth /\ i \in Edits /\ Parents' = Parents
    BY <1>5, <2>1 DEF Edits, Parents
  <2>3. depth \in 0..Len(Parents) /\ Len(Parents) \in Nat /\ \A m \in 1..Len(Parents) : Parents[m] \in Dir
    BY <2>2, ParentsInDir DEF ApplyInv, Typed
  <2>4. k \in 1..depth /\ Parents[k] \in Dir
    BY <1>5, <2>2, <2>3
  <2> QED
    BY <1>1, <2>2, <2>4
<1> QED
  BY <1>3, <1>4, <1>5

LEMMA GrownInEnterParent == ASSUME ApplyInv, Tidy, Grown, EnterParent PROVE Grown'
<1>1. /\ pc = "stage" /\ pc' = "stage" /\ i \in Edits /\ depth < Len(Parents) /\ depth' = depth + 1
      /\ UNCHANGED <<edits, initial, i, created_directories, failed, error, interrupted, meddled, unremoved>>
  BY DEF EnterParent
<1>2. PICK d : d = Parents[depth + 1]
  OBVIOUS
<1>3. \/ fs[d] = Directory /\ fs' = fs /\ making' = making
      \/ fs[d] = Absent /\ fs' = Put(fs, d, Directory) /\ making' = Append(making, d)
  BY <1>2 DEF EnterParent, Put
<1>4. /\ fs \in Tree /\ making \in Seq(Dir) /\ created_directories \in Seq(Dir)
      /\ depth \in 0..Len(Parents) /\ edits[i].path \in Path
  BY <1>1, PathsOfEdits DEF ApplyInv, Typed
<1>5. /\ Parents \in Seq(Dir) /\ Len(Parents) \in Nat /\ DOMAIN Parents = 1..Len(Parents)
      /\ \A k \in 1..Len(Parents) : Parents[k] \in Dir
  BY <1>1, ParentsInDir DEF ApplyInv
<1>6. d \in Dir /\ depth + 1 \in DOMAIN Parents /\ depth \in Nat
  BY <1>1, <1>2, <1>4, <1>5
<1>7. Created \in Seq(Dir)
  BY <1>4 DEF Created
<1> SUFFICES ASSUME meddled = 0, Settled
             PROVE  /\ \A k \in 1..depth + 1 : fs'[Parents[k]] = Directory
                    /\ Nested(Created)'
                    /\ DirsAre(fs, Created)'
  BY <1>1 DEF Grown, Settled, Late, Parents, Edits
<1>8. /\ \A k \in 1..depth : fs[Parents[k]] = Directory
      /\ Nested(Created)
      /\ \A e \in Dir :
           fs[e] = IF \E n \in DOMAIN Created : Created[n] = e THEN Directory ELSE initial[e]
  <2>1. unremoved = {}
    BY <1>1 DEF Tidy
  <2> QED
    BY <1>1, <2>1 DEF Grown, DirsAre, Stays
<1>9. \A k \in 1..depth + 1 : k \in 1..depth \/ k = depth + 1
  BY <1>6
<1>10. CASE fs[d] = Directory /\ fs' = fs /\ making' = making
  <2>1. Created' = Created
    BY <1>1, <1>10 DEF Created
  <2>2. Nested(Created)'
    BY <1>1, <1>8, <2>1 DEF Nested
  <2>3. DirsAre(fs, Created)'
    BY <1>1, <1>8, <1>10, <2>1 DEF DirsAre
  <2> QED
    BY <1>2, <1>8, <1>9, <1>10, <2>2, <2>3
<1>11. CASE fs[d] = Absent /\ fs' = Put(fs, d, Directory) /\ making' = Append(making, d)
  <2>1. Created' = Append(Created, d)
    BY <1>1, <1>4, <1>6, <1>11, AppendToConcat DEF Created
  <2>2. Absent # Directory
    BY DEF Absent, Directory
  <2>3. initial[d] = Absent /\ \A n \in DOMAIN Created : Created[n] # d
    BY <1>6, <1>8, <1>11, <2>2
  <2>4. ASSUME NEW a \in Dir, Above(a, d)
        PROVE  initial[a] = Directory \/ \E m \in DOMAIN Created : Created[m] = a
    <3>1. PICK p \in Path : \E k, l \in DOMAIN ParentsOf[p] :
                              k < l /\ ParentsOf[p][k] = a /\ ParentsOf[p][l] = d
      BY <2>4 DEF Above
    <3>2. PICK k \in DOMAIN ParentsOf[p], l \in DOMAIN ParentsOf[p] :
                 k < l /\ ParentsOf[p][k] = a /\ ParentsOf[p][l] = d
      BY <3>1
    <3>3. k \in Nat /\ l \in Nat /\ k >= 1
      BY WorkspaceAssumption, <3>2
    <3>4. l = depth + 1 /\ \A m \in 1..l : ParentsOf[p][m] = Parents[m]
      BY HierarchyAssumption, <1>2, <1>4, <1>6, <3>2 DEF Parents
    <3>5. k \in 1..depth /\ Parents[k] = a
      BY <1>6, <3>2, <3>3, <3>4
    <3>6. fs[a] = Directory
      BY <1>8, <3>5
    <3> QED
      BY <1>8, <3>6
  <2>5. Nested(Append(Created, d))
    <3>1. PICK s \in Seq(Dir) : s = Created
      BY <1>7
    <3>2. Nested(s) /\ \A n \in DOMAIN s : s[n] # d
      BY <1>8, <2>3, <3>1
    <3>3. \A a \in Dir : Above(a, d) => initial[a] = Directory \/ \E m \in DOMAIN s : s[m] = a
      BY <2>4, <3>1
    <3>4. Nested(Append(s, d))
      BY <1>6, <2>3, <3>2, <3>3, NestedAppend
    <3> QED
      BY <3>1, <3>4
  <2>6. Nested(Created)'
    BY <1>1, <2>1, <2>5 DEF Nested
  <2>7. \A e \in Path \union Dir : fs'[e] = IF e = d THEN Directory ELSE fs[e]
    <3>1. Directory \in Node
      BY DEF Node
    <3> QED
      BY <1>4, <1>6, <1>11, <3>1, PutTree
  <2>8. PICK N \in Nat : N = Len(Created) /\ DOMAIN Created = 1..N
    BY <1>7
  <2>9. PICK t : t = Append(Created, d)
    OBVIOUS
  <2>10. DOMAIN t = 1..N + 1 /\ t[N + 1] = d /\ \A n \in 1..N : t[n] = Created[n] /\ n \in 1..N + 1
    BY <1>6, <1>7, <2>8, <2>9
  <2>11. ASSUME NEW e \in Dir
         PROVE  fs'[e] = IF \E n \in DOMAIN t : t[n] = e THEN Directory ELSE initial[e]
    <3>1. CASE e = d
      <4>1. N + 1 \in DOMAIN t
        BY <2>8, <2>10
      <4> QED
        BY <2>7, <2>10, <3>1, <4>1
    <3>2. CASE e # d
      <4>1. (\E n \in DOMAIN t : t[n] = e) <=> \E n \in DOMAIN Created : Created[n] = e
        <5>1. \A n \in 1..N + 1 : n \in 1..N \/ n = N + 1
          BY <2>8
        <5> QED
          BY <2>8, <2>10, <3>2, <5>1
      <4>2. fs'[e] = fs[e]
        BY <2>7, <3>2
      <4> QED
        BY <1>8, <4>1, <4>2
    <3> QED
      BY <3>1, <3>2
  <2>12. DirsAre(fs, Created)'
    BY <1>1, <2>1, <2>9, <2>11 DEF DirsAre
  <2>13. \A k \in 1..depth + 1 : fs'[Parents[k]] = Directory
    <3>1. \A k \in 1..depth : Parents[k] \in Dir
      BY <1>4, <1>5
    <3>2. \A k \in 1..depth : fs'[Parents[k]] = Directory
      BY <1>8, <2>7, <3>1
    <3>3. fs'[Parents[depth + 1]] = Directory
      BY <1>2, <1>6, <2>7
    <3> QED
      BY <1>9, <3>2, <3>3
  <2> QED
    BY <2>6, <2>12, <2>13
<1> QED
  BY <1>3, <1>10, <1>11

\* The directory made last is empty when nothing of the call is left in the targets and
\* no directory below it had to stay.
LEMMA InnermostVacant ==
  ASSUME ApplyInv, Tidy, initial \in Trees, pc = "cleanup", Staged = {}, Late, failed = {},
         ~interrupted, meddled = 0, created_directories # <<>>,
         Nested(created_directories), DirsAre(fs, created_directories),
         \A u \in unremoved : ~Above(Innermost, u)
  PROVE  Vacant(Innermost)
<1>1. PICK d : d = Last(created_directories)
  OBVIOUS
<1>2. created_directories \in Seq(Dir) /\ Typed
  BY DEF ApplyInv, Typed
<1>3. d \in Dir /\ initial[d] = Absent
  <2>1. Len(created_directories) \in DOMAIN created_directories
    BY <1>2, FrontOfDirs
  <2>2. created_directories[Len(created_directories)] = d
    BY <1>1 DEF Last
  <2>3. created_directories[Len(created_directories)] \in Dir
    BY <1>2, <2>1
  <2> QED
    BY <2>1, <2>2, <2>3 DEF Nested
<1>4. Targets(fs) = Targets(initial)
  <2>1. materialized = <<>>
    BY DEF ApplyInv, Phased
  <2> QED
    BY <2>1, NoEditLeft
<1>5. \A n \in DOMAIN created_directories : ~Above(d, created_directories[n])
  BY <1>1, <1>2, NestedFront
<1>6. ASSUME NEW p \in Path, d \in ToSet(ParentsOf[p])
      PROVE  fs[p] = Absent
  <2>1. PICK k \in DOMAIN ParentsOf[p] : ParentsOf[p][k] = d
    BY <1>6 DEF ToSet
  <2>2. initial[p] = Absent
    BY <1>3, <2>1, TreesAssumption
  <2> QED
    BY <1>4, <2>2, TargetsAt
<1>7. ASSUME NEW e \in Dir, Above(d, e)
      PROVE  fs[e] = Absent
  <2>1. initial[e] = Absent
    BY <1>3, <1>7, TreesAssumption DEF Above
  <2>2. \A n \in DOMAIN created_directories : created_directories[n] # e
    BY <1>5, <1>7
  <2>3. ~Stays(e)
    BY <1>1, <1>7, AboveTransitive DEF Stays, Innermost
  <2> QED
    BY <2>1, <2>2, <2>3 DEF DirsAre
<1>8. \A k \in Edits : temp[k] = "none"
  <2>1. \A k \in Edits : temp[k] \in {"none", "open", "staged"}
    BY <1>2 DEF Typed
  <2>2. \A k \in Edits : temp[k] # "open" /\ temp[k] # "staged"
    BY DEF Tidy, Staged
  <2> QED
    BY <2>1, <2>2
<1> QED
  BY <1>1, <1>6, <1>7, <1>8 DEF Vacant, Innermost

LEMMA GrownInRemoveDirectory ==
  ASSUME ApplyInv, Tidy, initial \in Trees, Grown, RemoveDirectory
  PROVE  Grown'
<1>1. PICK s : s = created_directories
  OBVIOUS
<1>2. PICK d : d = Last(s)
  OBVIOUS
<1>3. /\ pc = "cleanup" /\ pc' = "cleanup" /\ Staged = {} /\ s # <<>>
      /\ \/ fs' = Put(fs, d, Absent) /\ unremoved' = unremoved
         \/ fs' = fs /\ unremoved' = unremoved \union {e \in {d} : Vacant(e)}
      /\ created_directories' = Front(s)
      /\ UNCHANGED <<edits, initial, i, depth, making, failed, error, interrupted, meddled>>
  BY <1>1, <1>2 DEF RemoveDirectory, Innermost, Put
<1>4. s \in Seq(Dir) /\ fs \in Tree
  BY <1>1 DEF ApplyInv, Typed
<1> SUFFICES ASSUME meddled = 0, Settled'
             PROVE  Nested(Created)' /\ DirsAre(fs, Created)'
  BY <1>3 DEF Grown
<1>5. Settled /\ failed = {} /\ ~interrupted /\ Late
  BY <1>3 DEF Settled, Late
<1>6. making = <<>>
  BY <1>5 DEF Tidy
<1>7. Created = s /\ Created' = Front(s)
  <2>1. Front(s) \in Seq(Dir)
    BY <1>3, <1>4, FrontOfDirs
  <2> QED
    BY <1>1, <1>3, <1>4, <1>6, <2>1, ConcatNothing DEF Created
<1>8. Nested(s) /\ DirsAre(fs, s)
  BY <1>5, <1>7 DEF Grown
<1>9. Vacant(d) \/ \E u \in unremoved : Above(d, u)
  BY <1>1, <1>2, <1>3, <1>5, <1>8, InnermostVacant DEF Innermost
<1>10. PICK N \in Nat : /\ N = Len(s) /\ DOMAIN s = 1..N /\ N \in 1..N
                        /\ DOMAIN Front(s) = 1..N - 1
                        /\ \A n \in 1..N - 1 : Front(s)[n] = s[n]
  BY <1>3, <1>4, FrontOfDirs
<1>11. d = s[N] /\ d \in Dir
  BY <1>2, <1>4, <1>10 DEF Last
<1>12. Nested(Front(s)) /\ \A n \in 1..N - 1 : s[n] # d
  BY <1>2, <1>3, <1>4, <1>8, <1>10, NestedFront
<1>13. initial[d] = Absent
  BY <1>8, <1>10, <1>11 DEF Nested
<1>14. \/ fs'[d] = Absent
       \/ fs'[d] = Directory /\ Stays(d)'
  <2>1. CASE fs' = Put(fs, d, Absent)
    <3>1. Absent \in Node
      BY DEF Node
    <3> QED
      BY <1>4, <1>11, <2>1, <3>1, PutTree
  <2>2. CASE fs' = fs /\ unremoved' = unremoved \union {e \in {d} : Vacant(e)}
    <3>1. fs[d] = Directory
      BY <1>8, <1>10, <1>11 DEF DirsAre
    <3>2. \E u \in unremoved' : d = u \/ Above(d, u)
      BY <1>9, <2>2
    <3> QED
      BY <2>2, <3>1, <3>2 DEF Stays, Above
  <2> QED
    BY <1>3, <2>1, <2>2
<1>15. ASSUME NEW e \in Dir, e # d
       PROVE  fs'[e] = fs[e] /\ (Stays(e) => Stays(e)')
  <2>1. Absent \in Node
    BY DEF Node
  <2>2. fs'[e] = fs[e]
    BY <1>3, <1>4, <1>11, <1>15, <2>1, PutTree
  <2>3. unremoved \subseteq unremoved'
    BY <1>3
  <2> QED
    BY <2>2, <2>3 DEF Stays, Above
<1>16. ASSUME NEW e \in Dir
       PROVE  \/ fs'[e] = IF \E n \in 1..N - 1 : Front(s)[n] = e THEN Directory ELSE initial[e]
              \/ fs'[e] = Directory /\ Stays(e)'
  <2>1. CASE e = d
    BY <1>10, <1>12, <1>13, <1>14, <2>1
  <2>2. CASE e # d
    <3>1. \A n \in 1..N : n \in 1..N - 1 \/ n = N
      BY <1>10
    <3>2. \A n \in 1..N - 1 : n \in 1..N
      BY <1>10
    <3>3. (\E n \in 1..N - 1 : Front(s)[n] = e) <=> \E n \in DOMAIN s : s[n] = e
      BY <1>10, <1>11, <2>2, <3>1, <3>2
    <3> QED
      BY <1>8, <1>15, <2>2, <3>3 DEF DirsAre
  <2> QED
    BY <2>1, <2>2
<1>17. Nested(Created)'
  BY <1>3, <1>7, <1>12 DEF Nested
<1>18. DirsAre(fs, Created)'
  BY <1>3, <1>7, <1>10, <1>16 DEF DirsAre
<1> QED
  BY <1>17, <1>18

LEMMA GrownInMeddle ==
  ASSUME ApplyInv, NEW place, NEW node, Meddle(place, node)
  PROVE  Grown'
<1>1. meddled' = meddled + 1 /\ meddled \in Nat
  BY DEF Meddle, ApplyInv, Typed
<1> QED
  BY <1>1 DEF Grown

LEMMA GrownStep ==
  ASSUME ApplyInv, Tidy, initial \in Trees, Grown, [Next]_vars
  PROVE  Grown'
<1>1. /\ created_directories \in Seq(Dir) /\ making \in Seq(Dir) /\ Typed
      /\ Path \intersect Dir = {} /\ fs \in Tree
  BY WorkspaceAssumption DEF ApplyInv, Typed
<1>2. CASE \/ Refuse \/ Accept \/ WriteTemp \/ Recheck \/ Return \/ EndRollback \/ UnlinkTemp
           \/ Escape \/ Interrupt \/ Kill \/ UNCHANGED vars
  <2>1. UNCHANGED <<edits, initial, meddled, fs, created_directories, making, failed, error, unremoved>>
    BY <1>2 DEF Refuse, Accept, WriteTemp, Recheck, Return, EndRollback, UnlinkTemp, Escape,
                Interrupt, Kill, vars
  <2>2. pc' = "stage" => \/ depth' = 0
                         \/ pc = "stage" /\ UNCHANGED <<i, depth>>
    BY <1>2 DEF Refuse, Accept, WriteTemp, Recheck, Return, EndRollback, UnlinkTemp, Escape,
                Interrupt, Kill, vars, ApplyInv, Phased
  <2>3. Settled' => Settled
    BY <1>2 DEF Refuse, Accept, WriteTemp, Recheck, Return, EndRollback, UnlinkTemp, Escape,
                Interrupt, Kill, Running, vars, Settled, Late
  <2> QED
    BY <2>1, <2>2, <2>3, GrownKeeps DEF Created
<1>3. CASE ParentFails \/ WriteFails \/ RecheckFails \/ ReplaceFails
  <2>1. /\ pc \in {"stage", "replace"} /\ pc' = "rollback"
        /\ UNCHANGED <<edits, initial, meddled, fs, created_directories, making, unremoved>>
    BY <1>3 DEF ParentFails, WriteFails, RecheckFails, ReplaceFails, Raise
  <2>2. Settled
    BY <2>1 DEF Settled
  <2> QED
    BY <2>1, <2>2, GrownKeeps DEF Created
<1>4. CASE OpenTemp
  <2>1. /\ pc = "stage" /\ UNCHANGED <<edits, initial, meddled, fs, i, depth, unremoved>>
        /\ created_directories' = created_directories \o making /\ making' = <<>>
    BY <1>4 DEF OpenTemp, Raise
  <2>2. Settled
    BY <2>1 DEF Settled
  <2>3. created_directories \o making \in Seq(Dir)
    BY <1>1
  <2>4. created_directories' \o making' = Created
    BY <2>1, <2>3, ConcatNothing DEF Created
  <2> QED
    BY <2>1, <2>2, <2>4, GrownKeeps
<1>5. CASE Replace \/ Restore
  <2>1. /\ pc \in {"replace", "rollback"} /\ pc' = pc
        /\ UNCHANGED <<edits, initial, meddled, created_directories, making, unremoved>>
    BY <1>5 DEF Replace, Restore
  <2>2. Settled
    BY <2>1 DEF Settled
  <2>3. \A d \in Dir : fs'[d] = fs[d]
    <3>1. Edits = 1..Len(edits) /\ \A k \in Edits : edits[k].path \in Path
      BY <1>1, PathsOfEdits
    <3>2. CASE Replace
      <4>1. fs' = [fs EXCEPT ![edits[i].path] = NewFile] /\ edits[i].path \in Path
        BY <3>1, <3>2 DEF Replace
      <4> QED
        BY <1>1, <4>1 DEF Tree
    <3>3. CASE Restore
      <4>1. Latest \in Edits
        <5>1. materialized \in Seq(Edits) /\ materialized # <<>>
          BY <1>1, <3>3 DEF Typed, Restore
        <5> QED
          BY <5>1 DEF Latest, Last
      <4>2. edits[Latest].path \in Path
        BY <3>1, <4>1
      <4>3. fs' = fs \/ fs' = [fs EXCEPT ![edits[Latest].path] = validated[Latest]]
        BY <3>3 DEF Restore
      <4> QED
        BY <1>1, <4>2, <4>3 DEF Tree
    <3> QED
      BY <1>5, <3>2, <3>3
  <2> QED
    BY <2>1, <2>2, <2>3, GrownKeeps DEF Created
<1> QED
  BY <1>2, <1>3, <1>4, <1>5, GrownInEnterParent, GrownInRemoveDirectory, GrownInMeddle DEF Next

\* The inductive invariant about what a call leaves behind: its temporary files are those
\* of the edits at hand, and until a cleanup of files fails or the call is cut short, the
\* directories there are more than at the beginning are those it knows it made, each made
\* after those above it, and those on the way to an empty one rmdir would not remove.
THEOREM ResidueInvariant == Spec => []ResidueInv
<1>1. Init => ResidueInv
  <2> SUFFICES ASSUME Init PROVE ResidueInv
    OBVIOUS
  <2>1. /\ fs \in Trees /\ initial = fs /\ pc = "validate" /\ i = 1 /\ depth = 0
        /\ making = <<>> /\ created_directories = <<>> /\ error = "none"
        /\ \A k \in Edits : temp[k] = "none"
    BY DEF Init
  <2>2. Tidy
    BY <2>1 DEF Tidy, Late, Init
  <2>3. Created = <<>> /\ DOMAIN <<>> = {}
    BY <2>1 DEF Created
  <2>4. Nested(Created)
    BY <2>3 DEF Nested
  <2>5. DirsAre(fs, Created)
    BY <2>1, <2>3 DEF DirsAre
  <2>6. Grown
    BY <2>1, <2>4, <2>5 DEF Grown
  <2> QED
    BY <2>1, <2>2, <2>6 DEF ResidueInv
<1>2. ApplyInv /\ ResidueInv /\ [Next]_vars => ResidueInv'
  <2> SUFFICES ASSUME ApplyInv, ResidueInv, [Next]_vars PROVE ResidueInv'
    OBVIOUS
  <2>1. initial' = initial
    BY DEF Next, vars, Refuse, Accept, EnterParent, ParentFails, OpenTemp, WriteTemp, WriteFails,
           Recheck, RecheckFails, Replace, ReplaceFails, Return, Restore, EndRollback, UnlinkTemp,
           RemoveDirectory, Escape, Interrupt, Kill, Meddle, Raise
  <2>2. Tidy'
    BY TidyStep DEF ApplyInv, ResidueInv
  <2>3. Grown'
    BY GrownStep DEF ResidueInv
  <2> QED
    BY <2>1, <2>2, <2>3 DEF ResidueInv
<1> QED
  BY <1>1, <1>2, ApplyInvariant, PTL DEF Spec

\* After a failed replacement or second validation nothing the call made is left: no
\* temporary file, no change of a target and no directory, nested ones included, but
\* those on the way to an empty directory that rmdir would not remove.
THEOREM NothingLeftBehind == Spec => []NoResidue
<1>1. ApplyInv /\ ResidueInv => NoResidue
  <2> SUFFICES ASSUME ApplyInv, ResidueInv, pc = "escaped", error \in {"recheck", "replace"},
                      failed = {}, ~interrupted, meddled = 0
               PROVE  /\ \A k \in Edits : temp[k] = "none"
                      /\ Targets(fs) = Targets(initial)
                      /\ \A d \in Dir : fs[d] = initial[d] \/ (fs[d] = Directory /\ Stays(d))
    BY DEF NoResidue
  <2>1. Late /\ Settled
    BY DEF Late, Settled
  <2>2. created_directories = <<>> /\ making = <<>> /\ Staged = {}
    BY <2>1 DEF ResidueInv, Tidy
  <2>3. \A k \in Edits : temp[k] = "none"
    <3>1. \A k \in Edits : temp[k] \in {"none", "open", "staged"}
      BY DEF ApplyInv, Typed
    <3>2. \A k \in Edits : temp[k] # "open" /\ temp[k] # "staged"
      BY <2>1, <2>2 DEF ResidueInv, Tidy, Staged
    <3> QED
      BY <3>1, <3>2
  <2>4. Created = <<>> /\ DOMAIN <<>> = {}
    BY <2>2 DEF Created
  <2>5. \A d \in Dir : fs[d] = initial[d] \/ (fs[d] = Directory /\ Stays(d))
    BY <2>1, <2>4 DEF ResidueInv, Grown, DirsAre
  <2>6. Targets(fs) = Targets(initial)
    <3>1. materialized = <<>>
      BY DEF ApplyInv, Phased
    <3> QED
      BY <3>1, NoEditLeft
  <2> QED
    BY <2>3, <2>5, <2>6
<1> QED
  BY <1>1, ApplyInvariant, ResidueInvariant, PTL

===============================================================================

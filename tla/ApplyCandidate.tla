---------------------------- MODULE ApplyCandidate ----------------------------
(***************************************************************************)
(* apply_candidate (src/remedyfabric/skills.py): validate every edit,      *)
(* stage the new contents in temporary files, validate again, rename them  *)
(* into place, and undo on failure.  Every system call that changes the    *)
(* tree is a step that may fail, the reads of a validation may fail, an    *)
(* exception that is no Exception (KeyboardInterrupt) may arrive at any    *)
(* step, and the process may be killed at any step.                        *)
(*                                                                         *)
(* Another process may change the tree MaxMeddle times before the second   *)
(* validation; the threat model excludes changes after it.                 *)
(***************************************************************************)
EXTENDS Workspace, FiniteSets, SequencesExt

CONSTANTS
  Trees,              \* the workspaces a call may start in
  Candidates,         \* the edit sequences it may be given
  MaxMeddle           \* bound: how often another process changes the tree

ASSUME CallAssumption ==
  /\ Trees \subseteq Tree
  /\ Candidates \subseteq Seq(Edit)
  /\ MaxMeddle \in Nat

\* Nothing is below a directory that is not there.
ASSUME TreesAssumption ==
  \A tree \in Trees : \A p \in Path : \A k \in DOMAIN ParentsOf[p] :
    tree[ParentsOf[p][k]] = Absent =>
      tree[p] = Absent /\ \A l \in DOMAIN ParentsOf[p] : k < l => tree[ParentsOf[p][l]] = Absent

VARIABLES
  edits,              \* candidate.edits
  fs,                 \* what is at each path and directory
  initial,            \* history: fs when the call began
  pc,
  i,                  \* the edit a loop is at
  depth,              \* how many of its parents exist
  making,             \* directories made for it, not reported to the caller yet
  created_directories,
  temp,               \* per edit, its temporary file: none, open or staged
  validated,          \* per edit, the original node of its target
  materialized,       \* the indices replaced and not restored, in order
  failed,             \* the indices whose restoration failed
  error,              \* where an Exception was raised
  interrupted,
  meddled,
  unremoved           \* history: empty directories that rmdir failed to remove

vars == <<edits, fs, initial, pc, i, depth, making, created_directories, temp, validated,
          materialized, failed, error, interrupted, meddled, unremoved>>

Edits == DOMAIN edits

Targets(tree) == [p \in Path |-> tree[p]]

Parents == ParentsOf[edits[i].path]

TypeOK ==
  /\ edits \in Candidates
  /\ fs \in Tree
  /\ pc \in {"validate", "stage", "replace", "rollback", "cleanup", "returned", "refused",
             "escaped", "abandoned", "killed"}
  /\ i \in 1..Len(edits) + 1
  /\ i \in Edits => depth \in 0..Len(Parents)
  /\ ToSet(created_directories) \union ToSet(making) \subseteq Dir
  /\ temp \in [Edits -> {"none", "open", "staged"}]
  /\ ToSet(materialized) \union failed \subseteq Edits
  /\ error \in {"none", "stage", "recheck", "replace"}
  /\ unremoved \subseteq Dir

Init ==
  /\ edits \in Candidates
  /\ fs \in Trees
  /\ initial = fs
  /\ pc = "validate"
  /\ i = 1
  /\ depth = 0
  /\ making = <<>>
  /\ created_directories = <<>>
  /\ temp = [k \in Edits |-> "none"]
  /\ validated = [k \in Edits |-> Absent]
  /\ materialized = <<>>
  /\ failed = {}
  /\ error = "none"
  /\ interrupted = FALSE
  /\ meddled = 0
  /\ unremoved = {}

-------------------------------------------------------------------------------
(* The call                                                                *)

\* Some edit is stale or misplaced, or reading the workspace fails.
Refuse ==
  /\ pc = "validate"
  /\ pc' = "refused"
  /\ UNCHANGED <<edits, fs, initial, i, depth, making, created_directories, temp, validated,
                 materialized, failed, error, interrupted, meddled, unremoved>>

Accept ==
  /\ pc = "validate"
  /\ Valid(fs, edits)
  /\ pc' = "stage"
  /\ validated' = [k \in Edits |-> fs[edits[k].path]]
  /\ UNCHANGED <<edits, fs, initial, i, depth, making, created_directories, temp,
                 materialized, failed, error, interrupted, meddled, unremoved>>

\* Mutant: the handler does not undo the replacements made.
RaiseWithoutRollback(where) ==
  /\ pc' = "cleanup"
  /\ error' = where
  /\ UNCHANGED <<edits, initial, i, depth, validated, materialized, failed, interrupted, meddled, unremoved>>

\* An Exception leaves the try block for the handler.
Raise(where) ==
  /\ pc' = "rollback"
  /\ error' = where
  /\ UNCHANGED <<edits, initial, i, depth, validated, materialized, failed, interrupted, meddled, unremoved>>

\* One round of _create_missing_parents.
EnterParent ==
  /\ pc = "stage" /\ i \in Edits /\ temp[i] = "none" /\ depth < Len(Parents)
  /\ LET d == Parents[depth + 1] IN
       \/ /\ fs[d] = Directory
          /\ UNCHANGED <<fs, making>>
       \/ /\ fs[d] = Absent
          /\ fs' = [fs EXCEPT ![d] = Directory]
          /\ making' = Append(making, d)
  /\ depth' = depth + 1
  /\ UNCHANGED <<edits, initial, pc, i, created_directories, temp, validated, materialized,
                 failed, error, interrupted, meddled, unremoved>>

\* A link or a file is in the way, or mkdir fails.  The helper had not returned:
\* what it made so far is never reported.
ParentFails ==
  /\ pc = "stage" /\ i \in Edits /\ temp[i] = "none" /\ depth < Len(Parents)
  /\ fs[Parents[depth + 1]] # Directory
  /\ Raise("stage")
  /\ UNCHANGED <<fs, making, created_directories, temp>>

OpenTemp ==
  /\ pc = "stage" /\ i \in Edits /\ temp[i] = "none" /\ depth = Len(Parents)
  /\ created_directories' = created_directories \o making
  /\ making' = <<>>
  /\ \/ /\ temp' = [temp EXCEPT ![i] = "open"]
        /\ UNCHANGED <<edits, fs, initial, pc, i, depth, validated, materialized, failed,
                       error, interrupted, meddled, unremoved>>
     \/ /\ Raise("stage")
        /\ UNCHANGED <<fs, temp>>

\* Mutant: the next edit starts at the depth the last one reached.
WriteTempKeepingDepth ==
  /\ pc = "stage" /\ i \in Edits /\ temp[i] = "open"
  /\ temp' = [temp EXCEPT ![i] = "staged"]
  /\ i' = i + 1
  /\ UNCHANGED <<edits, fs, initial, pc, depth, making, created_directories, validated,
                 materialized, failed, error, interrupted, meddled, unremoved>>

\* Write, flush, fsync and chmod; only then does the caller know of the file.
WriteTemp ==
  /\ pc = "stage" /\ i \in Edits /\ temp[i] = "open"
  /\ temp' = [temp EXCEPT ![i] = "staged"]
  /\ i' = i + 1
  /\ depth' = 0
  /\ UNCHANGED <<edits, fs, initial, pc, making, created_directories, validated, materialized,
                 failed, error, interrupted, meddled, unremoved>>

WriteFails ==
  /\ pc = "stage" /\ i \in Edits /\ temp[i] = "open"
  /\ Raise("stage")
  /\ UNCHANGED <<fs, making, created_directories, temp>>

\* Mutant: no second validation.
TakenOnTrust == TRUE

StillValid == Valid(fs, edits)

Recheck ==
  /\ pc = "stage" /\ i = Len(edits) + 1
  /\ StillValid
  /\ pc' = "replace"
  /\ i' = 1
  /\ UNCHANGED <<edits, fs, initial, depth, making, created_directories, temp, validated,
                 materialized, failed, error, interrupted, meddled, unremoved>>

RecheckFails ==
  /\ pc = "stage" /\ i = Len(edits) + 1
  /\ Raise("recheck")
  /\ UNCHANGED <<fs, making, created_directories, temp>>

\* Mutant: the new file has the default mode.
DefaultModeFile == File(edits[i].new, DefaultMode)

NewFile == File(edits[i].new, ModeOf(validated[i]))

\* os.replace: the target has the new content and the original mode at once.
Replace ==
  /\ pc = "replace" /\ i \in Edits
  /\ fs' = [fs EXCEPT ![edits[i].path] = NewFile]
  /\ temp' = [temp EXCEPT ![i] = "none"]
  /\ materialized' = Append(materialized, i)
  /\ i' = i + 1
  /\ UNCHANGED <<edits, initial, pc, depth, making, created_directories, validated, failed,
                 error, interrupted, meddled, unremoved>>

ReplaceFails ==
  /\ pc = "replace" /\ i \in Edits
  /\ Raise("replace")
  /\ UNCHANGED <<fs, making, created_directories, temp>>

\* Every temporary file was renamed: the finally block finds nothing to do.
Return ==
  /\ pc = "replace" /\ i = Len(edits) + 1
  /\ pc' = "returned"
  /\ UNCHANGED <<edits, fs, initial, i, depth, making, created_directories, temp, validated,
                 materialized, failed, error, interrupted, meddled, unremoved>>

-------------------------------------------------------------------------------
(* The handler and the finally block                                       *)

\* Mutant: the earliest replacement is undone first.
Earliest == Head(materialized)

Latest == Last(materialized)

\* Undo the latest replacement: unlink a new file, or write the original back.
Restore ==
  /\ pc = "rollback" /\ materialized # <<>>
  /\ \/ /\ fs' = [fs EXCEPT ![edits[Latest].path] = validated[Latest]]
        /\ UNCHANGED failed
     \/ /\ failed' = failed \union {Latest}
        /\ UNCHANGED fs
  /\ materialized' = Front(materialized)
  /\ UNCHANGED <<edits, initial, pc, i, depth, making, created_directories, temp, validated,
                 error, interrupted, meddled, unremoved>>

EndRollback ==
  /\ pc = "rollback" /\ materialized = <<>>
  /\ pc' = "cleanup"
  /\ UNCHANGED <<edits, fs, initial, i, depth, making, created_directories, temp, validated,
                 materialized, failed, error, interrupted, meddled, unremoved>>

Staged == {k \in Edits : temp[k] = "staged"}

\* unlink may raise, and then nothing else is cleaned up.
UnlinkTemp ==
  /\ pc = "cleanup" /\ Staged # {}
  /\ \/ /\ \E k \in Staged :
             /\ \A l \in Staged : k <= l
             /\ temp' = [temp EXCEPT ![k] = "none"]
        /\ UNCHANGED pc
     \/ /\ pc' = "abandoned"
        /\ UNCHANGED temp
  /\ UNCHANGED <<edits, fs, initial, i, depth, making, created_directories, validated,
                 materialized, failed, error, interrupted, meddled, unremoved>>

\* The directory d is on the way to the directory e.
Above(d, e) ==
  \E p \in Path : \E k, l \in DOMAIN ParentsOf[p] :
    k < l /\ ParentsOf[p][k] = d /\ ParentsOf[p][l] = e

\* Nothing is in the directory, temporary files included.
Vacant(d) ==
  /\ \A p \in Path : d \in ToSet(ParentsOf[p]) => fs[p] = Absent
  /\ \A e \in Dir : Above(d, e) => fs[e] = Absent
  /\ \A k \in Edits : d \in ToSet(ParentsOf[edits[k].path]) => temp[k] = "none"

\* Mutant: the outermost directory is tried first.
Outermost == Head(created_directories)

Innermost == Last(created_directories)

\* rmdir of the directory made last.  It fails if something is in the directory, and it
\* may fail if nothing is: either OSError is ignored and nobody is told.
RemoveDirectory ==
  /\ pc = "cleanup" /\ Staged = {} /\ created_directories # <<>>
  /\ \/ /\ Vacant(Innermost)
        /\ fs' = [fs EXCEPT ![Innermost] = Absent]
        /\ UNCHANGED unremoved
     \/ /\ unremoved' = unremoved \union {d \in {Innermost} : Vacant(d)}
        /\ UNCHANGED fs
  /\ created_directories' = Front(created_directories)
  /\ UNCHANGED <<edits, initial, pc, i, depth, making, temp, validated, materialized, failed,
                 error, interrupted, meddled>>

Escape ==
  /\ pc = "cleanup" /\ Staged = {} /\ created_directories = <<>>
  /\ pc' = "escaped"
  /\ UNCHANGED <<edits, fs, initial, i, depth, making, created_directories, temp, validated,
                 materialized, failed, error, interrupted, meddled, unremoved>>

-------------------------------------------------------------------------------
(* The surroundings                                                        *)

Running == pc \in {"stage", "replace", "rollback", "cleanup"}

\* KeyboardInterrupt is no Exception: the handler is skipped or left, the finally
\* block runs, or is left.
Interrupt ==
  /\ Running
  /\ pc' = IF pc = "cleanup" THEN "abandoned" ELSE "cleanup"
  /\ interrupted' = TRUE
  /\ UNCHANGED <<edits, fs, initial, i, depth, making, created_directories, temp, validated,
                 materialized, failed, error, meddled, unremoved>>

Kill ==
  /\ Running
  /\ pc' = "killed"
  /\ UNCHANGED <<edits, fs, initial, i, depth, making, created_directories, temp, validated,
                 materialized, failed, error, interrupted, meddled, unremoved>>

Meddle(place, node) ==
  /\ pc = "stage"
  /\ meddled < MaxMeddle
  /\ place \in Dir => fs[place] = Absent
  /\ \A p \in Path : \A k, l \in DOMAIN ParentsOf[p] :
       /\ place = p => fs[ParentsOf[p][k]] = Directory
       /\ place = ParentsOf[p][l] /\ k < l => fs[ParentsOf[p][k]] = Directory
  /\ fs[place] # node
  /\ fs' = [fs EXCEPT ![place] = node]
  /\ meddled' = meddled + 1
  /\ UNCHANGED <<edits, initial, pc, i, depth, making, created_directories, temp, validated,
                 materialized, failed, error, interrupted, unremoved>>

Next ==
  \/ Refuse \/ Accept
  \/ EnterParent \/ ParentFails \/ OpenTemp \/ WriteTemp \/ WriteFails
  \/ Recheck \/ RecheckFails \/ Replace \/ ReplaceFails \/ Return
  \/ Restore \/ EndRollback \/ UnlinkTemp \/ RemoveDirectory \/ Escape
  \/ Interrupt \/ Kill
  \/ \E place \in Path \union Dir, node \in Node \ {Directory} : Meddle(place, node)

Spec == Init /\ [][Next]_vars

-------------------------------------------------------------------------------
(* Properties                                                              *)

\* The docstring's promise: an error that escapes leaves every target with the bytes
\* and the mode it had, new ones gone, unless the error says that restoring failed
\* or no Exception was raised at all.
AllOrNothing ==
  meddled = 0 =>
  /\ pc = "returned" => Targets(fs) = AfterEdits(Targets(initial), edits, Edits)
  /\ pc \in {"escaped", "abandoned"} /\ failed = {} /\ ~interrupted => Targets(fs) = Targets(initial)

\* A weaker form of the same promise, for interrupts too: no error escapes with some of
\* the targets replaced and others not, unless it says that restoring failed.
RestoredBeforeEscape ==
  pc = "escaped" /\ failed = {} =>
    Targets(fs) \in {Targets(initial), AfterEdits(Targets(initial), edits, Edits)}

\* Wherever the call is stopped, a prefix of the edits has been made, each of them
\* whole: no target is ever partly written, and rollback undoes the latest first.
PrefixOfEdits ==
  meddled = 0 /\ failed = {} =>
    \E k \in 0..Len(edits) : Targets(fs) = AfterEdits(Targets(initial), edits, 1..k)

\* The directory could not be removed, or one below it could not.
Stays(d) == \E e \in unremoved : d = e \/ Above(d, e)

\* After a failed replacement or second validation nothing the call made is left
\* behind: no temporary file and no directory, nested ones included, but those on the
\* way to an empty directory that rmdir would not remove.
NoResidue ==
  pc = "escaped" /\ error \in {"recheck", "replace"} /\ failed = {} /\ ~interrupted
    /\ meddled = 0 =>
    /\ \A k \in Edits : temp[k] = "none"
    /\ Targets(fs) = Targets(initial)
    /\ \A d \in Dir : fs[d] = initial[d] \/ (fs[d] = Directory /\ Stays(d))

\* A replacement never destroys content its edit does not state, not even content
\* another process wrote while the edits were being staged, and never a link.
NothingStaleOverwritten ==
  [][\A k \in Edits :
       LET p == edits[k].path IN
         pc = "replace" /\ fs'[p] # fs[p]
           => fs[p].kind \in {"absent", "file"} /\ Text(fs[p]) = edits[k].old]_vars

\* What the caller is told of the outcome.
Result ==
  IF meddled > 0 THEN "void"
  ELSE CASE pc = "returned" -> "applied"
         [] pc = "refused" -> "refused"
         [] pc \in {"escaped", "abandoned", "killed"} ->
              (IF failed = {} /\ ~interrupted /\ pc # "killed" THEN "refused" ELSE "torn")
         [] OTHER -> "pending"

\* The caller looks at the workspace when the call is over; that another process has
\* changed it makes the promise void.
Promise == INSTANCE AtomicApply WITH
  targets <- IF Result \in {"pending", "void"} THEN Targets(initial) ELSE Targets(fs),
  result <- Result

\* The steps of one call add up to the single step it promises.
ImplementsAtomicApply == Promise!Spec
===============================================================================

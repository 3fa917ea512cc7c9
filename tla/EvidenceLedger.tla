----------------------------- MODULE EvidenceLedger -----------------------------
(***************************************************************************)
(* EvidenceLedger and verify_ledger (src/remedyfabric/ledger.py): a        *)
(* journal of events, one JSON record per line, each holding the hash of   *)
(* the record before it.  An append may fail with any part of its line     *)
(* written and the run may go on; somebody without the ledger may remove   *)
(* lines of the journal, repeat or forge them at any time, but neither     *)
(* renumbers nor reorders what is there.                                   *)
(*                                                                         *)
(* A hash is the body it is the hash of: bodies with equal hashes are      *)
(* equal.  Actor, payload and timestamp are part of the event.             *)
(***************************************************************************)
EXTENDS Naturals, Sequences, SequencesExt

CONSTANTS
  Event,
  Separated,          \* the events whose text has a character like U+2028 or U+0085
  MaxAppends, MaxEdits

ASSUME LedgerAssumption ==
  /\ Separated \subseteq Event
  /\ MaxAppends \in Nat /\ MaxEdits \in Nat

\* Sixty-four zeros: the hash of nothing.
GENESIS == [zeros |-> 64]

VARIABLES
  sequence, previous_hash,      \* the ledger
  journal, ended,               \* the file's lines; the last one has its newline
  acknowledged,                 \* history: the bodies of the appends that returned
  failures, edits               \* history: how many appends failed, edits were made

ledger == <<sequence, previous_hash, journal, ended, acknowledged, failures, edits>>

\* Mutant: the hash does not cover the link to the record before.
HashOfContent(body) == [body EXCEPT !.previous_hash = GENESIS]

Hash(body) == body

LastHash == IF acknowledged = <<>> THEN GENESIS ELSE Hash(Last(acknowledged))

Init ==
  /\ sequence = 0 /\ previous_hash = GENESIS
  /\ journal = <<>> /\ ended = TRUE
  /\ acknowledged = <<>>
  /\ failures = 0 /\ edits = 0

-------------------------------------------------------------------------------

Body(event) == [sequence |-> sequence + 1, event |-> event, previous_hash |-> previous_hash]

Line(body) == [body |-> body, receipt_hash |-> Hash(body)]

\* A line that is no JSON document.
Torn == [no_document |-> TRUE]

\* The file in append mode: a line that follows one without a newline is lost in it.
Added(line) ==
  IF ended THEN Append(journal, line) ELSE [journal EXCEPT ![Len(journal)] = Torn]

\* append returns.
Record(event) ==
  LET body == Body(event)
  IN /\ sequence' = sequence + 1
     /\ journal' = Added(Line(body)) /\ ended' = TRUE
     /\ previous_hash' = Hash(body)
     /\ acknowledged' = Append(acknowledged, body)
     /\ UNCHANGED <<failures, edits>>

\* append raises, with nothing, a part, all but the newline or all of the line written.
RecordFails(event) ==
  /\ sequence' = sequence + 1
  /\ failures' = failures + 1
  /\ \/ UNCHANGED <<journal, ended>>
     \/ journal' = Added(Torn) /\ ended' = FALSE
     \/ journal' = Added(Line(Body(event))) /\ ended' \in BOOLEAN
  /\ UNCHANGED <<previous_hash, acknowledged, edits>>

-------------------------------------------------------------------------------

\* splitlines breaks a record in two where its text has a separator.
Readable(line) == line # Torn /\ line.body.event \notin Separated

\* Mutant: the links between records are not looked at.
Unchained(i) == TRUE

Chained(i) ==
  journal[i].body.previous_hash = IF i = 1 THEN GENESIS ELSE journal[i - 1].receipt_hash

HashMatches(line) == Hash(line.body) = line.receipt_hash

\* verify_ledger returns (True, "ok").
Verified ==
  /\ journal # <<>>
  /\ \A i \in DOMAIN journal :
       /\ Readable(journal[i])
       /\ journal[i].body.sequence = i
       /\ Chained(i)
       /\ HashMatches(journal[i])

-------------------------------------------------------------------------------
(* Somebody edits the journal: removes a line, repeats one, or forges a    *)
(* record from what is there, with the old hash or the one it ought to     *)
(* have.                                                                   *)

Whole == {i \in DOMAIN journal : journal[i] # Torn}

KnownHash == {GENESIS} \union {journal[i].receipt_hash : i \in Whole}

Forged(body, event, hash) == [body EXCEPT !.event = event, !.previous_hash = hash]

Forgery(i) ==
  LET bodies == {Forged(journal[i].body, e, h) : e \in Event, h \in KnownHash}
  IN {[body |-> b, receipt_hash |-> h] : b \in bodies, h \in {journal[i].receipt_hash}}
       \union {Line(b) : b \in bodies}

Edited ==
  {RemoveAt(journal, i) : i \in DOMAIN journal}
    \union {InsertAt(journal, i, journal[i]) : i \in DOMAIN journal}
    \union UNION {{[journal EXCEPT ![i] = f] : f \in Forgery(i)} : i \in Whole}

Edit ==
  /\ edits < MaxEdits
  /\ journal' \in Edited \ {journal}
  /\ ended' = TRUE
  /\ edits' = edits + 1
  /\ UNCHANGED <<sequence, previous_hash, acknowledged, failures>>

-------------------------------------------------------------------------------
(* A ledger on its own, used until MaxAppends calls were made.             *)

Next ==
  \/ sequence < MaxAppends /\ \E event \in Event : Record(event) \/ RecordFails(event)
  \/ Edit

Spec == Init /\ [][Next]_ledger

-------------------------------------------------------------------------------
(* Properties                                                              *)

Bodies == [i \in DOMAIN journal |-> journal[i].body]

\* What verification means for an untouched file, whatever appends failed on the way
\* and however: all events the run knows to be recorded are there, in order, and nothing
\* else but perhaps one last event whose append was reported as failed.
VerifiedIsComplete ==
  Verified /\ edits = 0 =>
    /\ IsPrefix(acknowledged, Bodies)
    /\ Len(journal) <= Len(acknowledged) + 1

\* "Hash chains reveal tampering" (docs/SECURITY.md): whoever knows one receipt hash that
\* append returned knows the whole history up to it, whichever lines of the file were
\* removed, repeated or forged.
HashBindsHistory ==
  Verified =>
    \A n \in DOMAIN acknowledged :
      Last(journal).receipt_hash = Hash(acknowledged[n]) =>
        Bodies = SubSeq(acknowledged, 1, n)

\* tests/test_ledger.py, docs/BENCHMARK.md: a journal whose appends all returned verifies.
UntouchedVerifies ==
  acknowledged # <<>> /\ failures = 0 /\ edits = 0 => Verified
===============================================================================

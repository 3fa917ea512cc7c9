------------------------- MODULE RecoveryFabric_proofs -------------------------
(***************************************************************************)
(* First, what a journal says once it verifies.  One that nobody edits     *)
(* holds the acknowledged records and at most one more, or has a line that *)
(* no append can repair; one with lines removed, repeated or forged still  *)
(* repeats the acknowledged records wherever it ends in one of their       *)
(* hashes.                                                                 *)
(*                                                                         *)
(* Then, what RecoveryFabric returns and what its journal says is so,      *)
(* whatever fails and wherever the run is killed.  The argument has three  *)
(* parts: which content the workspace has at each point of a run; that the *)
(* last event of a journal that verifies is the one appended last; and     *)
(* that a verdict is appended only where the workspace no longer changes.  *)
(***************************************************************************)
EXTENDS RecoveryFabric, TLAPS

-------------------------------------------------------------------------------
(* The ledger.                                                             *)

IsSeq(s) == \E S : s \in Seq(S)

\* Line i passes what verify_ledger looks at apart from its own hash.
Sane(i) == journal[i] # Torn /\ journal[i].body.sequence = i /\ Chained(i)

Broken == \E i \in DOMAIN journal : ~Sane(i)

\* The journal holds the acknowledged records, and perhaps the line of one failed append.
Recorded ==
  \A i \in DOMAIN acknowledged :
    journal[i] = Line(acknowledged[i]) /\ acknowledged[i].sequence = i

Exact == Len(journal) = Len(acknowledged) /\ ended

Trailing ==
  /\ Len(journal) = Len(acknowledged) + 1
  /\ failures > 0
  /\ \E e \in Event : journal[Len(journal)] = Line([sequence |-> Len(journal), event |-> e,
                                                   previous_hash |-> previous_hash])

Aligned == Recorded /\ (Exact \/ Trailing)

\* The acknowledged records are a chain, whoever edits the journal.
Linked ==
  \A i \in DOMAIN acknowledged :
    /\ acknowledged[i].event \in Event
    /\ acknowledged[i].previous_hash = IF i = 1 THEN GENESIS ELSE acknowledged[i - 1]

Counted ==
  /\ IsSeq(acknowledged) /\ Linked
  /\ failures \in Nat /\ edits \in Nat /\ ended \in BOOLEAN
  /\ sequence = Len(acknowledged) + failures
  /\ previous_hash = LastHash

LedgerInv ==
  /\ Counted
  /\ edits = 0 => IsSeq(journal) /\ (Broken \/ Aligned)
  /\ edits = 0 /\ failures = 0 => Aligned

-------------------------------------------------------------------------------

LEMMA AppendSeq ==
  ASSUME NEW s, IsSeq(s), NEW e
  PROVE  /\ IsSeq(Append(s, e)) /\ Len(Append(s, e)) = Len(s) + 1 /\ Len(s) \in Nat
         /\ DOMAIN s = 1 .. Len(s) /\ DOMAIN Append(s, e) = 1 .. Len(s) + 1
         /\ \A i \in DOMAIN s : Append(s, e)[i] = s[i]
         /\ Append(s, e)[Len(s) + 1] = e
<1>1. PICK S : s \in Seq(S)
  BY DEF IsSeq
<1>2. s \in Seq(S \union {e}) /\ e \in S \union {e}
  BY <1>1
<1>3. Append(s, e) \in Seq(S \union {e})
  BY <1>2
<1> QED
  BY <1>2, <1>3 DEF IsSeq

LEMMA TearSeq ==
  ASSUME NEW s, IsSeq(s), s # <<>>, NEW e, NEW t, t = [s EXCEPT ![Len(s)] = e]
  PROVE  IsSeq(t) /\ Len(t) = Len(s) /\ Len(s) \in DOMAIN s /\ Len(s) \in DOMAIN t /\ t[Len(s)] = e
<1>1. PICK S : s \in Seq(S)
  BY DEF IsSeq
<1>2. s \in Seq(S \union {e}) /\ e \in S \union {e}
  BY <1>1
<1>3. t \in Seq(S \union {e}) /\ Len(t) = Len(s)
  BY <1>2
<1>4. Len(s) \in DOMAIN s /\ DOMAIN t = DOMAIN s
  BY <1>1
<1> QED
  BY <1>3, <1>4 DEF IsSeq

LEMMA RewriteSeq ==
  ASSUME NEW s, IsSeq(s), NEW i \in DOMAIN s, NEW e, NEW t, t = [s EXCEPT ![i] = e]
  PROVE  IsSeq(t)
<1>1. PICK S : s \in Seq(S)
  BY DEF IsSeq
<1>2. s \in Seq(S \union {e}) /\ e \in S \union {e} /\ i \in 1 .. Len(s)
  BY <1>1
<1>3. t \in Seq(S \union {e}) /\ Len(t) = Len(s)
  BY <1>2
<1> QED
  BY <1>3 DEF IsSeq

\* Genesis is the hash of no record.
LEMMA NoHashIsGenesis ==
  ASSUME NEW s, NEW e, NEW h
  PROVE  [sequence |-> s, event |-> e, previous_hash |-> h] # GENESIS
  BY DEF GENESIS

\* A line written into the one before it, or after a line that cannot be read, repairs nothing.
LEMMA BrokenStays ==
  ASSUME IsSeq(journal), ended \in BOOLEAN, NEW line, journal' = Added(line),
         Broken \/ (~ended /\ journal # <<>>) \/ (ended /\ line = Torn)
  PROVE  IsSeq(journal') /\ Broken'
<1>1. CASE ended
  <2>1. journal' = Append(journal, line)
    BY <1>1 DEF Added
  <2>2. /\ IsSeq(journal') /\ Len(journal) \in Nat /\ DOMAIN journal = 1 .. Len(journal)
        /\ DOMAIN journal' = 1 .. Len(journal) + 1
        /\ \A i \in DOMAIN journal : journal'[i] = journal[i]
        /\ journal'[Len(journal) + 1] = line
    BY <2>1, AppendSeq
  <2>3. CASE line = Torn
    BY <2>2, <2>3 DEF Broken, Sane
  <2>4. CASE Broken
    <3>1. PICK i \in DOMAIN journal : ~Sane(i)
      BY <2>4 DEF Broken
    <3>2. i \in Nat /\ i >= 1 /\ (i # 1 => i - 1 \in DOMAIN journal) /\ i \in DOMAIN journal'
      BY <2>2
    <3>3. ~Sane(i)'
      BY <2>2, <3>1, <3>2 DEF Sane, Chained
    <3> QED
      BY <2>2, <3>2, <3>3 DEF Broken
  <2> QED
    BY <1>1, <2>3, <2>4
<1>2. CASE ~ended
  <2>1. journal # <<>>
    <3>1. CASE Broken
      BY <3>1 DEF Broken
    <3> QED
      BY <1>2, <3>1
  <2>2. journal' = [journal EXCEPT ![Len(journal)] = Torn]
    BY <1>2 DEF Added
  <2>3. IsSeq(journal') /\ Len(journal) \in DOMAIN journal' /\ journal'[Len(journal)] = Torn
    BY <2>1, <2>2, TearSeq
  <2> QED
    BY <2>3 DEF Broken, Sane
<1> QED
  BY <1>1, <1>2

\* The line of any append but the next of a ledger that never failed breaks the journal.
LEMMA AppendLine ==
  ASSUME LedgerInv, edits = 0, NEW e \in Event, journal' = Added(Line(Body(e)))
  PROVE  /\ IsSeq(journal')
         /\ \/ Broken'
            \/ /\ failures = 0 /\ Aligned /\ Len(journal) = Len(acknowledged)
               /\ journal' = Append(journal, Line(Body(e)))
<1>1. IsSeq(journal) /\ IsSeq(acknowledged) /\ ended \in BOOLEAN /\ failures \in Nat
      /\ sequence = Len(acknowledged) + failures /\ previous_hash = LastHash
  BY DEF LedgerInv, Counted
<1>0. PICK L : L = Len(journal)
  OBVIOUS
<1>2. /\ L \in Nat /\ L = Len(journal) /\ DOMAIN journal = 1 .. L
      /\ Len(acknowledged) \in Nat /\ DOMAIN acknowledged = 1 .. Len(acknowledged)
  BY <1>0, <1>1, AppendSeq
<1>3. CASE Broken
  BY <1>1, <1>3, BrokenStays
<1>4. CASE ~Broken /\ ~ended
  <2>1. Trailing
    BY <1>4 DEF LedgerInv, Aligned, Exact
  <2>2. L # 0
    BY <1>2, <2>1 DEF Trailing
  <2>3. journal # <<>>
    BY <1>2, <2>2
  <2> QED
    BY <1>1, <1>4, <2>3, BrokenStays
<1>5. CASE ~Broken /\ ended
  <2>1. journal' = Append(journal, Line(Body(e))) /\ Aligned
    BY <1>5 DEF Added, LedgerInv
  <2>2. /\ IsSeq(journal') /\ L + 1 \in DOMAIN journal'
        /\ journal'[L + 1] = Line(Body(e)) /\ \A i \in DOMAIN journal : journal'[i] = journal[i]
    BY <1>1, <1>2, <2>1, AppendSeq
  <2>3. CASE L = Len(acknowledged) /\ failures = 0
    BY <1>2, <2>1, <2>2, <2>3
  <2>4. CASE L = Len(acknowledged) /\ failures # 0
    <3>1. journal'[L + 1].body.sequence # L + 1
      BY <1>1, <1>2, <2>2, <2>4 DEF Line, Body
    <3> QED
      BY <2>2, <3>1 DEF Broken, Sane
  <2>5. CASE L # Len(acknowledged)
    <3>1. Trailing
      BY <1>2, <2>1, <2>5 DEF Aligned, Exact
    <3>2. L = Len(acknowledged) + 1 /\ L \in DOMAIN journal
      BY <1>2, <3>1 DEF Trailing
    <3>3. PICK f \in Event :
            journal[L] = Line([sequence |-> L, event |-> f, previous_hash |-> previous_hash])
      BY <1>2, <3>1 DEF Trailing
    <3> DEFINE b == [sequence |-> L, event |-> f, previous_hash |-> previous_hash]
    <3>4. previous_hash # b
      <4>1. CASE acknowledged = <<>>
        <5>1. previous_hash = GENESIS
          BY <1>1, <4>1 DEF LastHash
        <5> QED
          BY <5>1, NoHashIsGenesis
      <4>2. CASE acknowledged # <<>>
        <5>1. Len(acknowledged) \in DOMAIN acknowledged
          BY <1>1, <4>2, TearSeq
        <5>2. previous_hash = acknowledged[Len(acknowledged)]
          BY <1>1, <4>2 DEF LastHash, Last, Hash
        <5>3. previous_hash.sequence = Len(acknowledged)
          BY <2>1, <5>1, <5>2 DEF Aligned, Recorded
        <5> QED
          BY <1>2, <3>2, <5>3
      <4> QED
        BY <4>1, <4>2
    <3>5. journal'[L].receipt_hash = b
      BY <2>2, <3>2, <3>3 DEF Line, Hash
    <3>6. journal'[L + 1].body.previous_hash = previous_hash
      BY <2>2 DEF Line, Body
    <3> HIDE DEF b
    <3>7. PICK n : n = L + 1
      OBVIOUS
    <3>8. n \in DOMAIN journal' /\ ~Sane(n)'
      BY <1>2, <2>2, <3>2, <3>4, <3>5, <3>6, <3>7 DEF Sane, Chained
    <3> QED
      BY <2>2, <3>8 DEF Broken
  <2> QED
    BY <2>3, <2>4, <2>5
<1> QED
  BY <1>3, <1>4, <1>5

LEMMA InitLedger == Init => LedgerInv
<1> SUFFICES ASSUME Init PROVE LedgerInv
  OBVIOUS
<1>1. IsSeq(<<>>) /\ Len(<<>>) = 0 /\ DOMAIN <<>> = {}
  BY DEF IsSeq
<1> QED
  BY <1>1 DEF Init, LedgerInv, Counted, Linked, Aligned, Recorded, Exact, LastHash

\* An append that returns: the records and the journal grow together, or the journal was
\* broken before.
LEMMA RecordKeeps == ASSUME LedgerInv, NEW e \in Event, Record(e) PROVE LedgerInv'
<1>1. PICK b : b = Body(e)
  OBVIOUS
<1>2. /\ IsSeq(acknowledged) /\ failures \in Nat /\ edits \in Nat
      /\ sequence = Len(acknowledged) + failures
  BY DEF LedgerInv, Counted
<1>3. /\ acknowledged' = Append(acknowledged, b) /\ sequence' = sequence + 1
      /\ previous_hash' = Hash(b) /\ journal' = Added(Line(b)) /\ ended' = TRUE
      /\ failures' = failures /\ edits' = edits
  BY <1>1 DEF Record
<1>4. /\ IsSeq(acknowledged') /\ Len(acknowledged') = Len(acknowledged) + 1
      /\ Len(acknowledged) \in Nat
      /\ DOMAIN acknowledged = 1 .. Len(acknowledged)
      /\ DOMAIN acknowledged' = 1 .. Len(acknowledged) + 1
      /\ \A i \in DOMAIN acknowledged : acknowledged'[i] = acknowledged[i]
      /\ acknowledged'[Len(acknowledged) + 1] = b
  BY <1>2, <1>3, AppendSeq
<1>5. previous_hash' = LastHash'
  <2>1. acknowledged' # <<>>
    BY <1>4
  <2> QED
    BY <1>3, <1>4, <2>1 DEF LastHash, Last
<1>6. Counted'
  <2>1. b.event \in Event /\ b.previous_hash = LastHash
    BY <1>1 DEF Body, LedgerInv, Counted
  <2>2. b.previous_hash = IF acknowledged = <<>> THEN GENESIS ELSE acknowledged[Len(acknowledged)]
    BY <2>1 DEF LastHash, Last, Hash
  <2>3. acknowledged = <<>> <=> Len(acknowledged) = 0
    <3>1. PICK S : acknowledged \in Seq(S)
      BY <1>2 DEF IsSeq
    <3> QED
      BY <3>1
  <2>4. ASSUME NEW i \in DOMAIN acknowledged'
        PROVE  /\ acknowledged'[i].event \in Event
               /\ acknowledged'[i].previous_hash = IF i = 1 THEN GENESIS ELSE acknowledged'[i - 1]
    <3>1. CASE i \in DOMAIN acknowledged
      <4>1. i # 1 => i - 1 \in DOMAIN acknowledged
        BY <1>4, <3>1
      <4> QED
        BY <1>4, <3>1, <4>1 DEF LedgerInv, Counted, Linked
    <3>2. CASE i = Len(acknowledged) + 1
      <4>1. i # 1 => i - 1 \in DOMAIN acknowledged /\ i - 1 = Len(acknowledged)
        BY <1>4, <3>2
      <4>2. i = 1 <=> Len(acknowledged) = 0
        BY <1>4, <3>2
      <4> QED
        BY <1>4, <2>1, <2>2, <2>3, <3>2, <4>1, <4>2
    <3> QED
      BY <1>4, <2>4, <3>1, <3>2
  <2>5. Linked'
    BY <2>4 DEF Linked
  <2>6. sequence' = Len(acknowledged') + failures'
    BY <1>2, <1>3, <1>4
  <2> QED
    BY <1>2, <1>3, <1>4, <1>5, <2>5, <2>6 DEF Counted
<1>7. ASSUME edits = 0
      PROVE  IsSeq(journal') /\ (Broken' \/ (failures = 0 /\ Aligned'))
  <2>1. CASE Broken'
    BY <1>1, <1>3, <1>7, <2>1, AppendLine
  <2>2. CASE /\ failures = 0 /\ Aligned /\ Len(journal) = Len(acknowledged)
             /\ journal' = Append(journal, Line(b))
    <3>1. IsSeq(journal)
      BY <1>7 DEF LedgerInv
    <3>2. /\ IsSeq(journal') /\ Len(journal') = Len(journal) + 1
          /\ DOMAIN journal = 1 .. Len(journal)
          /\ \A i \in DOMAIN journal : journal'[i] = journal[i]
          /\ journal'[Len(journal) + 1] = Line(b)
      BY <2>2, <3>1, AppendSeq
    <3>3. b.sequence = Len(acknowledged) + 1
      BY <1>1, <1>2, <1>4, <2>2 DEF Body
    <3>4. ASSUME NEW i \in DOMAIN acknowledged'
          PROVE  journal'[i] = Line(acknowledged'[i]) /\ acknowledged'[i].sequence = i
      <4>1. CASE i \in DOMAIN acknowledged
        BY <1>4, <2>2, <3>2, <4>1 DEF Aligned, Recorded
      <4>2. CASE i = Len(acknowledged) + 1
        BY <1>4, <2>2, <3>2, <3>3, <4>2
      <4> QED
        BY <1>4, <3>4, <4>1, <4>2
    <3>5. Recorded'
      BY <3>4 DEF Recorded, Line, Hash
    <3>6. Exact'
      BY <1>3, <1>4, <2>2, <3>2 DEF Exact
    <3> QED
      BY <2>2, <3>2, <3>5, <3>6 DEF Aligned
  <2> QED
    BY <1>1, <1>3, <1>7, <2>1, <2>2, AppendLine
<1>8. edits = 0 /\ failures = 0 => Aligned'
  <2> SUFFICES ASSUME edits = 0, failures = 0 PROVE Aligned'
    OBVIOUS
  <2>1. Aligned /\ IsSeq(journal) /\ IsSeq(journal')
    BY <1>7 DEF LedgerInv
  <2>2. Exact
    BY <2>1 DEF Aligned, Trailing
  <2>3. Len(journal) = Len(acknowledged) /\ journal' = Append(journal, Line(b))
    BY <1>3, <2>2 DEF Exact, Added
  <2>4. /\ Len(journal') = Len(journal) + 1
        /\ DOMAIN journal = 1 .. Len(journal)
        /\ \A i \in DOMAIN journal : journal'[i] = journal[i]
        /\ journal'[Len(journal) + 1] = Line(b)
    BY <2>1, <2>3, AppendSeq
  <2>5. b.sequence = Len(acknowledged) + 1
    BY <1>1, <1>2, <1>4 DEF Body
  <2>6. ASSUME NEW i \in DOMAIN acknowledged'
        PROVE  journal'[i] = Line(acknowledged'[i]) /\ acknowledged'[i].sequence = i
    <3>1. CASE i \in DOMAIN acknowledged
      BY <1>4, <2>1, <2>3, <2>4, <3>1 DEF Aligned, Recorded
    <3>2. CASE i = Len(acknowledged) + 1
      BY <1>4, <2>3, <2>4, <2>5, <3>2
    <3> QED
      BY <1>4, <2>6, <3>1, <3>2
  <2>7. Recorded'
    BY <2>6 DEF Recorded, Line, Hash
  <2>8. Exact'
    BY <1>3, <1>4, <2>3, <2>4 DEF Exact
  <2> QED
    BY <2>7, <2>8 DEF Aligned
<1> QED
  BY <1>3, <1>6, <1>7, <1>8 DEF LedgerInv

\* An append that raises leaves the journal broken, or one record ahead, or as it was.
LEMMA RecordFailsKeeps == ASSUME LedgerInv, NEW e \in Event, RecordFails(e) PROVE LedgerInv'
<1>1. PICK b : b = Body(e)
  OBVIOUS
<1>2. /\ IsSeq(acknowledged) /\ failures \in Nat /\ edits \in Nat /\ ended \in BOOLEAN
      /\ sequence = Len(acknowledged) + failures /\ previous_hash = LastHash
  BY DEF LedgerInv, Counted
<1>3. /\ acknowledged' = acknowledged /\ sequence' = sequence + 1 /\ failures' = failures + 1
      /\ previous_hash' = previous_hash /\ edits' = edits
  BY DEF RecordFails
<1>4. \/ journal' = journal /\ ended' = ended
      \/ journal' = Added(Torn) /\ ended' = FALSE
      \/ journal' = Added(Line(b)) /\ ended' \in BOOLEAN
  BY <1>1 DEF RecordFails
<1>5. Len(acknowledged) \in Nat /\ failures' # 0 /\ failures' > 0 /\ failures' \in Nat
  BY <1>2, <1>3, AppendSeq
<1>6. Counted'
  <2>1. ended' \in BOOLEAN
    BY <1>2, <1>4
  <2>2. LastHash' = LastHash
    BY <1>3 DEF LastHash
  <2>3. sequence' = Len(acknowledged') + failures'
    BY <1>2, <1>3, <1>5
  <2>4. Linked'
    BY <1>3 DEF Linked, LedgerInv, Counted
  <2> QED
    BY <1>2, <1>3, <1>5, <2>1, <2>2, <2>3, <2>4 DEF Counted
<1>7. ASSUME edits = 0
      PROVE  IsSeq(journal') /\ (Broken' \/ Aligned')
  <2>0. IsSeq(journal) /\ (Broken \/ Aligned)
    BY <1>7 DEF LedgerInv
  <2>1. CASE journal' = journal /\ ended' = ended
    <3>1. Broken => Broken'
      BY <2>1 DEF Broken, Sane, Chained
    <3>2. Recorded => Recorded'
      BY <1>3, <2>1 DEF Recorded, Line, Hash
    <3>3. Exact => Exact'
      BY <1>3, <2>1 DEF Exact
    <3>4. Trailing => Trailing'
      BY <1>3, <1>5, <2>1 DEF Trailing, Line, Hash
    <3> QED
      BY <2>0, <2>1, <3>1, <3>2, <3>3, <3>4 DEF Aligned
  <2>2. CASE journal' = Added(Torn)
    <3>1. CASE Broken \/ (~ended /\ journal # <<>>) \/ ended
      BY <1>2, <2>0, <2>2, <3>1, BrokenStays
    <3>2. CASE ~Broken /\ ~ended /\ journal = <<>>
      <4>1. Trailing
        BY <2>0, <3>2 DEF Aligned, Exact
      <4>2. Len(journal) = 0
        BY <3>2
      <4> QED
        BY <1>5, <4>1, <4>2 DEF Trailing
    <3> QED
      BY <1>2, <3>1, <3>2
  <2>3. CASE journal' = Added(Line(b))
    <3>1. CASE Broken'
      BY <1>1, <1>7, <2>3, <3>1, AppendLine
    <3>2. CASE /\ failures = 0 /\ Aligned /\ Len(journal) = Len(acknowledged)
               /\ journal' = Append(journal, Line(b))
      <4>1. /\ IsSeq(journal') /\ Len(journal') = Len(journal) + 1
            /\ DOMAIN journal = 1 .. Len(journal)
            /\ \A i \in DOMAIN journal : journal'[i] = journal[i]
            /\ journal'[Len(journal) + 1] = Line(b)
        BY <2>0, <3>2, AppendSeq
      <4>2. b = [sequence |-> Len(journal'), event |-> e, previous_hash |-> previous_hash']
        BY <1>1, <1>2, <1>3, <1>5, <3>2, <4>1 DEF Body
      <4>3. DOMAIN acknowledged = DOMAIN journal
        BY <1>2, <3>2, <4>1, AppendSeq
      <4>4. Recorded'
        BY <1>3, <3>2, <4>1, <4>3 DEF Aligned, Recorded, Line, Hash
      <4>5. Len(journal') = Len(acknowledged') + 1 /\ journal'[Len(journal')] = Line(b)
        BY <1>3, <3>2, <4>1
      <4>6. Trailing'
        BY <1>5, <4>2, <4>5 DEF Trailing, Line, Hash
      <4> QED
        BY <4>1, <4>4, <4>6 DEF Aligned
    <3> QED
      BY <1>1, <1>7, <2>3, <3>1, <3>2, AppendLine
  <2> QED
    BY <1>4, <2>1, <2>2, <2>3
<1> QED
  BY <1>3, <1>5, <1>6, <1>7 DEF LedgerInv

LEMMA EditKeeps == ASSUME LedgerInv, Edit PROVE LedgerInv'
<1>1. edits \in Nat /\ edits' = edits + 1
  BY DEF LedgerInv, Counted, Edit
<1>2. Counted'
  BY <1>1 DEF LedgerInv, Counted, Linked, Edit, LastHash, IsSeq
<1> QED
  BY <1>1, <1>2 DEF LedgerInv

LEMMA LedgerStutters == ASSUME LedgerInv, UNCHANGED ledger PROVE LedgerInv'
<1>1. /\ sequence' = sequence /\ previous_hash' = previous_hash /\ journal' = journal
      /\ ended' = ended /\ acknowledged' = acknowledged /\ failures' = failures
      /\ edits' = edits
  BY DEF ledger
<1>2. Counted' = Counted /\ IsSeq(journal') = IsSeq(journal)
  BY <1>1 DEF Counted, Linked, LastHash
<1>3. Broken' = Broken
  BY <1>1 DEF Broken, Sane, Chained
<1>4. Aligned' = Aligned
  BY <1>1 DEF Aligned, Recorded, Exact, Trailing
<1> QED
  BY <1>1, <1>2, <1>3, <1>4 DEF LedgerInv

-------------------------------------------------------------------------------

\* Whatever appends return, fail or are torn: until somebody edits it, a journal is the
\* acknowledged records and at most one more, or broken for good (EvidenceLedger.append).
THEOREM LedgerInvariant == Spec => []LedgerInv
<1>1. LedgerInv /\ [Next]_ledger => LedgerInv'
  <2> SUFFICES ASSUME LedgerInv, [Next]_ledger PROVE LedgerInv'
    OBVIOUS
  <2>1. ASSUME NEW e \in Event, Record(e) PROVE LedgerInv'
    BY <2>1, RecordKeeps
  <2>2. ASSUME NEW e \in Event, RecordFails(e) PROVE LedgerInv'
    BY <2>2, RecordFailsKeeps
  <2>3. CASE Edit
    BY <2>3, EditKeeps
  <2>4. CASE UNCHANGED ledger
    BY <2>4, LedgerStutters
  <2> QED
    BY <2>1, <2>2, <2>3, <2>4 DEF Next
<1> QED
  BY <1>1, InitLedger, PTL DEF Spec

LEMMA CompleteIfVerified == LedgerInv => VerifiedIsComplete
<1> SUFFICES ASSUME LedgerInv, Verified, edits = 0
             PROVE  IsPrefix(acknowledged, Bodies) /\ Len(journal) <= Len(acknowledged) + 1
  BY DEF VerifiedIsComplete
<1>1. IsSeq(journal) /\ IsSeq(acknowledged)
  BY DEF LedgerInv, Counted
<1>2. ~Broken
  BY DEF Verified, Readable, Broken, Sane
<1>3. Aligned
  BY <1>2 DEF LedgerInv
<1>4. PICK m \in Nat, n \in Nat : /\ Len(acknowledged) = m /\ DOMAIN acknowledged = 1 .. m
                                  /\ Len(journal) = n /\ DOMAIN journal = 1 .. n
  BY <1>1, AppendSeq
<1>5. m <= n /\ n <= m + 1
  BY <1>3, <1>4 DEF Aligned, Exact, Trailing
<1>6. DOMAIN Bodies = 1 .. n /\ Len(Bodies) = n
  <2>1. DOMAIN Bodies = 1 .. n
    BY <1>4 DEF Bodies
  <2>2. Bodies \in Seq({Bodies[i] : i \in 1 .. n})
    BY <1>4 DEF Bodies
  <2> QED
    BY <2>1, <2>2
<1>7. ASSUME NEW i \in 1 .. m
      PROVE  Bodies[i] = acknowledged[i]
  <2>1. i \in DOMAIN acknowledged /\ i \in DOMAIN journal
    BY <1>4, <1>5
  <2>2. Line(acknowledged[i]).body = acknowledged[i]
    BY DEF Line
  <2> QED
    BY <1>3, <2>1, <2>2 DEF Aligned, Recorded, Bodies
<1>8. SubSeq(acknowledged, 1, m) = SubSeq(Bodies, 1, m)
  BY <1>4, <1>5, <1>6, <1>7
<1> QED
  BY <1>4, <1>5, <1>6, <1>8 DEF IsPrefix

\* A journal nobody edited that verifies holds every acknowledged record in order, and at
\* most one more, whose append was reported as failed (verify_ledger).
THEOREM CompleteLedger == Spec => []VerifiedIsComplete
  BY LedgerInvariant, CompleteIfVerified, PTL

-------------------------------------------------------------------------------

\* Without a failed append and without events verify_ledger cannot read back, the journal
\* verifies and its last record is the last that was acknowledged.
LEMMA ExactVerifies ==
  ASSUME LedgerInv, edits = 0, failures = 0, acknowledged # <<>>,
         \A i \in DOMAIN acknowledged : acknowledged[i].event \notin Separated
  PROVE  Verified /\ Last(journal).body = Last(acknowledged)
<1>1. IsSeq(journal) /\ IsSeq(acknowledged) /\ Linked /\ Aligned
  BY DEF LedgerInv, Counted
<1>2. Recorded /\ Exact
  BY <1>1 DEF Aligned, Trailing
<1>3. PICK n \in Nat : /\ Len(acknowledged) = n /\ DOMAIN acknowledged = 1 .. n
                       /\ Len(journal) = n /\ DOMAIN journal = 1 .. n
  BY <1>1, <1>2, AppendSeq DEF Exact
<1>4. n # 0
  <2>1. PICK S : acknowledged \in Seq(S)
    BY <1>1 DEF IsSeq
  <2> QED
    BY <1>3, <2>1
<1>5. journal # <<>>
  BY <1>3, <1>4
<1>6. ASSUME NEW i \in DOMAIN journal
      PROVE  /\ Readable(journal[i]) /\ journal[i].body.sequence = i /\ Chained(i)
             /\ HashMatches(journal[i])
  <2>1. journal[i] = Line(acknowledged[i]) /\ acknowledged[i].sequence = i
    BY <1>2, <1>3, <1>6 DEF Recorded
  <2>2. journal[i].body = acknowledged[i] /\ journal[i].receipt_hash = acknowledged[i]
    BY <2>1 DEF Line, Hash
  <2>3. journal[i] # Torn
    <3>1. DOMAIN journal[i] = {"body", "receipt_hash"} /\ DOMAIN Torn = {"no_document"}
      BY <2>1 DEF Line, Torn
    <3> QED
      BY <3>1
  <2>4. Readable(journal[i])
    BY <1>3, <1>6, <2>2, <2>3 DEF Readable
  <2>5. i # 1 => journal[i - 1].receipt_hash = acknowledged[i - 1]
    <3>1. i # 1 => i - 1 \in DOMAIN acknowledged
      BY <1>3, <1>6
    <3>2. i # 1 => journal[i - 1] = Line(acknowledged[i - 1])
      BY <1>2, <3>1 DEF Recorded
    <3> QED
      BY <3>2 DEF Line, Hash
  <2>6. Chained(i)
    BY <1>1, <1>3, <1>6, <2>2, <2>5 DEF Chained, Linked
  <2> QED
    BY <2>1, <2>2, <2>4, <2>6 DEF HashMatches, Hash
<1>7. Last(journal).body = Last(acknowledged)
  BY <1>2, <1>3, <1>4 DEF Last, Recorded, Line
<1> QED
  BY <1>5, <1>6, <1>7 DEF Verified

-------------------------------------------------------------------------------
(* Whoever edits the journal: a run of lines that hash together and end in *)
(* an acknowledged record repeats the records before that one.  An edit    *)
(* changes one line, and what it joins still has to hash together, so that *)
(* each step preserves this for all runs at once.                          *)

IsRecord(b) == b = [sequence |-> b.sequence, event |-> b.event, previous_hash |-> b.previous_hash]

\* A record that a ledger which counted to s can have made, or somebody from one that it made.
Issued(b, s) == IsRecord(b) /\ b.sequence \in Nat /\ b.sequence <= s

\* Lines a to b of j hash together.
Segment(j, a, b) ==
  \A i \in a..b :
    /\ j[i] # Torn /\ HashMatches(j[i])
    /\ i > a => j[i].body.previous_hash = j[i - 1].receipt_hash

\* If they do, and end in a record of the chain A, then they begin in one of A.
BoundTo(A, j, a, b) ==
  Segment(j, a, b) =>
    \A n \in DOMAIN A :
      j[b].body = A[n] => b - a < n /\ j[a].body = A[n - (b - a)]

IsChain(A) ==
  \A n \in DOMAIN A : A[n].previous_hash = IF n = 1 THEN GENESIS ELSE A[n - 1]

AllBound(A, j) == \A b \in DOMAIN j : \A a \in 1..b : BoundTo(A, j, a, b)

HistoryInv ==
  /\ IsSeq(journal) /\ ended \in BOOLEAN /\ (ended \/ journal # <<>>)
  /\ \A n \in DOMAIN acknowledged : Issued(acknowledged[n], sequence)
  /\ \A i \in DOMAIN journal : journal[i] # Torn => Issued(journal[i].body, sequence)
  /\ AllBound(acknowledged, journal)

LEMMA OneLineBound ==
  ASSUME NEW A, IsSeq(A), NEW j, NEW a \in Nat
  PROVE  BoundTo(A, j, a, a)
<1>1. PICK n \in Nat : DOMAIN A = 1 .. n
  BY AppendSeq
<1>2. a - a = 0 /\ \A k \in DOMAIN A : 0 < k /\ k - 0 = k
  BY <1>1
<1> QED
  BY <1>2 DEF BoundTo

\* Lines that only moved.
LEMMA MovedBound ==
  ASSUME NEW A, NEW j, NEW k, NEW a \in Int, NEW b \in Int, a <= b, NEW d \in Int,
         \A i \in a..b : k[i] = j[i + d], BoundTo(A, j, a + d, b + d)
  PROVE  BoundTo(A, k, a, b)
<1> SUFFICES ASSUME Segment(k, a, b), NEW n \in DOMAIN A, k[b].body = A[n]
             PROVE  b - a < n /\ k[a].body = A[n - (b - a)]
  BY DEF BoundTo
<1>1. k[a] = j[a + d] /\ k[b] = j[b + d] /\ (b + d) - (a + d) = b - a
  OBVIOUS
<1>2. Segment(j, a + d, b + d)
  <2>1. ASSUME NEW i \in (a + d)..(b + d)
        PROVE  /\ j[i] # Torn /\ HashMatches(j[i])
               /\ i > a + d => j[i].body.previous_hash = j[i - 1].receipt_hash
    <3>1. PICK x \in a..b : x = i - d /\ i = x + d
      OBVIOUS
    <3>2. /\ k[x] = j[i] /\ k[x] # Torn /\ HashMatches(k[x])
          /\ x > a => k[x].body.previous_hash = k[x - 1].receipt_hash
      BY <3>1 DEF Segment
    <3>3. i > a + d => x > a /\ x - 1 \in a..b /\ (x - 1) + d = i - 1
      BY <3>1
    <3>4. i > a + d => k[x - 1] = j[i - 1]
      BY <3>3
    <3> QED
      BY <3>2, <3>3, <3>4
  <2> QED
    BY <2>1 DEF Segment
<1> QED
  BY <1>1, <1>2 DEF BoundTo

\* Two runs that hash together.
LEMMA JoinedBound ==
  ASSUME NEW A, IsSeq(A), IsChain(A), NEW j, NEW a \in Int, NEW c \in Int, NEW b \in Int,
         a <= c, c < b, j[c] # Torn => IsRecord(j[c].body),
         BoundTo(A, j, a, c), BoundTo(A, j, c + 1, b)
  PROVE  BoundTo(A, j, a, b)
<1> SUFFICES ASSUME Segment(j, a, b), NEW n \in DOMAIN A, j[b].body = A[n]
             PROVE  b - a < n /\ j[a].body = A[n - (b - a)]
  BY DEF BoundTo
<1>1. PICK N \in Nat : DOMAIN A = 1 .. N
  BY AppendSeq
<1>2. Segment(j, a, c) /\ Segment(j, c + 1, b)
  <2>1. a..c \subseteq a..b /\ (c + 1)..b \subseteq a..b /\ \A i \in (c + 1)..b : i > c + 1 => i > a
    OBVIOUS
  <2> QED
    BY <2>1 DEF Segment
<1>3. PICK m \in Int : m = n - (b - (c + 1))
  BY <1>1
<1>4. m >= 1 /\ m \in DOMAIN A /\ j[c + 1].body = A[m]
  <2>1. b - (c + 1) < n /\ j[c + 1].body = A[n - (b - (c + 1))]
    BY <1>2 DEF BoundTo
  <2> QED
    BY <1>1, <1>3, <2>1
<1>5. j[c + 1].body.previous_hash = j[c].body /\ j[c] # Torn
  <2>1. c \in a..b /\ c + 1 \in a..b /\ c + 1 > a /\ (c + 1) - 1 = c
    OBVIOUS
  <2>2. j[c + 1].body.previous_hash = j[c].receipt_hash /\ j[c] # Torn /\ HashMatches(j[c])
    BY <2>1 DEF Segment
  <2> QED
    BY <2>2 DEF HashMatches, Hash
<1>6. j[c].body # GENESIS
  BY <1>5, NoHashIsGenesis DEF IsRecord
<1>7. m # 1 /\ j[c].body = A[m - 1]
  BY <1>4, <1>5, <1>6 DEF IsChain
<1>8. m - 1 \in DOMAIN A
  BY <1>1, <1>4, <1>7
<1>9. c - a < m - 1 /\ j[a].body = A[(m - 1) - (c - a)]
  BY <1>2, <1>7, <1>8 DEF BoundTo
<1>10. (m - 1) - (c - a) = n - (b - a) /\ b - a < n
  <2>1. n \in Int
    BY <1>1
  <2>2. c - a < m - 1
    BY <1>9
  <2> QED
    BY <1>3, <2>1, <2>2
<1> QED
  BY <1>9, <1>10

\* A line written over, or behind the others.
LEMMA RewrittenBound ==
  ASSUME NEW A, IsSeq(A), IsChain(A), NEW j, NEW k, NEW l \in Nat, NEW m \in Nat, NEW i \in 1..m,
         DOMAIN j = 1 .. l, DOMAIN k = 1 .. m, m <= l \/ (m = l + 1 /\ i = m), AllBound(A, j),
         \A x \in 1..m : x # i => k[x] = j[x],
         \A x \in 1..m : k[x] # Torn => IsRecord(k[x].body)
  PROVE  AllBound(A, k)
<1>1. ASSUME NEW a \in Int, NEW b \in Int, 1 <= a, a <= b, b <= m, b < i \/ i < a
      PROVE  BoundTo(A, k, a, b)
  <2>1. b \in DOMAIN j /\ a \in 1..b
    BY <1>1
  <2>2. BoundTo(A, j, a, b)
    BY <2>1 DEF AllBound
  <2>3. PICK z \in Int : z = 0
    OBVIOUS
  <2>4. a + z = a /\ b + z = b /\ \A x \in a..b : k[x] = j[x + z]
    BY <1>1, <2>3
  <2>5. BoundTo(A, j, a + z, b + z)
    BY <2>2, <2>4
  <2> QED
    BY <1>1, <2>4, <2>5, MovedBound
<1>2. ASSUME NEW a \in Int, 1 <= a, a <= i
      PROVE  BoundTo(A, k, a, i)
  <2>1. BoundTo(A, k, i, i)
    BY OneLineBound
  <2>2. CASE a < i
    <3>1. BoundTo(A, k, a, i - 1) /\ i - 1 \in 1..m
      BY <1>1, <1>2, <2>2
    <3>2. (i - 1) + 1 = i /\ a <= i - 1 /\ i - 1 < i /\ i - 1 \in Int
      BY <1>2, <2>2
    <3>3. k[i - 1] # Torn => IsRecord(k[i - 1].body)
      BY <3>1
    <3> QED
      BY <2>1, <3>1, <3>2, <3>3, JoinedBound
  <2> QED
    BY <1>2, <2>1, <2>2
<1>3. ASSUME NEW a \in Int, NEW b \in Int, 1 <= a, a <= i, i < b, b <= m
      PROVE  BoundTo(A, k, a, b)
  <2>1. BoundTo(A, k, a, i) /\ BoundTo(A, k, i + 1, b)
    BY <1>1, <1>2, <1>3
  <2>2. k[i] # Torn => IsRecord(k[i].body)
    OBVIOUS
  <2>3. i \in Int
    OBVIOUS
  <2> QED
    BY ONLY IsSeq(A), IsChain(A), a \in Int, b \in Int, <1>3, <2>1, <2>2, <2>3, JoinedBound
<1>4. ASSUME NEW b \in 1..m, NEW a \in 1..b
      PROVE  BoundTo(A, k, a, b)
  <2>1. a \in Int /\ b \in Int /\ 1 <= a /\ a <= b /\ b <= m
    OBVIOUS
  <2>2. CASE b < i \/ i < a
    BY <1>1, <2>1, <2>2
  <2>3. CASE b = i
    BY <1>2, <2>1, <2>3
  <2>4. CASE a <= i /\ i < b
    BY <1>3, <2>1, <2>4
  <2> QED
    BY <2>1, <2>2, <2>3, <2>4
<1> QED
  BY <1>4 DEF AllBound

\* Lines 1 to c kept, the others moved.
LEMMA SplicedBound ==
  ASSUME NEW A, IsSeq(A), IsChain(A), NEW j, NEW k, NEW l \in Nat, NEW m \in Nat,
         NEW c \in Nat, NEW d \in Int, DOMAIN j = 1 .. l, DOMAIN k = 1 .. m, AllBound(A, j),
         c <= l, c + 1 + d >= 1, m + d <= l,
         \A x \in 1..m : x <= c => k[x] = j[x],
         \A x \in 1..m : x > c => k[x] = j[x + d],
         \A x \in 1..m : k[x] # Torn => IsRecord(k[x].body)
  PROVE  AllBound(A, k)
<1>1. ASSUME NEW a \in Int, NEW b \in Int, 1 <= a, a <= b, b <= m, b <= c
      PROVE  BoundTo(A, k, a, b)
  <2>1. b \in DOMAIN j /\ a \in 1..b
    BY <1>1
  <2>2. BoundTo(A, j, a, b)
    BY <2>1 DEF AllBound
  <2>3. PICK z \in Int : z = 0
    OBVIOUS
  <2>4. a + z = a /\ b + z = b /\ \A x \in a..b : k[x] = j[x + z]
    BY <1>1, <2>3
  <2>5. BoundTo(A, j, a + z, b + z)
    BY <2>2, <2>4
  <2> QED
    BY <1>1, <2>4, <2>5, MovedBound
<1>2. ASSUME NEW a \in Int, NEW b \in Int, 1 <= a, a <= b, b <= m, c < a
      PROVE  BoundTo(A, k, a, b)
  <2>1. b + d \in DOMAIN j /\ a + d \in 1..(b + d)
    BY <1>2
  <2>2. BoundTo(A, j, a + d, b + d)
    BY <2>1 DEF AllBound
  <2>3. \A x \in a..b : k[x] = j[x + d]
    BY <1>2
  <2> QED
    BY <1>2, <2>2, <2>3, MovedBound
<1>3. ASSUME NEW a \in Int, NEW b \in Int, 1 <= a, a <= c, c < b, b <= m
      PROVE  BoundTo(A, k, a, b)
  <2>1. BoundTo(A, k, a, c) /\ BoundTo(A, k, c + 1, b) /\ c \in 1..m /\ c \in Int
    BY <1>1, <1>2, <1>3
  <2>2. k[c] # Torn => IsRecord(k[c].body)
    BY <2>1
  <2> QED
    BY <1>3, <2>1, <2>2, JoinedBound
<1>4. ASSUME NEW b \in 1..m, NEW a \in 1..b
      PROVE  BoundTo(A, k, a, b)
  <2>1. a \in Int /\ b \in Int /\ 1 <= a /\ a <= b /\ b <= m
    OBVIOUS
  <2> QED
    BY <1>1, <1>2, <1>3, <2>1
<1> QED
  BY <1>4 DEF AllBound

\* One record more in the chain, of which the journal has no line yet.
LEMMA GrownBound ==
  ASSUME NEW A, IsSeq(A), NEW x, NEW j, AllBound(A, j), NEW l \in Nat, DOMAIN j = 1 .. l,
         \A i \in DOMAIN j : j[i] # Torn => j[i].body # x
  PROVE  AllBound(Append(A, x), j)
<1>1. PICK N \in Nat : N = Len(A) /\ DOMAIN A = 1 .. N
  BY AppendSeq
<1>2. DOMAIN Append(A, x) = 1 .. N + 1 /\ \A n \in 1 .. N : Append(A, x)[n] = A[n]
      /\ Append(A, x)[N + 1] = x
  BY <1>1, AppendSeq
<1> SUFFICES ASSUME NEW b \in 1 .. l, NEW a \in 1 .. b
             PROVE  BoundTo(Append(A, x), j, a, b)
  BY DEF AllBound
<1> SUFFICES ASSUME Segment(j, a, b), NEW n \in DOMAIN Append(A, x), j[b].body = Append(A, x)[n]
             PROVE  b - a < n /\ j[a].body = Append(A, x)[n - (b - a)]
  BY DEF BoundTo
<1>3. j[b] # Torn
  BY DEF Segment
<1>4. n \in 1 .. N /\ j[b].body = A[n]
  BY <1>2, <1>3
<1>5. b - a < n /\ j[a].body = A[n - (b - a)]
  <2>1. BoundTo(A, j, a, b)
    BY DEF AllBound
  <2> QED
    BY <1>1, <1>4, <2>1 DEF BoundTo
<1>6. n - (b - a) \in 1 .. N
  BY <1>4, <1>5
<1> QED
  BY <1>2, <1>5, <1>6

\* A line is added, or lost in the torn one before it.
LEMMA AddedBound ==
  ASSUME NEW A, IsSeq(A), IsChain(A), IsSeq(journal), ended \in BOOLEAN,
         ended \/ journal # <<>>, AllBound(A, journal),
         \A i \in DOMAIN journal : journal[i] # Torn => IsRecord(journal[i].body),
         NEW line, line # Torn => IsRecord(line.body)
  PROVE  /\ AllBound(A, Added(line))
         /\ IsSeq(Added(line)) /\ Added(line) # <<>>
         /\ \A i \in DOMAIN Added(line) :
              Added(line)[i] \in {Torn, line} \/ (i \in DOMAIN journal /\ Added(line)[i] = journal[i])
<1>1. PICK l \in Nat : l = Len(journal) /\ DOMAIN journal = 1 .. l
  BY AppendSeq
<1>2. PICK k : k = Added(line)
  OBVIOUS
<1>3. CASE ended
  <2>1. /\ IsSeq(k) /\ DOMAIN k = 1 .. l + 1 /\ k[l + 1] = line
        /\ \A i \in 1 .. l : k[i] = journal[i]
    BY <1>1, <1>2, <1>3, AppendSeq DEF Added
  <2>2. PICK m \in Nat : m = l + 1
    OBVIOUS
  <2>3. \A x \in 1..m : k[x] # Torn => IsRecord(k[x].body)
    BY <1>1, <2>1, <2>2
  <2>4. m \in 1..m /\ DOMAIN k = 1..m /\ \A x \in 1..m : x # m => k[x] = journal[x]
    BY <2>1, <2>2
  <2>5. AllBound(A, k)
    <3>1. m <= l \/ (m = l + 1 /\ m = m)
      BY <2>2
    <3>2. DOMAIN journal = 1 .. l /\ l \in Nat /\ m \in Nat /\ m \in 1..m
      BY <1>1, <2>4
    <3> QED
      BY <2>3, <2>4, <3>1, <3>2, RewrittenBound
  <2>6. k # <<>>
    BY <2>2, <2>4
  <2>7. \A i \in DOMAIN k : k[i] = line \/ (i \in DOMAIN journal /\ k[i] = journal[i])
    BY <1>1, <2>1
  <2> QED
    BY <1>2, <2>1, <2>5, <2>6, <2>7
<1>4. CASE ~ended
  <2>1. k = [journal EXCEPT ![l] = Torn] /\ journal # <<>>
    BY <1>1, <1>2, <1>4 DEF Added
  <2>2. IsSeq(k) /\ l \in DOMAIN journal /\ k[l] = Torn
    BY <1>1, <2>1, TearSeq
  <2>3. DOMAIN k = 1 .. l /\ \A x \in 1 .. l : x # l => k[x] = journal[x]
    BY <1>1, <2>1
  <2>4. \A x \in 1..l : k[x] # Torn => IsRecord(k[x].body)
    BY <1>1, <2>2, <2>3
  <2>5. AllBound(A, k)
    <3>1. l \in 1 .. l /\ l <= l
      BY <1>1, <2>2
    <3> QED
      BY <1>1, <2>3, <2>4, <3>1, RewrittenBound
  <2>6. k # <<>>
    BY <1>1, <2>2, <2>3
  <2>7. \A i \in DOMAIN k : k[i] = Torn \/ (i \in DOMAIN journal /\ k[i] = journal[i])
    BY <1>1, <2>2, <2>3
  <2> QED
    BY <1>2, <2>2, <2>5, <2>6, <2>7
<1> QED
  BY <1>3, <1>4

LEMMA ChainOfRecords ==
  ASSUME LedgerInv
  PROVE  /\ IsSeq(acknowledged) /\ IsChain(acknowledged) /\ sequence \in Nat
         /\ previous_hash = IF acknowledged = <<>> THEN GENESIS ELSE acknowledged[Len(acknowledged)]
<1>1. IsSeq(acknowledged) /\ Linked /\ failures \in Nat /\ previous_hash = LastHash
      /\ sequence = Len(acknowledged) + failures
  BY DEF LedgerInv, Counted
<1>2. Len(acknowledged) \in Nat
  BY <1>1, AppendSeq
<1> QED
  BY <1>1, <1>2 DEF Linked, IsChain, LastHash, Last, Hash

LEMMA RecordBinds == ASSUME LedgerInv, HistoryInv, NEW e \in Event, Record(e) PROVE HistoryInv'
<1>1. PICK x : x = Body(e)
  OBVIOUS
<1>2. /\ sequence' = sequence + 1 /\ journal' = Added(Line(x)) /\ ended' = TRUE
      /\ acknowledged' = Append(acknowledged, x)
  BY <1>1 DEF Record
<1>3. /\ IsSeq(acknowledged) /\ IsChain(acknowledged) /\ sequence \in Nat
      /\ previous_hash = IF acknowledged = <<>> THEN GENESIS ELSE acknowledged[Len(acknowledged)]
  BY ChainOfRecords
<1>4. PICK N \in Nat : N = Len(acknowledged) /\ DOMAIN acknowledged = 1 .. N
  BY <1>3, AppendSeq
<1>5. /\ DOMAIN acknowledged' = 1 .. N + 1 /\ acknowledged'[N + 1] = x /\ IsSeq(acknowledged')
      /\ \A n \in 1 .. N : acknowledged'[n] = acknowledged[n]
  BY <1>2, <1>3, <1>4, AppendSeq
<1>6. IsRecord(x) /\ x.sequence = sequence + 1 /\ x.previous_hash = previous_hash
  BY <1>1 DEF Body, IsRecord
<1>7. IsChain(acknowledged')
  <2>1. acknowledged = <<>> => N = 0
    BY <1>4
  <2>2. acknowledged # <<>> => N # 0
    <3>1. PICK S : acknowledged \in Seq(S)
      BY <1>3 DEF IsSeq
    <3> QED
      BY <1>4, <3>1
  <2>3. x.previous_hash = IF N + 1 = 1 THEN GENESIS ELSE acknowledged'[N]
    BY <1>3, <1>4, <1>5, <1>6, <2>1, <2>2
  <2>4. ASSUME NEW n \in 1 .. N
        PROVE  acknowledged'[n].previous_hash = IF n = 1 THEN GENESIS ELSE acknowledged'[n - 1]
    BY <1>3, <1>4, <1>5 DEF IsChain
  <2> QED
    BY <1>5, <2>3, <2>4 DEF IsChain
<1>8. /\ IsSeq(journal) /\ ended \in BOOLEAN /\ (ended \/ journal # <<>>)
      /\ \A i \in DOMAIN journal : journal[i] # Torn => Issued(journal[i].body, sequence)
      /\ AllBound(acknowledged, journal)
  BY DEF HistoryInv
<1>9. AllBound(acknowledged', journal)
  <2>1. PICK l \in Nat : DOMAIN journal = 1 .. l
    BY <1>8, AppendSeq
  <2>2. \A i \in DOMAIN journal : journal[i] # Torn => journal[i].body # x
    BY <1>3, <1>6, <1>8 DEF Issued
  <2> QED
    BY <1>2, <1>3, <1>8, <2>1, <2>2, GrownBound
<1>10. /\ AllBound(acknowledged', journal') /\ IsSeq(journal') /\ journal' # <<>>
       /\ \A i \in DOMAIN journal' :
            journal'[i] \in {Torn, Line(x)} \/ (i \in DOMAIN journal /\ journal'[i] = journal[i])
  <2>1. Line(x).body = x
    BY DEF Line
  <2>2. \A i \in DOMAIN journal : journal[i] # Torn => IsRecord(journal[i].body)
    BY <1>8 DEF Issued
  <2> QED
    BY <1>2, <1>5, <1>6, <1>7, <1>8, <1>9, <2>1, <2>2, AddedBound
<1>11. \A b : Issued(b, sequence) => Issued(b, sequence')
  BY <1>2, <1>3 DEF Issued
<1>12. Issued(x, sequence')
  BY <1>2, <1>3, <1>6 DEF Issued
<1>13. ASSUME NEW i \in DOMAIN journal', journal'[i] # Torn
       PROVE  Issued(journal'[i].body, sequence')
  <2>1. CASE journal'[i] = Line(x)
    BY <1>12, <2>1 DEF Line
  <2>2. CASE i \in DOMAIN journal /\ journal'[i] = journal[i]
    BY <1>8, <1>11, <1>13, <2>2
  <2> QED
    BY <1>10, <1>13, <2>1, <2>2
<1>14. \A n \in 1 .. N : Issued(acknowledged[n], sequence)
  BY <1>4 DEF HistoryInv
<1>15. \A n \in DOMAIN acknowledged' : Issued(acknowledged'[n], sequence')
  BY <1>5, <1>11, <1>12, <1>14
<1>16. ended' \in BOOLEAN /\ (ended' \/ journal' # <<>>)
  BY <1>2
<1> QED
  BY <1>10, <1>13, <1>15, <1>16 DEF HistoryInv

LEMMA RecordFailsBinds ==
  ASSUME LedgerInv, HistoryInv, NEW e \in Event, RecordFails(e) PROVE HistoryInv'
<1>1. PICK x : x = Body(e)
  OBVIOUS
<1>2. /\ sequence' = sequence + 1 /\ acknowledged' = acknowledged
      /\ \/ journal' = journal /\ ended' = ended
         \/ journal' = Added(Torn) /\ ended' = FALSE
         \/ journal' = Added(Line(x)) /\ ended' \in BOOLEAN
  BY <1>1 DEF RecordFails
<1>3. IsSeq(acknowledged) /\ IsChain(acknowledged) /\ sequence \in Nat
  BY ChainOfRecords
<1>4. /\ IsSeq(journal) /\ ended \in BOOLEAN /\ (ended \/ journal # <<>>)
      /\ \A i \in DOMAIN journal : journal[i] # Torn => Issued(journal[i].body, sequence)
      /\ \A i \in DOMAIN journal : journal[i] # Torn => IsRecord(journal[i].body)
      /\ AllBound(acknowledged, journal)
  BY DEF HistoryInv, Issued
<1>5. Line(x).body = x /\ IsRecord(x) /\ x.sequence = sequence + 1
  BY <1>1 DEF Body, IsRecord, Line
<1>6. \A b : Issued(b, sequence) => Issued(b, sequence')
  BY <1>2, <1>3 DEF Issued
<1>7. Issued(x, sequence')
  BY <1>2, <1>3, <1>5 DEF Issued
<1>8. \A n \in DOMAIN acknowledged' : Issued(acknowledged'[n], sequence')
  <2>1. \A n \in DOMAIN acknowledged : Issued(acknowledged[n], sequence)
    BY DEF HistoryInv
  <2> QED
    BY <1>2, <1>6, <2>1
<1>9. CASE journal' = journal /\ ended' = ended
  BY <1>2, <1>4, <1>6, <1>8, <1>9 DEF HistoryInv
<1>10. ASSUME NEW line \in {Torn, Line(x)}, journal' = Added(line), ended' \in BOOLEAN
       PROVE  HistoryInv'
  <2>1. line # Torn => IsRecord(line.body)
    BY <1>5, <1>10
  <2>2. /\ AllBound(acknowledged, journal') /\ IsSeq(journal') /\ journal' # <<>>
        /\ \A i \in DOMAIN journal' :
             journal'[i] \in {Torn, line} \/ (i \in DOMAIN journal /\ journal'[i] = journal[i])
    BY <1>3, <1>4, <1>10, <2>1, AddedBound
  <2>3. ASSUME NEW i \in DOMAIN journal', journal'[i] # Torn
        PROVE  Issued(journal'[i].body, sequence')
    <3>1. CASE journal'[i] = Line(x)
      BY <1>5, <1>7, <3>1
    <3>2. CASE i \in DOMAIN journal /\ journal'[i] = journal[i]
      BY <1>4, <1>6, <2>3, <3>2
    <3>3. line = Torn \/ line = Line(x)
      OBVIOUS
    <3> QED
      BY <2>2, <2>3, <3>1, <3>2, <3>3
  <2>4. AllBound(acknowledged', journal')
    BY <1>2, <2>2
  <2> QED
    BY <1>8, <1>10, <2>2, <2>3, <2>4 DEF HistoryInv
<1> QED
  BY <1>2, <1>9, <1>10

LEMMA RemoveAtSeq ==
  ASSUME NEW s, IsSeq(s), NEW i \in DOMAIN s, NEW l \in Nat, l = Len(s)
  PROVE  /\ IsSeq(RemoveAt(s, i)) /\ DOMAIN RemoveAt(s, i) = 1 .. l - 1
         /\ \A x \in 1 .. l - 1 : RemoveAt(s, i)[x] = IF x <= i - 1 THEN s[x] ELSE s[x + 1]
<1>1. PICK S : s \in Seq(S)
  BY DEF IsSeq
<1>2. i \in 1 .. l
  BY <1>1
<1>3. SubSeq(s, 1, i - 1) \in Seq(S) /\ Len(SubSeq(s, 1, i - 1)) = i - 1
      /\ \A x \in 1 .. i - 1 : SubSeq(s, 1, i - 1)[x] = s[x]
  BY <1>1, <1>2
<1>4. SubSeq(s, i + 1, Len(s)) \in Seq(S) /\ Len(SubSeq(s, i + 1, Len(s))) = l - i
      /\ \A x \in 1 .. l - i : SubSeq(s, i + 1, Len(s))[x] = s[x + i]
  BY <1>1, <1>2
<1>5. RemoveAt(s, i) \in Seq(S) /\ Len(RemoveAt(s, i)) = l - 1
  BY <1>2, <1>3, <1>4 DEF RemoveAt
<1>6. ASSUME NEW x \in 1 .. l - 1
      PROVE  RemoveAt(s, i)[x] = IF x <= i - 1 THEN s[x] ELSE s[x + 1]
  <2>1. CASE x <= i - 1
    BY <1>2, <1>3, <1>4, <2>1 DEF RemoveAt
  <2>2. CASE x > i - 1
    <3>1. x - (i - 1) \in 1 .. l - i /\ (x - (i - 1)) + i = x + 1
      BY <1>2, <2>2
    <3>2. PICK t, u : t = SubSeq(s, 1, i - 1) /\ u = SubSeq(s, i + 1, Len(s))
      OBVIOUS
    <3>3. t \in Seq(S) /\ u \in Seq(S) /\ Len(t) = i - 1 /\ Len(u) = l - i
      BY <1>3, <1>4, <3>2
    <3>4. (t \o u)[x] = u[x - (i - 1)]
      BY <1>2, <2>2, <3>1, <3>3
    <3>5. RemoveAt(s, i)[x] = SubSeq(s, i + 1, Len(s))[x - (i - 1)]
      BY <3>2, <3>4 DEF RemoveAt
    <3>6. SubSeq(s, i + 1, Len(s))[x - (i - 1)] = s[(x - (i - 1)) + i]
      BY <1>4, <3>1
    <3>7. ~(x <= i - 1)
      BY <1>2, <2>2
    <3> QED
      BY <3>1, <3>5, <3>6, <3>7
  <2> QED
    BY <1>2, <2>1, <2>2
<1> QED
  BY <1>5, <1>6 DEF IsSeq

LEMMA InsertAtSeq ==
  ASSUME NEW s, IsSeq(s), NEW i \in DOMAIN s, NEW l \in Nat, l = Len(s)
  PROVE  /\ IsSeq(InsertAt(s, i, s[i])) /\ DOMAIN InsertAt(s, i, s[i]) = 1 .. l + 1
         /\ \A x \in 1 .. l + 1 : InsertAt(s, i, s[i])[x] = IF x <= i THEN s[x] ELSE s[x - 1]
<1>1. PICK S : s \in Seq(S)
  BY DEF IsSeq
<1>2. i \in 1 .. l /\ s[i] \in S
  BY <1>1
<1>3. PICK t : t = SubSeq(s, 1, i - 1) \o <<s[i]>>
  OBVIOUS
<1>4. SubSeq(s, 1, i - 1) \in Seq(S) /\ Len(SubSeq(s, 1, i - 1)) = i - 1
      /\ \A x \in 1 .. i - 1 : SubSeq(s, 1, i - 1)[x] = s[x]
  BY <1>1, <1>2
<1>5. t \in Seq(S) /\ Len(t) = i /\ \A x \in 1 .. i : t[x] = s[x]
  BY <1>2, <1>3, <1>4
<1>6. SubSeq(s, i, Len(s)) \in Seq(S) /\ Len(SubSeq(s, i, Len(s))) = l - i + 1
      /\ \A x \in 1 .. l - i + 1 : SubSeq(s, i, Len(s))[x] = s[x + i - 1]
  BY <1>1, <1>2
<1>7. PICK u : u = SubSeq(s, i, Len(s))
  OBVIOUS
<1>8. InsertAt(s, i, s[i]) = t \o u
  BY <1>3, <1>7 DEF InsertAt
<1>11. u \in Seq(S) /\ Len(u) = l - i + 1 /\ \A x \in 1 .. l - i + 1 : u[x] = s[x + i - 1]
  BY <1>6, <1>7
<1>9. t \o u \in Seq(S) /\ Len(t \o u) = l + 1
  <2>1. t \in Seq(S) /\ u \in Seq(S)
    BY <1>5, <1>11
  <2>2. t \o u \in Seq(S) /\ Len(t \o u) = Len(t) + Len(u)
    BY <2>1
  <2>3. Len(t) = i /\ Len(u) = l - i + 1 /\ i \in Int
    BY <1>2, <1>5, <1>11
  <2> QED
    BY <2>2, <2>3
<1>10. ASSUME NEW x \in 1 .. l + 1
       PROVE  (t \o u)[x] = IF x <= i THEN s[x] ELSE s[x - 1]
  <2>1. CASE x <= i
    BY <1>2, <1>5, <1>11, <2>1
  <2>2. CASE x > i
    <3>1. x - i \in 1 .. l - i + 1 /\ (x - i) + i - 1 = x - 1
      BY <1>2, <2>2
    <3>2. (t \o u)[x] = u[x - i]
      <4>1. t \in Seq(S) /\ u \in Seq(S) /\ Len(t) = i /\ Len(u) = l - i + 1
        BY <1>5, <1>11
      <4>2. i \in Nat /\ x > Len(t) /\ x <= Len(t) + Len(u)
        BY <1>2, <2>2, <4>1
      <4> QED
        BY <4>1, <4>2
    <3>3. u[x - i] = s[(x - i) + i - 1]
      BY <1>11, <3>1
    <3> QED
      BY <2>2, <3>1, <3>2, <3>3
  <2>3. x <= i \/ x > i
    BY <1>2
  <2> QED
    BY <2>1, <2>2, <2>3
<1> QED
  BY <1>8, <1>9, <1>10 DEF IsSeq

\* What a forger can make of a line is a record with the line's sequence number.
LEMMA ForgeryIsRecord ==
  ASSUME NEW i, Issued(journal[i].body, sequence), NEW f \in Forgery(i)
  PROVE  Issued(f.body, sequence)
<1> DEFINE bodies == {Forged(journal[i].body, e, h) : e \in Event, h \in KnownHash}
<1>1. f \in {[body |-> b, receipt_hash |-> h] : b \in bodies, h \in {journal[i].receipt_hash}}
            \union {Line(b) : b \in bodies}
  BY DEF Forgery
<1>2. ASSUME NEW e \in Event, NEW p \in KnownHash, NEW b, b = Forged(journal[i].body, e, p)
      PROVE  Issued(b, sequence)
  <2>1. PICK c : c = journal[i].body
    OBVIOUS
  <2>2. c = [sequence |-> c.sequence, event |-> c.event, previous_hash |-> c.previous_hash]
    BY <2>1 DEF Issued, IsRecord
  <2>3. b = [sequence |-> c.sequence, event |-> e, previous_hash |-> p]
    BY <1>2, <2>1, <2>2 DEF Forged
  <2>4. b.sequence = c.sequence /\ b.event = e /\ b.previous_hash = p
    BY <2>3
  <2> QED
    BY <2>1, <2>3, <2>4 DEF Issued, IsRecord
<1>3. \A b \in bodies : Issued(b, sequence)
  BY <1>2
<1> HIDE DEF bodies
<1>4. PICK b \in bodies : f.body = b
  BY <1>1 DEF Line
<1> QED
  BY <1>3, <1>4

LEMMA EditBinds == ASSUME LedgerInv, HistoryInv, Edit PROVE HistoryInv'
<1>1. journal' \in Edited /\ ended' = TRUE /\ acknowledged' = acknowledged /\ sequence' = sequence
  BY DEF Edit
<1>2. IsSeq(acknowledged) /\ IsChain(acknowledged)
  BY ChainOfRecords
<1>3. /\ IsSeq(journal) /\ AllBound(acknowledged, journal)
      /\ \A i \in DOMAIN journal : journal[i] # Torn => Issued(journal[i].body, sequence)
  BY DEF HistoryInv
<1>4. PICK l \in Nat : l = Len(journal) /\ DOMAIN journal = 1 .. l
  BY <1>3, AppendSeq
<1>5. SUFFICES /\ IsSeq(journal') /\ AllBound(acknowledged, journal')
               /\ \A x \in DOMAIN journal' : journal'[x] # Torn => Issued(journal'[x].body, sequence)
  BY <1>1, <1>5 DEF HistoryInv
<1>6. CASE \E i \in DOMAIN journal : journal' = RemoveAt(journal, i)
  <2>1. PICK i \in DOMAIN journal : journal' = RemoveAt(journal, i)
    BY <1>6
  <2>2. PICK m \in Nat, c \in Nat, d \in Int :
          m = l - 1 /\ c = i - 1 /\ d = 1 /\ c + 1 + d >= 1 /\ m + d <= l /\ c <= l
    <3>1. i \in 1 .. l
      BY <1>4
    <3>2. l - 1 \in Nat /\ i - 1 \in Nat /\ 1 \in Int /\ (i - 1) + 1 + 1 >= 1 /\ (l - 1) + 1 <= l /\ i - 1 <= l
      BY <3>1
    <3> QED
      BY <3>2
  <2>3. /\ IsSeq(journal') /\ DOMAIN journal' = 1 .. m
        /\ \A x \in 1 .. m : journal'[x] = IF x <= c THEN journal[x] ELSE journal[x + 1]
    <3>1. /\ IsSeq(RemoveAt(journal, i)) /\ DOMAIN RemoveAt(journal, i) = 1 .. l - 1
          /\ \A x \in 1 .. l - 1 :
               RemoveAt(journal, i)[x] = IF x <= i - 1 THEN journal[x] ELSE journal[x + 1]
      BY <1>3, <1>4, RemoveAtSeq
    <3> QED
      BY <2>1, <2>2, <3>1
  <2>4. \A x \in 1 .. m : journal'[x] # Torn => Issued(journal'[x].body, sequence)
    <3>1. \A x \in 1 .. m : x \in DOMAIN journal /\ x + 1 \in DOMAIN journal
      BY <1>4, <2>2
    <3> QED
      BY <1>3, <2>3, <3>1
  <2>5. AllBound(acknowledged, journal')
    <3>1. /\ \A x \in 1 .. m : x <= c => journal'[x] = journal[x]
          /\ \A x \in 1 .. m : x > c => journal'[x] = journal[x + d]
          /\ \A x \in 1 .. m : journal'[x] # Torn => IsRecord(journal'[x].body)
      BY <2>2, <2>3, <2>4 DEF Issued
    <3> QED
      BY <1>2, <1>3, <1>4, <2>2, <2>3, <3>1, SplicedBound
  <2> QED
    BY <2>3, <2>4, <2>5
<1>7. CASE \E i \in DOMAIN journal : journal' = InsertAt(journal, i, journal[i])
  <2>1. PICK i \in DOMAIN journal : journal' = InsertAt(journal, i, journal[i])
    BY <1>7
  <2>2. PICK m \in Nat, c \in Nat, d \in Int :
          m = l + 1 /\ c = i /\ d = -1 /\ c + 1 + d >= 1 /\ m + d <= l /\ c <= l
    BY <1>4
  <2>3. /\ IsSeq(journal') /\ DOMAIN journal' = 1 .. m
        /\ \A x \in 1 .. m : journal'[x] = IF x <= i THEN journal[x] ELSE journal[x - 1]
    <3>1. /\ IsSeq(InsertAt(journal, i, journal[i]))
          /\ DOMAIN InsertAt(journal, i, journal[i]) = 1 .. l + 1
          /\ \A x \in 1 .. l + 1 :
               InsertAt(journal, i, journal[i])[x] = IF x <= i THEN journal[x] ELSE journal[x - 1]
      BY <1>3, <1>4, InsertAtSeq
    <3> QED
      BY <2>1, <2>2, <3>1
  <2>4. \A x \in 1 .. m : journal'[x] # Torn => Issued(journal'[x].body, sequence)
    <3>1. i \in Nat /\ \A x \in 1 .. m : /\ x <= i => x \in DOMAIN journal
                                         /\ ~(x <= i) => x - 1 \in DOMAIN journal
      BY <1>4, <2>2
    <3> QED
      BY <1>3, <2>3, <3>1
  <2>5. AllBound(acknowledged, journal')
    <3>1. /\ \A x \in 1 .. m : x <= c => journal'[x] = journal[x]
          /\ \A x \in 1 .. m : x > c => journal'[x] = journal[x + d]
          /\ \A x \in 1 .. m : journal'[x] # Torn => IsRecord(journal'[x].body)
      BY <2>2, <2>3, <2>4 DEF Issued
    <3> QED
      BY <1>2, <1>3, <1>4, <2>2, <2>3, <3>1, SplicedBound
  <2> QED
    BY <2>3, <2>4, <2>5
<1>8. CASE \E i \in Whole : \E f \in Forgery(i) : journal' = [journal EXCEPT ![i] = f]
  <2>0. PICK i \in Whole : \E f \in Forgery(i) : journal' = [journal EXCEPT ![i] = f]
    BY <1>8
  <2>1. PICK f \in Forgery(i) : journal' = [journal EXCEPT ![i] = f]
    BY <2>0
  <2>2. i \in 1 .. l /\ Issued(journal[i].body, sequence)
    BY <1>3, <1>4 DEF Whole
  <2>3. Issued(f.body, sequence)
    BY <2>2, ForgeryIsRecord
  <2>4. DOMAIN journal' = 1 .. l /\ journal'[i] = f /\ \A x \in 1 .. l : x # i => journal'[x] = journal[x]
    BY <1>4, <2>1, <2>2
  <2>5. IsSeq(journal')
    BY <1>3, <1>4, <2>1, <2>2, RewriteSeq
  <2>6. \A x \in 1 .. l : journal'[x] # Torn => Issued(journal'[x].body, sequence)
    BY <1>3, <1>4, <2>3, <2>4
  <2>7. \A x \in 1 .. l : journal'[x] # Torn => IsRecord(journal'[x].body)
    BY <2>6 DEF Issued
  <2>8. AllBound(acknowledged, journal')
    <3>1. l \in Nat /\ l <= l /\ i \in 1 .. l
      BY <2>2
    <3> QED
      BY <1>2, <1>3, <1>4, <2>4, <2>7, <3>1, RewrittenBound
  <2> QED
    BY <2>4, <2>5, <2>6, <2>8
<1> QED
  BY <1>1, <1>6, <1>7, <1>8 DEF Edited

\* The inductive invariant of a journal whose lines anybody removes, repeats or forges:
\* lines that hash together and end in an acknowledged record are the acknowledged records
\* before it.
THEOREM EditedJournalInvariant == Spec => []HistoryInv
<1>1. Init => HistoryInv
  <2> SUFFICES ASSUME Init PROVE HistoryInv
    OBVIOUS
  <2>1. journal = <<>> /\ ended = TRUE /\ acknowledged = <<>>
    BY DEF Init
  <2>2. DOMAIN journal = {} /\ DOMAIN acknowledged = {} /\ journal \in Seq({})
    BY <2>1
  <2> QED
    BY <2>1, <2>2 DEF HistoryInv, AllBound, IsSeq
<1>2. LedgerInv /\ HistoryInv /\ [Next]_ledger => HistoryInv'
  <2> SUFFICES ASSUME LedgerInv, HistoryInv, [Next]_ledger PROVE HistoryInv'
    OBVIOUS
  <2>1. ASSUME NEW e \in Event, Record(e) PROVE HistoryInv'
    BY <2>1, RecordBinds
  <2>2. ASSUME NEW e \in Event, RecordFails(e) PROVE HistoryInv'
    BY <2>2, RecordFailsBinds
  <2>3. CASE Edit
    BY <2>3, EditBinds
  <2>4. CASE UNCHANGED ledger
    BY <2>4 DEF ledger, HistoryInv, Issued
  <2> QED
    BY <2>1, <2>2, <2>3, <2>4 DEF Next
<1> QED
  BY <1>1, <1>2, LedgerInvariant, PTL DEF Spec

LEMMA BoundIfVerified == LedgerInv /\ HistoryInv => HashBindsHistory
<1> SUFFICES ASSUME LedgerInv, HistoryInv, Verified, NEW n \in DOMAIN acknowledged,
                    Last(journal).receipt_hash = Hash(acknowledged[n])
             PROVE  Bodies = SubSeq(acknowledged, 1, n)
  BY DEF HashBindsHistory
<1>1. IsSeq(acknowledged) /\ IsChain(acknowledged) /\ IsSeq(journal)
  BY ChainOfRecords DEF HistoryInv
<1>2. PICK N \in Nat, l \in Nat : /\ DOMAIN acknowledged = 1 .. N /\ N = Len(acknowledged)
                                  /\ DOMAIN journal = 1 .. l /\ l = Len(journal)
  BY <1>1, AppendSeq
<1>3. l # 0
  <2>1. PICK S : journal \in Seq(S)
    BY <1>1 DEF IsSeq
  <2> QED
    BY <1>2, <2>1 DEF Verified
<1>4. \A i \in 1 .. l : /\ journal[i] # Torn /\ Chained(i) /\ HashMatches(journal[i])
  BY <1>2 DEF Verified, Readable
<1>5. \A a \in 1 .. l : Segment(journal, a, l)
  BY <1>4 DEF Segment, Chained
<1>6. journal[l].body = acknowledged[n]
  BY <1>2, <1>3, <1>4 DEF Last, HashMatches, Hash
<1>7. \A a \in 1 .. l : l - a < n /\ journal[a].body = acknowledged[n - (l - a)]
  <2>1. AllBound(acknowledged, journal) /\ l \in DOMAIN journal
    BY <1>2, <1>3 DEF HistoryInv
  <2>2. \A a \in 1 .. l : BoundTo(acknowledged, journal, a, l)
    BY <2>1 DEF AllBound
  <2> QED
    BY <1>5, <1>6, <2>2 DEF BoundTo
<1>8. n = l
  <2>1. journal[1].body = acknowledged[n - (l - 1)] /\ l - 1 < n
    BY <1>2, <1>3, <1>7
  <2>2. journal[1].body.previous_hash = GENESIS
    BY <1>2, <1>3, <1>4 DEF Chained
  <2>3. PICK m \in 1 .. N : m = n - (l - 1)
    BY <1>2, <1>3, <2>1
  <2>4. m # 1 => acknowledged[m - 1] = GENESIS /\ m - 1 \in 1 .. N
    BY <1>1, <1>2, <2>1, <2>2, <2>3 DEF IsChain
  <2>5. m = 1
    BY <1>2, <2>4, NoHashIsGenesis DEF HistoryInv, Issued, IsRecord
  <2> QED
    BY <1>2, <2>3, <2>5
<1>9. \A a \in 1 .. l : journal[a].body = acknowledged[a]
  BY <1>7, <1>8
<1>10. PICK S : acknowledged \in Seq(S)
  BY <1>1 DEF IsSeq
<1>11. SubSeq(acknowledged, 1, n) = [a \in 1 .. n |-> acknowledged[a]]
  BY <1>2, <1>8, <1>10
<1> QED
  BY <1>2, <1>8, <1>9, <1>11 DEF Bodies

\* Whoever knows one receipt hash that append returned knows the whole history up to it,
\* however many lines of the journal were removed, repeated or forged (verify_ledger).
THEOREM HashesBindHistory == Spec => []HashBindsHistory
  BY LedgerInvariant, EditedJournalInvariant, BoundIfVerified, PTL

-------------------------------------------------------------------------------
(* A run of the fabric.                                                    *)

Legible == ~Broken /\ journal # <<>>

Closing == Last(journal).body.event

Verdicts ==
  {"recovery_committed", "recovery_rolled_back", "run_blocked", "unsafe_failure_retained"}

Before == {"incident_received", "diagnose", "diagnosis", "propose", "patch_proposed", "decide",
           "policy_decision", "policy_bypassed", "act", "run_blocked", "blocked", "apply"}

Patched == {"patch_applied", "verify", "independent_verification", "verification_bypassed",
            "conclude", "recovery_committed", "recovered"}

Failing == {"patch_apply_failed", "repair", "apply_failed"}

Undone == {"recovery_rolled_back", "rolled_back"}

Retaining == {"unsafe_failure_retained", "retained"}

Concluding == {"blocked", "recovered", "rolled_back", "retained"}

\* From the decision to the verdict.
Deciding == {"act", "apply", "patch_applied", "verify", "independent_verification", "conclude",
             "patch_apply_failed", "repair"}

Points == Before \union Patched \union Failing \union Undone \union Retaining \union Terminal

Typed ==
  /\ profile \in PROFILES
  /\ candidate \in Candidate
  /\ workspace \in Tree
  /\ approved \in BOOLEAN /\ before \in BOOLEAN /\ visible \in BOOLEAN /\ invariant \in BOOLEAN
  /\ pc \in Points
  /\ result \in Result \union {None}
  /\ (pc = "returned") <=> (result # None)

Switched ==
  /\ pc = "policy_bypassed" => "governor" \notin profile
  /\ pc = "verification_bypassed" => "verifier" \notin profile
  /\ pc \in Undone => "rollback" \in profile
  /\ pc \in Retaining => "rollback" \notin profile

Judged ==
  /\ "verifier" \in profile =>
       (visible => candidate.fixesVisible) /\ (invariant => candidate.fixesInvariant)
  /\ before => candidate.wasPassing
  /\ "verifier" \notin profile => (invariant => candidate.wasPassing)
  /\ pc \in {"recovery_committed", "recovered"} => visible /\ invariant

Placed ==
  /\ pc \in Before => workspace.content = "captured"
  /\ pc \in Patched => workspace.content = "patched"
  /\ pc \in Undone => workspace = Captured
  /\ pc = "apply_failed" /\ "rollback" \in profile => workspace = Captured

Chronicle ==
  /\ LedgerInv /\ edits = 0
  /\ \A i \in DOMAIN acknowledged : acknowledged[i].event \in DOMAIN Following
  /\ failures # 0 => pc \in Failing \union Terminal
  /\ pc \in Concluding => acknowledged # <<>>

Noted ==
  Legible =>
    /\ pc \notin Concluding \union Terminal => Closing \notin Verdicts
    /\ profile = Full /\ pc \in Deciding => Closing \in Unconcluded
    /\ pc = "blocked" => Closing = "run_blocked"
    /\ pc = "recovered" => Closing = "recovery_committed"
    /\ pc = "rolled_back" => Closing = "recovery_rolled_back"
    /\ pc = "retained" => Closing = "unsafe_failure_retained"

Truthful ==
  Legible =>
    /\ Closing = "recovery_committed" =>
         workspace.content = "patched" /\ ("verifier" \in profile => Sound)
    /\ Closing = "recovery_rolled_back" => workspace = Captured
    /\ Closing = "run_blocked" => workspace.content = "captured"
    /\ Closing = "unsafe_failure_retained" => "rollback" \notin profile

Stopped ==
  profile = Full /\ pc \in Terminal /\ workspace.content # "captured" =>
    \/ verified /\ Sound
    \/ result = None /\ (Legible => Closing \in Unconcluded)

FabricInv ==
  /\ Typed /\ Switched /\ Judged /\ Placed
  /\ Chronicle /\ Noted /\ Truthful
  /\ Stopped /\ ResultIsTrue /\ ResultIsRecorded

-------------------------------------------------------------------------------

LEMMA FollowingTable ==
  /\ DOMAIN Following =
       {"incident_received", "diagnosis", "patch_proposed", "policy_decision", "policy_bypassed",
        "run_blocked", "patch_applied", "patch_apply_failed", "independent_verification",
        "verification_bypassed", "recovery_committed", "recovery_rolled_back",
        "unsafe_failure_retained"}
  /\ Following["incident_received"] = "diagnose"
  /\ Following["diagnosis"] = "propose"
  /\ Following["patch_proposed"] = "decide"
  /\ Following["policy_decision"] = "act"
  /\ Following["policy_bypassed"] = "act"
  /\ Following["run_blocked"] = "blocked"
  /\ Following["patch_applied"] = "verify"
  /\ Following["patch_apply_failed"] = "repair"
  /\ Following["independent_verification"] = "conclude"
  /\ Following["verification_bypassed"] = "conclude"
  /\ Following["recovery_committed"] = "recovered"
  /\ Following["recovery_rolled_back"] = "rolled_back"
  /\ Following["unsafe_failure_retained"] = "retained"
  BY DEF Following

\* The last event of a journal that is not broken is the one whose append returned last.
LEMMA RecordCloses ==
  ASSUME LedgerInv, edits = 0, NEW e \in Event, Record(e)
  PROVE  /\ LedgerInv' /\ edits' = 0 /\ failures' = failures
         /\ acknowledged' # <<>>
         /\ \A i \in DOMAIN acknowledged' :
              \/ acknowledged'[i].event = e
              \/ i \in DOMAIN acknowledged /\ acknowledged'[i] = acknowledged[i]
         /\ Legible' => Closing' = e
<1>1. PICK b : b = Body(e)
  OBVIOUS
<1>2. b.event = e /\ Line(b).body.event = e
  BY <1>1 DEF Body, Line
<1>3. journal' = Added(Line(b)) /\ acknowledged' = Append(acknowledged, b) /\ edits' = edits
      /\ failures' = failures
  BY <1>1 DEF Record
<1>4. IsSeq(journal) /\ IsSeq(acknowledged)
  BY DEF LedgerInv, Counted
<1>5. /\ Len(acknowledged) \in Nat
      /\ Len(acknowledged') = Len(acknowledged) + 1
      /\ DOMAIN acknowledged = 1 .. Len(acknowledged)
      /\ DOMAIN acknowledged' = 1 .. Len(acknowledged) + 1
      /\ \A i \in DOMAIN acknowledged : acknowledged'[i] = acknowledged[i]
      /\ acknowledged'[Len(acknowledged) + 1] = b
  BY <1>3, <1>4, AppendSeq
<1>6. acknowledged' # <<>>
  BY <1>5
<1>7. \A i \in DOMAIN acknowledged' :
        \/ acknowledged'[i].event = e
        \/ i \in DOMAIN acknowledged /\ acknowledged'[i] = acknowledged[i]
  BY <1>2, <1>5
<1>8. ASSUME Legible'
      PROVE  Closing' = e
  <2>1. journal' = Append(journal, Line(b))
    BY <1>1, <1>3, <1>8, AppendLine DEF Legible
  <2>2. Len(journal') = Len(journal) + 1 /\ journal'[Len(journal) + 1] = Line(b)
    BY <1>4, <2>1, AppendSeq
  <2> QED
    BY <1>2, <2>2 DEF Closing, Last
<1> QED
  BY <1>3, <1>6, <1>7, <1>8, RecordKeeps

LEMMA FailureCloses ==
  ASSUME LedgerInv, edits = 0, NEW e \in Event, RecordFails(e)
  PROVE  /\ LedgerInv' /\ edits' = 0 /\ acknowledged' = acknowledged
         /\ Legible' => (Closing' = e \/ (Legible /\ Closing' = Closing))
<1>1. PICK b : b = Body(e)
  OBVIOUS
<1>2. Line(b).body.event = e
  BY <1>1 DEF Body, Line
<1>3. acknowledged' = acknowledged /\ edits' = edits
  BY DEF RecordFails
<1>4. IsSeq(journal) /\ ended \in BOOLEAN
  BY DEF LedgerInv, Counted
<1>5. ASSUME Legible'
      PROVE  Closing' = e \/ (Legible /\ Closing' = Closing)
  <2>1. CASE journal' = journal
    <3>1. Broken' = Broken /\ Closing' = Closing
      BY <2>1 DEF Broken, Sane, Chained, Closing
    <3> QED
      BY <1>5, <2>1, <3>1 DEF Legible
  <2>2. CASE journal' = Added(Torn)
    <3>1. CASE Broken \/ (~ended /\ journal # <<>>) \/ ended
      BY <1>4, <1>5, <2>2, <3>1, BrokenStays DEF Legible
    <3>2. CASE ~Broken /\ ~ended /\ journal = <<>>
      <4>1. Trailing
        BY <3>2 DEF LedgerInv, Aligned, Exact
      <4>2. Len(journal) = 0 /\ Len(acknowledged) \in Nat
        BY <3>2, AppendSeq DEF LedgerInv, Counted
      <4> QED
        BY <4>1, <4>2 DEF Trailing
    <3> QED
      BY <1>4, <3>1, <3>2
  <2>3. CASE journal' = Added(Line(b))
    <3>1. journal' = Append(journal, Line(b))
      BY <1>1, <1>5, <2>3, AppendLine DEF Legible
    <3>2. Len(journal') = Len(journal) + 1 /\ journal'[Len(journal) + 1] = Line(b)
      BY <1>4, <3>1, AppendSeq
    <3> QED
      BY <1>2, <3>2 DEF Closing, Last
  <2> QED
    BY <1>1, <2>1, <2>2, <2>3 DEF RecordFails
<1> QED
  BY <1>3, <1>5, RecordFailsKeeps

LEMMA LedgerUnchanged ==
  ASSUME Chronicle, UNCHANGED ledger
  PROVE  /\ LedgerInv' /\ edits' = 0 /\ acknowledged' = acknowledged /\ failures' = failures
         /\ Legible' = Legible /\ Closing' = Closing /\ Verified' = Verified
<1>1. /\ sequence' = sequence /\ previous_hash' = previous_hash /\ journal' = journal
      /\ ended' = ended /\ acknowledged' = acknowledged /\ failures' = failures
      /\ edits' = edits
  BY DEF ledger
<1>2. Legible' = Legible /\ Closing' = Closing
  BY <1>1 DEF Legible, Closing, Broken, Sane, Chained
<1>3. Verified' = Verified
  BY <1>1 DEF Verified, Chained
<1> QED
  BY <1>1, <1>2, <1>3, LedgerStutters DEF Chronicle

LEMMA VerifiedIsLegible == Verified => Legible
  BY DEF Verified, Readable, Legible, Broken, Sane

\* At the end of a run whose appends all returned the journal verifies.
LEMMA ConcludedIsVerified ==
  ASSUME Chronicle, pc \in Concluding
  PROVE  Verified
<1>1. \A i \in DOMAIN acknowledged : acknowledged[i].event \notin Separated
  BY FabricAssumption DEF Chronicle
<1>2. failures = 0
  BY DEF Chronicle, Concluding, Failing, Terminal
<1> QED
  BY <1>1, <1>2, ExactVerifies DEF Chronicle

-------------------------------------------------------------------------------
(* The steps of a run                                                      *)

\* A step between two points that appends nothing and ends nothing.
Quiet ==
  /\ UNCHANGED <<ledger, profile, result>>
  /\ pc \notin Concluding \union Terminal
  /\ pc' \in Points \ (Concluding \union Terminal)
  /\ pc \in Failing => pc' \in Failing
  /\ pc' \in Deciding => pc \in Deciding

LEMMA QuietKeeps ==
  ASSUME FabricInv, Quiet, Typed', Switched', Judged', Placed'
  PROVE  FabricInv'
<1>1. /\ LedgerInv' /\ edits' = 0 /\ acknowledged' = acknowledged /\ failures' = failures
      /\ Legible' = Legible /\ Closing' = Closing
  BY LedgerUnchanged DEF FabricInv, Quiet
<1>2. result = None /\ result' = None
  <2>1. pc # "returned"
    BY DEF Quiet, Terminal
  <2> QED
    BY <2>1 DEF FabricInv, Typed, Quiet
<1>3. Chronicle'
  <2>1. \A i \in DOMAIN acknowledged' : acknowledged'[i].event \in DOMAIN Following
    BY <1>1 DEF FabricInv, Chronicle
  <2>2. failures' # 0 => pc' \in Failing \union Terminal
    BY <1>1 DEF FabricInv, Chronicle, Quiet
  <2>3. pc' \notin Concluding
    BY DEF Quiet
  <2> QED
    BY <1>1, <2>1, <2>2, <2>3 DEF Chronicle
<1>4. pc' \notin Concluding /\ pc' \notin Terminal /\ profile' = profile
  BY DEF Quiet
<1>5. Legible => Closing \notin Verdicts
  BY DEF FabricInv, Noted, Quiet
<1>6. Noted'
  BY <1>1, <1>4, <1>5 DEF FabricInv, Noted, Quiet, Concluding
<1>7. Truthful'
  BY <1>1, <1>5 DEF Truthful, Verdicts
<1>8. Stopped' /\ ResultIsTrue' /\ ResultIsRecorded'
  BY <1>2, <1>4 DEF Stopped, ResultIsTrue, ResultIsRecorded
<1> QED
  BY <1>3, <1>6, <1>7, <1>8 DEF FabricInv

LEMMA SuiteTree ==
  ASSUME NEW t \in Tree, NEW u \in RunSuite(t)
  PROVE  u \in Tree /\ u.content = t.content
  BY DEF Tree, RunSuite

LEMMA CapturedTree == Captured \in Tree /\ Captured.content = "captured"
  BY DEF Captured, Tree

LEMMA DiagnoseKeeps == ASSUME FabricInv, Diagnose PROVE FabricInv'
<1>1. /\ pc = "diagnose" /\ pc' = "diagnosis" /\ workspace' \in RunSuite(workspace)
      /\ before' \in Outcomes(candidate.wasPassing)
      /\ UNCHANGED <<ledger, profile, candidate, approved, visible, invariant, result>>
  BY DEF Diagnose
<1>2. Typed
  BY DEF FabricInv
<1>3. workspace' \in Tree /\ workspace'.content = workspace.content
  BY <1>1, <1>2, SuiteTree DEF Typed
<1>4. before' \in BOOLEAN /\ (before' => candidate.wasPassing)
  <2>1. before' \in {FALSE, candidate.wasPassing} /\ candidate.wasPassing \in BOOLEAN
    BY <1>1, <1>2 DEF Typed, Candidate, Outcomes
  <2> QED
    BY <2>1
<1>5. Typed'
  BY <1>1, <1>2, <1>3, <1>4 DEF Typed, Points, Before, Terminal
<1>6. Switched' /\ Judged'
  BY <1>1, <1>4 DEF FabricInv, Switched, Judged, Undone, Retaining
<1>7. Placed'
  BY <1>1, <1>3 DEF FabricInv, Placed, Before, Patched, Undone
<1>8. Quiet
  BY <1>1 DEF Quiet, Points, Before, Concluding, Terminal, Failing, Deciding
<1> QED
  BY <1>5, <1>6, <1>7, <1>8, QuietKeeps

LEMMA ProposeKeeps == ASSUME FabricInv, Propose PROVE FabricInv'
<1>1. /\ pc = "propose" /\ pc' = "patch_proposed"
      /\ UNCHANGED <<ledger, profile, candidate, workspace, approved, before, visible, invariant,
                     result>>
  BY DEF Propose
<1>2. Typed'
  BY <1>1 DEF FabricInv, Typed, Points, Before, Terminal
<1>3. Switched' /\ Judged'
  BY <1>1 DEF FabricInv, Switched, Judged, Undone, Retaining
<1>4. Placed'
  BY <1>1 DEF FabricInv, Placed, Before, Patched, Undone
<1>5. Quiet
  BY <1>1 DEF Quiet, Points, Before, Concluding, Terminal, Failing, Deciding
<1> QED
  BY <1>2, <1>3, <1>4, <1>5, QuietKeeps

LEMMA DecideKeeps == ASSUME FabricInv, Decide PROVE FabricInv'
<1>1. /\ pc = "decide"
      /\ \/ pc' = "policy_decision"
         \/ pc' = "policy_bypassed" /\ "governor" \notin profile
      /\ approved' \in BOOLEAN
      /\ UNCHANGED <<ledger, profile, candidate, workspace, before, visible, invariant, result>>
  BY DEF Decide, Approves
<1>2. Typed'
  BY <1>1 DEF FabricInv, Typed, Points, Before, Terminal
<1>3. Switched' /\ Judged'
  BY <1>1 DEF FabricInv, Switched, Judged, Undone, Retaining
<1>4. Placed'
  BY <1>1 DEF FabricInv, Placed, Before, Patched, Undone
<1>5. Quiet
  BY <1>1 DEF Quiet, Points, Before, Concluding, Terminal, Failing, Deciding
<1> QED
  BY <1>2, <1>3, <1>4, <1>5, QuietKeeps

LEMMA ActKeeps == ASSUME FabricInv, Act PROVE FabricInv'
<1>1. /\ pc = "act" /\ pc' \in {"apply", "run_blocked"}
      /\ UNCHANGED <<ledger, profile, candidate, workspace, approved, before, visible, invariant,
                     result>>
  BY DEF Act
<1>2. Typed'
  BY <1>1 DEF FabricInv, Typed, Points, Before, Terminal
<1>3. Switched' /\ Judged'
  BY <1>1 DEF FabricInv, Switched, Judged, Undone, Retaining
<1>4. Placed'
  BY <1>1 DEF FabricInv, Placed, Before, Patched, Undone
<1>5. Quiet
  BY <1>1 DEF Quiet, Points, Before, Concluding, Terminal, Failing, Deciding
<1> QED
  BY <1>2, <1>3, <1>4, <1>5, QuietKeeps

LEMMA ApplyKeeps == ASSUME FabricInv, Apply PROVE FabricInv'
<1>1. /\ pc = "apply" /\ pc' \in {"patch_applied", "patch_apply_failed"}
      /\ UNCHANGED <<ledger, profile, candidate, approved, before, visible, invariant, result>>
  BY DEF Apply
<1>2. workspace \in Tree
  BY DEF FabricInv, Typed
<1>3. workspace' \in Tree /\ (pc' = "patch_applied" => workspace'.content = "patched")
  BY <1>2 DEF Apply, Tree
<1>4. Typed'
  BY <1>1, <1>3 DEF FabricInv, Typed, Points, Patched, Failing, Terminal
<1>5. Switched' /\ Judged'
  BY <1>1 DEF FabricInv, Switched, Judged, Undone, Retaining
<1>6. Placed'
  BY <1>1, <1>3 DEF Placed, Before, Patched, Undone
<1>7. Quiet
  BY <1>1 DEF Quiet, Points, Patched, Failing, Concluding, Terminal, Deciding
<1> QED
  BY <1>4, <1>5, <1>6, <1>7, QuietKeeps

LEMMA RepairKeeps == ASSUME FabricInv, Repair PROVE FabricInv'
<1>1. /\ pc = "repair" /\ pc' = "apply_failed"
      /\ workspace' = IF "rollback" \in profile THEN Captured ELSE workspace
      /\ UNCHANGED <<ledger, profile, candidate, approved, before, visible, invariant, result>>
  BY DEF Repair
<1>2. workspace' \in Tree
  BY <1>1, CapturedTree DEF FabricInv, Typed
<1>3. Typed'
  BY <1>1, <1>2 DEF FabricInv, Typed, Points, Failing, Terminal
<1>4. Switched' /\ Judged'
  BY <1>1 DEF FabricInv, Switched, Judged, Undone, Retaining
<1>5. Captured' = Captured
  BY DEF Captured
<1>6. Placed'
  BY <1>1, <1>5 DEF Placed, Before, Patched, Undone
<1>7. Quiet
  BY <1>1 DEF Quiet, Points, Failing, Concluding, Terminal, Deciding
<1> QED
  BY <1>3, <1>4, <1>6, <1>7, QuietKeeps

LEMMA VerifyKeeps == ASSUME FabricInv, Verify PROVE FabricInv'
<1>1. /\ pc = "verify" /\ pc' \in {"independent_verification", "verification_bypassed"}
      /\ pc' = "verification_bypassed" => "verifier" \notin profile
      /\ UNCHANGED <<ledger, profile, candidate, approved, before, result>>
  BY DEF Verify
<1>2. Typed /\ candidate.fixesVisible \in BOOLEAN /\ candidate.fixesInvariant \in BOOLEAN
  BY DEF FabricInv, Typed, Candidate
<1>3. workspace' \in Tree /\ workspace'.content = workspace.content
  BY <1>2, SuiteTree DEF Verify, Typed
<1>4. /\ visible' \in BOOLEAN /\ invariant' \in BOOLEAN
      /\ "verifier" \in profile => /\ visible' => candidate.fixesVisible
                                   /\ invariant' => candidate.fixesInvariant
      /\ "verifier" \notin profile => (invariant' => candidate.wasPassing)
  <2>1. CASE "verifier" \in profile
    <3>1. visible' \in {FALSE, candidate.fixesVisible} /\ invariant' \in {FALSE, candidate.fixesInvariant}
      BY <2>1 DEF Verify, Outcomes
    <3> QED
      BY <1>2, <2>1, <3>1
  <2>2. CASE "verifier" \notin profile
    <3>1. visible' = before /\ invariant' = before
      BY <2>2 DEF Verify
    <3> QED
      BY <1>2, <2>2, <3>1 DEF FabricInv, Typed, Judged
  <2> QED
    BY <2>1, <2>2
<1>5. Typed'
  BY <1>1, <1>2, <1>3, <1>4 DEF Typed, Points, Patched, Terminal
<1>6. Switched' /\ Judged'
  BY <1>1, <1>4 DEF FabricInv, Switched, Judged, Undone, Retaining
<1>7. Placed'
  BY <1>1, <1>3 DEF FabricInv, Placed, Before, Patched, Undone
<1>8. Quiet
  BY <1>1 DEF Quiet, Points, Patched, Failing, Concluding, Terminal, Deciding
<1> QED
  BY <1>5, <1>6, <1>7, <1>8, QuietKeeps

LEMMA ConcludeKeeps == ASSUME FabricInv, Conclude PROVE FabricInv'
<1>1. /\ pc = "conclude"
      /\ UNCHANGED <<ledger, profile, candidate, approved, before, visible, invariant, result>>
      /\ workspace' = IF pc' = "recovery_rolled_back" THEN Captured ELSE workspace
  BY DEF Conclude
<1>2. \/ verified /\ pc' = "recovery_committed"
      \/ "rollback" \in profile /\ pc' = "recovery_rolled_back"
      \/ "rollback" \notin profile /\ pc' = "unsafe_failure_retained"
  BY DEF Conclude
<1>3. workspace' \in Tree
  BY <1>1, CapturedTree DEF FabricInv, Typed
<1>4. Typed'
  BY <1>1, <1>2, <1>3 DEF FabricInv, Typed, Points, Patched, Undone, Retaining, Terminal
<1>5. Switched' /\ Judged'
  BY <1>1, <1>2 DEF FabricInv, Switched, Judged, Undone, Retaining, verified
<1>6. Captured' = Captured
  BY DEF Captured
<1>7. Placed'
  BY <1>1, <1>2, <1>6 DEF FabricInv, Placed, Before, Patched, Undone
<1>8. Quiet
  BY <1>1, <1>2 DEF Quiet, Points, Patched, Undone, Retaining, Failing, Concluding, Terminal, Deciding
<1> QED
  BY <1>4, <1>5, <1>7, <1>8, QuietKeeps

LEMMA EventsRecordable == DOMAIN Following \subseteq Event
  BY FabricAssumption

LEMMA LogKeeps == ASSUME FabricInv, Log PROVE FabricInv'
<1>1. /\ pc \in DOMAIN Following /\ Record(pc) /\ pc' = Following[pc]
      /\ UNCHANGED <<profile, candidate, workspace, approved, before, visible, invariant, result>>
  BY DEF Log
<1>2. LedgerInv /\ edits = 0 /\ pc \in Event
  BY <1>1, EventsRecordable DEF FabricInv, Chronicle
<1>3. /\ LedgerInv' /\ edits' = 0 /\ failures' = failures /\ acknowledged' # <<>>
      /\ \A i \in DOMAIN acknowledged' :
           \/ acknowledged'[i].event = pc
           \/ i \in DOMAIN acknowledged /\ acknowledged'[i] = acknowledged[i]
      /\ Legible' => Closing' = pc
  BY <1>1, <1>2, RecordCloses
<1>4. pc' \notin Terminal /\ pc' \in Points /\ pc \notin Terminal
  BY <1>1, FollowingTable DEF Points, Before, Patched, Failing, Undone, Retaining, Terminal
<1>5. Typed'
  BY <1>1, <1>4 DEF FabricInv, Typed, Terminal
<1>6. Switched' /\ Judged'
  <2>1. /\ pc' \notin {"policy_bypassed", "verification_bypassed", "recovery_rolled_back",
                       "unsafe_failure_retained", "recovery_committed"}
        /\ pc' = "rolled_back" => pc = "recovery_rolled_back"
        /\ pc' = "retained" => pc = "unsafe_failure_retained"
        /\ pc' = "recovered" => pc = "recovery_committed"
    BY <1>1, FollowingTable
  <2> QED
    BY <1>1, <2>1 DEF FabricInv, Switched, Judged, Undone, Retaining
<1>7. Placed'
  <2>1. /\ pc' \in Before => pc \in Before
        /\ pc' \in Patched => pc \in Patched
        /\ pc' \in Undone => pc \in Undone
        /\ pc' # "apply_failed"
    BY <1>1, FollowingTable DEF Before, Patched, Undone
  <2>2. Captured' = Captured
    BY DEF Captured
  <2> QED
    BY <1>1, <2>1, <2>2 DEF FabricInv, Placed
<1>8. Chronicle'
  <2>1. pc \in Failing => pc' \in Failing
    BY <1>1, FollowingTable DEF Failing
  <2>2. failures # 0 => pc \in Failing
    BY <1>4 DEF FabricInv, Chronicle
  <2>3. \A i \in DOMAIN acknowledged' : acknowledged'[i].event \in DOMAIN Following
    BY <1>1, <1>3 DEF FabricInv, Chronicle
  <2> QED
    BY <1>3, <2>1, <2>2, <2>3 DEF Chronicle
<1>9. Noted'
  <2>1. /\ pc' \notin Concluding => pc \notin Verdicts
        /\ pc' \in Deciding /\ pc # "policy_bypassed" /\ pc # "verification_bypassed"
             => pc \in Unconcluded
        /\ pc' = "blocked" => pc = "run_blocked"
        /\ pc' = "recovered" => pc = "recovery_committed"
        /\ pc' = "rolled_back" => pc = "recovery_rolled_back"
        /\ pc' = "retained" => pc = "unsafe_failure_retained"
    BY <1>1, FollowingTable DEF Concluding, Verdicts, Deciding, Unconcluded
  <2>2. profile = Full => pc # "policy_bypassed" /\ pc # "verification_bypassed"
    BY DEF FabricInv, Switched, Full
  <2> QED
    BY <1>1, <1>3, <2>1, <2>2 DEF Noted
<1>10. Truthful'
  <2>1. /\ pc = "recovery_committed" =>
             workspace.content = "patched" /\ ("verifier" \in profile => Sound)
        /\ pc = "recovery_rolled_back" => workspace = Captured
        /\ pc = "run_blocked" => workspace.content = "captured"
        /\ pc = "unsafe_failure_retained" => "rollback" \notin profile
    <3>1. pc = "recovery_committed" => visible /\ invariant
      BY DEF FabricInv, Judged
    <3> QED
      BY <3>1 DEF FabricInv, Judged, Switched, Placed, Sound, Patched, Undone, Before, Retaining
  <2>2. Captured' = Captured /\ Sound' = Sound
    BY <1>1 DEF Captured, Sound
  <2> QED
    BY <1>1, <1>3, <2>1, <2>2 DEF Truthful
<1>11. Stopped' /\ ResultIsTrue' /\ ResultIsRecorded'
  <2>1. result' = None
    BY <1>1, <1>4 DEF FabricInv, Typed, Terminal
  <2> QED
    BY <1>4, <2>1 DEF Stopped, ResultIsTrue, ResultIsRecorded
<1> QED
  BY <1>5, <1>6, <1>7, <1>8, <1>9, <1>10, <1>11 DEF FabricInv

\* What an append that fails leaves of the invariant, wherever the run goes from there.
LEMMA FailureKeepsChronicle ==
  ASSUME FabricInv, pc \in DOMAIN Following, RecordFails(pc),
         UNCHANGED <<profile, candidate, workspace, approved, before, visible, invariant, result>>,
         pc' \in {"patch_apply_failed", "raised", "killed"},
         pc' = "patch_apply_failed" => pc = "patch_applied"
  PROVE  FabricInv'
<1>1. LedgerInv /\ edits = 0 /\ pc \in Event
  BY EventsRecordable DEF FabricInv, Chronicle
<1>2. /\ LedgerInv' /\ edits' = 0 /\ acknowledged' = acknowledged
      /\ Legible' => (Closing' = pc \/ (Legible /\ Closing' = Closing))
  BY <1>1, FailureCloses
<1>3. pc \notin Concluding \union Terminal /\ pc' \notin Concluding
  BY FollowingTable DEF Concluding, Terminal
<1>4. result = None /\ result' = None
  BY <1>3 DEF FabricInv, Typed, Terminal
<1>5. Typed'
  BY <1>4 DEF FabricInv, Typed, Points, Failing, Terminal
<1>6. Switched' /\ Judged' /\ Placed'
  BY DEF FabricInv, Switched, Judged, Placed, Undone, Retaining, Before, Patched
<1>7. Chronicle'
  <2>1. pc' \in Failing \union Terminal
    BY DEF Failing, Terminal
  <2> QED
    BY <1>2, <1>3, <2>1 DEF FabricInv, Chronicle
<1>8. /\ pc = "recovery_committed" =>
           workspace.content = "patched" /\ ("verifier" \in profile => Sound)
      /\ pc = "recovery_rolled_back" => workspace = Captured
      /\ pc = "run_blocked" => workspace.content = "captured"
      /\ pc = "unsafe_failure_retained" => "rollback" \notin profile
  <2>1. pc = "recovery_committed" => visible /\ invariant
    BY DEF FabricInv, Judged
  <2> QED
    BY <2>1 DEF FabricInv, Judged, Switched, Placed, Sound, Patched, Undone, Before, Retaining
<1>9. Truthful'
  <2>1. Captured' = Captured /\ Sound' = Sound
    BY DEF Captured, Sound
  <2> QED
    BY <1>2, <1>8, <2>1 DEF FabricInv, Truthful
<1>10. Noted'
  <2>1. Legible => Closing \notin Verdicts /\ (profile = Full /\ pc \in Deciding => Closing \in Unconcluded)
    BY <1>3 DEF FabricInv, Noted
  <2>2. pc' \notin Terminal => pc = "patch_applied"
    BY DEF Terminal
  <2>3. pc = "patch_applied" => pc \notin Verdicts /\ pc \in Unconcluded /\ pc \in Deciding
    BY DEF Verdicts, Unconcluded, Deciding
  <2>4. pc' \in Deciding => pc = "patch_applied"
    BY DEF Deciding
  <2>5. pc' \notin {"blocked", "recovered", "rolled_back", "retained"}
    OBVIOUS
  <2> QED
    BY <1>2, <2>1, <2>2, <2>3, <2>4, <2>5 DEF Noted
<1>11. Stopped'
  <2> SUFFICES ASSUME profile = Full, workspace.content # "captured", ~(verified /\ Sound), Legible'
               PROVE  Closing' \in Unconcluded
    BY <1>4 DEF Stopped, verified, Sound
  <2>1. pc \notin Before /\ pc \notin Undone
    BY DEF FabricInv, Placed, Captured
  <2>2. pc # "recovery_committed"
    BY DEF FabricInv, Judged, verified, Sound, Full
  <2>3. /\ pc # "unsafe_failure_retained" /\ pc # "verification_bypassed"
    BY DEF FabricInv, Switched, Full, Retaining
  <2>4. pc \in Deciding /\ pc \in Unconcluded
    BY <2>1, <2>2, <2>3, FollowingTable DEF Before, Undone, Deciding, Unconcluded
  <2> QED
    BY <1>2, <2>4 DEF FabricInv, Noted
<1>12. ResultIsTrue' /\ ResultIsRecorded'
  BY <1>4 DEF ResultIsTrue, ResultIsRecorded
<1> QED
  BY <1>5, <1>6, <1>7, <1>9, <1>10, <1>11, <1>12 DEF FabricInv

LEMMA LogFailsKeeps == ASSUME FabricInv, LogFails PROVE FabricInv'
<1>1. pc' = IF pc = "patch_applied" THEN "patch_apply_failed" ELSE "raised"
  BY DEF LogFails, OnAppendError
<1>2. /\ pc' \in {"patch_apply_failed", "raised", "killed"}
      /\ pc' = "patch_apply_failed" => pc = "patch_applied"
  BY <1>1
<1> QED
  BY <1>2, FailureKeepsChronicle DEF LogFails

LEMMA ReturnKeeps ==
  ASSUME FabricInv, pc \in Concluding \union {"apply_failed"}, pc' = "returned",
         UNCHANGED <<ledger, profile, candidate, workspace, approved, before, visible, invariant>>,
         result' \in Result,
         ResultIsTrue',
         result'.outcome # "failed" => Verified /\ Closing \in Verdict[result'.outcome],
         profile = Full /\ workspace.content # "captured" => verified /\ Sound
  PROVE  FabricInv'
<1>1. /\ LedgerInv' /\ edits' = 0 /\ acknowledged' = acknowledged /\ failures' = failures
      /\ Legible' = Legible /\ Closing' = Closing /\ Verified' = Verified
  BY LedgerUnchanged DEF FabricInv
<1>2. Typed'
  BY FabricAssumption DEF FabricInv, Typed, Points, Terminal
<1>3. Switched' /\ Judged' /\ Placed'
  BY DEF FabricInv, Switched, Judged, Placed, Undone, Retaining, Before, Patched
<1>4. Chronicle'
  BY <1>1 DEF FabricInv, Chronicle, Terminal, Concluding
<1>5. Noted'
  BY DEF Noted, Terminal, Deciding
<1>6. Truthful'
  <2>1. Captured' = Captured /\ Sound' = Sound
    BY DEF Captured, Sound
  <2> QED
    BY <1>1, <2>1 DEF FabricInv, Truthful
<1>7. Stopped'
  BY DEF Stopped, verified, Sound
<1>8. ResultIsRecorded'
  <2>1. Last(journal') = Last(journal)
    BY DEF ledger
  <2> QED
    BY <1>1, <2>1 DEF ResultIsRecorded, Closing, Verdict
<1> QED
  BY <1>2, <1>3, <1>4, <1>5, <1>6, <1>7, <1>8 DEF FabricInv

LEMMA MatchesIsBoolean == Matches \in BOOLEAN /\ Touched \in BOOLEAN
  BY DEF Matches, Touched

LEMMA ReturnBlockedKeeps == ASSUME FabricInv, ReturnBlocked PROVE FabricInv'
<1>1. /\ pc = "blocked" /\ pc' = "returned"
      /\ UNCHANGED <<ledger, profile, candidate, workspace, approved, before, visible, invariant>>
      /\ result' = [outcome |-> "blocked", accepted |-> FALSE, invariant_tests_passed |-> FALSE,
                    safety_violation |-> FALSE, rollback_verified |-> Matches]
  BY DEF ReturnBlocked, Return
<1>2. workspace.content = "captured"
  BY <1>1 DEF FabricInv, Placed, Before
<1>3. result' \in Result
  BY <1>1, MatchesIsBoolean DEF Result
<1>4. ResultIsTrue'
  BY <1>1, <1>2 DEF ResultIsTrue, Matches, Captured
<1>5. Verified /\ Closing = "run_blocked"
  BY <1>1, ConcludedIsVerified, VerifiedIsLegible DEF FabricInv, Noted, Concluding
<1>6. Closing \in Verdict["blocked"]
  BY <1>5 DEF Verdict
<1> QED
  BY <1>1, <1>2, <1>3, <1>4, <1>5, <1>6, ReturnKeeps DEF Concluding

LEMMA ReturnApplyFailedKeeps == ASSUME FabricInv, ReturnApplyFailed PROVE FabricInv'
<1>1. /\ pc = "apply_failed" /\ pc' = "returned"
      /\ UNCHANGED <<ledger, profile, candidate, workspace, approved, before, visible, invariant>>
      /\ result' = [outcome |-> "failed", accepted |-> FALSE, invariant_tests_passed |-> FALSE,
                    safety_violation |-> TRUE, rollback_verified |-> Matches]
  BY DEF ReturnApplyFailed, Return
<1>2. "rollback" \in profile => workspace.content = "captured"
  BY <1>1 DEF FabricInv, Placed, Captured
<1>3. result' \in Result
  BY <1>1, MatchesIsBoolean DEF Result
<1>4. ResultIsTrue'
  BY <1>1, <1>2 DEF ResultIsTrue, Matches, Captured
<1>5. profile = Full => workspace.content = "captured"
  BY <1>2 DEF Full
<1> QED
  BY <1>1, <1>3, <1>4, <1>5, ReturnKeeps

LEMMA ReturnRecoveredKeeps == ASSUME FabricInv, ReturnRecovered PROVE FabricInv'
<1>1. /\ pc = "recovered" /\ pc' = "returned"
      /\ UNCHANGED <<ledger, profile, candidate, workspace, approved, before, visible, invariant>>
      /\ result' = [outcome |-> "recovered", accepted |-> TRUE, invariant_tests_passed |-> invariant,
                    safety_violation |-> Touched, rollback_verified |-> FALSE]
  BY DEF ReturnRecovered, Return
<1>2. workspace.content = "patched" /\ invariant \in BOOLEAN
  BY <1>1 DEF FabricInv, Placed, Patched, Typed
<1>3. /\ verified /\ ("verifier" \in profile => Sound)
      /\ "verifier" \notin profile => candidate.wasPassing
  BY <1>1 DEF FabricInv, Judged, verified, Sound
<1>4. result' \in Result
  BY <1>1, <1>2, MatchesIsBoolean DEF Result
<1>5. ResultIsTrue'
  <2>1. Sound' = Sound
    BY <1>1 DEF Sound
  <2> QED
    BY <1>1, <1>2, <1>3, <2>1 DEF ResultIsTrue, verified, Sound
<1>6. Verified /\ Closing = "recovery_committed"
  BY <1>1, ConcludedIsVerified, VerifiedIsLegible DEF FabricInv, Noted, Concluding
<1>7. Closing \in Verdict["recovered"]
  BY <1>6 DEF Verdict
<1>8. profile = Full => Sound
  BY <1>3 DEF Full
<1> QED
  BY <1>1, <1>3, <1>4, <1>5, <1>6, <1>7, <1>8, ReturnKeeps DEF Concluding

LEMMA ReturnRolledBackKeeps == ASSUME FabricInv, ReturnRolledBack PROVE FabricInv'
<1>1. /\ pc = "rolled_back" /\ pc' = "returned"
      /\ UNCHANGED <<ledger, profile, candidate, workspace, approved, before, visible, invariant>>
      /\ result' = [outcome |-> "rolled_back", accepted |-> FALSE,
                    invariant_tests_passed |-> invariant, safety_violation |-> Touched,
                    rollback_verified |-> Matches]
  BY DEF ReturnRolledBack, Return
<1>2. workspace.content = "captured" /\ invariant \in BOOLEAN
  BY <1>1, CapturedTree DEF FabricInv, Placed, Undone, Typed
<1>3. result' \in Result
  BY <1>1, <1>2, MatchesIsBoolean DEF Result
<1>4. ResultIsTrue'
  <2>1. invariant => IF "verifier" \in profile THEN candidate.fixesInvariant ELSE candidate.wasPassing
    BY DEF FabricInv, Judged
  <2> QED
    BY <1>1, <1>2, <2>1 DEF ResultIsTrue, Matches, Captured
<1>5. Verified /\ Closing = "recovery_rolled_back"
  BY <1>1, ConcludedIsVerified, VerifiedIsLegible DEF FabricInv, Noted, Concluding
<1>6. Closing \in Verdict["rolled_back"]
  BY <1>5 DEF Verdict
<1> QED
  BY <1>1, <1>2, <1>3, <1>4, <1>5, <1>6, ReturnKeeps DEF Concluding

LEMMA ReturnRetainedKeeps == ASSUME FabricInv, ReturnRetained PROVE FabricInv'
<1>1. /\ pc = "retained" /\ pc' = "returned"
      /\ UNCHANGED <<ledger, profile, candidate, workspace, approved, before, visible, invariant>>
      /\ result' = [outcome |-> "failed", accepted |-> TRUE, invariant_tests_passed |-> invariant,
                    safety_violation |-> Touched, rollback_verified |-> FALSE]
  BY DEF ReturnRetained, Return
<1>2. "rollback" \notin profile /\ invariant \in BOOLEAN
  BY <1>1 DEF FabricInv, Switched, Retaining, Typed
<1>3. result' \in Result
  BY <1>1, <1>2, MatchesIsBoolean DEF Result
<1>4. ResultIsTrue'
  <2>1. invariant => IF "verifier" \in profile THEN candidate.fixesInvariant ELSE candidate.wasPassing
    BY DEF FabricInv, Judged
  <2> QED
    BY <1>1, <1>2, <2>1 DEF ResultIsTrue
<1>5. profile # Full
  BY <1>2 DEF Full
<1> QED
  BY <1>1, <1>3, <1>4, <1>5, ReturnKeeps DEF Concluding

-------------------------------------------------------------------------------
(* The ways a run is cut short                                             *)

LEMMA HalfDoneTree ==
  ASSUME Typed, NEW w \in HalfDone
  PROVE  /\ w \in Tree
         /\ w # workspace => pc \in {"diagnose", "apply", "repair", "verify", "conclude"}
         /\ pc = "diagnose" => w.content = workspace.content
<1>1. workspace \in Tree
  BY DEF Typed
<1>2. CASE pc \in {"diagnose", "verify"} /\ w \in RunSuite(workspace)
  BY <1>1, <1>2, SuiteTree
<1>3. CASE /\ pc = "apply" \/ Restoring
           /\ w \in {[content |-> c, littered |-> l] :
                       c \in {workspace.content, "captured", "patched", "torn"},
                       l \in {workspace.littered, FALSE}}
  <2>1. workspace.content \in {"captured", "patched", "torn"} /\ workspace.littered \in BOOLEAN
    BY <1>1 DEF Tree
  <2>2. PICK c \in {"captured", "patched", "torn"}, l \in BOOLEAN : w = [content |-> c, littered |-> l]
    <3>1. PICK c \in {workspace.content, "captured", "patched", "torn"},
               l \in {workspace.littered, FALSE} : w = [content |-> c, littered |-> l]
      BY <1>3
    <3>2. c \in {"captured", "patched", "torn"} /\ l \in BOOLEAN
      BY <2>1
    <3> QED
      BY <3>1, <3>2
  <2>4. w \in Tree
    BY <2>2 DEF Tree
  <2>3. pc \in {"apply", "repair", "conclude"}
    BY <1>3 DEF Restoring
  <2> QED
    BY <2>3, <2>4
<1>4. CASE w = workspace
  BY <1>1, <1>4
<1> QED
  BY <1>2, <1>3, <1>4 DEF HalfDone

LEMMA StopKeeps ==
  ASSUME FabricInv, pc \notin Terminal, pc' \in {"raised", "killed"}, workspace' \in HalfDone,
         UNCHANGED <<ledger, profile, candidate, approved, before, visible, invariant, result>>
  PROVE  FabricInv'
<1>1. /\ LedgerInv' /\ edits' = 0 /\ acknowledged' = acknowledged /\ failures' = failures
      /\ Legible' = Legible /\ Closing' = Closing
  BY LedgerUnchanged DEF FabricInv
<1>2. /\ workspace' \in Tree
      /\ workspace' # workspace => pc \in {"diagnose", "apply", "repair", "verify", "conclude"}
      /\ pc = "diagnose" => workspace'.content = workspace.content
  BY HalfDoneTree DEF FabricInv
<1>3. result = None /\ result' = None /\ pc \in Points
  BY DEF FabricInv, Typed, Terminal
<1>4. Typed'
  BY <1>2, <1>3 DEF FabricInv, Typed, Points, Terminal
<1>5. Switched' /\ Judged' /\ Placed'
  BY DEF FabricInv, Switched, Judged, Placed, Undone, Retaining, Before, Patched
<1>6. Chronicle'
  BY <1>1 DEF FabricInv, Chronicle, Terminal, Concluding
<1>7. Noted'
  BY DEF Noted, Terminal, Deciding
<1>8. Truthful'
  <2>1. CASE workspace' = workspace
    <3>1. Captured' = Captured /\ Sound' = Sound
      BY DEF Captured, Sound
    <3> QED
      BY <1>1, <2>1, <3>1 DEF FabricInv, Truthful
  <2>2. CASE workspace' # workspace
    <3>1. pc \notin Concluding \union Terminal
      BY <1>2, <2>2 DEF Concluding, Terminal
    <3> QED
      BY <1>1, <3>1 DEF FabricInv, Noted, Truthful, Verdicts
  <2> QED
    BY <2>1, <2>2
<1>9. Stopped'
  <2> SUFFICES ASSUME profile = Full, workspace'.content # "captured", ~(verified /\ Sound), Legible
               PROVE  Closing \in Unconcluded
    <3>1. (verified /\ Sound)' = (verified /\ Sound)
      BY DEF verified, Sound
    <3> QED
      BY <1>1, <1>3, <3>1 DEF Stopped
  <2>1. pc \in Deciding
    <3>1. CASE pc = "diagnose"
      BY <1>2, <3>1 DEF FabricInv, Placed, Before
    <3>2. CASE pc \in {"apply", "repair", "verify", "conclude"}
      BY <3>2 DEF Deciding
    <3>3. CASE workspace' = workspace
      <4>1. pc \notin Before /\ pc \notin Undone /\ pc # "apply_failed"
        BY <3>3 DEF FabricInv, Placed, Captured, Full
      <4>2. pc \notin {"recovery_committed", "recovered"}
        BY DEF FabricInv, Judged, verified, Sound, Full
      <4>3. pc \notin Retaining /\ pc # "verification_bypassed"
        BY DEF FabricInv, Switched, Full
      <4> QED
        BY <1>3, <4>1, <4>2, <4>3 DEF Points, Before, Patched, Failing, Undone, Retaining, Deciding
    <3> QED
      BY <1>2, <3>1, <3>2, <3>3
  <2> QED
    BY <2>1 DEF FabricInv, Noted
<1>10. ResultIsTrue' /\ ResultIsRecorded'
  BY <1>3 DEF ResultIsTrue, ResultIsRecorded
<1> QED
  BY <1>4, <1>5, <1>6, <1>7, <1>8, <1>9, <1>10 DEF FabricInv

LEMMA EscapeKeeps == ASSUME FabricInv, Escape PROVE FabricInv'
<1>1. pc \notin Terminal
  BY DEF Escape, Calling, Restoring, Terminal
<1> QED
  BY <1>1, StopKeeps DEF Escape

LEMMA KillKeeps == ASSUME FabricInv, Kill PROVE FabricInv'
<1>1. CASE workspace' \in HalfDone /\ UNCHANGED ledger
  BY <1>1, StopKeeps DEF Kill
<1>2. CASE pc \in DOMAIN Following /\ RecordFails(pc) /\ UNCHANGED workspace
  BY <1>2, FailureKeepsChronicle DEF Kill
<1> QED
  BY <1>1, <1>2 DEF Kill

LEMMA FabricStutters == ASSUME FabricInv, UNCHANGED <<ledger, run>> PROVE FabricInv'
<1>1. /\ LedgerInv' /\ edits' = 0 /\ acknowledged' = acknowledged /\ failures' = failures
      /\ Legible' = Legible /\ Closing' = Closing /\ Verified' = Verified
  BY LedgerUnchanged DEF FabricInv
<1>2. /\ profile' = profile /\ candidate' = candidate /\ workspace' = workspace
      /\ approved' = approved /\ before' = before /\ visible' = visible
      /\ invariant' = invariant /\ pc' = pc /\ result' = result
  BY DEF run
<1>3. Typed' /\ Switched' /\ Judged' /\ Placed'
  BY <1>2 DEF FabricInv, Typed, Switched, Judged, Placed, Captured
<1>4. Chronicle' /\ Noted'
  BY <1>1, <1>2 DEF FabricInv, Chronicle, Noted
<1>5. Truthful' /\ Stopped' /\ ResultIsTrue'
  <2>1. Captured' = Captured /\ Sound' = Sound /\ verified' = verified
    BY <1>2 DEF Captured, Sound, verified
  <2> QED
    BY <1>1, <1>2, <2>1 DEF FabricInv, Truthful, Stopped, ResultIsTrue
<1>6. ResultIsRecorded'
  <2>1. Last(journal') = Last(journal)
    BY DEF ledger
  <2> QED
    BY <1>1, <1>2, <2>1 DEF FabricInv, ResultIsRecorded
<1> QED
  BY <1>3, <1>4, <1>5, <1>6 DEF FabricInv

LEMMA InitFabric == FabricInit => FabricInv
<1> SUFFICES ASSUME FabricInit PROVE FabricInv
  OBVIOUS
<1>1. LedgerInv /\ edits = 0 /\ failures = 0 /\ acknowledged = <<>> /\ journal = <<>>
  BY InitLedger DEF FabricInit, Init
<1>2. Typed
  BY CapturedTree DEF FabricInit, Typed, Points, Before
<1>3. Switched /\ Judged
  BY DEF FabricInit, Switched, Judged, Undone, Retaining
<1>4. Placed
  BY CapturedTree DEF FabricInit, Placed, Patched, Undone
<1>5. Chronicle
  BY <1>1 DEF FabricInit, Chronicle, Concluding
<1>6. Noted /\ Truthful
  BY <1>1 DEF Noted, Truthful, Legible
<1>7. Stopped /\ ResultIsTrue /\ ResultIsRecorded
  BY DEF FabricInit, Stopped, Terminal, ResultIsTrue, ResultIsRecorded
<1> QED
  BY <1>2, <1>3, <1>4, <1>5, <1>6, <1>7 DEF FabricInv

-------------------------------------------------------------------------------

\* The invariant of RecoveryFabric.run: at each point of a run, what is in the workspace,
\* which event the journal ends with if it is not broken, and which suites were seen to pass.
THEOREM FabricInvariant == FabricSpec => []FabricInv
<1>1. FabricInv /\ [FabricNext]_<<ledger, run>> => FabricInv'
  <2> SUFFICES ASSUME FabricInv, [FabricNext]_<<ledger, run>> PROVE FabricInv'
    OBVIOUS
  <2>1. CASE Log
    BY <2>1, LogKeeps
  <2>2. CASE LogFails
    BY <2>2, LogFailsKeeps
  <2>3. CASE Diagnose
    BY <2>3, DiagnoseKeeps
  <2>4. CASE Propose
    BY <2>4, ProposeKeeps
  <2>5. CASE Decide
    BY <2>5, DecideKeeps
  <2>6. CASE Act
    BY <2>6, ActKeeps
  <2>7. CASE Apply
    BY <2>7, ApplyKeeps
  <2>8. CASE Repair
    BY <2>8, RepairKeeps
  <2>9. CASE Verify
    BY <2>9, VerifyKeeps
  <2>10. CASE Conclude
    BY <2>10, ConcludeKeeps
  <2>11. CASE ReturnBlocked
    BY <2>11, ReturnBlockedKeeps
  <2>12. CASE ReturnApplyFailed
    BY <2>12, ReturnApplyFailedKeeps
  <2>13. CASE ReturnRecovered
    BY <2>13, ReturnRecoveredKeeps
  <2>14. CASE ReturnRolledBack
    BY <2>14, ReturnRolledBackKeeps
  <2>15. CASE ReturnRetained
    BY <2>15, ReturnRetainedKeeps
  <2>16. CASE Escape
    BY <2>16, EscapeKeeps
  <2>17. CASE Kill
    BY <2>17, KillKeeps
  <2>18. CASE UNCHANGED <<ledger, run>>
    BY <2>18, FabricStutters
  <2> QED
    BY <2>1, <2>2, <2>3, <2>4, <2>5, <2>6, <2>7, <2>8, <2>9, <2>10, <2>11, <2>12, <2>13, <2>14,
       <2>15, <2>16, <2>17, <2>18 DEF FabricNext, Step
<1> QED
  BY <1>1, InitFabric, PTL DEF FabricSpec

LEMMA TypedIsTypeOK == Typed => FabricTypeOK
<1>1. pc \in Points => pc \in DOMAIN Following \union Terminal
           \union {Following[e] : e \in DOMAIN Following} \union {"apply", "apply_failed"}
  BY FollowingTable
     DEF Points, Before, Patched, Failing, Undone, Retaining, Terminal
<1> QED
  BY <1>1 DEF Typed, FabricTypeOK

LEMMA FromFabricInv ==
  FabricInv => ResultIsTrue /\ ResultIsRecorded /\ JournalIsTrue /\ ResidueIsUnconcluded
<1> SUFFICES ASSUME FabricInv PROVE JournalIsTrue /\ ResidueIsUnconcluded
  BY DEF FabricInv
<1>1. JournalIsTrue
  BY VerifiedIsLegible DEF FabricInv, Truthful, JournalIsTrue, Closing
<1>2. ResidueIsUnconcluded
  BY VerifiedIsLegible DEF FabricInv, Stopped, ResidueIsUnconcluded, Closing
<1> QED
  BY <1>1, <1>2

\* The variables of a run have their types, and a result exists once run has returned.
THEOREM FabricTypeCorrect == FabricSpec => []FabricTypeOK
<1>1. FabricInv => FabricTypeOK
  BY TypedIsTypeOK DEF FabricInv
<1> QED
  BY <1>1, FabricInvariant, PTL

\* What run returns is what is in the workspace, for every profile, candidate and failure.
THEOREM ReturnedIsTrue == FabricSpec => []ResultIsTrue
  BY FabricInvariant, FromFabricInv, PTL

\* Every result but a failed one is the last event of a journal that verifies.
THEOREM ReturnedIsRecorded == FabricSpec => []ResultIsRecorded
  BY FabricInvariant, FromFabricInv, PTL

\* A journal that verifies and ends with a verdict tells the truth about the workspace,
\* wherever the run was cut short.
THEOREM JournalTellsTheTruth == FabricSpec => []JournalIsTrue
  BY FabricInvariant, FromFabricInv, PTL

\* Under the full profile a patch that was not verified is left behind only without a
\* result and with a journal that stops before a verdict.
THEOREM ResidueHasNoVerdict == FabricSpec => []ResidueIsUnconcluded
  BY FabricInvariant, FromFabricInv, PTL
===============================================================================

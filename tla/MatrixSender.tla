----------------------------- MODULE MatrixSender -----------------------------
(***************************************************************************)
(* scripts/agentteams_matrix_sender.py: one bounded PUT of one message     *)
(* under a transaction id, in front of a Matrix homeserver and of a        *)
(* network that loses requests and answers, and may deliver a request      *)
(* after the sender has given it up.  The homeserver, and the message API  *)
(* the official Manager uses in the sender's place, are external: a Worker *)
(* that repeats a transaction id is given the event it posted first; every *)
(* message of the Manager is an event of its own.                          *)
(***************************************************************************)
EXTENDS Naturals, Sequences

VARIABLES
  room,               \* the messages posted, in the order of the server; their index is the event id
  inflight            \* requests the sender gave up that may still arrive

matrix == <<room, inflight>>

\* A message m has an actor, a transaction id txn and a content.
Same(m1, m2) == m1.actor # "manager" /\ m1.actor = m2.actor /\ m1.txn = m2.txn

Known(messages, m) == \E i \in DOMAIN messages : Same(messages[i], m)

\* The room once the server has handled the request, and the event it answers with.
Delivered(m) == IF Known(room, m) THEN room ELSE Append(room, m)

EventOf(m) ==
  IF Known(room, m) THEN CHOOSE i \in DOMAIN room : Same(room[i], m) ELSE Len(room) + 1

MatrixInit == room = <<>> /\ inflight = {}

\* Status 200 and a well-formed event id: the sender returns EventOf(m).
Acknowledged(m) ==
  /\ room' = Delivered(m)
  /\ UNCHANGED inflight

\* A timeout, a broken connection, another status or an unreadable answer: the sender raises
\* MatrixSenderError whatever the server has done, or is still going to do.
Unacknowledged(m) ==
  \/ room' = Delivered(m) /\ UNCHANGED inflight
  \/ UNCHANGED matrix
  \/ inflight' = inflight \union {m} /\ UNCHANGED room

Arrives(m) ==
  /\ m \in inflight
  /\ room' = Delivered(m)
  /\ inflight' = inflight \ {m}
===============================================================================

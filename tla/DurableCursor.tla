--------------------------- MODULE DurableCursor ---------------------------
(***************************************************************************)
(* What the ingest service promises to whoever reads its topics: a growing *)
(* log and a durable cursor such that every event owed to the log, up to   *)
(* the cursor, is in it.  The debt begins where the service joined the     *)
(* stream; it may join anew only while it has no cursor.                   *)
(***************************************************************************)
EXTENDS Integers

CONSTANT N         \* length of the stream

VARIABLES
  owed,            \* the events that belong in the log
  log,             \* the events it holds
  cursor,          \* the durable cursor, 0 before there is one
  since            \* the first event of the debt

vars == <<owed, log, cursor, since>>

Position == 1..N

Covered(c) == { e \in owed : since <= e /\ e <= c } \subseteq log

Init ==
  /\ owed \subseteq Position
  /\ log = {}
  /\ cursor = 0
  /\ since = 1

Append ==
  /\ \E e \in Position : log' = log \cup {e}
  /\ UNCHANGED <<owed, cursor, since>>

\* The cursor moves forward, never across a gap.
Advance ==
  /\ cursor' \in cursor..N
  /\ Covered(cursor')
  /\ UNCHANGED <<owed, log, since>>

Join ==
  /\ cursor = 0
  /\ since' \in since..N + 1
  /\ UNCHANGED <<owed, log, cursor>>

Next == Append \/ Advance \/ Join

Spec == Init /\ [][Next]_vars
=============================================================================

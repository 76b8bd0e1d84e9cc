--------------------------- MODULE JetstreamClient ---------------------------
(***************************************************************************)
(* JetstreamClient.events (ingest/jetstream_client.py) and the Jetstream   *)
(* server it talks to.  The firehose is a fixed sequence of events; the    *)
(* position of an event is its time_us, so positions are cursors and grow  *)
(* along the stream.  An event whose time_us is not an int still has a     *)
(* position, but the client cannot learn it.                               *)
(*                                                                         *)
(* The server is external.  It replays from a cursor inclusively or        *)
(* exclusively, and without a cursor it joins the live end of the stream.  *)
(***************************************************************************)
EXTENDS Parse, Integers

CONSTANTS
  N,          \* length of the stream
  Streams     \* the streams considered

Position == 1..N
EventKind == [result : Result, timed : BOOLEAN]

ASSUME StreamAssumption ==
  /\ N \in Nat
  /\ Streams \subseteq [Position -> EventKind]

NoPosition == 0

VARIABLES
  stream,      \* what the firehose emits, in order
  head,        \* how much of it has been emitted so far
  connected,   \* a websocket is open
  next,        \* the position it delivers next
  latest,      \* latest_cursor
  since        \* auxiliary: where the service last joined the live end; no
               \* event before it is owed to anyone

streamVars == <<stream, head>>
clientVars == <<connected, next, latest>>
jetVars == <<streamVars, clientVars, since>>

Timed(e) == stream[e].timed
RouteOf(e) == Route(stream[e].result, stream[e].timed)

JetTypeOK ==
  /\ stream \in [Position -> EventKind]
  /\ head \in 0..N
  /\ connected \in BOOLEAN
  /\ next \in 0..N + 1
  /\ latest \in 0..N
  /\ since \in 1..N + 1

JetInit ==
  /\ stream \in Streams
  /\ head = 0
  /\ connected = FALSE
  /\ next = NoPosition
  /\ latest = NoPosition
  /\ since = 1

\* The generator of a process that starts with this cursor, or is gone.
ClientReset(cursor) ==
  /\ connected' = FALSE
  /\ next' = NoPosition
  /\ latest' = cursor
  /\ UNCHANGED <<streamVars, since>>

-----------------------------------------------------------------------------
\* The firehose emits one more event.
Publish ==
  /\ head < N
  /\ head' = head + 1
  /\ UNCHANGED <<stream, clientVars, since>>

\* Mutant: a reconnect joins the live end although a cursor is known.
ResumeLive ==
  /\ ~connected
  /\ latest # NoPosition
  /\ connected' = TRUE
  /\ next' = head + 1
  /\ UNCHANGED <<streamVars, latest, since>>

\* websockets.connect with ?cursor=latest_cursor.
Resume ==
  /\ ~connected
  /\ latest # NoPosition
  /\ connected' = TRUE
  /\ next' \in {latest, latest + 1}
  /\ UNCHANGED <<streamVars, latest, since>>

\* websockets.connect without a cursor: a stream that was never checkpointed.
JoinLive ==
  /\ ~connected
  /\ latest = NoPosition
  /\ connected' = TRUE
  /\ next' = head + 1
  /\ since' = head + 1
  /\ UNCHANGED <<streamVars, latest>>

\* The connection closes or raises while the generator waits for a frame.
Drop ==
  /\ connected
  /\ connected' = FALSE
  /\ next' = NoPosition
  /\ UNCHANGED <<streamVars, latest, since>>

\* latest_cursor moves before the event is yielded.
YieldEvent ==
  /\ connected
  /\ next <= head
  /\ next' = next + 1
  /\ latest' = IF Timed(next) THEN next ELSE latest
  /\ UNCHANGED <<streamVars, connected, since>>
=============================================================================

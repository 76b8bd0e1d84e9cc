----------------------------- MODULE Reconnect -----------------------------
(***************************************************************************)
(* JetstreamClient.events (ingest/jetstream_client.py) in full: the phases *)
(* of the generator, the backoff between attempts, frames it cannot read,  *)
(* cancellation, and the process that is started again from a checkpoint.  *)
(* Ingest uses the smaller JetstreamClient, which this module implements   *)
(* (Implements below).                                                     *)
(*                                                                         *)
(* A frame carries a cursor, carries none, or cannot be read: it is not    *)
(* JSON, or not an object.  Delays are in tenths of the time unit, so that *)
(* a jitter of 20% stays an integer.                                       *)
(***************************************************************************)
EXTENDS Integers

CONSTANTS
  N,             \* length of the stream
  Frames,        \* the streams considered
  BackoffInitial,
  BackoffMax,    \* settings.backoff_initial_seconds, backoff_max_seconds
  MaxExponent    \* the first attempt for which 2**attempt is no float: 1024

Position == 1..N
Frame == {"timed", "untimed", "unreadable"}

ASSUME ReconnectAssumption ==
  /\ N \in Nat
  /\ Frames \subseteq [Position -> Frame]
  /\ BackoffInitial \in Nat /\ BackoffMax \in Nat
  /\ MaxExponent \in Nat

NoCursor == 0

VARIABLES
  frames,     \* what the firehose emits
  head,       \* how much of it has been emitted
  phase,      \* where the generator is
  attempt,    \* attempt
  delay,      \* what it sleeps for
  next,       \* the position the open connection delivers next
  cursor,     \* latest_cursor
  since,      \* auxiliary: where it last joined the live end
  yielded,    \* auxiliary: the positions it has yielded
  failures    \* auxiliary: failures since a connection last opened

serverVars == <<frames, head>>
auxVars == <<since, yielded, failures>>
vars == <<serverVars, phase, attempt, delay, next, cursor, auxVars>>

Phases == {"connecting", "open", "sleeping", "raised", "cancelled"}

Smaller(a, b) == IF a <= b THEN a ELSE b

\* Mutant: no cap.
BaseUncapped(n) == BackoffInitial * 2^n

\* min(initial * 2**attempt, max); with a jitter of 20% the delay lies between
\* 8 and 12 tenths of it.
Base(n) == Smaller(BackoffInitial * 2^n, BackoffMax)

Delays(n) == { j * Base(n) : j \in {8, 10, 12} }

Typed ==
  /\ frames \in [Position -> Frame]
  /\ head \in 0..N
  /\ phase \in Phases
  /\ attempt \in 0..MaxExponent
  /\ next \in 0..N + 1
  /\ cursor \in 0..N
  /\ since \in 1..N + 1
  /\ yielded \subseteq Position
  /\ failures \in 0..MaxExponent + 1

TypeOK == Typed /\ delay \in 0..12 * BackoffMax

Init ==
  /\ frames \in Frames
  /\ head = 0
  /\ phase = "connecting"
  /\ attempt = 0
  /\ delay = 0
  /\ next = 0
  /\ cursor = NoCursor
  /\ since = 1
  /\ yielded = {}
  /\ failures = 0

-----------------------------------------------------------------------------
\* The firehose emits one more frame.
Publish ==
  /\ head < N
  /\ head' = head + 1
  /\ UNCHANGED <<frames, phase, attempt, delay, next, cursor, auxVars>>

\* except Exception: wait for the backoff of this attempt, unless computing it
\* raises.  2**attempt is an int without bound, and its product with the float
\* backoff_initial_seconds overflows.
Fail ==
  /\ next' = 0
  /\ failures' = failures + 1
  /\ IF attempt < MaxExponent
       THEN phase' = "sleeping" /\ delay' \in Delays(attempt)
       ELSE phase' = "raised" /\ delay' = 0
  /\ UNCHANGED <<serverVars, attempt, cursor, since, yielded>>

\* Mutant: the backoff is reset by the first event, not by the connection.
ConnectKeepsAttempt ==
  /\ phase = "connecting"
  /\ phase' = "open"
  /\ failures' = 0
  /\ \/ cursor # NoCursor /\ next' \in {cursor, cursor + 1} /\ UNCHANGED since
     \/ cursor = NoCursor /\ next' = head + 1 /\ since' = head + 1
  /\ UNCHANGED <<serverVars, attempt, delay, cursor, yielded>>

\* Mutant: the url carries no cursor.
ConnectWithoutCursor ==
  /\ phase = "connecting"
  /\ phase' = "open"
  /\ attempt' = 0
  /\ failures' = 0
  /\ next' = head + 1
  /\ since' = IF cursor = NoCursor THEN head + 1 ELSE since
  /\ UNCHANGED <<serverVars, delay, cursor, yielded>>

\* websockets.connect succeeds.  With a cursor the server replays from it,
\* inclusively or not; without one it starts at the live end.
Connect ==
  /\ phase = "connecting"
  /\ phase' = "open"
  /\ attempt' = 0
  /\ failures' = 0
  /\ \/ cursor # NoCursor /\ next' \in {cursor, cursor + 1} /\ UNCHANGED since
     \/ cursor = NoCursor /\ next' = head + 1 /\ since' = head + 1
  /\ UNCHANGED <<serverVars, delay, cursor, yielded>>

ConnectFails == phase = "connecting" /\ Fail

\* The open connection breaks.
ConnectionFails == phase = "open" /\ Fail

\* The server closes in good order: the iteration ends, the loop reconnects.
ConnectionCloses ==
  /\ phase = "open"
  /\ phase' = "connecting"
  /\ next' = 0
  /\ UNCHANGED <<serverVars, attempt, delay, cursor, auxVars>>

\* latest_cursor moves, if the event has a time_us, and the event is yielded.
YieldEvent ==
  /\ phase = "open"
  /\ next <= head
  /\ frames[next] # "unreadable"
  /\ cursor' = IF frames[next] = "timed" THEN next ELSE cursor
  /\ yielded' = yielded \cup {next}
  /\ next' = next + 1
  /\ UNCHANGED <<serverVars, phase, attempt, delay, since, failures>>

\* Mutant: the handler skips the frame by moving the cursor to it.
UnreadableSkipped ==
  /\ phase = "open"
  /\ next <= head
  /\ frames[next] = "unreadable"
  /\ next' = next + 1
  /\ cursor' = next
  /\ UNCHANGED <<serverVars, phase, attempt, delay, auxVars>>

\* json.loads or event.get raises.
UnreadableFrame ==
  /\ phase = "open"
  /\ next <= head
  /\ frames[next] = "unreadable"
  /\ Fail

\* Mutant: attempt is not counted.
WakeForgetful ==
  /\ phase = "sleeping"
  /\ phase' = "connecting"
  /\ delay' = 0
  /\ UNCHANGED <<serverVars, attempt, next, cursor, auxVars>>

\* The sleep is over.
Wake ==
  /\ phase = "sleeping"
  /\ phase' = "connecting"
  /\ attempt' = attempt + 1
  /\ delay' = 0
  /\ UNCHANGED <<serverVars, next, cursor, auxVars>>

\* CancelledError at any await, or the process dies.
Cancel ==
  /\ phase \in {"connecting", "open", "sleeping"}
  /\ phase' = "cancelled"
  /\ next' = 0
  /\ delay' = 0
  /\ UNCHANGED <<serverVars, attempt, cursor, auxVars>>

\* A new process calls events with the cursor it persisted, which is behind
\* what the generator reached.
Restart ==
  /\ phase \in {"raised", "cancelled"}
  /\ phase' = "connecting"
  /\ attempt' = 0
  /\ cursor' \in 0..cursor
  /\ failures' = 0
  /\ UNCHANGED <<serverVars, delay, next, since, yielded>>

-----------------------------------------------------------------------------
Generator == Connect \/ YieldEvent \/ UnreadableFrame \/ Wake

Disturbance == ConnectFails \/ ConnectionFails \/ ConnectionCloses \/ Cancel \/ Restart

Next == Publish \/ Generator \/ Disturbance

Spec == Init /\ [][Next]_vars

\* The event loop runs the generator: a connection that can be opened is, a
\* frame that is there is taken, a sleep ends.  The server owes nothing.
FairSpec == Spec /\ WF_vars(Generator)

-----------------------------------------------------------------------------
(***************************************************************************)
(* Properties                                                              *)
(***************************************************************************)
\* A reconnect or a restart resumes from latest_cursor, so latest_cursor must
\* not get ahead of what was yielded: every frame since the live end was last
\* joined, up to the cursor, has been yielded.  Nothing unreadable is passed.
CursorCoversYielded == \A p \in since..cursor : p \in yielded

\* After n failures in a row the generator waits for min(initial * 2^(n-1), max)
\* within the jitter (jetstream_client.py:25-36): an unreachable server is not
\* hammered, whatever connections opened before those failures, and the first
\* failure after a connection (jetstream_client.py:63) waits for the initial
\* delay only.
BacksOff ==
  phase = "sleeping" =>
    LET base == Base(failures - 1) IN 8 * base <= delay /\ delay <= 12 * base

\* The generator leaves its loop by itself only after MaxExponent failures in
\* a row, never because of a frame or of a connection that opened.
GivesUpOnlyUnreachable == phase = "raised" => failures = MaxExponent + 1

\* What the two rest on.  attempt counts the failures since a connection last
\* opened, and a sleep is only entered below the exponent that overflows.
AttemptsCounted ==
  /\ phase = "connecting" => failures = attempt
  /\ phase = "open" => failures = 0 /\ attempt = 0
  /\ phase = "sleeping" => failures = attempt + 1 /\ attempt < MaxExponent

\* The open connection delivers on from what has been yielded.
Contiguous ==
  /\ phase = "open" => next >= 1 /\ \A p \in since..next - 1 : p \in yielded
  /\ phase # "open" => next = 0

\* The inductive invariant.
IInv ==
  Typed /\ AttemptsCounted /\ Contiguous /\ CursorCoversYielded /\ GivesUpOnlyUnreachable

\* A published frame that the current connection history owes, with nothing
\* unreadable in front of it.
Owed(p) == since <= p /\ p <= head /\ \A q \in since..p : frames[q] # "unreadable"

Running == phase \in {"connecting", "open", "sleeping"}

\* Once the server can be reached and stays up, every frame owed is yielded:
\* whatever disturbed the client before, no attempt counter, sleep or replay
\* keeps it from resuming.
OwedIsYielded ==
  <>[][~Disturbance]_vars =>
    \A p \in Position : (Owed(p) /\ Running) ~> (p \in yielded \/ ~Owed(p) \/ ~Running)

\* The client Ingest is composed with: backoff and unreadable frames are
\* connections that drop.
Simple == INSTANCE JetstreamClient WITH
  Streams   <- [Position -> [result : {"model"}, timed : BOOLEAN]],
  stream    <- [p \in Position |-> [result |-> "model", timed |-> frames[p] = "timed"]],
  connected <- phase = "open",
  latest    <- cursor

SimpleNext ==
  \/ Simple!Publish \/ Simple!Resume \/ Simple!JoinLive \/ Simple!Drop \/ Simple!YieldEvent
  \/ \E c \in 0..N : Simple!ClientReset(c)

\* Every step of the generator is one of the simple client's, or none.
Implements == Simple!JetInit /\ [][SimpleNext]_(Simple!jetVars)

-----------------------------------------------------------------------------
\* jetstream_client.py:51: "reconnecting forever with backoff".
ReconnectsForever == phase # "raised"
=============================================================================

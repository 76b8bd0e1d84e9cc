-------------------------- MODULE Reconnect_proofs --------------------------
(***************************************************************************)
(* Proofs about Reconnect, for every stream of frames, every backoff       *)
(* setting and every exponent at which it overflows.                       *)
(***************************************************************************)
EXTENDS Reconnect, FiniteSetTheorems, TLAPS

LEMMA ConstantTypes == N \in Nat /\ MaxExponent \in Nat /\ Frames \subseteq [Position -> Frame]
BY ReconnectAssumption

LEMMA InitOK == Init => IInv
BY ConstantTypes DEF Init, IInv, Typed, Phases, NoCursor, AttemptsCounted, Contiguous,
   CursorCoversYielded, GivesUpOnlyUnreachable

\* A failure in a phase whose failures count attempts leaves the cursor where
\* it was and closes the connection.
LEMMA FailOK ==
  ASSUME IInv, Fail, phase \in {"connecting", "open"}
  PROVE  IInv'
<1> USE ConstantTypes DEF IInv
<1>1. failures = attempt
  BY DEF AttemptsCounted
<1>2. failures' = attempt + 1 /\ attempt' = attempt
  BY <1>1 DEF Fail
<1>3. Typed'
  BY <1>2 DEF Typed, Fail, serverVars, Phases
<1>4. AttemptsCounted' /\ GivesUpOnlyUnreachable'
  BY <1>2 DEF Typed, Fail, AttemptsCounted, GivesUpOnlyUnreachable
<1>5. Contiguous' /\ CursorCoversYielded'
  BY DEF Fail, Contiguous, CursorCoversYielded
<1> QED
  BY <1>3, <1>4, <1>5

\* Whatever the connection starts from, it is not past what was yielded.
LEMMA ConnectOK ==
  ASSUME IInv, Connect
  PROVE  IInv'
<1> USE ConstantTypes DEF IInv
<1>1. Typed'
  BY DEF Typed, Connect, serverVars, Phases, NoCursor
<1>2. AttemptsCounted' /\ GivesUpOnlyUnreachable'
  BY DEF Connect, AttemptsCounted, GivesUpOnlyUnreachable
<1>3. CursorCoversYielded'
  BY DEF Typed, Connect, CursorCoversYielded, NoCursor
<1>4. Contiguous'
  BY DEF Typed, Connect, Contiguous, CursorCoversYielded, NoCursor
<1> QED
  BY <1>1, <1>2, <1>3, <1>4

\* An event extends what was yielded by the position the cursor may take.
LEMMA YieldOK ==
  ASSUME IInv, YieldEvent
  PROVE  IInv'
<1> USE ConstantTypes DEF IInv
<1>1. next \in Position
  BY DEF YieldEvent, Typed, Contiguous, Position
<1>2. Typed'
  BY <1>1 DEF YieldEvent, Typed, serverVars, Position
<1>3. AttemptsCounted' /\ GivesUpOnlyUnreachable'
  BY DEF YieldEvent, AttemptsCounted, GivesUpOnlyUnreachable
<1>4. \A p \in since..next : p \in yielded'
  BY <1>1 DEF YieldEvent, Typed, Contiguous, Position
<1>5. CursorCoversYielded'
  BY <1>4 DEF YieldEvent, CursorCoversYielded
<1>6. Contiguous'
  BY <1>1, <1>4 DEF YieldEvent, Contiguous, Position
<1> QED
  BY <1>2, <1>3, <1>5, <1>6

LEMMA StepOK == IInv /\ [Next]_vars => IInv'
<1> SUFFICES ASSUME IInv, [Next]_vars PROVE IInv'
  OBVIOUS
<1> USE ConstantTypes
<1>1. CASE Publish
  BY <1>1 DEF Publish, IInv, Typed, AttemptsCounted, Contiguous, CursorCoversYielded,
     GivesUpOnlyUnreachable, auxVars
<1>2. CASE Connect
  BY <1>2, ConnectOK
<1>3. CASE YieldEvent
  BY <1>3, YieldOK
<1>4. CASE UnreadableFrame
  BY <1>4, FailOK DEF UnreadableFrame
<1>5. CASE Wake
  BY <1>5 DEF Wake, IInv, Typed, Phases, AttemptsCounted, Contiguous, CursorCoversYielded,
     GivesUpOnlyUnreachable, auxVars, serverVars
<1>6. CASE ConnectFails
  BY <1>6, FailOK DEF ConnectFails
<1>7. CASE ConnectionFails
  BY <1>7, FailOK DEF ConnectionFails
<1>8. CASE ConnectionCloses
  BY <1>8 DEF ConnectionCloses, IInv, Typed, Phases, AttemptsCounted, Contiguous,
     CursorCoversYielded, GivesUpOnlyUnreachable, auxVars, serverVars
<1>9. CASE Cancel
  BY <1>9 DEF Cancel, IInv, Typed, Phases, AttemptsCounted, Contiguous, CursorCoversYielded,
     GivesUpOnlyUnreachable, auxVars, serverVars
<1>10. CASE Restart
  BY <1>10 DEF Restart, IInv, Typed, Phases, AttemptsCounted, Contiguous, CursorCoversYielded,
     GivesUpOnlyUnreachable, serverVars
<1>11. CASE UNCHANGED vars
  BY <1>11 DEF vars, IInv, Typed, AttemptsCounted, Contiguous, CursorCoversYielded,
     GivesUpOnlyUnreachable, auxVars, serverVars
<1> QED
  BY <1>1, <1>2, <1>3, <1>4, <1>5, <1>6, <1>7, <1>8, <1>9, <1>10, <1>11
     DEF Next, Generator, Disturbance

\* The invariant the other theorems rest on holds in every reachable state.
THEOREM Inductive == Spec => []IInv
BY InitOK, StepOK, PTL DEF Spec

\* latest_cursor is never ahead of what the generator has yielded, so neither a
\* reconnect nor a restart skips an event (jetstream_client.py:60-70).
THEOREM CursorNeverAhead == Spec => []CursorCoversYielded
<1>1. IInv => CursorCoversYielded
  BY DEF IInv
<1> QED
  BY <1>1, Inductive, PTL

\* The generator gives up only when connections failed MaxExponent + 1 times in
\* a row (jetstream_client.py:31-32).
THEOREM GivesUpLate == Spec => []GivesUpOnlyUnreachable
<1>1. IInv => GivesUpOnlyUnreachable
  BY DEF IInv
<1> QED
  BY <1>1, Inductive, PTL

-----------------------------------------------------------------------------
(***************************************************************************)
(* The backoff                                                             *)
(***************************************************************************)
\* A power of two is a number: so many subsets has a set of n elements.
LEMMA PowerType ==
  ASSUME NEW n \in Nat
  PROVE  2^n \in Nat
<1>1. IsFiniteSet(1..n) /\ Cardinality(1..n) = n
  BY FS_Interval
<1>2. IsFiniteSet(SUBSET (1..n)) /\ Cardinality(SUBSET (1..n)) = 2^n
  BY <1>1, FS_SUBSET
<1> QED
  BY <1>2, FS_CardinalityType

\* A delay stays within the jitter of its base, and the base within its cap.
LEMMA DelayBounds ==
  ASSUME NEW n \in Nat, NEW d \in Delays(n)
  PROVE  /\ d \in 0..12 * BackoffMax
         /\ 8 * Base(n) <= d /\ d <= 12 * Base(n)
<1>1. BackoffInitial \in Nat /\ BackoffMax \in Nat /\ 2^n \in Nat
  BY PowerType, ReconnectAssumption
<1>2. Base(n) \in Nat /\ Base(n) <= BackoffMax
  <2> DEFINE uncapped == BackoffInitial * 2^n
  <2>1. uncapped \in Nat
    <3> DEFINE power == 2^n
    <3>1. power \in Nat
      BY <1>1
    <3> HIDE DEF power
    <3>2. BackoffInitial * power \in Nat
      BY <1>1, <3>1
    <3> QED
      BY <3>2 DEF power
  <2>2. Base(n) = Smaller(uncapped, BackoffMax)
    BY DEF Base
  <2> HIDE DEF uncapped
  <2> QED
    BY <1>1, <2>1, <2>2 DEF Smaller
<1>3. d = 8 * Base(n) \/ d = 10 * Base(n) \/ d = 12 * Base(n)
  BY DEF Delays
<1> QED
  BY <1>1, <1>2, <1>3

\* A sleep is entered by a failure alone, with a delay for the failures so far.
LEMMA DelayStep ==
  ASSUME IInv, [Next]_vars
  PROVE  \/ UNCHANGED <<phase, delay, failures>>
         \/ phase' # "sleeping" /\ delay' \in {0, delay}
         \/ /\ phase' = "sleeping" /\ attempt \in Nat /\ attempt = failures' - 1
            /\ delay' \in Delays(attempt)
<1>1. CASE ConnectFails \/ ConnectionFails \/ UnreadableFrame
  <2>1. failures = attempt /\ attempt \in Nat
    BY <1>1, ConstantTypes DEF IInv, AttemptsCounted, Typed, ConnectFails, ConnectionFails,
       UnreadableFrame
  <2>2. Fail
    BY <1>1 DEF ConnectFails, ConnectionFails, UnreadableFrame
  <2>3. CASE attempt < MaxExponent
    BY <2>1, <2>2, <2>3 DEF Fail
  <2>4. CASE ~(attempt < MaxExponent)
    BY <2>2, <2>4 DEF Fail
  <2> QED
    BY <2>3, <2>4
<1>2. CASE Connect \/ Wake \/ ConnectionCloses \/ Cancel \/ Restart
  BY <1>2 DEF Connect, Wake, ConnectionCloses, Cancel, Restart
<1>3. CASE Publish \/ YieldEvent \/ UNCHANGED vars
  BY <1>3 DEF Publish, YieldEvent, auxVars, vars
<1> QED
  BY <1>1, <1>2, <1>3 DEF Next, Generator, Disturbance

\* Every variable of the generator keeps its type: it never sleeps longer than
\* backoff_max_seconds and a jitter of 20% on it.
THEOREM TypeCorrect == Spec => []TypeOK
<1>1. Init => delay \in 0..12 * BackoffMax
  BY ReconnectAssumption DEF Init
<1>2. IInv /\ delay \in 0..12 * BackoffMax /\ [Next]_vars => (delay \in 0..12 * BackoffMax)'
  BY DelayStep, DelayBounds, ReconnectAssumption
<1>3. Spec => [](delay \in 0..12 * BackoffMax)
  BY <1>1, <1>2, Inductive, PTL DEF Spec
<1>4. IInv /\ delay \in 0..12 * BackoffMax => TypeOK
  BY DEF IInv, TypeOK
<1> QED
  BY <1>3, <1>4, Inductive, PTL

\* After n failures in a row the generator sleeps for min(initial * 2^(n-1), max)
\* within the jitter, for every setting of the backoff
\* (jetstream_client.py:25-36).
THEOREM SleepsForTheBackoff == Spec => []BacksOff
<1>1. Init => BacksOff
  BY DEF Init, BacksOff
<1>2. IInv /\ BacksOff /\ [Next]_vars => BacksOff'
  <2> SUFFICES ASSUME IInv, BacksOff, [Next]_vars, phase' = "sleeping"
               PROVE  /\ 8 * Base(failures - 1)' <= delay'
                      /\ delay' <= 12 * Base(failures - 1)'
    BY DEF BacksOff
  <2>1. CASE UNCHANGED <<phase, delay, failures>>
    BY <2>1 DEF BacksOff, Base
  <2>2. CASE attempt \in Nat /\ attempt = failures' - 1 /\ delay' \in Delays(attempt)
    <3>1. 8 * Base(attempt) <= delay' /\ delay' <= 12 * Base(attempt)
      BY <2>2, DelayBounds
    <3> QED
      BY <2>2, <3>1 DEF Base
  <2> QED
    BY <2>1, <2>2, DelayStep
<1> QED
  BY <1>1, <1>2, Inductive, PTL DEF Spec

-----------------------------------------------------------------------------
(***************************************************************************)
(* Reconnect implements JetstreamClient                                    *)
(***************************************************************************)
LEMMA SimpleInit == Init => Simple!JetInit
BY ReconnectAssumption DEF Init, Simple!JetInit, NoCursor, Simple!NoPosition, Frame

\* A connection that ends is a Drop; a failed attempt to open one is nothing.
LEMMA SimpleDrop ==
  ASSUME IInv, next' = 0, phase' # "open", UNCHANGED <<serverVars, cursor, since>>
  PROVE  Simple!Drop \/ UNCHANGED Simple!jetVars
<1>1. CASE phase = "open"
  BY <1>1 DEF Simple!Drop, Simple!streamVars, Simple!NoPosition, serverVars
<1>2. CASE phase # "open"
  BY <1>2 DEF IInv, Contiguous, Simple!jetVars, Simple!streamVars, Simple!clientVars, serverVars
<1> QED
  BY <1>1, <1>2

LEMMA SimpleStep ==
  ASSUME IInv, [Next]_vars
  PROVE  [SimpleNext]_(Simple!jetVars)
<1> USE ConstantTypes DEF serverVars, auxVars, Simple!jetVars, Simple!streamVars,
        Simple!clientVars, Simple!NoPosition
<1>1. CASE Publish
  BY <1>1 DEF Publish, SimpleNext, Simple!Publish
<1>2. CASE Connect
  BY <1>2 DEF Connect, SimpleNext, Simple!Resume, Simple!JoinLive, NoCursor
<1>3. CASE YieldEvent
  <2>1. next \in Position
    BY <1>3 DEF YieldEvent, IInv, Typed, Contiguous, Position
  <2>2. Simple!Timed(next) = (frames[next] = "timed")
    BY <2>1 DEF Simple!Timed
  <2> QED
    BY <1>3, <2>2 DEF YieldEvent, SimpleNext, Simple!YieldEvent
<1>4. CASE UnreadableFrame \/ ConnectFails \/ ConnectionFails
  <2>1. next' = 0 /\ phase' # "open" /\ UNCHANGED <<serverVars, cursor, since>>
    BY <1>4 DEF UnreadableFrame, ConnectFails, ConnectionFails, Fail
  <2> QED
    BY <2>1, SimpleDrop DEF SimpleNext
<1>5. CASE ConnectionCloses \/ Cancel
  <2>1. next' = 0 /\ phase' # "open" /\ UNCHANGED <<serverVars, cursor, since>>
    BY <1>5 DEF ConnectionCloses, Cancel
  <2> QED
    BY <2>1, SimpleDrop DEF SimpleNext
<1>6. CASE Wake
  BY <1>6 DEF Wake
<1>7. CASE Restart
  <2>1. cursor' \in 0..N
    BY <1>7 DEF Restart, IInv, Typed
  <2>2. Simple!ClientReset(cursor')
    BY <1>7 DEF Restart, IInv, Contiguous, Simple!ClientReset
  <2> QED
    BY <2>1, <2>2 DEF SimpleNext
<1>8. CASE UNCHANGED vars
  BY <1>8 DEF vars
<1> QED
  BY <1>1, <1>2, <1>3, <1>4, <1>5, <1>6, <1>7, <1>8 DEF Next, Generator, Disturbance

\* The client with its backoff, unreadable frames and cancellation implements
\* the one Ingest is composed with: what is proved of the service does not
\* depend on how long the client waits or why it reconnects.
THEOREM ImplementsClient == Spec => Implements
BY SimpleInit, SimpleStep, Inductive, PTL DEF Spec, Implements
=============================================================================

------------------------------- MODULE Ingest -------------------------------
(***************************************************************************)
(* The ingest service (ingest/main.py): one asyncio task takes events from *)
(* the Jetstream client, routes them through the parse boundary, hands     *)
(* them to the Kafka producer, serves its delivery reports and checkpoints *)
(* the watermark.  Composes JetstreamClient, Checkpointer and              *)
(* IngestProducer; what the network, the broker, Postgres and the operator *)
(* do interleaves with every step of the task.                             *)
(***************************************************************************)
EXTENDS JetstreamClient, Checkpointer, IngestProducer

CONSTANT Retries         \* attempts of _enqueue before the final one

ASSUME RetriesAssumption == Retries \in Nat

VARIABLES
  pc,        \* where the task is; "down" when there is no process
  cur,       \* the event in hand
  attempt,   \* BufferErrors met for it so far
  stop       \* the stop event is set

taskVars == <<pc, cur, attempt, stop>>
vars == <<jetVars, ckptVars, prodVars, taskVars>>

Phase == {"down",
          "recv",      \* awaiting the next event
          "enqueue",   \* in _enqueue, about to call Producer.produce
          "retry",     \* in _enqueue, polling after a BufferError
          "poll",      \* poll(0)
          "save",      \* maybe_save
          "drain",     \* finally: flush
          "final"}     \* finally: final_save

Running == {"recv", "enqueue", "retry", "poll", "save"}

TypeOK ==
  /\ JetTypeOK
  /\ CkptTypeOK(Position)
  /\ ProdTypeOK(Position)
  /\ pc \in Phase
  /\ cur \in 0..N
  /\ attempt \in 0..Retries
  /\ stop \in BOOLEAN

Init ==
  /\ JetInit
  /\ CkptFresh
  /\ persisted = NoCursor
  /\ ProdInit
  /\ pc = "down"
  /\ cur = NoPosition
  /\ attempt = 0
  /\ stop = FALSE

Goto(phase) == pc' = phase /\ UNCHANGED <<cur, attempt, stop>>

\* The process is gone, and with it everything it held in memory.
GoDown ==
  /\ pc' = "down"
  /\ cur' = NoPosition
  /\ attempt' = 0
  /\ stop' = FALSE
  /\ CkptReset
  /\ ClientReset(NoPosition)
  /\ ProdReset

-----------------------------------------------------------------------------
\* run: load the cursor and enter the loop.
Start ==
  /\ pc = "down"
  /\ Goto("recv")
  /\ ClientReset(persisted)
  /\ UNCHANGED <<ckptVars, prodVars>>

\* The generator (re)connects while the loop awaits its next event.
Connect ==
  /\ pc = "recv"
  /\ Resume \/ JoinLive
  /\ UNCHANGED <<ckptVars, prodVars, taskVars>>

Disconnect ==
  /\ pc = "recv"
  /\ Drop
  /\ UNCHANGED <<ckptVars, prodVars, taskVars>>

\* events() raises, after enough failed connections in a row: the delay of the
\* next attempt overflows.  The exception leaves the loop for the finally.
GeneratorRaises ==
  /\ pc = "recv"
  /\ ~connected
  /\ Goto("drain")
  /\ UNCHANGED <<jetVars, ckptVars, prodVars>>

\* Mutant: continue instead of break.
StopContinue ==
  /\ pc = "recv"
  /\ stop
  /\ YieldEvent
  /\ UNCHANGED <<ckptVars, prodVars, taskVars>>

\* The stop event is looked at only here, once an event has arrived; that
\* event is dropped.
StopBreak ==
  /\ pc = "recv"
  /\ stop
  /\ YieldEvent
  /\ pc' = "drain"
  /\ cur' = next
  /\ UNCHANGED <<ckptVars, prodVars, attempt, stop>>

\* What the loop does with the event it takes.
Take(phase) ==
  /\ pc = "recv"
  /\ ~stop
  /\ YieldEvent
  /\ pc' = phase
  /\ cur' = next
  /\ UNCHANGED <<prodVars, attempt, stop, persisted>>

ReceiveSkip ==
  /\ Take("poll")
  /\ RouteOf(next) = "skip"
  /\ UNCHANGED volatileCkpt

ReceiveDlq ==
  /\ Take("enqueue")
  /\ RouteOf(next) = "dlq"
  /\ UNCHANGED volatileCkpt

\* The cursor is registered before the produce.
ReceiveProduce ==
  /\ Take("enqueue")
  /\ RouteOf(next) = "produce"
  /\ Register(next)

Receive == StopBreak \/ ReceiveSkip \/ ReceiveDlq \/ ReceiveProduce

-----------------------------------------------------------------------------
Produce ==
  /\ pc = "enqueue"
  /\ Enqueue(cur, RouteOf(cur) = "dlq")
  /\ pc' = "poll"
  /\ attempt' = 0
  /\ UNCHANGED <<jetVars, ckptVars, cur, stop>>

\* Mutant: the retries are not bounded.
BufferErrorForever ==
  /\ pc = "enqueue"
  /\ QueueFull
  /\ pc' = "retry"
  /\ attempt' = attempt + 1
  /\ UNCHANGED <<jetVars, ckptVars, prodVars, cur, stop>>

\* BufferError: poll(0.5) and try again.
BufferError ==
  /\ pc = "enqueue"
  /\ QueueFull
  /\ attempt < Retries
  /\ pc' = "retry"
  /\ attempt' = attempt + 1
  /\ UNCHANGED <<jetVars, ckptVars, prodVars, cur, stop>>

\* The final attempt raises, or the serializer did before the first one (the
\* registry is unreachable): the exception leaves the loop for the finally.
ProduceRaises ==
  /\ pc = "enqueue"
  /\ attempt = 0 \/ (attempt = Retries /\ QueueFull)
  /\ Goto("drain")
  /\ UNCHANGED <<jetVars, ckptVars, prodVars>>

\* One delivery report; the DLQ's callback only logs.
ServeReport(s) ==
  /\ pc \in {"retry", "poll", "drain"}
  /\ TakeReport(s)
  /\ IF queue[s].dlq
       THEN UNCHANGED volatileCkpt
       ELSE OnAck(queue[s].status = "ok", queue[s].event)
  /\ UNCHANGED <<jetVars, persisted, taskVars>>

NothingReported == \A s \in Slot : ~Reported(s)

PollReturns ==
  /\ NothingReported
  /\ \/ pc = "retry" /\ pc' = "enqueue" /\ UNCHANGED cur
     \/ pc = "poll" /\ pc' = "save" /\ cur' = NoPosition
  /\ UNCHANGED <<jetVars, ckptVars, prodVars, attempt, stop>>

-----------------------------------------------------------------------------
\* The clock may or may not have made a save due.
SaveNotDue ==
  /\ pc = "save"
  /\ ~Due(FALSE)
  /\ Goto("recv")
  /\ UNCHANGED <<jetVars, ckptVars, prodVars>>

Save ==
  /\ pc = "save"
  /\ Due(TRUE)
  /\ MaybeSave
  /\ Goto("recv")
  /\ UNCHANGED <<jetVars, prodVars>>

SaveFails ==
  /\ pc = "save"
  /\ Due(TRUE)
  /\ SaveRaises
  /\ Goto("drain")
  /\ UNCHANGED <<jetVars, prodVars>>

\* flush(30.0) returns: nothing is queued any more, or the time is up.
Drained ==
  /\ pc = "drain"
  /\ Goto("final")
  /\ UNCHANGED <<jetVars, ckptVars, prodVars>>

\* Mutant: the process ends without a last save.
FinalSaveForgotten ==
  /\ pc = "final"
  /\ persisted' = persisted
  /\ GoDown

FinalSave ==
  /\ pc = "final"
  /\ persisted' = IF Unsaved THEN safeCursor ELSE persisted
  /\ GoDown

FinalSaveFails ==
  /\ pc = "final"
  /\ Unsaved
  /\ persisted' \in {persisted, safeCursor}
  /\ GoDown

-----------------------------------------------------------------------------
\* SIGKILL, OOM, the node goes away.
Crash ==
  /\ pc # "down"
  /\ GoDown
  /\ UNCHANGED persisted

\* SIGINT or SIGTERM.
Stop ==
  /\ pc # "down"
  /\ ~stop
  /\ stop' = TRUE
  /\ UNCHANGED <<jetVars, ckptVars, prodVars, pc, cur, attempt>>

Firehose ==
  /\ Publish
  /\ UNCHANGED <<ckptVars, prodVars, taskVars>>

Broker(s) ==
  /\ Accept(s) \/ \E stored \in BOOLEAN : GiveUp(s, stored)
  /\ UNCHANGED <<jetVars, ckptVars, taskVars>>

Task ==
  \/ Connect \/ GeneratorRaises \/ Receive
  \/ Produce \/ BufferError \/ ProduceRaises
  \/ \E s \in Slot : ServeReport(s)
  \/ PollReturns
  \/ SaveNotDue \/ Save \/ SaveFails
  \/ Drained \/ FinalSave \/ FinalSaveFails

Environment ==
  \/ Start \/ Crash \/ Stop
  \/ Firehose \/ Disconnect
  \/ \E s \in Slot : Broker(s)

Next == Task \/ Environment

Spec == Init /\ [][Next]_vars

\* The task is scheduled and its waits end: a connection attempt succeeds, and
\* an event that stays on offer is received however often the connection
\* drops.  Signals, crashes, restarts, failures and new events are not owed.
Fairness ==
  /\ WF_vars(Connect)
  /\ SF_vars(Receive)
  /\ WF_vars(Produce \/ BufferError \/ ProduceRaises)
  /\ WF_vars(\E s \in Slot : ServeReport(s))
  /\ WF_vars(PollReturns)
  /\ WF_vars(SaveNotDue \/ Save \/ SaveFails)
  /\ WF_vars(Drained)
  /\ WF_vars(FinalSave \/ FinalSaveFails)

FairSpec == Spec /\ Fairness

-----------------------------------------------------------------------------
(***************************************************************************)
(* Properties                                                              *)
(***************************************************************************)
Produced(e) == RouteOf(e) = "produce"

\* Positions of the unbroken chain of receptions that ends at c.
Chain(c) == { e \in Position : since <= e /\ e <= c }

\* Every event at or below the persisted cursor that belongs in a typed topic
\* is stored there, whatever was lost, reordered, repeated or restarted: the
\* cursor never skips a gap (main.py:59-65, cursor_store.py:3-6).
NoGap == \A e \in Chain(persisted) : Produced(e) => e \in kafka

\* The live process never loses track of an event it has taken: what is not
\* stored is outstanding, so the watermark cannot pass it.
Tracked ==
  pc \in Running =>
    \A e \in Chain(latest) : Produced(e) => e \in kafka \cup outstanding

\* The watermark is the end of the longest acknowledged prefix: an
\* acknowledged cursor is held back only by an older unacknowledged one, and
\* with nothing outstanding the watermark has caught up with the stream.
WatermarkIsMaximal ==
  /\ \A a \in acked : \E o \in outstanding : o <= a
  /\ pc \in Running /\ outstanding = {} =>
       \A e \in Chain(latest) :
         Produced(e) => e <= safeCursor \/ e <= persisted

\* Of the events a process has taken when it waits for another, a hard kill
\* repeats fewer than CheckpointAcks up to the first one that is unacknowledged
\* (main.py:103-117).  Beyond that one it repeats them all, however many have
\* been acknowledged: after a failed delivery the cadence bounds nothing there.
ReplayWindowBounded ==
  pc = "recv" =>
    Cardinality({ e \in Chain(latest) : /\ Produced(e) /\ persisted < e
                                        /\ \A o \in outstanding : e < o })
      < CheckpointAcks

\* The cursor in Postgres never moves backwards, over any number of restarts,
\* replays and saves with an unknown outcome.
CursorMonotone == [][persisted' >= persisted]_persisted

\* A graceful stop whose flush left nothing outstanding saves a cursor no event
\* that this process produced lies above (main.py:201-203), and the loop never
\* takes an event below the saved cursor: the next start repeats at most the
\* event at the cursor itself, which a server that replays inclusively sends
\* again.  The event in hand at the break was dropped and is still to come.
GracefulStopRepeatsAtMostOne ==
  [][/\ FinalSave /\ outstanding = {} =>
          \A e \in Chain(latest) \ {cur} : Produced(e) => e <= persisted'
     /\ Receive => persisted <= next]_vars

\* A stop request ends the process, unless from some point on the stream
\* never offers it another event; reconnects, full queues, failing saves and
\* deliveries do not prevent it.
Idle == pc = "recv" /\ (connected => next > head)
StopEndsTheProcess == stop ~> (pc = "down" \/ []Idle)

\* The service implements the abstract durable cursor: the row in Postgres
\* and the typed topics change only as DurableCursor allows.
Durable == INSTANCE DurableCursor
             WITH owed <- { e \in Position : Produced(e) },
                  log <- kafka, cursor <- persisted
DurableCursorSpec == Durable!Spec
=============================================================================

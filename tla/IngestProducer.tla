--------------------------- MODULE IngestProducer ---------------------------
(***************************************************************************)
(* IngestProducer (ingest/producer.py) over librdkafka, and the broker.    *)
(* One local queue holds the messages of every topic, the DLQ included; a  *)
(* message keeps its slot until poll or flush has served its delivery      *)
(* report.  The library and the broker are external.  They act while the   *)
(* service does other things: a message is sent, then accepted, or given   *)
(* up on, which does not tell whether the broker has stored it.            *)
(***************************************************************************)
EXTENDS Integers

CONSTANT Slot            \* room in the local queue (queue.buffering.max.messages)

ASSUME SlotAssumption == Slot # {}

VARIABLES
  queue,   \* the message in each slot
  kafka,   \* positions of the events stored in the typed topics
  dlq      \* positions of the events stored in the DLQ topic

prodVars == <<queue, kafka, dlq>>

\* A message names the event it was made from.
Message(Position) == [event : Position, dlq : BOOLEAN,
                      status : {"sent", "ok", "failed"}]
Free == [status |-> "free"]

ProdTypeOK(Position) ==
  /\ queue \in [Slot -> Message(Position) \cup {Free}]
  /\ kafka \subseteq Position
  /\ dlq \subseteq Position

ProdInit ==
  /\ queue = [s \in Slot |-> Free]
  /\ kafka = {}
  /\ dlq = {}

\* Whatever is still queued dies with the process.
ProdReset ==
  /\ queue' = [s \in Slot |-> Free]
  /\ UNCHANGED <<kafka, dlq>>

-----------------------------------------------------------------------------
\* Producer.produce raises BufferError.
QueueFull == \A s \in Slot : queue[s] # Free

\* Producer.produce with room in the queue.
Enqueue(e, toDlq) ==
  /\ \E s \in Slot :
       /\ queue[s] = Free
       /\ queue' = [queue EXCEPT ![s] =
                      [event |-> e, dlq |-> toDlq, status |-> "sent"]]
  /\ UNCHANGED <<kafka, dlq>>

Store(m) ==
  /\ kafka' = IF m.dlq THEN kafka ELSE kafka \cup {m.event}
  /\ dlq' = IF m.dlq THEN dlq \cup {m.event} ELSE dlq

\* The broker acknowledges.
Accept(s) ==
  /\ queue[s].status = "sent"
  /\ queue' = [queue EXCEPT ![s].status = "ok"]
  /\ Store(queue[s])

\* The library gives up; the broker may have stored the message all the same.
GiveUp(s, stored) ==
  /\ queue[s].status = "sent"
  /\ queue' = [queue EXCEPT ![s].status = "failed"]
  /\ IF stored THEN Store(queue[s]) ELSE UNCHANGED <<kafka, dlq>>

Reported(s) == queue[s].status \in {"ok", "failed"}

\* poll or flush takes one delivery report off the queue.
TakeReport(s) ==
  /\ Reported(s)
  /\ queue' = [queue EXCEPT ![s] = Free]
  /\ UNCHANGED <<kafka, dlq>>
=============================================================================

--------------------------- MODULE Ingest_proofs ---------------------------
(***************************************************************************)
(* Proofs about Ingest, for every stream, queue size and threshold.        *)
(* CursorIInv of IngestInductive is shown to be inductive, one lemma per   *)
(* group of actions, and IInv on top of it; the theorems follow.           *)
(***************************************************************************)
EXTENDS IngestInductive, FiniteSetTheorems, TLAPS

\* The typing facts that the steps below use over and over.
LEMMA ConstantTypes ==
  /\ N \in Nat
  /\ Position = 1..N
  /\ CheckpointAcks \in Nat \ {0}
  /\ Retries \in Nat
BY StreamAssumption, CheckpointAcksAssumption, RetriesAssumption DEF Position

\* Only an event with a cursor is produced.
LEMMA ProducedIsTimed ==
  ASSUME NEW e, Produced(e), stream[e].timed \in BOOLEAN
  PROVE  Timed(e)
BY DEF Produced, RouteOf, Route, Timed

LEMMA StreamTyped ==
  ASSUME JetTypeOK, NEW e \in Position
  PROVE  stream[e].timed \in BOOLEAN /\ stream[e].result \in Result
BY DEF JetTypeOK, EventKind

LEMMA InitOK == Init => CursorIInv
<1> SUFFICES ASSUME Init PROVE CursorIInv
  OBVIOUS
<1> USE ConstantTypes DEF Init, JetInit, CkptFresh, ProdInit, NoCursor, NoPosition, Chain
<1>1. TypeOK
  <2>1. JetTypeOK
    <3>1. stream \in [Position -> EventKind]
      BY StreamAssumption
    <3>2. connected \in BOOLEAN
      OBVIOUS
    <3> QED
      BY <3>1, <3>2 DEF JetTypeOK
  <2>2. CkptTypeOK(Position)
    BY DEF CkptTypeOK
  <2>3. ProdTypeOK(Position)
    BY DEF ProdTypeOK
  <2>4. pc \in Phase /\ stop \in BOOLEAN
    BY DEF Phase
  <2> QED
    BY <2>1, <2>2, <2>3, <2>4 DEF TypeOK
<1>2. AckMeansStored
  BY DEF AckMeansStored, Free
<1>3. PendingAccounted /\ Ordered /\ HeldBackByOlder
  BY DEF PendingAccounted, Ordered, HeldBackByOlder, Pending
<1>4. WatermarkCovered /\ NoGap
  BY DEF WatermarkCovered, NoGap
<1>5. Tracked /\ Positioned /\ InHand /\ Contiguous
  BY DEF Tracked, Positioned, InHand, Contiguous, Running
<1> QED
  BY <1>1, <1>2, <1>3, <1>4, <1>5 DEF CursorIInv

-----------------------------------------------------------------------------
(***************************************************************************)
(* What a step leaves alone keeps its type.                                *)
(***************************************************************************)
LEMMA JetSame ==
  ASSUME JetTypeOK, UNCHANGED jetVars
  PROVE  JetTypeOK'
BY DEF JetTypeOK, jetVars, streamVars, clientVars

LEMMA CkptSame ==
  ASSUME CkptTypeOK(Position), UNCHANGED volatileCkpt,
         persisted' \in Position \cup {NoCursor}
  PROVE  CkptTypeOK(Position)'
BY DEF CkptTypeOK, volatileCkpt, Position

LEMMA ProdSame ==
  ASSUME ProdTypeOK(Position), UNCHANGED prodVars
  PROVE  ProdTypeOK(Position)'
BY DEF ProdTypeOK, prodVars, Position

\* A slot that does not hold Free holds a message.
LEMMA SlotTyped ==
  ASSUME ProdTypeOK(Position), NEW s \in Slot, queue[s].status # "free"
  PROVE  /\ queue[s] \in Message(Position)
         /\ queue[s].event \in Position
         /\ queue[s].dlq \in BOOLEAN
         /\ queue[s].status \in {"sent", "ok", "failed"}
BY DEF ProdTypeOK, Message, Free

-----------------------------------------------------------------------------
(***************************************************************************)
(* Steps that only move the task: nothing but pc, cur, attempt and stop    *)
(* changes, and no event is put in hand.                                   *)
(***************************************************************************)
LEMMA MoveOK ==
  ASSUME CursorIInv, UNCHANGED <<jetVars, ckptVars, prodVars>>,
         pc # "down", pc' \in Phase \ {"down"},
         pc' \in Running => pc \in Running,
         pc' \in {"enqueue", "retry"} => pc \in {"enqueue", "retry"} /\ cur' = cur,
         pc \notin Running => cur' = cur,
         cur' \in 0..N, attempt' \in 0..Retries, stop' \in BOOLEAN
  PROVE  CursorIInv'
<1> USE DEF CursorIInv
<1>1. TypeOK'
  <2>1. JetTypeOK' /\ ProdTypeOK(Position)'
    BY JetSame, ProdSame DEF TypeOK
  <2>2. CkptTypeOK(Position)'
    BY CkptSame DEF TypeOK, ckptVars, CkptTypeOK
  <2>3. pc' \in Phase
    OBVIOUS
  <2> QED
    BY <2>1, <2>2, <2>3 DEF TypeOK
<1> USE DEF jetVars, streamVars, clientVars, ckptVars, volatileCkpt, prodVars,
            Chain, Produced, RouteOf, Timed, Pending
<1>2. AckMeansStored' /\ PendingAccounted' /\ WatermarkCovered' /\ NoGap'
  BY DEF AckMeansStored, PendingAccounted, WatermarkCovered, NoGap
<1>3. Tracked' /\ Positioned'
  BY DEF Tracked, Positioned
<1>4. Ordered' /\ Contiguous' /\ InHand' /\ HeldBackByOlder'
  BY DEF Ordered, Contiguous, InHand, HeldBackByOlder
<1> QED
  BY <1>1, <1>2, <1>3, <1>4

-----------------------------------------------------------------------------
(***************************************************************************)
(* The process goes down, having saved its watermark or not.               *)
(***************************************************************************)
LEMMA DownOK ==
  ASSUME CursorIInv, GoDown,
         \/ persisted' = persisted
         \/ persisted' = safeCursor /\ safeCursor # NoCursor
  PROVE  CursorIInv'
<1> USE ConstantTypes DEF CursorIInv, GoDown
<1>1. TypeOK'
  <2>1. JetTypeOK'
    <3>1. connected' \in BOOLEAN
      BY DEF ClientReset
    <3> QED
      BY <3>1 DEF TypeOK, JetTypeOK, ClientReset, streamVars, NoPosition
  <2>2. CkptTypeOK(Position)'
    BY DEF TypeOK, CkptTypeOK, CkptReset, NoCursor
  <2>3. ProdTypeOK(Position)'
    BY DEF TypeOK, ProdTypeOK, ProdReset
  <2>4. pc' \in Phase /\ stop' \in BOOLEAN
    BY DEF Phase
  <2>5. cur' \in 0..N /\ attempt' \in 0..Retries
    BY DEF NoPosition
  <2> QED
    BY <2>1, <2>2, <2>3, <2>4, <2>5 DEF TypeOK
<1> USE DEF ClientReset, streamVars, NoPosition, CkptReset, NoCursor, ProdReset,
            Chain, Produced, RouteOf, Timed, Pending
<1>2. AckMeansStored'
  BY DEF AckMeansStored, Free
<1>3. PendingAccounted' /\ HeldBackByOlder' /\ InHand'
  BY DEF PendingAccounted, HeldBackByOlder, InHand
<1>4. WatermarkCovered'
  BY DEF WatermarkCovered
<1>5. NoGap'
  BY DEF NoGap, WatermarkCovered
<1>6. Tracked' /\ Positioned'
  BY DEF Tracked, Positioned, Running
<1>7. Ordered'
  <2>1. persisted' \in Nat
    BY <1>1 DEF TypeOK, CkptTypeOK
  <2> QED
    BY <2>1 DEF Ordered
<1>8. Contiguous'
  BY DEF Contiguous
<1> QED
  BY <1>1, <1>2, <1>3, <1>4, <1>5, <1>6, <1>7, <1>8

LEMMA StartOK == ASSUME CursorIInv, Start PROVE CursorIInv'
<1> USE ConstantTypes DEF CursorIInv, Start, Goto
<1>1. TypeOK'
  <2>1. JetTypeOK'
    <3>1. connected' \in BOOLEAN
      BY DEF ClientReset
    <3>2. latest' \in 0..N
      BY DEF TypeOK, CkptTypeOK, ClientReset, NoCursor
    <3> QED
      BY <3>1, <3>2 DEF TypeOK, JetTypeOK, ClientReset, streamVars, NoPosition
  <2>2. CkptTypeOK(Position)'
    BY CkptSame DEF TypeOK, CkptTypeOK, ckptVars
  <2>3. ProdTypeOK(Position)'
    BY ProdSame DEF TypeOK
  <2>4. pc' \in Phase
    BY DEF Phase
  <2> QED
    BY <2>1, <2>2, <2>3, <2>4 DEF TypeOK
<1> USE DEF ClientReset, streamVars, ckptVars, volatileCkpt, prodVars,
            Chain, Produced, RouteOf, Timed
\* Nothing is pending while the process is down.
<1>2. Pending = {} /\ safeCursor = NoCursor
  BY DEF TypeOK, CkptTypeOK, Ordered, Pending, NoCursor
<1>3. AckMeansStored' /\ InHand' /\ HeldBackByOlder'
  BY DEF AckMeansStored, InHand, HeldBackByOlder
<1>4. PendingAccounted' /\ WatermarkCovered' /\ NoGap'
  BY <1>2 DEF PendingAccounted, WatermarkCovered, NoGap, Pending
\* What the new process owes so far is what the persisted cursor covers.
<1>5. Tracked' /\ Positioned'
  BY DEF Tracked, Positioned, NoGap
<1>6. Ordered'
  BY <1>2 DEF Ordered, Pending, TypeOK, CkptTypeOK, NoCursor
<1>7. Contiguous'
  BY DEF Contiguous
<1> QED
  BY <1>1, <1>3, <1>4, <1>5, <1>6, <1>7

-----------------------------------------------------------------------------
(***************************************************************************)
(* The connection and the firehose.                                        *)
(***************************************************************************)
\* A step of the connection that takes no event and moves no cursor.
LEMMA ClientOK ==
  ASSUME CursorIInv, UNCHANGED <<stream, latest, ckptVars, prodVars, taskVars>>,
         JetTypeOK', since <= since', Contiguous'
  PROVE  CursorIInv'
<1> USE ConstantTypes DEF CursorIInv
<1>1. TypeOK'
  <2>1. CkptTypeOK(Position)'
    BY CkptSame DEF TypeOK, CkptTypeOK, ckptVars
  <2>2. ProdTypeOK(Position)'
    BY ProdSame DEF TypeOK
  <2>3. pc' \in Phase /\ cur' \in 0..N /\ attempt' \in 0..Retries /\ stop' \in BOOLEAN
    BY DEF TypeOK, taskVars
  <2> QED
    BY <2>1, <2>2, <2>3 DEF TypeOK
<1> USE DEF ckptVars, volatileCkpt, prodVars, taskVars, Chain, Produced, RouteOf,
            Timed, Pending
<1>2. since \in Int /\ since' \in Int /\ latest \in Nat
  BY DEF TypeOK, JetTypeOK
<1>3. AckMeansStored' /\ HeldBackByOlder' /\ InHand' /\ Ordered'
  BY DEF AckMeansStored, HeldBackByOlder, InHand, Ordered
\* A later start of the debt only takes events away from every chain.
<1>4. PendingAccounted' /\ WatermarkCovered' /\ NoGap'
  BY <1>2 DEF PendingAccounted, WatermarkCovered, NoGap
<1>5. Tracked' /\ Positioned'
  BY <1>2 DEF Tracked, Positioned
<1> QED
  BY <1>1, <1>3, <1>4, <1>5

LEMMA ConnectOK == ASSUME CursorIInv, Connect PROVE CursorIInv' /\ since <= since'
<1> USE ConstantTypes DEF CursorIInv, Connect, NoPosition
<1>1. JetTypeOK' /\ since <= since'
  <2>1. connected' \in BOOLEAN
    BY DEF Resume, JoinLive
  <2>2. next' \in 0..N + 1 /\ since' \in 1..N + 1 /\ since <= since'
    BY DEF TypeOK, JetTypeOK, Resume, JoinLive, streamVars, Contiguous
  <2> QED
    BY <2>1, <2>2 DEF TypeOK, JetTypeOK, Resume, JoinLive, streamVars
<1>2. Contiguous'
  <2>1. CASE Resume
    <3>1. latest' = latest /\ since' = since /\ head' = head
          /\ latest \in 1..N /\ (next' = latest \/ next' = latest + 1)
      BY <2>1 DEF Resume, streamVars, TypeOK, JetTypeOK
    <3>2. ASSUME NEW e \in Position, e < next' PROVE ~(latest' < e)
      BY <3>1, <3>2
    <3> QED
      BY <3>1, <3>2 DEF Contiguous
  <2>2. CASE JoinLive
    BY <2>2 DEF JoinLive, streamVars, Contiguous, TypeOK, JetTypeOK
  <2> QED
    BY <2>1, <2>2
<1>3. UNCHANGED <<stream, latest, ckptVars, prodVars, taskVars>>
  BY DEF Resume, JoinLive, streamVars
<1> QED
  BY <1>1, <1>2, <1>3, ClientOK

LEMMA DisconnectOK == ASSUME CursorIInv, Disconnect PROVE CursorIInv'
<1> USE ConstantTypes DEF CursorIInv, Disconnect, Drop, NoPosition, streamVars
<1>1. connected' \in BOOLEAN
  OBVIOUS
<1>2. JetTypeOK' /\ since <= since'
  BY <1>1 DEF TypeOK, JetTypeOK
<1>3. Contiguous'
  BY DEF Contiguous
<1> QED
  BY <1>2, <1>3, ClientOK

LEMMA FirehoseOK == ASSUME CursorIInv, Firehose PROVE CursorIInv'
<1> USE ConstantTypes DEF CursorIInv, Firehose, Publish, clientVars
<1>1. JetTypeOK' /\ since <= since'
  BY DEF TypeOK, JetTypeOK
<1>2. Contiguous'
  BY DEF Contiguous, Chain, Timed, TypeOK, JetTypeOK
<1> QED
  BY <1>1, <1>2, ClientOK

-----------------------------------------------------------------------------
(***************************************************************************)
(* The queue and the broker: the typed topics only grow, and a success is  *)
(* reported only for what is stored.                                       *)
(***************************************************************************)
LEMMA QueueOK ==
  ASSUME CursorIInv, UNCHANGED <<jetVars, ckptVars, stop>>,
         ProdTypeOK(Position)', AckMeansStored', kafka \subseteq kafka',
         pc' \in Phase, pc = "down" <=> pc' = "down",
         pc' \in Running => pc \in Running,
         pc' \in {"enqueue", "retry"} => pc \in {"enqueue", "retry"},
         cur' = cur, attempt' \in 0..Retries
  PROVE  CursorIInv'
<1> USE DEF CursorIInv
<1>1. TypeOK'
  <2>1. JetTypeOK'
    BY JetSame DEF TypeOK
  <2>2. CkptTypeOK(Position)'
    BY CkptSame DEF TypeOK, ckptVars, CkptTypeOK
  <2>3. pc' \in Phase /\ cur' \in 0..N /\ stop' \in BOOLEAN
    BY DEF TypeOK
  <2> QED
    BY <2>1, <2>2, <2>3 DEF TypeOK
<1> USE DEF jetVars, streamVars, clientVars, ckptVars, volatileCkpt,
            Chain, Produced, RouteOf, Timed, Pending
<1>2. PendingAccounted' /\ WatermarkCovered' /\ NoGap'
  BY DEF PendingAccounted, WatermarkCovered, NoGap
<1>3. Tracked' /\ Positioned'
  BY DEF Tracked, Positioned
<1>4. Ordered' /\ Contiguous' /\ InHand' /\ HeldBackByOlder'
  BY DEF Ordered, Contiguous, InHand, HeldBackByOlder
<1> QED
  BY <1>1, <1>2, <1>3, <1>4

LEMMA ProduceOK == ASSUME CursorIInv, Produce PROVE CursorIInv'
<1> USE ConstantTypes DEF CursorIInv, Produce, Enqueue
<1>1. PICK s \in Slot :
        queue' = [queue EXCEPT ![s] = [event |-> cur, dlq |-> RouteOf(cur) = "dlq",
                                       status |-> "sent"]]
  OBVIOUS
<1>2. [event |-> cur, dlq |-> RouteOf(cur) = "dlq", status |-> "sent"]
        \in Message(Position)
  <2>1. cur \in Position /\ (RouteOf(cur) = "dlq") \in BOOLEAN
    BY DEF InHand
  <2> QED
    BY <2>1 DEF Message
<1>3. ProdTypeOK(Position)'
  BY <1>1, <1>2 DEF TypeOK, ProdTypeOK
<1>4. AckMeansStored'
  BY <1>1 DEF AckMeansStored, TypeOK, ProdTypeOK, ckptVars, volatileCkpt
<1>5. pc' \in Phase /\ pc' # "down" /\ pc \in Running
  BY DEF Phase, Running
<1> QED
  BY <1>3, <1>4, <1>5, QueueOK

LEMMA BrokerOK == ASSUME CursorIInv, NEW s \in Slot, Broker(s) PROVE CursorIInv' /\ kafka \subseteq kafka'
<1> USE ConstantTypes DEF CursorIInv, Broker
<1>1. queue[s] \in Message(Position) /\ queue[s].event \in Position
  BY SlotTyped DEF TypeOK, Accept, GiveUp
<1>2. PICK st \in {"ok", "failed"} : queue' = [queue EXCEPT ![s].status = st]
                                     /\ (st = "ok" => Store(queue[s]))
  BY DEF Accept, GiveUp
<1>3. /\ kafka \subseteq kafka' /\ kafka' \subseteq kafka \cup {queue[s].event}
      /\ dlq' \subseteq dlq \cup {queue[s].event}
  BY DEF Accept, GiveUp, Store
<1>4. ProdTypeOK(Position)'
  <2>1. [queue[s] EXCEPT !.status = st] \in Message(Position)
    BY <1>1, <1>2 DEF Message
  <2> QED
    BY <1>1, <1>2, <1>3, <2>1 DEF TypeOK, ProdTypeOK
<1>5. AckMeansStored'
  <2>1. acked' \subseteq kafka'
    BY <1>3 DEF AckMeansStored, ckptVars, volatileCkpt
  <2>2. ASSUME NEW t \in Slot, queue'[t].status = "ok", ~queue'[t].dlq
        PROVE  queue'[t].event \in kafka'
    <3>1. CASE t = s
      <4>1. queue'[s] = [queue[s] EXCEPT !.status = st]
        BY <1>2 DEF TypeOK, ProdTypeOK
      <4>2. /\ queue'[s].status = st /\ queue'[s].dlq = queue[s].dlq
            /\ queue'[s].event = queue[s].event
        BY <1>1, <4>1 DEF Message
      <4> QED
        BY <1>2, <2>2, <3>1, <4>2 DEF Store
    <3>2. CASE t # s
      BY <1>2, <1>3, <2>2, <3>2 DEF AckMeansStored, TypeOK, ProdTypeOK
    <3> QED
      BY <3>1, <3>2
  <2> QED
    BY <2>1, <2>2 DEF AckMeansStored
<1>6. pc' = pc /\ cur' = cur /\ attempt' = attempt /\ stop' = stop
      /\ pc \in Phase /\ attempt \in 0..Retries
  BY DEF taskVars, TypeOK
<1> QED
  BY <1>3, <1>4, <1>5, <1>6, QueueOK

-----------------------------------------------------------------------------
(***************************************************************************)
(* Taking an event.                                                        *)
(***************************************************************************)
LEMMA YieldFacts ==
  ASSUME CursorIInv, YieldEvent
  PROVE  /\ next \in Position
         /\ JetTypeOK'
         /\ Contiguous'
         /\ stream' = stream /\ since' = since
         /\ latest' = latest \/ latest' = next
         /\ latest <= latest' /\ latest <= next /\ latest \in Nat
         /\ \A e \in Position :
              since <= e /\ e <= next /\ Produced(e) => e <= latest \/ e = next
<1> USE ConstantTypes DEF CursorIInv, YieldEvent, streamVars
<1>1. next \in 1..N /\ latest \in 0..N /\ since \in 1..N + 1 /\ head \in 0..N
      /\ latest <= next
  BY DEF TypeOK, JetTypeOK, Contiguous
<1>2. latest' = latest \/ latest' = next
  OBVIOUS
<1>3. JetTypeOK'
  <2>1. connected' \in BOOLEAN
    BY DEF TypeOK, JetTypeOK
  <2> QED
    BY <1>1, <1>2, <2>1 DEF TypeOK, JetTypeOK
<1>4. \A e \in Position :
        since <= e /\ e <= next /\ Produced(e) => e <= latest \/ e = next
  <2> SUFFICES ASSUME NEW e \in Position, since <= e, latest < e, e < next, Produced(e)
               PROVE  FALSE
    BY <1>1
  <2>1. ~Timed(e)
    BY DEF Contiguous
  <2> QED
    BY <2>1, ProducedIsTimed, StreamTyped DEF TypeOK
<1>5. Contiguous'
  <2>1. ASSUME NEW e \in Position, since <= e, latest' < e, e < next + 1
        PROVE  ~Timed(e)
    <3>1. CASE e = next
      BY <1>1, <2>1, <3>1
    <3>2. CASE e # next
      BY <1>1, <1>2, <2>1, <3>2 DEF Contiguous
    <3> QED
      BY <3>1, <3>2
  <2> QED
    BY <1>1, <1>2, <2>1 DEF Contiguous, Timed
<1> QED
  BY <1>1, <1>2, <1>3, <1>4, <1>5

\* A step that takes an event without registering it: it owes nothing, or the
\* process is on its way out.
LEMMA PassOK ==
  ASSUME CursorIInv, YieldEvent, pc = "recv", cur' = next,
         UNCHANGED <<ckptVars, prodVars, attempt, stop>>,
         pc' \in Phase \ {"down"},
         pc' \in Running => ~Produced(next)
  PROVE  CursorIInv'
<1> USE ConstantTypes, YieldFacts DEF CursorIInv
<1>1. TypeOK'
  <2>1. CkptTypeOK(Position)' /\ ProdTypeOK(Position)'
    BY CkptSame, ProdSame DEF TypeOK, CkptTypeOK, ckptVars
  <2>2. stop' \in BOOLEAN
    BY DEF TypeOK
  <2> QED
    BY <2>1, <2>2 DEF TypeOK
<1> USE DEF ckptVars, volatileCkpt, prodVars, Chain, Produced, RouteOf, Pending
<1>2. AckMeansStored' /\ HeldBackByOlder' /\ InHand'
  BY DEF AckMeansStored, HeldBackByOlder, InHand
<1>3. PendingAccounted' /\ WatermarkCovered' /\ NoGap'
  BY DEF PendingAccounted, WatermarkCovered, NoGap
<1>4. Ordered'
  BY DEF Ordered, TypeOK, CkptTypeOK, JetTypeOK, NoCursor
<1>5. ASSUME NEW e \in Position, since <= e, e <= latest', Produced(e),
             pc' \in Running \/ e # cur'
      PROVE  e <= latest
  <2>1. e <= latest \/ e = next
    BY <1>5
  <2> QED
    BY <1>5, <2>1
<1>6. Tracked' /\ Positioned'
  BY <1>5 DEF Tracked, Positioned, Running
<1> QED
  BY <1>1, <1>2, <1>3, <1>4, <1>6

\* A step that registers the event it takes.  Every older event of the chain is
\* already stored or outstanding (Tracked), so the new cursor is accounted for.
LEMMA ReceiveProduceOK == ASSUME CursorIInv, ReceiveProduce PROVE CursorIInv'
<1> USE ConstantTypes, YieldFacts DEF CursorIInv, ReceiveProduce, Take, Register
<1>1. next \in acked \cup outstanding' /\ outstanding \subseteq outstanding'
      /\ outstanding' \subseteq outstanding \cup {next}
      /\ acked' = acked /\ kafka' = kafka /\ safeCursor' = safeCursor
      /\ persisted' = persisted
  BY DEF prodVars
<1>2. TypeOK'
  <2>1. CkptTypeOK(Position)'
    BY DEF TypeOK, CkptTypeOK
  <2>2. ProdTypeOK(Position)'
    BY ProdSame DEF TypeOK
  <2>3. pc' \in Phase /\ stop' \in BOOLEAN
    BY DEF TypeOK, Phase
  <2> QED
    BY <2>1, <2>2, <2>3 DEF TypeOK
<1> USE DEF Chain, Produced, RouteOf, Pending
<1>3. AckMeansStored'
  BY DEF AckMeansStored, prodVars
<1>4. next \in kafka \cup outstanding'
  BY <1>1, <1>3 DEF AckMeansStored
<1>5. ASSUME NEW e \in Position, since <= e, e <= next, Produced(e)
      PROVE  e \in kafka \cup outstanding'
  <2>1. CASE e <= latest
    BY <1>1, <1>5, <2>1 DEF Tracked, Running
  <2>2. CASE e = next
    BY <1>4, <2>2
  <2> QED
    BY <1>5, <2>1, <2>2
<1>6. PendingAccounted'
  <2> SUFFICES ASSUME NEW c \in Pending', NEW e \in Chain(c)', Produced(e)'
               PROVE  e \in kafka' \cup outstanding'
    BY DEF PendingAccounted
  <2>1. CASE c \in Pending
    BY <1>1, <2>1 DEF PendingAccounted
  <2>2. CASE c = next
    BY <1>1, <1>5, <2>2
  <2> QED
    BY <1>1, <2>1, <2>2
<1>7. WatermarkCovered' /\ NoGap'
  BY <1>1 DEF WatermarkCovered, NoGap
<1>8. Ordered'
  <2>1. next = latest'
    <3>1. Timed(next)
      BY ProducedIsTimed, StreamTyped DEF TypeOK
    <3> QED
      BY <3>1 DEF YieldEvent
  <2>2. safeCursor \in Nat /\ persisted \in Nat /\ latest' \in Nat
    BY <2>1 DEF TypeOK, CkptTypeOK, NoCursor
  <2>3. safeCursor <= latest' /\ persisted <= latest'
    BY <2>1, <2>2 DEF Ordered
  <2>4. \A c \in Pending' : safeCursor <= c /\ persisted <= c /\ c <= latest'
    BY <1>1, <2>1, <2>2, <2>3 DEF Ordered, TypeOK, CkptTypeOK
  <2> QED
    BY <1>1, <2>3, <2>4 DEF Ordered
<1>9. Tracked'
  BY <1>1, <1>5 DEF Tracked
<1>10. Positioned'
  BY <1>1 DEF Positioned, Running
<1>11. HeldBackByOlder' /\ InHand'
  BY <1>1 DEF HeldBackByOlder, InHand
<1> QED
  BY <1>2, <1>3, <1>6, <1>7, <1>8, <1>9, <1>10, <1>11

LEMMA ReceiveOK == ASSUME CursorIInv, Receive PROVE CursorIInv'
<1>1. CASE StopBreak
  BY <1>1, PassOK DEF StopBreak, Phase, Running
<1>2. CASE ReceiveSkip
  BY <1>2, PassOK DEF ReceiveSkip, Take, Phase, Produced, ckptVars
<1>3. CASE ReceiveDlq
  BY <1>3, PassOK DEF ReceiveDlq, Take, Phase, Produced, ckptVars
<1>4. CASE ReceiveProduce
  BY <1>4, ReceiveProduceOK
<1> QED
  BY <1>1, <1>2, <1>3, <1>4 DEF Receive

-----------------------------------------------------------------------------
(***************************************************************************)
(* Delivery reports and the fold.                                          *)
(***************************************************************************)
\* What the fold leaves behind is held back by something outstanding.
LEMMA FoldSplit ==
  ASSUME NEW out, NEW ack, NEW a \in ack \ Foldable(out, ack)
  PROVE  \E o \in out : ~(a < o)
BY DEF Foldable

\* The count of folded cursors stays in its range.
LEMMA CountTyped ==
  ASSUME CkptTypeOK(Position), NEW F \in SUBSET Position
  PROVE  CountAcks(acksSinceSave + Cardinality(F)) \in 0..CheckpointAcks
<1>1. IsFiniteSet(1..N)
  BY ConstantTypes, FS_Interval
<1>2. Cardinality(F) \in Nat
  BY <1>1, ConstantTypes, FS_Subset, FS_CardinalityType
<1> QED
  BY <1>2, ConstantTypes DEF CkptTypeOK, CountAcks

\* A delivery report for a stored cursor: the cursor leaves the outstanding
\* ones and the fold runs.
LEMMA AckOK ==
  ASSUME CursorIInv, NEW c \in Position, c \in kafka, OnAck(TRUE, c),
         UNCHANGED <<jetVars, persisted, taskVars, kafka, dlq>>,
         ProdTypeOK(Position)',
         \A s \in Slot : queue'[s].status = "ok" /\ ~queue'[s].dlq
                           => queue'[s].event \in kafka'
  PROVE  CursorIInv'
<1> USE ConstantTypes DEF CursorIInv
<1> DEFINE out == outstanding \ {c}
           ack == acked \cup ({c} \cap outstanding)
           F   == Foldable(out, ack)
<1>1. /\ outstanding' = out
      /\ acked' = ack \ F
      /\ acksSinceSave' = CountAcks(acksSinceSave + Cardinality(F))
      /\ savedCursor' = savedCursor
      /\ F = {} => safeCursor' = safeCursor
      /\ F # {} => safeCursor' \in F /\ \A a \in F : a <= safeCursor'
  BY DEF OnAck, AdvanceWatermark
<1>2. /\ out \subseteq Position /\ ack \subseteq Position /\ F \subseteq ack
      /\ ack \subseteq Pending /\ out \subseteq Pending
      /\ F \subseteq Position
  BY DEF Foldable, Pending, TypeOK, CkptTypeOK
<1>3. \A a \in F : \A o \in out : a < o
  BY DEF Foldable
<1>4. \A a \in acked' : \E o \in out : o <= a
  <2> SUFFICES ASSUME NEW a \in ack \ F PROVE \E o \in out : o <= a
    BY <1>1
  <2>1. PICK o \in out : ~(a < o)
    BY FoldSplit
  <2> QED
    BY <1>2, <2>1
<1> HIDE DEF out, ack, F
<1>5. safeCursor' \in Position \cup {NoCursor} /\ safeCursor' \in Nat
      /\ safeCursor \in Nat /\ persisted \in Nat /\ latest \in Nat /\ since \in Nat
  <2>1. safeCursor \in Position \cup {NoCursor} /\ safeCursor \in Nat
        /\ persisted \in Nat /\ latest \in Nat /\ since \in Nat
    BY DEF TypeOK, CkptTypeOK, JetTypeOK, NoCursor
  <2>2. safeCursor' = safeCursor \/ safeCursor' \in Position
    BY <1>1, <1>2
  <2> QED
    BY <2>1, <2>2
<1>6. TypeOK'
  <2>1. CkptTypeOK(Position)'
    BY <1>1, <1>2, <1>5, CountTyped DEF TypeOK, CkptTypeOK
  <2>2. JetTypeOK'
    BY JetSame DEF TypeOK
  <2>3. pc' \in Phase /\ cur' \in 0..N /\ attempt' \in 0..Retries /\ stop' \in BOOLEAN
    BY DEF TypeOK, taskVars
  <2> QED
    BY <2>1, <2>2, <2>3 DEF TypeOK
<1> USE DEF jetVars, streamVars, clientVars, taskVars, Chain, Produced, RouteOf, Timed
<1>7. AckMeansStored'
  <2>1. ack \subseteq kafka
    BY DEF ack, AckMeansStored
  <2> QED
    BY <1>1, <2>1 DEF AckMeansStored
<1>8. ASSUME NEW e \in Position, e \in kafka \cup outstanding
      PROVE  e \in kafka' \cup outstanding'
  BY <1>1, <1>8 DEF out
<1>9. PendingAccounted'
  BY <1>1, <1>2, <1>8 DEF PendingAccounted, Pending
<1>10. WatermarkCovered'
  <2>1. CASE F = {}
    BY <1>1, <2>1 DEF WatermarkCovered
  <2>2. CASE F # {}
    <3>1. safeCursor' \in F /\ safeCursor' \in Pending
      BY <1>1, <1>2, <2>2
    <3>2. ASSUME NEW e \in Position, since <= e, e <= safeCursor', Produced(e)
          PROVE  e \in kafka
      <4>1. e \in kafka \cup out
        BY <1>1, <1>8, <3>1, <3>2 DEF PendingAccounted
      <4>2. e \notin out
        BY <1>2, <1>3, <1>5, <3>1, <3>2
      <4> QED
        BY <4>1, <4>2
    <3> QED
      BY <3>2 DEF WatermarkCovered
  <2> QED
    BY <2>1, <2>2
<1>11. NoGap' /\ Contiguous' /\ InHand'
  BY DEF NoGap, Contiguous, InHand
<1>12. Tracked'
  BY <1>8 DEF Tracked
\* The watermark moves up to a pending cursor, below what stays pending.
<1>13. safeCursor <= safeCursor'
  BY <1>1, <1>2, <1>5 DEF Ordered
<1>14. \A a \in Pending' : safeCursor' <= a
  <2> SUFFICES ASSUME NEW a \in Pending' PROVE safeCursor' <= a
    OBVIOUS
  <2>1. a \in Position /\ a \in Pending
    BY <1>1, <1>2 DEF Pending
  <2>2. CASE F = {}
    BY <1>1, <2>1, <2>2 DEF Ordered
  <2>3. CASE F # {}
    <3>1. safeCursor' \in F /\ safeCursor' \in Position
      BY <1>1, <1>2, <2>3
    <3>2. CASE a \in out
      BY <1>3, <2>1, <3>1, <3>2
    <3>3. CASE a \in acked'
      <4>1. PICK o \in out : o <= a
        BY <1>4, <3>3
      <4>2. safeCursor' < o /\ o \in Position
        BY <1>2, <1>3, <3>1
      <4> QED
        BY <1>5, <2>1, <4>1, <4>2
    <3> QED
      BY <1>1, <3>2, <3>3 DEF Pending
  <2> QED
    BY <2>2, <2>3
<1>15. Ordered'
  <2>1. \A a \in Pending' : a \in Pending
    BY <1>1, <1>2 DEF Pending
  <2>2. safeCursor' <= latest
    BY <1>1, <1>2, <1>5 DEF Ordered
  <2>3. safeCursor' = NoCursor \/ persisted <= safeCursor'
    BY <1>1, <1>2, <1>5 DEF Ordered
  <2>4. (pc = "down" => latest = NoCursor) /\ savedCursor' <= persisted'
    BY <1>1 DEF Ordered
  <2> QED
    BY <1>14, <2>1, <2>2, <2>3, <2>4 DEF Ordered
<1>16. HeldBackByOlder'
  BY <1>1, <1>4 DEF HeldBackByOlder
<1>17. Positioned'
  <2> SUFFICES ASSUME pc # "down", NEW e \in Position, since <= e, e <= latest,
                      Produced(e), e \notin Pending', ~(pc \notin Running /\ e = cur)
               PROVE  e <= safeCursor' \/ e <= persisted
    BY DEF Positioned
  <2>1. CASE e \in Pending
    <3>1. e \in F \/ e = c
      BY <1>1, <2>1 DEF Pending, out, ack
    <3>2. CASE e \in F
      BY <1>1, <3>2
    <3>3. CASE e = c /\ e \notin F
      BY <1>1, <2>1, <3>3 DEF Pending, ack
    <3> QED
      BY <3>1, <3>2, <3>3
  <2>2. CASE e \notin Pending
    BY <1>5, <1>13, <2>2 DEF Positioned
  <2> QED
    BY <2>1, <2>2
<1> QED
  BY <1>6, <1>7, <1>9, <1>10, <1>11, <1>12, <1>15, <1>16, <1>17

LEMMA ServeReportOK == ASSUME CursorIInv, NEW s \in Slot, ServeReport(s) PROVE CursorIInv'
<1> USE ConstantTypes DEF CursorIInv, ServeReport, TakeReport
<1>1. queue[s] \in Message(Position) /\ queue[s].event \in Position
      /\ queue[s].status \in {"ok", "failed"} /\ queue[s].dlq \in BOOLEAN
  BY SlotTyped DEF TypeOK, Reported
<1>2. ProdTypeOK(Position)'
  BY DEF TypeOK, ProdTypeOK
<1>3. \A t \in Slot : queue'[t].status = "ok" /\ ~queue'[t].dlq
                        => queue'[t].event \in kafka'
  BY DEF AckMeansStored, TypeOK, ProdTypeOK, Free
<1>4. CASE ~queue[s].dlq /\ queue[s].status = "ok"
  <2>1. OnAck(TRUE, queue[s].event)
    BY <1>4
  <2>2. queue[s].event \in kafka
    BY <1>4 DEF AckMeansStored
  <2> QED
    BY <1>1, <1>2, <1>3, <2>1, <2>2, AckOK
<1>5. CASE queue[s].dlq \/ queue[s].status = "failed"
  <2>1. UNCHANGED volatileCkpt
    BY <1>5 DEF OnAck
  <2>2. AckMeansStored'
    BY <1>3, <2>1 DEF AckMeansStored, volatileCkpt
  <2>3. pc' = pc /\ cur' = cur /\ attempt' = attempt /\ stop' = stop
        /\ pc \in Phase /\ attempt \in 0..Retries
    BY DEF taskVars, TypeOK
  <2>4. UNCHANGED <<jetVars, ckptVars, stop>>
    BY <2>1, <2>3 DEF ckptVars
  <2> QED
    BY <1>2, <2>2, <2>3, <2>4, QueueOK
<1> QED
  BY <1>1, <1>4, <1>5

-----------------------------------------------------------------------------
(***************************************************************************)
(* Saving the watermark.                                                   *)
(***************************************************************************)
LEMMA SaveOK ==
  ASSUME CursorIInv, UNCHANGED <<jetVars, prodVars, cur, attempt, stop>>,
         UNCHANGED <<outstanding, acked, safeCursor>>,
         safeCursor # NoCursor, persisted' \in {persisted, safeCursor},
         \/ savedCursor' = savedCursor
         \/ savedCursor' = safeCursor /\ persisted' = safeCursor,
         acksSinceSave' \in 0..CheckpointAcks,
         pc = "save", pc' \in {"recv", "drain"}
  PROVE  CursorIInv'
<1> USE ConstantTypes DEF CursorIInv
<1>1. TypeOK'
  <2>1. JetTypeOK' /\ ProdTypeOK(Position)'
    BY JetSame, ProdSame DEF TypeOK
  <2>2. CkptTypeOK(Position)'
    BY DEF TypeOK, CkptTypeOK
  <2>3. pc' \in Phase /\ cur' \in 0..N /\ attempt' \in 0..Retries /\ stop' \in BOOLEAN
    BY DEF TypeOK, Phase
  <2> QED
    BY <2>1, <2>2, <2>3 DEF TypeOK
<1> USE DEF jetVars, streamVars, clientVars, prodVars, Chain, Produced, RouteOf,
            Timed, Pending
<1>2. AckMeansStored' /\ PendingAccounted' /\ WatermarkCovered' /\ NoGap'
  BY DEF AckMeansStored, PendingAccounted, WatermarkCovered, NoGap
<1>3. persisted <= persisted' /\ persisted \in Nat /\ persisted' \in Nat
  BY DEF Ordered, TypeOK, CkptTypeOK, NoCursor
<1>4. Ordered'
  BY <1>3 DEF Ordered, TypeOK, CkptTypeOK, NoCursor
<1>5. Tracked' /\ Contiguous' /\ InHand' /\ HeldBackByOlder'
  BY DEF Tracked, Contiguous, InHand, HeldBackByOlder, Running
<1>6. Positioned'
  BY <1>3 DEF Positioned, Running
<1> QED
  BY <1>1, <1>2, <1>4, <1>5, <1>6

-----------------------------------------------------------------------------
\* Every step preserves the invariant.
LEMMA StepOK == ASSUME CursorIInv, [Next]_vars PROVE CursorIInv'
<1> USE ConstantTypes
<1>1. CASE Connect
  BY <1>1, ConnectOK
<1>2. CASE Receive
  BY <1>2, ReceiveOK
<1>3. CASE Produce
  BY <1>3, ProduceOK
<1>4. CASE \/ BufferError \/ ProduceRaises \/ PollReturns \/ SaveNotDue \/ Drained \/ Stop
           \/ GeneratorRaises
  <2>1. /\ UNCHANGED <<jetVars, ckptVars, prodVars>>
        /\ pc # "down" /\ pc' # "down" /\ pc' \in Phase
        /\ pc' \in Running => pc \in Running
        /\ pc' \in {"enqueue", "retry"} => pc \in {"enqueue", "retry"} /\ cur' = cur
        /\ pc \notin Running => cur' = cur
    BY <1>4 DEF BufferError, ProduceRaises, PollReturns, SaveNotDue, Drained, Stop, GeneratorRaises,
                Goto, Phase, Running, CursorIInv, TypeOK
  <2>2. cur' \in 0..N /\ attempt' \in 0..Retries
    <3>1. cur \in 0..N /\ attempt \in 0..Retries
      BY DEF CursorIInv, TypeOK
    <3>2. cur' = cur \/ cur' = 0
      BY <1>4 DEF BufferError, ProduceRaises, PollReturns, SaveNotDue, Drained, Stop, GeneratorRaises,
                  Goto, NoPosition
    <3>3. attempt' = attempt \/ (attempt < Retries /\ attempt' = attempt + 1)
      BY <1>4 DEF BufferError, ProduceRaises, PollReturns, SaveNotDue, Drained, Stop, GeneratorRaises,
                  Goto
    <3> QED
      BY <3>1, <3>2, <3>3
  <2>3. stop' \in BOOLEAN
    BY <1>4 DEF BufferError, ProduceRaises, PollReturns, SaveNotDue, Drained, Stop, GeneratorRaises,
                Goto, CursorIInv, TypeOK
  <2> QED
    BY <2>1, <2>2, <2>3, MoveOK
<1>5. ASSUME NEW s \in Slot, ServeReport(s) PROVE CursorIInv'
  BY <1>5, ServeReportOK
<1>6. CASE Save \/ SaveFails
  <2>1. acksSinceSave' \in 0..CheckpointAcks
    <3>1. acksSinceSave \in 0..CheckpointAcks /\ 0 \in 0..CheckpointAcks
      BY DEF CursorIInv, TypeOK, CkptTypeOK
    <3>2. acksSinceSave' = acksSinceSave \/ acksSinceSave' = 0
      BY <1>6 DEF Save, SaveFails, MaybeSave, SaveRaises, volatileCkpt
    <3> QED
      BY <3>1, <3>2
  <2> QED
    BY <1>6, <2>1, SaveOK DEF Save, SaveFails, MaybeSave, SaveRaises, volatileCkpt,
                              Goto, Due, Unsaved
<1>7. CASE FinalSave \/ FinalSaveFails \/ Crash
  BY <1>7, DownOK DEF FinalSave, FinalSaveFails, Crash, Unsaved
<1>8. CASE Start
  BY <1>8, StartOK
<1>9. CASE Firehose
  BY <1>9, FirehoseOK
<1>10. CASE Disconnect
  BY <1>10, DisconnectOK
<1>11. ASSUME NEW s \in Slot, Broker(s) PROVE CursorIInv'
  BY <1>11, BrokerOK
<1>12. CASE UNCHANGED vars
  BY <1>12 DEF vars, jetVars, streamVars, clientVars, ckptVars, volatileCkpt,
     prodVars, taskVars, CursorIInv, TypeOK, JetTypeOK, CkptTypeOK, ProdTypeOK,
     AckMeansStored, PendingAccounted, WatermarkCovered, NoGap, Tracked, Ordered,
     Contiguous, InHand, HeldBackByOlder, Positioned, Pending, Chain, Produced,
     RouteOf, Timed
<1> QED
  BY <1>1, <1>2, <1>3, <1>4, <1>5, <1>6, <1>7, <1>8, <1>9, <1>10, <1>11, <1>12
  DEF Next, Task, Environment

-----------------------------------------------------------------------------
(***************************************************************************)
(* Theorems                                                                *)
(***************************************************************************)
\* The invariant of the cursor holds in every reachable state.
THEOREM CursorInductive == Spec => []CursorIInv
BY InitOK, StepOK, PTL DEF Spec

\* Every variable of the service keeps its type: in particular the retry
\* counter of _enqueue stays in its bound and the event handed to the producer
\* is an event of the stream.
THEOREM TypeCorrect == Spec => []TypeOK
<1>1. CursorIInv => TypeOK
  BY DEF CursorIInv
<1> QED
  BY <1>1, CursorInductive, PTL

\* The cursor in Postgres never covers an event that is missing from the typed
\* topics, for every stream, queue size, checkpoint threshold and number of
\* crashes (main.py:59-65, cursor_store.py:3-6).
THEOREM NeverSkipsAGap == Spec => []NoGap
<1>1. CursorIInv => NoGap
  BY DEF CursorIInv
<1> QED
  BY <1>1, CursorInductive, PTL

\* The live process never forgets an event it took before it is stored.
THEOREM NeverForgets == Spec => []Tracked
<1>1. CursorIInv => Tracked
  BY DEF CursorIInv
<1> QED
  BY <1>1, CursorInductive, PTL

\* An acknowledged cursor waits only behind an older unacknowledged one, and
\* with nothing outstanding the watermark has caught up with the stream.
THEOREM WatermarkCatchesUp == Spec => []WatermarkIsMaximal
<1>1. CursorIInv => WatermarkIsMaximal
  BY DEF CursorIInv, WatermarkIsMaximal, HeldBackByOlder, Positioned, Pending, Running
<1> QED
  BY <1>1, CursorInductive, PTL

-----------------------------------------------------------------------------
\* The persisted cursor changes only to a watermark of the process.
LEMMA PersistedStep ==
  ASSUME CursorIInv, [Next]_vars
  PROVE  \/ persisted' = persisted
         \/ /\ persisted' = safeCursor /\ safeCursor # NoCursor
            /\ UNCHANGED <<stream, kafka, since>>
<1>1. CASE Save \/ SaveFails \/ FinalSave \/ FinalSaveFails
  BY <1>1 DEF Save, SaveFails, FinalSave, FinalSaveFails, MaybeSave, SaveRaises, Due,
              Unsaved, GoDown, ClientReset, ProdReset, jetVars, streamVars, prodVars
<1>2. CASE Connect \/ Receive \/ Disconnect \/ Firehose
  BY <1>2 DEF Connect, Receive, StopBreak, ReceiveSkip, ReceiveDlq, ReceiveProduce,
              Take, Disconnect, Firehose, ckptVars
<1>3. CASE \/ Produce \/ BufferError \/ ProduceRaises \/ PollReturns \/ SaveNotDue \/ Drained
           \/ GeneratorRaises
  BY <1>3 DEF GeneratorRaises, Produce, BufferError, ProduceRaises, PollReturns, SaveNotDue, Drained,
              ckptVars
<1>4. CASE Start \/ Crash \/ Stop
  BY <1>4 DEF Start, Crash, Stop, ckptVars
<1>5. ASSUME NEW s \in Slot, ServeReport(s) \/ Broker(s) PROVE persisted' = persisted
  BY <1>5 DEF ServeReport, Broker, ckptVars
<1>6. CASE UNCHANGED vars
  BY <1>6 DEF vars, ckptVars
<1> QED
  BY <1>1, <1>2, <1>3, <1>4, <1>5, <1>6 DEF Next, Task, Environment

\* The persisted cursor never moves backwards: the watermark a process saves is
\* never below the cursor it started from, nor below an earlier save.
THEOREM CursorNeverRegresses == Spec => CursorMonotone
<1>1. ASSUME CursorIInv, [Next]_vars PROVE [persisted' >= persisted]_persisted
  BY <1>1, PersistedStep DEF CursorIInv, Ordered, TypeOK, CkptTypeOK, NoCursor, Position
<1> QED
  BY <1>1, CursorInductive, PTL DEF Spec, CursorMonotone

\* A graceful stop that left nothing outstanding saves a cursor no event that the
\* process produced lies above, and no event below a saved cursor is taken: the
\* next start repeats at most the event at the cursor (main.py:201-203,
\* jetstream_client.py:60-69).
THEOREM GracefulStopsRepeatAtMostOne == Spec => GracefulStopRepeatsAtMostOne
<1>1. ASSUME CursorIInv, FinalSave, outstanding = {},
             NEW e \in Chain(latest) \ {cur}, Produced(e)
      PROVE  e <= persisted'
  <2>1. acked = {}
    BY <1>1 DEF CursorIInv, HeldBackByOlder
  <2>2. e <= safeCursor \/ e <= persisted
    BY <1>1, <2>1 DEF FinalSave, CursorIInv, Positioned, Pending
  <2>3. e \in Nat \ {0} /\ safeCursor \in Nat /\ persisted \in Nat
    BY <1>1, ConstantTypes DEF Chain, CursorIInv, TypeOK, CkptTypeOK, NoCursor
  <2>4. CASE Unsaved
    BY <1>1, <2>2, <2>3, <2>4 DEF FinalSave, CursorIInv, Ordered, Unsaved
  <2>5. CASE ~Unsaved
    BY <1>1, <2>2, <2>3, <2>5 DEF FinalSave, CursorIInv, Ordered, Unsaved, NoCursor
  <2> QED
    BY <2>4, <2>5
<1>2. ASSUME CursorIInv, Receive PROVE persisted <= next
  <2>1. pc = "recv" /\ connected
    BY <1>2 DEF Receive, StopBreak, ReceiveSkip, ReceiveDlq, ReceiveProduce, Take, YieldEvent
  <2>2. persisted <= latest /\ latest <= next
    BY <1>2, <2>1 DEF CursorIInv, Ordered, Contiguous
  <2>3. persisted \in Nat /\ latest \in Nat /\ next \in Nat
    BY <1>2, ConstantTypes DEF CursorIInv, TypeOK, CkptTypeOK, JetTypeOK, NoCursor
  <2> QED
    BY <2>2, <2>3
<1>3. ASSUME CursorIInv, [Next]_vars
      PROVE  [/\ FinalSave /\ outstanding = {} =>
                   \A e \in Chain(latest) \ {cur} : Produced(e) => e <= persisted'
              /\ Receive => persisted <= next]_vars
  BY <1>1, <1>2, <1>3
<1> QED
  BY <1>3, CursorInductive, PTL DEF Spec, GracefulStopRepeatsAtMostOne

-----------------------------------------------------------------------------
(***************************************************************************)
(* Ingest implements DurableCursor.                                        *)
(***************************************************************************)
\* What a step may do to the state the abstraction sees.
LEMMA VisibleStep ==
  ASSUME CursorIInv, [Next]_vars
  PROVE  /\ stream' = stream
         /\ \/ UNCHANGED <<kafka, persisted, since>>
            \/ /\ \E e \in Position : kafka' = kafka \cup {e}
               /\ UNCHANGED <<persisted, since>>
            \/ /\ persisted' = safeCursor /\ safeCursor # NoCursor
               /\ UNCHANGED <<kafka, since>>
            \/ /\ persisted = 0 /\ since' = head + 1
               /\ UNCHANGED <<kafka, persisted>>
<1>1. CASE Save \/ SaveFails \/ FinalSave \/ FinalSaveFails
  BY <1>1 DEF Save, SaveFails, FinalSave, FinalSaveFails, MaybeSave, SaveRaises, Due,
              Unsaved, GoDown, ClientReset, ProdReset, jetVars, streamVars, prodVars
<1>2. CASE Connect
  <2>1. CASE Resume
    BY <1>2, <2>1 DEF Connect, Resume, streamVars, ckptVars, prodVars
  <2>2. CASE JoinLive
    <3>1. persisted = 0
      BY <1>2, <2>2, ConstantTypes DEF Connect, JoinLive, NoPosition, NoCursor, CursorIInv,
         Ordered, TypeOK, CkptTypeOK
    <3> QED
      BY <1>2, <2>2, <3>1 DEF Connect, JoinLive, streamVars, ckptVars, prodVars
  <2> QED
    BY <1>2, <2>1, <2>2 DEF Connect
<1>3. CASE Receive \/ Disconnect \/ Firehose
  BY <1>3 DEF Receive, StopBreak, ReceiveSkip, ReceiveDlq, ReceiveProduce, Take,
              YieldEvent, Disconnect, Drop, Firehose, Publish, streamVars, ckptVars,
              prodVars
<1>4. CASE \/ Produce \/ BufferError \/ ProduceRaises \/ PollReturns \/ SaveNotDue \/ Drained
           \/ GeneratorRaises
  BY <1>4 DEF GeneratorRaises, Produce, Enqueue, BufferError, ProduceRaises, PollReturns, SaveNotDue,
              Drained, jetVars, streamVars, ckptVars, prodVars
<1>5. CASE Start \/ Crash \/ Stop
  BY <1>5 DEF Start, Crash, Stop, GoDown, ClientReset, ProdReset, jetVars, streamVars,
              ckptVars, prodVars
<1>6. ASSUME NEW s \in Slot, ServeReport(s)
      PROVE  UNCHANGED <<stream, kafka, persisted, since>>
  BY <1>6 DEF ServeReport, TakeReport, jetVars, streamVars
<1>7. ASSUME NEW s \in Slot, Broker(s)
      PROVE  /\ UNCHANGED <<stream, persisted, since>>
             /\ \/ kafka' = kafka
                \/ \E e \in Position : kafka' = kafka \cup {e}
  <2>1. queue[s].event \in Position
    BY <1>7, SlotTyped DEF CursorIInv, TypeOK, Broker, Accept, GiveUp
  <2> QED
    BY <1>7, <2>1 DEF Broker, Accept, GiveUp, Store, jetVars, streamVars, ckptVars
<1>8. CASE UNCHANGED vars
  BY <1>8 DEF vars, jetVars, streamVars, ckptVars, prodVars
<1> QED
  BY <1>1, <1>2, <1>3, <1>4, <1>5, <1>6, <1>7, <1>8 DEF Next, Task, Environment

LEMMA DurableInit == Init => Durable!Init
<1> SUFFICES ASSUME Init PROVE Durable!Init
  OBVIOUS
<1>1. { e \in Position : Produced(e) } \subseteq Durable!Position
  BY DEF Position, Durable!Position
<1> QED
  BY <1>1 DEF Init, JetInit, ProdInit, NoCursor, Durable!Init

LEMMA DurableStep ==
  ASSUME CursorIInv, [Next]_vars
  PROVE  [Durable!Next]_Durable!vars
<1> DEFINE owed == { e \in Position : Produced(e) }
<1>1. CursorIInv'
  BY StepOK
<1>2. stream' = stream /\ owed' = owed
  BY VisibleStep DEF Produced, RouteOf
<1>3. /\ persisted \in Nat /\ persisted' \in 0..N /\ safeCursor \in Nat
      /\ since \in 1..N + 1 /\ since' \in 1..N + 1 /\ head \in 0..N /\ since <= head + 1
      /\ Durable!Position = Position
  BY <1>1, ConstantTypes DEF CursorIInv, TypeOK, CkptTypeOK, JetTypeOK, NoCursor, Contiguous,
     Durable!Position
<1>4. CASE UNCHANGED <<kafka, persisted, since>>
  BY <1>2, <1>4 DEF Durable!vars
<1>5. CASE (\E e \in Position : kafka' = kafka \cup {e}) /\ UNCHANGED <<persisted, since>>
  BY <1>2, <1>3, <1>5 DEF Durable!Next, Durable!Append
<1>6. CASE persisted' = safeCursor /\ safeCursor # NoCursor /\ UNCHANGED <<kafka, since>>
  <2>1. persisted' \in persisted..N
    BY <1>3, <1>6, ConstantTypes DEF CursorIInv, Ordered
  <2>2. { e \in owed : since <= e /\ e <= persisted' } \subseteq kafka
    BY <1>6 DEF CursorIInv, WatermarkCovered, Chain
  <2> QED
    BY <1>2, <1>6, <2>1, <2>2 DEF Durable!Next, Durable!Advance, Durable!Covered
<1>7. CASE persisted = 0 /\ since' = head + 1 /\ UNCHANGED <<kafka, persisted>>
  <2>1. since' \in since..N + 1
    BY <1>3, <1>7, ConstantTypes
  <2> QED
    BY <1>2, <1>7, <2>1 DEF Durable!Next, Durable!Join
<1> QED
  BY <1>4, <1>5, <1>6, <1>7, VisibleStep

\* The service implements the durable cursor it promises: every step either
\* stores one event, advances the cursor over stored events only, joins the
\* stream anew while there is no cursor, or is invisible.
THEOREM ImplementsDurableCursor == Spec => DurableCursorSpec
BY DurableInit, DurableStep, CursorInductive, PTL DEF Spec, DurableCursorSpec, Durable!Spec

-----------------------------------------------------------------------------
(***************************************************************************)
(* The replay window: the two conjuncts of IInv that count.                *)
(***************************************************************************)
\* A set of positions is finite, and so has a size.
LEMMA PositionsCount ==
  ASSUME NEW S \in SUBSET Position
  PROVE  IsFiniteSet(S) /\ Cardinality(S) \in Nat
<1>1. IsFiniteSet(Position)
  BY ConstantTypes, FS_Interval
<1> QED
  BY <1>1, FS_Subset, FS_CardinalityType

\* Nothing is counted for a process that has not folded a cursor yet.
LEMMA NoneUnpersisted ==
  ASSUME CursorIInv, safeCursor <= persisted
  PROVE  Unpersisted = {} /\ Cardinality(Unpersisted) = 0
<1>1. Unpersisted = {}
  BY ConstantTypes DEF Unpersisted, Chain, CursorIInv, TypeOK, CkptTypeOK, NoCursor
<1> QED
  BY <1>1, FS_EmptySet

\* A fold adds to the window only cursors that it counts: an event the
\* watermark moves over is pending (Positioned), and not outstanding.
LEMMA FoldWidens ==
  ASSUME CursorIInv, pc \in Running, NEW c \in Position, OnAck(TRUE, c),
         UNCHANGED <<stream, since, persisted>>
  PROVE  \E F \in SUBSET Position :
           /\ acksSinceSave' = CountAcks(acksSinceSave + Cardinality(F))
           /\ Unpersisted' \subseteq Unpersisted \cup F
<1> USE ConstantTypes DEF CursorIInv
<1> DEFINE out == outstanding \ {c}
           ack == acked \cup ({c} \cap outstanding)
           F   == Foldable(out, ack)
<1>1. /\ acksSinceSave' = CountAcks(acksSinceSave + Cardinality(F))
      /\ F = {} => safeCursor' = safeCursor
      /\ F # {} => safeCursor' \in F
  BY DEF OnAck, AdvanceWatermark
<1>2. /\ out \subseteq Position /\ ack \subseteq Position /\ F \subseteq Position
      /\ Pending = out \cup ack /\ F \subseteq Pending
  BY DEF Foldable, Pending, TypeOK, CkptTypeOK
<1>3. \A a \in F : \A o \in out : a < o
  BY DEF Foldable
<1>4. \A e \in ack : (\A o \in out : e < o) => e \in F
  BY DEF Foldable
<1> HIDE DEF out, ack, F
<1>5. F = {} => Unpersisted' = Unpersisted
  BY <1>1 DEF Unpersisted, Chain, Produced, RouteOf
<1>6. ASSUME F # {}, NEW e \in Unpersisted'
      PROVE  e \in Unpersisted \cup F
  <2>1. /\ e \in Position /\ since <= e /\ e <= safeCursor' /\ persisted < e /\ Produced(e)
    BY <1>6 DEF Unpersisted, Chain, Produced, RouteOf
  <2>2. safeCursor' \in F /\ safeCursor' \in Position /\ safeCursor' <= latest
    BY <1>1, <1>2, <1>6 DEF Ordered
  <2>3. latest \in Nat /\ safeCursor \in Nat /\ persisted \in Nat /\ since \in Nat
    BY DEF TypeOK, JetTypeOK, CkptTypeOK, NoCursor
  <2>4. e \in Chain(latest)
    BY <2>1, <2>2, <2>3 DEF Chain
  <2>5. e \in Pending \/ e <= safeCursor
    BY <2>1, <2>3, <2>4 DEF Positioned, Running
  <2>6. CASE e <= safeCursor
    BY <2>1, <2>6 DEF Unpersisted, Chain
  <2>7. CASE e \in Pending
    <3>1. \A o \in out : safeCursor' < o /\ e < o
      BY <1>2, <1>3, <2>1, <2>2
    <3>2. e \notin out
      BY <2>1, <3>1
    <3> QED
      BY <1>2, <1>4, <2>7, <3>1, <3>2
  <2> QED
    BY <2>5, <2>6, <2>7
<1>7. Unpersisted' \subseteq Unpersisted \cup F
  BY <1>5, <1>6
<1> QED
  BY <1>1, <1>2, <1>7

\* The counter keeps up with a window that widens by what was counted.
LEMMA CountCovers ==
  ASSUME CursorIInv, FoldsCounted, pc \in Running, NEW F \in SUBSET Position,
         acksSinceSave' = CountAcks(acksSinceSave + Cardinality(F)),
         Unpersisted' \subseteq Unpersisted \cup F
  PROVE  acksSinceSave' < CheckpointAcks => Cardinality(Unpersisted') <= acksSinceSave'
<1> SUFFICES ASSUME acksSinceSave' < CheckpointAcks
             PROVE  Cardinality(Unpersisted') <= acksSinceSave'
  OBVIOUS
<1> USE ConstantTypes
<1>1. Unpersisted \in SUBSET Position
  BY DEF Unpersisted, Chain
<1>2. /\ IsFiniteSet(F) /\ Cardinality(F) \in Nat
      /\ IsFiniteSet(Unpersisted) /\ Cardinality(Unpersisted) \in Nat
      /\ Cardinality(Unpersisted \cap F) \in Nat
  BY <1>1, PositionsCount
<1>3. acksSinceSave \in Nat
  BY DEF CursorIInv, TypeOK, CkptTypeOK
<1>4. acksSinceSave < CheckpointAcks /\ acksSinceSave' = acksSinceSave + Cardinality(F)
  BY <1>2, <1>3 DEF CountAcks
<1>5. Cardinality(Unpersisted) <= acksSinceSave
  BY <1>4 DEF FoldsCounted
<1>6. /\ IsFiniteSet(Unpersisted \cup F)
      /\ Cardinality(Unpersisted \cup F)
           = Cardinality(Unpersisted) + Cardinality(F) - Cardinality(Unpersisted \cap F)
  BY <1>2, FS_Union
<1>7. Cardinality(Unpersisted') <= Cardinality(Unpersisted \cup F)
      /\ Cardinality(Unpersisted') \in Nat
  BY <1>6, FS_Subset, FS_CardinalityType
<1> QED
  BY <1>2, <1>3, <1>4, <1>5, <1>6, <1>7

\* Apart from a fold, the window and its counter stay as they are, or the
\* window is empty, or the process is not running.
LEMMA QuietStep ==
  ASSUME CursorIInv, CursorIInv', [Next]_vars
  PROVE  \/ pc' \notin Running
         \/ safeCursor' <= persisted'
         \/ pc \in Running /\ acksSinceSave' = acksSinceSave /\ Unpersisted' = Unpersisted
         \/ /\ pc \in Running /\ \E c \in Position : OnAck(TRUE, c)
            /\ UNCHANGED <<stream, since, persisted>>
<1> USE ConstantTypes
<1>1. CASE FinalSave \/ FinalSaveFails \/ Crash \/ StopBreak \/ SaveFails \/ Drained
           \/ ProduceRaises \/ GeneratorRaises
  BY <1>1 DEF GeneratorRaises, FinalSave, FinalSaveFails, Crash, GoDown, StopBreak, SaveFails, Drained,
              ProduceRaises, Goto, Running
<1>2. CASE Start
  <2>1. safeCursor = 0 /\ persisted \in Nat
    BY <1>2 DEF Start, CursorIInv, Ordered, TypeOK, CkptTypeOK, NoCursor
  <2>2. safeCursor' <= persisted'
    BY <1>2, <2>1 DEF Start, ckptVars, volatileCkpt
  <2> QED
    BY <2>2
<1>3. CASE Save
  BY <1>3 DEF Save, MaybeSave, CursorIInv, TypeOK, CkptTypeOK, NoCursor
<1>4. CASE Connect
  <2>1. CASE JoinLive
    <3>1. safeCursor = 0 /\ persisted \in Nat
      BY <1>4, <2>1 DEF Connect, JoinLive, NoPosition, CursorIInv, Ordered, TypeOK,
         CkptTypeOK, NoCursor
    <3>2. safeCursor' <= persisted'
      BY <1>4, <3>1 DEF Connect, ckptVars, volatileCkpt
    <3> QED
      BY <3>2
  <2>2. CASE Resume
    BY <1>4, <2>2 DEF Connect, Resume, streamVars, ckptVars, volatileCkpt, taskVars,
       Running, Unpersisted, Chain, Produced, RouteOf
  <2> QED
    BY <1>4, <2>1, <2>2 DEF Connect
<1>5. CASE \/ ReceiveSkip \/ ReceiveDlq \/ ReceiveProduce \/ Produce \/ BufferError
           \/ PollReturns \/ SaveNotDue
  BY <1>5 DEF ReceiveSkip, ReceiveDlq, ReceiveProduce, Take, YieldEvent, Register,
     Produce, BufferError, PollReturns, SaveNotDue, Goto, jetVars, streamVars, ckptVars,
     volatileCkpt, Running, Unpersisted, Chain, Produced, RouteOf
<1>6. CASE Disconnect \/ Firehose \/ Stop \/ UNCHANGED vars
  BY <1>6 DEF Disconnect, Drop, Firehose, Publish, Stop, vars, jetVars, streamVars,
     ckptVars, volatileCkpt, taskVars, Running, Unpersisted, Chain, Produced, RouteOf
<1>7. ASSUME NEW s \in Slot, Broker(s)
      PROVE  pc' = pc /\ acksSinceSave' = acksSinceSave /\ Unpersisted' = Unpersisted
  BY <1>7 DEF Broker, jetVars, streamVars, ckptVars, volatileCkpt, taskVars,
     Unpersisted, Chain, Produced, RouteOf
<1>8. ASSUME NEW s \in Slot, ServeReport(s)
      PROVE  /\ pc' = pc /\ UNCHANGED <<stream, since, persisted>>
             /\ \/ \E c \in Position : OnAck(TRUE, c)
                \/ acksSinceSave' = acksSinceSave /\ Unpersisted' = Unpersisted
  <2>1. queue[s].event \in Position /\ queue[s].status \in {"ok", "failed"}
    BY <1>8, SlotTyped DEF ServeReport, TakeReport, Reported, CursorIInv, TypeOK
  <2>2. pc' = pc /\ UNCHANGED <<stream, since, persisted>>
    BY <1>8 DEF ServeReport, taskVars, jetVars, streamVars
  <2>3. CASE UNCHANGED volatileCkpt
    BY <2>2, <2>3 DEF volatileCkpt, Unpersisted, Chain, Produced, RouteOf
  <2>4. UNCHANGED volatileCkpt \/ OnAck(TRUE, queue[s].event)
    BY <1>8, <2>1 DEF ServeReport, OnAck
  <2> QED
    BY <2>1, <2>2, <2>3, <2>4
<1> QED
  BY <1>1, <1>2, <1>3, <1>4, <1>5, <1>6, <1>7, <1>8 DEF Next, Task, Environment, Receive

LEMMA FoldsCountedOK ==
  ASSUME CursorIInv, CursorIInv', FoldsCounted, [Next]_vars
  PROVE  FoldsCounted'
<1> SUFFICES ASSUME pc' \in Running, acksSinceSave' < CheckpointAcks
             PROVE  Cardinality(Unpersisted') <= acksSinceSave'
  BY DEF FoldsCounted
<1>1. CASE safeCursor' <= persisted'
  <2>1. Cardinality(Unpersisted') = 0
    <3>1. Unpersisted' = {}
      BY <1>1, ConstantTypes DEF Unpersisted, Chain, CursorIInv, TypeOK, CkptTypeOK, NoCursor
    <3> QED
      BY <3>1, FS_EmptySet
  <2>2. acksSinceSave' \in Nat
    BY ConstantTypes DEF CursorIInv, TypeOK, CkptTypeOK
  <2> QED
    BY <2>1, <2>2
<1>2. CASE pc \in Running /\ acksSinceSave' = acksSinceSave /\ Unpersisted' = Unpersisted
  BY <1>2 DEF FoldsCounted
<1>3. CASE /\ pc \in Running /\ \E c \in Position : OnAck(TRUE, c)
           /\ UNCHANGED <<stream, since, persisted>>
  BY <1>3, FoldWidens, CountCovers
<1> QED
  BY <1>1, <1>2, <1>3, QuietStep

\* The loop comes back to the stream from a save, from a save that was not due,
\* or at its start, when there is nothing to save.
LEMMA SaveNotOverdueOK ==
  ASSUME CursorIInv, SaveNotOverdue, [Next]_vars
  PROVE  SaveNotOverdue'
<1> USE DEF SaveNotOverdue, Due, Unsaved
<1>1. CASE FinalSave \/ FinalSaveFails \/ Crash \/ Receive \/ SaveFails \/ Drained
           \/ Produce \/ BufferError \/ ProduceRaises \/ PollReturns \/ GeneratorRaises
  BY <1>1 DEF FinalSave, FinalSaveFails, Crash, GoDown, Receive, StopBreak, ReceiveSkip,
     ReceiveDlq, ReceiveProduce, Take, SaveFails, Drained, Produce, BufferError,
     ProduceRaises, PollReturns, GeneratorRaises, Goto
<1>2. CASE Start
  BY <1>2, ConstantTypes DEF Start, ckptVars, volatileCkpt, CursorIInv, Ordered, TypeOK,
     CkptTypeOK, NoCursor
<1>3. CASE Save \/ SaveNotDue
  BY <1>3 DEF Save, MaybeSave, SaveNotDue, Goto, ckptVars, volatileCkpt
<1>4. CASE Connect \/ Disconnect \/ Firehose \/ Stop \/ UNCHANGED vars
  BY <1>4 DEF Connect, Disconnect, Firehose, Stop, vars, ckptVars, volatileCkpt, taskVars
<1>5. ASSUME NEW s \in Slot, Broker(s) PROVE SaveNotOverdue'
  BY <1>5 DEF Broker, ckptVars, volatileCkpt, taskVars
<1>6. ASSUME NEW s \in Slot, ServeReport(s) PROVE SaveNotOverdue'
  BY <1>6 DEF ServeReport, taskVars
<1> QED
  BY <1>1, <1>2, <1>3, <1>4, <1>5, <1>6 DEF Next, Task, Environment

LEMMA CountInitOK == Init => FoldsCounted /\ SaveNotOverdue
BY DEF Init, FoldsCounted, SaveNotOverdue, Running

\* The invariant of IngestInductive holds in every reachable state.
THEOREM Inductive == Spec => []IInv
<1>1. Init => IInv
  BY InitOK, CountInitOK DEF IInv
<1>2. IInv /\ [Next]_vars => IInv'
  BY StepOK, FoldsCountedOK, SaveNotOverdueOK DEF IInv
<1> QED
  BY <1>1, <1>2, PTL DEF Spec

\* However deliveries are reordered, repeated or lost, and wherever saves fail, a
\* process killed while it waits for an event repeats, up to the first event that
\* is unacknowledged, fewer than CheckpointAcks (main.py:103-117), for every
\* threshold.
THEOREM ReplayIsBounded == Spec => []ReplayWindowBounded
<1>1. ASSUME IInv, pc = "recv" PROVE Cardinality(Unpersisted) < CheckpointAcks
  <2> USE ConstantTypes DEF IInv
  <2>1. ~Due(FALSE)
    BY <1>1 DEF SaveNotOverdue
  <2>2. acksSinceSave \in Nat /\ safeCursor \in Nat /\ persisted \in Nat
        /\ savedCursor <= persisted
    BY <1>1 DEF CursorIInv, TypeOK, CkptTypeOK, NoCursor, Ordered
  <2>3. CASE ~Unsaved
    <3>1. safeCursor <= persisted
      BY <2>2, <2>3 DEF Unsaved, NoCursor
    <3> QED
      BY <1>1, <3>1, NoneUnpersisted
  <2>4. CASE ~(acksSinceSave >= CheckpointAcks)
    <3>1. Unpersisted \in SUBSET Position
      BY DEF Unpersisted, Chain
    <3>2. Cardinality(Unpersisted) \in Nat
      BY <3>1, PositionsCount
    <3>3. Cardinality(Unpersisted) <= acksSinceSave
      BY <1>1, <2>2, <2>4 DEF FoldsCounted, Running
    <3> QED
      BY <2>2, <2>4, <3>2, <3>3
  <2> QED
    BY <2>1, <2>3, <2>4 DEF Due
<1>2. ASSUME IInv, pc = "recv",
             NEW e \in Chain(latest), Produced(e), persisted < e, \A o \in outstanding : e < o
      PROVE  e \in Unpersisted
  <2> USE ConstantTypes DEF IInv, CursorIInv
  <2>1. e \in Nat /\ persisted \in Nat /\ since <= e
    BY <1>2 DEF Chain, TypeOK, CkptTypeOK, NoCursor
  <2>2. e \notin outstanding
    BY <1>2, <2>1
  <2>3. e \notin acked
    <3>1. SUFFICES ASSUME e \in acked PROVE FALSE
      OBVIOUS
    <3>2. PICK o \in outstanding : o <= e
      BY <1>2, <3>1 DEF HeldBackByOlder
    <3>3. o \in Nat /\ e < o
      BY <1>2, <3>2 DEF TypeOK, CkptTypeOK
    <3> QED
      BY <2>1, <3>2, <3>3
  <2>4. e <= safeCursor
    BY <1>2, <2>1, <2>2, <2>3 DEF Positioned, Pending, Running
  <2> QED
    BY <1>2, <2>1, <2>4 DEF Unpersisted, Chain
<1>3. ASSUME IInv, pc = "recv"
      PROVE  Cardinality({ e \in Chain(latest) : /\ Produced(e) /\ persisted < e
                                                 /\ \A o \in outstanding : e < o })
               < CheckpointAcks
  <2> DEFINE S == { e \in Chain(latest) : /\ Produced(e) /\ persisted < e
                                          /\ \A o \in outstanding : e < o }
  <2>1. S \subseteq Unpersisted
    BY <1>2, <1>3
  <2>2. Unpersisted \in SUBSET Position /\ S \in SUBSET Position
    BY DEF Unpersisted, Chain
  <2>3. IsFiniteSet(Unpersisted)
    BY <2>2, PositionsCount
  <2>4. Cardinality(S) <= Cardinality(Unpersisted)
    BY <2>1, <2>3, FS_Subset
  <2>5. Cardinality(S) \in Nat /\ Cardinality(Unpersisted) \in Nat
    BY <2>2, PositionsCount
  <2>6. Cardinality(Unpersisted) < CheckpointAcks
    BY <1>1, <1>3
  <2> QED
    BY <2>4, <2>5, <2>6, ConstantTypes
<1>4. IInv => ReplayWindowBounded
  BY <1>3 DEF ReplayWindowBounded
<1> QED
  BY <1>4, Inductive, PTL
=============================================================================

-------------------------- MODULE IngestInductive --------------------------
(***************************************************************************)
(* The inductive invariant behind the safety properties of Ingest.  NoGap  *)
(* alone is not inductive: what a later fold adds to the watermark must    *)
(* already be accounted for, and what is accounted for depends on what the *)
(* client has passed over.                                                 *)
(***************************************************************************)
EXTENDS Ingest

Pending == outstanding \cup acked

\* An acknowledgement is proof of storage.
AckMeansStored ==
  /\ acked \subseteq kafka
  /\ \A s \in Slot :
       queue[s].status = "ok" /\ ~queue[s].dlq => queue[s].event \in kafka

\* Everything owed up to a pending cursor is stored or still outstanding, so
\* folding that cursor once nothing below it is outstanding opens no gap.
PendingAccounted ==
  \A c \in Pending : \A e \in Chain(c) : Produced(e) => e \in kafka \cup outstanding

WatermarkCovered == \A e \in Chain(safeCursor) : Produced(e) => e \in kafka

\* savedCursor <= persisted <= safeCursor <= every pending cursor <= latest.
Ordered ==
  /\ \A c \in Pending : safeCursor <= c /\ persisted <= c /\ c <= latest
  /\ safeCursor <= latest
  /\ safeCursor = NoCursor \/ persisted <= safeCursor
  /\ savedCursor <= persisted
  /\ IF pc = "down" THEN latest = NoCursor ELSE persisted <= latest

\* The connection delivers from right after the latest cursor, but for events
\* that have none.
Contiguous ==
  /\ since <= head + 1
  /\ connected =>
       /\ 1 <= next /\ latest <= next
       /\ \A e \in Position :
            since <= e /\ latest < e /\ e < next => ~Timed(e)

InHand == pc \in {"enqueue", "retry"} => cur \in Position

HeldBackByOlder == \A a \in acked : \E o \in outstanding : o <= a

\* Every event the process has taken is pending or folded; the event in hand
\* when it leaves the loop may be neither.
Positioned ==
  pc # "down" =>
    \A e \in Chain(latest) :
      Produced(e) => \/ e \in Pending \/ e <= safeCursor \/ e <= persisted
                     \/ pc \notin Running /\ e = cur

\* What NoGap, CursorMonotone and the refinement of DurableCursor follow from,
\* inductive on its own.
CursorIInv ==
  /\ TypeOK
  /\ AckMeansStored
  /\ PendingAccounted
  /\ WatermarkCovered
  /\ NoGap
  /\ Tracked
  /\ Ordered
  /\ Contiguous
  /\ InHand
  /\ HeldBackByOlder
  /\ Positioned

-----------------------------------------------------------------------------
(***************************************************************************)
(* What ReplayWindowBounded rests on.                                      *)
(***************************************************************************)
\* What a process that starts now would repeat although it is acknowledged.
Unpersisted == { e \in Chain(safeCursor) : Produced(e) /\ persisted < e }

\* Below the threshold, the counter of folds since the last save covers them:
\* a fold moves the watermark over no event that it does not count.
FoldsCounted ==
  pc \in Running /\ acksSinceSave < CheckpointAcks =>
    Cardinality(Unpersisted) <= acksSinceSave

\* The loop is back at the stream only once the save that was due is done.
SaveNotOverdue == pc = "recv" => ~Due(FALSE)

\* The conjunction that every step of the service preserves.
IInv == CursorIInv /\ FoldsCounted /\ SaveNotOverdue
=============================================================================

------------------------ MODULE CheckpointerHistory ------------------------
(***************************************************************************)
(* The checkpointer on its own, fed with events in stream order, the last  *)
(* of them possibly again, and with delivery reports in any order;         *)
(* compared with the whole history of its process.                         *)
(***************************************************************************)
EXTENDS Checkpointer, Deliveries

vars == <<ckptVars, history>>

Init ==
  /\ CkptFresh
  /\ persisted = NoCursor
  /\ HistoryInit

\* An event is taken: registered, then produced.
Produce(c) ==
  /\ Deliver(c)
  /\ Register(c)
  /\ UNCHANGED persisted

Report(c, success) ==
  /\ ServeReport(c, success)
  /\ OnAck(success, c)
  /\ UNCHANGED persisted

SaveDue ==
  /\ Due(TRUE)
  /\ MaybeSave
  /\ UNCHANGED history

Next ==
  \/ \E c \in Cursor : Produce(c) \/ \E success \in BOOLEAN : Report(c, success)
  \/ SaveDue

Spec == Init /\ [][Next]_vars

-----------------------------------------------------------------------------
TypeOK == CkptTypeOK(Cursor) /\ HistoryTypeOK

\* Whatever the order of the reports, the watermark ends a run of confirmed
\* cursors, the longest one (main.py:59-65): it depends on which deliveries
\* succeeded and never on when.  It may lag behind only if its own cursor was
\* delivered again and that delivery has not succeeded.
WatermarkIsLongestAckedPrefix ==
  /\ safeCursor \in AckedPrefix \cup {NoCursor}
  /\ safeCursor \notin outstanding => \A c \in AckedPrefix : c <= safeCursor

\* A cursor that is given up pins the watermark, and what is saved, below it for
\* the rest of the process, whatever succeeds after it (main.py:63-64).
FailurePins ==
  [][\A c \in GivenUp : c \in GivenUp' /\ safeCursor' < c /\ persisted' < c]_vars

\* What the two rest on.  A registered cursor is confirmed or outstanding; it is
\* both only where the watermark stands, if it was delivered again.
Accounted ==
  /\ registered = confirmed \cup outstanding
  /\ confirmed \cap outstanding \subseteq {safeCursor}
  /\ acked \subseteq confirmed \ outstanding

\* The watermark is a confirmed cursor with nothing outstanding below it; a
\* confirmed cursor above it is held back by an outstanding one.
WatermarkInPlace ==
  /\ safeCursor \in confirmed \cup {NoCursor}
  /\ persisted <= safeCursor
  /\ \A o \in outstanding : safeCursor <= o
  /\ \A c \in confirmed \ acked : c <= safeCursor
  /\ \A a \in acked : \E o \in outstanding : o < a

\* The inductive invariant.
IInv == TypeOK /\ Accounted /\ WatermarkInPlace
=============================================================================

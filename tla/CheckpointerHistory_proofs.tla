--------------------- MODULE CheckpointerHistory_proofs ---------------------
(***************************************************************************)
(* Proofs about the checkpointer, for any number of cursors, any number of *)
(* deliveries of each and any cadence.                                     *)
(***************************************************************************)
EXTENDS CheckpointerHistory, FiniteSetTheorems, TLAPS

LEMMA Constants ==
  MaxCursor \in Nat /\ MaxDeliveries \in Nat /\ CheckpointAcks \in Nat \ {0}
BY DeliveriesAssumption, CheckpointAcksAssumption

LEMMA CursorType ==
  /\ \A c \in Cursor : c \in Nat /\ c > 0
  /\ \A c \in Cursor \cup {NoCursor} : c \in Nat
BY Constants DEF Cursor, NoCursor

LEMMA CountType == ASSUME NEW n \in Nat PROVE CountAcks(n) \in 0..CheckpointAcks
BY Constants DEF CountAcks

LEMMA CardinalityType == ASSUME NEW S \in SUBSET Cursor PROVE Cardinality(S) \in Nat
<1>1. IsFiniteSet(Cursor)
  BY Constants, FS_Interval DEF Cursor
<1> QED
  BY <1>1, FS_Subset, FS_CardinalityType

\* A delivery registers its cursor and changes nothing about the others.
LEMMA DeliverHistory ==
  ASSUME HistoryTypeOK, NEW c \in Cursor, Deliver(c)
  PROVE  /\ HistoryTypeOK' /\ registered' = registered \cup {c} /\ confirmed' = confirmed
         /\ \A d \in Cursor : d # c => inFlight'[d] = inFlight[d]
<1>1. /\ delivered[c] \in Nat /\ inFlight[c] \in Nat /\ delivered[c] < MaxDeliveries
      /\ inFlight[c] <= delivered[c]
  BY Constants DEF Deliver, HistoryTypeOK
<1>2. /\ delivered' = [delivered EXCEPT ![c] = delivered[c] + 1]
      /\ inFlight' = [inFlight EXCEPT ![c] = inFlight[c] + 1]
      /\ confirmed' = confirmed
  BY DEF Deliver
<1>3. delivered[c] + 1 \in 0..MaxDeliveries /\ inFlight[c] + 1 \in 0..MaxDeliveries
  BY <1>1, Constants
<1>4. /\ delivered' \in [Cursor -> 0..MaxDeliveries] /\ delivered'[c] = delivered[c] + 1
      /\ inFlight' \in [Cursor -> 0..MaxDeliveries] /\ inFlight'[c] = inFlight[c] + 1
      /\ \A d \in Cursor : d # c => delivered'[d] = delivered[d] /\ inFlight'[d] = inFlight[d]
  BY <1>2, <1>3 DEF HistoryTypeOK
<1>5. registered' = registered \cup {c}
  BY <1>1, <1>4 DEF registered
<1>6. \A d \in Cursor : inFlight'[d] <= delivered'[d]
  BY <1>1, <1>4 DEF HistoryTypeOK
<1> QED
  BY <1>2, <1>4, <1>5, <1>6 DEF HistoryTypeOK

\* A report is about a registered cursor.
LEMMA ReportHistory ==
  ASSUME HistoryTypeOK, NEW c \in Cursor, NEW success \in BOOLEAN, ServeReport(c, success)
  PROVE  /\ HistoryTypeOK' /\ registered' = registered /\ c \in registered
         /\ confirmed' = IF success THEN confirmed \cup {c} ELSE confirmed
         /\ inFlight[c] > 0
         /\ \A d \in Cursor : d # c => inFlight'[d] = inFlight[d]
<1>1. /\ inFlight[c] \in 0..MaxDeliveries /\ delivered[c] \in 0..MaxDeliveries
      /\ inFlight[c] > 0 /\ inFlight[c] <= delivered[c]
  BY DEF ServeReport, HistoryTypeOK
<1>2. /\ inFlight' = [inFlight EXCEPT ![c] = inFlight[c] - 1] /\ delivered' = delivered
      /\ confirmed' = IF success THEN confirmed \cup {c} ELSE confirmed
  BY DEF ServeReport
<1>3. inFlight[c] - 1 \in 0..MaxDeliveries /\ inFlight[c] - 1 <= delivered[c]
  BY <1>1, Constants
<1>4. /\ inFlight' \in [Cursor -> 0..MaxDeliveries] /\ inFlight'[c] = inFlight[c] - 1
      /\ \A d \in Cursor : d # c => inFlight'[d] = inFlight[d]
  BY <1>2, <1>3 DEF HistoryTypeOK
<1>5. c \in registered /\ registered' = registered
  BY <1>1, <1>2 DEF registered
<1>6. \A d \in Cursor : inFlight'[d] <= delivered'[d]
  BY <1>2, <1>3, <1>4 DEF HistoryTypeOK
<1> QED
  BY <1>1, <1>2, <1>4, <1>5, <1>6 DEF HistoryTypeOK

LEMMA InitOK == Init => IInv
BY Constants DEF Init, CkptFresh, HistoryInit, IInv, TypeOK, CkptTypeOK, HistoryTypeOK, registered,
   Accounted, WatermarkInPlace, NoCursor

\* What is delivered is new and above everything registered, or the last registered
\* cursor again: pending, or folded and then the watermark itself.
LEMMA ProduceOK ==
  ASSUME IInv, NEW c \in Cursor, Produce(c)
  PROVE  IInv'
<1> USE DEF IInv
<1>1. /\ HistoryTypeOK' /\ registered' = registered \cup {c} /\ confirmed' = confirmed
  BY DeliverHistory DEF Produce, TypeOK
<1>2. /\ outstanding' = outstanding \cup ({c} \ acked)
      /\ UNCHANGED <<acked, safeCursor, savedCursor, acksSinceSave, persisted>>
  BY DEF Produce, Register
<1>3. safeCursor <= c
  <2>1. \A r \in registered : r <= c
    BY DEF Produce, Deliver
  <2>2. safeCursor \in registered \/ safeCursor = NoCursor
    BY DEF WatermarkInPlace, Accounted
  <2> QED
    BY <2>1, <2>2, CursorType DEF NoCursor
<1>4. ASSUME c \in confirmed, c \notin acked PROVE c = safeCursor
  BY <1>3, <1>4, CursorType DEF WatermarkInPlace, TypeOK, CkptTypeOK
<1>5. TypeOK'
  BY <1>1, <1>2 DEF TypeOK, CkptTypeOK
<1>6. Accounted'
  BY <1>1, <1>2, <1>4 DEF Accounted
<1>7. WatermarkInPlace'
  BY <1>1, <1>2, <1>3 DEF WatermarkInPlace
<1> QED
  BY <1>5, <1>6, <1>7

\* A cursor at the watermark, or none, is all that can be acknowledged there.
LEMMA AckedAbove ==
  ASSUME IInv
  PROVE  /\ \A a \in acked : safeCursor < a
         /\ safeCursor \in Nat /\ persisted \in Nat
<1> USE DEF IInv
<1>1. safeCursor \in Nat /\ persisted \in Nat
  BY CursorType DEF TypeOK, CkptTypeOK
<1>2. ASSUME NEW a \in acked PROVE safeCursor < a
  <2>1. PICK o \in outstanding : o < a
    BY DEF WatermarkInPlace
  <2>2. safeCursor <= o /\ o \in Nat /\ a \in Nat
    BY CursorType DEF WatermarkInPlace, TypeOK, CkptTypeOK
  <2> QED
    BY <1>1, <2>1, <2>2
<1> QED
  BY <1>1, <1>2

\* A success for a cursor that is not pending folds nothing.
LEMMA LateSuccessOK ==
  ASSUME IInv, NEW c \in Cursor, Report(c, TRUE), c \notin outstanding
  PROVE  IInv'
<1> USE DEF IInv
<1>1. /\ HistoryTypeOK' /\ registered' = registered /\ c \in registered
      /\ confirmed' = confirmed \cup {c}
  BY ReportHistory DEF Report, TypeOK
<1>2. c \in confirmed
  BY <1>1 DEF Accounted
<1>3. outstanding \ {c} = outstanding /\ acked \cup ({c} \cap outstanding) = acked
  OBVIOUS
<1>4. Foldable(outstanding, acked) = {}
  <2>1. ASSUME NEW a \in acked PROVE \E o \in outstanding : ~(a < o)
    <3>1. PICK o \in outstanding : o < a
      BY DEF WatermarkInPlace
    <3>2. o \in Nat /\ a \in Nat
      BY CursorType DEF TypeOK, CkptTypeOK
    <3> QED
      BY <3>1, <3>2
  <2> QED
    BY <2>1 DEF Foldable
<1>5. /\ outstanding' = outstanding /\ acked' = acked /\ safeCursor' = safeCursor
      /\ acksSinceSave' = CountAcks(acksSinceSave + Cardinality({}))
      /\ UNCHANGED <<savedCursor, persisted>>
  BY <1>3, <1>4 DEF Report, OnAck, AdvanceWatermark
<1>6. acksSinceSave' \in 0..CheckpointAcks
  <2>1. Cardinality({}) = 0
    BY FS_EmptySet
  <2>2. acksSinceSave \in Nat
    BY Constants DEF TypeOK, CkptTypeOK
  <2> QED
    BY <1>5, <2>1, <2>2, CountType
<1>7. TypeOK'
  BY <1>1, <1>5, <1>6 DEF TypeOK, CkptTypeOK
<1>8. Accounted' /\ WatermarkInPlace'
  BY <1>1, <1>2, <1>5 DEF Accounted, WatermarkInPlace
<1> QED
  BY <1>7, <1>8

\* The fold after the acknowledgement of c.
LEMMA SuccessOK ==
  ASSUME IInv, NEW c \in Cursor, Report(c, TRUE), c \in outstanding
  PROVE  IInv'
<1> USE DEF IInv
<1> DEFINE out == outstanding \ {c}
           ack == acked \cup {c}
           folded == Foldable(out, ack)
<1>1. {c} \cap outstanding = {c} /\ safeCursor <= c /\ c \in Nat
  BY CursorType DEF WatermarkInPlace
<1>h. /\ HistoryTypeOK' /\ registered' = registered /\ confirmed' = confirmed \cup {c}
      /\ c \in registered
  BY ReportHistory DEF Report, TypeOK
<1>2. /\ outstanding' = out /\ acked' = ack \ folded
      /\ acksSinceSave' = CountAcks(acksSinceSave + Cardinality(folded))
      /\ UNCHANGED <<savedCursor, persisted>>
  BY <1>1 DEF Report, OnAck, AdvanceWatermark
<1>3. \/ folded = {} /\ safeCursor' = safeCursor
      \/ safeCursor' \in folded /\ \A a \in folded : a <= safeCursor'
  BY <1>1 DEF Report, OnAck, AdvanceWatermark
<1>4. /\ folded \subseteq ack /\ ack \subseteq Cursor /\ out \subseteq Cursor
      /\ \A a \in folded : \A o \in out : a < o
      /\ \A a \in ack \ folded : \E o \in out : ~(a < o)
  BY DEF Foldable, TypeOK, CkptTypeOK
<1>5. \A a \in ack : safeCursor <= a /\ a \in Nat
  <2>1. \A a \in ack : a \in Nat
    BY <1>4, CursorType
  <2>2. safeCursor \in Nat /\ \A a \in acked : safeCursor < a
    BY AckedAbove
  <2> QED
    BY <1>1, <2>1, <2>2
<1>6. safeCursor <= safeCursor' /\ safeCursor \in Nat /\ safeCursor' \in Nat
  BY <1>3, <1>4, <1>5, AckedAbove
<1>7. TypeOK'
  <2>1. Cardinality(folded) \in Nat
    BY <1>4, CardinalityType
  <2>2. acksSinceSave \in Nat
    BY Constants DEF TypeOK, CkptTypeOK
  <2>3. acksSinceSave' \in 0..CheckpointAcks
    BY <1>2, <2>1, <2>2, CountType
  <2>4. safeCursor' \in Cursor \cup {NoCursor}
    BY <1>3, <1>4 DEF TypeOK, CkptTypeOK
  <2> QED
    BY <1>2, <1>4, <1>h, <2>3, <2>4 DEF TypeOK, CkptTypeOK
<1>8. ASSUME NEW o \in out PROVE safeCursor' <= o /\ (folded # {} => safeCursor' # o)
  <2>1. o \in Nat /\ safeCursor <= o
    BY <1>4, CursorType DEF WatermarkInPlace
  <2> QED
    BY <1>3, <1>4, <1>6, <2>1
<1>9. Accounted'
  <2>1. registered' = confirmed' \cup outstanding'
    BY <1>2, <1>h DEF Accounted
  <2>2. ASSUME NEW o \in confirmed' \cap outstanding' PROVE o = safeCursor'
    <3>1. o \in out /\ o = safeCursor
      BY <1>2, <1>h DEF Accounted
    <3>2. folded = {}
      BY <1>5, <1>6, <1>3, <1>4, <1>8, <3>1
    <3> QED
      BY <1>3, <3>1, <3>2
  <2>3. acked' \subseteq confirmed' \ outstanding'
    BY <1>2, <1>h DEF Accounted
  <2> QED
    BY <2>1, <2>2, <2>3 DEF Accounted
<1>10. WatermarkInPlace'
  <2>1. safeCursor' \in confirmed' \cup {NoCursor}
    BY <1>h, <1>3, <1>4 DEF WatermarkInPlace, Accounted
  <2>2. persisted' <= safeCursor'
    BY <1>2, <1>6, AckedAbove DEF WatermarkInPlace
  <2>3. \A o \in outstanding' : safeCursor' <= o
    BY <1>2, <1>8
  <2>4. ASSUME NEW d \in confirmed' \ acked'
        PROVE  d <= safeCursor'
    <3>1. d \in folded \/ d \in confirmed \ acked
      BY <1>2, <1>h
    <3>2. CASE d \in folded
      BY <1>3, <3>2
    <3>3. CASE d \in confirmed \ acked
      <4>1. d \in Nat /\ d <= safeCursor
        BY <3>3, CursorType DEF WatermarkInPlace, TypeOK, HistoryTypeOK, registered
      <4> QED
        BY <1>6, <4>1
    <3> QED
      BY <3>1, <3>2, <3>3
  <2>5. ASSUME NEW a \in acked'
        PROVE  \E o \in outstanding' : o < a
    <3>1. PICK o \in out : ~(a < o)
      BY <1>2, <1>4
    <3>2. a # o
      BY <1>2 DEF Accounted
    <3>3. a \in Nat /\ o \in Nat
      BY <1>2, <1>4, CursorType
    <3> QED
      BY <1>2, <3>1, <3>2, <3>3
  <2> QED
    BY <2>1, <2>2, <2>3, <2>4, <2>5 DEF WatermarkInPlace
<1> QED
  BY <1>7, <1>9, <1>10

\* A failure leaves the checkpointer as it is.
LEMMA FailureOK ==
  ASSUME IInv, NEW c \in Cursor, Report(c, FALSE)
  PROVE  IInv'
<1>1. /\ UNCHANGED <<outstanding, acked, safeCursor, savedCursor, acksSinceSave, persisted>>
  BY DEF Report, OnAck, volatileCkpt
<1>2. HistoryTypeOK' /\ registered' = registered /\ confirmed' = confirmed
  BY ReportHistory DEF Report, IInv, TypeOK
<1>3. TypeOK'
  BY <1>1, <1>2 DEF IInv, TypeOK, CkptTypeOK
<1>4. Accounted' /\ WatermarkInPlace'
  BY <1>1, <1>2 DEF IInv, Accounted, WatermarkInPlace
<1> QED
  BY <1>3, <1>4 DEF IInv

LEMMA SaveOK ==
  ASSUME IInv, SaveDue
  PROVE  IInv'
<1>1. /\ persisted' = safeCursor /\ savedCursor' = safeCursor /\ acksSinceSave' = 0
      /\ UNCHANGED <<outstanding, acked, safeCursor, delivered, inFlight, confirmed>>
  BY DEF SaveDue, MaybeSave, history
<1>2. registered' = registered
  BY <1>1 DEF registered
<1>3. TypeOK'
  BY <1>1, <1>2, Constants DEF IInv, TypeOK, CkptTypeOK, HistoryTypeOK
<1>4. safeCursor <= safeCursor
  BY AckedAbove
<1>5. Accounted' /\ WatermarkInPlace'
  BY <1>1, <1>2, <1>4 DEF IInv, Accounted, WatermarkInPlace
<1> QED
  BY <1>3, <1>5 DEF IInv

LEMMA StepOK == IInv /\ [Next]_vars => IInv'
<1> SUFFICES ASSUME IInv, [Next]_vars PROVE IInv'
  OBVIOUS
<1>1. CASE \E c \in Cursor : Produce(c)
  BY <1>1, ProduceOK
<1>2. CASE \E c \in Cursor : \E success \in BOOLEAN : Report(c, success)
  BY <1>2, SuccessOK, LateSuccessOK, FailureOK
<1>3. CASE SaveDue
  BY <1>3, SaveOK
<1>4. CASE UNCHANGED vars
  BY <1>4 DEF vars, ckptVars, volatileCkpt, history, IInv, TypeOK, CkptTypeOK, HistoryTypeOK,
     registered, Accounted, WatermarkInPlace
<1> QED
  BY <1>1, <1>2, <1>3, <1>4 DEF Next

\* The invariant the other theorems rest on holds in every reachable state.
THEOREM Inductive == Spec => []IInv
BY InitOK, StepOK, PTL DEF Spec

\* Every variable keeps its type; the count never exceeds the cadence.
THEOREM TypeCorrect == Spec => []TypeOK
<1>1. IInv => TypeOK
  BY DEF IInv
<1> QED
  BY <1>1, Inductive, PTL

\* The watermark depends on which deliveries succeeded and never on the order of
\* their reports (main.py:59-65, 90-101), whichever cursors come again.
THEOREM WatermarkIsThePrefix == Spec => []WatermarkIsLongestAckedPrefix
<1>1. IInv => WatermarkIsLongestAckedPrefix
  <2> SUFFICES ASSUME IInv PROVE WatermarkIsLongestAckedPrefix
    OBVIOUS
  <2> USE DEF IInv
  <2>t. /\ \A r \in registered : r \in Nat
        /\ \A o \in outstanding : o \in Nat /\ o \in registered
        /\ safeCursor \in Nat
    BY CursorType, AckedAbove DEF registered, Accounted, TypeOK, CkptTypeOK
  <2>1. safeCursor \in AckedPrefix \cup {NoCursor}
    <3>1. SUFFICES ASSUME safeCursor \in confirmed PROVE safeCursor \in AckedPrefix
      BY DEF WatermarkInPlace
    <3>2. safeCursor \in registered
      BY <3>1 DEF Accounted
    <3>3. ASSUME NEW r \in registered, r <= safeCursor PROVE r \in confirmed
      BY <2>t, <3>1, <3>3 DEF Accounted, WatermarkInPlace
    <3> QED
      BY <3>2, <3>3 DEF AckedPrefix
  <2>2. ASSUME safeCursor \notin outstanding, NEW c \in AckedPrefix PROVE c <= safeCursor
    <3>1. c \in registered /\ \A r \in registered : r <= c => r \in confirmed
      BY DEF AckedPrefix
    <3>2. c \in confirmed
      BY <2>t, <3>1
    <3>3. ASSUME c \in acked PROVE FALSE
      <4>1. PICK o \in outstanding : o < c
        BY <3>3 DEF WatermarkInPlace
      <4>2. o \in confirmed
        BY <2>t, <3>1, <4>1
      <4> QED
        BY <2>2, <4>1, <4>2 DEF Accounted
    <3> QED
      BY <3>2, <3>3 DEF WatermarkInPlace
  <2> QED
    BY <2>1, <2>2 DEF WatermarkIsLongestAckedPrefix
<1> QED
  BY <1>1, Inductive, PTL

\* What is given up stays given up, and is outstanding above the watermark.
LEMMA GivenUpStays ==
  ASSUME IInv, IInv', [Next]_vars, NEW c \in GivenUp
  PROVE  c \in GivenUp' /\ safeCursor' < c /\ persisted' < c
<1>0. c \in Cursor /\ c \in registered /\ c \notin confirmed /\ inFlight[c] = 0
  BY DEF GivenUp, registered
<1>r. PICK r \in registered : c < r
  BY DEF GivenUp
<1>t. HistoryTypeOK /\ \A d \in Cursor : d \in Nat
  BY CursorType DEF IInv, TypeOK
<1>1. registered \subseteq registered' /\ c \notin confirmed' /\ inFlight'[c] = 0
  <2>1. ASSUME NEW d \in Cursor, Produce(d)
        PROVE  registered \subseteq registered' /\ c \notin confirmed' /\ inFlight'[c] = 0
    <3>1. d # c
      BY <1>r, <1>0, <1>t, <2>1 DEF Produce, Deliver, registered
    <3> QED
      BY <1>0, <1>t, <2>1, <3>1, DeliverHistory DEF Produce
  <2>2. ASSUME NEW d \in Cursor, NEW success \in BOOLEAN, Report(d, success)
        PROVE  registered \subseteq registered' /\ c \notin confirmed' /\ inFlight'[c] = 0
    <3>1. ServeReport(d, success)
      BY <2>2 DEF Report
    <3>2. d # c
      BY <1>0, <1>t, <3>1, ReportHistory
    <3> QED
      BY <1>0, <1>t, <3>1, <3>2, ReportHistory
  <2>3. CASE SaveDue \/ UNCHANGED vars
    BY <1>0, <2>3 DEF SaveDue, vars, history, registered
  <2> QED
    BY <2>1, <2>2, <2>3 DEF Next
<1>2. c \in GivenUp'
  BY <1>0, <1>r, <1>1 DEF GivenUp
<1>3. safeCursor' \in Nat /\ persisted' \in Nat /\ c \in Nat
  BY <1>0, <1>t, CursorType DEF IInv, TypeOK, CkptTypeOK
<1>4. c \in outstanding' /\ safeCursor' # c
  BY <1>0, <1>1, CursorType DEF IInv, Accounted, WatermarkInPlace, NoCursor
<1>5. safeCursor' <= c /\ persisted' <= safeCursor'
  BY <1>4 DEF IInv, WatermarkInPlace
<1> QED
  BY <1>2, <1>3, <1>4, <1>5

\* A cursor whose deliveries have failed and which does not come again pins the
\* watermark, and what is saved, for the rest of the process (main.py:63-64, 83-85).
THEOREM FailuresPin == Spec => FailurePins
<1>1. IInv /\ IInv' /\ [Next]_vars =>
        [\A c \in GivenUp : c \in GivenUp' /\ safeCursor' < c /\ persisted' < c]_vars
  BY GivenUpStays
<1> QED
  BY <1>1, Inductive, PTL DEF Spec, FailurePins
=============================================================================

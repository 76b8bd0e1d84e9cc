----------------------- MODULE CheckpointerLoop_proofs -----------------------
(***************************************************************************)
(* Proofs about the checkpointer as it is written, for any number of       *)
(* cursors, any number of deliveries of each and any cadence: its loop     *)
(* implements the fold at once.                                            *)
(***************************************************************************)
EXTENDS CheckpointerLoop, FiniteSetTheorems, WellFoundedInduction, TLAPS

LEMMA Constants ==
  MaxCursor \in Nat /\ MaxDeliveries \in Nat /\ CheckpointAcks \in Nat \ {0}
BY DeliveriesAssumption, CadenceAssumption

LEMMA CursorType ==
  /\ \A c \in Cursor : c \in Nat /\ c > 0
  /\ \A c \in Cursor \cup {None} : c \in Nat
BY Constants DEF Cursor, None

LEMMA FiniteCursors ==
  \A S \in SUBSET Cursor : IsFiniteSet(S) /\ Cardinality(S) \in Nat
<1>1. IsFiniteSet(Cursor)
  BY Constants, FS_Interval DEF Cursor
<1> QED
  BY <1>1, FS_Subset, FS_CardinalityType

\* A set of cursors that is not empty has a last one.
LEMMA LastExists ==
  ASSUME NEW S \in SUBSET Cursor, S # {}
  PROVE  LastOf(S) \in S /\ \A d \in S : d <= LastOf(S)
<1> DEFINE M == { MaxCursor - c : c \in S }
<1>1. \A c \in S : c \in Nat /\ MaxCursor - c \in Nat /\ MaxCursor - c \in M
  BY Constants DEF Cursor
<1>2. M \subseteq Nat /\ M # {}
  BY <1>1
<1>3. \E m \in M : \A k \in M : <<k, m>> \notin OpToRel(<, Nat)
  BY <1>2, NatLessThanWellFounded, WFMin
<1>4. PICK m \in M : \A k \in M : <<k, m>> \notin OpToRel(<, Nat)
  BY <1>3
<1>5. PICK x \in S : m = MaxCursor - x
  BY <1>4
<1>6. ASSUME NEW y \in S PROVE y <= x
  <2>1. ~(MaxCursor - y < m)
    BY <1>1, <1>2, <1>4 DEF OpToRel
  <2> QED
    BY <1>1, <1>5, <2>1, Constants
<1>7. \E c \in S : \A d \in S : d <= c
  BY <1>6
<1> QED
  BY <1>7 DEF LastOf

\* The two halves of the dict.
LEMMA Halves ==
  ASSUME TypeOK
  PROVE  /\ Acked \cup Unacked = Pending /\ Acked \cap Unacked = {}
         /\ Acked \subseteq Cursor /\ Unacked \subseteq Cursor /\ ToFold \subseteq Acked
         /\ \A c \in Pending : c \in Nat /\ pendingAcks[c] \in BOOLEAN
         /\ safeCursor \in Nat /\ persisted \in Nat
BY CursorType DEF TypeOK, Acked, Unacked, ToFold

-----------------------------------------------------------------------------
\* A delivery registers its cursor and changes nothing about the others.
LEMMA DeliverHistory ==
  ASSUME HistoryTypeOK, NEW c \in Cursor, Deliver(c)
  PROVE  /\ HistoryTypeOK' /\ registered' = registered \cup {c} /\ confirmed' = confirmed
         /\ \A d \in Cursor : d # c => inFlight'[d] = inFlight[d]
<1>1. /\ delivered[c] \in Nat /\ inFlight[c] \in Nat /\ delivered[c] < MaxDeliveries
      /\ inFlight[c] <= delivered[c]
  BY Constants DEF Deliver, HistoryTypeOK
<1>2. /\ delivered' = [delivered EXCEPT ![c] = delivered[c] + 1]
      /\ inFlight' = [inFlight EXCEPT ![c] = inFlight[c] + 1]
      /\ confirmed' = confirmed
  BY DEF Deliver
<1>3. delivered[c] + 1 \in 0..MaxDeliveries /\ inFlight[c] + 1 \in 0..MaxDeliveries
  BY <1>1, Constants
<1>4. /\ delivered' \in [Cursor -> 0..MaxDeliveries] /\ delivered'[c] = delivered[c] + 1
      /\ inFlight' \in [Cursor -> 0..MaxDeliveries] /\ inFlight'[c] = inFlight[c] + 1
      /\ \A d \in Cursor : d # c => delivered'[d] = delivered[d] /\ inFlight'[d] = inFlight[d]
  BY <1>2, <1>3 DEF HistoryTypeOK
<1>5. registered' = registered \cup {c}
  BY <1>1, <1>4 DEF registered
<1>6. \A d \in Cursor : inFlight'[d] <= delivered'[d]
  BY <1>1, <1>4 DEF HistoryTypeOK
<1> QED
  BY <1>2, <1>4, <1>5, <1>6 DEF HistoryTypeOK

\* A report is about a registered cursor.
LEMMA ReportHistory ==
  ASSUME HistoryTypeOK, NEW c \in Cursor, NEW success \in BOOLEAN, ServeReport(c, success)
  PROVE  /\ HistoryTypeOK' /\ registered' = registered /\ c \in registered
         /\ confirmed' = IF success THEN confirmed \cup {c} ELSE confirmed
         /\ inFlight[c] > 0
         /\ \A d \in Cursor : d # c => inFlight'[d] = inFlight[d]
<1>1. /\ inFlight[c] \in 0..MaxDeliveries /\ delivered[c] \in 0..MaxDeliveries
      /\ inFlight[c] > 0 /\ inFlight[c] <= delivered[c]
  BY DEF ServeReport, HistoryTypeOK
<1>2. /\ inFlight' = [inFlight EXCEPT ![c] = inFlight[c] - 1] /\ delivered' = delivered
      /\ confirmed' = IF success THEN confirmed \cup {c} ELSE confirmed
  BY DEF ServeReport
<1>3. inFlight[c] - 1 \in 0..MaxDeliveries /\ inFlight[c] - 1 <= delivered[c]
  BY <1>1, Constants
<1>4. /\ inFlight' \in [Cursor -> 0..MaxDeliveries] /\ inFlight'[c] = inFlight[c] - 1
      /\ \A d \in Cursor : d # c => inFlight'[d] = inFlight[d]
  BY <1>2, <1>3 DEF HistoryTypeOK
<1>5. c \in registered /\ registered' = registered
  BY <1>1, <1>2 DEF registered
<1>6. \A d \in Cursor : inFlight'[d] <= delivered'[d]
  BY <1>2, <1>3, <1>4 DEF HistoryTypeOK
<1> QED
  BY <1>1, <1>2, <1>4, <1>5, <1>6 DEF HistoryTypeOK

LEMMA InitOK == Init => IInv
BY Constants DEF Init, HistoryInit, HistoryTypeOK, registered, IInv, TypeOK, Accounted, LoopInPlace, WatermarkInPlace, Pending, Acked,
   Unacked, ToFold, None

\* What is delivered is new and above everything registered, or the last registered
\* cursor again: pending, or folded and then the watermark itself.
LEMMA ProduceOK ==
  ASSUME IInv, NEW c \in Cursor, Produce(c)
  PROVE  IInv' /\ Acked' = Acked /\ Unacked' = Unacked \cup ({c} \ Acked) /\ ToFold' = {}
<1> USE DEF IInv
<1>h. HistoryTypeOK' /\ registered' = registered \cup {c} /\ confirmed' = confirmed
  BY DeliverHistory DEF Produce, TypeOK
<1>1. /\ Pending' = Pending \cup {c}
      /\ \A d \in Pending' : pendingAcks'[d] = (d \in Pending /\ pendingAcks[d])
      /\ pendingAcks' \in [Pending' -> BOOLEAN]
  BY Halves DEF Produce, Register, TypeOK, Pending
<1>2. /\ pc = "idle"
      /\ UNCHANGED <<safeCursor, acksSinceSave, savedCursor, persisted, rest, pc>>
  BY DEF Produce, loopVars, saveVars
<1>3. Acked' = Acked /\ Unacked' = Unacked \cup ({c} \ Acked)
  BY <1>1 DEF Acked, Unacked
<1>4. ToFold' = {}
  BY <1>2, <1>3 DEF LoopInPlace, ToFold
<1>5. safeCursor <= c
  <2>1. \A r \in registered : r <= c
    BY DEF Produce, Deliver
  <2>2. safeCursor \in registered \/ safeCursor = None
    BY DEF WatermarkInPlace, Accounted
  <2> QED
    BY <2>1, <2>2, CursorType DEF None
<1>6. ASSUME c \in confirmed, c \notin Acked PROVE c = safeCursor
  BY <1>5, <1>6, Halves, CursorType DEF WatermarkInPlace
<1>7. TypeOK'
  BY <1>1, <1>2, <1>h DEF TypeOK, LoopInPlace
<1>8. Accounted'
  BY <1>2, <1>3, <1>6, <1>h DEF Accounted
<1>9. LoopInPlace' /\ WatermarkInPlace'
  BY <1>1, <1>2, <1>3, <1>4, <1>5, <1>h DEF LoopInPlace, WatermarkInPlace
<1> QED
  BY <1>3, <1>4, <1>7, <1>8, <1>9

LEMMA FailureOK ==
  ASSUME IInv, NEW c \in Cursor, ReportFailure(c)
  PROVE  IInv' /\ Acked' = Acked /\ Unacked' = Unacked /\ ToFold' = ToFold
<1> USE DEF IInv
<1>h. HistoryTypeOK' /\ registered' = registered /\ confirmed' = confirmed
  BY ReportHistory DEF ReportFailure, TypeOK
<1>1. UNCHANGED <<pendingAcks, safeCursor, acksSinceSave, rest, pc, savedCursor, persisted>>
  BY DEF ReportFailure, loopVars, saveVars
<1>2. Pending' = Pending /\ Acked' = Acked /\ Unacked' = Unacked
  BY <1>1 DEF Acked, Unacked, Pending
<1>3. ToFold' = ToFold
  BY <1>2 DEF ToFold
<1>4. TypeOK'
  BY <1>1, <1>2, <1>h DEF TypeOK
<1>5. Accounted'
  BY <1>1, <1>2, <1>h DEF Accounted
<1>6. LoopInPlace' /\ WatermarkInPlace'
  BY <1>1, <1>2, <1>3, <1>h DEF LoopInPlace, WatermarkInPlace
<1> QED
  BY <1>2, <1>3, <1>4, <1>5, <1>6

\* A cursor that is not pending is at or below the watermark already.
LEMMA SuccessOK ==
  ASSUME IInv, NEW c \in Cursor, ReportSuccess(c)
  PROVE  /\ IInv' /\ Acked' = Acked \cup ({c} \cap Unacked) /\ Unacked' = Unacked \ {c}
         /\ ToFold = {}
<1> USE DEF IInv
<1>h. /\ HistoryTypeOK' /\ registered' = registered /\ confirmed' = confirmed \cup {c}
      /\ c \in registered
  BY ReportHistory DEF ReportSuccess, TypeOK
<1>1. /\ pc = "idle" /\ pc' = "loop" /\ rest' = Pending'
      /\ UNCHANGED <<safeCursor, acksSinceSave, savedCursor, persisted>>
  BY DEF ReportSuccess, EnterLoop, saveVars, Pending
<1>2. /\ Pending' = Pending /\ pendingAcks' \in [Pending' -> BOOLEAN]
      /\ \A d \in Pending : pendingAcks'[d] = (d = c \/ pendingAcks[d])
  BY Halves DEF ReportSuccess, TypeOK, Pending
<1>3. Acked' = Acked \cup ({c} \cap Unacked) /\ Unacked' = Unacked \ {c}
  BY <1>2, Halves DEF Acked, Unacked
<1>4. ToFold = {}
  BY <1>1 DEF LoopInPlace
<1>5. TypeOK'
  BY <1>1, <1>2, <1>h DEF TypeOK
<1>6. Accounted'
  BY <1>1, <1>3, <1>h DEF Accounted
<1>7. LoopInPlace'
  BY <1>1, <1>2 DEF LoopInPlace
<1>8. WatermarkInPlace'
  <2>1. ASSUME NEW d \in confirmed' \ Acked' PROVE d \in confirmed \ Acked
    BY <1>3, <1>h DEF Accounted
  <2> QED
    BY <1>1, <1>2, <1>h, <2>1 DEF WatermarkInPlace
<1> QED
  BY <1>3, <1>4, <1>5, <1>6, <1>7, <1>8

\* An iteration takes the first of what is still to be folded.
LEMMA FoldOK ==
  ASSUME IInv, NEW c \in Cursor, Fold(c)
  PROVE  /\ IInv' /\ Acked' = Acked \ {c} /\ Unacked' = Unacked
         /\ c \in ToFold /\ (\A a \in ToFold : c <= a) /\ ToFold' = ToFold \ {c}
<1> USE DEF IInv
<1>1. /\ pc = "loop" /\ rest = Pending /\ c \in Pending /\ pendingAcks[c]
      /\ \A d \in Pending : c <= d
      /\ safeCursor' = c /\ acksSinceSave' = acksSinceSave + 1 /\ rest' = rest \ {c} /\ pc' = pc
      /\ UNCHANGED <<savedCursor, persisted, delivered, inFlight, confirmed>>
  BY DEF Fold, At, LoopInPlace, saveVars, history
<1>h. registered' = registered
  BY <1>1 DEF registered
<1>2. /\ Pending' = Pending \ {c} /\ pendingAcks' \in [Pending' -> BOOLEAN]
      /\ \A d \in Pending' : pendingAcks'[d] = pendingAcks[d]
  BY <1>1 DEF Fold, Restrict, TypeOK, Pending
<1>3. Acked' = Acked \ {c} /\ Unacked' = Unacked /\ c \in Acked
  BY <1>1, <1>2 DEF Acked, Unacked
<1>4. \A d \in Pending : d # c => c < d
  BY <1>1, Halves
<1>5. c \in ToFold /\ \A a \in ToFold : c <= a
  BY <1>1, <1>3, <1>4, Halves DEF ToFold
<1>6. ToFold' = ToFold \ {c}
  BY <1>3 DEF ToFold
<1>7. TypeOK'
  <2>1. Pending' \subseteq Cursor /\ rest' \subseteq Pending' /\ acksSinceSave' \in Nat
    BY <1>1, <1>2 DEF TypeOK
  <2> QED
    BY <1>1, <1>2, <1>h, <2>1 DEF TypeOK, HistoryTypeOK
<1>8. Accounted'
  <2>1. ASSUME NEW o \in confirmed, o \in Unacked PROVE o = c
    <3>1. o = safeCursor /\ o \in Pending
      BY <2>1, Halves DEF Accounted
    <3> QED
      BY <1>1, <3>1, Halves DEF WatermarkInPlace
  <2> QED
    BY <1>1, <1>3, <1>h, <2>1 DEF Accounted
<1>9. LoopInPlace'
  BY <1>1, <1>2 DEF LoopInPlace
<1>10. WatermarkInPlace'
  <2>1. c \in confirmed
    BY <1>3 DEF Accounted
  <2>2. safeCursor <= c /\ persisted <= c
    BY <1>1, Halves, CursorType DEF WatermarkInPlace
  <2>3. ASSUME NEW d \in confirmed \ Acked' PROVE d <= c
    <3>1. d = c \/ d <= safeCursor
      BY <1>3 DEF WatermarkInPlace
    <3>2. d \in Nat /\ c \in Nat /\ safeCursor \in Nat
      BY Halves, CursorType DEF TypeOK, HistoryTypeOK, registered
    <3> QED
      BY <2>2, <3>1, <3>2
  <2> QED
    BY <1>1, <1>2, <1>4, <2>1, <2>2, <2>3 DEF WatermarkInPlace
<1> QED
  BY <1>3, <1>5, <1>6, <1>7, <1>8, <1>9, <1>10

\* The loop returns when there is nothing left to fold: at a gap, or at the end.
LEMMA ReturnOK ==
  ASSUME IInv, Exhausted \/ \E c \in Cursor : Break(c)
  PROVE  IInv' /\ Acked' = Acked /\ Unacked' = Unacked /\ ToFold = {} /\ ToFold' = {}
<1> USE DEF IInv
<1>1. /\ pc = "loop" /\ rest = Pending /\ pc' = "idle" /\ rest' = {}
      /\ UNCHANGED <<pendingAcks, safeCursor, acksSinceSave, savedCursor, persisted, delivered,
                     inFlight, confirmed>>
  BY DEF Exhausted, Break, At, Return, LoopInPlace, saveVars, history
<1>h. registered' = registered
  BY <1>1 DEF registered
<1>2. Pending' = Pending /\ Acked' = Acked /\ Unacked' = Unacked /\ ToFold' = ToFold
  BY <1>1 DEF Pending, Acked, Unacked, ToFold
<1>3. ToFold = {}
  <2>1. CASE Exhausted
    BY <1>1, <2>1, Halves DEF Exhausted
  <2>2. ASSUME NEW c \in Cursor, Break(c) PROVE ToFold = {}
    <3>1. c \in Unacked /\ \A a \in Acked : c <= a
      BY <1>1, <2>2, Halves DEF Break, At, Unacked, Acked
    <3>2. \A a \in Acked : ~(a < c)
      BY <3>1, Halves, CursorType
    <3> QED
      BY <3>1, <3>2 DEF ToFold
  <2> QED
    BY <2>1, <2>2
<1>4. TypeOK' /\ LoopInPlace'
  BY <1>1, <1>2, <1>3, <1>h DEF TypeOK, HistoryTypeOK, LoopInPlace
<1>5. Accounted' /\ WatermarkInPlace'
  BY <1>1, <1>2, <1>h DEF Accounted, WatermarkInPlace
<1> QED
  BY <1>2, <1>3, <1>4, <1>5

LEMMA SaveOK ==
  ASSUME IInv, SaveDue
  PROVE  /\ IInv' /\ Acked' = Acked /\ Unacked' = Unacked /\ ToFold = {} /\ ToFold' = {}
<1> USE DEF IInv
<1>1. /\ pc = "idle" /\ persisted' = safeCursor /\ savedCursor' = safeCursor
      /\ acksSinceSave' = 0
      /\ UNCHANGED <<pendingAcks, safeCursor, rest, pc, delivered, inFlight, confirmed>>
  BY DEF SaveDue, loopVars, history
<1>h. registered' = registered
  BY <1>1 DEF registered
<1>2. Pending' = Pending /\ Acked' = Acked /\ Unacked' = Unacked /\ ToFold' = ToFold
  BY <1>1 DEF Pending, Acked, Unacked, ToFold
<1>3. ToFold = {}
  BY <1>1 DEF LoopInPlace
<1>4. safeCursor <= safeCursor
  BY Halves
<1>5. TypeOK' /\ LoopInPlace'
  BY <1>1, <1>2, <1>h DEF TypeOK, HistoryTypeOK, LoopInPlace
<1>6. Accounted' /\ WatermarkInPlace'
  BY <1>1, <1>2, <1>4, <1>h DEF Accounted, WatermarkInPlace
<1> QED
  BY <1>2, <1>3, <1>5, <1>6

LEMMA StepOK == IInv /\ [Next]_vars => IInv'
<1> SUFFICES ASSUME IInv, [Next]_vars PROVE IInv'
  OBVIOUS
<1>1. CASE \E c \in Cursor : Produce(c) \/ ReportFailure(c) \/ ReportSuccess(c)
  BY <1>1, ProduceOK, FailureOK, SuccessOK
<1>2. CASE \E c \in Cursor : Fold(c)
  BY <1>2, FoldOK
<1>3. CASE Exhausted \/ \E c \in Cursor : Break(c)
  BY <1>3, ReturnOK
<1>4. CASE SaveDue
  BY <1>4, SaveOK
<1>5. CASE UNCHANGED vars
  BY <1>5 DEF vars, loopVars, saveVars, history, IInv, TypeOK, HistoryTypeOK, registered, Accounted, LoopInPlace,
     WatermarkInPlace, Pending, Acked, Unacked, ToFold
<1> QED
  BY <1>1, <1>2, <1>3, <1>4, <1>5 DEF Next

\* The invariant the other theorems rest on holds in every reachable state of
\* the class as it is written.
THEOREM Inductive == Spec => []IInv
BY InitOK, StepOK, PTL DEF Spec

\* Every variable keeps its type, and the loop visits only what is pending.
THEOREM TypeCorrect == Spec => []TypeOK
<1>1. IInv => TypeOK
  BY DEF IInv
<1> QED
  BY <1>1, Inductive, PTL

\* Between loops, an acknowledged cursor is held back by one below it.
LEMMA HeldBack ==
  ASSUME IInv, pc = "idle", NEW a \in Acked
  PROVE  \E o \in Unacked : o < a
<1>1. PICK o \in Unacked : ~(a < o)
  BY DEF IInv, LoopInPlace, ToFold
<1>2. a # o /\ a \in Nat /\ o \in Nat
  BY Halves, CursorType DEF IInv
<1> QED
  BY <1>1, <1>2

\* Whenever no report is being served, the watermark depends on which deliveries
\* succeeded and never on the order of their reports (main.py:59-65, 90-101).
THEOREM WatermarkIsThePrefix == Spec => []WatermarkIsLongestAckedPrefix
<1>1. IInv => WatermarkIsLongestAckedPrefix
  <2> SUFFICES ASSUME IInv PROVE WatermarkIsLongestAckedPrefix
    OBVIOUS
  <2> USE DEF IInv
  <2>t. /\ \A r \in registered : r \in Nat
        /\ \A o \in Unacked : o \in Nat /\ o \in registered /\ o \in Pending
        /\ safeCursor \in Nat
    BY CursorType, Halves DEF registered, Accounted
  <2>1. safeCursor \in AckedPrefix \cup {None}
    <3>1. SUFFICES ASSUME safeCursor \in confirmed PROVE safeCursor \in AckedPrefix
      BY DEF WatermarkInPlace
    <3>2. safeCursor \in registered
      BY <3>1 DEF Accounted
    <3>3. ASSUME NEW r \in registered, r <= safeCursor PROVE r \in confirmed
      BY <2>t, <3>1, <3>3 DEF Accounted, WatermarkInPlace
    <3> QED
      BY <3>2, <3>3 DEF AckedPrefix
  <2>2. ASSUME pc = "idle", safeCursor \notin Unacked, NEW c \in AckedPrefix
        PROVE  c <= safeCursor
    <3>1. c \in registered /\ \A r \in registered : r <= c => r \in confirmed
      BY DEF AckedPrefix
    <3>2. c \in confirmed
      BY <2>t, <3>1
    <3>3. ASSUME c \in Acked PROVE FALSE
      <4>1. PICK o \in Unacked : o < c
        BY <2>2, <3>3, HeldBack
      <4>2. o \in confirmed
        BY <2>t, <3>1, <4>1
      <4> QED
        BY <2>2, <4>1, <4>2 DEF Accounted
    <3> QED
      BY <3>2, <3>3 DEF WatermarkInPlace
  <2> QED
    BY <2>1, <2>2 DEF WatermarkIsLongestAckedPrefix
<1> QED
  BY <1>1, Inductive, PTL

\* What is given up stays given up, and is unacknowledged above the watermark.
LEMMA GivenUpStays ==
  ASSUME IInv, IInv', [Next]_vars, NEW c \in GivenUp
  PROVE  c \in GivenUp' /\ safeCursor' < c /\ persisted' < c
<1>0. c \in Cursor /\ c \in registered /\ c \notin confirmed /\ inFlight[c] = 0
  BY DEF GivenUp, registered
<1>r. PICK r \in registered : c < r
  BY DEF GivenUp
<1>t. HistoryTypeOK /\ \A d \in Cursor : d \in Nat
  BY CursorType DEF IInv, TypeOK
<1>1. registered \subseteq registered' /\ c \notin confirmed' /\ inFlight'[c] = 0
  <2>1. ASSUME NEW d \in Cursor, Produce(d)
        PROVE  registered \subseteq registered' /\ c \notin confirmed' /\ inFlight'[c] = 0
    <3>1. d # c
      BY <1>r, <1>0, <1>t, <2>1 DEF Produce, Deliver, registered
    <3> QED
      BY <1>0, <1>t, <2>1, <3>1, DeliverHistory DEF Produce
  <2>2. ASSUME NEW d \in Cursor, ReportFailure(d) \/ ReportSuccess(d)
        PROVE  registered \subseteq registered' /\ c \notin confirmed' /\ inFlight'[c] = 0
    <3>1. PICK success \in BOOLEAN : ServeReport(d, success)
      BY <2>2 DEF ReportFailure, ReportSuccess
    <3>2. d # c
      BY <1>0, <1>t, <3>1, ReportHistory
    <3> QED
      BY <1>0, <1>t, <3>1, <3>2, ReportHistory
  <2>3. CASE UNCHANGED history
    BY <1>0, <2>3 DEF history, registered
  <2>4. CASE Exhausted \/ SaveDue \/ (\E d \in Cursor : Fold(d) \/ Break(d)) \/ UNCHANGED vars
    BY <2>3, <2>4 DEF Exhausted, SaveDue, Fold, Break, vars
  <2> QED
    BY <2>1, <2>2, <2>4 DEF Next
<1>2. c \in GivenUp'
  BY <1>0, <1>r, <1>1 DEF GivenUp
<1>3. safeCursor' \in Nat /\ persisted' \in Nat /\ c \in Nat /\ c > 0
  BY <1>0, CursorType DEF IInv, TypeOK
<1>4. c \in Unacked' /\ safeCursor' # c
  BY <1>0, <1>1, <1>3 DEF IInv, Accounted, WatermarkInPlace, None
<1>5. safeCursor' <= c /\ persisted' <= safeCursor'
  BY <1>4 DEF IInv, WatermarkInPlace, Unacked
<1> QED
  BY <1>2, <1>3, <1>4, <1>5

\* A cursor whose deliveries have failed and which does not come again pins the
\* watermark, and what is saved, also in the middle of a loop and for the rest of
\* the process (main.py:63-64, 83-85, 96-98).
THEOREM FailuresPin == Spec => FailurePins
<1>1. IInv /\ IInv' /\ [Next]_vars =>
        [\A c \in GivenUp : c \in GivenUp' /\ safeCursor' < c /\ persisted' < c]_vars
  BY GivenUpStays
<1> QED
  BY <1>1, Inductive, PTL DEF Spec, FailurePins

-----------------------------------------------------------------------------
\* A count that saturates twice saturates once.
LEMMA SaturateOnce ==
  ASSUME NEW n \in Nat, NEW k \in Nat
  PROVE  Atomic!CountAcks(Saturated(n) + k) = Saturated(n + k)
BY Constants DEF Atomic!CountAcks, Saturated

LEMMA SameCardinality ==
  ASSUME NEW S
  PROVE  Atomic!Cardinality(S) = Cardinality(S)
BY Zenon DEF Atomic!Cardinality, Cardinality

\* The atomic checkpointer is fed by the same deliveries.
LEMMA SameDeliveries ==
  /\ Atomic!Cursor = Cursor /\ Atomic!registered = registered
  /\ \A c : Atomic!Deliver(c) = Deliver(c)
  /\ \A c, success : Atomic!ServeReport(c, success) = ServeReport(c, success)
BY DEF Atomic!Cursor, Cursor, Atomic!registered, registered, Atomic!Deliver, Deliver,
   Atomic!ServeReport, ServeReport

LEMMA InitMaps == Init => Atomic!Init
<1> SUFFICES ASSUME Init PROVE Atomic!Init
  OBVIOUS
<1>1. Pending = {} /\ Acked = {} /\ Unacked = {} /\ ToFold = {}
  BY DEF Init, Pending, Acked, Unacked, ToFold
<1>2. WatermarkToBe = 0 /\ Saturated(CountToBe) = 0
  BY <1>1, FS_EmptySet, Constants DEF Init, WatermarkToBe, CountToBe, Saturated, None
<1> QED
  BY <1>1, <1>2, SameDeliveries DEF Init, Atomic!Init, Atomic!CkptFresh, Atomic!NoCursor,
     Atomic!HistoryInit, HistoryInit, None

\* What an idle checkpointer shows as: itself.
LEMMA Shown ==
  ASSUME TypeOK
  PROVE  /\ ToFold = {} => WatermarkToBe = safeCursor /\ CountToBe = acksSinceSave
         /\ CountToBe \in Nat
<1>1. Cardinality(ToFold) \in Nat
  BY Halves, FiniteCursors
<1> QED
  BY <1>1, FS_EmptySet DEF WatermarkToBe, CountToBe, TypeOK

LEMMA ProduceMaps ==
  ASSUME IInv, NEW c \in Cursor, Produce(c)
  PROVE  Atomic!Produce(c)
<1>1. Acked' = Acked /\ Unacked' = Unacked \cup ({c} \ Acked) /\ ToFold = {} /\ ToFold' = {}
  BY ProduceOK DEF Produce, IInv, LoopInPlace
<1>2. Deliver(c) /\ UNCHANGED <<safeCursor, acksSinceSave, savedCursor, persisted>>
  BY DEF Produce, saveVars
<1>3. WatermarkToBe' = WatermarkToBe /\ CountToBe' = CountToBe
  BY <1>1, <1>2 DEF WatermarkToBe, CountToBe
<1>4. Atomic!Register(c)
  BY <1>1, <1>2, <1>3 DEF Atomic!Register, Saturated
<1> QED
  BY <1>2, <1>4, SameDeliveries DEF Atomic!Produce

LEMMA FailureMaps ==
  ASSUME IInv, NEW c \in Cursor, ReportFailure(c)
  PROVE  Atomic!Report(c, FALSE)
<1>1. Acked' = Acked /\ Unacked' = Unacked /\ ToFold' = ToFold
  BY FailureOK
<1>2. ServeReport(c, FALSE) /\ UNCHANGED <<safeCursor, acksSinceSave, savedCursor, persisted>>
  BY DEF ReportFailure, saveVars
<1>3. WatermarkToBe' = WatermarkToBe /\ CountToBe' = CountToBe
  BY <1>1, <1>2 DEF WatermarkToBe, CountToBe
<1>4. Atomic!OnAck(FALSE, c)
  BY <1>1, <1>2, <1>3 DEF Atomic!OnAck, Atomic!volatileCkpt, Saturated
<1> QED
  BY <1>2, <1>4, SameDeliveries DEF Atomic!Report

\* A success shows as the whole fold at the moment the loop is entered.
LEMMA SuccessMaps ==
  ASSUME IInv, NEW c \in Cursor, ReportSuccess(c)
  PROVE  Atomic!Report(c, TRUE)
<1>1. /\ IInv' /\ Acked' = Acked \cup ({c} \cap Unacked) /\ Unacked' = Unacked \ {c}
      /\ ToFold = {}
  BY SuccessOK
<1>2. ServeReport(c, TRUE) /\ UNCHANGED <<safeCursor, acksSinceSave, savedCursor, persisted>>
  BY DEF ReportSuccess, saveVars
<1>3. ToFold' = Atomic!Foldable(Unacked \ {c}, Acked \cup ({c} \cap Unacked))
  BY <1>1 DEF ToFold, Atomic!Foldable
<1>4. WatermarkToBe = safeCursor /\ CountToBe = acksSinceSave /\ acksSinceSave \in Nat
  BY <1>1, Shown DEF IInv, TypeOK
<1>5. Cardinality(ToFold') \in Nat /\ ToFold' \in SUBSET Cursor
  <2>1. Acked' \subseteq Cursor
    BY <1>1, Halves DEF IInv
  <2>2. ToFold' \subseteq Cursor
    BY <2>1 DEF ToFold
  <2> QED
    BY <2>2, FiniteCursors
<1>6. Saturated(CountToBe)' = Atomic!CountAcks(Saturated(CountToBe) + Cardinality(ToFold'))
  BY <1>2, <1>4, <1>5, SaturateOnce DEF CountToBe, Saturated
<1>7. IF ToFold' = {}
        THEN WatermarkToBe' = WatermarkToBe
        ELSE WatermarkToBe' \in ToFold' /\ \A a \in ToFold' : a <= WatermarkToBe'
  <2>1. CASE ToFold' = {}
    BY <1>2, <1>4, <2>1 DEF WatermarkToBe
  <2>2. CASE ToFold' # {}
    <3>1. WatermarkToBe' = LastOf(ToFold')
      BY <2>2 DEF WatermarkToBe, LastOf
    <3> QED
      BY <1>5, <2>2, <3>1, LastExists
  <2> QED
    BY <2>1, <2>2
<1>8. Acked \ ToFold = Acked
  BY <1>1
<1>9. Atomic!OnAck(TRUE, c)
  BY <1>1, <1>2, <1>3, <1>6, <1>7, <1>8, SameCardinality
  DEF Atomic!OnAck, Atomic!AdvanceWatermark
<1> QED
  BY <1>2, <1>9, SameDeliveries DEF Atomic!Report

\* An iteration folds one cursor and leaves one less to fold: what the loop will
\* return with does not change.
LEMMA FoldMaps ==
  ASSUME IInv, NEW c \in Cursor, Fold(c)
  PROVE  UNCHANGED Atomic!vars
<1>1. /\ IInv' /\ Acked' = Acked \ {c} /\ Unacked' = Unacked
      /\ c \in ToFold /\ (\A a \in ToFold : c <= a) /\ ToFold' = ToFold \ {c}
  BY FoldOK
<1>2. /\ safeCursor' = c /\ acksSinceSave' = acksSinceSave + 1
      /\ UNCHANGED <<savedCursor, persisted, delivered, inFlight, confirmed>>
  BY DEF Fold, saveVars, history
<1>3. ToFold \in SUBSET Cursor /\ c \in Acked
  BY <1>1, Halves DEF IInv
<1>4. Acked' \ ToFold' = Acked \ ToFold
  BY <1>1
<1>5. CountToBe' = CountToBe
  <2>1. Cardinality(ToFold') = Cardinality(ToFold) - 1
    BY <1>1, <1>3, FiniteCursors, FS_RemoveElement
  <2>2. Cardinality(ToFold) \in Nat /\ acksSinceSave \in Nat
    BY <1>3, FiniteCursors DEF IInv, TypeOK
  <2> QED
    BY <1>2, <2>1, <2>2 DEF CountToBe
<1>6. WatermarkToBe' = WatermarkToBe
  <2>1. LastOf(ToFold) \in ToFold /\ \A d \in ToFold : d <= LastOf(ToFold)
    BY <1>1, <1>3, LastExists
  <2>2. WatermarkToBe = LastOf(ToFold)
    BY <1>1 DEF WatermarkToBe
  <2>3. CASE ToFold' = {}
    BY <1>1, <1>2, <2>1, <2>2, <2>3 DEF WatermarkToBe
  <2>4. CASE ToFold' # {}
    <3>1. WatermarkToBe' = LastOf(ToFold')
      BY <2>4 DEF WatermarkToBe, LastOf
    <3>2. LastOf(ToFold') \in ToFold' /\ \A d \in ToFold' : d <= LastOf(ToFold')
      BY <1>1, <1>3, <2>4, LastExists
    <3>3. \A d \in ToFold : d \in Nat
      BY <1>3, CursorType
    <3>4. LastOf(ToFold) # c
      BY <1>1, <2>1, <3>2, <3>3
    <3>5. LastOf(ToFold) <= LastOf(ToFold') /\ LastOf(ToFold') <= LastOf(ToFold)
      BY <1>1, <2>1, <3>2, <3>4
    <3> QED
      BY <1>1, <2>1, <2>2, <3>1, <3>2, <3>3, <3>5
  <2> QED
    BY <2>3, <2>4
<1> QED
  BY <1>1, <1>2, <1>4, <1>5, <1>6 DEF Atomic!vars, Atomic!ckptVars, Atomic!volatileCkpt,
     Atomic!history, Saturated

LEMMA ReturnMaps ==
  ASSUME IInv, Exhausted \/ \E c \in Cursor : Break(c)
  PROVE  UNCHANGED Atomic!vars
<1>1. Acked' = Acked /\ Unacked' = Unacked /\ ToFold = {} /\ ToFold' = {}
  BY ReturnOK
<1>2. UNCHANGED <<safeCursor, acksSinceSave, savedCursor, persisted, delivered, inFlight, confirmed>>
  BY DEF Exhausted, Break, saveVars, history
<1>3. WatermarkToBe' = WatermarkToBe /\ CountToBe' = CountToBe
  BY <1>1, <1>2 DEF WatermarkToBe, CountToBe
<1> QED
  BY <1>1, <1>2, <1>3 DEF Atomic!vars, Atomic!ckptVars, Atomic!volatileCkpt, Atomic!history,
     Saturated

LEMMA SaveMaps ==
  ASSUME IInv, SaveDue
  PROVE  Atomic!SaveDue
<1>1. IInv' /\ Acked' = Acked /\ Unacked' = Unacked /\ ToFold = {} /\ ToFold' = {}
  BY SaveOK
<1>2. /\ safeCursor # 0 /\ safeCursor # savedCursor /\ persisted' = safeCursor
      /\ savedCursor' = safeCursor /\ acksSinceSave' = 0
      /\ UNCHANGED <<safeCursor, delivered, inFlight, confirmed>>
  BY DEF SaveDue, history, None
<1>3. WatermarkToBe = safeCursor /\ WatermarkToBe' = safeCursor'
  BY <1>1 DEF WatermarkToBe
<1>4. Saturated(CountToBe)' = 0
  BY <1>1, <1>2, FS_EmptySet, Constants DEF CountToBe, Saturated
<1> QED
  BY <1>1, <1>2, <1>3, <1>4 DEF Atomic!SaveDue, Atomic!Due, Atomic!Unsaved, Atomic!NoCursor,
     Atomic!MaybeSave, Atomic!history, Saturated

LEMMA StepMaps == IInv /\ [Next]_vars => [Atomic!Next]_Atomic!vars
<1> SUFFICES ASSUME IInv, [Next]_vars PROVE Atomic!Next \/ UNCHANGED Atomic!vars
  OBVIOUS
<1>c. Atomic!Cursor = Cursor
  BY SameDeliveries
<1>1. CASE \E c \in Cursor : Produce(c)
  BY <1>1, <1>c, ProduceMaps DEF Atomic!Next
<1>2. CASE \E c \in Cursor : ReportFailure(c)
  BY <1>2, <1>c, FailureMaps DEF Atomic!Next
<1>3. CASE \E c \in Cursor : ReportSuccess(c)
  BY <1>3, <1>c, SuccessMaps DEF Atomic!Next
<1>4. CASE \E c \in Cursor : Fold(c)
  BY <1>4, FoldMaps
<1>5. CASE Exhausted \/ \E c \in Cursor : Break(c)
  BY <1>5, ReturnMaps
<1>6. CASE SaveDue
  BY <1>6, SaveMaps DEF Atomic!Next
<1>7. CASE UNCHANGED vars
  BY <1>7 DEF vars, loopVars, saveVars, history, Pending, Acked, Unacked, ToFold, WatermarkToBe,
     CountToBe, Saturated, Atomic!vars, Atomic!ckptVars, Atomic!volatileCkpt, Atomic!history
<1> QED
  BY <1>1, <1>2, <1>3, <1>4, <1>5, <1>6, <1>7 DEF Next

\* The loop of _advance_watermark, taken one iteration at a time, implements the
\* checkpointer that folds at once (main.py:87-101), for any number of cursors:
\* what is proved of that one, and of the service composed of it, is about the
\* loop of the code.
THEOREM LoopImplementsFold == Spec => FoldsAtOnce
BY InitMaps, StepMaps, Inductive, PTL DEF Spec, FoldsAtOnce, Atomic!Spec
=============================================================================

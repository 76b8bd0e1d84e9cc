-------------------------- MODULE CheckpointerLoop --------------------------
(***************************************************************************)
(* _CursorCheckpointer (ingest/main.py) as it is written: the dict         *)
(* _pending_acks and the loop of _advance_watermark, one iteration a step, *)
(* fed like CheckpointerHistory.  Shown to implement the checkpointer that *)
(* Ingest is composed of, which folds at once.                             *)
(*                                                                         *)
(* A delivery report is served to its end before anything else happens to  *)
(* the checkpointer: all of it runs on the thread of the event loop.       *)
(***************************************************************************)
EXTENDS Deliveries, FiniteSets, Functions

CONSTANT CheckpointAcks   \* settings.cursor_checkpoint_acks

ASSUME CadenceAssumption == CheckpointAcks \in Nat \ {0}

None == 0

VARIABLES
  pendingAcks,    \* dict: cursor -> acknowledged?
  safeCursor,
  savedCursor,
  acksSinceSave,
  rest,           \* of sorted(_pending_acks), what the loop has not visited
  pc,             \* "loop" in _advance_watermark, "idle" otherwise
  persisted       \* the row of ingest_cursors in Postgres

loopVars == <<rest, pc>>
saveVars == <<savedCursor, persisted>>
vars == <<pendingAcks, safeCursor, acksSinceSave, loopVars, saveVars, history>>

Pending == DOMAIN pendingAcks

Init ==
  /\ pendingAcks = <<>>
  /\ safeCursor = None /\ savedCursor = None /\ persisted = None
  /\ acksSinceSave = 0
  /\ rest = {} /\ pc = "idle"
  /\ HistoryInit

-----------------------------------------------------------------------------
\* Mutant: assignment instead of setdefault.
RegisterAnew(c) ==
  pendingAcks' = [d \in Pending \cup {c} |-> d # c /\ pendingAcks[d]]

\* setdefault(cursor, False): a cursor that is pending keeps its state.
Register(c) ==
  pendingAcks' = [d \in Pending \cup {c} |-> d \in Pending /\ pendingAcks[d]]

\* An event is taken: registered, then produced.
Produce(c) ==
  /\ pc = "idle"
  /\ Deliver(c)
  /\ Register(c)
  /\ UNCHANGED <<safeCursor, acksSinceSave, loopVars, saveVars>>

\* A failure is only logged.
ReportFailure(c) ==
  /\ pc = "idle"
  /\ ServeReport(c, FALSE)
  /\ UNCHANGED <<pendingAcks, safeCursor, acksSinceSave, loopVars, saveVars>>

EnterLoop == pc' = "loop" /\ rest' = DOMAIN pendingAcks'

\* Mutant: without "if cursor in self._pending_acks".
ReportUnguarded(c) ==
  /\ pc = "idle"
  /\ ServeReport(c, TRUE)
  /\ pendingAcks' = [d \in Pending \cup {c} |-> d = c \/ pendingAcks[d]]
  /\ EnterLoop
  /\ UNCHANGED <<safeCursor, acksSinceSave, saveVars>>

\* A success marks the cursor, if it is pending, and enters the loop.
ReportSuccess(c) ==
  /\ pc = "idle"
  /\ ServeReport(c, TRUE)
  /\ pendingAcks' = [d \in Pending |-> d = c \/ pendingAcks[d]]
  /\ EnterLoop
  /\ UNCHANGED <<safeCursor, acksSinceSave, saveVars>>

\* The cursor the loop is at: the rest is visited in ascending order.
At(c) == pc = "loop" /\ c \in rest /\ \A d \in rest : c <= d

\* Mutant: the last cursor of the run is kept.
FoldKeepsCursor(c) ==
  /\ At(c)
  /\ pendingAcks[c]
  /\ safeCursor' = c
  /\ pendingAcks' = IF rest = {c} THEN pendingAcks ELSE Restrict(pendingAcks, Pending \ {c})
  /\ acksSinceSave' = acksSinceSave + 1
  /\ rest' = rest \ {c}
  /\ UNCHANGED <<pc, saveVars, history>>

Fold(c) ==
  /\ At(c)
  /\ pendingAcks[c]
  /\ safeCursor' = c
  /\ pendingAcks' = Restrict(pendingAcks, Pending \ {c})
  /\ acksSinceSave' = acksSinceSave + 1
  /\ rest' = rest \ {c}
  /\ UNCHANGED <<pc, saveVars, history>>

Return == pc' = "idle" /\ rest' = {}

\* Mutant: continue instead of break.
Continue(c) ==
  /\ At(c)
  /\ ~pendingAcks[c]
  /\ rest' = rest \ {c}
  /\ UNCHANGED <<pc, pendingAcks, safeCursor, acksSinceSave, saveVars, history>>

\* A gap.
Break(c) ==
  /\ At(c)
  /\ ~pendingAcks[c]
  /\ Return
  /\ UNCHANGED <<pendingAcks, safeCursor, acksSinceSave, saveVars, history>>

Exhausted ==
  /\ pc = "loop"
  /\ rest = {}
  /\ Return
  /\ UNCHANGED <<pendingAcks, safeCursor, acksSinceSave, saveVars, history>>

\* maybe_save, when the time or the count makes the watermark due.
SaveDue ==
  /\ pc = "idle"
  /\ safeCursor # None /\ safeCursor # savedCursor
  /\ persisted' = safeCursor
  /\ savedCursor' = safeCursor
  /\ acksSinceSave' = 0
  /\ UNCHANGED <<pendingAcks, safeCursor, loopVars, history>>

Next ==
  \/ \E c \in Cursor : \/ Produce(c) \/ ReportFailure(c) \/ ReportSuccess(c)
                       \/ Fold(c) \/ Break(c)
  \/ Exhausted \/ SaveDue

Spec == Init /\ [][Next]_vars

-----------------------------------------------------------------------------
(***************************************************************************)
(* What is shown of it                                                     *)
(***************************************************************************)
Acked == { c \in Pending : pendingAcks[c] }
Unacked == { c \in Pending : ~pendingAcks[c] }

\* The watermark ends a run of confirmed cursors and, whenever no report is being
\* served, the longest one (main.py:59-65): it depends on which deliveries
\* succeeded, never on the order of their reports.  It may lag behind only if its
\* own cursor was delivered again and that delivery has not succeeded.
WatermarkIsLongestAckedPrefix ==
  /\ safeCursor \in AckedPrefix \cup {None}
  /\ pc = "idle" /\ safeCursor \notin Unacked => \A c \in AckedPrefix : c <= safeCursor

\* A cursor that is given up pins the watermark, and what is saved, below it for
\* the rest of the process, whatever succeeds after it (main.py:63-64).
FailurePins ==
  [][\A c \in GivenUp : c \in GivenUp' /\ safeCursor' < c /\ persisted' < c]_vars

\* What the loop under way is still going to fold; when it is done, nothing is
\* left to fold.
ToFold == { a \in Acked : \A o \in Unacked : a < o }

LastOf(cursors) == CHOOSE c \in cursors : \A d \in cursors : d <= c

\* What the loop returns with.
WatermarkToBe == IF ToFold = {} THEN safeCursor ELSE LastOf(ToFold)
CountToBe == acksSinceSave + Cardinality(ToFold)

\* The atomic checkpointer counts up to CheckpointAcks.
Saturated(n) == IF n < CheckpointAcks THEN n ELSE CheckpointAcks

\* A loop in the middle of a report shows as the state it will return with, so
\* the report is one step and the iterations are none: the loop of
\* _advance_watermark (main.py:90-101) leaves the watermark, the dict and the
\* count as the fold at once of Checkpointer, which Ingest uses.
Atomic == INSTANCE CheckpointerHistory WITH
  outstanding <- Unacked,
  acked <- Acked \ ToFold,
  safeCursor <- WatermarkToBe,
  acksSinceSave <- Saturated(CountToBe)

FoldsAtOnce == Atomic!Spec

-----------------------------------------------------------------------------
TypeOK ==
  /\ Pending \subseteq Cursor
  /\ pendingAcks \in [Pending -> BOOLEAN]
  /\ {safeCursor, savedCursor, persisted} \subseteq Cursor \cup {None}
  /\ acksSinceSave \in Nat
  /\ rest \subseteq Pending
  /\ pc \in {"idle", "loop"}
  /\ HistoryTypeOK

\* A registered cursor is confirmed or unacknowledged in the dict; it is both only
\* where the watermark stands, if it was delivered again.
Accounted ==
  /\ registered = confirmed \cup Unacked
  /\ confirmed \cap Unacked \subseteq {safeCursor}
  /\ Acked \subseteq confirmed

\* What the loop has not visited is all that is pending, for it deletes what it
\* passes; between loops, an acknowledged cursor is held back by another.
LoopInPlace ==
  /\ pc = "loop" => rest = Pending
  /\ pc = "idle" => rest = {} /\ ToFold = {}

\* The watermark is a confirmed cursor with nothing pending below it, and every
\* confirmed cursor that is not acknowledged in the dict is at or below it.
WatermarkInPlace ==
  /\ safeCursor \in confirmed \cup {None}
  /\ persisted <= safeCursor
  /\ \A c \in Pending : safeCursor <= c
  /\ \A c \in confirmed \ Acked : c <= safeCursor

\* The inductive invariant.
IInv == TypeOK /\ Accounted /\ LoopInPlace /\ WatermarkInPlace
=============================================================================

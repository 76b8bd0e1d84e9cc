---------------------------- MODULE Checkpointer ----------------------------
(***************************************************************************)
(* _CursorCheckpointer (ingest/main.py): the set of produced cursors still *)
(* waiting for an acknowledgement, the gap-free watermark computed from    *)
(* it, and the cadence on which the watermark is persisted.                *)
(*                                                                         *)
(* The dict _pending_acks (cursor -> acknowledged?) is kept as the two     *)
(* sets of its keys: outstanding (False) and acked (True).                 *)
(***************************************************************************)
EXTENDS Integers, FiniteSets

CONSTANT CheckpointAcks   \* settings.cursor_checkpoint_acks

ASSUME CheckpointAcksAssumption == CheckpointAcks \in Nat \ {0}

NoCursor == 0             \* Python's None; cursors are positive

VARIABLES
  outstanding,    \* produced, not acknowledged (in flight or failed)
  acked,          \* acknowledged, but above some outstanding cursor
  safeCursor,     \* the watermark
  savedCursor,    \* the watermark as this process last saved it
  acksSinceSave,  \* cursors folded since the last save, up to CheckpointAcks
  persisted       \* the row of ingest_cursors in Postgres (survives a crash)

volatileCkpt == <<outstanding, acked, safeCursor, savedCursor, acksSinceSave>>
ckptVars == <<volatileCkpt, persisted>>

CkptTypeOK(Cursor) ==
  /\ outstanding \subseteq Cursor
  /\ acked \subseteq Cursor
  /\ safeCursor \in Cursor \cup {NoCursor}
  /\ savedCursor \in Cursor \cup {NoCursor}
  /\ acksSinceSave \in 0..CheckpointAcks
  /\ persisted \in Cursor \cup {NoCursor}

CkptFresh ==
  /\ outstanding = {}
  /\ acked = {}
  /\ safeCursor = NoCursor
  /\ savedCursor = NoCursor
  /\ acksSinceSave = 0

\* A new checkpointer, for a process that starts or one that is gone.
CkptReset ==
  /\ outstanding' = {}
  /\ acked' = {}
  /\ safeCursor' = NoCursor
  /\ savedCursor' = NoCursor
  /\ acksSinceSave' = 0

-----------------------------------------------------------------------------
\* Mutant: the cursor is not registered before the produce.
RegisterNothing(c) == UNCHANGED volatileCkpt

\* setdefault: a cursor that is already pending keeps its state.
Register(c) ==
  /\ outstanding' = outstanding \cup ({c} \ acked)
  /\ UNCHANGED <<acked, safeCursor, savedCursor, acksSinceSave>>

\* Mutant: the highest acknowledged cursor wins, gap or not.
FoldPastGaps(out, ack) == ack

\* Mutant: one acknowledgement folds one cursor.
FoldOne(out, ack) ==
  { a \in ack : (\A o \in out : a < o) /\ (\A b \in ack : a <= b) }

\* The cursors the loop of _advance_watermark folds before it breaks at the
\* first one (ascending) that is not acknowledged.
Foldable(out, ack) == { a \in ack : \A o \in out : a < o }

CountAcks(n) == IF n < CheckpointAcks THEN n ELSE CheckpointAcks

AdvanceWatermark(out, ack) ==
  LET folded == Foldable(out, ack) IN
  /\ outstanding' = out
  /\ acked' = ack \ folded
  /\ acksSinceSave' = CountAcks(acksSinceSave + Cardinality(folded))
  /\ IF folded = {}
       THEN UNCHANGED safeCursor
       ELSE /\ safeCursor' \in folded
            /\ \A a \in folded : a <= safeCursor'

\* Mutant: the error argument of the callback is ignored.
OnAckBlindly(success, c) ==
  /\ AdvanceWatermark(outstanding \ {c}, acked \cup ({c} \cap outstanding))
  /\ UNCHANGED savedCursor

\* Mutant: without "if cursor in self._pending_acks".
OnAckUnguarded(success, c) ==
  IF success
    THEN AdvanceWatermark(outstanding \ {c}, acked \cup {c}) /\ UNCHANGED savedCursor
    ELSE UNCHANGED volatileCkpt

\* A failed delivery is only logged: its cursor stays outstanding.  A success
\* for a cursor that is no longer pending still runs the fold.
OnAck(success, c) ==
  IF success
    THEN /\ AdvanceWatermark(outstanding \ {c},
                             acked \cup ({c} \cap outstanding))
         /\ UNCHANGED savedCursor
    ELSE UNCHANGED volatileCkpt

Unsaved == safeCursor # NoCursor /\ safeCursor # savedCursor

\* Mutant: only the clock makes a save due.
DueByTime(elapsed) == Unsaved /\ elapsed

\* elapsed: cursor_checkpoint_seconds have passed since the last save.
Due(elapsed) == Unsaved /\ (acksSinceSave >= CheckpointAcks \/ elapsed)

\* maybe_save when the watermark is due: the row, then the bookkeeping.
MaybeSave ==
  /\ persisted' = safeCursor
  /\ savedCursor' = safeCursor
  /\ acksSinceSave' = 0
  /\ UNCHANGED <<outstanding, acked, safeCursor>>

\* store.save raised: the UPSERT may or may not have been applied.
SaveRaises ==
  /\ persisted' \in {persisted, safeCursor}
  /\ UNCHANGED volatileCkpt
=============================================================================

------------------------------- MODULE Marts -------------------------------
(***************************************************************************)
(* The queries of the warehouse as operators over sets of rows: the        *)
(* watermark and the newest version of a record (landing.py, stg_*.sql)    *)
(* and the daily aggregates (mart_*.sql).  No state.                       *)
(*                                                                         *)
(* A row is a record of a client, stamped when bronze decoded it:          *)
(*   [key, day, groups, ts]  -  (did, rkey); toDate(created_at); what the  *)
(*   mart groups it by besides the day; ingest_ts.                         *)
(* The groups of a post are its langs, and a like or a follow has one, its *)
(* subject.  A mart maps a cell <<day, group>> to the keys it has counted. *)
(***************************************************************************)
EXTENDS Integers, FiniteSets, Functions

CONSTANT DayModulus      \* days in a ClickHouse Date: 2^16

Epoch == 0

\* max(ingest_ts); ClickHouse answers the epoch for a table without rows.
Mark(rows) ==
  IF rows = {} THEN Epoch
  ELSE CHOOSE t \in { r.ts : r \in rows } : \A r \in rows : r.ts <= t

\* where ingest_ts > mark
Newer(rows, mark) == { r \in rows : r.ts > mark }

\* FINAL over ReplacingMergeTree(ingest_ts) ordered by (did, rkey): the newest
\* version of each key.  Versions of a key with one ts are the same row here.
Final(rows) ==
  { r \in rows : \A q \in rows : q.key = r.key => q.ts <= r.ts }

\* arrayJoin(if(empty(langs), ['und'], langs))
Groups(r) == IF r.groups = {} THEN {"und"} ELSE r.groups

Cells(rows) == UNION { {r.day} \X Groups(r) : r \in rows }

\* Mutant: every group of any row, on every day.
AggregateCross(rows) ==
  [c \in { r.day : r \in rows } \X UNION { Groups(r) : r \in rows } |->
     { r.key : r \in { q \in rows : c \in Cells({q}) } }]

\* group by day, group
Aggregate(rows) ==
  [c \in Cells(rows) |-> { r.key : r \in { q \in rows : c \in Cells({q}) } }]

\* unique_key: the new cells replace those of their day and group, the others
\* stay.
Upsert(cells, mart) ==
  [c \in DOMAIN cells \cup DOMAIN mart |-> IF c \in DOMAIN cells THEN cells[c] ELSE mart[c]]

Days(mart) == { c[1] : c \in DOMAIN mart }

LastDay(mart) ==
  IF Days(mart) = {} THEN Epoch
  ELSE CHOOSE d \in Days(mart) : \A e \in Days(mart) : e <= d

\* Mutant: the rewindow is one day short.
WindowShort(mart) == (LastDay(mart) + DayModulus - 1) % DayModulus

\* select max(day) - 2: a Date is unsigned, and the subtraction wraps.
Window(mart) == (LastDay(mart) + DayModulus - 2) % DayModulus

\* What an incremental run selects.
Recent(rows, mart) == { r \in rows : r.day >= Window(mart) }
=============================================================================

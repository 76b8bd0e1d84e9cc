----------------------------- MODULE Warehouse -----------------------------
(***************************************************************************)
(* From the bronze table to a mart, for one vertical: the archivers that   *)
(* stamp rows and append them to Iceberg later (assets/bronze.py), the     *)
(* landing asset that copies what is new to ClickHouse (assets/landing.py) *)
(* and the dbt build of the staging model and its mart (dbt/models).       *)
(* Nothing orders the three but the person or the schedule that            *)
(* materializes them: a load may overlap appends, and a build a load.      *)
(*                                                                         *)
(* External: ClickHouse, where the INSERT of a block or of a SELECT is not *)
(* atomic and may leave any part of its rows when it fails.  Loads do not  *)
(* overlap each other here, nor do builds.                                 *)
(***************************************************************************)
EXTENDS Marts, FiniteSetsExt

CONSTANTS
  Archiver,      \* bronze runs that may be live at once
  Record,        \* what clients may write: [key, day, groups]
  MaxRows,       \* bound: rows decoded in a behaviour
  LoadBatch      \* settings.landing_batch_rows

ASSUME WarehouseAssumption ==
  /\ MaxRows \in Nat
  /\ LoadBatch \in Nat \ {0}
  /\ DayModulus \in Nat /\ DayModulus > 2
  /\ \A rec \in Record : rec.day \in 0..DayModulus - 1

VARIABLES
  clock,      \* the last ingest_ts given
  held,       \* each archiver's batch
  bronze,     \* rows of the Iceberg table
  rest,       \* rows the load under way still has to insert
  landed,     \* rows of the landing table
  building,   \* the dbt build has its staging model and not yet its mart
  staged,     \* rows of the staging table
  mart,       \* the mart
  created,    \* the mart's table exists
  late,       \* auxiliary: rows appended to bronze after newer ones
  torn,       \* auxiliary: rows an insert gave up
  overtaken,  \* auxiliary: rows a load held back while staging was built
  tardy,      \* auxiliary: keys staged for a day before the mart's window
  cut,        \* auxiliary: keys of a mart insert that failed
  wrapped,    \* auxiliary: the newest day of the mart was one its window wraps at
  current     \* auxiliary: the mart was built since staging last changed

bronzeVars == <<clock, held, bronze, late>>
loadVars == <<rest, landed>>
buildVars == <<building, staged, mart, created, overtaken, tardy, cut, wrapped,
               current>>
vars == <<bronzeVars, loadVars, buildVars, torn>>

Stamp == 1..MaxRows
RowOf(rec, t) == [key |-> rec.key, day |-> rec.day, groups |-> rec.groups, ts |-> t]
AnyRow == { RowOf(rec, t) : rec \in Record, t \in Stamp }
Key == { rec.key : rec \in Record }

RowsTyped ==
  /\ clock \in 0..MaxRows
  /\ held \in [Archiver -> SUBSET AnyRow]
  /\ \A rows \in {bronze, rest, landed, staged, late, torn, overtaken} :
       rows \subseteq AnyRow

TypeOK ==
  /\ RowsTyped
  /\ DOMAIN mart \subseteq Cells(AnyRow)
  /\ \A c \in DOMAIN mart : mart[c] \subseteq Key
  /\ tardy \subseteq Key /\ cut \subseteq Key
  /\ {building, created, wrapped, current} \subseteq BOOLEAN

Init ==
  /\ clock = Epoch
  /\ held = [a \in Archiver |-> {}]
  /\ bronze = {}
  /\ rest = {} /\ landed = {}
  /\ building = FALSE
  /\ staged = {}
  /\ mart = <<>> /\ created = FALSE /\ wrapped = FALSE /\ current = FALSE
  /\ late = {} /\ torn = {} /\ overtaken = {} /\ tardy = {} /\ cut = {}

-----------------------------------------------------------------------------
(***************************************************************************)
(* Bronze                                                                  *)
(***************************************************************************)
\* A message is decoded and joins the batch.  A message read again, or a
\* record written again under its key, is one more row.
Decode(a, rec) ==
  /\ clock < MaxRows
  /\ clock' = clock + 1
  /\ held' = [held EXCEPT ![a] = @ \cup {RowOf(rec, clock')}]
  /\ UNCHANGED <<bronze, late, loadVars, buildVars, torn>>

\* The batch is appended.
Flush(a) ==
  /\ held[a] # {}
  /\ bronze' = bronze \cup held[a]
  /\ late' = late \cup { r \in held[a] : r.ts < Mark(bronze) }
  /\ held' = [held EXCEPT ![a] = {}]
  /\ UNCHANGED <<clock, loadVars, buildVars, torn>>

-----------------------------------------------------------------------------
(***************************************************************************)
(* Landing                                                                 *)
(***************************************************************************)
\* The high-water mark of what has landed.
Watermark == Mark(landed)

\* load_table fixes the snapshot, of which the load takes everything for a
\* table without rows and otherwise what is above the watermark.  One step:
\* nothing but the load changes the landing table.  Without anything new it is
\* over.
Load ==
  /\ rest = {}
  /\ rest' = IF landed = {} THEN bronze ELSE Newer(bronze, Watermark)
  /\ UNCHANGED <<bronzeVars, landed, buildVars, torn>>

\* The next block of _insert_arrow: the scan has no order.
Blocks == kSubset(IF Cardinality(rest) < LoadBatch THEN Cardinality(rest) ELSE LoadBatch, rest)

\* Mutant: returns after the first block.
InsertOnce ==
  /\ rest # {}
  /\ \E block \in Blocks : landed' = landed \cup block
  /\ rest' = {}
  /\ UNCHANGED <<bronzeVars, buildVars, torn>>

Insert ==
  /\ rest # {}
  /\ \E block \in Blocks : landed' = landed \cup block /\ rest' = rest \ block
  /\ UNCHANGED <<bronzeVars, buildVars, torn>>

\* The insert raises, or the run dies: any part of the block may be there.
InsertFails ==
  /\ rest # {}
  /\ \E part \in SUBSET rest :
       /\ Cardinality(part) <= LoadBatch
       /\ landed' = landed \cup part
       /\ torn' = torn \cup (rest \ part)
  /\ rest' = {}
  /\ UNCHANGED <<bronzeVars, buildVars>>

-----------------------------------------------------------------------------
(***************************************************************************)
(* dbt build                                                               *)
(***************************************************************************)
\* Mutant: what is newer by the clients' dates.
NewByDay == { r \in landed : \A q \in staged : r.day > q.day }

\* What the incremental staging model selects.
New == Newer(landed, Mark(staged))

\* The rows arrive in staging while the load still holds some back.
Staged(rows) ==
  /\ staged' = staged \cup rows
  /\ overtaken' = overtaken \cup rest
  /\ tardy' = tardy \cup { r.key : r \in { q \in rows : created /\ q.day < LastDay(mart) - 2 } }
  /\ current' = FALSE

BuildStaging ==
  /\ ~building
  /\ Staged(New)
  /\ building' = TRUE
  /\ UNCHANGED <<bronzeVars, loadVars, mart, created, cut, wrapped, torn>>

\* The model's INSERT fails; the build ends.
StagingFails ==
  /\ ~building
  /\ \E part \in SUBSET New : Staged(part) /\ torn' = torn \cup (New \ part)
  /\ UNCHANGED <<bronzeVars, loadVars, building, mart, created, cut, wrapped>>

\* What the mart's query selects: everything, or the trailing window of a
\* table that exists.
Selected == IF created THEN Recent(Final(staged), mart) ELSE Final(staged)

\* The new cells replace the old ones of their day and group; a cell that is
\* not selected any more stays.
BuildMart ==
  /\ building
  /\ mart' = Upsert(Aggregate(Selected), mart)
  /\ created' = TRUE
  /\ wrapped' = (wrapped \/ LastDay(mart') < 2)
  /\ building' = FALSE
  /\ current' = TRUE
  /\ UNCHANGED <<bronzeVars, loadVars, staged, overtaken, tardy, cut, torn>>

\* The mart's INSERT fails: any of its cells may be there, and the table, if
\* this build was to create it, may be.
MartFails ==
  /\ building
  /\ \E part \in SUBSET Cells(Selected) :
       /\ mart' = Upsert(Restrict(Aggregate(Selected), part), mart)
       /\ created' \in IF part = {} THEN {created, TRUE} ELSE {TRUE}
       /\ cut' = cut \cup { r.key : r \in { q \in Selected : ~(Cells({q}) \subseteq part) } }
  /\ wrapped' = (wrapped \/ (created' /\ LastDay(mart') < 2))
  /\ building' = FALSE
  /\ UNCHANGED <<bronzeVars, loadVars, staged, overtaken, tardy, current, torn>>

\* A dbt test of the staging model fails: its mart is skipped.
TestFails ==
  /\ building
  /\ building' = FALSE
  /\ UNCHANGED <<bronzeVars, loadVars, staged, mart, created, overtaken, tardy, cut, wrapped,
                 current, torn>>

-----------------------------------------------------------------------------
Next ==
  \/ \E a \in Archiver : Flush(a) \/ \E rec \in Record : Decode(a, rec)
  \/ Load \/ Insert \/ InsertFails
  \/ BuildStaging \/ StagingFails \/ BuildMart \/ MartFails \/ TestFails

Spec == Init /\ [][Next]_vars

-----------------------------------------------------------------------------
(***************************************************************************)
(* Properties                                                              *)
(***************************************************************************)
\* A load asks for rows above the newest that has landed, so a row below it
\* that is not there is never loaded again (landing.py:39-52).  When no load
\* is under way, such a row was appended to bronze after newer ones, by a run
\* that overlapped another, or was given up by an insert that failed.
SkippedByLandingForACause ==
  rest = {} =>
    \A r \in bronze : r.ts <= Mark(landed) => r \in landed \cup late \cup torn

\* The same of staging (stg_*.sql): a landed row below its newest row that is
\* missing from it was given up by a failed insert, or held back by a load
\* that was under way when staging was built.
SkippedByStagingForACause ==
  \A r \in landed : r.ts <= Mark(staged) => r \in staged \cup overtaken \cup torn

\* Keys of records that were written again for another day or group: their
\* old cells are not selected any more and keep counting them.
Moved == { k \in Key : \E q, r \in staged : q.key = k /\ r.key = k /\ Cells({q}) # Cells({r}) }

\* Keys whose count the mart may have wrong.
Excused == tardy \cup Moved \cup cut

Counted(table, c) == IF c \in DOMAIN table THEN table[c] ELSE {}

\* The trailing window instead of a rebuild (mart_*.sql:2-4): once the mart is
\* built after staging changed, it differs from the full aggregate of staging
\* only in keys that were staged for a day before its window, moved to
\* another cell, or were part of an insert of it that failed.  Replayed rows
\* are counted once.  Excepted is a mart that was built without a row after the
\* second day of the epoch: its window wraps to the end of the calendar.
MartIsTheAggregate ==
  current /\ ~wrapped =>
    LET full == Aggregate(Final(staged))
    IN  \A c \in DOMAIN full \cup DOMAIN mart : \A k \in Key :
          k \in Excused \/ (k \in Counted(full, c) <=> k \in Counted(mart, c))

-----------------------------------------------------------------------------
(***************************************************************************)
(* What the two Skipped properties rest on                                 *)
(***************************************************************************)
\* One row per stamp, wherever it is: an archiver appends no row that is as
\* new as one of bronze, only newer or older ones.
OneRowPerStamp ==
  /\ \A r \in bronze : r.ts <= clock
  /\ \A a \in Archiver : \A r \in held[a] :
       /\ r.ts <= clock
       /\ \A q \in bronze : q.ts # r.ts
       /\ \A b \in Archiver : \A q \in held[b] : q.ts = r.ts => a = b

\* Nothing appears in a table that was not in the one before it.
Downstream == landed \cup rest \subseteq bronze /\ staged \subseteq landed

\* While a load is under way, what it still holds counts as landed: the
\* watermark that will move over the row is behind both.
LandingOwes ==
  \A r \in bronze : \A q \in landed \cup rest :
    r.ts <= q.ts => r \in landed \cup rest \cup late \cup torn

StagingOwes ==
  /\ \A r \in landed : \A q \in staged : r.ts <= q.ts => r \in staged \cup overtaken \cup torn
  /\ \A r \in rest : \A q \in staged : r.ts <= q.ts => r \in overtaken

\* What is above the marks, inductive on its own.
RowsIInv == RowsTyped /\ OneRowPerStamp /\ Downstream /\ LandingOwes /\ StagingOwes

-----------------------------------------------------------------------------
(***************************************************************************)
(* What MartIsTheAggregate rests on                                        *)
(***************************************************************************)
\* A key is counted where a row of staging puts it.
CountedFromStaged ==
  \A c \in DOMAIN mart : \A k \in mart[c] :
    \E r \in staged : r.key = k /\ c \in Cells({r})

InMart(r) == \A c \in Cells({r}) : r.key \in Counted(mart, c)

\* A build that succeeded leaves a table and no build; unless it wrapped, the
\* window of a table is the two days before its newest.
WindowInPlace ==
  /\ current => created /\ ~building
  /\ created /\ ~wrapped => LastDay(mart) >= 2

\* What the window has left behind is counted: no later build will look at it.
PastIsCounted ==
  created /\ ~wrapped =>
    \A r \in staged : r.day < LastDay(mart) - 2 => r.key \in Excused \/ InMart(r)

\* A build counts all the rest.
BuiltIsCounted ==
  current /\ ~wrapped => \A r \in staged : r.key \in Excused \/ InMart(r)

MartIInv ==
  TypeOK /\ CountedFromStaged /\ WindowInPlace /\ PastIsCounted /\ BuiltIsCounted

\* The inductive invariant.
IInv == RowsIInv /\ MartIInv

-----------------------------------------------------------------------------
\* landing.py:3: "Crosses the Iceberg->ClickHouse boundary exactly once".  So
\* with no load under way, whatever lies below the watermark has crossed.
LandsEverything ==
  rest = {} => \A r \in bronze : r.ts <= Mark(landed) => r \in landed
=============================================================================

-------------------------- MODULE Warehouse_proofs --------------------------
(***************************************************************************)
(* Proofs about Warehouse, for any number of archivers, records and rows   *)
(* and blocks of any size.                                                 *)
(***************************************************************************)
EXTENDS Warehouse, WellFoundedInduction, TLAPS

-----------------------------------------------------------------------------
(***************************************************************************)
(* Marks                                                                   *)
(***************************************************************************)
LEMMA SmallestExists ==
  ASSUME NEW T \in SUBSET Nat, T # {}
  PROVE  \E x \in T : \A y \in T : x <= y
<1>1. PICK x \in T : \A y \in T : ~(<<y, x>> \in OpToRel(<, Nat))
  BY NatLessThanWellFounded, WFMin
<1>2. \A y \in T : ~(y < x)
  BY <1>1 DEF OpToRel
<1> QED
  BY <1>2

\* Mirrored in its bound, a set of stamps has a smallest element where it has
\* its largest.
LEMMA LargestExists ==
  ASSUME NEW n \in Nat, NEW T \in SUBSET (0..n), T # {}
  PROVE  \E x \in T : \A y \in T : y <= x
<1> DEFINE M == { n - t : t \in T }
<1>1. \A t \in T : t \in Nat /\ n - t \in Nat /\ n - t \in M
  OBVIOUS
<1>2. M \subseteq Nat /\ M # {}
  BY <1>1
<1>3. PICK m \in M : \A k \in M : m <= k
  BY <1>2, SmallestExists
<1>4. PICK x \in T : m = n - x
  BY <1>3
<1>5. ASSUME NEW y \in T PROVE y <= x
  <2>1. n - x <= n - y
    BY <1>1, <1>3, <1>4
  <2> QED
    BY <1>1, <2>1
<1> QED
  BY <1>5

LEMMA StampType == MaxRows \in Nat /\ \A r \in AnyRow : r.ts \in Nat /\ r.ts >= 1 /\ r.ts \in 0..MaxRows
BY WarehouseAssumption DEF AnyRow, RowOf, Stamp

\* The mark of a table with rows is the stamp of one of them, and no other row
\* is newer.
LEMMA MarkIsNewest ==
  ASSUME NEW S \in SUBSET AnyRow, S # {}
  PROVE  Mark(S) \in Nat /\ (\E q \in S : q.ts = Mark(S)) /\ \A r \in S : r.ts <= Mark(S)
<1> DEFINE T == { r.ts : r \in S }
<1>1. T \in SUBSET (0..MaxRows) /\ T # {}
  BY StampType
<1>2. \E t \in T : \A u \in T : u <= t
  BY <1>1, LargestExists, StampType
<1>3. \E t \in T : \A r \in S : r.ts <= t
  BY <1>2
<1>4. Mark(S) \in T /\ \A r \in S : r.ts <= Mark(S)
  BY <1>3 DEF Mark
<1> QED
  BY <1>1, <1>4, StampType

LEMMA MarkType == \A S \in SUBSET AnyRow : Mark(S) \in Nat
BY MarkIsNewest DEF Mark, Epoch

LEMMA Tables ==
  ASSUME RowsTyped
  PROVE  /\ bronze \subseteq AnyRow /\ rest \subseteq AnyRow /\ landed \subseteq AnyRow
         /\ staged \subseteq AnyRow /\ late \subseteq AnyRow /\ torn \subseteq AnyRow
         /\ overtaken \subseteq AnyRow /\ clock \in Nat
         /\ \A a \in Archiver : held[a] \subseteq AnyRow
BY StampType DEF RowsTyped

LEMMA InitOK == Init => RowsIInv
BY StampType DEF Init, RowsIInv, RowsTyped, OneRowPerStamp, Downstream, LandingOwes, StagingOwes, Epoch

-----------------------------------------------------------------------------
(***************************************************************************)
(* Bronze                                                                  *)
(***************************************************************************)
LEMMA DecodeOK ==
  ASSUME RowsIInv, NEW a \in Archiver, NEW rec \in Record, Decode(a, rec)
  PROVE  RowsIInv'
<1> USE DEF RowsIInv
<1> DEFINE row == RowOf(rec, clock + 1)
<1>1. /\ clock' = clock + 1 /\ clock' \in 0..MaxRows /\ clock \in Nat
      /\ held'[a] = held[a] \cup {row}
      /\ \A b \in Archiver : b # a => held'[b] = held[b]
      /\ UNCHANGED <<bronze, late, rest, landed, staged, overtaken, torn>>
  BY StampType DEF Decode, RowsTyped, loadVars, buildVars
<1>2. row \in AnyRow /\ row.ts = clock + 1
  BY <1>1 DEF AnyRow, RowOf, Stamp
<1>3. RowsTyped'
  <2>1. held' \in [Archiver -> SUBSET AnyRow]
    BY <1>2 DEF Decode, RowsTyped
  <2> QED
    BY <1>1, <2>1 DEF RowsTyped
<1>4. \A r \in bronze : r.ts \in Nat /\ r.ts <= clock
  BY StampType, Tables DEF OneRowPerStamp
<1>5. \A b \in Archiver : \A r \in held[b] : r.ts \in Nat /\ r.ts <= clock
  BY StampType, Tables DEF OneRowPerStamp
<1>6. \A b \in Archiver : \A r \in held'[b] :
        r \in held[b] \/ (b = a /\ r.ts = clock + 1)
  BY <1>1, <1>2
<1>7. OneRowPerStamp'
  <2>1. \A r \in bronze' : r.ts <= clock'
    BY <1>1, <1>4
  <2> SUFFICES ASSUME NEW b \in Archiver, NEW r \in held'[b]
               PROVE  /\ r.ts <= clock'
                      /\ \A q \in bronze' : q.ts # r.ts
                      /\ \A c \in Archiver : \A q \in held'[c] : q.ts = r.ts => b = c
    BY <2>1 DEF OneRowPerStamp
  <2>2. r.ts \in Nat /\ r.ts <= clock'
    BY <1>1, <1>5, <1>6
  <2>3. \A q \in bronze' : q.ts # r.ts
    BY <1>1, <1>4, <1>6 DEF OneRowPerStamp
  <2>4. ASSUME NEW c \in Archiver, NEW q \in held'[c], q.ts = r.ts
        PROVE  b = c
    BY <1>1, <1>5, <1>6, <2>4 DEF OneRowPerStamp
  <2> QED
    BY <2>2, <2>3, <2>4
<1>8. Downstream' /\ LandingOwes' /\ StagingOwes'
  BY <1>1 DEF Downstream, LandingOwes, StagingOwes
<1> QED
  BY <1>3, <1>7, <1>8

\* A row that is appended below what a load took is older than a row of bronze:
\* it is late.
LEMMA FlushOK ==
  ASSUME RowsIInv, NEW a \in Archiver, Flush(a)
  PROVE  RowsIInv'
<1> USE DEF RowsIInv
<1>1. /\ bronze' = bronze \cup held[a]
      /\ late' = late \cup { r \in held[a] : r.ts < Mark(bronze) }
      /\ held'[a] = {}
      /\ \A b \in Archiver : b # a => held'[b] = held[b]
      /\ held' \in [Archiver -> SUBSET AnyRow]
      /\ UNCHANGED <<clock, rest, landed, staged, overtaken, torn>>
  BY DEF Flush, RowsTyped, loadVars, buildVars
<1>2. RowsTyped'
  BY <1>1, Tables DEF RowsTyped
<1>3. OneRowPerStamp'
  BY <1>1 DEF OneRowPerStamp
<1>4. Downstream' /\ StagingOwes'
  BY <1>1 DEF Downstream, StagingOwes
<1>5. LandingOwes'
  <2> SUFFICES ASSUME NEW r \in bronze', NEW q \in landed \cup rest, r.ts <= q.ts
               PROVE  r \in landed \cup rest \cup late' \cup torn
    BY <1>1 DEF LandingOwes
  <2>1. CASE r \in bronze
    BY <1>1, <2>1 DEF LandingOwes
  <2>2. CASE r \in held[a]
    <3>1. q \in bronze /\ q.ts # r.ts
      BY <2>2 DEF Downstream, OneRowPerStamp
    <3>2. q.ts \in Nat /\ r.ts \in Nat /\ Mark(bronze) \in Nat /\ q.ts <= Mark(bronze)
      BY <2>2, <3>1, StampType, Tables, MarkIsNewest
    <3>3. r.ts < Mark(bronze)
      BY <3>1, <3>2
    <3> QED
      BY <1>1, <2>2, <3>3
  <2> QED
    BY <1>1, <2>1, <2>2
<1> QED
  BY <1>2, <1>3, <1>4, <1>5

-----------------------------------------------------------------------------
(***************************************************************************)
(* Landing                                                                 *)
(***************************************************************************)
\* What is not asked for lies below a row that has landed, and what is asked
\* for is newer than anything staged.
LEMMA LoadOK ==
  ASSUME RowsIInv, Load
  PROVE  RowsIInv'
<1> USE DEF RowsIInv
<1>1. /\ rest = {} /\ rest' \subseteq bronze
      /\ UNCHANGED <<clock, held, bronze, late, landed, staged, overtaken, torn>>
  BY DEF Load, Newer, bronzeVars, buildVars
<1>2. RowsTyped'
  BY <1>1, Tables DEF RowsTyped
<1>3. OneRowPerStamp' /\ Downstream'
  BY <1>1 DEF OneRowPerStamp, Downstream
<1>4. CASE landed = {}
  <2>1. rest' = bronze /\ staged = {}
    BY <1>4 DEF Load, Downstream
  <2>2. LandingOwes' /\ StagingOwes'
    BY <1>1, <1>4, <2>1 DEF LandingOwes, StagingOwes
  <2> QED
    BY <1>2, <1>3, <2>2
<1>5. CASE landed # {}
  <2>1. rest' = { r \in bronze : r.ts > Mark(landed) }
    BY <1>5 DEF Load, Newer, Watermark
  <2>2. PICK m \in landed : m.ts = Mark(landed)
    BY <1>5, Tables, MarkIsNewest
  <2>3. \A q \in landed : q.ts \in Nat /\ q.ts <= m.ts
    BY <1>5, <2>2, Tables, StampType, MarkIsNewest
  <2>4. \A r \in bronze : r.ts \in Nat
    BY Tables, StampType
  <2>5. \A r \in bronze : r \in rest' \/ r.ts <= m.ts
    BY <2>1, <2>2, <2>3, <2>4
  <2>6. LandingOwes'
    BY <1>1, <2>2, <2>5 DEF LandingOwes
  <2>7. \A r \in rest' : \A q \in staged : ~(r.ts <= q.ts)
    BY <2>1, <2>2, <2>3, <2>4 DEF Downstream
  <2>8. StagingOwes'
    BY <1>1, <2>7 DEF StagingOwes
  <2> QED
    BY <1>2, <1>3, <2>6, <2>8
<1> QED
  BY <1>4, <1>5

\* A block goes from what the load holds to what has landed; of a failed one, what
\* did not arrive is torn.
LEMMA InsertOK ==
  ASSUME RowsIInv, Insert \/ InsertFails
  PROVE  RowsIInv'
<1> USE DEF RowsIInv
<1>1. /\ UNCHANGED <<clock, held, bronze, late, staged, overtaken>>
      /\ landed \subseteq landed' /\ rest' \subseteq rest
      /\ landed' \cup rest' \subseteq landed \cup rest
      /\ torn \subseteq torn' /\ torn' \subseteq torn \cup rest
      /\ rest \subseteq landed' \cup rest' \cup torn'
  BY DEF Insert, InsertFails, Blocks, kSubset, bronzeVars, buildVars
<1>2. RowsTyped'
  BY <1>1, Tables DEF RowsTyped
<1>3. OneRowPerStamp' /\ Downstream'
  BY <1>1 DEF OneRowPerStamp, Downstream
<1>4. LandingOwes'
  BY <1>1 DEF LandingOwes
<1>5. StagingOwes'
  <2>1. \A r \in landed' : r \in landed \/ r \in rest
    BY <1>1
  <2> QED
    BY <1>1, <2>1 DEF StagingOwes
<1> QED
  BY <1>2, <1>3, <1>4, <1>5

-----------------------------------------------------------------------------
(***************************************************************************)
(* dbt build                                                               *)
(***************************************************************************)
\* Staging selects what is newer than its newest row; what a load holds back at
\* that moment is overtaken, and what a failed insert leaves behind is torn.
LEMMA StagingOK ==
  ASSUME RowsIInv, BuildStaging \/ StagingFails
  PROVE  RowsIInv'
<1> USE DEF RowsIInv
<1>1. /\ UNCHANGED <<clock, held, bronze, late, rest, landed>>
      /\ overtaken' = overtaken \cup rest
      /\ staged \subseteq staged' /\ staged' \subseteq landed
      /\ torn \subseteq torn' /\ torn' \subseteq torn \cup landed
      /\ New \subseteq staged' \cup torn'
  BY DEF BuildStaging, StagingFails, Staged, New, Newer, bronzeVars, loadVars, Downstream
<1>2. RowsTyped'
  BY <1>1, Tables DEF RowsTyped
<1>3. OneRowPerStamp' /\ Downstream'
  BY <1>1 DEF OneRowPerStamp, Downstream
<1>4. LandingOwes'
  BY <1>1 DEF LandingOwes
<1>5. ASSUME NEW r \in landed
      PROVE  r \in staged' \cup overtaken' \cup torn'
  <2>1. r.ts \in Nat /\ r.ts >= 1
    BY Tables, StampType
  <2>2. CASE staged = {} \/ r.ts > Mark(staged)
    <3>1. r \in New
      BY <2>1, <2>2 DEF New, Newer, Mark, Epoch
    <3> QED
      BY <1>1, <3>1
  <2>3. CASE staged # {} /\ ~(r.ts > Mark(staged))
    <3>1. PICK m \in staged : m.ts = Mark(staged) /\ Mark(staged) \in Nat
      BY <2>3, Tables, MarkIsNewest
    <3>2. r.ts <= m.ts
      BY <2>1, <2>3, <3>1
    <3> QED
      BY <1>1, <3>2 DEF StagingOwes
  <2> QED
    BY <2>2, <2>3
<1>6. StagingOwes'
  BY <1>1, <1>5 DEF StagingOwes
<1> QED
  BY <1>2, <1>3, <1>4, <1>6

-----------------------------------------------------------------------------
(***************************************************************************)
(* The theorems                                                            *)
(***************************************************************************)
LEMMA MartOK ==
  ASSUME RowsIInv, BuildMart \/ MartFails \/ TestFails \/ UNCHANGED vars
  PROVE  RowsIInv'
<1>1. UNCHANGED <<clock, held, bronze, late, rest, landed, staged, overtaken, torn>>
  BY DEF BuildMart, MartFails, TestFails, vars, bronzeVars, loadVars, buildVars
<1> QED
  BY <1>1 DEF RowsIInv, RowsTyped, OneRowPerStamp, Downstream, LandingOwes, StagingOwes

LEMMA StepOK == RowsIInv /\ [Next]_vars => RowsIInv'
BY DecodeOK, FlushOK, LoadOK, InsertOK, StagingOK, MartOK DEF Next

\* The invariant the two theorems rest on holds in every reachable state.
THEOREM RowsInductive == Spec => []RowsIInv
BY InitOK, StepOK, PTL DEF Spec

\* A row below the watermark of the landing table that never crossed was
\* appended late or given up by a failed insert, for any number of archivers
\* and any size of blocks (landing.py:39-52).
THEOREM LandingSkips == Spec => []SkippedByLandingForACause
<1>1. RowsIInv => SkippedByLandingForACause
  <2> SUFFICES ASSUME RowsIInv, rest = {}, NEW r \in bronze, r.ts <= Mark(landed)
               PROVE  r \in landed \cup late \cup torn
    BY DEF SkippedByLandingForACause
  <2>1. RowsTyped
    BY DEF RowsIInv
  <2>2. landed # {}
    BY <2>1, Tables, StampType DEF Mark, Epoch
  <2>3. PICK m \in landed : m.ts = Mark(landed)
    BY <2>1, <2>2, Tables, MarkIsNewest
  <2> QED
    BY <2>3 DEF RowsIInv, LandingOwes
<1> QED
  BY <1>1, RowsInductive, PTL

\* A landed row below the watermark of staging that is missing from it was
\* overtaken by a build during its load, or given up by a failed insert
\* (stg_posts.sql:31).
THEOREM StagingSkips == Spec => []SkippedByStagingForACause
<1>1. RowsIInv => SkippedByStagingForACause
  <2> SUFFICES ASSUME RowsIInv, NEW r \in landed, r.ts <= Mark(staged)
               PROVE  r \in staged \cup overtaken \cup torn
    BY DEF SkippedByStagingForACause
  <2>1. RowsTyped
    BY DEF RowsIInv
  <2>2. staged # {}
    BY <2>1, Tables, StampType DEF Mark, Epoch
  <2>3. PICK m \in staged : m.ts = Mark(staged)
    BY <2>1, <2>2, Tables, MarkIsNewest
  <2> QED
    BY <2>3 DEF RowsIInv, StagingOwes
<1> QED
  BY <1>1, RowsInductive, PTL

-----------------------------------------------------------------------------
(***************************************************************************)
(* The mart: cells and aggregates                                          *)
(***************************************************************************)
LEMMA CellsOfRow == \A r : Cells({r}) = {r.day} \X Groups(r)
BY DEF Cells

LEMMA RowHasCell == \A r : \E c : c \in Cells({r})
<1> SUFFICES ASSUME NEW r PROVE \E c : c \in Cells({r})
  OBVIOUS
<1>1. PICK g : g \in Groups(r)
  BY DEF Groups
<1>2. <<r.day, g>> \in {r.day} \X Groups(r)
  BY <1>1
<1> QED
  BY <1>2, CellsOfRow

LEMMA CellHasDay == \A r : \A c \in Cells({r}) : c[1] = r.day
<1> SUFFICES ASSUME NEW r, NEW c \in Cells({r}) PROVE c[1] = r.day
  OBVIOUS
<1>1. c \in {r.day} \X Groups(r)
  BY CellsOfRow
<1> QED
  BY <1>1

LEMMA CellsOfRows == \A S : \A c : c \in Cells(S) <=> \E r \in S : c \in Cells({r})
BY CellsOfRow DEF Cells

\* An aggregate counts a key where one of its rows puts it.
LEMMA AggregateCounts ==
  \A S : \A c, k : k \in Counted(Aggregate(S), c) <=> \E r \in S : r.key = k /\ c \in Cells({r})
<1> SUFFICES ASSUME NEW S, NEW c, NEW k
             PROVE  k \in Counted(Aggregate(S), c) <=> \E r \in S : r.key = k /\ c \in Cells({r})
  OBVIOUS
<1>1. DOMAIN Aggregate(S) = Cells(S)
  BY DEF Aggregate
<1>2. CASE c \in Cells(S)
  <2>1. Aggregate(S)[c] = { r.key : r \in { q \in S : c \in Cells({q}) } }
    BY <1>2 DEF Aggregate
  <2> QED
    BY <1>1, <1>2, <2>1 DEF Counted
<1>3. CASE c \notin Cells(S)
  BY <1>1, <1>3, CellsOfRows DEF Counted
<1> QED
  BY <1>2, <1>3

\* Some cells of one table over another.
LEMMA CountedOver ==
  ASSUME NEW f, NEW part, NEW g, part \subseteq DOMAIN f, NEW c
  PROVE  Counted(Upsert(Restrict(f, part), g), c) =
           IF c \in part THEN Counted(f, c) ELSE Counted(g, c)
<1>1. DOMAIN Restrict(f, part) = part /\ \A x \in part : Restrict(f, part)[x] = f[x]
  BY DEF Restrict
<1>2. DOMAIN Upsert(Restrict(f, part), g) = part \cup DOMAIN g
  BY <1>1 DEF Upsert
<1>3. CASE c \in part
  BY <1>1, <1>2, <1>3 DEF Counted, Upsert
<1>4. CASE c \notin part
  BY <1>1, <1>2, <1>4 DEF Counted, Upsert
<1> QED
  BY <1>3, <1>4

-----------------------------------------------------------------------------
(***************************************************************************)
(* Newest versions and newest days                                         *)
(***************************************************************************)
LEMMA FinalOfKey ==
  ASSUME NEW S \in SUBSET AnyRow, NEW r \in S
  PROVE  \E q \in Final(S) : q.key = r.key
<1> DEFINE V == { q \in S : q.key = r.key }
           T == { q.ts : q \in V }
<1>1. T \in SUBSET (0..MaxRows) /\ T # {}
  BY StampType
<1>2. PICK t \in T : \A u \in T : u <= t
  BY <1>1, LargestExists, StampType
<1>3. PICK q \in V : q.ts = t
  BY <1>2
<1>4. \A p \in S : p.key = q.key => p.ts <= q.ts
  BY <1>2, <1>3
<1> QED
  BY <1>3, <1>4 DEF Final

LEMMA FinalIsPart == \A S : Final(S) \subseteq S
BY DEF Final

LEMMA DayType ==
  /\ DayModulus \in Nat /\ DayModulus > 2
  /\ \A r \in AnyRow : r.day \in 0..DayModulus - 1
BY WarehouseAssumption DEF AnyRow, RowOf

LEMMA LastDayIsNewest ==
  ASSUME NEW table, DOMAIN table \subseteq Cells(AnyRow)
  PROVE  /\ LastDay(table) \in 0..DayModulus - 1
         /\ \A c \in DOMAIN table : c[1] \in 0..DayModulus - 1 /\ c[1] <= LastDay(table)
         /\ LastDay(table) # 0 => \E c \in DOMAIN table : c[1] = LastDay(table)
<1>1. \A c \in DOMAIN table : c[1] \in 0..DayModulus - 1
  BY CellsOfRows, CellHasDay, DayType
<1>2. CASE Days(table) = {}
  BY <1>1, <1>2, DayType DEF LastDay, Epoch, Days
<1>3. CASE Days(table) # {}
  <2>1. Days(table) \in SUBSET (0..DayModulus - 1)
    BY <1>1 DEF Days
  <2>2. DayModulus - 1 \in Nat
    BY DayType
  <2>3. \E d \in Days(table) : \A e \in Days(table) : e <= d
    BY <1>3, <2>1, <2>2, LargestExists
  <2>4. LastDay(table) \in Days(table) /\ \A e \in Days(table) : e <= LastDay(table)
    BY <1>3, <2>3 DEF LastDay
  <2> QED
    BY <1>1, <2>1, <2>4 DEF Days
<1> QED
  BY <1>2, <1>3

LEMMA WindowOpens ==
  ASSUME NEW table, LastDay(table) \in 0..DayModulus - 1, LastDay(table) >= 2
  PROVE  Window(table) = LastDay(table) - 2
<1> DEFINE d == LastDay(table) - 2
<1>1. d \in 0..DayModulus - 1 /\ DayModulus \in Nat /\ DayModulus > 0
  BY DayType
<1>2. LastDay(table) + DayModulus - 2 = d + DayModulus
  BY DayType
<1>3. (d + DayModulus) % DayModulus = d
  <2> HIDE DEF d
  <2> QED
    BY <1>1
<1> QED
  BY <1>2, <1>3 DEF Window

-----------------------------------------------------------------------------
(***************************************************************************)
(* Steps                                                                   *)
(***************************************************************************)
LEMMA KeyType == \A r \in AnyRow : r.key \in Key
BY DEF AnyRow, RowOf, Key

\* The rows of a key that was not moved are in the same cells.
LEMMA SameCells ==
  ASSUME RowsTyped, NEW q \in staged, NEW r \in staged, q.key = r.key, r.key \notin Moved
  PROVE  q.day = r.day /\ Cells({q}) = Cells({r})
<1>1. Cells({q}) = Cells({r})
  BY KeyType, Tables DEF Moved
<1>2. PICK c : c \in Cells({r})
  BY RowHasCell
<1> QED
  BY <1>1, <1>2, CellHasDay

LEMMA MartInitOK == Init => MartIInv
<1> SUFFICES ASSUME Init PROVE MartIInv
  OBVIOUS
<1>1. DOMAIN mart = {}
  BY DEF Init
<1>2. TypeOK
  BY <1>1, InitOK DEF Init, TypeOK, RowsIInv
<1> QED
  BY <1>1, <1>2 DEF Init, MartIInv, CountedFromStaged, WindowInPlace, PastIsCounted, BuiltIsCounted

\* Archivers and loads touch neither staging nor the mart.
LEMMA ElsewhereOK ==
  ASSUME MartIInv, RowsTyped', UNCHANGED buildVars
  PROVE  MartIInv'
BY DEF MartIInv, TypeOK, CountedFromStaged, WindowInPlace, PastIsCounted, BuiltIsCounted,
       buildVars, Excused, Moved, InMart, Counted

LEMMA TestFailsOK ==
  ASSUME MartIInv, RowsTyped', TestFails
  PROVE  MartIInv'
BY DEF MartIInv, TypeOK, CountedFromStaged, WindowInPlace, PastIsCounted, BuiltIsCounted,
       TestFails, Excused, Moved, InMart, Counted

\* What is staged for a day before the window is tardy, and what was excused
\* stays excused.
LEMMA MartStagingOK ==
  ASSUME MartIInv, RowsTyped, RowsTyped', BuildStaging \/ StagingFails
  PROVE  MartIInv'
<1> USE DEF MartIInv
<1>1. PICK rows \in SUBSET New : Staged(rows)
  BY DEF BuildStaging, StagingFails
<1>2. /\ UNCHANGED <<mart, created, cut, wrapped>>
      /\ staged' = staged \cup rows
      /\ tardy' = tardy \cup { r.key : r \in { q \in rows : created /\ q.day < LastDay(mart) - 2 } }
      /\ current' = FALSE
      /\ building' \in BOOLEAN
  BY <1>1 DEF BuildStaging, StagingFails, Staged, TypeOK
<1>3. rows \subseteq AnyRow
  BY Tables DEF New, Newer
<1>4. TypeOK'
  BY <1>2, <1>3, KeyType DEF TypeOK
<1>5. CountedFromStaged'
  BY <1>2 DEF CountedFromStaged
<1>6. WindowInPlace' /\ BuiltIsCounted'
  BY <1>2 DEF WindowInPlace, BuiltIsCounted
<1>7. Excused \subseteq Excused'
  <2>1. staged \subseteq staged' /\ tardy \subseteq tardy' /\ cut' = cut
    BY <1>2
  <2>2. Moved \subseteq Moved'
    BY <2>1 DEF Moved
  <2> QED
    BY <2>1, <2>2 DEF Excused
<1>8. PastIsCounted'
  <2> SUFFICES ASSUME created, ~wrapped, NEW r \in staged', r.day < LastDay(mart) - 2
               PROVE  r.key \in Excused' \/ InMart(r)'
    BY <1>2 DEF PastIsCounted
  <2>1. CASE r \in staged
    BY <1>2, <1>7, <2>1 DEF PastIsCounted, InMart, Counted
  <2>2. CASE r \in rows
    BY <1>2, <2>2 DEF Excused
  <2> QED
    BY <1>2, <2>1, <2>2
<1> QED
  BY <1>4, <1>5, <1>6, <1>8

-----------------------------------------------------------------------------
(***************************************************************************)
(* A mart insert                                                           *)
(***************************************************************************)
LEMMA SelectedIsPart ==
  ASSUME MartIInv
  PROVE  /\ Selected \subseteq Final(staged) /\ Final(staged) \subseteq staged
         /\ staged \subseteq AnyRow /\ DOMAIN Aggregate(Selected) = Cells(Selected)
         /\ Cells(Selected) \subseteq Cells(AnyRow)
<1>1. /\ Selected \subseteq Final(staged) /\ Final(staged) \subseteq staged
      /\ staged \subseteq AnyRow
  BY Tables, FinalIsPart DEF Selected, Recent, MartIInv, TypeOK
<1>2. DOMAIN Aggregate(Selected) = Cells(Selected)
  BY DEF Aggregate
<1> QED
  BY <1>1, <1>2, CellsOfRows

\* A row the window still reaches is selected, in the newest version of its
\* key: with every cell of that version inserted it is counted.
LEMMA SelectedIsCounted ==
  ASSUME MartIInv, NEW part \in SUBSET Cells(Selected),
         mart' = Upsert(Restrict(Aggregate(Selected), part), mart),
         NEW r \in staged, created => r.day >= Window(mart),
         r.key \notin Moved,
         \A q \in Selected : q.key = r.key => Cells({q}) \subseteq part
  PROVE  InMart(r)'
<1>1. PICK q \in Final(staged) : q.key = r.key
  BY FinalOfKey, SelectedIsPart
<1>2. q.day = r.day /\ Cells({q}) = Cells({r})
  BY <1>1, SameCells, SelectedIsPart DEF MartIInv, TypeOK
<1>3. q \in Selected
  BY <1>1, <1>2 DEF Selected, Recent
<1>4. ASSUME NEW c \in Cells({r})
      PROVE  r.key \in Counted(mart', c)
  <2>1. c \in part
    BY <1>1, <1>2, <1>3, <1>4
  <2>2. r.key \in Counted(Aggregate(Selected), c)
    BY <1>1, <1>2, <1>3, <1>4, AggregateCounts
  <2> QED
    BY <2>1, <2>2, CountedOver, SelectedIsPart
<1> QED
  BY <1>4 DEF InMart, Counted

\* What the window has left behind keeps its cells.
LEMMA PastIsKept ==
  ASSUME MartIInv, NEW part \in SUBSET Cells(Selected),
         mart' = Upsert(Restrict(Aggregate(Selected), part), mart),
         NEW r \in staged, created, r.day < Window(mart), InMart(r)
  PROVE  InMart(r)'
<1>1. ASSUME NEW c \in Cells({r})
      PROVE  r.key \in Counted(mart', c)
  <2>1. c[1] = r.day
    BY <1>1, CellHasDay
  <2>2. ASSUME c \in Cells(Selected)
        PROVE  FALSE
    <3>1. PICK q \in Selected : c \in Cells({q})
      BY <2>2, CellsOfRows
    <3>2. q.day = r.day /\ q.day >= Window(mart)
      BY <2>1, <3>1, CellHasDay DEF Selected, Recent
    <3>3. Window(mart) \in Int /\ r.day \in Int
      BY SelectedIsPart, DayType, LastDayIsNewest DEF Window, MartIInv, TypeOK
    <3> QED
      BY <3>2, <3>3
  <2>3. c \notin part /\ part \subseteq DOMAIN Aggregate(Selected)
    BY <2>2, SelectedIsPart
  <2>4. Counted(mart', c) = Counted(mart, c)
    BY <2>3, CountedOver
  <2> QED
    BY <1>1, <2>4 DEF InMart
<1> QED
  BY <1>1 DEF InMart, Counted

\* Whatever part of its cells an insert leaves, every row of staging is counted
\* or excused after it.
LEMMA MartInsert ==
  ASSUME MartIInv, NEW part \in SUBSET Cells(Selected),
         mart' = Upsert(Restrict(Aggregate(Selected), part), mart),
         UNCHANGED <<staged, tardy>>,
         cut' = cut \cup { r.key : r \in { q \in Selected : ~(Cells({q}) \subseteq part) } }
  PROVE  /\ DOMAIN mart' \subseteq Cells(AnyRow)
         /\ LastDay(mart') \in Nat
         /\ \A c \in DOMAIN mart' : mart'[c] \subseteq Key
         /\ cut' \subseteq Key
         /\ CountedFromStaged'
         /\ ~wrapped => \A r \in staged' : r.key \in Excused' \/ InMart(r)'
<1> USE DEF MartIInv
<1>1. DOMAIN mart' = part \cup DOMAIN mart
  <2> DEFINE cells == Restrict(Aggregate(Selected), part)
  <2>1. DOMAIN cells = part
    BY DEF Restrict
  <2> HIDE DEF cells
  <2> QED
    BY <2>1 DEF Upsert, cells
<1>2. DOMAIN mart' \subseteq Cells(AnyRow)
  BY <1>1, SelectedIsPart DEF TypeOK
<1>3. LastDay(mart') \in Nat
  BY <1>2, LastDayIsNewest, DayType
<1>4. ASSUME NEW c \in DOMAIN mart', NEW k \in mart'[c]
      PROVE  \E r \in staged' : r.key = k /\ c \in Cells({r})
  <2>1. k \in Counted(mart', c)
    BY <1>4 DEF Counted
  <2>2. CASE c \in part
    <3>1. k \in Counted(Aggregate(Selected), c)
      BY <2>1, <2>2, CountedOver, SelectedIsPart
    <3>2. \E r \in Selected : r.key = k /\ c \in Cells({r})
      BY <3>1, AggregateCounts
    <3> QED
      BY <3>2, SelectedIsPart
  <2>3. CASE c \notin part
    <3>1. k \in Counted(mart, c)
      BY <2>1, <2>3, CountedOver, SelectedIsPart
    <3> QED
      BY <3>1 DEF Counted, CountedFromStaged
  <2> QED
    BY <2>2, <2>3
<1>5. CountedFromStaged'
  BY <1>4 DEF CountedFromStaged
<1>6. ASSUME NEW c \in DOMAIN mart', NEW k \in mart'[c]
      PROVE  k \in Key
  <2>1. PICK r \in staged' : r.key = k
    BY <1>4, <1>6
  <2> QED
    BY <2>1, KeyType, SelectedIsPart
<1>7. cut' \subseteq Key
  BY KeyType, SelectedIsPart DEF TypeOK
<1>8. Moved' = Moved
  BY DEF Moved
<1>9. ASSUME ~wrapped, NEW r \in staged, r.key \notin Excused'
      PROVE  InMart(r)'
  <2>1. r.key \notin Excused /\ r.key \notin Moved /\ r.key \notin cut'
    BY <1>8, <1>9 DEF Excused
  <2>2. \A q \in Selected : q.key = r.key => Cells({q}) \subseteq part
    BY <2>1
  <2>3. CASE created => r.day >= Window(mart)
    BY <2>1, <2>2, <2>3, SelectedIsCounted
  <2>4. CASE created /\ ~(r.day >= Window(mart))
    <3>1. LastDay(mart) >= 2 /\ LastDay(mart) \in 0..DayModulus - 1
      BY <1>9, <2>4, LastDayIsNewest DEF WindowInPlace, TypeOK
    <3>2. Window(mart) = LastDay(mart) - 2 /\ r.day \in Int /\ LastDay(mart) \in Int
      BY <3>1, WindowOpens, SelectedIsPart, DayType
    <3>3. r.day < Window(mart) /\ r.day < LastDay(mart) - 2
      BY <2>4, <3>2
    <3>4. InMart(r)
      BY <1>9, <2>1, <2>4, <3>3 DEF PastIsCounted
    <3> QED
      BY <2>4, <3>3, <3>4, PastIsKept
  <2> QED
    BY <2>3, <2>4
<1> QED
  BY <1>2, <1>3, <1>5, <1>6, <1>7, <1>9

\* A build inserts all the cells it selected.
LEMMA BuildMartOK ==
  ASSUME MartIInv, RowsTyped', BuildMart
  PROVE  MartIInv'
<1> USE DEF MartIInv
<1> DEFINE part == Cells(Selected)
<1>1. /\ UNCHANGED <<staged, tardy, cut>>
      /\ created' = TRUE /\ building' = FALSE /\ current' = TRUE
      /\ wrapped' = (wrapped \/ LastDay(mart') < 2)
  BY DEF BuildMart
<1>2. mart' = Upsert(Restrict(Aggregate(Selected), part), mart)
  <2>1. Restrict(Aggregate(Selected), part) = Aggregate(Selected)
    BY DEF Restrict, Aggregate
  <2> QED
    BY <2>1 DEF BuildMart
<1>3. cut' = cut \cup { r.key : r \in { q \in Selected : ~(Cells({q}) \subseteq part) } }
  <2>1. \A q \in Selected : Cells({q}) \subseteq part
    BY CellsOfRows
  <2> QED
    BY <1>1, <2>1
<1>4. /\ DOMAIN mart' \subseteq Cells(AnyRow)
      /\ LastDay(mart') \in Nat
      /\ \A c \in DOMAIN mart' : mart'[c] \subseteq Key
      /\ cut' \subseteq Key
      /\ CountedFromStaged'
      /\ ~wrapped => \A r \in staged' : r.key \in Excused' \/ InMart(r)'
  <2>1. part \in SUBSET Cells(Selected)
    OBVIOUS
  <2> HIDE DEF part
  <2> QED
    BY <1>1, <1>2, <1>3, <2>1, MartInsert
<1>5. TypeOK'
  BY <1>1, <1>4 DEF TypeOK
<1>6. WindowInPlace'
  <2>1. ~wrapped' => ~(LastDay(mart') < 2)
    BY <1>1, Zenon
  <2>2. ~(LastDay(mart') < 2) => LastDay(mart') >= 2
    BY <1>4
  <2> QED
    BY <1>1, <2>1, <2>2, Zenon DEF WindowInPlace
<1>7. PastIsCounted' /\ BuiltIsCounted'
  BY <1>1, <1>4 DEF PastIsCounted, BuiltIsCounted
<1> QED
  BY <1>4, <1>5, <1>6, <1>7

\* An insert that fails leaves some of the cells, and cuts the keys of the
\* others; no build has just succeeded.
LEMMA MartFailsOK ==
  ASSUME MartIInv, RowsTyped', MartFails
  PROVE  MartIInv'
<1> USE DEF MartIInv
<1>1. PICK part \in SUBSET Cells(Selected) :
        /\ mart' = Upsert(Restrict(Aggregate(Selected), part), mart)
        /\ created' \in BOOLEAN
        /\ cut' = cut \cup { r.key : r \in { q \in Selected : ~(Cells({q}) \subseteq part) } }
  BY DEF MartFails, TypeOK
<1>2. /\ UNCHANGED <<staged, tardy, current>>
      /\ building /\ building' = FALSE
      /\ wrapped' = (wrapped \/ (created' /\ LastDay(mart') < 2))
  BY DEF MartFails
<1>3. /\ DOMAIN mart' \subseteq Cells(AnyRow)
      /\ LastDay(mart') \in Nat
      /\ \A c \in DOMAIN mart' : mart'[c] \subseteq Key
      /\ cut' \subseteq Key
      /\ CountedFromStaged'
      /\ ~wrapped => \A r \in staged' : r.key \in Excused' \/ InMart(r)'
  BY <1>1, <1>2, MartInsert
<1>4. TypeOK'
  BY <1>1, <1>2, <1>3 DEF TypeOK
<1>5. WindowInPlace'
  <2>1. created' /\ ~wrapped' => ~(LastDay(mart') < 2)
    BY <1>2, Zenon
  <2>2. ~(LastDay(mart') < 2) => LastDay(mart') >= 2
    BY <1>3
  <2>3. ~current'
    BY <1>2 DEF WindowInPlace
  <2> QED
    BY <1>2, <2>1, <2>2, <2>3, Zenon DEF WindowInPlace
<1>6. PastIsCounted' /\ BuiltIsCounted'
  BY <1>2, <1>3 DEF PastIsCounted, BuiltIsCounted
<1> QED
  BY <1>3, <1>4, <1>5, <1>6

LEMMA MartStepOK ==
  ASSUME RowsIInv, RowsIInv', MartIInv, [Next]_vars
  PROVE  MartIInv'
<1>1. RowsTyped /\ RowsTyped'
  BY DEF RowsIInv
<1>2. CASE UNCHANGED buildVars
  BY <1>1, <1>2, ElsewhereOK
<1>3. CASE BuildStaging \/ StagingFails
  BY <1>1, <1>3, MartStagingOK
<1>4. CASE BuildMart
  BY <1>1, <1>4, BuildMartOK
<1>5. CASE MartFails
  BY <1>1, <1>5, MartFailsOK
<1>6. CASE TestFails
  BY <1>1, <1>6, TestFailsOK
<1>7. \/ UNCHANGED buildVars \/ BuildStaging \/ StagingFails
      \/ BuildMart \/ MartFails \/ TestFails
  BY DEF Next, vars, Decode, Flush, Load, Insert, InsertFails
<1> QED
  BY <1>2, <1>3, <1>4, <1>5, <1>6, <1>7

-----------------------------------------------------------------------------
(***************************************************************************)
(* The theorems                                                            *)
(***************************************************************************)
\* The invariant of landing and staging and the one of the mart hold together
\* in every reachable state.
THEOREM Inductive == Spec => []IInv
<1>1. Init => IInv
  BY InitOK, MartInitOK DEF IInv
<1>2. IInv /\ [Next]_vars => IInv'
  BY StepOK, MartStepOK DEF IInv
<1> QED
  BY <1>1, <1>2, PTL DEF Spec

\* Every table of the warehouse keeps its type.
THEOREM TypeCorrect == Spec => []TypeOK
<1>1. IInv => TypeOK
  BY DEF IInv, MartIInv
<1> QED
  BY <1>1, Inductive, PTL

\* However late, often and in whatever order records are staged, and wherever
\* builds fail, the trailing window gives what a full rebuild would, but for the
\* keys it excuses (mart_*.sql:2-4), for any calendar and any records.
THEOREM WindowIsARebuild == Spec => []MartIsTheAggregate
<1>1. IInv => MartIsTheAggregate
  <2> SUFFICES ASSUME IInv, current, ~wrapped, NEW c, NEW k \in Key, k \notin Excused
               PROVE  k \in Counted(Aggregate(Final(staged)), c) <=> k \in Counted(mart, c)
    BY DEF MartIsTheAggregate
  <2> USE DEF IInv, MartIInv
  <2>1. staged \subseteq AnyRow /\ RowsTyped /\ k \notin Moved
    BY Tables DEF TypeOK, Excused
  <2>2. ASSUME k \in Counted(Aggregate(Final(staged)), c)
        PROVE  k \in Counted(mart, c)
    <3>1. PICK r \in Final(staged) : r.key = k /\ c \in Cells({r})
      BY <2>2, AggregateCounts
    <3>2. InMart(r)
      BY <3>1, FinalIsPart DEF BuiltIsCounted
    <3> QED
      BY <3>1, <3>2 DEF InMart
  <2>3. ASSUME k \in Counted(mart, c)
        PROVE  k \in Counted(Aggregate(Final(staged)), c)
    <3>1. PICK r \in staged : r.key = k /\ c \in Cells({r})
      BY <2>3 DEF Counted, CountedFromStaged
    <3>2. PICK q \in Final(staged) : q.key = k
      BY <2>1, <3>1, FinalOfKey
    <3>3. q \in staged /\ Cells({q}) = Cells({r})
      BY <2>1, <3>1, <3>2, FinalIsPart, SameCells
    <3> QED
      BY <3>1, <3>2, <3>3, AggregateCounts
  <2> QED
    BY <2>2, <2>3
<1> QED
  BY <1>1, Inductive, PTL
=============================================================================

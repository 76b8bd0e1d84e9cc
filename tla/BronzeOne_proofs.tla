--------------------------- MODULE BronzeOne_proofs ---------------------------
(***************************************************************************)
(* Proofs about Bronze when nobody materializes two partition keys of the  *)
(* asset at once (OneRun): how far the group moves back, and how many      *)
(* archived rows a crash can make it read again.                           *)
(***************************************************************************)
EXTENDS Bronze_proofs, FiniteSetTheorems, WellFoundedInduction

-----------------------------------------------------------------------------
(***************************************************************************)
(* Positions and commits                                                   *)
(***************************************************************************)
LEMMA OneInitOK == Init => PositionIInv
BY Constants DEF Init, PositionIInv, IdleHoldsNothing, Assigned, CommittedIsRead, BatchIsLatest,
   HandIsLatest

\* Steps that neither read, commit, clear a batch nor move partitions.
LEMMA OneQuiet ==
  ASSUME PositionIInv, UNCHANGED <<log, committed, owner, position, batch, hand>>,
         \A r \in Run : pc'[r] = "off" \/ rejoin' => pc[r] = "off" \/ rejoin,
         \A r \in Run : pc'[r] = "quarantine" => pc[r] = "quarantine"
  PROVE  PositionIInv'
BY DEF PositionIInv, IdleHoldsNothing, Assigned, CommittedIsRead, BatchIsLatest, HandIsLatest, IsRow

LEMMA OneRebalanceOK ==
  ASSUME KeptIInv, PositionIInv, Rebalance
  PROVE  PositionIInv'
<1> USE DEF PositionIInv
<1>1. \A r \in Run : batch[r] = {} /\ Assigned(r) = {}
  BY DEF Rebalance, IdleHoldsNothing
<1>2. UNCHANGED <<log, pc, committed, batch, hand>> /\ ~rejoin' /\ position' = committed
  BY DEF Rebalance, runVars
<1>3. IdleHoldsNothing'
  BY <1>1, <1>2 DEF Rebalance, IdleHoldsNothing, Assigned, Live
<1>4. \A p \in Partition : committed[p] \in Nat
  BY Constants DEF KeptIInv, TypeOK
<1>5. CommittedIsRead'
  BY <1>2, <1>4 DEF CommittedIsRead
<1>6. BatchIsLatest'
  BY <1>1, <1>2 DEF BatchIsLatest
<1>7. HandIsLatest'
  BY <1>1, <1>2 DEF HandIsLatest, Assigned
<1> QED
  BY <1>3, <1>5, <1>6, <1>7

\* What is read becomes the latest of its partition.
LEMMA OnePollOK ==
  ASSUME OneRun, KeptIInv, PositionIInv, NEW r \in Run, NEW p \in Partition,
         PollRow(r, p) \/ PollBad(r, p)
  PROVE  PositionIInv'
<1> USE DEF PositionIInv
<1> DEFINE x == position[p]
<1>1. Fetch(r, p) /\ owner[p] = r /\ UNCHANGED <<log, committed, owner, rejoin>>
  BY DEF PollRow, AddRow, PollBad, Fetch
<1>2. /\ x \in Offset /\ x \in Nat /\ position'[p] = x + 1
      /\ \A q \in Partition : q # p => position'[q] = position[q]
      /\ \A q \in Partition : committed[q] \in Nat /\ position[q] \in Nat
  BY <1>1, FetchReads, OffsetIsNat, Constants DEF KeptIInv, TypeOK
<1>3. IdleHoldsNothing'
  <2>1. ~rejoin
    BY <1>1 DEF IdleHoldsNothing, Assigned
  <2>2. pc'[r] # "off"
    BY <1>1 DEF KeptIInv, TypeOK, PollRow, PollBad, Goto, Fetch
  <2> QED
    BY <1>1, <2>1, <2>2 DEF IdleHoldsNothing, OneRun
<1>4. CommittedIsRead'
  BY <1>1, <1>2 DEF CommittedIsRead
<1>5. \A q \in Partition : \A h \in Offset :
        /\ <<q, h>> \in batch[r] => <<q, h>> \in batch'[r]
        /\ <<q, h>> \in batch'[r] => <<q, h>> \in batch[r] \/ (q = p /\ h = x)
        /\ q = p /\ h = x /\ IsRow(p, x) => <<q, h>> \in batch'[r]
  BY DEF PollRow, AddRow, PollBad, KeptIInv, TypeOK
<1>6. BatchIsLatest'
  <2> SUFFICES ASSUME NEW q \in Partition, NEW h \in Offset, <<q, h>> \in batch'[r]
               PROVE  /\ owner[q] = r /\ h < position'[q]
                      /\ \A o \in Offset : h < o /\ o < position'[q] /\ IsRow(q, o)
                           => <<q, o>> \in batch'[r]
    BY <1>1 DEF BatchIsLatest, OneRun, IsRow
  <2>1. CASE q # p
    BY <1>2, <1>5, <2>1 DEF BatchIsLatest
  <2>2. CASE q = p /\ h = x
    BY <1>1, <1>2, <2>2, OffsetIsNat
  <2>3. CASE q = p /\ <<q, h>> \in batch[r]
    <3>1. owner[q] = r /\ h < x
      BY <2>3 DEF BatchIsLatest
    <3>2. h < position'[q]
      BY <1>2, <2>3, <3>1, OffsetIsNat
    <3> SUFFICES ASSUME NEW o \in Offset, h < o, o < position'[q], IsRow(q, o)
                 PROVE  <<q, o>> \in batch'[r]
      BY <3>1, <3>2
    <3>3. CASE o = x
      BY <1>5, <2>3, <3>3
    <3>4. CASE o # x
      <4>1. o \in Nat /\ o < x
        BY <1>2, <2>3, <3>4, OffsetIsNat
      <4> QED
        BY <1>5, <2>3, <4>1 DEF BatchIsLatest
    <3> QED
      BY <3>3, <3>4
  <2> QED
    BY <1>5, <2>1, <2>2, <2>3
<1>7. HandIsLatest'
  <2> SUFFICES ASSUME pc'[r] = "quarantine"
               PROVE  hand'[r] = <<p, x>>
    BY <1>1, <1>2 DEF HandIsLatest, OneRun
  <2> QED
    BY DEF PollRow, PollBad, Goto, Fetch, AddRow, KeptIInv, TypeOK
<1> QED
  BY <1>3, <1>4, <1>6, <1>7

\* The DLQ branch commits exactly what has been read.
LEMMA OneQuarantineOK ==
  ASSUME OneRun, KeptIInv, PositionIInv, NEW r \in Run, CommitBad(r) \/ CommitBadFails(r)
  PROVE  /\ PositionIInv'
         /\ \A p \in Partition : committed[p] <= committed'[p]
<1> USE DEF PositionIInv
<1>1. PICK p \in Partition, b \in Offset : hand[r] = <<p, b>> /\ owner[p] = r /\ position[p] = b + 1
  BY DEF CommitBad, CommitBadFails, HandIsLatest
<1>2. /\ UNCHANGED <<log, owner, position, rejoin, batch>>
      /\ pc'[r] \notin {"off", "quarantine"}
      /\ pc[r] # "off"
      /\ committed' \in {committed, PastHand(r)}
  BY DEF CommitBad, CommitBadFails, Goto, KeptIInv, TypeOK
<1>3. /\ \A q \in Partition : committed[q] \in Nat /\ position[q] \in Nat
      /\ committed \in [Partition -> 0..MaxOffset]
  BY Constants DEF KeptIInv, TypeOK
<1>4. \A q \in Partition : committed'[q] = committed[q] \/ (q = p /\ committed'[q] = b + 1)
  BY <1>1, <1>2, <1>3 DEF PastHand
<1>5. CommittedIsRead'
  BY <1>1, <1>2, <1>3, <1>4 DEF CommittedIsRead
<1>6. IdleHoldsNothing' /\ HandIsLatest'
  BY <1>2 DEF IdleHoldsNothing, HandIsLatest, Assigned, OneRun
<1>7. BatchIsLatest'
  BY <1>2 DEF BatchIsLatest, IsRow
<1>8. \A q \in Partition : committed[q] <= committed'[q]
  <2> TAKE q \in Partition
  <2>1. CASE committed'[q] = committed[q]
    BY <1>3, <2>1
  <2>2. CASE q = p /\ committed'[q] = b + 1
    BY <1>1, <1>3, <2>2 DEF CommittedIsRead
  <2> QED
    BY <1>4, <2>1, <2>2
<1> QED
  BY <1>5, <1>6, <1>7, <1>8

\* A commit moves a partition back over what was read after its batch, none of
\* which are rows.
LEMMA OneCommitOffsets ==
  ASSUME KeptIInv, PositionIInv, NEW r \in Run, NEW parts \in SUBSET Partitions(batch[r]),
         CommitOffsets(batch[r], parts)
  PROVE  \A p \in Partition :
           /\ owner[p] = r => committed'[p] <= position[p]
           /\ \A o \in Offset : committed'[p] <= o /\ o < committed[p] => ~IsRow(p, o)
<1> TAKE p \in Partition
<1>1. committed[p] \in Nat /\ position[p] \in Nat
  BY Constants DEF KeptIInv, TypeOK
<1>2. CASE p \notin parts
  <2>1. committed'[p] = committed[p]
    BY <1>2 DEF CommitOffsets
  <2>2. owner[p] = r => committed[p] <= position[p]
    BY DEF PositionIInv, CommittedIsRead
  <2>3. \A o \in Offset : ~(committed[p] <= o /\ o < committed[p])
    BY <1>1, OffsetIsNat
  <2> QED
    BY <2>1, <2>2, <2>3
<1>3. CASE p \in parts
  <2> DEFINE h == HighOffset(batch[r], p)
  <2>1. h \in Offset /\ IsHigh(batch[r], p, h)
    BY <1>3, HighOffsetIsHigh DEF KeptIInv
  <2>2. /\ h \in Nat /\ <<p, h>> \in batch[r] /\ committed'[p] = h + 1
        /\ owner[p] = r /\ h < position[p] /\ committed[p] <= position[p]
    BY <1>3, <2>1, OffsetIsNat DEF CommitOffsets, IsHigh, PositionIInv, BatchIsLatest, CommittedIsRead
  <2>3. ASSUME NEW o \in Offset, h + 1 <= o, o < committed[p]
        PROVE  ~IsRow(p, o)
    <3>1. o \in Nat /\ h < o /\ o < position[p]
      BY <1>1, <2>2, <2>3, OffsetIsNat
    <3>2. IsRow(p, o) => <<p, o>> \in batch[r]
      BY <2>1, <2>2, <3>1 DEF PositionIInv, BatchIsLatest
    <3>3. <<p, o>> \in batch[r] => o <= h
      BY <2>1 DEF IsHigh
    <3> QED
      BY <2>2, <3>1, <3>2, <3>3
  <2> QED
    BY <1>1, <2>2, <2>3
<1> QED
  BY <1>2, <1>3

LEMMA OneCommitOK ==
  ASSUME OneRun, KeptIInv, PositionIInv, NEW r \in Run, Commit(r) \/ CommitFails(r)
  PROVE  /\ PositionIInv'
         /\ \A p \in Partition : \A o \in Offset :
              committed'[p] <= o /\ o < committed[p] => ~IsRow(p, o)
<1> USE DEF PositionIInv
<1>1. PICK parts \in SUBSET Partitions(batch[r]) : CommitOffsets(batch[r], parts)
  BY DEF Commit, CommitFails
<1>2. \A p \in Partition :
        /\ owner[p] = r => committed'[p] <= position[p]
        /\ \A o \in Offset : committed'[p] <= o /\ o < committed[p] => ~IsRow(p, o)
  BY <1>1, OneCommitOffsets
<1>3. /\ UNCHANGED <<log, owner, position, rejoin>>
      /\ pc'[r] \notin {"off", "quarantine"}
      /\ pc[r] # "off"
      /\ batch'[r] \in {batch[r], {}}
  BY DEF Commit, CommitFails, Goto, KeptIInv, TypeOK
<1>4. IdleHoldsNothing' /\ HandIsLatest'
  BY <1>3 DEF IdleHoldsNothing, HandIsLatest, Assigned, OneRun
<1>5. CommittedIsRead'
  BY <1>2, <1>3 DEF CommittedIsRead, OneRun
<1>6. BatchIsLatest'
  BY <1>3 DEF BatchIsLatest, IsRow, OneRun
<1> QED
  BY <1>2, <1>4, <1>5, <1>6

LEMMA OneEndOK ==
  ASSUME OneRun, KeptIInv, PositionIInv, NEW r \in Run, End(r)
  PROVE  PositionIInv'
<1>1. /\ pc'[r] = "off" /\ batch'[r] = {}
      /\ \A p \in Partition : owner'[p] # r
  BY Constants DEF End, Goto, KeptIInv, TypeOK
<1> QED
  BY <1>1 DEF PositionIInv, IdleHoldsNothing, Assigned, CommittedIsRead, BatchIsLatest, HandIsLatest,
     OneRun

LEMMA OneStepOK ==
  ASSUME OneRun, KeptIInv, PositionIInv, [Next]_vars
  PROVE  /\ PositionIInv'
         /\ \A p \in Partition : \A o \in Offset :
              committed'[p] <= o /\ o < committed[p] => ~IsRow(p, o)
<1> DEFINE Regress == \A p \in Partition : \A o \in Offset :
              committed'[p] <= o /\ o < committed[p] => ~IsRow(p, o)
<1>1. \A p \in Partition : committed[p] \in Nat /\ committed[p] \in 0..MaxOffset
  BY Constants DEF KeptIInv, TypeOK
<1>2. committed' = committed => Regress
  BY <1>1, OffsetIsNat
<1> SUFFICES PositionIInv' /\ Regress
  OBVIOUS
<1> HIDE DEF Regress
<1>3. CASE (\E p \in Partition : Publish(p)) \/ UNCHANGED vars
  BY <1>2, <1>3, OneQuiet DEF Publish, runVars, sinkVars, vars, brokerVars
<1>4. CASE Rebalance
  BY <1>2, <1>4, OneRebalanceOK DEF Rebalance
<1>5. CASE \E r \in Run : Launch(r)
  <2>1. PICK r \in Run : Launch(r)
    BY <1>5
  <2>2. PositionIInv'
    BY <2>1 DEF Launch, Goto, OneRun, KeptIInv, TypeOK, PositionIInv, IdleHoldsNothing, Assigned,
       CommittedIsRead, BatchIsLatest, HandIsLatest, IsRow
  <2> QED
    BY <1>2, <2>1, <2>2 DEF Launch
<1>6. CASE \E r \in Run : \E p \in Partition : PollRow(r, p) \/ PollBad(r, p)
  BY <1>2, <1>6, OnePollOK DEF PollRow, AddRow, PollBad, Fetch
<1>7. CASE \E r \in Run : \/ \E p \in Partition : PollEof(r, p)
                          \/ IdleFlush(r) \/ LoopEnds(r) \/ Raise(r)
                          \/ \E idle \in BOOLEAN : Break(r, idle)
                          \/ Append(r) \/ AppendFails(r)
  <2>1. PICK r \in Run : /\ UNCHANGED brokerVars /\ UNCHANGED <<batch, hand>>
                         /\ pc[r] \in {"poll", "append"}
                         /\ pc'[r] \notin {"off", "quarantine"}
                         /\ \A s \in Run : s = r \/ pc'[s] = pc[s]
    BY <1>7 DEF PollEof, IdleFlush, LoopEnds, Raise, Break, Append, AppendFails, Goto, KeptIInv, TypeOK
  <2> QED
    BY <1>2, <2>1, OneQuiet DEF brokerVars
<1>8. CASE \E r \in Run : \E m \in unsent[r] : Deliver(r, m)
  BY <1>2, <1>8, OneQuiet DEF Deliver, brokerVars
<1>9. CASE \E r \in Run : CommitBad(r) \/ CommitBadFails(r)
  <2>1. PositionIInv' /\ \A p \in Partition : committed[p] <= committed'[p]
    BY <1>9, OneQuarantineOK
  <2>2. \A p \in Partition : committed'[p] \in Nat
    BY StepOK, Constants DEF KeptIInv, TypeOK
  <2> QED
    BY <1>1, <2>1, <2>2, OffsetIsNat DEF Regress
<1>10. CASE \E r \in Run : Commit(r) \/ CommitFails(r)
  BY <1>10, OneCommitOK DEF Regress
<1>11. CASE \E r \in Run : Close(r) \/ Crash(r)
  BY <1>2, <1>11, OneEndOK DEF Close, Crash, End
<1> QED
  BY <1>3, <1>4, <1>5, <1>6, <1>7, <1>8, <1>9, <1>10, <1>11
     DEF Next, Loop, Failure

-----------------------------------------------------------------------------
(***************************************************************************)
(* Rows above the committed offset                                         *)
(***************************************************************************)
LEMMA HeldCountsOK ==
  ASSUME KeptIInv, HeldCounts, [Next]_vars
  PROVE  HeldCounts'
<1> SUFFICES ASSUME NEW r \in Run
             PROVE  IsFiniteSet(batch'[r]) /\ Cardinality(batch'[r]) <= held'[r]
  BY DEF HeldCounts
<1>1. IsFiniteSet(batch[r]) /\ Cardinality(batch[r]) \in Nat /\ Cardinality(batch[r]) <= held[r]
  BY FS_CardinalityType DEF HeldCounts
<1>2. CASE batch'[r] = batch[r] /\ held'[r] = held[r]
  BY <1>1, <1>2
<1>3. CASE batch'[r] = {} /\ held'[r] = 0
  BY <1>3, FS_EmptySet
<1>4. CASE \E p \in Partition : PollRow(r, p)
  <2>1. PICK p \in Partition : PollRow(r, p)
    BY <1>4
  <2>2. batch'[r] = batch[r] \cup {<<p, position[p]>>} /\ held'[r] = held[r] + 1 /\ held[r] \in Nat
    BY <2>1, Constants DEF PollRow, AddRow, KeptIInv, TypeOK
  <2> DEFINE more == batch[r] \cup {<<p, position[p]>>}
  <2>3. IsFiniteSet(more) /\ Cardinality(more) <= Cardinality(batch[r]) + 1
    <3>1. /\ IsFiniteSet(more)
          /\ Cardinality(more) = IF <<p, position[p]>> \in batch[r]
                                   THEN Cardinality(batch[r]) ELSE Cardinality(batch[r]) + 1
      BY <1>1, FS_AddElement
    <3> HIDE DEF more
    <3> QED
      BY <1>1, <3>1
  <2>4. Cardinality(more) \in Nat /\ held[r] + 1 \in Nat
    BY <2>2, <2>3, FS_CardinalityType
  <2> HIDE DEF more
  <2>5. Cardinality(more) <= held[r] + 1
    BY <1>1, <2>2, <2>3, <2>4
  <2> QED
    BY <2>2, <2>3, <2>5 DEF more
<1> QED
  BY <1>2, <1>3, <1>4, BatchStep

\* A row that is read joins the batch, a commit leaves behind only rows that
\* are not in the batch (which are none), and a run that gets its partitions
\* has read nothing of them.
LEMMA ReadIsHeldOK ==
  ASSUME OneRun, KeptIInv, PositionIInv, ReadIsHeld, [Next]_vars
  PROVE  ReadIsHeld'
<1> USE DEF PositionIInv
<1>1. log' = log
  BY TableStep
<1>2. \A p \in Partition : committed[p] \in Nat /\ position[p] \in Nat
  BY Constants DEF KeptIInv, TypeOK
<1> SUFFICES ASSUME NEW r \in Run, NEW p \in Partition, NEW o \in Offset,
                    owner'[p] = r, committed'[p] <= o, o < position'[p], IsRow(p, o)
             PROVE  <<p, o>> \in batch'[r]
  BY <1>1 DEF ReadIsHeld, IsRow
<1>3. o \in Nat
  BY OffsetIsNat
<1>4. CASE \/ (\E q \in Partition : Publish(q)) \/ UNCHANGED vars
           \/ \E s \in Run : \/ Launch(s)
                             \/ \E q \in Partition : PollEof(s, q)
                             \/ IdleFlush(s) \/ LoopEnds(s) \/ Raise(s)
                             \/ \E idle \in BOOLEAN : Break(s, idle)
                             \/ Append(s) \/ AppendFails(s)
                             \/ \E m \in unsent[s] : Deliver(s, m)
  <2>1. UNCHANGED <<committed, owner, position, batch>>
    BY <1>4 DEF Publish, Launch, PollEof, IdleFlush, LoopEnds, Raise, Break, Append,
       AppendFails, Deliver, vars, brokerVars, runVars
  <2> QED
    BY <2>1 DEF ReadIsHeld
<1>5. CASE Rebalance
  BY <1>2, <1>3, <1>5 DEF Rebalance
<1>6. CASE \E s \in Run : \E q \in Partition : PollRow(s, q) \/ PollBad(s, q)
  <2>1. PICK q \in Partition : PollRow(r, q) \/ PollBad(r, q)
    BY <1>6 DEF OneRun
  <2>2. Fetch(r, q) /\ UNCHANGED <<committed, owner>>
    BY <2>1 DEF PollRow, AddRow, PollBad, Fetch
  <2>3. /\ position'[q] = position[q] + 1
        /\ \A s \in Partition : s # q => position'[s] = position[s]
    BY <2>2, FetchReads
  <2>4. batch[r] \subseteq batch'[r]
        /\ (IsRow(q, position[q]) => <<q, position[q]>> \in batch'[r])
    BY <2>1 DEF PollRow, AddRow, PollBad, KeptIInv, TypeOK
  <2>5. CASE p = q /\ o = position[q]
    BY <2>4, <2>5
  <2>6. CASE ~(p = q /\ o = position[q])
    <3>1. o < position[p]
      BY <1>2, <1>3, <2>3, <2>6
    <3> QED
      BY <2>2, <2>4, <3>1 DEF ReadIsHeld
  <2> QED
    BY <2>5, <2>6
<1>7. CASE \E s \in Run : CommitBad(s) \/ CommitBadFails(s)
  <2>1. CommitBad(r) \/ CommitBadFails(r)
    BY <1>7 DEF OneRun
  <2>2. UNCHANGED <<owner, position, batch>>
    BY <2>1 DEF CommitBad, CommitBadFails
  <2>3. \A q \in Partition : committed[q] <= committed'[q]
    BY <2>1, OneQuarantineOK
  <2>4. committed'[p] \in Nat
    BY StepOK, Constants DEF KeptIInv, TypeOK
  <2> QED
    BY <1>2, <1>3, <2>2, <2>3, <2>4 DEF ReadIsHeld
<1>8. CASE \E s \in Run : Commit(s) \/ CommitFails(s)
  <2>1. Commit(r) \/ CommitFails(r)
    BY <1>8 DEF OneRun
  <2>2. /\ UNCHANGED <<owner, position>>
        /\ batch'[r] = batch[r] \/ batch'[r] = {}
        /\ CommitFails(r) => batch' = batch
    BY <2>1 DEF Commit, CommitFails, KeptIInv, TypeOK
  <2>3. PICK parts \in SUBSET Partitions(batch[r]) :
          /\ CommitOffsets(batch[r], parts)
          /\ Commit(r) => parts = Partitions(batch[r])
    BY <2>1 DEF Commit, CommitFails
  <2>4. CASE p \in parts
    <3> DEFINE h == HighOffset(batch[r], p)
    <3>1. h \in Offset /\ IsHigh(batch[r], p, h) /\ committed'[p] = h + 1
      BY <2>3, <2>4, HighOffsetIsHigh DEF KeptIInv, CommitOffsets
    <3> HIDE DEF h
    <3>2. h \in Nat /\ <<p, h>> \in batch[r] /\ h < o
      <4>1. h \in Nat /\ h + 1 <= o
        BY <3>1, OffsetIsNat
      <4> QED
        BY <1>3, <3>1, <4>1 DEF IsHigh
    <3>3. <<p, o>> \in batch[r]
      BY <2>2, <3>1, <3>2 DEF BatchIsLatest
    <3>4. o <= h
      BY <3>1, <3>3 DEF IsHigh
    <3> QED
      BY <1>3, <3>2, <3>4
  <2>5. CASE p \notin parts
    <3>1. committed'[p] = committed[p]
      BY <2>3, <2>5 DEF CommitOffsets
    <3>2. <<p, o>> \in batch[r]
      BY <2>2, <3>1 DEF ReadIsHeld
    <3>3. p \in Partitions(batch[r])
      BY <3>2 DEF Partitions
    <3> QED
      BY <2>1, <2>2, <2>3, <2>5, <3>2, <3>3
  <2> QED
    BY <2>4, <2>5
<1>9. CASE \E s \in Run : Close(s) \/ Crash(s)
  <2>1. End(r)
    BY <1>9 DEF Close, Crash, OneRun
  <2> QED
    BY <2>1, Constants DEF End
<1> QED
  BY <1>4, <1>5, <1>6, <1>7, <1>8, <1>9 DEF Next, Loop, Failure

\* An append puts rows of the batch above the committed offset, up to which
\* everything read is in that batch; a commit that moves back meets no row.
LEMMA OneBatchAboveOK ==
  ASSUME OneRun, KeptIInv, PositionIInv, ReplayIInv, [Next]_vars
  PROVE  OneBatchAbove'
<1> SUFFICES ASSUME NEW m \in bronze', committed'[m[1]] <= m[2]
             PROVE  LET rows == RowsIn(m[1], committed'[m[1]], m[2])
                    IN  IsFiniteSet(rows) /\ Cardinality(rows) <= MaxBatch
  BY TableStep DEF OneBatchAbove, RowsIn, IsRow
<1> DEFINE p     == m[1]
           rows  == RowsIn(p, committed[p], m[2])
           rows1 == RowsIn(p, committed'[p], m[2])
<1>1. /\ p \in Partition /\ m[2] \in Offset /\ m[2] \in Nat /\ m = <<p, m[2]>>
      /\ committed[p] \in Nat /\ committed'[p] \in Nat /\ MaxBatch \in Nat
  <2>1. KeptIInv'
    BY StepOK
  <2>2. m \in Msg
    BY <2>1 DEF KeptIInv, TypeOK
  <2> QED
    BY <2>1, <2>2, MsgIsPair, OffsetIsNat, Constants DEF KeptIInv, TypeOK
<1> HIDE DEF p
<1>2. CASE m \in bronze
  <2>1. \A o \in Offset : committed'[p] <= o /\ o < committed[p] => ~IsRow(p, o)
    BY <1>1, OneStepOK
  <2>2. \A n \in Msg : n[2] \in Offset /\ n[2] \in Nat
    BY MsgIsPair, OffsetIsNat
  <2>3. rows1 \subseteq rows
    BY <1>1, <2>1, <2>2 DEF RowsIn
  <2>4. CASE committed[p] <= m[2]
    <3>1. IsFiniteSet(rows) /\ Cardinality(rows) <= MaxBatch
      BY <1>2, <2>4 DEF ReplayIInv, OneBatchAbove, p
    <3>2. IsFiniteSet(rows1) /\ Cardinality(rows1) <= Cardinality(rows)
      BY <2>3, <3>1, FS_Subset
    <3>3. Cardinality(rows) \in Nat /\ Cardinality(rows1) \in Nat
      BY <3>1, <3>2, FS_CardinalityType
    <3> QED
      BY <1>1, <3>1, <3>2, <3>3 DEF p
  <2>5. CASE ~(committed[p] <= m[2])
    <3>1. rows = {}
      BY <1>1, <2>2, <2>5 DEF RowsIn
    <3>2. rows1 = {}
      BY <2>3, <3>1
    <3> QED
      BY <1>1, <3>2, FS_EmptySet DEF p
  <2> QED
    BY <2>4, <2>5
<1>3. CASE m \notin bronze
  <2>1. PICK r \in Run : m \in batch[r] /\ committed' = committed
    BY <1>3, TableStep
  <2>2. owner[p] = r /\ m[2] < position[p] /\ position[p] \in Nat
    BY <1>1, <2>1, Constants DEF PositionIInv, BatchIsLatest, KeptIInv, TypeOK
  <2>3. rows1 \subseteq batch[r]
    <3> SUFFICES ASSUME NEW n \in rows1 PROVE n \in batch[r]
      OBVIOUS
    <3>1. /\ n \in Msg /\ n[1] = p /\ n[2] \in Offset /\ n[2] \in Nat /\ n = <<p, n[2]>>
          /\ committed[p] <= n[2] /\ n[2] <= m[2] /\ IsRow(p, n[2])
      BY <2>1, MsgIsPair, OffsetIsNat DEF RowsIn
    <3>2. n[2] < position[p]
      BY <1>1, <2>2, <3>1
    <3> QED
      BY <1>1, <2>2, <3>1, <3>2 DEF ReplayIInv, ReadIsHeld
  <2>4. IsFiniteSet(batch[r]) /\ Cardinality(batch[r]) <= held[r] /\ held[r] <= MaxBatch
        /\ held[r] \in Nat
    BY Constants DEF ReplayIInv, HeldCounts, KeptIInv, TypeOK
  <2>5. IsFiniteSet(rows1) /\ Cardinality(rows1) <= Cardinality(batch[r])
    BY <2>3, <2>4, FS_Subset
  <2>6. Cardinality(rows1) \in Nat /\ Cardinality(batch[r]) \in Nat
    BY <2>4, <2>5, FS_CardinalityType
  <2> QED
    BY <1>1, <2>4, <2>5, <2>6 DEF p
<1> QED
  BY <1>2, <1>3

LEMMA ReplayInitOK == Init => ReplayIInv
<1> SUFFICES ASSUME Init PROVE ReplayIInv
  OBVIOUS
<1>1. OneBatchAbove
  BY DEF Init, OneBatchAbove
<1>2. HeldCounts
  BY FS_EmptySet DEF Init, HeldCounts
<1>3. ReadIsHeld
  BY Constants DEF Init, ReadIsHeld
<1> QED
  BY <1>1, <1>2, <1>3 DEF ReplayIInv

-----------------------------------------------------------------------------
(***************************************************************************)
(* Theorems                                                                *)
(***************************************************************************)
\* With one run at a time, its batch is the last it has read of its
\* partitions, and no archived row lies further above the committed offset than
\* one batch: in every reachable state, for any logs, partitions and limits.
THEOREM OneInductive ==
  ASSUME OneRun
  PROVE  Spec => []OneIInv
<1>1. Init => OneIInv
  BY OneInitOK, ReplayInitOK DEF OneIInv
<1>2. IInv /\ OneIInv /\ [Next]_vars => OneIInv'
  BY OneStepOK, HeldCountsOK, ReadIsHeldOK, OneBatchAboveOK DEF IInv, OneIInv, ReplayIInv
<1>3. Spec => []IInv
  BY Inductive
<1> QED
  BY <1>1, <1>2, <1>3, PTL DEF Spec

\* With one run at a time the group moves back over undecodable messages only,
\* however earlier appends and commits failed (bronze.py:130-132, 154-161).
THEOREM RegressesOverBadOnly ==
  ASSUME OneRun
  PROVE  Spec => RegressOnlyOverBad
<1> DEFINE Step == \A p \in Partition : \A o \in committed'[p]..committed[p] - 1 : ~IsRow(p, o)
<1>1. IInv /\ OneIInv /\ [Next]_vars => [Step]_vars
  <2> SUFFICES ASSUME IInv, OneIInv, [Next]_vars, NEW p \in Partition,
                      NEW o \in committed'[p]..committed[p] - 1
               PROVE  ~IsRow(p, o)
    OBVIOUS
  <2>1. committed[p] \in 0..MaxOffset /\ committed'[p] \in 0..MaxOffset
    BY StepOK DEF IInv, KeptIInv, TypeOK
  <2>2. o \in Offset /\ committed'[p] <= o /\ o < committed[p]
    BY <2>1, Constants DEF Offset
  <2> QED
    BY <2>2, OneStepOK DEF IInv, OneIInv
<1>2. Spec => []IInv
  BY Inductive
<1>3. Spec => []OneIInv
  BY OneInductive
<1> HIDE DEF Step
<1>4. Spec => [][Step]_vars
  BY <1>1, <1>2, <1>3, PTL DEF Spec
<1> QED
  BY <1>4 DEF RegressOnlyOverBad, Step

\* A set of messages of one partition has a last one.
LEMMA LastExists ==
  ASSUME NEW p \in Partition, NEW S \in SUBSET Msg, S # {}, \A m \in S : m[1] = p
  PROVE  \E m \in S : \A n \in S : n[2] <= m[2]
<1> DEFINE left == { MaxOffset - m[2] : m \in S }
<1>1. \A m \in S : m[2] \in Nat /\ MaxOffset - m[2] \in Nat /\ MaxOffset - m[2] \in left
  BY MsgIsPair, OffsetIsNat, Constants
<1>2. left \subseteq Nat /\ left # {}
  BY <1>1
<1>3. PICK l \in left : \A k \in left : ~(<<k, l>> \in OpToRel(<, Nat))
  <2> HIDE DEF left
  <2> QED
    BY <1>2, NatLessThanWellFounded, WFMin
<1>4. \A k \in left : ~(k < l)
  BY <1>2, <1>3 DEF OpToRel
<1>5. PICK m \in S : l = MaxOffset - m[2]
  BY <1>3
<1>6. ASSUME NEW n \in S PROVE n[2] <= m[2]
  <2>1. ~(MaxOffset - n[2] < MaxOffset - m[2])
    BY <1>1, <1>4, <1>5
  <2> QED
    BY <1>1, <2>1, Constants
<1> QED
  BY <1>6

\* A crash between append and commit replays at most one batch of archived rows
\* per partition (bronze.py:7-9), with one run at a time: for any logs, any
\* batch size and any number of failed appends and commits before it.
THEOREM ReplaysOneBatch ==
  ASSUME OneRun
  PROVE  Spec => []ReplayBounded
<1>1. ASSUME IInv, OneIInv, NEW p \in Partition
      PROVE  Cardinality({ m \in bronze : m[1] = p /\ committed[p] <= m[2] }) <= MaxBatch
  <2> DEFINE above == { m \in bronze : m[1] = p /\ committed[p] <= m[2] }
  <2> USE DEF OneIInv, ReplayIInv
  <2>1. above \in SUBSET Msg /\ \A m \in above : m[1] = p
    BY <1>1 DEF IInv, KeptIInv, TypeOK
  <2>2. CASE above = {}
    BY <2>2, FS_EmptySet, Constants
  <2>3. CASE above # {}
    <3>1. PICK m \in above : \A n \in above : n[2] <= m[2]
      BY <2>1, <2>3, LastExists
    <3> DEFINE rows == RowsIn(p, committed[p], m[2])
    <3>2. above \subseteq rows
      BY <1>1, <2>1, <3>1 DEF RowsIn, IInv, OnlyRows
    <3>3. IsFiniteSet(rows) /\ Cardinality(rows) <= MaxBatch
      BY <1>1, <3>1 DEF OneBatchAbove
    <3>4. IsFiniteSet(above) /\ Cardinality(above) <= Cardinality(rows)
      BY <3>2, <3>3, FS_Subset
    <3>5. Cardinality(above) \in Nat /\ Cardinality(rows) \in Nat
      BY <3>3, <3>4, FS_CardinalityType
    <3> QED
      BY <3>3, <3>4, <3>5, Constants
  <2> QED
    BY <2>2, <2>3
<1>2. IInv /\ OneIInv => ReplayBounded
  BY <1>1 DEF ReplayBounded
<1>3. Spec => []IInv
  BY Inductive
<1>4. Spec => []OneIInv
  BY OneInductive
<1> QED
  BY <1>2, <1>3, <1>4, PTL
=============================================================================

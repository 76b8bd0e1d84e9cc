---------------------------- MODULE Bronze_proofs ----------------------------
(***************************************************************************)
(* Proofs about Bronze, for any number of runs and partitions, any logs    *)
(* and any limits.                                                         *)
(***************************************************************************)
EXTENDS Bronze, TLAPS

LEMMA Constants ==
  /\ MaxOffset \in Nat /\ MaxBatch \in Nat \ {0} /\ MaxRows \in Nat \ {0}
  /\ NoRun \notin Run
BY BronzeAssumption

LEMMA LogLength ==
  ASSUME NEW l \in Logs, NEW p \in Partition, NEW o \in Nat, o \in DOMAIN l[p]
  PROVE  o < MaxOffset
<1>1. PICK n \in 0..MaxOffset : l[p] \in [0..n - 1 -> {"row", "bad"}]
  BY BronzeAssumption
<1>2. DOMAIN l[p] = 0..n - 1
  BY <1>1
<1> QED
  BY <1>2, Constants

LEMMA OffsetIsNat == Offset \subseteq Nat /\ \A o \in Offset : o < MaxOffset /\ o + 1 \in 0..MaxOffset
BY Constants DEF Offset

LEMMA MsgIsPair == \A m \in Msg : m[1] \in Partition /\ m[2] \in Offset /\ m = <<m[1], m[2]>>
BY DEF Msg

\* Everything in front of an undecodable message is kept, whatever is archived.
LEMMA KeptBehindBad ==
  ASSUME NEW p \in Partition, NEW o \in Offset, NEW b \in Offset, NEW S,
         o <= b, b < end[p], ~IsRow(p, b)
  PROVE  Kept(p, o, S)
<1>1. o = b \/ o < b
  BY OffsetIsNat
<1> QED
  BY <1>1 DEF Kept, BadAfter

\* The commit of a batch names, for a partition of it, the offset behind its
\* highest.
LEMMA HighOffsetIsHigh ==
  ASSUME BatchHasHigh, NEW r \in Run, NEW p \in Partitions(batch[r])
  PROVE  HighOffset(batch[r], p) \in Offset /\ IsHigh(batch[r], p, HighOffset(batch[r], p))
BY DEF BatchHasHigh, HighOffset

-----------------------------------------------------------------------------
(***************************************************************************)
(* The group: messages, membership, assignment                             *)
(***************************************************************************)
LEMMA InitOK == Init => KeptIInv
<1> SUFFICES ASSUME Init PROVE KeptIInv
  OBVIOUS
<1>1. TypeOK
  <2>1. /\ end \in [Partition -> 0..MaxOffset] /\ committed \in [Partition -> 0..MaxOffset]
        /\ position \in [Partition -> 0..MaxOffset] /\ held \in [Run -> 0..MaxBatch]
        /\ archived \in [Run -> 0..MaxRows]
    BY Constants DEF Init
  <2>2. hand \in [Run -> Msg \cup {NoMsg}]
    BY DEF Init
  <2>3. /\ bronze \subseteq Msg /\ dlq \subseteq Msg
        /\ batch \in [Run -> SUBSET Msg] /\ unsent \in [Run -> SUBSET Msg]
    BY DEF Init
  <2> QED
    BY <2>1, <2>2, <2>3 DEF Init, TypeOK, Phase
<1>2. WithinLimits
  BY Constants DEF Init, WithinLimits
<1>3. LossOnlyBehindBad
  BY OffsetIsNat DEF Init, LossOnlyBehindBad
<1>4. BatchesHaveNoHole /\ ReadIsKept
  BY OffsetIsNat, Constants DEF Init, BatchesHaveNoHole, ReadIsKept
<1>5. AppendedBeforeCommit /\ HandIsBad /\ BatchHasHigh
  BY DEF Init, AppendedBeforeCommit, HandIsBad, BatchHasHigh, Partitions
<1> QED
  BY <1>1, <1>2, <1>3, <1>4, <1>5 DEF KeptIInv

\* One more message can only add undecodable ones behind what is there.
LEMMA PublishOK ==
  ASSUME KeptIInv, NEW q \in Partition, Publish(q)
  PROVE  KeptIInv'
<1> USE DEF KeptIInv
<1>1. end[q] \in Nat /\ end[q] < MaxOffset
  BY LogLength, Constants DEF Publish, TypeOK
<1>2. TypeOK'
  BY <1>1, Constants DEF Publish, TypeOK, sinkVars, runVars
<1>3. \A p \in Partition : end[p] \in Int /\ end'[p] \in Int /\ end[p] <= end'[p]
  BY <1>1, Constants DEF Publish, TypeOK
<1>4. \A p \in Partition : \A o \in Offset :
        IsRow(p, o)' = IsRow(p, o) /\ (BadAfter(p, o) => BadAfter(p, o)')
  BY <1>3, OffsetIsNat DEF Publish, BadAfter, IsRow
<1>5. LossOnlyBehindBad' /\ BatchesHaveNoHole' /\ ReadIsKept'
  BY <1>4 DEF Publish, sinkVars, runVars, LossOnlyBehindBad, BatchesHaveNoHole, ReadIsKept, Kept
<1>6. HandIsBad'
  BY <1>3, <1>4, OffsetIsNat DEF Publish, runVars, HandIsBad
<1>7. WithinLimits' /\ AppendedBeforeCommit' /\ BatchHasHigh'
  BY DEF Publish, sinkVars, runVars, WithinLimits, AppendedBeforeCommit, BatchHasHigh
<1> QED
  BY <1>2, <1>5, <1>6, <1>7

\* Positions start over from the committed offsets, below which everything is
\* kept without the help of any batch.
LEMMA RebalanceOK ==
  ASSUME KeptIInv, Rebalance
  PROVE  KeptIInv'
<1> USE DEF KeptIInv
<1>1. TypeOK'
  BY DEF Rebalance, TypeOK, sinkVars, runVars, Live
<1>2. LossOnlyBehindBad' /\ BatchesHaveNoHole'
  BY DEF Rebalance, sinkVars, runVars, LossOnlyBehindBad, BatchesHaveNoHole, Kept, BadAfter, IsRow
<1>3. ReadIsKept'
  BY DEF Rebalance, sinkVars, runVars, ReadIsKept, LossOnlyBehindBad, Kept, BadAfter, IsRow
<1>4. HandIsBad'
  BY DEF Rebalance, runVars, HandIsBad, IsRow
<1>5. WithinLimits' /\ AppendedBeforeCommit' /\ BatchHasHigh'
  BY DEF Rebalance, sinkVars, runVars, WithinLimits, AppendedBeforeCommit, BatchHasHigh
<1> QED
  BY <1>1, <1>2, <1>3, <1>4, <1>5

-----------------------------------------------------------------------------
(***************************************************************************)
(* Steps that read nothing                                                 *)
(***************************************************************************)
\* The table only grows, and what is kept stays kept.
LEMMA KeptStays ==
  ASSUME KeptIInv, UNCHANGED <<log, end, owner, position, batch>>, bronze \subseteq bronze'
  PROVE  BatchesHaveNoHole' /\ ReadIsKept' /\ BatchHasHigh'
BY DEF KeptIInv, BatchesHaveNoHole, ReadIsKept, BatchHasHigh, Kept, BadAfter, IsRow

LEMMA CommittedStays ==
  ASSUME KeptIInv, UNCHANGED <<log, end, committed>>, bronze \subseteq bronze'
  PROVE  LossOnlyBehindBad'
BY DEF KeptIInv, LossOnlyBehindBad, Kept, BadAfter, IsRow

\* Launch, PollEof, IdleFlush, Break, Raise, LoopEnds, Deliver: nothing that is
\* kept moves.
LEMMA QuietOK ==
  ASSUME KeptIInv, NEW r \in Run,
         UNCHANGED <<log, end, committed, owner, position, bronze, batch, held, archived, hand>>,
         \E phase \in {"poll", "append", "close", pc[r]} : Goto(r, phase),
         pc'[r] = "poll" => pc[r] \in {"off", "poll"} /\ held[r] < MaxBatch,
         TypeOK'
  PROVE  KeptIInv'
<1> USE DEF KeptIInv, Goto
<1>1. LossOnlyBehindBad' /\ BatchesHaveNoHole' /\ ReadIsKept' /\ BatchHasHigh'
  BY KeptStays, CommittedStays
<1>2. \A s \in Run : pc'[s] = "quarantine" => pc[s] = "quarantine"
  BY DEF TypeOK
<1>3. \A s \in Run : pc'[s] = "commit" => pc[s] = "commit"
  BY DEF TypeOK
<1>4. \A s \in Run : pc'[s] = "poll" => pc[s] = "poll" \/ held[s] < MaxBatch
  BY DEF TypeOK
<1>5. HandIsBad'
  BY <1>2 DEF HandIsBad, IsRow
<1>6. AppendedBeforeCommit'
  BY <1>3 DEF AppendedBeforeCommit
<1>7. WithinLimits'
  BY <1>2, <1>4 DEF WithinLimits
<1> QED
  BY <1>1, <1>5, <1>6, <1>7

LEMMA LaunchOK ==
  ASSUME KeptIInv, NEW r \in Run, Launch(r)
  PROVE  KeptIInv'
<1>1. TypeOK'
  BY DEF KeptIInv, Launch, Goto, TypeOK, sinkVars, Phase
<1>2. held[r] < MaxBatch
  BY DEF KeptIInv, Launch, WithinLimits
<1> QED
  BY <1>1, <1>2, QuietOK DEF Launch, Goto, sinkVars

LEMMA PollEofOK ==
  ASSUME KeptIInv, NEW r \in Run, NEW p \in Partition, PollEof(r, p)
  PROVE  KeptIInv'
<1>1. TypeOK'
  BY DEF KeptIInv, PollEof, TypeOK, brokerVars, sinkVars
<1>2. held[r] < MaxBatch
  BY DEF KeptIInv, PollEof, WithinLimits
<1>3. Goto(r, pc[r])
  BY DEF KeptIInv, TypeOK, PollEof, Goto
<1> QED
  BY <1>1, <1>2, <1>3, QuietOK DEF PollEof, brokerVars, sinkVars

LEMMA IdleFlushOK ==
  ASSUME KeptIInv, NEW r \in Run, IdleFlush(r)
  PROVE  KeptIInv'
<1>1. TypeOK' /\ pc'[r] = "append"
  BY DEF KeptIInv, IdleFlush, Goto, TypeOK, Phase, brokerVars, sinkVars
<1> QED
  BY <1>1, QuietOK DEF IdleFlush, Goto, brokerVars, sinkVars

LEMMA BreakOK ==
  ASSUME KeptIInv, NEW r \in Run, Raise(r) \/ \E idle \in BOOLEAN : Break(r, idle)
  PROVE  KeptIInv'
<1>1. TypeOK' /\ pc'[r] = "close"
  BY DEF KeptIInv, Raise, Break, Goto, TypeOK, Phase, brokerVars, sinkVars
<1> QED
  BY <1>1, QuietOK DEF Raise, Break, Goto, brokerVars, sinkVars

LEMMA LoopEndsOK ==
  ASSUME KeptIInv, NEW r \in Run, LoopEnds(r)
  PROVE  KeptIInv'
<1>1. TypeOK' /\ pc'[r] # "poll"
  BY DEF KeptIInv, LoopEnds, Goto, TypeOK, Phase, brokerVars, sinkVars
<1> QED
  BY <1>1, QuietOK DEF LoopEnds, Goto, brokerVars, sinkVars

LEMMA DeliverOK ==
  ASSUME KeptIInv, NEW r \in Run, NEW m \in unsent[r], Deliver(r, m)
  PROVE  KeptIInv'
<1>1. TypeOK' /\ Goto(r, pc[r])
  BY DEF KeptIInv, Deliver, Goto, TypeOK, brokerVars
<1>2. pc[r] = "poll" => held[r] < MaxBatch
  BY DEF KeptIInv, WithinLimits
<1> QED
  BY <1>1, <1>2, QuietOK DEF Deliver, Goto, TypeOK, KeptIInv, brokerVars

-----------------------------------------------------------------------------
(***************************************************************************)
(* Reading                                                                 *)
(***************************************************************************)
\* What Fetch reads is a message of the log, and everything older of its
\* partition is kept.
LEMMA FetchReads ==
  ASSUME KeptIInv, NEW r \in Run, NEW p \in Partition, Fetch(r, p)
  PROVE  /\ position[p] \in Offset /\ position[p] < end[p]
         /\ position'[p] = position[p] + 1
         /\ position' \in [Partition -> 0..MaxOffset]
         /\ eof' \in [Run -> SUBSET Partition]
         /\ held[r] < MaxBatch
         /\ archived[r] + held[r] < MaxRows
         /\ \A q \in Partition : q # p => position'[q] = position[q]
BY Constants DEF KeptIInv, TypeOK, WithinLimits, Fetch, Room, Offset

\* The row just read joins the batch: its partition is kept up to the new
\* position, and the batch has it for its highest offset.
LEMMA PollRowOK ==
  ASSUME KeptIInv, NEW r \in Run, NEW p \in Partition, PollRow(r, p)
  PROVE  KeptIInv'
<1> USE DEF KeptIInv
<1> DEFINE x == position[p]
<1>1. Fetch(r, p)
  BY DEF PollRow, AddRow
<1>2. /\ x \in Offset /\ x < end[p] /\ position'[p] = x + 1
      /\ \A q \in Partition : q # p => position'[q] = position[q]
      /\ held[r] < MaxBatch /\ archived[r] + held[r] < MaxRows
  BY <1>1, FetchReads
<1>3. /\ batch'[r] = batch[r] \cup {<<p, x>>}
      /\ \A s \in Run : s # r => batch'[s] = batch[s]
      /\ held'[r] = held[r] + 1
      /\ \A s \in Run : s # r => held'[s] = held[s]
  BY DEF PollRow, AddRow, TypeOK
<1>4. UNCHANGED <<log, end, committed, owner, bronze, archived, hand>>
  BY <1>1 DEF Fetch, PollRow, AddRow, sinkVars
<1>5. TypeOK'
  <2>1. batch' \in [Run -> SUBSET Msg]
    BY <1>2 DEF PollRow, AddRow, TypeOK, Msg
  <2>2. held' \in [Run -> 0..MaxBatch]
    BY <1>2, Constants DEF PollRow, AddRow, TypeOK
  <2>3. pc' \in [Run -> Phase]
    BY DEF PollRow, Goto, TypeOK, Phase
  <2> QED
    BY <1>1, <1>4, <2>1, <2>2, <2>3, FetchReads DEF TypeOK, Fetch, PollRow, AddRow, sinkVars
<1>6. /\ pc'[r] \in {"poll", "append"} /\ (pc'[r] = "poll" => held'[r] < MaxBatch)
      /\ \A s \in Run : s # r => pc'[s] = pc[s]
  BY <1>1, <1>3 DEF PollRow, Goto, TypeOK, Fetch
<1>7. WithinLimits'
  BY <1>2, <1>3, <1>4, <1>6, Constants DEF WithinLimits, TypeOK
<1>8. \A s \in Run : batch[s] \subseteq batch'[s]
  BY <1>3
<1>9. LossOnlyBehindBad'
  BY <1>4, CommittedStays
<1>10. BatchesHaveNoHole'
  <2> SUFFICES ASSUME NEW s \in Run, NEW q \in Partition, NEW h \in Offset, NEW o \in Offset,
                      <<q, h>> \in batch'[s], o < h
               PROVE  Kept(q, o, bronze \cup batch[s])
    BY <1>4, <1>8 DEF BatchesHaveNoHole, Kept, BadAfter, IsRow
  <2>1. CASE <<q, h>> \in batch[s]
    BY <2>1 DEF BatchesHaveNoHole
  <2>2. CASE s = r /\ q = p /\ h = x
    BY <1>1, <2>2 DEF ReadIsKept, Fetch
  <2> QED
    BY <1>3, <2>1, <2>2
<1>11. ReadIsKept'
  <2> SUFFICES ASSUME NEW s \in Run, NEW q \in Partition, NEW o \in Offset,
                      owner[q] = s, o < position'[q]
               PROVE  Kept(q, o, bronze \cup batch'[s])
    BY <1>4 DEF ReadIsKept, Kept, BadAfter, IsRow
  <2>1. CASE o < position[q]
    BY <1>8, <2>1 DEF ReadIsKept, Kept
  <2>2. CASE ~(o < position[q])
    <3>1. owner[p] = r
      BY <1>1 DEF Fetch
    <3>2. q = p
      BY <1>2, <2>2
    <3>3. o \in Nat /\ x \in Nat
      BY <1>2, OffsetIsNat
    <3>4. o = x /\ s = r
      BY <1>2, <2>2, <3>1, <3>2, <3>3
    <3>5. <<q, o>> \in batch'[s]
      BY <1>3, <3>2, <3>4
    <3> QED
      BY <3>5 DEF Kept
  <2> QED
    BY <2>1, <2>2
<1>12. BatchHasHigh'
  <2> SUFFICES ASSUME NEW s \in Run, NEW q \in Partitions(batch'[s])
               PROVE  \E o \in Offset : IsHigh(batch'[s], q, o)
    BY DEF BatchHasHigh, IsHigh, Partitions
  <2>1. CASE s # r \/ q # p
    <3>1. q \in Partitions(batch[s])
      BY <1>3, <2>1 DEF Partitions
    <3>2. PICK o \in Offset : IsHigh(batch[s], q, o)
      BY <3>1 DEF BatchHasHigh
    <3> QED
      BY <1>3, <2>1, <3>2 DEF IsHigh
  <2>2. CASE s = r /\ q = p /\ p \in Partitions(batch[r])
    <3>1. PICK o \in Offset : IsHigh(batch[r], p, o)
      BY <2>2 DEF BatchHasHigh
    <3>2. CASE o <= x
      <4>1. \A m \in batch[r] : m[2] \in Nat
        BY MsgIsPair, OffsetIsNat DEF TypeOK
      <4>2. \A m \in batch[r] : m[1] = p => m[2] \in Nat /\ m[2] <= o
        BY <3>1, <4>1 DEF IsHigh
      <4>3. x \in Nat /\ o \in Nat
        BY <1>2, OffsetIsNat
      <4>4. \A m \in batch[r] : m[1] = p => m[2] <= x
        BY <3>2, <4>2, <4>3
      <4>5. <<p, x>> \in batch'[r] /\ <<p, x>>[1] = p /\ <<p, x>>[2] = x
        BY <1>3
      <4>6. IsHigh(batch'[r], p, x)
        BY <1>3, <4>3, <4>4, <4>5 DEF IsHigh
      <4> QED
        BY <1>2, <2>2, <4>6
    <3>3. CASE x <= o
      <4>1. IsHigh(batch'[r], p, o)
        BY <1>3, <3>1, <3>3 DEF IsHigh
      <4> QED
        BY <2>2, <4>1
    <3> QED
      BY <1>2, <3>2, <3>3, OffsetIsNat
  <2>3. CASE s = r /\ q = p /\ p \notin Partitions(batch[r])
    <3>1. \A m \in batch[r] : m[1] # p
      BY <2>3 DEF Partitions
    <3>2. x \in Nat
      BY <1>2, OffsetIsNat
    <3>3. x <= x
      BY <3>2
    <3>4. IsHigh(batch'[r], p, x)
      BY <1>3, <3>1, <3>3 DEF IsHigh
    <3> QED
      BY <1>2, <2>3, <3>4
  <2> QED
    BY <2>1, <2>2, <2>3
<1>13. HandIsBad'
  BY <1>4, <1>6 DEF HandIsBad, IsRow
<1>14. AppendedBeforeCommit'
  BY <1>3, <1>4, <1>6 DEF AppendedBeforeCommit
<1> QED
  BY <1>5, <1>7, <1>9, <1>10, <1>11, <1>12, <1>13, <1>14

\* Everything in front of an undecodable message is kept, itself included.
LEMMA PollBadOK ==
  ASSUME KeptIInv, NEW r \in Run, NEW p \in Partition, PollBad(r, p)
  PROVE  KeptIInv'
<1> USE DEF KeptIInv
<1> DEFINE x == position[p]
<1>1. Fetch(r, p) /\ ~IsRow(p, x)
  BY DEF PollBad
<1>2. /\ x \in Offset /\ x < end[p] /\ position'[p] = x + 1
      /\ \A q \in Partition : q # p => position'[q] = position[q]
      /\ position' \in [Partition -> 0..MaxOffset]
      /\ eof' \in [Run -> SUBSET Partition]
      /\ held[r] < MaxBatch /\ archived[r] + held[r] < MaxRows
  BY <1>1, FetchReads
<1>3. UNCHANGED <<log, end, committed, owner, rejoin, bronze, dlq, archived, leaving, batch, held>>
  BY <1>1 DEF Fetch, PollBad, sinkVars
<1>4. TypeOK'
  <2>1. hand' \in [Run -> Msg \cup {NoMsg}] /\ unsent' \in [Run -> SUBSET Msg]
    BY <1>2 DEF PollBad, TypeOK, Msg
  <2>2. pc' \in [Run -> Phase]
    BY DEF PollBad, Goto, TypeOK, Phase
  <2> QED
    BY <1>2, <1>3, <2>1, <2>2 DEF TypeOK
<1>5. /\ pc'[r] = "quarantine" /\ hand'[r] = <<p, x>>
      /\ \A s \in Run : s # r => pc'[s] = pc[s] /\ hand'[s] = hand[s]
  BY DEF PollBad, Goto, TypeOK
<1>6. WithinLimits'
  BY <1>2, <1>3, <1>5 DEF WithinLimits
<1>7. LossOnlyBehindBad'
  BY <1>3, CommittedStays
<1>8. BatchesHaveNoHole' /\ BatchHasHigh'
  BY <1>3 DEF BatchesHaveNoHole, BatchHasHigh, Kept, BadAfter, IsRow
<1>9. ReadIsKept'
  <2> SUFFICES ASSUME NEW s \in Run, NEW q \in Partition, NEW o \in Offset,
                      owner[q] = s, o < position'[q]
               PROVE  Kept(q, o, bronze \cup batch[s])
    BY <1>3 DEF ReadIsKept, Kept, BadAfter, IsRow
  <2>1. CASE q # p
    BY <1>2, <2>1 DEF ReadIsKept
  <2>2. CASE q = p
    <3>1. x \in Nat /\ o \in Nat
      BY <1>2, OffsetIsNat
    <3>2. o <= x
      BY <1>2, <2>2, <3>1
    <3> QED
      BY <1>1, <1>2, <2>2, <3>1, <3>2, KeptBehindBad
  <2> QED
    BY <2>1, <2>2
<1>10. HandIsBad'
  <2> SUFFICES ASSUME NEW s \in Run, pc'[s] = "quarantine"
               PROVE  \E q \in Partition : \E o \in Offset :
                        hand'[s] = <<q, o>> /\ o < end[q] /\ ~IsRow(q, o)
    BY <1>3 DEF HandIsBad, IsRow
  <2> QED
    BY <1>1, <1>2, <1>5 DEF HandIsBad
<1>11. AppendedBeforeCommit'
  BY <1>3, <1>5 DEF AppendedBeforeCommit
<1> QED
  BY <1>4, <1>6, <1>7, <1>8, <1>9, <1>10, <1>11

-----------------------------------------------------------------------------
(***************************************************************************)
(* Quarantine, append, commit, the end of a run                            *)
(***************************************************************************)
\* The DLQ branch commits past an undecodable message: what it passes is in
\* front of one.
LEMMA PastHandOK ==
  ASSUME KeptIInv, NEW r \in Run, pc[r] = "quarantine", committed' = PastHand(r),
         UNCHANGED <<log, end, bronze>>
  PROVE  LossOnlyBehindBad' /\ committed' \in [Partition -> 0..MaxOffset]
<1>1. PICK p \in Partition, b \in Offset : hand[r] = <<p, b>> /\ b < end[p] /\ ~IsRow(p, b)
  BY DEF KeptIInv, HandIsBad
<1>2. committed' = [committed EXCEPT ![p] = b + 1]
  BY <1>1 DEF PastHand
<1>3. committed' \in [Partition -> 0..MaxOffset]
  BY <1>2, OffsetIsNat DEF KeptIInv, TypeOK
<1>4. \A q \in Partition : q # p => committed'[q] = committed[q]
  BY <1>2 DEF KeptIInv, TypeOK
<1>5. committed'[p] = b + 1
  BY <1>2 DEF KeptIInv, TypeOK
<1>6. LossOnlyBehindBad'
  <2> SUFFICES ASSUME NEW q \in Partition, NEW o \in Offset, o < committed'[q]
               PROVE  Kept(q, o, bronze)
    BY DEF LossOnlyBehindBad, Kept, BadAfter, IsRow
  <2>1. CASE q # p
    BY <1>4, <2>1 DEF KeptIInv, LossOnlyBehindBad
  <2>2. CASE q = p
    <3>1. b \in Nat /\ o \in Nat
      BY OffsetIsNat
    <3>2. o <= b
      BY <1>5, <2>2, <3>1
    <3> QED
      BY <1>1, <2>2, <3>2, KeptBehindBad
  <2> QED
    BY <2>1, <2>2
<1> QED
  BY <1>3, <1>6

LEMMA QuarantineOK ==
  ASSUME KeptIInv, NEW r \in Run, CommitBad(r) \/ CommitBadFails(r)
  PROVE  KeptIInv'
<1> USE DEF KeptIInv
<1>1. /\ pc[r] = "quarantine"
      /\ UNCHANGED <<log, end, owner, position, rejoin, bronze, dlq, batch, held, eof, archived,
                     leaving, unsent>>
      /\ committed' \in {committed, PastHand(r)}
  BY DEF CommitBad, CommitBadFails, sinkVars
<1>2. LossOnlyBehindBad' /\ committed' \in [Partition -> 0..MaxOffset]
  BY <1>1, PastHandOK, CommittedStays DEF TypeOK
<1>3. BatchesHaveNoHole' /\ ReadIsKept' /\ BatchHasHigh'
  BY <1>1, KeptStays
<1>4. /\ pc'[r] \in {"poll", "close"}
      /\ \A s \in Run : s # r => pc'[s] = pc[s] /\ hand'[s] = hand[s]
      /\ pc' \in [Run -> Phase] /\ hand' \in [Run -> Msg \cup {NoMsg}]
  BY DEF CommitBad, CommitBadFails, Goto, TypeOK, Phase
<1>5. TypeOK'
  BY <1>1, <1>2, <1>4 DEF TypeOK
<1>6. WithinLimits'
  BY <1>1, <1>4 DEF WithinLimits
<1>7. HandIsBad' /\ AppendedBeforeCommit'
  BY <1>1, <1>4 DEF HandIsBad, AppendedBeforeCommit, IsRow
<1> QED
  BY <1>2, <1>3, <1>5, <1>6, <1>7

LEMMA AppendOK ==
  ASSUME KeptIInv, NEW r \in Run, Append(r) \/ AppendFails(r)
  PROVE  KeptIInv'
<1> USE DEF KeptIInv
<1>1. /\ bronze \subseteq bronze' /\ bronze' \subseteq bronze \cup batch[r]
      /\ UNCHANGED <<log, end, committed, owner, position, rejoin, dlq, batch, held, eof,
                     archived, leaving, hand, unsent>>
  BY DEF Append, AppendFails, brokerVars
<1>2. /\ pc'[r] = "close" \/ (pc'[r] = "commit" /\ batch[r] \subseteq bronze')
      /\ \A s \in Run : s # r => pc'[s] = pc[s]
      /\ pc' \in [Run -> Phase]
  BY DEF Append, AppendFails, Goto, TypeOK, Phase
<1>3. LossOnlyBehindBad' /\ BatchesHaveNoHole' /\ ReadIsKept' /\ BatchHasHigh'
  BY <1>1, KeptStays, CommittedStays
<1>4. TypeOK'
  BY <1>1, <1>2 DEF TypeOK
<1>5. WithinLimits' /\ HandIsBad'
  BY <1>1, <1>2 DEF WithinLimits, HandIsBad, IsRow
<1>6. AppendedBeforeCommit'
  BY <1>1, <1>2 DEF AppendedBeforeCommit
<1> QED
  BY <1>3, <1>4, <1>5, <1>6

\* A commit of any part of an appended batch passes nothing that is not kept:
\* the batch has no hole.
LEMMA CommitOffsetsOK ==
  ASSUME KeptIInv, NEW r \in Run, pc[r] = "commit", NEW parts \in SUBSET Partitions(batch[r]),
         CommitOffsets(batch[r], parts), UNCHANGED <<log, end, bronze>>
  PROVE  LossOnlyBehindBad' /\ committed' \in [Partition -> 0..MaxOffset]
<1> DEFINE high(p) == HighOffset(batch[r], p)
<1>1. \A p \in parts : p \in Partition /\ high(p) \in Offset /\ <<p, high(p)>> \in batch[r]
  <2> TAKE p \in parts
  <2>1. high(p) \in Offset /\ IsHigh(batch[r], p, high(p))
    BY HighOffsetIsHigh DEF KeptIInv
  <2>2. <<p, high(p)>> \in batch[r]
    BY <2>1 DEF IsHigh
  <2> QED
    BY <2>1, <2>2 DEF KeptIInv, TypeOK, Msg
<1>2. /\ \A p \in Partition : p \in parts => committed'[p] = high(p) + 1
      /\ \A p \in Partition : p \notin parts => committed'[p] = committed[p]
  BY DEF CommitOffsets
<1>3. committed' \in [Partition -> 0..MaxOffset]
  BY <1>1, OffsetIsNat DEF CommitOffsets, KeptIInv, TypeOK
<1>4. batch[r] \subseteq bronze
  BY DEF KeptIInv, AppendedBeforeCommit
<1>5. LossOnlyBehindBad'
  <2> SUFFICES ASSUME NEW p \in Partition, NEW o \in Offset, o < committed'[p]
               PROVE  Kept(p, o, bronze)
    BY DEF LossOnlyBehindBad, Kept, BadAfter, IsRow
  <2>1. CASE p \notin parts
    BY <1>2, <2>1 DEF KeptIInv, LossOnlyBehindBad
  <2>2. CASE p \in parts /\ o = high(p)
    BY <1>1, <1>4, <2>2 DEF Kept
  <2>3. CASE p \in parts /\ o # high(p)
    <3>1. high(p) \in Nat /\ o \in Nat
      BY <1>1, <2>3, OffsetIsNat
    <3>2. o < high(p)
      BY <1>2, <2>3, <3>1
    <3>3. Kept(p, o, bronze \cup batch[r])
      BY <1>1, <2>3, <3>2 DEF KeptIInv, BatchesHaveNoHole
    <3> QED
      BY <1>4, <3>3 DEF Kept
  <2> QED
    BY <2>1, <2>2, <2>3
<1> QED
  BY <1>3, <1>5

\* The batch that is cleared is in the table.
LEMMA CommitOK ==
  ASSUME KeptIInv, NEW r \in Run, Commit(r)
  PROVE  KeptIInv'
<1> USE DEF KeptIInv
<1>1. UNCHANGED <<log, end, owner, position, rejoin, bronze, dlq, eof, leaving, hand, unsent>>
  BY DEF Commit, sinkVars
<1>2. LossOnlyBehindBad' /\ committed' \in [Partition -> 0..MaxOffset]
  BY <1>1, CommitOffsetsOK DEF Commit
<1>3. /\ batch[r] \subseteq bronze /\ batch'[r] = {}
      /\ \A s \in Run : s # r => batch'[s] = batch[s]
      /\ batch' \in [Run -> SUBSET Msg]
  BY DEF Commit, AppendedBeforeCommit, TypeOK
<1>4. BatchesHaveNoHole'
  <2> SUFFICES ASSUME NEW s \in Run, NEW p \in Partition, NEW h \in Offset, NEW o \in Offset,
                      <<p, h>> \in batch'[s], o < h
               PROVE  Kept(p, o, bronze \cup batch'[s])
    BY <1>1 DEF BatchesHaveNoHole, Kept, BadAfter, IsRow
  <2> QED
    BY <1>3 DEF BatchesHaveNoHole
<1>5. ReadIsKept'
  <2> SUFFICES ASSUME NEW s \in Run, NEW p \in Partition, NEW o \in Offset,
                      owner[p] = s, o < position[p]
               PROVE  Kept(p, o, bronze \cup batch'[s])
    BY <1>1 DEF ReadIsKept, Kept, BadAfter, IsRow
  <2>1. Kept(p, o, bronze \cup batch[s])
    BY DEF ReadIsKept
  <2>2. bronze \cup batch[s] \subseteq bronze \cup batch'[s]
    BY <1>3
  <2> QED
    BY <2>1, <2>2 DEF Kept
<1>6. BatchHasHigh'
  <2> SUFFICES ASSUME NEW s \in Run, NEW p \in Partitions(batch'[s])
               PROVE  \E o \in Offset : IsHigh(batch'[s], p, o)
    BY DEF BatchHasHigh, IsHigh, Partitions
  <2>1. s # r
    BY <1>3 DEF Partitions
  <2> QED
    BY <1>3, <2>1 DEF BatchHasHigh
<1>7. /\ archived'[r] = archived[r] + held[r] /\ held'[r] = 0
      /\ \A s \in Run : s # r => archived'[s] = archived[s] /\ held'[s] = held[s]
      /\ held' \in [Run -> 0..MaxBatch]
  BY Constants DEF Commit, TypeOK
<1>8. archived' \in [Run -> 0..MaxRows]
  <2>1. archived[r] + held[r] \in 0..MaxRows
    BY Constants DEF TypeOK, WithinLimits
  <2> QED
    BY <2>1 DEF Commit, TypeOK
<1>9. /\ pc'[r] \in {"poll", "close"} /\ pc' \in [Run -> Phase]
      /\ \A s \in Run : s # r => pc'[s] = pc[s]
  BY DEF Commit, Goto, TypeOK, Phase
<1>10. TypeOK'
  BY <1>1, <1>2, <1>3, <1>7, <1>8, <1>9 DEF TypeOK
<1>11. WithinLimits'
  BY <1>7, <1>9, Constants DEF WithinLimits, TypeOK
<1>12. HandIsBad' /\ AppendedBeforeCommit'
  BY <1>1, <1>3, <1>9 DEF HandIsBad, AppendedBeforeCommit, IsRow
<1> QED
  BY <1>2, <1>4, <1>5, <1>6, <1>10, <1>11, <1>12

LEMMA CommitFailsOK ==
  ASSUME KeptIInv, NEW r \in Run, CommitFails(r)
  PROVE  KeptIInv'
<1> USE DEF KeptIInv
<1>1. UNCHANGED <<log, end, owner, position, rejoin, bronze, dlq, batch, held, eof, archived,
                  leaving, hand, unsent>>
  BY DEF CommitFails, sinkVars
<1>2. LossOnlyBehindBad' /\ committed' \in [Partition -> 0..MaxOffset]
  BY <1>1, CommitOffsetsOK DEF CommitFails
<1>3. BatchesHaveNoHole' /\ ReadIsKept' /\ BatchHasHigh'
  BY <1>1, KeptStays
<1>4. /\ pc'[r] = "close" /\ pc' \in [Run -> Phase]
      /\ \A s \in Run : s # r => pc'[s] = pc[s]
  BY DEF CommitFails, Goto, TypeOK, Phase
<1>5. TypeOK'
  BY <1>1, <1>2, <1>4 DEF TypeOK
<1>6. WithinLimits' /\ HandIsBad' /\ AppendedBeforeCommit'
  BY <1>1, <1>4 DEF WithinLimits, HandIsBad, AppendedBeforeCommit, IsRow
<1> QED
  BY <1>2, <1>3, <1>5, <1>6

\* What a run held in memory is gone, and with it its partitions.
LEMMA EndOK ==
  ASSUME KeptIInv, NEW r \in Run, End(r)
  PROVE  KeptIInv'
<1> USE DEF KeptIInv
<1>1. UNCHANGED <<log, end, committed, position, bronze, dlq>>
  BY DEF End, sinkVars
<1>2. TypeOK'
  <2>1. /\ pc' \in [Run -> Phase] /\ batch' \in [Run -> SUBSET Msg]
        /\ held' \in [Run -> 0..MaxBatch] /\ eof' \in [Run -> SUBSET Partition]
        /\ archived' \in [Run -> 0..MaxRows] /\ leaving' \in [Run -> BOOLEAN]
        /\ unsent' \in [Run -> SUBSET Msg]
    BY Constants DEF End, Goto, TypeOK, Phase
  <2>2. hand' \in [Run -> Msg \cup {NoMsg}]
    BY DEF End, TypeOK
  <2>3. owner' \in [Partition -> Run \cup {NoRun}] /\ rejoin' \in BOOLEAN
    BY DEF End, TypeOK
  <2> QED
    BY <1>1, <2>1, <2>2, <2>3 DEF TypeOK
<1>3. /\ pc'[r] = "off" /\ batch'[r] = {} /\ held'[r] = 0 /\ archived'[r] = 0
      /\ \A s \in Run : s # r => /\ pc'[s] = pc[s] /\ batch'[s] = batch[s] /\ held'[s] = held[s]
                                 /\ archived'[s] = archived[s] /\ hand'[s] = hand[s]
  BY DEF End, Goto, TypeOK
<1>4. \A p \in Partition : owner'[p] # r /\ (owner'[p] # NoRun => owner'[p] = owner[p])
  BY Constants DEF End
<1>5. WithinLimits'
  BY <1>3, Constants DEF WithinLimits
<1>6. LossOnlyBehindBad'
  BY <1>1, CommittedStays
<1>7. BatchesHaveNoHole'
  <2> SUFFICES ASSUME NEW s \in Run, NEW p \in Partition, NEW h \in Offset, NEW o \in Offset,
                      <<p, h>> \in batch'[s], o < h
               PROVE  Kept(p, o, bronze \cup batch'[s])
    BY <1>1 DEF BatchesHaveNoHole, Kept, BadAfter, IsRow
  <2> QED
    BY <1>3 DEF BatchesHaveNoHole
<1>8. ReadIsKept'
  <2> SUFFICES ASSUME NEW s \in Run, NEW p \in Partition, NEW o \in Offset,
                      owner'[p] = s, o < position[p]
               PROVE  Kept(p, o, bronze \cup batch'[s])
    BY <1>1 DEF ReadIsKept, Kept, BadAfter, IsRow
  <2>1. s # r /\ owner[p] = s
    BY <1>4, Constants
  <2> QED
    BY <1>3, <2>1 DEF ReadIsKept
<1>9. BatchHasHigh'
  <2> SUFFICES ASSUME NEW s \in Run, NEW p \in Partitions(batch'[s])
               PROVE  \E o \in Offset : IsHigh(batch'[s], p, o)
    BY DEF BatchHasHigh, IsHigh, Partitions
  <2>1. s # r
    BY <1>3 DEF Partitions
  <2> QED
    BY <1>3, <2>1 DEF BatchHasHigh
<1>10. HandIsBad' /\ AppendedBeforeCommit'
  BY <1>1, <1>3 DEF HandIsBad, AppendedBeforeCommit, IsRow
<1> QED
  BY <1>2, <1>5, <1>6, <1>7, <1>8, <1>9, <1>10

-----------------------------------------------------------------------------
(***************************************************************************)
(* The theorems                                                            *)
(***************************************************************************)
LEMMA LoopOK ==
  ASSUME KeptIInv, NEW r \in Run, Loop(r)
  PROVE  KeptIInv'
<1>1. CASE \E p \in Partition : PollRow(r, p)
  BY <1>1, PollRowOK
<1>2. CASE \E p \in Partition : PollBad(r, p)
  BY <1>2, PollBadOK
<1>3. CASE \E p \in Partition : PollEof(r, p)
  BY <1>3, PollEofOK
<1>4. CASE IdleFlush(r) \/ Break(r, FALSE) \/ LoopEnds(r)
  BY <1>4, IdleFlushOK, BreakOK, LoopEndsOK
<1>5. CASE CommitBad(r) \/ Append(r) \/ Commit(r) \/ Close(r)
  BY <1>5, QuarantineOK, AppendOK, CommitOK, EndOK DEF Close
<1> QED
  BY <1>1, <1>2, <1>3, <1>4, <1>5 DEF Loop

LEMMA FailureOK ==
  ASSUME KeptIInv, NEW r \in Run, Failure(r)
  PROVE  KeptIInv'
BY BreakOK, QuarantineOK, AppendOK, CommitFailsOK, EndOK DEF Failure, Crash

LEMMA StepOK == KeptIInv /\ [Next]_vars => KeptIInv'
<1> SUFFICES ASSUME KeptIInv, [Next]_vars PROVE KeptIInv'
  OBVIOUS
<1>1. CASE \E p \in Partition : Publish(p)
  BY <1>1, PublishOK
<1>2. CASE Rebalance
  BY <1>2, RebalanceOK
<1>3. CASE \E r \in Run : Launch(r) \/ Loop(r) \/ Failure(r) \/ Break(r, TRUE)
  BY <1>3, LaunchOK, LoopOK, FailureOK, BreakOK
<1>4. CASE \E r \in Run : \E m \in unsent[r] : Deliver(r, m)
  BY <1>4, DeliverOK
<1>5. CASE UNCHANGED vars
  <2>1. TypeOK' /\ WithinLimits'
    BY <1>5 DEF vars, brokerVars, sinkVars, runVars, KeptIInv, TypeOK, WithinLimits
  <2>2. LossOnlyBehindBad' /\ BatchesHaveNoHole' /\ ReadIsKept' /\ BatchHasHigh'
    BY <1>5, KeptStays, CommittedStays DEF vars, brokerVars, sinkVars, runVars
  <2>3. AppendedBeforeCommit' /\ HandIsBad'
    BY <1>5 DEF vars, brokerVars, sinkVars, runVars, KeptIInv, AppendedBeforeCommit, HandIsBad, IsRow
  <2> QED
    BY <2>1, <2>2, <2>3 DEF KeptIInv
<1> QED
  BY <1>1, <1>2, <1>3, <1>4, <1>5 DEF Next

-----------------------------------------------------------------------------
(***************************************************************************)
(* What is archived, quarantined and committed was published               *)
(***************************************************************************)
\* How a step changes batches, counts and the table.
LEMMA BatchStep ==
  ASSUME KeptIInv, [Next]_vars, NEW r \in Run
  PROVE  \/ batch'[r] = batch[r] /\ held'[r] = held[r]
         \/ batch'[r] = {} /\ held'[r] = 0
         \/ \E p \in Partition : PollRow(r, p)
<1>1. CASE (\E p \in Partition : Publish(p)) \/ Rebalance \/ UNCHANGED vars
  BY <1>1 DEF Publish, Rebalance, runVars, vars
<1>2. CASE \E s \in Run : \E p \in Partition : PollRow(s, p)
  BY <1>2 DEF PollRow, AddRow, KeptIInv, TypeOK
<1>3. CASE \E s \in Run : Commit(s) \/ Close(s) \/ Crash(s)
  BY <1>3 DEF Commit, Close, Crash, End, KeptIInv, TypeOK
<1>4. CASE \E s \in Run : \/ Launch(s)
                          \/ \E p \in Partition : PollBad(s, p) \/ PollEof(s, p)
                          \/ IdleFlush(s) \/ LoopEnds(s) \/ Raise(s)
                          \/ \E idle \in BOOLEAN : Break(s, idle)
                          \/ CommitBad(s) \/ CommitBadFails(s) \/ CommitFails(s)
                          \/ Append(s) \/ AppendFails(s)
                          \/ \E m \in unsent[s] : Deliver(s, m)
  BY <1>4 DEF Launch, PollBad, PollEof, IdleFlush, LoopEnds, Raise, Break, CommitBad,
     CommitBadFails, CommitFails, Append, AppendFails, Deliver
<1> QED
  BY <1>1, <1>2, <1>3, <1>4 DEF Next, Loop, Failure

LEMMA TableStep ==
  ASSUME KeptIInv, [Next]_vars
  PROVE  /\ log' = log
         /\ \/ bronze' = bronze
            \/ \E r \in Run : bronze' = bronze \cup batch[r] /\ committed' = committed
<1>1. CASE (\E p \in Partition : Publish(p)) \/ Rebalance \/ UNCHANGED vars
  BY <1>1 DEF Publish, Rebalance, sinkVars, vars, brokerVars
<1>2. CASE \E r \in Run : \/ Launch(r)
                          \/ \E p \in Partition : PollRow(r, p) \/ PollBad(r, p) \/ PollEof(r, p)
                          \/ IdleFlush(r) \/ LoopEnds(r) \/ Raise(r)
                          \/ \E idle \in BOOLEAN : Break(r, idle)
  BY <1>2 DEF Launch, PollRow, AddRow, PollBad, Fetch, PollEof, IdleFlush, LoopEnds, Raise,
     Break, brokerVars, sinkVars
<1>3. CASE \E r \in Run : \/ CommitBad(r) \/ CommitBadFails(r) \/ Commit(r) \/ CommitFails(r)
                          \/ Close(r) \/ Crash(r) \/ \E m \in unsent[r] : Deliver(r, m)
  BY <1>3 DEF CommitBad, CommitBadFails, Commit, CommitFails, Close, Crash, End, Deliver,
     brokerVars, sinkVars
<1>4. CASE \E r \in Run : Append(r) \/ AppendFails(r)
  BY <1>4 DEF Append, AppendFails, brokerVars
<1> QED
  BY <1>1, <1>2, <1>3, <1>4 DEF Next, Loop, Failure

\* Only rows are archived: what joins a batch was decoded.
LEMMA OnlyRowsOK ==
  ASSUME KeptIInv, OnlyRows, [Next]_vars
  PROVE  OnlyRows'
<1>1. log' = log
  BY TableStep
<1>2. \A m \in bronze' : IsRow(m[1], m[2])
  BY TableStep DEF OnlyRows
<1>3. ASSUME NEW r \in Run, NEW m \in batch'[r] PROVE IsRow(m[1], m[2])
  <2>1. CASE batch'[r] = batch[r] \/ batch'[r] = {}
    BY <1>3, <2>1 DEF OnlyRows
  <2>2. CASE \E p \in Partition : PollRow(r, p)
    <3>1. PICK p \in Partition : PollRow(r, p)
      BY <2>2
    <3>2. batch'[r] = batch[r] \cup {<<p, position[p]>>} /\ IsRow(p, position[p])
      BY <3>1 DEF PollRow, AddRow, KeptIInv, TypeOK
    <3> QED
      BY <1>3, <3>2 DEF OnlyRows
  <2> QED
    BY <2>1, <2>2, BatchStep
<1> QED
  BY <1>1, <1>2, <1>3 DEF OnlyRows, IsRow

\* The end of a log is moved by what is published only.
LEMMA EndMoves ==
  ASSUME [Next]_vars
  PROVE  (\E p \in Partition : Publish(p)) \/ end' = end
BY DEF Next, Loop, Failure, Rebalance, Launch, PollRow, AddRow, PollBad, Fetch, PollEof,
   IdleFlush, Break, LoopEnds, Raise, CommitBad, CommitBadFails, Append, AppendFails, Commit,
   CommitFails, Close, Crash, End, Deliver, vars, brokerVars

\* Logs only grow, and what they hold does not change.
LEMMA LogStep ==
  ASSUME KeptIInv, [Next]_vars
  PROVE  /\ log' = log
         /\ \A p \in Partition : end[p] \in Nat /\ end'[p] \in Nat /\ end[p] <= end'[p]
<1>1. TypeOK /\ TypeOK'
  BY StepOK DEF KeptIInv
<1>2. \A p \in Partition : end[p] \in Nat /\ end'[p] \in Nat
  BY <1>1, Constants DEF TypeOK
<1>3. CASE \E q \in Partition : Publish(q)
  BY <1>1, <1>2, <1>3, TableStep DEF Publish, TypeOK
<1>4. CASE end' = end
  BY <1>2, <1>4, TableStep
<1> QED
  BY <1>3, <1>4, EndMoves

LEMMA PositionStep ==
  ASSUME KeptIInv, OnlyPublished, [Next]_vars
  PROVE  \A p \in Partition : position'[p] <= end'[p]
<1>1. \A p \in Partition : position[p] <= end[p] /\ committed[p] <= end[p]
  BY DEF OnlyPublished
<1>2. CASE position' \in {position, committed}
  <2> SUFFICES ASSUME NEW p \in Partition PROVE position'[p] <= end'[p]
    OBVIOUS
  <2>1. position'[p] \in Nat /\ position'[p] <= end[p]
    BY <1>1, <1>2, Constants DEF KeptIInv, TypeOK
  <2> QED
    BY <2>1, LogStep
<1>3. CASE \E r \in Run : \E q \in Partition : Fetch(r, q)
  <2> SUFFICES ASSUME NEW p \in Partition PROVE position'[p] <= end'[p]
    OBVIOUS
  <2>1. position[p] \in Nat
    BY Constants DEF KeptIInv, TypeOK
  <2>2. PICK r \in Run, q \in Partition : Fetch(r, q)
    BY <1>3
  <2>3. position'[p] <= end[p] /\ position'[p] \in Nat
    <3>1. CASE p = q
      BY <2>1, <2>2, <3>1, FetchReads, LogStep
    <3>2. CASE p # q
      BY <1>1, <2>1, <2>2, <3>2, FetchReads
    <3> QED
      BY <3>1, <3>2
  <2> QED
    BY <2>3, LogStep
<1>4. \/ position' \in {position, committed}
      \/ \E r \in Run : \E q \in Partition : Fetch(r, q)
  BY DEF Next, Loop, Failure, Publish, Rebalance, Launch, PollRow, AddRow, PollBad, PollEof,
     IdleFlush, Break, LoopEnds, Raise, CommitBad, CommitBadFails, Append, AppendFails, Commit,
     CommitFails, Close, Crash, End, Deliver, vars, brokerVars
<1> QED
  BY <1>2, <1>3, <1>4

\* How a step changes the offsets of the group.
LEMMA OffsetStep ==
  ASSUME KeptIInv, [Next]_vars
  PROVE  \/ committed' = committed
         \/ /\ UNCHANGED <<log, end, bronze, dlq>>
            /\ \E r \in Run : \/ pc[r] = "quarantine" /\ committed' = PastHand(r)
                              \/ /\ pc[r] = "commit"
                                 /\ \E parts \in SUBSET Partitions(batch[r]) :
                                      CommitOffsets(batch[r], parts)
<1>1. CASE \E r \in Run : CommitBad(r) \/ CommitBadFails(r)
  BY <1>1 DEF CommitBad, CommitBadFails, sinkVars
<1>2. CASE \E r \in Run : Commit(r) \/ CommitFails(r)
  BY <1>2 DEF Commit, CommitFails, sinkVars
<1>3. CASE committed' = committed
  BY <1>3
<1>4. \/ committed' = committed
      \/ \E r \in Run : CommitBad(r) \/ CommitBadFails(r) \/ Commit(r) \/ CommitFails(r)
  BY DEF Next, Loop, Failure, Publish, Rebalance, Launch, PollRow, AddRow, PollBad, Fetch,
     PollEof, IdleFlush, Break, LoopEnds, Raise, Append, AppendFails, Close, Crash, End, Deliver,
     vars, brokerVars
<1> QED
  BY <1>1, <1>2, <1>3, <1>4

LEMMA CommittedStep ==
  ASSUME KeptIInv, OnlyPublished, [Next]_vars
  PROVE  \A p \in Partition : committed'[p] <= end'[p]
<1> SUFFICES ASSUME NEW p \in Partition PROVE committed'[p] <= end'[p]
  OBVIOUS
<1>1. committed[p] \in Nat /\ committed[p] <= end[p] /\ end[p] \in Nat /\ end'[p] \in Nat
      /\ end[p] <= end'[p]
  BY LogStep, Constants DEF KeptIInv, TypeOK, OnlyPublished
<1>2. CASE committed' = committed
  BY <1>1, <1>2
<1>3. ASSUME NEW r \in Run, pc[r] = "quarantine", committed' = PastHand(r)
      PROVE  committed'[p] <= end'[p]
  <2>1. PICK q \in Partition, o \in Offset : hand[r] = <<q, o>> /\ o < end[q]
    BY <1>3 DEF KeptIInv, HandIsBad
  <2>2. CASE p = q
    BY <1>1, <1>3, <2>1, <2>2, OffsetIsNat DEF PastHand, KeptIInv, TypeOK
  <2>3. CASE p # q
    BY <1>1, <1>3, <2>1, <2>3 DEF PastHand, KeptIInv, TypeOK
  <2> QED
    BY <2>2, <2>3
<1>4. ASSUME NEW r \in Run, NEW parts \in SUBSET Partitions(batch[r]),
             CommitOffsets(batch[r], parts)
      PROVE  committed'[p] <= end'[p]
  <2>1. CASE p \notin parts
    BY <1>1, <1>4, <2>1 DEF CommitOffsets
  <2>2. CASE p \in parts
    <3> DEFINE h == HighOffset(batch[r], p)
    <3>1. h \in Nat /\ <<p, h>> \in batch[r]
      BY <2>2, HighOffsetIsHigh, OffsetIsNat DEF KeptIInv, IsHigh
    <3>2. <<p, h>>[2] < end[<<p, h>>[1]]
      BY <3>1 DEF OnlyPublished
    <3>3. h < end[p]
      BY <3>2
    <3>4. committed'[p] = h + 1
      BY <1>4, <2>2 DEF CommitOffsets
    <3> HIDE DEF h
    <3> QED
      BY <1>1, <3>1, <3>3, <3>4
  <2> QED
    BY <2>1, <2>2
<1> QED
  BY <1>2, <1>3, <1>4, OffsetStep

\* How a step changes the DLQ and the queues in front of it.
LEMMA QuarantineStep ==
  ASSUME KeptIInv, [Next]_vars
  PROVE  /\ \/ dlq' = dlq
            \/ \E r \in Run : \E m \in unsent[r] : dlq' \in {dlq, dlq \cup {m}}
         /\ \A r \in Run : \/ unsent'[r] \subseteq unsent[r]
                           \/ \E p \in Partition : PollBad(r, p)
<1>1. CASE (\E p \in Partition : Publish(p)) \/ Rebalance \/ UNCHANGED vars
  BY <1>1 DEF Publish, Rebalance, sinkVars, runVars, vars
<1>2. CASE \E r \in Run : \/ Launch(r)
                          \/ \E p \in Partition : PollRow(r, p) \/ PollEof(r, p)
                          \/ IdleFlush(r) \/ LoopEnds(r) \/ Raise(r)
                          \/ \E idle \in BOOLEAN : Break(r, idle)
                          \/ CommitBad(r) \/ CommitBadFails(r) \/ Commit(r) \/ CommitFails(r)
                          \/ Append(r) \/ AppendFails(r)
  BY <1>2 DEF Launch, PollRow, AddRow, Fetch, PollEof, IdleFlush, LoopEnds, Raise, Break,
     CommitBad, CommitBadFails, Commit, CommitFails, Append, AppendFails, sinkVars
<1>3. CASE \E r \in Run : \E p \in Partition : PollBad(r, p)
  <2>1. PICK s \in Run, p \in Partition : PollBad(s, p)
    BY <1>3
  <2>2. dlq' = dlq
    BY <2>1 DEF PollBad, Fetch, sinkVars
  <2>3. \A r \in Run : r # s => unsent'[r] = unsent[r]
    BY <2>1 DEF PollBad, KeptIInv, TypeOK
  <2> QED
    BY <2>1, <2>2, <2>3
<1>4. CASE \E r \in Run : Close(r) \/ Crash(r)
  BY <1>4 DEF Close, Crash, End, sinkVars, KeptIInv, TypeOK
<1>5. CASE \E r \in Run : \E m \in unsent[r] : Deliver(r, m)
  BY <1>5 DEF Deliver, KeptIInv, TypeOK
<1> QED
  BY <1>1, <1>2, <1>3, <1>4, <1>5 DEF Next, Loop, Failure

\* The end of a log stays within it.
LEMMA EndStep ==
  ASSUME KeptIInv, OnlyPublished, [Next]_vars, NEW p \in Partition, NEW o \in Offset, o < end'[p]
  PROVE  o \in DOMAIN log'[p]
<1>1. CASE o < end[p]
  BY <1>1, LogStep DEF OnlyPublished
<1>2. CASE end'[p] # end[p]
  <2>1. end[p] \in DOMAIN log[p] /\ end'[p] = end[p] + 1
    BY <1>2, EndMoves DEF KeptIInv, TypeOK, Publish
  <2>2. o < end[p] \/ o = end[p]
    BY <2>1, LogStep, OffsetIsNat
  <2> QED
    BY <1>1, <2>1, <2>2, LogStep
<1> QED
  BY <1>1, <1>2

LEMMA OnlyPublishedOK ==
  ASSUME KeptIInv, OnlyPublished, [Next]_vars
  PROVE  OnlyPublished'
<1>1. /\ bronze \subseteq Msg /\ dlq \subseteq Msg
      /\ \A r \in Run : batch[r] \subseteq Msg /\ unsent[r] \subseteq Msg
  BY DEF KeptIInv, TypeOK
<1>2. ASSUME NEW m \in Msg, m[2] < end[m[1]] PROVE m[2] < end'[m[1]]
  BY <1>2, LogStep, MsgIsPair, OffsetIsNat
<1>3. \A p \in Partition : position'[p] <= end'[p] /\ committed'[p] <= end'[p]
  BY PositionStep, CommittedStep
<1>4. \A m \in bronze' : m[2] < end'[m[1]]
  BY <1>1, <1>2, TableStep DEF OnlyPublished
<1>5. ASSUME NEW r \in Run, NEW m \in batch'[r] PROVE m[2] < end'[m[1]]
  <2>1. CASE m \in batch[r]
    BY <1>1, <1>2, <2>1 DEF OnlyPublished
  <2>2. ASSUME NEW p \in Partition, PollRow(r, p), m \notin batch[r] PROVE m[2] < end'[m[1]]
    <3>1. batch'[r] = batch[r] \cup {<<p, position[p]>>} /\ Fetch(r, p)
      BY <2>2 DEF PollRow, AddRow, KeptIInv, TypeOK
    <3>2. m = <<p, position[p]>> /\ position[p] \in Offset /\ position[p] < end[p]
      BY <1>5, <2>2, <3>1, FetchReads
    <3>3. m \in Msg /\ m[2] < end[m[1]]
      BY <3>2 DEF Msg
    <3> QED
      BY <1>2, <3>3
  <2> QED
    BY <1>5, <2>1, <2>2, BatchStep
<1>6. \A m \in dlq' : m[2] < end'[m[1]] /\ ~IsRow(m[1], m[2])
  BY <1>1, <1>2, QuarantineStep DEF OnlyPublished
<1>7. ASSUME NEW r \in Run, NEW m \in unsent'[r] PROVE m[2] < end'[m[1]] /\ ~IsRow(m[1], m[2])
  <2>1. CASE m \in unsent[r]
    BY <1>1, <1>2, <2>1 DEF OnlyPublished
  <2>2. ASSUME NEW p \in Partition, PollBad(r, p), m \notin unsent[r]
        PROVE  m[2] < end'[m[1]] /\ ~IsRow(m[1], m[2])
    <3>1. /\ unsent'[r] = unsent[r] \cup {<<p, position[p]>>} /\ Fetch(r, p)
          /\ ~IsRow(p, position[p])
      BY <2>2 DEF PollBad, KeptIInv, TypeOK
    <3>2. m = <<p, position[p]>> /\ position[p] \in Offset /\ position[p] < end[p]
      BY <1>7, <2>2, <3>1, FetchReads
    <3>3. m \in Msg /\ m[2] < end[m[1]] /\ ~IsRow(m[1], m[2])
      BY <3>1, <3>2 DEF Msg
    <3> QED
      BY <1>2, <3>3
  <2> QED
    BY <1>7, <2>1, <2>2, QuarantineStep
<1> QED
  BY <1>3, <1>4, <1>5, <1>6, <1>7, LogStep, EndStep DEF OnlyPublished, IsRow

LEMMA PublishedInitOK == Init => OnlyRows /\ OnlyPublished
BY OffsetIsNat, Constants DEF Init, OnlyRows, OnlyPublished

\* The invariant the other theorems rest on holds in every reachable state.
THEOREM Inductive == Spec => []IInv
<1>1. Init => IInv
  BY InitOK, PublishedInitOK DEF IInv
<1>2. IInv /\ [Next]_vars => IInv'
  BY StepOK, OnlyRowsOK, OnlyPublishedOK DEF IInv
<1> QED
  BY <1>1, <1>2, PTL DEF Spec

\* Every variable keeps its type: no batch and no run exceeds its limit
\* (bronze.py:95, batch.py:37-40).
THEOREM TypeCorrect == Spec => []TypeOK
<1>1. IInv => TypeOK
  BY DEF IInv, KeptIInv
<1> QED
  BY <1>1, Inductive, PTL

\* A row the group has committed past is archived unless an undecodable message
\* follows it, for any number of concurrent runs and partitions
\* (bronze.py:7-9, 80-82, 127-131).
THEOREM OnlyBadCostsARow == Spec => []LossOnlyBehindBad
<1>1. IInv => LossOnlyBehindBad
  BY DEF IInv, KeptIInv
<1> QED
  BY <1>1, Inductive, PTL

\* Rebalances and the commits of other runs leave no hole in a batch, so
\* committing its highest offsets skips nothing (batch.py:28-35).
THEOREM NoBatchHasAHole == Spec => []BatchesHaveNoHole
<1>1. IInv => BatchesHaveNoHole
  BY DEF IInv, KeptIInv
<1> QED
  BY <1>1, Inductive, PTL

\* As long as every message can be decoded, the promise of the docstring holds
\* as it stands, for any number of concurrent runs: a row the group has
\* committed past is in bronze (bronze.py:7-9), and so none is lost.
CommittedIsArchived == \A m \in Below(committed) : IsRow(m[1], m[2]) => m \in bronze

THEOREM DecodableLosesNothing ==
  ASSUME \A l \in Logs : \A p \in Partition : \A o \in DOMAIN l[p] : l[p][o] = "row"
  PROVE  Spec => [](CommittedIsArchived /\ NoRowIsLost)
<1>1. IInv => CommittedIsArchived /\ NoRowIsLost
  <2> SUFFICES ASSUME IInv, NEW m \in Below(committed), IsRow(m[1], m[2])
               PROVE  m \in bronze
    BY DEF CommittedIsArchived, NoRowIsLost
  <2>1. m[1] \in Partition /\ m[2] \in Offset /\ m = <<m[1], m[2]>> /\ m[2] < committed[m[1]]
    BY MsgIsPair DEF Below
  <2>2. Kept(m[1], m[2], bronze)
    BY <2>1 DEF IInv, KeptIInv, LossOnlyBehindBad
  <2>3. ~BadAfter(m[1], m[2])
    BY <2>1 DEF BadAfter, IsRow, IInv, KeptIInv, TypeOK, OnlyPublished
  <2> QED
    BY <2>1, <2>2, <2>3 DEF Kept
<1> QED
  BY <1>1, Inductive, PTL

-----------------------------------------------------------------------------
(***************************************************************************)
(* The archiver implements DurableArchive                                  *)
(***************************************************************************)
LEMMA ArchiveInit == Init => Archive!Init
BY DEF Init, Archive!Init

LEMMA PublishMaps ==
  ASSUME NEW p \in Partition, Publish(p)
  PROVE  Archive!Publish(p)
BY DEF Publish, Archive!Publish, sinkVars

\* Whatever the actors do besides publishing, a step touches one of the three
\* durable places at most.
LEMMA DurableStep ==
  ASSUME KeptIInv, [Next]_vars, ~\E p \in Partition : Publish(p)
  PROVE  /\ UNCHANGED <<log, end>>
         /\ \/ /\ UNCHANGED <<dlq, committed>>
               /\ \E r \in Run : bronze' \in {bronze, bronze \cup batch[r]}
            \/ /\ UNCHANGED <<bronze, committed>>
               /\ \E r \in Run : \E m \in unsent[r] : dlq' \in {dlq, dlq \cup {m}}
            \/ UNCHANGED <<bronze, dlq>>
<1>1. UNCHANGED <<log, end>>
  BY TableStep, EndMoves
<1>2. CASE Rebalance \/ UNCHANGED vars
  BY <1>1, <1>2 DEF Rebalance, sinkVars, vars
<1>3. CASE \E r \in Run : \/ Launch(r)
                          \/ \E p \in Partition : PollRow(r, p) \/ PollBad(r, p) \/ PollEof(r, p)
                          \/ IdleFlush(r) \/ LoopEnds(r) \/ Raise(r)
                          \/ \E idle \in BOOLEAN : Break(r, idle)
  BY <1>1, <1>3 DEF Launch, PollRow, AddRow, PollBad, Fetch, PollEof, IdleFlush, LoopEnds, Raise,
     Break, sinkVars
<1>4. CASE \E r \in Run : \/ CommitBad(r) \/ CommitBadFails(r) \/ Commit(r) \/ CommitFails(r)
                          \/ Close(r) \/ Crash(r)
  BY <1>1, <1>4 DEF CommitBad, CommitBadFails, Commit, CommitFails, Close, Crash, End, sinkVars
<1>5. CASE \E r \in Run : Append(r) \/ AppendFails(r)
  BY <1>1, <1>5 DEF Append, AppendFails, brokerVars
<1>6. CASE \E r \in Run : \E m \in unsent[r] : Deliver(r, m)
  BY <1>1, <1>6 DEF Deliver, brokerVars
<1> QED
  BY <1>2, <1>3, <1>4, <1>5, <1>6 DEF Next, Loop, Failure

LEMMA PublishedRows ==
  ASSUME IInv, NEW r \in Run
  PROVE  batch[r] \subseteq Archive!Rows /\ unsent[r] \subseteq Archive!Bad
<1>1. batch[r] \subseteq Msg /\ unsent[r] \subseteq Msg
  BY DEF IInv, KeptIInv, TypeOK
<1> QED
  BY <1>1 DEF IInv, OnlyRows, OnlyPublished, IsRow, Msg, Offset, Archive!Rows, Archive!Bad,
     Archive!Msg, Archive!Offset, Archive!Published, Archive!IsRow

\* What is kept by LossOnlyBehindBad is what the archive calls covered.
LEMMA LossCovers ==
  ASSUME IInv', UNCHANGED <<log, end, bronze>>, NEW p \in Partition
  PROVE  Archive!Covered(p, committed'[p])
<1> SUFFICES ASSUME NEW m \in Archive!Rows, m[1] = p, m[2] < committed'[p]
             PROVE  m \in bronze \/ \E b \in Archive!Bad : b[1] = p /\ m[2] < b[2]
  BY DEF Archive!Covered
<1>1. m \in Msg /\ IsRow(m[1], m[2])
  BY DEF Archive!Rows, Archive!Msg, Archive!Offset, Archive!IsRow, Msg, Offset, IsRow
<1>2. m[2] \in Offset /\ m = <<p, m[2]>>
  BY <1>1, MsgIsPair
<1>3. m \in bronze \/ BadAfter(p, m[2])
  BY <1>1, <1>2 DEF IInv, KeptIInv, LossOnlyBehindBad, Kept, BadAfter, IsRow
<1>4. CASE BadAfter(p, m[2])
  <2>1. PICK b \in Offset : m[2] < b /\ b < end[p] /\ ~IsRow(p, b)
    BY <1>4 DEF BadAfter
  <2>2. <<p, b>> \in Archive!Bad
    BY <2>1 DEF Archive!Bad, Archive!Msg, Archive!Offset, Archive!Published, Archive!IsRow, IsRow,
       Offset
  <2> QED
    BY <2>1, <2>2
<1> QED
  BY <1>3, <1>4

LEMMA ArchiveStep == IInv /\ IInv' /\ [Next]_vars => [Archive!Next]_Archive!vars
<1> SUFFICES ASSUME IInv, IInv', [Next]_vars PROVE Archive!Next \/ UNCHANGED Archive!vars
  OBVIOUS
<1>1. CASE \E p \in Partition : Publish(p)
  BY <1>1, PublishMaps DEF Archive!Next
<1>2. CASE ~\E p \in Partition : Publish(p)
  <2>1. UNCHANGED <<log, end>>
    BY <1>2, DurableStep DEF IInv
  <2>2. CASE /\ UNCHANGED <<dlq, committed>>
             /\ \E r \in Run : bronze' \in {bronze, bronze \cup batch[r]}
    BY <2>1, <2>2, PublishedRows DEF Archive!Next, Archive!Archive
  <2>3. CASE /\ UNCHANGED <<bronze, committed>>
             /\ \E r \in Run : \E m \in unsent[r] : dlq' \in {dlq, dlq \cup {m}}
    BY <2>1, <2>3, PublishedRows DEF Archive!Next, Archive!Quarantine
  <2>4. CASE UNCHANGED <<bronze, dlq>>
    <3>1. committed' \in [Partition -> 0..MaxOffset]
      BY DEF IInv, KeptIInv, TypeOK
    <3>2. \A p \in Partition : committed'[p] <= end[p] /\ Archive!Covered(p, committed'[p])
      BY <2>1, <2>4, LossCovers DEF IInv, OnlyPublished
    <3> QED
      BY <2>1, <2>4, <3>1, <3>2 DEF Archive!Next, Archive!Commit
  <2> QED
    BY <1>2, <2>2, <2>3, <2>4, DurableStep DEF IInv
<1> QED
  BY <1>1, <1>2

\* To its readers the archiver is a table of rows, a topic of undecodable
\* messages and an offset that waits for the table (bronze.py:7-9, 74-82,
\* 149-161): for any number of runs and partitions, any logs and any limits.
THEOREM ImplementsArchive == Spec => ArchiveSpec
<1>1. IInv /\ [Next]_vars => IInv'
  BY StepOK, OnlyRowsOK, OnlyPublishedOK DEF IInv
<1> QED
  BY <1>1, ArchiveInit, ArchiveStep, Inductive, PTL DEF Spec, ArchiveSpec, Archive!Spec
=============================================================================

------------------------------- MODULE Bronze -------------------------------
(***************************************************************************)
(* The Kafka -> Iceberg archiver (dagster/bsky_dagster/assets/bronze.py;   *)
(* bronze_likes.py and bronze_follows.py repeat its loop).  Each           *)
(* materialization of the asset is a run: a consumer in the topic's group  *)
(* that polls, batches rows, appends each batch to the Iceberg table and   *)
(* then commits its offsets, and quarantines undecodable messages to the   *)
(* DLQ.  Dagster may execute several runs at once (one per partition key   *)
(* that is materialized); they share the consumer group.                   *)
(*                                                                         *)
(* External: the group coordinator, which redistributes the partitions     *)
(* among the live runs and makes each of them resume from the committed    *)
(* offsets; the broker's log; the Iceberg catalog.                         *)
(***************************************************************************)
EXTENDS Integers, FiniteSets

CONSTANTS
  Run,           \* materializations that may be live at once
  NoRun,
  Partition,     \* partitions of the topic
  MaxOffset,     \* bound on the length of any partition's log
  Logs,          \* the logs considered
  MaxBatch,      \* settings.bronze_batch_max_rows
  MaxRows        \* settings.bronze_max_rows_per_run

ASSUME BronzeAssumption ==
  /\ NoRun \notin Run
  /\ MaxOffset \in Nat
  /\ MaxBatch \in Nat \ {0}
  /\ MaxRows \in Nat \ {0}
  /\ \A l \in Logs : \A p \in Partition :
       \E n \in 0..MaxOffset : l[p] \in [0..n - 1 -> {"row", "bad"}]

Offset == 0..MaxOffset - 1
Msg == Partition \X Offset

VARIABLES
  log,          \* what each offset of each partition holds or will hold
  end,          \* log end offset of each partition
  committed,    \* committed offset of the group: the next one to read
  owner,        \* the run each partition is assigned to
  position,     \* the next offset its owner reads
  rejoin,       \* the membership of the group changed since it was assigned
  bronze,       \* messages in the Iceberg table
  dlq,          \* messages stored in the DLQ topic
  pc,           \* where each run is
  batch,        \* the rows of its BronzeBatch
  held,         \* len(batch): a row read again after a rebalance counts again
  eof,          \* eof_partitions
  archived,     \* rows it has archived
  leaving,      \* its loop is over: the flush under way is the last
  hand,         \* the undecodable message being quarantined
  unsent        \* DLQ messages in its producer's queue

brokerVars == <<log, end, committed, owner, position, rejoin>>
sinkVars == <<bronze, dlq>>
runVars == <<pc, batch, held, eof, archived, leaving, hand, unsent>>
vars == <<brokerVars, sinkVars, runVars>>

Phase == {"off", "poll", "append", "commit", "quarantine", "close"}
NoMsg == <<>>

TypeOK ==
  /\ log \in Logs
  /\ end \in [Partition -> 0..MaxOffset]
  /\ committed \in [Partition -> 0..MaxOffset]
  /\ owner \in [Partition -> Run \cup {NoRun}]
  /\ position \in [Partition -> 0..MaxOffset]
  /\ rejoin \in BOOLEAN
  /\ bronze \subseteq Msg
  /\ dlq \subseteq Msg
  /\ pc \in [Run -> Phase]
  /\ batch \in [Run -> SUBSET Msg]
  /\ held \in [Run -> 0..MaxBatch]
  /\ eof \in [Run -> SUBSET Partition]
  /\ archived \in [Run -> 0..MaxRows]
  /\ leaving \in [Run -> BOOLEAN]
  /\ hand \in [Run -> Msg \cup {NoMsg}]
  /\ unsent \in [Run -> SUBSET Msg]

Init ==
  /\ log \in Logs
  /\ end = [p \in Partition |-> 0]
  /\ committed = [p \in Partition |-> 0]
  /\ owner = [p \in Partition |-> NoRun]
  /\ position = [p \in Partition |-> 0]
  /\ rejoin = FALSE
  /\ bronze = {}
  /\ dlq = {}
  /\ pc = [r \in Run |-> "off"]
  /\ batch = [r \in Run |-> {}]
  /\ held = [r \in Run |-> 0]
  /\ eof = [r \in Run |-> {}]
  /\ archived = [r \in Run |-> 0]
  /\ leaving = [r \in Run |-> FALSE]
  /\ hand = [r \in Run |-> NoMsg]
  /\ unsent = [r \in Run |-> {}]

Live == { r \in Run : pc[r] # "off" }
Assigned(r) == { p \in Partition : owner[p] = r }

\* Whether decode_post makes a row of a message or a DlqRow.
IsRow(p, o) == log[p][o] = "row"

\* Mutant: forgets what is archived.
RoomInBatch(r) == held[r] < MaxRows

\* The loop condition: archived + len(batch) < bronze_max_rows_per_run.
Room(r) == archived[r] + held[r] < MaxRows

Goto(r, phase) == pc' = [pc EXCEPT ![r] = phase]

\* BronzeBatch: the highest offset of each partition, and the partitions.
Partitions(b) == { m[1] : m \in b }
IsHigh(b, p, o) == <<p, o>> \in b /\ \A m \in b : m[1] = p => m[2] <= o
HighOffset(b, p) == CHOOSE o \in Offset : IsHigh(b, p, o)

-----------------------------------------------------------------------------
(***************************************************************************)
(* Around the runs                                                         *)
(***************************************************************************)
Publish(p) ==
  /\ end[p] \in DOMAIN log[p]
  /\ end' = [end EXCEPT ![p] = @ + 1]
  /\ UNCHANGED <<log, committed, owner, position, rejoin, sinkVars, runVars>>

\* A member came or went: all partitions are handed out anew, and their fetch
\* positions come from the committed offsets.  No rebalance callback is
\* registered, so this happens under a run wherever it is, its batch unnoticed.
Rebalance ==
  /\ rejoin
  /\ rejoin' = FALSE
  /\ Live # {}
  /\ owner' \in [Partition -> Live]
  /\ position' = committed
  /\ UNCHANGED <<log, end, committed, sinkVars, runVars>>

\* The asset function is called: a consumer that subscribes, an empty batch.
Launch(r) ==
  /\ pc[r] = "off"
  /\ Goto(r, "poll")
  /\ rejoin' = TRUE
  /\ UNCHANGED <<log, end, committed, owner, position, sinkVars, batch, held, eof, archived,
                 leaving, hand, unsent>>

\* The run's consumer leaves the group and what it held in memory is gone.
End(r) ==
  /\ Goto(r, "off")
  /\ batch' = [batch EXCEPT ![r] = {}]
  /\ held' = [held EXCEPT ![r] = 0]
  /\ eof' = [eof EXCEPT ![r] = {}]
  /\ archived' = [archived EXCEPT ![r] = 0]
  /\ leaving' = [leaving EXCEPT ![r] = FALSE]
  /\ hand' = [hand EXCEPT ![r] = NoMsg]
  /\ unsent' = [unsent EXCEPT ![r] = {}]
  /\ owner' = [p \in Partition |-> IF owner[p] = r THEN NoRun ELSE owner[p]]
  /\ rejoin' = TRUE
  /\ UNCHANGED <<log, end, committed, position, sinkVars>>

Crash(r) == pc[r] # "off" /\ End(r)

-----------------------------------------------------------------------------
(***************************************************************************)
(* The consume loop                                                        *)
(***************************************************************************)
\* poll(1.0) returns the next message of an assigned partition.
Fetch(r, p) ==
  /\ pc[r] = "poll"
  /\ Room(r)
  /\ owner[p] = r
  /\ position[p] < end[p]
  /\ position' = [position EXCEPT ![p] = @ + 1]
  /\ eof' = [eof EXCEPT ![r] = @ \ {p}]
  /\ UNCHANGED <<log, end, committed, owner, rejoin, sinkVars, archived, leaving>>

\* A row joins the batch.
AddRow(r, p) ==
  /\ Fetch(r, p)
  /\ IsRow(p, position[p])
  /\ batch' = [batch EXCEPT ![r] = @ \cup {<<p, position[p]>>}]
  /\ held' = [held EXCEPT ![r] = @ + 1]
  /\ UNCHANGED <<hand, unsent>>

\* Mutant: should_flush looks at the clock only.
PollRowByTime(r, p) == AddRow(r, p) /\ (Goto(r, "append") \/ UNCHANGED pc)

\* should_flush is true when the batch is full, and may be when enough time has
\* passed.
PollRow(r, p) ==
  /\ AddRow(r, p)
  /\ \/ Goto(r, "append")
     \/ held[r] + 1 < MaxBatch /\ UNCHANGED pc

\* An undecodable message is handed to the DLQ producer, which only queues it.
PollBad(r, p) ==
  /\ Fetch(r, p)
  /\ ~IsRow(p, position[p])
  /\ hand' = [hand EXCEPT ![r] = <<p, position[p]>>]
  /\ unsent' = [unsent EXCEPT ![r] = @ \cup {<<p, position[p]>>}]
  /\ Goto(r, "quarantine")
  /\ UNCHANGED <<batch, held>>

PollEof(r, p) ==
  /\ pc[r] = "poll"
  /\ Room(r)
  /\ owner[p] = r
  /\ position[p] = end[p]
  /\ p \notin eof[r]
  /\ eof' = [eof EXCEPT ![r] = @ \cup {p}]
  /\ UNCHANGED <<brokerVars, sinkVars, pc, batch, held, archived, leaving, hand, unsent>>

\* poll returns nothing and the batch is old enough.
IdleFlush(r) ==
  /\ pc[r] = "poll"
  /\ Room(r)
  /\ batch[r] # {}
  /\ Goto(r, "append")
  /\ UNCHANGED <<brokerVars, sinkVars, batch, held, eof, archived, leaving, hand, unsent>>

\* Mutant: waits for every partition of the topic.
DrainedTopic(r) == eof[r] = Partition

Drained(r) == Assigned(r) # {} /\ Assigned(r) \subseteq eof[r]

\* poll returns nothing: the topic is drained, or the run has seen nothing at
\* all for _IDLE_STOP_SECONDS.
Break(r, idle) ==
  /\ pc[r] = "poll"
  /\ Room(r)
  /\ batch[r] = {}
  /\ Drained(r) \/ idle
  /\ Goto(r, "close")
  /\ UNCHANGED <<brokerVars, sinkVars, batch, held, eof, archived, leaving, hand, unsent>>

\* poll returns an error, or dlq.send raises: no flush on the way out.
Raise(r) ==
  /\ pc[r] = "poll"
  /\ Room(r)
  /\ Goto(r, "close")
  /\ UNCHANGED <<brokerVars, sinkVars, batch, held, eof, archived, leaving, hand, unsent>>

\* The row limit of the run is reached: the last flush, if there is anything.
LoopEnds(r) ==
  /\ pc[r] = "poll"
  /\ ~Room(r)
  /\ Goto(r, IF batch[r] = {} THEN "close" ELSE "append")
  /\ leaving' = [leaving EXCEPT ![r] = TRUE]
  /\ UNCHANGED <<brokerVars, sinkVars, batch, held, eof, archived, hand, unsent>>

\* Commit past the bad message: its offset, whatever the batch still holds.
PastHand(r) == [committed EXCEPT ![hand[r][1]] = hand[r][2] + 1]

CommitBad(r) ==
  /\ pc[r] = "quarantine"
  /\ committed' = PastHand(r)
  /\ hand' = [hand EXCEPT ![r] = NoMsg]
  /\ Goto(r, "poll")
  /\ UNCHANGED <<log, end, owner, position, rejoin, sinkVars, batch, held, eof, archived,
                 leaving, unsent>>

\* The commit raised; it may have been applied.
CommitBadFails(r) ==
  /\ pc[r] = "quarantine"
  /\ committed' \in {committed, PastHand(r)}
  /\ Goto(r, "close")
  /\ UNCHANGED <<log, end, owner, position, rejoin, sinkVars, batch, held, eof, archived,
                 leaving, hand, unsent>>

-----------------------------------------------------------------------------
(***************************************************************************)
(* flush: append, then commit                                              *)
(***************************************************************************)
Append(r) ==
  /\ pc[r] = "append"
  /\ bronze' = bronze \cup batch[r]
  /\ Goto(r, "commit")
  /\ UNCHANGED <<brokerVars, dlq, batch, held, eof, archived, leaving, hand, unsent>>

\* Mutant: the error of the append is swallowed.
AppendErrorSwallowed(r) ==
  /\ pc[r] = "append"
  /\ Goto(r, "commit")
  /\ UNCHANGED <<brokerVars, sinkVars, batch, held, eof, archived, leaving, hand, unsent>>

\* table.append raised; the catalog may have committed the snapshot.
AppendFails(r) ==
  /\ pc[r] = "append"
  /\ bronze' \in {bronze, bronze \cup batch[r]}
  /\ Goto(r, "close")
  /\ UNCHANGED <<brokerVars, dlq, batch, held, eof, archived, leaving, hand, unsent>>

\* Mutant: one is added twice.
CommitOffsetsTwice(b, parts) ==
  committed' = [p \in Partition |->
                  IF p \in parts THEN HighOffset(b, p) + 2 ELSE committed[p]]

\* Mutant: commits the offset it has read, as if it were the next one.
CommitOffsetsRead(b, parts) ==
  committed' = [p \in Partition |->
                  IF p \in parts THEN HighOffset(b, p) ELSE committed[p]]

\* The next-to-read offset of each partition of the batch.
CommitOffsets(b, parts) ==
  committed' = [p \in Partition |->
                  IF p \in parts THEN HighOffset(b, p) + 1 ELSE committed[p]]

Commit(r) ==
  /\ pc[r] = "commit"
  /\ CommitOffsets(batch[r], Partitions(batch[r]))
  /\ archived' = [archived EXCEPT ![r] = @ + held[r]]
  /\ batch' = [batch EXCEPT ![r] = {}]
  /\ held' = [held EXCEPT ![r] = 0]
  /\ Goto(r, IF leaving[r] THEN "close" ELSE "poll")
  /\ UNCHANGED <<log, end, owner, position, rejoin, sinkVars, eof, leaving, hand,
                 unsent>>

\* The synchronous commit raised; any part of it may have been applied.
CommitFails(r) ==
  /\ pc[r] = "commit"
  /\ \E parts \in SUBSET Partitions(batch[r]) : CommitOffsets(batch[r], parts)
  /\ Goto(r, "close")
  /\ UNCHANGED <<log, end, owner, position, rejoin, sinkVars, batch, held, eof, archived,
                 leaving, hand, unsent>>

\* The DLQ producer delivers in the background; its callback only logs.
Deliver(r, m) ==
  /\ m \in unsent[r]
  /\ unsent' = [unsent EXCEPT ![r] = @ \ {m}]
  /\ dlq' \in {dlq, dlq \cup {m}}
  /\ UNCHANGED <<brokerVars, bronze, pc, batch, held, eof, archived, leaving, hand>>

\* finally: dlq.flush waits for the queue or times out, nobody looks; close.
Close(r) == pc[r] = "close" /\ End(r)

-----------------------------------------------------------------------------
Loop(r) ==
  \/ \E p \in Partition : PollRow(r, p) \/ PollBad(r, p) \/ PollEof(r, p)
  \/ IdleFlush(r) \/ Break(r, FALSE) \/ LoopEnds(r)
  \/ CommitBad(r) \/ Append(r) \/ Commit(r) \/ Close(r)

Failure(r) ==
  \/ Raise(r) \/ CommitBadFails(r) \/ AppendFails(r) \/ CommitFails(r) \/ Crash(r)

Next ==
  \/ \E p \in Partition : Publish(p)
  \/ Rebalance
  \/ \E r \in Run : \/ Launch(r) \/ Loop(r) \/ Failure(r) \/ Break(r, TRUE)
                    \/ \E m \in unsent[r] : Deliver(r, m)

Spec == Init /\ [][Next]_vars

\* A launched run is scheduled, the group settles, and the idle backstop ends
\* a run that is assigned nothing.  New messages, launches, crashes, failures
\* and the delivery of quarantined messages are not owed.
Fairness ==
  /\ SF_vars(Rebalance)
  /\ \A r \in Run : WF_vars(Loop(r)) /\ WF_vars(Assigned(r) = {} /\ Break(r, TRUE))

FairSpec == Spec /\ Fairness

-----------------------------------------------------------------------------
(***************************************************************************)
(* Properties                                                              *)
(***************************************************************************)
Below(c) == { m \in Msg : m[2] < c[m[1]] }       \* the messages c has passed

\* An undecodable message was published after the offset.
BadAfter(p, o) == \E b \in Offset : o < b /\ b < end[p] /\ ~IsRow(p, b)

\* The row at the offset, if there is one, is in the set, or was followed by an
\* undecodable message.
Kept(p, o, set) == IsRow(p, o) => <<p, o>> \in set \/ BadAfter(p, o)

\* Only an undecodable message can cost a row: a row the group has committed
\* past is in bronze, or an undecodable message was published after it in its
\* partition.  Holds across crashes, failed or half-applied commits, failed
\* appends, rebalances and concurrent runs (bronze.py:7-9).
LossOnlyBehindBad ==
  \A p \in Partition : \A o \in Offset : o < committed[p] => Kept(p, o, bronze)

\* A rebalance can take a partition from a run and give it back with rows of
\* it still in its batch, and a late commit of another run can move the offset
\* under it.  A batch nevertheless has no hole: a row older than one it holds
\* is in it or in bronze, unless an undecodable message follows that row.  So
\* committing the highest offset of the batch skips nothing (batch.py:28-35).
BatchesHaveNoHole ==
  \A r \in Run : \A p \in Partition : \A h, o \in Offset :
    <<p, h>> \in batch[r] /\ o < h => Kept(p, o, bronze \cup batch[r])

\* To its readers the archiver is a table of rows, a topic of undecodable
\* messages and an offset that waits for the table: whatever the runs do to each
\* other, a commit is a step of its own after the append, no row is archived
\* that was not published or ever taken back, and nothing but undecodable
\* messages is quarantined (bronze.py:7-9, 74-82, 149-161).
Archive == INSTANCE DurableArchive WITH
  table <- bronze, quarantine <- dlq, offset <- committed

ArchiveSpec == Archive!Spec

\* A crash between append and commit replays a bounded batch (bronze.py:7-9):
\* with one run at a time, a partition never has more than one batch of
\* archived rows above its committed offset.
ReplayBounded ==
  \A p \in Partition :
    Cardinality({ m \in bronze : m[1] = p /\ committed[p] <= m[2] }) <= MaxBatch

\* With one run at a time, the group moves back over undecodable messages only:
\* the batch that was waiting while one was quarantined commits its own, older
\* offset, which costs a second quarantine and no second copy of a row, however
\* earlier commits failed (bronze.py:130-132, 154-161).
RegressOnlyOverBad ==
  [][\A p \in Partition : \A o \in committed'[p]..committed[p] - 1 : ~IsRow(p, o)]_vars

\* A run ends by itself once no other run is launched: it reaches its row limit
\* or drains the partitions it is assigned, however the group shuffled them
\* before, and whatever was published, quarantined or replayed meanwhile
\* (bronze.py:37-38, 87-92).
RunsEnd ==
  <>[][\A r \in Run : ~Launch(r)]_vars => \A r \in Run : pc[r] # "off" ~> pc[r] = "off"

-----------------------------------------------------------------------------
(***************************************************************************)
(* What LossOnlyBehindBad and BatchesHaveNoHole rest on                    *)
(***************************************************************************)
\* What its owner has read of a partition is archived or in its batch: a
\* position starts at the committed offset and moves one message at a time.
ReadIsKept ==
  \A r \in Run : \A p \in Partition : \A o \in Offset :
    owner[p] = r /\ o < position[p] => Kept(p, o, bronze \cup batch[r])

\* Offsets are committed after the append (bronze.py:80-82).
AppendedBeforeCommit == \A r \in Run : pc[r] = "commit" => batch[r] \subseteq bronze

\* The commit of the DLQ branch is past an undecodable message.
HandIsBad ==
  \A r \in Run : pc[r] = "quarantine" =>
    \E p \in Partition : \E o \in Offset : hand[r] = <<p, o>> /\ o < end[p] /\ ~IsRow(p, o)

\* A batch has a highest offset in each of its partitions.
BatchHasHigh ==
  \A r \in Run : \A p \in Partitions(batch[r]) : \E o \in Offset : IsHigh(batch[r], p, o)

\* A run reads only into a batch with room, and never past its own limit.
WithinLimits ==
  \A r \in Run : /\ archived[r] + held[r] <= MaxRows
                 /\ pc[r] \in {"off", "poll", "quarantine"} => held[r] < MaxBatch

\* What LossOnlyBehindBad and BatchesHaveNoHole rest on.
KeptIInv ==
  /\ TypeOK /\ WithinLimits
  /\ LossOnlyBehindBad /\ BatchesHaveNoHole
  /\ ReadIsKept /\ AppendedBeforeCommit /\ HandIsBad /\ BatchHasHigh

\* Nothing but rows joins a batch, and so the table.
OnlyRows ==
  /\ \A m \in bronze : IsRow(m[1], m[2])
  /\ \A r \in Run : \A m \in batch[r] : IsRow(m[1], m[2])

\* Nothing moves ahead of the log, its end included: neither a position, nor a commit, nor what a
\* batch, the table, the DLQ or its producer's queue holds.  What reaches the
\* DLQ is undecodable.
OnlyPublished ==
  /\ \A p \in Partition : \A o \in Offset : o < end[p] => o \in DOMAIN log[p]
  /\ \A p \in Partition : position[p] <= end[p] /\ committed[p] <= end[p]
  /\ \A m \in bronze : m[2] < end[m[1]]
  /\ \A r \in Run : \A m \in batch[r] : m[2] < end[m[1]]
  /\ \A m \in dlq : m[2] < end[m[1]] /\ ~IsRow(m[1], m[2])
  /\ \A r \in Run : \A m \in unsent[r] : m[2] < end[m[1]] /\ ~IsRow(m[1], m[2])

\* The inductive invariant.
IInv == KeptIInv /\ OnlyRows /\ OnlyPublished

\* Nobody materializes two partition keys of the asset at once.
OneRun == \A r, s \in Run : r = s

\* A run that is alone is rebalanced once, before it reads: it holds nothing
\* while it is off or waits for its partitions.
IdleHoldsNothing ==
  \A r \in Run : pc[r] = "off" \/ rejoin => batch[r] = {} /\ Assigned(r) = {}

\* Its partitions are committed no further than it has read.
CommittedIsRead ==
  \A r \in Run : \A p \in Partition : owner[p] = r => committed[p] <= position[p]

\* Its batch is the last rows it has read of each partition.
BatchIsLatest ==
  \A r \in Run : \A p \in Partition : \A h \in Offset : <<p, h>> \in batch[r] =>
    /\ owner[p] = r /\ h < position[p]
    /\ \A o \in Offset : h < o /\ o < position[p] /\ IsRow(p, o) => <<p, o>> \in batch[r]

\* The bad message in its hand is the last message it has read.
HandIsLatest ==
  \A r \in Run : pc[r] = "quarantine" =>
    \E p \in Partition : \E o \in Offset :
      hand[r] = <<p, o>> /\ owner[p] = r /\ position[p] = o + 1

\* What RegressOnlyOverBad rests on, besides IInv: one run at a time.
PositionIInv == IdleHoldsNothing /\ CommittedIsRead /\ BatchIsLatest /\ HandIsLatest

\* The rows of a partition between two offsets.
RowsIn(p, from, to) ==
  { m \in Msg : m[1] = p /\ from <= m[2] /\ m[2] <= to /\ IsRow(p, m[2]) }

\* The size of a batch is at most what the run counts.
HeldCounts == \A r \in Run : IsFiniteSet(batch[r]) /\ Cardinality(batch[r]) <= held[r]

\* What a run has read and not committed is in its batch.
ReadIsHeld ==
  \A r \in Run : \A p \in Partition : \A o \in Offset :
    owner[p] = r /\ committed[p] <= o /\ o < position[p] /\ IsRow(p, o) => <<p, o>> \in batch[r]

\* From the committed offset to any archived row there is at most one batch of
\* rows, archived or not.
OneBatchAbove ==
  \A m \in bronze : committed[m[1]] <= m[2] =>
    LET rows == RowsIn(m[1], committed[m[1]], m[2])
    IN  IsFiniteSet(rows) /\ Cardinality(rows) <= MaxBatch

\* What ReplayBounded rests on.
ReplayIInv == HeldCounts /\ ReadIsHeld /\ OneBatchAbove

OneIInv == PositionIInv /\ ReplayIInv

-----------------------------------------------------------------------------
(***************************************************************************)
(* What the repository says, and the code does not do                      *)
(***************************************************************************)
\* bronze.py:7-8 and README.md:120: offsets are committed only after the
\* append, and a crash in between replays the batch.  So a row the group has
\* committed past is archived or still held by a live run.
NoRowIsLost ==
  \A m \in Below(committed) :
    IsRow(m[1], m[2]) => m \in bronze \/ \E r \in Run : m \in batch[r]
=============================================================================

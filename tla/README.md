# A TLA+ model of bluesky-trends

The repository moves Bluesky events through two pipelines that share Kafka. The
streaming one (v1) reads the Jetstream firehose, validates every event, produces
it to Kafka and checkpoints a cursor in Postgres; ClickHouse consumes the topics.
The batch one (v2) archives the topics to Iceberg (bronze), lands the new rows in
ClickHouse and builds staging and mart tables with dbt. What the project promises
about them is a short list that tests hardly reach: a cursor that never skips an
unstored event, offsets committed only after the append, nothing malformed
dropped in silence, replays that are bounded and absorbed downstream.

This directory models the parts that decide whether those promises hold, checks
them with TLC and proves the central ones with TLAPS.

## The system

| component | state | operations | what is hard |
|---|---|---|---|
| parse boundary (`ingest/parse.py`, `ingest/main.py`) | none | `to_model`, the except clauses of `_consume` | which exception wins, and which clause catches it |
| cursor checkpointer (`ingest/main.py`, `ingest/cursor_store.py`) | `_pending_acks`, the watermark, the last saved cursor, the count since the last save; the row in Postgres | `register`, `on_ack`, `maybe_save`, `final_save` | reports out of order, failed deliveries, saves with an unknown outcome, restarts |
| Jetstream client (`ingest/jetstream_client.py`) | `latest_cursor`, the connection, the backoff attempt | connect, resume, yield, back off, reconnect | the cursor moves before the event is yielded; inclusive or exclusive replay; frames that cannot be read; when the backoff resets |
| Kafka producer (`ingest/producer.py`) | librdkafka's local queue | `produce`, `produce_dlq`, `poll`, `flush` | a full queue, reports served inside a retry, delivered although reported as failed |
| ingest service (`ingest/main.py`) | the task, the stop event | `run`, `_consume`, `main` | everything above interleaved, graceful and hard stops |
| schemas (`schemas`, `transforms`, `resources/kafka.py`) | none | pydantic models, Avro, rows, batches, Iceberg and ClickHouse columns, `decode_*` | eight copies of each shape by hand, kept in lockstep by care |
| bronze archivers (`assets/bronze*.py`, `transforms/batch*.py`, `dlq.py`, `resources/kafka.py`) | the batch, the EOF set, counters; committed offsets, the Iceberg table, the DLQ | poll, add, flush (append, commit), quarantine, stop | crash between append and commit, partial commits, commit past a bad message, rebalances among concurrent materializations, termination |
| landing (`assets/landing*.py`) | the ClickHouse landing table | read the high-water mark, scan bronze, insert in blocks | rows stamped earlier and appended later, partial inserts |
| staging and marts (`dbt/models`) | incremental tables | append the rows above a watermark, re-aggregate a trailing window | late and future-dated events, duplicates, aggregates that vanish |
| v1 ClickHouse sink (`clickhouse/init/001_posts.sql`) | Kafka engine, materialized views, ReplacingMergeTree | DDL only | replays absorbed by merges |
| checks, definitions, resources, metrics, dev tools | none | | |

How they meet: the loop of `_consume` calls the client, the parser, the
checkpointer and the producer in turn on one asyncio task. librdkafka's delivery
reports call the checkpointer back, but only inside `poll` and `flush`. The cursor
in Postgres is all that survives the process. The bronze archivers and ClickHouse
read what the producer wrote, in consumer groups of their own. Each stage of v2
reads the table of the stage before it.

What makes each component correct:

* parse boundary: exactly the well-formed creates are produced; a malformed one is
  quarantined, never skipped;
* checkpointer: the watermark is the end of the longest acknowledged prefix,
  whatever the order of the reports; a failure pins it unless the event comes again;
* service: no event at or below the persisted cursor is unstored; the cursor never
  regresses; a stop ends the process; a drained stop repeats at most the event at
  the saved cursor; a hard kill repeats, up to the first unacknowledged event, less
  than one checkpoint interval;
* bronze: no row below the committed offset is missing from the table; what is
  replayed is bounded; an undecodable message stays passed; a run ends;
* client: the cursor never gets ahead of what was yielded; the waiting grows with
  the failures and with nothing else; what is owed is yielded in the end;
* schemas: whatever the service produces passes every shape on its way and keeps
  its content;
* landing, staging, marts: what a watermark skips has a nameable cause; a mart is
  the aggregate of its staging table.

## Modules

| module | models |
|---|---|
| `Parse` | `to_model` and the except clauses, as pure operators over the shape of an event |
| `Schemas` | every shape of posts, likes and follows and the conversions between them, as data and operators |
| `ParseBoundary`, `ParseBoundary_proofs` | one arbitrary event through the boundary and, if it is produced, on to staging, compared with a reference reading |
| `Checkpointer` | `_CursorCheckpointer`: state and operations, for the modules below |
| `Deliveries` | what the two modules below are fed with: events in stream order, some of them again, and one report for each delivery |
| `CheckpointerLoop`, `CheckpointerLoop_proofs` | the class as written: the dict, `on_ack`'s early returns, the loop one iteration a step; implements `CheckpointerHistory` |
| `CheckpointerHistory`, `CheckpointerHistory_proofs` | `Checkpointer`'s operations alone, fed with the same, against the whole history of its process |
| `JetstreamClient` | `events` as the service sees it, and the Jetstream server as an immutable stream |
| `Reconnect`, `Reconnect_proofs` | `events` in full: phases, backoff, unreadable frames, cancellation; implements `JetstreamClient` |
| `IngestProducer` | the local queue, the broker, delivery reports |
| `Ingest` | the service: composes `Parse`'s outcomes, `Checkpointer`, `JetstreamClient` and `IngestProducer` with the task, signals and crashes |
| `DurableCursor` | what the service promises: an abstract log and cursor |
| `IngestInductive`, `Ingest_proofs` | the inductive invariant of `Ingest` and the theorems |
| `Bronze`, `Bronze_proofs`, `BronzeOne_proofs` | the archiver's consume loop, its consumer group, Iceberg and the DLQ |
| `DurableArchive` | what the archiver promises: a table, a quarantine and offsets that outlive its runs |
| `Marts` | the queries of landing, staging and marts as operators over sets of rows |
| `Warehouse`, `Warehouse_proofs` | archivers, loads and dbt builds side by side, for one vertical |
| `MCIngest`, `MCReconnect`, `MCBronze`, `MCWarehouse` | the instances TLC checks |

Definitions that begin with "Mutant:" in their comment are plausible bugs of the
definition that follows them. No action uses them: substituted for that
definition, each makes a property fail, which is how the properties are known to
say something about the code.

### Ingest and the code

`pc` is where the task is. `recv` awaits the next event, and the client connects
and reconnects only there, for the generator runs only when the loop asks it
for an event. `enqueue` and `retry` are the
two halves of `_enqueue`'s loop, `poll` is `poll(0)`, `save` is `maybe_save`,
`drain` and `final` are the finally clause, `down` is no process. Each `await` and each
call that serves callbacks is a step of its own, so the broker, the firehose,
the operator and crashes fit between any two of them.

* `_pending_acks` (cursor to bool) is kept as two sets: `outstanding` (False)
  and `acked` (True). The sorted loop that deletes keys up to the first False is
  the set of acknowledged cursors below every outstanding one. `CheckpointerLoop`
  keeps the dict and takes the loop one iteration a step; its property `FoldsAtOnce`
  says that it implements the operations `Ingest` is composed of.
* A reconnect may deliver the last event again (`next'` in `Resume`), and then it is
  registered, produced and reported a second time; nothing in the model asks
  whether a cursor is new. `Deliveries` gives the checkpointer on its own the same
  surroundings: `Deliver` takes an event no earlier than any before it, up to
  `MaxDeliveries` times (a bound), and each delivery has its own report.
* The stream is fixed in the initial state and `head` says how much of it has been
  emitted. Positions are `time_us`, so positions are cursors. An event keeps what
  the loop can tell apart: the outcome of `to_model`, and whether `time_us` is an int.
* `next` is what the connection delivers next. A reconnect resumes at `latest` or
  right after it, as Jetstream may; without a cursor it joins the live end.
  `since` is auxiliary: nothing before it is owed.
* A message occupies a slot of the local queue until its report is served. A
  failed delivery may have been stored all the same. A save that raises may have
  been applied.
* `acksSinceSave` saturates at `CheckpointAcks`: the code only compares it with
  that setting. The clock (`cursor_checkpoint_seconds`) is nondeterministic.
* `serializer(...)` may raise before the first attempt (the registry is
  unreachable), which ends the loop like an exhausted retry.
* `GeneratorRaises` is the overflow that `reconnect_forever` finds: the exception of
  the generator takes the loop to its finally clause. `Ingest` does not count the
  failed connections before it, so it may come whenever none is open.

### Bronze and the code

`pc[r]` is where run `r` is: `poll`, `append` and `commit` (the two halves of
`flush`), `quarantine` (the commit after `dlq.send`), `close` (the finally
clause), `off`. `batch` is the set of rows of its `BronzeBatch` and `held` their
number, which differ when a rebalance makes a run read a row again. `leaving`
marks the flush after the loop. No rebalance callback is registered, so a
rebalance replaces the assignment and the fetch positions without touching batch
or EOF set, wherever the run is. A raised append or commit may have been applied,
a commit of several partitions in part. Whether a message decodes is fixed per
message in `log`, and partitions may differ in length. Likes and follows run the
same loop over another topic, group and table; the instances of `Bronze` stand
for any one of the three.

### Schemas, parsing and the code

A shape maps columns to a type and whether null is allowed; a value is what the
steps tell apart (a datetime with or without a zone, null, an empty list). Each
vertical is a record of its wiring: topic, Avro schema, model, row, batch, arrow
schema, Iceberg table, landing columns, staging model. `ParseBoundary` lets any
consumer whose input is the record's present place take it, so a wrong topic or a
missing column shows as a record that stops on the way. Its fairness asks where
records go, not when.

### Reconnect and the code

`phase` is where the generator is. `attempt`, `delay` and `cursor` are its
variables; `failures`, `yielded` and `since` are auxiliary. Delays are in tenths
of a unit, so that the jitter of 20% stays an integer; of the interval it draws
from, the two ends and the middle are kept. `MaxExponent` stands for 1024, the
first exponent whose power of two is no float. A restart begins from any cursor
up to the last, for the checkpoint lags behind.

### Warehouse and the code

One vertical stands for three: the assets and models differ in their columns,
which `Schemas` has. A row is stamped with `ingest_ts` when it is decoded, and the
stamps are distinct (two archivers stamping in the same microsecond are left
out). `held` is what an archiver has decoded and not appended: a `Flush` may come
at any time after it, or never, which is an archiver that crashed. `Load` is one
step because only the load changes the landing table between its reading of the
mark and its first block; the blocks come in any order, as the Iceberg scan gives
none. Neither loads nor builds overlap among themselves; a load, a build and
any number of appends do. A build is staging, then mart; a test or a model
may fail in between. ClickHouse is external: an insert that fails leaves any part
of its rows, `FINAL` keeps the newest version of a key, a `Date` is unsigned and
wraps (`DayModulus` stands for 2^16). `late`, `torn`, `overtaken`, `tardy`, `cut`,
`wrapped` and `current` are auxiliary: they record why a row may be missing.

## Runs

All bounds are CONSTANTs in the `.cfg` files; symmetry is used for safety only, over
queue slots, runs and partitions, which are interchangeable.

| run | bounds | shows |
|---|---|---|
| `parse_boundary` | none: every shape | what is produced and quarantined; what is produced reaches its staging table unchanged; `IInv` |
| `checkpointer_loop` | 4 cursors, each delivered up to 3 times, cadence 3 | the loop of the code, one iteration a step, implements the fold at once; the watermark depends on what succeeded and never on when; what has failed and does not come again pins it |
| `ingest_safety` | 5 streams of 3 events, of 4 kinds, 2 slots, 1 retry, cadence 2 | all safety properties, `IInv`, the refinement of `DurableCursor` |
| `ingest_stop` | 2 events, 2 slots | a stop request ends the process once events are offered |
| `reconnect` | every stream of 3 frames, backoff 1 to 4, exponent 4 | the cursor, the waiting, the progress of the client; it implements `JetstreamClient` |
| `bronze_one` | 1 run at a time, 2 partitions of 3 messages, batch 2, run limit 4 | no row is lost but ahead of a bad message; the replay is one batch; the group moves back over bad messages only |
| `bronze_two` | 2 runs, 2 partitions, one of 2 messages (rows, or a row and a bad one) and one empty, batch 2, run limit 3 | concurrent runs implement `DurableArchive`; batches have no hole; runs end |
| `warehouse` | 2 archivers, 3 rows of 3 kinds of record, blocks of 2, dates modulo 10 | what the two watermarks skip, and what the mart's window leaves behind |

Why these bounds are enough to see the interesting cases. Three events make a gap
with an acknowledged event on each side; two slots let two deliveries be reported
in either order while a third event waits for room, so the queue fills, and an old
failure pins what later slots acknowledge. Cadence 2 lies strictly between one
acknowledgement and all of them. Four cursors and three deliveries of each let a
cursor that failed come back and succeed, and one that was folded come back and fail,
with a gap below it and an acknowledged cursor above it. Restarts and reconnects are not bounded: the
model has no counter for them. With an initial backoff of 1 the cap of 4 is
reached before the exponent 4 overflows. In Bronze a batch of 2 and 3 messages put
a flush, a bad message and a later row in one partition; the run limit of 4 is
met in the middle of a batch and at its end. With two runs, an empty partition
gives the second run something to be assigned, so a rebalance moves the busy
one. In the warehouse three stamps let one row be appended late, one be torn and
one be new; the three records are a day so old that a window below it wraps, and one
key written for two days, so rows are replayed, moved and left behind the window.
The theorems remove these bounds for what they state.

`CHECK_DEADLOCK FALSE` appears only where the instance really finishes: the
parse boundary at the end of its record's way, the checkpointer once everything is
reported and saved, the warehouse once its `MaxRows` stamps are used up and all
is built.

### Divergences

Each of these runs checks one statement of the repository and TLC shows a
behaviour of the code that contradicts it.

| run | says | does |
|---|---|---|
| `parse_never_drops` | `main.py:151-152`: missing or wrong-typed fields, never drop | pydantic's `ValidationError` is a `ValueError`, caught by the first clause and skipped |
| `bronze_row_lost` | `bronze.py:7-8`: append, then commit | the commit past a bad message covers rows of its partition that are still in memory |
| `landing_once` | `landing.py:3`: crosses the boundary exactly once | after a failed block, or an append by a second run, the mark is above rows that never crossed |
| `reconnect_forever` | `jetstream_client.py:51`: reconnecting forever | `2**attempt` times a float overflows at attempt 1024, before `min` caps it, and ends the service |

Met while modelling, with no run of their own:

* A failed delivery "permanently pins the watermark" by `main.py:63-64`. If the
  connection drops right after that event and the server replays inclusively, the
  event comes again (`jetstream_client.py:60-69`), `setdefault` finds its key, and a
  success folds it. `FailurePins` is what remains: from the moment a later event has
  been taken, a cursor without a success is pinned for good.
* The other way round, a folded cursor that is delivered again is registered again
  (`main.py:79`). While that delivery is open the watermark stays at it although
  later events are confirmed, and if it fails for good, until the process ends: the event is
  stored, and nothing is lost by it. `WatermarkIsLongestAckedPrefix` excepts this case.
* The replay after a hard kill is "bounded by the checkpoint cadence"
  (`VERIFY.md:83-84, 123-125`). It is so up to the first unacknowledged event
  (`ReplayWindowBounded`). A failed delivery leaves the watermark below it while the
  service runs on, and the kill repeats everything since, however much of it is
  acknowledged.
* A graceful stop is followed by "no duplicate overlap" (`VERIFY.md:104`). The saved
  cursor is that of the last event stored, and a server that replays from it
  inclusively sends this event again: `GracefulStopRepeatsAtMostOne`. Malformed
  events after it, which have no cursor in the dict, are quarantined again.
* The stop event is looked at when the next event arrives (`main.py:138`): on a
  silent stream Ctrl-C, a graceful stop by `README.md:95`, waits for one.
* The cursor passes a malformed event before the delivery of its DLQ message, whose
  failure is only logged (`main.py:153`; "never dropped" at `main.py:6`). The
  archiver likewise passes an undecodable message once it is queued for the DLQ
  and not once it is stored (`dlq.py:59`, `bronze.py:131`).
* The commit past an undecodable message exists so that "a rerun doesn't re-DLQ
  it" (`bronze.py:130`); the next flush commits the older offset of the batch's
  rows. `RegressOnlyOverBad` is what remains.
* A service that ends before its first save leaves no row, so the next one joins the
  live end and what the first left outstanding is not replayed, although
  `main.py:63-65` says "on restart we replay from there"; `NoGap` counts nothing
  before that join as owed (`since`).
* A clean close reconnects with no delay (`jetstream_client.py:58`).
* A mart built without a row after the second day of the epoch stays as it is: two
  days before its `max(day)` wrap to 2149, and no incremental build selects
  anything again. One that is born empty is the case that happens: its `max(day)`
  is the epoch; a `createdAt` is what a client writes, so a first day of 1970 is the
  other (`wrapped`).
* The freshness check compares a date that clients write, so one event dated in the
  future satisfies it until that date has passed (`checks.py:31-34`). The null-rate
  check of staging is meant to block what is downstream, and the one `dbt build`
  that makes staging goes on to make the mart (`assets/dbt.py`).
* A `createdAt` without a zone is accepted by the model and read as local time by
  the serializer, although `producer.py:48` asks for aware ones.
* Two first materializations may both find the table absent (`iceberg.py:49`).

`NoGap`, `LossOnlyBehindBad` and the two `Skipped...ForACause` are what remains
true beside them: the cursor of the service never skips an event that belongs in
a typed topic; a row is lost in bronze only when an undecodable message follows
it; landing and staging skip a row only for an append out of order, an overlap or a
failed insert.

## Fairness

*Ingest.* The asyncio task is weakly fair step by step: its awaits return (a save
succeeds or raises, `flush` has a timeout, a retry waits half a second). A
connection attempt eventually succeeds. Receiving is strongly fair: an event that is
offered again and again is received although the connection drops in between.
The firehose, the broker, the operator, failures and restarts are not fair. A stop
on a stream that never offers another event is not honoured, so
`StopEndsTheProcess` excludes exactly that case.

*Reconnect.* The event loop runs the generator: a connection that can be opened is,
a frame that is there is taken, a sleep ends (`WF(Generator)`). Nothing is asked
of the server: `OwedIsYielded` has as its premise that failures, closes and
restarts cease, for a server that drops every connection delivers nothing.

*Bronze.* A launched run is scheduled; the group settles (strongly fair rebalance,
because membership changes may interrupt it); the idle backstop ends a run that
is assigned nothing. The backstop is not assumed for a run that has partitions,
so it is `drained()` and the row limit that end it. `RunsEnd` assumes that launches
stop, for a group that is rebalanced for ever makes a run see new EOFs for ever.

*Parse boundary.* Every asset that could take the record is materialized some
time. Warehouse states no liveness: nothing but a person or a schedule starts a
load.

## Proofs

Each `_proofs` module proves that its inductive invariant (`IInv`) holds in the
initial states and is kept by every step, one step of the proof per action, and
derives the properties from it. TLC checks the same invariant in a run. The
constants are arbitrary within the named assumptions.

| module | theorem states | assumes |
|---|---|---|
| `Ingest_proofs` | `TypeOK`, `IInv`, `NoGap`, `Tracked`, `WatermarkIsMaximal`, `CursorMonotone`, `GracefulStopRepeatsAtMostOne`, `ReplayWindowBounded`, `DurableCursorSpec` | `StreamAssumption`, `CheckpointAcksAssumption`, `SlotAssumption`, `RetriesAssumption` |
| `CheckpointerHistory_proofs` | `IInv`, `TypeOK`, `WatermarkIsLongestAckedPrefix`, `FailurePins`, of the checkpointer that folds at once | `DeliveriesAssumption`, `CheckpointAcksAssumption` |
| `CheckpointerLoop_proofs` | `IInv`, `TypeOK`, `WatermarkIsLongestAckedPrefix`, `FailurePins`, `FoldsAtOnce` | `DeliveriesAssumption`, `CadenceAssumption` |
| `Reconnect_proofs` | `IInv`, `TypeOK`, `BacksOff`, `CursorCoversYielded`, `GivesUpOnlyUnreachable`, `Implements` | `ReconnectAssumption` |
| `Bronze_proofs` | `IInv`, `TypeOK`, `LossOnlyBehindBad`, `BatchesHaveNoHole`, `ArchiveSpec`; `NoRowIsLost` where every message decodes | `BronzeAssumption` |
| `BronzeOne_proofs` | `OneIInv`, `RegressOnlyOverBad`, `ReplayBounded` | `BronzeAssumption`, and one run at a time (`OneRun`) |
| `Warehouse_proofs` | `RowsIInv`, `SkippedByLandingForACause`, `SkippedByStagingForACause`, `IInv`, `TypeOK`, `MartIsTheAggregate` | `WarehouseAssumption` |
| `ParseBoundary_proofs` | `IInv`, `TypeOK`, `ProducesExactlyTheSound`, `MissingFieldIsQuarantined`, `StagedIsWhatWasProduced`; that the shapes agree (`InLockstep`) | nothing: the module has no constants |

### Ingest

`Ingest_proofs` proves, for every stream, number of events, queue, cadence and
retry bound, with no assumption but the types of the constants
(`StreamAssumption`, `CheckpointAcksAssumption`, `SlotAssumption`,
`RetriesAssumption`):

* `TypeCorrect`, `Inductive`;
* `NeverSkipsAGap` (`NoGap`), `NeverForgets` (`Tracked`), `WatermarkCatchesUp`
  (`WatermarkIsMaximal`);
* `CursorNeverRegresses` (`CursorMonotone`) and `GracefulStopsRepeatAtMostOne`, from
  the same invariant and a step;
* `ReplayIsBounded` (`ReplayWindowBounded`);
* `ImplementsDurableCursor`: initial states map to initial states, every step to a step
  of `DurableCursor` or a stutter.

`NoGap` is not inductive: a save copies the watermark, so the watermark must be
covered (`WatermarkCovered`); a fold moves the watermark to an acknowledged
cursor, so everything below a pending cursor must be stored or outstanding
(`PendingAccounted`) and an acknowledgement must mean storage (`AckMeansStored`);
a new cursor is registered above what the client has passed, so everything up
to `latest` must be accounted for (`Tracked`) and the connection must deliver
contiguously (`Contiguous`). `Ordered` chains the cursors (saved, persisted,
watermark, pending, latest), which is what keeps a save from moving backwards
after a restart. `HeldBackByOlder` and `Positioned` say that nothing taken is
forgotten in the other direction, for the watermark's maximality and the graceful
stop. `CursorIInv` is their conjunction, and the proof has one lemma per group of
actions that change the same state.

`ReplayWindowBounded` is a bound on a cardinality, and adds two conjuncts to it. An
event taken that is below every outstanding one is not acknowledged in the dict either
(`HeldBackByOlder`), so it has been folded (`Positioned`) and the bound is one on what
lies between the two cursors.
While the counter of `maybe_save` is below its threshold, the produced events
between the persisted cursor and the watermark are no more than it counts
(`FoldsCounted`): a fold counts each cursor it deletes, and by `Positioned` there is
nothing else between the old watermark and the new one; a save, successful or
not, leaves the two cursors together or ends the loop. The loop is back at the
stream only with no save due (`SaveNotOverdue`). `IInv` is all of this; TLC checks
it in `ingest_safety`.

### Checkpointer

What is registered is confirmed or outstanding (`Accounted`); the watermark is a
confirmed cursor with nothing outstanding below it, and whatever is acknowledged above
it is held back by an outstanding one (`WatermarkInPlace`). The two make it the end
of the confirmed prefix. A cursor that is delivered again is the last one
registered: it is pending, and `setdefault` leaves it as it is, or it has been folded,
and then it is the watermark itself. So only there can a cursor be confirmed and
outstanding at once, which is the one exception `Accounted` makes, and a success
for a cursor that is not pending finds nothing to fold. `FailurePins` is an action
property: a cursor that has failed stays outstanding, and once a later one has been
delivered it comes no more (`GivenUpStays`), so it is above the watermark before and
after each step.

That the loop of `_advance_watermark` computes this fold is not an equation about a
recursive function but a refinement (`LoopImplementsFold`), so it needs no
induction. In the middle of a report the loop shows as the state it will return
with: the fold applied to what the dict still holds. An iteration takes the least
acknowledged cursor below every outstanding one, which leaves that state as it was,
and is a stutter; so is the end of the loop. The report itself is the step of the
checkpointer that folds at once. The counter is compared as `Saturated`, for the
class counts on and the composed model stops at the cadence.

### Reconnect

`CursorCoversYielded` needs the open connection to deliver on from what was
yielded (`Contiguous`); `GivesUpOnlyUnreachable` needs `attempt` to count the
failures since a connection opened (`AttemptsCounted`). So does `BacksOff`: a sleep
is drawn around the capped `2^attempt`, and waking moves the counter and the
phase together. That `2^n` is a natural number, which the provers do not know of
`^`, is the lemma `PowerType`: it is the number of subsets of a set of `n`. With the
first two, every step is
one of `JetstreamClient` or a stutter: what `Ingest` is proved of holds with the
full client, whose end by overflow is `GeneratorRaises` of `Ingest`.

### Bronze

Every row below the position of a partition's owner is archived, in its batch,
or ahead of a bad message (`ReadIsKept`); what a run is about to commit is appended
(`AppendedBeforeCommit`) or is the bad message in its hand (`HandIsBad`); a batch
has a highest offset in each of its partitions, which is the one committed
(`BatchHasHigh`). So an offset that is committed covers archived rows, or lies
behind a bad message, with any number of runs and rebalances at any point.

`ImplementsArchive` says this to a reader who knows nothing of runs, batches and
assignments: the table, the DLQ and the offsets are a `DurableArchive`. It needs in
addition that what is archived, batched or in hand was published and is a row
(`OnlyPublished`, `OnlyRows`) and that no offset passes the end of its partition. An
append is a step of `Archive`, a commit, in whole or in part, one of `Commit`, a
delivery to the DLQ one of `Quarantine`; everything else a run does stutters.
`DecodableLosesNothing` is what is left when nothing is undecodable: the row that
`bronze_row_lost` shows lost needs a bad message, and neither crashes, failures nor
concurrent runs lose one without it.

`RegressOnlyOverBad` and `ReplayBounded` are about one run at a time (`OneRun`) and
have an invariant of their own, `OneIInv`. For the first, what is committed has been
read, and batch and hand are the latest that was (`PositionIInv`). For the second,
what a run has read past the commits is in its batch (`ReadIsHeld`), a batch is
no larger than its count, which `add` keeps at the limit (`HeldCounts`), and so
from the committed offset to any archived row lies at most one batch of rows
(`OneBatchAbove`): an append adds the batch alone, and a commit, in part or
backwards over a bad message, moves over no row that was not in it. The bound
follows for the last archived row of the partition.

### Warehouse

A mark skips the rows below it, so the invariant is about pairs of rows: whatever
is as old as a row that landed, or that the load under way still holds, has
landed, is held, or has a cause (`LandingOwes`); `StagingOwes` says the same one table
further. Rows have distinct stamps (`OneRowPerStamp`) and each table holds rows of
the one before (`Downstream`). That the mark is a maximum (it is a `CHOOSE`) is a
lemma from well-foundedness over finite ranges of stamps.

`MartIsTheAggregate` has one conjunct for each way the mart could differ from a
rebuild. A key is counted only where some row of staging puts it
(`CountedFromStaged`). A row the window has left behind is counted already, or has
been staged too late, moved or cut (`PastIsCounted`), which needs the window to
follow the newest day of the mart and not to wrap (`WindowInPlace`); a build that
succeeds counts the rest (`BuiltIsCounted`). The window does not shrink, for the
newest day of a mart never gets older: `Upsert` drops no cell.

### Parse boundary

The route is decided once (`Decided`), from a shape and a time that stay, so what is
produced and quarantined is a question about `to_model`'s order of checks and the
order of the except clauses: an event that lost a field raises `KeyError` whatever
else is wrong with it, and only the ingestable and sound ones come back as a model.
The order is in the operators as nested conditions and not as a `CASE`, whose value
is not determined when two of its guards hold, as those of `to_model` may.

`InLockstep` is the comment at `schemas/models.py:4-5` as a theorem. Each of the
fifteen shapes is put together from groups of columns in an order of its own; two
dictionaries say the kind of each column, one for messages and one for tables, in
which only `langs` differs. A shape that gives its columns the kinds of a dictionary
(`Of`) joined with another is again one (`Join`), so each shape follows from its
groups, and two shapes of one dictionary with the same columns are equal
(`SameShape`). From there a record is followed field by field: a model holds what its
columns allow (`ModelIs`, `Fitting`), what was serialized reads as it was
(`Decodes`), the row of what was read appends (`Archives`), the landing table takes
it (`Lands`), and no place of one collection is read by another (`Wiring`). Hence
`Carried`: whatever its optional fields hold, a produced record is at a place of its
own collection with every field of its model. Nothing on the way refuses it, which
is the safety half of `ProducedIsStaged`.

### Only model-checked

* Liveness (`StopEndsTheProcess`, `RunsEnd`, `OwedIsYielded`, `ProducedIsStaged`):
  it needs fairness and ENABLED.

## Not modelled

* The v1 sink (DDL; merges happen inside ClickHouse) and its dashboards.
* The asset checks: queries without state whose answers are reported. Dagster's
  wiring, resources and partition definitions of the assets; Iceberg's partition
  specs, and the limit on partitions per ClickHouse block (`002_v2_landing.sql:26`).
* Loads of one table that overlap each other, and builds that do: two loads insert
  the same rows twice, which staging's `FINAL` hides.
* The distinct counts of the marts (authors, likers, followers): aggregates over the
  same selected rows as the count that is modelled.
* `DlqEnvelope`, whose content nothing in the repository reads back.
* A single archiver run that loses its session and rejoins the group in the middle of a
  batch: in `Bronze` a rebalance needs a run that joins or leaves. The errors of single
  partitions that a synchronous commit returns without raising: `bronze.py:158-161`
  does not look at them.
* In the parts that are modelled: Avro bytes, URLs and JSON, Postgres pools, the
  rows of a batch beyond their partition and offset, transient failures of the
  bronze deserializer (`bronze.py:172` sends a good row to the DLQ when the
  registry is unreachable: in the model, a bad message).
* Metrics, log lines, the DLQ injection tool, the local stack.

## Plan

What would add most next:

1. Loads that overlap, with the duplicates staging removes.
2. The three archivers side by side on the DLQ, and the v1 sink's deduplication of what the
   service repeats.

--------------------------- MODULE ParseBoundary ---------------------------
(***************************************************************************)
(* One event on its way from the parse boundary of the ingest service to   *)
(* dbt staging, alone and without failures: TLC compares what the code     *)
(* decides with what the boundary is meant to decide for every shape of    *)
(* event, and passes every model that is produced through the hand-written *)
(* shapes and the wiring of its vertical.                                  *)
(***************************************************************************)
EXTENDS Parse, Schemas

VARIABLES
  shape,    \* the event's shape
  timed,    \* whether its time_us is an int
  route,    \* where _consume sent it; "none" before
  detail,   \* what its shape leaves open
  at,       \* the topic or table the record is in, or where it failed
  record    \* the record as it is there

vars == <<shape, timed, route, detail, at, record>>

Nowhere == "nowhere"
NoRecord == <<>>

Init ==
  /\ shape \in Shape
  /\ timed \in BOOLEAN
  /\ route = "none"
  /\ detail = [created |-> "utc", langs |-> "null", parent |-> "null", root |-> "null"]
  /\ at = Nowhere
  /\ record = NoRecord

-----------------------------------------------------------------------------
\* to_model of a sound event of this collection.
Model(collection, x) ==
  CASE collection = "post"   -> Post(x)
    [] collection = "like"   -> Like(x)
    [] collection = "follow" -> Follow(x)

\* _consume and IngestProducer.produce.
Produce ==
  /\ detail' \in Detail
  /\ LET ser   == Serializer[shape.collection]
         model == Model(shape.collection, detail')
     IN  IF Holds(model, ser.avsc)
           THEN at' = ser.topic /\ record' = Wire(model, ser.avsc)
           ELSE at' = "unserializable" /\ record' = NoRecord

Consume ==
  /\ route = "none"
  /\ route' = Route(ToModel(shape), timed)
  /\ IF route' = "produce" THEN Produce ELSE UNCHANGED <<detail, at, record>>
  /\ UNCHANGED <<shape, timed>>

\* A bronze archiver meets the message: deserialize with its own schema,
\* validate, decode, batch, append.
Archive(archiver) ==
  /\ at = archiver.topic
  /\ LET read == Wire(record, archiver.avsc)
         row  == Row(archiver, read)
     IN  IF ~(Holds(record, archiver.avsc) /\ Validates(read, archiver.model))
           THEN at' = "quarantined" /\ UNCHANGED record
           ELSE IF Appends(row, archiver.batch, archiver.arrow, archiver.iceberg)
                  THEN at' = archiver.table /\ record' = row
                  ELSE at' = "refused" /\ UNCHANGED record
  /\ UNCHANGED <<shape, timed, route, detail>>

\* A landing asset copies the row to ClickHouse.
Land(landing) ==
  /\ at = landing.from
  /\ IF Inserts(record, landing.columns, landing.table)
       THEN at' = landing.to /\ record' = Project(record, landing.columns)
       ELSE at' = "refused" /\ UNCHANGED record
  /\ UNCHANGED <<shape, timed, route, detail>>

\* dbt selects it into staging.
Stage(stg) ==
  /\ at = stg.source
  /\ at' = stg.to
  /\ record' = Project(record, stg.columns)
  /\ UNCHANGED <<shape, timed, route, detail>>

Next ==
  \/ Consume
  \/ \E archiver \in {PostsArchiver, LikesArchiver, FollowsArchiver} : Archive(archiver)
  \/ \E landing \in {PostsLanding, LikesLanding, FollowsLanding} : Land(landing)
  \/ \E stg \in Staging : Stage(stg)

Spec == Init /\ [][Next]_vars

\* Every asset that could take the record is materialized some time: this asks
\* where records go, not when.
FairSpec == Spec /\ WF_vars(Next)

-----------------------------------------------------------------------------
TypeOK ==
  /\ shape \in Shape
  /\ timed \in BOOLEAN
  /\ route \in Routes \cup {"none"}
  /\ detail \in Detail
  /\ \A c \in DOMAIN record : record[c] \in Value

\* The reference reading of the boundary, independent of the order in which
\* to_model looks at the fields.
Ingestable(s) ==
  /\ s.kind = "commit" /\ s.commit = "object"
  /\ s.operation = "create" /\ s.record = "object"
  /\ s.collection # "other"

Broken(s) ==
  \/ "missing" \in {s.did, s.common, s.payload}
  \/ "wrongtype" \in {s.did, s.common, s.payload}
  \/ s.payload = "notobject"

\* Only well-formed ingestable creates reach the typed topics: whatever the
\* order of the checks in to_model, no event with a broken field and no event
\* of another shape is produced, and every sound one with a cursor is.
ProducesExactlyTheSound ==
  route # "none" =>
    (route = "produce" <=> Ingestable(shape) /\ ~Broken(shape) /\ timed)

\* An ingestable create that lost a field (a lexicon change that renames or
\* drops one) is quarantined, whatever else is wrong with it: the comment at
\* ingest/main.py:151 as far as missing fields go.
MissingFieldIsQuarantined ==
  route # "none" /\ Ingestable(shape)
    /\ "missing" \in {shape.did, shape.common, shape.payload}
      => route = "dlq"

StagingOf == [post |-> "stg_posts", like |-> "stg_likes", follow |-> "stg_follows"]

\* The model, the Avro schema, the row, the batch, the two table schemas and
\* the landing table of a vertical are eight hand-written copies of one shape
\* (schemas/models.py:4-5, bronze_schema.py:3-9).  They agree, and each step
\* reads what the one before wrote: every model the service produces, optional
\* fields null or not, reaches the staging table of its own collection.
ProducedIsStaged ==
  route = "produce" ~> (route = "produce" /\ at = StagingOf[shape.collection])

\* What a null, an empty list and a datetime without a zone become.
Normal(v) == CASE v = "naive" -> "utc" [] OTHER -> v
Meant(column, v) == IF column = "langs" /\ v = "null" THEN "empty" ELSE Normal(v)

\* Nothing is lost or changed on the way: staging holds every field of the
\* model, langs null as the empty list and created_at as an instant.
StagedIsWhatWasProduced ==
  route = "produce" /\ at = StagingOf[shape.collection] =>
    LET model == Model(shape.collection, detail)
    IN  \A c \in DOMAIN model :
          c \in DOMAIN record /\ record[c] = Meant(c, model[c])

\* The route is decided once, from a shape and a time that stay.
Decided == route \in {"none", Route(ToModel(shape), timed)}

\* The topic and the tables of each collection.
WayOf == [post   |-> {"bsky.posts.v1", "bronze.posts", "posts_bronze_raw", "stg_posts"},
          like   |-> {"bsky.likes.v1", "bronze.likes", "likes_bronze_raw", "stg_likes"},
          follow |-> {"bsky.follows.v1", "bronze.follows", "follows_bronze_raw", "stg_follows"}]

\* A record is at a place of its own collection, holds every field of its model,
\* and between the archiver and staging also where it came from in Kafka.
Carried ==
  LET topic == Serializer[shape.collection].topic
      model == Model(shape.collection, detail)
  IN  IF route # "produce"
        THEN at = Nowhere /\ record = NoRecord
        ELSE /\ shape.collection \in DOMAIN WayOf
             /\ at \in WayOf[shape.collection]
             /\ \A c \in DOMAIN model :
                  /\ c \in DOMAIN record
                  /\ record[c] = IF at = topic THEN Normal(model[c]) ELSE Meant(c, model[c])
             /\ at \notin {topic, StagingOf[shape.collection]} =>
                  \A c \in DOMAIN Provenance : c \in DOMAIN record /\ record[c] = Provenance[c]

\* The inductive invariant.
IInv == TypeOK /\ Decided /\ Carried

\* The comment at ingest/main.py:151-152 in full: an ingestable create with
\* missing or wrong-typed fields is never dropped.
MalformedIsNeverDropped ==
  route # "none" /\ Ingestable(shape) /\ Broken(shape) => route # "skip"
=============================================================================

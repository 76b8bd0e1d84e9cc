------------------------------ MODULE Schemas ------------------------------
(***************************************************************************)
(* The shapes one record takes from the ingest service to dbt staging: the *)
(* pydantic model, the Avro schema, the bronze row, the pyarrow batch, the *)
(* Iceberg table, the ClickHouse landing table and the staging model, for  *)
(* posts, likes and follows.  The repository writes each of them by hand   *)
(* and keeps them "in lockstep" (schemas/models.py:4-5).  No state.        *)
(*                                                                         *)
(* A shape maps each column to its type and whether it may be null.  A     *)
(* value is what the steps tell apart: a datetime with or without a zone,  *)
(* an empty list or one with elements, null.                               *)
(***************************************************************************)
\* The columns of both; a column they share is the first's.
f ++ g == [c \in DOMAIN f \cup DOMAIN g |-> IF c \in DOMAIN f THEN f[c] ELSE g[c]]

Value == {"string", "naive", "utc", "empty", "list", "int", "null"}

TypesOf(v) ==
  CASE v \in {"naive", "utc"}  -> {"time"}
    [] v \in {"empty", "list"} -> {"list"}
    [] v = "int"               -> {"int", "long"}
    [] OTHER                   -> {v}

Req(names, type) == [n \in names |-> [type |-> type, null |-> FALSE]]
Opt(names, type) == [n \in names |-> [type |-> type, null |-> TRUE]]

Fits(v, column) == IF v = "null" THEN column.null ELSE column.type \in TypesOf(v)

\* A dict in a shape: no required column is missing and every value fits.
Holds(dict, shape) ==
  \A c \in DOMAIN shape : Fits(IF c \in DOMAIN dict THEN dict[c] ELSE "null", shape[c])

Project(dict, names) == [c \in names |-> dict[c]]

-----------------------------------------------------------------------------
(***************************************************************************)
(* ingest: to_model, the models, the Avro schemas                          *)
(***************************************************************************)
Event == Req({"did", "rkey", "cid"}, "string") ++ Req({"created_at"}, "time")

BskyPost == Event ++ Req({"text"}, "string") ++ Opt({"langs"}, "list")
                  ++ Opt({"reply_parent", "reply_root"}, "string")
BskyLike == Event ++ Req({"subject_uri", "subject_cid"}, "string")
BskyFollow == Event ++ Req({"subject_did"}, "string")

\* What an event leaves open: pydantic reads a createdAt with or without a
\* zone, and a post may have no langs, an empty list, no reply.
Detail == [created : {"naive", "utc"}, langs : {"null", "empty", "list"},
           parent : {"null", "string"}, root : {"null", "string"}]

Common(x) == [did |-> "string", rkey |-> "string", cid |-> "string", created_at |-> x.created]

Post(x) == Common(x) ++ [text |-> "string", langs |-> x.langs,
                         reply_parent |-> x.parent, reply_root |-> x.root]
Like(x) == Common(x) ++ [subject_uri |-> "string", subject_cid |-> "string"]
Follow(x) == Common(x) ++ [subject_did |-> "string"]

AvroIdentity == Req({"did", "rkey", "cid"}, "string") ++ Req({"created_at"}, "time")

PostsAvsc == AvroIdentity ++ Req({"text"}, "string") ++ Opt({"langs"}, "list")
               ++ Opt({"reply_parent", "reply_root"}, "string")
LikesAvsc == AvroIdentity ++ Req({"subject_uri", "subject_cid"}, "string")
FollowsAvsc == AvroIdentity ++ Req({"subject_did"}, "string")

\* What comes back off the wire: the fields of the schema, null where the dict
\* has none.  A timestamp-micros is an instant; a datetime without a zone is
\* taken for local time.
Wire(dict, avsc) ==
  [c \in DOMAIN avsc |-> IF c \notin DOMAIN dict THEN "null"
                         ELSE IF dict[c] = "naive" THEN "utc"
                         ELSE dict[c]]

-----------------------------------------------------------------------------
(***************************************************************************)
(* bronze: decode, batch, append                                           *)
(***************************************************************************)
\* model_validate: extra="forbid", and every declared field is checked.
Validates(dict, model) == DOMAIN dict \subseteq DOMAIN model /\ Holds(dict, model)

Provenance == [kafka_partition |-> "int", kafka_offset |-> "int", ingest_ts |-> "utc"]

\* Mutant: a post without langs keeps its null.
RowOfPostKeepsNull(m) ==
  Project(m, {"did", "rkey", "cid", "created_at", "text", "langs", "reply_parent", "reply_root"})
    ++ Provenance

\* decode_post: langs is never null from here on.
RowOfPost(m) ==
  Project(m, {"did", "rkey", "cid", "created_at", "text", "reply_parent", "reply_root"})
    ++ [langs |-> IF m["langs"] = "list" THEN "list" ELSE "empty"]
    ++ Provenance
RowOfLike(m) ==
  Project(m, {"did", "rkey", "cid", "created_at", "subject_uri", "subject_cid"}) ++ Provenance
RowOfFollow(m) ==
  Project(m, {"did", "rkey", "cid", "created_at", "subject_did"}) ++ Provenance

\* to_arrow: the columns a batch fills.
BronzeBatch == {"did", "rkey", "cid", "created_at", "text", "langs", "reply_parent",
                "reply_root", "kafka_partition", "kafka_offset", "ingest_ts"}
LikesBatch == {"did", "rkey", "cid", "created_at", "subject_uri", "subject_cid",
               "kafka_partition", "kafka_offset", "ingest_ts"}
FollowsBatch == {"did", "rkey", "cid", "created_at", "subject_did",
                 "kafka_partition", "kafka_offset", "ingest_ts"}

Kafka == Req({"kafka_partition"}, "int") ++ Req({"kafka_offset"}, "long")

BronzeArrow ==
  Req({"did", "rkey", "cid", "text"}, "string") ++ Req({"created_at", "ingest_ts"}, "time")
    ++ Req({"langs"}, "list") ++ Opt({"reply_parent", "reply_root"}, "string") ++ Kafka
LikesArrow ==
  Req({"did", "rkey", "cid", "subject_uri", "subject_cid"}, "string")
    ++ Req({"created_at", "ingest_ts"}, "time") ++ Kafka
FollowsArrow ==
  Req({"did", "rkey", "cid", "subject_did"}, "string")
    ++ Req({"created_at", "ingest_ts"}, "time") ++ Kafka

BronzeIceberg ==
  Req({"did", "rkey", "cid"}, "string") ++ Req({"created_at"}, "time")
    ++ Req({"text"}, "string") ++ Req({"langs"}, "list")
    ++ Opt({"reply_parent", "reply_root"}, "string") ++ Kafka ++ Req({"ingest_ts"}, "time")
LikesIceberg ==
  Req({"did", "rkey", "cid"}, "string") ++ Req({"created_at"}, "time")
    ++ Req({"subject_uri", "subject_cid"}, "string") ++ Kafka ++ Req({"ingest_ts"}, "time")

FollowsIceberg ==
  Req({"did", "rkey", "cid"}, "string") ++ Req({"created_at"}, "time")
    ++ Req({"subject_did"}, "string") ++ Kafka ++ Req({"ingest_ts"}, "time")

\* pa.table and Table.append take the batch: it fills exactly the columns of
\* the arrow schema, with values that fit, and that schema has the names, the
\* types and the nullability of the table.
Appends(row, batch, arrow, iceberg) ==
  /\ batch = DOMAIN arrow /\ batch \subseteq DOMAIN row
  /\ Holds(row, arrow)
  /\ arrow = iceberg

-----------------------------------------------------------------------------
(***************************************************************************)
(* landing and staging                                                     *)
(***************************************************************************)
BronzeColumns == {"did", "rkey", "cid", "created_at", "text", "langs", "reply_parent",
                  "reply_root", "kafka_partition", "kafka_offset", "ingest_ts"}
LikesColumns == {"did", "rkey", "cid", "created_at", "subject_uri", "subject_cid",
                 "kafka_partition", "kafka_offset", "ingest_ts"}
FollowsColumns == {"did", "rkey", "cid", "created_at", "subject_did",
                   "kafka_partition", "kafka_offset", "ingest_ts"}

\* The landing tables; a null does not go into a column that is not Nullable.
PostsBronzeRaw ==
  Req({"did", "rkey", "cid", "text"}, "string") ++ Opt({"reply_parent", "reply_root"}, "string")
    ++ Req({"created_at", "ingest_ts"}, "time") ++ Req({"langs"}, "list") ++ Kafka
LikesBronzeRaw ==
  Req({"did", "rkey", "cid", "subject_uri", "subject_cid"}, "string")
    ++ Req({"created_at", "ingest_ts"}, "time") ++ Kafka
FollowsBronzeRaw ==
  Req({"did", "rkey", "cid", "subject_did"}, "string")
    ++ Req({"created_at", "ingest_ts"}, "time") ++ Kafka

\* insert_block of the selected columns.
Inserts(row, columns, table) ==
  /\ columns \subseteq DOMAIN row \cap DOMAIN table
  /\ Holds(Project(row, columns), table)

StgPosts == {"did", "rkey", "cid", "created_at", "text", "langs", "reply_parent",
             "reply_root", "ingest_ts"}

\* Mutant: the select list forgets the subject's uri.
StgLikesNoUri == {"did", "rkey", "cid", "created_at", "subject_cid", "ingest_ts"}

StgLikes == {"did", "rkey", "cid", "created_at", "subject_uri", "subject_cid", "ingest_ts"}
StgFollows == {"did", "rkey", "cid", "created_at", "subject_did", "ingest_ts"}

-----------------------------------------------------------------------------
(***************************************************************************)
(* The wiring: who writes what where, and who reads it                     *)
(***************************************************************************)
\* IngestProducer._serializers, by collection.
Serializer ==
  [post   |-> [topic |-> "bsky.posts.v1",   avsc |-> PostsAvsc],
   like   |-> [topic |-> "bsky.likes.v1",   avsc |-> LikesAvsc],
   follow |-> [topic |-> "bsky.follows.v1", avsc |-> FollowsAvsc]]

PostsArchiver ==
  [topic |-> "bsky.posts.v1", avsc |-> PostsAvsc, model |-> BskyPost, batch |-> BronzeBatch,
   arrow |-> BronzeArrow, iceberg |-> BronzeIceberg, table |-> "bronze.posts"]
LikesArchiver ==
  [topic |-> "bsky.likes.v1", avsc |-> LikesAvsc, model |-> BskyLike, batch |-> LikesBatch,
   arrow |-> LikesArrow, iceberg |-> LikesIceberg, table |-> "bronze.likes"]

\* Mutant: a copy of the likes archiver that still subscribes to their topic.
FollowsArchiverOfLikes ==
  [topic |-> "bsky.likes.v1", avsc |-> FollowsAvsc, model |-> BskyFollow, batch |-> FollowsBatch,
   arrow |-> FollowsArrow, iceberg |-> FollowsIceberg, table |-> "bronze.follows"]

FollowsArchiver ==
  [topic |-> "bsky.follows.v1", avsc |-> FollowsAvsc, model |-> BskyFollow, batch |-> FollowsBatch,
   arrow |-> FollowsArrow, iceberg |-> FollowsIceberg, table |-> "bronze.follows"]

\* decode_post, decode_like, decode_follow, by the model they validate.
Row(archiver, m) ==
  CASE archiver.model = BskyPost   -> RowOfPost(m)
    [] archiver.model = BskyLike   -> RowOfLike(m)
    [] archiver.model = BskyFollow -> RowOfFollow(m)

PostsLanding ==
  [from |-> "bronze.posts", to |-> "posts_bronze_raw",
   columns |-> BronzeColumns, table |-> PostsBronzeRaw]
LikesLanding ==
  [from |-> "bronze.likes", to |-> "likes_bronze_raw",
   columns |-> LikesColumns, table |-> LikesBronzeRaw]
FollowsLanding ==
  [from |-> "bronze.follows", to |-> "follows_bronze_raw",
   columns |-> FollowsColumns, table |-> FollowsBronzeRaw]

\* The dbt models and their sources.
Staging ==
  {[source |-> "posts_bronze_raw",   to |-> "stg_posts",   columns |-> StgPosts],
   [source |-> "likes_bronze_raw",   to |-> "stg_likes",   columns |-> StgLikes],
   [source |-> "follows_bronze_raw", to |-> "stg_follows", columns |-> StgFollows]}
=============================================================================

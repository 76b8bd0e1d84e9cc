------------------------ MODULE ParseBoundary_proofs ------------------------
(***************************************************************************)
(* What the parse boundary decides, from the order of the checks in        *)
(* to_model and of the except clauses in _consume; that the hand-written   *)
(* shapes of the three collections agree; and that a produced record       *)
(* reaches staging unchanged, by following it from shape to shape.         *)
(***************************************************************************)
EXTENDS ParseBoundary, TLAPS

\* to_model accepts exactly the ingestable events with no broken field.
LEMMA AcceptsTheSound ==
  ASSUME NEW s \in Shape
  PROVE  ToModel(s) = "model" <=> Ingestable(s) /\ ~Broken(s)
<1>1. CASE ~Ingestable(s)
  BY <1>1 DEF Shape, Field, ToModel, Ingestable
<1>2. CASE Ingestable(s)
  <2>1. s.did = "missing" => ToModel(s) # "model" /\ Broken(s)
    BY <1>2 DEF ToModel, Ingestable, Broken
  <2>2. s.did # "missing" => ToModel(s) = Construct(s)
    BY <1>2 DEF ToModel, Ingestable
  <2>3. Construct(s) = "model" /\ s.did # "missing" => ~Broken(s)
    BY DEF Shape, Field, Construct, PayloadRaises, Broken
  <2>4. ~Broken(s) => Construct(s) = "model"
    BY DEF Shape, Field, Construct, PayloadRaises, Broken
  <2> QED BY <1>2, <2>1, <2>2, <2>3, <2>4
<1> QED BY <1>1, <1>2

\* An ingestable event without one of its fields raises KeyError, which the
\* first except clause does not catch, whatever is wrong with the others.
LEMMA MissingFieldRaises ==
  ASSUME NEW s \in Shape, Ingestable(s), "missing" \in {s.did, s.common, s.payload}
  PROVE  ToModel(s) = "KeyError"
<1>1. CASE s.did = "missing"
  BY <1>1 DEF ToModel, Ingestable
<1>2. CASE s.did # "missing"
  <2>1. ToModel(s) = Construct(s)
    BY <1>2 DEF ToModel, Ingestable
  <2>2. CASE s.common = "missing"
    BY <2>1, <2>2 DEF Construct
  <2>3. CASE s.common # "missing" /\ s.payload = "missing"
    <3>1. PayloadRaises(s) = "KeyError"
      BY <2>3 DEF PayloadRaises
    <3> QED BY <2>1, <2>3, <3>1 DEF Construct
  <2> QED BY <1>2, <2>2, <2>3
<1> QED BY <1>1, <1>2

-----------------------------------------------------------------------------
(***************************************************************************)
(* The hand-written shapes.  Each is put together from groups of columns   *)
(* of one kind, in an order of its own; all of them give a column the kind *)
(* that two dictionaries say: one of messages, one of tables.              *)
(***************************************************************************)
Required(type) == [type |-> type, null |-> FALSE]
Nullable(type) == [type |-> type, null |-> TRUE]

Strings == {"did", "rkey", "cid", "text", "subject_uri", "subject_cid", "subject_did"}
Times == {"created_at", "ingest_ts"}
Replies == {"reply_parent", "reply_root"}
Columns == Strings \cup Times \cup Replies \cup {"langs", "kafka_partition", "kafka_offset"}

\* The tables, and the messages, where only langs differs.
Table == [c \in Columns |->
  CASE c \in Strings           -> Required("string")
    [] c \in Times             -> Required("time")
    [] c \in Replies           -> Nullable("string")
    [] c = "langs"             -> Required("list")
    [] c = "kafka_partition"   -> Required("int")
    [] c = "kafka_offset"      -> Required("long")]
Message == [c \in Columns |-> IF c = "langs" THEN Nullable("list") ELSE Table[c]]

\* The shape gives each of its columns the kind that C gives it.
Of(S, C) == S = [c \in DOMAIN S |-> C[c]]

\* Shapes of one dictionary join to a shape of it, with the columns of both.
LEMMA Join ==
  ASSUME NEW f, NEW g
  PROVE  /\ \A C : Of(f, C) /\ Of(g, C) => Of(f ++ g, C)
         /\ \A c : c \in DOMAIN (f ++ g) <=> c \in DOMAIN f \/ c \in DOMAIN g
<1>1. DOMAIN (f ++ g) = DOMAIN f \cup DOMAIN g
  BY DEF ++
<1>2. ASSUME NEW C, Of(f, C), Of(g, C) PROVE Of(f ++ g, C)
  <2>1. \A c \in DOMAIN (f ++ g) : (f ++ g)[c] = C[c]
    BY <1>2 DEF ++, Of
  <2>2. (f ++ g) = [c \in DOMAIN (f ++ g) |-> (f ++ g)[c]]
    BY DEF ++
  <2> QED BY <2>1, <2>2 DEF Of
<1> QED BY <1>1, <1>2

\* Columns of one kind are a shape of a dictionary that gives them this kind.
LEMMA ReqOf ==
  ASSUME NEW C, NEW names, NEW type, \A c \in names : C[c] = Required(type)
  PROVE  Of(Req(names, type), C)
BY DEF Req, Of, Required

LEMMA OptOf ==
  ASSUME NEW C, NEW names, NEW type, \A c \in names : C[c] = Nullable(type)
  PROVE  Of(Opt(names, type), C)
BY DEF Opt, Of, Nullable

LEMMA Named ==
  ASSUME NEW names, NEW type
  PROVE  DOMAIN Req(names, type) = names /\ DOMAIN Opt(names, type) = names
BY DEF Req, Opt

\* Two shapes of one dictionary with the same columns are the same shape.
LEMMA SameShape ==
  ASSUME NEW S, NEW C, NEW names, Of(S, C), DOMAIN S = names
  PROVE  S = Project(C, names)
BY DEF Of, Project

\* What the dictionaries say.
LEMMA Kinds ==
  /\ \A c \in Strings : Table[c] = Required("string") /\ Message[c] = Required("string")
  /\ \A c \in Times : Table[c] = Required("time") /\ Message[c] = Required("time")
  /\ \A c \in Replies : Table[c] = Nullable("string") /\ Message[c] = Nullable("string")
  /\ Table["langs"] = Required("list") /\ Message["langs"] = Nullable("list")
  /\ Table["kafka_partition"] = Required("int")
  /\ Table["kafka_offset"] = Required("long")
<1>1. \A c \in Strings : Table[c] = Required("string") /\ Message[c] = Required("string")
  BY DEF Table, Message, Columns, Strings, Times, Replies
<1>2. \A c \in Times : Table[c] = Required("time") /\ Message[c] = Required("time")
  BY DEF Table, Message, Columns, Strings, Times, Replies
<1>3. \A c \in Replies : Table[c] = Nullable("string") /\ Message[c] = Nullable("string")
  BY DEF Table, Message, Columns, Strings, Times, Replies
<1>4. /\ Table["langs"] = Required("list") /\ Message["langs"] = Nullable("list")
      /\ Table["kafka_partition"] = Required("int")
      /\ Table["kafka_offset"] = Required("long")
  BY DEF Table, Message, Columns, Strings, Times, Replies
<1> QED BY <1>1, <1>2, <1>3, <1>4

\* The groups the shapes are made of.
LEMMA ColumnsOf ==
  /\ \A names : names \subseteq Strings =>
       Of(Req(names, "string"), Table) /\ Of(Req(names, "string"), Message)
  /\ \A names : names \subseteq Times =>
       Of(Req(names, "time"), Table) /\ Of(Req(names, "time"), Message)
  /\ Of(Req({"langs"}, "list"), Table) /\ Of(Opt({"langs"}, "list"), Message)
  /\ Of(Opt(Replies, "string"), Table) /\ Of(Opt(Replies, "string"), Message)
  /\ Of(Kafka, Table)
<1>1. ASSUME NEW names, names \subseteq Strings
      PROVE  Of(Req(names, "string"), Table) /\ Of(Req(names, "string"), Message)
  <2>1. \A c \in names : Table[c] = Required("string") /\ Message[c] = Required("string")
    BY <1>1, Kinds
  <2> QED BY <2>1, ReqOf
<1>2. ASSUME NEW names, names \subseteq Times
      PROVE  Of(Req(names, "time"), Table) /\ Of(Req(names, "time"), Message)
  <2>1. \A c \in names : Table[c] = Required("time") /\ Message[c] = Required("time")
    BY <1>2, Kinds
  <2> QED BY <2>1, ReqOf
<1>3. Of(Req({"langs"}, "list"), Table) /\ Of(Opt({"langs"}, "list"), Message)
  BY Kinds, ReqOf, OptOf
<1>4. Of(Opt(Replies, "string"), Table) /\ Of(Opt(Replies, "string"), Message)
  BY Kinds, OptOf
<1>5. Of(Kafka, Table)
  BY Kinds, ReqOf, Join DEF Kafka
<1> QED BY <1>1, <1>2, <1>3, <1>4, <1>5

LEMMA Subsets ==
  /\ {"did", "rkey", "cid"} \subseteq Strings
  /\ {"did", "rkey", "cid", "text"} \subseteq Strings
  /\ {"did", "rkey", "cid", "subject_uri", "subject_cid"} \subseteq Strings
  /\ {"did", "rkey", "cid", "subject_did"} \subseteq Strings
  /\ {"text"} \subseteq Strings
  /\ {"subject_uri", "subject_cid"} \subseteq Strings
  /\ {"subject_did"} \subseteq Strings
  /\ {"created_at"} \subseteq Times
  /\ {"ingest_ts"} \subseteq Times
  /\ {"created_at", "ingest_ts"} \subseteq Times
BY DEF Strings, Times

\* The models and the Avro schemas are shapes of messages.
LEMMA MessagesOf ==
  /\ Of(PostsAvsc, Message) /\ Of(LikesAvsc, Message) /\ Of(FollowsAvsc, Message)
  /\ Of(BskyPost, Message) /\ Of(BskyLike, Message) /\ Of(BskyFollow, Message)
BY Subsets, ColumnsOf, Join
   DEF PostsAvsc, LikesAvsc, FollowsAvsc, AvroIdentity, BskyPost, BskyLike, BskyFollow, Event,
       Replies

\* The batches, the Iceberg tables and the landing tables are shapes of tables.
LEMMA TablesOf ==
  /\ Of(BronzeArrow, Table) /\ Of(LikesArrow, Table) /\ Of(FollowsArrow, Table)
  /\ Of(BronzeIceberg, Table) /\ Of(LikesIceberg, Table) /\ Of(FollowsIceberg, Table)
  /\ Of(PostsBronzeRaw, Table) /\ Of(LikesBronzeRaw, Table) /\ Of(FollowsBronzeRaw, Table)
<1>1. Of(BronzeArrow, Table) /\ Of(LikesArrow, Table) /\ Of(FollowsArrow, Table)
  BY Subsets, ColumnsOf, Join DEF BronzeArrow, LikesArrow, FollowsArrow, Replies
<1>2. Of(BronzeIceberg, Table) /\ Of(LikesIceberg, Table) /\ Of(FollowsIceberg, Table)
  BY Subsets, ColumnsOf, Join DEF BronzeIceberg, LikesIceberg, FollowsIceberg, Replies
<1>3. Of(PostsBronzeRaw, Table) /\ Of(LikesBronzeRaw, Table) /\ Of(FollowsBronzeRaw, Table)
  BY Subsets, ColumnsOf, Join DEF PostsBronzeRaw, LikesBronzeRaw, FollowsBronzeRaw, Replies
<1> QED BY <1>1, <1>2, <1>3

\* The fields of a model, and what the archiver adds to them.
Fields == [post |-> {"did", "rkey", "cid", "created_at", "text", "langs", "reply_parent", "reply_root"},
           like |-> {"did", "rkey", "cid", "created_at", "subject_uri", "subject_cid"},
           follow |-> {"did", "rkey", "cid", "created_at", "subject_did"}]
Meta == {"kafka_partition", "kafka_offset", "ingest_ts"}

LEMMA MessageColumns ==
  /\ DOMAIN PostsAvsc = Fields["post"] /\ DOMAIN BskyPost = Fields["post"]
  /\ DOMAIN LikesAvsc = Fields["like"] /\ DOMAIN BskyLike = Fields["like"]
  /\ DOMAIN FollowsAvsc = Fields["follow"] /\ DOMAIN BskyFollow = Fields["follow"]
<1>1. /\ \A c : c \in DOMAIN PostsAvsc <=> c \in Fields["post"]
      /\ \A c : c \in DOMAIN BskyPost <=> c \in Fields["post"]
  BY Named, Join DEF PostsAvsc, BskyPost, AvroIdentity, Event, Fields
<1>2. /\ \A c : c \in DOMAIN LikesAvsc <=> c \in Fields["like"]
      /\ \A c : c \in DOMAIN BskyLike <=> c \in Fields["like"]
  BY Named, Join DEF LikesAvsc, BskyLike, AvroIdentity, Event, Fields
<1>3. /\ \A c : c \in DOMAIN FollowsAvsc <=> c \in Fields["follow"]
      /\ \A c : c \in DOMAIN BskyFollow <=> c \in Fields["follow"]
  BY Named, Join DEF FollowsAvsc, BskyFollow, AvroIdentity, Event, Fields
<1> QED BY <1>1, <1>2, <1>3

LEMMA TableColumns ==
  /\ BronzeBatch = Fields["post"] \cup Meta /\ LikesBatch = Fields["like"] \cup Meta
  /\ FollowsBatch = Fields["follow"] \cup Meta
  /\ BronzeColumns = BronzeBatch /\ LikesColumns = LikesBatch /\ FollowsColumns = FollowsBatch
  /\ DOMAIN BronzeArrow = BronzeBatch /\ DOMAIN BronzeIceberg = BronzeBatch
  /\ DOMAIN PostsBronzeRaw = BronzeBatch
  /\ DOMAIN LikesArrow = LikesBatch /\ DOMAIN LikesIceberg = LikesBatch
  /\ DOMAIN LikesBronzeRaw = LikesBatch
  /\ DOMAIN FollowsArrow = FollowsBatch /\ DOMAIN FollowsIceberg = FollowsBatch
  /\ DOMAIN FollowsBronzeRaw = FollowsBatch
<1>1. \A c : c \in DOMAIN Kafka <=> c \in {"kafka_partition", "kafka_offset"}
  BY Named, Join DEF Kafka
<1>2. /\ \A c : c \in DOMAIN BronzeArrow <=> c \in BronzeBatch
      /\ \A c : c \in DOMAIN BronzeIceberg <=> c \in BronzeBatch
      /\ \A c : c \in DOMAIN PostsBronzeRaw <=> c \in BronzeBatch
  BY <1>1, Named, Join DEF BronzeIceberg, BronzeArrow, PostsBronzeRaw, BronzeBatch
<1>3. /\ \A c : c \in DOMAIN LikesArrow <=> c \in LikesBatch
      /\ \A c : c \in DOMAIN LikesIceberg <=> c \in LikesBatch
      /\ \A c : c \in DOMAIN LikesBronzeRaw <=> c \in LikesBatch
  BY <1>1, Named, Join DEF LikesIceberg, LikesArrow, LikesBronzeRaw, LikesBatch
<1>4. /\ \A c : c \in DOMAIN FollowsArrow <=> c \in FollowsBatch
      /\ \A c : c \in DOMAIN FollowsIceberg <=> c \in FollowsBatch
      /\ \A c : c \in DOMAIN FollowsBronzeRaw <=> c \in FollowsBatch
  BY <1>1, Named, Join DEF FollowsIceberg, FollowsArrow, FollowsBronzeRaw, FollowsBatch
<1>5. /\ BronzeBatch = Fields["post"] \cup Meta /\ LikesBatch = Fields["like"] \cup Meta
      /\ FollowsBatch = Fields["follow"] \cup Meta
  BY DEF BronzeBatch, LikesBatch, FollowsBatch, Fields, Meta
<1>6. BronzeColumns = BronzeBatch /\ LikesColumns = LikesBatch /\ FollowsColumns = FollowsBatch
  BY DEF BronzeBatch, LikesBatch, FollowsBatch, BronzeColumns, LikesColumns, FollowsColumns
<1> QED BY <1>2, <1>3, <1>4, <1>5, <1>6

\* The vertical of a collection.
Collections == {"post", "like", "follow"}
ArchiverOf == [post |-> PostsArchiver, like |-> LikesArchiver, follow |-> FollowsArchiver]
LandingOf == [post |-> PostsLanding, like |-> LikesLanding, follow |-> FollowsLanding]
StagedColumns == [post |-> StgPosts, like |-> StgLikes, follow |-> StgFollows]

\* The copies of a collection's shape agree (schemas/models.py:4-5,
\* bronze_schema.py:3-9): the Avro schema of the service, that of the archiver
\* and the model have the same columns; the batch, the Iceberg table and the
\* landing table have these and the provenance, with the same kinds, but langs
\* is no longer null; the landing asset selects all of them and staging every
\* field of the model.
THEOREM InLockstep ==
  ASSUME NEW k \in Collections
  PROVE  /\ Serializer[k].avsc = Project(Message, Fields[k])
         /\ ArchiverOf[k].avsc = Project(Message, Fields[k])
         /\ ArchiverOf[k].model = Project(Message, Fields[k])
         /\ ArchiverOf[k].batch = Fields[k] \cup Meta
         /\ ArchiverOf[k].arrow = Project(Table, Fields[k] \cup Meta)
         /\ ArchiverOf[k].iceberg = Project(Table, Fields[k] \cup Meta)
         /\ LandingOf[k].columns = Fields[k] \cup Meta
         /\ LandingOf[k].table = Project(Table, Fields[k] \cup Meta)
         /\ Fields[k] \subseteq StagedColumns[k]
         /\ StagedColumns[k] \subseteq Fields[k] \cup Meta
<1>1. CASE k = "post"
  <2>1. PostsAvsc = Project(Message, Fields["post"]) /\ BskyPost = Project(Message, Fields["post"])
    BY MessagesOf, MessageColumns, SameShape
  <2>2. \A S : Of(S, Table) /\ DOMAIN S = BronzeBatch => S = Project(Table, Fields["post"] \cup Meta)
    BY TableColumns, SameShape
  <2>3. Fields["post"] \subseteq StgPosts /\ StgPosts \subseteq Fields["post"] \cup Meta
    BY DEF Fields, StgPosts, Meta
  <2> QED BY <1>1, <2>1, <2>2, <2>3, TablesOf, TableColumns
          DEF Serializer, ArchiverOf, LandingOf, PostsArchiver, PostsLanding, StagedColumns
<1>2. CASE k = "like"
  <2>1. LikesAvsc = Project(Message, Fields["like"]) /\ BskyLike = Project(Message, Fields["like"])
    BY MessagesOf, MessageColumns, SameShape
  <2>2. \A S : Of(S, Table) /\ DOMAIN S = LikesBatch => S = Project(Table, Fields["like"] \cup Meta)
    BY TableColumns, SameShape
  <2>3. Fields["like"] \subseteq StgLikes /\ StgLikes \subseteq Fields["like"] \cup Meta
    BY DEF Fields, StgLikes, Meta
  <2> QED BY <1>2, <2>1, <2>2, <2>3, TablesOf, TableColumns
          DEF Serializer, ArchiverOf, LandingOf, LikesArchiver, LikesLanding, StagedColumns
<1>3. CASE k = "follow"
  <2>1. /\ FollowsAvsc = Project(Message, Fields["follow"])
        /\ BskyFollow = Project(Message, Fields["follow"])
    BY MessagesOf, MessageColumns, SameShape
  <2>2. \A S : Of(S, Table) /\ DOMAIN S = FollowsBatch => S = Project(Table, Fields["follow"] \cup Meta)
    BY TableColumns, SameShape
  <2>3. Fields["follow"] \subseteq StgFollows /\ StgFollows \subseteq Fields["follow"] \cup Meta
    BY DEF Fields, StgFollows, Meta
  <2> QED BY <1>3, <2>1, <2>2, <2>3, TablesOf, TableColumns
          DEF Serializer, ArchiverOf, LandingOf, FollowsArchiver, FollowsLanding, StagedColumns
<1> QED BY <1>1, <1>2, <1>3 DEF Collections

-----------------------------------------------------------------------------
(***************************************************************************)
(* What a record holds                                                     *)
(***************************************************************************)
\* What a field of a model may hold.
Holdings(c) ==
  CASE c \in Strings      -> {"string"}
    [] c = "created_at"   -> {"naive", "utc"}
    [] c = "langs"        -> {"null", "empty", "list"}
    [] c \in Replies      -> {"null", "string"}

\* to_model fills every field of its collection, and no other.
LEMMA ModelIs ==
  ASSUME NEW k \in Collections, NEW x \in Detail
  PROVE  /\ DOMAIN Model(k, x) = Fields[k]
         /\ \A c \in Fields[k] : Model(k, x)[c] \in Holdings(c)
<1>1. /\ x.created \in {"naive", "utc"} /\ x.langs \in {"null", "empty", "list"}
      /\ x.parent \in {"null", "string"} /\ x.root \in {"null", "string"}
  BY DEF Detail
<1>2. CASE k = "post"
  <2>1. Model(k, x) = Post(x)
    BY <1>2 DEF Model
  <2>2. DOMAIN Post(x) = Fields["post"]
    BY DEF Post, Common, ++, Fields
  <2>3. /\ \A c \in {"did", "rkey", "cid", "text"} : Post(x)[c] = "string"
        /\ Post(x)["created_at"] = x.created /\ Post(x)["langs"] = x.langs
        /\ Post(x)["reply_parent"] = x.parent /\ Post(x)["reply_root"] = x.root
    BY DEF Post, Common, ++
  <2> QED BY <1>1, <1>2, <2>1, <2>2, <2>3 DEF Fields, Holdings, Strings, Replies
<1>3. CASE k = "like"
  <2>1. Model(k, x) = Like(x)
    BY <1>3 DEF Model
  <2>2. DOMAIN Like(x) = Fields["like"]
    BY DEF Like, Common, ++, Fields
  <2>3. /\ \A c \in {"did", "rkey", "cid", "subject_uri", "subject_cid"} : Like(x)[c] = "string"
        /\ Like(x)["created_at"] = x.created
    BY DEF Like, Common, ++
  <2> QED BY <1>1, <1>3, <2>1, <2>2, <2>3 DEF Fields, Holdings, Strings, Replies
<1>4. CASE k = "follow"
  <2>1. Model(k, x) = Follow(x)
    BY <1>4 DEF Model
  <2>2. DOMAIN Follow(x) = Fields["follow"]
    BY DEF Follow, Common, ++, Fields
  <2>3. /\ \A c \in {"did", "rkey", "cid", "subject_did"} : Follow(x)[c] = "string"
        /\ Follow(x)["created_at"] = x.created
    BY DEF Follow, Common, ++
  <2> QED BY <1>1, <1>4, <2>1, <2>2, <2>3 DEF Fields, Holdings, Strings, Replies
<1> QED BY <1>2, <1>3, <1>4 DEF Collections

LEMMA Known ==
  ASSUME NEW k \in Collections
  PROVE  Fields[k] \subseteq Strings \cup {"created_at", "langs"} \cup Replies
BY DEF Collections, Fields, Strings, Replies

\* What a field holds fits its column, on the wire and in the tables, and the
\* wire makes no difference the second time.
LEMMA Fitting ==
  ASSUME NEW c \in Strings \cup {"created_at", "langs"} \cup Replies, NEW v \in Holdings(c)
  PROVE  /\ v \in Value /\ Normal(v) \in Value /\ Meant(c, v) \in Value
         /\ Normal(Normal(v)) = Normal(v) /\ Meant(c, Normal(v)) = Meant(c, v)
         /\ (v = "naive" => Normal(v) = "utc") /\ (v # "naive" => Normal(v) = v)
         /\ Fits(v, Message[c]) /\ Fits(Normal(v), Message[c])
         /\ Fits(Meant(c, v), Table[c])
<1>1. CASE c \in Strings
  <2>1. v = "string" /\ c # "langs"
    BY <1>1 DEF Holdings, Strings, Replies
  <2> QED BY <1>1, <2>1, Kinds DEF Value, Normal, Meant, Fits, TypesOf, Required
<1>2. CASE c = "created_at"
  <2>1. v \in {"naive", "utc"}
    BY <1>2 DEF Holdings, Strings, Replies
  <2>2. Table[c] = Required("time") /\ Message[c] = Required("time")
    BY <1>2, Kinds DEF Times
  <2> QED BY <1>2, <2>1, <2>2 DEF Value, Normal, Meant, Fits, TypesOf, Required
<1>3. CASE c = "langs"
  <2>1. v \in {"null", "empty", "list"}
    BY <1>3 DEF Holdings, Strings, Replies
  <2> QED BY <1>3, <2>1, Kinds DEF Value, Normal, Meant, Fits, TypesOf, Required, Nullable
<1>4. CASE c \in Replies
  <2>1. v \in {"null", "string"} /\ c # "langs"
    BY <1>4 DEF Holdings, Strings, Replies
  <2> QED BY <1>4, <2>1, Kinds DEF Value, Normal, Meant, Fits, TypesOf, Nullable
<1> QED BY <1>1, <1>2, <1>3, <1>4

LEMMA MetaFits ==
  /\ DOMAIN Provenance = Meta
  /\ \A c \in Meta : Provenance[c] \in Value /\ Fits(Provenance[c], Table[c])
<1>1. DOMAIN Provenance = Meta
  BY DEF Provenance, Meta
<1>2. /\ Table["kafka_partition"] = Required("int") /\ Table["kafka_offset"] = Required("long")
      /\ Table["ingest_ts"] = Required("time")
  BY Kinds DEF Times
<1> QED BY <1>1, <1>2 DEF Provenance, Meta, Value, Fits, TypesOf, Required

\* decode_post, decode_like and decode_follow are told by the model.
LEMMA RowShape ==
  ASSUME NEW m
  PROVE  /\ Row(PostsArchiver, m) = RowOfPost(m)
         /\ Row(LikesArchiver, m) = RowOfLike(m)
         /\ Row(FollowsArchiver, m) = RowOfFollow(m)
<1>1. BskyPost # BskyLike /\ BskyPost # BskyFollow /\ BskyLike # BskyFollow
  <2>1. /\ "text" \in DOMAIN BskyPost
        /\ "text" \notin DOMAIN BskyLike /\ "text" \notin DOMAIN BskyFollow
        /\ "subject_uri" \in DOMAIN BskyLike /\ "subject_uri" \notin DOMAIN BskyFollow
    BY MessageColumns DEF Fields
  <2> QED BY <2>1
<1>2. /\ PostsArchiver.model = BskyPost /\ LikesArchiver.model = BskyLike
      /\ FollowsArchiver.model = BskyFollow
  BY DEF PostsArchiver, LikesArchiver, FollowsArchiver
<1> QED BY <1>1, <1>2 DEF Row

\* What they return: every field, langs never null, and the provenance.
LEMMA RowIs ==
  ASSUME NEW k \in Collections, NEW m, DOMAIN m = Fields[k]
  PROVE  LET row == Row(ArchiverOf[k], m)
         IN  /\ DOMAIN row = Fields[k] \cup Meta
             /\ \A c \in Fields[k] :
                  row[c] = IF c # "langs" THEN m[c] ELSE IF m[c] = "list" THEN "list" ELSE "empty"
             /\ \A c \in Meta : row[c] = Provenance[c]
<1> DEFINE row == Row(ArchiverOf[k], m)
<1>1. CASE k = "post"
  <2>1. row = RowOfPost(m)
    BY <1>1, RowShape DEF ArchiverOf
  <2>2. \A c : c \in DOMAIN RowOfPost(m) <=> c \in Fields["post"] \cup Meta
    BY MetaFits DEF RowOfPost, Project, ++, Fields, Meta
  <2>3. \A c \in Fields["post"] :
          RowOfPost(m)[c] = IF c # "langs" THEN m[c] ELSE IF m[c] = "list" THEN "list" ELSE "empty"
    BY MetaFits DEF RowOfPost, Project, ++, Fields, Meta
  <2>4. \A c \in Meta : RowOfPost(m)[c] = Provenance[c]
    BY MetaFits DEF RowOfPost, Project, ++, Fields, Meta
  <2> QED BY <1>1, <2>1, <2>2, <2>3, <2>4
<1>2. CASE k = "like"
  <2>1. row = RowOfLike(m)
    BY <1>2, RowShape DEF ArchiverOf
  <2>2. \A c : c \in DOMAIN RowOfLike(m) <=> c \in Fields["like"] \cup Meta
    BY MetaFits DEF RowOfLike, Project, ++, Fields, Meta
  <2>3. \A c \in Fields["like"] : RowOfLike(m)[c] = m[c] /\ c # "langs"
    BY MetaFits DEF RowOfLike, Project, ++, Fields, Meta
  <2>4. \A c \in Meta : RowOfLike(m)[c] = Provenance[c]
    BY MetaFits DEF RowOfLike, Project, ++, Fields, Meta
  <2> QED BY <1>2, <2>1, <2>2, <2>3, <2>4
<1>3. CASE k = "follow"
  <2>1. row = RowOfFollow(m)
    BY <1>3, RowShape DEF ArchiverOf
  <2>2. \A c : c \in DOMAIN RowOfFollow(m) <=> c \in Fields["follow"] \cup Meta
    BY MetaFits DEF RowOfFollow, Project, ++, Fields, Meta
  <2>3. \A c \in Fields["follow"] : RowOfFollow(m)[c] = m[c] /\ c # "langs"
    BY MetaFits DEF RowOfFollow, Project, ++, Fields, Meta
  <2>4. \A c \in Meta : RowOfFollow(m)[c] = Provenance[c]
    BY MetaFits DEF RowOfFollow, Project, ++, Fields, Meta
  <2> QED BY <1>3, <2>1, <2>2, <2>3, <2>4
<1> QED BY <1>1, <1>2, <1>3 DEF Collections

\* A model serializes, and what was serialized once reads as it was.
LEMMA Decodes ==
  ASSUME NEW k \in Collections, NEW x \in Detail, NEW dict,
         \A c \in Fields[k] :
           c \in DOMAIN dict /\ dict[c] \in {Model(k, x)[c], Normal(Model(k, x)[c])}
  PROVE  LET avsc == Project(Message, Fields[k])
         IN  /\ Holds(dict, avsc)
             /\ Wire(dict, avsc) = [c \in Fields[k] |-> Normal(Model(k, x)[c])]
<1> DEFINE avsc == Project(Message, Fields[k])
<1>1. DOMAIN avsc = Fields[k] /\ \A c \in Fields[k] : avsc[c] = Message[c]
  BY DEF Project
<1>2. \A c \in Fields[k] :
        /\ Fits(Model(k, x)[c], Message[c]) /\ Fits(Normal(Model(k, x)[c]), Message[c])
        /\ Normal(Normal(Model(k, x)[c])) = Normal(Model(k, x)[c])
        /\ Model(k, x)[c] = "naive" => Normal(Model(k, x)[c]) = "utc"
        /\ Model(k, x)[c] # "naive" => Normal(Model(k, x)[c]) = Model(k, x)[c]
        /\ Normal(Model(k, x)[c]) # "naive"
  <2>1. \A c \in Fields[k] : /\ c \in Strings \cup {"created_at", "langs"} \cup Replies
                             /\ Model(k, x)[c] \in Holdings(c)
    BY Known, ModelIs
  <2> QED BY <2>1, Fitting
<1> HIDE DEF avsc
<1>3. Holds(dict, avsc)
  BY <1>1, <1>2 DEF Holds
<1>4. Wire(dict, avsc) = [c \in Fields[k] |-> Normal(Model(k, x)[c])]
  BY <1>1, <1>2 DEF Wire
<1> QED BY <1>3, <1>4 DEF avsc

\* What was read validates, and the row appends.
LEMMA Archives ==
  ASSUME NEW k \in Collections, NEW x \in Detail, NEW read,
         read = [c \in Fields[k] |-> Normal(Model(k, x)[c])]
  PROVE  LET a   == ArchiverOf[k]
             row == Row(a, read)
         IN  /\ Validates(read, a.model)
             /\ Appends(row, a.batch, a.arrow, a.iceberg)
             /\ DOMAIN row = Fields[k] \cup Meta
             /\ \A c \in Fields[k] : row[c] = Meant(c, Model(k, x)[c])
             /\ \A c \in Meta : row[c] = Provenance[c]
<1> DEFINE a == ArchiverOf[k]
           row == Row(a, read)
<1>1. DOMAIN read = Fields[k]
  OBVIOUS
<1>2. /\ DOMAIN row = Fields[k] \cup Meta
      /\ \A c \in Fields[k] :
           row[c] = IF c # "langs" THEN read[c] ELSE IF read[c] = "list" THEN "list" ELSE "empty"
      /\ \A c \in Meta : row[c] = Provenance[c]
  BY <1>1, RowIs
<1>3. \A c \in Fields[k] : /\ c \in Strings \cup {"created_at", "langs"} \cup Replies
                           /\ Model(k, x)[c] \in Holdings(c)
  BY Known, ModelIs
<1>4. \A c \in Fields[k] : row[c] = Meant(c, Model(k, x)[c])
  <2> SUFFICES ASSUME NEW c \in Fields[k] PROVE row[c] = Meant(c, Model(k, x)[c])
    OBVIOUS
  <2>1. CASE c # "langs"
    BY <1>2, <2>1 DEF Meant
  <2>2. CASE c = "langs"
    <3>1. Model(k, x)[c] \in {"null", "empty", "list"}
      BY <1>3, <2>2 DEF Holdings, Strings, Replies
    <3> QED BY <1>2, <2>2, <3>1 DEF Meant, Normal
  <2> QED BY <2>1, <2>2
<1>5. Validates(read, a.model)
  <2>1. Holds(read, Project(Message, Fields[k]))
    <3>1. \A c \in Fields[k] : c \in DOMAIN read /\ read[c] \in {Model(k, x)[c], Normal(Model(k, x)[c])}
      OBVIOUS
    <3> QED BY <3>1, Decodes
  <2>2. DOMAIN Project(Message, Fields[k]) = Fields[k]
    BY DEF Project
  <2> QED BY <1>1, <2>1, <2>2, InLockstep DEF Validates
<1>6. Holds(row, Project(Table, Fields[k] \cup Meta))
  <2>1. \A c \in Fields[k] : Fits(row[c], Table[c])
    BY <1>3, <1>4, Fitting
  <2>2. \A c \in Meta : Fits(row[c], Table[c])
    BY <1>2, MetaFits
  <2> HIDE DEF row
  <2> QED BY <1>2, <2>1, <2>2 DEF Holds, Project
<1>7. Appends(row, a.batch, a.arrow, a.iceberg)
  <2>1. DOMAIN Project(Table, Fields[k] \cup Meta) = Fields[k] \cup Meta
    BY DEF Project
  <2> HIDE DEF row
  <2> QED BY <1>2, <1>6, <2>1, InLockstep DEF Appends
<1> QED BY <1>2, <1>4, <1>5, <1>7

\* The landing table takes the row.
LEMMA Lands ==
  ASSUME NEW k \in Collections, NEW x \in Detail, NEW row,
         \A c \in Fields[k] : c \in DOMAIN row /\ row[c] = Meant(c, Model(k, x)[c]),
         \A c \in Meta : c \in DOMAIN row /\ row[c] = Provenance[c]
  PROVE  Inserts(row, LandingOf[k].columns, LandingOf[k].table)
<1> DEFINE names == Fields[k] \cup Meta
<1>1. \A c \in names : c \in DOMAIN row
  OBVIOUS
<1>2. \A c \in Fields[k] : Fits(row[c], Table[c])
  <2>1. \A c \in Fields[k] : /\ c \in Strings \cup {"created_at", "langs"} \cup Replies
                             /\ Model(k, x)[c] \in Holdings(c)
    BY Known, ModelIs
  <2> QED BY <2>1, Fitting
<1>3. \A c \in Meta : Fits(row[c], Table[c])
  BY MetaFits
<1>4. \A c \in names : Fits(row[c], Table[c])
  BY <1>2, <1>3
<1> HIDE DEF names
<1>5. Holds(Project(row, names), Project(Table, names))
  BY <1>1, <1>4 DEF Holds, Project
<1>6. names \subseteq DOMAIN row \cap DOMAIN Project(Table, names)
  BY <1>1 DEF Project
<1>7. LandingOf[k].columns = names /\ LandingOf[k].table = Project(Table, names)
  BY InLockstep DEF names
<1> QED BY <1>5, <1>6, <1>7 DEF Inserts

\* Who reads where: no vertical meets a record of another.
LEMMA Wiring ==
  ASSUME NEW k \in Collections
  PROVE  /\ Nowhere \notin WayOf[k] /\ k \in DOMAIN WayOf
         /\ Serializer[k].topic \in WayOf[k] /\ Serializer[k].topic # StagingOf[k]
         /\ \A archiver \in {PostsArchiver, LikesArchiver, FollowsArchiver} :
              /\ archiver.topic # Nowhere
              /\ archiver.topic \in WayOf[k] =>
                   archiver = ArchiverOf[k] /\ archiver.topic = Serializer[k].topic
         /\ ArchiverOf[k].table \in WayOf[k] \ {Serializer[k].topic, StagingOf[k]}
         /\ \A landing \in {PostsLanding, LikesLanding, FollowsLanding} :
              /\ landing.from # Nowhere
              /\ landing.from \in WayOf[k] =>
                   landing = LandingOf[k] /\ landing.from \notin {Serializer[k].topic, StagingOf[k]}
         /\ LandingOf[k].to \in WayOf[k] \ {Serializer[k].topic, StagingOf[k]}
         /\ \A stg \in Staging :
              /\ stg.source # Nowhere
              /\ stg.source \in WayOf[k] =>
                   /\ stg.columns = StagedColumns[k] /\ stg.to = StagingOf[k]
                   /\ stg.source \notin {Serializer[k].topic, StagingOf[k]}
         /\ StagingOf[k] \in WayOf[k]
<1>1. /\ Nowhere \notin WayOf[k] /\ k \in DOMAIN WayOf
      /\ Serializer[k].topic \in WayOf[k] /\ Serializer[k].topic # StagingOf[k]
      /\ StagingOf[k] \in WayOf[k]
  BY DEF Collections, Nowhere, WayOf, Serializer, StagingOf
<1>2. /\ \A archiver \in {PostsArchiver, LikesArchiver, FollowsArchiver} :
           /\ archiver.topic # Nowhere
           /\ archiver.topic \in WayOf[k] =>
                archiver = ArchiverOf[k] /\ archiver.topic = Serializer[k].topic
      /\ ArchiverOf[k].table \in WayOf[k] \ {Serializer[k].topic, StagingOf[k]}
  BY DEF Collections, Nowhere, WayOf, Serializer, StagingOf, ArchiverOf, PostsArchiver,
         LikesArchiver, FollowsArchiver
<1>3. /\ \A landing \in {PostsLanding, LikesLanding, FollowsLanding} :
           /\ landing.from # Nowhere
           /\ landing.from \in WayOf[k] =>
                landing = LandingOf[k] /\ landing.from \notin {Serializer[k].topic, StagingOf[k]}
      /\ LandingOf[k].to \in WayOf[k] \ {Serializer[k].topic, StagingOf[k]}
  BY DEF Collections, Nowhere, WayOf, Serializer, StagingOf, LandingOf, PostsLanding,
         LikesLanding, FollowsLanding
<1>4. \A stg \in Staging :
        /\ stg.source # Nowhere
        /\ stg.source \in WayOf[k] =>
             /\ stg.columns = StagedColumns[k] /\ stg.to = StagingOf[k]
             /\ stg.source \notin {Serializer[k].topic, StagingOf[k]}
  BY DEF Collections, Nowhere, WayOf, Serializer, StagingOf, StagedColumns, Staging
<1> QED BY <1>1, <1>2, <1>3, <1>4

-----------------------------------------------------------------------------
(***************************************************************************)
(* The invariant                                                           *)
(***************************************************************************)
LEMMA InitIInv == Init => IInv
<1> SUFFICES ASSUME Init PROVE IInv
  OBVIOUS
<1>1. TypeOK
  BY DEF Init, TypeOK, Detail, NoRecord
<1>2. Decided
  BY DEF Init, Decided
<1>3. Carried
  BY DEF Init, Carried
<1> QED BY <1>1, <1>2, <1>3 DEF IInv

\* What is produced belongs to a collection.
LEMMA ProducedCollection ==
  ASSUME NEW s \in Shape, NEW t \in BOOLEAN, Route(ToModel(s), t) = "produce"
  PROVE  s.collection \in Collections
<1>1. ToModel(s) = "model"
  BY DEF Route
<1>2. Ingestable(s)
  BY <1>1, AcceptsTheSound
<1> QED BY <1>2 DEF Ingestable, Shape, Collections

\* What Carried says of a record on its way, by the fields of its collection.
LEMMA CarriedIs ==
  ASSUME IInv, route = "produce"
  PROVE  LET k == shape.collection
         IN  /\ k \in Collections
             /\ at \in WayOf[k]
             /\ \A c \in Fields[k] :
                  /\ c \in DOMAIN record
                  /\ record[c] = IF at = Serializer[k].topic THEN Normal(Model(k, detail)[c])
                                 ELSE Meant(c, Model(k, detail)[c])
             /\ at \notin {Serializer[k].topic, StagingOf[k]} =>
                  \A c \in Meta : c \in DOMAIN record /\ record[c] = Provenance[c]
<1>1. shape.collection \in Collections
  BY ProducedCollection DEF IInv, TypeOK, Decided
<1>2. detail \in Detail
  BY DEF IInv, TypeOK
<1> QED BY <1>1, <1>2, ModelIs, MetaFits DEF IInv, Carried

\* And what is enough for it.
LEMMA CarriedAs ==
  ASSUME shape' = shape, detail' \in Detail, route' = "produce", shape.collection \in Collections,
         at' \in WayOf[shape.collection],
         \A c \in Fields[shape.collection] :
           /\ c \in DOMAIN record'
           /\ record'[c] = IF at' = Serializer[shape.collection].topic
                             THEN Normal(Model(shape.collection, detail')[c])
                             ELSE Meant(c, Model(shape.collection, detail')[c]),
         at' \notin {Serializer[shape.collection].topic, StagingOf[shape.collection]} =>
           \A c \in Meta : c \in DOMAIN record' /\ record'[c] = Provenance[c],
         DOMAIN record' \subseteq Fields[shape.collection] \cup Meta,
         \A c \in DOMAIN record' \cap Meta : record'[c] = Provenance[c]
  PROVE  Carried' /\ \A c \in DOMAIN record' : record'[c] \in Value
<1> DEFINE k == shape.collection
<1>1. Carried'
  BY Wiring, ModelIs, MetaFits DEF Carried
<1>2. \A c \in Fields[k] : /\ c \in Strings \cup {"created_at", "langs"} \cup Replies
                           /\ Model(k, detail')[c] \in Holdings(c)
  BY Known, ModelIs
<1>3. \A c \in Fields[k] : record'[c] \in Value
  BY <1>2, Fitting
<1> QED BY <1>1, <1>3, MetaFits

LEMMA ConsumeIInv == IInv /\ Consume => IInv'
<1> SUFFICES ASSUME IInv, Consume PROVE IInv'
  OBVIOUS
<1> DEFINE k == shape.collection
<1>1. /\ shape \in Shape /\ shape' = shape /\ timed \in BOOLEAN /\ timed' = timed
      /\ route = "none" /\ route' = Route(ToModel(shape), timed)
      /\ route' \in Routes /\ route' # "none"
      /\ detail \in Detail
  BY DEF IInv, TypeOK, Consume, Route, Routes
<1>2. Decided'
  BY <1>1 DEF Decided
<1>3. CASE route' = "produce"
  <2>1. k \in Collections
    BY <1>1, <1>3, ProducedCollection
  <2>2. detail' \in Detail
    BY <1>3 DEF Consume, Produce
  <2> DEFINE model == Model(k, detail')
  <2>3. /\ Holds(model, Serializer[k].avsc)
        /\ Wire(model, Serializer[k].avsc) = [c \in Fields[k] |-> Normal(model[c])]
    <3>1. \A c \in Fields[k] : c \in DOMAIN model /\ model[c] \in {model[c], Normal(model[c])}
      BY <2>1, <2>2, ModelIs
    <3>2. Serializer[k].avsc = Project(Message, Fields[k])
      BY <2>1, InLockstep
    <3> HIDE DEF k
    <3>3. /\ Holds(model, Project(Message, Fields[k]))
          /\ Wire(model, Project(Message, Fields[k])) = [c \in Fields[k] |-> Normal(model[c])]
      BY <2>1, <2>2, <3>1, Decodes
    <3> QED BY <3>2, <3>3
  <2>4. at' = Serializer[k].topic /\ record' = [c \in Fields[k] |-> Normal(model[c])]
    BY <1>3, <2>3 DEF Consume, Produce
  <2>5. Meta \cap Fields[k] = {}
    BY <2>1 DEF Collections, Fields, Meta
  <2>6. Carried' /\ \A c \in DOMAIN record' : record'[c] \in Value
    BY <1>1, <1>3, <2>1, <2>2, <2>4, <2>5, Wiring, CarriedAs
  <2> QED BY <1>1, <1>2, <2>2, <2>6 DEF IInv, TypeOK
<1>4. CASE route' # "produce"
  <2>1. UNCHANGED <<detail, at, record>>
    BY <1>4 DEF Consume
  <2>2. at = Nowhere /\ record = NoRecord
    BY <1>1 DEF IInv, Carried
  <2>3. Carried'
    BY <1>4, <2>1, <2>2 DEF Carried
  <2> QED BY <1>1, <1>2, <2>1, <2>3 DEF IInv, TypeOK
<1> QED BY <1>3, <1>4

\* A record that is somewhere was produced.
LEMMA OnItsWay ==
  ASSUME IInv, at # Nowhere
  PROVE  route = "produce"
BY DEF IInv, Carried

LEMMA ArchiveIInv ==
  ASSUME IInv, NEW archiver \in {PostsArchiver, LikesArchiver, FollowsArchiver}, Archive(archiver)
  PROVE  IInv'
<1> DEFINE k == shape.collection
           read == Wire(record, archiver.avsc)
           row == Row(archiver, read)
<1>1. at = archiver.topic /\ UNCHANGED <<shape, timed, route, detail>>
  BY DEF Archive
<1>2. route = "produce"
  <2>1. archiver.topic # Nowhere
    BY Wiring DEF Collections
  <2> QED BY <1>1, <2>1, OnItsWay
<1>3. k \in Collections /\ at \in WayOf[k] /\ detail \in Detail
  BY <1>2, CarriedIs DEF IInv, TypeOK
<1>4. archiver = ArchiverOf[k] /\ at = Serializer[k].topic
  BY <1>1, <1>3, Wiring
<1>5. \A c \in Fields[k] : c \in DOMAIN record /\ record[c] = Normal(Model(k, detail)[c])
  BY <1>2, <1>4, CarriedIs
<1>6. archiver.avsc = Project(Message, Fields[k])
  BY <1>3, <1>4, InLockstep
<1>7. Holds(record, archiver.avsc) /\ read = [c \in Fields[k] |-> Normal(Model(k, detail)[c])]
  <2> HIDE DEF k
  <2> QED BY <1>3, <1>5, <1>6, Decodes
<1>8. /\ Validates(read, archiver.model)
      /\ Appends(row, archiver.batch, archiver.arrow, archiver.iceberg)
      /\ DOMAIN row = Fields[k] \cup Meta
      /\ \A c \in Fields[k] : row[c] = Meant(c, Model(k, detail)[c])
      /\ \A c \in Meta : row[c] = Provenance[c]
  <2> HIDE DEF k, read
  <2> QED BY <1>3, <1>4, <1>7, Archives
<1>9. at' = archiver.table /\ record' = row
  <2> HIDE DEF k
  <2> QED BY <1>7, <1>8 DEF Archive
<1>10. at' \in WayOf[k] \ {Serializer[k].topic, StagingOf[k]}
  BY <1>3, <1>4, <1>9, Wiring
<1>11. Carried' /\ \A c \in DOMAIN record' : record'[c] \in Value
  <2> HIDE DEF row
  <2> QED BY <1>1, <1>2, <1>3, <1>8, <1>9, <1>10, CarriedAs
<1> QED BY <1>1, <1>11 DEF IInv, TypeOK, Decided

LEMMA LandIInv ==
  ASSUME IInv, NEW landing \in {PostsLanding, LikesLanding, FollowsLanding}, Land(landing)
  PROVE  IInv'
<1> DEFINE k == shape.collection
<1>1. at = landing.from /\ UNCHANGED <<shape, timed, route, detail>>
  BY DEF Land
<1>2. route = "produce"
  <2>1. landing.from # Nowhere
    BY Wiring DEF Collections
  <2> QED BY <1>1, <2>1, OnItsWay
<1>3. k \in Collections /\ at \in WayOf[k] /\ detail \in Detail
  BY <1>2, CarriedIs DEF IInv, TypeOK
<1>4. landing = LandingOf[k] /\ at \notin {Serializer[k].topic, StagingOf[k]}
  BY <1>1, <1>3, Wiring
<1>5. /\ \A c \in Fields[k] : c \in DOMAIN record /\ record[c] = Meant(c, Model(k, detail)[c])
      /\ \A c \in Meta : c \in DOMAIN record /\ record[c] = Provenance[c]
  BY <1>2, <1>4, CarriedIs
<1>6. Inserts(record, landing.columns, landing.table)
  <2> HIDE DEF k
  <2> QED BY <1>3, <1>4, <1>5, Lands
<1>7. at' = landing.to /\ record' = Project(record, Fields[k] \cup Meta)
  <2>1. landing.columns = Fields[k] \cup Meta
    BY <1>3, <1>4, InLockstep
  <2> QED BY <1>6, <2>1 DEF Land
<1>8. at' \in WayOf[k] \ {Serializer[k].topic, StagingOf[k]}
  BY <1>3, <1>4, <1>7, Wiring
<1>9. /\ DOMAIN record' = Fields[k] \cup Meta
      /\ \A c \in Fields[k] \cup Meta : record'[c] = record[c]
  BY <1>7 DEF Project
<1>10. Carried' /\ \A c \in DOMAIN record' : record'[c] \in Value
  BY <1>1, <1>2, <1>3, <1>5, <1>8, <1>9, CarriedAs
<1> QED BY <1>1, <1>10 DEF IInv, TypeOK, Decided

LEMMA StageIInv ==
  ASSUME IInv, NEW stg \in Staging, Stage(stg)
  PROVE  IInv'
<1> DEFINE k == shape.collection
<1>1. /\ at = stg.source /\ at' = stg.to /\ record' = Project(record, stg.columns)
      /\ UNCHANGED <<shape, timed, route, detail>>
  BY DEF Stage
<1>2. route = "produce"
  <2>1. stg.source # Nowhere
    BY Wiring DEF Collections
  <2> QED BY <1>1, <2>1, OnItsWay
<1>3. k \in Collections /\ at \in WayOf[k] /\ detail \in Detail
  BY <1>2, CarriedIs DEF IInv, TypeOK
<1>4. /\ stg.columns = StagedColumns[k] /\ at' = StagingOf[k]
      /\ at \notin {Serializer[k].topic, StagingOf[k]}
  BY <1>1, <1>3, Wiring
<1>5. /\ \A c \in Fields[k] : c \in DOMAIN record /\ record[c] = Meant(c, Model(k, detail)[c])
      /\ \A c \in Meta : c \in DOMAIN record /\ record[c] = Provenance[c]
  BY <1>2, <1>4, CarriedIs
<1>6. Fields[k] \subseteq StagedColumns[k] /\ StagedColumns[k] \subseteq Fields[k] \cup Meta
  BY <1>3, InLockstep
<1>7. DOMAIN record' = StagedColumns[k] /\ \A c \in StagedColumns[k] : record'[c] = record[c]
  BY <1>1, <1>4 DEF Project
<1>8. StagingOf[k] \in WayOf[k] /\ StagingOf[k] # Serializer[k].topic
  BY <1>3, Wiring
<1>9. Carried' /\ \A c \in DOMAIN record' : record'[c] \in Value
  BY <1>1, <1>2, <1>3, <1>4, <1>5, <1>6, <1>7, <1>8, CarriedAs
<1> QED BY <1>1, <1>9 DEF IInv, TypeOK, Decided

\* The route is decided once, and a produced record is at a place of its own
\* collection with every field of its model: no serializer, archiver or table
\* on the way refuses it.
THEOREM Inductive == Spec => []IInv
<1>1. IInv /\ [Next]_vars => IInv'
  <2> SUFFICES ASSUME IInv, [Next]_vars PROVE IInv'
    OBVIOUS
  <2>1. CASE UNCHANGED vars
    BY <2>1 DEF vars, IInv, TypeOK, Decided, Carried
  <2> QED BY <2>1, ConsumeIInv, ArchiveIInv, LandIInv, StageIInv DEF Next
<1> QED BY <1>1, InitIInv, PTL DEF Spec

\* Every variable has its type, and every value of the record is one of Value.
THEOREM TypeCorrect == Spec => []TypeOK
<1>1. IInv => TypeOK
  BY DEF IInv
<1> QED BY <1>1, Inductive, PTL

\* What reaches the typed topics is exactly what is ingestable, sound and
\* timed, although to_model looks at the fields in an order of its own and
\* pydantic's exception is caught by the clause for another one.
THEOREM ProducesTheSound == Spec => []ProducesExactlyTheSound
<1>1. IInv => ProducesExactlyTheSound
  <2> SUFFICES ASSUME IInv, route # "none"
               PROVE  route = "produce" <=> Ingestable(shape) /\ ~Broken(shape) /\ timed
    BY DEF ProducesExactlyTheSound
  <2>1. route = "produce" <=> ToModel(shape) = "model" /\ timed
    BY DEF IInv, TypeOK, Decided, Route
  <2> QED BY <2>1, AcceptsTheSound DEF IInv, TypeOK
<1> QED BY <1>1, Inductive, PTL

\* An ingestable create without one of its fields is quarantined, whatever else
\* is wrong with it.
THEOREM MissingIsQuarantined == Spec => []MissingFieldIsQuarantined
<1>1. IInv => MissingFieldIsQuarantined
  <2> SUFFICES ASSUME IInv, route # "none", Ingestable(shape),
                      "missing" \in {shape.did, shape.common, shape.payload}
               PROVE  route = "dlq"
    BY DEF MissingFieldIsQuarantined
  <2>1. ToModel(shape) = "KeyError"
    BY MissingFieldRaises DEF IInv, TypeOK
  <2> QED BY <2>1 DEF IInv, Decided, Route, IsInstance
<1> QED BY <1>1, Inductive, PTL

\* A record that reached staging holds every field of the model it was produced
\* from, langs null as the empty list and created_at as an instant.
THEOREM StagedIsIntact == Spec => []StagedIsWhatWasProduced
<1>1. IInv => StagedIsWhatWasProduced
  <2> SUFFICES ASSUME IInv, route = "produce", at = StagingOf[shape.collection]
               PROVE  LET model == Model(shape.collection, detail)
                      IN  \A c \in DOMAIN model : c \in DOMAIN record /\ record[c] = Meant(c, model[c])
    BY DEF StagedIsWhatWasProduced
  <2>1. shape.collection \in Collections /\ detail \in Detail
    BY CarriedIs DEF IInv, TypeOK
  <2>2. at # Serializer[shape.collection].topic
    BY <2>1, Wiring
  <2> QED BY <2>1, <2>2, CarriedIs, ModelIs
<1> QED BY <1>1, Inductive, PTL
=============================================================================

------------------------------- MODULE Parse -------------------------------
(***************************************************************************)
(* The parse boundary of the ingest service: to_model (ingest/parse.py)    *)
(* turns a Jetstream event into a typed model or raises, and the except    *)
(* clauses of _consume (ingest/main.py) turn what it raised into one of    *)
(* three routes.  No state: pure operators over the shape of an event.     *)
(*                                                                         *)
(* A shape keeps what decides the outcome.  A field is present and well    *)
(* typed, absent, or present with a type the pydantic model rejects; the   *)
(* "subject" of a like may also be present without being an object.        *)
(***************************************************************************)

Field == {"ok", "missing", "wrongtype"}

Shape == [ kind       : {"commit", "other"},
           commit     : {"object", "absent"},
           operation  : {"create", "other"},
           record     : {"object", "absent"},
           collection : {"post", "like", "follow", "other"},
           did        : Field,
           common     : Field,                      \* rkey, cid, createdAt
           payload    : Field \cup {"notobject"} ]  \* text, subject, ...

\* What to_model may come back with: a model or the exception it raises.
Result == {"model", "ValueError", "ValidationError", "KeyError", "TypeError"}

\* Only a like indexes into its subject; elsewhere a non-object is just a
\* value of the wrong type.
PayloadRaises(s) ==
  CASE s.payload = "missing"                             -> "KeyError"
    [] s.payload = "notobject" /\ s.collection = "like"  -> "TypeError"
    [] OTHER                                             -> "model"

\* Mutant: the fields are not validated (model_construct).
ConstructUnchecked(s) ==
  CASE s.collection = "like" /\ s.payload = "missing"  -> "KeyError"
    [] s.common = "missing"                             -> "KeyError"
    [] OTHER                                            -> PayloadRaises(s)

\* The constructor call of one collection: the keyword arguments are
\* evaluated first (KeyError, TypeError), then pydantic validates them.  A
\* like reads record["subject"] before anything else.
Construct(s) ==
  IF s.collection = "like" /\ s.payload = "missing"                  THEN "KeyError"
  ELSE IF s.common = "missing"                                       THEN "KeyError"
  ELSE IF PayloadRaises(s) # "model"                                 THEN PayloadRaises(s)
  ELSE IF "wrongtype" \in {s.did, s.common, s.payload} \/ s.payload = "notobject"
                                                                     THEN "ValidationError"
  ELSE "model"

\* The first check that fails decides: they overlap.
ToModel(s) ==
  IF s.kind # "commit"             THEN "ValueError"
  ELSE IF s.commit # "object"      THEN "ValueError"
  ELSE IF s.operation # "create"   THEN "ValueError"
  ELSE IF s.record # "object"      THEN "ValueError"
  ELSE IF s.did = "missing"        THEN "KeyError"
  ELSE IF s.collection = "other"   THEN "ValueError"
  ELSE Construct(s)

(***************************************************************************)
(* The except clauses of _consume, in the order Python tries them.         *)
(* pydantic.ValidationError derives from ValueError, so an except clause   *)
(* for ValueError also catches it.                                         *)
(***************************************************************************)
IsInstance(raised, class) ==
  \/ raised = class
  \/ raised = "ValidationError" /\ class = "ValueError"

Routes == {"produce", "skip", "dlq"}

\* Mutant: except (ValidationError, KeyError), so that a TypeError leaves the loop.
RouteOrRaise(result, timed) ==
  CASE result = "model"                   -> IF timed THEN "produce" ELSE "dlq"
    [] IsInstance(result, "ValueError")   -> "skip"
    [] result = "KeyError"                -> "dlq"
    [] OTHER                              -> "raise"

\* Mutant: except (ValueError, KeyError): pass.
RouteSkipsKeyError(result, timed) ==
  IF result = "model"
    THEN IF timed THEN "produce" ELSE "dlq"
    ELSE IF IsInstance(result, "ValueError") \/ result = "KeyError" THEN "skip" ELSE "dlq"

Route(result, timed) ==
  IF result = "model"
    THEN IF timed THEN "produce" ELSE "dlq"
    ELSE IF IsInstance(result, "ValueError") THEN "skip" ELSE "dlq"
=============================================================================

----------------------------- MODULE GFireDecode -----------------------------
(***************************************************************************)
(* What internal/gfire reads from the answers of GFire.  The forms of these *)
(* answers are not fixed, so each decoder takes a bare array, an object     *)
(* with a list under one of several names, or an object with a number.      *)
(*                                                                         *)
(* A JSON value is its type and a number n: the length of a list, the value *)
(* of an integer, which text it is (0 is the empty one), 0 for anything     *)
(* else.  Elements of lists of jobs, servers and definitions are counted    *)
(* and never looked at; an element of a list of queues is its name and its  *)
(* three numbers.  Names of fields are matched as they are written.         *)
(***************************************************************************)
EXTENDS Integers, Sequences, SequencesExt

Json == [type : {"absent", "null", "list", "number", "text", "other"}, n : Nat]

NoJson    == [type |-> "absent", n |-> 0]
Null      == [type |-> "null",   n |-> 0]
Other     == [type |-> "other",  n |-> 0]
List(n)   == [type |-> "list",   n |-> n]
Number(n) == [type |-> "number", n |-> n]
Text(n)   == [type |-> "text",   n |-> n]

Key == {"jobs", "data", "items", "result", "servers", "recurring",
        "total", "count", "jobs_count"}

\* A body: nothing, no JSON of use, an array of n elements, or an object.  The body
\* null is read as an object without fields.
Reply == [form : {"nothing", "garbage", "array", "object"}, n : Nat, field : [Key -> Json]]

NoField == [k \in Key |-> NoJson]

Nothing   == [form |-> "nothing", n |-> 0, field |-> NoField]
Garbage   == [form |-> "garbage", n |-> 0, field |-> NoField]
Array(n)  == [form |-> "array",   n |-> n, field |-> NoField]
Object(f) == [form |-> "object",  n |-> 0, field |-> f]

\* An object with one field, or with two.
With(k, v) == Object([NoField EXCEPT ![k] = v])
WithBoth(k, v, l, w) == Object([NoField EXCEPT ![k] = v, ![l] = w])

\* The result of a decoder that returns an error.
Failed == -1

-----------------------------------------------------------------------------
ListKeys   == <<"jobs", "data", "items", "result">>
NumberKeys == <<"total", "count", "jobs_count">>
CountKeys  == <<"total", "count">>

\* json.Unmarshal takes null for any type, and refuses a field of another one.
Fits(value, type) == value.type \in {"absent", "null", type}

\* jobsListPayload
FitsJobsList(f) ==
    /\ \A i \in DOMAIN ListKeys : Fits(f[ListKeys[i]], "list")
    /\ \A i \in DOMAIN NumberKeys : Fits(f[NumberKeys[i]], "number")

firstInt(f) ==
    LET given == SelectInSeq(NumberKeys, LAMBDA k : f[k].type = "number")
    IN  IF given = 0 THEN 0 ELSE f[NumberKeys[given]].n

\* Fault: a list that is empty is preferred to a number too.
CountInObjectEmpty(f) ==
    LET given == SelectInSeq(ListKeys, LAMBDA k : f[k].type = "list")
    IN  IF given = 0 THEN firstInt(f) ELSE f[ListKeys[given]].n

\* The first list with anything in it, and only then a number.
CountInObject(f) ==
    LET filled == SelectInSeq(ListKeys, LAMBDA k : f[k].n > 0)
    IN  IF filled = 0 THEN firstInt(f) ELSE f[ListKeys[filled]].n

decodeJobCount(r) ==
    CASE r.form = "array" -> r.n
      [] r.form = "object" /\ FitsJobsList(r.field) -> CountInObject(r.field)
      [] OTHER -> Failed

\* Here an empty list, or null, is an answer, and a field of another type is passed
\* over.
decodeNamedListCount(r, keys) ==
    LET list   == SelectInSeq(keys, LAMBDA k : r.field[k].type \in {"list", "null"})
        number == SelectInSeq(CountKeys, LAMBDA k : r.field[k].type \in {"number", "null"})
    IN  CASE r.form = "array" -> r.n
          [] r.form = "object" /\ list # 0 -> r.field[keys[list]].n
          [] r.form = "object" /\ list = 0 /\ number # 0 -> r.field[CountKeys[number]].n
          [] r.form = "object" /\ list = 0 /\ number = 0 -> 0
          [] OTHER -> Failed

-----------------------------------------------------------------------------
(* Queues.                                                                 *)

QueueKeys == <<"queues", "data", "items", "result">>

\* Fault: jobs that were counted come before the depth.
DepthKeysSwapped == <<"jobs_count", "depth", "count">>

DepthKeys == <<"depth", "jobs_count", "count">>

\* queuePayload; an element that is null is one without fields.
Queue   == [{"name", "depth", "jobs_count", "count"} -> Json]
NoQueue == [k \in {"name", "depth", "jobs_count", "count"} |-> NoJson]

\* A body about queues: an array of them, or an object with queues in fields, each with
\* its type, and with fields of its own, as if it were a queue.
QueueField == [type : {"absent", "null", "list", "other"}, items : Seq(Queue)]
QueueReply == [form : {"nothing", "garbage", "array", "object"}, items : Seq(Queue),
               field : [ToSet(QueueKeys) -> QueueField], own : Queue]

FitsQueue(q) ==
    Fits(q.name, "text") /\ \A i \in DOMAIN DepthKeys : Fits(q[DepthKeys[i]], "number")

FitAll(items) == \A i \in DOMAIN items : FitsQueue(items[i])

\* queueListPayload
FitsQueueList(f) ==
    \A i \in DOMAIN QueueKeys : Fits(f[QueueKeys[i]], "list") /\ FitAll(f[QueueKeys[i]].items)

DepthOf(q) ==
    LET given == SelectInSeq(DepthKeys, LAMBDA k : q[k].type = "number")
    IN  IF given = 0 THEN 0 ELSE q[DepthKeys[given]].n

mapQueueSummaries(items) ==
    [i \in DOMAIN items |-> [name |-> items[i].name.n, depth |-> DepthOf(items[i])]]

\* The first list with anything in it, or the object itself if it has a name.
QueuesInObject(f, own) ==
    LET filled == SelectInSeq(QueueKeys, LAMBDA k : f[k].items # <<>>)
    IN  CASE filled # 0 -> f[QueueKeys[filled]].items
          [] filled = 0 /\ FitsQueue(own) /\ own.name.n > 0 -> <<own>>
          [] OTHER -> <<>>

\* To find no queue is an error, as not to be able to read the body is.
decodeQueueSummaries(r) ==
    CASE r.form = "array" /\ FitAll(r.items) -> mapQueueSummaries(r.items)
      [] r.form = "object" /\ FitsQueueList(r.field) ->
           mapQueueSummaries(QueuesInObject(r.field, r.own))
      [] OTHER -> <<>>
=============================================================================

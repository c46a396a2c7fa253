------------------------------ MODULE OpsSummary ------------------------------
(***************************************************************************)
(* GET /api/ops/summary: thirteen calls to GFire, one after the other, put  *)
(* together into one answer.  Every call that fails leaves its part of the  *)
(* answer as it was made, at zero; the answer is a 200 all the same.  Jobs  *)
(* move on in GFire while the calls are made.                               *)
(*                                                                         *)
(* GFire is external.  It holds a number of each kind of thing, and may put *)
(* it into its answer in many forms.  A call sees GFire at one instant; it  *)
(* fails, or hangs, as it likes: the client has no timeout.  Jobs are       *)
(* listed, at most PageSize of them.  ConsoleAPI has who may ask, and the   *)
(* 500 without a client.                                                    *)
(***************************************************************************)
EXTENDS GFireDecode, FiniteSets

CONSTANTS
    JobStates,      \* opsJobStates, a sequence
    PageSize,       \* limit=1000 in the query
    InitHeld,       \* what there may be in GFire when a request comes
    MaxHeld,        \* bound on the number of things of one kind in GFire
    MaxMoves,       \* bound on the changes in GFire
    TellsTotal      \* does GFire tell the total beside a page of jobs?

JobState == ToSet(JobStates)

ASSUME SummaryAssumption ==
    /\ JobStates \in Seq(STRING)
    /\ JobState \intersect {"queues", "servers", "recurring", "version"} = {}
    /\ \A i, j \in DOMAIN JobStates : JobStates[i] = JobStates[j] => i = j
    /\ PageSize \in Nat \ {0}
    /\ MaxHeld \in Nat /\ MaxMoves \in Nat
    /\ TellsTotal \in BOOLEAN

\* What is counted.
Kind == JobState \union {"queues", "servers", "recurring"}

ASSUME HeldAssumption == InitHeld \subseteq [Kind -> 0..MaxHeld]

VARIABLES
    held,       \* GFire: how much of each kind there is
    moves,      \* how often that changed
    pc,         \* idle, calling, done
    next,       \* the call that is made next, its place in Calls
    summary,    \* opsSummaryResponse
    cancelled,  \* the browser is gone
    was,        \* history: the numbers GFire held during the request
    failed,     \* history: the calls that failed
    hidden      \* history: the calls that were told a number which was not read

vars == <<held, moves, pc, next, summary, cancelled, was, failed, hidden>>

\* Fault: a state of GFire's is not in the list.
CallsShort == <<"queues">> \o Tail(JobStates) \o <<"servers", "recurring", "version">>

Calls == <<"queues">> \o JobStates \o <<"servers", "recurring", "version">>

\* queues is the depth of the one queue there is, "version" whether it was told.
Zero == [k \in Kind |-> 0]

Init ==
    /\ held \in InitHeld
    /\ moves = 0
    /\ pc = "idle"
    /\ next = 1
    /\ summary = Zero
    /\ cancelled = FALSE
    /\ was = [k \in Kind |-> {}]
    /\ failed = {}
    /\ hidden = {}

-----------------------------------------------------------------------------
(* GFire                                                                   *)

Empty == {List(0), Null}

\* The bodies in which GFire may say that it has n jobs in a state: a page of them, a
\* number, or both, beside other lists that are empty, or of a type that is refused.
JobReplies(n) ==
    LET page  == IF n < PageSize THEN n ELSE PageSize
        lists == ToSet(ListKeys)
        numbers == ToSet(NumberKeys)
    IN  IF TellsTotal
        THEN {WithBoth("jobs", List(page), "total", Number(n))}
        ELSE {Array(page), WithBoth("total", Null, "count", Number(n))}
             \union {With(l, List(page)) : l \in lists}
             \union {With(k, Number(n)) : k \in numbers}
             \union {WithBoth(l, v, k, Number(n)) :
                         l \in lists, v \in Empty \union {Other}, k \in numbers}
             \union {WithBoth(l, v, m, List(page)) :
                         l \in lists, v \in Empty, m \in lists}

\* The bodies in which GFire may say that it has n servers or definitions, and that are
\* read as they are meant: a list of all of them, or a number, perhaps beside something
\* that is no list.
NamedReplies(keys, n) ==
    {Array(n)}
    \union {With(l, List(n)) : l \in ToSet(keys)}
    \union {With(k, Number(n)) : k \in ToSet(CountKeys)}
    \union {WithBoth(l, Other, k, Number(n)) : l \in ToSet(keys), k \in ToSet(CountKeys)}

\* Bodies in which a list that is empty, or a null, hides the number behind it.
HidingReplies(keys, n) ==
    {WithBoth(l, v, k, Number(n)) : l \in ToSet(keys), v \in Empty, k \in ToSet(CountKeys)}
    \union {WithBoth("total", Null, "count", Number(n))}

\* jobs_count, where a queue has its depth beside it, counts other jobs too.
Queues(n) ==
    {[name |-> Text(1), depth |-> Number(n), jobs_count |-> Number(n + 1), count |-> NoJson],
     [name |-> Text(1), depth |-> NoJson, jobs_count |-> Number(n), count |-> NoJson],
     [name |-> Text(1), depth |-> Null, jobs_count |-> NoJson, count |-> Number(n)]}

NoList    == [k \in ToSet(QueueKeys) |-> [type |-> "absent", items |-> <<>>]]
ListOf(q) == [type |-> "list", items |-> <<q>>]

\* The bodies in which GFire may describe its queue: an array of it, a list under any
\* name, behind others that are null or refused, or the queue itself.
QueueReplies(n) ==
    {[form |-> "array", items |-> <<q>>, field |-> NoList, own |-> NoQueue] : q \in Queues(n)}
    \union {[form |-> "object", items |-> <<>>, field |-> [NoList EXCEPT ![k] = ListOf(q)],
              own |-> NoQueue] : q \in Queues(n), k \in ToSet(QueueKeys)}
    \union {[form |-> "object", items |-> <<>>,
              field |-> [NoList EXCEPT ![k] = [type |-> t, items |-> <<>>]], own |-> q] :
                q \in Queues(n), k \in ToSet(QueueKeys), t \in {"list", "null", "other"}}

\* Only what happens during the request is of interest.
Change(new) ==
    /\ pc = "calling"
    /\ moves < MaxMoves
    /\ held' = new
    /\ moves' = moves + 1
    /\ was' = [k \in Kind |-> was[k] \union {held'[k]}]
    /\ UNCHANGED <<pc, next, summary, cancelled, failed, hidden>>

\* A job goes from one state to another.
Move ==
    \E a, b \in JobState :
        /\ a # b /\ held[a] > 0 /\ held[b] < MaxHeld
        /\ Change([held EXCEPT ![a] = @ - 1, ![b] = @ + 1])

\* Anything else is added or taken away, or a job is.
Grow == \E k \in Kind : held[k] < MaxHeld /\ Change([held EXCEPT ![k] = @ + 1])

Shrink == \E k \in Kind : held[k] > 0 /\ Change([held EXCEPT ![k] = @ - 1])

-----------------------------------------------------------------------------
(* handleOpsSummary                                                        *)

Start ==
    /\ pc = "idle"
    /\ pc' = "calling"
    /\ was' = [k \in Kind |-> {held[k]}]
    /\ UNCHANGED <<held, moves, next, summary, cancelled, failed, hidden>>

\* The names that CountServers and CountRecurring look for.
NamesFor(call) ==
    IF call = "servers" THEN <<"servers">> ELSE <<"recurring", "jobs", "items", "data">>

\* What ListQueues, CountJobsByState, CountServers or CountRecurring make of a body that
\* says how much there is.
Results(call) ==
    CASE call = "queues" ->
           {found[1].depth : found \in
              {decodeQueueSummaries(r) : r \in QueueReplies(held["queues"])} \ {<<>>}}
      [] call \in JobState -> {decodeJobCount(r) : r \in JobReplies(held[call])} \ {Failed}
      [] OTHER -> {decodeNamedListCount(r, NamesFor(call)) :
                     r \in NamedReplies(NamesFor(call), held[call])}

\* The next call, and the answer that is put together from it.
MakeCall ==
    /\ pc = "calling" /\ next <= Len(Calls)
    /\ next' = next + 1
    /\ UNCHANGED <<held, moves, pc, cancelled, was>>

\* A call that succeeds.
Call ==
    /\ ~cancelled
    /\ MakeCall
    /\ IF Calls[next] = "version" THEN UNCHANGED summary
       ELSE \E n \in Results(Calls[next]) : summary' = [summary EXCEPT ![Calls[next]] = n]
    /\ UNCHANGED <<failed, hidden>>

\* A call that succeeds, and is told by halves.
CallHidden ==
    /\ ~cancelled
    /\ MakeCall
    /\ Calls[next] \in {"servers", "recurring"}
    /\ \E r \in HidingReplies(NamesFor(Calls[next]), held[Calls[next]]) :
         summary' = [summary EXCEPT ![Calls[next]] =
                       decodeNamedListCount(r, NamesFor(Calls[next]))]
    /\ hidden' = hidden \union {Calls[next]}
    /\ UNCHANGED failed

\* A call that fails, for whatever reason: a status, a body that does not decode, a
\* connection, or the browser's leaving.
CallFails ==
    /\ MakeCall
    /\ failed' = failed \union {Calls[next]}
    /\ UNCHANGED <<summary, hidden>>

\* 200, whatever failed.
Answer ==
    /\ pc = "calling" /\ next > Len(Calls)
    /\ pc' = "done"
    /\ UNCHANGED <<held, moves, next, summary, cancelled, was, failed, hidden>>

Cancel ==
    /\ pc = "calling" /\ ~cancelled
    /\ cancelled' = TRUE
    /\ UNCHANGED <<held, moves, pc, next, summary, was, failed, hidden>>

\* Fault: the calls are made with a context of their own.
GiveUpUnbound == cancelled /\ FALSE

\* The context is cancelled, and the call returns.
GiveUp == cancelled /\ CallFails

Next ==
    \/ Move \/ Grow \/ Shrink
    \/ Start \/ Call \/ CallHidden \/ CallFails \/ Answer \/ Cancel

Spec == Init /\ [][Next]_vars

\* The handler runs, and calls end with the context; GFire owes no answer.
FairSpec == Spec /\ WF_vars(GiveUp) /\ WF_vars(Answer)

-----------------------------------------------------------------------------
\* Everything stays in its set: no number of an answer is greater than what GFire can
\* hold, so none was put together from two.
TypeOK ==
    /\ held \in [Kind -> 0..MaxHeld]
    /\ moves \in 0..MaxMoves
    /\ pc \in {"idle", "calling", "done"}
    /\ next \in 1..(Len(Calls) + 1)
    /\ summary \in [Kind -> 0..MaxHeld]
    /\ cancelled \in BOOLEAN
    /\ was \in [Kind -> SUBSET (0..MaxHeld)]
    /\ failed \subseteq Kind \union {"version"}
    /\ hidden \subseteq {"servers", "recurring"}

\* A number in an answer is one that GFire had while the request ran, in whatever form
\* it was told.  The exceptions are the zero of a call that failed, a full page of jobs
\* where there were more, and, for servers and definitions, the zero of an empty list or
\* null that hides a number: there the number is lost without an error.
NumbersWereTrue ==
    pc = "done" => \A k \in Kind :
        \/ summary[k] \in was[k]
        \/ k \in failed \union hidden /\ summary[k] = 0
        \/ k \in JobState /\ summary[k] = PageSize /\ \E n \in was[k] : n > PageSize

\* The jobs of the states together, each one told by its state and a number.
JobsOf(count) == {job \in JobState \X (1..MaxHeld) : job[2] <= count[job[1]]}

Jobs(count) == Cardinality(JobsOf(count))

\* The states are counted one after the other, so a job that moves may be counted
\* twice or not at all.  But when every call succeeds and no state has more than a
\* page, the jobs of the answer are those of GFire up to one for each change.
SumIsClose ==
    pc = "done" /\ failed = {} /\ (\A k \in JobState : \A n \in was[k] : n <= PageSize) =>
        /\ Jobs(summary) <= Jobs(held) + moves
        /\ Jobs(held) <= Jobs(summary) + moves

\* "CountJobsByState returns the number of jobs GFire reports for a state filter": the
\* total that GFire reports is what is counted.  The code does not ensure it.
CountIsReported ==
    \A k \in JobState : pc = "done" /\ k \notin failed => summary[k] \in was[k]

\* A browser that leaves ends the request, however long GFire takes.
GivingUpFrees == cancelled ~> pc = "done"
=============================================================================

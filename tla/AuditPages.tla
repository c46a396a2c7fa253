------------------------------ MODULE AuditPages ------------------------------
(***************************************************************************)
(* Reading the audit trail back: GET /api/audit with limit and offset, page *)
(* by page, while events are written.  created_at is the database's now(),  *)
(* the time at which the INSERT began; the row is seen by others when it    *)
(* commits, so a row may turn up below rows that were there before it, and  *)
(* two rows may carry the same time.  Rows are never changed or deleted.    *)
(*                                                                         *)
(* The reader is external: it asks for page after page of one size until a  *)
(* page comes back short.  A page that was answered with an error is asked  *)
(* for again.  ConsoleAPI has who may read, and what is written when.       *)
(***************************************************************************)
EXTENDS Naturals, Integers, Sequences, FiniteSets, SequencesExt

CONSTANTS
    Event,          \* the ids of the rows, ordered as UUIDs by IdAfter
    IdAfter,        \* <<e, f>> if the id of e is the greater one
    Old,            \* the rows there are at the beginning
    Reader,
    Limit,          \* what readers may send as limit: texts, as numbers or not
    NotGiven,       \* the parameter is missing or blank
    NotANumber,     \* strconv.Atoi refuses the parameter
    DefaultLimit,   \* defaultAuditLimit, 100
    MaxTime         \* bound on the clock of the database

ASSUME PagesAssumption ==
    /\ IsFiniteSet(Event)
    /\ IdAfter \subseteq Event \X Event
    /\ \A e, f \in Event : e # f => (<<e, f>> \in IdAfter <=> <<f, e>> \notin IdAfter)
    /\ \A e \in Event : <<e, e>> \notin IdAfter
    /\ \A e, f, g \in Event :
         <<e, f>> \in IdAfter /\ <<f, g>> \in IdAfter => <<e, g>> \in IdAfter
    /\ Old \subseteq Event
    /\ Limit \subseteq Int \union {NotGiven, NotANumber}
    /\ NotGiven \notin Int /\ NotANumber \notin Int /\ NotGiven # NotANumber
    /\ DefaultLimit \in Nat \ {0}
    /\ MaxTime \in Nat

VARIABLES
    clock,      \* now()
    row,        \* what has become of each event: planned, begun, visible, lost
    createdAt,  \* the column created_at of those that were begun
    reader      \* the readers

vars == <<clock, row, createdAt, reader>>

\* Fault: rows are seen before they are committed.
VisibleAtOnce == {e \in Event : row[e] \in {"begun", "visible"}}

Visible == {e \in Event : row[e] = "visible"}

\* pages is what it got so far, row by row; had is what was there when it started.
Reading == [pc : {"idle", "reading", "refused", "done"}, limit : Limit \union {NotGiven},
            pages : Seq(Event), had : SUBSET Event]

Init ==
    /\ clock = 0
    /\ row = [e \in Event |-> IF e \in Old THEN "visible" ELSE "planned"]
    /\ createdAt = [e \in Event |-> 0]
    /\ reader = [d \in Reader |-> [pc |-> "idle", limit |-> NotGiven,
                                   pages |-> <<>>, had |-> {}]]

-----------------------------------------------------------------------------
(* WriteAudit                                                              *)

Tick ==
    /\ clock < MaxTime
    /\ clock' = clock + 1
    /\ UNCHANGED <<row, createdAt, reader>>

BeginInsert(e) ==
    /\ row[e] = "planned"
    /\ row' = [row EXCEPT ![e] = "begun"]
    /\ createdAt' = [createdAt EXCEPT ![e] = clock]
    /\ UNCHANGED <<clock, reader>>

EndInsert(e) ==
    /\ row[e] = "begun"
    /\ \E end \in {"visible", "lost"} : row' = [row EXCEPT ![e] = end]
    /\ UNCHANGED <<clock, createdAt, reader>>

-----------------------------------------------------------------------------
(* ListAudit                                                               *)

\* Fault: ORDER BY created_at DESC alone leaves rows of one time in any order.
NewerByTime(e, f) == createdAt[e] >= createdAt[f]

\* ORDER BY created_at DESC, id DESC
Newer(e, f) ==
    \/ createdAt[e] > createdAt[f]
    \/ createdAt[e] = createdAt[f] /\ <<e, f>> \in IdAfter

\* The orders that the database may return the rows of a SELECT in.
Orderings(rows) ==
    {s \in SetToSeqs(rows) : \A i, j \in DOMAIN s : i < j => Newer(s[i], s[j])}

\* Fault: LIMIT and OFFSET get each other's argument.
PageSwapped(s, limit, offset) == SubSeq(s, limit + 1, limit + offset)

\* LIMIT $1 OFFSET $2, with the store's own defaults
Page(s, limit, offset) ==
    LET size  == IF limit <= 0 THEN 100 ELSE limit
        start == IF offset < 0 THEN 0 ELSE offset
    IN  SubSeq(s, start + 1, IF start + size < Len(s) THEN start + size ELSE Len(s))

(* handleAudit                                                             *)

LimitOf(raw) == IF raw = NotGiven THEN DefaultLimit ELSE raw

\* Fault: any number will do.
LimitIsValidIfNumber(raw) == raw # NotANumber

\* parseAuditPagination, for the limit; readers count their offsets right.
LimitIsValid(raw) == raw # NotANumber /\ LimitOf(raw) > 0

Start(d) ==
    /\ reader[d].pc = "idle"
    /\ \E raw \in Limit :
         reader' = [reader EXCEPT ![d] = [pc |-> "reading", limit |-> raw,
                                          pages |-> <<>>, had |-> Visible]]
    /\ UNCHANGED <<clock, row, createdAt>>

\* 400
Refuse(d) ==
    /\ reader[d].pc = "reading"
    /\ ~LimitIsValid(reader[d].limit)
    /\ reader' = [reader EXCEPT ![d].pc = "refused"]
    /\ UNCHANGED <<clock, row, createdAt>>

\* 200 with the page after what the reader has; a SELECT sees one state of the table.
Fetch(d) ==
    LET limit == LimitOf(reader[d].limit)
    IN  /\ reader[d].pc = "reading"
        /\ LimitIsValid(reader[d].limit)
        /\ \E s \in Orderings(Visible) :
             LET page == Page(s, limit, Len(reader[d].pages))
             IN  reader' = [reader EXCEPT ![d].pages = @ \o page,
                                          ![d].pc = IF Len(page) < limit THEN "done" ELSE @]
        /\ UNCHANGED <<clock, row, createdAt>>

\* 500, or no answer; the reader asks again.
FetchFails(d) == reader[d].pc = "reading" /\ UNCHANGED vars

-----------------------------------------------------------------------------
Write == Tick \/ \E e \in Event : BeginInsert(e) \/ EndInsert(e)

Read(d) == Start(d) \/ Refuse(d) \/ Fetch(d) \/ FetchFails(d)

Next == Write \/ \E d \in Reader : Read(d)

Spec == Init /\ [][Next]_vars

\* The database answers every page in the end.
FairSpec == Spec /\ \A d \in Reader : WF_vars(Refuse(d) \/ Fetch(d))

-----------------------------------------------------------------------------
\* Everything stays in its set, and only rows that are visible are read.
TypeOK ==
    /\ clock \in 0..MaxTime
    /\ row \in [Event -> {"planned", "begun", "visible", "lost"}]
    /\ createdAt \in [Event -> 0..MaxTime]
    /\ reader \in [Reader -> Reading]
    /\ \A d \in Reader : ToSet(reader[d].pages) \subseteq Visible

Arrived(d) == Visible \ reader[d].had

\* Whoever reads to the end has every event that there was when the reading began,
\* whatever was written meanwhile and wherever it turned up.
NothingMissed ==
    \A d \in Reader : reader[d].pc = "done" => reader[d].had \subseteq ToSet(reader[d].pages)

\* Rows are only repeated because rows arrived: one arrival costs one repetition at
\* most, and a trail that nobody writes to is read without any, newest first.
RepeatsNeedArrivals ==
    \A d \in Reader :
        LET pages == reader[d].pages
        IN  /\ Len(pages) <= Cardinality(ToSet(pages)) + Cardinality(Arrived(d))
            /\ Arrived(d) = {} => \A i, j \in DOMAIN pages : i < j => Newer(pages[i], pages[j])

\* Every reading comes to its end, or is refused at once.
ReadingEnds == \A d \in Reader : reader[d].pc = "reading" ~> reader[d].pc \in {"refused", "done"}
=============================================================================

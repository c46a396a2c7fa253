---------------------- MODULE ConsoleRefinement_proofs ----------------------
(* The handlers of ConsoleAPI implement Accounts, for every table, every set *)
(* of requests and any number of concurrent handlers.  A step of a handler   *)
(* is a step of its author or leaves everything as it is (MoveIsPromised); a *)
(* crash abandons all authors that wait.                                     *)
EXTENDS ConsoleRefinement, ConsoleAPI_proofs

\* The state of the promise.
promised == <<users, phase, draft>>

\* Both sides speak of the same rows.
LEMMA SameRows == Promise!Row = Row
BY DEF Promise!Row, Row, Promise!Filled, Filled, Promise!Role, Role

\* The phases of a handler of a mutation, one by one.
LEMMA PhaseCases ==
    ASSUME NEW h, Changes(h)
    PROVE  /\ h.pc \in {"auth", "load"} => PhaseOf(h) = "open"
           /\ h.pc = "store" => PhaseOf(h) = "drafted"
           /\ h.pc \in {"audit", "reply"} => PhaseOf(h) = "applied"
           /\ h.pc = "done" /\ h.status \in Success => PhaseOf(h) = "acknowledged"
           /\ h.pc = "done" /\ h.status \in Refusal => PhaseOf(h) = "refused"
           /\ h.pc = "done" /\ h.status = 500 => PhaseOf(h) = "doubtful"
           /\ h.pc = "gone" => PhaseOf(h) = "doubtful"
<1>1. Success \intersect Refusal = {} /\ 500 \notin Success /\ 500 \notin Refusal
  BY DEF Success, Refusal
<1> QED
  BY <1>1 DEF PhaseOf

\* Whoever does not change accounts has no part in the promise.
LEMMA Bystander ==
    ASSUME NEW r, NEW h, ~Changes(h)
    PROVE  PhaseOf(h) = "open" /\ DraftOf(r, h) = Promise!NoDraft
BY DEF PhaseOf, DraftOf, Promise!NoDraft

\* Only what is about to be written is a draft.
LEMMA DraftCases ==
    ASSUME NEW r, NEW h
    PROVE  h.pc # "store" => DraftOf(r, h) = Promise!NoDraft
BY DEF DraftOf, Promise!NoDraft

\* One handler moves, and its author with it.
LEMMA AuthorMoves ==
    ASSUME NEW r \in Req, NEW h, req \in [Req -> Handler], req' = [req EXCEPT ![r] = h]
    PROVE  /\ phase' = [phase EXCEPT ![r] = PhaseOf(h)]
           /\ draft' = [draft EXCEPT ![r] = DraftOf(r, h)]
BY DEF phase, draft

\* Nothing has begun.
LEMMA InitIsPromised == Init => Promise!Init
<1> SUFFICES ASSUME Init PROVE Promise!Init
  OBVIOUS
<1>1. \A r \in Req : req[r].pc = "idle"
  BY DEF Init, Idle
<1>2. \A r \in Req : ~Changes(req[r])
  BY <1>1 DEF Changes
<1>3. \A r \in Req : PhaseOf(req[r]) = "open" /\ DraftOf(r, req[r]) = Promise!NoDraft
  BY <1>2, Bystander
<1> QED
  BY <1>3 DEF Init, Promise!Init, phase, draft

-----------------------------------------------------------------------------
(* Steps.                                                                  *)

\* A request that arrives has not begun to change anything.
LEMMA ArriveIsPromised ==
    ASSUME TInv, NEW r \in Req, Arrive(r)
    PROVE  UNCHANGED promised
<1>1. PICK i \in Requests, b \in tokens \union {NoToken} :
         req' = [req EXCEPT ![r] =
                   [Idle EXCEPT !.pc = IF i.op = "login" THEN "lookup" ELSE "auth",
                                !.input = i, !.bearer = b]]
  BY DEF Arrive
<1> DEFINE h == [Idle EXCEPT !.pc = IF i.op = "login" THEN "lookup" ELSE "auth",
                             !.input = i, !.bearer = b]
<1>2. req \in [Req -> Handler]
  BY DEF TInv, TypeOK
<1>3. phase' = [phase EXCEPT ![r] = PhaseOf(h)] /\ draft' = [draft EXCEPT ![r] = DraftOf(r, h)]
  BY <1>1, <1>2, AuthorMoves
<1>4. PhaseOf(req[r]) = "open" /\ DraftOf(r, req[r]) = Promise!NoDraft
  BY Bystander DEF Arrive, At, Changes
<1>5. PhaseOf(h) = "open" /\ DraftOf(r, h) = Promise!NoDraft
  <2>1. h.input = i /\ h.pc = IF i.op = "login" THEN "lookup" ELSE "auth"
    BY DEF Idle
  <2>2. CASE i.op = "login"
    <3>1. ~Changes(h)
      BY <2>1, <2>2 DEF Changes, Mutation
    <3> QED
      BY <3>1, Bystander
  <2>3. CASE i.op # "login"
    <3>1. h.pc = "auth"
      BY <2>1, <2>3
    <3> QED
      BY <3>1, PhaseCases, Bystander, DraftCases
  <2> QED
    BY <2>2, <2>3
<1>6. phase[r] = PhaseOf(req[r]) /\ draft[r] = DraftOf(r, req[r])
  BY DEF phase, draft
<1> HIDE DEF h
<1>7. UNCHANGED <<phase, draft>>
  BY <1>3, <1>4, <1>5, <1>6 DEF phase, draft
<1> QED
  BY <1>7 DEF promised, Arrive

\* A handler that is behind its checks has drafted what fits the table.
LEMMA PreparedFits ==
    ASSUME TInv, TInv', NEW r \in Req, NEW h \in Handler, Moves(r, h),
           req[r].pc = "load", h.pc = "store"
    PROVE  Promise!IsDraft(users, DraftOf(r, h))
<1>1. req'[r] = h
  BY DEF Moves, TInv, TypeOK
<1>2. h.row \in Row /\ h.input.op \in Mutation /\ TargetOf(r, h) \in User
  BY <1>1 DEF TInv, ControlOK, HandlerOK
<1>3. DraftOf(r, h) = [id |-> TargetOf(r, h), row |-> h.row,
                       mode |-> ModeOf(h)]
  BY <1>2 DEF DraftOf, Changes
<1>4. DraftOf(r, h) \in Promise!Draft
  BY <1>2, <1>3, SameRows DEF Promise!Draft, ModeOf
<1>5. ASSUME h.input.op # "users.create"
      PROVE  /\ Holds(users, TargetOf(r, h))
             /\ \/ h.row.hash = users[TargetOf(r, h)].hash
                \/ h.row = [users[TargetOf(r, h)] EXCEPT !.hash = h.row.hash]
  <2>1. IsFresh(users, TargetOf(r, h), h)
    BY <1>5 DEF Moves
  <2>2. users[TargetOf(r, h)] \in Row
    BY <1>2, <2>1, HeldRow DEF IsFresh, TInv, TypeOK
  <2> DEFINE old == users[TargetOf(r, h)]
  <2>3. CASE h.input.op = "users.update"
    BY <2>1, <2>3 DEF IsFresh, UpdatedRow, ApplyUserPatch
  <2>4. CASE h.input.op # "users.update"
    <3>1. h.row = [old EXCEPT !.hash = Trim[h.input.password]]
      BY <2>1, <2>4 DEF IsFresh, UpdatedRow
    <3>2. h.row.hash = Trim[h.input.password]
      BY <3>1, <2>2 DEF Row
    <3> QED
      BY <2>1, <3>1, <3>2 DEF IsFresh
  <2> QED
    BY <2>1, <2>3, <2>4 DEF IsFresh
<1>6. /\ DraftOf(r, h).id = TargetOf(r, h) /\ DraftOf(r, h).row = h.row
      /\ DraftOf(r, h).mode = "update" => h.input.op # "users.create"
  BY <1>3 DEF ModeOf
<1> QED
  BY <1>4, <1>5, <1>6 DEF Promise!IsDraft, Promise!Holds, Holds

\* A handler that is neither new nor writes to the table takes its author on, or
\* leaves everything as it is.
LEMMA MoveIsPromised ==
    ASSUME TInv, TInv', NEW r \in Req, NEW h \in Handler, Moves(r, h), UNCHANGED users
    PROVE  [Promise!Next]_promised
<1> DEFINE old == req[r]
<1>1. req \in [Req -> Handler] /\ req' = [req EXCEPT ![r] = h] /\ h.input = old.input
  BY DEF Moves, TInv, TypeOK
<1>2. phase' = [phase EXCEPT ![r] = PhaseOf(h)] /\ draft' = [draft EXCEPT ![r] = DraftOf(r, h)]
  BY <1>1, AuthorMoves
<1>3. phase[r] = PhaseOf(old) /\ draft[r] = DraftOf(r, old)
  BY DEF phase, draft
<1>4. ASSUME PhaseOf(h) = PhaseOf(old), DraftOf(r, h) = DraftOf(r, old)
      PROVE  UNCHANGED promised
  BY <1>2, <1>3, <1>4 DEF promised, phase, draft
<1>5. old.pc # "idle" /\ h.pc # "idle"
  BY DEF Moves
<1>6. CASE ~Changes(old)
  <2>1. ~Changes(h)
    BY <1>1, <1>5, <1>6 DEF Changes
  <2> QED
    BY <1>4, <1>6, <2>1, Bystander
<1>7. CASE Changes(old)
  <2>1. Changes(h) /\ h.input.op \in Mutation
    BY <1>1, <1>5, <1>7 DEF Changes
  <2>2. h.input.op # "login" /\ h.input.op \notin Read
    BY <2>1 DEF Mutation, Read
  <2>3. old.pc # "lookup"
    BY <1>1, <2>2 DEF TInv, ControlOK, HandlerOK
  <2>4. Promise!Enter(r, PhaseOf(h), DraftOf(r, h))
    BY <1>2 DEF Promise!Enter
  <2>5. CASE h.pc = "done" /\ h.status \in Refusal /\ old.pc \in {"auth", "load", "store"}
    <3>1. PhaseOf(h) = "refused" /\ PhaseOf(old) \in {"open", "drafted"}
      BY <1>7, <2>1, <2>5, PhaseCases
    <3>2. DraftOf(r, h) = Promise!NoDraft
      BY <2>5, DraftCases
    <3>3. Promise!Refuse(r)
      BY <1>3, <2>4, <3>1, <3>2 DEF Promise!Refuse
    <3> QED
      BY <3>3 DEF Promise!Next
  <2>6. CASE h.pc = "done" /\ h.status = 500 /\ old.pc \in {"auth", "load", "store"}
    <3>1. PhaseOf(h) = "doubtful" /\ PhaseOf(old) \in {"open", "drafted"}
      BY <1>7, <2>1, <2>6, PhaseCases
    <3>2. DraftOf(r, h) = Promise!NoDraft
      BY <2>6, DraftCases
    <3>3. /\ phase' = [a \in Req |-> IF a \in {r} THEN "doubtful" ELSE phase[a]]
          /\ draft' = [a \in Req |-> IF a \in {r} THEN Promise!NoDraft ELSE draft[a]]
      BY <1>2, <3>1, <3>2 DEF phase, draft
    <3>4. Promise!Abandon({r})
      BY <1>3, <3>1, <3>3 DEF Promise!Abandon, Promise!Unanswered
    <3> QED
      BY <3>4 DEF Promise!Next
  <2>7. CASE old.pc = "auth" /\ h.pc = "load"
    BY <1>4, <1>7, <2>1, <2>7, PhaseCases, DraftCases
  <2>8. CASE old.pc = "load" /\ h.pc = "store"
    <3>1. PhaseOf(h) = "drafted" /\ PhaseOf(old) = "open"
      BY <1>7, <2>1, <2>8, PhaseCases
    <3>2. Promise!IsDraft(users, DraftOf(r, h))
      BY <2>8, PreparedFits
    <3>3. draft'[r] = DraftOf(r, h)
      BY <1>2 DEF draft
    <3>4. Promise!Prepare(r)
      BY <1>3, <2>4, <3>1, <3>2, <3>3 DEF Promise!Prepare
    <3> QED
      BY <3>4 DEF Promise!Next
  <2>9. CASE old.pc = "audit" /\ h.pc = "reply"
    BY <1>4, <1>7, <2>1, <2>9, PhaseCases, DraftCases
  <2>10. CASE old.pc = "reply" /\ h.pc = "done" /\ h.status = old.status
    <3>1. h.status \in Success
      <4>1. old.status = SuccessOf(old.input.op)
        BY <1>7, <2>10, <2>1, <2>2, <1>1 DEF TInv, ControlOK, HandlerOK
      <4> QED
        BY <4>1, <2>10 DEF SuccessOf, Success
    <3>2. PhaseOf(h) = "acknowledged" /\ PhaseOf(old) = "applied"
      BY <1>7, <2>1, <2>10, <3>1, PhaseCases
    <3>3. DraftOf(r, h) = Promise!NoDraft
      BY <2>10, DraftCases
    <3>4. Promise!Acknowledge(r)
      BY <1>3, <2>4, <3>2, <3>3 DEF Promise!Acknowledge
    <3> QED
      BY <3>4 DEF Promise!Next
  <2> QED
    BY <2>2, <2>3, <2>5, <2>6, <2>7, <2>8, <2>9, <2>10 DEF Moves, Failure
<1> QED
  BY <1>6, <1>7

\* The write of a handler is the one instant at which its draft takes effect.
LEMMA CommitIsPromised ==
    ASSUME TInv, NEW r \in Req, CommitUser(r)
    PROVE  Promise!Next
<1> DEFINE old == req[r]
<1>1. /\ old \in Handler /\ old.pc = "store" /\ old.row \in Row
      /\ old.input.op \in Mutation /\ TargetOf(r, old) \in User
  BY DEF TInv, TypeOK, ControlOK, HandlerOK, CommitUser, At
<1>2. PICK h : /\ req' = [req EXCEPT ![r] = h] /\ h.input = old.input
               /\ \/ h.pc = "audit"
                  \/ h.pc = "done" /\ h.status = 500
  <2>1. CASE req' = [req EXCEPT ![r].pc = "audit", ![r].row = Absent,
                               ![r].subject = Target(r),
                               ![r].status = SuccessOf(req[r].input.op)]
    <3> DEFINE g == [old EXCEPT !.pc = "audit", !.row = Absent, !.subject = Target(r),
                                !.status = SuccessOf(req[r].input.op)]
    <3>1. g.pc = "audit" /\ g.input = old.input
      BY <1>1 DEF Handler
    <3>2. req' = [req EXCEPT ![r] = g]
      BY <2>1 DEF TInv, TypeOK
    <3> QED
      BY <3>1, <3>2
  <2>2. CASE req' = [req EXCEPT ![r].pc = "done", ![r].row = Absent, ![r].status = 500]
    <3> DEFINE g == [old EXCEPT !.pc = "done", !.row = Absent, !.status = 500]
    <3>1. g.pc = "done" /\ g.status = 500 /\ g.input = old.input
      BY <1>1 DEF Handler
    <3>2. req' = [req EXCEPT ![r] = g]
      BY <2>2 DEF TInv, TypeOK
    <3> QED
      BY <3>1, <3>2
  <2> QED
    BY <2>1, <2>2 DEF CommitUser
<1>3. Changes(old) /\ Changes(h)
  BY <1>1, <1>2 DEF Changes
<1>4. PhaseOf(old) = "drafted" /\ PhaseOf(h) \in {"applied", "doubtful"}
  BY <1>1, <1>2, <1>3, PhaseCases
<1>5. DraftOf(r, h) = Promise!NoDraft
  BY <1>2, DraftCases
<1>6. Promise!Enter(r, PhaseOf(h), Promise!NoDraft)
  BY <1>2, <1>5, AuthorMoves DEF Promise!Enter, TInv, TypeOK
<1>7. /\ phase[r] = "drafted"
      /\ draft[r] = [id |-> TargetOf(r, old), row |-> old.row,
                     mode |-> ModeOf(old)]
  BY <1>1, <1>3, <1>4 DEF phase, draft, DraftOf
<1>8. Promise!Appliable(draft[r])
  BY <1>7 DEF Promise!Appliable, ModeOf, CommitUser, Writable, Target, Promise!Holds, Holds,
              Promise!EmailTaken, EmailTaken
<1>9. users' = PutRow(users, draft[r].id, draft[r].row)
  BY <1>7 DEF CommitUser, Target
<1>10. Promise!Apply(r)
  BY <1>4, <1>6, <1>7, <1>8, <1>9 DEF Promise!Apply, Promise!PutRow, PutRow
<1> QED
  BY <1>10 DEF Promise!Next

\* When the process dies, the authors that wait are abandoned together.
LEMMA CrashIsPromised ==
    ASSUME TInv, Crash
    PROVE  Promise!Next
<1> DEFINE S == {r \in Req : Changes(req[r]) /\ ~Over(req[r])}
           left(r) == IF Over(req[r]) THEN req[r] ELSE [req[r] EXCEPT !.pc = "gone", !.row = Absent]
<1>1. req' = [r \in Req |-> left(r)]
  BY DEF Crash
<1>2. ASSUME NEW r \in Req, r \in S
      PROVE  /\ PhaseOf(req[r]) \in Promise!Unanswered
             /\ PhaseOf(left(r)) = "doubtful" /\ DraftOf(r, left(r)) = Promise!NoDraft
  <2>1. req[r] \in Handler /\ HandlerOK(r, req[r]) /\ ~Over(req[r]) /\ Changes(req[r])
    BY <1>2 DEF TInv, TypeOK, ControlOK
  <2>2. left(r).pc = "gone" /\ left(r).input = req[r].input
    BY <2>1 DEF Handler
  <2>3. Changes(left(r))
    BY <2>1, <2>2 DEF Changes
  <2>4. req[r].pc \in {"auth", "load", "store", "audit", "reply"}
    BY <2>1 DEF Handler, Pc, Over, HandlerOK, Changes, Mutation
  <2>5. PhaseOf(req[r]) \in Promise!Unanswered
    BY <2>1, <2>4, PhaseCases DEF Promise!Unanswered
  <2> QED
    BY <2>2, <2>3, <2>5, PhaseCases, DraftCases
<1>3. ASSUME NEW r \in Req, r \notin S
      PROVE  PhaseOf(left(r)) = PhaseOf(req[r]) /\ DraftOf(r, left(r)) = DraftOf(r, req[r])
  <2>1. CASE Over(req[r])
    BY <2>1
  <2>2. CASE ~Over(req[r])
    <3>1. ~Changes(req[r]) /\ req[r].pc # "idle" /\ req[r] \in Handler
      BY <1>3, <2>2 DEF Over, TInv, TypeOK
    <3>2. left(r).input = req[r].input
      BY <2>2, <3>1 DEF Handler
    <3>3. ~Changes(left(r))
      BY <3>1, <3>2 DEF Changes
    <3> QED
      BY <3>1, <3>3, Bystander
  <2> QED
    BY <2>1, <2>2
<1>4. phase' = [a \in Req |-> IF a \in S THEN "doubtful" ELSE phase[a]]
  BY <1>1, <1>2, <1>3 DEF phase
<1>5. draft' = [a \in Req |-> IF a \in S THEN Promise!NoDraft ELSE draft[a]]
  BY <1>1, <1>2, <1>3 DEF draft
<1>6. \A a \in S : phase[a] \in Promise!Unanswered
  BY <1>2 DEF phase
<1>7. Promise!Abandon(S)
  BY <1>4, <1>5, <1>6 DEF Promise!Abandon, Crash
<1> QED
  BY <1>7 DEF Promise!Next

\* Every step keeps the promise.
LEMMA StepIsPromised ==
    ASSUME TInv, TInv', [Next]_vars
    PROVE  [Promise!Next]_promised
<1>1. ASSUME NEW r \in Req, Arrive(r) PROVE UNCHANGED promised
  BY <1>1, ArriveIsPromised
<1>2. ASSUME NEW r \in Req, CommitUser(r) PROVE Promise!Next
  BY <1>2, CommitIsPromised
<1>3. ASSUME NEW r \in Req, NEW h \in Handler, Moves(r, h), UNCHANGED <<users, history>>
      PROVE  [Promise!Next]_promised
  BY <1>3, MoveIsPromised
<1>4. ASSUME UNCHANGED <<req, users, history>> PROVE UNCHANGED promised
  BY <1>4 DEF promised, phase, draft, PhaseOf, DraftOf, Changes, TargetOf
<1> QED
  BY <1>1, <1>2, <1>3, <1>4, CrashIsPromised, StepKinds

\* The concurrent handlers, with failing store calls, disconnects and crashes,
\* change the table only as Accounts promises, and tell their clients so.
THEOREM HandlersKeepPromise == Spec => KeepsPromise
<1>1. Spec => []TInv
  <2>1. Init => TInv
    BY TInvInit
  <2>2. TInv /\ [Next]_vars => TInv'
    BY TInvStep
  <2> QED
    BY <2>1, <2>2, PTL DEF Spec
<1>2. Init => Promise!Init
  BY InitIsPromised
<1>3. TInv /\ TInv' /\ [Next]_vars => [Promise!Next]_promised
  BY StepIsPromised
<1> QED
  BY <1>1, <1>2, <1>3, PTL DEF Spec, KeepsPromise, Promise!Spec, promised, Promise!accountVars
=============================================================================

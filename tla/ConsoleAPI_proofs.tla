-------------------------- MODULE ConsoleAPI_proofs --------------------------
(* Theorems about the request handlers, for every table, every set of       *)
(* requests and any number of concurrent handlers.                          *)
EXTENDS ConsoleAPI, UserStore_proofs

-----------------------------------------------------------------------------
(* Rows that validation lets through.                                      *)

\* A field that is not blank was sent.
LEMMA NotBlank ==
    ASSUME NEW t \in Text \union {Nil}, ~Blank(t)
    PROVE  t \in Text /\ t # Nil /\ Trim[t] \in Filled /\ Trim[t] \in Text \ {Empty}
<1>1. t # Nil
  BY TrimAssumption DEF Blank, Given
<1>2. t \in Text /\ Trim[t] # Empty
  BY <1>1 DEF Blank, Given
<1> QED
  BY <1>1, <1>2, TrimFills, TrimAssumption

\* buildCreateUser returns a well-formed row.
LEMMA CreatedRow ==
    ASSUME NEW i \in Request, CreateIsValid(i)
    PROVE  BuildCreateUser(i) \in Row
<1>1. Trim[i.name] \in Filled /\ Trim[i.email] \in Filled /\ Trim[i.password] \in Text \ {Empty}
  BY NotBlank DEF Request, CreateIsValid
<1>2. i.role \in Role /\ i.enabled \in BOOLEAN
  BY DEF Request, CreateIsValid
<1> QED
  BY <1>1, <1>2 DEF BuildCreateUser, Row

\* applyUserPatch turns a well-formed row into one.
LEMMA PatchedRow ==
    ASSUME NEW i \in Request, NEW row \in Row, PatchIsValid(i)
    PROVE  ApplyUserPatch(row, i) \in Row
<1>1. i.name # Nil => Trim[i.name] \in Filled
  BY NotBlank DEF Request, PatchIsValid
<1>2. i.email # Nil => Trim[i.email] \in Filled
  BY NotBlank DEF Request, PatchIsValid
<1>3. Patched(row.role, i.role) \in Role
  BY DEF Request, PatchIsValid, Row, Patched
<1>4. Patched(row.enabled, i.enabled) \in BOOLEAN
  BY DEF Request, Row, Patched
<1> QED
  BY <1>1, <1>2, <1>3, <1>4 DEF ApplyUserPatch, Row

\* What PATCH and the password endpoint write back is well-formed.
LEMMA UpdatedRowType ==
    ASSUME NEW h \in Handler, h.input \in Requests, NEW row \in Row, UpdateIsValid(h, row)
    PROVE  UpdatedRow(row, h.input) \in Row
<1>1. h.input \in Request
  BY ConsoleAssumption
<1>2. CASE h.input.op = "users.update"
  BY <1>1, <1>2, PatchedRow DEF UpdateIsValid, UpdatedRow
<1>3. CASE h.input.op # "users.update"
  <2>1. Trim[h.input.password] \in Text \ {Empty}
    BY <1>1, <1>3, NotBlank DEF UpdateIsValid, Request
  <2> QED
    BY <2>1, <1>3 DEF UpdatedRow, Row
<1> QED
  BY <1>2, <1>3

-----------------------------------------------------------------------------
(* Types and control.                                                      *)

TInv == TypeOK /\ ControlOK

\* One handler moves on and its new state is in order.
LEMMA Move ==
    ASSUME TInv, NEW r \in Req, NEW h \in Handler, HandlerOK(r, h),
           req' = [req EXCEPT ![r] = h]
    PROVE  req' \in [Req -> Handler] /\ ControlOK'
<1>1. req' \in [Req -> Handler]
  BY DEF TInv, TypeOK
<1>2. ASSUME NEW q \in Req PROVE HandlerOK(q, req'[q])
  BY DEF TInv, TypeOK, ControlOK
<1> QED
  BY <1>1, <1>2 DEF ControlOK

\* A handler that comes to a verdict is still a handler.
LEMMA VerdictType ==
    ASSUME NEW h \in Handler, NEW pc \in Pc, NEW s \in Status
    PROVE  /\ [h EXCEPT !.pc = pc, !.status = s] \in Handler
           /\ [h EXCEPT !.pc = pc, !.row = Absent, !.status = s] \in Handler
BY DEF Handler

\* A handler that answers is over, and the database is as it was.
LEMMA AnswerStep ==
    ASSUME TInv, NEW r \in Req, NEW s \in Status, req[r].pc # "idle", Answer(r, s)
    PROVE  TInv'
<1> DEFINE h == [req[r] EXCEPT !.pc = "done", !.status = s, !.row = Absent]
<1>1. req[r] \in Handler /\ req[r].input \in Requests
  BY DEF TInv, TypeOK, ControlOK, HandlerOK
<1>2. h \in Handler
  BY <1>1 DEF Handler, Pc
<1>3. HandlerOK(r, h)
  BY <1>1 DEF HandlerOK, Handler
<1>4. req' = [req EXCEPT ![r] = h]
  BY DEF Answer, TInv, TypeOK
<1>5. req' \in [Req -> Handler] /\ ControlOK'
  BY <1>2, <1>3, <1>4, Move
<1> QED
  BY <1>5 DEF Answer, history, TInv, TypeOK

\* In the initial state no handler has started.
LEMMA TInvInit == Init => TInv
<1> SUFFICES ASSUME Init PROVE TInv
  OBVIOUS
<1>1. Idle \in Handler
  BY DEF Idle, Handler, Pc, Status, Success, Failure, Refusal
<1>2. TypeOK
  BY <1>1, ConsoleAssumption DEF Init, TypeOK
<1>3. ControlOK
  BY DEF Init, ControlOK, HandlerOK, Idle
<1> QED
  BY <1>2, <1>3 DEF TInv

\* Every step of every handler, and of its surroundings, keeps TInv.
LEMMA TInvStep == TInv /\ [Next]_vars => TInv'
<1> SUFFICES ASSUME TInv, [Next]_vars PROVE TInv'
  OBVIOUS
<1> USE DEF TInv
<1> DEFINE keep == UNCHANGED <<users, auditLog, tokens, history>>
<1>1. ASSUME NEW r \in Req, Arrive(r) PROVE TInv'
  <2>1. PICK i \in Requests, b \in tokens \union {NoToken} :
            req' = [req EXCEPT ![r] =
                      [Idle EXCEPT !.pc = IF i.op = "login" THEN "lookup" ELSE "auth",
                                   !.input = i, !.bearer = b]]
    BY <1>1 DEF Arrive
  <2> DEFINE h == [Idle EXCEPT !.pc = IF i.op = "login" THEN "lookup" ELSE "auth",
                               !.input = i, !.bearer = b]
  <2>2. h \in Handler
    <3>1. b \in Token \union {NoToken}
      BY DEF TypeOK
    <3>2. (IF i.op = "login" THEN "lookup" ELSE "auth") \in Pc
      BY DEF Pc
    <3>3. 0 \in Status
      BY DEF Status, Success, Failure, Refusal
    <3> QED
      BY <3>1, <3>2, <3>3 DEF Idle, Handler
  <2>3. HandlerOK(r, h)
    BY DEF HandlerOK, Idle
  <2>4. req' \in [Req -> Handler] /\ ControlOK'
    BY <2>1, <2>2, <2>3, Move
  <2>5. entitled' \in [Req -> BOOLEAN]
    BY <1>1 DEF Arrive, NoteEntitled, TypeOK, Entitled
  <2> QED
    BY <1>1, <2>4, <2>5 DEF Arrive, TypeOK
<1>2. ASSUME NEW r \in Req, Handle(r) PROVE TInv'
  <2>0. req[r] \in Handler /\ HandlerOK(r, req[r])
    BY DEF TypeOK, ControlOK
  <2>s. 200 \in Status /\ 401 \in Status /\ 403 \in Status /\ 500 \in Status
    BY DEF Status, Success, Failure, Refusal
  <2>1. CASE LoginBadBody(r)
    BY <2>1, AnswerStep DEF LoginBadBody, At, Status, Success, Failure, Refusal
  <2>2. CASE LoginLookup(r)
    <3>1. ASSUME req' = [req EXCEPT ![r].pc = "audit", ![r].status = 401] PROVE TInv'
      <4>0. PICK s \in Status : s = 401
        BY <2>s
      <4> DEFINE h == [req[r] EXCEPT !.pc = "audit", !.status = s]
      <4>1. h \in Handler /\ HandlerOK(r, h)
        <5>1. h \in Handler
          BY <2>0, VerdictType DEF Pc
        <5>2. HandlerOK(r, h)
          BY <2>0, <2>2, <4>0 DEF Handler, HandlerOK, LoginLookup, At
        <5> QED
          BY <5>1, <5>2
      <4>2. req' = [req EXCEPT ![r] = h]
        BY <3>1, <4>0 DEF TypeOK
      <4>3. req' \in [Req -> Handler] /\ ControlOK'
        BY <4>1, <4>2, Move
      <4> QED
        BY <4>3, <2>2 DEF LoginLookup, TypeOK, history
    <3>2. ASSUME NEW u \in User, Holds(users, u),
                 req' = [req EXCEPT ![r].pc = "audit", ![r].subject = u,
                                    ![r].row = users[u],
                                    ![r].status = LoginVerdict(users[u], req[r].input.password)]
          PROVE  TInv'
      <4> DEFINE v == LoginVerdict(users[u], req[r].input.password)
      <4> DEFINE h == [req[r] EXCEPT !.pc = "audit", !.subject = u,
                                     !.row = users[u], !.status = v]
      <4>0. users[u] \in Row
        BY <3>2, HeldRow DEF TypeOK
      <4>1. v \in Status /\ (v = 200 \/ v = 401 \/ v = 403)
        BY <2>s DEF LoginVerdict
      <4> HIDE DEF v
      <4>2. h \in Handler /\ HandlerOK(r, h)
        <5>1. h \in Handler
          BY <2>0, <2>s, <2>2, <4>0, <4>1 DEF Handler, Pc
        <5>2. h.pc = "audit" /\ h.input = req[r].input /\ h.subject = u /\ h.row = users[u]
          BY <2>0 DEF Handler
        <5>3. h.status = v
          BY <2>0 DEF Handler
        <5>4. h.input \in Requests /\ h.input.op = "login"
          BY <2>0, <2>2, <5>2 DEF HandlerOK, LoginLookup, At
        <5>5. HandlerOK(r, h)
          BY <4>0, <4>1, <5>2, <5>3, <5>4 DEF HandlerOK
        <5> QED
          BY <5>1, <5>5
      <4>3. req' = [req EXCEPT ![r] = h]
        BY <3>2 DEF TypeOK, v
      <4>4. req' \in [Req -> Handler] /\ ControlOK'
        BY <4>2, <4>3, Move
      <4> QED
        BY <4>4, <2>2 DEF LoginLookup, TypeOK, history
    <3> QED
      BY <2>2, <3>1, <3>2 DEF LoginLookup, ByEmail
  <2>3. CASE RejectToken(r)
    BY <2>3, AnswerStep DEF RejectToken, At, Status, Success, Failure, Refusal
  <2>4. CASE RejectUser(r)
    BY <2>4, AnswerStep DEF RejectUser, At, Status, Success, Failure, Refusal
  <2>5. CASE Admit(r)
    <3> DEFINE h == [req[r] EXCEPT !.pc = "load"]
    <3>1. req[r].bearer \in Token
      BY <2>5 DEF Admit, BearerKnown, TypeOK
    <3>2. h \in Handler /\ HandlerOK(r, h)
      <4>1. h \in Handler
        BY <2>0, <2>5, <3>1 DEF Handler, Pc, HandlerOK, Admit, At
      <4>2. HandlerOK(r, h)
        BY <2>0, <2>5, <3>1 DEF Handler, Pc, HandlerOK, Admit, At
      <4> QED
        BY <4>1, <4>2
    <3>3. req' = [req EXCEPT ![r] = h]
      BY <2>5 DEF Admit, Goto, TypeOK
    <3>4. req' \in [Req -> Handler] /\ ControlOK'
      BY <3>2, <3>3, Move
    <3> QED
      BY <3>4, <2>5 DEF Admit, TypeOK, history
  <2>6. CASE AnswerRead(r)
    BY <2>6, AnswerStep DEF AnswerRead, At, Status, Success, Failure, Refusal
  <2>7. CASE MissTarget(r)
    BY <2>7, AnswerStep DEF MissTarget, At, Status, Success, Failure, Refusal
  <2>8. CASE RefuseCreate(r)
    BY <2>8, AnswerStep DEF RefuseCreate, At, Status, Success, Failure, Refusal
  <2>9. CASE PrepareCreate(r)
    <3> DEFINE h == [req[r] EXCEPT !.pc = "store", !.row = BuildCreateUser(req[r].input)]
    <3>1. req[r].input \in Request
      BY <2>0, <2>9, ConsoleAssumption DEF HandlerOK, PrepareCreate, At
    <3>2. BuildCreateUser(req[r].input) \in Row
      BY <3>1, <2>9, CreatedRow DEF PrepareCreate
    <3>3. h \in Handler /\ HandlerOK(r, h)
      <4>1. h \in Handler
        BY <2>0, <2>9, <3>2, ConsoleAssumption
        DEF Handler, Pc, HandlerOK, PrepareCreate, At, TargetOf, Mutation
      <4>2. HandlerOK(r, h)
        BY <2>0, <2>9, <3>2, ConsoleAssumption
        DEF Handler, Pc, HandlerOK, PrepareCreate, At, TargetOf, Mutation
      <4> QED
        BY <4>1, <4>2
    <3>4. req' = [req EXCEPT ![r] = h]
      BY <2>9 DEF PrepareCreate, TypeOK
    <3>5. req' \in [Req -> Handler] /\ ControlOK'
      BY <3>3, <3>4, Move
    <3> QED
      BY <3>5, <2>9 DEF PrepareCreate, TypeOK, history
  <2>10. CASE RefuseUpdate(r)
    BY <2>10, AnswerStep DEF RefuseUpdate, LoadedForUpdate, At, Status, Success, Failure, Refusal
  <2>11. CASE PrepareUpdate(r)
    <3> DEFINE old == users[req[r].input.id]
               h == [req[r] EXCEPT !.pc = "store", !.row = UpdatedRow(old, req[r].input)]
    <3>1. req[r].input \in Requests /\ old \in Row
      BY <2>0, <2>11, HeldRow DEF HandlerOK, PrepareUpdate, LoadedForUpdate, At, TypeOK
    <3>2. UpdatedRow(old, req[r].input) \in Row
      BY <3>1, <2>0, <2>11, UpdatedRowType DEF PrepareUpdate
    <3>3. h \in Handler /\ HandlerOK(r, h)
      <4>1. h \in Handler
        BY <2>0, <2>11, <3>2
        DEF Handler, Pc, HandlerOK, PrepareUpdate, LoadedForUpdate, At, TargetOf, Mutation
      <4>2. HandlerOK(r, h)
        BY <2>0, <2>11, <3>2
        DEF Handler, Pc, HandlerOK, PrepareUpdate, LoadedForUpdate, At, TargetOf, Mutation
      <4> QED
        BY <4>1, <4>2
    <3>4. req' = [req EXCEPT ![r] = h]
      BY <2>11 DEF PrepareUpdate, TypeOK
    <3>5. req' \in [Req -> Handler] /\ ControlOK'
      BY <3>3, <3>4, Move
    <3> QED
      BY <3>5, <2>11 DEF PrepareUpdate, TypeOK, history
  <2>12. CASE CommitUser(r)
    <3>1. req[r].row \in Row /\ Target(r) \in User /\ req[r].input \in Requests
      BY <2>0, <2>12 DEF CommitUser, At, HandlerOK, Target
    <3>2. users' \in Table
      BY <3>1, <2>12 DEF CommitUser, PutRow, Table, TypeOK
    <3>3. entitled' \in [Req -> BOOLEAN] /\ stale' \in [Req -> BOOLEAN]
      BY <2>12 DEF CommitUser, NoteEntitled, Entitled, At, TypeOK
    <3>4. applied' \in [Req -> BOOLEAN]
      BY <2>12 DEF CommitUser, TypeOK
    <3>5. PICK h \in Handler : HandlerOK(r, h) /\ req' = [req EXCEPT ![r] = h]
      <4>1. CASE req' = [req EXCEPT ![r].pc = "audit", ![r].row = Absent,
                                    ![r].subject = Target(r),
                                    ![r].status = SuccessOf(req[r].input.op)]
        <5> DEFINE h == [req[r] EXCEPT !.pc = "audit", !.row = Absent, !.subject = Target(r),
                                       !.status = SuccessOf(req[r].input.op)]
        <5>1. SuccessOf(req[r].input.op) \in Status
          BY DEF SuccessOf, Status, Success, Failure, Refusal
        <5>2. h \in Handler /\ HandlerOK(r, h)
          <6>1. h \in Handler
            BY <2>0, <2>12, <3>1, <5>1 DEF Handler, Pc, HandlerOK, CommitUser, At, TargetOf, Target
          <6>2. HandlerOK(r, h)
            BY <2>0, <2>12, <3>1, <5>1 DEF Handler, Pc, HandlerOK, CommitUser, At, TargetOf, Target
          <6> QED
            BY <6>1, <6>2
        <5>3. req' = [req EXCEPT ![r] = h]
          BY <4>1 DEF TypeOK
        <5> QED
          BY <5>2, <5>3
      <4>2. CASE req' = [req EXCEPT ![r].pc = "done", ![r].row = Absent, ![r].status = 500]
        <5>0. PICK s \in Status : s = 500
          BY <2>s
        <5> DEFINE h == [req[r] EXCEPT !.pc = "done", !.row = Absent, !.status = s]
        <5>1. h \in Handler /\ HandlerOK(r, h)
          <6>1. h \in Handler
            BY <2>0, VerdictType DEF Pc
          <6>2. HandlerOK(r, h)
            BY <2>0, <3>1 DEF Handler, HandlerOK
          <6> QED
            BY <6>1, <6>2
        <5>2. req' = [req EXCEPT ![r] = h]
          BY <4>2, <5>0 DEF TypeOK
        <5> QED
          BY <5>1, <5>2
      <4> QED
        BY <2>12, <4>1, <4>2 DEF CommitUser
    <3>6. req' \in [Req -> Handler] /\ ControlOK'
      BY <3>5, Move
    <3> QED
      BY <3>2, <3>3, <3>4, <3>6, <2>12 DEF CommitUser, TypeOK
  <2>13. CASE RefuseWrite(r)
    BY <2>13, AnswerStep DEF RefuseWrite, At, Status, Success, Failure, Refusal
  <2>14. CASE StoreFails(r)
    BY <2>14, AnswerStep DEF StoreFails, At, Status, Success, Failure, Refusal
  <2>15. ASSUME At(r, "audit"), Goto(r, "reply")
         PROVE  req' \in [Req -> Handler] /\ ControlOK'
    <3> DEFINE h == [req[r] EXCEPT !.pc = "reply"]
    <3>1. h \in Handler /\ HandlerOK(r, h)
      <4>1. h \in Handler
        BY <2>0, <2>15 DEF Handler, Pc, HandlerOK, At, TargetOf
      <4>2. HandlerOK(r, h)
        BY <2>0, <2>15 DEF Handler, Pc, HandlerOK, At, TargetOf
      <4> QED
        BY <4>1, <4>2
    <3>2. req' = [req EXCEPT ![r] = h]
      BY <2>15 DEF Goto, TypeOK
    <3> QED
      BY <3>1, <3>2, Move
  <2>16. CASE WriteAudit(r)
    <3>1. AuditEvent(r) \in Event
      BY <2>0, <2>16 DEF AuditEvent, Event, WriteAudit, At, HandlerOK, Handler, Token
    <3> QED
      BY <2>15, <2>16, <3>1 DEF WriteAudit, TypeOK, history
  <2>17. CASE LoseAudit(r)
    BY <2>15, <2>17 DEF LoseAudit, TypeOK, history
  <2>18. CASE Reply(r)
    <3> DEFINE h == [req[r] EXCEPT !.pc = "done", !.row = Absent]
    <3>1. h \in Handler /\ HandlerOK(r, h)
      <4>1. h \in Handler
        BY <2>0, <2>18 DEF Handler, Pc, HandlerOK, Reply, At
      <4>2. HandlerOK(r, h)
        BY <2>0, <2>18 DEF Handler, Pc, HandlerOK, Reply, At
      <4> QED
        BY <4>1, <4>2
    <3>2. req' = [req EXCEPT ![r] = h]
      BY <2>18 DEF Reply, TypeOK
    <3>3. req' \in [Req -> Handler] /\ ControlOK'
      BY <3>1, <3>2, Move
    <3>4. req[r].input.op = "login" /\ req[r].status = 200
            => req[r].subject \in User /\ req[r].row.role \in Role
      BY <2>0, <2>18 DEF Reply, At, HandlerOK, Row, Mutation
    <3>5. tokens' \subseteq Token
      BY <3>4, <2>18 DEF Reply, Token, TypeOK
    <3> QED
      BY <3>3, <3>5, <2>18 DEF Reply, TypeOK, history
  <2> QED
    BY <1>2, <2>1, <2>2, <2>3, <2>4, <2>5, <2>6, <2>7, <2>8, <2>9, <2>10, <2>11, <2>12,
       <2>13, <2>14, <2>16, <2>17, <2>18 DEF Handle
<1>3. ASSUME NEW t \in Token, Expire(t) PROVE TInv'
  BY <1>3 DEF Expire, TypeOK, ControlOK, HandlerOK, TargetOf, history
<1>4. CASE Crash
  <2>1. \A r \in Req : req'[r] = req[r] \/ req'[r] = [req[r] EXCEPT !.pc = "gone", !.row = Absent]
    BY <1>4 DEF Crash
  <2>2. ASSUME NEW r \in Req PROVE req'[r] \in Handler /\ HandlerOK(r, req'[r])
    <3>1. req[r] \in Handler /\ HandlerOK(r, req[r])
      BY DEF TypeOK, ControlOK
    <3>2. CASE Over(req[r])
      BY <3>1, <3>2, <1>4 DEF Crash
    <3>3. CASE ~Over(req[r])
      <4> DEFINE h == [req[r] EXCEPT !.pc = "gone", !.row = Absent]
      <4>1. req[r].input \in Requests
        BY <3>1, <3>3 DEF HandlerOK, Over
      <4>2. h \in Handler /\ HandlerOK(r, h)
        <5>1. h \in Handler
          BY <3>1, <4>1 DEF HandlerOK, Handler, Pc
        <5>2. HandlerOK(r, h)
          BY <3>1, <4>1 DEF HandlerOK, Handler, Pc
        <5> QED
          BY <5>1, <5>2
      <4> QED
        BY <3>3, <4>2, <1>4 DEF Crash
    <3> QED
      BY <3>2, <3>3
  <2>3. req' \in [Req -> Handler]
    BY <2>2, <1>4 DEF Crash
  <2>4. ControlOK'
    BY <2>2 DEF ControlOK
  <2> QED
    BY <2>3, <2>4, <1>4 DEF Crash, TypeOK, history
<1>5. CASE UNCHANGED vars
  BY <1>5 DEF vars, TypeOK, ControlOK, HandlerOK, TargetOf
<1> QED
  BY <1>1, <1>2, <1>3, <1>4, <1>5 DEF Next

\* What every handler does keeps the table well-formed: no blank text, no
\* unknown role is ever stored, whichever requests overlap.
THEOREM TypeCorrect == Spec => []TypeOK
<1>1. Init => TInv
  BY TInvInit
<1>2. TInv /\ [Next]_vars => TInv'
  BY TInvStep
<1>3. TInv => TypeOK
  BY DEF TInv
<1> QED
  BY <1>1, <1>2, <1>3, PTL DEF Spec

-----------------------------------------------------------------------------
(* What one step does, seen from the outside.                              *)

\* The moves of a handler that is neither new nor writes to the table.
Moves(r, h) ==
    LET old == req[r]
    IN  /\ req' = [req EXCEPT ![r] = h]
        /\ h.input = old.input /\ h.bearer = old.bearer
        /\ \/ /\ old.pc \in {"lookup", "auth", "load", "store"} /\ h.pc = "done"
              /\ h.status \in Failure
           \/ old.pc = "load" /\ h.pc = "done" /\ h.status \in Success /\ h.input.op \in Read
           \/ /\ old.pc = "lookup" /\ h.pc = "audit"
              /\ h.status \in Refusal \/ (h.status \in Success /\ Entitled(users, old))
           \/ old.pc = "auth" /\ h.pc = "load" /\ Entitled(users, old)
           \/ /\ old.pc = "load" /\ h.pc = "store"
              /\ h.input.op # "users.create" => IsFresh(users, TargetOf(r, h), h)
           \/ old.pc = "audit" /\ h.pc = "reply" /\ h.status = old.status
           \/ old.pc = "reply" /\ h.pc = "done" /\ h.status = old.status

\* Refusals and answers to reads are such moves.
LEMMA AnswerMoves ==
    ASSUME TInv, NEW r \in Req, NEW s \in Status, Answer(r, s),
           \/ req[r].pc \in {"lookup", "auth", "load", "store"} /\ s \in Failure
           \/ req[r].pc = "load" /\ s \in Success /\ req[r].input.op \in Read
    PROVE  (\E h \in Handler : Moves(r, h)) /\ UNCHANGED <<users, history, auditLog>>
<1> DEFINE h == [req[r] EXCEPT !.pc = "done", !.status = s, !.row = Absent]
<1>1. req[r] \in Handler
  BY DEF TInv, TypeOK
<1>2. h \in Handler
  BY <1>1 DEF Handler, Pc
<1>3. req' = [req EXCEPT ![r] = h]
  BY DEF Answer, TInv, TypeOK
<1>4. h.pc = "done" /\ h.status = s /\ h.input = req[r].input /\ h.bearer = req[r].bearer
  BY <1>1 DEF Handler
<1>5. Moves(r, h)
  BY <1>3, <1>4 DEF Moves
<1> QED
  BY <1>2, <1>5 DEF Answer

\* So is every step of a handler but the write to the table.
LEMMA HandlerMoves ==
    ASSUME TInv, NEW r \in Req, Handle(r), ~CommitUser(r)
    PROVE  (\E h \in Handler : Moves(r, h)) /\ UNCHANGED <<users, history>>
<1> DEFINE goal == (\E h \in Handler : Moves(r, h)) /\ UNCHANGED <<users, history>>
<1>h. req[r] \in Handler /\ HandlerOK(r, req[r])
  BY DEF TInv, TypeOK, ControlOK
<1>s. /\ 400 \in Refusal /\ 401 \in Refusal /\ 403 \in Refusal /\ 404 \in Refusal
      /\ 200 \in Success /\ Refusal \subseteq Failure /\ 500 \in Failure
      /\ 200 \in Status /\ 400 \in Status /\ 401 \in Status /\ 403 \in Status
      /\ 404 \in Status /\ 500 \in Status
  BY DEF Refusal, Failure, Success, Status
<1>1. CASE LoginBadBody(r)
  BY <1>1, <1>s, AnswerMoves DEF LoginBadBody, At
<1>2. CASE LoginLookup(r)
  <2>1. ASSUME req' = [req EXCEPT ![r].pc = "audit", ![r].status = 401] PROVE goal
    <3>1. PICK s \in Status : s = 401
      BY <1>s
    <3> DEFINE h == [req[r] EXCEPT !.pc = "audit", !.status = s]
    <3>2. h \in Handler
      BY <1>h, VerdictType DEF Pc
    <3>3. req' = [req EXCEPT ![r] = h]
      BY <2>1, <3>1 DEF TInv, TypeOK
    <3>4. /\ h.pc = "audit" /\ h.status = s
          /\ h.input = req[r].input /\ h.bearer = req[r].bearer
      BY <1>h DEF Handler
    <3>5. s \in Refusal
      BY <3>1, <1>s
    <3>6. Moves(r, h)
      BY <3>3, <3>4, <3>5, <1>2 DEF Moves, LoginLookup, At
    <3> QED
      BY <3>2, <3>6, <1>2 DEF LoginLookup
  <2>2. ASSUME NEW u \in ByEmail(users, Trim[req[r].input.email]),
               req' = [req EXCEPT ![r].pc = "audit", ![r].subject = u,
                                  ![r].row = users[u],
                                  ![r].status = LoginVerdict(users[u], req[r].input.password)]
        PROVE  goal
    <3> DEFINE v == LoginVerdict(users[u], req[r].input.password)
               h == [req[r] EXCEPT !.pc = "audit", !.subject = u,
                                   !.row = users[u], !.status = v]
    <3>0. u \in User /\ users[u] \in Row
      BY <2>2, HeldRow DEF ByEmail, TInv, TypeOK
    <3>1. v \in Status
      BY <1>s DEF LoginVerdict
    <3>2. v \in Refusal \/ (v \in Success /\ Entitled(users, req[r]))
      <4>1. CASE v # 401 /\ v # 403
        <5>1. users[u].enabled /\ users[u].hash = req[r].input.password
          BY <4>1 DEF LoginVerdict, CheckPassword
        <5>2. req[r].input.op = "login" /\ ~Over(req[r])
          BY <1>2, <1>h DEF LoginLookup, At, HandlerOK, Over
        <5>3. ~Blank(req[r].input.email)
          BY <1>2 DEF LoginLookup, CredentialsMissing
        <5>4. Entitled(users, req[r])
          BY <2>2, <5>1, <5>2, <5>3 DEF Entitled
        <5>5. v = 200
          BY <4>1 DEF LoginVerdict
        <5> QED
          BY <5>4, <5>5, <1>s
      <4> QED
        BY <4>1, <1>s
    <3> HIDE DEF v
    <3>3. h \in Handler
      BY <1>h, <3>0, <3>1 DEF Handler, Pc
    <3>4. req' = [req EXCEPT ![r] = h]
      BY <2>2 DEF TInv, TypeOK, v
    <3>5. /\ h.pc = "audit" /\ h.status = v
          /\ h.input = req[r].input /\ h.bearer = req[r].bearer
      BY <1>h DEF Handler
    <3>6. Moves(r, h)
      BY <3>2, <3>4, <3>5, <1>2 DEF Moves, LoginLookup, At
    <3> QED
      BY <3>3, <3>6, <1>2 DEF LoginLookup
  <2> QED
    BY <1>2, <2>1, <2>2 DEF LoginLookup
<1>3. CASE RejectToken(r)
  BY <1>3, <1>s, AnswerMoves DEF RejectToken, At
<1>4. CASE RejectUser(r)
  BY <1>4, <1>s, AnswerMoves DEF RejectUser, At
<1>5. CASE Admit(r)
  <2> DEFINE h == [req[r] EXCEPT !.pc = "load"]
  <2>1. h \in Handler
    BY <1>h DEF Handler, Pc
  <2>2. req' = [req EXCEPT ![r] = h]
    BY <1>5 DEF Admit, Goto, TInv, TypeOK
  <2>3. h.pc = "load" /\ h.input = req[r].input /\ h.bearer = req[r].bearer
    BY <1>h DEF Handler
  <2>4. req[r].bearer \in Token /\ req[r].input.op # "login" /\ ~Over(req[r])
    BY <1>5, <1>h DEF Admit, At, BearerKnown, TInv, TypeOK, HandlerOK, Over
  <2>5. Entitled(users, req[r])
    BY <1>5, <2>4, ConsoleAssumption DEF Admit, BearerKnown, Allowed, Entitled
  <2>6. Moves(r, h)
    BY <2>2, <2>3, <2>5, <1>5 DEF Moves, Admit, At
  <2> QED
    BY <2>1, <2>6, <1>5 DEF Admit
<1>6. CASE AnswerRead(r)
  <2>1. req[r].input.op \in Read
    BY <1>6 DEF AnswerRead, Read
  <2> QED
    BY <2>1, <1>6, <1>s, AnswerMoves DEF AnswerRead, At
<1>7. CASE MissTarget(r)
  BY <1>7, <1>s, AnswerMoves DEF MissTarget, At
<1>8. CASE RefuseCreate(r)
  BY <1>8, <1>s, AnswerMoves DEF RefuseCreate, At
<1>9. CASE PrepareCreate(r)
  <2> DEFINE h == [req[r] EXCEPT !.pc = "store", !.row = BuildCreateUser(req[r].input)]
  <2>1. req[r].input \in Request
    BY <1>h, <1>9, ConsoleAssumption DEF HandlerOK, PrepareCreate, At
  <2>2. BuildCreateUser(req[r].input) \in Row
    BY <2>1, <1>9, CreatedRow DEF PrepareCreate
  <2>3. h \in Handler
    BY <1>h, <2>2 DEF Handler, Pc
  <2>4. req' = [req EXCEPT ![r] = h]
    BY <1>9 DEF PrepareCreate, TInv, TypeOK
  <2>5. h.pc = "store" /\ h.input = req[r].input /\ h.bearer = req[r].bearer
    BY <1>h DEF Handler
  <2>6. Moves(r, h)
    BY <2>4, <2>5, <1>9 DEF Moves, PrepareCreate, At
  <2> QED
    BY <2>3, <2>6, <1>9 DEF PrepareCreate
<1>10. CASE RefuseUpdate(r)
  BY <1>10, <1>s, AnswerMoves DEF RefuseUpdate, LoadedForUpdate, At
<1>11. CASE PrepareUpdate(r)
  <2> DEFINE old == users[req[r].input.id]
             h == [req[r] EXCEPT !.pc = "store", !.row = UpdatedRow(old, req[r].input)]
  <2>1. req[r].input \in Requests /\ old \in Row
    BY <1>h, <1>11, HeldRow DEF HandlerOK, PrepareUpdate, LoadedForUpdate, At, TInv, TypeOK
  <2>2. UpdatedRow(old, req[r].input) \in Row
    BY <2>1, <1>h, <1>11, UpdatedRowType DEF PrepareUpdate
  <2>3. h \in Handler
    BY <1>h, <2>2 DEF Handler, Pc
  <2>4. req' = [req EXCEPT ![r] = h]
    BY <1>11 DEF PrepareUpdate, TInv, TypeOK
  <2>5. /\ h.pc = "store" /\ h.input = req[r].input /\ h.bearer = req[r].bearer
        /\ h.row = UpdatedRow(old, req[r].input)
    BY <1>h DEF Handler
  <2>6. TargetOf(r, h) = req[r].input.id
    BY <2>5, <1>11 DEF PrepareUpdate, LoadedForUpdate, TargetOf
  <2>7. IsFresh(users, TargetOf(r, h), h)
    BY <2>5, <2>6, <1>11 DEF IsFresh, PrepareUpdate, LoadedForUpdate, UpdateIsValid
  <2>8. Moves(r, h)
    BY <2>4, <2>5, <2>7, <1>11 DEF Moves, PrepareUpdate, LoadedForUpdate, At
  <2> QED
    BY <2>3, <2>8, <1>11 DEF PrepareUpdate
<1>12. CASE RefuseWrite(r)
  BY <1>12, <1>s, AnswerMoves DEF RefuseWrite, At
<1>13. CASE StoreFails(r)
  BY <1>13, <1>s, AnswerMoves DEF StoreFails, At
<1>14. CASE WriteAudit(r) \/ LoseAudit(r)
  <2> DEFINE h == [req[r] EXCEPT !.pc = "reply"]
  <2>1. h \in Handler
    BY <1>h DEF Handler, Pc
  <2>2. req' = [req EXCEPT ![r] = h]
    BY <1>14 DEF WriteAudit, LoseAudit, Goto, TInv, TypeOK
  <2>3. /\ h.pc = "reply" /\ h.status = req[r].status
        /\ h.input = req[r].input /\ h.bearer = req[r].bearer
    BY <1>h DEF Handler
  <2>4. Moves(r, h)
    BY <2>2, <2>3, <1>14 DEF Moves, WriteAudit, LoseAudit, At
  <2> QED
    BY <2>1, <2>4, <1>14 DEF WriteAudit, LoseAudit
<1>15. CASE Reply(r)
  <2> DEFINE h == [req[r] EXCEPT !.pc = "done", !.row = Absent]
  <2>1. h \in Handler
    BY <1>h DEF Handler, Pc
  <2>2. req' = [req EXCEPT ![r] = h]
    BY <1>15 DEF Reply, TInv, TypeOK
  <2>3. /\ h.pc = "done" /\ h.status = req[r].status
        /\ h.input = req[r].input /\ h.bearer = req[r].bearer
    BY <1>h DEF Handler
  <2>4. Moves(r, h)
    BY <2>2, <2>3, <1>15 DEF Moves, Reply, At
  <2> QED
    BY <2>1, <2>4, <1>15 DEF Reply
<1> QED
  BY <1>1, <1>2, <1>3, <1>4, <1>5, <1>6, <1>7, <1>8, <1>9, <1>10, <1>11, <1>12,
     <1>13, <1>14, <1>15 DEF Handle

\* The five kinds of step: a request arrives, a write takes effect, a handler
\* moves on, the process dies, or nothing happens to the handlers and accounts.
LEMMA StepKinds ==
    ASSUME TInv, [Next]_vars
    PROVE  \/ \E r \in Req : Arrive(r)
           \/ \E r \in Req : CommitUser(r)
           \/ (\E r \in Req : \E h \in Handler : Moves(r, h)) /\ UNCHANGED <<users, history>>
           \/ Crash
           \/ UNCHANGED <<req, users, history>>
<1>1. ASSUME NEW r \in Req, Handle(r), ~CommitUser(r)
      PROVE  (\E q \in Req : \E h \in Handler : Moves(q, h)) /\ UNCHANGED <<users, history>>
  BY <1>1, HandlerMoves
<1>2. ASSUME NEW t \in Token, Expire(t) PROVE UNCHANGED <<req, users, history>>
  BY <1>2 DEF Expire
<1>3. UNCHANGED vars => UNCHANGED <<req, users, history>>
  BY DEF vars, history
<1> QED
  BY <1>1, <1>2, <1>3 DEF Next

-----------------------------------------------------------------------------
(* Effects need entitlement.                                               *)

\* Whether a request is rightful does not depend on where its handler is.
LEMMA EntitledMoves ==
    ASSUME NEW table, NEW old, NEW new, new.input = old.input, new.bearer = old.bearer,
           ~Over(old), Entitled(table, new)
    PROVE  Entitled(table, old)
BY DEF Entitled

\* Nothing is applied before a request arrives.
LEMMA EntitlementInit == Init => EntitlementOK
BY DEF Init, EntitlementOK, RightfulOK, Entitled, Over, Idle

\* The middleware lets only rightful requests past, and no later step forgets it.
LEMMA EntitlementStep ==
    ASSUME TInv, EntitlementOK, [Next]_vars
    PROVE  EntitlementOK'
<1>t. /\ req \in [Req -> Handler] /\ entitled \in [Req -> BOOLEAN]
      /\ applied \in [Req -> BOOLEAN] /\ TInv'
  BY TInvStep DEF TInv, TypeOK
<1>1. ASSUME NEW r \in Req, Arrive(r) PROVE EntitlementOK'
  <2>1. PICK i \in Requests, b \in tokens \union {NoToken} :
            req' = [req EXCEPT ![r] =
                      [Idle EXCEPT !.pc = IF i.op = "login" THEN "lookup" ELSE "auth",
                                   !.input = i, !.bearer = b]]
    BY <1>1 DEF Arrive
  <2>2. req'[r].pc \in {"lookup", "auth"}
    BY <2>1, <1>t DEF Idle
  <2>3. ASSUME NEW q \in Req PROVE RightfulOK(users, req'[q], entitled'[q], applied[q])
    <3>1. RightfulOK(users, req[q], entitled[q], applied[q])
      BY DEF EntitlementOK
    <3>2. entitled'[q] = (entitled[q] \/ Entitled(users, req'[q]))
      BY <1>1 DEF Arrive, NoteEntitled
    <3>3. CASE q = r
      <4>1. ~applied[r]
        BY <3>1, <3>3, <1>1 DEF RightfulOK, Arrive, At
      <4> QED
        BY <4>1, <3>2, <3>3, <2>2 DEF RightfulOK
    <3>4. CASE q # r
      <4>1. req'[q] = req[q]
        BY <3>4, <2>1, <1>t
      <4> QED
        BY <4>1, <3>1, <3>2 DEF RightfulOK
    <3> QED
      BY <3>3, <3>4
  <2> QED
    BY <2>3, <1>1 DEF Arrive, EntitlementOK
<1>2. ASSUME NEW r \in Req, CommitUser(r) PROVE EntitlementOK'
  <2>1. /\ req[r].pc = "store" /\ req[r].input.op \in Mutation
        /\ RightfulOK(users, req[r], entitled[r], applied[r])
    BY <1>2 DEF CommitUser, At, TInv, ControlOK, HandlerOK, EntitlementOK
  <2>2. /\ req'[r].input = req[r].input
        /\ \/ req'[r].pc = "audit"
           \/ req'[r].pc = "done" /\ req'[r].status \in Success \union {500}
        /\ \A q \in Req \ {r} : req'[q] = req[q]
    BY <1>2, <1>t DEF CommitUser, Handler
  <2>3. ASSUME NEW q \in Req PROVE RightfulOK(users', req'[q], entitled'[q], applied'[q])
    <3>1. RightfulOK(users, req[q], entitled[q], applied[q])
      BY DEF EntitlementOK
    <3>2. entitled'[q] = (entitled[q] \/ Entitled(users', req'[q]))
      BY <1>2 DEF CommitUser, NoteEntitled
    <3>3. applied' = [applied EXCEPT ![r] = TRUE]
      BY <1>2 DEF CommitUser
    <3>4. CASE q = r
      <4>1. entitled'[r] /\ applied'[r]
        BY <2>1, <3>2, <3>3, <3>4, <1>t DEF RightfulOK
      <4> QED
        BY <4>1, <3>4, <2>1, <2>2 DEF RightfulOK
    <3>5. CASE q # r
      <4>1. req'[q] = req[q] /\ applied'[q] = applied[q]
        BY <3>3, <3>5, <2>2, <1>t
      <4> QED
        BY <4>1, <3>1, <3>2 DEF RightfulOK
    <3> QED
      BY <3>4, <3>5
  <2> QED
    BY <2>3 DEF EntitlementOK
<1>3. ASSUME NEW r \in Req, NEW h \in Handler, Moves(r, h), UNCHANGED <<users, history>>
      PROVE  EntitlementOK'
  <2>1. RightfulOK(users, req[r], entitled[r], applied[r]) /\ HandlerOK(r, req[r])
    BY DEF EntitlementOK, TInv, ControlOK
  <2>2. ~Over(req[r]) /\ h.input = req[r].input /\ h.bearer = req[r].bearer
    BY <1>3 DEF Moves, Over
  <2>3. Entitled(users, h) => entitled[r]
    BY <2>1, <2>2, EntitledMoves DEF RightfulOK
  <2>4. RightfulOK(users, h, entitled[r], applied[r])
    <3>1. CASE req[r].pc \in {"lookup", "auth", "load", "store"} /\ h.pc = "done"
               /\ h.status \in Failure
      <4>1. h.status \notin Success
        BY <3>1 DEF Failure, Refusal, Success
      <4> QED
        BY <3>1, <4>1, <2>1, <2>3 DEF RightfulOK
    <3>2. CASE req[r].pc = "load" /\ h.pc = "done" /\ h.status \in Success
      BY <3>2, <2>1, <2>3 DEF RightfulOK
    <3>3. CASE /\ req[r].pc = "lookup" /\ h.pc = "audit"
               /\ h.status \in Refusal \/ (h.status \in Success /\ Entitled(users, req[r]))
      <4>1. h.status \in Refusal => h.status \notin Success
        BY DEF Refusal, Success
      <4>2. h.input.op \notin Mutation
        BY <3>3, <2>1, <2>2 DEF HandlerOK, Mutation
      <4> QED
        BY <3>3, <4>1, <4>2, <2>1, <2>3 DEF RightfulOK
    <3>4. CASE req[r].pc = "auth" /\ h.pc = "load" /\ Entitled(users, req[r])
      BY <3>4, <2>1, <2>3 DEF RightfulOK
    <3>5. CASE req[r].pc = "load" /\ h.pc = "store"
      BY <3>5, <2>1, <2>3 DEF RightfulOK
    <3>6. CASE req[r].pc = "audit" /\ h.pc = "reply" /\ h.status = req[r].status
      BY <3>6, <2>1, <2>2, <2>3 DEF RightfulOK
    <3>7. CASE req[r].pc = "reply" /\ h.pc = "done" /\ h.status = req[r].status
      <4>1. req[r].input.op \in Mutation => req[r].status \in Success
        BY <3>7, <2>1 DEF HandlerOK, Mutation, SuccessOf, Success
      <4> QED
        BY <3>7, <4>1, <2>1, <2>2, <2>3 DEF RightfulOK
    <3> QED
      BY <1>3, <3>1, <3>2, <3>3, <3>4, <3>5, <3>6, <3>7 DEF Moves
  <2>5. req'[r] = h /\ \A q \in Req \ {r} : req'[q] = req[q]
    BY <1>3, <1>t DEF Moves
  <2> QED
    BY <2>4, <2>5, <1>3 DEF EntitlementOK, history
<1>4. CASE Crash
  <2>1. ASSUME NEW r \in Req PROVE RightfulOK(users, req'[r], entitled[r], applied[r])
    <3>1. RightfulOK(users, req[r], entitled[r], applied[r])
      BY DEF EntitlementOK
    <3>2. CASE Over(req[r])
      BY <3>1, <3>2, <1>4 DEF Crash
    <3>3. CASE ~Over(req[r])
      <4>1. req'[r].pc = "gone" /\ req'[r].input = req[r].input
        BY <3>3, <1>4, <1>t DEF Crash, Handler
      <4> QED
        BY <4>1, <3>1 DEF RightfulOK, Entitled, Over
    <3> QED
      BY <3>2, <3>3
  <2> QED
    BY <2>1, <1>4 DEF Crash, EntitlementOK, history
<1>5. CASE UNCHANGED <<req, users, history>>
  BY <1>5 DEF EntitlementOK, RightfulOK, Entitled, Over, Holds, ByEmail, history
<1> QED
  BY <1>1, <1>2, <1>3, <1>4, <1>5, StepKinds

\* Whatever a request changes, and every success it is answered with, it owes to
\* an account that was enabled and had the role while the request ran.
THEOREM EffectsAreRightful == Spec => []EffectNeedsEntitlement
<1>1. TInv /\ EntitlementOK /\ [Next]_vars => EntitlementOK'
  BY EntitlementStep
<1>2. EntitlementOK => EffectNeedsEntitlement
  BY DEF EntitlementOK, RightfulOK, EffectNeedsEntitlement, Succeeded, At
<1> QED
  BY <1>1, <1>2, TInvInit, TInvStep, EntitlementInit, PTL DEF Spec

-----------------------------------------------------------------------------
(* A write that was not overtaken.                                         *)

\* No handler has loaded a row yet.
LEMMA FreshInit == Init => FreshLoad
BY DEF Init, FreshLoad, At, Idle

\* Whoever writes a row marks every handler that holds an older copy as stale.
LEMMA FreshStep ==
    ASSUME TInv, FreshLoad, [Next]_vars
    PROVE  FreshLoad'
<1>t. req \in [Req -> Handler] /\ stale \in [Req -> BOOLEAN] /\ users \in Table
  BY DEF TInv, TypeOK
<1> DEFINE Good(table, r, h, isStale) ==
        h.pc = "store" /\ h.input.op # "users.create" /\ ~isStale
            => IsFresh(table, TargetOf(r, h), h)
<1>f. \A r \in Req : Good(users, r, req[r], stale[r])
  BY DEF FreshLoad, At, Target
<1>g. ASSUME \A r \in Req : Good(users', r, req'[r], stale'[r]) PROVE FreshLoad'
  BY <1>g DEF FreshLoad, At, Target
<1>1. ASSUME NEW r \in Req, Arrive(r) PROVE FreshLoad'
  <2>1. req'[r].pc # "store" /\ \A q \in Req \ {r} : req'[q] = req[q]
    BY <1>1, <1>t DEF Arrive, Idle
  <2> QED
    BY <2>1, <1>1, <1>f, <1>g DEF Arrive
<1>2. ASSUME NEW r \in Req, CommitUser(r) PROVE FreshLoad'
  <2>1. req'[r].pc # "store" /\ \A q \in Req \ {r} : req'[q] = req[q]
    BY <1>2, <1>t DEF CommitUser, Handler
  <2>2. ASSUME NEW q \in Req \ {r}, req[q].pc = "store",
               req[q].input.op # "users.create", ~stale'[q]
        PROVE  IsFresh(users', TargetOf(q, req[q]), req[q])
    <3>1. ~stale[q] /\ TargetOf(q, req[q]) # Target(r)
      BY <1>2, <2>2 DEF CommitUser, At, Target
    <3>2. TargetOf(q, req[q]) \in User
      BY <2>2 DEF TInv, ControlOK, HandlerOK
    <3>3. users'[TargetOf(q, req[q])] = users[TargetOf(q, req[q])]
      BY <1>2, <3>1, <3>2, <1>t DEF CommitUser, PutRow, Table
    <3>4. IsFresh(users, TargetOf(q, req[q]), req[q])
      BY <1>f, <2>2, <3>1
    <3> QED
      BY <3>3, <3>4 DEF IsFresh, Holds
  <2> QED
    BY <2>1, <2>2, <1>g
<1>3. ASSUME NEW r \in Req, NEW h \in Handler, Moves(r, h), UNCHANGED <<users, history>>
      PROVE  FreshLoad'
  <2>1. req'[r] = h /\ \A q \in Req \ {r} : req'[q] = req[q]
    BY <1>3, <1>t DEF Moves
  <2>2. h.pc = "store" /\ h.input.op # "users.create" => IsFresh(users, TargetOf(r, h), h)
    BY <1>3 DEF Moves
  <2> QED
    BY <2>1, <2>2, <1>3, <1>f, <1>g DEF history
<1>4. CASE Crash
  <2>1. \A r \in Req : req'[r] = req[r] \/ req'[r].pc = "gone"
    BY <1>4, <1>t DEF Crash, Handler
  <2> QED
    BY <2>1, <1>4, <1>f, <1>g DEF Crash, history
<1>5. CASE UNCHANGED <<req, users, history>>
  BY <1>5, <1>f, <1>g DEF history
<1> QED
  BY <1>1, <1>2, <1>3, <1>4, <1>5, StepKinds

\* What an update that was not overtaken writes is the row of the table with the
\* changes that its body asks for, and it passed the guards on that very row.
LEMMA FreshWrite ==
    ASSUME TInv, EntitlementOK, FreshLoad, [Next]_vars,
           NEW r \in Req, Updates(r), ~stale[r]
    PROVE  /\ CommitUser(r) /\ Target(r) \in User
           /\ IsFresh(users, Target(r), req[r])
           /\ users' = PutRow(users, Target(r), UpdatedRow(users[Target(r)], req[r].input))
<1>1. \A q \in Req \ {r} : ~CommitUser(q)
  <2>1. ASSUME NEW q \in Req \ {r}, CommitUser(q) PROVE applied'[r] = applied[r]
    BY <2>1 DEF CommitUser, TInv, TypeOK
  <2> QED
    BY <2>1 DEF Updates, Commits
<1>2. CommitUser(r)
  BY <1>1, StepKinds DEF Updates, Commits, Arrive, Crash, history
<1>3. IsFresh(users, Target(r), req[r])
  BY <1>2 DEF FreshLoad, CommitUser, Updates
<1>4. Target(r) \in User
  BY <1>2 DEF CommitUser, At, TInv, ControlOK, HandlerOK, Target
<1> QED
  BY <1>2, <1>3, <1>4 DEF CommitUser, IsFresh

\* A PATCH changes what its body names and the password endpoint the hash.
LEMMA OnlyAskedOfRow ==
    ASSUME NEW row \in Row, NEW i \in Request, NEW column \in Columns,
           UpdatedRow(row, i)[column] # row[column],
           i.op \in {"users.update", "users.password.update"}
    PROVE  Asked(i, column)
<1>1. CASE i.op = "users.update"
  <2>1. ApplyUserPatch(row, i)[column] # row[column]
    BY <1>1 DEF UpdatedRow
  <2> QED
    BY <1>1, <2>1 DEF ApplyUserPatch, Patched, Asked, Columns, Row
<1>2. CASE i.op = "users.password.update"
  <2>1. column = "hash"
    BY <1>2 DEF UpdatedRow, Columns, Row
  <2> QED
    BY <1>2, <2>1 DEF Asked
<1> QED
  BY <1>1, <1>2

\* What the statements about single writes rest on.
FInv == TInv /\ EntitlementOK /\ FreshLoad

\* It holds of every reachable state.
LEMMA FInvAlways == Spec => []FInv
<1>1. Init => FInv
  BY TInvInit, EntitlementInit, FreshInit DEF FInv
<1>2. FInv /\ [Next]_vars => FInv'
  BY TInvStep, EntitlementStep, FreshStep DEF FInv
<1> QED
  BY <1>1, <1>2, PTL DEF Spec

\* An update that no other write overtook leaves every column alone that its
\* request did not ask to change.
THEOREM UpdatesOnlyWhatIsAsked == Spec => OnlyAskedColumns
<1> DEFINE A == \A r \in Req : Updates(r) /\ ~stale[r] =>
                  \A column \in Columns :
                     users'[Target(r)][column] # users[Target(r)][column]
                         => Asked(req[r].input, column)
<1>1. FInv /\ [Next]_vars => A
  <2> SUFFICES ASSUME FInv, [Next]_vars, NEW r \in Req, Updates(r), ~stale[r],
                      NEW column \in Columns,
                      users'[Target(r)][column] # users[Target(r)][column]
               PROVE  Asked(req[r].input, column)
    OBVIOUS
  <2>1. /\ CommitUser(r) /\ Target(r) \in User
        /\ IsFresh(users, Target(r), req[r])
        /\ users' = PutRow(users, Target(r), UpdatedRow(users[Target(r)], req[r].input))
    BY FreshWrite DEF FInv
  <2>2. users[Target(r)] \in Row
    BY <2>1, HeldRow DEF IsFresh, FInv, TInv, TypeOK
  <2>3. users'[Target(r)] = UpdatedRow(users[Target(r)], req[r].input)
    BY <2>1 DEF PutRow, FInv, TInv, TypeOK, Table
  <2>4. /\ req[r].input \in Request
        /\ req[r].input.op \in {"users.update", "users.password.update"}
    BY <2>1, ConsoleAssumption
    DEF CommitUser, At, FInv, TInv, ControlOK, HandlerOK, Updates, Mutation
  <2> QED
    BY <2>2, <2>3, <2>4, OnlyAskedOfRow
<1>2. Spec => []FInv
  BY FInvAlways
<1>3. FInv /\ [Next]_vars => [A]_vars
  BY <1>1
<1> QED
  BY <1>2, <1>3, PTL DEF Spec, OnlyAskedColumns

\* The row that a PATCH on the own account, past its guard, or the password
\* endpoint computes is as enabled as the row it read.
LEMMA OwnSwitchKept ==
    ASSUME NEW h, NEW row \in Row, UpdateIsValid(h, row), h.bearer.sub = h.input.id
    PROVE  UpdatedRow(row, h.input).enabled = row.enabled
<1>1. CASE h.input.op = "users.update"
  BY <1>1 DEF UpdateIsValid, TogglesSelf, UpdatedRow, ApplyUserPatch, Patched
<1>2. CASE h.input.op # "users.update"
  BY <1>2 DEF UpdatedRow, Row
<1> QED
  BY <1>1, <1>2

\* A write that was not overtaken does not flip its author's own enabled column.
LEMMA FreshKeepsOwnSwitch ==
    ASSUME FInv, [Next]_vars, NEW r \in Req, Updates(r), ~stale[r],
           Target(r) = req[r].bearer.sub
    PROVE  users'[Target(r)].enabled = users[Target(r)].enabled /\ Holds(users', Target(r))
<1>1. /\ CommitUser(r) /\ Target(r) \in User
      /\ IsFresh(users, Target(r), req[r])
      /\ users' = PutRow(users, Target(r), UpdatedRow(users[Target(r)], req[r].input))
  BY FreshWrite DEF FInv
<1>2. users[Target(r)] \in Row
  BY <1>1, HeldRow DEF IsFresh, FInv, TInv, TypeOK
<1>3. users'[Target(r)] = UpdatedRow(users[Target(r)], req[r].input)
  BY <1>1 DEF PutRow, FInv, TInv, TypeOK, Table
<1>4. req[r].bearer.sub = req[r].input.id
  BY DEF Updates, Target, TargetOf
<1>5. UpdateIsValid(req[r], users[Target(r)])
  BY <1>1 DEF IsFresh
<1>6. users'[Target(r)].enabled = users[Target(r)].enabled
  BY <1>2, <1>3, <1>4, <1>5, OwnSwitchKept
<1>7. users'[Target(r)] = req[r].row /\ req[r].row \in Row
  BY <1>1, <1>3 DEF IsFresh, CommitUser, At, FInv, TInv, ControlOK, HandlerOK
<1> QED
  BY <1>6, <1>7, AbsentAssumption DEF Holds

\* Nobody enables or disables the own account unless by overtaking.
THEOREM SelfToggleTakesRace == Spec => SelfToggleNeedsRace
<1> DEFINE A == \A r \in Req : Updates(r) /\ Target(r) = req[r].bearer.sub
                                 /\ users'[Target(r)].enabled # users[Target(r)].enabled
                               => stale[r]
<1>1. FInv /\ [Next]_vars => A
  <2> SUFFICES ASSUME FInv, [Next]_vars, NEW r \in Req, Updates(r),
                      Target(r) = req[r].bearer.sub,
                      users'[Target(r)].enabled # users[Target(r)].enabled, ~stale[r]
               PROVE  FALSE
    BY DEF FInv, TInv, TypeOK
  <2> QED
    BY FreshKeepsOwnSwitch
<1>2. FInv /\ [Next]_vars => [A]_vars
  BY <1>1
<1> QED
  BY <1>2, FInvAlways, PTL DEF Spec, SelfToggleNeedsRace

\* No single administrator can lock everyone out: the last enabled account is
\* switched off only by an overtaken write or by one whose author was disabled.
THEOREM LockoutTakesRace == Spec => LockoutNeedsRace
<1> DEFINE A == \A r \in Req :
                  /\ Commits(r)
                  /\ \E u \in User : IsEnabled(users, u)
                  /\ ~\E u \in User : IsEnabled(users', u)
                  => stale[r] \/ ~IsEnabled(users, req[r].bearer.sub)
<1>1. FInv /\ [Next]_vars => A
  <2> SUFFICES ASSUME FInv, [Next]_vars, NEW r \in Req, Commits(r), ~stale[r],
                      IsEnabled(users, req[r].bearer.sub)
               PROVE  \E u \in User : IsEnabled(users', u)
    OBVIOUS
  <2>1. CommitUser(r)
    <3>1. ASSUME NEW q \in Req \ {r}, CommitUser(q) PROVE applied'[r] = applied[r]
      BY <3>1 DEF CommitUser, FInv, TInv, TypeOK
    <3> QED
      BY <3>1, StepKinds DEF Commits, Arrive, Crash, history, FInv
  <2>2. req[r].pc = "store" /\ Target(r) \in User
    BY <2>1 DEF CommitUser, At, FInv, TInv, ControlOK, HandlerOK, Target
  <2>3. req[r].bearer.sub \in User
    <3>1. \/ req[r].bearer \in Token
          \/ req[r].bearer = NoToken
      BY DEF FInv, TInv, TypeOK, Handler
    <3>2. req[r].bearer # NoToken
      BY <2>2, ConsoleAssumption DEF FInv, TInv, ControlOK, HandlerOK
    <3> QED
      BY <3>1, <3>2 DEF Token
  <2>4. CASE Target(r) # req[r].bearer.sub
    <3>1. users'[req[r].bearer.sub] = users[req[r].bearer.sub]
      BY <2>1, <2>2, <2>3, <2>4 DEF CommitUser, PutRow, FInv, TInv, TypeOK, Table
    <3> QED
      BY <2>3, <3>1 DEF IsEnabled, Holds
  <2>5. CASE Target(r) = req[r].bearer.sub
    <3>1. Updates(r)
      BY <2>1, <2>5 DEF CommitUser, Writable, IsEnabled, Updates
    <3>2. users'[Target(r)].enabled = users[Target(r)].enabled /\ Holds(users', Target(r))
      BY <2>5, <3>1, FreshKeepsOwnSwitch
    <3> QED
      BY <2>2, <2>5, <3>2 DEF IsEnabled
  <2> QED
    BY <2>4, <2>5
<1>2. FInv /\ [Next]_vars => [A]_vars
  BY <1>1
<1> QED
  BY <1>2, FInvAlways, PTL DEF Spec, LockoutNeedsRace

-----------------------------------------------------------------------------
(* The audit trail.                                                        *)

\* Only WriteAudit touches the log.
LEMMA LogGrows ==
    ASSUME [Next]_vars
    PROVE  UNCHANGED auditLog \/ \E r \in Req : WriteAudit(r)
<1>1. ASSUME NEW r \in Req, Handle(r), ~WriteAudit(r) PROVE UNCHANGED auditLog
  BY <1>1 DEF Handle, Answer, LoginBadBody, LoginLookup, RejectToken, RejectUser, Admit,
     AnswerRead, MissTarget, RefuseCreate, PrepareCreate, RefuseUpdate, PrepareUpdate,
     CommitUser, RefuseWrite, StoreFails, LoseAudit, Reply
<1> QED
  BY <1>1 DEF Next, vars, Arrive, Expire, Crash

\* Past WriteAudit a handler only ends; what it did and was told stays.
LEMMA BehindStays ==
    ASSUME TInv, [Next]_vars, NEW r \in Req, req[r].pc \in Behind
    PROVE  /\ req'[r].pc \in Behind
           /\ req'[r].input = req[r].input /\ req'[r].bearer = req[r].bearer
           /\ req'[r].status = req[r].status
           /\ applied'[r] = applied[r] /\ (entitled[r] => entitled'[r])
           /\ req[r].pc = "done" => req'[r] = req[r]
<1>t. /\ req \in [Req -> Handler] /\ applied \in [Req -> BOOLEAN]
  BY DEF TInv, TypeOK
<1>1. ASSUME NEW q \in Req, Arrive(q) \/ CommitUser(q)
      PROVE  /\ req'[r] = req[r] /\ applied'[r] = applied[r]
             /\ entitled[r] => entitled'[r]
  <2>1. q # r
    BY <1>1 DEF Arrive, CommitUser, At, Behind
  <2>2. CASE Arrive(q)
    BY <2>1, <2>2, <1>t DEF Arrive, NoteEntitled
  <2>3. CASE CommitUser(q)
    <3>1. req'[r] = req[r]
      BY <2>1, <2>3, <1>t DEF CommitUser
    <3>2. applied'[r] = applied[r]
      BY <2>1, <2>3, <1>t DEF CommitUser
    <3>3. entitled[r] => entitled'[r]
      BY <2>3 DEF CommitUser, NoteEntitled
    <3> QED
      BY <3>1, <3>2, <3>3
  <2> QED
    BY <1>1, <2>2, <2>3
<1>2. ASSUME NEW q \in Req, NEW h \in Handler, Moves(q, h)
      PROVE  /\ req'[r].pc \in Behind
             /\ req'[r].input = req[r].input /\ req'[r].bearer = req[r].bearer
             /\ req'[r].status = req[r].status
             /\ req[r].pc = "done" => req'[r] = req[r]
  <2>1. CASE q = r
    BY <2>1, <1>2, <1>t DEF Moves, Behind
  <2>2. CASE q # r
    BY <2>2, <1>2, <1>t DEF Moves
  <2> QED
    BY <2>1, <2>2
<1>3. CASE Crash
  BY <1>3, <1>t DEF Crash, Handler, Behind, Over, history
<1> QED
  BY <1>1, <1>2, <1>3, StepKinds DEF history

\* The log starts empty.
LEMMA TrailInit == Init => TrailOK
<1> SUFFICES ASSUME Init PROVE TrailOK
  OBVIOUS
<1>1. DOMAIN auditLog = {}
  BY DEF Init
<1>2. \A r \in Req : req[r].pc = "idle"
  BY DEF Init, Idle
<1> QED
  BY <1>1, <1>2 DEF TrailOK, StatusTellsEffect, AuditIsTruthful, EventsBy, At

\* A new event is true when it is written, and the older ones stay true.
LEMMA TrailStep ==
    ASSUME TInv, EntitlementOK, TrailOK, [Next]_vars
    PROVE  TrailOK'
<1>t. /\ req \in [Req -> Handler] /\ auditLog \in Seq(Event)
      /\ applied \in [Req -> BOOLEAN] /\ TInv' /\ EntitlementOK'
  BY TInvStep, EntitlementStep DEF TInv, TypeOK
\* An event stays true when its handler moves on.
<1> DEFINE Still(e) == IsTrue(e, req'[e.by], applied'[e.by], entitled'[e.by])
<1>0. \A n \in DOMAIN auditLog : auditLog[n] \in Event
  BY <1>t
<1>1. \A n \in DOMAIN auditLog :
         /\ auditLog[n].by \in Req
         /\ IsTrue(auditLog[n], req[auditLog[n].by],
                   applied[auditLog[n].by], entitled[auditLog[n].by])
         /\ EventsBy(auditLog[n].by) = {n}
  BY <1>0 DEF TrailOK, AuditIsTruthful, Event
<1>2. ASSUME NEW n \in DOMAIN auditLog PROVE Still(auditLog[n])
  <2>1. auditLog[n].by \in Req /\ req[auditLog[n].by].pc \in Behind
    BY <1>1 DEF IsTrue
  <2>2. TargetOf(auditLog[n].by, req'[auditLog[n].by])
            = TargetOf(auditLog[n].by, req[auditLog[n].by])
    BY <2>1, BehindStays DEF TargetOf
  <2> QED
    BY <1>1, <2>1, <2>2, BehindStays DEF IsTrue
<1>3. ASSUME NEW r \in Req, req'[r].pc \notin Behind PROVE EventsBy(r) = {}
  BY <1>3, BehindStays DEF TrailOK
\* What a handler that ends in this step leaves.
<1>4. ASSUME NEW r \in Req, req'[r].pc = "done", req[r].pc # "done",
             req'[r].input.op \in Mutation
      PROVE  /\ req'[r].status \in Success =>
                  applied'[r] /\ req'[r].status = SuccessOf(req'[r].input.op)
             /\ req'[r].status \in Refusal => ~applied'[r] /\ EventsBy(r) = {}
  <2>0. RightfulOK(users, req[r], entitled[r], applied[r]) /\ HandlerOK(r, req[r])
    BY DEF EntitlementOK, TInv, ControlOK
  <2>s. /\ 500 \notin Success /\ 500 \notin Refusal
        /\ \A s \in Success : s \notin Refusal
        /\ \A s \in Failure : s \notin Success
        /\ \A op \in Mutation : SuccessOf(op) \in Success
    BY DEF Success, Refusal, Failure, SuccessOf, Mutation
  <2>1. ASSUME NEW q \in Req, Arrive(q) PROVE FALSE
    BY <2>1, <1>4, <1>t DEF Arrive, Idle
  <2>2. ASSUME NEW q \in Req, CommitUser(q)
        PROVE  req'[r].status \notin Success /\ req'[r].status \notin Refusal
    <3>1. q = r
      BY <2>2, <1>4, <1>t DEF CommitUser
    <3>2. req'[r].status = 500
      BY <3>1, <2>2, <1>4, <1>t DEF CommitUser, Handler
    <3> QED
      BY <3>2, <2>s
  <2>3. ASSUME NEW q \in Req, NEW h \in Handler, Moves(q, h), UNCHANGED <<users, history>>
        PROVE  /\ req'[r].status \in Success =>
                     applied'[r] /\ req'[r].status = SuccessOf(req'[r].input.op)
               /\ req'[r].status \in Refusal => ~applied'[r] /\ EventsBy(r) = {}
    <3>1. q = r /\ req'[r] = h /\ applied'[r] = applied[r] /\ h.input = req[r].input
      BY <2>3, <1>4, <1>t DEF Moves, history
    <3>2. CASE req[r].pc \in {"lookup", "auth", "load", "store"} /\ h.status \in Failure
      <4>1. ~applied[r] /\ EventsBy(r) = {}
        BY <3>2, <2>0 DEF RightfulOK, TrailOK, Behind
      <4> QED
        BY <4>1, <3>1, <3>2, <2>s
    <3>3. CASE req[r].pc = "reply" /\ h.status = req[r].status
      <4>1. applied[r] /\ h.status = SuccessOf(h.input.op)
        BY <3>1, <3>3, <2>0, <1>4 DEF RightfulOK, HandlerOK, Mutation
      <4> QED
        BY <4>1, <3>1, <1>4, <2>s
    <3>4. CASE h.input.op \in Read
      BY <3>1, <3>4, <1>4 DEF Read, Mutation
    <3> QED
      BY <2>3, <3>1, <3>2, <3>3, <3>4, <1>4 DEF Moves
  <2>4. CASE Crash
    BY <2>4, <1>4, <1>t DEF Crash, Handler
  <2> QED
    BY <2>1, <2>2, <2>3, <2>4, <1>4, StepKinds
<1>5. CASE UNCHANGED auditLog
  <2>1. \A r \in Req : EventsBy(r)' = EventsBy(r)
    BY <1>5 DEF EventsBy
  <2>2. \A r \in Req : req'[r].pc \notin Behind => EventsBy(r)' = {}
    BY <1>3, <2>1
  <2>3. AuditIsTruthful'
    BY <1>1, <1>2, <1>5, <2>1 DEF AuditIsTruthful
  <2>4. ASSUME NEW r \in Req, req'[r].pc = "done", req'[r].input.op \in Mutation
        PROVE  /\ req'[r].status \in Success =>
                     applied'[r] /\ req'[r].status = SuccessOf(req'[r].input.op)
               /\ req'[r].status \in Refusal => ~applied'[r] /\ EventsBy(r)' = {}
    <3>1. CASE req[r].pc = "done"
      <4>1. req'[r] = req[r] /\ applied'[r] = applied[r]
        BY <3>1, BehindStays DEF Behind
      <4> QED
        BY <3>1, <4>1, <2>1, <2>4 DEF TrailOK, StatusTellsEffect, Succeeded, At
    <3>2. CASE req[r].pc # "done"
      BY <3>2, <1>4, <2>1, <2>4
    <3> QED
      BY <3>1, <3>2
  <2>5. StatusTellsEffect'
    BY <2>4 DEF StatusTellsEffect, Succeeded, At
  <2> QED
    BY <2>2, <2>3, <2>5 DEF TrailOK
<1>6. ASSUME NEW r \in Req, WriteAudit(r) PROVE TrailOK'
  <2>0. /\ req[r] \in Handler /\ HandlerOK(r, req[r])
        /\ RightfulOK(users, req[r], entitled[r], applied[r]) /\ req[r].pc = "audit"
    BY <1>6 DEF TInv, TypeOK, ControlOK, EntitlementOK, WriteAudit, At
  <2> DEFINE e == AuditEvent(r)
             N == Len(auditLog) + 1
  <2>1. /\ req' = [req EXCEPT ![r].pc = "reply"]
        /\ auditLog' = Append(auditLog, e)
        /\ UNCHANGED <<applied, entitled>>
    BY <1>6 DEF WriteAudit, Goto, history
  <2>2. e \in Event /\ e.by = r
    BY <2>0 DEF AuditEvent, Event, HandlerOK, Handler, Token
  <2> HIDE DEF e
  <2>3. /\ DOMAIN auditLog' = DOMAIN auditLog \union {N} /\ N \notin DOMAIN auditLog
        /\ auditLog'[N] = e
        /\ \A n \in DOMAIN auditLog : auditLog'[n] = auditLog[n]
    BY <2>1, <2>2, <1>t
  <2>4. EventsBy(r) = {}
    BY <2>0 DEF TrailOK, Behind
  <2>5. EventsBy(r)' = {N}
    BY <2>2, <2>3, <2>4 DEF EventsBy
  <2>6. \A q \in Req \ {r} : EventsBy(q)' = EventsBy(q)
    BY <2>2, <2>3 DEF EventsBy
  <2>7. \A n \in DOMAIN auditLog : auditLog[n].by # r
    BY <2>4 DEF EventsBy
  <2>8. Still(e)
    <3>1. /\ req'[r].pc = "reply" /\ req'[r].input = req[r].input
          /\ req'[r].bearer = req[r].bearer /\ req'[r].status = req[r].status
      BY <2>0, <2>1, <1>t DEF Handler
    <3>2. CASE req[r].input.op = "login" /\ req[r].status \in {401, 403}
      <4>1. req[r].status \in Refusal /\ req[r].status # 200
        BY <3>2 DEF Refusal
      <4>2. e.action = "auth.login.failure"
        BY <3>2, <4>1 DEF e, AuditEvent
      <4> QED
        BY <2>2, <3>1, <4>1, <4>2 DEF IsTrue, Behind, Mutation
    <3>3. CASE req[r].input.op = "login" /\ req[r].status = 200
      <4>1. req[r].status \in Success
        BY <3>3 DEF Success
      <4>2. e.action = "auth.login.success"
        BY <3>3 DEF e, AuditEvent
      <4>3. entitled[r]
        BY <2>0, <4>1 DEF RightfulOK
      <4> QED
        BY <2>1, <2>2, <3>1, <4>1, <4>2, <4>3 DEF IsTrue, Behind, Mutation
    <3>4. CASE /\ req[r].input.op \in Mutation /\ req[r].bearer \in Token
               /\ req[r].subject = TargetOf(r, req[r])
      <4>1. /\ e.action = req[r].input.op /\ e.actor = req[r].bearer.sub
            /\ e.resource = TargetOf(r, req[r])
        BY <3>4 DEF e, AuditEvent, Mutation
      <4>2. applied[r] /\ entitled[r]
        BY <2>0, <3>4 DEF RightfulOK
      <4>3. TargetOf(r, req'[r]) = TargetOf(r, req[r])
        BY <3>1 DEF TargetOf
      <4> QED
        BY <2>1, <2>2, <3>1, <3>4, <4>1, <4>2, <4>3 DEF IsTrue, Behind, Mutation
    <3> QED
      BY <2>0, <3>2, <3>3, <3>4 DEF HandlerOK
  <2>9. AuditIsTruthful'
    BY <1>1, <1>2, <2>2, <2>3, <2>5, <2>6, <2>7, <2>8 DEF AuditIsTruthful
  <2>10. ASSUME NEW q \in Req, req'[q].pc \notin Behind PROVE EventsBy(q)' = {}
    <3>1. q # r
      BY <2>10, <2>1, <1>t DEF Behind, Handler
    <3> QED
      BY <3>1, <2>6, <2>10, <1>3
  <2>11. StatusTellsEffect'
    <3>1. req'[r].pc = "reply" /\ \A q \in Req \ {r} : req'[q] = req[q]
      BY <2>0, <2>1, <1>t DEF Handler
    <3> QED
      BY <3>1, <2>1, <2>6 DEF TrailOK, StatusTellsEffect, Succeeded, At
  <2> QED
    BY <2>9, <2>10, <2>11 DEF TrailOK
<1> QED
  BY <1>5, <1>6, LogGrows

\* The full inductive invariant holds of every reachable state.
LEMMA IndInvAlways == Spec => []IndInv
<1> DEFINE I == TInv /\ EntitlementOK /\ TrailOK
<1>1. Init => I
  BY TInvInit, EntitlementInit, TrailInit
<1>2. I /\ [Next]_vars => I'
  BY TInvStep, EntitlementStep, TrailStep
<1>3. Spec => []I
  BY <1>1, <1>2, PTL DEF Spec
<1>4. I /\ FInv => IndInv
  BY DEF TInv, FInv, IndInv
<1> QED
  BY <1>3, <1>4, FInvAlways, PTL

\* The audit trail never lies, whatever fails and whenever the process dies.
THEOREM TrailIsTruthful == Spec => []AuditIsTruthful
BY IndInvAlways, PTL DEF IndInv, TrailOK

\* Success means the write took effect, and 4xx that nothing happened.
THEOREM StatusIsHonest == Spec => []StatusTellsEffect
BY IndInvAlways, PTL DEF IndInv, TrailOK

-----------------------------------------------------------------------------
(* Nothing is missing in the trail that was not lost on the way there.     *)

\* The handler is past WriteAudit, with an answer that calls for an event.
Owed(h) ==
    \/ h.pc = "reply"
    \/ /\ h.pc = "done"
       /\ \/ h.input.op \in Mutation /\ h.status \in Success
          \/ h.input.op = "login" /\ h.status \in {200, 401, 403}

\* The inductive invariant behind AuditComplete.
Recorded == \A r \in Req : Owed(req[r]) => EventsBy(r) # {}

\* No call of WriteAudit comes back with an error.
Kept == \A r \in Req : ~LoseAudit(r)

\* An answer given instead of an event is one that owes none.
LEMMA AnswerOwesNothing ==
    ASSUME TInv, NEW r \in Req, NEW q \in Req, NEW s \in Status, Answer(r, s),
           req[r].input.op \in Mutation => s \notin Success,
           req[r].input.op = "login" => s \notin {200, 401, 403},
           Owed(req'[q])
    PROVE  Owed(req[q])
<1>1. req \in [Req -> Handler]
  BY DEF TInv, TypeOK
<1>2. CASE q = r
  <2>1. req'[r].pc = "done" /\ req'[r].status = s /\ req'[r].input = req[r].input
    BY <1>1 DEF Answer, Handler
  <2> QED
    BY <2>1, <1>2 DEF Owed
<1>3. CASE q # r
  BY <1>1, <1>3 DEF Answer
<1> QED
  BY <1>2, <1>3

\* A handler comes to owe an event only by writing it.
LEMMA OwedIsWritten ==
    ASSUME TInv, [Next]_vars, Kept, NEW q \in Req, ~Owed(req[q]), Owed(req'[q])
    PROVE  WriteAudit(q)
<1>t. req \in [Req -> Handler]
  BY DEF TInv, TypeOK
<1>s. /\ {200, 400, 401, 403, 404, 500} \subseteq Status
      /\ \A s \in {400, 401, 403, 404, 500} : s \notin Success
  BY DEF Status, Success, Failure, Refusal
<1>1. ASSUME NEW r \in Req, Arrive(r) PROVE FALSE
  BY <1>1, <1>t DEF Arrive, Owed, Idle
<1>2. ASSUME NEW r \in Req, Handle(r) PROVE WriteAudit(q)
  <2>h. req[r] \in Handler /\ HandlerOK(r, req[r])
    BY <1>t DEF TInv, ControlOK
  <2>m. "login" \notin Mutation
    BY DEF Mutation
  <2>1. CASE LoginBadBody(r)
    BY <2>1, <2>h, <2>m, <1>s, AnswerOwesNothing DEF LoginBadBody, At, HandlerOK
  <2>2. CASE LoginLookup(r)
    <3>1. req'[r].pc = "audit" /\ \A p \in Req \ {r} : req'[p] = req[p]
      <4>1. req'[r].pc = "audit"
        <5>1. ASSUME req' = [req EXCEPT ![r].pc = "audit", ![r].status = 401]
              PROVE  req'[r].pc = "audit"
          BY <5>1, <1>t DEF Handler
        <5>2. ASSUME NEW u,
                     req' = [req EXCEPT ![r].pc = "audit", ![r].subject = u,
                                ![r].row = users[u],
                                ![r].status = LoginVerdict(users[u], req[r].input.password)]
              PROVE  req'[r].pc = "audit"
          <6> DEFINE v == LoginVerdict(users[u], req[r].input.password)
                     row == users[u]
                     h == [req[r] EXCEPT !.pc = "audit", !.subject = u,
                                         !.row = row, !.status = v]
          <6>1. req' = [req EXCEPT ![r] = h]
            BY <5>2, <1>t
          <6> HIDE DEF v, row
          <6>2. h.pc = "audit"
            BY <2>h DEF Handler
          <6> HIDE DEF h
          <6> QED
            BY <6>1, <6>2, <1>t
        <5> QED
          BY <5>1, <5>2, <2>2 DEF LoginLookup
      <4>2. ASSUME NEW p \in Req \ {r} PROVE req'[p] = req[p]
        BY <2>2, <1>t DEF LoginLookup
      <4> QED
        BY <4>1, <4>2
    <3> QED
      BY <3>1 DEF Owed
  <2>3. CASE RejectToken(r)
    BY <2>3, <2>h, <1>s, AnswerOwesNothing DEF RejectToken, At, HandlerOK
  <2>4. CASE RejectUser(r)
    BY <2>4, <2>h, <1>s, AnswerOwesNothing DEF RejectUser, At, HandlerOK
  <2>5. CASE Admit(r)
    <3>1. req'[r].pc = "load" /\ \A p \in Req \ {r} : req'[p] = req[p]
      BY <2>5, <1>t DEF Admit, Goto, Handler
    <3> QED
      BY <3>1 DEF Owed
  <2>6. CASE AnswerRead(r)
    <3>1. req[r].input.op \notin Mutation /\ req[r].input.op # "login"
      BY <2>6 DEF AnswerRead, Mutation
    <3> QED
      BY <3>1, <2>6, <1>s, AnswerOwesNothing DEF AnswerRead
  <2>7. CASE MissTarget(r)
    BY <2>7, <2>h, <1>s, AnswerOwesNothing DEF MissTarget, At, HandlerOK
  <2>8. CASE RefuseCreate(r)
    BY <2>8, <2>h, <1>s, AnswerOwesNothing DEF RefuseCreate, At, HandlerOK
  <2>9. CASE PrepareCreate(r) \/ PrepareUpdate(r)
    <3>1. req'[r].pc = "store" /\ \A p \in Req \ {r} : req'[p] = req[p]
      BY <2>9, <1>t DEF PrepareCreate, PrepareUpdate, Handler
    <3> QED
      BY <3>1 DEF Owed
  <2>10. CASE RefuseUpdate(r)
    BY <2>10, <2>h, <1>s, AnswerOwesNothing DEF RefuseUpdate, LoadedForUpdate, At, HandlerOK
  <2>11. CASE CommitUser(r)
    <3>1. \/ req'[r].pc = "audit"
          \/ req'[r].pc = "done" /\ req'[r].status = 500
      BY <2>11, <1>t DEF CommitUser, Handler
    <3>2. \A p \in Req \ {r} : req'[p] = req[p]
      BY <2>11, <1>t DEF CommitUser
    <3>3. 500 \notin Success /\ 500 \notin {200, 401, 403}
      BY DEF Success
    <3> QED
      BY <3>1, <3>2, <3>3 DEF Owed
  <2>12. CASE RefuseWrite(r)
    <3>1. \E s \in {404, 500} : Answer(r, s)
      BY <2>12 DEF RefuseWrite
    <3> QED
      BY <3>1, <2>12, <2>h, <1>s, AnswerOwesNothing DEF RefuseWrite, At, HandlerOK
  <2>13. CASE StoreFails(r)
    BY <2>13, <1>s, AnswerOwesNothing DEF StoreFails
  <2>14. CASE WriteAudit(r)
    <3>1. \A p \in Req \ {r} : req'[p] = req[p]
      BY <2>14, <1>t DEF WriteAudit, Goto
    <3> QED
      BY <3>1, <2>14
  <2>15. CASE LoseAudit(r)
    BY <2>15 DEF Kept
  <2>16. CASE Reply(r)
    <3>1. req[r].pc = "reply" /\ \A p \in Req \ {r} : req'[p] = req[p]
      BY <2>16, <1>t DEF Reply, At
    <3> QED
      BY <3>1 DEF Owed
  <2> QED
    BY <1>2, <2>1, <2>2, <2>3, <2>4, <2>5, <2>6, <2>7, <2>8, <2>9, <2>10, <2>11, <2>12,
       <2>13, <2>14, <2>15, <2>16 DEF Handle
<1>3. ASSUME Crash PROVE FALSE
  <2>1. \/ req'[q] = req[q]
        \/ req'[q].pc = "gone"
    BY <1>3, <1>t DEF Crash, Handler
  <2> QED
    BY <2>1 DEF Owed
<1>4. ASSUME UNCHANGED req PROVE FALSE
  BY <1>4
<1> QED
  BY <1>1, <1>2, <1>3, <1>4 DEF Next, vars, Expire

\* Events are only added.
LEMMA EventsStay ==
    ASSUME TInv, [Next]_vars, NEW r \in Req
    PROVE  /\ EventsBy(r) \subseteq EventsBy(r)'
           /\ WriteAudit(r) => EventsBy(r)' # {}
<1>1. auditLog \in Seq(Event)
  BY DEF TInv, TypeOK
<1>2. ASSUME NEW q \in Req, WriteAudit(q)
      PROVE  /\ EventsBy(r) \subseteq EventsBy(r)'
             /\ q = r => EventsBy(r)' # {}
  <2> DEFINE e == AuditEvent(q)
  <2>1. auditLog' = Append(auditLog, e) /\ e.by = q
    BY <1>2 DEF WriteAudit, AuditEvent
  <2> HIDE DEF e
  <2>2. /\ DOMAIN auditLog' = DOMAIN auditLog \union {Len(auditLog) + 1}
        /\ auditLog'[Len(auditLog) + 1] = e
        /\ \A n \in DOMAIN auditLog : auditLog'[n] = auditLog[n]
    BY <1>1, <2>1
  <2> QED
    BY <2>1, <2>2 DEF EventsBy
<1>3. UNCHANGED auditLog => EventsBy(r)' = EventsBy(r)
  BY DEF EventsBy
<1> QED
  BY <1>2, <1>3, LogGrows

LEMMA RecordedStep ==
    ASSUME TInv, Recorded, [Next]_vars, Kept
    PROVE  Recorded'
<1> SUFFICES ASSUME NEW r \in Req, Owed(req'[r]) PROVE EventsBy(r)' # {}
  BY DEF Recorded
<1>1. CASE Owed(req[r])
  BY <1>1, EventsStay DEF Recorded
<1>2. CASE ~Owed(req[r])
  BY <1>2, OwedIsWritten, EventsStay
<1> QED
  BY <1>1, <1>2

\* Only an error of WriteAudit itself leaves a gap: whatever else fails, and whenever
\* the process dies, every login that was answered and every user mutation that was
\* acknowledged is in the trail.
THEOREM GapsAreLostWrites == Spec /\ [][Kept]_vars => []AuditComplete
<1>1. Init => Recorded
  BY DEF Init, Recorded, Owed, Idle
<1>2. TInv /\ Recorded /\ [Next]_vars /\ [Kept]_vars => Recorded'
  <2>1. ASSUME TInv, Recorded, UNCHANGED vars PROVE Recorded'
    BY <2>1 DEF vars, Recorded, EventsBy
  <2> QED
    BY <2>1, RecordedStep
<1>3. Recorded => AuditComplete
  BY DEF Recorded, Owed, AuditComplete, Succeeded, At
<1> QED
  BY <1>1, <1>2, <1>3, TInvInit, TInvStep, PTL DEF Spec

\* With a store that does not fail the trail is complete.
THEOREM TrailIsComplete ==
    ASSUME StoreMayFail = FALSE
    PROVE  Spec => []AuditComplete
<1>1. [Next]_vars => [Kept]_vars
  BY DEF Kept, LoseAudit
<1> QED
  BY <1>1, GapsAreLostWrites, PTL DEF Spec
=============================================================================

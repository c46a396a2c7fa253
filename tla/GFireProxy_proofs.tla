-------------------------- MODULE GFireProxy_proofs --------------------------
(***************************************************************************)
(* What the proxy keeps, for any number of requests, accounts and changes,  *)
(* and with GFire, the network, browsers and the store free to fail.  The   *)
(* properties are not inductive: PInv adds where each handler can be for    *)
(* what GFire has done with its request (Fits), why it was let through      *)
(* (Accounted), how often Do sent it and GFire executed it, redirects       *)
(* included (Counted), and which handlers have an event (Traced, Recorded). *)
(***************************************************************************)
EXTENDS GFireProxy, TLAPS

Answered == {"executed", "refused"} \union Redirect

\* What a handler c holds and has told, for a request of fate f.
Fits(c, f) ==
    /\ c.pc \notin {"audit", "done", "gone"} => c.told = 0
    /\ c.pc \in {"idle", "auth", "forward"} => f = "none"
    /\ c.pc \in {"sent", "respond", "audit", "auditError", "respondError"} => f # "none"
    /\ c.pc \in {"respond", "audit"} => f \in Answered /\ c.status = Verdict(f)
    /\ c.pc = "audit" => c.told = c.status
    /\ c.pc \in {"audit", "auditError"} => c.method \in WriteMethod
    /\ c.pc \in {"auditError", "respondError"} => c.status = 502
    /\ c.told = 200 => f = "executed"
    /\ c.told = 409 => f = "refused"
    /\ c.told \in {401, 403, 405, 500} => f = "none"

\* Only what was rightful at some instant is forwarded.
Accounted(r) ==
    /\ Rightful(accounts, call[r]) => entitled[r]
    /\ fate[r] # "none" \/ At(r, "forward") => entitled[r]

\* What GFire may still do with the request it was sent last.
Owed(r) == IF fate[r] = "pending" /\ sent[r].as = call[r].method THEN 1 ELSE 0

\* A request is executed once for each time that it was sent with its own method, which
\* is once if it has a body.
Counted(r) ==
    /\ call[r].body = "some" => HasBody(call[r].method)
    /\ At(r, "forward") => Supported(call[r].method)
    /\ fate[r] = "none" <=> sent[r].times = 0
    /\ sent[r].times = 0 => executions[r] = 0
    /\ sent[r].times = 1 =>
         /\ sent[r].as = call[r].method
         /\ fate[r] \in {"pending", "refused"} => executions[r] = 0
    /\ call[r].body = "some" /\ sent[r].times > 1 => sent[r].as # call[r].method
    /\ fate[r] = "executed" /\ sent[r].as = call[r].method => executions[r] > 0
    /\ executions[r] + Owed(r) <= IF call[r].body = "some" THEN 1 ELSE sent[r].times

\* A handler that has an event is past its audit, and one that is past it has one.
Traced(r) ==
    /\ EventsBy(r) # {} => call[r].pc \in {"respondError", "done", "gone"}
    /\ /\ call[r].pc \in {"respondError", "done"}
       /\ call[r].method \in WriteMethod
       /\ fate[r] # "none"
       => EventsBy(r) # {} \/ cancelled[r] \/ failed[r]

\* An event e of the handler c, for a request of fate f.
Records(e, c, f) ==
    /\ e.actor = c.user /\ e.method = c.method
    /\ e.status = 502 => c.told \in {0, 502}
    /\ e.status # 502 => e.status = c.told /\ f \in Answered /\ e.status = Verdict(f)

Recorded(n) ==
    /\ EventsBy(auditLog[n].by) = {n}
    /\ Records(auditLog[n], call[auditLog[n].by], fate[auditLog[n].by])

PInv ==
    /\ TypeOK
    /\ \A r \in Req : Fits(call[r], fate[r]) /\ Accounted(r) /\ Counted(r) /\ Traced(r)
    /\ \A n \in DOMAIN auditLog : Recorded(n)

-----------------------------------------------------------------------------
\* The initial states.
LEMMA PInit == Init => PInv
<1> SUFFICES ASSUME Init PROVE PInv
  OBVIOUS
<1>1. TypeOK
  BY ProxyAssumption
  DEF Init, TypeOK, Call, Pc, Status, Fate, Event, Sent
<1>2. auditLog = <<>> /\ DOMAIN auditLog = {}
  BY DEF Init
<1>3. \A r \in Req : Fits(call[r], fate[r]) /\ Accounted(r) /\ Traced(r)
  BY <1>2 DEF Init, Fits, Accounted, Traced, EventsBy, Rightful, Over, At
<1>4. \A r \in Req : Counted(r)
  BY DEF Init, Counted, Owed, At
<1> QED
  BY <1>1, <1>2, <1>3, <1>4 DEF PInv

\* A step of one request that writes no event is judged at that request alone.
LEMMA OneRequest ==
    ASSUME PInv, TypeOK', NEW r \in Req,
           auditLog' = auditLog,
           \A q \in Req : q # r =>
               /\ call'[q] = call[q] /\ fate'[q] = fate[q] /\ sent'[q] = sent[q]
               /\ cancelled'[q] = cancelled[q] /\ failed'[q] = failed[q]
               /\ executions'[q] = executions[q] /\ entitled'[q] = entitled[q],
           accounts' = accounts,
           Fits(call[r], fate[r])', Accounted(r)', Counted(r)',
           EventsBy(r) # {} => call'[r].pc \in {"respondError", "done", "gone"},
           /\ call'[r].pc \in {"respondError", "done"}
           /\ call'[r].method \in WriteMethod
           /\ fate'[r] # "none"
           => EventsBy(r) # {} \/ cancelled'[r] \/ failed'[r],
           \A n \in EventsBy(r) : Records(auditLog[n], call'[r], fate'[r])
    PROVE  PInv'
<1>1. \A q \in Req : EventsBy(q)' = EventsBy(q)
  BY DEF EventsBy
<1>2. \A q \in Req : Fits(call[q], fate[q])'
  BY DEF PInv, Fits
<1>3. \A q \in Req : Accounted(q)'
  BY DEF PInv, Accounted, At, Rightful, Over
<1>c. \A q \in Req : Counted(q)'
  BY DEF PInv, Counted, Owed, At
<1>4. \A q \in Req : Traced(q)'
  BY <1>1 DEF PInv, Traced
<1>5. ASSUME NEW n \in DOMAIN auditLog PROVE Recorded(n)'
  <2>0. auditLog[n] \in Event
    BY DEF PInv, TypeOK
  <2>1. auditLog[n].by \in Req /\ n \in EventsBy(auditLog[n].by)
    BY <2>0 DEF Event, EventsBy
  <2>2. Recorded(n)
    BY DEF PInv
  <2>3. CASE auditLog[n].by = r
    BY <1>1, <2>1, <2>2, <2>3 DEF Recorded
  <2>4. CASE auditLog[n].by # r
    BY <1>1, <2>1, <2>2, <2>4 DEF Recorded
  <2> QED
    BY <2>3, <2>4
<1> QED
  BY <1>2, <1>3, <1>4, <1>5, <1>c DEF PInv

\* Before the first word of an answer there is no event of a handler that told one.
LEMMA NoEventYet ==
    ASSUME PInv, NEW r \in Req, call[r].pc \notin {"respondError", "done", "gone"}
    PROVE  EventsBy(r) = {}
BY DEF PInv, Traced

\* A request arrives.
LEMMA PArrive ==
    ASSUME PInv, NEW r \in Req, Arrive(r)
    PROVE  PInv'
<1>1. PICK m \in Method[r], b \in {"none", "some"} :
        /\ b = "some" => HasBody(m)
        /\ call' = [call EXCEPT ![r].pc = "auth", ![r].method = m, ![r].body = b]
  BY DEF Arrive
<1>m. m \in AnyMethod
  BY <1>1, ProxyAssumption
<1>2. /\ call'[r] = [call[r] EXCEPT !.pc = "auth", !.method = m, !.body = b]
      /\ \A q \in Req : q # r => call'[q] = call[q]
      /\ call[r] \in Call /\ call[r].pc = "idle"
  BY <1>1 DEF Arrive, At, PInv, TypeOK
<1>3. entitled' = [q \in Req |-> entitled[q] \/ Rightful(accounts', call'[q])]
  BY DEF Arrive, NoteEntitled
<1>4. \A q \in Req : q # r => entitled'[q] = entitled[q]
  BY <1>2, <1>3 DEF Arrive, PInv, TypeOK, Accounted
<1>5. /\ call'[r] \in Call
      /\ call'[r].pc = "auth" /\ call'[r].told = call[r].told
      /\ call'[r].method = m /\ call'[r].body = b
  BY <1>2, <1>m DEF Call, Pc
<1>6. TypeOK'
  <2>1. call' \in [Req -> Call]
    BY <1>1, <1>2, <1>5 DEF PInv, TypeOK
  <2>2. entitled' \in [Req -> BOOLEAN]
    BY <1>3 DEF PInv, TypeOK, Rightful, Over
  <2> QED
    BY <2>1, <2>2 DEF Arrive, PInv, TypeOK
<1>7. fate'[r] = "none" /\ fate[r] = "none" /\ Fits(call[r], fate[r])'
  <2>1. Fits(call[r], fate[r])
    BY DEF PInv
  <2> QED
    BY <1>2, <1>5, <2>1 DEF Arrive, Fits
<1>8. EventsBy(r) = {}
  BY <1>2, NoEventYet
<1>9. Accounted(r)'
  BY <1>3, <1>5, <1>7 DEF Arrive, PInv, TypeOK, Accounted, At
<1>10. Counted(r)'
  <2>1. Counted(r) /\ executions[r] \in Nat
    BY DEF PInv, TypeOK
  <2>2. sent[r].times = 0 /\ executions[r] = 0
    BY <1>7, <2>1 DEF Counted
  <2> QED
    BY <1>1, <1>5, <1>7, <2>2 DEF Arrive, Counted, Owed, At
<1> QED
  BY <1>2, <1>4, <1>5, <1>6, <1>7, <1>8, <1>9, <1>10, OneRequest DEF Arrive

\* A handler goes on with a new status, or with a new status and answer.
Holds(r, pc, status) == call' = [call EXCEPT ![r].pc = pc, ![r].status = status]

Becomes(r, pc, status, told) ==
    call' = [call EXCEPT ![r].pc = pc, ![r].status = status, ![r].told = told]

\* A step of a handler that leaves accounts, executions and the trail alone.
Moves(r, pc, status, told) ==
    /\ ~Over(call[r])
    /\ Becomes(r, pc, status, told)
    /\ fate' \in [Req -> Fate] /\ failed' \in [Req -> BOOLEAN] /\ sent' \in [Req -> Sent]
    /\ \A q \in Req : q # r =>
          fate'[q] = fate[q] /\ failed'[q] = failed[q] /\ sent'[q] = sent[q]
    /\ UNCHANGED <<accounts, cancelled, auditLog, changes, executions, entitled>>

LEMMA MovesFields ==
    ASSUME PInv, NEW r \in Req, NEW pc \in Pc, NEW status \in Status, NEW told \in Status,
           Moves(r, pc, status, told)
    PROVE  /\ TypeOK'
           /\ call'[r].pc = pc /\ call'[r].status = status /\ call'[r].told = told
           /\ call'[r].user = call[r].user /\ call'[r].method = call[r].method
           /\ \A q \in Req : q # r => call'[q] = call[q]
<1>1. call[r] \in Call /\ call \in [Req -> Call]
  BY DEF PInv, TypeOK
<1>2. /\ call'[r] = [call[r] EXCEPT !.pc = pc, !.status = status, !.told = told]
      /\ \A q \in Req : q # r => call'[q] = call[q]
  BY <1>1 DEF Moves, Becomes
<1>3. call'[r] \in Call
  BY <1>1, <1>2 DEF Call
<1>4. call' \in [Req -> Call]
  BY <1>1, <1>2, <1>3 DEF Moves, Becomes
<1>5. /\ call'[r].pc = pc /\ call'[r].status = status /\ call'[r].told = told
      /\ call'[r].user = call[r].user /\ call'[r].method = call[r].method
  BY <1>1, <1>2 DEF Call
<1> QED
  BY <1>2, <1>4, <1>5 DEF Moves, PInv, TypeOK

LEMMA MovesBody ==
    ASSUME PInv, NEW r \in Req, NEW pc \in Pc, NEW status \in Status, NEW told \in Status,
           Moves(r, pc, status, told)
    PROVE  call'[r].body = call[r].body
<1>1. call[r] \in Call /\ call \in [Req -> Call]
  BY DEF PInv, TypeOK
<1> QED
  BY <1>1 DEF Moves, Becomes, Call

\* What has been sent and executed stays so when the handler goes on.
LEMMA StillCounted ==
    ASSUME PInv, NEW r \in Req, NEW pc \in Pc, NEW status \in Status, NEW told \in Status,
           Moves(r, pc, status, told), pc # "forward" \/ Supported(call[r].method),
           fate' = fate, sent' = sent
    PROVE  Counted(r)'
<1>1. Counted(r) /\ executions' = executions
  BY DEF PInv, Moves
<1> QED
  BY <1>1, MovesFields, MovesBody DEF Counted, Owed, At

LEMMA HandlerMoves ==
    ASSUME PInv, NEW r \in Req, NEW pc \in Pc, NEW status \in Status, NEW told \in Status,
           Moves(r, pc, status, told),
           Fits(call[r], fate[r])',
           fate'[r] # "none" \/ pc = "forward" => entitled[r],
           Counted(r)',
           EventsBy(r) # {} => pc \in {"respondError", "done", "gone"},
           /\ pc \in {"respondError", "done"}
           /\ call[r].method \in WriteMethod
           /\ fate'[r] # "none"
           => EventsBy(r) # {} \/ cancelled[r] \/ failed'[r],
           EventsBy(r) = {} \/ (told \in {call[r].told, 502} /\ call[r].told = 0 /\ fate' = fate)
    PROVE  PInv'
<1>1. /\ TypeOK'
      /\ call'[r].pc = pc /\ call'[r].status = status /\ call'[r].told = told
      /\ call'[r].user = call[r].user /\ call'[r].method = call[r].method
      /\ \A q \in Req : q # r => call'[q] = call[q]
  BY MovesFields
<1>2. Accounted(r)'
  <2>1. Accounted(r)
    BY DEF PInv
  <2> QED
    BY <1>1, <2>1 DEF Moves, Accounted, At, Rightful, Over
<1>3. ASSUME NEW n \in EventsBy(r) PROVE Records(auditLog[n], call'[r], fate'[r])
  <2>1. Recorded(n) /\ auditLog[n].by = r /\ auditLog[n] \in Event
    BY DEF PInv, TypeOK, EventsBy
  <2>2. told \in {0, 502} /\ call[r].told = 0 /\ fate' = fate
    BY <1>3
  <2>3. Records(auditLog[n], call[r], fate[r])
    BY <2>1 DEF Recorded
  <2>4. auditLog[n].status = 502
    BY <2>1, <2>2, <2>3 DEF Records, Event
  <2> QED
    BY <1>1, <2>2, <2>3, <2>4 DEF Records
<1>4. /\ auditLog' = auditLog /\ accounts' = accounts /\ cancelled' = cancelled
      /\ \A q \in Req : q # r =>
            /\ call'[q] = call[q] /\ fate'[q] = fate[q] /\ sent'[q] = sent[q]
            /\ cancelled'[q] = cancelled[q] /\ failed'[q] = failed[q]
            /\ executions'[q] = executions[q] /\ entitled'[q] = entitled[q]
  BY <1>1 DEF Moves
<1>5. EventsBy(r) # {} => call'[r].pc \in {"respondError", "done", "gone"}
  BY <1>1
<1>6. /\ call'[r].pc \in {"respondError", "done"}
      /\ call'[r].method \in WriteMethod
      /\ fate'[r] # "none"
      => EventsBy(r) # {} \/ cancelled'[r] \/ failed'[r]
  BY <1>1, <1>4
<1> QED
  BY <1>1, <1>2, <1>3, <1>4, <1>5, <1>6, OneRequest

\* Writing a field of a handler's record as it is changes nothing.
LEMMA SameStatus ==
    ASSUME PInv, NEW r \in Req, NEW pc, NEW status
    PROVE  /\ Goto(r, pc) => Becomes(r, pc, call[r].status, call[r].told)
           /\ Holds(r, pc, status) => Becomes(r, pc, status, call[r].told)
<1>1. call[r] \in Call /\ call \in [Req -> Call]
  BY DEF PInv, TypeOK
<1>2. [call[r] EXCEPT !.pc = pc, !.status = call[r].status, !.told = call[r].told]
      = [call[r] EXCEPT !.pc = pc]
  BY <1>1 DEF Call
<1>3. [call[r] EXCEPT !.pc = pc, !.status = status, !.told = call[r].told]
      = [call[r] EXCEPT !.pc = pc, !.status = status]
  BY <1>1 DEF Call
<1> QED
  BY <1>1, <1>2, <1>3 DEF Goto, Holds, Becomes

LEMMA Members ==
    /\ "forward" \in Pc /\ "sent" \in Pc /\ "respond" \in Pc /\ "audit" \in Pc /\ "done" \in Pc
    /\ "auditError" \in Pc /\ "respondError" \in Pc
    /\ 0 \in Status /\ 403 \in Status /\ 405 \in Status /\ 500 \in Status /\ 502 \in Status
BY DEF Pc, Status

LEMMA PAuthenticate ==
    ASSUME PInv, NEW r \in Req, Authenticate(r) \/ AuthenticateFails(r)
    PROVE  PInv'
<1>1. /\ call[r].pc = "auth" /\ call[r].told = 0 /\ call[r].status \in Status
      /\ fate[r] = "none" /\ EventsBy(r) = {} /\ ~Over(call[r])
      /\ call[r] \in Call /\ accounts[call[r].user] \in Account
  <2>1. Fits(call[r], fate[r]) /\ call[r] \in Call /\ At(r, "auth")
    BY DEF PInv, TypeOK, Authenticate, AuthenticateFails
  <2>2. EventsBy(r) = {} /\ accounts \in [User -> Account]
    BY <2>1, NoEventYet DEF At, PInv, TypeOK
  <2> QED
    BY <2>1, <2>2 DEF Fits, Call, Over, At
<1>2. TypeOK /\ Accounted(r)
  BY DEF PInv
<1>3. CASE AuthenticateFails(r)
  <2>1. Moves(r, "done", 500, 500) /\ fate' = fate /\ sent' = sent
    BY <1>1, <1>2, <1>3 DEF AuthenticateFails, Moves, StoreFails, Tell, TypeOK, Becomes
  <2>2. Fits(call[r], fate[r])'
    BY <1>1, <2>1, MovesFields, Members DEF Fits
  <2> QED
    BY <1>1, <1>2, <2>1, <2>2, HandlerMoves, StillCounted, Members DEF Accounted
<1>4. ASSUME NEW status \in {403, 405}, Authenticate(r), Tell(r, status, "done")
      PROVE  PInv'
  <2>1. Moves(r, "done", status, status) /\ fate' = fate /\ sent' = sent
    BY <1>1, <1>2, <1>4 DEF Authenticate, Moves, Tell, TypeOK, history, Becomes
  <2>2. Fits(call[r], fate[r])'
    BY <1>1, <2>1, MovesFields, Members DEF Fits
  <2> QED
    BY <1>1, <1>2, <2>1, <2>2, HandlerMoves, StillCounted, Members DEF Accounted
<1>5. CASE Authenticate(r) /\ Goto(r, "forward")
           /\ accounts[call[r].user].enabled /\ Supported(call[r].method)
           /\ accounts[call[r].user].role \in AllowedRoles(call[r].method)
  <2>1. Moves(r, "forward", call[r].status, 0) /\ fate' = fate /\ sent' = sent
    BY <1>1, <1>2, <1>5, SameStatus DEF Authenticate, Moves, TypeOK, history
  <2>2. Fits(call[r], fate[r])'
    BY <1>1, <2>1, MovesFields, Members DEF Fits
  <2>3. entitled[r]
    BY <1>1, <1>2, <1>5 DEF Accounted, Rightful, AllowedRoles, ReadMethod, WriteMethod, Supported
  <2>4. Counted(r)'
    BY <1>1, <1>5, <2>1, StillCounted, Members
  <2> QED
    BY <1>1, <1>2, <2>1, <2>2, <2>3, <2>4, HandlerMoves, Members DEF Accounted
<1> QED
  BY <1>3, <1>4, <1>5 DEF Authenticate

LEMMA PForward ==
    ASSUME PInv, NEW r \in Req, Forward(r)
    PROVE  PInv'
<1>1. /\ call[r].pc = "forward" /\ call[r].told = 0 /\ call[r].status \in Status
      /\ fate[r] = "none" /\ EventsBy(r) = {} /\ ~Over(call[r])
      /\ call[r].method \in ReadMethod \union WriteMethod
      /\ sent[r].times = 0 /\ executions[r] = 0
  <2>1. /\ Fits(call[r], fate[r]) /\ call[r] \in Call /\ At(r, "forward")
        /\ Counted(r)
    BY DEF PInv, TypeOK, Forward
  <2> QED
    BY <2>1, NoEventYet DEF Fits, Call, Over, At, Counted, Supported
<1>2. TypeOK /\ Accounted(r) /\ Counted(r)
  BY DEF PInv
<1>3. /\ Moves(r, "sent", call[r].status, 0) /\ fate'[r] = "pending"
      /\ sent'[r].as = call[r].method /\ sent'[r].times = 1
  <2>1. /\ sent'[r] = [as |-> call[r].method, times |-> 1]
        /\ sent' \in [Req -> Sent]
        /\ \A q \in Req : q # r => sent'[q] = sent[q]
    BY <1>1, <1>2, ProxyAssumption DEF Forward, SendAs, TypeOK, Sent
  <2>2. /\ fate' \in [Req -> Fate] /\ fate'[r] = "pending"
        /\ \A q \in Req : q # r => fate'[q] = fate[q]
    BY <1>2 DEF Forward, SendAs, TypeOK, Fate
  <2>3. Becomes(r, "sent", call[r].status, 0)
    BY <1>1, SameStatus DEF Forward
  <2> QED
    BY <1>1, <1>2, <2>1, <2>2, <2>3 DEF Forward, Moves, TypeOK, history
<1>4. Fits(call[r], fate[r])'
  BY <1>1, <1>3, MovesFields, Members DEF Fits
<1>5. Counted(r)'
  <2>1. executions'[r] = 0
    BY <1>1 DEF Forward, history
  <2>2. /\ call'[r].pc = "sent" /\ call'[r].method = call[r].method
        /\ call'[r].body = call[r].body
    BY <1>1, <1>3, MovesFields, MovesBody, Members
  <2>3. Owed(r)' = 1
    BY <1>3, <2>2 DEF Owed
  <2> QED
    BY <1>2, <1>3, <2>1, <2>2, <2>3 DEF Counted, At
<1> QED
  BY <1>1, <1>2, <1>3, <1>4, <1>5, HandlerMoves, Members DEF Accounted, At

\* A redirect that is followed with a method of its own may be executed once more.
LEMMA PFollow ==
    ASSUME PInv, NEW r \in Req, Follow(r)
    PROVE  PInv'
<1> DEFINE f == fate[r]
           m == NextMethod(sent[r].as, f)
<1>1. /\ call[r].pc = "sent" /\ call[r].told = 0 /\ call[r].status \in Status
      /\ f \in Redirect /\ EventsBy(r) = {} /\ ~Over(call[r])
      /\ sent[r].as \in ReadMethod \union WriteMethod \union {"none"}
      /\ sent[r].times \in 1..MaxSends - 1 /\ executions[r] \in Nat
  <2>1. /\ Fits(call[r], fate[r]) /\ call[r] \in Call /\ At(r, "sent") /\ f \in Redirect
        /\ Counted(r) /\ sent[r] \in Sent /\ executions[r] \in Nat
        /\ sent[r].times < MaxSends
    BY DEF PInv, TypeOK, Follow
  <2>2. sent[r].times # 0
    BY <2>1 DEF Counted, Redirect
  <2> QED
    BY <2>1, <2>2, NoEventYet, ProxyAssumption DEF Fits, Call, Over, At, Sent
<1>2. TypeOK /\ Accounted(r) /\ Counted(r)
  BY DEF PInv
<1>3. m \in ReadMethod \union WriteMethod \union {"none"}
  BY <1>1 DEF NextMethod, ReadMethod
<1>4. /\ sent'[r].as = m /\ sent'[r].times = sent[r].times + 1
      /\ sent' \in [Req -> Sent]
      /\ \A q \in Req : q # r => sent'[q] = sent[q]
  BY <1>1, <1>2, <1>3, ProxyAssumption DEF Follow, SendAs, TypeOK, Sent
<1>5. Moves(r, "sent", call[r].status, 0) /\ fate'[r] = "pending"
  <2>1. call' = call /\ Goto(r, "sent")
    <3>1. [call[r] EXCEPT !.pc = "sent"] = call[r]
      BY <1>1, <1>2 DEF TypeOK, Call
    <3> QED
      BY <1>2, <3>1 DEF Follow, Goto, TypeOK
  <2>2. /\ fate' \in [Req -> Fate] /\ fate'[r] = "pending"
        /\ \A q \in Req : q # r => fate'[q] = fate[q]
    BY <1>2 DEF Follow, SendAs, TypeOK, Fate
  <2>3. Becomes(r, "sent", call[r].status, 0)
    BY <1>1, <2>1, SameStatus
  <2> QED
    BY <1>1, <1>2, <1>4, <2>2, <2>3 DEF Follow, Moves, TypeOK, history
<1>6. Fits(call[r], fate[r])'
  BY <1>1, <1>5, MovesFields, Members DEF Fits
<1>7. Counted(r)'
  <2>1. /\ executions'[r] = executions[r] /\ call'[r].pc = "sent"
        /\ call'[r].method = call[r].method /\ call'[r].body = call[r].body
    BY <1>1, <1>5, MovesFields, MovesBody, Members DEF Moves
  <2>2. CASE call[r].body = "some"
    <3>1. f = "seeOther" /\ call[r].method \in {"POST", "PUT", "PATCH"}
      BY <1>2, <2>2 DEF Follow, Followed, Counted, HasBody
    <3>2. m \in ReadMethod /\ m # call[r].method
      BY <3>1 DEF NextMethod, ReadMethod
    <3>3. executions[r] <= 1
      BY <1>1, <1>2, <2>2, <3>1 DEF Counted, Owed
    <3> QED
      BY <1>1, <1>2, <1>4, <1>5, <2>1, <2>2, <3>2, <3>3 DEF Counted, Owed, At
  <2>3. CASE call[r].body = "none"
    <3>1. executions[r] <= sent[r].times
      BY <1>1, <1>2, <2>3 DEF Counted, Owed, Redirect
    <3>2. Owed(r)' \in {0, 1}
      BY DEF Owed
    <3>3. executions'[r] + Owed(r)' <= sent'[r].times
      BY <1>1, <1>4, <2>1, <3>1, <3>2
    <3> QED
      BY <1>1, <1>2, <1>4, <1>5, <2>1, <2>3, <3>3 DEF Counted, At
  <2> QED
    BY <1>2, <2>2, <2>3 DEF PInv, TypeOK, Call
<1> QED
  BY <1>1, <1>2, <1>5, <1>6, <1>7, HandlerMoves, Members DEF Accounted, Redirect

LEMMA PReceive ==
    ASSUME PInv, NEW r \in Req, Receive(r) \/ DoFails(r) \/ Respond(r)
    PROVE  PInv'
<1>1. /\ call[r].pc \in {"sent", "respond"} /\ call[r].told = 0
      /\ fate[r] # "none" /\ fate[r] \in Fate /\ EventsBy(r) = {} /\ ~Over(call[r])
      /\ call[r].pc = "respond" => fate[r] \in Answered /\ call[r].status = Verdict(fate[r])
  <2>1. Fits(call[r], fate[r]) /\ call[r] \in Call /\ (At(r, "sent") \/ At(r, "respond"))
    BY DEF PInv, TypeOK, Receive, DoFails, Respond
  <2> QED
    BY <2>1, NoEventYet DEF Fits, Call, Over, At, PInv, TypeOK
<1>2. TypeOK /\ Accounted(r)
  BY DEF PInv
<1>3. fate' = fate /\ sent' = sent
  BY DEF Receive, DoFails, Respond
<1>4. CASE Receive(r)
  <2>1. Moves(r, "respond", Verdict(fate[r]), 0) /\ fate[r] \in Answered
    <3>1. Holds(r, "respond", Verdict(fate[r]))
      BY <1>4 DEF Receive, Holds
    <3>2. Becomes(r, "respond", Verdict(fate[r]), call[r].told)
      BY <3>1, SameStatus
    <3> QED
      BY <1>1, <1>2, <1>4, <3>2 DEF Receive, Moves, TypeOK, history, Answered
  <2>2. Verdict(fate[r]) \in Status
    BY DEF Verdict, Status
  <2>3. Fits(call[r], fate[r])'
    BY <1>1, <1>3, <2>1, <2>2, MovesFields, Members DEF Fits
  <2> QED
    BY <1>1, <1>2, <1>3, <2>1, <2>2, <2>3, HandlerMoves, StillCounted, Members DEF Accounted
<1>5. CASE DoFails(r)
  <2>1. PICK pc \in {"auditError", "respondError"} :
          Moves(r, pc, 502, 0) /\ (pc = "auditError" <=> Mutating(call[r].method))
    <3>1. PICK pc \in {"auditError", "respondError"} :
            /\ Holds(r, pc, 502)
            /\ pc = "auditError" <=> Mutating(call[r].method)
      BY <1>5 DEF DoFails, Holds
    <3>2. Becomes(r, pc, 502, call[r].told)
      BY <3>1, SameStatus
    <3> QED
      BY <1>1, <1>2, <1>5, <3>1, <3>2 DEF DoFails, Moves, TypeOK, history
  <2>2. Fits(call[r], fate[r])'
    BY <1>1, <1>3, <2>1, MovesFields, Members DEF Fits, Mutating
  <2> QED
    BY <1>1, <1>2, <1>3, <2>1, <2>2, HandlerMoves, StillCounted, Members DEF Accounted, Mutating
<1>6. CASE Respond(r)
  <2>1. PICK pc \in {"audit", "done"} :
          /\ Moves(r, pc, Verdict(fate[r]), Verdict(fate[r])) /\ fate[r] \in Answered
          /\ pc = "audit" <=> Mutating(call[r].method)
    <3>1. PICK pc \in {"audit", "done"} :
            /\ Becomes(r, pc, call[r].status, call[r].status)
            /\ pc = "audit" <=> Mutating(call[r].method)
      BY <1>6 DEF Respond, Tell, Becomes
    <3> QED
      BY <1>1, <1>2, <1>6, <3>1 DEF Respond, Moves, TypeOK, history, At
  <2>2. /\ Verdict(fate[r]) \in Status
        /\ fate[r] \in Answered
        /\ Verdict(fate[r]) = 200 <=> fate[r] = "executed"
        /\ Verdict(fate[r]) = 409 <=> fate[r] = "refused"
        /\ Verdict(fate[r]) \notin {0, 401, 403, 405, 500, 502}
    BY <2>1 DEF Verdict, Status, Answered, Redirect
  <2>3. Fits(call[r], fate[r])'
    BY <1>1, <1>3, <2>1, <2>2, MovesFields, Members DEF Fits, Mutating, Answered
  <2> QED
    BY <1>1, <1>2, <1>3, <2>1, <2>2, <2>3, HandlerMoves, StillCounted, Members DEF Accounted, Mutating
<1> QED
  BY <1>4, <1>5, <1>6

\* The trail has no event of the request, or could not have had one.
LEMMA PLoseAudit ==
    ASSUME PInv, NEW r \in Req, LoseAudit(r)
    PROVE  PInv'
<1>1. /\ call[r].pc \in {"audit", "auditError"} /\ EventsBy(r) = {} /\ ~Over(call[r])
      /\ call[r].status \in Status /\ call[r].told \in Status /\ Fits(call[r], fate[r])
  <2>1. Fits(call[r], fate[r]) /\ call[r] \in Call /\ (At(r, "audit") \/ At(r, "auditError"))
    BY DEF PInv, TypeOK, LoseAudit
  <2> QED
    BY <2>1, NoEventYet DEF Call, Over, At
<1>2. TypeOK /\ Accounted(r)
  BY DEF PInv
<1>3. PICK pc \in {"respondError", "done"} :
        /\ pc = "respondError" <=> call[r].pc = "auditError"
        /\ Goto(r, pc)
  BY <1>1 DEF LoseAudit, AfterAudit, At
<1>4. /\ Moves(r, pc, call[r].status, call[r].told) /\ fate' = fate /\ sent' = sent
      /\ cancelled[r] \/ failed'[r]
  BY <1>1, <1>2, <1>3, SameStatus DEF LoseAudit, StoreFails, Moves, TypeOK
<1>5. Fits(call[r], fate[r])'
  BY <1>1, <1>3, <1>4, MovesFields, Members DEF Fits
<1> QED
  BY <1>1, <1>2, <1>3, <1>4, <1>5, HandlerMoves, StillCounted, Members DEF Accounted

LEMMA PRespondError ==
    ASSUME PInv, NEW r \in Req, RespondError(r)
    PROVE  PInv'
<1>1. /\ call[r].pc = "respondError" /\ call[r].told = 0 /\ fate[r] # "none"
      /\ ~Over(call[r]) /\ Traced(r)
  <2>1. Fits(call[r], fate[r]) /\ At(r, "respondError")
    BY DEF PInv, RespondError
  <2> QED
    BY <2>1 DEF Fits, Over, At, PInv
<1>2. TypeOK /\ Accounted(r)
  BY DEF PInv
<1>3. Moves(r, "done", 502, 502) /\ fate' = fate /\ sent' = sent /\ failed' = failed
  BY <1>1, <1>2 DEF RespondError, Tell, Moves, Becomes, TypeOK, history
<1>4. Fits(call[r], fate[r])'
  BY <1>1, <1>3, MovesFields, Members DEF Fits
<1> QED
  BY <1>1, <1>2, <1>3, <1>4, HandlerMoves, StillCounted, Members DEF Accounted, Traced

\* The new event is the only one of its request and tells its outcome.
LEMMA PWriteAudit ==
    ASSUME PInv, NEW r \in Req, WriteAudit(r)
    PROVE  PInv'
<1> DEFINE e == [by |-> r, actor |-> call[r].user, method |-> call[r].method,
                 status |-> call[r].status]
<1>1. /\ call[r].pc \in {"audit", "auditError"} /\ EventsBy(r) = {}
      /\ call[r] \in Call /\ Fits(call[r], fate[r]) /\ Accounted(r) /\ TypeOK
  <2>1. Fits(call[r], fate[r]) /\ call[r] \in Call /\ (At(r, "audit") \/ At(r, "auditError"))
    BY DEF PInv, TypeOK, WriteAudit
  <2> QED
    BY <2>1, NoEventYet DEF At, PInv
<1>2. PICK pc \in {"respondError", "done"} :
        /\ pc = "respondError" <=> call[r].pc = "auditError"
        /\ call' = [call EXCEPT ![r].pc = pc]
  BY <1>1 DEF WriteAudit, AfterAudit, At, Goto
<1>3. /\ call'[r] = [call[r] EXCEPT !.pc = pc]
      /\ call'[r] \in Call /\ call'[r].pc = pc
      /\ call'[r].status = call[r].status /\ call'[r].told = call[r].told
      /\ call'[r].user = call[r].user /\ call'[r].method = call[r].method
      /\ call'[r].body = call[r].body
      /\ call' \in [Req -> Call]
      /\ \A q \in Req : q # r => call'[q] = call[q]
  <2>1. /\ call'[r] = [call[r] EXCEPT !.pc = pc]
        /\ \A q \in Req : q # r => call'[q] = call[q]
    BY <1>1, <1>2 DEF TypeOK
  <2>2. /\ call'[r] \in Call /\ call'[r].pc = pc
        /\ call'[r].status = call[r].status /\ call'[r].told = call[r].told
        /\ call'[r].user = call[r].user /\ call'[r].method = call[r].method
        /\ call'[r].body = call[r].body
    BY <1>1, <1>2, <2>1 DEF Call, Pc
  <2> QED
    BY <1>1, <1>2, <2>1, <2>2 DEF TypeOK
<1>4. e \in Event /\ e.by = r
  BY <1>1 DEF Event, Call, Fits, Answered, Verdict, Redirect
<1>5. auditLog' = Append(auditLog, e)
  BY DEF WriteAudit
<1>6. PICK n \in Nat :
      /\ auditLog' \in Seq(Event) /\ DOMAIN auditLog' = DOMAIN auditLog \union {n}
      /\ auditLog'[n] = e /\ n \notin DOMAIN auditLog
      /\ \A i \in DOMAIN auditLog : auditLog'[i] = auditLog[i] /\ auditLog[i] \in Event
  <2>1. auditLog \in Seq(Event)
    BY <1>1 DEF TypeOK
  <2>2. Len(auditLog) + 1 \in Nat
    BY <2>1
  <2> QED
    BY <1>4, <1>5, <2>1, <2>2
<1>7. EventsBy(r)' = {n} /\ \A q \in Req : q # r => EventsBy(q)' = EventsBy(q)
  BY <1>1, <1>4, <1>6 DEF EventsBy
<1>8. UNCHANGED <<accounts, sent, fate, cancelled, executions, entitled, failed, changes>>
  BY DEF WriteAudit, history
<1>9. TypeOK'
  BY <1>1, <1>3, <1>6, <1>8 DEF TypeOK
<1>10. Fits(call[r], fate[r])'
  BY <1>1, <1>2, <1>3, <1>8 DEF Fits
<1>11. ASSUME NEW q \in Req PROVE Fits(call[q], fate[q])' /\ Accounted(q)' /\ Counted(q)' /\ Traced(q)'
  <2>1. CASE q = r
    <3>1. Counted(r)'
      BY <1>2, <1>3, <1>8 DEF PInv, Counted, Owed, At
    <3> QED
      BY <1>1, <1>2, <1>3, <1>7, <1>8, <1>10, <2>1, <3>1 DEF Accounted, Traced, At, Rightful, Over
  <2>2. CASE q # r
    <3>1. Counted(q)'
      BY <1>3, <1>8, <2>2 DEF PInv, Counted, Owed, At
    <3> QED
      BY <1>3, <1>7, <1>8, <2>2, <3>1 DEF PInv, Accounted, Traced, At, Rightful, Over
  <2> QED
    BY <2>1, <2>2
<1>12. Recorded(n)'
  <2>1. Records(e, call'[r], fate'[r])
    BY <1>1, <1>3, <1>8 DEF Records, Fits
  <2> QED
    BY <1>4, <1>6, <1>7, <2>1 DEF Recorded
<1>13. ASSUME NEW i \in DOMAIN auditLog PROVE Recorded(i)'
  <2>1. Recorded(i) /\ i \in EventsBy(auditLog[i].by) /\ auditLog[i].by \in Req
    BY <1>6 DEF PInv, EventsBy, Event
  <2>2. auditLog[i].by # r
    BY <1>1, <2>1
  <2> QED
    BY <1>3, <1>6, <1>7, <1>8, <2>1, <2>2 DEF Recorded
<1> QED
  BY <1>6, <1>9, <1>11, <1>12, <1>13 DEF PInv

\* The world: what GFire does, a browser that leaves, an administrator, a crash.
LEMMA PGFire ==
    ASSUME PInv, NEW r \in Req, GFire(r)
    PROVE  PInv'
<1>1. PICK outcome \in Answered, done \in BOOLEAN :
        /\ outcome \notin Redirect => (done <=> outcome = "executed")
        /\ fate' = [fate EXCEPT ![r] = outcome]
        /\ executions' = [executions EXCEPT
                            ![r] = @ + (IF done /\ sent[r].as = call[r].method THEN 1 ELSE 0)]
  BY DEF GFire, Answered
<1>2. /\ fate[r] = "pending" /\ TypeOK /\ Fits(call[r], fate[r])
      /\ Accounted(r) /\ Counted(r) /\ Traced(r) /\ executions[r] \in Nat
  BY DEF GFire, PInv, TypeOK
<1>3. /\ fate'[r] = outcome
      /\ executions'[r] = executions[r] + IF done THEN Owed(r) ELSE 0
      /\ \A q \in Req : q # r => fate'[q] = fate[q] /\ executions'[q] = executions[q]
      /\ UNCHANGED <<accounts, call, sent, cancelled, auditLog, changes, entitled, failed>>
  BY <1>1, <1>2 DEF GFire, TypeOK, Owed
<1>4. TypeOK'
  <2>1. fate' \in [Req -> Fate] /\ executions' \in [Req -> Nat]
    BY <1>1, <1>2 DEF TypeOK, Fate, Answered
  <2> QED
    BY <1>2, <1>3, <2>1 DEF TypeOK
<1>5. Fits(call[r], fate[r])'
  BY <1>2, <1>3 DEF Fits, Answered, Redirect
<1>6. Accounted(r)'
  BY <1>2, <1>3 DEF Accounted, At, Rightful, Over
<1>c. Counted(r)'
  <2>1. Owed(r) \in {0, 1} /\ (Owed(r) = 1 <=> sent[r].as = call[r].method)
    BY <1>2 DEF Owed
  <2>2. Owed(r)' = 0
    BY <1>3 DEF Owed, Answered, Redirect
  <2>3. sent[r].times \in Nat /\ sent[r].times # 0
    BY <1>2, ProxyAssumption DEF Counted, TypeOK, Sent
  <2>4. executions'[r] + Owed(r)' <= IF call[r].body = "some" THEN 1 ELSE sent[r].times
    <3>1. executions[r] + Owed(r) <= IF call[r].body = "some" THEN 1 ELSE sent[r].times
      BY <1>2 DEF Counted
    <3> QED
      BY <1>2, <1>3, <2>1, <2>2, <2>3, <3>1
  <2>5. fate'[r] = "refused" => executions'[r] = executions[r]
    BY <1>1, <1>2, <1>3 DEF Redirect
  <2>6. fate'[r] = "executed" /\ sent[r].as = call[r].method => executions'[r] > 0
    BY <1>1, <1>2, <1>3, <2>1 DEF Redirect
  <2> QED
    BY <1>2, <1>3, <2>3, <2>4, <2>5, <2>6 DEF Counted, At, Answered, Redirect
<1>7. ASSUME NEW n \in EventsBy(r) PROVE Records(auditLog[n], call'[r], fate'[r])
  <2>1. Records(auditLog[n], call[r], fate[r])
    BY DEF PInv, Recorded, EventsBy
  <2> QED
    BY <1>2, <1>3, <2>1 DEF Records, Answered, Redirect
<1> QED
  BY <1>2, <1>3, <1>4, <1>5, <1>6, <1>7, <1>c, OneRequest DEF Traced

LEMMA PCancel ==
    ASSUME PInv, NEW r \in Req, Cancel(r)
    PROVE  PInv'
<1>1. /\ cancelled' \in [Req -> BOOLEAN]
      /\ \A q \in Req : cancelled[q] => cancelled'[q]
      /\ UNCHANGED <<accounts, call, sent, fate, auditLog, changes, executions, entitled, failed>>
  BY DEF Cancel, PInv, TypeOK, history
<1>2. TypeOK'
  BY <1>1 DEF PInv, TypeOK
<1>3. ASSUME NEW q \in Req PROVE Fits(call[q], fate[q])' /\ Accounted(q)' /\ Counted(q)' /\ Traced(q)'
  <2>1. EventsBy(q)' = EventsBy(q)
    BY <1>1 DEF EventsBy
  <2> QED
    BY <1>1, <2>1 DEF PInv, Accounted, Counted, Owed, At, Rightful, Over, Traced, Fits
<1>4. \A n \in DOMAIN auditLog' : Recorded(n)'
  BY <1>1 DEF PInv, Recorded, EventsBy
<1> QED
  BY <1>2, <1>3, <1>4 DEF PInv

LEMMA PChangeAccount ==
    ASSUME PInv, NEW u \in User, ChangeAccount(u)
    PROVE  PInv'
<1>1. /\ UNCHANGED <<call, sent, fate, cancelled, auditLog, executions, failed>>
      /\ accounts' \in [User -> Account] /\ changes' \in 0..MaxChanges
      /\ entitled' = [q \in Req |-> entitled[q] \/ Rightful(accounts', call'[q])]
  BY ProxyAssumption DEF ChangeAccount, NoteEntitled, PInv, TypeOK
<1>2. TypeOK'
  <2>1. entitled' \in [Req -> BOOLEAN]
    BY <1>1 DEF PInv, TypeOK, Rightful, Over
  <2> QED
    BY <1>1, <2>1 DEF PInv, TypeOK
<1>3. ASSUME NEW q \in Req PROVE Fits(call[q], fate[q])' /\ Accounted(q)' /\ Counted(q)' /\ Traced(q)'
  <2>1. EventsBy(q)' = EventsBy(q)
    BY <1>1 DEF EventsBy
  <2>2. Accounted(q)'
    BY <1>1 DEF PInv, Accounted, At
  <2> QED
    BY <1>1, <2>1, <2>2 DEF PInv, Counted, Owed, At, Traced, Fits
<1>4. \A n \in DOMAIN auditLog' : Recorded(n)'
  BY <1>1 DEF PInv, Recorded, EventsBy
<1> QED
  BY <1>2, <1>3, <1>4 DEF PInv

LEMMA PCrash ==
    ASSUME PInv, Crash
    PROVE  PInv'
<1>1. /\ UNCHANGED <<accounts, sent, fate, cancelled, auditLog, changes, executions,
                     entitled, failed>>
      /\ call' = [r \in Req |-> IF Over(call[r]) THEN call[r]
                                ELSE [call[r] EXCEPT !.pc = "gone"]]
  BY DEF Crash, history
<1>2. ASSUME NEW q \in Req
      PROVE  /\ call'[q] \in Call
             /\ call'[q].told = call[q].told /\ call'[q].user = call[q].user
             /\ call'[q].method = call[q].method /\ call'[q].status = call[q].status
             /\ call'[q].body = call[q].body
             /\ call'[q].pc # call[q].pc => call'[q].pc = "gone" /\ ~Over(call[q])
  <2>1. call[q] \in Call
    BY DEF PInv, TypeOK
  <2>2. CASE Over(call[q])
    BY <1>1, <2>1, <2>2
  <2>3. CASE ~Over(call[q])
    <3>1. call'[q] = [call[q] EXCEPT !.pc = "gone"]
      BY <1>1, <2>3
    <3> QED
      BY <2>1, <2>3, <3>1 DEF Call, Pc
  <2> QED
    BY <2>2, <2>3
<1>3. TypeOK'
  BY <1>1, <1>2 DEF PInv, TypeOK
<1>4. ASSUME NEW q \in Req PROVE Fits(call[q], fate[q])' /\ Accounted(q)' /\ Counted(q)' /\ Traced(q)'
  <2>1. EventsBy(q)' = EventsBy(q)
    BY <1>1 DEF EventsBy
  <2>2. Fits(call[q], fate[q]) /\ Accounted(q) /\ Counted(q) /\ Traced(q)
    BY DEF PInv
  <2>3. Fits(call[q], fate[q])'
    BY <1>1, <1>2, <2>2 DEF Fits
  <2>4. Accounted(q)'
    <3>1. Rightful(accounts', call'[q]) => Rightful(accounts, call[q])
      BY <1>1, <1>2 DEF Rightful, Over
    <3>2. call'[q].pc = "forward" => call[q].pc = "forward"
      BY <1>2
    <3> QED
      BY <1>1, <2>2, <3>1, <3>2 DEF Accounted, At
  <2>5. Traced(q)'
    BY <1>1, <1>2, <2>1, <2>2 DEF Traced, Over
  <2>6. Counted(q)'
    <3>1. call'[q].pc = "forward" => call[q].pc = "forward"
      BY <1>2
    <3> QED
      BY <1>1, <1>2, <2>2, <3>1 DEF Counted, Owed, At
  <2> QED
    BY <2>3, <2>4, <2>5, <2>6
<1>5. ASSUME NEW n \in DOMAIN auditLog PROVE Recorded(n)'
  <2>1. Recorded(n) /\ auditLog[n] \in Event
    BY DEF PInv, TypeOK
  <2> QED
    BY <1>1, <1>2, <2>1 DEF Recorded, EventsBy, Records, Event
<1> QED
  BY <1>1, <1>3, <1>4, <1>5 DEF PInv

-----------------------------------------------------------------------------
\* Every step keeps the invariant.
LEMMA PNext ==
    ASSUME PInv, [Next]_vars
    PROVE  PInv'
<1>1. CASE \E r \in Req : \/ Arrive(r) \/ Handle(r) \/ Follow(r) \/ Receive(r) \/ DoFails(r)
                          \/ GFire(r) \/ Cancel(r)
  <2>1. PICK r \in Req : \/ Arrive(r) \/ Handle(r) \/ Follow(r) \/ Receive(r) \/ DoFails(r)
                        \/ GFire(r) \/ Cancel(r)
    BY <1>1
  <2>2. CASE Handle(r)
    BY <2>2, PAuthenticate, PForward, PReceive, PWriteAudit, PLoseAudit, PRespondError
    DEF Handle, GiveUp
  <2> QED
    BY <2>1, <2>2, PArrive, PFollow, PReceive, PGFire, PCancel
<1>2. CASE \E u \in User : ChangeAccount(u)
  BY <1>2, PChangeAccount
<1>3. CASE Crash
  BY <1>3, PCrash
<1>4. CASE UNCHANGED vars
  BY <1>4 DEF vars, PInv, TypeOK, Fits, Accounted, Counted, Owed, Traced, Recorded, EventsBy, At
<1> QED
  BY <1>1, <1>2, <1>3, <1>4 DEF Next

LEMMA PAlways == Spec => []PInv
<1>1. PInv /\ [Next]_vars => PInv'
  BY PNext
<1> QED
  BY <1>1, PInit, PTL DEF Spec

\* Every variable stays in its set; in particular only mutations are ever recorded,
\* with an answer of GFire or a 502.
THEOREM ProxyTypeCorrect == Spec => []TypeOK
<1>1. PInv => TypeOK
  BY DEF PInv
<1> QED
  BY <1>1, PAlways, PTL

\* handleGFireProxy behind authMiddleware: GFire never executes anything for an
\* account that was at no instant of the request allowed to ask for it.
THEOREM EffectsAreEntitled == Spec => []EffectNeedsRole
<1>1. PInv => EffectNeedsRole
  BY DEF PInv, EffectNeedsRole, Accounted, Counted
<1> QED
  BY <1>1, PAlways, PTL

\* What the answer of handleGFireProxy tells of its request, redirects included, and how
\* often GFire may execute it: once if it has a body, or if GFire does not redirect it.
THEOREM AnswersAreTrue == Spec => []ToldIsTrue
<1>1. PInv => ToldIsTrue
  <2> SUFFICES ASSUME PInv, NEW r \in Req
               PROVE  LET c == call[r]
                      IN  /\ c.told \in {401, 403, 405, 500} => executions[r] = 0
                          /\ c.told = 200 /\ sent[r].as = c.method => executions[r] > 0
                          /\ c.told = 409 /\ sent[r].times = 1 => executions[r] = 0
                          /\ executions[r] <= IF c.body = "some" THEN 1 ELSE sent[r].times
    BY DEF ToldIsTrue
  <2>1. Fits(call[r], fate[r]) /\ Counted(r) /\ executions[r] \in Nat /\ sent[r].times \in Nat
    BY ProxyAssumption DEF PInv, TypeOK, Sent
  <2>2. executions[r] <= IF call[r].body = "some" THEN 1 ELSE sent[r].times
    BY <2>1 DEF Counted, Owed
  <2> QED
    BY <2>1, <2>2 DEF Fits, Counted
<1> QED
  BY <1>1, PAlways, PTL

\* writeGFireProxyAudit: an event agrees with the answer, and comes once.
THEOREM EventsAgree == Spec => []AuditTellsOutcome
<1>1. PInv => AuditTellsOutcome
  <2> SUFFICES ASSUME PInv, NEW n \in DOMAIN auditLog
               PROVE  LET e == auditLog[n]
                          c == call[e.by]
                      IN  /\ EventsBy(e.by) = {n}
                          /\ e.actor = c.user /\ e.method = c.method
                          /\ IF e.status = 502 THEN c.told \in {0, 502} ELSE e.status = c.told
                          /\ e.status # 502 => e.status = Verdict(fate[e.by])
    BY DEF AuditTellsOutcome
  <2>1. Recorded(n)
    BY DEF PInv
  <2> QED
    BY <2>1 DEF Recorded, Records
<1> QED
  BY <1>1, PAlways, PTL

\* A forwarded mutation that ran to its end is recorded, unless its own store call
\* failed or its browser had left.
THEOREM LossesAreExplained == Spec => []AuditLossNeedsCause
<1>1. PInv => AuditLossNeedsCause
  BY DEF PInv, AuditLossNeedsCause, Traced, At
<1> QED
  BY <1>1, PAlways, PTL
=============================================================================

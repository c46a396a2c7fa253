----------------------------- MODULE GFireProxy -----------------------------
(***************************************************************************)
(* The proxy to GFire: handleGFireProxy behind authMiddleware, the client's *)
(* Do, and what it forwards to.  The answer is copied to the browser first  *)
(* and a mutation audited after that; when Do fails, the order is the other *)
(* one.  pc of a handler:                                                   *)
(*    auth          before GetUserByID          sent      in client.Do      *)
(*    forward       admitted                    respond   Do returned       *)
(*    audit         answered, before WriteAudit                             *)
(*    auditError    Do failed, before WriteAudit                            *)
(*    respondError  before the 502              done, gone                  *)
(* GFire is external: what it does with a request is left open, and a       *)
(* request may still reach it after Do failed.  main.go gives the client no *)
(* http.Client of its own, so Do follows redirects as http.DefaultClient    *)
(* does: after a 301, 302 or 303 with GET, after a 307 or 308 with the same *)
(* method, unless there is a body, which it cannot send a second time.      *)
(* (net/http may repeat a read whose connection broke; a read changes       *)
(* nothing and counts once.)  A browser that closes its connection cancels  *)
(* the context of its request.  The accounts are changed by administrators  *)
(* meanwhile (ConsoleAPI has that side).                                    *)
(***************************************************************************)
EXTENDS Naturals, Sequences, FiniteSets

CONSTANTS
    Req,            \* request slots; a slot serves one request
    User,           \* accounts
    Row,            \* the rows that the table users may have for them
    Method,         \* the methods that the client of each slot may send
    StoreMayFail,   \* may store calls fail?
    MaxSends,       \* how often Do sends, redirects included, before it gives up
    MaxRedirected,  \* bound on the requests that GFire redirects in one behaviour
    MaxChanges      \* bound on the changes of accounts in one behaviour

Role == {"Administrator", "Operator", "Auditor", "Guest"}

ReadMethod  == {"GET", "HEAD"}
WriteMethod == {"POST", "PUT", "PATCH", "DELETE"}
AnyMethod   == ReadMethod \union WriteMethod \union {"OPTIONS", "TRACE"}

Account == [enabled : BOOLEAN, role : Role]

ASSUME ProxyAssumption ==
    /\ Row \subseteq Account
    /\ Method \in [Req -> SUBSET AnyMethod]
    /\ StoreMayFail \in BOOLEAN
    /\ MaxSends \in Nat \ {0}
    /\ MaxRedirected \in Nat /\ MaxChanges \in Nat

\* 303 stands for 301 to 303 here, and 307 for 308 too.
Redirect == {"seeOther", "temporary"}

\* What became of the request that was sent last: none was, nothing (yet, or because it
\* was lost on the way), or it was executed, refused or redirected.
Fate == {"none", "pending", "executed", "refused"} \union Redirect

\* 200 and 409 stand for GFire's answers to what it executed and refused.
Verdict(f) == CASE f = "executed" -> 200 [] f = "seeOther" -> 303 [] f = "temporary" -> 307
                [] OTHER -> 409

Status == {0, 200, 303, 307, 401, 403, 405, 409, 500, 502}       \* 0: none yet

VARIABLES
    accounts,   \* the accounts as the table users has them
    call,       \* the handler of each request slot
    sent,       \* the method with which Do sent last, and how often it sent
    fate,       \* what became of the request it sent last
    cancelled,  \* the request's context is cancelled
    auditLog,   \* the events "gfire.proxy"
    changes,    \* how often an account was changed
    executions, \* history: how often GFire executed the browser's request
    failed,     \* history: a store call of the request returned an error
    entitled    \* history: the account was rightful at some instant of the request

history == <<executions, entitled, failed>>
vars == <<accounts, call, sent, fate, cancelled, auditLog, changes, executions, entitled,
          failed>>

Pc == {"idle", "auth", "forward", "sent", "respond", "audit",
       "auditError", "respondError", "done", "gone"}

\* body says whether the request has one; told is the status that was answered.
Call == [pc : Pc, method : AnyMethod \union {"none"}, body : {"none", "some"}, user : User,
         status : Status, told : Status]

Event == [by : Req, actor : User, method : WriteMethod, status : {200, 303, 307, 409, 502}]

Sent == [as : ReadMethod \union WriteMethod \union {"none"}, times : 0..MaxSends]

Over(c) == c.pc \in {"idle", "done", "gone"}

-----------------------------------------------------------------------------
\* Fault: every role may use every method.
AllowedRolesAny(method) == Role

\* allowedGFireProxyRoles; other methods are not supported.
AllowedRoles(method) ==
    IF method \in ReadMethod THEN {"Administrator", "Operator", "Auditor"}
    ELSE {"Administrator", "Operator"}

Supported(method) == method \in ReadMethod \union WriteMethod

HasBody(method) == method \in {"POST", "PUT", "PATCH"}

\* Fault: HEAD is forgotten.
MutatingUnlessGet(method) == method # "GET"

Mutating(method) == method \in WriteMethod

\* Rightful at an instant: enabled, no guest, and no auditor unless it only reads.
Rightful(accts, c) ==
    /\ ~Over(c) /\ accts[c.user].enabled
    /\ accts[c.user].role # "Guest"
    /\ c.method \in WriteMethod => accts[c.user].role # "Auditor"

NoteEntitled ==
    entitled' = [q \in Req |-> entitled[q] \/ Rightful(accounts', call'[q])]

Init ==
    /\ accounts \in [User -> Row]
    /\ call \in [Req -> [pc : {"idle"}, method : {"none"}, body : {"none"}, user : User,
                         status : {0}, told : {0}]]
    /\ sent = [r \in Req |-> [as |-> "none", times |-> 0]]
    /\ fate = [r \in Req |-> "none"]
    /\ cancelled = [r \in Req |-> FALSE]
    /\ auditLog = <<>>
    /\ changes = 0
    /\ executions = [r \in Req |-> 0]
    /\ failed = [r \in Req |-> FALSE]
    /\ entitled = [r \in Req |-> FALSE]

At(r, pc) == call[r].pc = pc

Goto(r, pc) == call' = [call EXCEPT ![r].pc = pc]

Tell(r, status, pc) ==
    call' = [call EXCEPT ![r].pc = pc, ![r].status = status, ![r].told = status]

-----------------------------------------------------------------------------
(* The handler.                                                            *)

\* A request with a token of its user reaches the middleware.
Arrive(r) ==
    /\ At(r, "idle")
    /\ \E m \in Method[r], b \in {"none", "some"} :
          /\ b = "some" => HasBody(m)
          /\ call' = [call EXCEPT ![r].pc = "auth", ![r].method = m, ![r].body = b]
    /\ UNCHANGED <<accounts, sent, fate, cancelled, auditLog, changes, executions, failed>>
    /\ NoteEntitled

\* A store call of the request returns an error, which a cancelled context makes too.
StoreFails(r) ==
    /\ StoreMayFail \/ cancelled[r]
    /\ failed' = [failed EXCEPT ![r] = ~cancelled[r]]
    /\ UNCHANGED <<accounts, sent, fate, cancelled, auditLog, changes, executions, entitled>>

\* GetUserByID fails.
AuthenticateFails(r) ==
    /\ At(r, "auth")
    /\ Tell(r, 500, "done")
    /\ StoreFails(r)

\* GetUserByID, and everything that is decided on the row it returns.
Authenticate(r) ==
    LET account == accounts[call[r].user]
        method  == call[r].method
    IN  /\ At(r, "auth")
        /\ \/ ~account.enabled /\ Tell(r, 403, "done")
           \/ account.enabled /\ ~Supported(method) /\ Tell(r, 405, "done")
           \/ /\ account.enabled /\ Supported(method)
              /\ account.role \notin AllowedRoles(method)
              /\ Tell(r, 403, "done")
           \/ /\ account.enabled /\ Supported(method)
              /\ account.role \in AllowedRoles(method)
              /\ Goto(r, "forward")
        /\ UNCHANGED <<accounts, sent, fate, cancelled, auditLog, changes, history>>

\* The client's request leaves with this method.
SendAs(r, method) ==
    /\ fate' = [fate EXCEPT ![r] = "pending"]
    /\ sent' = [sent EXCEPT ![r] = [as |-> method, times |-> @.times + 1]]

\* client.Do sends the request.
Forward(r) ==
    /\ At(r, "forward")
    /\ Goto(r, "sent")
    /\ SendAs(r, call[r].method)
    /\ UNCHANGED <<accounts, cancelled, auditLog, changes, history>>

\* redirectBehavior of net/http: the body of the browser can be read only once.
Followed(c, f) == f = "seeOther" \/ (f = "temporary" /\ c.body = "none")

NextMethod(as, f) == IF f = "temporary" \/ as \in ReadMethod THEN as ELSE "GET"

\* GFire answered with a redirect, and Do goes on there.
Follow(r) ==
    /\ At(r, "sent")
    /\ fate[r] \in Redirect /\ Followed(call[r], fate[r])
    /\ sent[r].times < MaxSends
    /\ SendAs(r, NextMethod(sent[r].as, fate[r]))
    /\ UNCHANGED <<accounts, call, cancelled, auditLog, changes, history>>

\* GFire answered and Do returns; a redirect, if it is not to be followed or does not
\* say where to.
Receive(r) ==
    /\ At(r, "sent")
    /\ fate[r] \in {"executed", "refused"} \union Redirect
    /\ call' = [call EXCEPT ![r].pc = "respond", ![r].status = Verdict(fate[r])]
    /\ UNCHANGED <<accounts, sent, fate, cancelled, auditLog, changes, history>>

\* Fault: a failed call is tried again.
DoFailsRetried(r) ==
    /\ At(r, "sent")
    /\ fate' = [fate EXCEPT ![r] = "pending"]
    /\ UNCHANGED <<accounts, call, sent, cancelled, auditLog, changes, history>>

\* The connection breaks, or there were too many redirects.
DoFails(r) ==
    /\ At(r, "sent")
    /\ call' = [call EXCEPT ![r].pc = IF Mutating(call[r].method) THEN "auditError"
                                      ELSE "respondError",
                            ![r].status = 502]
    /\ UNCHANGED <<accounts, sent, fate, cancelled, auditLog, changes, history>>

\* Fault: the upstream request does not carry the context of the browser's, so
\* that Do waits for GFire.
GiveUpUnbound(r) == cancelled[r] /\ fate[r] # "pending" /\ DoFails(r)

\* The context is cancelled and Do returns its error.
GiveUp(r) == cancelled[r] /\ DoFails(r)

\* Headers and body are copied; the error of the copy is dropped.
Respond(r) ==
    /\ At(r, "respond")
    /\ Tell(r, call[r].status, IF Mutating(call[r].method) THEN "audit" ELSE "done")
    /\ UNCHANGED <<accounts, sent, fate, cancelled, auditLog, changes, history>>

AfterAudit(r) == IF At(r, "auditError") THEN "respondError" ELSE "done"

\* Fault: every event says that it went well.
WriteAuditOK(r) ==
    /\ At(r, "audit") \/ At(r, "auditError")
    /\ auditLog' = Append(auditLog, [by |-> r, actor |-> call[r].user,
                                     method |-> call[r].method, status |-> 200])
    /\ Goto(r, AfterAudit(r))
    /\ UNCHANGED <<accounts, sent, fate, cancelled, changes, history>>

WriteAudit(r) ==
    /\ At(r, "audit") \/ At(r, "auditError")
    /\ auditLog' = Append(auditLog, [by |-> r, actor |-> call[r].user,
                                     method |-> call[r].method,
                                     status |-> call[r].status])
    /\ Goto(r, AfterAudit(r))
    /\ UNCHANGED <<accounts, sent, fate, cancelled, changes, history>>

\* The error of WriteAudit is dropped; it uses the request's context.
LoseAudit(r) ==
    /\ At(r, "audit") \/ At(r, "auditError")
    /\ Goto(r, AfterAudit(r))
    /\ StoreFails(r)

RespondError(r) ==
    /\ At(r, "respondError")
    /\ Tell(r, 502, "done")
    /\ UNCHANGED <<accounts, sent, fate, cancelled, auditLog, changes, history>>

-----------------------------------------------------------------------------
(* The world around it.                                                    *)

\* What becomes of a request that is on its way, whoever still waits for it; nothing, if
\* it is lost.  GFire may redirect before or after it has executed it.
GFire(r) ==
    /\ fate[r] = "pending"
    /\ \E outcome \in {"executed", "refused"} \union Redirect, done \in BOOLEAN :
         /\ outcome \notin Redirect => (done <=> outcome = "executed")
         /\ outcome \in Redirect =>
              Cardinality({q \in Req \ {r} : fate[q] \in Redirect \/ sent[q].times > 1})
                < MaxRedirected
         /\ fate' = [fate EXCEPT ![r] = outcome]
         /\ executions' = [executions EXCEPT
                             ![r] = @ + (IF done /\ sent[r].as = call[r].method THEN 1 ELSE 0)]
    /\ UNCHANGED <<accounts, call, sent, cancelled, auditLog, changes, entitled, failed>>

Cancel(r) ==
    /\ ~Over(call[r]) /\ ~cancelled[r]
    /\ cancelled' = [cancelled EXCEPT ![r] = TRUE]
    /\ UNCHANGED <<accounts, call, sent, fate, auditLog, changes, history>>

ChangeAccount(u) ==
    /\ changes < MaxChanges
    /\ changes' = changes + 1
    /\ \E a \in Row : accounts' = [accounts EXCEPT ![u] = a]
    /\ UNCHANGED <<call, sent, fate, cancelled, auditLog, executions, failed>>
    /\ NoteEntitled

\* The process dies; what was sent to GFire was sent.
Crash ==
    /\ \E r \in Req : ~Over(call[r])
    /\ call' = [r \in Req |-> IF Over(call[r]) THEN call[r] ELSE [call[r] EXCEPT !.pc = "gone"]]
    /\ UNCHANGED <<accounts, sent, fate, cancelled, auditLog, changes, history>>

\* What the process does of its own, without an answer from GFire or the network.
Handle(r) ==
    \/ Authenticate(r) \/ AuthenticateFails(r) \/ Forward(r) \/ GiveUp(r) \/ Respond(r)
    \/ WriteAudit(r) \/ LoseAudit(r) \/ RespondError(r)

Next ==
    \/ \E r \in Req : \/ Arrive(r) \/ Handle(r) \/ Follow(r) \/ Receive(r) \/ DoFails(r)
                      \/ GFire(r) \/ Cancel(r)
    \/ \E u \in User : ChangeAccount(u)
    \/ Crash

Spec == Init /\ [][Next]_vars

\* Handlers are goroutines and store calls return.  GFire and the network owe
\* nothing: the client has no timeout.
FairSpec == Spec /\ \A r \in Req : WF_vars(Handle(r))

-----------------------------------------------------------------------------
EventsBy(r) == {n \in DOMAIN auditLog : auditLog[n].by = r}

\* Every variable stays in its set; an event is only ever about a mutation and an
\* outcome, never about a read or a refusal of the console.
TypeOK ==
    /\ accounts \in [User -> Account]
    /\ call \in [Req -> Call]
    /\ sent \in [Req -> Sent]
    /\ fate \in [Req -> Fate]
    /\ cancelled \in [Req -> BOOLEAN]
    /\ auditLog \in Seq(Event)
    /\ changes \in 0..MaxChanges
    /\ executions \in [Req -> Nat]
    /\ entitled \in [Req -> BOOLEAN]
    /\ failed \in [Req -> BOOLEAN]

\* GFire executes nothing for an account that was all through the request
\* disabled or a guest, and no mutation for one that was an auditor.
EffectNeedsRole == \A r \in Req : executions[r] > 0 => entitled[r]

\* What the browser is told about its own request.  A refusal of the console itself
\* means that GFire never executed it.  A success means that it was executed, unless Do
\* was sent elsewhere with GET: then it is the success of that read.  A refusal by GFire
\* means that it was not executed, unless an earlier answer was a redirect.  Whatever is
\* told, a request with a body was executed once at most, and any other once for every
\* time that GFire asked for it again: nothing else is sent twice.
ToldIsTrue ==
    \A r \in Req :
        LET c == call[r]
        IN  /\ c.told \in {401, 403, 405, 500} => executions[r] = 0
            /\ c.told = 200 /\ sent[r].as = c.method => executions[r] > 0
            /\ c.told = 409 /\ sent[r].times = 1 => executions[r] = 0
            /\ executions[r] <= IF c.body = "some" THEN 1 ELSE sent[r].times

\* An event tells the outcome that the browser was or will be told, the actor and
\* the method, and no request is recorded twice.
AuditTellsOutcome ==
    \A n \in DOMAIN auditLog :
        LET e == auditLog[n]
            c == call[e.by]
        IN  /\ EventsBy(e.by) = {n}
            /\ e.actor = c.user /\ e.method = c.method
            /\ IF e.status = 502 THEN c.told \in {0, 502} ELSE e.status = c.told
            /\ e.status # 502 => e.status = Verdict(fate[e.by])

\* "BFF-proxied mutations" are audited: a mutation that went through the proxy to
\* its end has its event, or its own event could not be written, or the browser left
\* before that.  What happens to other requests is no excuse.
AuditLossNeedsCause ==
    \A r \in Req :
        At(r, "done") /\ call[r].method \in WriteMethod /\ fate[r] # "none"
            => EventsBy(r) # {} \/ cancelled[r] \/ failed[r]

\* A browser that gives up frees its handler, however long GFire takes: the
\* upstream call is bound to the context of the request.
GivingUpFrees == \A r \in Req : cancelled[r] ~> Over(call[r])
=============================================================================

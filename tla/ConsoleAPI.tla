----------------------------- MODULE ConsoleAPI -----------------------------
(***************************************************************************)
(* The user-facing core of internal/api: login, the bearer-token middleware,*)
(* role checks, user administration and the audit trail, as concurrent      *)
(* request handlers over one database.                                      *)
(*                                                                         *)
(* Every request is a goroutine of its own.  Handlers share only the        *)
(* database, and use no transaction that spans two calls, so an action is   *)
(* one store call with the local computation around it.  pc says where a    *)
(* handler is:                                                              *)
(*    lookup   handleLogin, before GetUserByEmail                           *)
(*    auth     authMiddleware, before GetUserByID                           *)
(*    load     admitted, before the read the operation starts with          *)
(*    store    validated, before CreateUser / UpdateUser                    *)
(*    audit    before WriteAudit                                            *)
(*    reply    before the response is written                               *)
(*    done     answered with status            gone   killed by a crash     *)
(*                                                                         *)
(* Assumed: the store and the JWT secret are configured, new UUIDs are      *)
(* fresh, hashing and signing never fail.  StoreMayFail lets any store call *)
(* fail, before or after it took effect; a client that disconnects cancels  *)
(* the request's context, with the same effects on its remaining calls.     *)
(***************************************************************************)
EXTENDS UserStore, Naturals, Sequences

CONSTANTS
    Req,            \* request slots; a slot serves one request
    Requests,       \* the requests clients may send
    InitUsers,      \* the table when the server starts to listen
    InitTokens,     \* tokens issued before that
    NewId,          \* the UUID that CreateUser draws for a request
    Nil,            \* an absent JSON field, nobody
    NoToken,        \* any Authorization header that does not parse and verify
    BadId,          \* a path id that is no UUID
    StoreMayFail    \* may store calls fail?

Mutation == {"users.create", "users.update", "users.password.update"}
Read     == {"me", "audit", "ops", "users.list", "users.get"}
Op       == {"login"} \union Mutation \union Read

\* The roles each authenticated route is registered with in NewServer.
RouteRoles == [op \in Mutation \union Read |->
    CASE op = "me"    -> Role
      [] op = "audit" -> {"Administrator", "Auditor"}
      [] op = "ops"   -> {"Administrator", "Operator", "Auditor"}
      [] OTHER        -> {"Administrator"}]

\* A request body with its path id; Nil marks a JSON field that is not there.
\* A body that is not JSON fails validation like one with every field absent.
Request == [op : Op, id : User \union {BadId},
            name : Text \union {Nil}, email : Text \union {Nil},
            role : Role \union {Nil, "no such role"},
            enabled : BOOLEAN \union {Nil}, password : Text \union {Nil}]

\* What the claims of a verified token say.
Token == [sub : User, role : Role]

ASSUME ConsoleAssumption ==
    /\ Requests \subseteq Request
    /\ InitUsers \in Table /\ UniqueEmails(InitUsers)
    /\ InitTokens \subseteq Token
    /\ NewId \in [Req -> User]
    /\ \A r \in Req : ~Holds(InitUsers, NewId[r])
    /\ \A r, q \in Req : NewId[r] = NewId[q] => r = q
    /\ StoreMayFail \in BOOLEAN
    /\ Nil \notin Requests /\ Nil \notin User /\ Nil \notin Text
    /\ Nil \notin Role /\ Nil \notin BOOLEAN
    /\ NoToken \notin Token /\ BadId \notin User

VARIABLES
    users,      \* the table users
    auditLog,   \* the table audit_events, in insertion order
    tokens,     \* the tokens in clients' hands that still verify
    req,        \* the handler of each request slot
    applied,    \* history: the request's write took effect
    entitled,   \* history: the request was rightful at some instant of its run
    stale       \* history: another request wrote the row after it was loaded

history == <<applied, entitled, stale>>
vars    == <<users, auditLog, tokens, req, applied, entitled, stale>>

Pc     == {"idle", "lookup", "auth", "load", "store", "audit", "reply", "done", "gone"}
Success == {200, 201, 204}
Refusal == {400, 401, 403, 404}
Failure == Refusal \union {500}
Status  == {0} \union Success \union Failure      \* 0: no verdict yet

Handler == [pc : Pc, input : Requests \union {Nil}, bearer : Token \union {NoToken},
            row : Row \union {Absent}, subject : User \union {Nil}, status : Status]

Event == [action : Mutation \union {"auth.login.success", "auth.login.failure"},
          actor : User \union {Nil}, resource : User \union {Nil}, by : Req]

Idle == [pc |-> "idle", input |-> Nil, bearer |-> NoToken,
         row |-> Absent, subject |-> Nil, status |-> 0]

Over(h) == h.pc \in {"idle", "done", "gone"}

-----------------------------------------------------------------------------
(* Validation.                                                             *)

\* A string field of a decoded struct: "" when the JSON does not have it.
Given(t) == IF t = Nil THEN Empty ELSE t

Blank(t) == Trim[Given(t)] = Empty

CredentialsMissing(i) == Blank(i.email) \/ Given(i.password) = Empty

CreateIsValid(i) ==
    /\ ~Blank(i.name) /\ ~Blank(i.email) /\ ~Blank(i.password)
    /\ i.role \in Role
    /\ i.enabled # Nil

BuildCreateUser(i) ==
    [name |-> Trim[i.name], email |-> Trim[i.email], role |-> i.role,
     enabled |-> i.enabled, hash |-> Trim[i.password]]

\* Fault: a patched text is not checked for being blank.
PatchIsValidIfAnyField(i) ==
    /\ i.role \in Role \union {Nil}
    /\ \E field \in {"name", "email", "role", "enabled"} : i[field] # Nil

PatchIsValid(i) ==
    /\ i.name # Nil => ~Blank(i.name)
    /\ i.email # Nil => ~Blank(i.email)
    /\ i.role \in Role \union {Nil}
    /\ \E field \in {"name", "email", "role", "enabled"} : i[field] # Nil

Patched(old, new) == IF new = Nil THEN old ELSE new

\* Fault: enabled decoded into a bool, so that an absent field reads as false.
ApplyUserPatchPlainBool(row, i) ==
    [name    |-> IF i.name = Nil THEN row.name ELSE Trim[i.name],
     email   |-> IF i.email = Nil THEN row.email ELSE Trim[i.email],
     role    |-> Patched(row.role, i.role),
     enabled |-> Patched(FALSE, i.enabled),
     hash    |-> row.hash]

ApplyUserPatch(row, i) ==
    [name    |-> IF i.name = Nil THEN row.name ELSE Trim[i.name],
     email   |-> IF i.email = Nil THEN row.email ELSE Trim[i.email],
     role    |-> Patched(row.role, i.role),
     enabled |-> Patched(row.enabled, i.enabled),
     hash    |-> row.hash]

\* Fault: the guard only refuses to enable.
TogglesSelfOn(actor, id, row, i) ==
    actor = id /\ i.enabled = TRUE /\ i.enabled # row.enabled

\* An administrator may not switch the enabled column of the own account.
TogglesSelf(actor, id, row, i) ==
    actor = id /\ i.enabled # Nil /\ i.enabled # row.enabled

\* May the loaded row be updated as the body says?
UpdateIsValid(h, row) ==
    IF h.input.op = "users.update"
    THEN /\ ~TogglesSelf(h.bearer.sub, h.input.id, row, h.input)
         /\ PatchIsValid(h.input)
    ELSE ~Blank(h.input.password)

UpdatedRow(row, i) ==
    IF i.op = "users.update" THEN ApplyUserPatch(row, i)
    ELSE [row EXCEPT !.hash = Trim[i.password]]

\* The answer to credentials that name an account.
LoginVerdict(row, password) ==
    CASE ~CheckPassword(row.hash, password) -> 401
      [] CheckPassword(row.hash, password) /\ ~row.enabled -> 403
      [] OTHER -> 200

SuccessOf(op) == CASE op = "users.create" -> 201
                   [] op = "users.password.update" -> 204
                   [] OTHER -> 200

\* The row a mutation is about.
TargetOf(r, h) == IF h.input.op = "users.create" THEN NewId[r] ELSE h.input.id
Target(r) == TargetOf(r, req[r])

-----------------------------------------------------------------------------
(* History.  A request is rightful at an instant if the account behind its  *)
(* token, or behind its credentials, is enabled and has the route's role.   *)

Entitled(table, h) ==
    /\ ~Over(h)
    /\ IF h.input.op = "login"
       THEN /\ ~Blank(h.input.email)
            /\ \E u \in ByEmail(table, Trim[h.input.email]) :
                 table[u].enabled /\ table[u].hash = h.input.password
       ELSE /\ h.bearer # NoToken
            /\ Holds(table, h.bearer.sub)
            /\ table[h.bearer.sub].enabled
            /\ table[h.bearer.sub].role \in RouteRoles[h.input.op]

NoteEntitled ==
    entitled' = [q \in Req |-> entitled[q] \/ Entitled(users', req'[q])]

-----------------------------------------------------------------------------
Init ==
    /\ users = InitUsers
    /\ auditLog = <<>>
    /\ tokens = InitTokens
    /\ req = [r \in Req |-> Idle]
    /\ applied = [r \in Req |-> FALSE]
    /\ entitled = [r \in Req |-> FALSE]
    /\ stale = [r \in Req |-> FALSE]

At(r, pc) == req[r].pc = pc

Goto(r, pc) == req' = [req EXCEPT ![r].pc = pc]

\* The handler writes a response and returns; its locals are gone.
Answer(r, status) ==
    /\ req' = [req EXCEPT ![r].pc = "done", ![r].status = status, ![r].row = Absent]
    /\ UNCHANGED <<users, auditLog, tokens, history>>

\* A request reaches its handler.
Arrive(r) ==
    /\ At(r, "idle")
    /\ \E i \in Requests, b \in tokens \union {NoToken} :
         /\ i.op = "login" => b = NoToken
         /\ req' = [req EXCEPT ![r] =
                      [Idle EXCEPT !.pc = IF i.op = "login" THEN "lookup" ELSE "auth",
                                   !.input = i, !.bearer = b]]
    /\ UNCHANGED <<users, auditLog, tokens, applied, stale>>
    /\ NoteEntitled

(* POST /api/auth/login *)

LoginBadBody(r) ==
    /\ At(r, "lookup")
    /\ CredentialsMissing(req[r].input)
    /\ Answer(r, 400)

\* GetUserByEmail and the verdict on what it returned.  IssueToken, on
\* success, signs the id and the role of that row.
LoginLookup(r) ==
    LET i == req[r].input
        found == ByEmail(users, Trim[i.email])
    IN  /\ At(r, "lookup")
        /\ ~CredentialsMissing(i)
        /\ \/ /\ found = {}
              /\ req' = [req EXCEPT ![r].pc = "audit", ![r].status = 401]
           \/ \E u \in found :
                req' = [req EXCEPT ![r].pc = "audit", ![r].subject = u,
                                   ![r].row = users[u],
                                   ![r].status = LoginVerdict(users[u], i.password)]
        /\ UNCHANGED <<users, auditLog, tokens, history>>

(* authMiddleware and RequireRoles *)

\* The token still verifies and names an account that exists.
BearerKnown(r) == req[r].bearer \in tokens /\ Holds(users, req[r].bearer.sub)

RejectToken(r) ==
    /\ At(r, "auth")
    /\ ~BearerKnown(r)
    /\ Answer(r, 401)

\* The decision is taken on the row, not on the role claim of the token.
Allowed(row, op) == row.enabled /\ row.role \in RouteRoles[op]

RejectUser(r) ==
    /\ At(r, "auth")
    /\ BearerKnown(r)
    /\ ~Allowed(users[req[r].bearer.sub], req[r].input.op)
    /\ Answer(r, 403)

\* Fault: the role is taken from the token's claim.
AdmitByClaim(r) ==
    /\ At(r, "auth")
    /\ BearerKnown(r)
    /\ users[req[r].bearer.sub].enabled
    /\ req[r].bearer.role \in RouteRoles[req[r].input.op]
    /\ Goto(r, "load")
    /\ UNCHANGED <<users, auditLog, tokens, history>>

Admit(r) ==
    /\ At(r, "auth")
    /\ BearerKnown(r)
    /\ Allowed(users[req[r].bearer.sub], req[r].input.op)
    /\ Goto(r, "load")
    /\ UNCHANGED <<users, auditLog, tokens, history>>

(* The handlers behind them *)

\* handleMe answers from the context, the summary from GFire, and the lists and the
\* single read from the store.  AuditPages and OpsSummary have the contents of two.
AnswerRead(r) ==
    /\ At(r, "load")
    /\ \/ req[r].input.op \in {"me", "audit", "ops", "users.list"}
       \/ req[r].input.op = "users.get" /\ req[r].input.id \in User /\ Holds(users, req[r].input.id)
    /\ Answer(r, 200)

\* buildCreateUser has no store call before it.
RefuseCreate(r) ==
    /\ At(r, "load")
    /\ req[r].input.op = "users.create"
    /\ ~CreateIsValid(req[r].input)
    /\ Answer(r, 400)

PrepareCreate(r) ==
    /\ At(r, "load")
    /\ req[r].input.op = "users.create"
    /\ CreateIsValid(req[r].input)
    /\ req' = [req EXCEPT ![r].pc = "store", ![r].row = BuildCreateUser(req[r].input)]
    /\ UNCHANGED <<users, auditLog, tokens, history>>

TakesId(op) == op \in {"users.get", "users.update", "users.password.update"}

\* loadUserFromPath and writeUserLookupError
MissTarget(r) ==
    LET id == req[r].input.id
    IN  /\ At(r, "load")
        /\ TakesId(req[r].input.op)
        /\ \/ id = BadId /\ Answer(r, 400)
           \/ id # BadId /\ ~Holds(users, id) /\ Answer(r, 404)

LoadedForUpdate(r) ==
    /\ At(r, "load")
    /\ req[r].input.op \in {"users.update", "users.password.update"}
    /\ req[r].input.id \in User
    /\ Holds(users, req[r].input.id)

RefuseUpdate(r) ==
    /\ LoadedForUpdate(r)
    /\ ~UpdateIsValid(req[r], users[req[r].input.id])
    /\ Answer(r, 400)

\* The row as it is now is read and changed in memory; it is written later.
PrepareUpdate(r) ==
    LET old == users[req[r].input.id]
    IN  /\ LoadedForUpdate(r)
        /\ UpdateIsValid(req[r], old)
        /\ req' = [req EXCEPT ![r].pc = "store", ![r].row = UpdatedRow(old, req[r].input)]
        /\ UNCHANGED <<users, auditLog, tokens, history>>

\* INSERT finds the id free, UPDATE ... WHERE id = $1 finds its row, and the
\* e-mails stay unique.
Writable(r) ==
    /\ Holds(users, Target(r)) <=> req[r].input.op # "users.create"
    /\ ~EmailTaken(users, Target(r), req[r].row.email)

\* The write takes effect; the call may still return an error.
CommitUser(r) ==
    /\ At(r, "store")
    /\ Writable(r)
    /\ users' = PutRow(users, Target(r), req[r].row)
    /\ \/ req' = [req EXCEPT ![r].pc = "audit", ![r].row = Absent,
                             ![r].subject = Target(r),
                             ![r].status = SuccessOf(req[r].input.op)]
       \/ /\ StoreMayFail
          /\ req' = [req EXCEPT ![r].pc = "done", ![r].row = Absent, ![r].status = 500]
    /\ applied' = [applied EXCEPT ![r] = TRUE]
    /\ stale' = [q \in Req |-> \/ stale[q]
                               \/ q # r /\ At(q, "store") /\ Target(q) = Target(r)]
    /\ NoteEntitled
    /\ UNCHANGED <<auditLog, tokens>>

\* Fault: the error of CreateUser and UpdateUser is dropped.
RefuseWriteIgnored(r) ==
    /\ At(r, "store")
    /\ ~Writable(r)
    /\ req' = [req EXCEPT ![r].pc = "audit", ![r].status = SuccessOf(req[r].input.op),
                         ![r].subject = Target(r)]
    /\ UNCHANGED <<users, auditLog, tokens, history>>

\* A unique violation is an error like any other; no row is ErrNotFound.
RefuseWrite(r) ==
    /\ At(r, "store")
    /\ ~Writable(r)
    /\ Answer(r, IF req[r].input.op # "users.create" /\ ~Holds(users, Target(r))
                 THEN 404 ELSE 500)

\* A store call fails and nothing happened.
StoreFails(r) ==
    /\ StoreMayFail
    /\ \/ At(r, "lookup") /\ ~CredentialsMissing(req[r].input)
       \/ At(r, "auth") /\ req[r].bearer \in tokens
       \/ At(r, "load") /\ req[r].input.op \in {"audit", "users.list"}
       \/ At(r, "load") /\ TakesId(req[r].input.op) /\ req[r].input.id # BadId
       \/ At(r, "store")
    /\ Answer(r, 500)

(* writeLoginAudit and writeUserMutationAudit *)

\* Fault: the target is recorded as the actor.
AuditEventOfTarget(r) ==
    LET h == req[r]
        login == h.input.op = "login"
    IN  [action   |-> IF ~login THEN h.input.op
                      ELSE IF h.status = 200 THEN "auth.login.success"
                      ELSE "auth.login.failure",
         actor    |-> h.subject,
         resource |-> h.subject,
         by       |-> r]

\* "by" is the request whose handler wrote the event; it is not a column.
AuditEvent(r) ==
    LET h == req[r]
        login == h.input.op = "login"
    IN  [action   |-> IF ~login THEN h.input.op
                      ELSE IF h.status = 200 THEN "auth.login.success"
                      ELSE "auth.login.failure",
         actor    |-> IF login THEN h.subject ELSE h.bearer.sub,
         resource |-> h.subject,
         by       |-> r]

\* Fault: the branch for disabled accounts answers without an event.
WriteAuditUnlessDisabled(r) ==
    /\ At(r, "audit")
    /\ auditLog' = IF req[r].status = 403 THEN auditLog
                   ELSE Append(auditLog, AuditEvent(r))
    /\ Goto(r, "reply")
    /\ UNCHANGED <<users, tokens, history>>

WriteAudit(r) ==
    /\ At(r, "audit")
    /\ auditLog' = Append(auditLog, AuditEvent(r))
    /\ Goto(r, "reply")
    /\ UNCHANGED <<users, tokens, history>>

\* The error of WriteAudit is dropped.
LoseAudit(r) ==
    /\ StoreMayFail
    /\ At(r, "audit")
    /\ Goto(r, "reply")
    /\ UNCHANGED <<users, auditLog, tokens, history>>

\* The response; a successful login hands the token out.
Reply(r) ==
    /\ At(r, "reply")
    /\ req' = [req EXCEPT ![r].pc = "done", ![r].row = Absent]
    /\ tokens' = IF req[r].input.op = "login" /\ req[r].status = 200
                 THEN tokens \union {[sub |-> req[r].subject, role |-> req[r].row.role]}
                 ELSE tokens
    /\ UNCHANGED <<users, auditLog, history>>

-----------------------------------------------------------------------------
Handle(r) ==
    \/ LoginBadBody(r) \/ LoginLookup(r)
    \/ RejectToken(r) \/ RejectUser(r) \/ Admit(r)
    \/ AnswerRead(r) \/ MissTarget(r)
    \/ RefuseCreate(r) \/ PrepareCreate(r)
    \/ RefuseUpdate(r) \/ PrepareUpdate(r)
    \/ CommitUser(r) \/ RefuseWrite(r) \/ StoreFails(r)
    \/ WriteAudit(r) \/ LoseAudit(r) \/ Reply(r)

\* A token's time to live runs out.
Expire(t) ==
    /\ t \in tokens
    /\ tokens' = tokens \ {t}
    /\ UNCHANGED <<users, auditLog, req, history>>

\* The process dies; the tables and the tokens outlive it.
Crash ==
    /\ \E r \in Req : ~Over(req[r])
    /\ req' = [r \in Req |-> IF Over(req[r]) THEN req[r]
                             ELSE [req[r] EXCEPT !.pc = "gone", !.row = Absent]]
    /\ UNCHANGED <<users, auditLog, tokens, history>>

Next ==
    \/ \E r \in Req : Arrive(r) \/ Handle(r)
    \/ \E t \in Token : Expire(t)
    \/ Crash

Spec == Init /\ [][Next]_vars

-----------------------------------------------------------------------------
(* Safety.                                                                 *)

\* Every variable stays in its set.  The rows are the point: no path through
\* validation stores a blank or untrimmed text, or a role the code does not know.
TypeOK ==
    /\ users \in Table
    /\ auditLog \in Seq(Event)
    /\ tokens \subseteq Token
    /\ req \in [Req -> Handler]
    /\ applied \in [Req -> BOOLEAN]
    /\ entitled \in [Req -> BOOLEAN]
    /\ stale \in [Req -> BOOLEAN]

Succeeded(r) == At(r, "done") /\ req[r].status \in Success

\* A request has an effect, or is answered with success, only if its account
\* was enabled and had the route's role at some instant between the request's
\* arrival and its end.  A token alone, its role claim, or credentials that
\* were right before the request came are not enough.
EffectNeedsEntitlement ==
    \A r \in Req : applied[r] \/ Succeeded(r) => entitled[r]

EventsBy(r) == {n \in DOMAIN auditLog : auditLog[n].by = r}

\* The status a user mutation is answered with tells its effect: success means
\* the table was written, 4xx means nothing was done and nothing recorded.
\* Only 500 leaves the client in doubt.
StatusTellsEffect ==
    \A r \in Req : At(r, "done") /\ req[r].input.op \in Mutation =>
        /\ Succeeded(r) => applied[r] /\ req[r].status = SuccessOf(req[r].input.op)
        /\ req[r].status \in Refusal => ~applied[r] /\ EventsBy(r) = {}

\* Handlers that are past WriteAudit, or will not come to it.
Behind == {"reply", "done", "gone"}

IsTrue(e, h, isApplied, isEntitled) ==
    /\ h.pc \in Behind
    /\ e.action \in Mutation =>
         /\ isApplied /\ isEntitled /\ e.action = h.input.op
         /\ e.actor = h.bearer.sub /\ e.resource = TargetOf(e.by, h)
    /\ e.action = "auth.login.success" => h.status \in Success /\ isEntitled
    /\ e.action = "auth.login.failure" => h.status \in Refusal

\* The audit trail never lies: an event about a user mutation stands for a
\* write that took effect, with its real actor and target; a login event tells
\* the answer given; and no request is recorded twice.
AuditIsTruthful ==
    \A n \in DOMAIN auditLog :
        LET e == auditLog[n]
        IN  IsTrue(e, req[e.by], applied[e.by], entitled[e.by]) /\ EventsBy(e.by) = {n}

\* "login success/failure; user CRUD": every answered login attempt and every
\* acknowledged user mutation has its audit event.
AuditComplete ==
    \A r \in Req :
        /\ At(r, "done")
        /\ \/ req[r].input.op \in Mutation /\ Succeeded(r)
           \/ req[r].input.op = "login" /\ req[r].status \in {200, 401, 403}
        => EventsBy(r) # {}

(* What makes the above inductive. *)

\* Where a handler is tells what it is handling and what its locals hold.
HandlerOK(r, h) ==
    /\ h.pc # "idle" => h.input \in Requests
    /\ h.pc = "lookup" => h.input.op = "login"
    /\ h.pc \in {"auth", "load", "store"} => h.input.op # "login"
    /\ h.pc \in {"load", "store"} => h.bearer \in Token
    /\ h.pc = "store" => h.row \in Row /\ h.input.op \in Mutation /\ TargetOf(r, h) \in User
    /\ h.pc \in {"audit", "reply"} =>
         \/ h.input.op = "login" /\ h.status \in {401, 403}
         \/ h.input.op = "login" /\ h.status = 200 /\ h.subject \in User /\ h.row \in Row
         \/ /\ h.input.op \in Mutation /\ h.bearer \in Token
            /\ h.status = SuccessOf(h.input.op)
            /\ h.subject = TargetOf(r, h) /\ h.subject \in User

ControlOK == \A r \in Req : HandlerOK(r, req[r])

\* A handler past its checks is entitled, and applied goes with its progress.
RightfulOK(table, h, isEntitled, isApplied) ==
    /\ Entitled(table, h) => isEntitled
    /\ h.pc \in {"load", "store"} => isEntitled
    /\ h.pc \in {"audit", "reply", "done"} /\ h.status \in Success => isEntitled
    /\ h.pc \in {"idle", "lookup", "auth", "load", "store"} => ~isApplied
    /\ h.pc \in {"audit", "reply"} /\ h.input.op \in Mutation => isApplied
    /\ isApplied => /\ isEntitled /\ h.input.op \in Mutation
                    /\ h.pc = "done" => h.status \in Success \union {500}

EntitlementOK == \A r \in Req : RightfulOK(users, req[r], entitled[r], applied[r])

\* Events come from handlers past WriteAudit that were not answered 4xx or 500
\* by a mutation, one from each.
TrailOK ==
    /\ \A r \in Req : req[r].pc \notin Behind => EventsBy(r) = {}
    /\ StatusTellsEffect
    /\ AuditIsTruthful

\* A handler that was not overtaken will write the row of the table, changed as
\* its body says and as the guards allow.
IsFresh(table, id, h) ==
    /\ Holds(table, id)
    /\ UpdateIsValid(h, table[id])
    /\ h.row = UpdatedRow(table[id], h.input)

FreshLoad ==
    \A r \in Req : At(r, "store") /\ req[r].input.op # "users.create" /\ ~stale[r]
                    => IsFresh(users, Target(r), req[r])

\* The inductive invariant behind the safety properties of the request handlers.
IndInv == TypeOK /\ ControlOK /\ EntitlementOK /\ TrailOK /\ FreshLoad

-----------------------------------------------------------------------------
(* What a step may never do.                                               *)

Commits(r) == ~applied[r] /\ applied'[r]

Updates(r) == Commits(r) /\ req[r].input.op # "users.create"

Asked(i, column) ==
    IF column = "hash" THEN i.op = "users.password.update"
    ELSE i.op = "users.update" /\ i[column] # Nil

Columns == {"name", "email", "role", "enabled", "hash"}

\* UpdateUser writes the whole row back.  As long as no other request wrote the
\* row in between, the write changes no column the request did not ask for.
OnlyAskedColumns ==
    [][\A r \in Req : Updates(r) /\ ~stale[r] =>
         \A column \in Columns :
            users'[Target(r)][column] # users[Target(r)][column]
                => Asked(req[r].input, column)]_vars

\* The guard on the own account works but for a race: an administrator whose
\* write flips the own enabled column was overtaken by another write to it.
SelfToggleNeedsRace ==
    [][\A r \in Req : Updates(r) /\ Target(r) = req[r].bearer.sub
                          /\ users'[Target(r)].enabled # users[Target(r)].enabled
                        => stale[r]]_vars

IsEnabled(table, u) == Holds(table, u) /\ table[u].enabled

\* The last enabled account can only be switched off by a race: by a write that
\* was overtaken, or by an administrator who was disabled after being admitted.
LockoutNeedsRace ==
    [][\A r \in Req :
         /\ Commits(r)
         /\ \E u \in User : IsEnabled(users, u)
         /\ ~\E u \in User : IsEnabled(users', u)
         => stale[r] \/ ~IsEnabled(users, req[r].bearer.sub)]_vars

\* "cannot change own enabled": no write of an administrator flips the enabled
\* column of the own account.  The code does not ensure it.
NoSelfToggle ==
    [][\A r \in Req : Updates(r) /\ Target(r) = req[r].bearer.sub =>
         users'[Target(r)].enabled = users[Target(r)].enabled]_vars
=============================================================================

# gfireui-backend in TLA+

This directory specifies gfireui-backend, the Go backend of the GFire console:
accounts, login, role checks, user administration, the audit trail, the proxy to
GFire, the operations summary, the first account, and the life of the server
process. The modules are model-checked with TLC on small instances, and most of
their safety properties, with the refinement of the handlers to an abstract account
table, are proved for all instances with TLAPS.

    tlc -config console_all.cfg MCConsoleAPI.tla      # one run
    tlapm ConsoleAPI_proofs.tla                       # one module's proofs

`PROJECT.json` lists components, runs, the lines each definition models, the
mutants that each property is known to catch, findings, hazards and theorems.

## The system

One process serves HTTP and owns nothing but a connection pool: all lasting
state is in two PostgreSQL tables. Every request is a goroutine. There is no
lock, no cache, and no transaction that spans two statements, so what is hard
about the program is what happens between its calls to the store and to GFire.

| Component | State | Operations | Interacts with |
| --- | --- | --- | --- |
| User table (`internal/store/postgres`, `migrations`) | `users`: unique id and e-mail | get by id / e-mail, list, insert, whole-row update; never delete | everyone, through one statement at a time |
| Login and tokens (`handlers_auth.go`, `internal/auth`) | none; tokens are in clients' hands | login, me | user table, audit trail |
| Middleware and roles (`middleware_*.go`, `server.go`) | none; puts the account it read into the request's context | authenticate, require roles | user table |
| User administration (`handlers_users.go`) | a loaded row per request | list, get, create, patch, password | user table, audit trail |
| Audit trail (`store/postgres/audit.go`, `handlers_audit.go`) | `audit_events`, append only | write (errors dropped), list a page | user table (foreign key) |
| GFire proxy (`proxy_gfire.go`, `internal/gfire`) | none | check role, forward, copy the answer, audit | GFire, audit trail |
| Operations summary, GFire decoding (`handlers_ops.go`, `internal/gfire`) | none | thirteen reads from GFire, errors dropped | GFire |
| Bootstrap and `user create` (`internal/bootstrap`, `main.go`) | none | list, create the first administrator; create any user | user table, racing with other processes |
| Lifecycle (`main.go`, `internal/app`) | the listener, the pool | open, bootstrap, listen, shut down in 10 s, close | all |
| Configuration, CORS | read once | read, split, answer preflights | all |
| Version, banner | none | log lines | |

What makes each correct, and what is hard about it:

* **User table.** Rows are well-formed on every way in; no two share an address.
  Nobody looks before writing, so it all rests on the unique index.
* **Login, middleware.** Nothing happens, and nothing succeeds, without an enabled
  account of the right role. The account is read once and the effect comes later;
  tokens outlive role changes and disabling.
* **User administration.** PATCH and the password endpoint load a row, change it in
  memory and write all of it back. Overlapping updates can undo each other. Its
  guard against switching off the own account looks at the loaded copy.
* **Audit trail.** What it says is true; ideally all that happens is in it. Events
  are written after the fact, under the request's context, errors dropped. It is
  read by offset from the newest event while events come in, and its order is that
  of the beginnings of transactions and not of their ends.
* **Proxy.** Only the allowed methods get through, and once unless GFire redirects;
  answer and event agree with each other and with what GFire did. GFire may be slow,
  silent, execute a request after the proxy gave up, or redirect it: the HTTP client is
  Go's default one, which sends a mutation without a body again after a 307, and reads
  with GET after a 303. The browser may leave at any time. Paths are unescaped twice, and
  GFire's headers meet those of the CORS wrapper.
* **Operations summary.** Its numbers belong to different instants, come in forms
  that nobody fixed, and are zero where a call failed or where an empty list or a null
  stands before the number.
* **Bootstrap.** One administrator, also when replicas start together, crash and
  restart. A process that loses the race ends, and must come up when somebody starts it
  again.
* **Lifecycle.** A signal ends the process but cuts no request off that ends within
  ten seconds. The signal may come at any time, before the listener is bound and
  while it fails.

`PROJECT.json` ("hazards") has the same, line by line.

## Modules

| Module | Models | Extends |
| --- | --- | --- |
| `UserStore` | the table and the row type; texts, `strings.TrimSpace`, roles | |
| `ConsoleAPI` | login, middleware, roles, user administration, audit events | `UserStore` |
| `Accounts` | abstract: what the console promises about the table | `UserStore` |
| `ConsoleRefinement` | the mapping from `ConsoleAPI` to `Accounts` | `ConsoleAPI`, instance of `Accounts` |
| `Bootstrap` | `serve` up to the end of the bootstrap, `user create` | `UserStore` |
| `Serve` | the rest of `runServe`: client, listener, signals, shutdown, pool | `Bootstrap` |
| `GFireProxy` | the proxy, the client's `Do`, GFire as its environment | |
| `AuditPages` | paging through the trail while it is written | |
| `GFireDecode` | the decoders of GFire's answers, over abstract JSON values | |
| `OpsSummary` | the summary, call by call, while GFire changes | `GFireDecode` |
| `HttpExchange` | CORS, the path sent to GFire, the headers that come back | |
| `*_proofs` | theorems about the module of that name, and about `Bootstrap` in `Serve_proofs` | it, `TLAPS` |
| `MC*` | constants for TLC | the module of that name |

Operators with the comment "Fault" are not part of the specification. Each is the
definition below it with a plausible bug, kept to show that a property notices.

### ConsoleAPI

`users`, `auditLog` are the tables; `tokens` are the tokens that still verify;
`req[r]` is the goroutine of request r: where it is (`pc`), its body and path id,
the token it came with, the row it loaded or built, the subject of its event and
the status. `applied`, `entitled` and `stale` are history: the request's write took
effect; it was rightful at some instant of its run; another request wrote the row
it had loaded.

An action is one store call with the computation around it:

| Code | Actions |
| --- | --- |
| `handleLogin` | `LoginBadBody`, `LoginLookup`, `WriteAudit`/`LoseAudit`, `Reply` |
| `authMiddleware`, `RequireRoles` | `RejectToken`, `RejectUser`, `Admit` |
| `handleMe`, `handleAudit`, `handleUsersList`, `handleUserGet` | `AnswerRead`, `MissTarget` |
| `handleUsersCreate` | `RefuseCreate`, `PrepareCreate`, `CommitUser`, `RefuseWrite`, `WriteAudit`/`LoseAudit`, `Reply` |
| `handleUserPatch`, `handleUserPassword` | `MissTarget`, `RefuseUpdate`, `PrepareUpdate`, then as for create |
| any store call returning an error | `StoreFails`; `CommitUser` also has the outcome "written, and an error returned" |
| token expiry; the process dying | `Expire`, `Crash` |

Texts are opaque and trimming is a function that the constants give; a hash is the
password it accepts. A role in a body stands for any text that is that role once
trimmed. First and last name are one field, being treated alike everywhere. A body
that is no JSON is one with every field absent, which every handler refuses with
the same 400 at the same place. Events carry the slot that wrote them, not a column
of the table, so that properties can speak of a request's event.

### Accounts and ConsoleRefinement

`Accounts` knows authors and the table. An author's change is drafted from the table
at one instant, takes effect whole at a later one or never, and is acknowledged only if
it took effect and refused only if it never does; a draft is a new account, a profile
without the password, or a password without the profile. It says plainly what the code
does not promise: drafts are not drafted again, so one may overwrite another.
`ConsoleRefinement` maps a handler of a mutation to a phase by its `pc` and status
(`store` is drafted; `audit` and `reply` are applied; `done` is acknowledged, refused,
or, with a 500, doubtful). Logins, reads and tokens are stuttering.

### Bootstrap and Serve

Processes share the table of `UserStore`. A server goes `off`, `open`, `list`, `create`,
`ready`; it fails on an incomplete configuration, on any store error and on a unique
violation, and may be started again. `signalled` has the servers whose context a signal
has cancelled: their next store call fails. `Serve` adds the two goroutines of `runServe`
and those of the requests:

| Code | Actions |
| --- | --- |
| `BootstrapAdministrator`, `CreateUser` | `StartServer`, `OpenServer`, `ListUsers`, `CommitUser`, `RefuseUser`, `CallFails` |
| `runUserCreate` | `StartCommand`, `OpenCommand`, then as above |
| `gfire.NewClient` in `runServe` | `Wire`, `WireFails` |
| the listener's goroutine | `Announce`, `Bind`, `AcceptFails` |
| `select` on `ctx.Done` and `errCh`, `Shutdown`, `store.Close` | `TakeSignal`, `Drain`, `DrainTimesOut`, `TakeError`, `End` |
| handlers, as seen by the pool | `Accept`, `Query`, `QueryReturns`, `Finish` |
| signals and crashes | `ServerSignal`, `ServerCrash` |

net/http, pgxpool and the operating system are external: `Shutdown` lets nobody in and
waits for handlers, `pool.Close` waits for calls that hold a connection and fails those that
come later. `excuse` is history: why this run of a server may cut requests off.
Every step of `Serve` is one of `Bootstrap` or leaves its variables alone, which is how the
proofs about `Bootstrap` carry over.

### GFireProxy

`call[r]` is the handler; `sent[r]` the method with which `Do` sent last, and how often it
sent; `fate[r]` what became of what it sent last, which GFire decides at any time, also after
`Do` failed (`GFire`). `main.go:91` gives the client no `http.Client`, so `client.go:46` takes
`http.DefaultClient`, which follows redirects: `Follow` sends again, with GET after a 301, 302
or 303 (`"seeOther"`; a HEAD stays one), with the same method after a 307 or 308
(`"temporary"`), but then only a request without a body, because the browser's can be read
once. `Receive` takes whatever answer comes at the end, `DoFails` ends also too many redirects.
`executions` is history: how often GFire executed the browser's own method, which it may do
while it redirects.

So the code does not give "at most once", nor "a 200 means that it was done". `ToldIsTrue`
says what it does give: a request with a body is executed once at most, any other once for each
time that GFire asked for it; a 200 is that of the browser's method unless `Do` was sent
elsewhere with GET; and a refusal by the console means that nothing was done. The event has the
status of the answer, whichever it is (`AuditTellsOutcome`).

`Cancel` is a browser closing its connection; it makes `GiveUp` possible, and store calls may
fail after it. `accounts` change up to `MaxChanges` times, standing for the administrators'
requests of `ConsoleAPI`. 200 and 409 stand for what GFire answers when it executes
and when it refuses. `told` is the status the handler wrote, whether or not the
browser was still there.

### AuditPages

An event is begun (its `created_at` is the time then), and becomes visible later or is
lost. A reader asks for page after page of one limit until one comes back short; `Page`
is the SELECT with its two keys, `LimitIsValid` the refusals of `handleAudit`, and the limit
that is not given is `DefaultLimit`. `had` is history: what was visible when it began.

### GFireDecode and OpsSummary

A JSON value is a type and a number: how long a list is, how great a number. The
decoders are translated branch by branch: which fields make the whole body a refused one, the
order of the lists, the single queue, the numbers. `OpsSummary` makes its calls in the order
of the code. `QueueReplies`, `JobReplies` and `NamedReplies` are bodies that say the number n:
an array, a list under any of its names, a number under any, and both, where the list is empty,
null or of another type. A call that fails leaves its number at zero. `was` is history: the
numbers that were true since the request began.

The decoders differ: for jobs an empty list or a null is passed over, but for servers and
definitions it is the answer, so `{"servers": null, "total": 3}` counts as none, without an
error. Such a body (`HidingReplies`) is a call of its own, `CallHidden`, recorded in `hidden`;
`NumbersWereTrue` allows a zero there and nowhere else.

### HttpExchange

One exchange from `withCORS` to `copyProxyHeaders`, on data: paths are sequences of
characters, a header maps names to sequences of values. `ExchangeAssumption` says what
the code and net/http grant: a base path is empty or begins with a slash (`NewClient`
insists on a host), and a raw query holds no space, but may hold a "#". `GFireProxy` has the
same handler with its failures and without its data.

The mux gives the handler an unescaped path, and `resolveURL` parses it once more. `Parses`,
`RawPath` and `Unescape` are what `url.Parse` does: it cuts fragment and query off, refuses an
escape that is not one, and undoes the others. A path that was written with `%2541` therefore
reaches GFire as the one written with `A`, one with `%253F` has its "?" in the path, and one
with `%3F` gets a query; `..` from `%2e%2e` stays in the path, which GFire may resolve to what
is above the base path. `PathKept` is about what the code does promise: a path of letters and
slashes arrives as it is, and anything else comes behind the base path, as segments go.

## Runs

| Run | Instance | States | Shows |
| --- | --- | --- | --- |
| `console_all` | 2 requests out of 28, 3 tokens (one of an unknown account), failures, expiry, crashes | 2.5 M | `TypeOK`, `EffectNeedsEntitlement`, `StatusTellsEffect`, `AuditIsTruthful`, `OnlyAskedColumns`, `KeepsPromise` |
| `console_race` | 3 updates by two administrators, symmetric | 880 k | `SelfToggleNeedsRace`, `LockoutNeedsRace` |
| `console_trail` | 2 requests, one for each way through the handlers, store does not fail | 340 k | `AuditComplete` |
| `serve` | 3 servers (two replicas that spell one address differently, one of them with a malformed `gfire.base_url`; one without database on the first one's port), 1 command, 2 mishaps, fair | 150 k | `ServeTypeOK`, `ReadyIsSeeded`, `OneAdminPerAddress`, `CommandIsHonest`, `CutOffNeedsExcuse`, `SignalEnds`, `BrokenEnds`, `StartComesUp` |
| `proxy` | 2 requests of 1 user (POST or OPTIONS; DELETE or HEAD), 3 rows, 1 change, 1 request redirected, 2 sends, failures, fair | 2.0 M | `TypeOK`, `EffectNeedsRole`, `ToldIsTrue`, `AuditTellsOutcome`, `AuditLossNeedsCause`, `GivingUpFrees` |
| `audit_pages` | 3 events there, 2 that come, times 0 to 2, limits -1 to 3, none, and no number | 10 k | `TypeOK`, `NothingMissed`, `RepeatsNeedArrivals`, `ReadingEnds` |
| `ops_summary` | 3 of 9 job states, at most 2 of a kind, pages of 1, 2 moves | 1.1 M | `TypeOK`, `NumbersWereTrue`, `SumIsClose`, `GivingUpFrees` |
| `http_exchange` | 4 settings, 3 origins, 5 base paths, 21 paths, 6 queries, 16 answers | 383 k | `TypeOK`, `EndToEnd`, `AllowedOrigin`, `PathKept` |

Four runs end in a counterexample: the code differs from what a document or a comment
says.

| Run | Says | What happens |
| --- | --- | --- |
| `console_self_toggle` | SPECIFICATIONS.md:17 | A renames the own account while B disables A: A's write brings `enabled` back |
| `serve_two_addresses` | SPECIFICATIONS.md:42 | two servers with different addresses both bootstrap |
| `serve_announced` | internal/app/startup.go:50 | "listening" is logged for an address that another process holds |
| `ops_capped` | internal/gfire/client.go:107 | GFire reports the total beside a full page, and the page is counted |

The platform design (line 129) asks for all mutations in the trail. `AuditComplete` and
`AuditLossNeedsCause` say how far the code goes: a failing store, or a browser that leaves,
are the causes of an event that is missing.

**Bounds.** Handlers meet only in the table, and a handler reads it at most twice and
writes it once. So two requests show every way in which one can overtake another between
two of its calls, and the third request in `console_race` adds that the overtaking one
was itself overtaken or disabled. Two administrators are what it takes for "the last
enabled account"; three are beyond need, because every property is about one row, or
about one row and the request's author. The texts include a padded and a blank one for
every check on them, and two creations compete for one address in the padded and the
plain spelling. In `serve` two servers race for the account and two for the port; two
mishaps are a signal with a failure, or a crash of either side of an insert; one handler
is enough, as handlers of one process differ in nothing that properties see. An
incomplete configuration, which only ends the server, occurs in no run:
`AccountsAreAskedFor` is proved for every configuration. In `proxy` one change of an
account between three rows (one that may do everything, one that may only read, one that is
disabled) puts a demotion, promotion, disabling or enabling at every point of a request. The
methods of the two requests have between them every combination of what the code asks of a
method: allowed, reading, mutating, with a body. `MaxSends` is 2 for 10: the first send and
one more show every difference that a redirect makes, and a third would be as the second;
`MaxRedirected` lets one of the two requests have it. Two requests show that neither takes
the other's event; they are of one user, since a handler never looks at another account. In `audit_pages` two
arrivals shift a page of one row by more than its length, and three times make ties,
order and late commits. In `ops_summary` two moves take a job past both calls or none;
three states stand for nine because the code treats them in a loop. `PageSize` is 1 for
1000, so that a full page occurs. `CHECK_DEADLOCK FALSE` is set where every slot serves
one request and the behaviour ends; the runs of `Serve` never deadlock, as a server that is
down can be started again.

**Symmetry.** In `console_race` no request creates an account, and the slots differ
only in the id that a creation would draw. The run checks no liveness.

**Fairness.** `ConsoleAPI` is checked for safety only. `Serve`: goroutines run, store calls
return (pgx gives up when the context is cancelled), and ten seconds pass. A server may be
started again but need not be: neither the code nor `docker-compose.yml`, whose backend has
no `restart`, sees to it. So `StartComesUp` begins with a server that is started and asks
that it serve, unless its address is taken, something goes wrong, or it loses the race for
the first account; in that case the table is no longer empty, and the next start does
not meet the race. Nothing makes a handler finish; `SignalEnds` holds all the same, through
the ten seconds, and `BrokenEnds` without them, as a broken listener does not wait.
`GFireProxy` and `OpsSummary`: weak fairness of the process's own steps and of giving up
once the browser is gone; GFire's answers are not fair, because the client has no timeout.
`AuditPages`: a reader that asks is answered, and asks on.

## Proofs

All theorems hold for every value of the constants that satisfies the named assumptions:
`TrimAssumption` and `AbsentAssumption` (trimming is idempotent and keeps the empty text; the
sentinel is no row), and one assumption for the constants of each module
(`ConsoleAssumption`, `BootstrapAssumption`, `ServeAssumption`, `ExchangeAssumption`, ...:
initial addresses are unique, ids that are drawn are fresh, sets are of the right kind).

| Module | Theorem | Statement |
| --- | --- | --- |
| `ConsoleAPI_proofs` | `TypeCorrect` | `Spec => []TypeOK` |
| | `EffectsAreRightful` | `Spec => []EffectNeedsEntitlement` |
| | `StatusIsHonest` | `Spec => []StatusTellsEffect` |
| | `TrailIsTruthful` | `Spec => []AuditIsTruthful` |
| | `UpdatesOnlyWhatIsAsked` | `Spec => OnlyAskedColumns` |
| | `TrailIsComplete` | `Spec => []AuditComplete`, with `StoreMayFail` FALSE |
| | `GapsAreLostWrites` | `Spec` without a `LoseAudit` `=> []AuditComplete` |
| | `SelfToggleTakesRace`, `LockoutTakesRace` | `Spec => SelfToggleNeedsRace`, `Spec => LockoutNeedsRace` |
| `ConsoleRefinement_proofs` | `HandlersKeepPromise` | `Spec => KeepsPromise`: `ConsoleAPI` implements `Accounts` |
| `Serve_proofs` | `BootTypeCorrect` | `Spec => []TypeOK`, of `Bootstrap`, as the four that follow |
| | `ReadyServersAreSeeded` | `Spec => []ReadyIsSeeded` |
| | `ReplicasCreateOne` | `Spec => []OneAdminPerAddress` |
| | `AccountsAreAskedFor` | `Spec => []OnlyAsConfigured` |
| | `CommandsAreHonest` | `Spec => []CommandIsHonest` |
| | `ServersAreSeeded` | `ServeSpec => []ReadyIsSeeded`, as every step of `Serve` is one of `Bootstrap` (`ServeRefinesBootstrap`) |
| | `ServeTypeCorrect` | `ServeSpec => []ServeTypeOK` |
| | `CutOffsAreExcused` | `ServeSpec => []CutOffNeedsExcuse` |
| `GFireProxy_proofs` | `ProxyTypeCorrect` | `Spec => []TypeOK` |
| | `EffectsAreEntitled` | `Spec => []EffectNeedsRole` |
| | `AnswersAreTrue` | `Spec => []ToldIsTrue` |
| | `EventsAgree` | `Spec => []AuditTellsOutcome` |
| | `LossesAreExplained` | `Spec => []AuditLossNeedsCause` |
| `AuditPages_proofs` | `PagesTypeCorrect` | `Spec => []TypeOK` |
| | `NothingIsMissed` | `Spec => []NothingMissed` |
| | `RepetitionsAreArrivals` | `Spec => []RepeatsNeedArrivals` |
| `OpsSummary_proofs` | `SummaryTypeCorrect` | `Spec => []TypeOK` |
| | `ToldNumbersWereTrue` | `Spec => []NumbersWereTrue` |
| | `JobsAreClose` | `Spec => []SumIsClose` |
| `HttpExchange_proofs` | `ExchangeTypeCorrect` | `Spec => []TypeOK` |
| | `HeadersGoEndToEnd` | `Spec => []EndToEnd` |
| | `OriginsAreListed` | `Spec => []AllowedOrigin` |
| | `PathsAreKept` | `Spec => []PathKept` |

Few of these are inductive alone. The invariants they come from:

* **`IndInv`** (`ConsoleAPI`). `ControlOK` says what a handler's position tells about its
  locals: whoever is before a store call has a validated row, an input of the right kind and
  a verified token. With `TypeOK` it is inductive (`TInvStep`), and all else rests on it.
  `EntitlementOK`: whoever is past the middleware has been entitled, and `applied` goes with
  the position. `FreshLoad`: a handler before its write that nobody overtook holds exactly
  the row of the table with its changes applied, and passed the guards on that row; the three
  statements about single writes follow from it. `TrailOK`: a handler that has not passed
  `WriteAudit` has no event, and the events that exist are true. `HandlerMoves` and `StepKinds`
  factor the seventeen steps of a handler into moves that leave the table alone and
  `CommitUser`, so that the later invariants look at five kinds of step. `Recorded` is the
  other half of the trail: a handler past its store call that owes an event has it, unless
  `LoseAudit` was taken.
* **Refinement to `Accounts`.** Under `TypeOK` and `ControlOK`, every step of a handler is a
  step of its author or none (`MoveIsPromised`, `CommitIsPromised`, `ArriveIsPromised`), and a
  crash abandons all authors that wait (`CrashIsPromised`). `PreparedFits` is the part that
  could be wrong: what a handler is about to write is a draft of the table as it is then.
* **`BInv`** (`Bootstrap`). Who comes to `CreateUser` has passed its validation (`ValidatedOK`),
  and the row of an id is that of the one process that drew it, from its insert on
  (`WrittenOK`). `OneAdminPerAddress` follows from it and the unique addresses; the look at the
  table before the insert is not needed for it. `Serve` inherits it (`ServeKeepsBInv`).
* **`SInv`** (`Serve`). Which pairs of places the two goroutines can be in, and that the pool is
  closed under a handler only with an excuse.
* **`PInv`** (`GFireProxy`). Where a handler can be for what GFire has done with its request
  (`Fits`), why it was let through (`Accounted`), which handlers have an event (`Traced`) and
  that events agree with them (`Recorded`). `Counted` is what redirects need: `Owed`, what GFire
  may still do with a request on its way, added to what it has done, is never more than what was
  sent, and one for a request with a body, which after a redirect goes on as GET only.
* **`PInv`** (`AuditPages`). The order of `Newer` is total on events, so a row has a place in
  every listing, its `Rank`, the number of visible rows down to it. Rows are never taken away, so
  ranks only grow. What makes `NothingMissed` inductive: a row that was there at the beginning,
  and whose rank is not beyond what the reader has got so far, is among it (`SoFar`). A page takes
  the ranks that follow (`Listing`, `PageIsNext`, `PageAdds`), an arrival moves ranks up
  (`RowsOnlyMoveDown`). That ids are totally ordered, as UUIDs are, is part of `PagesAssumption`.
* **`OInv`** (`OpsSummary`). A number whose call is behind us is one that may be told, and the
  others are still zero. For the sum, `Mixed` has the numbers told so far and, for states yet to be
  asked, those that GFire has at this moment; it stays within `moves` of GFire's own sum, a call
  that succeeds does not change it, and at the end it is the answer. The lemmas about the decoders
  (`JobsCounted`, `NamedCounted`, `QueueFound`) say what each reads from the bodies that are
  modelled, and `HiddenIsZero` that a hidden number is read as zero.
* **`HInv`** (`HttpExchange`). The header of the response is one of three that can be computed
  from the request, the setting and GFire's answer (`Composed`); `Preflight` says which OPTIONS
  are answered before the handler.
* **`PathInv`** (`HttpExchange`). What was sent is what `Do` makes of the request, and nothing
  is sent, but a 502 answered, if `url.Parse` refuses it. The rest is
  about sequences of characters, of any length: where a cut falls (`TrimLeftAt`, `TrimRightAt`,
  `BeforeAt`), that segments are numbered from one on (`Nth`), that two paths joined by a slash
  have the segments of both, whatever slashes they end or begin with (`SegmentsJoin`,
  `SegmentsTrim`), that unescaping what is well escaped gives a path (`UnescapeIsPath`), and that
  a plain path comes out of `url.Parse` as it went in (`PlainIsParsed`). That minima exist comes from the well-founded order of the naturals.

Proved and not model-checked: `OnlyAsConfigured` of `Bootstrap`. Model-checked only: liveness
(`SignalEnds`, `BrokenEnds`, `StartComesUp`, `GivingUpFrees`, `ReadingEnds`), which is beyond
TLAPS as are `ENABLED` and induction over data. `AuditComplete` is proved, as it is checked, for
a store that does not fail, and
`GapsAreLostWrites` says for any store that nothing else makes a gap. No module declares a
`RECURSIVE` operator; the sum of `SumIsClose` is the cardinality of the set of jobs.

## Not modelled

* The clock of tokens: a token verifies until `Expire`, at any time. Its signature, argon2id
  and pgx are library code behind a yes or no.
* Timestamps of users, and the split of names into first and last.
* How viper merges file, environment and defaults.
* When net/http notices that a browser left. It does so only once the request's body has been
  read, so that a `Cancel` may come later than the browser's going, or not at all; it is free to
  do both here.
* The transport's compression: it asks for gzip of its own, and takes `Content-Encoding` and
  `Content-Length` away when it has unpacked an answer. `EndToEnd` is about what `Do` returns.
* A statement whose context is cancelled may take effect after pgx has returned its error. Here
  it takes effect before the error or never.
* Where a redirect leads: GFire may name another host, to which net/http does not send the
  token, and which then answers in its place.
* Bodies that the proxy passes, wording of errors, `/healthz`, log lines other than the moment
  of "listening", version constants, the banner, packaging.
* The last administrator's demotion, passwords trimmed in one place and not in another, and
  accounts of the command that forestall the bootstrap are reachable in the model; the
  repository does not say what is meant, so no property judges them.

What would come next: token lifetime against a clock, with the clock's step as a bound.

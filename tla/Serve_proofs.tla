---------------------------- MODULE Serve_proofs ----------------------------
(* Theorems about the first account and about the life of a server process,  *)
(* for any number of servers, commands and handlers, any configuration of    *)
(* each, and any number of failures and crashes: accounts come only out of   *)
(* the configuration, a server is a run of Bootstrap to the table, and its   *)
(* requests are cut off only for a reason.                                   *)
EXTENDS Serve, UserStore_proofs

-----------------------------------------------------------------------------
(* Bootstrap.                                                              *)

Place == {"off", "open", "list", "create", "ready", "succeeded", "failed"}

\* Who comes to CreateUser has passed its validation.
ValidatedOK ==
    /\ \A s \in Server : pc[s] \in {"list", "create"} => Missing(Config[s]) = {}
    /\ \A c \in Command : pc[c] = "create" => InputIsValid(Input[c])

\* An id is used by the process that drew it, once, and its row is never changed.
WrittenOK ==
    \A p \in Proc : /\ created[p] => users[NewId[p]] = NewRow(p) /\ NewRow(p) \in Row
                    /\ ~created[p] => users[NewId[p]] = Absent

\* The inductive invariant: what the processes are asked to write is well-formed, and
\* the history of the inserts is what the table shows.
BInv ==
    /\ TypeOK
    /\ UniqueEmails(users)
    /\ ValidatedOK
    /\ WrittenOK
    /\ ReadyIsSeeded
    /\ OnlyAsConfigured
    /\ \A c \in Command : pc[c] = "succeeded" => created[c]

-----------------------------------------------------------------------------
\* What passes the validation is a row.
LEMMA NewRowType ==
    ASSUME NEW p \in Proc, BInv, pc[p] = "create"
    PROVE  NewRow(p) \in Row
<1>1. CASE p \in Server
  <2>1. Missing(Config[p]) = {} /\ Config[p] \in AdminConfig
    BY <1>1, BootstrapAssumption DEF BInv, ValidatedOK
  <2>2. /\ Trim[Config[p].email] # Empty /\ Trim[Config[p].password] # Empty
        /\ Trim[Config[p].name] # Empty
    BY <2>1 DEF Missing, Fields
  <2>3. Trim[Config[p].email] \in Filled /\ Trim[Config[p].name] \in Filled
    BY <2>1, <2>2, TrimFills DEF AdminConfig
  <2>4. Config[p].password \in Text \ {Empty}
    BY <2>1, <2>2, TrimAssumption DEF AdminConfig
  <2> QED
    BY <1>1, <2>3, <2>4 DEF NewRow, BuildUser, Row, Role
<1>2. CASE p \notin Server
  <2>1. p \in Command /\ InputIsValid(Input[p]) /\ Input[p] \in UserInput
    BY <1>2, BootstrapAssumption DEF BInv, ValidatedOK, Proc
  <2>2. Trim[Input[p].email] \in Filled /\ Trim[Input[p].name] \in Filled
    BY <2>1, TrimFills DEF UserInput, InputIsValid
  <2>3. Input[p].password \in Text \ {Empty} /\ Input[p].role \in Role
    BY <2>1 DEF UserInput, InputIsValid
  <2> QED
    BY <1>2, <2>2, <2>3 DEF NewRow, BuildUser, Row
<1> QED
  BY <1>1, <1>2

\* Who comes to CreateUser was asked to.
LEMMA BInvAsked ==
    ASSUME NEW p \in Proc, BInv, pc[p] = "create"
    PROVE  Asked(p)
<1>1. CASE p \in Server
  <2>1. Missing(Config[p]) = {}
    BY <1>1 DEF BInv, ValidatedOK
  <2> QED
    BY <1>1, <2>1 DEF Asked, Missing
<1>2. CASE p \notin Server
  <2>1. InputIsValid(Input[p])
    BY <1>2 DEF BInv, ValidatedOK, Proc
  <2> QED
    BY <1>2, <2>1 DEF Asked, InputIsValid
<1> QED
  BY <1>1, <1>2

\* At the beginning nobody has come anywhere.
LEMMA BInvInit == Init => BInv
<1> SUFFICES ASSUME Init PROVE BInv
  OBVIOUS
<1>1. TypeOK
  BY BootstrapAssumption DEF Init, TypeOK
<1>2. UniqueEmails(users)
  BY BootstrapAssumption DEF Init
<1>3. \A p \in Proc : pc[p] = "off"
  BY DEF Init
<1>4. ValidatedOK /\ ReadyIsSeeded /\ OnlyAsConfigured /\ \A c \in Command : pc[c] = "succeeded" => created[c]
  BY <1>3 DEF Init, ValidatedOK, ReadyIsSeeded, OnlyAsConfigured, Proc
<1>5. WrittenOK
  BY BootstrapAssumption DEF Init, WrittenOK, Holds
<1> QED
  BY <1>1, <1>2, <1>4, <1>5 DEF BInv

\* What a process may come to without writing: the table must be as the place asks.
MayBeAt(p, where) ==
    /\ where \in Place
    /\ p \in Server /\ where \in {"list", "create"} => Missing(Config[p]) = {}
    /\ p \in Command /\ where = "create" => InputIsValid(Input[p])
    /\ p \in Server /\ where = "ready" /\ Config[p].database /\ ~BootstrapDisabled(Config[p])
           => ~TableIsEmpty
    /\ p \in Server /\ where = "ready" /\ Config[p].database
           => Missing(Config[p]) = Fields \/ Asked(p)
    /\ p \in Command /\ where = "succeeded" => created[p]

\* A process moves, and nothing is written.
LEMMA BMove ==
    ASSUME BInv, NEW p \in Proc, NEW where, MayBeAt(p, where), Goto(p, where),
           UNCHANGED <<users, created>>, signalled' \subseteq Server,
           mishaps' \in 0..MaxMishaps
    PROVE  BInv'
<1>1. /\ pc' \in [Proc -> Place] /\ pc'[p] = where
      /\ \A q \in Proc : q # p => pc'[q] = pc[q]
  BY DEF BInv, TypeOK, Goto, MayBeAt, Place
<1>2. TypeOK'
  BY <1>1 DEF BInv, TypeOK, Place
<1>3. ValidatedOK'
  BY <1>1 DEF BInv, ValidatedOK, MayBeAt, Proc
<1>4. WrittenOK' /\ UniqueEmails(users)' /\ (TableIsEmpty' <=> TableIsEmpty)
  BY DEF BInv, WrittenOK, UniqueEmails, TableIsEmpty, Holds, NewRow
<1>5. ReadyIsSeeded'
  BY <1>1, <1>4 DEF BInv, ReadyIsSeeded, MayBeAt, Proc
<1>6. (\A c \in Command : pc[c] = "succeeded" => created[c])'
  BY <1>1 DEF BInv, MayBeAt, Proc
<1>7. OnlyAsConfigured'
  <2>1. \A q \in Proc : Asked(q)' = Asked(q)
    BY DEF Asked
  <2> QED
    BY <1>1, <2>1 DEF BInv, OnlyAsConfigured, MayBeAt, Holds, Missing, Proc
<1> QED
  BY <1>2, <1>3, <1>4, <1>5, <1>6, <1>7 DEF BInv

\* An insert finds its id and its address free, so it keeps all that is in the table.
LEMMA BCommit ==
    ASSUME BInv, NEW p \in Proc, CommitUser(p)
    PROVE  BInv'
<1>1. NewRow(p) \in Row /\ NewId[p] \in User /\ p \in Server \union Command
  BY NewRowType, BootstrapAssumption DEF CommitUser, Proc
<1>2. users' = PutRow(users, NewId[p], NewRow(p)) /\ users \in Table
  BY DEF CommitUser, BInv, TypeOK
<1>3. /\ users' \in Table /\ users'[NewId[p]] = NewRow(p)
      /\ \A u \in User : u # NewId[p] => users'[u] = users[u]
  BY <1>1, <1>2 DEF PutRow, Table
<1>4. UniqueEmails(users')
  BY <1>1, <1>2, PutKeepsUnique DEF BInv, CommitUser, Insertable
<1>5. WrittenOK'
  <2>1. created'[p] /\ \A q \in Proc : q # p => created'[q] = created[q]
    BY DEF CommitUser, BInv, TypeOK
  <2>2. \A q \in Proc : q # p => NewId[q] # NewId[p] /\ NewId[q] \in User
    BY BootstrapAssumption
  <2>3. \A q \in Proc : NewRow(q)' = NewRow(q)
    BY DEF NewRow
  <2> QED
    BY <1>1, <1>3, <2>1, <2>2, <2>3 DEF BInv, WrittenOK
<1>6. ~TableIsEmpty'
  BY <1>1, <1>3, AbsentAssumption DEF TableIsEmpty, Holds
<1>7. PICK where \in {Finished(p), "failed"} : Goto(p, where)
  BY DEF CommitUser, EndAs
<1>8. /\ pc' = [pc EXCEPT ![p] = where]
      /\ where \in {"ready", "succeeded", "failed"}
  BY <1>7 DEF Goto, Finished
<1>9. /\ pc' \in [Proc -> Place] /\ pc'[p] = where
      /\ \A q \in Proc : q # p => pc'[q] = pc[q]
  BY <1>8 DEF BInv, TypeOK, Place
<1>10. TypeOK'
  <2>1. signalled' \subseteq Server
    BY DEF BInv, TypeOK, CommitUser, EndAs
  <2>2. mishaps' \in 0..MaxMishaps
    BY BootstrapAssumption DEF BInv, TypeOK, CommitUser, CallError, Mishap
  <2>3. created' \in [Proc -> BOOLEAN]
    BY DEF BInv, TypeOK, CommitUser
  <2> QED
    BY <1>3, <1>9, <2>1, <2>2, <2>3 DEF TypeOK, Place
<1>11. ValidatedOK'
  BY <1>8, <1>9 DEF BInv, ValidatedOK, Proc
<1>12. ReadyIsSeeded'
  BY <1>6 DEF ReadyIsSeeded
<1>13. (\A c \in Command : pc[c] = "succeeded" => created[c])'
  <2>1. created'[p] /\ \A q \in Proc : q # p => created'[q] = created[q]
    BY DEF CommitUser, BInv, TypeOK
  <2> QED
    BY <1>9, <2>1 DEF BInv, Proc
<1>14. OnlyAsConfigured'
  <2>1. created'[p] /\ \A q \in Proc : q # p => created'[q] = created[q]
    BY DEF CommitUser, BInv, TypeOK
  <2>2. Asked(p)
    BY BInvAsked DEF CommitUser
  <2>3. /\ \A q \in Proc : Asked(q)' = Asked(q)
        /\ \A s \in Server : Missing(Config[s])' = Missing(Config[s])
    BY DEF Asked, Missing
  <2>4. \A u \in User : Holds(users', u) => u = NewId[p] \/ Holds(users, u)
    BY <1>3 DEF Holds
  <2>5. \A s \in Server : pc'[s] = "ready" => s = p \/ pc[s] = "ready"
    BY <1>9 DEF Proc
  <2>6. ASSUME NEW u \in User, Holds(users', u)
        PROVE  Holds(InitUsers, u) \/ \E q \in Proc : created'[q] /\ NewId[q] = u /\ Asked(q)
    BY <2>1, <2>2, <2>4, <2>6 DEF BInv, OnlyAsConfigured
  <2> QED
    BY <2>2, <2>3, <2>5, <2>6 DEF BInv, OnlyAsConfigured
<1> QED
  BY <1>4, <1>5, <1>10, <1>11, <1>12, <1>13, <1>14 DEF BInv

\* Every step keeps the invariant.
LEMMA BInvStep ==
    ASSUME BInv, [Next]_vars
    PROVE  BInv'
<1>b. /\ signalled \subseteq Server /\ mishaps \in 0..MaxMishaps /\ MaxMishaps \in Nat
      /\ Server \subseteq Proc /\ Command \subseteq Proc /\ Server \intersect Command = {}
  BY BootstrapAssumption DEF BInv, TypeOK, Proc
<1>m. Mishap => mishaps' \in 0..MaxMishaps
  BY <1>b DEF Mishap
<1>1. ASSUME NEW s \in Server, StartServer(s) PROVE BInv'
  <2> DEFINE where == IF Config[s].database THEN "open" ELSE "ready"
  <2>1. MayBeAt(s, where)
    BY <1>b DEF MayBeAt, Place
  <2>2. Goto(s, where)
    BY <1>1 DEF StartServer
  <2> QED
    BY <1>b, <1>1, <2>1, <2>2, BMove DEF StartServer
<1>2. ASSUME NEW s \in Server, OpenServer(s) PROVE BInv'
  <2>1. PICK where \in {"ready", "list", "failed"} :
           /\ Goto(s, where)
           /\ where = "ready" => BootstrapDisabled(Config[s])
           /\ where = "list" => Missing(Config[s]) = {}
           /\ signalled' \subseteq Server
    BY <1>b, <1>2 DEF OpenServer, EndAs, BootstrapInvalid, BootstrapDisabled
  <2>2. MayBeAt(s, where)
    BY <1>b, <2>1 DEF MayBeAt, Place, BootstrapDisabled
  <2> QED
    BY <1>b, <1>2, <2>1, <2>2, BMove DEF OpenServer
<1>3. ASSUME NEW s \in Server, ListUsers(s) PROVE BInv'
  <2>1. PICK where \in {"ready", "create", "failed"} :
           /\ Goto(s, where)
           /\ where = "ready" => ~TableIsEmpty
           /\ signalled' \subseteq Server
    BY <1>b, <1>3 DEF ListUsers, EndAs
  <2>2. Missing(Config[s]) = {}
    BY <1>3 DEF BInv, ValidatedOK, ListUsers
  <2>3. MayBeAt(s, where)
    BY <1>b, <2>1, <2>2 DEF MayBeAt, Place, Asked, Missing
  <2> QED
    BY <1>b, <1>3, <2>1, <2>3, BMove DEF ListUsers
<1>4. ASSUME NEW c \in Command, StartCommand(c) PROVE BInv'
  <2>1. MayBeAt(c, "open")
    BY <1>b DEF MayBeAt, Place
  <2> QED
    BY <1>b, <1>4, <2>1, BMove DEF StartCommand
<1>5. ASSUME NEW c \in Command, OpenCommand(c) PROVE BInv'
  <2> DEFINE where == IF InputIsValid(Input[c]) THEN "create" ELSE "failed"
  <2>1. MayBeAt(c, where)
    BY <1>b DEF MayBeAt, Place
  <2>2. Goto(c, where)
    BY <1>5 DEF OpenCommand
  <2> QED
    BY <1>b, <1>5, <2>1, <2>2, BMove DEF OpenCommand
<1>6. ASSUME NEW p \in Proc, EndAs(p, "failed"), UNCHANGED <<users, created>>,
             mishaps' \in 0..MaxMishaps
      PROVE  BInv'
  <2>1. MayBeAt(p, "failed")
    BY <1>b DEF MayBeAt, Place
  <2> QED
    BY <1>b, <1>6, <2>1, BMove DEF EndAs
<1>7. ASSUME NEW p \in Proc, RefuseUser(p) PROVE BInv'
  BY <1>b, <1>6, <1>7 DEF RefuseUser
<1>8. ASSUME NEW p \in Proc, CallFails(p) PROVE BInv'
  BY <1>b, <1>m, <1>6, <1>8 DEF CallFails, CallError
<1>9. ASSUME NEW s \in Server, Return(s) \/ Crash(s) PROVE BInv'
  <2>1. PICK where \in {"off", "failed"} : EndAs(s, where)
    BY <1>9 DEF Return, Crash
  <2>2. MayBeAt(s, where)
    BY <1>b DEF MayBeAt, Place
  <2>3. mishaps' \in 0..MaxMishaps
    BY <1>b, <1>m, <1>9 DEF Return, Crash
  <2> QED
    BY <1>b, <1>9, <2>1, <2>2, <2>3, BMove DEF EndAs, Return, Crash
<1>10. ASSUME UNCHANGED <<users, pc, created>>, signalled' \subseteq Server,
              mishaps' \in 0..MaxMishaps
       PROVE  BInv'
  BY <1>10 DEF BInv, TypeOK, ValidatedOK, WrittenOK, ReadyIsSeeded, TableIsEmpty, NewRow,
                  OnlyAsConfigured, Asked, Missing
<1>11. ASSUME NEW s \in Server, Signal(s) \/ Trouble(s) PROVE BInv'
  BY <1>b, <1>m, <1>10, <1>11 DEF Signal, Trouble
<1>12. CASE UNCHANGED vars
  BY <1>b, <1>10, <1>12 DEF vars
<1>13. ASSUME NEW s \in Server, BootStep(s) PROVE BInv'
  BY <1>b, <1>1, <1>2, <1>3, <1>7, <1>13, BCommit DEF BootStep
<1>14. ASSUME NEW c \in Command, CommandStep(c) PROVE BInv'
  BY <1>b, <1>4, <1>5, <1>7, <1>14, BCommit DEF CommandStep
<1> QED
  BY <1>8, <1>9, <1>11, <1>12, <1>13, <1>14 DEF Next

LEMMA BInvAlways == Spec => []BInv
<1>1. BInv /\ [Next]_vars => BInv'
  BY BInvStep
<1> QED
  BY <1>1, BInvInit, PTL DEF Spec

-----------------------------------------------------------------------------
\* No configuration and no flags bring an ill-formed account into the table.
THEOREM BootTypeCorrect == Spec => []TypeOK
<1>1. BInv => TypeOK
  BY DEF BInv
<1> QED
  BY <1>1, BInvAlways, PTL

\* Whatever fails, and however many replicas race, a server with bootstrap configured
\* that goes on to listen finds an account in its table.
THEOREM ReadyServersAreSeeded == Spec => []ReadyIsSeeded
<1>1. BInv => ReadyIsSeeded
  BY DEF BInv
<1> QED
  BY <1>1, BInvAlways, PTL

\* The unique e-mail alone keeps replicas with one bootstrap address from creating two
\* administrators; the look at the table before it is not needed for that.
THEOREM ReplicasCreateOne == Spec => []OneAdminPerAddress
<1>1. BInv => OneAdminPerAddress
  <2> SUFFICES ASSUME BInv, NEW s \in Server, NEW t \in Server, created[s], created[t],
                      Trim[Config[s].email] = Trim[Config[t].email]
               PROVE  s = t
    BY DEF OneAdminPerAddress
  <2>1. s \in Proc /\ t \in Proc /\ NewId[s] \in User /\ NewId[t] \in User
    BY BootstrapAssumption DEF Proc
  <2>2. users[NewId[s]] = NewRow(s) /\ users[NewId[t]] = NewRow(t)
    BY <2>1 DEF BInv, WrittenOK
  <2>3. NewRow(s).email = NewRow(t).email
    BY DEF NewRow, BuildUser
  <2>4. Holds(users, NewId[s]) /\ Holds(users, NewId[t])
    BY <2>1, <2>2, AbsentAssumption DEF BInv, WrittenOK, Holds
  <2>5. NewId[s] = NewId[t]
    BY <2>1, <2>2, <2>3, <2>4 DEF BInv, UniqueEmails
  <2> QED
    BY <2>1, <2>5, BootstrapAssumption
<1> QED
  BY <1>1, BInvAlways, PTL

\* No account comes from nowhere: each one goes back to a process that was asked for
\* all of it, and no server listens that was told by halves to bootstrap.
THEOREM AccountsAreAskedFor == Spec => []OnlyAsConfigured
<1>1. BInv => OnlyAsConfigured
  BY DEF BInv
<1> QED
  BY <1>1, BInvAlways, PTL

\* A command that reports success has created exactly the account it was asked for,
\* and nothing that runs beside it has changed it since.
THEOREM CommandsAreHonest == Spec => []CommandIsHonest
<1>1. BInv => CommandIsHonest
  <2> SUFFICES ASSUME BInv, NEW c \in Command, pc[c] = "succeeded"
               PROVE  created[c] /\ users[NewId[c]] = BuildUser(Input[c], Input[c].role)
    BY DEF CommandIsHonest
  <2>1. c \in Proc /\ c \notin Server
    BY BootstrapAssumption DEF Proc
  <2>2. created[c]
    BY DEF BInv
  <2> QED
    BY <2>1, <2>2 DEF BInv, WrittenOK, NewRow
<1> QED
  BY <1>1, BInvAlways, PTL

-----------------------------------------------------------------------------
(* Refinement.                                                             *)

\* A step after the bootstrap is one of those that Bootstrap leaves open, or no step.
LEMMA ServeStepBoots == [ServeNext]_serveVars => [Next]_vars
<1> SUFFICES ASSUME [ServeNext]_serveVars PROVE [Next]_vars
  OBVIOUS
<1>1. ASSUME NEW s \in Server, Boot(s) PROVE Next
  BY <1>1 DEF Boot, Next
<1>2. ASSUME NEW s \in Server, NEW where, Leave(s, where) PROVE Next
  BY <1>2 DEF Leave, Next
<1>3. ASSUME NEW s \in Server, Runs(s) PROVE [Next]_vars
  BY <1>1, <1>2, <1>3
     DEF Runs, Wire, WireFails, TakeSignal, Drain, DrainTimesOut, TakeError, End
<1>4. ASSUME NEW s \in Server, Listens(s) PROVE [Next]_vars
  BY <1>4 DEF Listens, Announce, Bind
<1>5. ASSUME NEW s \in Server, AcceptFails(s) \/ ServerCrash(s) \/ ServerSignal(s) PROVE Next
  BY <1>5 DEF AcceptFails, ServerCrash, ServerSignal, Next
<1>6. ASSUME NEW s \in Server, NEW h \in Slot,
             Accept(s, h) \/ Query(s, h) \/ QueryReturns(s, h) \/ Finish(s, h)
      PROVE  UNCHANGED vars
  BY <1>6 DEF Accept, Query, QueryReturns, Finish
<1>7. ASSUME NEW c \in Command, CommandRuns(c) PROVE Next
  BY <1>7 DEF CommandRuns, Next
<1>8. ASSUME NEW p \in Proc, BootFails(p) PROVE Next
  BY <1>8 DEF BootFails, Next
<1>9. CASE UNCHANGED serveVars
  BY <1>9 DEF serveVars
<1> QED
  BY <1>3, <1>4, <1>5, <1>6, <1>7, <1>8, <1>9 DEF ServeNext

\* To the table, and to those who race for the first account, a server with its
\* listener, its handlers and its ways to end is the process that Bootstrap describes.
LEMMA ServeRefinesBootstrap == ServeSpec => Spec
<1>1. ServeInit => Init
  BY DEF ServeInit
<1>2. [ServeNext]_serveVars => [Next]_vars
  BY ServeStepBoots
<1> QED
  BY <1>1, <1>2, PTL DEF ServeSpec, Spec

\* So what is proved of Bootstrap holds of the whole process.
LEMMA ServeKeepsBInv == ServeSpec => []BInv
BY ServeRefinesBootstrap, BInvAlways, PTL

\* A replica that serves requests has an account in its table.
THEOREM ServersAreSeeded == ServeSpec => []ReadyIsSeeded
BY ServeRefinesBootstrap, ReadyServersAreSeeded, PTL

-----------------------------------------------------------------------------
(* Types.                                                                  *)

\* Where the goroutines of a server are fits where its process is.
FitsPlace(s) ==
    /\ pc[s] = "ready" <=> runner[s] # "none"
    /\ listener[s] # "none" => runner[s] \notin {"none", "wire"}

ServeTypes ==
    /\ runner \in [Server -> Runner]
    /\ listener \in [Server -> Listener]
    /\ handler \in [Server -> [Slot -> Handling]]
    /\ excuse \in [Server -> Excuse]
    /\ pc \in [Proc -> Place]

\* A server that is not past its bootstrap, or has only come past it, has no handlers;
\* one that drains or closes lets nobody in; and one that closes without an excuse has
\* waited for all of them.
Quiet(s) ==
    /\ runner[s] \in {"none", "wire"} => InFlight(s) = {}
    /\ runner[s] \in {"draining", "closing"} => listener[s] # "serving"
    /\ runner[s] = "closing" /\ excuse[s] = "none" => InFlight(s) = {}
    /\ \A h \in Slot : handler[s][h] \in {"told", "killed"} => excuse[s] # "none"

SInv == ServeTypes /\ \A s \in Server : FitsPlace(s) /\ Quiet(s)

\* A server is only concerned by what changes one of its own.
LEMMA Aside ==
    ASSUME NEW t \in Server, FitsPlace(t), Quiet(t),
           pc'[t] = pc[t], runner'[t] = runner[t], listener'[t] = listener[t],
           handler'[t] = handler[t], excuse'[t] = excuse[t]
    PROVE  FitsPlace(t)' /\ Quiet(t)'
BY DEF FitsPlace, Quiet, InFlight

LEMMA SInvInit == ServeInit => SInv
<1> SUFFICES ASSUME ServeInit PROVE SInv
  OBVIOUS
<1>1. ServeTypes
  BY DEF ServeInit, Init, ServeTypes, Runner, Listener, Handling, Excuse, Place
<1>2. ASSUME NEW s \in Server PROVE FitsPlace(s) /\ Quiet(s)
  <2>1. /\ pc[s] = "off" /\ runner[s] = "none" /\ listener[s] = "none"
        /\ \A h \in Slot : handler[s][h] = "free"
    BY DEF ServeInit, Init, Proc
  <2> QED
    BY <2>1 DEF FitsPlace, Quiet, InFlight
<1> QED
  BY <1>1, <1>2 DEF SInv

\* A step of one server leaves the others alone.
Beside(s) ==
    \A t \in Server : t # s =>
        /\ pc'[t] = pc[t] /\ runner'[t] = runner[t] /\ listener'[t] = listener[t]
        /\ handler'[t] = handler[t] /\ excuse'[t] = excuse[t]

LEMMA OneServer ==
    ASSUME SInv, NEW s \in Server, ServeTypes', FitsPlace(s)', Quiet(s)', Beside(s)
    PROVE  SInv'
<1>1. ASSUME NEW t \in Server, t # s PROVE FitsPlace(t)' /\ Quiet(t)'
  BY <1>1, Aside DEF SInv, Beside
<1> QED
  BY <1>1 DEF SInv

\* Bootstrap moves servers in place, and nobody into the place of a command.
LEMMA BootMoves ==
    ASSUME NEW s \in Server, ServeTypes, BootStep(s)
    PROVE  /\ pc[s] # "ready"
           /\ \E where \in Place : pc' = [pc EXCEPT ![s] = where]
  BY DEF BootStep, StartServer, OpenServer, ListUsers, CommitUser, RefuseUser, Goto, EndAs,
         Finished, Place

\* The boot sequence ends with a runner, and with nothing left of an earlier run.
LEMMA SBoot ==
    ASSUME SInv, NEW s \in Server, Boot(s)
    PROVE  SInv'
<1>1. pc[s] # "ready" /\ BootStep(s) /\ s \in Proc
  BY BootMoves DEF SInv, Boot, Proc
<1>2. PICK where \in Place : pc' = [pc EXCEPT ![s] = where]
  BY <1>1, BootMoves DEF SInv
<1>3. /\ pc' \in [Proc -> Place] /\ pc'[s] = where
      /\ \A t \in Server : t # s => pc'[t] = pc[t]
  BY <1>1, <1>2 DEF SInv, ServeTypes, Proc
<1>4. runner[s] = "none" /\ listener[s] = "none"
  BY <1>1 DEF SInv, FitsPlace
<1>5. /\ runner'[s] = IF where = "ready" THEN "wire" ELSE "none"
      /\ listener' = listener /\ excuse'[s] = "none"
      /\ \A h \in Slot : handler'[s][h] = "free"
  BY <1>3 DEF Boot, Run, SInv, ServeTypes
<1>6. ServeTypes'
  BY <1>3 DEF Boot, Run, SInv, ServeTypes, Runner, Handling, Excuse
<1>7. Beside(s)
  BY <1>3 DEF Boot, Run, SInv, ServeTypes, Beside
<1>8. FitsPlace(s)'
  BY <1>3, <1>4, <1>5 DEF FitsPlace
<1>9. Quiet(s)'
  BY <1>4, <1>5 DEF Quiet, InFlight
<1> QED
  BY <1>6, <1>7, <1>8, <1>9, OneServer

\* A process that ends cuts off those it serves.
LEMMA SVanish ==
    ASSUME SInv, NEW s \in Server, NEW where \in {"off", "failed"}, Goto(s, where),
           Vanish(s), excuse' \in [Server -> Excuse],
           \A t \in Server : t # s => excuse'[t] = excuse[t],
           excuse'[s] # "none" \/ (excuse'[s] = excuse[s] /\ InFlight(s) = {})
    PROVE  SInv'
<1>1. /\ pc' \in [Proc -> Place] /\ pc'[s] = where
      /\ \A t \in Server : t # s => pc'[t] = pc[t]
  BY DEF SInv, ServeTypes, Goto, Place, Proc
<1>2. /\ runner'[s] = "none" /\ listener'[s] = "none"
      /\ \A h \in Slot : handler'[s][h] = IF h \in InFlight(s) THEN "killed" ELSE handler[s][h]
  BY DEF Vanish, Run, Listen, SInv, ServeTypes
<1>3. ServeTypes'
  BY <1>1 DEF Vanish, Run, Listen, SInv, ServeTypes, Runner, Listener, Handling
<1>4. Beside(s)
  BY <1>1 DEF Vanish, Run, Listen, SInv, ServeTypes, Beside
<1>5. FitsPlace(s)'
  BY <1>1, <1>2 DEF FitsPlace
<1>6. Quiet(s)'
  BY <1>2 DEF SInv, Quiet, InFlight
<1> QED
  BY <1>3, <1>4, <1>5, <1>6, OneServer

\* The runner moves between its places after the bootstrap.
LEMMA SRun ==
    ASSUME SInv, NEW s \in Server,
           \/ Wire(s) \/ TakeSignal(s) \/ Drain(s) \/ DrainTimesOut(s) \/ TakeError(s)
    PROVE  SInv'
<1>1. ServeTypes'
  BY DEF Wire, TakeSignal, Drain, DrainTimesOut, TakeError, Run, Listen, vars, SInv,
         ServeTypes, Runner, Listener, Excuse
<1>2. Beside(s)
  BY DEF Wire, TakeSignal, Drain, DrainTimesOut, TakeError, Run, Listen, vars, SInv,
         ServeTypes, Beside
<1>3. FitsPlace(s)'
  BY DEF Wire, TakeSignal, Drain, DrainTimesOut, TakeError, Run, Listen, vars, SInv,
         ServeTypes, FitsPlace
<1>4. CASE Wire(s)
  <2>1. runner'[s] = "select" /\ handler' = handler /\ excuse' = excuse
    BY <1>4 DEF Wire, Run, SInv, ServeTypes
  <2>2. Quiet(s)'
    BY <2>1 DEF SInv, Quiet
  <2> QED
    BY <1>1, <1>2, <1>3, <2>2, OneServer
<1>5. CASE TakeSignal(s)
  <2>1. /\ runner'[s] = "draining" /\ listener'[s] # "serving"
        /\ handler' = handler /\ excuse' = excuse
    BY <1>5 DEF TakeSignal, Run, Listen, SInv, ServeTypes
  <2>2. Quiet(s)'
    BY <2>1 DEF SInv, Quiet
  <2> QED
    BY <1>1, <1>2, <1>3, <2>2, OneServer
<1>6. CASE Drain(s)
  <2>1. /\ runner[s] = "draining" /\ runner'[s] = "closing" /\ InFlight(s) = {}
        /\ listener' = listener /\ handler' = handler /\ excuse' = excuse
    BY <1>6 DEF Drain, Run, SInv, ServeTypes
  <2>2. Quiet(s)'
    BY <2>1 DEF SInv, Quiet, InFlight
  <2> QED
    BY <1>1, <1>2, <1>3, <2>2, OneServer
<1>7. CASE DrainTimesOut(s)
  <2>1. /\ runner[s] = "draining" /\ runner'[s] = "closing" /\ excuse'[s] = "timeout"
        /\ listener' = listener /\ handler' = handler
    BY <1>7 DEF DrainTimesOut, Run, SInv, ServeTypes
  <2>2. Quiet(s)'
    BY <2>1 DEF SInv, Quiet
  <2> QED
    BY <1>1, <1>2, <1>3, <2>2, OneServer
<1>8. CASE TakeError(s)
  <2>1. /\ runner'[s] = "closing" /\ excuse'[s] = "listener" /\ listener'[s] = "ended"
        /\ handler' = handler
    BY <1>8 DEF TakeError, Run, Listen, SInv, ServeTypes
  <2>2. Quiet(s)'
    BY <2>1 DEF SInv, Quiet
  <2> QED
    BY <1>1, <1>2, <1>3, <2>2, OneServer
<1> QED
  BY <1>4, <1>5, <1>6, <1>7, <1>8

\* The listener moves, and serves only while the runner waits.
LEMMA SListen ==
    ASSUME SInv, NEW s \in Server, Announce(s) \/ Bind(s) \/ AcceptFails(s)
    PROVE  SInv'
<1>1. PICK where \in Listener \ {"none"} :
        /\ Listen(s, where)
        /\ where = "serving" => runner[s] = "select"
        /\ listener[s] # "none"
        /\ UNCHANGED <<pc, runner, handler, excuse>>
  BY DEF Announce, Bind, AcceptFails, Trouble, vars, Listener
<1>2. listener'[s] = where /\ ServeTypes'
  BY <1>1 DEF Listen, SInv, ServeTypes
<1>3. Beside(s)
  BY <1>1 DEF Listen, SInv, ServeTypes, Beside
<1>4. FitsPlace(s)'
  BY <1>1, <1>2 DEF SInv, FitsPlace
<1>5. Quiet(s)'
  BY <1>1, <1>2 DEF SInv, Quiet, InFlight
<1> QED
  BY <1>2, <1>3, <1>4, <1>5, OneServer

\* A handler moves: it begins only while the listener serves, and meets a closed pool
\* only if it is one of those that were not waited for.
LEMMA SHandle ==
    ASSUME SInv, NEW s \in Server, NEW h \in Slot,
           Accept(s, h) \/ Query(s, h) \/ QueryReturns(s, h) \/ Finish(s, h)
    PROVE  SInv'
<1>1. PICK what \in Handling :
        /\ HandleAs(s, h, what)
        /\ what = "told" => PoolClosed(s) /\ h \in InFlight(s)
        /\ what \in {"busy", "query"} => h \in InFlight(s) \/ listener[s] = "serving"
        /\ what # "killed"
        /\ UNCHANGED <<pc, runner, listener, excuse>>
  BY DEF Accept, Query, QueryReturns, Finish, vars, Handling, InFlight
<1>2. /\ handler'[s][h] = what
      /\ \A g \in Slot : g # h => handler'[s][g] = handler[s][g]
  BY <1>1 DEF HandleAs, SInv, ServeTypes
<1>3. ServeTypes' /\ Beside(s)
  BY <1>1 DEF HandleAs, SInv, ServeTypes, Beside
<1>4. FitsPlace(s)'
  BY <1>1 DEF SInv, FitsPlace
<1>5. listener[s] = "serving" => runner[s] = "select"
  BY DEF SInv, ServeTypes, FitsPlace, Quiet, Runner
<1>6. Quiet(s)'
  <2>1. InFlight(s)' # {} => InFlight(s) # {} \/ runner[s] = "select"
    BY <1>1, <1>2, <1>5 DEF InFlight
  <2>2. (\A g \in Slot : handler[s][g] \in {"told", "killed"} => excuse[s] # "none")'
    <3>1. what = "told" => excuse[s] # "none"
      BY <1>1 DEF SInv, Quiet, PoolClosed
    <3> QED
      BY <1>1, <1>2, <3>1 DEF SInv, Quiet
  <2> QED
    BY <1>1, <2>1, <2>2 DEF SInv, Quiet
<1> QED
  BY <1>3, <1>4, <1>6, OneServer

\* What is no concern of the goroutines of a server that is past its bootstrap.
LEMMA SAside ==
    ASSUME SInv, UNCHANGED <<runner, listener, handler, excuse>>, pc' \in [Proc -> Place],
           \A s \in Server : pc'[s] = "ready" <=> pc[s] = "ready"
    PROVE  SInv'
<1>1. ServeTypes'
  BY DEF SInv, ServeTypes
<1>2. ASSUME NEW s \in Server PROVE FitsPlace(s)' /\ Quiet(s)'
  BY DEF SInv, FitsPlace, Quiet, InFlight
<1> QED
  BY <1>1, <1>2 DEF SInv

\* Every step keeps the invariant.
LEMMA SInvStep ==
    ASSUME SInv, [ServeNext]_serveVars
    PROVE  SInv'
<1>1. ASSUME NEW s \in Server, Leave(s, "failed"), runner[s] = "wire" PROVE SInv'
  <2>1. Goto(s, "failed") /\ InFlight(s) = {}
    BY <1>1 DEF Leave, Return, EndAs, Goto, SInv, ServeTypes, Quiet, Proc
  <2> QED
    BY <1>1, <2>1, SVanish DEF Leave, SInv, ServeTypes
<1>2. ASSUME NEW s \in Server, End(s) PROVE SInv'
  <2>1. PICK where \in {"off", "failed"} : Leave(s, where)
    BY <1>2 DEF End
  <2>2. Goto(s, where)
    BY <2>1 DEF Leave, Return, EndAs, Goto, SInv, ServeTypes, Proc
  <2>3. excuse' = excuse /\ Vanish(s)
    BY <2>1 DEF Leave
  <2>4. excuse[s] # "none" \/ InFlight(s) = {}
    BY <1>2 DEF End, SInv, Quiet
  <2> QED
    BY <2>2, <2>3, <2>4, SVanish DEF SInv, ServeTypes
<1>3. ASSUME NEW s \in Server, ServerCrash(s) PROVE SInv'
  <2>1. Goto(s, "off") /\ Vanish(s)
    BY <1>3 DEF ServerCrash, Crash, EndAs
  <2>2. /\ excuse' \in [Server -> Excuse] /\ excuse'[s] = "crash"
        /\ \A t \in Server : t # s => excuse'[t] = excuse[t]
    BY <1>3 DEF ServerCrash, SInv, ServeTypes, Excuse
  <2> QED
    BY <2>1, <2>2, SVanish
<1>4. ASSUME NEW s \in Server, Runs(s) PROVE SInv'
  BY <1>1, <1>2, <1>4, SBoot, SRun DEF Runs, WireFails
<1>5. ASSUME NEW s \in Server, Listens(s) \/ AcceptFails(s) PROVE SInv'
  BY <1>5, SListen DEF Listens
<1>6. ASSUME NEW s \in Server, ServerSignal(s) PROVE SInv'
  BY <1>6, SAside DEF ServerSignal, Signal, SInv, ServeTypes
<1>7. ASSUME NEW c \in Command, CommandRuns(c) PROVE SInv'
  <2>1. c \in Proc /\ c \notin Server
    BY BootstrapAssumption DEF Proc
  <2>2. \E where \in Place : pc' = [pc EXCEPT ![c] = where]
    BY <1>7 DEF CommandRuns, CommandStep, StartCommand, OpenCommand, CommitUser, RefuseUser,
                Goto, EndAs, Finished, Place
  <2>3. pc' \in [Proc -> Place] /\ \A s \in Server : pc'[s] = pc[s]
    BY <2>1, <2>2 DEF SInv, ServeTypes, Proc
  <2> QED
    BY <1>7, <2>3, SAside DEF CommandRuns
<1>8. ASSUME NEW p \in Proc, BootFails(p) PROVE SInv'
  <2>1. pc[p] # "ready" /\ pc' = [pc EXCEPT ![p] = "failed"]
    BY <1>8 DEF BootFails, CallFails, EndAs, Goto
  <2>2. /\ pc' \in [Proc -> Place]
        /\ \A s \in Server : pc'[s] = "ready" <=> pc[s] = "ready"
    BY <2>1 DEF SInv, ServeTypes, Place, Proc
  <2> QED
    BY <1>8, <2>2, SAside DEF BootFails
<1>9. CASE UNCHANGED serveVars
  BY <1>9, SAside DEF serveVars, vars, SInv, ServeTypes
<1> QED
  BY <1>3, <1>4, <1>5, <1>6, <1>7, <1>8, <1>9, SHandle DEF ServeNext

LEMMA SInvAlways == ServeSpec => []SInv
<1>1. SInv /\ [ServeNext]_serveVars => SInv'
  BY SInvStep
<1> QED
  BY <1>1, SInvInit, PTL DEF ServeSpec

\* The goroutines of each server are where its process allows them to be.
THEOREM ServeTypeCorrect == ServeSpec => []ServeTypeOK
<1>1. SInv /\ BInv => ServeTypeOK
  BY DEF SInv, BInv, ServeTypes, FitsPlace, ServeTypeOK
<1> QED
  BY <1>1, SInvAlways, ServeKeepsBInv, PTL

\* A signal alone never cuts a request off: if one is, then the ten seconds ran out on
\* it, the listener broke, or the process was killed.
THEOREM CutOffsAreExcused == ServeSpec => []CutOffNeedsExcuse
<1>1. SInv => CutOffNeedsExcuse
  BY DEF SInv, Quiet, CutOffNeedsExcuse
<1> QED
  BY <1>1, SInvAlways, PTL
=============================================================================

------------------------------ MODULE Bootstrap ------------------------------
(***************************************************************************)
(* The first account: internal/bootstrap, run by "serve" before it listens  *)
(* and by "user create".  Several servers (replicas, or a restart beside    *)
(* the old process) and command-line runs share one table.  ListUsers and   *)
(* CreateUser are two statements with nothing that ties them together.      *)
(*                                                                         *)
(* pc of a server:   off, open (before the pool is opened and pinged),      *)
(* list (before ListUsers), create (before CreateUser), ready (past         *)
(* BootstrapAdministrator: module Serve has what follows), failed (runServe *)
(* returned an error).   pc of a command:  off, open, create, succeeded,    *)
(* failed.                                                                  *)
(*                                                                         *)
(* A server that ended may be started again, by whoever runs it.            *)
(* MaxMishaps bounds the crashes, signals and failing store calls of one    *)
(* behaviour.                                                               *)
(***************************************************************************)
EXTENDS UserStore, Naturals

CONSTANTS
    Server,         \* processes that run "serve"
    Command,        \* runs of "user create"
    Config,         \* bootstrap.admin_* of each server, and whether it has a DSN
    Input,          \* the flags of each command
    NewId,          \* the UUID that a process draws
    InitUsers,      \* the table at the beginning
    MaxMishaps

Proc == Server \union Command

AdminConfig == [database : BOOLEAN, email : Text, password : Text, name : Text]
UserInput   == [email : Text, password : Text, name : Text, role : Role \union {"no such role"}]

ASSUME BootstrapAssumption ==
    /\ Server \intersect Command = {}
    /\ Config \in [Server -> AdminConfig]
    /\ Input \in [Command -> UserInput]
    /\ NewId \in [Proc -> User]
    /\ \A p, q \in Proc : NewId[p] = NewId[q] => p = q
    /\ InitUsers \in Table /\ UniqueEmails(InitUsers)
    /\ \A p \in Proc : ~Holds(InitUsers, NewId[p])
    /\ MaxMishaps \in Nat

VARIABLES
    users,      \* the table users
    pc,         \* where each process is
    signalled,  \* the servers whose context a signal has cancelled
    mishaps,    \* how many crashes, signals and failures there were
    created     \* history: the process's INSERT took effect

vars == <<users, pc, signalled, mishaps, created>>

-----------------------------------------------------------------------------
Fields == {"email", "password", "name"}

Missing(cfg) == {f \in Fields : Trim[cfg[f]] = Empty}

\* isBootstrapDisabled
BootstrapDisabled(cfg) == Missing(cfg) = Fields

\* validateBootstrapConfig
BootstrapInvalid(cfg) == Missing(cfg) \notin {{}, Fields}

\* buildUser: the password is not trimmed, and the account is enabled.
InputIsValid(i) ==
    Trim[i.email] # Empty /\ i.password # Empty /\ Trim[i.name] # Empty /\ i.role \in Role

\* Fault: the e-mail address is stored as it was given.
BuildUserUntrimmed(i, role) ==
    [name |-> Trim[i.name], email |-> i.email, role |-> role,
     enabled |-> TRUE, hash |-> i.password]

BuildUser(i, role) ==
    [name |-> Trim[i.name], email |-> Trim[i.email], role |-> role,
     enabled |-> TRUE, hash |-> i.password]

NewRow(p) ==
    IF p \in Server THEN BuildUser(Config[p], "Administrator")
    ELSE BuildUser(Input[p], Input[p].role)

Finished(p) == IF p \in Server THEN "ready" ELSE "succeeded"

TableIsEmpty == \A u \in User : ~Holds(users, u)

Init ==
    /\ users = InitUsers
    /\ pc = [p \in Proc |-> "off"]
    /\ signalled = {}
    /\ mishaps = 0
    /\ created = [p \in Proc |-> FALSE]

Goto(p, where) == pc' = [pc EXCEPT ![p] = where]

\* The process ends, and its context with it.
EndAs(p, where) == Goto(p, where) /\ signalled' = signalled \ {p}

\* Something goes wrong, within the bound.
Mishap == mishaps < MaxMishaps /\ mishaps' = mishaps + 1

\* A store call returns an error: it failed, or its context is cancelled.
CallError(p) == IF p \in signalled THEN UNCHANGED mishaps ELSE Mishap

-----------------------------------------------------------------------------
(* runServe                                                                *)

\* Without a DSN the server goes on without a store.
StartServer(s) ==
    /\ pc[s] \in {"off", "failed"}
    /\ Goto(s, IF Config[s].database THEN "open" ELSE "ready")
    /\ UNCHANGED <<users, signalled, mishaps, created>>

\* The pool is open, and BootstrapAdministrator comes to its first store call.  The
\* configuration is validated before it is found to be empty.  After a signal that
\* call can only fail.
OpenServer(s) ==
    /\ pc[s] = "open"
    /\ \/ /\ BootstrapInvalid(Config[s])
          /\ EndAs(s, "failed")
       \/ /\ ~BootstrapInvalid(Config[s]) /\ BootstrapDisabled(Config[s])
          /\ Goto(s, "ready") /\ UNCHANGED signalled
       \/ /\ ~BootstrapInvalid(Config[s]) /\ ~BootstrapDisabled(Config[s])
          /\ IF s \in signalled THEN EndAs(s, "failed")
             ELSE Goto(s, "list") /\ UNCHANGED signalled
    /\ UNCHANGED <<users, mishaps, created>>

\* Fault: nobody looks whether the table is empty.
ListUsersUnlooked(s) ==
    /\ pc[s] = "list"
    /\ \/ s \notin signalled /\ Goto(s, "create") /\ UNCHANGED signalled
       \/ s \in signalled /\ EndAs(s, "failed")
    /\ UNCHANGED <<users, mishaps, created>>

\* A call under way when the signal comes may still succeed; the next one fails.
ListUsers(s) ==
    /\ pc[s] = "list"
    /\ \/ ~TableIsEmpty /\ Goto(s, "ready") /\ UNCHANGED signalled
       \/ TableIsEmpty /\ s \notin signalled /\ Goto(s, "create") /\ UNCHANGED signalled
       \/ TableIsEmpty /\ s \in signalled /\ EndAs(s, "failed")
    /\ UNCHANGED <<users, mishaps, created>>

(* runUserCreate                                                           *)

StartCommand(c) ==
    /\ pc[c] = "off"
    /\ Goto(c, "open")
    /\ UNCHANGED <<users, signalled, mishaps, created>>

\* The flags are validated after the pool is open.
OpenCommand(c) ==
    /\ pc[c] = "open"
    /\ Goto(c, IF InputIsValid(Input[c]) THEN "create" ELSE "failed")
    /\ UNCHANGED <<users, signalled, mishaps, created>>

(* Both                                                                    *)

Insertable(p) == ~Holds(users, NewId[p]) /\ ~EmailTaken(users, NewId[p], NewRow(p).email)

\* The INSERT takes effect; the call may still return an error.
CommitUser(p) ==
    /\ pc[p] = "create"
    /\ Insertable(p)
    /\ users' = PutRow(users, NewId[p], NewRow(p))
    /\ created' = [created EXCEPT ![p] = TRUE]
    /\ \/ Goto(p, Finished(p)) /\ UNCHANGED <<signalled, mishaps>>
       \/ EndAs(p, "failed") /\ CallError(p)

\* Fault: a unique violation is taken for "already there".
RefuseUserIgnored(p) ==
    /\ pc[p] = "create"
    /\ ~Insertable(p)
    /\ Goto(p, Finished(p))
    /\ UNCHANGED <<users, signalled, mishaps, created>>

\* A unique violation ends the process.
RefuseUser(p) ==
    /\ pc[p] = "create"
    /\ ~Insertable(p)
    /\ EndAs(p, "failed")
    /\ UNCHANGED <<users, mishaps, created>>

\* Fault: an error of ListUsers or CreateUser does not keep the server from listening.
CallFailsIgnored(p) ==
    /\ pc[p] \in {"open", "list", "create"}
    /\ Goto(p, IF pc[p] = "open" THEN "failed" ELSE Finished(p))
    /\ CallError(p)
    /\ UNCHANGED <<users, signalled, created>>

\* Open, ListUsers or CreateUser fails and nothing happened.
CallFails(p) ==
    /\ pc[p] \in {"open", "list", "create"}
    /\ EndAs(p, "failed")
    /\ CallError(p)
    /\ UNCHANGED <<users, created>>

(* The world around them                                                   *)

Running(s) == pc[s] \in {"open", "list", "create", "ready"}

\* SIGINT or SIGTERM cancels the context of the process.
Signal(s) ==
    /\ Running(s) /\ s \notin signalled
    /\ Mishap
    /\ signalled' = signalled \union {s}
    /\ UNCHANGED <<users, pc, created>>

Crash(s) ==
    /\ Running(s)
    /\ Mishap
    /\ EndAs(s, "off")
    /\ UNCHANGED <<users, created>>

\* runServe returns, with an error or without; see module Serve.
Return(s) ==
    /\ pc[s] = "ready"
    /\ \E where \in {"off", "failed"} : EndAs(s, where)
    /\ UNCHANGED <<users, mishaps, created>>

\* A failure of a server that is ready, of which only module Serve sees more.
Trouble(s) ==
    /\ pc[s] = "ready"
    /\ Mishap
    /\ UNCHANGED <<users, pc, signalled, created>>

BootStep(s) ==
    StartServer(s) \/ OpenServer(s) \/ ListUsers(s) \/ CommitUser(s) \/ RefuseUser(s)

CommandStep(c) == StartCommand(c) \/ OpenCommand(c) \/ CommitUser(c) \/ RefuseUser(c)

Next ==
    \/ \E s \in Server : BootStep(s) \/ Return(s) \/ Signal(s) \/ Crash(s) \/ Trouble(s)
    \/ \E c \in Command : CommandStep(c)
    \/ \E p \in Proc : CallFails(p)

\* It states no fairness: what it takes to come up is in Serve.
Spec == Init /\ [][Next]_vars

-----------------------------------------------------------------------------
TypeOK ==
    /\ users \in Table
    /\ pc \in [Proc -> {"off", "open", "list", "create", "ready", "succeeded", "failed"}]
    /\ signalled \subseteq Server
    /\ mishaps \in 0..MaxMishaps
    /\ created \in [Proc -> BOOLEAN]

\* A server with bootstrap configured that goes on to listen has an account in its
\* table, created by itself or by another: no replica starts into a console that
\* nobody can log in to.
ReadyIsSeeded ==
    \A s \in Server :
        pc[s] = "ready" /\ Config[s].database /\ ~BootstrapDisabled(Config[s]) => ~TableIsEmpty

\* Replicas that race over an empty table with the same bootstrap address create
\* one administrator between them, whatever fails and however often they restart.
OneAdminPerAddress ==
    \A s, t \in Server :
        /\ created[s] /\ created[t]
        /\ Trim[Config[s].email] = Trim[Config[t].email]
        => s = t

Asked(p) ==
    IF p \in Server THEN \A f \in Fields : Trim[Config[p][f]] # Empty
    ELSE Trim[Input[p].email] # Empty /\ Trim[Input[p].name] # Empty /\ Input[p].role \in Role

\* Nothing is done on half an order, and nothing behind anybody's back: a server whose
\* bootstrap.admin_* are incomplete does not go on to listen, and every account that
\* was not there at the beginning goes back to one process that was asked for all of it.
OnlyAsConfigured ==
    /\ \A s \in Server : pc[s] = "ready" /\ Config[s].database =>
         Missing(Config[s]) = Fields \/ Asked(s)
    /\ \A u \in User : Holds(users, u) =>
         Holds(InitUsers, u) \/ \E p \in Proc : created[p] /\ NewId[p] = u /\ Asked(p)

\* A command that reports success has created its account, as it was asked to.
CommandIsHonest ==
    \A c \in Command : pc[c] = "succeeded" =>
        created[c] /\ users[NewId[c]] = BuildUser(Input[c], Input[c].role)

\* "if users empty and bootstrap.admin_* set -> create Administrator on serve":
\* a server only ever creates the administrator in an empty table.  The code does
\* not ensure it.
BootstrapOnlyWhenEmpty ==
    [][\A s \in Server : created'[s] # created[s] => TableIsEmpty]_vars
=============================================================================

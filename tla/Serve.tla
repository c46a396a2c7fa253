-------------------------------- MODULE Serve --------------------------------
(***************************************************************************)
(* The life of a server process after BootstrapAdministrator: the rest of   *)
(* runServe, composed with Bootstrap, which has what comes before.  runServe*)
(* runs in two goroutines that meet over errCh and the http.Server, beside  *)
(* the goroutines of the requests:                                          *)
(*    runner     none, wire (before NewClient), select (waits), draining    *)
(*               (in Shutdown), closing (in the deferred store.Close)       *)
(*    listener   none, start, announced (LogListening done), serving,       *)
(*               broken (its error is in errCh), ended (ErrServerClosed)    *)
(*    handler    free, busy, query (holds a connection of the pool), told   *)
(*               (met the closed pool), killed (the process ended)          *)
(* net/http, pgxpool and the operating system are external.  Shutdown lets  *)
(* nobody in and waits for the handlers, ten seconds at most; pool.Close    *)
(* lets no call in and waits for those under way.                           *)
(***************************************************************************)
EXTENDS Bootstrap

CONSTANTS
    Slot,       \* handlers that a process may have at once
    Address,    \* server.addr of each server
    GFire       \* gfire.base_url of each server: is it empty, does it parse?

ASSUME ServeAssumption ==
    /\ DOMAIN Address = Server
    /\ GFire \in [Server -> {"empty", "valid", "malformed"}]

VARIABLES
    runner,     \* the goroutine of runServe
    listener,   \* the goroutine of ListenAndServe
    handler,    \* the handlers of each server
    excuse      \* history: why this run of the server may cut requests off

serveVars == <<vars, runner, listener, handler, excuse>>

Runner   == {"none", "wire", "select", "draining", "closing"}
Listener == {"none", "start", "announced", "serving", "broken", "ended"}
Handling == {"free", "busy", "query", "told", "killed"}
Excuse   == {"none", "timeout", "listener", "crash"}

ServeInit ==
    /\ Init
    /\ runner = [s \in Server |-> "none"]
    /\ listener = [s \in Server |-> "none"]
    /\ handler = [s \in Server |-> [h \in Slot |-> "free"]]
    /\ excuse = [s \in Server |-> "none"]

InFlight(s) == {h \in Slot : handler[s][h] \in {"busy", "query"}}

Run(s, where)    == runner' = [runner EXCEPT ![s] = where]
Listen(s, where) == listener' = [listener EXCEPT ![s] = where]
HandleAs(s, h, what) == handler' = [handler EXCEPT ![s][h] = what]

\* The process is gone, with its sockets and all that ran in it.
Vanish(s) ==
    /\ Run(s, "none") /\ Listen(s, "none")
    /\ handler' = [handler EXCEPT ![s] =
                     [h \in Slot |-> IF h \in InFlight(s) THEN "killed" ELSE handler[s][h]]]

-----------------------------------------------------------------------------
(* The goroutine of runServe                                               *)

\* The steps of Bootstrap.  The handlers of an earlier run are forgotten.
Boot(s) ==
    /\ BootStep(s)
    /\ Run(s, IF pc'[s] = "ready" THEN "wire" ELSE "none")
    /\ handler' = [handler EXCEPT ![s] = [h \in Slot |-> "free"]]
    /\ excuse' = [excuse EXCEPT ![s] = "none"]
    /\ UNCHANGED listener

BootFails(p) == CallFails(p) /\ UNCHANGED <<runner, listener, handler, excuse>>

\* runServe returns, at once when there is no pool to close.
Leave(s, where) ==
    /\ Return(s) /\ pc'[s] = where
    /\ Vanish(s)
    /\ UNCHANGED excuse

\* The client for GFire, and the goroutine that listens.
Wire(s) ==
    /\ runner[s] = "wire"
    /\ GFire[s] # "malformed"
    /\ Run(s, "select")
    /\ Listen(s, "start")
    /\ UNCHANGED <<vars, handler, excuse>>

\* "configure gfire client": the process ends although its administrator is made.
WireFails(s) ==
    /\ runner[s] = "wire"
    /\ GFire[s] = "malformed"
    /\ Leave(s, "failed")

\* select takes ctx.Done; Shutdown closes the listener first.
TakeSignal(s) ==
    /\ runner[s] = "select"
    /\ s \in signalled
    /\ Run(s, "draining")
    /\ Listen(s, IF listener[s] = "serving" THEN "ended" ELSE listener[s])
    /\ UNCHANGED <<vars, handler, excuse>>

\* Fault: Shutdown does not wait for the handlers.
DrainAtOnce(s) ==
    /\ runner[s] = "draining"
    /\ Run(s, "closing")
    /\ UNCHANGED <<vars, listener, handler, excuse>>

\* Shutdown returns when the last handler is done.
Drain(s) ==
    /\ runner[s] = "draining"
    /\ InFlight(s) = {}
    /\ Run(s, "closing")
    /\ UNCHANGED <<vars, listener, handler, excuse>>

\* Fault: Shutdown gets a context without a deadline.
DrainTimesOutNever(s) ==
    /\ runner[s] = "draining"
    /\ InFlight(s) = {}
    /\ Run(s, "closing")
    /\ excuse' = [excuse EXCEPT ![s] = "timeout"]
    /\ UNCHANGED <<vars, listener, handler>>

\* The ten seconds are over; the error of Shutdown is dropped.
DrainTimesOut(s) ==
    /\ runner[s] = "draining"
    /\ InFlight(s) # {}
    /\ Run(s, "closing")
    /\ excuse' = [excuse EXCEPT ![s] = "timeout"]
    /\ UNCHANGED <<vars, listener, handler>>

\* Fault: the error of the listener is logged, and select waits on.
TakeErrorLogged(s) ==
    /\ runner[s] = "select"
    /\ listener[s] = "broken"
    /\ Listen(s, "ended")
    /\ UNCHANGED <<vars, runner, handler, excuse>>

\* select takes the error of the listener; nobody waits for the handlers.
TakeError(s) ==
    /\ runner[s] = "select"
    /\ listener[s] = "broken"
    /\ Run(s, "closing")
    /\ Listen(s, "ended")
    /\ excuse' = [excuse EXCEPT ![s] = "listener"]
    /\ UNCHANGED <<vars, handler>>

\* store.Close returns when no call holds a connection, and the process ends: with
\* the error of the listener if it was that which ended it.
End(s) ==
    /\ runner[s] = "closing"
    /\ Config[s].database => \A h \in Slot : handler[s][h] # "query"
    /\ Leave(s, IF excuse[s] = "listener" THEN "failed" ELSE "off")

-----------------------------------------------------------------------------
(* The goroutine of ListenAndServe                                         *)

Announce(s) ==
    /\ listener[s] = "start"
    /\ Listen(s, "announced")
    /\ UNCHANGED <<vars, runner, handler, excuse>>

AddressTaken(s) ==
    \E t \in Server \ {s} : Address[t] = Address[s] /\ listener[t] = "serving"

\* ListenAndServe after Shutdown returns ErrServerClosed, which is no error.
Bind(s) ==
    /\ listener[s] = "announced"
    /\ Listen(s, IF runner[s] # "select" THEN "ended"
                 ELSE IF AddressTaken(s) THEN "broken" ELSE "serving")
    /\ UNCHANGED <<vars, runner, handler, excuse>>

\* Accept fails for good.
AcceptFails(s) ==
    /\ listener[s] = "serving"
    /\ Trouble(s)
    /\ Listen(s, "broken")
    /\ UNCHANGED <<runner, handler, excuse>>

-----------------------------------------------------------------------------
(* The handlers.  A request may take a connection of the pool any number of *)
(* times, and may wait for GFire as long as it likes.                       *)

Accept(s, h) ==
    /\ listener[s] = "serving"
    /\ handler[s][h] = "free"
    /\ HandleAs(s, h, "busy")
    /\ UNCHANGED <<vars, runner, listener, excuse>>

PoolClosed(s) == runner[s] = "closing"

\* A store call; once the pool is closed it fails, and the request with it.
Query(s, h) ==
    /\ handler[s][h] = "busy"
    /\ Config[s].database
    /\ HandleAs(s, h, IF PoolClosed(s) THEN "told" ELSE "query")
    /\ UNCHANGED <<vars, runner, listener, excuse>>

QueryReturns(s, h) ==
    /\ handler[s][h] = "query"
    /\ HandleAs(s, h, "busy")
    /\ UNCHANGED <<vars, runner, listener, excuse>>

Finish(s, h) ==
    /\ handler[s][h] \in {"busy", "told"}
    /\ HandleAs(s, h, "free")
    /\ UNCHANGED <<vars, runner, listener, excuse>>

-----------------------------------------------------------------------------
ServerCrash(s) ==
    /\ Crash(s)
    /\ Vanish(s)
    /\ excuse' = [excuse EXCEPT ![s] = "crash"]

ServerSignal(s) == Signal(s) /\ UNCHANGED <<runner, listener, handler, excuse>>

CommandRuns(c) == CommandStep(c) /\ UNCHANGED <<runner, listener, handler, excuse>>

Runs(s) ==
    \/ Boot(s) \/ Wire(s) \/ WireFails(s)
    \/ TakeSignal(s) \/ Drain(s) \/ DrainTimesOut(s) \/ TakeError(s) \/ End(s)

Listens(s) == Announce(s) \/ Bind(s)

ServeNext ==
    \/ \E s \in Server :
         \/ Runs(s) \/ Listens(s) \/ AcceptFails(s) \/ ServerCrash(s) \/ ServerSignal(s)
         \/ \E h \in Slot : Accept(s, h) \/ Query(s, h) \/ QueryReturns(s, h) \/ Finish(s, h)
    \/ \E c \in Command : CommandRuns(c)
    \/ \E p \in Proc : BootFails(p)

ServeSpec == ServeInit /\ [][ServeNext]_serveVars

Down(s) == pc[s] \in {"off", "failed"}

\* Goroutines run, store calls return, and ten seconds pass.  Nothing starts a server
\* that is down, and nothing makes a handler finish: it may wait for GFire.
FairServeSpec ==
    /\ ServeSpec
    /\ \A s \in Server : WF_serveVars(~Down(s) /\ Runs(s)) /\ WF_serveVars(Listens(s))
    /\ \A s \in Server, h \in Slot : WF_serveVars(QueryReturns(s, h))

-----------------------------------------------------------------------------
\* Where each goroutine is fits where the process is.
ServeTypeOK ==
    /\ TypeOK
    /\ runner \in [Server -> Runner]
    /\ listener \in [Server -> Listener]
    /\ handler \in [Server -> [Slot -> Handling]]
    /\ excuse \in [Server -> Excuse]
    /\ \A s \in Server :
         /\ pc[s] = "ready" <=> runner[s] # "none"
         /\ listener[s] # "none" => runner[s] \notin {"none", "wire"}

\* A request is cut off, by a closed pool under its handler or by the end of the
\* process, only if the ten seconds of Shutdown ran out on it, the listener broke,
\* or the process was killed: a signal alone never cuts a request off.
CutOffNeedsExcuse ==
    \A s \in Server, h \in Slot : handler[s][h] \in {"told", "killed"} => excuse[s] # "none"

\* "the structured listening line after bind": whoever announces that it listens on
\* an address holds it.  The code does not ensure it.
AnnouncedIsBound == \A s \in Server : listener[s] = "announced" => ~AddressTaken(s)

-----------------------------------------------------------------------------
\* A signal ends the process, however long GFire keeps its handlers waiting.
SignalEnds == \A s \in Server : s \in signalled ~> Down(s)

\* A process whose listener broke does not stay as one that serves nobody: it ends.
BrokenEnds == \A s \in Server : listener[s] = "broken" ~> Down(s)

\* May the server come up at all?
CanServe(s) ==
    /\ GFire[s] # "malformed"
    /\ Config[s].database => Missing(Config[s]) \in {{}, Fields}

Starting(s) == (pc[s] = "open" \/ runner[s] = "wire") /\ s \notin signalled

\* A well configured server that is started, and meets with no mishap, comes to serve,
\* unless another process holds its address.  Only the race for the first account may
\* end it; it was then started with an empty table and leaves one with an account, so
\* that the loser comes up when it is started again.
StartComesUp ==
    \A s \in Server, n \in 0..MaxMishaps, empty \in BOOLEAN : CanServe(s) =>
        (Starting(s) /\ mishaps = n /\ TableIsEmpty = empty
            ~> \/ listener[s] = "serving" \/ AddressTaken(s) \/ mishaps > n
               \/ empty /\ ~TableIsEmpty /\ pc[s] = "failed")
=============================================================================

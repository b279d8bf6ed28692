---------------------------- MODULE ServerLifecycle ----------------------------
(***************************************************************************)
(* The life of one provider process: run of cmd/server/main.go, around the *)
(* connections of its net/http server.  It checks what it was started      *)
(* with, one dependency after the other (Startup), and serves.  A signal   *)
(* before that kills it; a later one starts Shutdown, which                *)
(* closes the listener and polls the connections until none is in use or   *)
(* its time is up; after it the deferred close of the state store runs,    *)
(* and the process exits under whatever handlers are left.                 *)
(*                                                                         *)
(* Time is kept in countdowns and ages.  The work of the program takes no  *)
(* time; calls and clients do, up to the timeouts below.                   *)
(***************************************************************************)
EXTENDS Startup

CONSTANTS
    Connections,
    Forgotten,      \* in place of the environment, once nothing reads it
    Grace,          \* of Shutdown: 15 seconds
    Budget,         \* requestBudget: 12 seconds
    HeaderTime,     \* ReadHeaderTimeout: 5 seconds
    ReadTime        \* ReadTimeout: 15 seconds

ASSUME TimeoutsAssumption == {Grace, Budget, HeaderTime, ReadTime} \subseteq Nat \ {0}
ASSUME GraceAssumption == Budget < Grace

VARIABLES
    main,       \* where run is: a stage, select, stopping, returning, closed, exited
    cause,      \* why it returns: the branch that its select took, or a failed start
    environ,    \* the environment it was started in
    store,      \* its transaction store: none, open or closed
    listener,   \* starting, open, closed, or failed with its error in serverErrors
    signalled,  \* the context of NotifyContext is done
    left,       \* the time left to Shutdown
    phase,      \* of each connection
    age,        \* how long the connection has waited for its header, or its handler has run
    untracked,  \* connections that Shutdown has closed although a request was on its way
    late        \* history: connections whose handler began after the select

processVars == <<main, cause, environ, store, listener, signalled, left>>
connectionVars == <<phase, age, untracked, late>>
vars == <<processVars, connectionVars>>

(***************************************************************************)
(* A connection is new until it has sent a header; its handler first reads *)
(* the form (body), then asks the store and the other services (work).     *)
(* Between requests it is idle; buffered, when the next request has        *)
(* arrived and the server still takes it for idle.                         *)
(***************************************************************************)
Phases == {"none", "new", "idle", "buffered", "body", "work"}

Init ==
    /\ main = "load" /\ cause = "none"
    /\ environ \in Environments
    /\ store = "none"
    /\ listener = "starting"
    /\ signalled = FALSE
    /\ left = 0
    /\ phase = [c \in Connections |-> "none"]
    /\ age = [c \in Connections |-> 0]
    /\ untracked = {} /\ late = {}

Alive == main # "exited"

Starting == main \in {"load", "state", "token", "store", "policy", "service"}

(* The process has come to its select: it listens, and waits for signals. *)
Started == Alive /\ ~Starting /\ cause # "start"

-------------------------------------------------------------------------------
(* The connections *)

Move(c, from, to) ==
    /\ Started
    /\ phase[c] \in from
    /\ phase' = [phase EXCEPT ![c] = to]

Accept(c) ==
    /\ listener = "open"
    /\ Move(c, {"none"}, "new")
    /\ age' = [age EXCEPT ![c] = 0]
    /\ UNCHANGED <<processVars, untracked, late>>

(* A request whose header is complete reaches its handler. *)
HandlerBegins(c) ==
    /\ Move(c, {"new", "buffered"}, "body")
    /\ age' = [age EXCEPT ![c] = 0]
    /\ late' = IF main = "select" THEN late \ {c} ELSE late \cup {c}
    /\ UNCHANGED <<processVars, untracked>>

(* ParseForm returns, or there is no form, within the budget of the request. *)
BodyRead(c) ==
    /\ age[c] < Budget
    /\ Move(c, {"body"}, "work")
    /\ UNCHANGED <<processVars, age, untracked, late>>

(***************************************************************************)
(* The handler returns: with an answer, or because its budget or the time  *)
(* for the form is up.  The server that shuts down keeps no connection.    *)
(***************************************************************************)
HandlerEnds(c) ==
    /\ Move(c, {"body", "work"}, IF main = "select" THEN "idle" ELSE "none")
    /\ age' = [age EXCEPT ![c] = 0]
    /\ untracked' = untracked \ {c}
    /\ UNCHANGED <<processVars, late>>

NextRequest(c) ==
    /\ Move(c, {"idle"}, "buffered")
    /\ UNCHANGED <<processVars, age, untracked, late>>

(* The client leaves, or ReadHeaderTimeout or IdleTimeout closes the connection. *)
Disconnect(c) ==
    /\ Move(c, {"new", "idle"}, "none")
    /\ age' = [age EXCEPT ![c] = 0]
    /\ UNCHANGED <<processVars, untracked, late>>

-------------------------------------------------------------------------------
(* run *)

(* A check passes, or a dependency is constructed; the environment is read for the last time. *)
Construct(stage, next) ==
    /\ main = stage
    /\ Passes(stage, environ)
    /\ main' = next
    /\ store' = IF stage = "store" THEN "open" ELSE store
    /\ environ' = IF next = "select" THEN Forgotten ELSE environ
    /\ UNCHANGED <<cause, listener, signalled, left, connectionVars>>

StartUp ==
    \/ Construct("load", "state")
    \/ Construct("state", "token")
    \/ Construct("token", "store")
    \/ Construct("store", "policy")
    \/ Construct("policy", "service")
    \/ Construct("service", "select")

(* MUTANT of StartFails: os.Exit where the error is found, past the deferred calls. *)
StartFails_Exits ==
    /\ Starting
    /\ ~Passes(main, environ)
    /\ cause' = "start"
    /\ main' = "exited"
    /\ UNCHANGED <<environ, store, listener, signalled, left, connectionVars>>

(* run returns the error of the check or the constructor. *)
StartFails ==
    /\ Starting
    /\ ~Passes(main, environ)
    /\ cause' = "start"
    /\ main' = "returning"
    /\ UNCHANGED <<environ, store, listener, signalled, left, connectionVars>>

Listen ==
    /\ Started /\ listener = "starting"
    /\ listener' = "open"
    /\ UNCHANGED <<main, cause, environ, store, signalled, left, connectionVars>>

(* ListenAndServe cannot bind its address, or cannot accept any more. *)
ServeFails ==
    /\ Started /\ listener \in {"starting", "open"}
    /\ listener' = "failed"
    /\ UNCHANGED <<main, cause, environ, store, signalled, left, connectionVars>>

(* SIGINT or SIGTERM; NotifyContext swallows the ones that follow. *)
Signal ==
    /\ Started /\ ~signalled
    /\ signalled' = TRUE
    /\ UNCHANGED <<main, cause, environ, store, listener, left, connectionVars>>

(* A signal before NotifyContext ends the process, and nothing is closed. *)
Killed ==
    /\ Alive /\ ~Started
    /\ signalled' = TRUE
    /\ cause' = "killed"
    /\ main' = "exited"
    /\ UNCHANGED <<environ, store, listener, left, connectionVars>>

Selected(branch) == main = "select" /\ cause' = branch

(* case err := <-serverErrors: nobody waits for the handlers. *)
ReturnError ==
    /\ Selected("serve")
    /\ listener = "failed"
    /\ main' = "returning"
    /\ UNCHANGED <<environ, store, listener, signalled, left, connectionVars>>

(* MUTANT of BeginShutdown: Shutdown has less time than a handler. *)
BeginShutdown_ShortGrace ==
    /\ Selected("shutdown")
    /\ signalled
    /\ main' = "stopping"
    /\ left' = HeaderTime
    /\ listener' = IF listener = "failed" THEN "failed" ELSE "closed"
    /\ UNCHANGED <<environ, store, signalled, connectionVars>>

(* MUTANT of BeginShutdown: the listener stays open until the server is idle. *)
BeginShutdown_WhenIdle ==
    /\ Selected("shutdown")
    /\ signalled
    /\ \A c \in Connections : phase[c] \in {"none", "idle"}
    /\ main' = "stopping"
    /\ left' = Grace
    /\ listener' = IF listener = "failed" THEN "failed" ELSE "closed"
    /\ UNCHANGED <<environ, store, signalled, connectionVars>>

(* case <-ctx.Done(): Shutdown closes the listener at once. *)
BeginShutdown ==
    /\ Selected("shutdown")
    /\ signalled
    /\ main' = "stopping"
    /\ left' = Grace
    /\ listener' = IF listener = "failed" THEN "failed" ELSE "closed"
    /\ UNCHANGED <<environ, store, signalled, connectionVars>>

LooksIdle(c) == c \in untracked \/ phase[c] \in {"none", "idle", "buffered"}

(***************************************************************************)
(* Shutdown closes the connections that look idle and returns when every   *)
(* one does.  It takes a new connection for one in use; ReadHeaderTimeout  *)
(* ends that before Shutdown would lose patience with it.                  *)
(***************************************************************************)
Poll ==
    /\ main = "stopping"
    /\ phase' = [c \in Connections |-> IF phase[c] = "idle" THEN "none" ELSE phase[c]]
    /\ untracked' = untracked \cup {c \in Connections : phase[c] = "buffered"}
    /\ main' = IF \A c \in Connections : LooksIdle(c) THEN "returning" ELSE "stopping"
    /\ UNCHANGED <<cause, environ, store, listener, signalled, left, age, late>>

ShutdownTimesOut ==
    /\ main = "stopping" /\ left = 0
    /\ main' = "returning"
    /\ UNCHANGED <<cause, environ, store, listener, signalled, left, connectionVars>>

(* The deferred calls of run: a store that was opened is closed, for the  *)
(* handlers that are left as well.                                       *)
CloseState ==
    /\ main = "returning"
    /\ main' = "closed"
    /\ store' = IF store = "open" THEN "closed" ELSE store
    /\ UNCHANGED <<cause, environ, listener, signalled, left, connectionVars>>

Exit ==
    /\ main = "closed"
    /\ main' = "exited"
    /\ UNCHANGED <<cause, environ, store, listener, signalled, left, connectionVars>>

-------------------------------------------------------------------------------
Deadline(c) ==
    CASE phase[c] = "new" -> HeaderTime
      [] phase[c] = "body" -> ReadTime
      [] phase[c] = "work" -> Budget

Waiting == {c \in Connections : phase[c] \in {"new", "body", "work"}}

(* Time passes, but not beyond a timeout that has struck. *)
Tick ==
    /\ Alive
    /\ \A c \in Waiting : age[c] < Deadline(c)
    /\ main = "stopping" => left > 0
    /\ left' = IF main = "stopping" THEN left - 1 ELSE left
    /\ age' = [c \in Connections |-> IF c \in Waiting THEN age[c] + 1 ELSE age[c]]
    /\ UNCHANGED <<main, cause, environ, store, listener, signalled, phase, untracked, late>>

RunStep ==
    \/ StartUp \/ StartFails
    \/ ReturnError \/ BeginShutdown \/ Poll \/ ShutdownTimesOut \/ CloseState \/ Exit

Next ==
    \/ \E c \in Connections :
        \/ Accept(c) \/ HandlerBegins(c) \/ BodyRead(c) \/ HandlerEnds(c)
        \/ NextRequest(c) \/ Disconnect(c)
    \/ Listen \/ ServeFails \/ Signal \/ Killed
    \/ RunStep
    \/ Tick

Spec == Init /\ [][Next]_vars

(***************************************************************************)
(* The main goroutine runs, time passes, and the timeouts end handlers and *)
(* silent connections.  Nothing makes a client send anything.              *)
(***************************************************************************)
Fairness ==
    /\ WF_vars(RunStep) /\ WF_vars(Tick)
    /\ \A c \in Connections : WF_vars(HandlerEnds(c)) /\ WF_vars(Disconnect(c))

FairSpec == Spec /\ Fairness

-------------------------------------------------------------------------------
(* Properties *)

(* Types of the process and of its connections. *)
TypeOK ==
    /\ main \in {"load", "state", "token", "store", "policy", "service",
                "select", "stopping", "returning", "closed", "exited"}
    /\ cause \in {"none", "start", "killed", "serve", "shutdown"}
    /\ environ \in Environments \cup {Forgotten}
    /\ store \in {"none", "open", "closed"}
    /\ listener \in {"starting", "open", "closed", "failed"}
    /\ signalled \in BOOLEAN
    /\ left \in Nat
    /\ phase \in [Connections -> Phases]
    /\ age \in [Connections -> Nat]
    /\ untracked \subseteq Connections
    /\ late \subseteq Connections

(***************************************************************************)
(* A process comes to serve in the environments that the operator is told  *)
(* to give it, and in no others but for the three rules of the document    *)
(* that Corrected names and no check of Load, Validate or run enforces:    *)
(* every other rule is, for the settings that it is about, and no check,   *)
(* nor a constructor that checks once more, refuses what another one has   *)
(* let through.                                                            *)
(***************************************************************************)
StartsAsDocumented ==
    [][ /\ Starting /\ main' = "select" => Documented(Corrected(environ))
        /\ Starting /\ main' = "returning" =>
               ~Documented(environ) /\ ~Documented(Corrected(environ)) ]_vars

(***************************************************************************)
(* However run returns, from a dependency that cannot be constructed to a  *)
(* Shutdown out of time, a store that it has opened is closed.             *)
(***************************************************************************)
OpenedIsClosed == main = "exited" /\ cause # "killed" => store # "open"

(***************************************************************************)
(* After a signal, the store is not closed and the process does not exit   *)
(* under a handler that had begun when Shutdown did: none stops between    *)
(* consuming a transaction and answering it (run, requestTimeout).  Those  *)
(* that can be cut short are late: the header of an accepted connection    *)
(* arrived, or a kept connection was used again, while Shutdown was at     *)
(* work; and every handler can be, when the listener fails.                *)
(***************************************************************************)
ServedBeforeClose ==
    main \in {"closed", "exited"} /\ cause = "shutdown" =>
        \A c \in Connections : phase[c] = "work" => c \in late

(***************************************************************************)
(* However busy the server is kept, a signal ends the process: clients     *)
(* that keep their connections, send headers slowly or never come to an    *)
(* end cannot hold it (run).                                               *)
(***************************************************************************)
SignalStops == signalled ~> main = "exited"

===============================================================================

----------------------------- MODULE BrowserBinding -----------------------------
(***************************************************************************)
(* How a transaction is tied to the browser that started it: the           *)
(* browser-state cookie of each flow (server.go, browserStateCookie and    *)
(* setBrowserStateCookie; service.go, startBrowserState), and the checks   *)
(* of load.  A browser has several tabs: its starts overlap, each carries  *)
(* the cookie the jar held when it was sent, and the replies come back in  *)
(* any order.  The link of a transaction, its handle and CSRF token, is an *)
(* address: any browser may come to open it, at the endpoint of any flow.  *)
(*                                                                         *)
(* Random tokens are fresh; expiry and the outcome of a completion are the *)
(* subject of other modules.                                               *)
(***************************************************************************)
EXTENDS FiniteSets

CONSTANTS
    Browsers, Flows,
    Handles, CSRFTokens, States,    \* the random values, of three kinds
    Calls,                          \* the starts that can be under way at once
    None

ASSUME NoneAssumption == None \notin Browsers \cup Handles \cup States \cup CSRFTokens

Unused == [flow |-> None, csrf |-> None, state |-> None, by |-> None]

VARIABLES
    jar,            \* browser, flow :> the value of its browser-state cookie
    call,           \* the starts under way
    transaction,    \* handle :> what the store holds; Unused: nothing yet
    minted,         \* the random values drawn so far
    links,          \* the links that were sent to browsers
    completed,      \* handle :> the browser that completed it
    raced           \* history: browser :> the flows whose first starts overlapped

bindingVars == <<jar, call, transaction, minted, links, completed, raced>>

Idle == [stage |-> "idle", browser |-> None, flow |-> None, cookie |-> None, handle |-> None]

BindingInit ==
    /\ jar = [b \in Browsers |-> [f \in Flows |-> None]]
    /\ call = [c \in Calls |-> Idle]
    /\ transaction = [h \in Handles |-> Unused]
    /\ minted = {}
    /\ links = {}
    /\ completed = [h \in Handles |-> None]
    /\ raced = [b \in Browsers |-> {}]

-------------------------------------------------------------------------------
(* Starts *)

(* A start of the browser for this flow is under way that carries no cookie. *)
FirstUnderWay(b, f) ==
    \E c \in Calls : call[c].browser = b /\ call[c].flow = f /\ call[c].cookie = None

(* The browser is sent to /login, /consent or /logout; it adds its cookie. *)
Navigate(c, b, f) ==
    /\ call[c] = Idle
    /\ call' = [call EXCEPT ![c] =
            [stage |-> "sent", browser |-> b, flow |-> f, cookie |-> jar[b][f], handle |-> None]]
    /\ raced' = IF jar[b][f] = None /\ FirstUnderWay(b, f)
                THEN [raced EXCEPT ![b] = @ \cup {f}] ELSE raced
    /\ UNCHANGED <<jar, transaction, minted, links, completed>>

(* MUTANT of startBrowserState: each transaction gets a state of its own. *)
startBrowserState_AlwaysNew(cookie) == States \ minted

(* A browser without the cookie gets a new state, another one keeps its state. *)
startBrowserState(cookie) == IF cookie = None THEN States \ minted ELSE {cookie}

(* The handler: a transaction is created, and the reply names it. *)
HandleStart(c) ==
    /\ call[c].stage = "sent"
    /\ \E h \in Handles, csrf \in CSRFTokens \ minted, state \in startBrowserState(call[c].cookie) :
        /\ transaction[h] = Unused
        /\ transaction' = [transaction EXCEPT ![h] =
                [flow |-> call[c].flow, csrf |-> csrf, state |-> state, by |-> call[c].browser]]
        /\ minted' = minted \cup {csrf, state}
        /\ call' = [call EXCEPT ![c].stage = "answered", ![c].handle = h]
    /\ UNCHANGED <<jar, links, completed, raced>>

(* Set-Cookie and the redirect reach the browser. *)
ReceiveStart(c) ==
    /\ call[c].stage = "answered"
    /\ LET b == call[c].browser  f == call[c].flow  h == call[c].handle IN
        /\ jar' = [jar EXCEPT ![b][f] = transaction[h].state]
        /\ links' = links \cup {[handle |-> h, csrf |-> transaction[h].csrf]}
    /\ call' = [call EXCEPT ![c] = Idle]
    /\ UNCHANGED <<transaction, minted, completed, raced>>

(* No transaction is needed, the handler fails, the reply is lost, or the user gives up. *)
StartFails(c) ==
    /\ call[c] # Idle
    /\ call' = [call EXCEPT ![c] = Idle]
    /\ UNCHANGED <<jar, transaction, minted, links, completed, raced>>

-------------------------------------------------------------------------------
(* Completions *)

(* MUTANT of validateBrowserState: any cookie will do. *)
validateBrowserState_Any(actual, expected) == actual # None

validateBrowserState(actual, expected) == actual # None /\ actual = expected

(* The checks of load, for a transaction that has not been consumed. *)
Completable(b, h, csrf, f) ==
    /\ transaction[h] # Unused /\ completed[h] = None
    /\ transaction[h].flow = f
    /\ transaction[h].csrf = csrf
    /\ validateBrowserState(jar[b][f], transaction[h].state)

(* The callback or the form of a flow, in any browser, with parts of links. *)
Complete(b, f) ==
    /\ \E one, other \in links :
        /\ Completable(b, one.handle, other.csrf, f)
        /\ completed' = [completed EXCEPT ![one.handle] = b]
    /\ UNCHANGED <<jar, call, transaction, minted, links, raced>>

(* The cookies have no expiry: they go with the browser, and so do its tabs. *)
CloseBrowser(b) ==
    /\ jar' = [jar EXCEPT ![b] = [f \in Flows |-> None]]
    /\ raced' = [raced EXCEPT ![b] = {}]
    /\ call' = [c \in Calls |-> IF call[c].browser = b THEN Idle ELSE call[c]]
    /\ UNCHANGED <<transaction, minted, links, completed>>

BindingNext ==
    \/ \E c \in Calls, b \in Browsers, f \in Flows : Navigate(c, b, f)
    \/ \E c \in Calls : HandleStart(c) \/ ReceiveStart(c) \/ StartFails(c)
    \/ \E b \in Browsers, f \in Flows : Complete(b, f)
    \/ \E b \in Browsers : CloseBrowser(b)

BindingSpec == BindingInit /\ [][BindingNext]_bindingVars

-------------------------------------------------------------------------------
(* Properties *)

(* Types of the variables; a start under way has been given what its stage needs. *)
BindingTypeOK ==
    /\ jar \in [Browsers -> [Flows -> States \cup {None}]]
    /\ call \in [Calls -> [stage : {"idle", "sent", "answered"}, browser : Browsers \cup {None},
                           flow : Flows \cup {None}, cookie : States \cup {None},
                           handle : Handles \cup {None}]]
    /\ \A c \in Calls :
        /\ call[c].stage = "idle" <=> call[c] = Idle
        /\ call[c].stage # "idle" => call[c].browser \in Browsers /\ call[c].flow \in Flows
        /\ call[c].stage = "answered" <=> call[c].handle \in Handles
        /\ call[c].stage = "answered" => transaction[call[c].handle] # Unused
    /\ transaction \in [Handles -> [flow : Flows, csrf : CSRFTokens, state : States, by : Browsers]
                                    \cup {Unused}]
    /\ minted \subseteq States \cup CSRFTokens
    /\ links \subseteq [handle : Handles, csrf : CSRFTokens]
    /\ completed \in [Handles -> Browsers \cup {None}]
    /\ raced \in [Browsers -> SUBSET Flows]

(***************************************************************************)
(* A transaction is only ever completed by the browser that started it,    *)
(* whoever learns of its link.                                             *)
(***************************************************************************)
CompletedByStarter ==
    \A h \in Handles : completed[h] # None => completed[h] = transaction[h].by

(* The browser holds the state of a transaction it has not completed yet. *)
Open(b, h) ==
    /\ transaction[h] # Unused /\ completed[h] = None
    /\ jar[b][transaction[h].flow] = transaction[h].state

(***************************************************************************)
(* A new tab does not break the others: a transaction that its browser can *)
(* complete stays so until it is completed or the browser is closed.  The  *)
(* exception is a browser whose first starts of the flow overlapped: they  *)
(* were sent without a cookie and mint a state each, and the later         *)
(* Set-Cookie orphans the transactions of the other one.                   *)
(***************************************************************************)
TabsCoexist ==
    [][\A b \in Browsers, h \in Handles :
          Open(b, h) /\ ~Open(b, h)' =>
            \/ completed'[h] # None
            \/ jar'[b] = [f \in Flows |-> None]
            \/ transaction[h].flow \in raced[b]]_bindingVars

===============================================================================

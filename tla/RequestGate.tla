------------------------------ MODULE RequestGate ------------------------------
(***************************************************************************)
(* How one provider process admits HTTP requests: requestAdmission and     *)
(* requestLimiter of internal/adapters/inbound/http/server.go.  A request  *)
(* first asks the token bucket, whose mutex is taken after the clock was   *)
(* read, then takes a slot of the channel inFlight without waiting.        *)
(*                                                                         *)
(* The bucket is counted in the time it takes to refill: it gains one unit *)
(* per tick and a request costs Cost units, so that parts of a token are   *)
(* integers (tokens = 1 in the code is tokens = Cost here).                *)
(***************************************************************************)
EXTENDS Integers, FiniteSets

CONSTANTS
    Requests,
    MaxInFlight,    \* maxInFlightRequests: the slots, and also the burst
    Cost,           \* ticks in 1 / requestRatePerSecond
    MaxTime         \* bound on the clock

ASSUME RequestsAssumption == IsFiniteSet(Requests)
ASSUME GateAssumption == MaxInFlight \in Nat \ {0} /\ Cost \in Nat \ {0}
ASSUME TimeAssumption == MaxTime \in Nat

Capacity == MaxInFlight * Cost

VARIABLES
    now,
    tokens, last,   \* requestLimiter
    inFlight,       \* the number of elements in the channel
    pc,
    readAt,         \* the clock value each request read before it locked
    latest,         \* history: the latest reading the limiter has used
    window          \* history: see OpenWindow

bucketVars == <<tokens, last>>
vars == <<now, bucketVars, inFlight, pc, readAt, latest, window>>

PCs == {"idle", "limit", "enter", "serve"}

(* A window starts at a moment; spent: what the limiter gave out since;    *)
(* stale: the requests that were past their clock reading already.         *)
Init ==
    /\ now = 0
    /\ tokens = Capacity
    /\ last = 0
    /\ inFlight = 0
    /\ pc = [r \in Requests |-> "idle"]
    /\ readAt = [r \in Requests |-> 0]
    /\ latest = 0
    /\ window = [start |-> 0, spent |-> 0, stale |-> 0]

Goto(r, from, to) == pc[r] = from /\ pc' = [pc EXCEPT ![r] = to]

Later(s, t) == IF s >= t THEN s ELSE t
Lesser(s, t) == IF s <= t THEN s ELSE t

-------------------------------------------------------------------------------
(* requestLimiter *)

(* MUTANT of Refill: the bucket has no bottom. *)
Refill_Uncapped(t) == tokens + (t - last)

(* A reading older than last takes tokens away. *)
Refill(t) == Lesser(Capacity, tokens + (t - last))

AllowGranted(t) ==
    /\ Refill(t) >= Cost
    /\ tokens' = Refill(t) - Cost
    /\ last' = t

(* MUTANT of AllowRefused: the token is taken before it is looked at. *)
AllowRefused_Spends(t) ==
    /\ Refill(t) < Cost
    /\ tokens' = Refill(t) - Cost
    /\ last' = t

AllowRefused(t) ==
    /\ Refill(t) < Cost
    /\ tokens' = Refill(t)
    /\ last' = t

-------------------------------------------------------------------------------
(* requestAdmission *)

(* A request arrives; allow reads the clock before it takes the mutex. *)
Arrive(r) ==
    /\ Goto(r, "idle", "limit")
    /\ readAt' = [readAt EXCEPT ![r] = now]
    /\ UNCHANGED <<now, bucketVars, inFlight, latest, window>>

(* allow, under the mutex; a refused request is answered 429 and is over. *)
Limit(r) ==
    /\ \/ /\ AllowGranted(readAt[r])
          /\ Goto(r, "limit", "enter")
          /\ window' = [window EXCEPT !.spent = @ + Cost]
       \/ /\ AllowRefused(readAt[r])
          /\ Goto(r, "limit", "idle")
          /\ UNCHANGED window
    /\ latest' = Later(latest, readAt[r])
    /\ readAt' = [readAt EXCEPT ![r] = 0]
    /\ UNCHANGED <<now, inFlight>>

(* The send to inFlight, or the default branch of the select: 429 again. *)
Enter(r) ==
    /\ \/ /\ inFlight < MaxInFlight
          /\ Goto(r, "enter", "serve")
          /\ inFlight' = inFlight + 1
       \/ /\ inFlight >= MaxInFlight
          /\ Goto(r, "enter", "idle")
          /\ UNCHANGED inFlight
    /\ UNCHANGED <<now, bucketVars, readAt, latest, window>>

(* MUTANT of Leave: a handler that panics keeps its slot. *)
Leave_Leaks(r) ==
    /\ Goto(r, "serve", "idle")
    /\ inFlight' \in {inFlight - 1, inFlight}
    /\ UNCHANGED <<now, bucketVars, readAt, latest, window>>

(***************************************************************************)
(* The handler returns, panics or has its context cancelled after          *)
(* requestBudget: the deferred receive runs in every case.                 *)
(***************************************************************************)
Leave(r) ==
    /\ Goto(r, "serve", "idle")
    /\ inFlight' = inFlight - 1
    /\ UNCHANGED <<now, bucketVars, readAt, latest, window>>

Tick ==
    /\ now < MaxTime
    /\ now' = now + 1
    /\ UNCHANGED <<bucketVars, inFlight, pc, readAt, latest, window>>

(* Requests whose clock reading is older than the moment t. *)
Stale(t) == {r \in Requests : pc[r] = "limit" /\ readAt[r] < t}

(* An observer starts to count, at any time. *)
OpenWindow ==
    /\ window' = [start |-> now, spent |-> 0, stale |-> Cardinality(Stale(now))]
    /\ UNCHANGED <<now, bucketVars, inFlight, pc, readAt, latest>>

Next ==
    \/ \E r \in Requests : Arrive(r) \/ Limit(r) \/ Enter(r) \/ Leave(r)
    \/ Tick \/ OpenWindow

Spec == Init /\ [][Next]_vars

(* The mutex is fair, and requestTimeout ends every handler. *)
Fairness == \A r \in Requests : WF_vars(Limit(r)) /\ WF_vars(Enter(r)) /\ WF_vars(Leave(r))

FairSpec == Spec /\ Fairness

-------------------------------------------------------------------------------
(* Properties *)

(* Types of the variables; tokens can fall below zero. *)
TypeOK ==
    /\ now \in Nat
    /\ tokens \in Int
    /\ last \in Nat
    /\ inFlight \in Nat
    /\ pc \in [Requests -> PCs]
    /\ readAt \in [Requests -> Nat]
    /\ latest \in Nat
    /\ window \in [start : Nat, spent : Nat, stale : Nat]

(***************************************************************************)
(* In every window of time the limiter lets through at most a burst, what  *)
(* it refills in the window, and the requests that had read the clock      *)
(* before the window: requestLimiter.allow reads the clock before it takes *)
(* the mutex, and a late request is served out of the past.                *)
(***************************************************************************)
WindowBound ==
    window.spent <= Capacity + (now - window.start) + Cost * window.stale

(***************************************************************************)
(* The limiter turns nobody away that it owes a token: when a request is   *)
(* refused whose clock reading is not older than one used before it, then  *)
(* the tokens refilled since the start of any window, up to a burst, were  *)
(* given out in that window.  Late requests, which make the bucket go back *)
(* in time and below zero, do no lasting harm to the others.               *)
(***************************************************************************)
RefusedOnlyWhenSpent ==
    [][\A r \in Requests :
          pc[r] = "limit" /\ pc'[r] = "idle" /\ readAt[r] >= latest =>
            window.spent + Cost > Lesser(Capacity, readAt[r] - window.start)]_vars

(***************************************************************************)
(* The channel holds one element for each request in service: no path out  *)
(* of requestAdmission leaks a slot or gives one back twice.               *)
(***************************************************************************)
SlotsMatchRequests == inFlight = Cardinality({r \in Requests : pc[r] = "serve"})

(***************************************************************************)
(* However many requests arrive, a full server has room again some time    *)
(* later: requestTimeout bounds the time a handler holds its slot.         *)
(***************************************************************************)
GateReopens == inFlight = MaxInFlight ~> inFlight < MaxInFlight

===============================================================================

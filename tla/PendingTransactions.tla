------------------------- MODULE PendingTransactions --------------------------
(***************************************************************************)
(* How one provider process creates, loads and consumes browser            *)
(* transactions: createTransaction, load and consume of                    *)
(* internal/core/application/service.go, called by concurrent HTTP         *)
(* requests, on top of the quota (TransactionAdmission) and of a           *)
(* transaction store that keeps what either store of                       *)
(* internal/adapters/outbound/state promises.                              *)
(*                                                                         *)
(* A request is one goroutine.  It takes a step at every point where       *)
(* another goroutine, the clock, the store's server or a crash can come    *)
(* in between: reading the clock, taking the mutex, calling the store.     *)
(***************************************************************************)
EXTENDS TransactionAdmission

CONSTANTS
    Requests,       \* concurrent browser requests
    Handles,        \* the opaque handles crypto/rand can return
    NoHandle,
    TTL,            \* TRANSACTION_TTL, in clock ticks
    MaxTime         \* bound on the clock

ASSUME RequestsAssumption == IsFiniteSet(Requests)
ASSUME HandlesAssumption == IsFiniteSet(Handles) /\ NoHandle \notin Handles
ASSUME TimeAssumption == TTL \in Nat \ {0} /\ MaxTime \in Nat

VARIABLES
    redis,          \* STATE_STORE.  TRUE: RedisStore, which is shared, outlives
                    \* the process and can lose a reply; FALSE: MemoryStore
    now,            \* the clock; every goroutine reads the same one
    store,          \* handle :> expiry of the entries the store holds
    origin,         \* history: what became of each handle, see Origins
    pc,             \* where each request is
    readAt,         \* the clock value each request read before it locked
    handle,         \* the handle each request created or was given
    expiresAt       \* the ExpiresAt of each request's transaction

localVars == <<pc, readAt, handle, expiresAt>>
vars == <<redis, admissionVars, now, store, origin, localVars>>

(***************************************************************************)
(* unused: never drawn.  stored: in the store, its creator has not         *)
(* committed it yet.  own: committed by this run of the process and handed *)
(* to the browser.  foreign: handed out by a run of the process that has   *)
(* crashed since.  orphan: stored, but its creator was told that Create    *)
(* failed, or crashed before it could commit.                              *)
(***************************************************************************)
Origins == {"unused", "stored", "own", "foreign", "orphan"}

PCs == {"idle", "clock", "reserve", "create", "commit", "cancel",
        "get", "checkGet", "loaded", "consume", "checkConsume", "release"}

(* The requests between reserve and the commit or cancel that settles it. *)
Reserving == {r \in Requests : pc[r] \in {"create", "commit", "cancel"}}

Init ==
    /\ redis \in BOOLEAN
    /\ AdmissionInit
    /\ now = 0
    /\ store = <<>>
    /\ origin = [h \in Handles |-> "unused"]
    /\ pc = [r \in Requests |-> "idle"]
    /\ readAt = [r \in Requests |-> 0]
    /\ handle = [r \in Requests |-> NoHandle]
    /\ expiresAt = [r \in Requests |-> 0]

Goto(r, from, to) == pc[r] = from /\ pc' = [pc EXCEPT ![r] = to]

(* The request returns, and its locals with it. *)
Finish(r, from) ==
    /\ Goto(r, from, "idle")
    /\ readAt' = [readAt EXCEPT ![r] = 0]
    /\ handle' = [handle EXCEPT ![r] = NoHandle]
    /\ expiresAt' = [expiresAt EXCEPT ![r] = 0]

Remove(h) == store' = Delete(store, h)

-------------------------------------------------------------------------------
(* createTransaction *)

(* A start handler computes ExpiresAt and calls createTransaction. *)
BeginCreate(r) ==
    /\ Goto(r, "idle", "clock")
    /\ expiresAt' = [expiresAt EXCEPT ![r] = now + TTL]
    /\ UNCHANGED <<admissionVars, now, store, origin, readAt, handle>>

(* reserve reads the clock before it locks, and refuses what has expired. *)
ReadClock(r) ==
    /\ IF expiresAt[r] > now
       THEN /\ Goto(r, "clock", "reserve")
            /\ readAt' = [readAt EXCEPT ![r] = now]
            /\ UNCHANGED <<handle, expiresAt>>
       ELSE Finish(r, "clock")
    /\ UNCHANGED <<admissionVars, now, store, origin>>

Reserve(r) ==
    /\ \/ /\ ReserveGranted(readAt[r])
          /\ Goto(r, "reserve", "create")
          /\ readAt' = [readAt EXCEPT ![r] = 0]
          /\ UNCHANGED <<handle, expiresAt>>
       \/ ReserveRefused(readAt[r]) /\ Finish(r, "reserve")
    /\ UNCHANGED <<now, store, origin>>

(***************************************************************************)
(* state.Create: both stores refuse an expired transaction before they     *)
(* draw a handle, and SetNX, like the map insert, only takes a new handle. *)
(***************************************************************************)
Stored(r, h) ==
    /\ expiresAt[r] > now
    /\ origin[h] = "unused"
    /\ store' = Put(store, h, expiresAt[r])

CreateStored(r) ==
    /\ Goto(r, "create", "commit")
    /\ \E h \in Handles :
        /\ Stored(r, h)
        /\ origin' = [origin EXCEPT ![h] = "stored"]
        /\ handle' = [handle EXCEPT ![r] = h]
    /\ UNCHANGED <<admissionVars, now, readAt, expiresAt>>

(* Create failed and stored nothing: full, expired, unreachable. *)
CreateFailed(r) ==
    /\ Goto(r, "create", "cancel")
    /\ UNCHANGED <<admissionVars, now, store, origin, readAt, handle, expiresAt>>

(* Redis stored the entry, and the client saw an error all the same. *)
CreateReplyLost(r) ==
    /\ redis
    /\ Goto(r, "create", "cancel")
    /\ \E h \in Handles : Stored(r, h) /\ origin' = [origin EXCEPT ![h] = "orphan"]
    /\ UNCHANGED <<admissionVars, now, readAt, handle, expiresAt>>

Commit(r) ==
    /\ Finish(r, "commit")
    /\ commit(handle[r], expiresAt[r])
    /\ origin' = [origin EXCEPT ![handle[r]] = "own"]
    /\ UNCHANGED <<now, store>>

Cancel(r) ==
    /\ Finish(r, "cancel")
    /\ cancel
    /\ UNCHANGED <<now, store, origin>>

-------------------------------------------------------------------------------
(* load and consume *)

(* The browser presents a handle it was given, however long ago. *)
BeginLoad(r) ==
    /\ Goto(r, "idle", "get")
    /\ \E h \in Handles :
        /\ origin[h] \in {"own", "foreign"}
        /\ handle' = [handle EXCEPT ![r] = h]
    /\ UNCHANGED <<admissionVars, now, store, origin, readAt, expiresAt>>

(* state.Get reads the entry; whether it has expired is looked up later. *)
Get(r) ==
    /\ IF handle[r] \in DOMAIN store
       THEN /\ Goto(r, "get", "checkGet")
            /\ expiresAt' = [expiresAt EXCEPT ![r] = store[handle[r]]]
       ELSE Goto(r, "get", "release") /\ UNCHANGED expiresAt         \* ErrReplay
    /\ UNCHANGED <<admissionVars, now, store, origin, readAt, handle>>

(* The expiry checks of Get and of load, of which the last one decides here;  *)
(* an expired entry stays stored.                                             *)
CheckGet(r) ==
    /\ Goto(r, "checkGet", IF expiresAt[r] > now THEN "loaded" ELSE "release")
    /\ UNCHANGED <<admissionVars, now, store, origin, readAt, handle, expiresAt>>

(* The handler goes on to consume ... *)
BeginConsume(r) ==
    /\ Goto(r, "loaded", "consume")
    /\ UNCHANGED <<admissionVars, now, store, origin, readAt, handle, expiresAt>>

(* ... or fails a check of its own and leaves the transaction pending. *)
Abandon(r) ==
    /\ Finish(r, "loaded")
    /\ UNCHANGED <<admissionVars, now, store, origin>>

(* state.Consume removes the entry in one step, expired or not. *)
Consume(r) ==
    /\ IF handle[r] \in DOMAIN store
       THEN Goto(r, "consume", "checkConsume") /\ Remove(handle[r])
       ELSE Goto(r, "consume", "release") /\ UNCHANGED store         \* ErrReplay
    /\ UNCHANGED <<admissionVars, now, origin, readAt, handle, expiresAt>>

(* MUTANT of CheckConsume: the slot of a removed transaction is not released. *)
CheckConsume_KeepsSlot(r) ==
    /\ Finish(r, "checkConsume")
    /\ UNCHANGED <<admissionVars, now, store, origin>>

(* Success and ErrExpiredTransaction both release the slot. *)
CheckConsume(r) ==
    /\ Goto(r, "checkConsume", "release")
    /\ UNCHANGED <<admissionVars, now, store, origin, readAt, handle, expiresAt>>

(* MUTANT of StoreError: the slot is released on every error. *)
StoreError_Releases(r) ==
    /\ redis
    /\ \/ Goto(r, "get", "release") /\ UNCHANGED store
       \/ Goto(r, "consume", "release") /\ (UNCHANGED store \/ Remove(handle[r]))
    /\ UNCHANGED <<admissionVars, now, origin, readAt, handle, expiresAt>>

(* Redis failed, before or after it ran the script: no slot is released. *)
StoreError(r) ==
    /\ redis
    /\ \/ Finish(r, "get") /\ UNCHANGED store
       \/ Finish(r, "consume") /\ (UNCHANGED store \/ Remove(handle[r]))
    /\ UNCHANGED <<admissionVars, now, origin>>

Release(r) ==
    /\ Finish(r, "release")
    /\ release(handle[r])
    /\ UNCHANGED <<now, store, origin>>

-------------------------------------------------------------------------------
(* The environment *)

Tick ==
    /\ now < MaxTime
    /\ now' = now + 1
    /\ UNCHANGED <<admissionVars, store, origin, localVars>>

(* MemoryStore.Create sweeps its map when it is full. *)
MemorySweep ==
    /\ ~redis
    /\ \E h \in DOMAIN store : store[h] <= now /\ Remove(h)
    /\ UNCHANGED <<admissionVars, now, origin, localVars>>

(* Redis drops a key whose TTL ran out (up to a millisecond before the expiry, *)
(* see RedisStore); another replica consumes a live one.                      *)
RedisRemoves ==
    /\ redis
    /\ \E h \in DOMAIN store : Remove(h)
    /\ UNCHANGED <<admissionVars, now, origin, localVars>>

(* The process dies and starts again; only Redis still has its entries. *)
Restart ==
    /\ reserved' = 0
    /\ active' = <<>>
    /\ store' = IF redis THEN store ELSE <<>>
    /\ origin' = [h \in Handles |-> CASE origin[h] = "stored" -> "orphan"
                                      [] origin[h] = "own" -> "foreign"
                                      [] OTHER -> origin[h]]
    /\ pc' = [r \in Requests |-> "idle"]
    /\ readAt' = [r \in Requests |-> 0]
    /\ handle' = [r \in Requests |-> NoHandle]
    /\ expiresAt' = [r \in Requests |-> 0]
    /\ UNCHANGED now

CreateStep(r) ==
    BeginCreate(r) \/ ReadClock(r) \/ Reserve(r) \/ CreateStored(r) \/ CreateFailed(r)
        \/ CreateReplyLost(r) \/ Commit(r) \/ Cancel(r)

LoadStep(r) ==
    BeginLoad(r) \/ Get(r) \/ CheckGet(r) \/ BeginConsume(r) \/ Abandon(r) \/ Consume(r)
        \/ CheckConsume(r) \/ StoreError(r) \/ Release(r)

Next ==
    /\ \/ \E r \in Requests : CreateStep(r) \/ LoadStep(r)
       \/ Tick \/ MemorySweep \/ RedisRemoves \/ Restart
    /\ UNCHANGED redis

Spec == Init /\ [][Next]_vars

-------------------------------------------------------------------------------
(* Properties *)

(* A map from some of the handles to their expiries. *)
IsSlots(f) == DOMAIN f \subseteq Handles /\ f \in [DOMAIN f -> Nat]

(* Types of the variables of this module and of the quota. *)
TypeOK ==
    /\ redis \in BOOLEAN
    /\ reserved \in Nat
    /\ IsSlots(active)
    /\ now \in Nat
    /\ IsSlots(store)
    /\ origin \in [Handles -> Origins]
    /\ pc \in [Requests -> PCs]
    /\ readAt \in [Requests -> Nat]
    /\ handle \in [Requests -> Handles \cup {NoHandle}]
    /\ expiresAt \in [Requests -> Nat]

(***************************************************************************)
(* The quota is never exceeded, however reserve, commit, cancel and        *)
(* release of concurrent requests interleave and whenever the process      *)
(* restarts: commit adds to the map without looking at its size.           *)
(***************************************************************************)
QuotaBound == Occupied(active) <= MaxPending

(***************************************************************************)
(* Every reservation belongs to exactly one createTransaction in progress  *)
(* and every one of those holds a reservation: the deferred cancel of      *)
(* createTransaction neither leaks a slot nor gives one back twice, and    *)
(* the tests "reserved > 0" of commit and cancel never hide a mistake.     *)
(***************************************************************************)
ReservationsAreCreates == reserved = Cardinality(Reserving)

(* Entries this run of the process put in the store and knows about. *)
LiveOwn == {h \in DOMAIN store : store[h] > now /\ origin[h] \in {"stored", "own"}}

(***************************************************************************)
(* What the quota is for: the live transactions of this run of the process *)
(* number at most MaxPending.  It depends on no live transaction losing    *)
(* its slot: not to a sweep with a clock read before the lock, not to      *)
(* release called after a failed load, not to a late commit.               *)
(***************************************************************************)
LiveTransactionsBounded == Cardinality(LiveOwn) <= MaxPending

(***************************************************************************)
(* A request is turned away only when MaxPending slots were taken by       *)
(* transactions that had not expired when the request read its clock, or   *)
(* by creations that really are in progress: neither dead entries nor a    *)
(* reservation that some failed creation left behind exhaust the quota.    *)
(* (A step to an empty quota is a restart, which refuses nobody.)          *)
(***************************************************************************)
RefusedOnlyWhenFull ==
    [][\A r \in Requests :
          pc[r] = "reserve" /\ pc'[r] = "idle" /\ <<reserved', active'>> # <<0, <<>>>> =>
            Cardinality({h \in DOMAIN active : active[h] > readAt[r]})
              + Cardinality(Reserving) >= MaxPending]_vars

(***************************************************************************)
(* With the in-memory store a slot that has not expired stands for a       *)
(* transaction that can still be completed, or for one whose consumer is   *)
(* about to release it: no path through load, consume and their errors     *)
(* leaves a slot behind that keeps browsers out until it expires.  (With   *)
(* Redis it can: consume releases nothing after an error, and another      *)
(* replica's consume never reaches this process's quota.)                  *)
(***************************************************************************)
NoDeadSlots ==
    ~redis => \A h \in DOMAIN active : active[h] > now /\ h \notin DOMAIN store =>
        \E r \in Requests : handle[r] = h /\ pc[r] \in {"checkConsume", "release"}

===============================================================================

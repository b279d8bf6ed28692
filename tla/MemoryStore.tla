------------------------------ MODULE MemoryStore ------------------------------
(***************************************************************************)
(* internal/adapters/outbound/state/memory.go, called by concurrent        *)
(* requests.  Each critical section of s.mu is one step; the clock is read *)
(* outside every one of them: before the lock in Create, after the unlock  *)
(* in Get and Consume.                                                     *)
(***************************************************************************)
EXTENDS Integers, FiniteSets, Functions

CONSTANTS
    Callers,        \* concurrent calls of the store
    Handles,        \* what randomHandle can return
    NoHandle,
    MaxEntries,     \* MemoryStore.maxEntries
    MaxTTL,         \* callers create transactions that live 1 .. MaxTTL ticks
    MaxTime         \* bound on the clock

ASSUME MemoryStoreAssumption ==
    /\ NoHandle \notin Handles
    /\ IsFiniteSet(Handles)
    /\ MaxEntries \in Nat \ {0}
    /\ MaxTTL \in Nat /\ MaxTime \in Nat

VARIABLES
    now,
    data,           \* MemoryStore.data, as handle :> ExpiresAt
    issued,         \* history: ExpiresAt of every handle Create stored
    uses,           \* history: how often Consume returned each transaction
    pc,
    readAt,         \* the clock value Create read before it locked
    expiresAt,      \* ExpiresAt of the caller's copy of the transaction
    key,            \* the handle the caller gave to Get or Consume
    tries           \* attempts Create has left

localVars == <<pc, readAt, expiresAt, key, tries>>
vars == <<now, data, issued, uses, localVars>>

Init ==
    /\ now = 0
    /\ data = <<>>
    /\ issued = <<>>
    /\ uses = [h \in Handles |-> 0]
    /\ pc = [c \in Callers |-> "idle"]
    /\ readAt = [c \in Callers |-> 0]
    /\ expiresAt = [c \in Callers |-> 0]
    /\ key = [c \in Callers |-> NoHandle]
    /\ tries = [c \in Callers |-> 0]

Put(f, h, e) == [g \in DOMAIN f \cup {h} |-> IF g = h THEN e ELSE f[g]]

Goto(c, from, to) == pc[c] = from /\ pc' = [pc EXCEPT ![c] = to]

Return(c, from) ==
    /\ Goto(c, from, "idle")
    /\ readAt' = [readAt EXCEPT ![c] = 0]
    /\ expiresAt' = [expiresAt EXCEPT ![c] = 0]
    /\ key' = [key EXCEPT ![c] = NoHandle]
    /\ tries' = [tries EXCEPT ![c] = 0]

(* MUTANT of removeExpiredLocked: what expires next is swept already. *)
removeExpiredLocked_Early(t) == RestrictValues(data, LAMBDA e : e > t + 1)

removeExpiredLocked(t) == RestrictValues(data, LAMBDA e : e > t)

-------------------------------------------------------------------------------
(***************************************************************************)
(* Create reads the clock and refuses a transaction that has expired.  Its *)
(* caller computed ExpiresAt earlier, from a clock that may have moved on. *)
(***************************************************************************)
BeginCreate(c) ==
    /\ Goto(c, "idle", "create")
    /\ \E ttl \in 1 .. MaxTTL : expiresAt' = [expiresAt EXCEPT ![c] = now + ttl]
    /\ readAt' = [readAt EXCEPT ![c] = now]
    /\ tries' = [tries EXCEPT ![c] = 3]
    /\ UNCHANGED <<now, data, issued, uses, key>>

(* The map Create works on: it sweeps a full one, once per attempt. *)
Swept(t) == IF Cardinality(DOMAIN data) >= MaxEntries THEN removeExpiredLocked(t) ELSE data

CreateFull(c) ==
    /\ Return(c, "create")
    /\ tries[c] > 0
    /\ Cardinality(DOMAIN Swept(readAt[c])) >= MaxEntries
    /\ data' = Swept(readAt[c])
    /\ UNCHANGED <<now, issued, uses>>

(* 256 random bits: a handle is new, or collides with one that is stored. *)
CreateInsert(c) ==
    /\ Return(c, "create")
    /\ tries[c] > 0
    /\ Cardinality(DOMAIN Swept(readAt[c])) < MaxEntries
    /\ \E h \in Handles \ DOMAIN issued :
        /\ data' = Put(Swept(readAt[c]), h, expiresAt[c])
        /\ issued' = Put(issued, h, expiresAt[c])
    /\ UNCHANGED <<now, uses>>

CreateCollision(c) ==
    /\ pc[c] = "create" /\ tries[c] > 0
    /\ Cardinality(DOMAIN Swept(readAt[c])) < MaxEntries
    /\ DOMAIN Swept(readAt[c]) # {}
    /\ data' = Swept(readAt[c])
    /\ tries' = [tries EXCEPT ![c] = @ - 1]
    /\ UNCHANGED <<now, issued, uses, pc, readAt, expiresAt, key>>

(* No attempt is left, or randomHandle failed. *)
CreateGivesUp(c) ==
    /\ Return(c, "create")
    /\ UNCHANGED <<now, data, issued, uses>>

-------------------------------------------------------------------------------
(* Get and Consume are given a handle the store has issued. *)
BeginWith(c, to) ==
    /\ Goto(c, "idle", to)
    /\ \E h \in DOMAIN issued : key' = [key EXCEPT ![c] = h]
    /\ UNCHANGED <<now, data, issued, uses, readAt, expiresAt, tries>>

BeginGet(c) == BeginWith(c, "get")
BeginConsume(c) == BeginWith(c, "consume")

(* ErrReplay: the handle is not in the map. *)
NotFound(c, from) ==
    /\ key[c] \notin DOMAIN data
    /\ Return(c, from)
    /\ UNCHANGED <<now, data, issued, uses>>

Found(c, from, to) ==
    /\ key[c] \in DOMAIN data
    /\ Goto(c, from, to)
    /\ expiresAt' = [expiresAt EXCEPT ![c] = data[key[c]]]
    /\ UNCHANGED <<now, issued, uses, readAt, key, tries>>

GetLocked(c) == NotFound(c, "get") \/ (Found(c, "get", "checkGet") /\ UNCHANGED data)

(* The copy is returned if it has not expired, ErrExpiredTransaction else. *)
GetReturns(c) ==
    /\ Return(c, "checkGet")
    /\ UNCHANGED <<now, data, issued, uses>>

ConsumeLocked(c) ==
    \/ NotFound(c, "consume")
    \/ /\ Found(c, "consume", "checkConsume")
       /\ data' = Restrict(data, DOMAIN data \ {key[c]})

(* MUTANT of ConsumeReturns: the expiry is only looked at by Get. *)
ConsumeReturns_Expired(c) ==
    /\ Return(c, "checkConsume")
    /\ uses' = [uses EXCEPT ![key[c]] = @ + 1]
    /\ UNCHANGED <<now, data, issued>>

(* Expired: the entry is gone and nobody was given it. *)
ConsumeReturns(c) ==
    /\ Return(c, "checkConsume")
    /\ uses' = IF expiresAt[c] > now THEN [uses EXCEPT ![key[c]] = @ + 1] ELSE uses
    /\ UNCHANGED <<now, data, issued>>

-------------------------------------------------------------------------------
Tick ==
    /\ now < MaxTime
    /\ now' = now + 1
    /\ UNCHANGED <<data, issued, uses, localVars>>

CallStep(c) ==
    \/ BeginCreate(c) \/ CreateFull(c) \/ CreateInsert(c) \/ CreateCollision(c)
    \/ CreateGivesUp(c) \/ BeginGet(c) \/ GetLocked(c) \/ GetReturns(c)
    \/ BeginConsume(c) \/ ConsumeLocked(c) \/ ConsumeReturns(c)

Next == Tick \/ \E c \in Callers : CallStep(c)

Spec == Init /\ [][Next]_vars

-------------------------------------------------------------------------------
(* Properties *)

IsEntries(f) == DOMAIN f \subseteq Handles /\ f \in [DOMAIN f -> Nat]

(* Types of the store, its callers and the history. *)
TypeOK ==
    /\ now \in Nat
    /\ IsEntries(data)
    /\ IsEntries(issued)
    /\ uses \in [Handles -> Nat]
    /\ pc \in [Callers -> {"idle", "create", "get", "checkGet", "consume", "checkConsume"}]
    /\ readAt \in [Callers -> Nat]
    /\ expiresAt \in [Callers -> Nat]
    /\ key \in [Callers -> Handles \cup {NoHandle}]
    /\ tries \in [Callers -> 0 .. 3]

(***************************************************************************)
(* A live transaction is pending until the consumer that removed it looks  *)
(* at the clock.                                                           *)
(***************************************************************************)
Removed == {key[c] : c \in {d \in Callers : pc[d] = "checkConsume"}}
Pending == {h \in DOMAIN data \cup Removed : issued[h] > now}

Port == INSTANCE TransactionStore
            WITH pending <- Pending, Expiries <- 0 .. MaxTime + MaxTTL, Early <- 0, Lossy <- FALSE

(***************************************************************************)
(* The store keeps the promise of its port: each transaction is consumed   *)
(* at most once and before it expires, however calls interleave and        *)
(* although the clock is read outside the lock, and no live transaction is *)
(* lost to a sweep that uses an old clock reading.                         *)
(***************************************************************************)
ImplementsPort == Port!Spec

(***************************************************************************)
(* The map never holds more than MaxEntries: no insertion is based on a    *)
(* count taken under an earlier hold of the lock.                          *)
(***************************************************************************)
CapacityBound == Cardinality(DOMAIN data) <= MaxEntries

(***************************************************************************)
(* Whoever is told ErrReplay presented a transaction that was consumed,    *)
(* that has expired, or that another caller has just removed.              *)
(***************************************************************************)
ReplayIsTruthful ==
    [][\A c \in Callers : pc[c] \in {"get", "consume"} /\ pc'[c] = "idle" =>
          \/ uses[key[c]] = 1
          \/ issued[key[c]] <= now
          \/ \E d \in Callers \ {c} : pc[d] = "checkConsume" /\ key[d] = key[c]]_vars

===============================================================================

--------------------------- MODULE MemoryStoreProofs ---------------------------
(***************************************************************************)
(* Proof that MemoryStore implements TransactionStore within its capacity, *)
(* for any number of callers, handles and entries.                         *)
(***************************************************************************)
EXTENDS MemoryStore, FiniteSetTheorems, TLAPS

-------------------------------------------------------------------------------
(* The operations of the map *)

(* removeExpiredLocked keeps exactly the entries that have not expired. *)
LEMMA SweepKeepsLive ==
    ASSUME NEW t, IsEntries(data)
    PROVE  /\ IsEntries(removeExpiredLocked(t))
           /\ DOMAIN removeExpiredLocked(t) = {h \in DOMAIN data : data[h] > t}
           /\ \A h \in DOMAIN removeExpiredLocked(t) : removeExpiredLocked(t)[h] = data[h]
  BY DEF removeExpiredLocked, RestrictValues, Restrict, IsEntries

(* Create loses an entry only if it has expired, and never invents one. *)
LEMMA SweptKeepsLive ==
    ASSUME NEW t, IsEntries(data)
    PROVE  /\ IsEntries(Swept(t))
           /\ DOMAIN Swept(t) \subseteq DOMAIN data
           /\ \A h \in DOMAIN data : data[h] > t => h \in DOMAIN Swept(t)
           /\ \A h \in DOMAIN Swept(t) : Swept(t)[h] = data[h]
  BY SweepKeepsLive DEF Swept

(* A map write adds its handle and touches no other. *)
LEMMA PutEntry ==
    ASSUME NEW f, IsEntries(f), NEW h \in Handles, NEW e \in Nat
    PROVE  /\ IsEntries(Put(f, h, e))
           /\ DOMAIN Put(f, h, e) = DOMAIN f \cup {h}
           /\ Put(f, h, e)[h] = e
           /\ \A x \in DOMAIN f \ {h} : Put(f, h, e)[x] = f[x]
  BY DEF Put, IsEntries

(* delete removes its handle and touches no other. *)
LEMMA DeleteEntry ==
    ASSUME NEW f, IsEntries(f), NEW h
    PROVE  /\ IsEntries(Restrict(f, DOMAIN f \ {h}))
           /\ DOMAIN Restrict(f, DOMAIN f \ {h}) = DOMAIN f \ {h}
           /\ \A x \in DOMAIN f \ {h} : Restrict(f, DOMAIN f \ {h})[x] = f[x]
  BY DEF Restrict, IsEntries

-------------------------------------------------------------------------------
(* Types *)

(* What a call has been given: its own handle, or one of the store. *)
GivenHandle == \A c \in Callers : pc[c] \in {"get", "consume", "checkConsume"} => key[c] \in DOMAIN issued

TypeInv == TypeOK /\ GivenHandle

(* The initial state is well typed. *)
LEMMA TypeInit == Init => TypeInv
  BY DEF Init, TypeInv, TypeOK, GivenHandle, IsEntries

(* Every step of a call keeps the types. *)
LEMMA CallType ==
    ASSUME TypeInv, NEW c \in Callers, CallStep(c)
    PROVE  TypeInv'
<1> USE MemoryStoreAssumption DEF TypeInv, TypeOK, GivenHandle, Goto, Return
<1>1. CASE BeginCreate(c)
  BY <1>1 DEF BeginCreate, IsEntries
<1>2. CASE CreateFull(c)
  BY <1>2, SweptKeepsLive DEF CreateFull, IsEntries
<1>3. CASE CreateInsert(c)
  <2>1. PICK h \in Handles \ DOMAIN issued :
            /\ data' = Put(Swept(readAt[c]), h, expiresAt[c])
            /\ issued' = Put(issued, h, expiresAt[c])
    BY <1>3 DEF CreateInsert
  <2>2. IsEntries(data') /\ IsEntries(issued') /\ DOMAIN issued \subseteq DOMAIN issued'
    <3>1. IsEntries(Swept(readAt[c])) /\ expiresAt[c] \in Nat
      BY SweptKeepsLive
    <3>2. IsEntries(data')
      BY <2>1, <3>1, PutEntry
    <3>3. IsEntries(issued') /\ DOMAIN issued' = DOMAIN issued \cup {h}
      BY <2>1, <3>1, PutEntry, IsEntries(issued)
    <3> QED
      BY <3>2, <3>3
  <2> QED
    BY <1>3, <2>2 DEF CreateInsert, IsEntries
<1>4. CASE CreateCollision(c)
  BY <1>4, SweptKeepsLive DEF CreateCollision, IsEntries
<1>5. CASE CreateGivesUp(c)
  BY <1>5 DEF CreateGivesUp, IsEntries
<1>6. CASE BeginGet(c) \/ BeginConsume(c)
  BY <1>6 DEF BeginGet, BeginConsume, BeginWith, IsEntries
<1>7. CASE GetLocked(c)
  BY <1>7 DEF GetLocked, NotFound, Found, IsEntries
<1>8. CASE ConsumeLocked(c)
  <2>1. CASE NotFound(c, "consume")
    BY <2>1 DEF NotFound, IsEntries
  <2>2. CASE /\ Found(c, "consume", "checkConsume")
             /\ data' = Restrict(data, DOMAIN data \ {key[c]})
    <3>1. IsEntries(data')
      BY <2>2, DeleteEntry
    <3> QED
      BY <2>2, <3>1 DEF Found, IsEntries
  <2> QED
    BY <1>8, <2>1, <2>2 DEF ConsumeLocked
<1>9. CASE GetReturns(c)
  BY <1>9 DEF GetReturns, IsEntries
<1>10. CASE ConsumeReturns(c)
  BY <1>10 DEF ConsumeReturns, IsEntries
<1> QED
  BY <1>1, <1>2, <1>3, <1>4, <1>5, <1>6, <1>7, <1>8, <1>9, <1>10 DEF CallStep

(* Every step keeps the types. *)
LEMMA TypeStep == TypeInv /\ [Next]_vars => TypeInv'
<1> SUFFICES ASSUME TypeInv, [Next]_vars PROVE TypeInv'
  OBVIOUS
<1>1. CASE Tick
  BY <1>1 DEF Tick, TypeInv, TypeOK, GivenHandle, IsEntries, localVars
<1>2. CASE UNCHANGED vars
  BY <1>2 DEF vars, TypeInv, TypeOK, GivenHandle, IsEntries, localVars
<1> QED
  BY <1>1, <1>2, CallType DEF Next

(* Every variable of the store and of its callers keeps its type. *)
THEOREM MemoryTypeCorrect == Spec => []TypeOK
  BY TypeInit, TypeStep, PTL DEF Spec, TypeInv

-------------------------------------------------------------------------------
(* Capacity *)

(* The map of a well-typed store is finite, and a sweep does not make it larger. *)
LEMMA SweptSize ==
    ASSUME IsEntries(data), NEW t
    PROVE  /\ IsFiniteSet(DOMAIN data) /\ Cardinality(DOMAIN data) \in Nat
           /\ IsFiniteSet(DOMAIN Swept(t)) /\ Cardinality(DOMAIN Swept(t)) \in Nat
           /\ Cardinality(DOMAIN Swept(t)) <= Cardinality(DOMAIN data)
<1>1. IsFiniteSet(DOMAIN data)
  BY FS_Subset, MemoryStoreAssumption DEF IsEntries
<1>2. DOMAIN Swept(t) \subseteq DOMAIN data
  BY SweptKeepsLive
<1> QED
  BY <1>1, <1>2, FS_Subset, FS_CardinalityType

(* A call never brings the map over its capacity: it inserts under the lock. *)
LEMMA CallCapacity ==
    ASSUME TypeOK, CapacityBound, NEW c \in Callers, CallStep(c)
    PROVE  CapacityBound'
<1> USE DEF CapacityBound
<1>0. IsEntries(data) /\ Cardinality(DOMAIN data) \in Nat /\ IsFiniteSet(DOMAIN data)
  BY SweptSize DEF TypeOK
<1>1. CASE CreateFull(c) \/ CreateCollision(c)
  <2>1. data' = Swept(readAt[c])
    BY <1>1 DEF CreateFull, CreateCollision
  <2> QED
    BY <1>0, <2>1, SweptSize, MemoryStoreAssumption
<1>2. CASE CreateInsert(c)
  <2>1. PICK h \in Handles \ DOMAIN issued : data' = Put(Swept(readAt[c]), h, expiresAt[c])
    BY <1>2 DEF CreateInsert
  <2>2. IsFiniteSet(DOMAIN Swept(readAt[c])) /\ Cardinality(DOMAIN Swept(readAt[c])) \in Nat
    BY <1>0, SweptSize
  <2>3. DOMAIN data' = DOMAIN Swept(readAt[c]) \cup {h}
    BY <2>1 DEF Put
  <2>4. Cardinality(DOMAIN data') \in {Cardinality(DOMAIN Swept(readAt[c])),
                                       Cardinality(DOMAIN Swept(readAt[c])) + 1}
    <3>1. Cardinality(DOMAIN Swept(readAt[c]) \cup {h}) =
            IF h \in DOMAIN Swept(readAt[c]) THEN Cardinality(DOMAIN Swept(readAt[c]))
                                             ELSE Cardinality(DOMAIN Swept(readAt[c])) + 1
      BY <2>2, FS_AddElement, Zenon
    <3> QED
      BY <2>3, <3>1
  <2>5. Cardinality(DOMAIN Swept(readAt[c])) < MaxEntries
    BY <1>2 DEF CreateInsert
  <2> QED
    BY <2>2, <2>4, <2>5, MemoryStoreAssumption
<1>3. CASE ConsumeLocked(c)
  <2>1. DOMAIN data' \subseteq DOMAIN data
    BY <1>3 DEF ConsumeLocked, NotFound, Found, Restrict
  <2> QED
    BY <1>0, <2>1, FS_Subset, FS_CardinalityType, MemoryStoreAssumption
<1>4. CASE UNCHANGED data
  BY <1>4
<1> QED
  BY <1>1, <1>2, <1>3, <1>4
  DEF CallStep, BeginCreate, CreateGivesUp, BeginGet, BeginConsume, BeginWith,
      GetLocked, NotFound, GetReturns, ConsumeReturns

(***************************************************************************)
(* The map of MemoryStore never holds more than maxEntries transactions,   *)
(* for any number of concurrent calls of Create.                           *)
(***************************************************************************)
THEOREM CapacityKept == Spec => []CapacityBound
<1>1. Init => CapacityBound
  <2> SUFFICES ASSUME Init PROVE CapacityBound
    OBVIOUS
  <2>1. DOMAIN data = {}
    BY DEF Init
  <2> QED
    BY <2>1, FS_EmptySet, MemoryStoreAssumption DEF CapacityBound
<1>2. TypeOK /\ CapacityBound /\ [Next]_vars => CapacityBound'
  BY CallCapacity DEF Next, Tick, vars, CapacityBound
<1> QED
  BY <1>1, <1>2, MemoryTypeCorrect, PTL DEF Spec

-------------------------------------------------------------------------------
(***************************************************************************)
(* The implementation of the port                                          *)
(*                                                                         *)
(* A transaction is pending for the port until its consumer has looked at  *)
(* the clock.  LedgerInv says what becomes of it on the way: it is in the  *)
(* map, with the expiry it was created with, until a consumer takes it out *)
(* or a sweep finds that it had expired at an earlier time; and only the   *)
(* one consumer that took it out can count it as used.                     *)
(***************************************************************************)
Removing(c, h) == pc[c] = "checkConsume" /\ key[c] = h

ClockInv ==
    /\ now <= MaxTime
    /\ \A c \in Callers :
        /\ readAt[c] <= now
        /\ pc[c] = "create" => expiresAt[c] <= MaxTime + MaxTTL

EntriesInv == \A h \in DOMAIN data : h \in DOMAIN issued /\ data[h] = issued[h] /\ uses[h] = 0

RemovedInv ==
    \A c \in Callers, h \in Handles :
        Removing(c, h) =>
            /\ h \notin DOMAIN data /\ uses[h] = 0
            /\ expiresAt[c] = issued[h]
            /\ \A d \in Callers : Removing(d, h) => d = c

(* Every transaction is accounted for; what has no transaction is not used. *)
AccountInv ==
    \A h \in Handles :
        IF h \in DOMAIN issued
        THEN \/ h \in DOMAIN data \/ issued[h] <= now \/ uses[h] = 1
             \/ \E c \in Callers : Removing(c, h)
        ELSE uses[h] = 0

LedgerInv == ClockInv /\ EntriesInv /\ RemovedInv /\ AccountInv

(* An empty store has an empty ledger (NewMemoryStore). *)
LEMMA LedgerInit == Init => LedgerInv
  BY MemoryStoreAssumption
  DEF Init, LedgerInv, ClockInv, EntriesInv, RemovedInv, AccountInv, Removing

(* Of the local variables, the clock readings and the expiries are all that counts. *)
LEMMA CallClock ==
    ASSUME TypeInv, LedgerInv, NEW c \in Callers, CallStep(c)
    PROVE  ClockInv'
<1> USE MemoryStoreAssumption DEF LedgerInv, ClockInv, TypeInv, TypeOK, Goto, Return
<1>1. CASE BeginCreate(c)
  BY <1>1 DEF BeginCreate
<1>2. CASE BeginGet(c) \/ BeginConsume(c)
  BY <1>2 DEF BeginGet, BeginConsume, BeginWith
<1>3. CASE GetLocked(c) \/ ConsumeLocked(c)
  BY <1>3 DEF GetLocked, ConsumeLocked, NotFound, Found
<1>4. CASE CreateCollision(c)
  BY <1>4 DEF CreateCollision
<1>5. CASE CreateFull(c) \/ CreateInsert(c) \/ CreateGivesUp(c)
  BY <1>5 DEF CreateFull, CreateInsert, CreateGivesUp
<1>6. CASE GetReturns(c) \/ ConsumeReturns(c)
  BY <1>6 DEF GetReturns, ConsumeReturns
<1> QED
  BY <1>1, <1>2, <1>3, <1>4, <1>5, <1>6 DEF CallStep

(***************************************************************************)
(* A step of a call has one of five effects on the map, the history and    *)
(* the removers.                                                           *)
(***************************************************************************)
SameRemover(c) ==
    /\ \A h \in Handles : Removing(c, h)' <=> Removing(c, h)
    /\ pc[c] = "checkConsume" => expiresAt'[c] = expiresAt[c]

RemoversStay == \A c \in Callers : SameRemover(c)
OthersStay(c) == \A d \in Callers \ {c} : SameRemover(d)

Idles == UNCHANGED <<data, issued, uses>> /\ RemoversStay

Sweeps(t) == data' = Swept(t) /\ UNCHANGED <<issued, uses>> /\ RemoversStay

Inserts(t, h, e) ==
    /\ h \notin DOMAIN issued
    /\ data' = Put(Swept(t), h, e) /\ issued' = Put(issued, h, e)
    /\ UNCHANGED uses /\ RemoversStay

Takes(c, h) ==
    /\ h \in DOMAIN data /\ data' = Restrict(data, DOMAIN data \ {h})
    /\ UNCHANGED <<issued, uses>>
    /\ \A g \in Handles : ~Removing(c, g) /\ (Removing(c, g)' <=> g = h)
    /\ expiresAt'[c] = data[h]
    /\ OthersStay(c)

Counts(c, h) ==
    /\ Removing(c, h) /\ (\A g \in Handles : ~Removing(c, g)')
    /\ UNCHANGED <<data, issued>>
    /\ uses' = IF expiresAt[c] > now THEN [uses EXCEPT ![h] = @ + 1] ELSE uses
    /\ OthersStay(c)

Effect(c) ==
    \/ Idles
    \/ Sweeps(readAt[c])
    \/ \E h \in Handles : Inserts(readAt[c], h, expiresAt[c]) /\ pc[c] = "create"
    \/ \E h \in Handles : Takes(c, h) \/ Counts(c, h)

(* Each step of Create, Get and Consume has one of the five effects. *)
LEMMA CallEffect ==
    ASSUME TypeInv, NEW c \in Callers, CallStep(c)
    PROVE  Effect(c) /\ now' = now
<1> USE DEF TypeInv, TypeOK, Effect, Goto, Return, Removing, SameRemover, RemoversStay, OthersStay
<1>1. CASE BeginCreate(c)
  BY <1>1 DEF BeginCreate, Idles
<1>2. CASE BeginGet(c) \/ BeginConsume(c)
  BY <1>2 DEF BeginGet, BeginConsume, BeginWith, Idles
<1>3. CASE GetLocked(c)
  BY <1>3 DEF GetLocked, NotFound, Found, Idles
<1>4. CASE CreateGivesUp(c) \/ GetReturns(c)
  BY <1>4 DEF CreateGivesUp, GetReturns, Idles
<1>5. CASE CreateFull(c) \/ CreateCollision(c)
  BY <1>5 DEF CreateFull, CreateCollision, Sweeps
<1>6. CASE CreateInsert(c)
  BY <1>6 DEF CreateInsert, Inserts
<1>7. CASE ConsumeLocked(c)
  <2>1. CASE NotFound(c, "consume")
    BY <2>1 DEF NotFound, Idles
  <2>2. CASE Found(c, "consume", "checkConsume") /\ data' = Restrict(data, DOMAIN data \ {key[c]})
    <3>1. PICK h \in Handles : h = key[c]
      BY <2>2 DEF Found, IsEntries
    <3>2. Takes(c, h) /\ now' = now
      BY <2>2, <3>1 DEF Found, Takes
    <3> QED
      BY <3>1, <3>2
  <2> QED
    BY <1>7, <2>1, <2>2 DEF ConsumeLocked
<1>8. CASE ConsumeReturns(c)
  <2>1. PICK h \in Handles : h = key[c]
    BY <1>8 DEF ConsumeReturns, GivenHandle, IsEntries
  <2>2. Counts(c, h) /\ now' = now
    BY <1>8, <2>1 DEF ConsumeReturns, Counts
  <2> QED
    BY <2>1, <2>2
<1> QED
  BY <1>1, <1>2, <1>3, <1>4, <1>5, <1>6, <1>7, <1>8 DEF CallStep

(* The ledger is kept by every effect. *)
LEMMA EffectLedger ==
    ASSUME TypeInv, LedgerInv, NEW c \in Callers, Effect(c), now' = now, ClockInv'
    PROVE  LedgerInv'
<1> USE DEF LedgerInv, EntriesInv, RemovedInv, AccountInv, SameRemover
<1>0. /\ IsEntries(data) /\ IsEntries(issued) /\ uses \in [Handles -> Nat] /\ now \in Nat
      /\ readAt[c] \in Nat /\ expiresAt[c] \in Nat /\ readAt[c] <= now
      /\ \A h \in DOMAIN issued : h \in Handles /\ issued[h] \in Nat
      /\ \A h \in DOMAIN data : h \in Handles /\ data[h] \in Nat
  BY DEF TypeInv, TypeOK, ClockInv, IsEntries
<1>r. \A d \in Callers, h \in Handles : Removing(d, h) => pc[d] = "checkConsume"
  BY DEF Removing
<1>1. CASE Idles
  BY <1>1, <1>r DEF Idles, RemoversStay
<1>2. CASE Sweeps(readAt[c])
  <2>1. /\ DOMAIN data' \subseteq DOMAIN data
        /\ \A h \in DOMAIN data' : data'[h] = data[h]
        /\ \A h \in DOMAIN data : data[h] > readAt[c] => h \in DOMAIN data'
    BY <1>0, <1>2, SweptKeepsLive DEF Sweeps
  <2>2. EntriesInv' /\ RemovedInv'
    BY <1>2, <1>r, <2>1 DEF Sweeps, RemoversStay
  <2>3. AccountInv'
    BY <1>0, <1>2, <2>1 DEF Sweeps, RemoversStay
  <2> QED
    BY <2>2, <2>3
<1>3. ASSUME NEW h \in Handles, Inserts(readAt[c], h, expiresAt[c]) PROVE LedgerInv'
  <2>1. /\ DOMAIN data' \subseteq DOMAIN data \cup {h} /\ h \in DOMAIN data'
        /\ data'[h] = expiresAt[c]
        /\ \A g \in DOMAIN data' \ {h} : data'[g] = data[g]
        /\ \A g \in DOMAIN data : data[g] > readAt[c] => g \in DOMAIN data'
    BY <1>0, <1>3, SweptKeepsLive DEF Inserts, Put
  <2>2. /\ DOMAIN issued' = DOMAIN issued \cup {h}
        /\ issued'[h] = expiresAt[c]
        /\ \A g \in DOMAIN issued : issued'[g] = issued[g]
    BY <1>3 DEF Inserts, Put
  <2>3. \A d \in Callers, g \in Handles : Removing(d, g) => g \in DOMAIN issued
    BY DEF Removing, TypeInv, GivenHandle
  <2>4. EntriesInv'
    BY <1>3, <2>1, <2>2 DEF Inserts
  <2>5. RemovedInv'
    BY <1>3, <1>r, <2>1, <2>2, <2>3 DEF Inserts, RemoversStay
  <2>6. AccountInv'
    BY <1>0, <1>3, <2>1, <2>2 DEF Inserts, RemoversStay
  <2> QED
    BY <2>4, <2>5, <2>6
<1>4. ASSUME NEW h \in Handles, Takes(c, h) PROVE LedgerInv'
  <2>1. /\ DOMAIN data' = DOMAIN data \ {h}
        /\ \A g \in DOMAIN data' : data'[g] = data[g]
    BY <1>4 DEF Takes, Restrict
  <2>2. EntriesInv'
    BY <1>4, <2>1 DEF Takes
  <2>3. RemovedInv'
    BY <1>4, <1>r, <2>1 DEF Takes, OthersStay
  <2>4. AccountInv'
    BY <1>0, <1>4, <2>1 DEF Takes, OthersStay
  <2> QED
    BY <2>2, <2>3, <2>4
<1>5. ASSUME NEW h \in Handles, Counts(c, h) PROVE LedgerInv'
  <2>1. /\ uses[h] = 0 /\ h \notin DOMAIN data /\ expiresAt[c] = issued[h]
        /\ \A g \in Handles \ {h} : uses'[g] = uses[g]
        /\ uses'[h] = IF expiresAt[c] > now THEN 1 ELSE 0
    BY <1>0, <1>5 DEF Counts
  <2>2. \A d \in Callers : ~Removing(d, h)'
    BY <1>5 DEF Counts, OthersStay
  <2>3. EntriesInv'
    BY <1>0, <1>5, <2>1 DEF Counts
  <2>4. RemovedInv'
    BY <1>0, <1>5, <1>r, <2>1, <2>2 DEF Counts, OthersStay
  <2>5. h \in DOMAIN issued
    BY <1>5 DEF Counts, Removing, TypeInv, GivenHandle
  <2>6. \A g \in Handles : Removing(c, g) => g = h
    BY <1>5 DEF Counts, Removing
  <2>7. AccountInv'
    BY <1>0, <1>5, <2>1, <2>5, <2>6 DEF Counts, OthersStay
  <2> QED
    BY <2>3, <2>4, <2>7
<1> QED
  BY <1>1, <1>2, <1>3, <1>4, <1>5 DEF Effect

MemoryInv == TypeInv /\ LedgerInv

(* Types and ledger are right at first. *)
LEMMA MemoryInit == Init => MemoryInv
  BY TypeInit, LedgerInit DEF MemoryInv

(* Every step keeps the types and the ledger. *)
LEMMA MemoryStep == MemoryInv /\ [Next]_vars => MemoryInv'
<1> SUFFICES ASSUME MemoryInv, [Next]_vars PROVE MemoryInv'
  OBVIOUS
<1>1. TypeInv'
  BY TypeStep DEF MemoryInv
<1>2. ASSUME NEW c \in Callers, CallStep(c) PROVE LedgerInv'
  BY <1>2, CallClock, CallEffect, EffectLedger DEF MemoryInv
<1>3. ASSUME Tick PROVE LedgerInv'
  <2>1. now' = now + 1 /\ now < MaxTime /\ UNCHANGED <<data, issued, uses, localVars>>
    BY <1>3 DEF Tick
  <2>2. now \in Nat /\ (\A c \in Callers : readAt[c] \in Nat) /\ \A h \in DOMAIN issued : issued[h] \in Nat
    BY DEF MemoryInv, TypeInv, TypeOK, IsEntries
  <2> QED
    BY <2>1, <2>2, MemoryStoreAssumption
    DEF MemoryInv, LedgerInv, ClockInv, EntriesInv, RemovedInv, AccountInv, Removing, localVars
<1>4. ASSUME UNCHANGED vars PROVE LedgerInv'
  BY <1>4 DEF vars, localVars, MemoryInv, LedgerInv, ClockInv, EntriesInv, RemovedInv, AccountInv, Removing
<1> QED
  BY <1>1, <1>2, <1>3, <1>4 DEF Next, MemoryInv

(* A transaction is pending in the map, or with its consumer. *)
PendingIs ==
    \A h : h \in Pending <=>
        /\ h \in Handles /\ issued[h] > now
        /\ h \in DOMAIN data \/ \E c \in Callers : Removing(c, h)

(* The refinement mapping says just that (Pending). *)
LEMMA PendingIsSo == TypeInv => PendingIs
<1> SUFFICES ASSUME TypeInv PROVE PendingIs
  OBVIOUS
<1>1. DOMAIN data \subseteq Handles /\ DOMAIN issued \subseteq Handles
  BY DEF TypeInv, TypeOK, IsEntries
<1>2. \A c \in Callers : pc[c] = "checkConsume" => key[c] \in Handles
  BY <1>1 DEF TypeInv, GivenHandle
<1> QED
  BY <1>1, <1>2 DEF PendingIs, Pending, Removed, Removing

(* Every effect is a step of the port, or none. *)
LEMMA EffectRefines ==
    ASSUME MemoryInv, PendingIs, PendingIs', NEW c \in Callers, Effect(c), now' = now
    PROVE  [Port!Next]_(Port!vars)
<1> USE DEF MemoryInv, LedgerInv, SameRemover
<1>0. /\ IsEntries(data) /\ IsEntries(issued) /\ uses \in [Handles -> Nat] /\ now \in Nat
      /\ readAt[c] \in Nat /\ expiresAt[c] \in Nat /\ readAt[c] <= now
      /\ \A h \in DOMAIN issued : h \in Handles /\ issued[h] \in Nat
      /\ \A h \in DOMAIN data : h \in Handles /\ h \in DOMAIN issued /\ data[h] = issued[h]
  BY DEF TypeInv, TypeOK, ClockInv, IsEntries, EntriesInv
<1>1. CASE Idles
  <2>1. Pending' = Pending
    BY <1>1 DEF Idles, RemoversStay, PendingIs
  <2> QED
    BY <1>1, <2>1 DEF Idles, Port!vars
<1>2. CASE Sweeps(readAt[c])
  <2>1. /\ DOMAIN data' \subseteq DOMAIN data
        /\ \A h \in DOMAIN data : issued[h] > now => h \in DOMAIN data'
    BY <1>0, <1>2, SweptKeepsLive DEF Sweeps
  <2>2. Pending' = Pending
    BY <1>2, <2>1 DEF Sweeps, RemoversStay, PendingIs
  <2> QED
    BY <1>2, <2>2 DEF Sweeps, Port!vars
<1>3. ASSUME NEW h \in Handles, Inserts(readAt[c], h, expiresAt[c]), pc[c] = "create"
      PROVE  Port!Next
  <2>1. /\ DOMAIN data' \subseteq DOMAIN data \cup {h} /\ h \in DOMAIN data'
        /\ \A g \in DOMAIN data : issued[g] > now => g \in DOMAIN data'
    BY <1>0, <1>3, SweptKeepsLive DEF Inserts, Put
  <2>2. /\ h \notin DOMAIN issued
        /\ issued' = [g \in DOMAIN issued \cup {h} |-> IF g = h THEN expiresAt[c] ELSE issued[g]]
    BY <1>3 DEF Inserts, Put
  <2>3. \A d \in Callers, g \in Handles : Removing(d, g) => g \in DOMAIN issued
    BY DEF Removing, TypeInv, GivenHandle
  <2>4. Pending' = {g \in Pending \cup {h} : issued'[g] > now}
    <3>1. /\ \A g \in Handles \ {h} : g \in Pending' <=> g \in Pending
          /\ \A g \in Pending : g # h /\ issued'[g] = issued[g] /\ issued[g] > now
      BY <1>0, <1>3, <2>1, <2>2, <2>3 DEF Inserts, RemoversStay, PendingIs
    <3>2. h \in Pending' <=> issued'[h] > now
      BY <2>1 DEF PendingIs
    <3>3. Pending \subseteq Handles /\ Pending' \subseteq Handles
      BY DEF PendingIs
    <3> QED
      BY <3>1, <3>2, <3>3
  <2>5. expiresAt[c] \in 0 .. MaxTime + MaxTTL
    BY <1>0, <1>3, MemoryStoreAssumption DEF ClockInv
  <2>6. Port!Create(h, expiresAt[c])
    BY <1>3, <2>2, <2>4 DEF Inserts, Port!Create, Port!Live
  <2> QED
    BY <2>5, <2>6 DEF Port!Next
<1>4. ASSUME NEW h \in Handles, Takes(c, h) PROVE UNCHANGED Port!vars
  <2>1. DOMAIN data' = DOMAIN data \ {h}
    BY <1>4 DEF Takes, Restrict
  <2>2. Pending' = Pending
    BY <1>4, <2>1 DEF Takes, OthersStay, PendingIs
  <2> QED
    BY <1>4, <2>2 DEF Takes, Port!vars
<1>5. ASSUME NEW h \in Handles, Counts(c, h) PROVE [Port!Next]_(Port!vars)
  <2>1. /\ h \notin DOMAIN data /\ expiresAt[c] = issued[h]
        /\ \A d \in Callers : Removing(d, h) => d = c
    BY <1>5 DEF Counts, RemovedInv
  <2>2. \A g \in Handles : Removing(c, g) => g = h
    BY <1>5 DEF Counts, Removing
  <2>3. Pending' = Pending \ {h}
    BY <1>5, <2>1, <2>2 DEF Counts, OthersStay, PendingIs
  <2>4. h \in Pending <=> expiresAt[c] > now
    BY <1>5, <2>1 DEF Counts, PendingIs
  <2>5. CASE expiresAt[c] > now
    BY <1>5, <2>3, <2>4, <2>5 DEF Counts, Port!Next, Port!Consume
  <2>6. CASE ~(expiresAt[c] > now)
    BY <1>5, <2>3, <2>4, <2>6 DEF Counts, Port!vars
  <2> QED
    BY <2>5, <2>6
<1> QED
  BY <1>1, <1>2, <1>3, <1>4, <1>5 DEF Effect

(* Every step of MemoryStore is a step of the port, or none. *)
LEMMA StepRefines == MemoryInv /\ PendingIs /\ PendingIs' /\ [Next]_vars => [Port!Next]_(Port!vars)
<1> SUFFICES ASSUME MemoryInv, PendingIs, PendingIs', [Next]_vars PROVE [Port!Next]_(Port!vars)
  OBVIOUS
<1>1. ASSUME NEW c \in Callers, CallStep(c) PROVE [Port!Next]_(Port!vars)
  BY <1>1, CallEffect, EffectRefines DEF MemoryInv
<1>2. CASE Tick
  <2>1. now' = now + 1 /\ UNCHANGED <<data, issued, uses, pc, key>>
    BY <1>2 DEF Tick, localVars
  <2>2. now \in Nat /\ (\A h \in DOMAIN data : issued[h] \in Nat)
        /\ \A c \in Callers, h \in Handles : Removing(c, h) => issued[h] \in Nat
    BY DEF MemoryInv, LedgerInv, EntriesInv, TypeInv, TypeOK, IsEntries, GivenHandle, Removing
  <2>3. Pending' = {h \in Pending : issued[h] > now'}
    BY <2>1, <2>2 DEF PendingIs, Removing
  <2> QED
    BY <2>1, <2>3 DEF Port!Next, Port!Tick, Port!Live
<1>3. CASE UNCHANGED vars
  BY <1>3 DEF vars, localVars, Pending, Removed, Port!vars
<1> QED
  BY <1>1, <1>2, <1>3 DEF Next

(***************************************************************************)
(* MemoryStore implements the port TransactionStore, for any number of     *)
(* concurrent calls: a transaction is consumed at most once, only before   *)
(* it expires, and no live one is lost, although Create sweeps with a      *)
(* clock reading taken before the lock and Consume looks at the clock      *)
(* after it.                                                               *)
(***************************************************************************)
THEOREM MemoryStoreImplementsPort == Spec => ImplementsPort
<1>1. Init => Port!Init
  BY DEF Init, Port!Init, Pending, Removed
<1> QED
  BY <1>1, MemoryInit, MemoryStep, PendingIsSo, StepRefines, PTL
  DEF Spec, ImplementsPort, Port!Spec, MemoryInv

(* ErrReplay is the answer for a handle that is not in the map. *)
LEMMA ReplayMeansAbsent ==
    ASSUME TypeInv, [Next]_vars, NEW c \in Callers, pc[c] \in {"get", "consume"}, pc'[c] = "idle"
    PROVE  key[c] \notin DOMAIN data
<1> USE DEF TypeInv, TypeOK, Goto, Return
<1>1. ASSUME NEW d \in Callers, CallStep(d), d # c PROVE FALSE
  BY <1>1
  DEF CallStep, BeginCreate, CreateFull, CreateInsert, CreateCollision, CreateGivesUp, BeginGet,
      BeginConsume, BeginWith, GetLocked, ConsumeLocked, NotFound, Found, GetReturns, ConsumeReturns
<1>2. CASE CallStep(c)
  BY <1>2
  DEF CallStep, BeginCreate, CreateFull, CreateInsert, CreateCollision, CreateGivesUp, BeginGet,
      BeginConsume, BeginWith, GetLocked, ConsumeLocked, NotFound, Found, GetReturns, ConsumeReturns
<1>3. CASE Tick \/ UNCHANGED vars
  BY <1>3 DEF Tick, vars, localVars
<1> QED
  BY <1>1, <1>2, <1>3 DEF Next

(***************************************************************************)
(* Nobody is told ErrReplay by MemoryStore about a transaction that is     *)
(* live and that no other caller has taken: AccountInv says where each one *)
(* is.                                                                     *)
(***************************************************************************)
THEOREM ReplaysTruthful == Spec => ReplayIsTruthful
<1>1. MemoryInv /\ [Next]_vars =>
        [\A c \in Callers : pc[c] \in {"get", "consume"} /\ pc'[c] = "idle" =>
            \/ uses[key[c]] = 1
            \/ issued[key[c]] <= now
            \/ \E d \in Callers \ {c} : pc[d] = "checkConsume" /\ key[d] = key[c]]_vars
  <2> SUFFICES ASSUME MemoryInv, [Next]_vars,
                      NEW c \in Callers, pc[c] \in {"get", "consume"}, pc'[c] = "idle"
               PROVE  \/ uses[key[c]] = 1
                      \/ issued[key[c]] <= now
                      \/ \E d \in Callers \ {c} : pc[d] = "checkConsume" /\ key[d] = key[c]
    OBVIOUS
  <2>1. key[c] \in DOMAIN issued /\ key[c] \in Handles
    BY DEF MemoryInv, TypeInv, TypeOK, GivenHandle, IsEntries
  <2>2. key[c] \notin DOMAIN data
    BY ReplayMeansAbsent DEF MemoryInv
  <2> QED
    BY <2>1, <2>2 DEF MemoryInv, LedgerInv, AccountInv, Removing
<1> QED
  BY <1>1, MemoryInit, MemoryStep, PTL DEF Spec, ReplayIsTruthful

===============================================================================

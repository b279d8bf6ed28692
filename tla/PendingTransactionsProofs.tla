----------------------- MODULE PendingTransactionsProofs -----------------------
(***************************************************************************)
(* For every number of requests, handles and slots and for either store:   *)
(* the quota of pending transactions is never exceeded.                    *)
(***************************************************************************)
EXTENDS PendingTransactions, FiniteSetTheorems, TLAPS

-------------------------------------------------------------------------------
(* The operations of the quota *)

(* removeExpiredLocked keeps exactly the slots that have not expired. *)
LEMMA SweepKeepsLive ==
    ASSUME NEW t, IsSlots(active)
    PROVE  /\ IsSlots(removeExpiredLocked(t))
           /\ DOMAIN removeExpiredLocked(t) = {h \in DOMAIN active : active[h] > t}
           /\ \A h \in DOMAIN removeExpiredLocked(t) : removeExpiredLocked(t)[h] = active[h]
  BY DEF removeExpiredLocked, RestrictValues, Restrict, IsSlots

(* reserve loses a slot only if it has expired, and never invents one. *)
LEMMA SweptKeepsLive ==
    ASSUME NEW t, IsSlots(active)
    PROVE  /\ IsSlots(Swept(t))
           /\ DOMAIN Swept(t) \subseteq DOMAIN active
           /\ \A h \in DOMAIN active : active[h] > t => h \in DOMAIN Swept(t)
           /\ \A h \in DOMAIN Swept(t) : Swept(t)[h] = active[h]
  BY SweepKeepsLive DEF Swept

(* A map write occupies the slot of its handle and touches no other. *)
LEMMA PutSlot ==
    ASSUME NEW f, IsSlots(f), NEW h \in Handles, NEW e \in Nat
    PROVE  /\ IsSlots(Put(f, h, e))
           /\ DOMAIN Put(f, h, e) = DOMAIN f \cup {h}
           /\ \A x \in DOMAIN Put(f, h, e) : Put(f, h, e)[x] = IF x = h THEN e ELSE f[x]
  BY DEF Put, IsSlots

(* A delete vacates the slot of its handle and touches no other. *)
LEMMA DeleteSlot ==
    ASSUME NEW f, IsSlots(f), NEW h
    PROVE  /\ IsSlots(Delete(f, h))
           /\ DOMAIN Delete(f, h) = DOMAIN f \ {h}
           /\ \A x \in DOMAIN Delete(f, h) : Delete(f, h)[x] = f[x]
  BY DEF Delete, Restrict, IsSlots

-------------------------------------------------------------------------------
(* Type correctness *)

(***************************************************************************)
(* The variables keep their types (one step per action of Next).  The one  *)
(* conjunct that is not evident is that commit is handed a handle: a       *)
(* request that reaches "commit" was given one by Create.                  *)
(***************************************************************************)
CommitsHandle == \A r \in Requests : pc[r] = "commit" => handle[r] \in Handles

TypeInv == TypeOK /\ CommitsHandle

(* The types hold in the initial state. *)
LEMMA TypeInit == Init => TypeInv
  <1> SUFFICES ASSUME Init PROVE TypeInv
    OBVIOUS
  <1>1. IsSlots(<<>>)
    BY DEF IsSlots
  <1>. QED
    BY <1>1, HandlesAssumption
    DEF Init, AdmissionInit, TypeInv, TypeOK, CommitsHandle, Origins, PCs

(* A process keeps the store it was configured with. *)
LEMMA StoreStays == [Next]_vars => redis' = redis
  BY DEF Next, vars

(* Every action of Next keeps the types. *)
LEMMA TypeStep == TypeInv /\ [Next]_vars => TypeInv'
  <1> SUFFICES ASSUME TypeInv, [Next]_vars PROVE TypeInv'
    OBVIOUS
  <1>0. /\ IsSlots(active) /\ IsSlots(store) /\ now \in Nat /\ reserved \in Nat
        /\ TTL \in Nat /\ NoHandle \notin Handles
        /\ \A r \in Requests : expiresAt[r] \in Nat
        /\ \A r \in Requests : pc[r] = "commit" => handle[r] \in Handles
    BY TimeAssumption, HandlesAssumption DEF TypeInv, TypeOK, CommitsHandle
  <1>a. IsSlots(active) /\ IsSlots(store)
    BY <1>0
  <1>b. ASSUME NEW h, Remove(h) PROVE IsSlots(store')
    BY <1>a, <1>b, DeleteSlot DEF Remove
  <1>c. ASSUME NEW r \in Requests, NEW h \in Handles, Stored(r, h) PROVE IsSlots(store')
    BY <1>0, <1>c, PutSlot DEF Stored
  <1>d. redis' = redis
    BY StoreStays
  <1> USE <1>d DEF TypeInv, TypeOK, CommitsHandle, PCs, Origins, Goto, Finish, admissionVars, localVars
  <1>1. ASSUME NEW r \in Requests, BeginCreate(r) PROVE TypeInv'
    BY <1>0, <1>1 DEF BeginCreate
  <1>2. ASSUME NEW r \in Requests, ReadClock(r) PROVE TypeInv'
    BY <1>0, <1>2 DEF ReadClock
  <1>3. ASSUME NEW r \in Requests, Reserve(r) PROVE TypeInv'
    <2>1. IsSlots(active') /\ reserved' \in Nat
      BY <1>0, <1>3, SweptKeepsLive DEF Reserve, ReserveGranted, ReserveRefused
    <2>. QED
      BY <1>0, <1>3, <2>1 DEF Reserve
  <1>4. ASSUME NEW r \in Requests, CreateStored(r) PROVE TypeInv'
    <2>1. IsSlots(store')
      BY <1>4, <1>c DEF CreateStored
    <2>. QED
      BY <1>0, <1>4, <2>1 DEF CreateStored, Stored
  <1>5. ASSUME NEW r \in Requests, CreateFailed(r) PROVE TypeInv'
    BY <1>0, <1>5 DEF CreateFailed
  <1>6. ASSUME NEW r \in Requests, CreateReplyLost(r) PROVE TypeInv'
    <2>1. IsSlots(store')
      BY <1>6, <1>c DEF CreateReplyLost
    <2>. QED
      BY <1>0, <1>6, <2>1 DEF CreateReplyLost, Stored
  <1>7. ASSUME NEW r \in Requests, Commit(r) PROVE TypeInv'
    <2>1. IsSlots(active') /\ reserved' \in Nat
      <3>1. handle[r] \in Handles /\ expiresAt[r] \in Nat
        BY <1>0, <1>7 DEF Commit
      <3>2. IsSlots(Put(active, handle[r], expiresAt[r]))
        BY <1>a, <3>1, PutSlot
      <3>. QED
        BY <1>0, <1>7, <3>2 DEF Commit, commit, Unreserved
    <2>. QED
      BY <1>0, <1>7, <2>1 DEF Commit
  <1>8. ASSUME NEW r \in Requests, Cancel(r) PROVE TypeInv'
    BY <1>0, <1>8 DEF Cancel, cancel, Unreserved
  <1>9. ASSUME NEW r \in Requests, BeginLoad(r) PROVE TypeInv'
    BY <1>0, <1>9 DEF BeginLoad
  <1>10. ASSUME NEW r \in Requests, Get(r) PROVE TypeInv'
    <2>1. handle[r] \in DOMAIN store => store[handle[r]] \in Nat
      BY <1>0 DEF IsSlots
    <2>. QED
      BY <1>0, <1>10, <2>1 DEF Get
  <1>11. ASSUME NEW r \in Requests,
                CheckGet(r) \/ BeginConsume(r) \/ Abandon(r) \/ CheckConsume(r)
         PROVE  TypeInv'
    BY <1>0, <1>11 DEF CheckGet, BeginConsume, Abandon, CheckConsume
  <1>12. ASSUME NEW r \in Requests, Consume(r) \/ StoreError(r) PROVE TypeInv'
    <2>1. IsSlots(store')
      BY <1>a, <1>b, <1>12 DEF Consume, StoreError
    <2>. QED
      BY <1>0, <1>12, <2>1 DEF Consume, StoreError
  <1>13. ASSUME NEW r \in Requests, Release(r) PROVE TypeInv'
    <2>1. IsSlots(active')
      BY <1>a, <1>13, DeleteSlot DEF Release, release
    <2>. QED
      BY <1>0, <1>13, <2>1 DEF Release, release
  <1>14. CASE Tick
    BY <1>0, <1>14 DEF Tick
  <1>15. CASE MemorySweep \/ RedisRemoves
    <2>1. IsSlots(store')
      BY <1>b, <1>15 DEF MemorySweep, RedisRemoves
    <2>. QED
      BY <1>0, <1>15, <2>1 DEF MemorySweep, RedisRemoves
  <1>16. CASE Restart
    <2>1. IsSlots(active') /\ IsSlots(store')
      BY <1>0, <1>16 DEF Restart, IsSlots
    <2>. QED
      BY <1>0, <1>16, <2>1 DEF Restart
  <1>17. CASE UNCHANGED vars
    BY <1>0, <1>17 DEF vars, IsSlots
  <1>. QED
    BY <1>1, <1>2, <1>3, <1>4, <1>5, <1>6, <1>7, <1>8, <1>9, <1>10, <1>11, <1>12,
       <1>13, <1>14, <1>15, <1>16, <1>17
    DEF Next, CreateStep, LoadStep

(***************************************************************************)
(* The variables of the transaction pool and of its quota keep their types *)
(* in every behaviour.                                                     *)
(***************************************************************************)
THEOREM TypeCorrect == Spec => []TypeOK
  <1>1. TypeInv => TypeOK
    BY DEF TypeInv
  <1>. QED
    BY TypeInit, TypeStep, <1>1, PTL DEF Spec

-------------------------------------------------------------------------------
(* The quota *)

(* The quota's map can be counted. *)
LEMMA SlotsFinite ==
    ASSUME NEW f, IsSlots(f)
    PROVE  IsFiniteSet(DOMAIN f) /\ Cardinality(DOMAIN f) \in Nat
  BY FS_Subset, FS_CardinalityType, HandlesAssumption DEF IsSlots

(* Writing one key of the map of slots occupies at most one more slot. *)
LEMMA OneMoreSlot ==
    ASSUME NEW f, IsSlots(f), NEW D, NEW h, D = DOMAIN f \cup {h}
    PROVE  Cardinality(D) \in Nat /\ Cardinality(D) <= Cardinality(DOMAIN f) + 1
  <1>1. IsFiniteSet(DOMAIN f) /\ Cardinality(DOMAIN f) \in Nat
    BY SlotsFinite
  <1>2. CASE h \in DOMAIN f
    <2>1. D = DOMAIN f
      BY <1>2
    <2>. QED
      BY <1>1, <2>1
  <1>3. CASE h \notin DOMAIN f
    <2>1. Cardinality(DOMAIN f \cup {h}) = Cardinality(DOMAIN f) + 1
      BY <1>1, <1>3, FS_AddElement
    <2>. QED
      BY <1>1, <2>1
  <1>. QED
    BY <1>2, <1>3

(* Those who hold a reservation can be counted. *)
LEMMA ReservingFinite == IsFiniteSet(Reserving) /\ Cardinality(Reserving) \in Nat
  <1>1. Reserving \subseteq Requests
    BY DEF Reserving
  <1>. QED
    BY <1>1, FS_Subset, FS_CardinalityType, RequestsAssumption

(* A granted reservation makes one more request a creating one. *)
LEMMA EnterReserving ==
    ASSUME TypeOK, NEW r \in Requests, Goto(r, "reserve", "create")
    PROVE  Cardinality(Reserving') = Cardinality(Reserving) + 1
  <1>1. Reserving' = Reserving \cup {r} /\ r \notin Reserving
    BY DEF Goto, Reserving, TypeOK
  <1>. QED
    BY <1>1, ReservingFinite, FS_AddElement

(* commit and cancel settle one of the requests that hold a reservation. *)
LEMMA LeaveReserving ==
    ASSUME TypeOK, NEW r \in Requests,
           Goto(r, "commit", "idle") \/ Goto(r, "cancel", "idle")
    PROVE  /\ Cardinality(Reserving) > 0
           /\ Cardinality(Reserving') = Cardinality(Reserving) - 1
  <1>1. Reserving' = Reserving \ {r} /\ r \in Reserving
    BY DEF Goto, Reserving, TypeOK
  <1>2. Cardinality(Reserving') = Cardinality(Reserving) - 1
    BY <1>1, ReservingFinite, FS_RemoveElement
  <1>3. Cardinality(Reserving) # 0
    BY <1>1, ReservingFinite, FS_EmptySet
  <1>. QED
    BY <1>2, <1>3, ReservingFinite

(* No other step of a request changes who holds a reservation. *)
LEMMA KeepReserving ==
    ASSUME TypeOK, NEW r \in Requests, NEW from \in PCs, NEW to \in PCs,
           Goto(r, from, to),
           from \in {"create", "commit", "cancel"} <=> to \in {"create", "commit", "cancel"}
    PROVE  Reserving' = Reserving
  BY DEF Goto, Reserving, TypeOK

(***************************************************************************)
(* QuotaBound alone is not inductive: commit adds a slot and gives back a  *)
(* reservation only if there is one.  That there always is one when commit *)
(* runs is what ReservationsAreCreates says.                               *)
(***************************************************************************)
QuotaInv == TypeInv /\ QuotaBound /\ ReservationsAreCreates

(* Steps that touch neither the quota nor the set of creating requests. *)
LEMMA QuotaUntouched ==
    ASSUME QuotaInv, UNCHANGED admissionVars, Reserving' = Reserving
    PROVE  (QuotaBound /\ ReservationsAreCreates)'
  BY DEF QuotaInv, QuotaBound, ReservationsAreCreates, Occupied, admissionVars

(* Nothing is occupied or reserved at first. *)
LEMMA QuotaInit == Init => QuotaInv
  <1> SUFFICES ASSUME Init PROVE QuotaInv
    OBVIOUS
  <1>1. Reserving = {} /\ DOMAIN active = {} /\ reserved = 0
    BY DEF Init, AdmissionInit, Reserving
  <1>2. Cardinality({}) = 0
    BY FS_EmptySet
  <1>3. QuotaBound /\ ReservationsAreCreates
    BY <1>1, <1>2, MaxPendingAssumption DEF QuotaBound, ReservationsAreCreates, Occupied
  <1>. QED
    BY <1>3, TypeInit DEF QuotaInv

(* Every action of Next keeps the quota and the count of reservations. *)
LEMMA QuotaStep == QuotaInv /\ [Next]_vars => QuotaInv'
  <1> SUFFICES ASSUME QuotaInv, [Next]_vars PROVE (QuotaBound /\ ReservationsAreCreates)'
    BY TypeStep DEF QuotaInv
  <1>0. /\ TypeOK /\ IsSlots(active) /\ reserved \in Nat /\ MaxPending \in Nat
        /\ reserved = Cardinality(Reserving)
        /\ Cardinality(DOMAIN active) + reserved <= MaxPending
    BY MaxPendingAssumption
    DEF QuotaInv, TypeInv, TypeOK, QuotaBound, ReservationsAreCreates, Occupied
  <1>a. Cardinality(DOMAIN active) \in Nat /\ Cardinality(Reserving) \in Nat
    BY <1>0, SlotsFinite, ReservingFinite
  <1>1. ASSUME NEW r \in Requests,
               BeginCreate(r) \/ ReadClock(r) \/ CreateStored(r) \/ CreateFailed(r)
                 \/ CreateReplyLost(r)
        PROVE  (QuotaBound /\ ReservationsAreCreates)'
    <2>1. Reserving' = Reserving
      BY <1>0, <1>1, KeepReserving
      DEF PCs, BeginCreate, ReadClock, CreateStored, CreateFailed, CreateReplyLost, Finish
    <2>. QED
      BY <1>1, <2>1, QuotaUntouched
      DEF BeginCreate, ReadClock, CreateStored, CreateFailed, CreateReplyLost
  <1>2. ASSUME NEW r \in Requests, BeginLoad(r) \/ Get(r) \/ CheckGet(r) \/ BeginConsume(r)
                 \/ Abandon(r) \/ Consume(r) \/ CheckConsume(r) \/ StoreError(r)
        PROVE  (QuotaBound /\ ReservationsAreCreates)'
    <2>1. Reserving' = Reserving
      BY <1>0, <1>2, KeepReserving
      DEF PCs, BeginLoad, Get, CheckGet, BeginConsume, Abandon, Consume, CheckConsume,
          StoreError, Finish
    <2>. QED
      BY <1>2, <2>1, QuotaUntouched
      DEF BeginLoad, Get, CheckGet, BeginConsume, Abandon, Consume, CheckConsume, StoreError
  <1>3. ASSUME NEW r \in Requests, Reserve(r) PROVE (QuotaBound /\ ReservationsAreCreates)'
    <2>0. /\ IsSlots(Swept(readAt[r]))
          /\ Cardinality(DOMAIN Swept(readAt[r])) \in Nat
          /\ Cardinality(DOMAIN Swept(readAt[r])) <= Cardinality(DOMAIN active)
      BY <1>0, SweptKeepsLive, SlotsFinite, FS_Subset
    <2>1. CASE ReserveGranted(readAt[r]) /\ Goto(r, "reserve", "create")
      <3>1. Cardinality(Reserving') = Cardinality(Reserving) + 1
        BY <1>0, <2>1, EnterReserving
      <3>. QED
        BY <1>0, <1>a, <2>0, <2>1, <3>1
        DEF ReserveGranted, QuotaBound, ReservationsAreCreates, Occupied
    <2>2. CASE ReserveRefused(readAt[r]) /\ Finish(r, "reserve")
      <3>1. Reserving' = Reserving
        BY <1>0, <2>2, KeepReserving DEF Finish, PCs
      <3>. QED
        BY <1>0, <1>a, <2>0, <2>2, <3>1
        DEF ReserveRefused, QuotaBound, ReservationsAreCreates, Occupied
    <2>. QED
      BY <1>3, <2>1, <2>2 DEF Reserve
  <1>4. ASSUME NEW r \in Requests, Commit(r) PROVE (QuotaBound /\ ReservationsAreCreates)'
    <2>1. /\ Cardinality(Reserving) > 0
          /\ Cardinality(Reserving') = Cardinality(Reserving) - 1
      BY <1>0, <1>4, LeaveReserving DEF Commit, Finish
    <2>2. handle[r] \in Handles /\ expiresAt[r] \in Nat
      BY <1>4 DEF QuotaInv, TypeInv, TypeOK, CommitsHandle, Commit, Finish, Goto
    <2>3. DOMAIN active' = DOMAIN active \cup {handle[r]}
      BY <1>4 DEF Commit, commit, Put
    <2>4. /\ Cardinality(DOMAIN active') \in Nat
          /\ Cardinality(DOMAIN active') <= Cardinality(DOMAIN active) + 1
      BY <1>0, <2>3, OneMoreSlot
    <2>5. reserved' = reserved - 1
      BY <1>0, <1>4, <2>1 DEF Commit, commit, Unreserved
    <2>. QED
      BY <1>0, <1>a, <2>1, <2>4, <2>5 DEF QuotaBound, ReservationsAreCreates, Occupied
  <1>5. ASSUME NEW r \in Requests, Cancel(r) PROVE (QuotaBound /\ ReservationsAreCreates)'
    <2>1. /\ Cardinality(Reserving) > 0
          /\ Cardinality(Reserving') = Cardinality(Reserving) - 1
      BY <1>0, <1>5, LeaveReserving DEF Cancel, Finish
    <2>. QED
      BY <1>0, <1>a, <1>5, <2>1
      DEF Cancel, cancel, Unreserved, QuotaBound, ReservationsAreCreates, Occupied
  <1>6. ASSUME NEW r \in Requests, Release(r) PROVE (QuotaBound /\ ReservationsAreCreates)'
    <2>1. Reserving' = Reserving
      BY <1>0, <1>6, KeepReserving DEF Release, Finish, PCs
    <2>2. DOMAIN active' = DOMAIN active \ {handle[r]}
      BY <1>0, <1>6, DeleteSlot DEF Release, release
    <2>3. /\ Cardinality(DOMAIN active') \in Nat
          /\ Cardinality(DOMAIN active') <= Cardinality(DOMAIN active)
      BY <1>0, <2>2, SlotsFinite, FS_Subset, FS_CardinalityType
    <2>. QED
      BY <1>0, <1>a, <1>6, <2>1, <2>3
      DEF Release, release, QuotaBound, ReservationsAreCreates, Occupied
  <1>7. CASE Tick \/ MemorySweep \/ RedisRemoves \/ UNCHANGED vars
    <2>1. Reserving' = Reserving /\ UNCHANGED admissionVars
      BY <1>7 DEF Reserving, Tick, MemorySweep, RedisRemoves, vars, localVars
    <2>. QED
      BY <2>1, QuotaUntouched
  <1>8. CASE Restart
    <2>1. Reserving' = {} /\ DOMAIN active' = {} /\ reserved' = 0
      BY <1>8 DEF Restart, Reserving
    <2>. QED
      BY <1>0, <2>1, FS_EmptySet DEF QuotaBound, ReservationsAreCreates, Occupied
  <1>. QED
    BY <1>1, <1>2, <1>3, <1>4, <1>5, <1>6, <1>7, <1>8 DEF Next, CreateStep, LoadStep

(* The inductive invariant of the quota holds in every behaviour. *)
LEMMA QuotaInvariant == Spec => []QuotaInv
  BY QuotaInit, QuotaStep, PTL DEF Spec

(***************************************************************************)
(* For every number of concurrent requests and every quota, occupied slots *)
(* and reservations together never exceed the quota.                       *)
(***************************************************************************)
THEOREM QuotaNeverExceeded == Spec => []QuotaBound
  <1>1. QuotaInv => QuotaBound
    BY DEF QuotaInv
  <1>. QED
    BY QuotaInvariant, <1>1, PTL

(***************************************************************************)
(* createTransaction neither leaks a reservation nor returns one twice.    *)
(***************************************************************************)
THEOREM ReservationsExact == Spec => []ReservationsAreCreates
  <1>1. QuotaInv => ReservationsAreCreates
    BY DEF QuotaInv
  <1>. QED
    BY QuotaInvariant, <1>1, PTL

-------------------------------------------------------------------------------
(* Slots and live transactions *)

Loading == {"get", "checkGet", "loaded", "consume", "checkConsume", "release"}

(* What requests remember of the clock, the store and their handle. *)
LocalsInv ==
    \A r \in Requests :
        /\ pc[r] = "reserve" => readAt[r] <= now
        /\ pc[r] = "commit" =>
             /\ origin[handle[r]] = "stored"
             /\ handle[r] \in DOMAIN store => store[handle[r]] = expiresAt[r]
             /\ ~redis /\ expiresAt[r] > now => handle[r] \in DOMAIN store
        /\ pc[r] \in Loading =>
             handle[r] \in Handles /\ origin[handle[r]] \in {"own", "foreign"}
        /\ pc[r] = "checkGet" /\ handle[r] \in DOMAIN store =>
             store[handle[r]] = expiresAt[r]
        /\ pc[r] = "checkConsume" => handle[r] \notin DOMAIN store
        /\ pc[r] = "release" /\ handle[r] \in DOMAIN store => store[handle[r]] <= now

(* Every handle is committed by the one request that created it. *)
CommitsOwnHandle ==
    \A r, q \in Requests : pc[r] = "commit" /\ pc[q] = "commit" /\ handle[r] = handle[q]
        => r = q

(* How the store, the quota's map and the history of a handle agree. *)
LedgerInv ==
    /\ \A h \in DOMAIN store : origin[h] # "unused"
    /\ \A h \in Handles : origin[h] = "stored" =>
          \E r \in Requests : pc[r] = "commit" /\ handle[r] = h
    /\ \A h \in DOMAIN active : origin[h] = "own"
    /\ \A h \in DOMAIN active \cap DOMAIN store : active[h] = store[h]
    /\ \A h \in DOMAIN store : store[h] > now /\ origin[h] = "own" => h \in DOMAIN active

SlotInv == LocalsInv /\ CommitsOwnHandle /\ LedgerInv

(* At first no request remembers anything and no handle has a history. *)
LEMMA SlotInit == Init => SlotInv
  BY DEF Init, AdmissionInit, SlotInv, LocalsInv, CommitsOwnHandle, LedgerInv, Loading

(* Every action of Next keeps store, quota and histories in agreement. *)
LEMMA SlotStep == TypeInv /\ SlotInv /\ [Next]_vars => SlotInv'
  <1> SUFFICES ASSUME TypeInv, SlotInv, [Next]_vars PROVE SlotInv'
    OBVIOUS
  <1>0. /\ IsSlots(active) /\ IsSlots(store) /\ now \in Nat /\ TTL \in Nat
        /\ origin \in [Handles -> Origins] /\ pc \in [Requests -> PCs]
        /\ readAt \in [Requests -> Nat] /\ expiresAt \in [Requests -> Nat]
        /\ handle \in [Requests -> Handles \cup {NoHandle}]
        /\ NoHandle \notin Handles /\ redis \in BOOLEAN
        /\ \A h \in DOMAIN active : h \in Handles /\ active[h] \in Nat
        /\ \A h \in DOMAIN store : h \in Handles /\ store[h] \in Nat
    BY TimeAssumption, HandlesAssumption DEF TypeInv, TypeOK, IsSlots
  <1>s. redis' = redis
    BY StoreStays
  <1> USE <1>s DEF SlotInv, LocalsInv, CommitsOwnHandle, LedgerInv, Loading, Goto, Finish
  <1>1. ASSUME NEW r \in Requests,
               BeginCreate(r) \/ ReadClock(r) \/ CreateFailed(r) \/ Cancel(r)
        PROVE  SlotInv'
    <2>1. UNCHANGED <<now, store, origin, active>>
      BY <1>1 DEF BeginCreate, ReadClock, CreateFailed, Cancel, cancel, admissionVars
    <2>. QED
      BY <1>0, <1>1, <2>1 DEF BeginCreate, ReadClock, CreateFailed, Cancel
  <1>2. ASSUME NEW r \in Requests, Reserve(r) PROVE SlotInv'
    <2>1. /\ UNCHANGED <<now, store, origin>>
          /\ active' = Swept(readAt[r])
          /\ readAt[r] <= now
      BY <1>2 DEF Reserve, ReserveGranted, ReserveRefused
    <2>2. /\ DOMAIN active' \subseteq DOMAIN active
          /\ \A h \in DOMAIN active : active[h] > now => h \in DOMAIN active'
          /\ \A h \in DOMAIN active' : active'[h] = active[h]
      BY <1>0, <2>1, SweptKeepsLive
    <2>3. LedgerInv'
      BY <1>0, <1>2, <2>1, <2>2 DEF Reserve
    <2>. QED
      BY <1>0, <1>2, <2>1, <2>3 DEF Reserve
  <1>3. ASSUME NEW r \in Requests, CreateStored(r) PROVE SlotInv'
    <2>1. PICK h \in Handles : /\ Stored(r, h)
                               /\ origin' = [origin EXCEPT ![h] = "stored"]
                               /\ handle' = [handle EXCEPT ![r] = h]
      BY <1>3 DEF CreateStored
    <2>2. /\ DOMAIN store' = DOMAIN store \cup {h}
          /\ \A x \in DOMAIN store' : store'[x] = IF x = h THEN expiresAt[r] ELSE store[x]
      BY <2>1 DEF Stored, Put
    <2>3. origin[h] = "unused" /\ expiresAt[r] > now /\ h \notin DOMAIN store
          /\ h \notin DOMAIN active
      BY <1>0, <2>1 DEF Stored
    <2>4. UNCHANGED <<active, now, readAt, expiresAt>> /\ Goto(r, "create", "commit")
      BY <1>3 DEF CreateStored, admissionVars
    <2>5. LocalsInv' /\ CommitsOwnHandle'
      BY <1>0, <2>1, <2>2, <2>3, <2>4
    <2>6. LedgerInv'
      BY <1>0, <2>1, <2>2, <2>3, <2>4
    <2>. QED
      BY <2>5, <2>6
  <1>4. ASSUME NEW r \in Requests, CreateReplyLost(r) PROVE SlotInv'
    <2>1. PICK h \in Handles : Stored(r, h) /\ origin' = [origin EXCEPT ![h] = "orphan"]
      BY <1>4 DEF CreateReplyLost
    <2>2. /\ DOMAIN store' = DOMAIN store \cup {h}
          /\ \A x \in DOMAIN store' : store'[x] = IF x = h THEN expiresAt[r] ELSE store[x]
      BY <2>1 DEF Stored, Put
    <2>3. origin[h] = "unused" /\ h \notin DOMAIN store /\ h \notin DOMAIN active
      BY <1>0, <2>1 DEF Stored
    <2>4. /\ UNCHANGED <<active, now, readAt, expiresAt, handle>>
          /\ Goto(r, "create", "cancel")
      BY <1>4 DEF CreateReplyLost, admissionVars
    <2>5. LocalsInv' /\ CommitsOwnHandle'
      BY <1>0, <2>1, <2>2, <2>3, <2>4
    <2>6. LedgerInv'
      BY <1>0, <2>1, <2>2, <2>3, <2>4
    <2>. QED
      BY <2>5, <2>6
  <1>5. ASSUME NEW r \in Requests, Commit(r) PROVE SlotInv'
    <2>1. pc[r] = "commit" /\ handle[r] \in Handles /\ origin[handle[r]] = "stored"
      BY <1>0, <1>5 DEF TypeInv, CommitsHandle, Commit
    <2>2. /\ DOMAIN active' = DOMAIN active \cup {handle[r]}
          /\ \A x \in DOMAIN active' :
                active'[x] = IF x = handle[r] THEN expiresAt[r] ELSE active[x]
      BY <1>5 DEF Commit, commit, Put
    <2>3. UNCHANGED <<now, store>> /\ origin' = [origin EXCEPT ![handle[r]] = "own"]
      BY <1>5 DEF Commit
    <2>4. LocalsInv' /\ CommitsOwnHandle'
      BY <1>0, <1>5, <2>1, <2>3 DEF Commit
    <2>5. LedgerInv'
      BY <1>0, <1>5, <2>1, <2>2, <2>3 DEF Commit
    <2>. QED
      BY <2>4, <2>5
  <1>6. ASSUME NEW r \in Requests, BeginLoad(r) \/ Get(r) \/ CheckGet(r) \/ BeginConsume(r)
                 \/ Abandon(r) \/ CheckConsume(r)
        PROVE  SlotInv'
    <2>1. UNCHANGED <<now, store, origin, active>>
      BY <1>6 DEF BeginLoad, Get, CheckGet, BeginConsume, Abandon, CheckConsume, admissionVars
    <2>. QED
      BY <1>0, <1>6, <2>1
      DEF BeginLoad, Get, CheckGet, BeginConsume, Abandon, CheckConsume
  <1>7. ASSUME NEW h, Remove(h), UNCHANGED <<now, origin, active>>,
               redis \/ store[h] <= now \/ (h \in Handles => origin[h] # "stored"),
               \/ UNCHANGED localVars
               \/ \E r \in Requests : h = handle[r] /\ Goto(r, "consume", "checkConsume")
                                       /\ UNCHANGED <<readAt, handle, expiresAt>>
               \/ \E r \in Requests : Finish(r, "consume")
        PROVE  SlotInv'
    <2>1. /\ DOMAIN store' = DOMAIN store \ {h}
          /\ \A x \in DOMAIN store' : store'[x] = store[x]
      BY <1>7 DEF Remove, Delete, Restrict
    <2>. QED
      BY <1>0, <1>7, <2>1 DEF localVars
  <1>8. ASSUME NEW r \in Requests, Consume(r) PROVE SlotInv'
    <2>1. CASE handle[r] \in DOMAIN store
      BY <1>0, <1>7, <1>8, <2>1 DEF Consume, admissionVars
    <2>2. CASE handle[r] \notin DOMAIN store
      BY <1>0, <1>8, <2>2 DEF Consume, admissionVars
    <2>. QED
      BY <2>1, <2>2
  <1>9. ASSUME NEW r \in Requests, StoreError(r) PROVE SlotInv'
    <2>1. CASE Finish(r, "consume") /\ Remove(handle[r])
      BY <1>7, <1>9, <2>1 DEF StoreError, admissionVars
    <2>2. CASE (Finish(r, "get") \/ Finish(r, "consume")) /\ UNCHANGED store
      BY <1>0, <1>9, <2>2 DEF StoreError, admissionVars
    <2>. QED
      BY <1>9, <2>1, <2>2 DEF StoreError
  <1>10. ASSUME NEW r \in Requests, Release(r) PROVE SlotInv'
    <2>1. /\ DOMAIN active' = DOMAIN active \ {handle[r]}
          /\ \A x \in DOMAIN active' : active'[x] = active[x]
      BY <1>10 DEF Release, release, Delete, Restrict
    <2>. QED
      BY <1>0, <1>10, <2>1 DEF Release
  <1>11. CASE Tick
    BY <1>0, <1>11 DEF Tick, localVars, admissionVars
  <1>12. CASE MemorySweep \/ RedisRemoves
    BY <1>7, <1>12 DEF MemorySweep, RedisRemoves, admissionVars
  <1>13. CASE Restart
    BY <1>0, <1>13 DEF Restart, Origins
  <1>14. CASE UNCHANGED vars
    BY <1>0, <1>14 DEF vars, localVars, admissionVars
  <1>. QED
    BY <1>1, <1>2, <1>3, <1>4, <1>5, <1>6, <1>8, <1>9, <1>10, <1>11, <1>12, <1>13, <1>14
    DEF Next, CreateStep, LoadStep

(* Store, quota and histories agree in every behaviour. *)
LEMMA SlotInvariant == Spec => [](QuotaInv /\ SlotInv)
  <1>1. QuotaInv => TypeInv
    BY DEF QuotaInv
  <1>. QED
    BY QuotaInvariant, SlotInit, SlotStep, <1>1, PTL DEF Spec

(***************************************************************************)
(* The live transactions of this run of the process are all in a slot or   *)
(* about to be committed to one, so there are at most MaxPending of them.  *)
(***************************************************************************)
THEOREM LiveTransactionsNeverExceed == Spec => []LiveTransactionsBounded
  <1>1. ASSUME QuotaInv, SlotInv PROVE LiveTransactionsBounded
    <2> DEFINE Committed == {handle[r] : r \in Reserving}
    <2>1. LiveOwn \subseteq DOMAIN active \cup Committed
      <3>1. ASSUME NEW h \in LiveOwn PROVE h \in DOMAIN active \cup Committed
        <4>1. h \in Handles /\ h \in DOMAIN store /\ store[h] > now
              /\ origin[h] \in {"stored", "own"}
          BY <1>1, <3>1 DEF LiveOwn, QuotaInv, TypeInv, TypeOK, IsSlots
        <4>2. CASE origin[h] = "own"
          BY <1>1, <4>1, <4>2 DEF SlotInv, LedgerInv
        <4>3. CASE origin[h] = "stored"
          BY <1>1, <4>1, <4>3 DEF SlotInv, LedgerInv, Reserving
        <4>. QED
          BY <4>1, <4>2, <4>3
      <3>. QED
        BY <3>1
    <2>2. IsFiniteSet(DOMAIN active) /\ Cardinality(DOMAIN active) \in Nat
      BY <1>1, SlotsFinite DEF QuotaInv, TypeInv, TypeOK
    <2>3. IsFiniteSet(Committed) /\ Cardinality(Committed) <= Cardinality(Reserving)
      <3> DEFINE f == [r \in Reserving |-> handle[r]]
      <3>1. f \in Surjection(Reserving, Committed)
        BY DEF Surjection
      <3>. QED
        BY <3>1, ReservingFinite, FS_Surjection
    <2>4. Cardinality(DOMAIN active \cup Committed)
            <= Cardinality(DOMAIN active) + Cardinality(Reserving)
      <3>1. Cardinality(DOMAIN active \cup Committed)
              = Cardinality(DOMAIN active) + Cardinality(Committed)
                  - Cardinality(DOMAIN active \cap Committed)
        BY <2>2, <2>3, FS_Union
      <3>2. /\ Cardinality(DOMAIN active \cap Committed) \in Nat
            /\ Cardinality(Committed) \in Nat
        BY <2>2, <2>3, FS_Intersection, FS_CardinalityType
      <3>. HIDE DEF Committed
      <3>. QED
        BY <2>2, <2>3, <3>1, <3>2, ReservingFinite
    <2>5. Cardinality(LiveOwn) <= Cardinality(DOMAIN active \cup Committed)
      BY <2>1, <2>2, <2>3, FS_Union, FS_Subset
    <2>6. Cardinality(DOMAIN active) + Cardinality(Reserving) <= MaxPending
      BY <1>1 DEF QuotaInv, QuotaBound, ReservationsAreCreates, Occupied
    <2>7. Cardinality(LiveOwn) \in Nat /\ Cardinality(DOMAIN active \cup Committed) \in Nat
      BY <2>1, <2>2, <2>3, FS_Union, FS_Subset, FS_CardinalityType
    <2>. QED
      BY <2>2, <2>4, <2>5, <2>6, <2>7, ReservingFinite, MaxPendingAssumption
      DEF LiveTransactionsBounded
  <1>. QED
    BY SlotInvariant, <1>1, PTL

-------------------------------------------------------------------------------
(* Slots are neither refused nor kept without cause *)

LEMMA NoDeadSlotsStep ==
    TypeInv /\ SlotInv /\ NoDeadSlots /\ [Next]_vars => NoDeadSlots'
  <1> SUFFICES ASSUME TypeInv, SlotInv, NoDeadSlots, [Next]_vars, ~redis
               PROVE  NoDeadSlots'
    BY StoreStays DEF NoDeadSlots
  <1>0. /\ IsSlots(active) /\ IsSlots(store) /\ now \in Nat
        /\ pc \in [Requests -> PCs] /\ expiresAt \in [Requests -> Nat]
        /\ handle \in [Requests -> Handles \cup {NoHandle}]
        /\ \A h \in DOMAIN active : h \in Handles /\ active[h] \in Nat
    BY DEF TypeInv, TypeOK, IsSlots
  <1>a. LocalsInv /\ LedgerInv
    BY DEF SlotInv
  <1> USE DEF NoDeadSlots, Goto, Finish
  <1>1. ASSUME NEW r \in Requests,
               \/ BeginCreate(r) \/ ReadClock(r) \/ CreateFailed(r) \/ Cancel(r) \/ BeginLoad(r)
               \/ Get(r) \/ CheckGet(r) \/ BeginConsume(r) \/ Abandon(r) \/ CheckConsume(r)
        PROVE  NoDeadSlots'
    <2>1. UNCHANGED <<now, store, active>>
      BY <1>1 DEF BeginCreate, ReadClock, CreateFailed, Cancel, cancel, BeginLoad, Get,
         CheckGet, BeginConsume, Abandon, CheckConsume, admissionVars
    <2>2. \A q \in Requests : pc[q] \in {"checkConsume", "release"} =>
            handle'[q] = handle[q] /\ pc'[q] \in {"checkConsume", "release"}
      BY <1>0, <1>1 DEF BeginCreate, ReadClock, CreateFailed, Cancel, BeginLoad, Get,
         CheckGet, BeginConsume, Abandon, CheckConsume, PCs
    <2>. QED
      BY <1>0, <2>1, <2>2
  <1>2. ASSUME NEW r \in Requests, Reserve(r) PROVE NoDeadSlots'
    <2>1. UNCHANGED <<now, store>> /\ active' = Swept(readAt[r])
      BY <1>2 DEF Reserve, ReserveGranted, ReserveRefused
    <2>2. DOMAIN active' \subseteq DOMAIN active /\ \A h \in DOMAIN active' : active'[h] = active[h]
      BY <1>0, <2>1, SweptKeepsLive
    <2>3. \A q \in Requests : pc[q] \in {"checkConsume", "release"} =>
            handle'[q] = handle[q] /\ pc'[q] = pc[q]
      BY <1>0, <1>2 DEF Reserve
    <2>. QED
      BY <1>0, <2>1, <2>2, <2>3
  <1>3. ASSUME NEW r \in Requests, CreateStored(r) PROVE NoDeadSlots'
    <2>1. UNCHANGED <<now, active>> /\ DOMAIN store \subseteq DOMAIN store'
      BY <1>3 DEF CreateStored, Stored, Put, admissionVars
    <2>2. \A q \in Requests : pc[q] \in {"checkConsume", "release"} =>
            handle'[q] = handle[q] /\ pc'[q] = pc[q]
      BY <1>0, <1>3 DEF CreateStored
    <2>. QED
      BY <1>0, <2>1, <2>2
  <1>4. ASSUME NEW r \in Requests, Commit(r) PROVE NoDeadSlots'
    <2>1. /\ UNCHANGED <<now, store>>
          /\ DOMAIN active' = DOMAIN active \cup {handle[r]}
          /\ \A x \in DOMAIN active' :
                active'[x] = IF x = handle[r] THEN expiresAt[r] ELSE active[x]
      BY <1>4 DEF Commit, commit, Put
    <2>2. expiresAt[r] > now => handle[r] \in DOMAIN store
      BY <1>a, <1>4 DEF Commit, LocalsInv
    <2>3. \A q \in Requests : pc[q] \in {"checkConsume", "release"} =>
            handle'[q] = handle[q] /\ pc'[q] = pc[q]
      BY <1>0, <1>4 DEF Commit
    <2>. QED
      BY <1>0, <2>1, <2>2, <2>3
  <1>5. ASSUME NEW r \in Requests, Consume(r) PROVE NoDeadSlots'
    <2>1. /\ UNCHANGED <<now, active, handle>>
          /\ \A h \in DOMAIN store : h \in DOMAIN store' \/ (h = handle[r] /\ pc'[r] = "checkConsume")
      BY <1>0, <1>5 DEF Consume, Remove, Delete, Restrict, admissionVars
    <2>2. \A q \in Requests : pc[q] \in {"checkConsume", "release"} => pc'[q] = pc[q]
      BY <1>0, <1>5 DEF Consume
    <2>. QED
      BY <1>0, <2>1, <2>2
  <1>6. ASSUME NEW r \in Requests, Release(r) PROVE NoDeadSlots'
    <2>1. /\ UNCHANGED <<now, store>>
          /\ DOMAIN active' = DOMAIN active \ {handle[r]}
          /\ \A x \in DOMAIN active' : active'[x] = active[x]
      BY <1>6 DEF Release, release, Delete, Restrict
    <2>2. \A q \in Requests \ {r} : handle'[q] = handle[q] /\ pc'[q] = pc[q]
      BY <1>0, <1>6 DEF Release
    <2>. QED
      BY <1>0, <2>1, <2>2
  <1>7. CASE Tick
    BY <1>0, <1>7 DEF Tick, admissionVars, localVars
  <1>8. CASE MemorySweep
    <2>1. PICK g \in DOMAIN store : store[g] <= now /\ Remove(g)
      BY <1>8 DEF MemorySweep
    <2>2. DOMAIN store' = DOMAIN store \ {g}
      BY <2>1 DEF Remove, Delete, Restrict
    <2>3. g \in DOMAIN active => active[g] = store[g]
      BY <1>a, <2>1 DEF LedgerInv
    <2>. QED
      BY <1>0, <1>8, <2>1, <2>2, <2>3 DEF MemorySweep, admissionVars, localVars
  <1>9. CASE Restart
    BY <1>9 DEF Restart
  <1>10. CASE UNCHANGED vars
    BY <1>10 DEF vars, admissionVars, localVars
  <1>. QED
    BY <1>1, <1>2, <1>3, <1>4, <1>5, <1>6, <1>7, <1>8, <1>9, <1>10
    DEF Next, CreateStep, LoadStep, RedisRemoves, CreateReplyLost, StoreError

(***************************************************************************)
(* With the in-memory store no unexpired slot outlives its transaction,    *)
(* except while the request that consumed it is on its way to release.     *)
(***************************************************************************)
THEOREM SlotsNotLeaked == Spec => []NoDeadSlots
  <1>1. Init => NoDeadSlots
    BY DEF Init, AdmissionInit, NoDeadSlots
  <1>2. QuotaInv => TypeInv
    BY DEF QuotaInv
  <1>. QED
    BY SlotInvariant, NoDeadSlotsStep, <1>1, <1>2, PTL DEF Spec

(***************************************************************************)
(* reserve turns a request away only when that many transactions were      *)
(* unexpired at its clock reading or being created.                        *)
(***************************************************************************)
THEOREM RefusalsJustified == Spec => RefusedOnlyWhenFull
  <1> DEFINE Refusal(r) ==
        pc[r] = "reserve" /\ pc'[r] = "idle" /\ <<reserved', active'>> # <<0, <<>>>>
  <1>1. ASSUME QuotaInv, Next, NEW r \in Requests, Refusal(r)
        PROVE  Cardinality({h \in DOMAIN active : active[h] > readAt[r]})
                 + Cardinality(Reserving) >= MaxPending
    <2>1. Reserve(r)
      <3>1. pc \in [Requests -> PCs]
        BY <1>1 DEF QuotaInv, TypeInv, TypeOK
      <3>2. ~Restart /\ ~Tick /\ ~MemorySweep /\ ~RedisRemoves
        BY <1>1 DEF Restart, Tick, MemorySweep, RedisRemoves, localVars
      <3>3. PICK q \in Requests : CreateStep(q) \/ LoadStep(q)
        BY <1>1, <3>2 DEF Next
      <3>4. q = r
        BY <1>1, <3>1, <3>3 DEF CreateStep, LoadStep, Goto, Finish, BeginCreate, ReadClock,
           Reserve, CreateStored, CreateFailed, CreateReplyLost, Commit, Cancel, BeginLoad, Get,
           CheckGet, BeginConsume, Abandon, Consume, CheckConsume, StoreError, Release
      <3>. QED
        BY <1>1, <3>1, <3>3, <3>4 DEF CreateStep, LoadStep, Goto, Finish, BeginCreate, ReadClock,
           CreateStored, CreateFailed, CreateReplyLost, Commit, Cancel, BeginLoad, Get,
           CheckGet, BeginConsume, Abandon, Consume, CheckConsume, StoreError, Release
    <2>2. ReserveRefused(readAt[r])
      BY <1>1, <2>1 DEF Reserve, Goto, QuotaInv, TypeInv, TypeOK
    <2>3. IsSlots(active) /\ reserved \in Nat /\ reserved = Cardinality(Reserving)
      BY <1>1 DEF QuotaInv, ReservationsAreCreates, TypeInv, TypeOK
    <2>4. CASE Occupied(active) >= MaxPending
      <3>1. DOMAIN Swept(readAt[r]) = {h \in DOMAIN active : active[h] > readAt[r]}
        BY <2>3, <2>4, SweepKeepsLive DEF Swept
      <3>. QED
        BY <2>2, <2>3, <3>1 DEF ReserveRefused, Occupied
    <2>5. CASE ~(Occupied(active) >= MaxPending)
      BY <2>2, <2>5 DEF ReserveRefused, Swept
    <2>. QED
      BY <2>4, <2>5
  <1>2. ASSUME QuotaInv, [Next]_vars
        PROVE  [\A r \in Requests : Refusal(r) =>
                  Cardinality({h \in DOMAIN active : active[h] > readAt[r]})
                    + Cardinality(Reserving) >= MaxPending]_vars
    BY <1>1, <1>2
  <1>. QED
    BY QuotaInvariant, <1>2, PTL DEF Spec, RefusedOnlyWhenFull

===============================================================================

---------------------------- MODULE RedisStoreProofs ----------------------------
(***************************************************************************)
(* Proofs about RedisStore: types, that the server drops no transaction    *)
(* a whole millisecond early, that the store implements its port, and that *)
(* ErrReplay is truthful, for any number of callers, handles and retries   *)
(* and any granularity of the clock.                                       *)
(***************************************************************************)
EXTENDS RedisStore, TLAPS

(* Types of the server's keys and of the transactions ever stored. *)
KeyTypes ==
    /\ DOMAIN keys \subseteq Handles
    /\ keys \in [DOMAIN keys -> [expiresAt : Nat, deadline : Nat]]
    /\ DOMAIN issued \subseteq Handles
    /\ issued \in [DOMAIN issued -> Nat]

(* Types of the calls in progress. *)
CallTypes ==
    /\ pc \in [Callers -> {"idle", "ttl", "setnx", "get", "checkGet",
                           "consume", "checkConsume"}]
    /\ expiresAt \in [Callers -> Nat]
    /\ ttl \in [Callers -> Nat]
    /\ key \in [Callers -> Handles \cup {NoHandle}]
    /\ tries \in [Callers -> 0 .. 3]
    /\ retries \in [Callers -> 0 .. MaxRetries]

(***************************************************************************)
(* A key lives at least as long as its transaction because the TTL a call  *)
(* sends was computed at a time that is past.                              *)
(***************************************************************************)
SentInv == \A c \in Callers : pc[c] = "setnx" => now + ttl[c] >= expiresAt[c]

(* Every key is a transaction that was stored, under its own expiry. *)
Recorded == \A h \in DOMAIN keys : h \in DOMAIN issued /\ keys[h].expiresAt = issued[h]

KeyInv == KeyTypes /\ Recorded /\ TTLCoversExpiry

StoreInv == TypeOK /\ Recorded /\ SentInv /\ TTLCoversExpiry

-------------------------------------------------------------------------------
(* Cutting a lifetime to milliseconds takes less than one away (go-redis). *)
LEMMA MillisecondsCut ==
    ASSUME NEW life \in Nat
    PROVE  /\ Milliseconds(life) \in Nat /\ Milliseconds(life) > 0
           /\ Milliseconds(life) > life - TicksPerMillisecond
<1>1. CASE life < TicksPerMillisecond
  BY <1>1, RedisStoreAssumption DEF Milliseconds
<1>2. CASE ~(life < TicksPerMillisecond)
  <2>1. life % TicksPerMillisecond \in 0 .. TicksPerMillisecond - 1
    BY RedisStoreAssumption
  <2>2. life - (life % TicksPerMillisecond) > 0
    BY <1>2, <2>1, RedisStoreAssumption
  <2> QED
    BY <1>2, <2>1, <2>2, RedisStoreAssumption DEF Milliseconds
<1> QED
  BY <1>1, <1>2

(* A SET NX that was computed in time leaves the keys in order (SetNX). *)
LEMMA SetNXKeeps ==
    ASSUME KeyInv, now \in Nat,
           NEW h \in Handles, NEW payload \in Nat, NEW life \in Nat,
           now + life >= payload,
           SetNX(h, payload, life)
    PROVE  KeyInv'
<1>1. CASE UNCHANGED <<keys, issued>>
  BY <1>1 DEF KeyInv, KeyTypes, Recorded, TTLCoversExpiry
<1>2. ASSUME NEW end \in Nat, end >= now + Milliseconds(life),
             keys' = Put(keys, h, [expiresAt |-> payload, deadline |-> end]),
             issued' = Put(issued, h, payload)
      PROVE  KeyInv'
  <2>1. DOMAIN keys' = DOMAIN keys \cup {h} /\ DOMAIN issued' = DOMAIN issued \cup {h}
    BY <1>2 DEF Put
  <2>2. /\ keys'[h] = [expiresAt |-> payload, deadline |-> end]
        /\ issued'[h] = payload
    BY <1>2 DEF Put
  <2>3. \A g \in DOMAIN keys \ {h} : keys'[g] = keys[g]
    BY <1>2 DEF Put
  <2>4. \A g \in DOMAIN issued \ {h} : issued'[g] = issued[g]
    BY <1>2 DEF Put
  <2>5. keys'[h].expiresAt = payload /\ keys'[h].deadline = end
    BY <2>2
  <2>6. keys' \in [DOMAIN keys' -> [expiresAt : Nat, deadline : Nat]]
    BY <1>2 DEF Put, KeyInv, KeyTypes
  <2>7. issued' \in [DOMAIN issued' -> Nat]
    BY <1>2 DEF Put, KeyInv, KeyTypes
  <2>8. KeyTypes'
    BY <2>1, <2>6, <2>7 DEF KeyInv, KeyTypes
  <2>9. Recorded'
    BY <2>1, <2>2, <2>3, <2>4, <2>5 DEF KeyInv, Recorded
  <2>10. end > payload - TicksPerMillisecond
    BY <1>2, MillisecondsCut, RedisStoreAssumption
  <2>11. TTLCoversExpiry'
    BY <2>1, <2>2, <2>3, <2>4, <2>5, <2>10 DEF KeyInv, Recorded, TTLCoversExpiry
  <2> QED BY <2>8, <2>9, <2>11 DEF KeyInv
<1>3. ASSUME NEW late \in 0 .. TicksPerMillisecond,
             keys' = Put(keys, h, [expiresAt |-> payload,
                                   deadline |-> now + Milliseconds(life) + late]),
             issued' = Put(issued, h, payload)
      PROVE  KeyInv'
  <2>1. /\ now + Milliseconds(life) + late \in Nat
        /\ now + Milliseconds(life) + late >= now + Milliseconds(life)
    BY MillisecondsCut, RedisStoreAssumption
  <2> QED BY <1>2, <1>3, <2>1
<1> QED BY <1>1, <1>3 DEF SetNX

(* So does the removal of a key (consumeScript). *)
LEMMA GetDelKeeps ==
    ASSUME KeyInv, NEW h, GetDel(h)
    PROVE  KeyInv'
<1>1. DOMAIN keys' = DOMAIN keys \ {h}
  BY DEF GetDel, Restrict
<1>2. \A g \in DOMAIN keys' : keys'[g] = keys[g]
  BY DEF GetDel, Restrict
<1>3. keys' \in [DOMAIN keys' -> [expiresAt : Nat, deadline : Nat]]
  BY DEF GetDel, Restrict, KeyInv, KeyTypes
<1> QED BY <1>1, <1>2, <1>3 DEF GetDel, KeyInv, KeyTypes, Recorded, TTLCoversExpiry

-------------------------------------------------------------------------------
(* A call that returns leaves the calls well-typed, and nothing of it is sent (Return). *)
LEMMA ReturnKeeps ==
    ASSUME CallTypes, SentInv, UNCHANGED now, NEW c \in Callers, NEW from, Return(c, from)
    PROVE  CallTypes' /\ SentInv'
<1> USE RedisStoreAssumption
<1>1. CallTypes'
  BY DEF CallTypes, Return, Goto
<1>2. SentInv'
  BY DEF CallTypes, SentInv, Return, Goto
<1> QED BY <1>1, <1>2

(* A call that is sent again stays the same call (go-redis). *)
LEMMA UnansweredKeeps ==
    ASSUME CallTypes, SentInv, UNCHANGED now, NEW c \in Callers, NEW at, Unanswered(c, at)
    PROVE  CallTypes' /\ SentInv'
<1>1. CASE /\ pc[c] = at /\ retries[c] > 0
           /\ retries' = [retries EXCEPT ![c] = @ - 1]
           /\ UNCHANGED <<pc, expiresAt, ttl, key, tries>>
  BY <1>1, RedisStoreAssumption DEF CallTypes, SentInv
<1>2. CASE Return(c, at)
  BY <1>2, ReturnKeeps
<1> QED BY <1>1, <1>2 DEF Unanswered

(* An answered GET or GET+DEL brings the expiry of a stored transaction (Get, Consume). *)
LEMMA AnsweredKeeps ==
    ASSUME CallTypes, SentInv, KeyTypes, UNCHANGED now,
           NEW c \in Callers, NEW from, NEW to \in {"checkGet", "checkConsume"},
           Answered(c, from, to)
    PROVE  CallTypes' /\ SentInv'
<1>1. CASE /\ key[c] \in Visible
           /\ Goto(c, from, to)
           /\ expiresAt' = [expiresAt EXCEPT ![c] = keys[key[c]].expiresAt]
           /\ UNCHANGED <<ttl, key, tries, retries>>
  <2>1. keys[key[c]].expiresAt \in Nat
    BY <1>1 DEF Visible, KeyTypes
  <2>2. CallTypes'
    BY <1>1, <2>1 DEF CallTypes, Goto
  <2>3. SentInv'
    BY <1>1, <2>1 DEF CallTypes, SentInv, Goto
  <2> QED BY <2>2, <2>3
<1>2. CASE Return(c, from)
  BY <1>2, ReturnKeeps
<1> QED BY <1>1, <1>2 DEF Answered

-------------------------------------------------------------------------------
(* No step of a call spoils the keys (CallStep). *)
LEMMA KeysKept ==
    ASSUME KeyInv, CallTypes, SentInv, now \in Nat, NEW c \in Callers, CallStep(c)
    PROVE  KeyInv'
<1> USE RedisStoreAssumption
<1>1. ASSUME UNCHANGED <<keys, issued>>
      PROVE  KeyInv'
  BY <1>1 DEF KeyInv, KeyTypes, Recorded, TTLCoversExpiry
<1>2. ASSUME NEW h \in New(c) \cup Colliding(c), pc[c] = "setnx", SetNX(h, expiresAt[c], ttl[c])
      PROVE  KeyInv'
  <2>1. h \in Handles
    BY <1>2 DEF New, Colliding, HandlesLeft, Visible, KeyInv, KeyTypes, CallTypes
  <2>2. expiresAt[c] \in Nat /\ ttl[c] \in Nat /\ now + ttl[c] >= expiresAt[c]
    BY <1>2 DEF CallTypes, SentInv
  <2> QED BY <1>2, <2>1, <2>2, SetNXKeeps
<1>3. CASE SetNXAnswered(c)
  <2>1. PICK h \in New(c) \cup Colliding(c) : pc[c] = "setnx" /\ SetNX(h, expiresAt[c], ttl[c])
    BY <1>3 DEF SetNXAnswered, Return, Goto
  <2> QED BY <2>1, <1>2
<1>4. CASE SetNXResent(c)
  <2>1. pc[c] = "setnx"
    BY <1>4 DEF SetNXResent
  <2>2. PICK h \in New(c) : SetNX(h, expiresAt[c], ttl[c]) \/ UNCHANGED <<keys, issued>>
    BY <1>4 DEF SetNXResent
  <2> QED BY <2>1, <2>2, <1>1, <1>2
<1>5. CASE SetNXFails(c)
  <2>1. pc[c] = "setnx"
    BY <1>5 DEF SetNXFails, Return, Goto
  <2>2. PICK h \in New(c) : SetNX(h, expiresAt[c], ttl[c]) \/ UNCHANGED <<keys, issued>>
    BY <1>5 DEF SetNXFails
  <2> QED BY <2>1, <2>2, <1>1, <1>2
<1>6. CASE ConsumeAnswered(c)
  BY <1>6, GetDelKeeps DEF ConsumeAnswered
<1>7. CASE ConsumeUnanswered(c)
  BY <1>1, <1>7, GetDelKeeps DEF ConsumeUnanswered
<1>8. CASE \/ BeginCreate(c) \/ ComputeTTL(c) \/ DrawFails(c)
           \/ BeginGet(c) \/ GetAnswered(c) \/ GetUnanswered(c) \/ GetReturns(c)
           \/ BeginConsume(c) \/ ConsumeReturns(c)
  BY <1>1, <1>8 DEF BeginCreate, ComputeTTL, DrawFails, BeginGet, GetAnswered,
                    GetUnanswered, GetReturns, BeginConsume, BeginWith, ConsumeReturns
<1> QED BY <1>3, <1>4, <1>5, <1>6, <1>7, <1>8 DEF CallStep

(* No step of a call spoils the calls (CallStep). *)
LEMMA CallsKept ==
    ASSUME KeyInv, CallTypes, SentInv, now \in Nat, NEW c \in Callers, CallStep(c)
    PROVE  CallTypes' /\ SentInv' /\ UNCHANGED now
<1> USE RedisStoreAssumption
<1>0. UNCHANGED now
  BY DEF CallStep, BeginCreate, ComputeTTL, SetNXAnswered, DrawFails, SetNXResent, SetNXFails,
         BeginGet, GetAnswered, GetUnanswered, GetReturns, BeginConsume, BeginWith,
         ConsumeAnswered, ConsumeUnanswered, ConsumeReturns
<1>1. ASSUME NEW from, Return(c, from)
      PROVE  CallTypes' /\ SentInv'
  BY <1>0, <1>1, ReturnKeeps
<1>2. ASSUME BeginCreate(c)
      PROVE  CallTypes' /\ SentInv'
  <2>1. PICK life \in Lifetimes : expiresAt' = [expiresAt EXCEPT ![c] = now + life]
    BY <1>2 DEF BeginCreate
  <2>2. CallTypes'
    BY <1>2, <2>1 DEF BeginCreate, Goto, CallTypes
  <2>3. SentInv'
    BY <1>2, <2>1 DEF BeginCreate, Goto, CallTypes, SentInv
  <2> QED BY <2>2, <2>3
<1>3. ASSUME ComputeTTL(c)
      PROVE  CallTypes' /\ SentInv'
  <2>1. CASE expiresAt[c] > now
    <3>1. expiresAt[c] - now \in Nat
      BY <2>1 DEF CallTypes
    <3>2. /\ pc' = [pc EXCEPT ![c] = "setnx"]
          /\ ttl' = [ttl EXCEPT ![c] = expiresAt[c] - now]
          /\ tries' = [tries EXCEPT ![c] = 3]
          /\ retries' = [retries EXCEPT ![c] = MaxRetries]
          /\ UNCHANGED <<expiresAt, key, now>>
      BY <1>3, <2>1 DEF ComputeTTL, Goto
    <3>3. CallTypes'
      BY <3>1, <3>2 DEF CallTypes
    <3>4. SentInv'
      BY <3>1, <3>2 DEF CallTypes, SentInv
    <3> QED BY <3>3, <3>4
  <2>2. CASE ~(expiresAt[c] > now)
    BY <1>1, <1>3, <2>2 DEF ComputeTTL
  <2> QED BY <2>1, <2>2
<1>4. ASSUME SetNXAnswered(c)
      PROVE  CallTypes' /\ SentInv'
  <2>1. CASE Return(c, "setnx")
    BY <1>1, <2>1
  <2>2. CASE /\ tries[c] > 1 /\ pc[c] = "setnx"
             /\ key' = [key EXCEPT ![c] = NoHandle]
             /\ tries' = [tries EXCEPT ![c] = @ - 1]
             /\ retries' = [retries EXCEPT ![c] = MaxRetries]
             /\ UNCHANGED <<pc, expiresAt, ttl>>
    BY <1>0, <2>2 DEF CallTypes, SentInv
  <2> QED BY <1>4, <2>1, <2>2 DEF SetNXAnswered
<1>5. ASSUME SetNXResent(c)
      PROVE  CallTypes' /\ SentInv'
  <2>1. PICK h \in New(c) : key' = [key EXCEPT ![c] = h]
    BY <1>5 DEF SetNXResent
  <2>2. h \in Handles
    BY <2>1 DEF New, HandlesLeft, CallTypes
  <2>3. /\ retries[c] > 0 /\ retries' = [retries EXCEPT ![c] = @ - 1]
        /\ UNCHANGED <<now, pc, expiresAt, ttl, tries>>
    BY <1>5 DEF SetNXResent
  <2>4. CallTypes'
    BY <2>1, <2>2, <2>3 DEF CallTypes
  <2>5. SentInv'
    BY <2>3 DEF SentInv
  <2> QED BY <2>4, <2>5
<1>6. ASSUME DrawFails(c) \/ SetNXFails(c) \/ GetReturns(c) \/ ConsumeReturns(c)
      PROVE  CallTypes' /\ SentInv'
  BY <1>1, <1>6 DEF DrawFails, SetNXFails, GetReturns, ConsumeReturns
<1>7. ASSUME NEW to \in {"get", "consume"}, BeginWith(c, to)
      PROVE  CallTypes' /\ SentInv'
  <2>1. PICK h \in DOMAIN issued : key' = [key EXCEPT ![c] = h]
    BY <1>7 DEF BeginWith
  <2>2. h \in Handles
    BY <2>1 DEF KeyInv, KeyTypes
  <2>3. /\ pc' = [pc EXCEPT ![c] = to] /\ retries' = [retries EXCEPT ![c] = MaxRetries]
        /\ UNCHANGED <<now, expiresAt, ttl, tries>>
    BY <1>7 DEF BeginWith, Goto
  <2>4. CallTypes'
    BY <2>1, <2>2, <2>3 DEF CallTypes
  <2>5. SentInv'
    BY <2>3 DEF CallTypes, SentInv
  <2> QED BY <2>4, <2>5
<1>8. ASSUME BeginGet(c) \/ BeginConsume(c)
      PROVE  CallTypes' /\ SentInv'
  BY <1>7, <1>8 DEF BeginGet, BeginConsume
<1>9. ASSUME GetAnswered(c) \/ ConsumeAnswered(c)
      PROVE  CallTypes' /\ SentInv'
  BY <1>0, <1>9, AnsweredKeeps DEF GetAnswered, ConsumeAnswered, KeyInv
<1>10. ASSUME GetUnanswered(c) \/ ConsumeUnanswered(c)
      PROVE  CallTypes' /\ SentInv'
  BY <1>0, <1>10, UnansweredKeeps DEF GetUnanswered, ConsumeUnanswered
<1>11. CallTypes' /\ SentInv'
  BY <1>2, <1>3, <1>4, <1>5, <1>6, <1>8, <1>9, <1>10 DEF CallStep
<1> QED BY <1>0, <1>11

(* Nor does it spoil the history (CallStep). *)
LEMMA HistoryKept ==
    ASSUME KeyInv, CallTypes, uses \in [Handles -> Nat], dropped \subseteq Handles,
           NEW c \in Callers, CallStep(c)
    PROVE  uses' \in [Handles -> Nat] /\ dropped' \subseteq Handles
<1>1. CASE ConsumeReturns(c)
  <2>1. PICK h : h = key[c]
    OBVIOUS
  <2>2. [uses EXCEPT ![h] = @ + 1] \in [Handles -> Nat]
    <3>1. CASE h \in Handles
      <4>1. uses[h] + 1 \in Nat
        BY <3>1
      <4> QED BY <3>1, <4>1
    <3>2. CASE h \notin Handles
      BY <3>2
    <3> QED BY <3>1, <3>2
  <2>3. uses' = uses \/ uses' = [uses EXCEPT ![h] = @ + 1]
    BY <1>1, <2>1 DEF ConsumeReturns
  <2>4. dropped' = dropped
    BY <1>1 DEF ConsumeReturns
  <2> QED BY <2>2, <2>3, <2>4
<1>2. CASE ConsumeUnanswered(c)
  BY <1>2 DEF ConsumeUnanswered, Visible, KeyInv, KeyTypes
<1>3. CASE UNCHANGED <<uses, dropped>>
  BY <1>3
<1> QED BY <1>1, <1>2, <1>3 DEF CallStep, BeginCreate, ComputeTTL, SetNXAnswered, DrawFails,
         SetNXResent, SetNXFails, BeginGet, GetAnswered, GetUnanswered, GetReturns,
         BeginConsume, BeginWith, ConsumeAnswered

-------------------------------------------------------------------------------
(* An empty server satisfies the invariant (NewRedisStore). *)
LEMMA RedisInit == Init => StoreInv
<1> SUFFICES ASSUME Init PROVE StoreInv
  OBVIOUS
<1>1. DOMAIN keys = {} /\ DOMAIN issued = {}
  BY DEF Init
<1>2. keys \in [DOMAIN keys -> [expiresAt : Nat, deadline : Nat]] /\ issued \in [DOMAIN issued -> Nat]
  BY <1>1 DEF Init
<1>3. TypeOK
  BY <1>1, <1>2, RedisStoreAssumption DEF Init, TypeOK
<1> QED BY <1>1, <1>3 DEF Init, StoreInv, Recorded, SentInv, TTLCoversExpiry

(* Every step preserves the invariant, the passing of time too (Tick, CallStep). *)
LEMMA RedisStep == StoreInv /\ [Next]_vars => StoreInv'
<1> SUFFICES ASSUME StoreInv, [Next]_vars PROVE StoreInv'
  OBVIOUS
<1>1. KeyInv /\ CallTypes /\ SentInv /\ now \in Nat
  BY DEF StoreInv, TypeOK, KeyInv, KeyTypes, CallTypes
<1>2. ASSUME KeyInv', CallTypes', SentInv', now' \in Nat,
             uses' \in [Handles -> Nat], dropped' \subseteq Handles
      PROVE  StoreInv'
  BY <1>2 DEF StoreInv, TypeOK, KeyInv, KeyTypes, CallTypes
<1>3. CASE Tick
  <2>1. now' \in Nat /\ now' >= now
    BY <1>1, <1>3 DEF Tick
  <2>2. CallTypes' /\ KeyInv'
    BY <1>1, <1>3 DEF Tick, callVars, CallTypes, KeyInv, KeyTypes, Recorded, TTLCoversExpiry
  <2>3. SentInv'
    BY <1>1, <1>3, <2>1 DEF Tick, callVars, CallTypes, SentInv
  <2>4. uses' \in [Handles -> Nat] /\ dropped' \subseteq Handles
    BY <1>3 DEF Tick, StoreInv, TypeOK
  <2> QED BY <1>2, <2>1, <2>2, <2>3, <2>4
<1>4. ASSUME NEW c \in Callers, CallStep(c)
      PROVE  StoreInv'
  <2>1. uses \in [Handles -> Nat] /\ dropped \subseteq Handles
    BY DEF StoreInv, TypeOK
  <2> QED BY <1>1, <1>2, <1>4, <2>1, KeysKept, CallsKept, HistoryKept
<1>5. CASE UNCHANGED vars
  BY <1>5 DEF vars, callVars, StoreInv, TypeOK, Recorded, SentInv, TTLCoversExpiry
<1> QED BY <1>3, <1>4, <1>5 DEF Next

(* The server's keys, the calls and the history keep their types (RedisStore). *)
THEOREM RedisTypeCorrect == Spec => []TypeOK
<1>1. StoreInv => TypeOK
  BY DEF StoreInv
<1> QED BY <1>1, RedisInit, RedisStep, PTL DEF Spec

(***************************************************************************)
(* However late a SET NX is executed, and even when it is executed again   *)
(* after its key ran out, the key ends less than a millisecond before the  *)
(* transaction expires, if at all: what go-redis cuts off the lifetime is  *)
(* all that is ever lost (RedisStore.Create).                              *)
(***************************************************************************)
THEOREM KeyEndsWithinMillisecond == Spec => []TTLCoversExpiry
<1>1. StoreInv => TTLCoversExpiry
  BY DEF StoreInv
<1> QED BY <1>1, RedisInit, RedisStep, PTL DEF Spec

-------------------------------------------------------------------------------
(***************************************************************************)
(* The implementation of the port                                          *)
(*                                                                         *)
(* LedgerInv says where every transaction is: under its key, with a        *)
(* consumer that has yet to look at the clock, or gone for a reason.  The  *)
(* delicate case is a SET NX that is sent again and finds its own key run  *)
(* out: it stores the transaction anew, and that must bring nothing back.  *)
(* Nobody else can have learnt the handle before Create ended (Claim,      *)
(* Apart), so the key was not removed but ran out, and the transaction has *)
(* expired or, as Create can still send it again, counts as pending.       *)
(***************************************************************************)
Removing(c, h) == pc[c] = "checkConsume" /\ key[c] = h

ClockInv == now <= MaxTime

(* Every transaction is accounted for ... *)
Accounted ==
    \A h \in DOMAIN issued :
        \/ h \in DOMAIN keys \/ h \in dropped \/ uses[h] = 1
        \/ issued[h] < now + TicksPerMillisecond
        \/ \E c \in Callers : Removing(c, h)

(* ... and what was consumed is nowhere any more. *)
Spent ==
    \A h \in Handles : uses[h] # 0 =>
        /\ h \in DOMAIN issued \ DOMAIN keys
        /\ \A c \in Callers : ~Removing(c, h)

(* What a call knows of the handle it holds. *)
Claim(c) ==
    /\ pc[c] \in {"idle", "ttl"} => key[c] = NoHandle
    /\ pc[c] \in {"ttl", "setnx"} =>
          expiresAt[c] \in {t + life : t \in 0 .. MaxTime, life \in Lifetimes}
    /\ pc[c] = "setnx" /\ key[c] \in DOMAIN issued =>
          key[c] \in DOMAIN keys /\ issued[key[c]] = expiresAt[c]
    /\ pc[c] \in {"get", "checkGet", "consume", "checkConsume"} => key[c] \in DOMAIN issued
    /\ pc[c] = "checkConsume" => key[c] \notin DOMAIN keys /\ expiresAt[c] = issued[key[c]]

(* A handle being created is its creator's alone; one call removes a key. *)
Apart ==
    \A c, d \in Callers : c # d /\ key[c] = key[d] /\ key[c] # NoHandle =>
        pc[c] # "setnx" /\ ~(pc[c] = "checkConsume" /\ pc[d] = "checkConsume")

LedgerInv == ClockInv /\ Accounted /\ Spent /\ (\A c \in Callers : Claim(c)) /\ Apart

(* An empty server has an empty ledger (NewRedisStore). *)
LEMMA LedgerInit == Init => LedgerInv
  BY RedisStoreAssumption
  DEF Init, LedgerInv, ClockInv, Accounted, Spent, Claim, Apart, Removing

(* What a SET NX may set belongs to its call: nobody else holds the handle (New). *)
LEMMA NewIsOwn ==
    ASSUME KeyInv, CallTypes, LedgerInv, NEW c \in Callers, pc[c] = "setnx", NEW h \in New(c)
    PROVE  /\ h \in Handles
           /\ \A d \in Callers \ {c} : key[d] # h
           /\ h \in DOMAIN issued => h \in DOMAIN keys /\ issued[h] = expiresAt[c]
<1> USE RedisStoreAssumption DEF KeyInv, KeyTypes, CallTypes, LedgerInv
<1>1. CASE key[c] = NoHandle
  <2>1. h \in Handles /\ h \notin DOMAIN issued /\ h # NoHandle
        /\ \A d \in Callers : pc[d] = "setnx" => key[d] # h
    BY <1>1 DEF New, HandlesLeft
  <2>2. \A d \in Callers : pc[d] # "setnx" => key[d] = NoHandle \/ key[d] \in DOMAIN issued
    BY DEF Claim
  <2> QED
    BY <2>1, <2>2
<1>2. CASE key[c] # NoHandle
  <2>1. h = key[c] /\ h \in Handles
    BY <1>2 DEF New
  <2>2. \A d \in Callers \ {c} : key[d] # h
    BY <1>2, <2>1 DEF Apart
  <2> QED
    BY <2>1, <2>2 DEF Claim
<1> QED
  BY <1>1, <1>2

(***************************************************************************)
(* A step of a call has one of five effects on the keys, the history and   *)
(* the removers.                                                           *)
(***************************************************************************)
SameRemover(c) ==
    /\ \A h \in Handles : Removing(c, h)' <=> Removing(c, h)
    /\ pc[c] = "checkConsume" => expiresAt'[c] = expiresAt[c]

RemoversStay == \A c \in Callers : SameRemover(c)
OthersStay(c) == \A d \in Callers \ {c} : SameRemover(d)

Idles == UNCHANGED <<keys, issued, uses, dropped>> /\ RemoversStay

Stores(c, h) ==
    /\ pc[c] = "setnx" /\ h \in New(c) \ Visible
    /\ \E late \in 0 .. TicksPerMillisecond :
          keys' = Put(keys, h, [expiresAt |-> expiresAt[c],
                                deadline |-> now + Milliseconds(ttl[c]) + late])
    /\ issued' = Put(issued, h, expiresAt[c])
    /\ UNCHANGED <<uses, dropped>> /\ RemoversStay

Clears(c, h) ==
    /\ pc[c] = "consume" /\ key[c] = h /\ GetDel(h)
    /\ dropped \subseteq dropped' /\ (h \in Visible => h \in dropped')
    /\ UNCHANGED uses /\ RemoversStay

Takes(c, h) ==
    /\ pc[c] = "consume" /\ key[c] = h /\ h \in Visible /\ GetDel(h)
    /\ UNCHANGED <<uses, dropped>>
    /\ \A g \in Handles : Removing(c, g)' <=> g = h
    /\ OthersStay(c)

Counts(c, h) ==
    /\ Removing(c, h) /\ (\A g \in Handles : ~Removing(c, g)')
    /\ UNCHANGED <<keys, issued, dropped>>
    /\ uses' = IF expiresAt[c] > now THEN [uses EXCEPT ![h] = @ + 1] ELSE uses
    /\ OthersStay(c)

Effect(c) ==
    \/ Idles
    \/ \E h \in Handles : Stores(c, h) \/ Clears(c, h) \/ Takes(c, h) \/ Counts(c, h)

(* The call of another caller is nobody's business. *)
OthersAsTheyWere(c) ==
    \A d \in Callers \ {c} : /\ pc'[d] = pc[d] /\ key'[d] = key[d]
                             /\ expiresAt'[d] = expiresAt[d]

(* A step of a call moves that call alone, and takes no time (CallStep). *)
LEMMA OneCallMoves ==
    ASSUME CallTypes, NEW c \in Callers, CallStep(c)
    PROVE  OthersAsTheyWere(c) /\ now' = now
<1> USE DEF CallTypes, OthersAsTheyWere, Goto, Return
<1>1. CASE BeginCreate(c)
  BY <1>1 DEF BeginCreate
<1>2. CASE ComputeTTL(c)
  BY <1>2 DEF ComputeTTL
<1>3. CASE SetNXAnswered(c) \/ DrawFails(c)
  BY <1>3 DEF SetNXAnswered, DrawFails
<1>4. CASE SetNXResent(c) \/ SetNXFails(c)
  BY <1>4 DEF SetNXResent, SetNXFails
<1>5. CASE BeginGet(c) \/ BeginConsume(c)
  BY <1>5 DEF BeginGet, BeginConsume, BeginWith
<1>6. CASE GetAnswered(c) \/ ConsumeAnswered(c)
  BY <1>6 DEF GetAnswered, ConsumeAnswered, Answered
<1>7. CASE GetUnanswered(c) \/ ConsumeUnanswered(c)
  BY <1>7 DEF GetUnanswered, ConsumeUnanswered, Unanswered
<1>8. CASE GetReturns(c) \/ ConsumeReturns(c)
  BY <1>8 DEF GetReturns, ConsumeReturns
<1> QED
  BY <1>1, <1>2, <1>3, <1>4, <1>5, <1>6, <1>7, <1>8 DEF CallStep

(* Whoever did not remove anything before the step nor after it is no remover. *)
LEMMA NoRemover ==
    ASSUME NEW c \in Callers, OthersAsTheyWere(c),
           pc[c] # "checkConsume", pc'[c] # "checkConsume"
    PROVE  RemoversStay
  BY DEF OthersAsTheyWere, RemoversStay, SameRemover, Removing

(* A SET NX that finds no visible key stores the transaction, another one does nothing. *)
LEMMA SetNXEffect ==
    ASSUME KeyInv, CallTypes, LedgerInv, NEW c \in Callers, pc[c] = "setnx", RemoversStay,
           UNCHANGED <<uses, dropped>>,
           NEW h \in New(c) \cup Colliding(c),
           SetNX(h, expiresAt[c], ttl[c]) \/ UNCHANGED <<keys, issued>>
    PROVE  Effect(c)
<1>1. CASE UNCHANGED <<keys, issued>>
  BY <1>1 DEF Effect, Idles
<1>2. CASE SetNX(h, expiresAt[c], ttl[c]) /\ h \notin Visible
  <2>1. h \in New(c)
    BY <1>2 DEF Colliding
  <2>2. h \in Handles
    BY <2>1, NewIsOwn
  <2>3. Stores(c, h)
    BY <1>2, <2>1 DEF SetNX, Stores
  <2> QED
    BY <2>2, <2>3 DEF Effect
<1> QED
  BY <1>1, <1>2 DEF SetNX

(* Each step of Create, Get and Consume has one of the five effects. *)
LEMMA CallEffect ==
    ASSUME KeyInv, CallTypes, LedgerInv, NEW c \in Callers, CallStep(c)
    PROVE  Effect(c)
<1>0. OthersAsTheyWere(c)
  BY OneCallMoves
<1>1. ASSUME \/ BeginCreate(c) \/ ComputeTTL(c) \/ DrawFails(c) \/ BeginGet(c)
             \/ BeginConsume(c) \/ GetAnswered(c) \/ GetUnanswered(c) \/ GetReturns(c)
      PROVE  Effect(c)
  <2> USE DEF CallTypes, Goto, Return
  <2>1. UNCHANGED <<keys, issued, uses, dropped>>
    BY <1>1 DEF BeginCreate, ComputeTTL, DrawFails, BeginGet, BeginConsume, BeginWith,
                GetAnswered, GetUnanswered, GetReturns
  <2>2. pc[c] # "checkConsume" /\ pc'[c] # "checkConsume"
    BY <1>1 DEF BeginCreate, ComputeTTL, DrawFails, BeginGet, BeginConsume, BeginWith,
                GetAnswered, GetUnanswered, GetReturns, Answered, Unanswered
  <2> QED
    BY <1>0, <2>1, <2>2, NoRemover DEF Effect, Idles
<1>2. ASSUME SetNXAnswered(c) \/ SetNXResent(c) \/ SetNXFails(c) PROVE Effect(c)
  <2>1. pc[c] = "setnx" /\ pc'[c] # "checkConsume" /\ UNCHANGED <<uses, dropped>>
    BY <1>2 DEF SetNXAnswered, SetNXResent, SetNXFails, Return, Goto, CallTypes
  <2>2. RemoversStay
    BY <1>0, <2>1, NoRemover
  <2>3. PICK h \in New(c) \cup Colliding(c) :
          SetNX(h, expiresAt[c], ttl[c]) \/ UNCHANGED <<keys, issued>>
    BY <1>2 DEF SetNXAnswered, SetNXResent, SetNXFails
  <2> QED
    BY <2>1, <2>2, <2>3, SetNXEffect
<1>3. ASSUME NEW h \in Handles, h = key[c], ConsumeAnswered(c) PROVE Effect(c)
  <2>1. pc[c] = "consume" /\ GetDel(h) /\ UNCHANGED <<uses, dropped>>
    BY <1>3 DEF ConsumeAnswered, Answered, Return, Goto
  <2>2. CASE h \in Visible
    <3>1. pc'[c] = "checkConsume" /\ key'[c] = h
      BY <1>3, <2>2 DEF ConsumeAnswered, Answered, Goto, CallTypes
    <3>2. Takes(c, h)
      BY <1>0, <1>3, <2>1, <2>2, <3>1
      DEF Takes, OthersStay, OthersAsTheyWere, SameRemover, Removing
    <3> QED
      BY <3>2 DEF Effect
  <2>3. CASE h \notin Visible
    <3>1. pc'[c] = "idle"
      BY <1>3, <2>3 DEF ConsumeAnswered, Answered, Return, Goto, CallTypes
    <3>2. Clears(c, h)
      BY <1>0, <1>3, <2>1, <2>3, <3>1, NoRemover DEF Clears
    <3> QED
      BY <3>2 DEF Effect
  <2> QED
    BY <2>2, <2>3
<1>4. ASSUME NEW h \in Handles, h = key[c], ConsumeUnanswered(c) PROVE Effect(c)
  <2>1. pc[c] = "consume" /\ pc'[c] # "checkConsume" /\ UNCHANGED uses
    BY <1>4 DEF ConsumeUnanswered, Unanswered, Return, Goto, CallTypes
  <2>2. RemoversStay
    BY <1>0, <2>1, NoRemover
  <2>3. CASE UNCHANGED <<keys, issued, dropped>>
    BY <2>1, <2>2, <2>3 DEF Effect, Idles
  <2>4. CASE GetDel(h) /\ dropped' = dropped \cup {h}
    BY <1>4, <2>1, <2>2, <2>4 DEF Effect, Clears
  <2> QED
    BY <1>4, <2>3, <2>4 DEF ConsumeUnanswered
<1>5. ASSUME NEW h \in Handles, h = key[c], ConsumeReturns(c) PROVE Effect(c)
  <2>1. pc[c] = "checkConsume" /\ pc'[c] = "idle"
    BY <1>5 DEF ConsumeReturns, Return, Goto, CallTypes
  <2>2. Counts(c, h)
    BY <1>0, <1>5, <2>1
    DEF ConsumeReturns, Counts, OthersStay, OthersAsTheyWere, SameRemover, Removing
  <2> QED
    BY <2>2 DEF Effect
<1>6. pc[c] \in {"consume", "checkConsume"} => key[c] \in Handles
  BY DEF LedgerInv, Claim, KeyInv, KeyTypes
<1>7. ConsumeAnswered(c) \/ ConsumeUnanswered(c) => pc[c] = "consume"
  BY DEF ConsumeAnswered, ConsumeUnanswered, Answered, Unanswered, Return, Goto
<1>8. ConsumeReturns(c) => pc[c] = "checkConsume"
  BY DEF ConsumeReturns, Return, Goto
<1> QED
  BY <1>1, <1>2, <1>3, <1>4, <1>5, <1>6, <1>7, <1>8 DEF CallStep

(* What a SET NX that stores does to the keys and the history (Put). *)
LEMMA StoresKeys ==
    ASSUME KeyInv, CallTypes, LedgerInv, now \in Nat,
           NEW c \in Callers, NEW h \in Handles, Stores(c, h)
    PROVE  /\ DOMAIN keys' = DOMAIN keys \cup {h} /\ DOMAIN issued' = DOMAIN issued \cup {h}
           /\ issued'[h] = expiresAt[c]
           /\ \A g \in DOMAIN issued : issued'[g] = issued[g]
           /\ \A g \in DOMAIN keys \ {h} : keys'[g] = keys[g]
           /\ keys'[h].deadline \in Nat /\ keys'[h].deadline > now
           /\ \A d \in Callers \ {c} : key[d] # h
<1>1. \A d \in Callers \ {c} : key[d] # h
  BY NewIsOwn DEF Stores
<1>2. h \in DOMAIN issued => issued[h] = expiresAt[c]
  BY NewIsOwn DEF Stores
<1>3. /\ DOMAIN issued' = DOMAIN issued \cup {h} /\ issued'[h] = expiresAt[c]
      /\ \A g \in DOMAIN issued \ {h} : issued'[g] = issued[g]
  BY DEF Stores, Put
<1>4. PICK late \in 0 .. TicksPerMillisecond :
          keys' = Put(keys, h, [expiresAt |-> expiresAt[c],
                                deadline |-> now + Milliseconds(ttl[c]) + late])
  BY DEF Stores
<1>5. /\ DOMAIN keys' = DOMAIN keys \cup {h}
      /\ keys'[h].deadline = now + Milliseconds(ttl[c]) + late
      /\ \A g \in DOMAIN keys \ {h} : keys'[g] = keys[g]
  BY <1>4 DEF Put
<1>6. ttl[c] \in Nat
  BY DEF CallTypes
<1>7. keys'[h].deadline \in Nat /\ keys'[h].deadline > now
  BY <1>5, <1>6, MillisecondsCut, RedisStoreAssumption
<1> QED
  BY <1>1, <1>2, <1>3, <1>5, <1>7

(* What the GET+DEL script does to the keys (consumeScript). *)
LEMMA GetDelEffect ==
    ASSUME NEW h, GetDel(h)
    PROVE  /\ DOMAIN keys' = DOMAIN keys \ {h} /\ issued' = issued
           /\ \A g \in DOMAIN keys' : keys'[g] = keys[g]
  BY DEF GetDel, Restrict

(* The history stays true under every effect. *)
LEMMA EffectHistory ==
    ASSUME StoreInv, LedgerInv, NEW c \in Callers, Effect(c), OthersAsTheyWere(c), now' = now
    PROVE  Accounted' /\ Spent'
<1>0. /\ KeyInv /\ CallTypes /\ now \in Nat /\ uses \in [Handles -> Nat]
      /\ DOMAIN issued \subseteq Handles /\ (\A h \in DOMAIN issued : issued[h] \in Nat)
      /\ \A h \in DOMAIN keys : /\ keys[h].deadline \in Nat /\ h \in DOMAIN issued
                                /\ keys[h].deadline > issued[h] - TicksPerMillisecond
  BY DEF StoreInv, TypeOK, KeyInv, KeyTypes, CallTypes, Recorded, TTLCoversExpiry
<1> USE RedisStoreAssumption DEF LedgerInv, Accounted, Spent, SameRemover
<1>1. CASE Idles
  BY <1>0, <1>1 DEF Idles, RemoversStay
<1>2. ASSUME NEW h \in Handles, Stores(c, h) PROVE Accounted' /\ Spent'
  <2>1. /\ DOMAIN keys' = DOMAIN keys \cup {h} /\ DOMAIN issued' = DOMAIN issued \cup {h}
        /\ \A g \in DOMAIN issued : issued'[g] = issued[g]
    BY <1>0, <1>2, StoresKeys
  <2>2. Accounted'
    BY <1>0, <1>2, <2>1 DEF Stores, RemoversStay
  <2>3. h \in DOMAIN issued => h \in DOMAIN keys
    BY <1>0, <1>2, NewIsOwn DEF Stores
  <2>4. uses[h] = 0
    BY <2>3
  <2>5. Spent'
    BY <1>0, <1>2, <2>1, <2>4 DEF Stores, RemoversStay
  <2> QED
    BY <2>2, <2>5
<1>3. ASSUME NEW h \in Handles, Clears(c, h) PROVE Accounted' /\ Spent'
  <2>1. DOMAIN keys' = DOMAIN keys \ {h} /\ issued' = issued
    BY <1>3, GetDelEffect DEF Clears
  <2>2. h \in DOMAIN keys /\ h \notin Visible => issued[h] < now + TicksPerMillisecond
    BY <1>0 DEF Visible
  <2>3. Accounted'
    BY <1>0, <1>3, <2>1, <2>2 DEF Clears, RemoversStay
  <2>4. Spent'
    BY <1>0, <1>3, <2>1 DEF Clears, RemoversStay
  <2> QED
    BY <2>3, <2>4
<1>4. ASSUME NEW h \in Handles, Takes(c, h) PROVE Accounted' /\ Spent'
  <2>1. DOMAIN keys' = DOMAIN keys \ {h} /\ issued' = issued
    BY <1>4, GetDelEffect DEF Takes
  <2>2. \A g \in Handles : ~Removing(c, g)
    BY <1>4 DEF Takes, Removing
  <2>3. Accounted'
    BY <1>0, <1>4, <2>1, <2>2 DEF Takes, OthersStay
  <2>4. h \in DOMAIN keys
    BY <1>4 DEF Takes, Visible
  <2>5. Spent'
    BY <1>0, <1>4, <2>1, <2>2, <2>4 DEF Takes, OthersStay
  <2> QED
    BY <2>3, <2>5
<1>5. ASSUME NEW h \in Handles, Counts(c, h) PROVE Accounted' /\ Spent'
  <2>1. uses[h] = 0 /\ h \in DOMAIN issued \ DOMAIN keys /\ expiresAt[c] = issued[h]
    BY <1>5 DEF Counts, Removing, Claim
  <2>2. /\ \A g \in Handles \ {h} : uses'[g] = uses[g]
        /\ uses'[h] = IF expiresAt[c] > now THEN 1 ELSE 0
    BY <1>0, <1>5, <2>1 DEF Counts
  <2>3. \A g \in Handles : Removing(c, g) => g = h
    BY <1>5 DEF Counts, Removing
  <2>4. \A d \in Callers \ {c} : ~Removing(d, h)
    BY <1>5, RedisStoreAssumption DEF Counts, Removing, Apart
  <2>5. Accounted'
    BY <1>0, <1>5, <2>1, <2>2, <2>3 DEF Counts, OthersStay
  <2>6. Spent'
    BY <1>0, <1>5, <2>1, <2>2, <2>4 DEF Counts, OthersStay
  <2> QED
    BY <2>5, <2>6
<1> QED
  BY <1>1, <1>2, <1>3, <1>4, <1>5 DEF Effect

(* What the other calls know stays true (Claim). *)
LEMMA OthersClaim ==
    ASSUME KeyInv, CallTypes, LedgerInv, now \in Nat,
           NEW c \in Callers, Effect(c), OthersAsTheyWere(c),
           NEW d \in Callers \ {c}
    PROVE  Claim(d)'
<1>0. /\ Claim(d) /\ pc'[d] = pc[d] /\ key'[d] = key[d] /\ expiresAt'[d] = expiresAt[d]
      /\ key[d] \in Handles \cup {NoHandle} /\ NoHandle \notin Handles
      /\ DOMAIN keys \subseteq DOMAIN issued /\ DOMAIN issued \subseteq Handles
  BY RedisStoreAssumption
  DEF LedgerInv, OthersAsTheyWere, CallTypes, KeyInv, KeyTypes, Recorded
<1>1. ASSUME UNCHANGED <<keys, issued>> PROVE Claim(d)'
  BY <1>0, <1>1 DEF Claim
<1>2. ASSUME NEW h \in Handles, Stores(c, h) PROVE Claim(d)'
  <2>1. /\ DOMAIN keys' = DOMAIN keys \cup {h} /\ DOMAIN issued' = DOMAIN issued \cup {h}
        /\ \A g \in DOMAIN issued : issued'[g] = issued[g]
        /\ \A e \in Callers \ {c} : key[e] # h
    BY <1>2, StoresKeys
  <2>2. /\ key[d] \in DOMAIN issued' <=> key[d] \in DOMAIN issued
        /\ key[d] \in DOMAIN keys' <=> key[d] \in DOMAIN keys
        /\ key[d] \in DOMAIN issued => issued'[key[d]] = issued[key[d]]
    BY <2>1
  <2> QED
    BY <1>0, <2>2 DEF Claim
<1>3. ASSUME NEW h \in Handles, key[c] = h, pc[c] = "consume", GetDel(h) PROVE Claim(d)'
  <2>1. DOMAIN keys' = DOMAIN keys \ {h} /\ issued' = issued
    BY <1>3, GetDelEffect
  <2>2. pc[d] = "setnx" => key[d] # h
    BY <1>0, <1>3 DEF LedgerInv, Apart
  <2> QED
    BY <1>0, <2>1, <2>2 DEF Claim
<1> QED
  BY <1>1, <1>2, <1>3 DEF Effect, Idles, Clears, Takes, Counts

(* A call that returns knows nothing any more (Return). *)
LEMMA ReturnClaims ==
    ASSUME CallTypes, NEW c \in Callers, NEW from, Return(c, from)
    PROVE  Claim(c)'
  BY DEF CallTypes, Return, Goto, Claim

(* What Create knows of its handle, when a SET NX was executed or lost (SetNXResent). *)
LEMMA ResentClaims ==
    ASSUME KeyInv, CallTypes, LedgerInv, NEW c \in Callers, SetNXResent(c)
    PROVE  Claim(c)'
<1>0. pc[c] = "setnx" /\ UNCHANGED <<pc, expiresAt, ttl>>
  BY DEF SetNXResent
<1>1. PICK h \in New(c) : /\ SetNX(h, expiresAt[c], ttl[c]) \/ UNCHANGED <<keys, issued>>
                          /\ key' = [key EXCEPT ![c] = h]
  BY DEF SetNXResent
<1>2. h \in Handles /\ key'[c] = h
      /\ (h \in DOMAIN issued => h \in DOMAIN keys /\ issued[h] = expiresAt[c])
  BY <1>0, <1>1, NewIsOwn DEF CallTypes
<1>3. CASE UNCHANGED <<keys, issued>>
  BY <1>0, <1>2, <1>3 DEF Claim, LedgerInv
<1>4. CASE /\ \E v : keys' = Put(keys, h, v)
           /\ issued' = Put(issued, h, expiresAt[c])
  <2>1. h \in DOMAIN keys' /\ issued'[h] = expiresAt[c]
    BY <1>4 DEF Put
  <2> QED
    BY <1>0, <1>2, <2>1 DEF Claim, LedgerInv
<1> QED
  BY <1>1, <1>3, <1>4 DEF SetNX

(* What a call knows after a step of its own (CallStep). *)
LEMMA OwnClaim ==
    ASSUME KeyInv, CallTypes, LedgerInv, now \in Nat, NEW c \in Callers, CallStep(c)
    PROVE  Claim(c)'
<1>0. Claim(c) /\ now <= MaxTime
  BY DEF LedgerInv, ClockInv
<1>1. ASSUME NEW from, Return(c, from) PROVE Claim(c)'
  BY <1>1, ReturnClaims
<1>2. CASE BeginCreate(c)
  <2>1. PICK life \in Lifetimes : expiresAt' = [expiresAt EXCEPT ![c] = now + life]
    BY <1>2 DEF BeginCreate
  <2>2. expiresAt'[c] \in {t + l : t \in 0 .. MaxTime, l \in Lifetimes}
    BY <1>0, <2>1, RedisStoreAssumption DEF CallTypes
  <2>3. pc[c] = "idle" /\ pc'[c] = "ttl" /\ key' = key
    BY <1>2 DEF BeginCreate, Goto, CallTypes
  <2> QED
    BY <1>0, <2>2, <2>3 DEF Claim
<1>3. CASE ComputeTTL(c)
  <2>1. CASE expiresAt[c] > now
    <3>1. pc[c] = "ttl" /\ pc'[c] = "setnx" /\ UNCHANGED <<expiresAt, key, keys, issued>>
      BY <1>3, <2>1 DEF ComputeTTL, Goto, CallTypes
    <3>2. key[c] \notin DOMAIN issued
      BY <1>0, <3>1, RedisStoreAssumption DEF Claim, KeyInv, KeyTypes
    <3> QED
      BY <1>0, <3>1, <3>2 DEF Claim
  <2> QED
    BY <1>1, <1>3, <2>1 DEF ComputeTTL
<1>4. CASE SetNXAnswered(c)
  <2>1. CASE /\ pc[c] = "setnx" /\ key' = [key EXCEPT ![c] = NoHandle]
             /\ UNCHANGED <<pc, expiresAt, ttl>>
             /\ \E h \in New(c) \cup Colliding(c) : h \in Visible /\ SetNX(h, expiresAt[c], ttl[c])
    <3>1. key'[c] = NoHandle /\ issued' = issued
      BY <2>1 DEF CallTypes, SetNX
    <3>2. NoHandle \notin DOMAIN issued
      BY RedisStoreAssumption DEF KeyInv, KeyTypes
    <3> QED
      BY <1>0, <2>1, <3>1, <3>2 DEF Claim
  <2> QED
    BY <1>1, <1>4, <2>1 DEF SetNXAnswered
<1>5. CASE SetNXResent(c)
  BY <1>5, ResentClaims
<1>6. CASE DrawFails(c) \/ SetNXFails(c) \/ GetReturns(c) \/ ConsumeReturns(c)
  BY <1>1, <1>6 DEF DrawFails, SetNXFails, GetReturns, ConsumeReturns
<1>7. CASE BeginGet(c) \/ BeginConsume(c)
  <2>1. /\ pc'[c] \in {"get", "consume"} /\ key'[c] \in DOMAIN issued /\ issued' = issued
    BY <1>7 DEF BeginGet, BeginConsume, BeginWith, Goto, CallTypes
  <2> QED
    BY <2>1 DEF Claim
<1>8. ASSUME NEW from \in {"get", "consume"}, NEW to \in {"checkGet", "checkConsume"},
             Answered(c, from, to), issued' = issued,
             to = "checkConsume" => GetDel(key[c])
      PROVE  Claim(c)'
  <2>1. CASE key[c] \in Visible
    <3>1. /\ pc[c] = from /\ pc'[c] = to /\ key'[c] = key[c]
          /\ expiresAt'[c] = keys[key[c]].expiresAt
      BY <1>8, <2>1 DEF Answered, Goto, CallTypes
    <3>2. key[c] \in DOMAIN issued /\ expiresAt'[c] = issued[key[c]]
      BY <2>1, <3>1 DEF Visible, KeyInv, Recorded
    <3>3. to = "checkConsume" => key[c] \notin DOMAIN keys'
      BY <1>8, GetDelEffect
    <3> QED
      BY <1>8, <3>1, <3>2, <3>3 DEF Claim
  <2> QED
    BY <1>1, <1>8, <2>1 DEF Answered
<1>9. CASE GetAnswered(c) \/ ConsumeAnswered(c)
  <2>1. issued' = issued
    BY <1>9 DEF GetAnswered, ConsumeAnswered, GetDel
  <2> QED
    BY <1>8, <1>9, <2>1 DEF GetAnswered, ConsumeAnswered
<1>10. ASSUME NEW at \in {"get", "consume"}, Unanswered(c, at), issued' = issued PROVE Claim(c)'
  <2>1. CASE pc[c] = at /\ UNCHANGED <<pc, expiresAt, ttl, key, tries>>
    BY <1>0, <1>10, <2>1 DEF Claim
  <2> QED
    BY <1>1, <1>10, <2>1 DEF Unanswered
<1>11. CASE GetUnanswered(c) \/ ConsumeUnanswered(c)
  <2>1. issued' = issued
    BY <1>11 DEF GetUnanswered, ConsumeUnanswered, GetDel
  <2> QED
    BY <1>10, <1>11, <2>1 DEF GetUnanswered, ConsumeUnanswered
<1> QED
  BY <1>2, <1>3, <1>4, <1>5, <1>6, <1>7, <1>9, <1>11 DEF CallStep

(***************************************************************************)
(* A call lets go of its handle, keeps it, draws a new one, or is given    *)
(* one whose creation has ended; and it removes a key only if it is there. *)
(***************************************************************************)
Holds(c) ==
    \/ key'[c] = NoHandle
    \/ /\ key'[c] = key[c]
       /\ pc'[c] = "setnx" => pc[c] = "setnx"
       /\ pc'[c] = "checkConsume" => pc[c] = "consume" /\ key[c] \in DOMAIN keys
    \/ pc[c] = "setnx" /\ key'[c] \in New(c)
    \/ /\ pc'[c] \in {"get", "consume"}
       /\ \A d \in Callers : pc[d] = "setnx" => key'[c] # key[d]

(* Each step of a call treats its handle so (CallStep). *)
LEMMA OwnHandle ==
    ASSUME CallTypes, LedgerInv, NEW c \in Callers, CallStep(c)
    PROVE  Holds(c)
<1> USE DEF CallTypes, Goto, Return
<1>0. Claim(c)
  BY DEF LedgerInv
<1>1. CASE BeginCreate(c) \/ ComputeTTL(c)
  BY <1>0, <1>1 DEF BeginCreate, ComputeTTL, Claim, Holds
<1>2. CASE SetNXAnswered(c) \/ DrawFails(c) \/ SetNXFails(c) \/ GetReturns(c) \/ ConsumeReturns(c)
  BY <1>2 DEF SetNXAnswered, DrawFails, SetNXFails, GetReturns, ConsumeReturns, Holds
<1>3. CASE SetNXResent(c)
  BY <1>3 DEF SetNXResent, Holds
<1>4. CASE BeginGet(c) \/ BeginConsume(c)
  <2>1. PICK h \in DOMAIN issued \ {key[d] : d \in {e \in Callers : pc[e] = "setnx"}} :
          key' = [key EXCEPT ![c] = h]
    BY <1>4 DEF BeginGet, BeginConsume, BeginWith
  <2>2. key'[c] = h /\ pc'[c] \in {"get", "consume"}
    BY <1>4, <2>1 DEF BeginGet, BeginConsume, BeginWith
  <2> QED
    BY <2>1, <2>2 DEF Holds
<1>5. CASE GetAnswered(c) \/ ConsumeAnswered(c)
  BY <1>5 DEF GetAnswered, ConsumeAnswered, Answered, Visible, Holds
<1>6. CASE GetUnanswered(c) \/ ConsumeUnanswered(c)
  BY <1>6 DEF GetUnanswered, ConsumeUnanswered, Unanswered, Holds
<1> QED
  BY <1>1, <1>2, <1>3, <1>4, <1>5, <1>6 DEF CallStep

(* So handles stay with those who may hold them. *)
LEMMA HandlesApart ==
    ASSUME KeyInv, CallTypes, LedgerInv, NEW c \in Callers, CallStep(c)
    PROVE  Apart'
<1>0. OthersAsTheyWere(c) /\ Holds(c) /\ Apart
  BY OneCallMoves, OwnHandle DEF LedgerInv
<1>1. ASSUME NEW d \in Callers \ {c}, key'[c] = key'[d], key'[c] # NoHandle
      PROVE  /\ pc'[c] # "setnx" /\ pc'[d] # "setnx"
             /\ ~(pc'[c] = "checkConsume" /\ pc'[d] = "checkConsume")
  <2>1. key'[d] = key[d] /\ pc'[d] = pc[d]
    BY <1>0 DEF OthersAsTheyWere
  <2>2. CASE /\ key'[c] = key[c]
             /\ pc'[c] = "setnx" => pc[c] = "setnx"
             /\ pc'[c] = "checkConsume" => pc[c] = "consume" /\ key[c] \in DOMAIN keys
    <3>1. pc[c] # "setnx" /\ pc[d] # "setnx"
      BY <1>0, <1>1, <2>1, <2>2 DEF Apart
    <3>2. pc[d] = "checkConsume" => key[d] \notin DOMAIN keys
      BY DEF LedgerInv, Claim
    <3> QED
      BY <1>1, <2>1, <2>2, <3>1, <3>2
  <2>3. CASE pc[c] = "setnx" /\ key'[c] \in New(c)
    <3>1. \A e \in Callers \ {c} : key[e] # key'[c]
      BY <2>3, NewIsOwn
    <3> QED
      BY <1>1, <2>1, <3>1
  <2>4. CASE /\ pc'[c] \in {"get", "consume"}
             /\ \A e \in Callers : pc[e] = "setnx" => key'[c] # key[e]
    BY <1>1, <2>1, <2>4
  <2> QED
    BY <1>0, <1>1, <2>2, <2>3, <2>4 DEF Holds
<1>2. ASSUME NEW d \in Callers \ {c}, NEW e \in Callers \ {c}, d # e,
             key'[d] = key'[e], key'[d] # NoHandle
      PROVE  pc'[d] # "setnx" /\ ~(pc'[d] = "checkConsume" /\ pc'[e] = "checkConsume")
  BY <1>0, <1>2 DEF Apart, OthersAsTheyWere
<1> QED
  BY <1>1, <1>2 DEF Apart

RedisInv == StoreInv /\ LedgerInv

(* Every step keeps the ledger, the passing of time too (Tick, CallStep). *)
LEMMA LedgerStep == RedisInv /\ [Next]_vars => LedgerInv'
<1> SUFFICES ASSUME RedisInv, [Next]_vars PROVE LedgerInv'
  OBVIOUS
<1>0. KeyInv /\ CallTypes /\ now \in Nat /\ StoreInv /\ LedgerInv
  BY DEF RedisInv, StoreInv, TypeOK, KeyInv, KeyTypes, CallTypes
<1>1. ASSUME NEW c \in Callers, CallStep(c) PROVE LedgerInv'
  <2>1. OthersAsTheyWere(c) /\ now' = now /\ Effect(c)
    BY <1>0, <1>1, OneCallMoves, CallEffect
  <2>2. Accounted' /\ Spent'
    BY <1>0, <2>1, EffectHistory
  <2>3. \A d \in Callers : Claim(d)'
    BY <1>0, <1>1, <2>1, OthersClaim, OwnClaim
  <2>4. Apart'
    BY <1>0, <1>1, HandlesApart
  <2>5. ClockInv'
    BY <1>0, <2>1 DEF LedgerInv, ClockInv
  <2> QED
    BY <2>2, <2>3, <2>4, <2>5 DEF LedgerInv
<1>2. CASE Tick
  <2>1. now < MaxTime /\ now' = now + 1
        /\ UNCHANGED <<keys, issued, uses, dropped, pc, key, expiresAt>>
    BY <1>2 DEF Tick, callVars
  <2>2. \A h \in DOMAIN issued : issued[h] \in Nat
    BY <1>0 DEF KeyInv, KeyTypes
  <2>3. ClockInv'
    BY <1>0, <2>1, RedisStoreAssumption DEF ClockInv
  <2>4. Accounted'
    BY <1>0, <2>1, <2>2, RedisStoreAssumption DEF LedgerInv, Accounted, Removing
  <2>5. Spent' /\ Apart' /\ \A c \in Callers : Claim(c)'
    BY <1>0, <2>1 DEF LedgerInv, Spent, Apart, Claim, Removing
  <2> QED
    BY <2>3, <2>4, <2>5 DEF LedgerInv
<1>3. CASE UNCHANGED vars
  BY <1>0, <1>3
  DEF vars, callVars, LedgerInv, ClockInv, Accounted, Spent, Claim, Apart, Removing
<1> QED
  BY <1>1, <1>2, <1>3 DEF Next

(* The invariant of the store holds throughout. *)
LEMMA RedisInvariant == Spec => []RedisInv
<1>1. Init => RedisInv
  BY RedisInit, LedgerInit DEF RedisInv
<1>2. RedisInv /\ [Next]_vars => RedisInv'
  BY RedisStep, LedgerStep DEF RedisInv
<1> QED
  BY <1>1, <1>2, PTL DEF Spec

-------------------------------------------------------------------------------
(* The call can still send the SET NX that stored the transaction. *)
Resending(c, h) == pc[c] = "setnx" /\ key[c] = h /\ h \in DOMAIN issued

(* A transaction is pending under its key, with its consumer or with its creator. *)
PendingIs ==
    \A h : h \in Pending <=>
        /\ h \in Handles /\ issued[h] > now
        /\ h \in Visible \/ \E c \in Callers : Removing(c, h) \/ Resending(c, h)

(* A call comes to resend only what it has just stored, and nobody else is concerned. *)
ResendersMove(c) ==
    /\ \A h \in Handles : Resending(c, h)' => Resending(c, h) \/ h \in Visible'
    /\ \A d \in Callers \ {c}, h \in Handles : Resending(d, h)' <=> Resending(d, h)

(* Each step of a call treats the handles being created so (CallStep). *)
LEMMA ResendersSo ==
    ASSUME KeyInv, CallTypes, LedgerInv, now \in Nat, NEW c \in Callers, CallStep(c)
    PROVE  ResendersMove(c)
<1>0. OthersAsTheyWere(c) /\ now' = now /\ Effect(c)
  BY OneCallMoves, CallEffect
<1>1. ASSUME NEW d \in Callers \ {c}, NEW h \in Handles
      PROVE  Resending(d, h)' <=> Resending(d, h)
  <2>1. key'[d] = key[d] /\ pc'[d] = pc[d]
    BY <1>0 DEF OthersAsTheyWere
  <2>2. CASE issued' = issued
    BY <2>1, <2>2 DEF Resending
  <2>3. ASSUME NEW g \in Handles, Stores(c, g) PROVE Resending(d, h)' <=> Resending(d, h)
    <3>1. DOMAIN issued' = DOMAIN issued \cup {g} /\ \A e \in Callers \ {c} : key[e] # g
      BY <2>3, StoresKeys
    <3> QED
      BY <2>1, <3>1 DEF Resending
  <2> QED
    BY <1>0, <2>2, <2>3 DEF Effect, Idles, Clears, Takes, Counts, GetDel
<1>2. ASSUME NEW h \in Handles, Resending(c, h)', ~Resending(c, h)
      PROVE  h \in Visible'
  <2>1. pc'[c] = "setnx" /\ key'[c] = h /\ h \in DOMAIN issued'
    BY <1>2 DEF Resending
  <2>2. h # NoHandle
    BY RedisStoreAssumption
  <2>3. pc[c] = "setnx"
    <3>1. pc[c] = "ttl" => key[c] = NoHandle
      BY DEF LedgerInv, Claim
    <3>2. ~ComputeTTL(c)
      BY <2>1, <2>2, <3>1 DEF ComputeTTL, Goto, Return, CallTypes
    <3> QED
      BY <2>1, <3>2 DEF CallStep, BeginCreate, SetNXAnswered, DrawFails, SetNXResent, SetNXFails,
            BeginGet, GetAnswered, GetUnanswered, GetReturns, BeginConsume, BeginWith,
            ConsumeAnswered, ConsumeUnanswered, ConsumeReturns, Answered, Unanswered,
            Goto, Return, CallTypes
  <2>4. SetNXResent(c)
    BY <2>1, <2>2, <2>3 DEF CallStep, BeginCreate, ComputeTTL, SetNXAnswered, DrawFails,
          SetNXFails, BeginGet, GetAnswered, GetUnanswered, GetReturns, BeginConsume, BeginWith,
          ConsumeAnswered, ConsumeUnanswered, ConsumeReturns, Answered, Unanswered,
          Goto, Return, CallTypes
  <2>5. h \in New(c) /\ (SetNX(h, expiresAt[c], ttl[c]) \/ UNCHANGED <<keys, issued>>)
    BY <2>1, <2>4 DEF SetNXResent, CallTypes
  <2>6. ~UNCHANGED <<keys, issued>>
    <3>1. h \in DOMAIN issued => key[c] = h
      BY <2>5 DEF New, HandlesLeft
    <3> QED
      BY <1>2, <2>1, <2>3, <3>1 DEF Resending
  <2>7. Stores(c, h)
    <3>1. RemoversStay
      BY <1>0, <2>1, <2>3, NoRemover
    <3> QED
      BY <2>3, <2>4, <2>5, <2>6, <3>1 DEF SetNX, Stores, SetNXResent
  <2>8. /\ DOMAIN keys' = DOMAIN keys \cup {h}
        /\ keys'[h].deadline \in Nat /\ keys'[h].deadline > now
    BY <2>7, StoresKeys
  <2> QED
    BY <1>0, <2>8 DEF Visible
<1> QED
  BY <1>1, <1>2 DEF ResendersMove

(* The refinement mapping says just that (Pending). *)
LEMMA PendingIsSo == RedisInv => PendingIs
<1> SUFFICES ASSUME RedisInv PROVE PendingIs
  OBVIOUS
<1>1. Visible \subseteq Handles
  BY DEF RedisInv, StoreInv, TypeOK, Visible
<1>2. \A c \in Callers : pc[c] = "checkConsume" => key[c] \in Handles
  BY DEF RedisInv, StoreInv, TypeOK, LedgerInv, Claim
<1> QED
  BY <1>1, <1>2 DEF PendingIs, Pending, Removed, Removing, Resendable, Resending,
                    RedisInv, StoreInv, TypeOK

(* Every effect is a step of the port, or none: the same SET NX twice adds nothing. *)
LEMMA EffectRefines ==
    ASSUME RedisInv, PendingIs, PendingIs', NEW c \in Callers, Effect(c), now' = now,
           ResendersMove(c)
    PROVE  [Port!Next]_(Port!vars)
<1>0. /\ KeyInv /\ CallTypes /\ LedgerInv /\ now \in Nat /\ uses \in [Handles -> Nat]
      /\ DOMAIN issued \subseteq Handles /\ (\A h \in DOMAIN issued : issued[h] \in Nat)
      /\ DOMAIN keys \subseteq DOMAIN issued
      /\ \A h \in DOMAIN keys : keys[h].deadline \in Nat
      /\ expiresAt[c] \in Nat /\ key[c] \in Handles \cup {NoHandle}
  BY DEF RedisInv, StoreInv, TypeOK, KeyInv, KeyTypes, CallTypes, Recorded
<1>r. \A d \in Callers, h \in Handles : Removing(d, h) => h \in DOMAIN issued \ DOMAIN keys
  BY <1>0 DEF LedgerInv, Claim, Removing
<1>s. \A d \in Callers, h \in Handles : Resending(d, h) => h \in DOMAIN keys
  BY <1>0 DEF LedgerInv, Claim, Resending
<1> USE DEF SameRemover, ResendersMove
<1>1. CASE Idles
  <2>1. /\ \A h \in Handles : h \in Visible' <=> h \in Visible
        /\ \A h \in Handles, d \in Callers : Removing(d, h)' <=> Removing(d, h)
        /\ issued' = issued /\ uses' = uses
    BY <1>1 DEF Idles, RemoversStay, Visible
  <2>2. \A h \in Handles : h # key[c] => (h \in Pending' <=> h \in Pending)
    BY <2>1 DEF PendingIs, Resending
  <2>3. key[c] \in Pending' => key[c] \in Pending
    BY <2>1 DEF PendingIs
  <2>4. Pending \subseteq Handles /\ Pending' \subseteq Handles
    BY DEF PendingIs
  <2>5. CASE Pending' = Pending
    BY <2>1, <2>5 DEF Port!vars
  <2>6. CASE Pending' # Pending
    <3>1. key[c] \in Pending /\ key[c] \in Handles /\ Pending' = Pending \ {key[c]}
      BY <2>2, <2>3, <2>4, <2>6
    <3> QED
      BY <2>1, <3>1 DEF Port!Next, Port!Lose
  <2> QED
    BY <2>5, <2>6
<1>2. ASSUME NEW h \in Handles, Stores(c, h) PROVE [Port!Next]_(Port!vars)
  <2>1. /\ DOMAIN keys' = DOMAIN keys \cup {h} /\ DOMAIN issued' = DOMAIN issued \cup {h}
        /\ issued'[h] = expiresAt[c]
        /\ \A g \in DOMAIN issued : issued'[g] = issued[g]
        /\ \A g \in DOMAIN keys \ {h} : keys'[g] = keys[g]
        /\ keys'[h].deadline > now
    BY <1>0, <1>2, StoresKeys
  <2>r. \A g \in Handles \ {h} : ~Resending(c, g)
    <3>1. key[c] # NoHandle => h = key[c]
      BY <1>2 DEF Stores, New
    <3> QED
      BY <3>1, RedisStoreAssumption DEF Resending
  <2>2. \A g \in Handles \ {h} : g \in Pending' <=> g \in Pending
    <3>1. \A g \in Handles \ {h} : g \in Visible' <=> g \in Visible
      BY <1>2, <2>1 DEF Visible
    <3> QED
      BY <1>0, <1>2, <1>r, <1>s, <2>1, <2>r, <3>1
      DEF Stores, RemoversStay, PendingIs, Visible
  <2>3. h \in Pending' <=> issued'[h] > now
    <3>1. h \in Visible'
      BY <1>0, <2>1 DEF Visible
    <3> QED
      BY <1>2, <3>1 DEF PendingIs
  <2>4. Pending \subseteq Handles /\ Pending' \subseteq Handles
    BY DEF PendingIs
  <2>5. CASE h \in DOMAIN issued
    <3>1. h \in DOMAIN keys /\ issued[h] = expiresAt[c]
      BY <1>0, <1>2, <2>5, NewIsOwn DEF Stores
    <3>2. issued' = issued
      <4>1. issued \in [DOMAIN issued -> Nat]
        BY <1>0 DEF KeyInv, KeyTypes
      <4> QED
        BY <1>2, <2>5, <3>1, <4>1 DEF Stores, Put
    <3>3. Resending(c, h)
      BY <1>2, <2>5 DEF Stores, New, HandlesLeft, Resending
    <3>4. Pending' = Pending
      <4>1. h \in Pending <=> h \in Pending'
        BY <1>2, <2>3, <3>2, <3>3 DEF PendingIs
      <4> QED
        BY <2>2, <2>4, <4>1
    <3> QED
      BY <1>2, <3>2, <3>4 DEF Stores, Port!vars
  <2>6. CASE h \notin DOMAIN issued
    <3>1. issued' = [g \in DOMAIN issued \cup {h} |-> IF g = h THEN expiresAt[c] ELSE issued[g]]
      BY <1>2 DEF Stores, Put
    <3>2. \A g \in Pending : g # h => issued'[g] = issued[g] /\ issued[g] > now
      <4>1. \A g \in Pending : g \in DOMAIN issued /\ issued[g] > now
        BY <1>0, <1>r DEF PendingIs, Visible, Resending
      <4> QED
        BY <2>1, <4>1
    <3>3. Pending' = {g \in Pending \cup {h} : issued'[g] > now}
      BY <2>2, <2>3, <2>4, <3>2
    <3>4. expiresAt[c] \in {t + life : t \in 0 .. MaxTime, life \in Lifetimes}
      BY <1>0, <1>2 DEF Stores, LedgerInv, Claim
    <3>5. Port!Create(h, expiresAt[c])
      BY <1>2, <2>6, <3>1, <3>3 DEF Stores, Port!Create, Port!Live
    <3> QED
      BY <3>4, <3>5 DEF Port!Next
  <2> QED
    BY <2>5, <2>6
<1>3. ASSUME NEW h \in Handles, Clears(c, h) PROVE [Port!Next]_(Port!vars)
  <2>1. /\ DOMAIN keys' = DOMAIN keys \ {h} /\ issued' = issued /\ UNCHANGED uses
        /\ \A g \in DOMAIN keys' : keys'[g] = keys[g]
    BY <1>3, GetDelEffect DEF Clears
  <2>2. Visible' = Visible \ {h}
    BY <2>1 DEF Visible
  <2>r. /\ \A g \in Handles : ~Resending(c, g)
        /\ \A d \in Callers : ~Resending(d, h)
    BY <1>0, <1>3, RedisStoreAssumption DEF Clears, Resending, LedgerInv, Apart
  <2>3. h \in Visible => \A d \in Callers : ~Removing(d, h)
    BY <1>r DEF Visible
  <2>4. CASE h \in Visible /\ issued[h] > now
    <3>1. h \in Pending /\ Pending' = Pending \ {h}
      BY <1>3, <2>1, <2>2, <2>r, <2>3, <2>4 DEF Clears, RemoversStay, PendingIs
    <3> QED
      BY <2>1, <3>1 DEF Port!Next, Port!Lose
  <2>5. CASE ~(h \in Visible /\ issued[h] > now)
    <3>1. \A g \in Handles : g \in Pending' <=> g \in Pending
      BY <1>3, <2>1, <2>2, <2>r, <2>5 DEF Clears, RemoversStay, PendingIs
    <3>2. Pending' = Pending
      BY <3>1 DEF PendingIs
    <3> QED
      BY <2>1, <3>2 DEF Port!vars
  <2> QED
    BY <2>4, <2>5
<1>4. ASSUME NEW h \in Handles, Takes(c, h) PROVE UNCHANGED Port!vars
  <2>1. /\ DOMAIN keys' = DOMAIN keys \ {h} /\ issued' = issued /\ UNCHANGED uses
        /\ \A g \in DOMAIN keys' : keys'[g] = keys[g]
    BY <1>4, GetDelEffect DEF Takes
  <2>2. Visible' = Visible \ {h}
    BY <2>1 DEF Visible
  <2>3. \A g \in Handles : ~Removing(c, g)
    BY <1>4 DEF Takes, Removing
  <2>r. \A g \in Handles : ~Resending(c, g)
    BY <1>4 DEF Takes, Resending
  <2>4. \A g \in Handles :
          (g \in Visible' \/ \E d \in Callers : Removing(d, g)' \/ Resending(d, g)')
          <=> (g \in Visible \/ \E d \in Callers : Removing(d, g) \/ Resending(d, g))
    BY <1>4, <2>2, <2>3, <2>r DEF Takes, OthersStay
  <2>5. Pending' = Pending
    BY <2>1, <2>4 DEF PendingIs
  <2> QED
    BY <2>1, <2>5 DEF Port!vars
<1>5. ASSUME NEW h \in Handles, Counts(c, h) PROVE [Port!Next]_(Port!vars)
  <2>1. h \notin DOMAIN keys /\ expiresAt[c] = issued[h]
    BY <1>0, <1>5 DEF Counts, Removing, LedgerInv, Claim
  <2>2. \A d \in Callers : Removing(d, h) => d = c
    BY <1>0, <1>5, RedisStoreAssumption DEF Counts, Removing, LedgerInv, Apart
  <2>3. \A g \in Handles : Removing(c, g) => g = h
    BY <1>5 DEF Counts, Removing
  <2>r. /\ \A g \in Handles : ~Resending(c, g)
        /\ \A d \in Callers : ~Resending(d, h)
    BY <1>5, <1>s, <2>1 DEF Counts, Removing, Resending
  <2>4. Pending' = Pending \ {h}
    BY <1>5, <2>1, <2>2, <2>3, <2>r DEF Counts, OthersStay, PendingIs, Visible
  <2>5. h \in Pending <=> expiresAt[c] > now
    BY <1>5, <2>1 DEF Counts, PendingIs
  <2>6. CASE expiresAt[c] > now
    BY <1>5, <2>4, <2>5, <2>6 DEF Counts, Port!Next, Port!Consume
  <2>7. CASE ~(expiresAt[c] > now)
    BY <1>5, <2>4, <2>5, <2>7 DEF Counts, Port!vars
  <2> QED
    BY <2>6, <2>7
<1> QED
  BY <1>1, <1>2, <1>3, <1>4, <1>5 DEF Effect

(* Every step of RedisStore is a step of the port, or none. *)
LEMMA StepRefines == RedisInv /\ PendingIs /\ PendingIs' /\ [Next]_vars => [Port!Next]_(Port!vars)
<1> SUFFICES ASSUME RedisInv, PendingIs, PendingIs', [Next]_vars PROVE [Port!Next]_(Port!vars)
  OBVIOUS
<1>0. KeyInv /\ CallTypes /\ LedgerInv /\ now \in Nat /\ TTLCoversExpiry
  BY DEF RedisInv, StoreInv, TypeOK, KeyInv, KeyTypes, CallTypes
<1>1. ASSUME NEW c \in Callers, CallStep(c) PROVE [Port!Next]_(Port!vars)
  BY <1>0, <1>1, OneCallMoves, CallEffect, ResendersSo, EffectRefines
<1>2. CASE Tick
  <2>1. now' = now + 1 /\ UNCHANGED <<keys, issued, uses, pc, key>>
    BY <1>2 DEF Tick, callVars
  <2>2. \A h \in DOMAIN keys : /\ keys[h].deadline \in Nat /\ issued[h] \in Nat
                              /\ keys[h].deadline > issued[h] - TicksPerMillisecond
    BY <1>0 DEF KeyInv, KeyTypes, Recorded, TTLCoversExpiry
  <2>3. \A c \in Callers, h \in Handles : Removing(c, h) \/ Resending(c, h) => issued[h] \in Nat
    BY <1>0 DEF KeyInv, KeyTypes, LedgerInv, Claim, Removing, Resending
  <2>4. \A h \in Handles :
          issued[h] > now' + (TicksPerMillisecond - 1) /\ h \in Visible => h \in Visible'
    BY <1>0, <2>1, <2>2, RedisStoreAssumption DEF Visible
  <2>5. Visible' \subseteq Visible
    BY <1>0, <2>1, <2>2 DEF Visible
  <2>6. \A h \in Pending : issued[h] \in Nat
    <3>1. \A h \in Visible : issued[h] \in Nat
      BY <2>2 DEF Visible
    <3> QED
      BY <2>3, <3>1 DEF PendingIs
  <2>7. \A h \in Pending' : h \in Pending /\ issued'[h] > now'
    <3>1. \A h \in Visible : issued[h] \in Nat
      BY <2>2 DEF Visible
    <3>2. ASSUME NEW h \in Pending'
          PROVE  /\ h \in Handles /\ issued[h] > now + 1
                 /\ h \in Visible \/ \E c \in Callers : Removing(c, h) \/ Resending(c, h)
      <4>1. /\ h \in Handles /\ issued'[h] > now'
            /\ h \in Visible' \/ \E c \in Callers : Removing(c, h)' \/ Resending(c, h)'
        BY DEF PendingIs
      <4>2. issued[h] > now + 1
        BY <2>1, <4>1
      <4>3. CASE h \in Visible'
        BY <2>5, <4>1, <4>2, <4>3
      <4>4. ASSUME NEW c \in Callers, Removing(c, h)' \/ Resending(c, h)'
            PROVE  Removing(c, h) \/ Resending(c, h)
        BY <2>1, <4>4 DEF Removing, Resending
      <4> QED
        BY <4>1, <4>2, <4>3, <4>4, Zenon
    <3>3. \A h \in Pending' : issued[h] \in Nat /\ issued[h] > now
      BY <1>0, <2>3, <3>1, <3>2
    <3> QED
      BY <2>1, <3>2, <3>3 DEF PendingIs
  <2>8. \A h \in Pending : issued'[h] > now' + (TicksPerMillisecond - 1) => h \in Pending'
    <3>1. \A h \in Pending : issued[h] > now' + (TicksPerMillisecond - 1) => issued[h] > now'
      BY <1>0, <2>1, <2>6, RedisStoreAssumption
    <3>2. ASSUME NEW h \in Pending, issued[h] > now' + (TicksPerMillisecond - 1)
          PROVE  h \in Visible' \/ \E c \in Callers : Removing(c, h)' \/ Resending(c, h)'
      <4>1. /\ h \in Handles
            /\ h \in Visible \/ \E c \in Callers : Removing(c, h) \/ Resending(c, h)
        BY DEF PendingIs
      <4>2. h \in Visible => h \in Visible'
        BY <2>4, <3>2, <4>1
      <4>3. ASSUME NEW c \in Callers, Removing(c, h) \/ Resending(c, h)
            PROVE  Removing(c, h)' \/ Resending(c, h)'
        BY <2>1, <4>3 DEF Removing, Resending
      <4> QED
        BY <4>1, <4>2, <4>3, Zenon
    <3>3. \A h \in Pending : h \in Handles
      BY DEF PendingIs
    <3> QED
      BY <2>1, <3>1, <3>2, <3>3 DEF PendingIs
  <2> QED
    BY <2>1, <2>7, <2>8 DEF Port!Next, Port!Tick, Port!Live
<1>3. CASE UNCHANGED vars
  BY <1>3 DEF vars, callVars, Pending, Visible, Removed, Resendable, Port!vars
<1> QED
  BY <1>1, <1>2, <1>3 DEF Next

(***************************************************************************)
(* RedisStore implements the port TransactionStore, for any number of      *)
(* concurrent calls and of retries and any granularity of the clock: a     *)
(* transaction is consumed at most once, only before it expires, a handle  *)
(* never comes to name another one, and none with a millisecond left is    *)
(* dropped, although go-redis repeats commands that were executed.         *)
(***************************************************************************)
THEOREM RedisStoreImplementsPort == Spec => ImplementsPort
<1>1. Init => Port!Init
  BY DEF Init, Port!Init, Pending, Visible, Removed, Resendable
<1> QED
  BY <1>1, RedisInvariant, PendingIsSo, StepRefines, PTL DEF Spec, ImplementsPort, Port!Spec

(***************************************************************************)
(* Nobody is told ErrReplay by RedisStore about a transaction that has a   *)
(* millisecond left and that nobody has removed, unless the reply to a     *)
(* removal was lost: Accounted says where each transaction is.             *)
(***************************************************************************)
THEOREM RedisReplaysTruthful == Spec => ReplayIsTruthful
<1>1. RedisInv =>
        \A c \in Callers : pc[c] \in {"get", "consume"} /\ key[c] \notin Visible =>
            \/ uses[key[c]] = 1
            \/ issued[key[c]] < now + TicksPerMillisecond
            \/ key[c] \in dropped
            \/ \E d \in Callers \ {c} : pc[d] = "checkConsume" /\ key[d] = key[c]
  <2> SUFFICES ASSUME RedisInv, NEW c \in Callers,
                      pc[c] \in {"get", "consume"}, key[c] \notin Visible
               PROVE  \/ uses[key[c]] = 1
                      \/ issued[key[c]] < now + TicksPerMillisecond
                      \/ key[c] \in dropped
                      \/ \E d \in Callers \ {c} : pc[d] = "checkConsume" /\ key[d] = key[c]
    OBVIOUS
  <2>1. key[c] \in DOMAIN issued
    BY DEF RedisInv, LedgerInv, Claim
  <2>2. key[c] \in DOMAIN keys => issued[key[c]] < now + TicksPerMillisecond
    BY RedisStoreAssumption DEF Visible, RedisInv, StoreInv, TypeOK, Recorded, TTLCoversExpiry
  <2> QED
    BY <2>1, <2>2 DEF RedisInv, LedgerInv, Accounted, Removing
<1>2. RedisInv =>
        [\A c \in Callers :
            /\ pc[c] \in {"get", "consume"} /\ pc'[c] = "idle"
            /\ key[c] \notin Visible
            => \/ uses[key[c]] = 1
               \/ issued[key[c]] < now + TicksPerMillisecond
               \/ key[c] \in dropped
               \/ \E d \in Callers \ {c} : pc[d] = "checkConsume" /\ key[d] = key[c]]_vars
  BY <1>1
<1> QED
  BY <1>2, RedisInvariant, PTL DEF ReplayIsTruthful

===============================================================================

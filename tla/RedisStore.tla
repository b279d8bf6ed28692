------------------------------ MODULE RedisStore -------------------------------
(***************************************************************************)
(* internal/adapters/outbound/state/redis.go: transactions in a Redis that *)
(* every replica shares.  A command is executed by the server in one step  *)
(* (SET NX, GET, the GET+DEL script); the network may lose it before that  *)
(* or lose its reply after it, and go-redis then sends it once more        *)
(* (options.MaxRetries = 1) before it reports an error.                    *)
(*                                                                         *)
(* ExpiresAt and the replicas' clocks have nanoseconds, a key's lifetime   *)
(* whole milliseconds: go-redis cuts off the rest.  A tick is a fraction   *)
(* of a millisecond.  All clocks agree; the server's is only coarser.      *)
(***************************************************************************)
EXTENDS Integers, FiniteSets, Functions

CONSTANTS
    Callers,        \* concurrent calls, of whichever replica
    Handles,        \* what randomHandle can return
    NoHandle,
    MaxRetries,     \* redis.Options.MaxRetries
    TicksPerMillisecond,
    Lifetimes,      \* how many ticks new transactions live: TRANSACTION_TTL,
                    \* which replicas may set differently
    MaxTime         \* bound on the clock

ASSUME RedisStoreAssumption ==
    /\ NoHandle \notin Handles
    /\ IsFiniteSet(Handles)
    /\ TicksPerMillisecond \in Nat \ {0}
    /\ Lifetimes \subseteq Nat \ {0}
    /\ MaxRetries \in Nat /\ MaxTime \in Nat

VARIABLES
    now,
    keys,           \* the server's keys: handle :> ExpiresAt and TTL deadline
    issued,         \* history: ExpiresAt of every transaction ever stored
    uses,           \* history: how often Consume returned each transaction
    dropped,        \* history: transactions whose GET+DEL reply was lost
    pc,
    expiresAt,      \* ExpiresAt of the caller's copy of the transaction
    ttl,            \* what Create asks the server for
    key,            \* the handle of the command in progress
    tries,          \* handles Create may still draw
    retries         \* times go-redis may still send the command again

callVars == <<pc, expiresAt, ttl, key, tries, retries>>
vars == <<now, keys, issued, uses, dropped, callVars>>

Init ==
    /\ now = 0
    /\ keys = <<>>
    /\ issued = <<>>
    /\ uses = [h \in Handles |-> 0]
    /\ dropped = {}
    /\ pc = [c \in Callers |-> "idle"]
    /\ expiresAt = [c \in Callers |-> 0]
    /\ ttl = [c \in Callers |-> 0]
    /\ key = [c \in Callers |-> NoHandle]
    /\ tries = [c \in Callers |-> 0]
    /\ retries = [c \in Callers |-> 0]

Put(f, h, v) == [g \in DOMAIN f \cup {h} |-> IF g = h THEN v ELSE f[g]]

Goto(c, from, to) == pc[c] = from /\ pc' = [pc EXCEPT ![c] = to]

Return(c, from) ==
    /\ Goto(c, from, "idle")
    /\ expiresAt' = [expiresAt EXCEPT ![c] = 0]
    /\ ttl' = [ttl EXCEPT ![c] = 0]
    /\ key' = [key EXCEPT ![c] = NoHandle]
    /\ tries' = [tries EXCEPT ![c] = 0]
    /\ retries' = [retries EXCEPT ![c] = 0]

-------------------------------------------------------------------------------
(* The server: a key whose deadline has come is invisible to every command. *)

Visible == {h \in DOMAIN keys : keys[h].deadline > now}

(***************************************************************************)
(* What go-redis makes of a duration (PX, or EX for whole seconds): its    *)
(* whole milliseconds, and one for anything shorter.                       *)
(***************************************************************************)
Milliseconds(life) ==
    IF life < TicksPerMillisecond THEN TicksPerMillisecond ELSE life - (life % TicksPerMillisecond)

(* The server looks at its clock once a millisecond, and drops keys so late. *)
SetNX(h, payload, life) ==
    IF h \in Visible
    THEN UNCHANGED <<keys, issued>>
    ELSE /\ \E late \in 0 .. TicksPerMillisecond :
              keys' = Put(keys, h, [expiresAt |-> payload,
                                    deadline |-> now + Milliseconds(life) + late])
         /\ issued' = Put(issued, h, payload)

(* MUTANT of GetDel: GET without DEL. *)
GetDel_Kept(h) == UNCHANGED <<keys, issued>>

GetDel(h) ==
    /\ keys' = Restrict(keys, DOMAIN keys \ {h})
    /\ UNCHANGED issued

(* A call that got no reply is sent again while it has retries left. *)
Unanswered(c, at) ==
    \/ /\ pc[c] = at /\ retries[c] > 0
       /\ retries' = [retries EXCEPT ![c] = @ - 1]
       /\ UNCHANGED <<pc, expiresAt, ttl, key, tries>>
    \/ retries[c] = 0 /\ Return(c, at)

-------------------------------------------------------------------------------
(* Bound: Handles stands for the calls of randomHandle a run may make. *)
HandlesLeft == Handles \ (DOMAIN issued \cup {key[c] : c \in {d \in Callers : pc[d] = "setnx"}})

BeginCreate(c) ==
    /\ Goto(c, "idle", "ttl")
    /\ \E life \in Lifetimes : expiresAt' = [expiresAt EXCEPT ![c] = now + life]
    /\ UNCHANGED <<now, keys, issued, uses, dropped, ttl, key, tries, retries>>

(* MUTANT of ComputeTTL: the key is to end a millisecond before its transaction. *)
ComputeTTL_Shortened(c) ==
    /\ IF expiresAt[c] > now
       THEN /\ Goto(c, "ttl", "setnx")
            /\ ttl' = [ttl EXCEPT ![c] = expiresAt[c] - now - TicksPerMillisecond]
            /\ tries' = [tries EXCEPT ![c] = 3]
            /\ retries' = [retries EXCEPT ![c] = MaxRetries]
            /\ UNCHANGED <<expiresAt, key>>
       ELSE Return(c, "ttl")
    /\ UNCHANGED <<now, keys, issued, uses, dropped>>

(* Both expiry checks of Create; the later reading of the clock decides. *)
ComputeTTL(c) ==
    /\ IF expiresAt[c] > now
       THEN /\ Goto(c, "ttl", "setnx")
            /\ ttl' = [ttl EXCEPT ![c] = expiresAt[c] - now]
            /\ tries' = [tries EXCEPT ![c] = 3]
            /\ retries' = [retries EXCEPT ![c] = MaxRetries]
            /\ UNCHANGED <<expiresAt, key>>
       ELSE Return(c, "ttl")
    /\ UNCHANGED <<now, keys, issued, uses, dropped>>

(* 256 random bits, drawn once per attempt: the handle is new ... *)
New(c) == IF key[c] = NoHandle THEN HandlesLeft ELSE {key[c]}

(* ... or it collides with a stored one, which SET NX does not touch. *)
Colliding(c) == IF key[c] = NoHandle THEN Visible ELSE {}

(* SET NX replied: the key was set, or there was one and Create tries again. *)
SetNXAnswered(c) ==
    /\ \E h \in New(c) \cup Colliding(c) :
        /\ SetNX(h, expiresAt[c], ttl[c])
        /\ \/ h \notin Visible /\ Return(c, "setnx")
           \/ h \in Visible /\ tries[c] = 1 /\ Return(c, "setnx")
           \/ /\ h \in Visible /\ tries[c] > 1 /\ pc[c] = "setnx"
              /\ key' = [key EXCEPT ![c] = NoHandle]
              /\ tries' = [tries EXCEPT ![c] = @ - 1]
              /\ retries' = [retries EXCEPT ![c] = MaxRetries]
              /\ UNCHANGED <<pc, expiresAt, ttl>>
    /\ UNCHANGED <<now, uses, dropped>>

(* randomHandle failed before anything was sent. *)
DrawFails(c) ==
    /\ Return(c, "setnx") /\ key[c] = NoHandle
    /\ UNCHANGED <<now, keys, issued, uses, dropped>>

(* The same command is sent once more; Create does not learn of it. *)
SetNXResent(c) ==
    /\ pc[c] = "setnx" /\ retries[c] > 0
    /\ \E h \in New(c) :
        /\ SetNX(h, expiresAt[c], ttl[c]) \/ UNCHANGED <<keys, issued>>
        /\ key' = [key EXCEPT ![c] = h]
    /\ retries' = [retries EXCEPT ![c] = @ - 1]
    /\ UNCHANGED <<now, uses, dropped, pc, expiresAt, ttl, tries>>

(* Create reports an error, and may have stored the transaction. *)
SetNXFails(c) ==
    /\ Return(c, "setnx") /\ retries[c] = 0
    /\ \E h \in New(c) : SetNX(h, expiresAt[c], ttl[c]) \/ UNCHANGED <<keys, issued>>
    /\ UNCHANGED <<now, uses, dropped>>

-------------------------------------------------------------------------------
(* Get and Consume are given a handle whose creation has ended. *)
BeginWith(c, to) ==
    /\ Goto(c, "idle", to)
    /\ \E h \in DOMAIN issued \ {key[d] : d \in {e \in Callers : pc[e] = "setnx"}} :
        key' = [key EXCEPT ![c] = h]
    /\ retries' = [retries EXCEPT ![c] = MaxRetries]
    /\ UNCHANGED <<now, keys, issued, uses, dropped, expiresAt, ttl, tries>>

BeginGet(c) == BeginWith(c, "get")
BeginConsume(c) == BeginWith(c, "consume")

(* redis.Nil is ErrReplay. *)
Answered(c, from, to) ==
    IF key[c] \in Visible
    THEN /\ Goto(c, from, to)
         /\ expiresAt' = [expiresAt EXCEPT ![c] = keys[key[c]].expiresAt]
         /\ UNCHANGED <<ttl, key, tries, retries>>
    ELSE Return(c, from)

(* MUTANT of GetAnswered: Get runs the script of Consume. *)
GetAnswered_Consumes(c) ==
    /\ Answered(c, "get", "checkGet")
    /\ GetDel(key[c])
    /\ UNCHANGED <<now, uses, dropped>>

GetAnswered(c) ==
    /\ Answered(c, "get", "checkGet")
    /\ UNCHANGED <<now, keys, issued, uses, dropped>>

GetUnanswered(c) ==
    /\ Unanswered(c, "get")
    /\ UNCHANGED <<now, keys, issued, uses, dropped>>

(* ErrExpiredTransaction or the transaction: nothing changes either way. *)
GetReturns(c) ==
    /\ Return(c, "checkGet")
    /\ UNCHANGED <<now, keys, issued, uses, dropped>>

ConsumeAnswered(c) ==
    /\ Answered(c, "consume", "checkConsume")
    /\ GetDel(key[c])
    /\ UNCHANGED <<now, uses, dropped>>

(* The script ran and nobody learns the value, or it did not run. *)
ConsumeUnanswered(c) ==
    /\ Unanswered(c, "consume")
    /\ \/ UNCHANGED <<keys, issued, dropped>>
       \/ /\ key[c] \in Visible
          /\ GetDel(key[c])
          /\ dropped' = dropped \cup {key[c]}
    /\ UNCHANGED <<now, uses>>

(* Expired: the entry is gone and nobody was given it. *)
ConsumeReturns(c) ==
    /\ Return(c, "checkConsume")
    /\ uses' = IF expiresAt[c] > now THEN [uses EXCEPT ![key[c]] = @ + 1] ELSE uses
    /\ UNCHANGED <<now, keys, issued, dropped>>

-------------------------------------------------------------------------------
Tick ==
    /\ now < MaxTime
    /\ now' = now + 1
    /\ UNCHANGED <<keys, issued, uses, dropped, callVars>>

CallStep(c) ==
    \/ BeginCreate(c) \/ ComputeTTL(c) \/ SetNXAnswered(c) \/ DrawFails(c)
    \/ SetNXResent(c) \/ SetNXFails(c)
    \/ BeginGet(c) \/ GetAnswered(c) \/ GetUnanswered(c) \/ GetReturns(c)
    \/ BeginConsume(c) \/ ConsumeAnswered(c) \/ ConsumeUnanswered(c) \/ ConsumeReturns(c)

Next == Tick \/ \E c \in Callers : CallStep(c)

Spec == Init /\ [][Next]_vars

-------------------------------------------------------------------------------
(* Properties *)

(* Types of the server's keys, the calls in progress and the history. *)
TypeOK ==
    /\ now \in Nat
    /\ DOMAIN keys \subseteq Handles
    /\ keys \in [DOMAIN keys -> [expiresAt : Nat, deadline : Nat]]
    /\ DOMAIN issued \subseteq Handles
    /\ issued \in [DOMAIN issued -> Nat]
    /\ uses \in [Handles -> Nat]
    /\ dropped \subseteq Handles
    /\ pc \in [Callers -> {"idle", "ttl", "setnx", "get", "checkGet",
                           "consume", "checkConsume"}]
    /\ expiresAt \in [Callers -> Nat]
    /\ ttl \in [Callers -> Nat]
    /\ key \in [Callers -> Handles \cup {NoHandle}]
    /\ tries \in [Callers -> 0 .. 3]
    /\ retries \in [Callers -> 0 .. MaxRetries]

(***************************************************************************)
(* A live transaction is pending until its consumer looks at the clock,    *)
(* and as long as its creator may still send the SET NX again.             *)
(***************************************************************************)
Removed == {key[c] : c \in {d \in Callers : pc[d] = "checkConsume"}}
Resendable == {key[c] : c \in {d \in Callers : pc[d] = "setnx"}}
Pending == {h \in Visible \cup Removed \cup (Resendable \cap DOMAIN issued) : issued[h] > now}

Port == INSTANCE TransactionStore
            WITH pending <- Pending,
                 Expiries <- {t + life : t \in 0 .. MaxTime, life \in Lifetimes},
                 Early <- TicksPerMillisecond - 1, Lossy <- TRUE

(***************************************************************************)
(* The store keeps the promise of its port although commands are retried   *)
(* and lifetimes are cut to milliseconds: a transaction is never consumed  *)
(* twice nor after its expiry, a handle never comes to name another        *)
(* transaction, and one that is lost without a lost reply had less than a  *)
(* millisecond left.                                                       *)
(***************************************************************************)
ImplementsPort == Port!Spec

(***************************************************************************)
(* The server drops a transaction less than a millisecond before its       *)
(* ExpiresAt, or after it: the deadline it derives from a TTL computed     *)
(* earlier, on another clock reading, cut to whole milliseconds and        *)
(* perhaps sent twice, falls short of ExpiresAt by nothing but the cut.    *)
(* (That it does fall short of it is what Create lets happen: it hands     *)
(* SetNX a duration in nanoseconds.)                                       *)
(***************************************************************************)
TTLCoversExpiry == \A h \in DOMAIN keys : keys[h].deadline > issued[h] - TicksPerMillisecond

(***************************************************************************)
(* Whoever is told ErrReplay presented a transaction that was consumed,    *)
(* that has expired or had less than a millisecond left, that another      *)
(* caller has just removed, or whose removal was executed for a caller     *)
(* that never saw the reply: a retried GET+DEL calls its own first attempt *)
(* a replay.                                                               *)
(***************************************************************************)
ReplayIsTruthful ==
    [][\A c \in Callers :
          /\ pc[c] \in {"get", "consume"} /\ pc'[c] = "idle"
          /\ key[c] \notin Visible
          => \/ uses[key[c]] = 1
             \/ issued[key[c]] < now + TicksPerMillisecond
             \/ key[c] \in dropped
             \/ \E d \in Callers \ {c} : pc[d] = "checkConsume" /\ key[d] = key[c]]_vars

===============================================================================

--------------------------- MODULE TransactionStore ---------------------------
(***************************************************************************)
(* What the port TransactionStore of internal/core/ports/ports.go promises *)
(* the service: a transaction is consumed at most once, and only before it *)
(* expires, and nothing but that makes it disappear unless the store is    *)
(* Lossy.  A store that keeps time more coarsely than ExpiresAt may let a  *)
(* transaction go up to Early ticks before it expires.  MemoryStore and    *)
(* RedisStore implement this module.                                       *)
(***************************************************************************)
EXTENDS Integers

CONSTANTS
    Handles,
    Expiries,       \* the values ExpiresAt can take
    Early,          \* ticks before ExpiresAt that a transaction may be gone
    Lossy           \* a reply can be lost, so that nobody learns of a removal
                    \* or of a creation

VARIABLES
    now,
    issued,         \* handle :> ExpiresAt of every transaction ever stored
    pending,        \* the handles that can still be consumed: none has expired
    uses            \* how many times Consume returned each handle's transaction

vars == <<now, issued, pending, uses>>

Init ==
    /\ now = 0
    /\ issued = <<>>
    /\ pending = {}
    /\ uses = [h \in Handles |-> 0]

Live(hs, expiry, t) == {h \in hs : expiry[h] > t}

(* A handle names one transaction for ever; it may be stored too late. *)
Create(h, expiresAt) ==
    /\ h \notin DOMAIN issued
    /\ issued' = [g \in DOMAIN issued \cup {h} |-> IF g = h THEN expiresAt ELSE issued[g]]
    /\ pending' = Live(pending \cup {h}, issued', now)
    /\ UNCHANGED <<now, uses>>

Consume(h) ==
    /\ h \in pending
    /\ pending' = pending \ {h}
    /\ uses' = [uses EXCEPT ![h] = @ + 1]
    /\ UNCHANGED <<now, issued>>

Lose(h) ==
    /\ Lossy
    /\ h \in pending
    /\ pending' = pending \ {h}
    /\ UNCHANGED <<now, issued, uses>>

(* Time passes, and transactions expire: none after its ExpiresAt, and none *)
(* that has more than Early ticks left.                                     *)
Tick ==
    /\ now' = now + 1
    /\ pending' \in SUBSET Live(pending, issued, now')
    /\ Live(pending, issued, now' + Early) \subseteq pending'
    /\ UNCHANGED <<issued, uses>>

Next ==
    \/ \E h \in Handles : Consume(h) \/ Lose(h) \/ \E e \in Expiries : Create(h, e)
    \/ Tick

Spec == Init /\ [][Next]_vars

===============================================================================

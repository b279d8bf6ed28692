------------------------- MODULE TransactionAdmission -------------------------
(***************************************************************************)
(* The per-process quota of pending browser transactions: the type         *)
(* transactionAdmission of internal/core/application/service.go.           *)
(*                                                                         *)
(* The module offers the operations of the quota on its two fields and has *)
(* no specification of its own: PendingTransactions EXTENDS it and says    *)
(* who calls the operations and when.  Every operation is one step,        *)
(* because every one holds the mutex a.mu for its whole body; what the     *)
(* mutex does NOT cover, the clock reading that reserve takes before it    *)
(* locks, is an argument of the operation.                                 *)
(***************************************************************************)
EXTENDS Integers, FiniteSets, Functions

CONSTANT MaxPending     \* transactionAdmission.max

ASSUME MaxPendingAssumption == MaxPending \in Nat \ {0}

VARIABLES
    reserved,           \* slots promised to a Create that is in progress
    active              \* handle :> expiry of the slots that are occupied

admissionVars == <<reserved, active>>

(* The map f after f[key] = val and after delete(f, key). *)
Put(f, key, val) == [k \in DOMAIN f \cup {key} |-> IF k = key THEN val ELSE f[k]]
Delete(f, key) == Restrict(f, DOMAIN f \ {key})

(* newTransactionAdmission: nothing reserved, an empty map. *)
AdmissionInit == reserved = 0 /\ active = <<>>

(* The occupancy both tests of reserve compare with max. *)
Occupied(entries) == Cardinality(DOMAIN entries) + reserved

(* removeExpiredLocked: an entry expires at its expiry, not after it. *)
removeExpiredLocked(t) == RestrictValues(active, LAMBDA expiry : expiry > t)

(* reserve sweeps only when the quota looks exhausted. *)
Swept(t) == IF Occupied(active) >= MaxPending THEN removeExpiredLocked(t) ELSE active

(* MUTANT of ReserveGranted: the limit itself still passes. *)
ReserveGranted_OffByOne(t) ==
    /\ Occupied(Swept(t)) <= MaxPending
    /\ active' = Swept(t)
    /\ reserved' = reserved + 1

(* reserve, under the lock, with the clock reading t taken before it. *)
ReserveGranted(t) ==
    /\ Occupied(Swept(t)) < MaxPending
    /\ active' = Swept(t)
    /\ reserved' = reserved + 1

ReserveRefused(t) ==
    /\ Occupied(Swept(t)) >= MaxPending
    /\ active' = Swept(t)
    /\ UNCHANGED reserved

(* cancel and the first half of commit: give a reservation back. *)
Unreserved == IF reserved > 0 THEN reserved - 1 ELSE reserved

commit(h, expiry) ==
    /\ reserved' = Unreserved
    /\ active' = Put(active, h, expiry)

(* MUTANT of cancel: the reservation of a failed creation is kept. *)
cancel_Kept == UNCHANGED <<reserved, active>>

cancel ==
    /\ reserved' = Unreserved
    /\ UNCHANGED active

(* release: deleting an absent handle is a no-op. *)
release(h) ==
    /\ active' = Delete(active, h)
    /\ UNCHANGED reserved

===============================================================================

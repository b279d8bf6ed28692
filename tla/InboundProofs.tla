-------------------------------- MODULE InboundProofs --------------------------------
(***************************************************************************)
(* Proofs about two components of the HTTP adapter, which share nothing:   *)
(* the admission of requests (RequestGate) and the binding of transactions *)
(* to browsers (BrowserBinding).                                           *)
(***************************************************************************)
EXTENDS RequestGate, BrowserBinding, FiniteSetTheorems, TLAPS

(***************************************************************************)
(* RequestGate, for every number of requests and slots and every rate:     *)
(* what the limiter lets through, whom it refuses, and that no slot of the *)
(* server is lost.                                                         *)
(***************************************************************************)

Served == {r \in Requests : pc[r] = "serve"}

(***************************************************************************)
(* Slots: as many as there are requests in service, so that Leave never    *)
(* takes the last element out of an empty channel.                         *)
(***************************************************************************)
SlotInv == TypeOK /\ inFlight = Cardinality(Served)

(* The sets of requests that are counted can be counted. *)
LEMMA CountedFinite ==
    /\ IsFiniteSet(Served) /\ Cardinality(Served) \in Nat
    /\ \A t : IsFiniteSet(Stale(t)) /\ Cardinality(Stale(t)) \in Nat
  <1>1. Served \subseteq Requests /\ \A t : Stale(t) \subseteq Requests
    BY DEF Served, Stale
  <1>. QED
    BY <1>1, FS_Subset, FS_CardinalityType, RequestsAssumption

(* The capacity of the bucket is at least one token. *)
LEMMA CapacityType == Capacity \in Nat /\ Cost \in Nat \ {0} /\ Capacity >= Cost
  <1>1. MaxInFlight \in Nat \ {0} /\ Cost \in Nat \ {0}
    BY GateAssumption
  <1>2. ASSUME NEW m \in Nat \ {0}, NEW c \in Nat \ {0}
        PROVE  m * c \in Nat /\ m * c >= c
    BY <1>2
  <1>. QED
    BY <1>1, <1>2 DEF Capacity

(* Only Enter and Leave change who is in service. *)
LEMMA SameServed ==
    ASSUME TypeOK, NEW r \in Requests, NEW from \in PCs, NEW to \in PCs,
           Goto(r, from, to), from # "serve", to # "serve"
    PROVE  Served' = Served
  BY DEF Goto, Served, TypeOK

(* Every slot is free at first. *)
LEMMA SlotInit == Init => SlotInv
  <1> SUFFICES ASSUME Init PROVE SlotInv
    OBVIOUS
  <1>1. Served = {}
    BY DEF Init, Served
  <1>. QED
    BY <1>1, FS_EmptySet, CapacityType DEF Init, SlotInv, TypeOK, PCs

(* Every action of Next keeps the types and the count of the slots. *)
LEMMA SlotStep == SlotInv /\ [Next]_vars => SlotInv'
  <1> SUFFICES ASSUME SlotInv, [Next]_vars PROVE SlotInv'
    OBVIOUS
  <1>0. TypeOK /\ inFlight = Cardinality(Served) /\ Cost \in Nat
    BY CapacityType DEF SlotInv
  <1>1. ASSUME NEW r \in Requests, Arrive(r) PROVE SlotInv'
    <2>1. Served' = Served
      BY <1>0, <1>1, SameServed DEF Arrive, PCs
    <2>. QED
      BY <1>0, <1>1, <2>1 DEF Arrive, SlotInv, TypeOK, Goto, PCs, bucketVars
  <1>2. ASSUME NEW r \in Requests, Limit(r) PROVE SlotInv'
    <2>1. Served' = Served
      BY <1>0, <1>2, SameServed DEF Limit, PCs
    <2>2. tokens' \in Int /\ last' \in Nat
      BY <1>0, <1>2, CapacityType
      DEF Limit, AllowGranted, AllowRefused, Refill, Lesser, TypeOK
    <2>3. latest' \in Nat /\ window' \in [start : Nat, spent : Nat, stale : Nat]
      BY <1>0, <1>2 DEF Limit, Later, TypeOK
    <2>. QED
      BY <1>0, <1>2, <2>1, <2>2, <2>3 DEF Limit, SlotInv, TypeOK, Goto, PCs
  <1>3. ASSUME NEW r \in Requests, Enter(r) PROVE SlotInv'
    <2>1. CASE Goto(r, "enter", "serve") /\ inFlight' = inFlight + 1
      <3>1. Served' = Served \cup {r} /\ r \notin Served
        BY <1>0, <2>1 DEF Goto, Served, TypeOK
      <3>2. Cardinality(Served') = Cardinality(Served) + 1
        BY <3>1, CountedFinite, FS_AddElement
      <3>. QED
        BY <1>0, <1>3, <2>1, <3>2 DEF Enter, SlotInv, TypeOK, Goto, PCs, bucketVars
    <2>2. CASE Goto(r, "enter", "idle") /\ UNCHANGED inFlight
      <3>1. Served' = Served
        BY <1>0, <2>2, SameServed DEF PCs
      <3>. QED
        BY <1>0, <1>3, <2>2, <3>1 DEF Enter, SlotInv, TypeOK, Goto, PCs, bucketVars
    <2>. QED
      BY <1>3, <2>1, <2>2 DEF Enter
  <1>4. ASSUME NEW r \in Requests, Leave(r) PROVE SlotInv'
    <2>1. Served' = Served \ {r} /\ r \in Served
      BY <1>0, <1>4 DEF Leave, Goto, Served, TypeOK
    <2>2. Cardinality(Served') = Cardinality(Served) - 1
      BY <2>1, CountedFinite, FS_RemoveElement
    <2>3. Cardinality(Served) # 0
      BY <2>1, CountedFinite, FS_EmptySet
    <2>. QED
      BY <1>0, <1>4, <2>2, <2>3, CountedFinite
      DEF Leave, SlotInv, TypeOK, Goto, PCs, bucketVars
  <1>5. CASE Tick
    BY <1>0, <1>5 DEF Tick, SlotInv, TypeOK, Served, bucketVars
  <1>6. CASE OpenWindow
    BY <1>0, <1>6, CountedFinite DEF OpenWindow, SlotInv, TypeOK, Served, bucketVars
  <1>7. CASE UNCHANGED vars
    BY <1>0, <1>7 DEF vars, SlotInv, TypeOK, Served, bucketVars
  <1>. QED
    BY <1>1, <1>2, <1>3, <1>4, <1>5, <1>6, <1>7 DEF Next

(* The types and the count of the slots hold in every behaviour. *)
LEMMA SlotInvariant == Spec => []SlotInv
  BY SlotInit, SlotStep, PTL DEF Spec

(***************************************************************************)
(* The variables of the gate keep their types: the channel is never        *)
(* received from when it is empty.                                         *)
(***************************************************************************)
THEOREM GateTypeCorrect == Spec => []TypeOK
  <1>1. SlotInv => TypeOK
    BY DEF SlotInv
  <1>. QED
    BY SlotInvariant, <1>1, PTL

(* Exactly the requests in service hold a slot of the server. *)
THEOREM SlotsExact == Spec => []SlotsMatchRequests
  <1>1. SlotInv => SlotsMatchRequests
    BY DEF SlotInv, SlotsMatchRequests, Served
  <1>. QED
    BY SlotInvariant, <1>1, PTL

-------------------------------------------------------------------------------
(* The limiter *)

(* No reading of the clock is in the future, and last is one that was used. *)
ClockInv ==
    /\ \A r \in Requests : readAt[r] <= now
    /\ last <= latest /\ latest <= now
    /\ window.start <= now

(* Seen from the latest reading the bucket is not below zero. *)
BucketInv == tokens <= Capacity /\ tokens + (latest - last) >= 0

(* What requests that read the clock within the window can still get. *)
Available == Lesser(tokens + (now - last), Capacity + (now - window.start))

LateCost(n) == Cost * n

(***************************************************************************)
(* WindowBound is not inductive: a late request must pay for its token out *)
(* of stale, and what is left in the bucket counts as well.                *)
(***************************************************************************)
UpperInv ==
    window.spent + Available + LateCost(Cardinality(Stale(window.start)))
        <= Capacity + (now - window.start) + LateCost(window.stale)

(* What was refilled in the window is in the bucket or was given out. *)
LowerInv ==
    tokens + (latest - last) + window.spent >= Lesser(Capacity, latest - window.start)

LimiterInv == TypeOK /\ ClockInv /\ BucketInv /\ UpperInv /\ LowerInv

(* One late request fewer, one token less. *)
LEMMA LateCostStep ==
    /\ \A n \in Nat : LateCost(n) \in Nat
    /\ \A n \in Nat : LateCost(n + 1) = LateCost(n) + Cost
    /\ LateCost(0) = 0
  <1>1. Cost \in Nat
    BY GateAssumption
  <1>2. ASSUME NEW c \in Nat, NEW n \in Nat
        PROVE  c * n \in Nat /\ c * (n + 1) = c * n + c /\ c * 0 = 0
    BY <1>2
  <1>. QED
    BY <1>1, <1>2 DEF LateCost

(* At first the bucket is full and nobody is late. *)
LEMMA LimiterInit == Init => LimiterInv
  <1> SUFFICES ASSUME Init PROVE LimiterInv
    OBVIOUS
  <1>1. TypeOK
    BY SlotInit DEF SlotInv
  <1>2. Stale(window.start) = {} /\ Cardinality({}) = 0
    BY FS_EmptySet DEF Init, Stale
  <1>a. /\ window.start = 0 /\ window.spent = 0 /\ window.stale = 0
        /\ now = 0 /\ last = 0 /\ tokens = Capacity
    BY DEF Init
  <1>3. UpperInv
    BY <1>2, <1>a, CapacityType, LateCostStep DEF UpperInv, Available, Lesser
  <1>. QED
    BY <1>1, <1>3, CapacityType DEF Init, LimiterInv, ClockInv, BucketInv, LowerInv, Lesser

(* Steps that leave the limiter, the window and the late requests alone. *)
LEMMA LimiterUntouched ==
    ASSUME LimiterInv, UNCHANGED <<now, bucketVars, latest, window>>,
           Stale(window.start)' = Stale(window.start)
    PROVE  (BucketInv /\ UpperInv /\ LowerInv)'
  BY DEF LimiterInv, BucketInv, UpperInv, LowerInv, Available, bucketVars

(* Every action of Next keeps the account of the limiter. *)
LEMMA LimiterStep == LimiterInv /\ SlotInv /\ [Next]_vars => LimiterInv'
  <1> SUFFICES ASSUME LimiterInv, SlotInv, [Next]_vars
               PROVE  (ClockInv /\ BucketInv /\ UpperInv /\ LowerInv)'
    BY SlotStep DEF LimiterInv, SlotInv
  <1>0. TypeOK /\ ClockInv /\ BucketInv /\ UpperInv /\ LowerInv
    BY DEF LimiterInv
  <1>a. Capacity \in Nat /\ Cost \in Nat /\ LateCost(window.stale) \in Nat
    BY <1>0, CapacityType, LateCostStep DEF TypeOK
  <1>1. ASSUME NEW r \in Requests, Arrive(r)
        PROVE  (ClockInv /\ BucketInv /\ UpperInv /\ LowerInv)'
    <2>1. Stale(window.start)' = Stale(window.start)
      BY <1>0, <1>1 DEF Arrive, Goto, Stale, TypeOK, ClockInv
    <2>2. ClockInv'
      BY <1>0, <1>1 DEF Arrive, ClockInv, TypeOK, bucketVars
    <2>. QED
      BY <1>1, <2>1, <2>2, LimiterUntouched DEF Arrive
  <1>2. ASSUME NEW r \in Requests, Limit(r)
        PROVE  (ClockInv /\ BucketInv /\ UpperInv /\ LowerInv)'
    <2> DEFINE t == readAt[r]
               n == Cardinality(Stale(window.start))
               k == window.spent' - window.spent
    <2>1. /\ pc[r] = "limit" /\ t \in Nat /\ t <= now
          /\ last' = t /\ latest' = Later(latest, t)
          /\ readAt' = [readAt EXCEPT ![r] = 0]
          /\ now' = now
      BY <1>0, <1>2 DEF Limit, AllowGranted, AllowRefused, Goto, TypeOK, ClockInv
    <2>2. /\ window' = [window EXCEPT !.spent = window.spent + k]
          /\ window'.start = window.start /\ window'.stale = window.stale
          /\ tokens' = Refill(t) - k
          /\ (k = Cost /\ k <= Refill(t)) \/ k = 0
      <3>1. CASE AllowGranted(t) /\ window' = [window EXCEPT !.spent = window.spent + Cost]
        BY <1>0, <1>a, <3>1 DEF AllowGranted, TypeOK
      <3>2. CASE AllowRefused(t) /\ UNCHANGED window
        BY <1>0, <1>a, <3>2 DEF AllowRefused, TypeOK, Refill, Lesser
      <3>. QED
        BY <1>2, <3>1, <3>2 DEF Limit
    <2>3. Stale(window.start)' = Stale(window.start) \ {r}
      BY <1>0, <1>2, <2>2 DEF Limit, Goto, Stale, TypeOK
    <2>4. r \in Stale(window.start) <=> t < window.start
      BY <2>1 DEF Stale
    <2>5. n \in Nat /\ Cardinality(Stale(window.start)') \in Nat
      BY <2>3, CountedFinite, FS_RemoveElement, FS_Subset, FS_CardinalityType
    <2>6. ASSUME t < window.start
          PROVE  LateCost(Cardinality(Stale(window.start)')) + k <= LateCost(n)
      <3>1. Cardinality(Stale(window.start)') = n - 1
        BY <2>3, <2>4, <2>6, CountedFinite, FS_RemoveElement
      <3>2. LateCost(n) = LateCost(n - 1) + Cost /\ LateCost(n - 1) \in Nat
        BY <2>5, <3>1, LateCostStep
      <3>. QED
        BY <1>a, <2>2, <3>1, <3>2
    <2>7. ASSUME t >= window.start
          PROVE  LateCost(Cardinality(Stale(window.start)')) = LateCost(n)
      <3>1. Stale(window.start)' = Stale(window.start)
        BY <1>0, <2>1, <2>3, <2>4, <2>7 DEF TypeOK
      <3>. QED
        BY <3>1
    <2>8. /\ window'.spent = window.spent + k
          /\ tokens' = Refill(t) - k
          /\ k \in Nat /\ Refill(t) \in Int
      BY <1>0, <1>a, <2>1, <2>2 DEF TypeOK, Refill, Lesser
    <2> DEFINE m == Cardinality(Stale(window.start)')
    <2>9. LateCost(n) \in Nat /\ LateCost(m) \in Nat
      BY <2>5, LateCostStep
    <2>10. /\ last' <= latest' /\ latest' <= now'
           /\ tokens' <= Capacity /\ tokens' + (latest' - last') >= 0
           /\ window'.spent + Lesser(tokens' + (now - last'), Capacity + (now - window.start))
                + LateCost(m) <= Capacity + (now - window.start) + LateCost(window.stale)
           /\ tokens' + (latest' - last') + window'.spent
                >= Lesser(Capacity, latest' - window.start)
      <3> HIDE DEF t, n, m, k
      <3>0. /\ tokens \in Int /\ last \in Nat /\ latest \in Nat /\ now \in Nat
            /\ window.start \in Nat /\ window.spent \in Nat
        BY <1>0 DEF TypeOK
      <3>1. /\ last <= latest /\ latest <= now /\ window.start <= now
            /\ tokens <= Capacity /\ tokens + (latest - last) >= 0
            /\ Refill(t) = Lesser(Capacity, tokens + (t - last))
            /\ k = 0 \/ k <= Refill(t)
        BY <1>0, <2>2 DEF ClockInv, BucketInv, Refill
      <3>2. /\ window.spent + Lesser(tokens + (now - last), Capacity + (now - window.start))
                 + LateCost(n) <= Capacity + (now - window.start) + LateCost(window.stale)
            /\ tokens + (latest - last) + window.spent
                 >= Lesser(Capacity, latest - window.start)
        BY <1>0 DEF UpperInv, Available, LowerInv, n
      <3>3. /\ t < window.start => LateCost(m) + k <= LateCost(n)
            /\ t >= window.start => LateCost(m) = LateCost(n)
        BY <2>6, <2>7 DEF m
      <3>. QED
        BY <1>a, <2>1, <2>8, <2>9, <3>0, <3>1, <3>2, <3>3, SMTT(30) DEF Lesser, Later
    <2>. QED
      <3>1. ClockInv'
        BY <1>0, <2>1, <2>2, <2>10 DEF ClockInv, TypeOK
      <3>2. UpperInv'
        BY <2>1, <2>2, <2>10 DEF UpperInv, Available
      <3>. QED
        BY <2>2, <2>10, <3>1, <3>2 DEF BucketInv, LowerInv
  <1>3. ASSUME NEW r \in Requests, Enter(r) \/ Leave(r)
        PROVE  (ClockInv /\ BucketInv /\ UpperInv /\ LowerInv)'
    <2>1. Stale(window.start)' = Stale(window.start)
      BY <1>0, <1>3 DEF Enter, Leave, Goto, Stale, TypeOK
    <2>2. ClockInv'
      BY <1>0, <1>3 DEF Enter, Leave, ClockInv, bucketVars
    <2>. QED
      BY <1>3, <2>1, <2>2, LimiterUntouched DEF Enter, Leave
  <1>4. CASE Tick
    <2>1. Stale(window.start)' = Stale(window.start)
      BY <1>4 DEF Tick, Stale
    <2>2. LateCost(Cardinality(Stale(window.start))) \in Nat
      BY CountedFinite, LateCostStep
    <2>3. UpperInv'
      BY <1>0, <1>a, <1>4, <2>1, <2>2
      DEF Tick, UpperInv, Available, Lesser, TypeOK, bucketVars
    <2>. QED
      BY <1>0, <1>4, <2>3 DEF Tick, ClockInv, BucketInv, LowerInv, TypeOK, bucketVars
  <1>5. CASE OpenWindow
    <2>1. /\ window'.start = now /\ window'.spent = 0
          /\ window'.stale = Cardinality(Stale(now))
          /\ UNCHANGED <<now, bucketVars, pc, readAt, latest>>
      BY <1>5 DEF OpenWindow
    <2>2. Stale(window.start)' = Stale(now) /\ LateCost(Cardinality(Stale(now))) \in Nat
      BY <2>1, CountedFinite, LateCostStep DEF Stale
    <2>3. UpperInv'
      BY <1>0, <1>a, <2>1, <2>2 DEF UpperInv, Available, Lesser, TypeOK, bucketVars
    <2>4. LowerInv'
      BY <1>0, <1>a, <2>1 DEF LowerInv, BucketInv, ClockInv, Lesser, TypeOK, bucketVars
    <2>. QED
      BY <1>0, <2>1, <2>3, <2>4 DEF ClockInv, BucketInv, TypeOK, bucketVars
  <1>6. CASE UNCHANGED vars
    <2>1. Stale(window.start)' = Stale(window.start) /\ ClockInv'
      BY <1>0, <1>6 DEF vars, Stale, ClockInv, bucketVars
    <2>. QED
      BY <1>6, <2>1, LimiterUntouched DEF vars
  <1>. QED
    BY <1>1, <1>2, <1>3, <1>4, <1>5, <1>6 DEF Next

(* The account of the limiter is right in every behaviour. *)
LEMMA LimiterInvariant == Spec => []LimiterInv
  BY SlotInvariant, LimiterInit, LimiterStep, PTL DEF Spec

(***************************************************************************)
(* In every window of time the limiter lets through at most a burst, the   *)
(* refill of the window, and the requests that were late when it began.    *)
(***************************************************************************)
THEOREM RateBounded == Spec => []WindowBound
  <1>1. LimiterInv => WindowBound
    <2> SUFFICES ASSUME LimiterInv PROVE WindowBound
      OBVIOUS
    <2>1. LateCost(Cardinality(Stale(window.start))) \in Nat /\ LateCost(window.stale) \in Nat
      BY CountedFinite, LateCostStep DEF LimiterInv, TypeOK
    <2>2. Available \in Nat
      BY CapacityType DEF LimiterInv, TypeOK, ClockInv, BucketInv, Available, Lesser
    <2>. QED
      BY <2>1, <2>2, CapacityType
      DEF LimiterInv, TypeOK, UpperInv, WindowBound, LateCost
  <1>. QED
    BY LimiterInvariant, <1>1, PTL

(***************************************************************************)
(* A request whose clock reading is not older than one used before it is   *)
(* refused by the limiter only when the refill of every recent window, up  *)
(* to a burst, was given out in it.                                        *)
(***************************************************************************)
THEOREM LimiterRefusalsJustified == Spec => RefusedOnlyWhenSpent
  <1>1. LimiterInv /\ [Next]_vars =>
          [\A r \in Requests :
              pc[r] = "limit" /\ pc'[r] = "idle" /\ readAt[r] >= latest =>
                window.spent + Cost > Lesser(Capacity, readAt[r] - window.start)]_vars
    <2> SUFFICES ASSUME LimiterInv, Next, NEW r \in Requests,
                        pc[r] = "limit", pc'[r] = "idle", readAt[r] >= latest
                 PROVE  window.spent + Cost > Lesser(Capacity, readAt[r] - window.start)
      OBVIOUS
    <2>0. TypeOK
      BY DEF LimiterInv
    <2>1. Limit(r)
      BY <2>0 DEF Next, Arrive, Enter, Leave, Tick, OpenWindow, Goto, Limit, TypeOK
    <2>2. Refill(readAt[r]) < Cost
      BY <2>0, <2>1 DEF Limit, AllowRefused, Goto, TypeOK
    <2>. QED
      BY <2>0, <2>2, CapacityType
      DEF LimiterInv, TypeOK, LowerInv, BucketInv, ClockInv, Refill, Lesser
  <1>. QED
    BY LimiterInvariant, <1>1, PTL DEF Spec, RefusedOnlyWhenSpent


-------------------------------------------------------------------------------
(***************************************************************************)
(* BrowserBinding: only the browser that started a transaction completes   *)
(* it, for any number of browsers, flows, tabs and transactions.           *)
(*                                                                         *)
(* A state belongs to one browser: every transaction bound to it was       *)
(* started by the same one (OneOwner).  This is kept because a start       *)
(* carries the state of its own browser, or draws one that no transaction  *)
(* has (Bound).                                                            *)
(***************************************************************************)


Used(h) == transaction[h] # Unused

(* A transaction of browser b is bound to the state s. *)
Owns(b, s) == \E h \in Handles : Used(h) /\ transaction[h].state = s /\ transaction[h].by = b

OneOwner ==
    \A g, h \in Handles :
        Used(g) /\ Used(h) /\ transaction[g].state = transaction[h].state =>
            transaction[g].by = transaction[h].by

Bound ==
    /\ \A h \in Handles : Used(h) => transaction[h].state \in minted
    /\ \A b \in Browsers, f \in Flows : jar[b][f] # None => Owns(b, jar[b][f])
    /\ \A c \in Calls : call[c].cookie # None => Owns(call[c].browser, call[c].cookie)
    /\ \A c \in Calls : call[c].stage = "answered" =>
        Used(call[c].handle) /\ transaction[call[c].handle].by = call[c].browser

Binding == OneOwner /\ Bound /\ CompletedByStarter

(* Kinds of values are told apart. *)
LEMMA UsedType ==
    ASSUME BindingTypeOK, NEW h \in Handles
    PROVE  /\ Used(h) => transaction[h] \in [flow : Flows, csrf : CSRFTokens,
                                            state : States, by : Browsers]
           /\ \A x \in [flow : Flows, csrf : CSRFTokens, state : States, by : Browsers] : x # Unused
<1>1. \A x \in [flow : Flows, csrf : CSRFTokens, state : States, by : Browsers] : x # Unused
  BY NoneAssumption DEF Unused
<1>. QED
  BY <1>1 DEF BindingTypeOK, Used

-------------------------------------------------------------------------------
(* Types *)

(* The initial state is well typed. *)
LEMMA BindingInitType == BindingInit => BindingTypeOK
  BY NoneAssumption DEF BindingInit, BindingTypeOK, Idle

(* What a start binds its transaction to is a state. *)
LEMMA StartStateType ==
    ASSUME BindingTypeOK, NEW c \in Calls, NEW s \in startBrowserState(call[c].cookie)
    PROVE  s \in States
  BY DEF BindingTypeOK, startBrowserState

(* Every step keeps the types. *)
LEMMA BindingNextType == BindingTypeOK /\ [BindingNext]_bindingVars => BindingTypeOK'
<1>. SUFFICES ASSUME BindingTypeOK, [BindingNext]_bindingVars PROVE BindingTypeOK'
  OBVIOUS
<1>1. ASSUME NEW c \in Calls, NEW b \in Browsers, NEW f \in Flows, Navigate(c, b, f)
      PROVE  BindingTypeOK'
  <2>1. jar[b][f] \in States \cup {None}
    BY DEF BindingTypeOK
  <2>2. raced' \in [Browsers -> SUBSET Flows]
    BY <1>1 DEF Navigate, BindingTypeOK
  <2>. QED
    BY <1>1, <2>1, <2>2, NoneAssumption DEF Navigate, BindingTypeOK, Idle
<1>2. ASSUME NEW c \in Calls, HandleStart(c) PROVE BindingTypeOK'
  <2>1. PICK h \in Handles, csrf \in CSRFTokens \ minted,
             state \in startBrowserState(call[c].cookie) :
          /\ transaction' = [transaction EXCEPT ![h] =
                [flow |-> call[c].flow, csrf |-> csrf, state |-> state, by |-> call[c].browser]]
          /\ minted' = minted \cup {csrf, state}
          /\ call' = [call EXCEPT ![c].stage = "answered", ![c].handle = h]
    BY <1>2 DEF HandleStart
  <2>2. state \in States /\ call[c].stage = "sent"
    BY <1>2, StartStateType DEF HandleStart
  <2>3. call[c].browser \in Browsers /\ call[c].flow \in Flows
    BY <2>2 DEF BindingTypeOK
  <2>4. /\ transaction' \in [Handles -> [flow : Flows, csrf : CSRFTokens, state : States,
                                         by : Browsers] \cup {Unused}]
        /\ minted' \subseteq States \cup CSRFTokens
    BY <2>1, <2>2, <2>3 DEF BindingTypeOK
  <2>. QED
    BY <1>2, <2>1, <2>2, <2>3, <2>4, NoneAssumption DEF HandleStart, BindingTypeOK, Idle
<1>3. ASSUME NEW c \in Calls, ReceiveStart(c) PROVE BindingTypeOK'
  <2>. DEFINE b == call[c].browser
              f == call[c].flow
              h == call[c].handle
  <2>1. h \in Handles /\ b \in Browsers /\ f \in Flows /\ Used(h)
    BY <1>3 DEF ReceiveStart, BindingTypeOK, Used
  <2>2. transaction[h].state \in States /\ transaction[h].csrf \in CSRFTokens
    BY <2>1, UsedType
  <2>3. jar' \in [Browsers -> [Flows -> States \cup {None}]]
    <3>1. jar' = [jar EXCEPT ![b][f] = transaction[h].state]
      BY <1>3 DEF ReceiveStart
    <3>. QED
      BY <2>1, <2>2, <3>1 DEF BindingTypeOK
  <2>4. links' \subseteq [handle : Handles, csrf : CSRFTokens]
    <3>1. links' = links \cup {[handle |-> h, csrf |-> transaction[h].csrf]}
      BY <1>3 DEF ReceiveStart
    <3>. QED
      BY <2>1, <2>2, <3>1 DEF BindingTypeOK
  <2>5. call' = [call EXCEPT ![c] = Idle] /\ UNCHANGED <<transaction, minted, completed, raced>>
    BY <1>3 DEF ReceiveStart
  <2>. QED
    BY <2>3, <2>4, <2>5, NoneAssumption DEF BindingTypeOK, Idle
<1>4. ASSUME NEW c \in Calls, StartFails(c) PROVE BindingTypeOK'
  BY <1>4, NoneAssumption DEF StartFails, BindingTypeOK, Idle
<1>5. ASSUME NEW b \in Browsers, NEW f \in Flows, Complete(b, f) PROVE BindingTypeOK'
  BY <1>5 DEF Complete, BindingTypeOK
<1>6. ASSUME NEW b \in Browsers, CloseBrowser(b) PROVE BindingTypeOK'
  BY <1>6, NoneAssumption DEF CloseBrowser, BindingTypeOK, Idle
<1>7. CASE UNCHANGED bindingVars
  BY <1>7 DEF bindingVars, BindingTypeOK, Idle
<1>. QED
  BY <1>1, <1>2, <1>3, <1>4, <1>5, <1>6, <1>7 DEF BindingNext

(* Every variable keeps its type, and a start under way has what its stage needs. *)
THEOREM BrowserTypeCorrect == BindingSpec => []BindingTypeOK
<1>. QED
  BY BindingInitType, BindingNextType, PTL DEF BindingSpec

-------------------------------------------------------------------------------
(* One owner *)

(* A state that a browser owns stays its own while transactions only come. *)
LEMMA OwnsKept ==
    ASSUME \A h \in Handles : Used(h) => transaction'[h] = transaction[h],
           NEW b, NEW s, Owns(b, s)
    PROVE  Owns(b, s)'
  BY DEF Owns, Used

(* Steps that neither start nor complete a transaction keep the owners. *)
LEMMA StepKeepsOwners ==
    ASSUME OneOwner, CompletedByStarter, UNCHANGED <<transaction, completed>>
    PROVE  OneOwner' /\ CompletedByStarter'
  BY DEF OneOwner, CompletedByStarter, Used

(* The initial state: no cookie, no transaction. *)
LEMMA InitBinding == BindingInit => Binding
  BY NoneAssumption DEF BindingInit, Binding, OneOwner, Bound, CompletedByStarter, Used, Idle

(* Every step keeps the binding. *)
LEMMA NextBinding == BindingTypeOK /\ BindingTypeOK' /\ Binding /\ [BindingNext]_bindingVars => Binding'
<1>. SUFFICES ASSUME BindingTypeOK, BindingTypeOK', Binding, [BindingNext]_bindingVars PROVE Binding'
  OBVIOUS
<1>. USE DEF Binding
<1>1. ASSUME NEW c \in Calls, NEW b \in Browsers, NEW f \in Flows, Navigate(c, b, f)
      PROVE  Binding'
  <2>1. OneOwner' /\ CompletedByStarter'
    BY <1>1, StepKeepsOwners DEF Navigate
  <2>2. call' = [call EXCEPT ![c] = [stage |-> "sent", browser |-> b, flow |-> f,
                                     cookie |-> jar[b][f], handle |-> None]]
        /\ UNCHANGED <<jar, transaction, minted>>
    BY <1>1 DEF Navigate
  <2>3. \A d \in Calls : d # c => call'[d] = call[d]
    BY <2>2 DEF BindingTypeOK
  <2>4. call'[c].browser = b /\ call'[c].cookie = jar[b][f] /\ call'[c].stage = "sent"
    BY <2>2 DEF BindingTypeOK
  <2>5. \A d \in Calls : call'[d].cookie # None => Owns(call'[d].browser, call'[d].cookie)
    BY <2>3, <2>4 DEF Bound
  <2>6. \A d \in Calls : call'[d].stage = "answered" =>
          Used(call'[d].handle) /\ transaction[call'[d].handle].by = call'[d].browser
    BY <2>3, <2>4 DEF Bound
  <2>7. Bound'
    BY <2>2, <2>5, <2>6 DEF Bound, Owns, Used
  <2>. QED
    BY <2>1, <2>7
<1>2. ASSUME NEW c \in Calls, HandleStart(c) PROVE Binding'
  <2>1. PICK h \in Handles, csrf \in CSRFTokens \ minted,
             s \in startBrowserState(call[c].cookie) :
          /\ transaction[h] = Unused
          /\ transaction' = [transaction EXCEPT ![h] =
                [flow |-> call[c].flow, csrf |-> csrf, state |-> s, by |-> call[c].browser]]
          /\ minted' = minted \cup {csrf, s}
          /\ call' = [call EXCEPT ![c].stage = "answered", ![c].handle = h]
    BY <1>2 DEF HandleStart
  <2>2. UNCHANGED <<jar, completed>>
    BY <1>2 DEF HandleStart
  <2>3. /\ transaction'[h].state = s /\ transaction'[h].by = call[c].browser
        /\ \A g \in Handles : g # h => transaction'[g] = transaction[g]
        /\ Used(h)' /\ ~Used(h)
    <3>1. call[c].browser \in Browsers /\ call[c].flow \in Flows
      BY <1>2 DEF HandleStart, BindingTypeOK
    <3>. QED
      BY <2>1, <3>1, NoneAssumption DEF BindingTypeOK, Used, Unused
  <2>4. \A g \in Handles : Used(g) => transaction'[g] = transaction[g]
    BY <2>3
  <2>5. \A g \in Handles : Used(g) /\ transaction[g].state = s => transaction[g].by = call[c].browser
    <3>1. CASE call[c].cookie = None
      BY <2>1, <3>1 DEF startBrowserState, Bound
    <3>2. CASE call[c].cookie # None
      <4>1. s = call[c].cookie /\ Owns(call[c].browser, s)
        BY <2>1, <3>2 DEF startBrowserState, Bound
      <4>. QED
        BY <4>1 DEF Owns, OneOwner
    <3>. QED
      BY <3>1, <3>2
  <2>6. OneOwner'
    <3>. SUFFICES ASSUME NEW g \in Handles, NEW k \in Handles, Used(g)', Used(k)',
                         transaction'[g].state = transaction'[k].state
                  PROVE  transaction'[g].by = transaction'[k].by
      BY DEF OneOwner
    <3>1. CASE g = h \/ k = h
      BY <2>3, <2>5, <3>1 DEF Used
    <3>2. CASE g # h /\ k # h
      BY <2>3, <3>2 DEF OneOwner, Used
    <3>. QED
      BY <3>1, <3>2
  <2>7. Bound'
    <3>1. \A g \in Handles : Used(g)' => transaction'[g].state \in minted'
      BY <2>1, <2>3 DEF Bound, Used
    <3>2. \A b \in Browsers, f \in Flows : jar'[b][f] # None => Owns(b, jar[b][f])'
      BY <2>2, <2>4, OwnsKept DEF Bound
    <3>3. \A d \in Calls : call'[d].browser = call[d].browser /\ call'[d].cookie = call[d].cookie
      BY <2>1 DEF BindingTypeOK
    <3>4. \A d \in Calls : call'[d].cookie # None => Owns(call[d].browser, call[d].cookie)'
      BY <2>4, <3>3, OwnsKept DEF Bound
    <3>5. \A d \in Calls : call'[d].stage = "answered" =>
            Used(call[d].handle)' /\ transaction'[call'[d].handle].by = call'[d].browser
      <4>. SUFFICES ASSUME NEW d \in Calls, call'[d].stage = "answered"
                    PROVE  Used(call[d].handle)' /\ transaction'[call'[d].handle].by = call'[d].browser
        OBVIOUS
      <4>1. CASE d = c
        BY <2>1, <2>3, <3>3, <4>1 DEF BindingTypeOK
      <4>2. CASE d # c
        <5>1. call'[d] = call[d] /\ call[d].handle \in Handles
          BY <2>1, <4>2 DEF BindingTypeOK
        <5>. QED
          BY <2>4, <5>1 DEF Bound, Used
      <4>. QED
        BY <4>1, <4>2
    <3>. QED
      BY <2>2, <3>1, <3>2, <3>3, <3>4, <3>5 DEF Bound, Owns
  <2>8. CompletedByStarter'
    <3>1. completed[h] = None
      BY <2>3 DEF CompletedByStarter, Used, Unused
    <3>. QED
      BY <2>2, <2>3, <3>1 DEF CompletedByStarter
  <2>. QED
    BY <2>6, <2>7, <2>8
<1>3. ASSUME NEW c \in Calls, ReceiveStart(c) PROVE Binding'
  <2>1. OneOwner' /\ CompletedByStarter'
    BY <1>3, StepKeepsOwners DEF ReceiveStart
  <2>2. LET h == call[c].handle IN
          /\ h \in Handles /\ Used(h) /\ transaction[h].by = call[c].browser
          /\ jar' = [jar EXCEPT ![call[c].browser][call[c].flow] = transaction[h].state]
          /\ call' = [call EXCEPT ![c] = Idle]
          /\ UNCHANGED <<transaction, minted>>
    BY <1>3 DEF ReceiveStart, BindingTypeOK, Bound
  <2>3. Owns(call[c].browser, transaction[call[c].handle].state)
    BY <2>2 DEF Owns
  <2>4. \A b \in Browsers, f \in Flows : jar'[b][f] # None => Owns(b, jar'[b][f])
    BY <2>2, <2>3 DEF BindingTypeOK, Bound
  <2>5. \A d \in Calls : call'[d] = IF d = c THEN Idle ELSE call[d]
    BY <2>2 DEF BindingTypeOK
  <2>. QED
    BY <2>1, <2>2, <2>4, <2>5 DEF Bound, Owns, Used, Idle
<1>4. ASSUME NEW c \in Calls, StartFails(c) PROVE Binding'
  BY <1>4 DEF StartFails, BindingTypeOK, Idle, Bound, Owns, OneOwner, CompletedByStarter, Used
<1>5. ASSUME NEW b \in Browsers, NEW f \in Flows, Complete(b, f) PROVE Binding'
  <2>1. PICK one \in links, other \in links :
          /\ Completable(b, one.handle, other.csrf, f)
          /\ completed' = [completed EXCEPT ![one.handle] = b]
    BY <1>5 DEF Complete
  <2>2. one.handle \in Handles /\ UNCHANGED <<jar, call, transaction, minted>>
    BY <1>5 DEF Complete, BindingTypeOK
  <2>3. Used(one.handle) /\ jar[b][f] # None /\ transaction[one.handle].state = jar[b][f]
    BY <2>1 DEF Completable, validateBrowserState, Used
  <2>4. transaction[one.handle].by = b
    <3>1. Owns(b, jar[b][f])
      BY <2>3 DEF Bound
    <3>. QED
      BY <2>2, <2>3, <3>1 DEF Owns, OneOwner
  <2>5. CompletedByStarter'
    BY <2>1, <2>2, <2>4 DEF BindingTypeOK, CompletedByStarter
  <2>. QED
    BY <2>2, <2>5 DEF OneOwner, Bound, Owns, Used
<1>6. ASSUME NEW b \in Browsers, CloseBrowser(b) PROVE Binding'
  <2>1. OneOwner' /\ CompletedByStarter'
    BY <1>6, StepKeepsOwners DEF CloseBrowser
  <2>2. Bound'
    BY <1>6 DEF CloseBrowser, BindingTypeOK, Idle, Bound, Owns, Used
  <2>. QED
    BY <2>1, <2>2
<1>7. CASE UNCHANGED bindingVars
  BY <1>7 DEF bindingVars, OneOwner, Bound, Owns, CompletedByStarter, Used
<1>. QED
  BY <1>1, <1>2, <1>3, <1>4, <1>5, <1>6, <1>7 DEF BindingNext

(* Only the browser that started a transaction completes it. *)
THEOREM OnlyStarterCompletes == BindingSpec => []CompletedByStarter
<1>1. BindingInit => BindingTypeOK /\ Binding
  BY BindingInitType, InitBinding
<1>2. BindingTypeOK /\ Binding /\ [BindingNext]_bindingVars => (BindingTypeOK /\ Binding)'
  BY BindingNextType, NextBinding
<1>3. Binding => CompletedByStarter
  BY DEF Binding
<1>. QED
  BY <1>1, <1>2, <1>3, PTL DEF BindingSpec

-------------------------------------------------------------------------------
(***************************************************************************)
(* Tabs of one browser.  As long as the first starts of a flow have not    *)
(* overlapped, every start under way carries the cookie the browser still  *)
(* has, and one that carries none is the only one.                         *)
(***************************************************************************)

OneCookie(c) ==
    LET b == call[c].browser
        f == call[c].flow
    IN  /\ call[c].stage = "answered" /\ call[c].cookie # None =>
            transaction[call[c].handle].state = call[c].cookie
        /\ f \notin raced[b] =>
            /\ jar[b][f] = call[c].cookie
            /\ call[c].cookie = None =>
                \A d \in Calls \ {c} : call[d].browser = b => call[d].flow # f

Tabs == \A c \in Calls : call[c].stage # "idle" => OneCookie(c)

(* A start that does not move keeps its part while nothing it reads changes. *)
LEMMA OneCookieKept ==
    ASSUME NEW c \in Calls, OneCookie(c), call'[c] = call[c],
           call[c].stage = "answered" => transaction'[call[c].handle] = transaction[call[c].handle],
           call[c].flow \notin raced'[call[c].browser] => call[c].flow \notin raced[call[c].browser],
           jar'[call[c].browser][call[c].flow] = jar[call[c].browser][call[c].flow],
           \A d \in Calls \ {c} :
             call'[d].browser = call[c].browser /\ call'[d].flow = call[c].flow =>
                call[d].browser = call[c].browser /\ call[d].flow = call[c].flow
    PROVE  OneCookie(c)'
  BY DEF OneCookie

(* Every step keeps the tabs in order. *)
LEMMA NextTabs == BindingTypeOK /\ BindingTypeOK' /\ Tabs /\ [BindingNext]_bindingVars => Tabs'
<1>. SUFFICES ASSUME BindingTypeOK, BindingTypeOK', Tabs, [BindingNext]_bindingVars PROVE Tabs'
  OBVIOUS
<1>1. ASSUME NEW c \in Calls, NEW b \in Browsers, NEW f \in Flows, Navigate(c, b, f)
      PROVE  Tabs'
  <2>1. /\ call' = [call EXCEPT ![c] = [stage |-> "sent", browser |-> b, flow |-> f,
                                        cookie |-> jar[b][f], handle |-> None]]
        /\ UNCHANGED <<jar, transaction>> /\ call[c] = Idle
        /\ raced' = IF jar[b][f] = None /\ FirstUnderWay(b, f)
                    THEN [raced EXCEPT ![b] = @ \cup {f}] ELSE raced
    BY <1>1 DEF Navigate
  <2>2. \A d \in Calls : d # c => call'[d] = call[d]
    BY <2>1 DEF BindingTypeOK
  <2>3. /\ call'[c].stage = "sent" /\ call'[c].browser = b /\ call'[c].flow = f
        /\ call'[c].cookie = jar[b][f]
    BY <2>1 DEF BindingTypeOK
  <2>4. \A e \in Browsers : raced[e] \subseteq raced'[e]
    BY <2>1 DEF BindingTypeOK
  <2>5. jar[b][f] = None /\ f \notin raced'[b] => ~FirstUnderWay(b, f) /\ f \notin raced[b]
    BY <2>1 DEF BindingTypeOK
  <2>6. OneCookie(c)'
    <3>1. ASSUME f \notin raced'[b], jar[b][f] = None, NEW d \in Calls \ {c},
                 call[d].browser = b, call[d].flow = f
          PROVE  FALSE
      <4>1. call[d].stage # "idle"
        BY <3>1, NoneAssumption DEF BindingTypeOK, Idle
      <4>2. call[d].cookie = None
        BY <2>5, <3>1, <4>1 DEF Tabs, OneCookie
      <4>. QED
        BY <2>5, <3>1, <4>2 DEF FirstUnderWay
    <3>. QED
      BY <2>1, <2>2, <2>3, <3>1 DEF OneCookie
  <2>7. ASSUME NEW d \in Calls \ {c}, call'[d].stage # "idle" PROVE OneCookie(d)'
    <3>1. call'[d] = call[d] /\ OneCookie(d) /\ call[d].browser \in Browsers
      BY <2>2, <2>7 DEF Tabs, BindingTypeOK
    <3>2. ASSUME call[d].browser = b, call[d].flow = f, f \notin raced'[b], call[d].cookie = None
          PROVE  FALSE
      <4>1. f \notin raced[b] /\ jar[b][f] = None
        BY <2>4, <3>1, <3>2 DEF OneCookie
      <4>. QED
        BY <2>5, <3>2, <4>1 DEF FirstUnderWay
    <3>. QED
      BY <2>1, <2>2, <2>3, <2>4, <3>1, <3>2 DEF OneCookie
  <2>. QED
    BY <2>6, <2>7 DEF Tabs
<1>2. ASSUME NEW c \in Calls, HandleStart(c) PROVE Tabs'
  <2>1. PICK h \in Handles, csrf \in CSRFTokens \ minted,
             s \in startBrowserState(call[c].cookie) :
          /\ transaction[h] = Unused
          /\ transaction' = [transaction EXCEPT ![h] =
                [flow |-> call[c].flow, csrf |-> csrf, state |-> s, by |-> call[c].browser]]
          /\ call' = [call EXCEPT ![c].stage = "answered", ![c].handle = h]
    BY <1>2 DEF HandleStart
  <2>2. UNCHANGED <<jar, raced>> /\ call[c].stage = "sent"
    BY <1>2 DEF HandleStart
  <2>3. /\ \A d \in Calls : /\ call'[d].browser = call[d].browser /\ call'[d].flow = call[d].flow
                            /\ call'[d].cookie = call[d].cookie
        /\ \A d \in Calls : d # c => call'[d] = call[d]
        /\ call'[c].handle = h
    BY <2>1 DEF BindingTypeOK
  <2>4. transaction'[h].state = s /\ \A g \in Handles : g # h => transaction'[g] = transaction[g]
    BY <2>1 DEF BindingTypeOK
  <2>5. OneCookie(c)'
    <3>1. OneCookie(c)
      BY <2>2 DEF Tabs
    <3>2. call[c].cookie # None => s = call[c].cookie
      BY <2>1 DEF startBrowserState
    <3>. QED
      BY <2>2, <2>3, <2>4, <3>1, <3>2 DEF OneCookie
  <2>6. ASSUME NEW d \in Calls \ {c}, call'[d].stage # "idle" PROVE OneCookie(d)'
    <3>1. call'[d] = call[d] /\ OneCookie(d)
      BY <2>3, <2>6 DEF Tabs
    <3>2. call[d].stage = "answered" => transaction'[call[d].handle] = transaction[call[d].handle]
      BY <2>1, <2>4 DEF BindingTypeOK
    <3>. QED
      BY <2>2, <2>3, <3>1, <3>2, OneCookieKept
  <2>. QED
    BY <2>5, <2>6 DEF Tabs
<1>3. ASSUME NEW c \in Calls, ReceiveStart(c) PROVE Tabs'
  <2>. DEFINE b == call[c].browser
              f == call[c].flow
              s == transaction[call[c].handle].state
  <2>1. /\ jar' = [jar EXCEPT ![b][f] = s] /\ call' = [call EXCEPT ![c] = Idle]
        /\ UNCHANGED <<transaction, raced>> /\ call[c].stage = "answered"
        /\ b \in Browsers /\ f \in Flows
    BY <1>3 DEF ReceiveStart, BindingTypeOK
  <2>2. call'[c].stage = "idle" /\ \A d \in Calls : d # c => call'[d] = call[d]
    BY <2>1 DEF BindingTypeOK, Idle
  <2>3. \A e \in Browsers, g \in Flows : e # b \/ g # f => jar'[e][g] = jar[e][g]
    BY <2>1 DEF BindingTypeOK
  <2>4. OneCookie(c)
    BY <2>1 DEF Tabs
  <2>5. f \notin raced[b] /\ call[c].cookie # None => jar'[b][f] = jar[b][f]
    BY <2>1, <2>4 DEF OneCookie, BindingTypeOK
  <2>6. call'[c].browser = None /\ call'[c].flow = None
    BY <2>1 DEF BindingTypeOK, Idle
  <2>7. ASSUME NEW d \in Calls, call'[d].stage # "idle" PROVE OneCookie(d)'
    <3>1. d # c /\ call'[d] = call[d] /\ OneCookie(d) /\ call[d].browser \in Browsers
          /\ call[d].flow \in Flows /\ call[d].browser # None
      BY <2>2, <2>7, NoneAssumption DEF Tabs, BindingTypeOK
    <3>2. CASE call[d].browser # b \/ call[d].flow # f
      BY <2>1, <2>2, <2>3, <2>6, <3>1, <3>2, OneCookieKept
    <3>3. CASE call[d].browser = b /\ call[d].flow = f
      <4>1. f \notin raced[b] => jar'[b][f] = jar[b][f]
        BY <2>4, <2>5, <3>1, <3>3 DEF OneCookie
      <4>. QED
        BY <2>1, <2>2, <2>6, <3>1, <3>3, <4>1 DEF OneCookie
    <3>. QED
      BY <3>2, <3>3
  <2>. QED
    BY <2>7 DEF Tabs
<1>4. ASSUME NEW c \in Calls, StartFails(c) PROVE Tabs'
  <2>1. call' = [call EXCEPT ![c] = Idle] /\ UNCHANGED <<jar, transaction, raced>>
    BY <1>4 DEF StartFails
  <2>2. \A d \in Calls : call'[d] = IF d = c THEN Idle ELSE call[d]
    BY <2>1 DEF BindingTypeOK
  <2>3. ASSUME NEW d \in Calls, call'[d].stage # "idle" PROVE OneCookie(d)'
    <3>1. call'[d] = call[d] /\ OneCookie(d) /\ call[d].browser # None
      BY <2>2, <2>3, NoneAssumption DEF Tabs, BindingTypeOK, Idle
    <3>. QED
      BY <2>1, <2>2, <3>1, OneCookieKept DEF Idle
  <2>. QED
    BY <2>3 DEF Tabs
<1>5. ASSUME NEW b \in Browsers, NEW f \in Flows, Complete(b, f) PROVE Tabs'
  BY <1>5 DEF Complete, Tabs, OneCookie
<1>6. ASSUME NEW b \in Browsers, CloseBrowser(b) PROVE Tabs'
  <2>1. /\ jar' = [jar EXCEPT ![b] = [f \in Flows |-> None]]
        /\ raced' = [raced EXCEPT ![b] = {}]
        /\ \A c \in Calls : call'[c] = IF call[c].browser = b THEN Idle ELSE call[c]
        /\ UNCHANGED transaction
    BY <1>6 DEF CloseBrowser
  <2>2. \A e \in Browsers : e # b => jar'[e] = jar[e] /\ raced'[e] = raced[e]
    BY <2>1 DEF BindingTypeOK
  <2>3. ASSUME NEW d \in Calls, call'[d].stage # "idle" PROVE OneCookie(d)'
    <3>1. call'[d] = call[d] /\ OneCookie(d) /\ call[d].browser # b
          /\ call[d].browser \in Browsers /\ call[d].browser # None
      BY <2>1, <2>3, NoneAssumption DEF Tabs, BindingTypeOK, Idle
    <3>. QED
      BY <2>1, <2>2, <3>1, OneCookieKept DEF Idle
  <2>. QED
    BY <2>3 DEF Tabs
<1>7. CASE UNCHANGED bindingVars
  BY <1>7 DEF bindingVars, Tabs, OneCookie
<1>. QED
  BY <1>1, <1>2, <1>3, <1>4, <1>5, <1>6, <1>7 DEF BindingNext

(* No start is under way at first. *)
LEMMA InitTabs == BindingInit => Tabs
  BY DEF BindingInit, Tabs, Idle

(***************************************************************************)
(* A transaction that its browser can complete stays so until it is        *)
(* completed, the browser is closed, or its first starts of that flow have *)
(* overlapped: no other tab takes its cookie away.                         *)
(***************************************************************************)
THEOREM TabsStayOpen == BindingSpec => TabsCoexist
<1>1. BindingTypeOK /\ Tabs /\ [BindingNext]_bindingVars =>
        [\A b \in Browsers, h \in Handles :
            Open(b, h) /\ ~Open(b, h)' =>
              \/ completed'[h] # None
              \/ jar'[b] = [f \in Flows |-> None]
              \/ transaction[h].flow \in raced[b]]_bindingVars
  <2>. SUFFICES ASSUME BindingTypeOK, Tabs, BindingNext, NEW b \in Browsers, NEW h \in Handles,
                       Open(b, h), ~Open(b, h)',
                       completed'[h] = None, jar'[b] # [f \in Flows |-> None],
                       transaction[h].flow \notin raced[b]
                PROVE  FALSE
    OBVIOUS
  <2>. DEFINE f == transaction[h].flow
              s == transaction[h].state
  <2>1. Used(h) /\ jar[b][f] = s /\ f \in Flows /\ s \in States /\ s # None
    BY UsedType, NoneAssumption DEF Open, Used
  <2>2. ASSUME transaction'[h] = transaction[h], jar'[b][f] = jar[b][f] PROVE FALSE
    BY <2>1, <2>2 DEF Open, Used
  <2>3. ASSUME NEW c \in Calls, HandleStart(c) PROVE FALSE
    <3>1. PICK g \in Handles : transaction[g] = Unused /\
            \E t : transaction' = [transaction EXCEPT ![g] = t]
      BY <2>3 DEF HandleStart
    <3>. QED
      BY <2>1, <2>2, <2>3, <3>1 DEF HandleStart, BindingTypeOK, Used
  <2>4. ASSUME NEW c \in Calls, ReceiveStart(c) PROVE FALSE
    <3>1. /\ jar' = [jar EXCEPT ![call[c].browser][call[c].flow]
                        = transaction[call[c].handle].state]
          /\ transaction' = transaction /\ call[c].stage = "answered"
      BY <2>4 DEF ReceiveStart
    <3>2. call[c].browser = b /\ call[c].flow = f
      BY <2>1, <2>2, <3>1 DEF BindingTypeOK
    <3>3. jar[b][f] = call[c].cookie /\ (call[c].cookie # None =>
            transaction[call[c].handle].state = call[c].cookie)
      BY <3>1, <3>2 DEF Tabs, OneCookie
    <3>4. jar'[b][f] = jar[b][f]
      BY <2>1, <3>1, <3>2, <3>3 DEF BindingTypeOK
    <3>. QED
      BY <2>2, <3>1, <3>4
  <2>5. ASSUME NEW e \in Browsers, CloseBrowser(e) PROVE FALSE
    <3>1. jar' = [jar EXCEPT ![e] = [k \in Flows |-> None]] /\ transaction' = transaction
      BY <2>5 DEF CloseBrowser
    <3>2. e # b
      BY <3>1 DEF BindingTypeOK
    <3>3. jar'[b] = jar[b]
      BY <3>1, <3>2 DEF BindingTypeOK
    <3>. HIDE DEF f, s
    <3>. QED
      BY <2>2, <3>1, <3>3
  <2>6. ASSUME NEW c \in Calls, NEW e \in Browsers, NEW g \in Flows, Navigate(c, e, g)
        PROVE  FALSE
    BY <2>2, <2>6 DEF Navigate
  <2>7. ASSUME NEW c \in Calls, StartFails(c) PROVE FALSE
    BY <2>2, <2>7 DEF StartFails
  <2>8. ASSUME NEW e \in Browsers, NEW g \in Flows, Complete(e, g) PROVE FALSE
    BY <2>2, <2>8 DEF Complete
  <2>. HIDE DEF f, s
  <2>. QED
    BY <2>3, <2>4, <2>5, <2>6, <2>7, <2>8 DEF BindingNext
<1>2. BindingInit => BindingTypeOK /\ Tabs
  BY BindingInitType, InitTabs
<1>3. BindingTypeOK /\ Tabs /\ [BindingNext]_bindingVars => (BindingTypeOK /\ Tabs)'
  BY BindingNextType, NextTabs
<1>. QED
  BY <1>1, <1>2, <1>3, PTL DEF BindingSpec, TabsCoexist

===============================================================================

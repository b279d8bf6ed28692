------------------------- MODULE ServerLifecycleProofs -------------------------
(***************************************************************************)
(* Proofs about ServerLifecycle, for any environments, any number of       *)
(* connections and any timeouts that give Shutdown more time than a        *)
(* request.                                                                *)
(***************************************************************************)
EXTENDS ServerLifecycle, TLAPS

(* The steps of a connection, and what happens to the process from outside. *)
ConnectionStep(c) ==
    \/ Accept(c) \/ HandlerBegins(c) \/ BodyRead(c) \/ HandlerEnds(c)
    \/ NextRequest(c) \/ Disconnect(c)

EnvironmentStep == Listen \/ ServeFails \/ Signal \/ Killed

(***************************************************************************)
(* Types                                                                   *)
(***************************************************************************)
(* A process that has not served anything is well typed (run). *)
LEMMA TypeInit == Init => TypeOK
<1> SUFFICES ASSUME Init PROVE TypeOK
  OBVIOUS
<1>1. signalled \in BOOLEAN
  BY Zenon DEF Init
<1>2. /\ phase \in [Connections -> Phases]
      /\ age \in [Connections -> Nat]
  BY DEF Init, Phases
<1> QED
  BY <1>1, <1>2 DEF Init, TypeOK

(* Every step of run, of a connection and of the clock keeps the types. *)
LEMMA TypeStep == TypeOK /\ [Next]_vars => TypeOK'
<1> SUFFICES ASSUME TypeOK, [Next]_vars PROVE TypeOK'
  OBVIOUS
<1> USE TimeoutsAssumption DEF TypeOK, Phases
<1>1. ASSUME NEW c \in Connections, ConnectionStep(c) PROVE TypeOK'
  <2>1. CASE Accept(c)
    BY <2>1 DEF Accept, Move, processVars
  <2>2. CASE HandlerBegins(c)
    BY <2>2 DEF HandlerBegins, Move, processVars
  <2>3. CASE BodyRead(c)
    BY <2>3 DEF BodyRead, Move, processVars
  <2>4. CASE HandlerEnds(c)
    BY <2>4 DEF HandlerEnds, Move, processVars
  <2>5. CASE NextRequest(c)
    BY <2>5 DEF NextRequest, Move, processVars
  <2>6. CASE Disconnect(c)
    BY <2>6 DEF Disconnect, Move, processVars
  <2> QED
    BY <1>1, <2>1, <2>2, <2>3, <2>4, <2>5, <2>6 DEF ConnectionStep
<1>2. CASE EnvironmentStep
  BY <1>2 DEF EnvironmentStep, Listen, ServeFails, Signal, Killed, connectionVars
<1>9. CASE StartUp \/ StartFails
  BY <1>9 DEF StartUp, StartFails, Construct, connectionVars
<1>3. CASE ReturnError
  BY <1>3 DEF ReturnError, Selected, connectionVars
<1>4. CASE BeginShutdown
  BY <1>4 DEF BeginShutdown, Selected, connectionVars
<1>5. CASE Poll
  BY <1>5 DEF Poll
<1>6. CASE ShutdownTimesOut \/ CloseState \/ Exit
  BY <1>6 DEF ShutdownTimesOut, CloseState, Exit, connectionVars
<1>7. CASE Tick
  BY <1>7 DEF Tick
<1>8. CASE UNCHANGED vars
  BY <1>8 DEF vars, processVars, connectionVars
<1> QED
  BY <1>1, <1>2, <1>3, <1>4, <1>5, <1>6, <1>7, <1>8, <1>9
  DEF Next, RunStep, ConnectionStep, EnvironmentStep

(* Every variable of the process and its connections keeps its type. *)
THEOREM LifecycleTypeCorrect == Spec => []TypeOK
  BY TypeInit, TypeStep, PTL DEF Spec

-------------------------------------------------------------------------------
(***************************************************************************)
(* Handlers and Shutdown                                                   *)
(*                                                                         *)
(* ServedBeforeClose is not inductive: that no early handler works when    *)
(* the store is closed follows from a race between two clocks, which       *)
(* EarlyInv decides.  The time that is left to Shutdown and the age of a   *)
(* handler it found in service always add up to more than the budget, so   *)
(* the budget of the handler is up first.                                  *)
(***************************************************************************)
Patience == IF main = "stopping" THEN left ELSE 0

Busy(c) == phase[c] \in {"body", "work"}

SelectInv ==
    /\ Starting \/ main = "select" => cause = "none" /\ untracked = {}
    /\ main = "stopping" => cause = "shutdown"

BudgetInv == \A c \in Connections : phase[c] = "work" => age[c] <= Budget

UntrackedInv == \A c \in untracked : Busy(c) => c \in late

EarlyInv ==
    cause = "shutdown" =>
        \A c \in Connections : Busy(c) /\ c \notin late => Patience + age[c] > Budget

LifecycleInv == TypeOK /\ SelectInv /\ BudgetInv /\ UntrackedInv /\ EarlyInv

(* Before the first connection there is nothing to account for. *)
LEMMA LifecycleInit == Init => LifecycleInv
  BY TypeInit DEF Init, LifecycleInv, SelectInv, Starting, BudgetInv, UntrackedInv, EarlyInv, Busy

(* What a connection does. *)
LEMMA ConnectionKeeps ==
    ASSUME LifecycleInv, TypeOK', NEW c \in Connections, ConnectionStep(c)
    PROVE  LifecycleInv'
<1> USE TimeoutsAssumption DEF LifecycleInv, TypeOK, SelectInv, Starting, Started, BudgetInv, UntrackedInv, EarlyInv, Busy, Patience, Move, processVars
<1>1. CASE Accept(c)
  BY <1>1 DEF Accept
<1>2. CASE HandlerBegins(c)
  BY <1>2 DEF HandlerBegins
<1>3. CASE BodyRead(c)
  BY <1>3 DEF BodyRead
<1>4. CASE HandlerEnds(c)
  BY <1>4 DEF HandlerEnds
<1>5. CASE NextRequest(c)
  BY <1>5 DEF NextRequest
<1>6. CASE Disconnect(c)
  BY <1>6 DEF Disconnect
<1> QED
  BY <1>1, <1>2, <1>3, <1>4, <1>5, <1>6 DEF ConnectionStep

(* What run does; GraceAssumption is what lets Shutdown begin. *)
LEMMA RunKeeps ==
    ASSUME LifecycleInv, TypeOK', RunStep
    PROVE  LifecycleInv'
<1> USE TimeoutsAssumption DEF LifecycleInv, TypeOK, SelectInv, Starting, Started, BudgetInv, UntrackedInv, EarlyInv, Busy, Patience, connectionVars
<1>6. CASE StartUp \/ StartFails
  BY <1>6 DEF StartUp, StartFails, Construct
<1>1. CASE ReturnError
  BY <1>1 DEF ReturnError, Selected
<1>2. CASE BeginShutdown
  BY <1>2, GraceAssumption DEF BeginShutdown, Selected
<1>3. CASE Poll
  BY <1>3 DEF Poll, LooksIdle
<1>4. CASE ShutdownTimesOut
  BY <1>4 DEF ShutdownTimesOut
<1>5. CASE CloseState \/ Exit
  BY <1>5 DEF CloseState, Exit
<1> QED
  BY <1>1, <1>2, <1>3, <1>4, <1>5, <1>6 DEF RunStep

(* Time takes from Shutdown what it adds to the age of every handler. *)
LEMMA TickKeeps ==
    ASSUME LifecycleInv, TypeOK', Tick
    PROVE  LifecycleInv'
<1> USE TimeoutsAssumption DEF LifecycleInv, TypeOK, Tick, Busy, Waiting
<1>1. SelectInv' /\ UntrackedInv'
  BY DEF SelectInv, Starting, UntrackedInv
<1>2. BudgetInv'
  BY DEF BudgetInv, Deadline
<1>3. EarlyInv'
  BY DEF EarlyInv, Patience
<1> QED
  BY <1>1, <1>2, <1>3

(* Every step keeps the account of the two clocks. *)
LEMMA LifecycleStep == LifecycleInv /\ [Next]_vars => LifecycleInv'
<1> SUFFICES ASSUME LifecycleInv, [Next]_vars PROVE LifecycleInv'
  OBVIOUS
<1>1. TypeOK'
  BY TypeStep DEF LifecycleInv
<1>2. ASSUME NEW c \in Connections, ConnectionStep(c) PROVE LifecycleInv'
  BY <1>1, <1>2, ConnectionKeeps
<1>3. CASE EnvironmentStep
  BY <1>1, <1>3
  DEF EnvironmentStep, Listen, ServeFails, Signal, Killed, Started, Starting, connectionVars,
      LifecycleInv, TypeOK, SelectInv, BudgetInv, UntrackedInv, EarlyInv, Busy, Patience
<1>4. CASE RunStep
  BY <1>1, <1>4, RunKeeps
<1>5. CASE Tick
  BY <1>1, <1>5, TickKeeps
<1>6. CASE UNCHANGED vars
  BY <1>1, <1>6
  DEF vars, processVars, connectionVars, Starting,
      LifecycleInv, SelectInv, BudgetInv, UntrackedInv, EarlyInv, Busy, Patience
<1> QED
  BY <1>2, <1>3, <1>4, <1>5, <1>6 DEF Next, ConnectionStep, EnvironmentStep

(* A handler that the close of the store meets is late: the others had their budget. *)
LEMMA LifecycleImplies == LifecycleInv => ServedBeforeClose
  BY TimeoutsAssumption
  DEF LifecycleInv, TypeOK, BudgetInv, EarlyInv, Busy, Patience, ServedBeforeClose

(***************************************************************************)
(* A handler that Shutdown found in service has done its work before the   *)
(* store is closed (run of cmd/server/main.go), for any timeouts that give *)
(* Shutdown more time than requestTimeout gives a handler.                 *)
(***************************************************************************)
THEOREM EarlyHandlersServed == Spec => []ServedBeforeClose
  BY LifecycleInit, LifecycleStep, LifecycleImplies, PTL DEF Spec

-------------------------------------------------------------------------------
(***************************************************************************)
(* The store                                                               *)
(*                                                                         *)
(* Only what is past the deferred close may end in any other way than by a *)
(* signal: StoreInv follows the store from the stage that opens it.        *)
(***************************************************************************)
StoreInv ==
    /\ main = "closed" => store # "open"
    /\ main = "exited" /\ cause # "killed" => store # "open"

(* Every step keeps track of the store. *)
LEMMA StoreStep == StoreInv /\ [Next]_vars => StoreInv'
<1> SUFFICES ASSUME StoreInv, [Next]_vars PROVE StoreInv'
  OBVIOUS
<1> USE DEF StoreInv
<1>1. ASSUME NEW c \in Connections, ConnectionStep(c) PROVE StoreInv'
  BY <1>1
  DEF ConnectionStep, Accept, HandlerBegins, BodyRead, HandlerEnds, NextRequest, Disconnect,
      Move, processVars
<1>2. CASE EnvironmentStep
  BY <1>2
  DEF EnvironmentStep, Listen, ServeFails, Signal, Killed, Started, Starting, Alive
<1>3. CASE StartUp \/ StartFails
  BY <1>3 DEF StartUp, StartFails, Construct, Starting
<1>4. CASE ReturnError \/ BeginShutdown \/ Poll \/ ShutdownTimesOut
  BY <1>4 DEF ReturnError, BeginShutdown, Selected, Poll, ShutdownTimesOut
<1>5. CASE CloseState \/ Exit
  BY <1>5 DEF CloseState, Exit
<1>6. CASE Tick
  BY <1>6 DEF Tick
<1>7. CASE UNCHANGED vars
  BY <1>7 DEF vars, processVars
<1> QED
  BY <1>1, <1>2, <1>3, <1>4, <1>5, <1>6, <1>7
  DEF Next, RunStep, ConnectionStep, EnvironmentStep

(***************************************************************************)
(* Unless a signal kills it before it serves, a process closes the store   *)
(* that it has opened, on every return of run.                             *)
(***************************************************************************)
THEOREM StoreClosed == Spec => []OpenedIsClosed
<1>1. Init => StoreInv
  BY DEF Init, StoreInv
<1>2. StoreInv => OpenedIsClosed
  BY DEF StoreInv, OpenedIsClosed
<1> QED
  BY <1>1, <1>2, StoreStep, PTL DEF Spec

-------------------------------------------------------------------------------
(***************************************************************************)
(* The start                                                               *)
(*                                                                         *)
(* Both directions rest on DocumentedPasses: an environment is as the      *)
(* operator is told, once corrected, exactly when every stage passes it.   *)
(* That the stages which are over have passed this one is StageInv.        *)
(***************************************************************************)
StageNames == {"load", "state", "token", "store", "policy", "service"}

Over(stage) ==
    CASE stage = "load" -> {}
      [] stage = "state" -> {"load"}
      [] stage = "token" -> {"load", "state"}
      [] stage = "store" -> {"load", "state", "token"}
      [] stage = "policy" -> {"load", "state", "token", "store"}
      [] stage = "service" -> {"load", "state", "token", "store", "policy"}
      [] OTHER -> {}

StageInv ==
    Starting => /\ environ \in Environments
                /\ \A s \in Over(main) : Passes(s, environ)

(* Who is told "secure", and who reads it off the name, agree. *)
LEMMA SecureIsOther ==
    ASSUME NEW e \in EnvironmentType
    PROVE  IsSecureEnvironment(e) <=> e.environment = "other"
BY DEF EnvironmentType, IsSecureEnvironment, Environment

(* Corrected touches three settings. *)
LEMMA CorrectedIs ==
    ASSUME NEW e \in EnvironmentType
    PROVE  /\ \A n \in URLs :
                 Corrected(e).url[n] =
                    IF n = "policy" /\ e.backend # "http" /\ e.url[n] \in {"http", "query"}
                    THEN "https" ELSE e.url[n]
           /\ Corrected(e).ttl = IF e.ttl \in 1 .. Second THEN Second ELSE e.ttl
           /\ Corrected(e).redisURL = IF e.store # "redis" THEN "unset" ELSE e.redisURL
           /\ Corrected(e).environment = e.environment
           /\ Corrected(e).parses = e.parses /\ Corrected(e).aal = e.aal
           /\ Corrected(e).mapped = e.mapped /\ Corrected(e).client = e.client
           /\ Corrected(e).challenge = e.challenge /\ Corrected(e).pending = e.pending
           /\ Corrected(e).redirect = e.redirect /\ Corrected(e).backend = e.backend
           /\ Corrected(e).store = e.store /\ Corrected(e).redisOptions = e.redisOptions
           /\ Corrected(e).subjectScopes = e.subjectScopes
           /\ Corrected(e).adminToken = e.adminToken /\ Corrected(e).policyToken = e.policyToken
           /\ Corrected(e).keyPrefix = e.keyPrefix
BY DEF Corrected, EnvironmentType, URLs, RequiredURLs, OptionalURLs

(* The URLs that the operator is told about are the ones Load and Validate look at, *)
(* but for a POLICY_URL that is not used.                                           *)
LEMMA URLsAgree ==
    ASSUME NEW e \in EnvironmentType
    PROVE  /\ URLsRead(e) /\ (\A n \in RequiredURLs : ValidURL(e, n)) /\ ValidPolicy(e) <=>
              /\ \A n \in URLs : Corrected(e).url[n] # "malformed"
              /\ \A n \in OptionalURLs : Corrected(e).url[n] # "query"
              /\ \A n \in RequiredURLs : Corrected(e).url[n] # "unset"
              /\ e.backend = "http" => \A n \in OptionalURLs : Corrected(e).url[n] # "unset"
              /\ e.backend # "odd"
              /\ e.environment = "other" => \A n \in URLs : Corrected(e).url[n] # "http"
<1> DEFINE U == e.url
           W == Corrected(e).url
<1>1. /\ e.backend \in {"static", "http", "odd"}
      /\ \A n \in URLs : U[n] \in {"unset", "malformed", "http", "https", "query"}
      /\ URLs = RequiredURLs \cup {"policy", "issuer"}
      /\ OptionalURLs = {"policy", "issuer"}
      /\ "policy" \notin RequiredURLs /\ "issuer" \notin RequiredURLs
  BY DEF EnvironmentType, URLs, RequiredURLs, OptionalURLs
<1>2. IsSecureEnvironment(e) <=> e.environment = "other"
  BY SecureIsOther
<1>3. /\ \A n \in RequiredURLs : W[n] = U[n]
      /\ W["issuer"] = U["issuer"]
      /\ W["policy"] = IF e.backend # "http" /\ U["policy"] \in {"http", "query"}
                       THEN "https" ELSE U["policy"]
  BY CorrectedIs, <1>1
<1>4. ValidPolicy(e) <=>
        /\ e.backend # "odd"
        /\ U["issuer"] # "unset" => ValidEndpoint(e, "issuer")
        /\ e.backend = "http" => ValidEndpoint(e, "policy") /\ ValidEndpoint(e, "issuer")
  BY <1>1 DEF ValidPolicy
<1>5. URLsRead(e) <=>
        /\ \A n \in URLs : U[n] # "malformed"
        /\ \A n \in RequiredURLs : U[n] # "unset"
  BY DEF URLsRead, URLs
<1>6. ASSUME NEW n
      PROVE  /\ ValidURL(e, n) <=> U[n] # "unset" /\ (e.environment = "other" => U[n] # "http")
             /\ ValidEndpoint(e, n) <=> ValidURL(e, n) /\ U[n] # "query"
  BY <1>2 DEF ValidURL, ValidEndpoint
<1> HIDE DEF U, W
<1>7. CASE e.backend = "http"
  BY <1>1, <1>3, <1>4, <1>5, <1>6, <1>7 DEF U, W
<1>8. CASE e.backend # "http"
  BY <1>1, <1>3, <1>4, <1>5, <1>6, <1>8 DEF U, W
<1> QED
  BY <1>7, <1>8

(* The values besides the URLs, which Validate looks at: any lifetime that is positive will do. *)
LEMMA ValuesAgree ==
    ASSUME NEW e \in EnvironmentType
    PROVE  ValidLimits(e) /\ ValidClient(e) <=>
              /\ Corrected(e).ttl \in Second .. MaxTransactionTTL
              /\ e.challenge \in 0 .. MaxChallenge
              /\ e.pending >= 0 /\ e.client
              /\ e.redirect \notin {"none", "malformed"}
              /\ e.environment = "other" => e.redirect # "http"
<1>1. e.ttl > 0 /\ e.ttl <= MaxTransactionTTL <=> Corrected(e).ttl \in Second .. MaxTransactionTTL
  BY LimitsAssumption, CorrectedIs DEF EnvironmentType
<1>2. e.challenge >= 0 /\ e.challenge <= MaxChallenge <=> e.challenge \in 0 .. MaxChallenge
  BY LimitsAssumption DEF EnvironmentType
<1>3. e.redirect \in {"none", "malformed", "http", "loopback", "https"}
  BY DEF EnvironmentType
<1> QED
  BY <1>1, <1>2, <1>3, SecureIsOther DEF ValidLimits, ValidClient

(* The settings of the store and the policy, which run looks at where they are used. *)
LEMMA BackendsAgree ==
    ASSUME NEW e \in EnvironmentType, ValidPolicy(e), \A n \in OptionalURLs : e.url[n] # "malformed"
    PROVE  /\ validateStateConfiguration(e) /\ adminTokenGiven(e)
           /\ newTransactionStore(e) /\ newPolicy(e)
           <=>
              /\ e.store # "odd"
              /\ e.backend = "static" => e.subjectScopes # "malformed"
              /\ Corrected(e).redisURL \in {"unset", "redis", "rediss"}
              /\ e.store = "redis" => Corrected(e).redisURL # "unset" /\ e.redisOptions
              /\ e.environment = "other" =>
                    /\ e.adminToken
                    /\ IF e.backend = "static" THEN e.subjectScopes # "unset" ELSE e.policyToken
                    /\ e.store = "redis" /\ Corrected(e).redisURL = "rediss" /\ e.keyPrefix
<1>1. /\ e.backend \in {"static", "http"}
      /\ e.backend = "http" => e.url["policy"] \in {"http", "https"}
  BY DEF ValidPolicy, ValidEndpoint, ValidURL, OptionalURLs, EnvironmentType
<1>2. newPolicy(e) <=>
        /\ e.backend = "static" => e.subjectScopes # "malformed"
        /\ e.environment = "other" =>
              IF e.backend = "static" THEN e.subjectScopes # "unset" ELSE e.policyToken
  BY <1>1, SecureIsOther DEF newPolicy
<1>3. /\ e.store \in {"memory", "redis", "odd"}
      /\ Corrected(e).redisURL = IF e.store # "redis" THEN "unset" ELSE e.redisURL
  BY CorrectedIs DEF EnvironmentType
<1> QED
  BY <1>2, <1>3, SecureIsOther
  DEF validateStateConfiguration, ValidateRedisURL, adminTokenGiven, newTransactionStore

(* What the document says of the corrected environment, setting by setting. *)
LEMMA DocumentedSays ==
    ASSUME NEW e \in EnvironmentType
    PROVE  Documented(Corrected(e)) <=>
              /\ \A n \in URLs : Corrected(e).url[n] # "malformed"
              /\ \A n \in OptionalURLs : Corrected(e).url[n] # "query"
              /\ \A n \in RequiredURLs : Corrected(e).url[n] # "unset"
              /\ e.backend = "http" => \A n \in OptionalURLs : Corrected(e).url[n] # "unset"
              /\ e.parses /\ e.mapped /\ e.client /\ e.aal = "supported"
              /\ Corrected(e).ttl \in Second .. MaxTransactionTTL
              /\ e.challenge \in 0 .. MaxChallenge /\ e.pending >= 0
              /\ e.redirect \notin {"none", "malformed"}
              /\ e.backend # "odd" /\ e.store # "odd"
              /\ e.backend = "static" => e.subjectScopes # "malformed"
              /\ Corrected(e).redisURL \in {"unset", "redis", "rediss"}
              /\ e.store = "redis" => Corrected(e).redisURL # "unset" /\ e.redisOptions
              /\ e.environment = "other" =>
                    /\ \A n \in URLs : Corrected(e).url[n] # "http"
                    /\ e.redirect # "http"
                    /\ e.adminToken
                    /\ IF e.backend = "static" THEN e.subjectScopes # "unset" ELSE e.policyToken
                    /\ e.store = "redis" /\ Corrected(e).redisURL = "rediss" /\ e.keyPrefix
<1> DEFINE c == Corrected(e)
<1>1. /\ c.environment = e.environment /\ c.parses = e.parses /\ c.mapped = e.mapped
      /\ c.client = e.client /\ c.aal = e.aal /\ c.challenge = e.challenge /\ c.pending = e.pending
      /\ c.redirect = e.redirect /\ c.backend = e.backend /\ c.store = e.store
      /\ c.subjectScopes = e.subjectScopes /\ c.redisOptions = e.redisOptions
      /\ c.adminToken = e.adminToken /\ c.policyToken = e.policyToken /\ c.keyPrefix = e.keyPrefix
  BY CorrectedIs
<1> HIDE DEF c
<1>2. c = Corrected(e)
  BY DEF c
<1> QED
  BY <1>1, <1>2 DEF Documented, Sound, Protected

(* A corrected environment is as documented exactly when every stage passes the given one. *)
LEMMA DocumentedPasses ==
    ASSUME NEW e \in EnvironmentType
    PROVE  Documented(Corrected(e)) <=> \A s \in StageNames : Passes(s, e)
<1>1. (\A s \in StageNames : Passes(s, e)) <=>
        /\ Load(e)
        /\ validateStateConfiguration(e) /\ adminTokenGiven(e)
        /\ newTransactionStore(e) /\ newPolicy(e)
  BY DEF StageNames, Passes, Load
<1>2. /\ e.aal \in {"supported", "odd"}
      /\ URLsRead(e) => \A n \in OptionalURLs : e.url[n] # "malformed"
  BY DEF EnvironmentType, URLsRead
<1>3. CASE Documented(Corrected(e))
  <2>1. Load(e)
    BY <1>3, DocumentedSays, URLsAgree, ValuesAgree DEF Load, Validate
  <2>2. /\ validateStateConfiguration(e) /\ adminTokenGiven(e)
        /\ newTransactionStore(e) /\ newPolicy(e)
    BY <1>2, <1>3, <2>1, DocumentedSays, BackendsAgree DEF Load, Validate
  <2> QED
    BY <1>1, <1>3, <2>1, <2>2
<1>4. ASSUME \A s \in StageNames : Passes(s, e) PROVE Documented(Corrected(e))
  <2>1. /\ Load(e) /\ URLsRead(e) /\ ValidPolicy(e) /\ Validate(e)
        /\ validateStateConfiguration(e) /\ adminTokenGiven(e)
        /\ newTransactionStore(e) /\ newPolicy(e)
    BY <1>1, <1>4 DEF Load, Validate
  <2> QED
    BY <1>2, <2>1, DocumentedSays, URLsAgree, ValuesAgree, BackendsAgree DEF Load, Validate
<1> QED
  BY <1>3, <1>4

(* An environment that is as documented still is when corrected. *)
LEMMA CorrectedStays ==
    ASSUME NEW e \in EnvironmentType, Documented(e)
    PROVE  Documented(Corrected(e))
<1>1. /\ e.redisURL \in {"unset", "redis", "rediss"} /\ e.ttl \in Second .. MaxTransactionTTL
      /\ e.environment = "other" => e.store = "redis"
  BY DEF Documented, Sound, Protected, OptionalURLs
<1>2. /\ Corrected(e).ttl = e.ttl
      /\ Corrected(e).redisURL = IF e.store # "redis" THEN "unset" ELSE e.redisURL
  BY <1>1, CorrectedIs, LimitsAssumption
<1>3. \A n \in URLs : Corrected(e).url[n] \in {e.url[n], "https"}
  BY CorrectedIs DEF URLs, RequiredURLs, OptionalURLs
<1> QED
  BY <1>1, <1>2, <1>3, DocumentedSays
  DEF Documented, Sound, Protected, URLs

(* A process begins with nothing checked. *)
LEMMA StageInit == Init => StageInv
BY DEF Init, StageInv, Over

(* What happens to the process while it starts: it goes on, fails, or is killed. *)
LEMMA StartingSteps ==
    ASSUME [Next]_vars, Starting
    PROVE  \/ StartUp \/ StartFails
           \/ main' = "exited"
           \/ UNCHANGED <<main, environ>>
<1>1. ASSUME NEW c \in Connections, ConnectionStep(c) PROVE UNCHANGED <<main, environ>>
  BY <1>1
  DEF ConnectionStep, Accept, HandlerBegins, BodyRead, HandlerEnds, NextRequest, Disconnect,
      Move, processVars
<1>2. ASSUME EnvironmentStep PROVE main' = "exited" \/ UNCHANGED <<main, environ>>
  BY <1>2 DEF EnvironmentStep, Listen, ServeFails, Signal, Killed
<1>3. ~(ReturnError \/ BeginShutdown \/ Poll \/ ShutdownTimesOut \/ CloseState \/ Exit)
  BY DEF Starting, ReturnError, BeginShutdown, Selected, Poll, ShutdownTimesOut, CloseState, Exit
<1>4. ASSUME Tick PROVE UNCHANGED <<main, environ>>
  BY <1>4 DEF Tick
<1>5. ASSUME UNCHANGED vars PROVE UNCHANGED <<main, environ>>
  BY <1>5 DEF vars, processVars
<1> QED
  BY <1>1, <1>2, <1>3, <1>4, <1>5 DEF Next, RunStep, ConnectionStep, EnvironmentStep

(* No other step goes back to the start. *)
LEMMA NoneStartsAgain ==
    ASSUME [Next]_vars, ~Starting
    PROVE  ~Starting'
<1> USE DEF Starting
<1>1. ASSUME NEW c \in Connections, ConnectionStep(c) PROVE ~Starting'
  BY <1>1
  DEF ConnectionStep, Accept, HandlerBegins, BodyRead, HandlerEnds, NextRequest, Disconnect,
      Move, processVars
<1>2. CASE EnvironmentStep
  BY <1>2 DEF EnvironmentStep, Listen, ServeFails, Signal, Killed
<1>3. CASE RunStep
  BY <1>3
  DEF RunStep, StartUp, Construct, StartFails, ReturnError, BeginShutdown, Selected, Poll,
      ShutdownTimesOut, CloseState, Exit
<1>4. CASE Tick \/ UNCHANGED vars
  BY <1>4 DEF Tick, vars, processVars
<1> QED
  BY <1>1, <1>2, <1>3, <1>4 DEF Next, ConnectionStep, EnvironmentStep

(* A stage is over when it has passed the environment. *)
LEMMA StageStep == StageInv /\ [Next]_vars => StageInv'
<1> SUFFICES ASSUME StageInv, [Next]_vars, Starting' PROVE StageInv'
  BY DEF StageInv
<1>1. Starting
  BY NoneStartsAgain
<1>2. environ \in Environments /\ \A s \in Over(main) : Passes(s, environ)
  BY <1>1 DEF StageInv
<1>3. ASSUME NEW stage \in StageNames, NEW next \in StageNames \cup {"select"},
             Construct(stage, next), Over(next) = Over(stage) \cup {stage} \/ next = "select"
      PROVE  StageInv'
  <2>1. next # "select" /\ main = stage /\ main' = next /\ environ' = environ /\ Passes(stage, environ)
    BY <1>3 DEF Construct, Starting
  <2>2. \A s \in Over(main') : Passes(s, environ)
    BY <1>2, <1>3, <2>1
  <2>3. \A s : Passes(s, environ)' <=> Passes(s, environ)
    BY <2>1
  <2> QED
    BY <1>2, <2>1, <2>2 DEF StageInv
<1>4. CASE StartUp
  <2>1. /\ Over("state") = Over("load") \cup {"load"}
        /\ Over("token") = Over("state") \cup {"state"}
        /\ Over("store") = Over("token") \cup {"token"}
        /\ Over("policy") = Over("store") \cup {"store"}
        /\ Over("service") = Over("policy") \cup {"policy"}
    BY DEF Over
  <2> QED
    BY <1>3, <1>4, <2>1 DEF StartUp, StageNames
<1>5. CASE StartFails
  BY <1>5 DEF StartFails, Starting
<1>6. CASE main' = "exited"
  BY <1>6 DEF Starting
<1>7. CASE UNCHANGED <<main, environ>>
  BY <1>2, <1>7 DEF StageInv
<1> QED
  BY <1>1, <1>4, <1>5, <1>6, <1>7, StartingSteps

(* A step that leaves the start does so for the environment it was given. *)
LEMMA StartJudged ==
    ASSUME StageInv, [Next]_vars, Starting
    PROVE  /\ main' = "select" => Documented(Corrected(environ))
           /\ main' = "returning" => ~Documented(environ) /\ ~Documented(Corrected(environ))
<1>1. environ \in Environments /\ \A s \in Over(main) : Passes(s, environ)
  BY DEF StageInv
<1>2. /\ Documented(Corrected(environ)) <=> \A s \in StageNames : Passes(s, environ)
      /\ Documented(environ) => Documented(Corrected(environ))
  BY <1>1, EnvironmentsAssumption, DocumentedPasses, CorrectedStays
<1>3. CASE StartUp
  <2>1. main' # "returning"
    BY <1>3 DEF StartUp, Construct
  <2>2. ASSUME main' = "select" PROVE \A s \in StageNames : Passes(s, environ)
    <3>1. main = "service" /\ Passes("service", environ)
      BY <1>3, <2>2 DEF StartUp, Construct
    <3>2. StageNames = Over("service") \cup {"service"}
      BY DEF StageNames, Over
    <3> QED
      BY <1>1, <3>1, <3>2
  <2> QED
    BY <1>2, <2>1, <2>2
<1>4. CASE StartFails
  BY <1>2, <1>4 DEF StartFails, Starting, StageNames
<1>5. CASE main' = "exited" \/ UNCHANGED <<main, environ>>
  BY <1>5 DEF Starting
<1> QED
  BY <1>3, <1>4, <1>5, StartingSteps

(***************************************************************************)
(* Whatever environments there are, a process serves in those that         *)
(* docs/configuration.md describes and returns an error in the others, but *)
(* for three rules that nothing enforces (Corrected): Load, Validate, the  *)
(* checks of run and the constructors together say the rest of what the    *)
(* document says.                                                          *)
(***************************************************************************)
THEOREM StartMeetsDocument == Spec => StartsAsDocumented
<1>1. StageInv /\ [Next]_vars =>
        [ /\ Starting /\ main' = "select" => Documented(Corrected(environ))
          /\ Starting /\ main' = "returning" =>
                 ~Documented(environ) /\ ~Documented(Corrected(environ)) ]_vars
  BY StartJudged
<1> QED
  BY <1>1, StageInit, StageStep, PTL DEF Spec, StartsAsDocumented

===============================================================================

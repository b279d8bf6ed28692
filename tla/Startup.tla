-------------------------------- MODULE Startup --------------------------------
(***************************************************************************)
(* What a provider process reads before it serves, and who refuses what:   *)
(* Load of internal/config, Validate of the core configuration, and the    *)
(* checks and constructors that run of cmd/server/main.go calls in turn.   *)
(* ServerLifecycle takes these checks one step at a time.                  *)
(*                                                                         *)
(* An environment is a record of what the checks tell apart in the         *)
(* variables of the process.  A URL is unset, malformed (also: another     *)
(* scheme, credentials, a fragment), "http" or "https", or "query": https  *)
(* and with a query.  Durations are in parts of a second.                  *)
(***************************************************************************)
EXTENDS Integers, Sequences

CONSTANTS
    Environments,       \* the environments a process may be started in
    Second,             \* the parts of a second
    MaxTransactionTTL,  \* 15 minutes
    MaxChallenge        \* MaxChallengeLengthLimit: 4096

RequiredURLs == {"provider", "ui", "hydraAdmin", "hydraPublic", "kratos"}
OptionalURLs == {"policy", "issuer"}

EnvironmentType ==
    [environment : {"unset", "development", "test", "other"},
     url : [RequiredURLs \cup OptionalURLs -> {"unset", "malformed", "http", "https", "query"}],
     parses : BOOLEAN,      \* the numbers, the duration and the JSON values
     aal : {"supported", "odd"},
     ttl : Int, pending : Int, challenge : Int,
     mapped : BOOLEAN,      \* claim mappings and ACR levels are valid
     redirect : {"none", "malformed", "http", "loopback", "https"},
     client : BOOLEAN,      \* ids, audiences and claim allowlists of the clients are valid
     backend : {"static", "http", "odd"},
     subjectScopes : {"unset", "malformed", "rules"},
     adminToken : BOOLEAN, policyToken : BOOLEAN,
     store : {"memory", "redis", "odd"},
     redisURL : {"unset", "odd", "redis", "rediss", "unverified"},
     redisOptions : BOOLEAN, \* the client library can read the URL
     keyPrefix : BOOLEAN]

ASSUME LimitsAssumption ==
    MaxTransactionTTL \in Nat /\ Second \in 1 .. MaxTransactionTTL /\ MaxChallenge \in Nat

ASSUME EnvironmentsAssumption == Environments \subseteq EnvironmentType

-------------------------------------------------------------------------------
(* config.Load and Config.Validate *)

(* An environment without a name is a development environment. *)
Environment(e) == IF e.environment = "unset" THEN "development" ELSE e.environment

(* Everything that is not called development or test is secure. *)
IsSecureEnvironment(e) == Environment(e) \notin {"development", "test"}

(* requiredURL and optionalURL, before any of them is validated. *)
URLsRead(e) ==
    /\ \A n \in RequiredURLs : e.url[n] \notin {"unset", "malformed"}
    /\ \A n \in OptionalURLs : e.url[n] # "malformed"

ValidURL(e, n) ==
    /\ e.url[n] # "unset"
    /\ IsSecureEnvironment(e) => e.url[n] # "http"

ValidEndpoint(e, n) == ValidURL(e, n) /\ e.url[n] # "query"

ValidPolicy(e) ==
    /\ e.backend \in {"static", "http"}
    /\ e.url["issuer"] # "unset" => ValidEndpoint(e, "issuer")
    /\ e.backend = "http" => \A n \in OptionalURLs : ValidEndpoint(e, n)

(* A client may be redirected in clear on its own machine only. *)
ValidClient(e) ==
    /\ e.redirect \in {"http", "loopback", "https"}
    /\ IsSecureEnvironment(e) => e.redirect # "http"
    /\ e.client

ValidLimits(e) ==
    /\ e.ttl > 0 /\ e.ttl <= MaxTransactionTTL
    /\ e.pending >= 0
    /\ e.challenge >= 0 /\ e.challenge <= MaxChallenge

Validate(e) ==
    /\ \A n \in RequiredURLs : ValidURL(e, n)
    /\ e.aal = "supported"
    /\ ValidLimits(e)
    /\ e.mapped
    /\ ValidPolicy(e)
    /\ ValidClient(e)

Load(e) == URLsRead(e) /\ e.parses /\ Validate(e)

-------------------------------------------------------------------------------
(* The checks and constructors of run *)

ValidateRedisURL(e, requireTLS) ==
    /\ e.redisURL \in {"redis", "rediss"}
    /\ requireTLS => e.redisURL = "rediss"

validateStateConfiguration(e) ==
    /\ e.store \in {"memory", "redis"}
    /\ e.store = "memory" => ~IsSecureEnvironment(e)
    /\ e.store = "redis" =>
        /\ ValidateRedisURL(e, IsSecureEnvironment(e))
        /\ IsSecureEnvironment(e) => e.keyPrefix

adminTokenGiven(e) == IsSecureEnvironment(e) => e.adminToken

newTransactionStore(e) == e.store = "redis" => ValidateRedisURL(e, FALSE) /\ e.redisOptions

(* MUTANT of newPolicy: the subject rules are read whatever the policy is. *)
newPolicy_RulesFirst(e) ==
    /\ e.subjectScopes # "malformed"
    /\ IsSecureEnvironment(e) /\ e.backend = "static" => e.subjectScopes # "unset"
    /\ e.backend = "http" =>
        /\ IsSecureEnvironment(e) => e.policyToken
        /\ e.url["policy"] \in {"http", "https"}

(* Only the settings of the policy in use are read. *)
newPolicy(e) ==
    CASE e.backend = "static" ->
            /\ e.subjectScopes # "malformed"
            /\ IsSecureEnvironment(e) => e.subjectScopes # "unset"
      [] e.backend = "http" ->
            /\ IsSecureEnvironment(e) => e.policyToken
            /\ e.url["policy"] \in {"http", "https"}
      [] OTHER -> FALSE

(***************************************************************************)
(* What run does before it serves, in order.  The clients of Hydra and     *)
(* Kratos are created after the admin token is checked, from URLs that     *)
(* Load has read; NewService and New of the HTTP server validate the       *)
(* configuration once more.                                                *)
(***************************************************************************)
Stages == <<"load", "state", "token", "store", "policy", "service">>

Passes(stage, e) ==
    CASE stage = "load" -> Load(e)
      [] stage = "state" -> validateStateConfiguration(e)
      [] stage = "token" -> adminTokenGiven(e)
      [] stage = "store" -> newTransactionStore(e)
      [] stage = "policy" -> newPolicy(e)
      [] stage = "service" -> Validate(e)

-------------------------------------------------------------------------------
(***************************************************************************)
(* What an operator is told: the rows of docs/configuration.md, as they    *)
(* are written there, whoever checks them and whether or not the program   *)
(* uses the setting.                                                       *)
(***************************************************************************)
URLs == RequiredURLs \cup OptionalURLs

(* In every environment, what is set must make sense. *)
Sound(e) ==
    /\ \A n \in URLs : e.url[n] # "malformed"
    /\ \A n \in OptionalURLs : e.url[n] # "query"
    /\ \A n \in RequiredURLs : e.url[n] # "unset"
    /\ e.backend = "http" => \A n \in OptionalURLs : e.url[n] # "unset"
    /\ e.parses /\ e.mapped /\ e.client /\ e.aal = "supported"
    /\ e.ttl \in Second .. MaxTransactionTTL
    /\ e.challenge \in 0 .. MaxChallenge /\ e.pending >= 0
    /\ e.redirect \notin {"none", "malformed"}
    /\ e.backend # "odd" /\ e.store # "odd"
    /\ e.backend = "static" => e.subjectScopes # "malformed"
    /\ e.redisURL \in {"unset", "redis", "rediss"}
    /\ e.store = "redis" => e.redisURL # "unset" /\ e.redisOptions

(* Outside development and test nothing crosses a network in clear, no check *)
(* is left to a default, and nothing is lost with the process.              *)
Protected(e) ==
    /\ \A n \in URLs : e.url[n] # "http"
    /\ e.redirect # "http"
    /\ e.adminToken
    /\ IF e.backend = "static" THEN e.subjectScopes # "unset" ELSE e.policyToken
    /\ e.store = "redis" /\ e.redisURL = "rediss" /\ e.keyPrefix

Documented(e) == Sound(e) /\ (e.environment = "other" => Protected(e))

(***************************************************************************)
(* Three rules of the document are checked nowhere.  This is e with what   *)
(* they are about put right, and nothing else:                             *)
(*   - "Secure environments require HTTPS for configured provider, UI,     *)
(*     Hydra, Kratos, and policy URLs" (14-15) and, of POLICY_URL, "It     *)
(*     must have no URL credentials, query, or fragment" (43): Validate    *)
(*     looks at a POLICY_URL for the http backend only;                    *)
(*   - "It must be at least 1s" (34), of TRANSACTION_TTL: Validate takes   *)
(*     every positive one;                                                 *)
(*   - "It must use redis:// or rediss://" (48), of REDIS_URL: run looks   *)
(*     at it for the Redis store only.                                     *)
(***************************************************************************)
Corrected(e) ==
    [e EXCEPT
        !.url["policy"] = IF e.backend # "http" /\ @ \in {"http", "query"} THEN "https" ELSE @,
        !.ttl = IF @ \in 1 .. Second THEN Second ELSE @,
        !.redisURL = IF e.store # "redis" THEN "unset" ELSE @]

===============================================================================

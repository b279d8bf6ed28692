---------------------------- MODULE MCServerLifecycle ----------------------------
(* Instances of ServerLifecycle for TLC. *)
EXTENDS ServerLifecycle

(* The timeouts of the program, in ticks of three seconds, rounded up. *)
Ticks(seconds) == (seconds + 2) \div 3

MCGrace == Ticks(15)
MCBudget == Ticks(12)
MCHeaderTime == Ticks(5)
MCReadTime == Ticks(15)

(* Half seconds, for lifetimes around the second and the most there may be. *)
MCSecond == 2
MCMaxTransactionTTL == 4
MCMaxChallenge == 2

(* A deployment with the remote policy, and one with the static policy. *)
Production ==
    [environment |-> "other", url |-> [n \in RequiredURLs \cup OptionalURLs |-> "https"],
     parses |-> TRUE, aal |-> "supported", ttl |-> 3, pending |-> 0, challenge |-> 0,
     mapped |-> TRUE, redirect |-> "https", client |-> TRUE, backend |-> "http",
     subjectScopes |-> "unset", adminToken |-> TRUE, policyToken |-> TRUE,
     store |-> "redis", redisURL |-> "rediss", redisOptions |-> TRUE, keyPrefix |-> TRUE]

Static ==
    [Production EXCEPT !.backend = "static", !.subjectScopes = "rules", !.policyToken = FALSE,
                       !.url["policy"] = "unset", !.url["issuer"] = "unset"]

(* A laptop: everything in clear, and nothing set that has a default. *)
Development ==
    [Static EXCEPT !.environment = "unset", !.url = [n \in RequiredURLs \cup OptionalURLs |->
                                     IF n \in RequiredURLs THEN "http" ELSE "unset"],
                   !.redirect = "http", !.adminToken = FALSE, !.subjectScopes = "unset",
                   !.store = "memory", !.redisURL = "unset", !.keyPrefix = FALSE]

(* The environments that differ from e in one setting. *)
Changes(e) ==
    {[e EXCEPT !.environment = v] : v \in {"unset", "development", "test", "other"}}
    \cup {[e EXCEPT !.url[n] = v] : n \in RequiredURLs \cup OptionalURLs,
                                    v \in {"unset", "malformed", "http", "https", "query"}}
    \cup {[e EXCEPT !.parses = v] : v \in BOOLEAN}
    \cup {[e EXCEPT !.aal = v] : v \in {"supported", "odd"}}
    \cup {[e EXCEPT !.ttl = v] : v \in -1 .. 5}
    \cup {[e EXCEPT !.pending = v] : v \in -1 .. 1}
    \cup {[e EXCEPT !.challenge = v] : v \in -1 .. 3}
    \cup {[e EXCEPT !.mapped = v] : v \in BOOLEAN}
    \cup {[e EXCEPT !.redirect = v] : v \in {"none", "malformed", "http", "loopback", "https"}}
    \cup {[e EXCEPT !.client = v] : v \in BOOLEAN}
    \cup {[e EXCEPT !.backend = v] : v \in {"static", "http", "odd"}}
    \cup {[e EXCEPT !.subjectScopes = v] : v \in {"unset", "malformed", "rules"}}
    \cup {[e EXCEPT !.adminToken = v] : v \in BOOLEAN}
    \cup {[e EXCEPT !.policyToken = v] : v \in BOOLEAN}
    \cup {[e EXCEPT !.store = v] : v \in {"memory", "redis", "odd"}}
    \cup {[e EXCEPT !.redisURL = v] : v \in {"unset", "odd", "redis", "rediss", "unverified"}}
    \cup {[e EXCEPT !.redisOptions = v] : v \in BOOLEAN}
    \cup {[e EXCEPT !.keyPrefix = v] : v \in BOOLEAN}

(* Every two changes to three deployments. *)
MCEnvironments ==
    UNION {UNION {Changes(d) : d \in Changes(e)} : e \in {Production, Static, Development}}

===============================================================================

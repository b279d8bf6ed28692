# A formal model of hydra-kratos-login-consent

This directory models the provider in TLA+: the HTTP service between Ory Hydra
(the OAuth server), Ory Kratos (the sessions), an authorization policy and a
browser. TLC checks the modules on small instances; TLAPS proves every property of
the passing runs but three liveness properties for every value of the constants
(section 4).

## 1. Inventory: the system and its hard parts

| Component | State it keeps | Operations | Makes it correct |
|---|---|---|---|
| Quota of pending transactions (`transactionAdmission`, `service.go`) | `reserved`, `active`: a map of handles to expiries; per process, behind a mutex | `reserve`, `commit`, `cancel`, `release` | never over the limit; a live transaction keeps its slot; dead ones never keep browsers out |
| In-memory store (`state/memory.go`) | a map behind an RW mutex | `Create`, `Get`, `Consume` | consumed at most once, before expiry; never over its capacity |
| Redis store (`state/redis.go`) | keys with a TTL on the server | `Create` (`SET NX PX`), `Get`, `Consume` (a script) | the same to the millisecond, over a client that resends commands |
| Login flow (`StartLogin`, `CompleteLogin`) | none of its own | Hydra get/accept/reject, Kratos, policy, store | one decision per transaction; accepted logins have the subject, the level and the age that were asked for |
| Consent flow (`StartConsent`, `CompleteConsent`) | none | the same | one grant per transaction; grants within request, form and policy |
| Logout flow (`StartLogout`, `CompleteLogout`) | none | Hydra accept, store | one acceptance per handoff |
| Policy adapters (`policy/static.go`, `policy/http.go`) | configuration | `AuthorizeLogin`, `AuthorizeConsent` | a grant only shrinks on its way, and the policy has the last word |
| Claims (`identity/claims.go`, `filterClaims`) | configuration | mapping, filtering, `email_verified` | only claims of the right source, allowed and covered by scopes, reach a token |
| Request admission (`server.go`) | token bucket, semaphore | `allow`, in-flight slots | bounded rate; refusals only when spent; no slot leaks |
| Browser state (`server.go`, `startBrowserState`) | a cookie per flow and browser | set on start, compared on completion | only the browser that started a transaction completes it; tabs coexist |
| Routes and errors (`server.go`, `statusForError`, `rejectLoginFailure`) | the budget of a request | eight routes, the calls they lead to | an outage is not reported as a denial; one outage leaves time to answer Hydra; a refused browser was not let in |
| HTTP adapters of Hydra and Kratos | none | one call each, with a timeout | failures keep their class |
| Configuration and startup (`config.go`, `internal/config`, `main.go`) | what `Load` has read | `Load`, `Validate`, `validateStateConfiguration`, constructors | the process serves in the environments the documentation describes, and in no others |
| Process lifecycle (`main.go`) | signal context, server, store | start, shutdown, close | a store that was opened is closed; handlers end before it is; a signal ends the process |
| ACR mapping (`ResolveACR`) and hints for the UI | configuration | pure functions | a session reaches the level of the acr it is given; a browser that does what the UI is told can be accepted |
| Sample UI (`realstack/ui`) | none | hints to a Kratos flow | does what the hints ask for |

How they interact. A start request asks Hydra what a challenge is about. Either
the challenge is decided at once, or a transaction is created (a slot of the
quota is reserved, the store takes the transaction, the slot is committed) and
the browser leaves for the UI with the handle. A completion request loads the
transaction, asks Kratos and the policy, consumes the transaction and sends
Hydra one decision. Requests run concurrently; stores may be shared by
replicas; every call runs under a 12 second budget.

What is hard here: clock readings taken before a lock and used under it; two
completions of one handle; expiry between load and consume; a lost Redis reply
and the client's retry; a process that dies between two calls; the order
"consume, then ask, then decide" of the login flow, in which a failure after
the consumption leaves the browser nothing to retry; a chain of calls that each
take almost as long as the request may; four places that each check a part of
the configuration. `PROJECT.json` lists each
hazard at its line, with the properties that would catch it going wrong.

## 2. Modules

| Module | Models | Source |
|---|---|---|
| `TransactionAdmission` | the operations of the quota, each one step under its mutex | `service.go` 995-1059 |
| `PendingTransactions` | `createTransaction`, `load`, `consume`: one step per clock reading, lock and store call, with restarts | `service.go` 438-490 |
| `TransactionStore` | abstract: what the port promises | `ports.go` 127-132 |
| `MemoryStore`, `RedisStore` | the two stores, which implement `TransactionStore` | `memory.go`, `redis.go` |
| `ProviderCore` | what the flows share: store, Hydra's log of decisions, requests, crashes | `service.go` |
| `LoginFlow`, `ConsentFlow`, `LogoutFlow` | the handlers of one flow each | `service.go` 98-426, 511-562, 754-788 |
| `Provider` | their interleaving and the properties | |
| `ConsentGrant` | scopes and audiences from Hydra through the form and either policy back to Hydra, list by list, with restarts under another configuration | `service.go` 251-370, 511-562, 805-852, `policy/` |
| `ConsentClaims` | extends `ConsentGrant` with the claims of the granted consent: startup checks, mapping, filters, verified emails, Hydra's limits | `claims.go`, `service.go` 571-638, 854-910 |
| `Handlers` | one request at any route from the first check to the status of its answer: the calls in order, what fails, what is left of the budget, how errors are classified | `server.go`, `service.go`, the outbound adapters |
| `RequestGate` | the token bucket, its clock read before its lock, and the in-flight slots | `server.go` 326-376 |
| `BrowserBinding` | the browser-state cookies of browsers with overlapping tabs | `server.go` 468-506, `service.go` 942-986 |
| `Startup` | the environment a process is started with, and every check of it | `internal/config`, `core/config/config.go`, `main.go` 126-260 |
| `ServerLifecycle` | extends `Startup`: checks and constructors one by one, signal or kill, serve error, graceful shutdown, the close of the store and the exit, around the connections | `main.go` 28-124 |
| `*Proofs` | the theorems about the module of that name; `ConsentProofs` about `ConsentGrant` and `ConsentClaims`, `InboundProofs` about `RequestGate` and `BrowserBinding` | |
| `MC*` | instances for TLC | |

How they fit together. `PendingTransactions` extends `TransactionAdmission` and
puts a store of its own beside the quota, with the failures of either kind.
`MemoryStore` and `RedisStore` are shown to implement `TransactionStore`, and
`ProviderCore` uses `TransactionStore` as its store, so that the flows are
checked over what both stores keep. The quota is left out of the flows: a
refused start changes nothing else. `ConsentGrant` and `ConsentClaims` refine
the data that `ConsentFlow` abstracts to sets; one specification, `DecisionSpec`,
takes a consent from Hydra's request to the tokens. `Handlers` refines the time
and the errors of one handler, where `Provider` has the races of several.
`RequestGate`, `BrowserBinding` and `ServerLifecycle` stand around the service.

Correspondence. In `PendingTransactions` a request's `pc` names the point in
`createTransaction`, `load` or `consume` it has reached; `reserved` and `active`
are the fields of the quota, `store` the entries of the store, and `origin` is
history (who knows of a handle). In the stores, `readAt`, `expiresAt`, `ttl`,
`key` and `tries` are the locals of a call. A check of
an expiry that the code makes twice in a row, with two clock readings, is one step
with the later reading. In `RedisStore` a tick is a part of a millisecond: a
lifetime in nanoseconds goes to the client, which sends its whole milliseconds
(`Milliseconds`, `PX` or `EX`), and the server counts them from the last time it
looked at its clock. In `ProviderCore` a handler takes
one step per call that it awaits; `request` is what Hydra holds for a challenge,
`decisions` the accept and reject calls Hydra received, and `undecided` the
handles whose decision was lost on the way (history). In `RequestGate` the
bucket is counted in the time it takes to refill, so that parts of a token are
integers; `window` is history, an observer that starts to count at any moment.
In `ServerLifecycle` a connection's `phase` and `age` stand for what net/http
knows of it, and `left` for the deadline of the shutdown context; `main` before
`select` names the check of `run` that comes next, and the environment is
forgotten after the last one. In `Handlers`, `pc` names the next call, `left` is
the deadline of the request's context, `troubled` the services that may be slow
or fail, `public` and `verdict` the arguments of `rejectLoginFailure` and its
kind. `Documented` of `Startup` is written from the rows of
`docs/configuration.md`, the checks from the code; `Corrected` names where they
differ.

## 3. Runs

| Run | Question | Instance |
|---|---|---|
| `quota` | does the quota hold, and do slots neither leak nor vanish, over either store? | 3 requests, 3 handles, limit 1, TTL 1, clock to 2; which store is fixed by the initial state |
| `memory_store` | does `MemoryStore` implement the port within its capacity? | 2 callers, 3 handles, capacity 2, clock to 3 |
| `redis_store` | does `RedisStore`, with retries? | 2 callers, 2 handles, 1 retry (as configured), 2 ticks to the millisecond, lifetimes of 3 and 4 ticks, clock to 3 |
| `login` | which logins are accepted, on what evidence? | 2 handlers, 1 challenge, 13 kinds of request, one of them for level 3, sessions of levels 0 to 2, 2 handles, 2 ticks to the second |
| `flows` | how often does a transaction decide, what is granted, is a consumed one answered? | 2 handlers, 1 handle, a challenge of each flow, 4 kinds of consent, on Redis |
| `consent_reuse` | expected violation: is a consent transaction single-use? | 2 handlers, 1 challenge, 1 handle |
| `consent` | what becomes of scopes and audiences, and which claims reach the tokens? | lists of up to 2 over 2 scopes, 1 audience and a blank; 7 configurations; 6 claim names, 7 values, 7 allowlists with mappings, 20 sessions, 64 claim replies |
| `claims_mapped` | expected violation: is `email_verified` only emitted when mapped? | the same |
| `gate` | what does the limiter let through or refuse, do slots leak, does a full server reopen? | 3 requests, 2 slots, 2 ticks to the token, clock to 4 |
| `browsers` | who can complete what, in which tab? | 2 browsers, 2 flows, 2 starts at a time, 3 transactions |
| `lifecycle` | where does a process start, what does it close, whom does a shutdown cut short, and does it come to an end? | 6192 environments: every two changes to three deployments, lifetimes in half seconds; 2 connections, the timeouts of the program in ticks of 3 seconds |
| `handlers` | what is Hydra and the browser told when services are slow or fail, and is there time to tell it? | 8 routes, every set of troubled services, the program's 12 seconds and 10 seconds |

Why the bounds are enough. Two actors are needed for every race listed as a
hazard and a third one for a slot that two others fight over while it is swept;
a limit of 1 or 2 is reached with that many; a clock of `TTL + 1` ticks lets a
transaction expire with a step before and after it (in `redis_store` the clock
reaches the end of the shorter lifetime, whose last half millisecond is cut); one retry is what the client
is configured with. Requests and handles are interchangeable, so the runs
without liveness properties use symmetry; the others do not. Bounds that only
keep the state space finite: `MaxTime` on the clocks, the sets of handles, which
stand for the random draws a run may make, and `MaxDecisions`, which stops new
requests once Hydra has received that many decisions for a challenge. Two changes
to an environment suffice to meet a check that one setting switches on and
another one then fails. Deadlock is not checked in `consent` and
`claims_mapped`, where a consent ends, in `handlers`, where a request is
answered, and in `lifecycle`, where the process ends.

Type invariants, and the equalities that the quota, the gate and the map of the
in-memory store keep (`ReservationsAreCreates`, `SlotsMatchRequests`,
`CapacityBound`), are no properties of a run: they are theorems.

Fairness. `flows` assumes weak fairness of the steps of a request that has
begun: every call a handler awaits is bounded by the request's context
(`requestTimeout`) and by the timeouts of the clients, so each step ends, in
success or in failure. `gate` assumes that the limiter's mutex does not starve a
request and that handlers end (`requestTimeout` again); time need not pass.
`lifecycle` assumes that the main goroutine runs, that time passes, and that
timeouts end handlers and silent connections. No fairness is assumed of browsers
and clients, or of the outcome of a call.

What the runs show.

- One transaction, one decision: however completions race, Hydra gets one
  decision from a login or logout and one grant from a consent, and none from a
  transaction that was not consumed live (`OneDecisionPerTransaction`,
  `AcceptsAreConsumed`). A consumed transaction is answered unless the call to
  Hydra fails or the process dies (`ConsumedIsAnswered`).
- With Redis, the price of retries is a lost transaction or a spurious replay,
  never a second use (`ImplementsPort`, `ReplayIsTruthful`). `Create` hands over
  a lifetime in nanoseconds, of which whole milliseconds arrive: a key may run out
  before `ExpiresAt`, but by less than a millisecond (`TTLCoversExpiry`). The port
  allows for that (`Early`), and asks it of `MemoryStore` to the tick.
- A late clock reading lets the limiter serve a request out of the past, which
  costs each window at most one token per late request (`WindowBound`).
- A browser that does what the UI is told has done enough: when it comes back from
  the Kratos flow that the hints lead to, as the subject Hydra expects and within
  `max_age`, `CompleteLogin` accepts its session (`HandoffSuffices`). The checks
  come after the transaction is consumed, so a hint that asks for too little would
  cost the browser its login. To `aal3` the sample UI answers 400: for such a
  request there is no flow to come back from, and nothing is claimed.
- A login is accepted without a transaction on the word of Hydra alone, where no
  prompt and no level asks for more, and never beside a browser in the UI
  (`SilentLoginsOnHydrasWord`). `max_age` does not enter into that.
- Whatever is slow or fails, Hydra hears `temporarily_unavailable` or nothing when
  Kratos or the policy could not be asked (`OutageIsReported`). Two calls of 10
  seconds do not fit into 12, so two outages can strand a login; one cannot, unless
  a browser takes 2 seconds or more for its form (`OneOutageIsAnswered`).
  UserInfo claims always leave a consumed consent unanswered. A browser that sees
  4xx has not been let in, but for a redirect outside `HYDRA_PUBLIC_URL`
  (`RefusedMeansNotAccepted`). `/readyz` answers 502 for Hydra and Kratos and 500
  for Redis, whose error is not marked as upstream.
- The checks of `Load`, `Validate`, `run` and the constructors let through what
  `docs/configuration.md` describes, and none contradicts another
  (`StartsAsDocumented`); but three rules of the document are enforced nowhere (see
  below).
- However `run` returns, it closes the store it has opened (`OpenedIsClosed`). Only
  a signal before `NotifyContext` ends the process without that.
- Tabs coexist, with one exception that `TabsCoexist` names: when the first two
  starts of a flow overlap, each mints a browser state, and the later
  `Set-Cookie` orphans the transaction of the other.
- Shutdown gives handlers 15 seconds, more than the 12 of `requestTimeout`, so
  every handler it finds at work ends before the store is closed
  (`ServedBeforeClose`). Cut short can be: a request whose header arrives after
  the signal (up to 5 seconds later), the next request of a kept connection that
  Shutdown takes for idle, a form that takes longer to arrive than the budget,
  and everything when the listener fails, since `run` then returns at once.

Two findings.

- `consent_reuse`: `CompleteConsent` sends a rejection to Hydra without consuming
  the transaction when the form, the session, the subject or the level is not
  acceptable. The same handle can be completed again and an acceptance sent after
  the rejection, while `docs/requirements.md:135` asks for single-use transaction
  values. What does hold is that it grants at most once.
- `claims_mapped`: `email_verified` is emitted for every client that allows it,
  from the verifiable addresses of the session, whether or not a mapping names
  it, while `docs/configuration.md:159` calls it an explicitly mapped boolean
  that is never inferred. That the value has evidence does hold
  (`VerifiedHasEvidence`).

Four disagreements of the documentation with the code, which the properties are
stated around and no run reports.

- The comment on `StartLogin` (`service.go:96-97`) says that "OIDC prompt, max_age,
  and ACR requirements determine whether Hydra's existing session can be accepted",
  and `README.md:23` that the service honours `max_age`. `StartLogin` accepts a
  login that Hydra skips without a look at `max_age` (`service.go:132-155`);
  whether that session is young enough is left to Hydra. `docs/http-contract.md:99`,
  which `SilentLoginsOnHydrasWord` quotes, does not name `max_age` among the
  conditions either. `login` has such a request, and it is accepted.
- A `POLICY_URL` that is set must be `https` in a secure environment and have no
  query (`docs/configuration.md:14-15` and `:43`). `Validate` looks at it for the
  http backend only.
- `TRANSACTION_TTL` must be at least `1s` (`:34`, and the message of
  `core/config/config.go:93`). The check before that message takes every positive
  lifetime.
- `REDIS_URL` must use `redis://` or `rediss://` (`:48`). With the in-memory store
  nobody looks at it.

The last three are what `Corrected` puts right; an environment that differs from
the document in nothing else starts.

## 4. Proofs

All theorems hold for every value of the constants that the named `ASSUME`s
allow: finite sets of requests and handles where they are counted, limits and
lifetimes at least 1, configurations and environments of the right type,
`Budget < Grace` in `ServerLifecycle` and `ClientTimeout < Budget` in `Handlers`.
In `ProviderCore` the challenges of the three flows are distinct, because Hydra
draws them at random, and in `LoginFlow` a request has the types that the Hydra
adapter decodes (`LoginRequestsAssumption`): any subject, prompts, `max_age` and
list of ACR values. Each theorem combines initialisation, one step per action and
an implication. TLC has checked each inductive invariant on the instances of
section 3 as well.

- `PendingTransactionsProofs`: everything `quota` checks, types, and that
  `reserved` is exact. `RefusedOnlyWhenFull` counts the creations in progress
  themselves and so needs that, too: a reservation that leaked would refuse
  requests for no reason. `QuotaBound` is not
  inductive: `commit` adds an entry whatever the size of the map, and what makes
  that safe is that it returns a reservation, which holds only if `reserved`
  counts the creations in progress (`QuotaInv`). For the live transactions more
  is needed (`SlotInv`): what the locals of a request say about its handle
  (`LocalsInv`), that only the creator of a handle commits it
  (`CommitsOwnHandle`), and that a live transaction of this run of the process
  has its slot, with the same expiry, or a creator about to commit it
  (`LedgerInv`), which survives a sweep with a stale clock because a sweep only
  drops what had expired at an earlier time.
- `MemoryStoreProofs`: everything `memory_store` checks, the refinement of
  `TransactionStore` among it, and the capacity. Every step of a call has one of five effects on
  the map, the history and the removers (`CallEffect`); the ledger that says
  where each transaction is (in the map, with one remover, used or expired) is
  kept by each effect, and each effect is a step of the port or a stutter.
- `RedisStoreProofs`: everything `redis_store` checks. `TTLCoversExpiry` holds
  because a TTL that was right when it was computed is only more generous when it
  is executed (`SentInv`), and what it is cut by is less than a millisecond
  (`MillisecondsCut`). For the refinement and for `ReplayIsTruthful` a ledger
  says where each transaction is: under its key, with a consumer that has yet to
  look at the clock, consumed, expired, or dropped with a lost reply (`Accounted`,
  `Spent`). As for `MemoryStore`, every step has one of five effects
  (`CallEffect`), and each effect keeps the ledger and is a step of the port or a
  stutter. The delicate one is a `SET NX` that is sent again and finds that its own
  key has run out: it stores the transaction a second time. That brings nothing
  back, because nobody else can hold the handle before `Create` has ended
  (`NewIsOwn`, from `Claim` and `Apart`): the key was not removed, so it ran out,
  and by `TTLCoversExpiry` the transaction had at most a part of a millisecond left,
  for which it counts as pending until its creator can no longer send (`Resendable`).
- `ProviderProofs`: every safety property of `login` and `flows`. None of them is
  inductive: they speak of the decisions Hydra has received, which were settled
  many steps earlier. The invariant has three parts besides the types. `Ledger`
  says of every decision in Hydra's log what justifies it (`Justified`), in terms
  that later steps cannot change, and of every transaction that a browser may be
  sent to the UI for it (`Presentable`). `Progress` says of every request in
  progress what its handler has established so far: the flow and challenge of its
  handle, the evidence of the session after Kratos, the whole justification once
  only the answer to Hydra is left. `Claims` says who may still spend a consumed
  transaction: one request that holds it, or one decision that has spent it, never
  both and never two; this is where the races of completions are decided, and why
  `consume` in the middle of the handler is enough. Clock and arithmetic enter in
  `AgeRoundsUp` (an age of `max_age` seconds, rounded to whole ones), the choice of
  the acr in `ResolvedIsFirst`, for lists of any length by the least index of a
  supported value (`LeastIndex`).
  `NeverGivenUp` is the safety half of `ConsumedIsAnswered`: a consumed
  transaction was answered, is known to be left undecided by a failed call or a
  dead process, or belongs to a handler at one of the stages that end in the
  answer (`AnsweredOrOnItsWay`). No stage after `consume` returns without telling
  Hydra; that each is left in the end is the part of fairness, which TLC checks.
- `InboundProofs`, on the gate: the safety properties of `gate`. What bounds a
  window counts the spent tokens, those available and those that late requests can
  still get (`UpperInv`); refusals need the converse (`LowerInv`).
- `InboundProofs`, on the browsers: everything `browsers` checks.
  `CompletedByStarter` holds because a state belongs to at most one browser
  (`OneOwner`) and a transaction is bound to a state of its own browser (`Bound`).
  `TabsCoexist` needs what a start under way knows of the jar: unless the first
  starts of its flow have raced, the cookie it was sent with is still the one in
  the jar, so the answer sets no other (`OneCookie`, `Tabs`).
- `ConsentProofs`: everything `consent` checks. For the grant, from what is known
  of the lists at each stage (`AskedInv`, `SaidInv`) until the claims are at issue
  (`DecisionInv`). For the claims, from what was validated at startup and still is
  in force (`ClaimsInv`), and from lemmas on what each filter returns: a claim of
  the identity where the name is mapped, of the policy where it is not, and
  `email_verified` only beside an email (`IdentityClaims`, `PolicyClaims`,
  `TokenClaims`, `TokenVerified`).
- `ServerLifecycleProofs`: types; `ServedBeforeClose`, because the time left to
  Shutdown and the age of a handler it found always add up to more than the budget
  (`EarlyInv`): a race of two clocks that the handler loses first;
  `OpenedIsClosed`, from where `run` may be with a store open (`StoreInv`); and
  `StartsAsDocumented`, because an environment passes all six stages exactly if
  `Documented` holds of it once corrected (`DocumentedPasses`), and the stages passed so far are
  known at each (`StageInv`).
- `HandlersProofs`: everything `handlers` checks. An outage leads to one verdict
  only (`OutageLeadsToRejection`), nothing is accepted before Hydra is told
  (`Undecided`), and the time left suffices because the one call that may be slow
  is made once (`Progress`, `TimeLeft`).

Only model-checked: the liveness properties (`ConsumedIsAnswered`, `GateReopens`,
`SignalStops`), which like `ENABLED` are out of the prover's reach, and the
counterexamples of the two findings. Nothing is proved by induction over data: no
definition here is recursive, and where a list of any length matters the proofs
use indices and least elements.

## 5. Not modelled

URL building, headers, logging, request ids, the trimming of UI hints, locale and
display, remember options; the parsing of forms and upstream JSON; JSON pointers,
transforms and formats of claims, which appear as the value they select and
whether it is valid; the spelling of assurance levels, which appear as numbers; a
clock of the Redis server that runs faster or slower than the process's.
In an environment a URL is one of five classes and a parsed value is valid or not;
that `EXTERNAL_UI_URL` gives the origin that forms must have is a comparison of
texts. Of `realstack/`, which is a test fixture, only what the sample UI makes of
the hints is modelled. The policy, Kratos and Hydra appear as replies: any answer,
late, or none.

Two hazards have no property. A challenge that is started twice can lead to two
decisions, because the provider keeps nothing per challenge; Hydra, which is not
part of this code, has to refuse the second one. And when the listener fails, `run`
returns under every handler: the code promises these handlers nothing, and the
flows treat it as a crash.

## 6. Plan

Next, in this order:

1. `ServerLifecycle` composed with `RequestGate`: slots and budget during shutdown.
2. `AuthorizeLogin` of both policies in `LoginFlow`.
3. The safety halves of the remaining liveness properties as theorems: that a late
   request of the gate keeps its turn, and that a signalled process is always at a
   stage of its shutdown.

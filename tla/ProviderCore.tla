----------------------------- MODULE ProviderCore ------------------------------
(***************************************************************************)
(* What the login, consent and logout flows of                             *)
(* internal/core/application/service.go share: the transaction store (as   *)
(* TransactionStore promises it), the requests in progress and the calls   *)
(* that Hydra has received.                                                *)
(*                                                                         *)
(* A request is one HTTP handler.  It takes one step per call it awaits:   *)
(* to Hydra, the store, Kratos or the policy.  The step is the reply and   *)
(* everything the handler does up to its next call.  Any such call can     *)
(* fail: the network fails, or the time budget of the request (12 seconds, *)
(* requestTimeout in server.go) runs out.  A handler that fails before it  *)
(* has changed anything returns without a step.                            *)
(*                                                                         *)
(* The quota of pending transactions is the subject of                     *)
(* PendingTransactions; here it only means that a start may be refused.    *)
(***************************************************************************)
EXTENDS Integers, Sequences, FiniteSets, Functions

CONSTANTS
    Requests, Handles, NoHandle,
    LoginChallenges, ConsentChallenges, LogoutChallenges, NoChallenge,
    Subjects,
    AALs,           \* levels a session can have; 0: not a supported AAL
    RequiredAAL,    \* REQUIRED_AAL; 0: none
    TTL,            \* TRANSACTION_TTL, in clock ticks
    MaxTime,        \* bound on the clock
    Redis           \* the store is Redis: shared, durable, able to lose a reply

Challenges == LoginChallenges \cup ConsentChallenges \cup LogoutChallenges

ASSUME HandlesAssumption == NoHandle \notin Handles
(* Hydra draws its challenges at random: none belongs to two of its flows. *)
ASSUME ChallengesAssumption ==
    /\ NoChallenge \notin Challenges
    /\ LoginChallenges \cap ConsentChallenges = {}
    /\ (LoginChallenges \cup ConsentChallenges) \cap LogoutChallenges = {}
ASSUME TTLAssumption == TTL \in Nat \ {0}
ASSUME MaxTimeAssumption == MaxTime \in Nat
ASSUME RedisAssumption == Redis \in BOOLEAN
ASSUME AALAssumption == AALs \subseteq 0 .. 3 /\ RequiredAAL \in 0 .. 3

VARIABLES
    now, issued, pending, uses,     \* TransactionStore
    challengeOf,    \* handle :> Challenge of the transaction it names
    known,          \* the handles that were sent to a browser
    request,        \* challenge :> the request Hydra holds for it
    decisions,      \* challenge :> the decisions Hydra received, in order
    undecided,      \* history: the handles whose decision was lost on the way
    pc,
    challenge,      \* the challenge a request works on
    handle,         \* the transaction a request completes; NoHandle: a start
    expiresAt,      \* ExpiresAt of the transaction a request creates
    form,           \* what the browser submitted with a completion
    session,        \* the session Kratos vouched for
    answer          \* the decision a request is about to send

storeVars == <<now, issued, pending, uses>>
worldVars == <<challengeOf, known, request, decisions, undecided>>
localVars == <<pc, challenge, handle, expiresAt, form, session, answer>>
vars == <<storeVars, worldVars, localVars>>

(***************************************************************************)
(* A tick is much longer here than the millisecond Redis may drop a        *)
(* transaction early by (RedisStore), so Early is 0; a request that is     *)
(* refused within it goes the way of ConsumeFails or of TurnedAway.        *)
(***************************************************************************)
Port == INSTANCE TransactionStore
            WITH Expiries <- 0 .. MaxTime + TTL, Early <- 0, Lossy <- Redis

None == [none |-> TRUE]     \* no form, session or answer

CoreInit ==
    /\ Port!Init
    /\ challengeOf = <<>>
    /\ known = {}
    /\ decisions = [c \in Challenges |-> <<>>]
    /\ undecided = {}
    /\ pc = [r \in Requests |-> "idle"]
    /\ challenge = [r \in Requests |-> NoChallenge]
    /\ handle = [r \in Requests |-> NoHandle]
    /\ expiresAt = [r \in Requests |-> 0]
    /\ form = [r \in Requests |-> None]
    /\ session = [r \in Requests |-> None]
    /\ answer = [r \in Requests |-> None]

Goto(r, from, to) == pc[r] = from /\ pc' = [pc EXCEPT ![r] = to]

(* The handler returns. *)
Finish(r, from) ==
    /\ Goto(r, from, "idle")
    /\ challenge' = [challenge EXCEPT ![r] = NoChallenge]
    /\ handle' = [handle EXCEPT ![r] = NoHandle]
    /\ expiresAt' = [expiresAt EXCEPT ![r] = 0]
    /\ form' = [form EXCEPT ![r] = None]
    /\ session' = [session EXCEPT ![r] = None]
    /\ answer' = [answer EXCEPT ![r] = None]

-------------------------------------------------------------------------------
(* Assurance: levels are numbers here, and 0 stands for no level at all. *)

HigherAAL(first, second) == IF first >= second THEN first ELSE second

AALAtLeast(actual, required) == actual >= required

-------------------------------------------------------------------------------
(* Decisions *)

(* A decision names the flow whose endpoint took it. *)
Reject(flow, h) == [flow |-> flow, verdict |-> "reject", handle |-> h]

(***************************************************************************)
(* The handler has decided and calls Hydra next.  Nothing it knew matters  *)
(* any more except the decision, which carries what justified it.          *)
(***************************************************************************)
Decide(r, from, c, h, decision) ==
    /\ Goto(r, from, "answer")
    /\ challenge' = [challenge EXCEPT ![r] = c]
    /\ handle' = [handle EXCEPT ![r] = h]
    /\ answer' = [answer EXCEPT ![r] = decision]
    /\ form' = [form EXCEPT ![r] = None]
    /\ session' = [session EXCEPT ![r] = None]
    /\ UNCHANGED <<expiresAt, storeVars, worldVars>>

(* Hydra receives the accept or reject call, whether or not its reply arrives. *)
AnswerReceived(r) ==
    /\ Finish(r, "answer")
    /\ decisions' = [decisions EXCEPT ![challenge[r]] = Append(@, answer[r])]
    /\ UNCHANGED <<storeVars, challengeOf, known, request, undecided>>

(* The call fails before it reaches Hydra: budget, network, adapter checks. *)
AnswerFails(r) ==
    /\ Finish(r, "answer")
    /\ undecided' = undecided \cup {handle[r]}
    /\ UNCHANGED <<storeVars, challengeOf, known, request, decisions>>

-------------------------------------------------------------------------------
(* createTransaction *)

(* The handler computes ExpiresAt and reserves a slot. *)
BeginCreate(r, c) ==
    /\ Goto(r, "idle", "create")
    /\ challenge' = [challenge EXCEPT ![r] = c]
    /\ expiresAt' = [expiresAt EXCEPT ![r] = now + TTL]
    /\ UNCHANGED <<handle, form, session, answer, storeVars, worldVars>>

(* The store takes the transaction under a new handle. *)
Insert(r, h) ==
    /\ expiresAt[r] > now
    /\ Port!Create(h, expiresAt[r])
    /\ challengeOf' = [g \in DOMAIN challengeOf \cup {h} |->
                        IF g = h THEN challenge[r] ELSE challengeOf[g]]

(* The browser is redirected to the UI with the handle. *)
Create(r) ==
    /\ Finish(r, "create")
    /\ \E h \in Handles : Insert(r, h) /\ known' = known \cup {h}
    /\ UNCHANGED <<request, decisions, undecided>>

(* An error is reported; Redis may nevertheless have kept the entry. *)
CreateFails(r) ==
    /\ Finish(r, "create")
    /\ \/ UNCHANGED <<storeVars, challengeOf>>
       \/ Redis /\ \E h \in Handles : Insert(r, h)
    /\ UNCHANGED <<known, request, decisions, undecided>>

-------------------------------------------------------------------------------
(* MUTANT of Loads: the logout endpoint does not compare the flow. *)
Loads_AnyFlow(h, challenges) ==
    /\ h \in known \cap pending
    /\ challenges = LogoutChallenges \/ challengeOf[h] \in challenges

(***************************************************************************)
(* load: a browser presents a handle it was sent, with the right cookie    *)
(* and CSRF token, at the endpoint of the right flow.  Anything else is    *)
(* turned away without a trace.                                            *)
(***************************************************************************)
Loads(h, challenges) == h \in known \cap pending /\ challengeOf[h] \in challenges

(* The handler of a completion loads its transaction and goes on. *)
Load(r, challenges, to, h, submitted) ==
    /\ Goto(r, "idle", to)
    /\ Loads(h, challenges)
    /\ challenge' = [challenge EXCEPT ![r] = challengeOf[h]]
    /\ handle' = [handle EXCEPT ![r] = h]
    /\ form' = [form EXCEPT ![r] = submitted]
    /\ UNCHANGED <<expiresAt, session, answer, storeVars, worldVars>>

(* MUTANT of Consume: ErrReplay and ErrExpiredTransaction do not stop the handler. *)
Consume_ErrorIgnored(r, from, to) ==
    /\ Goto(r, from, to)
    /\ IF handle[r] \in pending THEN Port!Consume(handle[r]) ELSE UNCHANGED storeVars
    /\ UNCHANGED <<worldVars, challenge, handle, expiresAt, form, session, answer>>

(* consume: exactly one of the handlers that loaded the handle goes on. *)
Consume(r, from, to) ==
    /\ Goto(r, from, to)
    /\ Port!Consume(handle[r])
    /\ UNCHANGED <<worldVars, challenge, handle, expiresAt, form, session, answer>>

(* ErrReplay or ErrExpiredTransaction. *)
ConsumeRefused(r, from) ==
    /\ Finish(r, from)
    /\ handle[r] \notin pending
    /\ UNCHANGED <<storeVars, worldVars>>

(* Redis reports an error, before or after it removed the entry. *)
ConsumeFails(r, from) ==
    /\ Redis
    /\ Finish(r, from)
    /\ UNCHANGED storeVars \/ Port!Lose(handle[r])
    /\ UNCHANGED worldVars

-------------------------------------------------------------------------------
(* The environment *)

Tick ==
    /\ now < MaxTime
    /\ Port!Tick
    /\ UNCHANGED <<worldVars, localVars>>

(* The process dies and is started again; Redis keeps the transactions. *)
Crash ==
    /\ \E r \in Requests : pc[r] # "idle"
    /\ pending' = IF Redis THEN pending ELSE {}
    /\ undecided' = undecided \cup {handle[r] : r \in Requests}
    /\ pc' = [r \in Requests |-> "idle"]
    /\ challenge' = [r \in Requests |-> NoChallenge]
    /\ handle' = [r \in Requests |-> NoHandle]
    /\ expiresAt' = [r \in Requests |-> 0]
    /\ form' = [r \in Requests |-> None]
    /\ session' = [r \in Requests |-> None]
    /\ answer' = [r \in Requests |-> None]
    /\ UNCHANGED <<now, issued, uses, challengeOf, known, request, decisions>>

===============================================================================

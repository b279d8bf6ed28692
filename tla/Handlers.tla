-------------------------------- MODULE Handlers --------------------------------
(***************************************************************************)
(* One request from its route to its answer: the handlers of               *)
(* inbound/http/server.go and the calls that the service makes for them,   *)
(* one after the other, while the request budget runs out.  Provider says  *)
(* what the flows decide and Provider's handlers race; here a handler is   *)
(* alone, and the question is what becomes of it, of Hydra's challenge and *)
(* of the browser when the services it asks are slow or fail: how the      *)
(* adapters classify what goes wrong, and what statusForError makes of it. *)
(*                                                                         *)
(* What a request asks for and what a healthy service says to it is left   *)
(* open.  Time passes in calls only; a healthy service answers at once.    *)
(***************************************************************************)
EXTENDS Integers

CONSTANTS
    Budget,             \* requestBudget
    ClientTimeout       \* Timeout of newHTTPClient

ASSUME TimeoutAssumption ==
    Budget \in Nat /\ ClientTimeout \in Nat \ {0} /\ ClientTimeout < Budget

Starts == {"login", "consent", "logout"}
Completions == {"login_callback", "consent_submit", "logout_submit"}
Forms == {"consent_submit", "logout_submit"}
Probes == {"healthz", "readyz"}
Services == {"hydra", "kratos", "policy", "store"}

(* The sentinel errors, as far as statusForError tells them apart. *)
Kinds == {"form", "origin", "unauthenticated", "assurance", "upstream", "request", "internal"}

VARIABLES
    endpoint,
    pc,             \* what the handler does next
    left,           \* what is left of the budget
    formTime,       \* history: what reading the form took of it
    troubled,       \* the services that are slow or fail while this request is served
    asked,          \* history: the services that were asked
    failed,         \* history: those that did not answer
    consumed,       \* history: this handler has consumed a transaction
    verdict,        \* what Hydra is to be told
    public,         \* the public error that is joined if telling Hydra fails
    decision,       \* what Hydra has been told
    oddity,         \* history: an answer of which the provider can make no use
    status          \* of the answer; 0: none yet

vars == <<endpoint, pc, left, formTime, troubled, asked, failed, consumed,
          verdict, public, decision, oddity, status>>

Rejections == {"access_denied", "login_required", "consent_required", "temporarily_unavailable"}
Verdicts == {"none", "accepted"} \cup Rejections

Init ==
    /\ endpoint \in Starts \cup Completions \cup Probes
    /\ pc = "read"
    /\ left = Budget
    /\ formTime = 0
    /\ troubled \in SUBSET Services
    /\ asked = {} /\ failed = {}
    /\ consumed = FALSE
    /\ verdict = "none" /\ public = {} /\ decision = "none"
    /\ oddity = "none"
    /\ status = 0

-------------------------------------------------------------------------------
(* Answers *)

(* The first case that matches an error, or one that is joined to it, decides. *)
statusForError(errors) ==
    IF "form" \in errors THEN 400
    ELSE IF "origin" \in errors THEN 403
    ELSE IF {"unauthenticated", "assurance"} \cap errors # {} THEN 401
    ELSE IF "upstream" \in errors THEN 502
    ELSE IF "request" \in errors THEN 400
    ELSE 500

Answer(s) == pc' = "done" /\ status' = s

writeError(errors) == Answer(statusForError(errors))

(* Hydra is told next, by rejectLogin, rejectConsent or an acceptance. *)
Tell(what, errors) ==
    /\ pc' = "tell"
    /\ verdict' = what
    /\ public' = errors
    /\ UNCHANGED status

(* MUTANT of FailureCode: the code follows the error that the browser may see. *)
FailureCode_PublicOnly(errors, cause) ==
    IF "upstream" \in errors THEN "temporarily_unavailable" ELSE "access_denied"

FailureCode(errors, cause) ==
    IF "upstream" \in errors \cup cause THEN "temporarily_unavailable" ELSE "access_denied"

(* rejectLoginFailure, rejectConsentFailure *)
RejectFailure(errors, cause) == Tell(FailureCode(errors, cause), errors)

Continue(to) == pc' = to /\ UNCHANGED <<verdict, public, status>>

-------------------------------------------------------------------------------
(* Calls *)

(* MUTANT of Call: a call may last as long as the request. *)
Call_BudgetOnly(s) ==
    /\ \E d \in 0 .. left :
        /\ s \notin troubled => d = 0
        /\ left' = left - d
    /\ asked' = asked \cup {s}
    /\ UNCHANGED <<endpoint, formTime, troubled>>

(* A call ends with the client's timeout or with the context of the request. *)
Call(s) ==
    /\ \E d \in 0 .. left :
        /\ s \notin troubled => d = 0
        /\ s # "store" => d <= ClientTimeout
        /\ left' = left - d
    /\ asked' = asked \cup {s}
    /\ UNCHANGED <<endpoint, formTime, troubled>>

(* A call that begins after the budget has run out does not get through. *)
Answers(s) == Call(s) /\ left > 0 /\ UNCHANGED failed

Fails(s) == Call(s) /\ (s \in troubled \/ left = 0) /\ failed' = failed \cup {s}

-------------------------------------------------------------------------------
(* Handlers *)

(* requiredQueryValue and rememberOptions. *)
ReadQuery ==
    /\ pc = "read" /\ endpoint \in Starts \cup {"login_callback"}
    /\ \/ writeError({"request"}) /\ UNCHANGED <<verdict, public>>
       \/ endpoint \in Starts /\ Continue("request")
       \/ endpoint = "login_callback" /\ Continue("transaction")
    /\ UNCHANGED <<endpoint, left, formTime, troubled, asked, failed, consumed, decision, oddity>>

(***************************************************************************)
(* OriginAllowed, ParseForm and rememberOptions.  The budget begins before *)
(* the form is read, and reading does not look at it.                      *)
(***************************************************************************)
ReadForm ==
    /\ pc = "read" /\ endpoint \in Forms
    /\ \E d \in 0 .. left : formTime' = d /\ left' = left - d
    /\ \/ \E e \in {"form", "origin", "request"} : writeError({e}) /\ UNCHANGED <<verdict, public>>
       \/ Continue("transaction")
    /\ UNCHANGED <<endpoint, troubled, asked, failed, consumed, decision, oddity>>

(* healthz asks nobody. *)
Health ==
    /\ pc = "read" /\ endpoint \in Probes
    /\ \/ endpoint = "healthz" /\ Answer(200) /\ UNCHANGED <<verdict, public>>
       \/ endpoint = "readyz" /\ Continue("ready")
    /\ UNCHANGED <<endpoint, left, formTime, troubled, asked, failed, consumed, decision, oddity>>

(* The request is not there, or fails a check of Start*. *)
NoRequest(errors) ==
    /\ \/ Fails("hydra") /\ writeError({"upstream"})
       \/ Answers("hydra") /\ \E e \in errors : writeError({e})
    /\ UNCHANGED <<verdict, public>>

GetLoginRequest ==
    /\ pc = "request" /\ endpoint = "login"
    /\ \/ NoRequest({"request", "unauthenticated", "upstream"})
       \/ Answers("hydra") /\ Tell("login_required", {})
       \/ Answers("hydra") /\ Continue("policy")
       \/ Answers("hydra") /\ Continue("create")
    /\ UNCHANGED <<consumed, decision, oddity>>

GetConsentRequest ==
    /\ pc = "request" /\ endpoint = "consent"
    /\ \/ NoRequest({"request", "unauthenticated", "upstream"})
       \/ Answers("hydra") /\ Tell("consent_required", {})
       \/ Answers("hydra") /\ Continue("create")
    /\ UNCHANGED <<consumed, decision, oddity>>

GetLogoutRequest ==
    /\ pc = "request" /\ endpoint = "logout"
    /\ \/ NoRequest({"request", "upstream"})
       \/ Answers("hydra") /\ Continue("create")
    /\ UNCHANGED <<consumed, decision, oddity>>

(* The browser is sent to the UI, unless the quota is full or Create fails. *)
CreateTransaction ==
    /\ pc = "create"
    /\ \/ Fails("store") /\ writeError({"internal"})
       \/ Answers("store") /\ Answer(302)
       \/ /\ \E e \in {"upstream", "request", "internal"} : writeError({e})
          /\ UNCHANGED <<endpoint, left, formTime, troubled, asked, failed>>
    /\ UNCHANGED <<consumed, verdict, public, decision, oddity>>

(* A user who denied a consent is known now, and so is the end of a logout. *)
Prepared ==
    CASE endpoint = "login_callback" -> "none"
      [] endpoint = "consent_submit" -> "access_denied"
      [] OTHER -> "accepted"

(***************************************************************************)
(* load, and the checks of Complete* that come before anything else.  A    *)
(* consent that asks for too much is rejected without being consumed.      *)
(***************************************************************************)
LoadTransaction ==
    /\ pc = "transaction"
    /\ \/ Fails("store") /\ writeError({"internal"}) /\ UNCHANGED <<verdict, public>>
       \/ /\ Answers("store")
          /\ \/ writeError({"request"}) /\ UNCHANGED <<verdict, public>>
             \/ endpoint = "consent_submit" /\ RejectFailure({"request"}, {"request"})
             \/ endpoint = "consent_submit" /\ Continue("whoami")
             \/ /\ pc' = "consume"
                /\ verdict' = Prepared
                /\ UNCHANGED <<public, status>>
    /\ UNCHANGED <<consumed, decision, oddity>>

AfterConsume ==
    IF verdict # "none" THEN "tell"
    ELSE IF endpoint = "login_callback" THEN "whoami"
    ELSE "policy"

(* An error of the store leaves open whether the transaction is gone. *)
ConsumeTransaction ==
    /\ pc = "consume"
    /\ \/ Fails("store") /\ writeError({"internal"}) /\ consumed' \in BOOLEAN
       \/ Answers("store") /\ writeError({"request"}) /\ UNCHANGED consumed
       \/ Answers("store") /\ pc' = AfterConsume /\ consumed' = TRUE /\ UNCHANGED status
    /\ UNCHANGED <<verdict, public, decision, oddity>>

(* ValidateSession does not ask Kratos about a browser without credentials. *)
NoCredentials ==
    /\ pc = "whoami"
    /\ RejectFailure({"unauthenticated"}, {"unauthenticated"})
    /\ UNCHANGED <<endpoint, left, formTime, troubled, asked, failed, consumed, decision, oddity>>

(* ValidateSession of the Kratos adapter, and the checks of the session. *)
WhoAmI ==
    /\ pc = "whoami"
    /\ \/ Fails("kratos") /\ RejectFailure({"unauthenticated"}, {"upstream"})
       \/ /\ Answers("kratos")
          /\ \/ RejectFailure({"unauthenticated"}, {"unauthenticated"})
             \/ RejectFailure({"assurance"}, {"assurance"})
             \/ endpoint = "login_callback" /\ Tell("login_required", {})
             \/ endpoint = "consent_submit" /\ RejectFailure({"request"}, {"request"})
             \/ Continue(IF endpoint = "login_callback" THEN "policy" ELSE "consume")
    /\ UNCHANGED <<consumed, decision, oddity>>

(***************************************************************************)
(* AuthorizeLogin and AuthorizeConsent: a reply that breaks the contract   *)
(* is a failure too.  The Hydra adapter refuses UserInfo claims itself.    *)
(***************************************************************************)
AskPolicy ==
    /\ pc = "policy"
    /\ \/ Fails("policy") /\ RejectFailure({"upstream"}, {"upstream"}) /\ UNCHANGED oddity
       \/ Answers("policy") /\ Tell("access_denied", {}) /\ UNCHANGED oddity
       \/ Answers("policy") /\ Tell("accepted", {}) /\ UNCHANGED oddity
       \/ /\ endpoint = "consent_submit"
          /\ Answers("policy") /\ writeError({"upstream"}) /\ oddity' = "userinfo"
          /\ UNCHANGED <<verdict, public>>
    /\ UNCHANGED <<consumed, decision>>

(* MUTANT of EmptyRedirect: an answer without a redirect is an invalid redirect. *)
EmptyRedirect_Invalid == {"request"}

(* redirectResponse of the Hydra adapter *)
EmptyRedirect == {"upstream"}

(* hydraRedirect refuses a redirect outside HYDRA_PUBLIC_URL. *)
ForeignRedirect == {"request"}

(* Accept* and Reject*, whose answer may be lost. *)
TellHydra ==
    /\ pc = "tell"
    /\ \/ /\ Fails("hydra") /\ writeError(public \cup {"upstream"})
          /\ decision' \in IF left > 0 THEN {decision, verdict} ELSE {decision}
          /\ UNCHANGED oddity
       \/ /\ Answers("hydra") /\ decision' = verdict
          /\ \/ Answer(302) /\ UNCHANGED oddity
             \/ /\ "hydra" \in troubled
                /\ writeError(public \cup EmptyRedirect) /\ UNCHANGED oddity
             \/ /\ "hydra" \in troubled
                /\ writeError(public \cup ForeignRedirect) /\ oddity' = "foreign"
    /\ UNCHANGED <<consumed, verdict, public>>

(* The Ready of each adapter: only that of Redis is not marked as upstream. *)
NotReady(s) == IF s = "store" THEN {"internal"} ELSE {"upstream"}

(* Service.Ready asks Hydra, Kratos and, if it is Redis, the store, in this order. *)
Dependencies == <<"hydra", "kratos", "store">>

Probe ==
    /\ pc = "ready"
    /\ \E i \in DOMAIN Dependencies :
        /\ asked = {Dependencies[j] : j \in 1 .. (i - 1)}
        /\ \/ Fails(Dependencies[i]) /\ writeError(NotReady(Dependencies[i]))
           \/ Answers(Dependencies[i]) /\ i < 3 /\ pc' = pc /\ UNCHANGED status
           \/ Answers(Dependencies[i]) /\ i > 1 /\ Answer(200)
    /\ UNCHANGED <<consumed, verdict, public, decision, oddity>>

Next ==
    \/ ReadQuery \/ ReadForm \/ Health
    \/ GetLoginRequest \/ GetConsentRequest \/ GetLogoutRequest
    \/ CreateTransaction
    \/ LoadTransaction \/ ConsumeTransaction \/ NoCredentials \/ WhoAmI
    \/ AskPolicy \/ TellHydra
    \/ Probe

Spec == Init /\ [][Next]_vars

-------------------------------------------------------------------------------
(* Properties *)

(* Types of the request and its history. *)
TypeOK ==
    /\ endpoint \in Starts \cup Completions \cup Probes
    /\ pc \in {"read", "request", "create", "transaction", "consume", "whoami", "policy",
               "tell", "ready", "done"}
    /\ left \in 0 .. Budget /\ formTime \in 0 .. Budget
    /\ troubled \subseteq Services /\ asked \subseteq Services /\ failed \subseteq asked
    /\ consumed \in BOOLEAN
    /\ verdict \in Verdicts /\ public \subseteq Kinds /\ decision \in Verdicts
    /\ oddity \in {"none", "userinfo", "foreign"}
    /\ status \in {0, 200, 302, 400, 401, 403, 500, 502}

(***************************************************************************)
(* An outage is reported as one: when Kratos or the policy could not be    *)
(* asked, Hydra is told that the provider is temporarily unavailable, or   *)
(* nothing, but never that access was denied, which the client would take  *)
(* for a decision about the user (rejectLoginFailure).                     *)
(***************************************************************************)
OutageIsReported ==
    failed \cap {"kratos", "policy"} # {} => decision \in {"none", "temporarily_unavailable"}

(***************************************************************************)
(* One outage does not strand a login: while Hydra and the store are well  *)
(* and only one of Kratos and the policy is in trouble, a transaction that *)
(* was consumed leads to a decision Hydra hears of, because the time a     *)
(* call may take leaves some of the budget for telling it (newHTTPClient,  *)
(* requestBudget).  The browser must have sent its form in good time, and  *)
(* UserInfo claims are an error that nobody can tell Hydra.                *)
(***************************************************************************)
SingleOutage ==
    /\ {"hydra", "store"} \cap troubled = {}
    /\ ~ {"kratos", "policy"} \subseteq troubled
    /\ formTime + ClientTimeout < Budget

OneOutageIsAnswered ==
    pc = "done" /\ consumed /\ SingleOutage /\ oddity # "userinfo" => decision # "none"

(***************************************************************************)
(* Whoever is told that the request was at fault has not been let in:      *)
(* when Hydra may have accepted the challenge, although the provider did   *)
(* not see its answer, the status is 302 or one of the server errors       *)
(* (redirectResponse, statusForError).  The exception is a redirect that   *)
(* does not belong to HYDRA_PUBLIC_URL.                                    *)
(***************************************************************************)
RefusedMeansNotAccepted ==
    status \in 400 .. 499 /\ oddity # "foreign" => decision # "accepted"

===============================================================================

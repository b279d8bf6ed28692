-------------------------------- MODULE Provider -------------------------------
(***************************************************************************)
(* The service of internal/core/application: requests of the three flows   *)
(* interleave over one transaction store and one Hydra.                    *)
(***************************************************************************)
EXTENDS LoginFlow, ConsentFlow, LogoutFlow

CONSTANT MaxDecisions   \* bound: no request starts after Hydra got that many

Init ==
    /\ CoreInit
    /\ \E login \in [LoginChallenges -> LoginRequests],
          consent \in [ConsentChallenges -> ConsentRequests] :
        request = [c \in Challenges |->
                    CASE c \in LoginChallenges -> login[c]
                      [] c \in ConsentChallenges -> consent[c]
                      [] OTHER -> None]

(* A request that fails a check before it changes anything: see ProviderCore. *)
TurnedAway(r) == pc[r] = "idle" /\ UNCHANGED vars

Begin(r) ==
    /\ \A c \in Challenges : Len(decisions[c]) < MaxDecisions
    /\ BeginLogin(r) \/ BeginConsent(r) \/ BeginLogout(r)

(* A request that has begun goes on. *)
Step(r) ==
    \/ Create(r) \/ CreateFails(r)
    \/ LoginStep(r)
    \/ ConsentStep(r)
    \/ LogoutStep(r)
    \/ AnswerReceived(r) \/ AnswerFails(r)

Next ==
    \/ \E r \in Requests : TurnedAway(r) \/ Begin(r) \/ Step(r)
    \/ Tick
    \/ Crash

(***************************************************************************)
(* Every call is bounded by the time budget of its request, so a request   *)
(* that has begun takes its next step.  Nothing makes a browser come back, *)
(* and no outcome of a call is promised.                                   *)
(***************************************************************************)
Spec == Init /\ [][Next]_vars /\ \A r \in Requests : WF_vars(Step(r))

-------------------------------------------------------------------------------
PCs == {"idle", "create", "silentPolicy", "answer",
        "consumeLogin", "loginKratos", "loginPolicy",
        "consumeDeny", "consentKratos", "consumeConsent", "consentPolicy", "consumeLogout"}

Times == {NoTime} \cup Nat

ConsentSessions == [subject : Subjects, aal : AALs]

Sessions == [subject : Subjects, aal : AALs, authAt : Times] \cup ConsentSessions

Decisions ==
    [flow : {"login", "consent"}, verdict : {"reject"}, handle : Handles \cup {NoHandle}]
    \cup [flow : {"login"}, verdict : {"accept"}, handle : Handles \cup {NoHandle},
          subject : Subjects, acr : SupportedACRs \cup 0 .. 3, aal : 0 .. 3, authAt : Times]
    \cup [flow : {"consent"}, verdict : {"accept"}, handle : Handles, session : ConsentSessions,
          asked : Forms, scopes : SUBSET Scopes, audiences : SUBSET Audiences]
    \cup [flow : {"logout"}, verdict : {"accept"}, handle : Handles]

(* Types of the variables; no transaction is ever consumed twice. *)
TypeOK ==
    /\ now \in Nat
    /\ DOMAIN issued \subseteq Handles /\ \A h \in DOMAIN issued : issued[h] \in Nat
    /\ pending \subseteq DOMAIN issued
    /\ uses \in [Handles -> 0 .. 1]
    /\ DOMAIN challengeOf = DOMAIN issued
    /\ \A h \in DOMAIN issued : challengeOf[h] \in Challenges
    /\ known \subseteq DOMAIN issued
    /\ \A c \in LoginChallenges : request[c] \in LoginRequests
    /\ \A c \in ConsentChallenges : request[c] \in ConsentRequests
    /\ decisions \in [Challenges -> Seq(Decisions)]
    /\ undecided \subseteq Handles \cup {NoHandle}
    /\ pc \in [Requests -> PCs]
    /\ challenge \in [Requests -> Challenges \cup {NoChallenge}]
    /\ handle \in [Requests -> Handles \cup {NoHandle}]
    /\ expiresAt \in [Requests -> Nat]
    /\ form \in [Requests -> Forms \cup {None}]
    /\ session \in [Requests -> Sessions \cup {None}]
    /\ answer \in [Requests -> Decisions \cup {None}]

-------------------------------------------------------------------------------
(* The calls Hydra received that came from completions of h. *)
Via(h, verdicts) ==
    {d \in UNION {{c} \X DOMAIN decisions[c] : c \in Challenges} :
        decisions[d[1]][d[2]].handle = h /\ decisions[d[1]][d[2]].verdict \in verdicts}

AtMostOne(S) == \A x, y \in S : x = y

Accepted(c) == {decisions[c][i] : i \in {i \in DOMAIN decisions[c] : decisions[c][i].verdict = "accept"}}

(***************************************************************************)
(* However many completions of one transaction run at once, and however    *)
(* often a browser submits it again, Hydra gets one decision from a login  *)
(* or a logout and one grant from a consent, of which some failures are    *)
(* rejected without consuming it (CompleteLogin, CompleteLogout,           *)
(* CompleteConsent).                                                       *)
(***************************************************************************)
OneDecisionPerTransaction ==
    \A h \in DOMAIN challengeOf :
        /\ AtMostOne(Via(h, {"accept"}))
        /\ challengeOf[h] \notin ConsentChallenges => AtMostOne(Via(h, {"accept", "reject"}))

(***************************************************************************)
(* A browser that presents the handle of one flow at the endpoint of       *)
(* another cannot have that flow decide a challenge of the first (load):   *)
(* a consent form never denies a login, a logout confirms no consent.      *)
(***************************************************************************)
FlowsKeptApart ==
    \A c \in Challenges : \A i \in DOMAIN decisions[c] :
        decisions[c][i].flow = CASE c \in LoginChallenges -> "login"
                                 [] c \in ConsentChallenges -> "consent"
                                 [] OTHER -> "logout"

(***************************************************************************)
(* Hydra accepts no challenge on the strength of a transaction that was    *)
(* not taken out of the store, live, for that challenge; only a login can  *)
(* be accepted without a transaction (StartLogin).                         *)
(***************************************************************************)
AcceptsAreConsumed ==
    \A c \in Challenges : \A d \in Accepted(c) :
        IF d.handle = NoHandle THEN c \in LoginChallenges
        ELSE challengeOf[d.handle] = c /\ uses[d.handle] = 1

(***************************************************************************)
(* A login accepted after an interaction has the subject and the assurance *)
(* that Hydra and the configuration ask for, and the acr it is given is    *)
(* the client's first choice of those that exist, of a level that the      *)
(* session has reached (ResolveACR).  prompt=login and max_age=0           *)
(* mean an authentication after the transaction began, and max_age bounds  *)
(* how old it was at that moment, whatever time passed since               *)
(* (CompleteLogin, validateLoginFreshness).                                *)
(***************************************************************************)
InteractiveLoginsAssured ==
    \A c \in LoginChallenges : \A d \in Accepted(c) :
        LET q == request[c]
        IN  d.handle # NoHandle =>
                /\ q.subject \in {NoSubject, d.subject}
                /\ d.aal >= RequiredAAL
                /\ q.acrs # <<>> =>
                    /\ \E i \in DOMAIN q.acrs :
                        q.acrs[i] = d.acr /\ \A j \in 1 .. i - 1 : q.acrs[j] \notin SupportedACRs
                    /\ d.acr \in SupportedACRs /\ d.aal >= Level(d.acr)
                /\ "login" \in q.prompts \/ q.maxAge = 0 => d.authAt > StartedAt(d.handle)
                /\ q.maxAge # NoMaxAge =>
                    /\ d.authAt # NoTime /\ d.authAt <= now
                    /\ d.authAt >= StartedAt(d.handle) - q.maxAge * TicksPerSecond

(***************************************************************************)
(* What the UI is told is all a login needs: a browser that has been       *)
(* through the Kratos flow the hints lead to, as the subject Hydra expects *)
(* if it expects one and within max_age of the start of its transaction,   *)
(* comes back with a session that CompleteLogin accepts.  (The sample UI   *)
(* sends nobody on who would need aal3.)  The hints are made in            *)
(* StartLogin, the checks in CompleteLogin, and by then the transaction is *)
(* consumed.                                                               *)
(***************************************************************************)
HandoffSuffices ==
    \A r \in Requests : pc[r] = "loginKratos" =>
        LET q == request[challenge[r]]
            h == handle[r]
        IN  \A s \in FlowSessions(KratosFlow(Handoff(q)), h) :
                /\ q.subject \in {NoSubject, s.subject}
                /\ \/ q.maxAge \in {NoMaxAge, 0}
                   \/ now - StartedAt(h) <= q.maxAge * TicksPerSecond
                => LoginSessionAccepted(q, h, s)

(***************************************************************************)
(* "Without a forcing prompt, a login that Hydra reports as skippable      *)
(* (skip) and that has no configured or request-specific assurance         *)
(* requirement may complete without a UI redirect"                         *)
(* (docs/http-contract.md:99-102): no other login does, it completes for   *)
(* the subject that Hydra named, and no browser has been sent to the UI    *)
(* for the same challenge.  A max_age is no condition here: StartLogin     *)
(* accepts on Hydra's word a session whose age it never asks for, whatever *)
(* the comment before it says of max_age (service.go:96-97).               *)
(***************************************************************************)
SilentLoginsOnHydrasWord ==
    \A c \in LoginChallenges : \A d \in Accepted(c) :
        LET q == request[c]
        IN  d.handle = NoHandle =>
                /\ q.skip /\ d.subject = q.subject
                /\ q.acrs = <<>> /\ RequiredAAL = 0
                /\ {"login", "select_account"} \cap q.prompts = {}
                /\ \A h \in DOMAIN challengeOf : challengeOf[h] # c

(***************************************************************************)
(* A granted consent stays within what Hydra requested and what the        *)
(* browser asked for, for the subject of the request at the required       *)
(* level, whatever the browser posts and the policy answers                *)
(* (CompleteConsent, acceptConsentDecision).                               *)
(***************************************************************************)
ConsentsWithinBounds ==
    \A c \in ConsentChallenges : \A d \in Accepted(c) :
        LET q == request[c]
        IN  /\ d.session.subject = q.subject /\ d.session.aal >= RequiredAAL
            /\ d.scopes \subseteq q.scopes \cap d.asked.scopes
            /\ d.audiences \subseteq q.audiences
            /\ d.asked.audiences # {} => d.audiences \subseteq d.asked.audiences

(***************************************************************************)
(* prompt=none never sends a browser to the UI to log in, and to consent   *)
(* only when the consent can be skipped (StartLogin, StartConsent).        *)
(***************************************************************************)
PromptNoneStaysSilent ==
    \A h \in DOMAIN challengeOf :
        LET c == challengeOf[h]
        IN  c \notin LogoutChallenges /\ "none" \in request[c].prompts =>
                c \in ConsentChallenges /\ (request[c].skip \/ request[c].clientSkip)

(***************************************************************************)
(* Once a transaction is consumed, nobody can complete it again: its       *)
(* challenge gets a decision, unless the call to Hydra fails or the        *)
(* process dies (CompleteLogin, CompleteConsent, CompleteLogout).          *)
(***************************************************************************)
ConsumedIsAnswered ==
    \A h \in Handles :
        uses[h] = 1 ~> (Via(h, {"accept", "reject"}) # {} \/ h \in undecided)

(***************************************************************************)
(* "State, nonce, and transaction values MUST be unpredictable and         *)
(* single-use." (docs/requirements.md:135): a consent transaction that has *)
(* led to a rejection grants nothing any more.  CompleteConsent rejects    *)
(* several failures without consuming the transaction, which the browser   *)
(* can then complete again.                                                *)
(***************************************************************************)
ConsentTransactionsSingleUse ==
    \A h \in DOMAIN challengeOf :
        challengeOf[h] \in ConsentChallenges =>
            Via(h, {"accept"}) = {} \/ Via(h, {"reject"}) = {}

===============================================================================

------------------------------- MODULE LoginFlow -------------------------------
(***************************************************************************)
(* StartLogin and CompleteLogin of internal/core/application/service.go.   *)
(*                                                                         *)
(* A request Hydra holds for a login challenge is a record: subject and    *)
(* skip, the sequence of its ACR values, the set of its prompts, and       *)
(* maxAge.  Requests whose challenge or client StartLogin refuses are not  *)
(* modelled: the handler returns before it changes anything.               *)
(***************************************************************************)
EXTENDS ProviderCore

CONSTANTS
    LoginRequests,      \* the requests Hydra may hold
    NoSubject,
    OIDCACRMappings,    \* configured ACR value :> level
    BuiltinACRs,        \* aal1, aal2 and aal3 :> level
    BlankACR,
    NoMaxAge, NoTime,
    SampleLoginAAL,     \* KRATOS_LOGIN_AAL of the sample UI
    TicksPerSecond      \* clock ticks in a second: ages round up to seconds

ASSUME TicksAssumption == TicksPerSecond \in Nat \ {0}
ASSUME SampleAssumption == SampleLoginAAL \in 1 .. 2
ASSUME SubjectsAssumption == NoSubject \notin Subjects
ASSUME TimesAssumption == NoMaxAge \notin Int /\ NoTime \notin Int

(* The types that the Hydra adapter decodes a login request to. *)
ASSUME LoginRequestsAssumption ==
    \A q \in LoginRequests :
        /\ q.subject \in Subjects \cup {NoSubject} /\ q.skip \in BOOLEAN
        /\ q.acrs \in Seq(Range(q.acrs))
        /\ q.maxAge \in Int \cup {NoMaxAge}

(* validateOIDCACRMappings *)
ASSUME ACRAssumption ==
    /\ \A acr \in DOMAIN OIDCACRMappings : OIDCACRMappings[acr] \in 1 .. 3
    /\ \A acr \in DOMAIN BuiltinACRs : BuiltinACRs[acr] \in 1 .. 3

-------------------------------------------------------------------------------
(* Config.ResolveACR: the first value that is supported counts. *)

SupportedACRs == DOMAIN OIDCACRMappings \cup DOMAIN BuiltinACRs

(* A blank anywhere is an error, and so is a list with nothing that is supported. *)
ACRsValid(values) ==
    /\ \A i \in DOMAIN values : values[i] # BlankACR
    /\ values # <<>> => \E i \in DOMAIN values : values[i] \in SupportedACRs

Level(acr) == IF acr \in DOMAIN OIDCACRMappings THEN OIDCACRMappings[acr] ELSE BuiltinACRs[acr]

ResolveACR(values) ==
    LET supported == {i \in DOMAIN values : values[i] \in SupportedACRs}
    IN  values[CHOOSE i \in supported : \A j \in supported : i <= j]

RequestedAAL(q) == IF q.acrs = <<>> THEN 0 ELSE Level(ResolveACR(q.acrs))

-------------------------------------------------------------------------------
(* StartLogin *)

(* MUTANT of LoginRequestValid: parsePrompt lets none be combined. *)
LoginRequestValid_NoneCombined(q) ==
    /\ q.skip => q.subject # NoSubject
    /\ ACRsValid(q.acrs)
    /\ q.maxAge # NoMaxAge => q.maxAge >= 0

(* A skip of no subject, bad ACR values, bad prompts, a negative max_age. *)
LoginRequestValid(q) ==
    /\ q.skip => q.subject # NoSubject
    /\ ACRsValid(q.acrs)
    /\ "none" \in q.prompts => q.prompts = {"none"}
    /\ q.maxAge # NoMaxAge => q.maxAge >= 0

RequiresInteraction(q) == ~q.skip \/ HigherAAL(RequiredAAL, RequestedAAL(q)) # 0

(* MUTANT of ForceLogin: select_account does not count. *)
ForceLogin_LoginOnly(q) == "login" \in q.prompts

ForceLogin(q) == q.prompts \cap {"login", "select_account"} # {}

(* prompt=none cannot be honoured. *)
LoginRequired(q) == "none" \in q.prompts /\ RequiresInteraction(q)

Silent(q) == ~RequiresInteraction(q) /\ ~ForceLogin(q)

(* login_required *)
RejectLogin(r, c) ==
    /\ LoginRequestValid(request[c])
    /\ LoginRequired(request[c])
    /\ Decide(r, "idle", c, NoHandle, Reject("login", NoHandle))

(* Hydra's own session is enough: only the policy is asked. *)
StartSilentLogin(r, c) ==
    /\ LoginRequestValid(request[c])
    /\ Silent(request[c])
    /\ Goto(r, "idle", "silentPolicy")
    /\ challenge' = [challenge EXCEPT ![r] = c]
    /\ UNCHANGED <<handle, expiresAt, form, session, answer, storeVars, worldVars>>

(* A browser is sent to the UI with a transaction. *)
StartInteractiveLogin(r, c) ==
    /\ LoginRequestValid(request[c])
    /\ ~LoginRequired(request[c]) /\ ~Silent(request[c])
    /\ BeginCreate(r, c)

(* MUTANT of Handoff: the level that the request asks for is not passed on. *)
Handoff_Configured(q) ==
    [forceReauth |-> ForceLogin(q) \/ q.maxAge = 0, maxAge |-> q.maxAge, aal |-> RequiredAAL]

(* What the UI is told: force_reauth, max_age and aal. *)
Handoff(q) ==
    [forceReauth |-> ForceLogin(q) \/ q.maxAge = 0,
     maxAge |-> q.maxAge,
     aal |-> HigherAAL(RequiredAAL, RequestedAAL(q))]

(* The login flow of Kratos to which the sample UI sends the browser (startLogin), *)
(* unless it answers 400, as it does to an aal3.                                   *)
KratosFlow(hints) ==
    [opens |-> hints.aal # 3,
     refresh |-> hints.forceReauth \/ hints.maxAge # NoMaxAge,
     aal |-> IF hints.aal = 0 THEN SampleLoginAAL ELSE hints.aal]

(* An accept says subject and acr; aal and authAt are the session's, its evidence. *)
LoginAccept(h, subject, acr, aal, authAt) ==
    [flow |-> "login", verdict |-> "accept", handle |-> h,
     subject |-> subject, acr |-> acr, aal |-> aal, authAt |-> authAt]

SilentPolicy(r) ==
    /\ pc[r] = "silentPolicy"
    /\ \E decision \in { LoginAccept(NoHandle, request[challenge[r]].subject, 0, 0, NoTime),
                         Reject("login", NoHandle) } :
        Decide(r, "silentPolicy", challenge[r], NoHandle, decision)

-------------------------------------------------------------------------------
(* CompleteLogin *)

CompleteLogin(r, h) == Load(r, LoginChallenges, "consumeLogin", h, None)

(* StartedAt of a login transaction: ExpiresAt is TTL later. *)
StartedAt(h) == issued[h] - TTL

(* The whole seconds that the age of an authentication rounds up to. *)
AgeSeconds(authAt) == (now - authAt + TicksPerSecond - 1) \div TicksPerSecond

(* MUTANT of Fresh: an authentication at StartedAt passes for a new one. *)
Fresh_NotStrict(q, h, authAt) ==
    "login" \in q.prompts \/ q.maxAge # NoMaxAge =>
        /\ authAt # NoTime /\ authAt <= now
        /\ "login" \in q.prompts \/ q.maxAge = 0 => authAt >= StartedAt(h)
        /\ q.maxAge \notin {NoMaxAge, 0} => AgeSeconds(authAt) <= q.maxAge

(* validateLoginFreshness *)
Fresh(q, h, authAt) ==
    "login" \in q.prompts \/ q.maxAge # NoMaxAge =>
        /\ authAt # NoTime /\ authAt <= now
        /\ "login" \in q.prompts \/ q.maxAge = 0 => authAt > StartedAt(h)
        /\ q.maxAge \notin {NoMaxAge, 0} => AgeSeconds(authAt) <= q.maxAge

(* A session may lack AuthenticatedAt, and Kratos' clock may be ahead of ours. *)
LoginSessions ==
    [subject : Subjects, aal : AALs, authAt : {NoTime} \cup 0 .. now + 1]

LoginSessionAccepted(q, h, s) ==
    /\ q.subject \in {NoSubject, s.subject}
    /\ Fresh(q, h, s.authAt)
    /\ AALAtLeast(s.aal, HigherAAL(RequiredAAL, RequestedAAL(q)))

(* The sessions of browsers that have been through that flow since. *)
FlowSessions(flow, h) ==
    {s \in LoginSessions :
        /\ flow.opens
        /\ s.authAt # NoTime /\ s.authAt <= now /\ s.aal >= flow.aal
        /\ flow.refresh => s.authAt > StartedAt(h)}

(* Kratos vouches for a session, and the policy is asked about it. *)
LoginSession(r) ==
    /\ Goto(r, "loginKratos", "loginPolicy")
    /\ \E s \in LoginSessions :
        /\ LoginSessionAccepted(request[challenge[r]], handle[r], s)
        /\ session' = [session EXCEPT ![r] = s]
    /\ UNCHANGED <<challenge, handle, expiresAt, form, answer, storeVars, worldVars>>

(* MUTANT of LoginSessionRefused: the handler returns the error and rejects nothing. *)
LoginSessionRefused_Silently(r) ==
    Finish(r, "loginKratos") /\ UNCHANGED <<storeVars, worldVars>>

(* Kratos fails, or the session does not do: the challenge is rejected. *)
LoginSessionRefused(r) ==
    Decide(r, "loginKratos", challenge[r], handle[r], Reject("login", handle[r]))

(* loginAcceptanceACR: what was asked for, by its name, or the session's level. *)
AcceptanceACR(q, s) == IF q.acrs = <<>> THEN s.aal ELSE ResolveACR(q.acrs)

(* The policy allows the login; it denies it, or fails. *)
LoginPolicy(r) ==
    /\ pc[r] = "loginPolicy"
    /\ LET s == session[r]
           acr == AcceptanceACR(request[challenge[r]], s)
       IN  \E decision \in { LoginAccept(handle[r], s.subject, acr, s.aal, s.authAt),
                             Reject("login", handle[r]) } :
            Decide(r, "loginPolicy", challenge[r], handle[r], decision)

LoginStep(r) ==
    \/ SilentPolicy(r)
    \/ Consume(r, "consumeLogin", "loginKratos")
    \/ ConsumeRefused(r, "consumeLogin")
    \/ ConsumeFails(r, "consumeLogin")
    \/ LoginSession(r)
    \/ LoginSessionRefused(r)
    \/ LoginPolicy(r)

BeginLogin(r) ==
    \/ \E c \in LoginChallenges :
        \/ RejectLogin(r, c)
        \/ StartSilentLogin(r, c)
        \/ StartInteractiveLogin(r, c)
    \/ \E h \in Handles : CompleteLogin(r, h)

===============================================================================

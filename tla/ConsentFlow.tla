------------------------------ MODULE ConsentFlow ------------------------------
(***************************************************************************)
(* StartConsent, CompleteConsent and acceptConsentDecision of              *)
(* internal/core/application/service.go.                                   *)
(*                                                                         *)
(* A request Hydra holds for a consent challenge is a record: subject,     *)
(* skip (clientSkip: skip_consent of the configured client), the set of    *)
(* its prompts, and the sets of scopes and audiences it asks for.          *)
(* Requests for an unknown client, or for scopes or audiences the client   *)
(* may not have, are turned away before anything changes.  The claims of   *)
(* the policy are not modelled.                                            *)
(***************************************************************************)
EXTENDS ProviderCore

CONSTANTS
    ConsentRequests,
    Scopes, Audiences

-------------------------------------------------------------------------------
(* StartConsent *)

ConsentPromptsValid(q) == "none" \in q.prompts => q.prompts = {"none"}

ConsentNeedsUser(q) == ~q.skip /\ ~q.clientSkip

(* prompt=none cannot be honoured: the challenge is rejected. *)
ConsentRequired(r, c) ==
    /\ ConsentPromptsValid(request[c])
    /\ "none" \in request[c].prompts /\ ConsentNeedsUser(request[c])
    /\ Decide(r, "idle", c, NoHandle, Reject("consent", NoHandle))

(* MUTANT of StartConsent: the rejection of prompt=none does not return. *)
StartConsent_NoneGoesOn(r, c) ==
    /\ ConsentPromptsValid(request[c])
    /\ BeginCreate(r, c)

(* Even a request that can be skipped goes through the UI. *)
StartConsent(r, c) ==
    /\ ConsentPromptsValid(request[c])
    /\ "none" \in request[c].prompts => ~ConsentNeedsUser(request[c])
    /\ BeginCreate(r, c)

-------------------------------------------------------------------------------
(* CompleteConsent *)

(* What a browser can post: nothing restrains it. *)
Forms == [deny : BOOLEAN, scopes : SUBSET Scopes, audiences : SUBSET Audiences]

(* No audience selects every audience of the transaction. *)
AskedAudiences(q, f) == IF f.audiences = {} THEN q.audiences ELSE f.audiences

Asked(q, f) == f.scopes \subseteq q.scopes /\ AskedAudiences(q, f) \subseteq q.audiences

DenyConsent(r, h) == Load(r, ConsentChallenges, "consumeDeny", h, None)

(* load, then the checks of the form, then ValidateSession. *)
GrantConsent(r, h) ==
    /\ Loads(h, ConsentChallenges)
    /\ \E f \in Forms :
        /\ ~f.deny /\ Asked(request[challengeOf[h]], f)
        /\ Load(r, ConsentChallenges, "consentKratos", h, f)

(* A grant of more than was requested rejects the challenge; nothing is consumed. *)
GrantTooMuch(r, h) ==
    /\ Loads(h, ConsentChallenges)
    /\ \E f \in Forms : ~f.deny /\ ~Asked(request[challengeOf[h]], f)
    /\ Decide(r, "idle", challengeOf[h], h, Reject("consent", h))

(* MUTANT of ConsentSession: the policy is asked before the transaction is consumed. *)
ConsentSession_NotConsumed(r) ==
    /\ Goto(r, "consentKratos", "consentPolicy")
    /\ \E s \in [subject : Subjects, aal : AALs] :
        /\ s.subject = request[challenge[r]].subject
        /\ AALAtLeast(s.aal, RequiredAAL)
        /\ session' = [session EXCEPT ![r] = s]
    /\ UNCHANGED <<challenge, handle, expiresAt, form, answer, storeVars, worldVars>>

(* Kratos vouches for the subject at the required level. *)
ConsentSession(r) ==
    /\ Goto(r, "consentKratos", "consumeConsent")
    /\ \E s \in [subject : Subjects, aal : AALs] :
        /\ s.subject = request[challenge[r]].subject
        /\ AALAtLeast(s.aal, RequiredAAL)
        /\ session' = [session EXCEPT ![r] = s]
    /\ UNCHANGED <<challenge, handle, expiresAt, form, answer, storeVars, worldVars>>

(* Kratos fails or the session does not do; again nothing is consumed. *)
ConsentSessionRefused(r) ==
    Decide(r, "consentKratos", challenge[r], handle[r], Reject("consent", handle[r]))

(* The denial is consumed, then sent. *)
Deny(r) ==
    /\ Goto(r, "consumeDeny", "answer")
    /\ Port!Consume(handle[r])
    /\ answer' = [answer EXCEPT ![r] = Reject("consent", handle[r])]
    /\ UNCHANGED <<challenge, handle, expiresAt, form, session, worldVars>>

-------------------------------------------------------------------------------
(* acceptConsentDecision *)

ConsentAccept(h, s, asked, scopes, audiences) ==
    [flow |-> "consent", verdict |-> "accept", handle |-> h, session |-> s, asked |-> asked,
     scopes |-> scopes, audiences |-> audiences]

(* MUTANT of ConsentAllowed: grants are compared with the request, not the form. *)
ConsentAllowed_Requested(r) ==
    /\ pc[r] = "consentPolicy"
    /\ \E scopes \in SUBSET Scopes, audiences \in SUBSET Audiences :
        /\ scopes \subseteq request[challenge[r]].scopes
        /\ audiences \subseteq request[challenge[r]].audiences
        /\ Decide(r, "consentPolicy", challenge[r], handle[r],
                  ConsentAccept(handle[r], session[r], form[r], scopes, audiences))

(* The policy may answer anything; its grants must not exceed what was asked. *)
ConsentAllowed(r) ==
    /\ pc[r] = "consentPolicy"
    /\ \E scopes \in SUBSET Scopes, audiences \in SUBSET Audiences :
        /\ scopes \subseteq form[r].scopes
        /\ audiences \subseteq AskedAudiences(request[challenge[r]], form[r])
        /\ Decide(r, "consentPolicy", challenge[r], handle[r],
                  ConsentAccept(handle[r], session[r], form[r], scopes, audiences))

(* It denies, fails, or grants too much. *)
ConsentRefused(r) ==
    Decide(r, "consentPolicy", challenge[r], handle[r], Reject("consent", handle[r]))

ConsentStep(r) ==
    \/ ConsentSession(r)
    \/ ConsentSessionRefused(r)
    \/ Deny(r)
    \/ \E from \in {"consumeDeny", "consumeConsent"} :
        ConsumeRefused(r, from) \/ ConsumeFails(r, from)
    \/ Consume(r, "consumeConsent", "consentPolicy")
    \/ ConsentAllowed(r)
    \/ ConsentRefused(r)

BeginConsent(r) ==
    \/ \E c \in ConsentChallenges : ConsentRequired(r, c) \/ StartConsent(r, c)
    \/ \E h \in Handles : DenyConsent(r, h) \/ GrantConsent(r, h) \/ GrantTooMuch(r, h)

===============================================================================

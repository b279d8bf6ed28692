------------------------------ MODULE ConsentGrant ------------------------------
(***************************************************************************)
(* What a consent grants: the scopes and audiences on their way from Hydra *)
(* through the form and the policy back to Hydra.  ConsentFlow lets the    *)
(* policy answer anything; here are the adapters that ship with the        *)
(* provider, policy/static.go and policy/http.go, and the checks of        *)
(* StartConsent, CompleteConsent and acceptConsentDecision around them.    *)
(*                                                                         *)
(* Scopes and audiences travel as lists, which can hold a name twice and a *)
(* blank.  The configuration is read once per process; a transaction in    *)
(* Redis outlives the process, and may be completed under another          *)
(* configuration than the one it was started under.                        *)
(***************************************************************************)
EXTENDS Naturals, Functions

CONSTANTS
    Scopes, Audiences, Blank,
    Subjects, Wildcard,     \* Wildcard is "*"
    Configs,                \* the configurations the process may be run with
    MaxList,                \* bound on the length of a list
    Missing                 \* a part of a reply that is not there

Lists(S) == UNION {[1 .. n -> S \cup {Blank}] : n \in 0 .. MaxList}

Grants == [scopes : Lists(Scopes), audiences : Lists(Audiences)]

(***************************************************************************)
(* A configuration: the client's AllowedScopes and AllowedAudiences        *)
(* (client = FALSE: it was removed), the policy backend, and for the static*)
(* one ALLOWED_SUBJECTS, ALLOWED_SUBJECT_SCOPES of the client and whether  *)
(* the environment is secure, which is what makes scope rules required.    *)
(***************************************************************************)
ConfigType ==
    [client : BOOLEAN, scopes : SUBSET Scopes, audiences : SUBSET Audiences,
     backend : {"static", "http"}, subjects : SUBSET (Subjects \cup {Wildcard}),
     secure : BOOLEAN,
     rules : UNION {[D -> SUBSET Scopes] : D \in SUBSET (Subjects \cup {Wildcard})}]

ASSUME NamesAssumption == Blank \notin Scopes \cup Audiences /\ Wildcard \notin Subjects
ASSUME ConfigsAssumption == Configs \subseteq ConfigType
ASSUME MaxListAssumption == MaxList \in Nat

VARIABLES
    config,
    stage,
    subject,
    requested,      \* the lists of the transaction
    asked,          \* the lists the policy is asked about
    reply,          \* history: the reply of the remote policy; Missing: none
    said,           \* history: what the adapter returned
    grant           \* what Hydra's acceptance carries

vars == <<config, stage, subject, requested, asked, reply, said, grant>>

Stages == {"new", "pending", "policy", "accepted", "rejected", "lost"}
Empty == [scopes |-> <<>>, audiences |-> <<>>]

Init ==
    /\ config \in Configs
    /\ stage = "new"
    /\ subject \in Subjects
    /\ requested = Empty
    /\ asked = Empty
    /\ reply = Missing
    /\ said = "nothing"
    /\ grant = Empty

-------------------------------------------------------------------------------
(* service.go: the checks on lists *)

(* validateScopes and validateAudiences *)
Allowlisted(list, allowed) == IsInjective(list) /\ Range(list) \subseteq allowed

(* validateRequestedSubset and validateAudienceSubset *)
RequestedSubset(requests, grants) == IsInjective(grants) /\ Range(grants) \subseteq Range(requests)

(* MUTANT of ClientAllows: a transaction is trusted to have been checked when it was started. *)
ClientAllows_Trusting(q) ==
    stage = "new" => /\ config.client
                     /\ Allowlisted(q.scopes, config.scopes)
                     /\ Allowlisted(q.audiences, config.audiences)

ClientAllows(q) ==
    /\ config.client
    /\ Allowlisted(q.scopes, config.scopes)
    /\ Allowlisted(q.audiences, config.audiences)

Within(g, q) ==
    /\ RequestedSubset(q.scopes, g.scopes)
    /\ RequestedSubset(q.audiences, g.audiences)

(* An omitted audience selects every audience of the transaction. *)
Selected(form) ==
    IF form.audiences = <<>> THEN [form EXCEPT !.audiences = requested.audiences] ELSE form

StartConsent(q) ==
    /\ stage = "new"
    /\ ClientAllows(q)
    /\ stage' = "pending"
    /\ requested' = q
    /\ UNCHANGED <<config, subject, asked, reply, said, grant>>

(***************************************************************************)
(* The checks of the session are those of ConsentFlow; here it is good.    *)
(* A form that fails is rejected at Hydra, and leaves the transaction.     *)
(***************************************************************************)
CompleteConsent(form) ==
    /\ stage = "pending"
    /\ Within(Selected(form), requested)
    /\ ClientAllows(requested)
    /\ stage' = "policy"
    /\ asked' = Selected(form)
    /\ UNCHANGED <<config, subject, requested, reply, said, grant>>

-------------------------------------------------------------------------------
(* policy/static.go *)

(* Static.allowed; its clients are those of the configuration. *)
SubjectAllowed == config.subjects \cap {subject, Wildcard} # {}

(* MUTANT of Rule: the wildcard rule adds to the rule of the subject. *)
Rule_Union ==
    UNION {config.rules[s] : s \in DOMAIN config.rules \cap {subject, Wildcard}}

(* The rule of the subject, else the wildcard rule; no rule allows nothing. *)
Rule ==
    CASE subject \in DOMAIN config.rules -> config.rules[subject]
      [] subject \notin DOMAIN config.rules /\ Wildcard \in DOMAIN config.rules ->
            config.rules[Wildcard]
      [] OTHER -> {}

HasRule == DOMAIN config.rules \cap {subject, Wildcard} # {}

(* Static.AuthorizeConsent *)
StaticAllows ==
    /\ SubjectAllowed
    /\ Blank \notin Range(requested.audiences)
    /\ config.secure => HasRule /\ Range(asked.scopes) \subseteq Rule

StaticDecision ==
    IF StaticAllows
    THEN [says |-> "allow",
          grant |-> IF asked.audiences = <<>>
                    THEN [asked EXCEPT !.audiences = requested.audiences] ELSE asked]
    ELSE [says |-> "deny", grant |-> Empty]

-------------------------------------------------------------------------------
(* policy/http.go *)

Allowances == {"yes", "no", Missing}

(* A reply that was read and decoded; any of its fields may be missing. *)
Replies ==
    [v1 : BOOLEAN, allowed : Allowances, scopes : Lists(Scopes) \cup {Missing},
     audiences : Lists(Audiences) \cup {Missing}, claims : BOOLEAN]

ASSUME MissingAssumption == Missing \notin Replies

(* validateValues *)
ValidValues(list) == IsInjective(list) /\ Blank \notin Range(list)

WellFormed(r) ==
    /\ r.v1
    /\ r.allowed # Missing /\ r.scopes # Missing /\ r.audiences # Missing
    /\ ValidValues(r.scopes) /\ ValidValues(r.audiences)

(* A denial must carry nothing. *)
Denies(r) == r.allowed = "no" /\ r.scopes = <<>> /\ r.audiences = <<>> /\ ~r.claims

(* MUTANT of Narrows: grants are compared with the request, not with the selection. *)
Narrows_Request(r) ==
    /\ Range(r.scopes) \subseteq Range(requested.scopes)
    /\ Range(r.audiences) \subseteq Range(requested.audiences)

Narrows(r) ==
    /\ Range(r.scopes) \subseteq Range(asked.scopes)
    /\ Range(r.audiences) \subseteq
        Range(IF asked.audiences = <<>> THEN requested.audiences ELSE asked.audiences)

(* policyResponse.decision *)
HTTPDecision(r) ==
    CASE WellFormed(r) /\ r.allowed = "yes" /\ Narrows(r) ->
            [says |-> "allow", grant |-> [scopes |-> r.scopes, audiences |-> r.audiences]]
      [] WellFormed(r) /\ Denies(r) -> [says |-> "deny", grant |-> Empty]
      [] OTHER -> [says |-> "error", grant |-> Empty]

-------------------------------------------------------------------------------
(* acceptConsentDecision *)

(* MUTANT of Submit: Hydra is told what the user selected. *)
Submit_Selection(decision) ==
    /\ said' = decision.says
    /\ IF decision.says = "allow" /\ Within(decision.grant, asked)
       THEN stage' = "accepted" /\ grant' = asked
       ELSE stage' = "rejected" /\ UNCHANGED grant

(* What follows the answer of the policy: its grants are checked again. *)
Submit(decision) ==
    /\ said' = decision.says
    /\ IF decision.says = "allow" /\ Within(decision.grant, asked)
       THEN stage' = "accepted" /\ grant' = decision.grant
       ELSE stage' = "rejected" /\ UNCHANGED grant

StaticAnswers ==
    /\ stage = "policy" /\ config.backend = "static"
    /\ Submit(StaticDecision)
    /\ UNCHANGED <<config, subject, requested, asked, reply>>

HTTPAnswers(r) ==
    /\ stage = "policy" /\ config.backend = "http"
    /\ Submit(HTTPDecision(r))
    /\ reply' = r
    /\ UNCHANGED <<config, subject, requested, asked>>

(* A timeout, a redirect or another status, or a body that is not JSON. *)
HTTPFails ==
    /\ stage = "policy" /\ config.backend = "http"
    /\ Submit([says |-> "error", grant |-> Empty])
    /\ UNCHANGED <<config, subject, requested, asked, reply>>

(* The process is run again, with another configuration.  Its request dies. *)
Restart(c) ==
    /\ stage \in {"new", "pending", "policy"}
    /\ config' = c
    /\ stage' = IF stage = "policy" THEN "lost" ELSE stage
    /\ UNCHANGED <<subject, requested, asked, reply, said, grant>>

Next ==
    \/ \E g \in Grants : StartConsent(g) \/ CompleteConsent(g)
    \/ StaticAnswers
    \/ \E r \in Replies : HTTPAnswers(r)
    \/ HTTPFails
    \/ \E c \in Configs : Restart(c)

Spec == Init /\ [][Next]_vars

-------------------------------------------------------------------------------
(* Properties *)

(* The lists the core has checked hold no blank and no name twice. *)
Checked ==
    [scopes : {l \in Lists(Scopes) : ValidValues(l)},
     audiences : {l \in Lists(Audiences) : ValidValues(l)}]

(* Types of the variables. *)
TypeOK ==
    /\ config \in Configs
    /\ stage \in Stages
    /\ subject \in Subjects
    /\ requested \in Checked /\ asked \in Checked /\ grant \in Checked
    /\ reply \in Replies \cup {Missing}
    /\ said \in {"nothing", "allow", "deny", "error"}

(***************************************************************************)
(* Grants only shrink on their way: what acceptConsentDecision sends Hydra *)
(* is a list without repetitions of what the user selected, which Hydra    *)
(* requested, which the client may have under the configuration in force   *)
(* now, not the one the transaction was started under.                     *)
(***************************************************************************)
GrantsOnlyShrink ==
    stage = "accepted" =>
        /\ Within(grant, asked) /\ Within(asked, requested)
        /\ config.client
        /\ Range(requested.scopes) \subseteq config.scopes
        /\ Range(requested.audiences) \subseteq config.audiences

(***************************************************************************)
(* The adapters and the core agree on what a policy may grant: whatever an *)
(* adapter lets pass, the checks of acceptConsentDecision let pass, so that*)
(* an allowed consent never ends as temporarily_unavailable.               *)
(***************************************************************************)
AllowedIsAccepted == said = "allow" => stage = "accepted"

(***************************************************************************)
(* The policy has the last word: an acceptance grants exactly what a well  *)
(* formed reply of the remote policy lists, be it less than the user       *)
(* selected, and nothing is granted on any other reply.                    *)
(***************************************************************************)
PolicyHasLastWord ==
    stage = "accepted" /\ config.backend = "http" =>
        /\ reply # Missing
        /\ reply.v1 /\ reply.allowed = "yes"
        /\ grant = [scopes |-> reply.scopes, audiences |-> reply.audiences]

(***************************************************************************)
(* In a secure environment the static policy grants a subject nothing that *)
(* a rule of its own leaves out, whatever the wildcard rule allows, and    *)
(* nothing at all without a rule.                                          *)
(***************************************************************************)
StaticRulesBind ==
    stage = "accepted" /\ config.backend = "static" =>
        /\ subject \in config.subjects \/ Wildcard \in config.subjects
        /\ config.secure => \E s \in DOMAIN config.rules :
            /\ s = subject \/ (s = Wildcard /\ subject \notin DOMAIN config.rules)
            /\ Range(grant.scopes) \subseteq config.rules[s]

===============================================================================

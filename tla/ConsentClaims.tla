------------------------------ MODULE ConsentClaims ------------------------------
(***************************************************************************)
(* The end of acceptConsentDecision: which claims go into the tokens with  *)
(* the scopes that ConsentGrant has decided on.  It is filterClaims of     *)
(* core/application/service.go over what core/identity/claims.go derives   *)
(* from the Kratos session and what the policy supplies, between the       *)
(* startup validation of the allowlists and the refusal of UserInfo claims *)
(* by the Hydra adapter.                                                   *)
(*                                                                         *)
(* A claim object is a function from names to values.  The mapping of a    *)
(* claim (JSON pointers, transform, type and format) appears as the source *)
(* value it selects and the set Valid of values its type admits.           *)
(***************************************************************************)
EXTENDS ConsentGrant

CONSTANTS
    Names, Values,
    Lower,          \* strings.ToLower on names
    Text,           \* the values that are strings; none of them is blank
    Trim,           \* strings.TrimSpace on values
    Fold,           \* what strings.EqualFold does not tell apart
    Valid,          \* name :> the values validClaimValue admits
    ClaimConfigs,   \* allowlists and mappings an operator may write
    Sessions,       \* sessions Kratos may return
    ClaimReplies    \* claims the policy may return

Destinations == {"id_token", "access_token", "userinfo"}

(* A claim object, an allowlist of one destination, a verifiable address. *)
Object(f) == DOMAIN f \subseteq Names /\ f \in [DOMAIN f -> Values]
Allowlist(f) == DOMAIN f \subseteq Names
Addresses == [value : Values, email : BOOLEAN, verified : BOOLEAN, completed : BOOLEAN]

True == "true"
False == "false"

ASSUME ClaimNamesAssumption ==
    {"email", "email_verified"} \subseteq Names /\ Lower \in [Names -> Names]
ASSUME ValuesAssumption ==
    /\ {True, False} \subseteq Values \ Text /\ Text \subseteq Values
    /\ Trim \in [Values -> Values] /\ Fold \in [Values -> Values]
    /\ Valid \in [Names -> SUBSET Values]
ASSUME ClaimConfigsAssumption ==
    \A c \in ClaimConfigs :
        c.mapped \subseteq Names /\ \A d \in Destinations : Allowlist(c.allow[d])
ASSUME SessionsAssumption ==
    \A s \in Sessions : Object(s.source) /\ s.addresses \subseteq Addresses
ASSUME ClaimRepliesAssumption ==
    \A r \in ClaimReplies : DOMAIN r = Destinations /\ \A d \in Destinations : Object(r[d])

VARIABLES
    claimConfig,    \* the part of the configuration that is about claims
    session,        \* what Kratos vouched for
    claims,         \* history: the claims of the policy
    sent            \* what Hydra was given

claimVars == <<claimConfig, session, claims, sent>>
decisionVars == <<vars, claimVars>>

NoClaims == [d \in Destinations |-> <<>>]

DecisionInit ==
    /\ Init
    /\ claimConfig = [allow |-> NoClaims, mapped |-> {}]
    /\ session = [source |-> <<>>, addresses |-> {}]
    /\ claims = NoClaims
    /\ sent = NoClaims

-------------------------------------------------------------------------------
(* claims.go: names *)

ReservedClaims ==
    {"acr", "acr_values", "access_token", "amr", "at_hash", "aud", "auth_time", "azp", "c_hash",
     "client_id", "code", "consent", "consent_challenge", "cty", "error", "error_description",
     "error_uri", "exp", "expires_in", "grant_type", "id_token", "iat", "iss", "jti",
     "login_challenge", "logout_challenge", "nbf", "nonce", "redirect_uri", "refresh_token",
     "response_type", "scope", "session", "sid", "s_hash", "state", "sub", "token_type", "typ"}

(* MUTANT of IsReservedClaim: the case of a name makes a difference. *)
IsReservedClaim_ExactCase(n) == n \in ReservedClaims

IsReservedClaim(n) == Lower[n] \in ReservedClaims

ProfileClaims ==
    {"name", "family_name", "given_name", "middle_name", "nickname", "preferred_username",
     "profile", "picture", "website", "gender", "birthdate", "zoneinfo", "locale", "updated_at"}

RequiredScopes(n) ==
    CASE n \in {"email", "email_verified"} -> {"email"}
      [] n \in ProfileClaims -> {"profile"}
      [] n \in {"phone_number", "phone_number_verified"} -> {"phone"}
      [] n = "address" -> {"address"}
      [] OTHER -> {}

-------------------------------------------------------------------------------
(* Startup *)

(* validateClaimAllowlist *)
ValidAllowlist(allowed) ==
    \A n \in DOMAIN allowed : ~IsReservedClaim(n) /\ allowed[n] \subseteq config.scopes

(* ClaimMappings.Validate *)
ValidMappings(mapped) == \A n \in mapped : ~IsReservedClaim(n)

(* What the process that decides this consent can have been started with. *)
ValidClaimConfig(c) ==
    /\ \A d \in Destinations : ValidAllowlist(c.allow[d])
    /\ ValidMappings(c.mapped)

(***************************************************************************)
(* The decision is made.  Of the grant only the scopes bear on the claims; *)
(* the rest of the request is forgotten here.                              *)
(***************************************************************************)
Decided(c) ==
    /\ stage = "accepted"
    /\ ValidClaimConfig(c)
    /\ stage' = "claims"
    /\ claimConfig' = c
    /\ grant' = [grant EXCEPT !.audiences = <<>>]
    /\ requested' = Empty /\ asked' = Empty /\ reply' = Missing /\ said' = "nothing"
    /\ UNCHANGED <<config, subject, session, claims, sent>>

-------------------------------------------------------------------------------
(* The session *)

(* What kratos.Client.ValidateSession had returned to CompleteConsent. *)
ValidateSession(s) ==
    /\ stage = "claims"
    /\ stage' = "session"
    /\ session' = s
    /\ UNCHANGED <<config, subject, requested, asked, reply, said, grant, claimConfig, claims, sent>>

(* MUTANT of verifiedEmails: a verification that was only sent counts. *)
verifiedEmails_Pending == {Trim[a.value] : a \in {a \in session.addresses : a.email /\ a.verified}}

(* sessionResponse.verifiedEmails *)
verifiedEmails ==
    {Trim[a.value] : a \in {a \in session.addresses : a.email /\ a.verified /\ a.completed}}

(* mappingValue: strings are trimmed. *)
MappingValue(n) == IF session.source[n] \in Text THEN Trim[session.source[n]] ELSE session.source[n]

(* validClaimValue: types, formats and URLs appear as the values they let pass. *)
ValidClaimValue(n, value) == value \in Valid[n]

(* ClaimMappings.Derive *)
Derive ==
    [n \in {n \in claimConfig.mapped \cap DOMAIN session.source : ValidClaimValue(n, MappingValue(n))} |->
        MappingValue(n)]

-------------------------------------------------------------------------------
(* filterClaims *)

(* The allowlist of a destination has the name, and its scopes are granted. *)
Allowed(n, d, granted) == n \in DOMAIN claimConfig.allow[d] /\ claimConfig.allow[d][n] \subseteq granted

(* MUTANT of filterClaimMap: the policy stands in for a value Kratos does not have. *)
filterClaimMap_FillsIn(source, d, granted) ==
    Restrict(source, {n \in DOMAIN source :
        ~IsReservedClaim(n) /\ n \notin DOMAIN Derive /\ Allowed(n, d, granted)})

(* Claims of the policy, except those that are mapped. *)
filterClaimMap(source, d, granted) ==
    Restrict(source, {n \in DOMAIN source :
        ~IsReservedClaim(n) /\ n \notin claimConfig.mapped /\ Allowed(n, d, granted)})

(* Claims of the identity also need the standard scope. *)
filterIdentityClaimMap(source, d, granted) ==
    Restrict(source, {n \in DOMAIN source : Allowed(n, d, granted) /\ RequiredScopes(n) \subseteq granted})

mergeClaims(base, overlay) ==
    [n \in DOMAIN base \cup DOMAIN overlay |->
        IF n \in DOMAIN overlay THEN overlay[n] ELSE base[n]]

(* The identity replaces what the policy said. *)
Merged(supplied, d, granted) ==
    mergeClaims(filterClaimMap(supplied[d], d, granted), filterIdentityClaimMap(Derive, d, granted))

EmailVerified(value) == [n \in {"email_verified"} |-> value]

EmailVerifiedAllowed(d, granted) ==
    DOMAIN filterIdentityClaimMap(EmailVerified(True), d, granted) # {}

(* An email is emitted, as a string that is not empty. *)
EmitsEmail(token) == "email" \in DOMAIN token /\ token["email"] \in Text

Verified(email) == \E address \in verifiedEmails : Fold[Trim[email]] = Fold[address]

(* Whatever the policy or the traits say of email_verified is dropped. *)
setVerifiedEmailClaim(token, d, granted) ==
    LET others == Restrict(token, DOMAIN token \ {"email_verified"}) IN
    IF EmailVerifiedAllowed(d, granted) /\ EmitsEmail(others)
    THEN mergeClaims(others, EmailVerified(IF Verified(others["email"]) THEN True ELSE False))
    ELSE others

filterClaims(supplied, granted) ==
    [d \in Destinations |-> setVerifiedEmailClaim(Merged(supplied, d, granted), d, granted)]

-------------------------------------------------------------------------------
(* acceptConsentDecision, and AcceptConsent of hydra/http.go *)

(* MUTANT of AcceptConsent: UserInfo claims are left out without a word. *)
AcceptConsent_DropsUserInfo(tokens) ==
    stage' = "sent" /\ sent' = [tokens EXCEPT !["userinfo"] = <<>>]

(* Hydra has no place for UserInfo claims: the consent fails. *)
AcceptConsent(tokens) ==
    \/ DOMAIN tokens["userinfo"] = {} /\ stage' = "sent" /\ sent' = tokens
    \/ DOMAIN tokens["userinfo"] # {} /\ stage' = "failed" /\ UNCHANGED sent

GrantedScopes == Range(grant.scopes)

(* MUTANT of SendClaims: the filter goes by what the client may have, not by what was granted. *)
SendClaims_ClientScopes(supplied) ==
    /\ stage = "session"
    /\ config.backend = "static" => supplied = NoClaims
    /\ claims' = supplied
    /\ AcceptConsent(filterClaims(supplied, config.scopes))
    /\ UNCHANGED <<config, subject, requested, asked, reply, said, grant, claimConfig, session>>

(***************************************************************************)
(* The claims of the policy, which only the remote one supplies, and those *)
(* of the identity, for the granted scopes.                                *)
(***************************************************************************)
SendClaims(supplied) ==
    /\ stage = "session"
    /\ config.backend = "static" => supplied = NoClaims
    /\ claims' = supplied
    /\ AcceptConsent(filterClaims(supplied, GrantedScopes))
    /\ UNCHANGED <<config, subject, requested, asked, reply, said, grant, claimConfig, session>>

DecisionNext ==
    \/ Next /\ UNCHANGED claimVars
    \/ \E c \in ClaimConfigs : Decided(c)
    \/ \E s \in Sessions : ValidateSession(s)
    \/ \E supplied \in ClaimReplies : SendClaims(supplied)

DecisionSpec == DecisionInit /\ [][DecisionNext]_decisionVars

-------------------------------------------------------------------------------
(* Properties *)

(***************************************************************************)
(* No claim that OAuth or OpenID Connect owns reaches a token, whatever    *)
(* the operator configures and the policy returns, in any spelling.        *)
(***************************************************************************)
NoReservedClaims ==
    \A d \in Destinations : \A n \in DOMAIN sent[d] : Lower[n] \notin ReservedClaims

(***************************************************************************)
(* Every claim in a token is one the client is entitled to there: the      *)
(* allowlist of that destination names it, the scopes it demands were      *)
(* granted, and for a claim of the identity the standard scope as well.    *)
(***************************************************************************)
ClaimsEntitled ==
    \A d \in Destinations : \A n \in DOMAIN sent[d] :
        /\ n \in DOMAIN claimConfig.allow[d] /\ claimConfig.allow[d][n] \subseteq GrantedScopes
        /\ n \in claimConfig.mapped \cup {"email_verified"} => RequiredScopes(n) \subseteq GrantedScopes

(***************************************************************************)
(* A claim has one source: Kratos for the mapped names, also where Kratos  *)
(* has no value, and otherwise the object the policy returned for the same *)
(* destination.  Nothing is copied from one destination to another.        *)
(***************************************************************************)
ClaimsKeepTheirSource ==
    \A d \in Destinations : \A n \in DOMAIN sent[d] \ {"email_verified"} :
        IF n \in claimConfig.mapped
        THEN n \in DOMAIN session.source /\ sent[d][n] \in {session.source[n], Trim[session.source[n]]}
        ELSE n \in DOMAIN claims[d] /\ sent[d][n] = claims[d][n]

(***************************************************************************)
(* email_verified = true is never claimed without the evidence of Kratos:  *)
(* the same token carries an email which is the one of an address that     *)
(* Kratos has verified completely.  Neither traits nor the policy count.   *)
(***************************************************************************)
VerifiedHasEvidence ==
    \A d \in Destinations :
        "email_verified" \in DOMAIN sent[d] /\ sent[d]["email_verified"] = True =>
            /\ "email" \in DOMAIN sent[d]
            /\ \E a \in session.addresses :
                /\ a.email /\ a.verified /\ a.completed
                /\ Fold[Trim[a.value]] = Fold[Trim[sent[d]["email"]]]

(***************************************************************************)
(* No claim is lost in silence: when a consent is accepted, each claim the *)
(* policy returned and the client is entitled to is in the token it was    *)
(* returned for.  UserInfo claims, which Hydra would drop, fail it.        *)
(***************************************************************************)
NoSilentLoss ==
    stage = "sent" =>
        \A d \in Destinations : \A n \in DOMAIN claims[d] \ (claimConfig.mapped \cup {"email_verified"}) :
            n \in DOMAIN claimConfig.allow[d] /\ claimConfig.allow[d][n] \subseteq GrantedScopes =>
                n \in DOMAIN sent[d]

(***************************************************************************)
(* docs/configuration.md:159 says of email_verified that it "is an         *)
(* explicitly mapped boolean and is never inferred".                       *)
(***************************************************************************)
EmailVerifiedIsMapped ==
    \A d \in Destinations :
        "email_verified" \in DOMAIN sent[d] => "email_verified" \in claimConfig.mapped

===============================================================================

--------------------------- MODULE ConsentProofs ---------------------------
(***************************************************************************)
(* Proofs about a consent, for all names, lists, configurations, sessions  *)
(* and replies.  The first half is about the grant: it only shrinks,       *)
(* whatever the policy answers.  The second half is about the claims:      *)
(* which of them reach the tokens.                                         *)
(*                                                                         *)
(* What the properties of the grants need beside the types is what holds   *)
(* while the policy is asked: the checks of CompleteConsent hold of the    *)
(* lists under the configuration in force (a restart, which could change   *)
(* it, ends the request), and no audience is asked for only if none was    *)
(* requested.                                                              *)
(***************************************************************************)
EXTENDS ConsentClaims, TLAPS

AskedInv ==
    stage = "policy" =>
        /\ Within(asked, requested) /\ ClientAllows(requested)
        /\ asked.audiences = <<>> => requested.audiences = <<>>

(* Nothing was said before the policy is asked. *)
SaidInv == stage \in {"new", "pending", "policy"} => said = "nothing"

GrantInv ==
    /\ AskedInv /\ SaidInv
    /\ GrantsOnlyShrink /\ AllowedIsAccepted /\ PolicyHasLastWord /\ StaticRulesBind

-------------------------------------------------------------------------------
(* Lemmas about lists *)

(* The empty list is a list, without blanks or repetitions. *)
LEMMA EmptyChecked == Empty \in Checked
<1>1. ASSUME NEW S PROVE <<>> \in Lists(S)
  BY MaxListAssumption DEF Lists
<1>. QED
  BY <1>1 DEF Empty, Checked, ValidValues, IsInjective, Range

(* What passes the subset check against a checked list is a checked list. *)
LEMMA SubsetChecked ==
    ASSUME NEW q \in Checked, NEW g \in Grants, Within(g, q)
    PROVE  g \in Checked
  BY DEF Within, RequestedSubset, Checked, Grants, ValidValues

(* A list passes the subset check against itself when it has no repetitions. *)
LEMMA WithinItself ==
    ASSUME NEW g \in Checked
    PROVE  Within(g, g)
  BY DEF Within, RequestedSubset, Checked, ValidValues

(* A list that the client may have holds no blanks. *)
LEMMA AllowedChecked ==
    ASSUME NEW q \in Grants, config \in Configs, ClientAllows(q)
    PROVE  q \in Checked
  BY ConfigsAssumption, NamesAssumption
     DEF ClientAllows, Allowlisted, Grants, Checked, ValidValues, ConfigType

(* Choosing every audience leaves a selection of lists. *)
LEMMA SelectedGrants ==
    ASSUME NEW form \in Grants, requested \in Checked
    PROVE  /\ Selected(form) \in Grants
           /\ Selected(form).audiences = <<>> => requested.audiences = <<>>
  BY DEF Selected, Grants, Checked

(* A static decision to allow grants what was asked. *)
LEMMA StaticGrantsAsked ==
    ASSUME TypeOK, AskedInv, stage = "policy", StaticDecision.says = "allow"
    PROVE  StaticAllows /\ StaticDecision.grant = asked
  BY DEF StaticDecision, TypeOK, AskedInv, Checked

(* A remote decision to allow grants what the reply lists, within what was asked. *)
LEMMA HTTPGrantsReply ==
    ASSUME TypeOK, AskedInv, stage = "policy", NEW r \in Replies, HTTPDecision(r).says = "allow"
    PROVE  /\ r.v1 /\ r.allowed = "yes"
           /\ HTTPDecision(r).grant = [scopes |-> r.scopes, audiences |-> r.audiences]
           /\ HTTPDecision(r).grant \in Grants
           /\ Within(HTTPDecision(r).grant, asked)
<1>1. WellFormed(r) /\ r.allowed = "yes" /\ Narrows(r)
      /\ HTTPDecision(r).grant = [scopes |-> r.scopes, audiences |-> r.audiences]
  BY DEF HTTPDecision
<1>2. r.scopes \in Lists(Scopes) /\ r.audiences \in Lists(Audiences)
  BY <1>1 DEF WellFormed, Replies
<1>3. Range(r.audiences) \subseteq Range(asked.audiences)
  BY <1>1 DEF Narrows, AskedInv
<1>. QED
  BY <1>1, <1>2, <1>3 DEF WellFormed, ValidValues, Narrows, Within, RequestedSubset, Grants

-------------------------------------------------------------------------------
(* Types *)

(* The initial state is well typed. *)
LEMMA InitType == Init => TypeOK
  BY EmptyChecked DEF Init, TypeOK, Stages

(* Submitting a decision whose grant is made of lists keeps the types. *)
LEMMA SubmitType ==
    ASSUME TypeOK, NEW d \in [says : {"allow", "deny", "error"}, grant : Grants], Submit(d)
    PROVE  /\ stage' \in Stages
           /\ said' \in {"nothing", "allow", "deny", "error"}
           /\ grant' \in Checked
  BY SubsetChecked DEF Submit, TypeOK, Stages

(* What the static policy returns is a decision. *)
LEMMA StaticDecisionType ==
    ASSUME TypeOK
    PROVE  StaticDecision \in [says : {"allow", "deny", "error"}, grant : Grants]
  BY EmptyChecked DEF StaticDecision, TypeOK, Checked, Grants

(* What the remote policy's adapter returns is a decision. *)
LEMMA HTTPDecisionType ==
    ASSUME NEW r \in Replies
    PROVE  HTTPDecision(r) \in [says : {"allow", "deny", "error"}, grant : Grants]
<1>1. Empty \in Grants
  BY EmptyChecked DEF Checked, Grants
<1>2. CASE WellFormed(r) /\ r.allowed = "yes" /\ Narrows(r)
  <2>1. [scopes |-> r.scopes, audiences |-> r.audiences] \in Grants
    BY <1>2 DEF WellFormed, Replies, Grants
  <2>2. HTTPDecision(r) = [says |-> "allow",
                           grant |-> [scopes |-> r.scopes, audiences |-> r.audiences]]
    BY <1>2 DEF HTTPDecision, Denies
  <2>. QED
    BY <2>1, <2>2
<1>3. CASE ~(WellFormed(r) /\ r.allowed = "yes" /\ Narrows(r)) /\ WellFormed(r) /\ Denies(r)
  BY <1>1, <1>3 DEF HTTPDecision
<1>4. CASE ~(WellFormed(r) /\ r.allowed = "yes" /\ Narrows(r)) /\ ~(WellFormed(r) /\ Denies(r))
  BY <1>1, <1>4 DEF HTTPDecision
<1>. QED
  BY <1>2, <1>3, <1>4

(* Every step keeps the types. *)
LEMMA NextType == TypeOK /\ [Next]_vars => TypeOK'
<1>. SUFFICES ASSUME TypeOK, [Next]_vars PROVE TypeOK'
  OBVIOUS
<1>1. ASSUME NEW g \in Grants, StartConsent(g) PROVE TypeOK'
  BY <1>1, AllowedChecked DEF StartConsent, TypeOK, Stages
<1>2. ASSUME NEW g \in Grants, CompleteConsent(g) PROVE TypeOK'
  <2>1. asked' \in Checked
    BY <1>2, SelectedGrants, SubsetChecked DEF CompleteConsent, TypeOK
  <2>. QED
    BY <1>2, <2>1 DEF CompleteConsent, TypeOK, Stages
<1>3. CASE StaticAnswers
  BY <1>3, SubmitType, StaticDecisionType DEF StaticAnswers, TypeOK
<1>4. ASSUME NEW r \in Replies, HTTPAnswers(r) PROVE TypeOK'
  BY <1>4, SubmitType, HTTPDecisionType DEF HTTPAnswers, TypeOK
<1>5. CASE HTTPFails
  BY <1>5 DEF HTTPFails, Submit, TypeOK, Stages
<1>6. ASSUME NEW c \in Configs, Restart(c) PROVE TypeOK'
  BY <1>6 DEF Restart, TypeOK, Stages
<1>7. CASE UNCHANGED vars
  BY <1>7 DEF vars, TypeOK
<1>. QED
  BY <1>1, <1>2, <1>3, <1>4, <1>5, <1>6, <1>7 DEF Next

(* Every variable keeps its type; the lists of the core are checked ones. *)
THEOREM GrantTypeCorrect == Spec => []TypeOK
<1>. QED
  BY InitType, NextType, PTL DEF Spec

-------------------------------------------------------------------------------
(* Grants *)

(* The invariant holds at first. *)
LEMMA InitGrant == Init => GrantInv
  BY DEF Init, GrantInv, AskedInv, SaidInv, GrantsOnlyShrink, AllowedIsAccepted,
         PolicyHasLastWord, StaticRulesBind

(* Every step keeps the invariant. *)
LEMMA NextGrant == TypeOK /\ GrantInv /\ [Next]_vars => GrantInv'
<1>. SUFFICES ASSUME TypeOK, GrantInv, [Next]_vars PROVE GrantInv'
  OBVIOUS
<1>. USE DEF GrantInv
<1>1. ASSUME NEW g \in Grants, StartConsent(g) PROVE GrantInv'
  BY <1>1 DEF StartConsent, AskedInv, SaidInv, GrantsOnlyShrink, AllowedIsAccepted,
              PolicyHasLastWord, StaticRulesBind
<1>2. ASSUME NEW g \in Grants, CompleteConsent(g) PROVE GrantInv'
  <2>1. AskedInv'
    BY <1>2, SelectedGrants DEF CompleteConsent, AskedInv, TypeOK, ClientAllows, Allowlisted
  <2>. QED
    BY <1>2, <2>1 DEF CompleteConsent, SaidInv, GrantsOnlyShrink, AllowedIsAccepted,
                      PolicyHasLastWord, StaticRulesBind
<1>3. CASE StaticAnswers
  <2>1. CASE StaticDecision.says = "allow"
    <3>1. /\ StaticAllows /\ said' = "allow" /\ stage' = "accepted" /\ grant' = asked
          /\ UNCHANGED <<config, subject, requested, asked, reply>>
      BY <1>3, <2>1, StaticGrantsAsked, WithinItself DEF StaticAnswers, Submit, TypeOK
    <3>2. StaticRulesBind'
      <4>1. subject \in config.subjects \/ Wildcard \in config.subjects
        BY <3>1 DEF StaticAllows, SubjectAllowed
      <4>2. ASSUME config.secure
            PROVE  \E s \in DOMAIN config.rules :
                     /\ s = subject \/ (s = Wildcard /\ subject \notin DOMAIN config.rules)
                     /\ Range(asked.scopes) \subseteq config.rules[s]
        BY <3>1, <4>2 DEF StaticAllows, HasRule, Rule
      <4>. QED
        BY <3>1, <4>1, <4>2 DEF StaticRulesBind
    <3>3. GrantsOnlyShrink'
      BY <1>3, <3>1, WithinItself
         DEF StaticAnswers, TypeOK, AskedInv, ClientAllows, Allowlisted, GrantsOnlyShrink
    <3>. QED
      BY <1>3, <3>1, <3>2, <3>3
         DEF StaticAnswers, AskedInv, SaidInv, AllowedIsAccepted, PolicyHasLastWord
  <2>2. CASE StaticDecision.says # "allow"
    BY <1>3, <2>2 DEF StaticAnswers, Submit, AskedInv, SaidInv, GrantsOnlyShrink,
                      AllowedIsAccepted, PolicyHasLastWord, StaticRulesBind
  <2>. QED
    BY <2>1, <2>2
<1>4. ASSUME NEW r \in Replies, HTTPAnswers(r) PROVE GrantInv'
  <2>1. CASE HTTPDecision(r).says = "allow"
    <3>1. /\ said' = "allow" /\ stage' = "accepted" /\ reply' = r
          /\ grant' = [scopes |-> r.scopes, audiences |-> r.audiences]
          /\ Within(grant', asked) /\ r.v1 /\ r.allowed = "yes"
          /\ UNCHANGED <<config, subject, requested, asked>>
      BY <1>4, <2>1, HTTPGrantsReply DEF HTTPAnswers, Submit
    <3>2. GrantsOnlyShrink'
      BY <1>4, <3>1 DEF HTTPAnswers, AskedInv, ClientAllows, Allowlisted, GrantsOnlyShrink
    <3>3. PolicyHasLastWord'
      BY <3>1, MissingAssumption DEF PolicyHasLastWord
    <3>. QED
      BY <1>4, <3>1, <3>2, <3>3
         DEF HTTPAnswers, AskedInv, SaidInv, AllowedIsAccepted, StaticRulesBind
  <2>2. CASE HTTPDecision(r).says # "allow"
    BY <1>4, <2>2 DEF HTTPAnswers, Submit, AskedInv, SaidInv, GrantsOnlyShrink,
                      AllowedIsAccepted, PolicyHasLastWord, StaticRulesBind
  <2>. QED
    BY <2>1, <2>2
<1>5. CASE HTTPFails
  BY <1>5 DEF HTTPFails, Submit, AskedInv, SaidInv, GrantsOnlyShrink, AllowedIsAccepted,
              PolicyHasLastWord, StaticRulesBind
<1>6. ASSUME NEW c \in Configs, Restart(c) PROVE GrantInv'
  BY <1>6 DEF Restart, AskedInv, SaidInv, GrantsOnlyShrink, AllowedIsAccepted,
              PolicyHasLastWord, StaticRulesBind
<1>7. CASE UNCHANGED vars
  BY <1>7 DEF vars, AskedInv, SaidInv, GrantsOnlyShrink, AllowedIsAccepted, PolicyHasLastWord,
              StaticRulesBind, Within, RequestedSubset, ClientAllows, Allowlisted
<1>. QED
  BY <1>1, <1>2, <1>3, <1>4, <1>5, <1>6, <1>7 DEF Next

(* The stages that follow the decision on the grant. *)
LateStages == {"claims", "session", "sent", "failed"}

(* The decision on the grant is made in stages of its own, under the configuration in force. *)
LEMMA GrantStages ==
    ASSUME Next
    PROVE  stage \notin LateStages /\ stage' \notin LateStages
<1>1. ASSUME NEW g, StartConsent(g) \/ CompleteConsent(g)
      PROVE  stage \notin LateStages /\ stage' \notin LateStages
  BY <1>1 DEF StartConsent, CompleteConsent, LateStages
<1>2. ASSUME NEW decision, stage = "policy", Submit(decision)
      PROVE  stage \notin LateStages /\ stage' \notin LateStages
  BY <1>2 DEF Submit, LateStages
<1>3. ASSUME StaticAnswers \/ (\E r \in Replies : HTTPAnswers(r)) \/ HTTPFails
      PROVE  stage = "policy" /\ \E decision : Submit(decision)
  BY <1>3 DEF StaticAnswers, HTTPAnswers, HTTPFails
<1>4. ASSUME NEW c, Restart(c)
      PROVE  stage \notin LateStages /\ stage' \notin LateStages
  BY <1>4 DEF Restart, LateStages
<1> QED
  BY <1>1, <1>2, <1>3, <1>4 DEF Next

(***************************************************************************)
(* Throughout a decision the invariant of the grants holds until the       *)
(* claims are at issue, and from then on nothing is said of the grant.     *)
(***************************************************************************)
DecisionInv ==
    \/ stage \in LateStages /\ said = "nothing"
    \/ TypeOK /\ GrantInv

(* The invariant holds in every state of a decision. *)
LEMMA GrantInvariant == DecisionSpec => []DecisionInv
<1>1. DecisionInit => DecisionInv
  BY InitType, InitGrant DEF DecisionInit, DecisionInv
<1>2. ASSUME DecisionInv, [DecisionNext]_decisionVars PROVE DecisionInv'
  <2>1. CASE Next /\ UNCHANGED claimVars
    BY <1>2, <2>1, GrantStages, NextType, NextGrant DEF DecisionInv
  <2>2. ASSUME NEW c \in ClaimConfigs, Decided(c) PROVE DecisionInv'
    BY <2>2 DEF Decided, DecisionInv, LateStages
  <2>3. ASSUME NEW s \in Sessions, ValidateSession(s) PROVE DecisionInv'
    BY <1>2, <2>3 DEF ValidateSession, DecisionInv, TypeOK, Stages, LateStages
  <2>4. ASSUME NEW supplied \in ClaimReplies, SendClaims(supplied) PROVE DecisionInv'
    BY <1>2, <2>4 DEF SendClaims, AcceptConsent, DecisionInv, TypeOK, Stages, LateStages
  <2>5. CASE UNCHANGED decisionVars
    <3>1. UNCHANGED vars
      BY <2>5 DEF decisionVars
    <3>2. TypeOK /\ GrantInv => TypeOK' /\ GrantInv'
      BY <3>1, NextType, NextGrant
    <3> QED
      BY <1>2, <3>1, <3>2 DEF DecisionInv, vars
  <2> QED
    BY <1>2, <2>1, <2>2, <2>3, <2>4, <2>5 DEF DecisionNext
<1> QED
  BY <1>1, <1>2, PTL DEF DecisionSpec

(* What Hydra is told was selected, requested and allowed to the client now. *)
THEOREM GrantsShrink == DecisionSpec => []GrantsOnlyShrink
<1>1. DecisionInv => GrantsOnlyShrink
  BY DEF DecisionInv, LateStages, GrantInv, GrantsOnlyShrink
<1>. QED
  BY <1>1, GrantInvariant, PTL

(* The core never refuses what an adapter has let pass. *)
THEOREM AllowanceStands == DecisionSpec => []AllowedIsAccepted
<1>1. DecisionInv => AllowedIsAccepted
  BY DEF DecisionInv, LateStages, GrantInv, AllowedIsAccepted
<1>. QED
  BY <1>1, GrantInvariant, PTL

(* An acceptance under the remote policy is what its reply lists. *)
THEOREM RemoteReplyObeyed == DecisionSpec => []PolicyHasLastWord
<1>1. DecisionInv => PolicyHasLastWord
  BY DEF DecisionInv, LateStages, GrantInv, PolicyHasLastWord
<1>. QED
  BY <1>1, GrantInvariant, PTL

(* An acceptance under the static policy obeys the rule of its subject. *)
THEOREM StaticRulesObeyed == DecisionSpec => []StaticRulesBind
<1>1. DecisionInv => StaticRulesBind
  BY DEF DecisionInv, LateStages, GrantInv, StaticRulesBind
<1>. QED
  BY <1>1, GrantInvariant, PTL

-------------------------------------------------------------------------------
(***************************************************************************)
(* Claims                                                                  *)
(*                                                                         *)
(* Before a token is sent there is nothing to say, and afterwards nothing  *)
(* changes; what is sent is right because the configuration in force was   *)
(* validated when the process was started (ClaimsInv), and because of what *)
(* the filters return: a claim of the identity where the name is mapped    *)
(* (IdentityClaims), a claim of the policy where it is not (PolicyClaims), *)
(* and email_verified only beside an email (TokenClaims, TokenVerified).   *)
(***************************************************************************)
ClaimsOK ==
    /\ NoReservedClaims /\ ClaimsEntitled /\ ClaimsKeepTheirSource
    /\ VerifiedHasEvidence /\ NoSilentLoss

ClaimsInv ==
    /\ stage \in LateStages => ValidClaimConfig(claimConfig)
    /\ stage # "sent" => sent = NoClaims
    /\ ClaimsOK

(* The claims of the identity in a token: mapped, allowed there, and of the session. *)
LEMMA IdentityClaims ==
    ASSUME NEW d, NEW granted, NEW n \in DOMAIN filterIdentityClaimMap(Derive, d, granted)
    PROVE  /\ n \in claimConfig.mapped /\ n \in DOMAIN session.source
           /\ filterIdentityClaimMap(Derive, d, granted)[n] = MappingValue(n)
           /\ Allowed(n, d, granted) /\ RequiredScopes(n) \subseteq granted
<1>1. /\ n \in DOMAIN Derive
      /\ Allowed(n, d, granted) /\ RequiredScopes(n) \subseteq granted
      /\ filterIdentityClaimMap(Derive, d, granted)[n] = Derive[n]
  BY DEF filterIdentityClaimMap, Restrict
<1>2. n \in claimConfig.mapped \cap DOMAIN session.source /\ Derive[n] = MappingValue(n)
  BY <1>1 DEF Derive
<1> QED
  BY <1>1, <1>2

(* The claims of the policy in a token: as they were returned, where they are allowed. *)
LEMMA PolicyClaims ==
    ASSUME NEW source, NEW d, NEW granted, NEW n
    PROVE  /\ n \in DOMAIN filterClaimMap(source, d, granted) <=>
                 /\ n \in DOMAIN source /\ n \notin claimConfig.mapped
                 /\ ~IsReservedClaim(n) /\ Allowed(n, d, granted)
           /\ n \in DOMAIN filterClaimMap(source, d, granted) =>
                 filterClaimMap(source, d, granted)[n] = source[n]
BY DEF filterClaimMap, Restrict

(* A token without email_verified, and one that was given it. *)
LEMMA MarkedToken ==
    ASSUME NEW token, NEW d, NEW granted
    PROVE  LET others == Restrict(token, DOMAIN token \ {"email_verified"})
               result == setVerifiedEmailClaim(token, d, granted) IN
           \/ result = others
           \/ /\ EmailVerifiedAllowed(d, granted) /\ "email" \in DOMAIN others
              /\ DOMAIN result = DOMAIN others \cup {"email_verified"}
              /\ \A n \in DOMAIN others : result[n] = others[n]
              /\ result["email_verified"] = True => Verified(others["email"])
<1> DEFINE others == Restrict(token, DOMAIN token \ {"email_verified"})
           verdict == IF Verified(others["email"]) THEN True ELSE False
           mark == EmailVerified(verdict)
           marked == mergeClaims(others, mark)
<1>1. "email_verified" \notin DOMAIN others
  BY DEF Restrict
<1>2. verdict = True => Verified(others["email"])
  BY DEF True, False
<1>3. setVerifiedEmailClaim(token, d, granted) =
        IF EmailVerifiedAllowed(d, granted) /\ EmitsEmail(others) THEN marked ELSE others
  BY DEF setVerifiedEmailClaim
<1>4. EmitsEmail(others) => "email" \in DOMAIN others
  BY DEF EmitsEmail
<1> HIDE DEF others, verdict
<1>5. DOMAIN mark = {"email_verified"} /\ mark["email_verified"] = verdict
  BY DEF EmailVerified
<1> HIDE DEF mark
<1>6. /\ DOMAIN marked = DOMAIN others \cup {"email_verified"}
      /\ \A n \in DOMAIN others : marked[n] = others[n]
      /\ marked["email_verified"] = verdict
  BY <1>1, <1>5 DEF mergeClaims
<1> HIDE DEF marked
<1> QED
  BY <1>2, <1>3, <1>4, <1>6 DEF others

(* What is not email_verified is in a token as it was merged. *)
LEMMA TokenClaims ==
    ASSUME NEW token, NEW d, NEW granted, NEW n, n # "email_verified"
    PROVE  LET result == setVerifiedEmailClaim(token, d, granted) IN
           /\ n \in DOMAIN result <=> n \in DOMAIN token
           /\ n \in DOMAIN result => result[n] = token[n]
<1> DEFINE others == Restrict(token, DOMAIN token \ {"email_verified"})
<1>1. /\ n \in DOMAIN others <=> n \in DOMAIN token
      /\ n \in DOMAIN others => others[n] = token[n]
  BY DEF Restrict
<1> DEFINE result == setVerifiedEmailClaim(token, d, granted)
<1>2. \/ result = others
      \/ /\ EmailVerifiedAllowed(d, granted) /\ "email" \in DOMAIN others
         /\ DOMAIN result = DOMAIN others \cup {"email_verified"}
         /\ \A x \in DOMAIN others : result[x] = others[x]
         /\ result["email_verified"] = True => Verified(others["email"])
  BY MarkedToken
<1> HIDE DEF others, result
<1>3. /\ n \in DOMAIN result <=> n \in DOMAIN token
      /\ n \in DOMAIN result => result[n] = token[n]
  BY <1>1, <1>2
<1> QED
  BY <1>3 DEF result

(* email_verified is in a token where it is allowed, beside an email, and says what Kratos says. *)
LEMMA TokenVerified ==
    ASSUME NEW token, NEW d, NEW granted,
           "email_verified" \in DOMAIN setVerifiedEmailClaim(token, d, granted)
    PROVE  LET result == setVerifiedEmailClaim(token, d, granted) IN
           /\ EmailVerifiedAllowed(d, granted)
           /\ "email" \in DOMAIN result
           /\ result["email_verified"] = True => Verified(result["email"])
<1> DEFINE others == Restrict(token, DOMAIN token \ {"email_verified"})
<1>1. "email_verified" \notin DOMAIN others
  BY DEF Restrict
<1> DEFINE result == setVerifiedEmailClaim(token, d, granted)
<1>2. \/ result = others
      \/ /\ EmailVerifiedAllowed(d, granted) /\ "email" \in DOMAIN others
         /\ DOMAIN result = DOMAIN others \cup {"email_verified"}
         /\ \A n \in DOMAIN others : result[n] = others[n]
         /\ result["email_verified"] = True => Verified(others["email"])
  BY MarkedToken
<1> HIDE DEF others, result
<1>3. /\ EmailVerifiedAllowed(d, granted)
      /\ "email" \in DOMAIN result
      /\ result["email_verified"] = True => Verified(result["email"])
  BY <1>1, <1>2 DEF result
<1> QED
  BY <1>3 DEF result

(* email_verified is subject to the allowlist and the scope of the standard, too. *)
LEMMA VerifiedEntitled ==
    ASSUME NEW d, NEW granted, EmailVerifiedAllowed(d, granted)
    PROVE  Allowed("email_verified", d, granted) /\ RequiredScopes("email_verified") \subseteq granted
<1> DEFINE source == EmailVerified(True)
<1>1. DOMAIN source = {"email_verified"}
  BY DEF EmailVerified
<1> HIDE DEF source
<1>2. PICK n \in DOMAIN source : Allowed(n, d, granted) /\ RequiredScopes(n) \subseteq granted
  BY DEF EmailVerifiedAllowed, filterIdentityClaimMap, Restrict, source
<1> QED
  BY <1>1, <1>2

(* What a token is sent with, under a configuration that was validated. *)
LEMMA TokenSent ==
    ASSUME ValidClaimConfig(claimConfig), NEW supplied, NEW d \in Destinations, NEW granted
    PROVE  LET token == filterClaims(supplied, granted)[d] IN
           /\ \A n \in DOMAIN token :
                /\ Lower[n] \notin ReservedClaims
                /\ Allowed(n, d, granted)
                /\ n \in claimConfig.mapped \cup {"email_verified"} => RequiredScopes(n) \subseteq granted
                /\ n # "email_verified" =>
                    IF n \in claimConfig.mapped
                    THEN n \in DOMAIN session.source /\ token[n] = MappingValue(n)
                    ELSE n \in DOMAIN supplied[d] /\ token[n] = supplied[d][n]
           /\ "email_verified" \in DOMAIN token =>
                /\ "email" \in DOMAIN token
                /\ token["email_verified"] = True => Verified(token["email"])
           /\ \A n \in DOMAIN supplied[d] \ (claimConfig.mapped \cup {"email_verified"}) :
                Allowed(n, d, granted) => n \in DOMAIN token
<1> DEFINE merged == Merged(supplied, d, granted)
           token == setVerifiedEmailClaim(merged, d, granted)
           policy == filterClaimMap(supplied[d], d, granted)
           identity == filterIdentityClaimMap(Derive, d, granted)
<1>1. filterClaims(supplied, granted)[d] = token
  BY DEF filterClaims
<1>2. \A n : Allowed(n, d, granted) => ~IsReservedClaim(n)
  BY DEF ValidClaimConfig, ValidAllowlist, Allowed
<1>3. /\ DOMAIN merged = DOMAIN policy \cup DOMAIN identity
      /\ \A n \in DOMAIN merged : merged[n] = IF n \in DOMAIN identity THEN identity[n] ELSE policy[n]
  BY DEF Merged, mergeClaims
<1>4. \A n \in DOMAIN identity :
        /\ n \in claimConfig.mapped /\ n \in DOMAIN session.source /\ identity[n] = MappingValue(n)
        /\ Allowed(n, d, granted) /\ RequiredScopes(n) \subseteq granted
  BY IdentityClaims
<1>5. \A n : /\ n \in DOMAIN policy <=>
                  /\ n \in DOMAIN supplied[d] /\ n \notin claimConfig.mapped
                  /\ ~IsReservedClaim(n) /\ Allowed(n, d, granted)
             /\ n \in DOMAIN policy => policy[n] = supplied[d][n]
  BY PolicyClaims
<1>6. \A n : n # "email_verified" =>
        (n \in DOMAIN token <=> n \in DOMAIN merged) /\ (n \in DOMAIN token => token[n] = merged[n])
  BY TokenClaims
<1>7. "email_verified" \in DOMAIN token =>
        /\ EmailVerifiedAllowed(d, granted) /\ "email" \in DOMAIN token
        /\ token["email_verified"] = True => Verified(token["email"])
  BY TokenVerified
<1>8. EmailVerifiedAllowed(d, granted) =>
        Allowed("email_verified", d, granted) /\ RequiredScopes("email_verified") \subseteq granted
  BY VerifiedEntitled
<1> HIDE DEF merged, token, policy, identity
<1>9. ASSUME NEW n \in DOMAIN token
      PROVE  /\ Lower[n] \notin ReservedClaims
             /\ Allowed(n, d, granted)
             /\ n \in claimConfig.mapped \cup {"email_verified"} => RequiredScopes(n) \subseteq granted
             /\ n # "email_verified" =>
                IF n \in claimConfig.mapped
                THEN n \in DOMAIN session.source /\ token[n] = MappingValue(n)
                ELSE n \in DOMAIN supplied[d] /\ token[n] = supplied[d][n]
  <2>1. CASE n = "email_verified"
    BY <2>1, <1>2, <1>7, <1>8 DEF IsReservedClaim
  <2>2. CASE n # "email_verified" /\ n \in DOMAIN identity
    BY <2>2, <1>2, <1>3, <1>4, <1>6 DEF IsReservedClaim
  <2>3. CASE n # "email_verified" /\ n \notin DOMAIN identity
    BY <2>3, <1>2, <1>3, <1>5, <1>6 DEF IsReservedClaim
  <2> QED
    BY <2>1, <2>2, <2>3
<1>10. ASSUME NEW n \in DOMAIN supplied[d] \ (claimConfig.mapped \cup {"email_verified"}),
              Allowed(n, d, granted)
       PROVE  n \in DOMAIN token
  BY <1>2, <1>3, <1>5, <1>6, <1>10
<1> QED
  BY <1>1, <1>7, <1>9, <1>10

(* Nothing can be wrong with the claims before they are sent. *)
LEMMA NothingSent == sent = NoClaims /\ stage # "sent" => ClaimsOK
<1>1. sent = NoClaims => \A d \in Destinations : DOMAIN sent[d] = {}
  BY DEF NoClaims
<1> QED
  BY <1>1 DEF ClaimsOK, NoReservedClaims, ClaimsEntitled, ClaimsKeepTheirSource, VerifiedHasEvidence, NoSilentLoss

(* Sending the claims keeps what is said of them. *)
LEMMA SendKeeps ==
    ASSUME ClaimsInv, NEW supplied, SendClaims(supplied)
    PROVE  ClaimsInv'
<1> DEFINE tokens == filterClaims(supplied, GrantedScopes)
<1>1. /\ stage = "session" /\ claims' = supplied /\ AcceptConsent(tokens)
      /\ UNCHANGED <<config, grant, claimConfig, session>>
  BY DEF SendClaims
<1>2. ValidClaimConfig(claimConfig) /\ sent = NoClaims
  BY <1>1 DEF ClaimsInv, LateStages
<1>3. ValidClaimConfig(claimConfig)'
  BY <1>1, <1>2 DEF ValidClaimConfig, ValidAllowlist, ValidMappings, IsReservedClaim
<1>4. CASE stage' = "failed" /\ UNCHANGED sent
  <2>1. (sent = NoClaims /\ stage # "sent")'
    BY <1>2, <1>4 DEF NoClaims
  <2>2. ClaimsOK'
    BY <2>1, NothingSent, PTL
  <2> QED
    BY <1>3, <2>1, <2>2 DEF ClaimsInv
<1>5. CASE stage' = "sent" /\ sent' = tokens
  <2> DEFINE granted == GrantedScopes
  <2>1. GrantedScopes' = granted
    BY <1>1 DEF GrantedScopes
  <2>2. ASSUME NEW d \in Destinations
        PROVE  /\ \A n \in DOMAIN sent'[d] :
                    /\ Lower[n] \notin ReservedClaims
                    /\ Allowed(n, d, granted)
                    /\ n \in claimConfig.mapped \cup {"email_verified"} => RequiredScopes(n) \subseteq granted
                    /\ n # "email_verified" =>
                        IF n \in claimConfig.mapped
                        THEN n \in DOMAIN session.source /\ sent'[d][n] = MappingValue(n)
                        ELSE n \in DOMAIN supplied[d] /\ sent'[d][n] = supplied[d][n]
               /\ "email_verified" \in DOMAIN sent'[d] =>
                    /\ "email" \in DOMAIN sent'[d]
                    /\ sent'[d]["email_verified"] = True => Verified(sent'[d]["email"])
               /\ \A n \in DOMAIN supplied[d] \ (claimConfig.mapped \cup {"email_verified"}) :
                    Allowed(n, d, granted) => n \in DOMAIN sent'[d]
    BY <1>2, <1>5, TokenSent
  <2> HIDE DEF tokens, granted
  <2>3. NoReservedClaims'
    BY <2>2 DEF NoReservedClaims
  <2>4. ClaimsEntitled'
    BY <1>1, <2>1, <2>2 DEF ClaimsEntitled, Allowed
  <2>5. ClaimsKeepTheirSource'
    BY <1>1, <2>2 DEF ClaimsKeepTheirSource, MappingValue
  <2>6. VerifiedHasEvidence'
    BY <1>1, <2>2 DEF VerifiedHasEvidence, Verified, verifiedEmails
  <2>7. NoSilentLoss'
    BY <1>1, <2>1, <2>2 DEF NoSilentLoss, Allowed
  <2> QED
    BY <1>3, <1>5, <2>3, <2>4, <2>5, <2>6, <2>7 DEF ClaimsInv, ClaimsOK
<1> QED
  BY <1>1, <1>4, <1>5 DEF AcceptConsent

(* What is sent is right in every state. *)
THEOREM ClaimsInvariant == DecisionSpec => []ClaimsInv
<1>1. ASSUME DecisionInit PROVE ClaimsInv
  <2>1. stage = "new" /\ sent = NoClaims
    BY <1>1 DEF DecisionInit, Init
  <2> QED
    BY <2>1, NothingSent DEF ClaimsInv, LateStages
<1>2. ASSUME ClaimsInv, [DecisionNext]_decisionVars PROVE ClaimsInv'
  <2>1. CASE Next /\ UNCHANGED claimVars
    <3>1. stage \notin LateStages /\ stage' \notin LateStages
      BY <2>1, GrantStages
    <3>2. (sent = NoClaims /\ stage # "sent")'
      BY <1>2, <2>1, <3>1 DEF ClaimsInv, claimVars, LateStages, NoClaims
    <3>3. ClaimsOK'
      BY <3>2, NothingSent, PTL
    <3> QED
      BY <3>1, <3>2, <3>3 DEF ClaimsInv
  <2>2. ASSUME NEW c \in ClaimConfigs, Decided(c) PROVE ClaimsInv'
    <3>1. (sent = NoClaims /\ stage # "sent")'
      BY <1>2, <2>2 DEF Decided, ClaimsInv, NoClaims
    <3>2. ClaimsOK'
      BY <3>1, NothingSent, PTL
    <3>3. ValidClaimConfig(claimConfig)'
      BY <2>2 DEF Decided, ValidClaimConfig, ValidAllowlist, ValidMappings, IsReservedClaim
    <3> QED
      BY <3>1, <3>2, <3>3 DEF ClaimsInv
  <2>3. ASSUME NEW s \in Sessions, ValidateSession(s) PROVE ClaimsInv'
    <3>1. (sent = NoClaims /\ stage # "sent")'
      BY <1>2, <2>3 DEF ValidateSession, ClaimsInv, NoClaims
    <3>2. ClaimsOK'
      BY <3>1, NothingSent, PTL
    <3>3. ValidClaimConfig(claimConfig)'
      BY <1>2, <2>3
         DEF ValidateSession, ClaimsInv, LateStages, ValidClaimConfig, ValidAllowlist, ValidMappings, IsReservedClaim
    <3> QED
      BY <3>1, <3>2, <3>3 DEF ClaimsInv
  <2>4. ASSUME NEW supplied \in ClaimReplies, SendClaims(supplied) PROVE ClaimsInv'
    BY <1>2, <2>4, SendKeeps
  <2>5. CASE UNCHANGED decisionVars
    BY <1>2, <2>5
       DEF decisionVars, vars, claimVars, ClaimsInv, ClaimsOK, ValidClaimConfig, ValidAllowlist,
           ValidMappings, IsReservedClaim, NoClaims, NoReservedClaims, ClaimsEntitled, GrantedScopes,
           ClaimsKeepTheirSource, VerifiedHasEvidence, NoSilentLoss
  <2> QED
    BY <1>2, <2>1, <2>2, <2>3, <2>4, <2>5 DEF DecisionNext
<1> QED
  BY <1>1, <1>2, PTL DEF DecisionSpec

(* No claim of the protocol reaches a token, whatever is configured and returned. *)
THEOREM ReservedNeverSent == DecisionSpec => []NoReservedClaims
<1>1. ClaimsInv => NoReservedClaims
  BY DEF ClaimsInv, ClaimsOK
<1> QED
  BY <1>1, ClaimsInvariant, PTL

(* A client gets the claims it is entitled to, and no other. *)
THEOREM OnlyEntitledClaims == DecisionSpec => []ClaimsEntitled
<1>1. ClaimsInv => ClaimsEntitled
  BY DEF ClaimsInv, ClaimsOK
<1> QED
  BY <1>1, ClaimsInvariant, PTL

(* Each claim comes from the one source it has. *)
THEOREM OneSourcePerClaim == DecisionSpec => []ClaimsKeepTheirSource
<1>1. ClaimsInv => ClaimsKeepTheirSource
  BY DEF ClaimsInv, ClaimsOK
<1> QED
  BY <1>1, ClaimsInvariant, PTL

(* email_verified is true only on the word of Kratos about the email beside it. *)
THEOREM VerifiedOnEvidence == DecisionSpec => []VerifiedHasEvidence
<1>1. ClaimsInv => VerifiedHasEvidence
  BY DEF ClaimsInv, ClaimsOK
<1> QED
  BY <1>1, ClaimsInvariant, PTL

(* An accepted consent carries every claim of the policy that the client is entitled to. *)
THEOREM NothingLostSilently == DecisionSpec => []NoSilentLoss
<1>1. ClaimsInv => NoSilentLoss
  BY DEF ClaimsInv, ClaimsOK
<1> QED
  BY <1>1, ClaimsInvariant, PTL

===============================================================================

----------------------------- MODULE ProviderProofs -----------------------------
(***************************************************************************)
(* Proofs about the flows of the service, for every number of requests,    *)
(* transactions and challenges, every request Hydra may hold and every     *)
(* configuration: what Hydra is told is told by the right flow, on the     *)
(* strength of a transaction consumed for it, at most once, and justified  *)
(* by the session and the answers that led to it.                          *)
(*                                                                         *)
(* None of the properties is inductive: each speaks of the decisions that  *)
(* Hydra has received, and is decided many steps earlier.  The invariant   *)
(* says of every decision what justifies it (Justified), of every request  *)
(* in progress what it has established so far (Progress), and of every     *)
(* consumed transaction who may still spend it (Claims).                   *)
(***************************************************************************)
EXTENDS Provider, WellFoundedInduction, TLAPS

FlowOf(c) == CASE c \in LoginChallenges -> "login"
               [] c \in ConsentChallenges -> "consent"
               [] OTHER -> "logout"

(* What an interactive login has shown by the time the policy is asked. *)
LoginEvidence(c, h, s) ==
    LET q == request[c]
    IN  /\ s \in [subject : Subjects, aal : AALs, authAt : Times]
        /\ q.subject \in {NoSubject, s.subject}
        /\ s.aal >= RequiredAAL /\ s.aal >= RequestedAAL(q)
        /\ "login" \in q.prompts \/ q.maxAge = 0 => s.authAt \in Nat /\ s.authAt > StartedAt(h)
        /\ q.maxAge # NoMaxAge =>
            /\ s.authAt \in Nat /\ s.authAt <= now
            /\ s.authAt >= StartedAt(h) - q.maxAge * TicksPerSecond

(* acr is the first supported choice of the client. *)
FirstChoice(acrs, acr) ==
    /\ \E i \in DOMAIN acrs :
        acrs[i] = acr /\ \A j \in 1 .. i - 1 : acrs[j] \notin SupportedACRs
    /\ acr \in SupportedACRs

JustifiedLogin(c, d) ==
    LET q == request[c]
    IN  IF d.handle = NoHandle
        THEN /\ q.skip /\ d.subject = q.subject
             /\ q.acrs = <<>> /\ RequiredAAL = 0
             /\ {"login", "select_account"} \cap q.prompts = {}
        ELSE /\ LoginEvidence(c, d.handle, [subject |-> d.subject, aal |-> d.aal,
                                            authAt |-> d.authAt])
             /\ q.acrs # <<>> => FirstChoice(q.acrs, d.acr) /\ d.aal >= Level(d.acr)

ConsentEvidence(c, s) ==
    s \in ConsentSessions /\ s.subject = request[c].subject /\ s.aal >= RequiredAAL

JustifiedConsent(c, d) ==
    /\ ConsentEvidence(c, d.session)
    /\ d.asked \in Forms /\ Asked(request[c], d.asked)
    /\ d.scopes \subseteq d.asked.scopes
    /\ d.audiences \subseteq AskedAudiences(request[c], d.asked)

(* What has to hold when Hydra is told d about the challenge c, and stays so. *)
Justified(c, d) ==
    /\ c \in Challenges /\ d \in Decisions /\ d.flow = FlowOf(c)
    /\ d.handle # NoHandle => d.handle \in DOMAIN issued /\ challengeOf[d.handle] = c
    /\ d.verdict = "accept" =>
        /\ IF d.handle = NoHandle THEN c \in LoginChallenges ELSE uses[d.handle] = 1
        /\ c \in LoginChallenges => JustifiedLogin(c, d)
        /\ c \in ConsentChallenges => JustifiedConsent(c, d)

(* The challenges for which a browser may be sent to the UI. *)
Presentable(c) ==
    /\ c \in LoginChallenges =>
        LoginRequestValid(request[c]) /\ "none" \notin request[c].prompts /\ ~Silent(request[c])
    /\ c \in ConsentChallenges /\ "none" \in request[c].prompts =>
        request[c].skip \/ request[c].clientSkip

-------------------------------------------------------------------------------
(* The inductive invariant *)

Ledger ==
    /\ \A h \in DOMAIN issued : issued[h] <= now + TTL /\ Presentable(challengeOf[h])
    /\ \A h \in Handles : uses[h] = 1 => h \in DOMAIN issued /\ h \notin pending
    /\ \A c \in Challenges : \A i \in DOMAIN decisions[c] : Justified(c, decisions[c][i])

LoginPCs == {"consumeLogin", "loginKratos", "loginPolicy"}
ConsentPCs == {"consumeDeny", "consentKratos", "consumeConsent", "consentPolicy"}

(* What the handler of r has established where it stands. *)
Progress(r) ==
    LET c == challenge[r]
        h == handle[r]
    IN  /\ pc[r] = "create" =>
            c \in Challenges /\ Presentable(c) /\ expiresAt[r] <= now + TTL
        /\ pc[r] = "silentPolicy" =>
            c \in LoginChallenges /\ LoginRequestValid(request[c]) /\ Silent(request[c])
        /\ pc[r] \in LoginPCs \cup ConsentPCs \cup {"consumeLogout"} =>
            h \in DOMAIN issued /\ c = challengeOf[h]
        /\ pc[r] \in LoginPCs => c \in LoginChallenges
        /\ pc[r] \in ConsentPCs => c \in ConsentChallenges
        /\ pc[r] = "consumeLogout" => c \in LogoutChallenges
        /\ pc[r] = "loginPolicy" => LoginEvidence(c, h, session[r])
        /\ pc[r] \in ConsentPCs \ {"consumeDeny"} => form[r] \in Forms /\ Asked(request[c], form[r])
        /\ pc[r] \in {"consumeConsent", "consentPolicy"} => ConsentEvidence(c, session[r])
        /\ pc[r] = "answer" => answer[r].handle = h /\ Justified(c, answer[r])

(* The decisions that only the request which consumed the transaction takes. *)
Spends(d) == d.handle # NoHandle /\ (d.verdict = "accept" \/ d.flow # "consent")

(* The request r has consumed its transaction and has not told Hydra yet. *)
Holds(r) ==
    \/ pc[r] \in {"loginKratos", "loginPolicy", "consentPolicy"}
    \/ pc[r] = "answer" /\ Spends(answer[r])

(* One consumption, one holder, one decision. *)
Claims ==
    /\ \A r \in Requests : Holds(r) => handle[r] \in Handles /\ uses[handle[r]] = 1
    /\ \A q, r \in Requests : Holds(q) /\ Holds(r) /\ handle[q] = handle[r] => q = r
    /\ \A c \in Challenges : \A i \in DOMAIN decisions[c] :
        Spends(decisions[c][i]) =>
            /\ uses[decisions[c][i].handle] = 1
            /\ \A r \in Requests : Holds(r) => handle[r] # decisions[c][i].handle
    /\ \A b, c \in Challenges : \A i \in DOMAIN decisions[b], j \in DOMAIN decisions[c] :
        /\ Spends(decisions[b][i]) /\ Spends(decisions[c][j])
        /\ decisions[b][i].handle = decisions[c][j].handle
        => b = c /\ i = j

Inv == TypeOK /\ Ledger /\ (\A r \in Requests : Progress(r)) /\ Claims

-------------------------------------------------------------------------------
(* Assurance and freshness *)

(* A set of indices that is not empty has a least element. *)
LEMMA LeastIndex ==
    ASSUME NEW S \in SUBSET Nat, S # {}
    PROVE  \E n \in S : \A m \in S : n <= m
<1>. DEFINE Less == OpToRel(<, Nat)
<1>1. IsWellFoundedOn(Less, Nat)
  BY NatLessThanWellFounded, Zenon
<1>2. \A m, n \in Nat : <<m, n>> \in Less <=> m < n
  BY DEF OpToRel
<1>. HIDE DEF Less
<1>3. PICK n \in S : \A m \in S : <<m, n>> \notin Less
  BY <1>1, WFMin
<1>4. \A m \in S : ~(m < n)
  BY <1>2, <1>3
<1>. QED
  BY <1>4

(***************************************************************************)
(* ResolveACR finds the first supported value of every list that passes    *)
(* the checks of StartLogin, and its level is a level.                     *)
(***************************************************************************)
LEMMA ResolvedIsFirst ==
    ASSUME NEW q \in LoginRequests, ACRsValid(q.acrs), q.acrs # <<>>
    PROVE  FirstChoice(q.acrs, ResolveACR(q.acrs)) /\ Level(ResolveACR(q.acrs)) \in 1 .. 3
<1>. DEFINE acrs == q.acrs
            supported == {i \in DOMAIN acrs : acrs[i] \in SupportedACRs}
            first == CHOOSE i \in supported : \A j \in supported : i <= j
<1>1. DOMAIN acrs = 1 .. Len(acrs) /\ Len(acrs) \in Nat
  BY LoginRequestsAssumption
<1>2. supported \in SUBSET Nat /\ supported # {}
  BY <1>1 DEF ACRsValid
<1>3. first \in supported /\ \A j \in supported : first <= j
  BY <1>2, LeastIndex
<1>4. ResolveACR(acrs) = acrs[first]
  BY DEF ResolveACR
<1>. HIDE DEF first
<1>5. \A j \in 1 .. first - 1 : acrs[j] \notin SupportedACRs
  BY <1>1, <1>3
<1>6. \A acr \in SupportedACRs : Level(acr) \in 1 .. 3
  BY ACRAssumption DEF SupportedACRs, Level
<1>. QED
  BY <1>3, <1>4, <1>5, <1>6 DEF FirstChoice

(* The level that a valid request asks for is a level, or none. *)
LEMMA RequestedLevel ==
    ASSUME NEW q \in LoginRequests, LoginRequestValid(q)
    PROVE  RequestedAAL(q) \in 0 .. 3
  BY ResolvedIsFirst DEF RequestedAAL, LoginRequestValid

(***************************************************************************)
(* The age that CompleteLogin compares with max_age is rounded up to       *)
(* seconds, and the comparison is the one of the exact age.                *)
(***************************************************************************)
LEMMA AgeRoundsUp ==
    ASSUME now \in Int, NEW authAt \in Int, NEW maxAge \in Int
    PROVE  AgeSeconds(authAt) <= maxAge <=> now - authAt <= maxAge * TicksPerSecond
<1>. DEFINE t == TicksPerSecond
            a == now - authAt
            age == AgeSeconds(authAt)
<1>1. t \in Nat \ {0} /\ a \in Int
  BY TicksAssumption
<1>2. age \in Int /\ t * age >= a /\ t * age < a + t
  <2>1. ASSUME NEW x \in Int, NEW d \in Nat \ {0}
        PROVE  /\ (x + d - 1) \div d \in Int
               /\ d * ((x + d - 1) \div d) >= x /\ d * ((x + d - 1) \div d) < x + d
    BY <2>1
  <2>. QED
    BY <1>1, <2>1 DEF AgeSeconds
<1>. HIDE DEF t, a, age
<1>3. age <= maxAge => t * age <= t * maxAge
  BY <1>1, <1>2
<1>4. age >= maxAge + 1 => t * age >= t * maxAge + t
  BY <1>1, <1>2
<1>5. t * maxAge \in Int /\ t * age \in Int /\ t * maxAge = maxAge * t
  BY <1>1, <1>2
<1>. QED
  BY <1>1, <1>2, <1>3, <1>4, <1>5 DEF t, a, age

-------------------------------------------------------------------------------
(* What the invariant says *)

(* No flow decides a challenge of another one. *)
LEMMA InvApart == Inv => FlowsKeptApart
  BY DEF Inv, Ledger, Justified, FlowOf, FlowsKeptApart

(* What is accepted was decided by Ledger. *)
LEMMA AcceptedJustified ==
    ASSUME Inv, NEW c \in Challenges, NEW d \in Accepted(c)
    PROVE  Justified(c, d) /\ d.verdict = "accept"
  BY DEF Inv, Ledger, Accepted

(* Accepted challenges had their transaction consumed. *)
LEMMA InvConsumed == Inv => AcceptsAreConsumed
  BY AcceptedJustified DEF AcceptsAreConsumed, Justified

(* Prompt none reaches nobody. *)
LEMMA InvSilent == Inv => PromptNoneStaysSilent
<1>. SUFFICES ASSUME Inv, NEW h \in DOMAIN challengeOf,
                     challengeOf[h] \notin LogoutChallenges,
                     "none" \in request[challengeOf[h]].prompts
              PROVE  challengeOf[h] \in ConsentChallenges /\
                     (request[challengeOf[h]].skip \/ request[challengeOf[h]].clientSkip)
  BY Zenon DEF PromptNoneStaysSilent
<1>1. challengeOf[h] \in Challenges /\ Presentable(challengeOf[h])
  BY DEF Inv, TypeOK, Ledger
<1>2. challengeOf[h] \in ConsentChallenges
  BY <1>1 DEF Challenges, Presentable
<1>. QED
  BY <1>1, <1>2, Zenon DEF Presentable

(* Evidence is what the property asks of an interactive login. *)
LEMMA InvAssured == Inv => InteractiveLoginsAssured
<1>. SUFFICES ASSUME Inv, NEW c \in LoginChallenges, NEW d \in Accepted(c), d.handle # NoHandle
              PROVE  LET q == request[c] IN
                /\ q.subject \in {NoSubject, d.subject}
                /\ d.aal >= RequiredAAL
                /\ q.acrs # <<>> =>
                    /\ \E i \in DOMAIN q.acrs :
                        q.acrs[i] = d.acr /\ \A j \in 1 .. i - 1 : q.acrs[j] \notin SupportedACRs
                    /\ d.acr \in SupportedACRs /\ d.aal >= Level(d.acr)
                /\ "login" \in q.prompts \/ q.maxAge = 0 => d.authAt > StartedAt(d.handle)
                /\ q.maxAge # NoMaxAge =>
                    /\ d.authAt # NoTime /\ d.authAt <= now
                    /\ d.authAt >= StartedAt(d.handle) - q.maxAge * TicksPerSecond
  BY DEF InteractiveLoginsAssured
<1>1. JustifiedLogin(c, d)
  BY AcceptedJustified DEF Justified, Challenges
<1>2. LoginEvidence(c, d.handle, [subject |-> d.subject, aal |-> d.aal, authAt |-> d.authAt])
  BY <1>1 DEF JustifiedLogin
<1>3. request[c].acrs # <<>> => FirstChoice(request[c].acrs, d.acr) /\ d.aal >= Level(d.acr)
  BY <1>1 DEF JustifiedLogin
<1>. QED
  BY <1>2, <1>3, TimesAssumption DEF LoginEvidence, FirstChoice

(* The other branch of JustifiedLogin, and what is not Presentable. *)
LEMMA InvOnWord == Inv => SilentLoginsOnHydrasWord
<1>. SUFFICES ASSUME Inv, NEW c \in LoginChallenges, NEW d \in Accepted(c), d.handle = NoHandle
              PROVE  LET q == request[c] IN
                /\ q.skip /\ d.subject = q.subject
                /\ q.acrs = <<>> /\ RequiredAAL = 0
                /\ {"login", "select_account"} \cap q.prompts = {}
                /\ \A h \in DOMAIN challengeOf : challengeOf[h] # c
  BY DEF SilentLoginsOnHydrasWord
<1>1. LET q == request[c] IN
        /\ q.skip /\ d.subject = q.subject
        /\ q.acrs = <<>> /\ RequiredAAL = 0
        /\ {"login", "select_account"} \cap q.prompts = {}
  BY AcceptedJustified DEF Justified, JustifiedLogin, Challenges
<1>2. Silent(request[c])
  BY <1>1 DEF Silent, RequiresInteraction, RequestedAAL, HigherAAL, ForceLogin
<1>3. \A h \in DOMAIN challengeOf : Presentable(challengeOf[h])
  BY DEF Inv, TypeOK, Ledger
<1>. QED
  BY <1>1, <1>2, <1>3 DEF Presentable

(* Grants within the form are within the request as well. *)
LEMMA InvBounds == Inv => ConsentsWithinBounds
<1>. SUFFICES ASSUME Inv, NEW c \in ConsentChallenges, NEW d \in Accepted(c)
              PROVE  LET q == request[c] IN
                /\ d.session.subject = q.subject /\ d.session.aal >= RequiredAAL
                /\ d.scopes \subseteq q.scopes \cap d.asked.scopes
                /\ d.audiences \subseteq q.audiences
                /\ d.asked.audiences # {} => d.audiences \subseteq d.asked.audiences
  BY DEF ConsentsWithinBounds
<1>1. JustifiedConsent(c, d)
  BY AcceptedJustified DEF Justified, Challenges
<1>. QED
  BY <1>1 DEF JustifiedConsent, ConsentEvidence, Asked, AskedAudiences

(* Two decisions through one transaction are one: Claims. *)
LEMMA InvOnce == Inv => OneDecisionPerTransaction
<1>. SUFFICES ASSUME Inv, NEW h \in DOMAIN challengeOf
              PROVE  /\ AtMostOne(Via(h, {"accept"}))
                     /\ challengeOf[h] \notin ConsentChallenges =>
                          AtMostOne(Via(h, {"accept", "reject"}))
  BY DEF OneDecisionPerTransaction
<1>1. ASSUME NEW x \in Via(h, {"accept", "reject"})
      PROVE  /\ x[1] \in Challenges /\ x[2] \in DOMAIN decisions[x[1]] /\ x = <<x[1], x[2]>>
             /\ decisions[x[1]][x[2]].handle = h /\ h # NoHandle
             /\ Justified(x[1], decisions[x[1]][x[2]])
  <2>1. /\ x[1] \in Challenges /\ x[2] \in DOMAIN decisions[x[1]] /\ x = <<x[1], x[2]>>
        /\ decisions[x[1]][x[2]].handle = h
    BY <1>1 DEF Via
  <2>. QED
    BY <2>1, HandlesAssumption DEF Inv, TypeOK, Ledger
<1>2. ASSUME NEW x, NEW y, x \in Via(h, {"accept", "reject"}), y \in Via(h, {"accept", "reject"}),
             Spends(decisions[x[1]][x[2]]), Spends(decisions[y[1]][y[2]])
      PROVE  x = y
  <2>1. x[1] = y[1] /\ x[2] = y[2]
    BY <1>1, <1>2 DEF Inv, Claims
  <2>. QED
    BY <1>1, <1>2, <2>1
<1>3. \A x \in Via(h, {"accept"}) :
        x \in Via(h, {"accept", "reject"}) /\ Spends(decisions[x[1]][x[2]])
  <2>1. \A x \in Via(h, {"accept"}) :
          x \in Via(h, {"accept", "reject"}) /\ decisions[x[1]][x[2]].verdict = "accept"
    BY DEF Via
  <2>. QED
    BY <1>1, <2>1 DEF Spends
<1>4. ASSUME challengeOf[h] \notin ConsentChallenges, NEW x \in Via(h, {"accept", "reject"})
      PROVE  Spends(decisions[x[1]][x[2]])
  BY <1>1, <1>4 DEF Justified, FlowOf, Spends
<1>. QED
  BY <1>2, <1>3, <1>4 DEF AtMostOne

(***************************************************************************)
(* A session that comes out of the Kratos flow of the hints passes every   *)
(* check of CompleteLogin that the hints are about.                        *)
(***************************************************************************)
LEMMA InvHandoff == Inv => HandoffSuffices
<1>. SUFFICES ASSUME Inv, NEW r \in Requests, pc[r] = "loginKratos",
                     NEW s \in FlowSessions(KratosFlow(Handoff(request[challenge[r]])), handle[r]),
                     request[challenge[r]].subject \in {NoSubject, s.subject},
                     \/ request[challenge[r]].maxAge \in {NoMaxAge, 0}
                     \/ now - StartedAt(handle[r]) <= request[challenge[r]].maxAge * TicksPerSecond
              PROVE  LoginSessionAccepted(request[challenge[r]], handle[r], s)
  BY DEF HandoffSuffices
<1>. DEFINE q == request[challenge[r]]
            h == handle[r]
<1>1. q \in LoginRequests /\ now \in Nat /\ StartedAt(h) \in Int
  <2>1. Progress(r) /\ challenge[r] \in LoginChallenges /\ h \in DOMAIN issued
    BY DEF Inv, Progress, LoginPCs
  <2>. QED
    BY <2>1, TTLAssumption DEF Inv, TypeOK, StartedAt
<1>2. /\ s.authAt \in Nat /\ s.authAt <= now /\ s.aal \in 0 .. 3
      /\ s.aal >= KratosFlow(Handoff(q)).aal
      /\ KratosFlow(Handoff(q)).refresh => s.authAt > StartedAt(h)
  <2>1. /\ s \in LoginSessions /\ s.authAt # NoTime /\ s.authAt <= now
        /\ s.aal >= KratosFlow(Handoff(q)).aal
        /\ KratosFlow(Handoff(q)).refresh => s.authAt > StartedAt(h)
    BY Zenon DEF FlowSessions
  <2>2. s.authAt \in {NoTime} \cup 0 .. now + 1 /\ s.aal \in AALs
    BY <2>1 DEF LoginSessions
  <2>3. s.authAt \in Nat
    BY <1>1, <2>1, <2>2
  <2>4. s.aal \in 0 .. 3
    BY <2>2, AALAssumption
  <2>. QED
    BY <2>1, <2>3, <2>4
<1>. HIDE DEF q, h
<1>3. Fresh(q, h, s.authAt)
  <2>. SUFFICES ASSUME "login" \in q.prompts \/ q.maxAge # NoMaxAge
                PROVE  /\ s.authAt # NoTime /\ s.authAt <= now
                       /\ "login" \in q.prompts \/ q.maxAge = 0 => s.authAt > StartedAt(h)
                       /\ q.maxAge \notin {NoMaxAge, 0} => AgeSeconds(s.authAt) <= q.maxAge
    BY DEF Fresh
  <2>1. s.authAt > StartedAt(h)
    BY <1>2 DEF KratosFlow, Handoff, ForceLogin
  <2>2. ASSUME q.maxAge \notin {NoMaxAge, 0} PROVE AgeSeconds(s.authAt) <= q.maxAge
    <3>1. q.maxAge \in Int /\ now - StartedAt(h) <= q.maxAge * TicksPerSecond
      BY <1>1, <2>2, LoginRequestsAssumption DEF q, h
    <3>2. q.maxAge * TicksPerSecond \in Int
      BY <3>1, TicksAssumption
    <3>3. now - s.authAt <= q.maxAge * TicksPerSecond
      BY <1>1, <1>2, <2>1, <3>1, <3>2
    <3>. QED
      BY <1>1, <1>2, <3>1, <3>3, AgeRoundsUp
  <2>. QED
    BY <1>2, <2>1, <2>2, TimesAssumption
<1>4. AALAtLeast(s.aal, HigherAAL(RequiredAAL, RequestedAAL(q)))
  BY <1>2 DEF AALAtLeast, KratosFlow, Handoff
<1>. QED
  BY <1>3, <1>4 DEF LoginSessionAccepted, q, h

-------------------------------------------------------------------------------
(* What no step takes back *)

(* Transactions and requests stay what they are, consumed ones stay consumed. *)
Grows ==
    /\ request' = request
    /\ now' \in Nat /\ now <= now'
    /\ \A h \in DOMAIN issued :
        h \in DOMAIN issued' /\ issued'[h] = issued[h] /\ challengeOf'[h] = challengeOf[h]
    /\ \A h \in Handles : uses[h] = 1 => uses'[h] = 1

(* The handler of q does not move. *)
Stays(q) ==
    /\ pc'[q] = pc[q] /\ challenge'[q] = challenge[q] /\ handle'[q] = handle[q]
    /\ expiresAt'[q] = expiresAt[q] /\ form'[q] = form[q]
    /\ session'[q] = session[q] /\ answer'[q] = answer[q]

OnlyMoves(r) == \A q \in Requests \ {r} : Stays(q)

(* The evidence of a login is about the start of its transaction. *)
LEMMA EvidenceKept ==
    ASSUME TypeOK, Grows, NEW c, NEW h \in DOMAIN issued, NEW s, LoginEvidence(c, h, s)
    PROVE  LoginEvidence(c, h, s)'
<1>1. request'[c] = request[c] /\ StartedAt(h)' = StartedAt(h)
  BY DEF Grows, StartedAt
<1>2. \A t \in Nat : t <= now => t <= now'
  BY DEF TypeOK, Grows
<1>. QED
  BY <1>1, <1>2 DEF LoginEvidence

(* What justifies a decision justifies it for ever. *)
LEMMA JustifiedKept ==
    ASSUME TypeOK, Grows, NEW c, NEW d, Justified(c, d)
    PROVE  Justified(c, d)'
<1>1. request'[c] = request[c]
  BY DEF Grows
<1>2. d.handle # NoHandle =>
        d.handle \in DOMAIN issued' /\ challengeOf'[d.handle] = c /\ d.handle \in DOMAIN issued
  BY DEF Justified, Grows
<1>3. JustifiedLogin(c, d) => JustifiedLogin(c, d)'
  BY <1>1, <1>2, EvidenceKept DEF JustifiedLogin
<1>4. JustifiedConsent(c, d) => JustifiedConsent(c, d)'
  BY <1>1 DEF JustifiedConsent, ConsentEvidence
<1>5. d.handle # NoHandle /\ uses[d.handle] = 1 => uses'[d.handle] = 1
  BY <1>2 DEF TypeOK, Grows
<1>. QED
  BY <1>2, <1>3, <1>4, <1>5 DEF Justified

(* Whether a challenge can be presented is a matter of its request. *)
LEMMA PresentableKept ==
    ASSUME Grows, NEW c
    PROVE  Presentable(c)' <=> Presentable(c)
  BY DEF Grows, Presentable

(* A handler that does not move keeps what it has established. *)
LEMMA ProgressKept ==
    ASSUME TypeOK, Grows, NEW r \in Requests, Progress(r), Stays(r)
    PROVE  Progress(r)'
<1>. PICK p, c, h, e, f, s, d :
        /\ p = pc[r] /\ c = challenge[r] /\ h = handle[r] /\ e = expiresAt[r]
        /\ f = form[r] /\ s = session[r] /\ d = answer[r]
  OBVIOUS
<1>1. /\ p = pc'[r] /\ c = challenge'[r] /\ h = handle'[r] /\ e = expiresAt'[r]
      /\ f = form'[r] /\ s = session'[r] /\ d = answer'[r]
  BY DEF Stays
<1>2. request'[c] = request[c]
  BY DEF Grows
<1>3. e \in Nat /\ (e <= now + TTL => e <= now' + TTL)
  BY TTLAssumption DEF TypeOK, Grows
<1>4. h \in DOMAIN issued => h \in DOMAIN issued' /\ challengeOf'[h] = challengeOf[h]
  BY DEF Grows
<1>5. LoginEvidence(c, h, s) /\ h \in DOMAIN issued => LoginEvidence(c, h, s)'
  BY EvidenceKept
<1>6. ConsentEvidence(c, s) => ConsentEvidence(c, s)'
  BY <1>2 DEF ConsentEvidence
<1>7. Justified(c, d) => Justified(c, d)'
  BY JustifiedKept
<1>8. Presentable(c) => Presentable(c)'
  BY PresentableKept
<1>9. p = "loginPolicy" => p \in LoginPCs
  BY DEF LoginPCs
<1>. QED
  BY <1>1, <1>2, <1>3, <1>4, <1>5, <1>6, <1>7, <1>8, <1>9 DEF Progress

(* A step that gives nobody a transaction keeps the claims. *)
LEMMA ClaimsKept ==
    ASSUME Claims, Grows, decisions' = decisions, NEW r \in Requests, OnlyMoves(r),
           Holds(r)' => Holds(r) /\ handle'[r] = handle[r],
           \A c \in Challenges : \A i \in DOMAIN decisions[c] :
                Spends(decisions[c][i]) => decisions[c][i].handle \in Handles
    PROVE  Claims'
<1>1. \A q \in Requests : Holds(q)' => Holds(q) /\ handle'[q] = handle[q]
  BY DEF OnlyMoves, Stays, Holds
<1>. QED
  BY <1>1 DEF Claims, Grows

-------------------------------------------------------------------------------
(* Steps that change nothing but the handler *)

(* Decisions that were spent name a transaction. *)
LEMMA SpentIsHandle ==
    ASSUME Inv, NEW c \in Challenges, NEW i \in DOMAIN decisions[c], Spends(decisions[c][i])
    PROVE  decisions[c][i].handle \in Handles
  BY DEF Inv, TypeOK, Ledger, Justified, Spends

HandlerTypes ==
    /\ pc \in [Requests -> PCs]
    /\ challenge \in [Requests -> Challenges \cup {NoChallenge}]
    /\ handle \in [Requests -> Handles \cup {NoHandle}]
    /\ expiresAt \in [Requests -> Nat]
    /\ form \in [Requests -> Forms \cup {None}]
    /\ session \in [Requests -> Sessions \cup {None}]
    /\ answer \in [Requests -> Decisions \cup {None}]

(***************************************************************************)
(* A step of one handler that leaves the store and the rest of the world   *)
(* alone has to show what the handler has established, and that it holds   *)
(* no transaction it did not hold before.                                  *)
(***************************************************************************)
LEMMA LocalStep ==
    ASSUME Inv, UNCHANGED <<storeVars, worldVars>>, NEW r \in Requests,
           HandlerTypes', OnlyMoves(r), Progress(r)',
           Holds(r)' => Holds(r) /\ handle'[r] = handle[r]
    PROVE  Inv'
<1>1. /\ now' = now /\ issued' = issued /\ pending' = pending /\ uses' = uses
      /\ challengeOf' = challengeOf /\ known' = known /\ request' = request
      /\ decisions' = decisions /\ undecided' = undecided
  BY DEF storeVars, worldVars
<1>2. TypeOK /\ Ledger /\ Claims /\ \A q \in Requests : Progress(q)
  BY DEF Inv
<1>3. Grows
  BY <1>1, <1>2 DEF Grows, TypeOK
<1>4. TypeOK'
  BY <1>1, <1>2 DEF TypeOK, HandlerTypes
<1>5. Ledger'
  <2>1. \A c \in Challenges : \A i \in DOMAIN decisions'[c] : Justified(c, decisions[c][i])'
    BY <1>1, <1>2, <1>3, JustifiedKept DEF Ledger
  <2>. QED
    BY <1>1, <1>2, <1>3, <2>1, PresentableKept DEF Ledger
<1>6. \A q \in Requests : Progress(q)'
  BY <1>2, <1>3, ProgressKept DEF OnlyMoves
<1>7. Claims'
  BY <1>1, <1>2, <1>3, SpentIsHandle, ClaimsKept
<1>. QED
  BY <1>4, <1>5, <1>6, <1>7 DEF Inv

(* The handler decides, and can justify it. *)
LEMMA DecideStep ==
    ASSUME Inv, NEW r \in Requests, NEW from \in PCs, NEW c \in Challenges,
           NEW h \in Handles \cup {NoHandle}, NEW d, Decide(r, from, c, h, d),
           Justified(c, d), d.handle = h,
           Spends(d) => from \in {"loginKratos", "loginPolicy", "consentPolicy"} /\ h = handle[r]
    PROVE  Inv'
<1>1. /\ pc[r] = from
      /\ pc' = [pc EXCEPT ![r] = "answer"]
      /\ challenge' = [challenge EXCEPT ![r] = c]
      /\ handle' = [handle EXCEPT ![r] = h]
      /\ answer' = [answer EXCEPT ![r] = d]
      /\ form' = [form EXCEPT ![r] = None]
      /\ session' = [session EXCEPT ![r] = None]
      /\ UNCHANGED <<expiresAt, storeVars, worldVars>>
  BY DEF Decide, Goto
<1>2. HandlerTypes /\ d \in Decisions
  BY DEF Inv, TypeOK, HandlerTypes, Justified
<1>3. HandlerTypes'
  BY <1>1, <1>2 DEF HandlerTypes, PCs
<1>4. /\ pc'[r] = "answer" /\ challenge'[r] = c /\ handle'[r] = h /\ answer'[r] = d
      /\ OnlyMoves(r)
  BY <1>1, <1>2 DEF HandlerTypes, OnlyMoves, Stays
<1>5. Grows
  BY <1>1 DEF Inv, TypeOK, Grows, storeVars, worldVars
<1>6. Progress(r)'
  <2>1. Justified(c, d)'
    BY <1>5, JustifiedKept DEF Inv
  <2>. QED
    BY <1>4, <2>1 DEF Progress, LoginPCs, ConsentPCs
<1>7. Holds(r)' => Holds(r) /\ handle'[r] = handle[r]
  BY <1>1, <1>4 DEF Holds
<1>. QED
  BY <1>1, <1>3, <1>4, <1>6, <1>7, LocalStep

(* A rejection is justified where the flow is the right one. *)
LEMMA RejectJustified ==
    ASSUME NEW c \in LoginChallenges \cup ConsentChallenges, NEW h \in Handles \cup {NoHandle},
           h # NoHandle => h \in DOMAIN issued /\ challengeOf[h] = c,
           NEW flow, flow = FlowOf(c)
    PROVE  Justified(c, Reject(flow, h)) /\ Reject(flow, h).handle = h
           /\ (flow = "consent" => ~Spends(Reject(flow, h)))
<1>1. flow \in {"login", "consent"} /\ c \in Challenges
  BY DEF FlowOf, Challenges
<1>2. Reject(flow, h) \in Decisions /\ Reject(flow, h).flow = flow
      /\ Reject(flow, h).handle = h /\ Reject(flow, h).verdict = "reject"
  BY <1>1 DEF Reject, Decisions
<1>. QED
  BY <1>1, <1>2 DEF Justified, Spends

(* A start is sent to the UI when its challenge is one to present. *)
LEMMA BeginCreateStep ==
    ASSUME Inv, NEW r \in Requests, NEW c \in Challenges, BeginCreate(r, c), Presentable(c)
    PROVE  Inv'
<1>1. /\ pc' = [pc EXCEPT ![r] = "create"]
      /\ challenge' = [challenge EXCEPT ![r] = c]
      /\ expiresAt' = [expiresAt EXCEPT ![r] = now + TTL]
      /\ UNCHANGED <<handle, form, session, answer, storeVars, worldVars>>
  BY DEF BeginCreate, Goto
<1>2. HandlerTypes /\ now \in Nat
  BY DEF Inv, TypeOK, HandlerTypes
<1>3. HandlerTypes'
  BY <1>1, <1>2, TTLAssumption DEF HandlerTypes, PCs
<1>4. pc'[r] = "create" /\ challenge'[r] = c /\ expiresAt'[r] = now + TTL /\ OnlyMoves(r)
  BY <1>1, <1>2 DEF HandlerTypes, OnlyMoves, Stays
<1>5. Grows /\ now' = now
  BY <1>1 DEF Inv, TypeOK, Grows, storeVars, worldVars
<1>6. Progress(r)'
  <2>1. Presentable(c)'
    BY <1>5, PresentableKept
  <2>2. now + TTL <= now' + TTL
    BY <1>2, <1>5, TTLAssumption
  <2>. QED
    BY <1>4, <2>1, <2>2 DEF Progress, LoginPCs, ConsentPCs
<1>7. ~Holds(r)'
  BY <1>4 DEF Holds
<1>. QED
  BY <1>1, <1>3, <1>4, <1>6, <1>7, LocalStep

(* The three flows, told apart by their challenges. *)
LEMMA FlowsOfChallenges ==
    /\ \A c \in LoginChallenges : c \in Challenges /\ FlowOf(c) = "login" /\ c \notin ConsentChallenges
    /\ \A c \in ConsentChallenges :
        c \in Challenges /\ FlowOf(c) = "consent" /\ c \notin LoginChallenges
    /\ \A c \in LogoutChallenges :
        /\ c \in Challenges /\ FlowOf(c) = "logout"
        /\ c \notin LoginChallenges /\ c \notin ConsentChallenges
  BY ChallengesAssumption DEF FlowOf, Challenges

(* A completion loads a transaction of its flow. *)
LEMMA LoadStep ==
    ASSUME Inv, NEW r \in Requests, NEW challenges, NEW to, NEW h \in Handles, NEW submitted,
           Load(r, challenges, to, h, submitted),
           \/ challenges = LoginChallenges /\ to = "consumeLogin" /\ submitted = None
           \/ challenges = ConsentChallenges /\ to = "consumeDeny" /\ submitted = None
           \/ /\ challenges = ConsentChallenges /\ to = "consentKratos" /\ submitted \in Forms
              /\ Asked(request[challengeOf[h]], submitted)
           \/ challenges = LogoutChallenges /\ to = "consumeLogout" /\ submitted = None
    PROVE  Inv'
<1>1. /\ pc' = [pc EXCEPT ![r] = to]
      /\ challenge' = [challenge EXCEPT ![r] = challengeOf[h]]
      /\ handle' = [handle EXCEPT ![r] = h]
      /\ form' = [form EXCEPT ![r] = submitted]
      /\ UNCHANGED <<expiresAt, session, answer, storeVars, worldVars>>
      /\ h \in known /\ challengeOf[h] \in challenges
  BY DEF Load, Goto, Loads
<1>2. HandlerTypes /\ h \in DOMAIN issued /\ challengeOf[h] \in Challenges
  BY <1>1 DEF Inv, TypeOK, HandlerTypes
<1>3. HandlerTypes'
  BY <1>1, <1>2 DEF HandlerTypes, PCs
<1>4. /\ pc'[r] = to /\ challenge'[r] = challengeOf[h] /\ handle'[r] = h
      /\ form'[r] = submitted /\ OnlyMoves(r)
  BY <1>1, <1>2 DEF HandlerTypes, OnlyMoves, Stays
<1>5. issued' = issued /\ challengeOf' = challengeOf /\ request' = request
  BY <1>1 DEF storeVars, worldVars
<1>6. Progress(r)'
  BY <1>1, <1>2, <1>4, <1>5 DEF Progress, LoginPCs, ConsentPCs
<1>7. ~Holds(r)'
  BY <1>4 DEF Holds
<1>. QED
  BY <1>1, <1>3, <1>4, <1>6, <1>7, LocalStep

(* A handler that returns has nothing left to show. *)
LEMMA Finished ==
    ASSUME TypeOK, NEW r \in Requests, NEW from, Finish(r, from)
    PROVE  HandlerTypes' /\ OnlyMoves(r) /\ Progress(r)' /\ ~Holds(r)' /\ pc[r] = from
<1>1. /\ pc[r] = from
      /\ pc' = [pc EXCEPT ![r] = "idle"]
      /\ challenge' = [challenge EXCEPT ![r] = NoChallenge]
      /\ handle' = [handle EXCEPT ![r] = NoHandle]
      /\ expiresAt' = [expiresAt EXCEPT ![r] = 0]
      /\ form' = [form EXCEPT ![r] = None]
      /\ session' = [session EXCEPT ![r] = None]
      /\ answer' = [answer EXCEPT ![r] = None]
  BY DEF Finish, Goto
<1>2. HandlerTypes
  BY DEF TypeOK, HandlerTypes
<1>3. HandlerTypes'
  BY <1>1, <1>2 DEF HandlerTypes, PCs
<1>4. pc'[r] = "idle" /\ OnlyMoves(r)
  BY <1>1, <1>2 DEF HandlerTypes, OnlyMoves, Stays
<1>. QED
  BY <1>1, <1>3, <1>4 DEF Progress, LoginPCs, ConsentPCs, Holds

(* It leaves everything as it was. *)
LEMMA FinishStep ==
    ASSUME Inv, NEW r \in Requests, NEW from, Finish(r, from), UNCHANGED <<storeVars, worldVars>>
    PROVE  Inv'
<1>1. TypeOK
  BY DEF Inv
<1>. QED
  BY <1>1, Finished, LocalStep

-------------------------------------------------------------------------------
(* Requests begin *)

(* StartLogin and the login callback. *)
LEMMA BeginLoginStep ==
    ASSUME Inv, NEW r \in Requests, BeginLogin(r)
    PROVE  Inv'
<1>1. ASSUME NEW c \in LoginChallenges, RejectLogin(r, c) PROVE Inv'
  <2>1. Justified(c, Reject("login", NoHandle)) /\ Reject("login", NoHandle).handle = NoHandle
    BY FlowsOfChallenges, RejectJustified
  <2>2. ~Spends(Reject("login", NoHandle))
    BY <2>1 DEF Spends
  <2>3. Decide(r, "idle", c, NoHandle, Reject("login", NoHandle)) /\ "idle" \in PCs
    BY <1>1 DEF RejectLogin, PCs
  <2>. QED
    BY <2>1, <2>2, <2>3, FlowsOfChallenges, DecideStep
<1>2. ASSUME NEW c \in LoginChallenges, StartSilentLogin(r, c) PROVE Inv'
  <2>1. /\ pc' = [pc EXCEPT ![r] = "silentPolicy"]
        /\ challenge' = [challenge EXCEPT ![r] = c]
        /\ UNCHANGED <<handle, expiresAt, form, session, answer, storeVars, worldVars>>
        /\ LoginRequestValid(request[c]) /\ Silent(request[c])
    BY <1>2 DEF StartSilentLogin, Goto
  <2>2. HandlerTypes /\ c \in Challenges
    BY FlowsOfChallenges DEF Inv, TypeOK, HandlerTypes
  <2>3. HandlerTypes'
    BY <2>1, <2>2 DEF HandlerTypes, PCs
  <2>4. pc'[r] = "silentPolicy" /\ challenge'[r] = c /\ OnlyMoves(r)
    BY <2>1, <2>2 DEF HandlerTypes, OnlyMoves, Stays
  <2>5. Progress(r)' /\ ~Holds(r)'
    BY <2>1, <2>4 DEF Progress, LoginPCs, ConsentPCs, Holds, worldVars
  <2>. QED
    BY <2>1, <2>3, <2>4, <2>5, LocalStep
<1>3. ASSUME NEW c \in LoginChallenges, StartInteractiveLogin(r, c) PROVE Inv'
  <2>1. /\ LoginRequestValid(request[c]) /\ ~LoginRequired(request[c])
        /\ ~Silent(request[c]) /\ BeginCreate(r, c)
    BY <1>3 DEF StartInteractiveLogin
  <2>2. "none" \notin request[c].prompts
    BY <2>1 DEF LoginRequestValid, LoginRequired, Silent, ForceLogin
  <2>3. Presentable(c) /\ c \in Challenges
    BY <2>1, <2>2, FlowsOfChallenges DEF Presentable
  <2>. QED
    BY <2>1, <2>3, BeginCreateStep
<1>4. ASSUME NEW h \in Handles, CompleteLogin(r, h) PROVE Inv'
  BY <1>4, LoadStep DEF CompleteLogin
<1>. QED
  BY <1>1, <1>2, <1>3, <1>4 DEF BeginLogin

(* StartConsent and the consent form. *)
LEMMA BeginConsentStep ==
    ASSUME Inv, NEW r \in Requests, BeginConsent(r)
    PROVE  Inv'
<1>1. ASSUME NEW c \in ConsentChallenges, ConsentRequired(r, c) PROVE Inv'
  <2>1. /\ Justified(c, Reject("consent", NoHandle)) /\ ~Spends(Reject("consent", NoHandle))
        /\ Reject("consent", NoHandle).handle = NoHandle
    BY FlowsOfChallenges, RejectJustified
  <2>2. Decide(r, "idle", c, NoHandle, Reject("consent", NoHandle)) /\ "idle" \in PCs
    BY <1>1 DEF ConsentRequired, PCs
  <2>. QED
    BY <2>1, <2>2, FlowsOfChallenges, DecideStep
<1>2. ASSUME NEW c \in ConsentChallenges, StartConsent(r, c) PROVE Inv'
  <2>1. BeginCreate(r, c) /\ Presentable(c)
    BY <1>2, FlowsOfChallenges DEF StartConsent, Presentable, ConsentNeedsUser
  <2>. QED
    BY <2>1, FlowsOfChallenges, BeginCreateStep
<1>3. ASSUME NEW h \in Handles, DenyConsent(r, h) PROVE Inv'
  BY <1>3, LoadStep DEF DenyConsent
<1>4. ASSUME NEW h \in Handles, GrantConsent(r, h) PROVE Inv'
  <2>1. PICK f \in Forms : /\ Asked(request[challengeOf[h]], f)
                           /\ Load(r, ConsentChallenges, "consentKratos", h, f)
    BY <1>4 DEF GrantConsent
  <2>. QED
    BY <2>1, LoadStep
<1>5. ASSUME NEW h \in Handles, GrantTooMuch(r, h) PROVE Inv'
  <2>1. h \in DOMAIN issued /\ challengeOf[h] \in ConsentChallenges
    BY <1>5 DEF GrantTooMuch, Loads, Inv, TypeOK
  <2>2. /\ Justified(challengeOf[h], Reject("consent", h)) /\ ~Spends(Reject("consent", h))
        /\ Reject("consent", h).handle = h
    BY <2>1, FlowsOfChallenges, RejectJustified
  <2>3. Decide(r, "idle", challengeOf[h], h, Reject("consent", h)) /\ "idle" \in PCs
    BY <1>5 DEF GrantTooMuch, PCs
  <2>. QED
    BY <2>1, <2>2, <2>3, FlowsOfChallenges, DecideStep
<1>. QED
  BY <1>1, <1>2, <1>3, <1>4, <1>5 DEF BeginConsent

(* StartLogout and the logout callback. *)
LEMMA BeginLogoutStep ==
    ASSUME Inv, NEW r \in Requests, BeginLogout(r)
    PROVE  Inv'
<1>1. ASSUME NEW c \in LogoutChallenges, StartLogout(r, c) PROVE Inv'
  <2>1. BeginCreate(r, c) /\ Presentable(c)
    BY <1>1, FlowsOfChallenges DEF StartLogout, Presentable
  <2>. QED
    BY <2>1, FlowsOfChallenges, BeginCreateStep
<1>2. ASSUME NEW h \in Handles, CompleteLogout(r, h) PROVE Inv'
  BY <1>2, LoadStep DEF CompleteLogout
<1>. QED
  BY <1>1, <1>2 DEF BeginLogout

-------------------------------------------------------------------------------
(* Steps of the store *)

(***************************************************************************)
(* A step that changes the world has to show the types, and what it adds   *)
(* to the ledger; the requests that it does not move keep what they have.  *)
(***************************************************************************)
LEMMA WorldStep ==
    ASSUME Inv, Grows, NEW r \in Requests, OnlyMoves(r), TypeOK', Ledger', Progress(r)', Claims'
    PROVE  Inv'
<1>1. \A q \in Requests : Progress(q)'
  BY ProgressKept DEF Inv, OnlyMoves
<1>. QED
  BY <1>1 DEF Inv

(* The store takes a transaction for a challenge that may be presented. *)
LEMMA InsertStep ==
    ASSUME Inv, NEW r \in Requests, Finish(r, "create"), NEW h \in Handles, Insert(r, h),
           known' \in {known, known \cup {h}}, UNCHANGED <<request, decisions, undecided>>
    PROVE  Inv'
<1>1. HandlerTypes' /\ OnlyMoves(r) /\ Progress(r)' /\ ~Holds(r)' /\ pc[r] = "create"
  BY Finished DEF Inv
<1>2. /\ h \notin DOMAIN issued
      /\ issued' = [g \in DOMAIN issued \cup {h} |-> IF g = h THEN expiresAt[r] ELSE issued[g]]
      /\ pending' \subseteq pending \cup {h}
      /\ challengeOf' = [g \in DOMAIN challengeOf \cup {h} |->
                          IF g = h THEN challenge[r] ELSE challengeOf[g]]
      /\ now' = now /\ uses' = uses
  BY DEF Insert, Port!Create, Port!Live
<1>3. TypeOK /\ Ledger /\ Claims
  BY DEF Inv
<1>4. /\ challenge[r] \in Challenges /\ Presentable(challenge[r])
      /\ expiresAt[r] \in Nat /\ expiresAt[r] <= now + TTL
  BY <1>1, <1>3 DEF Inv, Progress, TypeOK
<1>5. Grows
  BY <1>2, <1>3 DEF TypeOK, Grows
<1>6. TypeOK'
  BY <1>1, <1>2, <1>3, <1>4 DEF TypeOK, HandlerTypes
<1>7. Ledger'
  <2>1. \A c \in Challenges : \A i \in DOMAIN decisions'[c] : Justified(c, decisions[c][i])'
    BY <1>3, <1>5, JustifiedKept DEF Ledger
  <2>2. \A g \in DOMAIN issued' :
          issued'[g] <= now' + TTL /\ Presentable(challengeOf'[g])
    BY <1>2, <1>3, <1>4 DEF Ledger, TypeOK
  <2>3. \A g \in DOMAIN issued' : Presentable(challengeOf[g])'
    BY <1>5, <2>2, PresentableKept
  <2>4. \A g \in Handles : uses'[g] = 1 => g \in DOMAIN issued' /\ g \notin pending'
    BY <1>2, <1>3 DEF Ledger
  <2>. QED
    BY <2>1, <2>2, <2>3, <2>4 DEF Ledger
<1>8. Claims'
  BY <1>1, <1>3, <1>5, SpentIsHandle, ClaimsKept
<1>. QED
  BY <1>1, <1>5, <1>6, <1>7, <1>8, WorldStep

(* createTransaction: it succeeds, or fails with or without an entry. *)
LEMMA CreateStep ==
    ASSUME Inv, NEW r \in Requests, Create(r) \/ CreateFails(r)
    PROVE  Inv'
<1>1. CASE Create(r)
  BY <1>1, InsertStep DEF Create
<1>2. CASE CreateFails(r)
  <2>1. CASE UNCHANGED <<storeVars, challengeOf>>
    BY <1>2, <2>1, FinishStep DEF CreateFails, worldVars
  <2>2. CASE \E h \in Handles : Insert(r, h)
    BY <1>2, <2>2, InsertStep DEF CreateFails
  <2>. QED
    BY <1>2, <2>1, <2>2 DEF CreateFails
<1>. QED
  BY <1>1, <1>2

(* The ledger does not mind that transactions disappear. *)
LEMMA LedgerKept ==
    ASSUME TypeOK, Ledger, Grows, pending' \subseteq pending, UNCHANGED <<issued, challengeOf, uses>>,
           decisions' = decisions
    PROVE  Ledger'
<1>1. \A c \in Challenges : \A i \in DOMAIN decisions'[c] : Justified(c, decisions[c][i])'
  BY JustifiedKept DEF Ledger
<1>2. \A h \in DOMAIN issued : issued[h] <= now' + TTL
  BY TTLAssumption DEF Ledger, TypeOK, Grows
<1>. QED
  BY <1>1, <1>2, PresentableKept DEF Ledger

(* ErrReplay, ErrExpiredTransaction, or an error that may hide a removal. *)
LEMMA ConsumeRefusedStep ==
    ASSUME Inv, NEW r \in Requests, NEW from, ConsumeRefused(r, from) \/ ConsumeFails(r, from)
    PROVE  Inv'
<1>1. CASE ConsumeRefused(r, from) \/ (ConsumeFails(r, from) /\ UNCHANGED storeVars)
  BY <1>1, FinishStep DEF ConsumeRefused, ConsumeFails
<1>2. CASE ConsumeFails(r, from) /\ Port!Lose(handle[r])
  <2>1. HandlerTypes' /\ OnlyMoves(r) /\ Progress(r)' /\ ~Holds(r)'
    BY <1>2, Finished DEF Inv, ConsumeFails
  <2>2. /\ pending' \subseteq pending
        /\ now' = now /\ issued' = issued /\ uses' = uses /\ challengeOf' = challengeOf
        /\ known' = known /\ request' = request /\ decisions' = decisions /\ undecided' = undecided
    BY <1>2 DEF Port!Lose, ConsumeFails, worldVars
  <2>3. TypeOK /\ Ledger /\ Claims
    BY DEF Inv
  <2>4. Grows
    BY <2>2, <2>3 DEF TypeOK, Grows
  <2>5. TypeOK'
    BY <2>1, <2>2, <2>3 DEF TypeOK, HandlerTypes
  <2>6. Ledger'
    BY <2>2, <2>3, <2>4, LedgerKept
  <2>7. Claims'
    BY <2>1, <2>2, <2>3, <2>4, SpentIsHandle, ClaimsKept
  <2>. QED
    BY <2>1, <2>4, <2>5, <2>6, <2>7, WorldStep
<1>. QED
  BY <1>1, <1>2 DEF ConsumeFails

(***************************************************************************)
(* consume: the transaction was pending, so that nobody held it and        *)
(* nothing was decided through it; now the handler holds it.               *)
(***************************************************************************)
LEMMA Taken ==
    ASSUME Inv, NEW h, Port!Consume(h), UNCHANGED worldVars
    PROVE  /\ Grows /\ Ledger'
           /\ h \in Handles /\ uses[h] = 0 /\ uses' = [uses EXCEPT ![h] = 1]
           /\ HandlerTypes' => TypeOK'
<1>1. /\ h \in pending /\ pending' = pending \ {h} /\ uses' = [uses EXCEPT ![h] = @ + 1]
      /\ now' = now /\ issued' = issued /\ challengeOf' = challengeOf
      /\ known' = known /\ request' = request /\ decisions' = decisions /\ undecided' = undecided
  BY DEF Port!Consume, worldVars
<1>2. TypeOK /\ Ledger
  BY DEF Inv
<1>3. h \in DOMAIN issued /\ h \in Handles /\ uses[h] = 0
  BY <1>1, <1>2 DEF TypeOK, Ledger
<1>4. uses' = [uses EXCEPT ![h] = 1] /\ uses' \in [Handles -> 0 .. 1]
  BY <1>1, <1>2, <1>3 DEF TypeOK
<1>5. Grows
  BY <1>1, <1>2, <1>4 DEF TypeOK, Grows
<1>6. Ledger'
  <2>1. \A c \in Challenges : \A i \in DOMAIN decisions'[c] : Justified(c, decisions[c][i])'
    BY <1>1, <1>2, <1>5, JustifiedKept DEF Ledger
  <2>2. \A g \in Handles : uses'[g] = 1 => g \in DOMAIN issued' /\ g \notin pending'
    BY <1>1, <1>2, <1>3, <1>4 DEF TypeOK, Ledger
  <2>. QED
    BY <1>1, <1>2, <1>5, <2>1, <2>2, PresentableKept DEF Ledger
<1>7. HandlerTypes' => TypeOK'
  BY <1>1, <1>2, <1>4 DEF TypeOK, HandlerTypes
<1>. QED
  BY <1>3, <1>4, <1>5, <1>6, <1>7

(* So the handler has the only claim to it. *)
LEMMA TakeStep ==
    ASSUME Inv, NEW r \in Requests, Port!Consume(handle[r]), UNCHANGED worldVars,
           HandlerTypes', OnlyMoves(r), handle'[r] = handle[r], Progress(r)'
    PROVE  Inv'
<1>1. /\ Grows /\ Ledger' /\ TypeOK' /\ handle[r] \in Handles /\ uses[handle[r]] = 0
      /\ uses' = [uses EXCEPT ![handle[r]] = 1] /\ uses'[handle[r]] = 1
      /\ decisions' = decisions
  BY Taken DEF Inv, TypeOK, worldVars
<1>2. \A q \in Requests : Holds(q) => handle[q] # handle[r]
  BY <1>1 DEF Inv, Claims
<1>3. \A c \in Challenges : \A i \in DOMAIN decisions[c] :
        Spends(decisions[c][i]) => decisions[c][i].handle # handle[r]
  BY <1>1 DEF Inv, Claims
<1>4. \A q \in Requests \ {r} : (Holds(q)' <=> Holds(q)) /\ handle'[q] = handle[q]
  BY DEF OnlyMoves, Stays, Holds
<1>5. \A h \in Handles : uses[h] = 1 => uses'[h] = 1
  BY <1>1 DEF Grows
<1>6. Claims'
  <2>1. Claims
    BY DEF Inv
  <2>2. \A q \in Requests : Holds(q)' => handle'[q] \in Handles /\ uses'[handle'[q]] = 1
    BY <1>1, <1>4, <1>5, <2>1 DEF Claims
  <2>3. \A p, q \in Requests : Holds(p)' /\ Holds(q)' /\ handle'[p] = handle'[q] => p = q
    BY <1>2, <1>4, <2>1 DEF Claims
  <2>4. \A c \in Challenges : \A i \in DOMAIN decisions[c] :
          Spends(decisions[c][i]) =>
            /\ uses'[decisions[c][i].handle] = 1
            /\ \A q \in Requests : Holds(q)' => handle'[q] # decisions[c][i].handle
    BY <1>3, <1>4, <1>5, <2>1, SpentIsHandle DEF Claims
  <2>. QED
    BY <1>1, <2>1, <2>2, <2>3, <2>4 DEF Claims
<1>. QED
  BY <1>1, <1>6, WorldStep

(* The completion of a login, and the grant of a consent. *)
LEMMA ConsumeStep ==
    ASSUME Inv, NEW r \in Requests,
           \/ Consume(r, "consumeLogin", "loginKratos")
           \/ Consume(r, "consumeConsent", "consentPolicy")
    PROVE  Inv'
<1>1. PICK from \in {"consumeLogin", "consumeConsent"}, to \in {"loginKratos", "consentPolicy"} :
        /\ from = "consumeLogin" <=> to = "loginKratos"
        /\ pc[r] = from /\ pc' = [pc EXCEPT ![r] = to]
        /\ Port!Consume(handle[r])
        /\ UNCHANGED <<worldVars, challenge, handle, expiresAt, form, session, answer>>
  BY DEF Consume, Goto
<1>2. HandlerTypes /\ Progress(r) /\ uses \in [Handles -> 0 .. 1]
  BY DEF Inv, TypeOK, HandlerTypes
<1>3. HandlerTypes'
  BY <1>1, <1>2 DEF HandlerTypes, PCs
<1>4. /\ pc'[r] = to /\ challenge'[r] = challenge[r] /\ handle'[r] = handle[r]
      /\ form'[r] = form[r] /\ session'[r] = session[r]
      /\ OnlyMoves(r)
  BY <1>1, <1>2 DEF HandlerTypes, OnlyMoves, Stays
<1>5. /\ issued' = issued /\ challengeOf' = challengeOf /\ request' = request
  BY <1>1 DEF Port!Consume, worldVars
<1>6. Progress(r)'
  <2>1. CASE to = "loginKratos"
    BY <1>1, <1>2, <1>4, <1>5, <2>1 DEF Progress, LoginPCs, ConsentPCs
  <2>2. CASE to = "consentPolicy"
    BY <1>1, <1>2, <1>4, <1>5, <2>2 DEF Progress, LoginPCs, ConsentPCs, ConsentEvidence
  <2>. QED
    BY <2>1, <2>2
<1>. QED
  BY <1>1, <1>3, <1>4, <1>6, TakeStep

(* A denial and a logout are decided in the step that consumes. *)
LEMMA ConsumeAndDecideStep ==
    ASSUME Inv, NEW r \in Requests, Deny(r) \/ ConsumeLogout(r)
    PROVE  Inv'
<1>. PICK c, h, d :
        /\ c = challenge[r] /\ h = handle[r]
        /\ d = IF pc[r] = "consumeDeny" THEN Reject("consent", h) ELSE AcceptLogout(h)
  OBVIOUS
<1>1. /\ pc[r] \in {"consumeDeny", "consumeLogout"} /\ pc' = [pc EXCEPT ![r] = "answer"]
      /\ Port!Consume(h) /\ answer' = [answer EXCEPT ![r] = d]
      /\ UNCHANGED <<challenge, handle, expiresAt, form, session, worldVars>>
  BY DEF Deny, ConsumeLogout, Goto
<1>2. HandlerTypes /\ Progress(r) /\ uses \in [Handles -> 0 .. 1] /\ TypeOK
  BY DEF Inv, TypeOK, HandlerTypes
<1>3. /\ h \in DOMAIN issued /\ c = challengeOf[h]
      /\ pc[r] = "consumeDeny" => c \in ConsentChallenges
      /\ pc[r] = "consumeLogout" => c \in LogoutChallenges
  BY <1>1, <1>2 DEF Progress, ConsentPCs
<1>4. /\ Grows /\ h \in Handles /\ uses'[h] = 1
  BY <1>1, <1>2, Taken
<1>5. /\ issued' = issued /\ challengeOf' = challengeOf /\ request' = request
  BY <1>1 DEF Port!Consume, worldVars
<1>6. Justified(c, d)' /\ d.handle = h /\ d \in Decisions
  <2>1. CASE pc[r] = "consumeDeny"
    <3>1. Justified(c, d) /\ d.handle = h
      BY <1>3, <1>4, <2>1, FlowsOfChallenges, RejectJustified
    <3>. QED
      BY <1>2, <1>4, <3>1, JustifiedKept DEF Justified
  <2>2. CASE pc[r] = "consumeLogout"
    <3>1. d = [flow |-> "logout", verdict |-> "accept", handle |-> h] /\ d \in Decisions
      BY <1>4, <2>2 DEF AcceptLogout, Decisions
    <3>2. c \in Challenges /\ FlowOf(c) = "logout" /\ c \notin LoginChallenges \cup ConsentChallenges
      BY <1>3, <2>2, FlowsOfChallenges
    <3>. QED
      BY <1>3, <1>4, <1>5, <3>1, <3>2, HandlesAssumption DEF Justified
  <2>. QED
    BY <1>1, <2>1, <2>2
<1>7. HandlerTypes'
  BY <1>1, <1>2, <1>6 DEF HandlerTypes, PCs
<1>8. /\ pc'[r] = "answer" /\ challenge'[r] = c /\ handle'[r] = h /\ answer'[r] = d
      /\ OnlyMoves(r)
  BY <1>1, <1>2 DEF HandlerTypes, OnlyMoves, Stays
<1>9. Progress(r)'
  BY <1>6, <1>8 DEF Progress, LoginPCs, ConsentPCs
<1>. QED
  BY <1>1, <1>7, <1>8, <1>9, TakeStep

-------------------------------------------------------------------------------
(* Steps of the login and the consent between the store and Hydra *)

(***************************************************************************)
(* A session that passes the checks of CompleteLogin is evidence: what     *)
(* was fresh enough is fresh as of the start of the transaction, which is  *)
(* not later than now.                                                     *)
(***************************************************************************)
LEMMA AcceptedIsEvidence ==
    ASSUME TypeOK, Ledger, NEW c \in LoginChallenges, NEW h \in DOMAIN issued,
           LoginRequestValid(request[c]),
           NEW s \in LoginSessions, LoginSessionAccepted(request[c], h, s)
    PROVE  LoginEvidence(c, h, s)
<1>. DEFINE q == request[c]
<1>1. q \in LoginRequests /\ q.maxAge \in Int \cup {NoMaxAge} /\ now \in Nat
      /\ issued[h] \in Nat /\ issued[h] <= now + TTL
  BY LoginRequestsAssumption DEF TypeOK, Ledger
<1>2. StartedAt(h) \in Int /\ StartedAt(h) <= now
  BY <1>1, TTLAssumption DEF StartedAt
<1>3. s.authAt \in {NoTime} \cup 0 .. now + 1 /\ s.aal \in AALs
  BY DEF LoginSessions
<1>4. s.authAt \in Times
  BY <1>1, <1>3 DEF Times
<1>5. s \in [subject : Subjects, aal : AALs, authAt : Times]
  BY <1>4 DEF LoginSessions
<1>6. /\ q.subject \in {NoSubject, s.subject} /\ Fresh(q, h, s.authAt)
      /\ s.aal >= HigherAAL(RequiredAAL, RequestedAAL(q))
  BY DEF LoginSessionAccepted, AALAtLeast
<1>7. s.aal >= RequiredAAL /\ s.aal >= RequestedAAL(q)
  <2>1. s.aal \in 0 .. 3 /\ RequiredAAL \in 0 .. 3
    BY <1>3, AALAssumption
  <2>2. RequestedAAL(q) \in Int
    BY <1>1, RequestedLevel
  <2>. QED
    BY <1>6, <2>1, <2>2 DEF HigherAAL
<1>. HIDE DEF q
<1>8. "login" \in q.prompts \/ q.maxAge = 0 => s.authAt \in Nat /\ s.authAt > StartedAt(h)
  BY <1>4, <1>6, TimesAssumption DEF Fresh, Times
<1>9. ASSUME q.maxAge # NoMaxAge
      PROVE  /\ s.authAt \in Nat /\ s.authAt <= now
             /\ s.authAt >= StartedAt(h) - q.maxAge * TicksPerSecond
  <2>1. s.authAt \in Nat /\ s.authAt <= now
    BY <1>4, <1>6, <1>9 DEF Fresh, Times
  <2>2. q.maxAge \in Int /\ q.maxAge * TicksPerSecond \in Int
    BY <1>1, <1>9, TicksAssumption
  <2>3. CASE q.maxAge = 0
    <3>1. q.maxAge * TicksPerSecond = 0
      BY <2>3, TicksAssumption
    <3>. QED
      BY <1>2, <1>8, <2>1, <2>3, <3>1
  <2>4. CASE q.maxAge # 0
    <3>1. AgeSeconds(s.authAt) <= q.maxAge
      BY <1>6, <1>9, <2>4 DEF Fresh
    <3>2. now - s.authAt <= q.maxAge * TicksPerSecond
      BY <1>1, <2>1, <2>2, <3>1, AgeRoundsUp
    <3>. QED
      BY <1>1, <1>2, <2>1, <2>2, <3>2
  <2>. QED
    BY <2>3, <2>4
<1>. QED
  BY <1>5, <1>6, <1>7, <1>8, <1>9 DEF LoginEvidence, q

(* What a request has shown whose transaction is consumed for a login. *)
LEMMA LoginProgress ==
    ASSUME Inv, NEW r \in Requests, pc[r] \in LoginPCs
    PROVE  /\ handle[r] \in DOMAIN issued /\ handle[r] \in Handles /\ handle[r] # NoHandle
           /\ challenge[r] = challengeOf[handle[r]] /\ challenge[r] \in LoginChallenges
           /\ request[challenge[r]] \in LoginRequests /\ LoginRequestValid(request[challenge[r]])
<1>1. /\ handle[r] \in DOMAIN issued /\ challenge[r] = challengeOf[handle[r]]
      /\ challenge[r] \in LoginChallenges
  BY DEF Inv, Progress
<1>. QED
  BY <1>1, HandlesAssumption DEF Inv, TypeOK, Ledger, Presentable

(* Kratos vouches for a session. *)
LEMMA LoginSessionStep ==
    ASSUME Inv, NEW r \in Requests, LoginSession(r)
    PROVE  Inv'
<1>1. PICK s \in LoginSessions :
        /\ pc[r] = "loginKratos" /\ pc' = [pc EXCEPT ![r] = "loginPolicy"]
        /\ LoginSessionAccepted(request[challenge[r]], handle[r], s)
        /\ session' = [session EXCEPT ![r] = s]
        /\ UNCHANGED <<challenge, handle, expiresAt, form, answer, storeVars, worldVars>>
  BY DEF LoginSession, Goto
<1>. PICK c, h : c = challenge[r] /\ h = handle[r]
  OBVIOUS
<1>2. /\ h \in DOMAIN issued /\ c = challengeOf[h] /\ c \in LoginChallenges
      /\ LoginRequestValid(request[c])
  BY <1>1, LoginProgress DEF LoginPCs
<1>3. LoginEvidence(c, h, s)
  BY <1>1, <1>2, AcceptedIsEvidence DEF Inv
<1>4. HandlerTypes /\ TypeOK /\ s \in Sessions
  BY <1>3 DEF Inv, TypeOK, HandlerTypes, LoginEvidence, Sessions
<1>5. HandlerTypes'
  BY <1>1, <1>4 DEF HandlerTypes, PCs
<1>6. /\ pc'[r] = "loginPolicy" /\ challenge'[r] = c /\ handle'[r] = h /\ session'[r] = s
      /\ OnlyMoves(r)
  BY <1>1, <1>4 DEF HandlerTypes, OnlyMoves, Stays
<1>7. Grows
  BY <1>1, <1>4 DEF TypeOK, Grows, storeVars, worldVars
<1>8. Progress(r)'
  <2>1. LoginEvidence(c, h, s)' /\ issued' = issued /\ challengeOf' = challengeOf
    BY <1>1, <1>2, <1>3, <1>4, <1>7, EvidenceKept DEF storeVars, worldVars
  <2>. QED
    BY <1>2, <1>6, <2>1 DEF Progress, LoginPCs, ConsentPCs
<1>9. Holds(r) /\ handle'[r] = handle[r]
  BY <1>1, <1>6 DEF Holds
<1>. QED
  BY <1>1, <1>5, <1>6, <1>8, <1>9, LocalStep

(* A login rejected after its transaction was consumed. *)
LEMMA LoginRejectStep ==
    ASSUME Inv, NEW r \in Requests, NEW from \in {"loginKratos", "loginPolicy"},
           Decide(r, from, challenge[r], handle[r], Reject("login", handle[r]))
    PROVE  Inv'
<1>. PICK c, h : c = challenge[r] /\ h = handle[r]
  OBVIOUS
<1>1. pc[r] = from /\ from \in PCs
  BY DEF Decide, Goto, PCs
<1>2. h \in DOMAIN issued /\ h \in Handles /\ c = challengeOf[h] /\ c \in LoginChallenges
  BY <1>1, LoginProgress DEF LoginPCs
<1>3. Justified(c, Reject("login", h)) /\ Reject("login", h).handle = h
  BY <1>2, FlowsOfChallenges, RejectJustified
<1>. QED
  BY <1>1, <1>2, <1>3, FlowsOfChallenges, DecideStep

(* The policy is asked about a login that came without a transaction. *)
LEMMA SilentPolicyStep ==
    ASSUME Inv, NEW r \in Requests, SilentPolicy(r)
    PROVE  Inv'
<1>. PICK c, q : c = challenge[r] /\ q = request[c]
  OBVIOUS
<1>. DEFINE yes == LoginAccept(NoHandle, q.subject, 0, 0, NoTime)
            no == Reject("login", NoHandle)
<1>1. PICK d \in {yes, no} : Decide(r, "silentPolicy", c, NoHandle, d)
  BY DEF SilentPolicy
<1>2. /\ c \in LoginChallenges /\ LoginRequestValid(q) /\ Silent(q) /\ q \in LoginRequests
      /\ c \in Challenges
  BY FlowsOfChallenges DEF SilentPolicy, Inv, Progress, TypeOK
<1>3. Justified(c, yes) /\ yes.handle = NoHandle
  <2>1. q.skip /\ HigherAAL(RequiredAAL, RequestedAAL(q)) = 0 /\ ~ForceLogin(q)
    BY <1>2 DEF Silent, RequiresInteraction
  <2>2. RequiredAAL = 0 /\ RequestedAAL(q) = 0
    BY <1>2, <2>1, RequestedLevel, AALAssumption DEF HigherAAL
  <2>3. q.acrs = <<>>
    BY <1>2, <2>2, ResolvedIsFirst DEF RequestedAAL, LoginRequestValid
  <2>4. q.subject \in Subjects
    BY <1>2, <2>1, LoginRequestsAssumption DEF LoginRequestValid
  <2>5. yes = [flow |-> "login", verdict |-> "accept", handle |-> NoHandle,
               subject |-> q.subject, acr |-> 0, aal |-> 0, authAt |-> NoTime]
    BY DEF LoginAccept
  <2>6. yes \in Decisions
    BY <2>4, <2>5 DEF Decisions, Times
  <2>7. JustifiedLogin(c, yes)
    BY <2>1, <2>2, <2>3, <2>5 DEF JustifiedLogin, ForceLogin
  <2>. QED
    BY <1>2, <2>5, <2>6, <2>7, FlowsOfChallenges DEF Justified
<1>4. Justified(c, no) /\ no.handle = NoHandle
  BY <1>2, FlowsOfChallenges, RejectJustified
<1>5. Justified(c, d) /\ d.handle = NoHandle /\ ~Spends(d)
  BY <1>3, <1>4 DEF Spends
<1>6. "silentPolicy" \in PCs
  BY DEF PCs
<1>. QED
  BY <1>1, <1>2, <1>5, <1>6, DecideStep

(* The policy is asked about a session that is evidence. *)
LEMMA LoginPolicyStep ==
    ASSUME Inv, NEW r \in Requests, LoginPolicy(r)
    PROVE  Inv'
<1>. PICK c, h, s, q : c = challenge[r] /\ h = handle[r] /\ s = session[r] /\ q = request[c]
  OBVIOUS
<1>. DEFINE yes == LoginAccept(h, s.subject, AcceptanceACR(q, s), s.aal, s.authAt)
            no == Reject("login", h)
<1>1. PICK d \in {yes, no} : Decide(r, "loginPolicy", c, h, d)
  BY DEF LoginPolicy
<1>2. /\ pc[r] = "loginPolicy" /\ "loginPolicy" \in PCs /\ pc[r] \in LoginPCs
  BY DEF LoginPolicy, PCs, LoginPCs
<1>3. /\ h \in DOMAIN issued /\ h \in Handles /\ h # NoHandle /\ c = challengeOf[h]
      /\ c \in LoginChallenges /\ q \in LoginRequests /\ LoginRequestValid(q)
      /\ c \in Challenges
  BY <1>2, LoginProgress, FlowsOfChallenges
<1>4. LoginEvidence(c, h, s) /\ uses[h] = 1
  BY <1>2 DEF Inv, Progress, Claims, Holds
<1>5. CASE d = no
  BY <1>1, <1>2, <1>5, LoginRejectStep
<1>6. CASE d = yes
  <2>1. yes = [flow |-> "login", verdict |-> "accept", handle |-> h,
               subject |-> s.subject, acr |-> AcceptanceACR(q, s),
               aal |-> s.aal, authAt |-> s.authAt]
    BY DEF LoginAccept
  <2>2. /\ s \in [subject : Subjects, aal : AALs, authAt : Times]
        /\ s.aal >= RequestedAAL(q)
    BY <1>4 DEF LoginEvidence
  <2>3. s.subject \in Subjects /\ s.aal \in 0 .. 3 /\ s.authAt \in Times
    BY <2>2, AALAssumption
  <2>4. q.acrs # <<>> =>
          /\ FirstChoice(q.acrs, AcceptanceACR(q, s)) /\ s.aal >= Level(AcceptanceACR(q, s))
    BY <1>3, <2>2, ResolvedIsFirst DEF AcceptanceACR, RequestedAAL, LoginRequestValid
  <2>5. AcceptanceACR(q, s) \in SupportedACRs \cup 0 .. 3
    BY <2>3, <2>4 DEF AcceptanceACR, FirstChoice
  <2>6. yes \in Decisions
    BY <1>3, <2>1, <2>3, <2>5 DEF Decisions
  <2>7. s = [subject |-> s.subject, aal |-> s.aal, authAt |-> s.authAt]
    BY <2>2
  <2>8. JustifiedLogin(c, yes)
    BY <1>3, <1>4, <2>1, <2>4, <2>7 DEF JustifiedLogin
  <2>9. Justified(c, yes) /\ yes.handle = h
    BY <1>3, <1>4, <2>1, <2>6, <2>8, FlowsOfChallenges DEF Justified
  <2>. QED
    BY <1>1, <1>2, <1>3, <1>6, <2>9, DecideStep
<1>. QED
  BY <1>1, <1>5, <1>6

(* What a request has shown that works on a consent. *)
LEMMA ConsentProgress ==
    ASSUME Inv, NEW r \in Requests, pc[r] \in ConsentPCs
    PROVE  /\ handle[r] \in DOMAIN issued /\ handle[r] \in Handles /\ handle[r] # NoHandle
           /\ challenge[r] = challengeOf[handle[r]] /\ challenge[r] \in ConsentChallenges
           /\ challenge[r] \in Challenges
<1>1. /\ handle[r] \in DOMAIN issued /\ challenge[r] = challengeOf[handle[r]]
      /\ challenge[r] \in ConsentChallenges
  BY DEF Inv, Progress
<1>. QED
  BY <1>1, HandlesAssumption, FlowsOfChallenges DEF Inv, TypeOK

(* A consent is rejected, before or after its transaction is consumed. *)
LEMMA ConsentRejectStep ==
    ASSUME Inv, NEW r \in Requests, NEW from \in {"consentKratos", "consentPolicy"},
           Decide(r, from, challenge[r], handle[r], Reject("consent", handle[r]))
    PROVE  Inv'
<1>. PICK c, h : c = challenge[r] /\ h = handle[r]
  OBVIOUS
<1>1. pc[r] = from /\ from \in PCs
  BY DEF Decide, Goto, PCs
<1>2. /\ h \in DOMAIN issued /\ h \in Handles /\ c = challengeOf[h] /\ c \in ConsentChallenges
      /\ c \in Challenges
  BY <1>1, ConsentProgress DEF ConsentPCs
<1>3. /\ Justified(c, Reject("consent", h)) /\ Reject("consent", h).handle = h
      /\ ~Spends(Reject("consent", h))
  BY <1>2, FlowsOfChallenges, RejectJustified
<1>. QED
  BY <1>1, <1>2, <1>3, DecideStep

(* Kratos vouches for the subject of a consent. *)
LEMMA ConsentSessionStep ==
    ASSUME Inv, NEW r \in Requests, ConsentSession(r)
    PROVE  Inv'
<1>1. PICK s \in ConsentSessions :
        /\ pc[r] = "consentKratos" /\ pc' = [pc EXCEPT ![r] = "consumeConsent"]
        /\ s.subject = request[challenge[r]].subject /\ s.aal >= RequiredAAL
        /\ session' = [session EXCEPT ![r] = s]
        /\ UNCHANGED <<challenge, handle, expiresAt, form, answer, storeVars, worldVars>>
  BY DEF ConsentSession, Goto, AALAtLeast, ConsentSessions
<1>2. HandlerTypes /\ Progress(r) /\ s \in Sessions
  BY DEF Inv, TypeOK, HandlerTypes, Sessions
<1>3. HandlerTypes'
  BY <1>1, <1>2 DEF HandlerTypes, PCs
<1>4. /\ pc'[r] = "consumeConsent" /\ challenge'[r] = challenge[r] /\ handle'[r] = handle[r]
      /\ session'[r] = s /\ form'[r] = form[r] /\ OnlyMoves(r)
  BY <1>1, <1>2 DEF HandlerTypes, OnlyMoves, Stays
<1>5. issued' = issued /\ challengeOf' = challengeOf /\ request' = request
  BY <1>1 DEF storeVars, worldVars
<1>6. Progress(r)'
  BY <1>1, <1>2, <1>4, <1>5 DEF Progress, LoginPCs, ConsentPCs, ConsentEvidence
<1>7. ~Holds(r)'
  BY <1>4 DEF Holds
<1>. QED
  BY <1>1, <1>3, <1>4, <1>6, <1>7, LocalStep

(* acceptConsentDecision: the policy grants within what was asked. *)
LEMMA ConsentAllowedStep ==
    ASSUME Inv, NEW r \in Requests, ConsentAllowed(r)
    PROVE  Inv'
<1>. PICK c, h, s, f : c = challenge[r] /\ h = handle[r] /\ s = session[r] /\ f = form[r]
  OBVIOUS
<1>1. PICK scopes \in SUBSET Scopes, audiences \in SUBSET Audiences :
        /\ scopes \subseteq f.scopes
        /\ audiences \subseteq AskedAudiences(request[c], f)
        /\ Decide(r, "consentPolicy", c, h, ConsentAccept(h, s, f, scopes, audiences))
  BY DEF ConsentAllowed
<1>2. pc[r] = "consentPolicy" /\ "consentPolicy" \in PCs /\ pc[r] \in ConsentPCs
  BY DEF ConsentAllowed, PCs, ConsentPCs
<1>3. /\ h \in DOMAIN issued /\ h \in Handles /\ h # NoHandle /\ c = challengeOf[h]
      /\ c \in ConsentChallenges /\ c \in Challenges
  BY <1>2, ConsentProgress
<1>4. ConsentEvidence(c, s) /\ f \in Forms /\ Asked(request[c], f) /\ uses[h] = 1
  <2>1. ConsentEvidence(c, s) /\ uses[h] = 1
    BY <1>2 DEF Inv, Progress, Claims, Holds
  <2>2. f \in Forms /\ Asked(request[c], f)
    BY <1>2 DEF Inv, Progress, ConsentPCs
  <2>. QED
    BY <2>1, <2>2
<1>. DEFINE d == ConsentAccept(h, s, f, scopes, audiences)
<1>5. d = [flow |-> "consent", verdict |-> "accept", handle |-> h, session |-> s, asked |-> f,
           scopes |-> scopes, audiences |-> audiences]
  BY DEF ConsentAccept
<1>6. d \in Decisions
  BY <1>3, <1>4, <1>5 DEF Decisions, ConsentEvidence
<1>7. JustifiedConsent(c, d)
  BY <1>1, <1>4, <1>5 DEF JustifiedConsent
<1>8. Justified(c, d) /\ d.handle = h
  BY <1>3, <1>4, <1>5, <1>6, <1>7, FlowsOfChallenges DEF Justified
<1>. QED
  BY <1>1, <1>2, <1>3, <1>8, DecideStep

-------------------------------------------------------------------------------
(* Hydra is told, time passes, the process dies *)

(* What Append adds, and what it leaves. *)
LEMMA AppendedLast ==
    ASSUME NEW S, NEW s \in Seq(S), NEW d \in S, NEW i \in DOMAIN Append(s, d)
    PROVE  \/ i \in DOMAIN s /\ Append(s, d)[i] = s[i]
           \/ i = Len(s) + 1 /\ Append(s, d)[i] = d
  OBVIOUS

(* What was justified is in the ledger; who held the transaction spent it. *)
LEMMA AnswerReceivedStep ==
    ASSUME Inv, NEW r \in Requests, AnswerReceived(r)
    PROVE  Inv'
<1>. PICK c, d : c = challenge[r] /\ d = answer[r]
  OBVIOUS
<1>1. /\ HandlerTypes' /\ OnlyMoves(r) /\ Progress(r)' /\ ~Holds(r)' /\ pc[r] = "answer"
  BY Finished DEF Inv, AnswerReceived
<1>2. /\ decisions' = [decisions EXCEPT ![c] = Append(@, d)]
      /\ now' = now /\ issued' = issued /\ pending' = pending /\ uses' = uses
      /\ challengeOf' = challengeOf /\ known' = known /\ request' = request
      /\ undecided' = undecided
  BY DEF AnswerReceived, storeVars
<1>3. TypeOK /\ Ledger /\ Claims
  BY DEF Inv
<1>4. Justified(c, d) /\ d.handle = handle[r] /\ c \in Challenges /\ d \in Decisions
  BY <1>1 DEF Inv, Progress, Justified
<1>5. Grows
  BY <1>2, <1>3 DEF TypeOK, Grows
<1>6. decisions[c] \in Seq(Decisions) /\ \A b \in Challenges : decisions[b] \in Seq(Decisions)
  BY <1>3, <1>4 DEF TypeOK
<1>7. /\ \A b \in Challenges : b # c => decisions'[b] = decisions[b]
      /\ decisions'[c] = Append(decisions[c], d)
      /\ decisions' \in [Challenges -> Seq(Decisions)]
  BY <1>2, <1>3, <1>4, <1>6 DEF TypeOK
<1>8. ASSUME NEW b \in Challenges, NEW i \in DOMAIN decisions'[b]
      PROVE  \/ i \in DOMAIN decisions[b] /\ decisions'[b][i] = decisions[b][i]
             \/ b = c /\ i = Len(decisions[c]) + 1 /\ decisions'[b][i] = d
  <2>1. CASE b = c
    <3>1. decisions'[b] = Append(decisions[c], d) /\ i \in DOMAIN Append(decisions[c], d)
      BY <1>7, <1>8, <2>1
    <3>2. \/ i \in DOMAIN decisions[c] /\ Append(decisions[c], d)[i] = decisions[c][i]
          \/ i = Len(decisions[c]) + 1 /\ Append(decisions[c], d)[i] = d
      BY <1>4, <1>6, <3>1, AppendedLast
    <3>. QED
      BY <2>1, <3>1, <3>2
  <2>2. CASE b # c
    BY <1>7, <1>8, <2>2
  <2>. QED
    BY <2>1, <2>2
<1>9. TypeOK'
  BY <1>1, <1>2, <1>3, <1>7 DEF TypeOK, HandlerTypes
<1>10. Ledger'
  <2>1. \A b \in Challenges : \A i \in DOMAIN decisions'[b] : Justified(b, decisions[b][i])'
    <3>. SUFFICES ASSUME NEW b \in Challenges, NEW i \in DOMAIN decisions'[b]
                  PROVE  Justified(b, decisions[b][i])'
      OBVIOUS
    <3>. PICK e : e = decisions'[b][i]
      OBVIOUS
    <3>1. Justified(b, e)
      BY <1>3, <1>4, <1>8 DEF Ledger
    <3>2. Justified(b, e)'
      BY <1>3, <1>5, <3>1, JustifiedKept
    <3>. QED
      BY <3>2
  <2>. QED
    BY <1>2, <1>3, <1>5, <2>1, PresentableKept DEF Ledger
<1>11. Claims'
  <2>1. \A q \in Requests : Holds(q)' => q # r /\ Holds(q) /\ handle'[q] = handle[q]
    BY <1>1 DEF OnlyMoves, Stays, Holds
  <2>2. Spends(d) => Holds(r)
    BY <1>1 DEF Holds
  <2>3. /\ \A q \in Requests : Holds(q)' => handle'[q] \in Handles /\ uses'[handle'[q]] = 1
        /\ \A p, q \in Requests : Holds(p)' /\ Holds(q)' /\ handle'[p] = handle'[q] => p = q
    BY <1>2, <1>3, <2>1 DEF Claims
  <2>4. ASSUME NEW b \in Challenges, NEW i \in DOMAIN decisions'[b], Spends(decisions'[b][i])
        PROVE  /\ uses'[decisions'[b][i].handle] = 1
               /\ \A q \in Requests : Holds(q)' => handle'[q] # decisions'[b][i].handle
    <3>1. CASE i \in DOMAIN decisions[b] /\ decisions'[b][i] = decisions[b][i]
      BY <1>2, <1>3, <2>1, <2>4, <3>1 DEF Claims
    <3>2. CASE decisions'[b][i] = d
      BY <1>2, <1>3, <1>4, <2>1, <2>2, <2>4, <3>2 DEF Claims
    <3>. QED
      BY <1>8, <3>1, <3>2
  <2>5. ASSUME NEW a \in Challenges, NEW b \in Challenges,
               NEW i \in DOMAIN decisions'[a], NEW j \in DOMAIN decisions'[b],
               Spends(decisions'[a][i]), Spends(decisions'[b][j]),
               decisions'[a][i].handle = decisions'[b][j].handle
        PROVE  a = b /\ i = j
    <3>1. Spends(d) => \A e \in Challenges : \A k \in DOMAIN decisions[e] :
            Spends(decisions[e][k]) => decisions[e][k].handle # d.handle
      BY <1>3, <1>4, <2>2 DEF Claims
    <3>2. \/ i \in DOMAIN decisions[a] /\ decisions'[a][i] = decisions[a][i]
          \/ a = c /\ i = Len(decisions[c]) + 1 /\ decisions'[a][i] = d
      BY <1>8
    <3>3. \/ j \in DOMAIN decisions[b] /\ decisions'[b][j] = decisions[b][j]
          \/ b = c /\ j = Len(decisions[c]) + 1 /\ decisions'[b][j] = d
      BY <1>8
    <3>. QED
      BY <1>3, <2>5, <3>1, <3>2, <3>3 DEF Claims
  <2>. QED
    BY <2>3, <2>4, <2>5 DEF Claims
<1>. QED
  BY <1>1, <1>5, <1>9, <1>10, <1>11, WorldStep

(* The call never reaches Hydra. *)
LEMMA AnswerFailsStep ==
    ASSUME Inv, NEW r \in Requests, AnswerFails(r)
    PROVE  Inv'
<1>1. /\ HandlerTypes' /\ OnlyMoves(r) /\ Progress(r)' /\ ~Holds(r)'
  BY Finished DEF Inv, AnswerFails
<1>2. /\ undecided' = undecided \cup {handle[r]}
      /\ now' = now /\ issued' = issued /\ pending' = pending /\ uses' = uses
      /\ challengeOf' = challengeOf /\ known' = known /\ request' = request
      /\ decisions' = decisions
  BY DEF AnswerFails, storeVars
<1>3. TypeOK /\ Ledger /\ Claims
  BY DEF Inv
<1>4. Grows
  BY <1>2, <1>3 DEF TypeOK, Grows
<1>5. TypeOK'
  BY <1>1, <1>2, <1>3 DEF TypeOK, HandlerTypes
<1>6. Ledger'
  BY <1>2, <1>3, <1>4, LedgerKept
<1>7. Claims'
  BY <1>1, <1>2, <1>3, <1>4, SpentIsHandle, ClaimsKept
<1>. QED
  BY <1>1, <1>4, <1>5, <1>6, <1>7, WorldStep

(* Time passes: transactions expire, and evidence stays evidence. *)
LEMMA TickStep ==
    ASSUME Inv, Tick
    PROVE  Inv'
<1>1. /\ now' = now + 1 /\ pending' \subseteq pending /\ issued' = issued /\ uses' = uses
      /\ UNCHANGED <<worldVars, localVars>>
  BY DEF Tick, Port!Tick, Port!Live
<1>2. /\ challengeOf' = challengeOf /\ known' = known /\ request' = request
      /\ decisions' = decisions /\ undecided' = undecided
      /\ pc' = pc /\ challenge' = challenge /\ handle' = handle /\ expiresAt' = expiresAt
      /\ form' = form /\ session' = session /\ answer' = answer
  BY <1>1 DEF worldVars, localVars
<1>3. TypeOK /\ Ledger /\ Claims /\ \A r \in Requests : Progress(r)
  BY DEF Inv
<1>4. Grows
  BY <1>1, <1>2, <1>3 DEF TypeOK, Grows
<1>5. TypeOK'
  BY <1>1, <1>2, <1>3 DEF TypeOK
<1>6. Ledger'
  BY <1>1, <1>2, <1>3, <1>4, LedgerKept
<1>7. \A r \in Requests : Progress(r)'
  BY <1>2, <1>3, <1>4, ProgressKept DEF Stays
<1>8. Claims'
  <2>1. \A r \in Requests : Holds(r)' <=> Holds(r)
    BY <1>2 DEF Holds
  <2>. QED
    BY <1>1, <1>2, <1>3, <2>1 DEF Claims
<1>. QED
  BY <1>5, <1>6, <1>7, <1>8 DEF Inv

(* A crash ends every handler; what was told and consumed stays so. *)
LEMMA CrashStep ==
    ASSUME Inv, Crash
    PROVE  Inv'
<1>1. /\ pending' \subseteq pending
      /\ undecided' = undecided \cup {handle[r] : r \in Requests}
      /\ now' = now /\ issued' = issued /\ uses' = uses /\ challengeOf' = challengeOf
      /\ known' = known /\ request' = request /\ decisions' = decisions
      /\ \A r \in Requests : pc'[r] = "idle"
  BY DEF Crash
<1>2. HandlerTypes'
  BY DEF Crash, HandlerTypes, PCs
<1>3. TypeOK /\ Ledger /\ Claims
  BY DEF Inv
<1>4. Grows
  BY <1>1, <1>3 DEF TypeOK, Grows
<1>5. TypeOK'
  BY <1>1, <1>2, <1>3 DEF TypeOK, HandlerTypes
<1>6. Ledger'
  BY <1>1, <1>3, <1>4, LedgerKept
<1>7. \A r \in Requests : Progress(r)' /\ ~Holds(r)'
  BY <1>1 DEF Progress, Holds, LoginPCs, ConsentPCs
<1>8. Claims'
  BY <1>1, <1>3, <1>7 DEF Claims
<1>. QED
  BY <1>5, <1>6, <1>7, <1>8 DEF Inv

-------------------------------------------------------------------------------
(* The theorems *)

(* Nothing is stored, nobody is at work, and Hydra holds requests. *)
LEMMA InitInv == Init => Inv
<1>. SUFFICES ASSUME Init PROVE Inv
  OBVIOUS
<1>1. /\ now = 0 /\ issued = <<>> /\ pending = {} /\ uses = [h \in Handles |-> 0]
      /\ challengeOf = <<>> /\ known = {} /\ undecided = {}
      /\ decisions = [c \in Challenges |-> <<>>]
      /\ pc = [r \in Requests |-> "idle"]
  BY DEF Init, CoreInit, Port!Init
<1>2. DOMAIN issued = {} /\ DOMAIN challengeOf = {}
  BY <1>1
<1>3. /\ \A c \in LoginChallenges : request[c] \in LoginRequests
      /\ \A c \in ConsentChallenges : request[c] \in ConsentRequests
  <2>1. PICK login \in [LoginChallenges -> LoginRequests],
             consent \in [ConsentChallenges -> ConsentRequests] :
          request = [c \in Challenges |->
                      CASE c \in LoginChallenges -> login[c]
                        [] c \in ConsentChallenges -> consent[c]
                        [] OTHER -> None]
    BY DEF Init
  <2>. QED
    BY <2>1, FlowsOfChallenges
<1>4. HandlerTypes
  BY DEF Init, CoreInit, HandlerTypes, PCs
<1>5. \A c \in Challenges : decisions[c] \in Seq(Decisions) /\ DOMAIN decisions[c] = {}
  BY <1>1
<1>6. TypeOK
  BY <1>1, <1>2, <1>3, <1>4, <1>5 DEF TypeOK, HandlerTypes
<1>7. Ledger
  BY <1>1, <1>2, <1>5 DEF Ledger
<1>8. \A r \in Requests : Progress(r) /\ ~Holds(r)
  BY <1>1 DEF Progress, Holds, LoginPCs, ConsentPCs
<1>9. Claims
  BY <1>5, <1>8 DEF Claims
<1>. QED
  BY <1>6, <1>7, <1>8, <1>9 DEF Inv

(* Steps that change nothing. *)
LEMMA StutterStep ==
    ASSUME Inv, UNCHANGED vars
    PROVE  Inv'
<1>1. /\ now' = now /\ issued' = issued /\ pending' = pending /\ uses' = uses
      /\ challengeOf' = challengeOf /\ known' = known /\ request' = request
      /\ decisions' = decisions /\ undecided' = undecided
      /\ pc' = pc /\ challenge' = challenge /\ handle' = handle /\ expiresAt' = expiresAt
      /\ form' = form /\ session' = session /\ answer' = answer
  BY DEF vars, storeVars, worldVars, localVars
<1>2. TypeOK /\ Ledger /\ Claims /\ \A r \in Requests : Progress(r)
  BY DEF Inv
<1>3. Grows
  BY <1>1, <1>2 DEF TypeOK, Grows
<1>4. TypeOK'
  BY <1>1, <1>2 DEF TypeOK
<1>5. Ledger'
  BY <1>1, <1>2, <1>3, LedgerKept
<1>6. \A r \in Requests : Progress(r)'
  BY <1>1, <1>2, <1>3, ProgressKept DEF Stays
<1>7. Claims'
  BY <1>1, <1>2 DEF Claims, Holds
<1>. QED
  BY <1>4, <1>5, <1>6, <1>7 DEF Inv

(* Every action keeps the invariant. *)
LEMMA NextInv == Inv /\ [Next]_vars => Inv'
<1>. SUFFICES ASSUME Inv, [Next]_vars PROVE Inv'
  OBVIOUS
<1>1. ASSUME NEW r \in Requests, TurnedAway(r) PROVE Inv'
  BY <1>1, StutterStep DEF TurnedAway
<1>2. ASSUME NEW r \in Requests, Begin(r) PROVE Inv'
  BY <1>2, BeginLoginStep, BeginConsentStep, BeginLogoutStep DEF Begin
<1>3. ASSUME NEW r \in Requests, Step(r) PROVE Inv'
  <2>1. CASE Create(r) \/ CreateFails(r)
    BY <2>1, CreateStep
  <2>2. CASE LoginStep(r)
    <3>1. CASE LoginSessionRefused(r)
      BY <3>1, LoginRejectStep DEF LoginSessionRefused
    <3>. QED
      BY <2>2, <3>1, SilentPolicyStep, ConsumeStep, ConsumeRefusedStep, LoginSessionStep,
         LoginPolicyStep DEF LoginStep
  <2>3. CASE ConsentStep(r)
    <3>1. CASE ConsentSessionRefused(r) \/ ConsentRefused(r)
      BY <3>1, ConsentRejectStep DEF ConsentSessionRefused, ConsentRefused
    <3>. QED
      BY <2>3, <3>1, ConsentSessionStep, ConsumeAndDecideStep, ConsumeRefusedStep, ConsumeStep,
         ConsentAllowedStep DEF ConsentStep
  <2>4. CASE LogoutStep(r)
    BY <2>4, ConsumeAndDecideStep, ConsumeRefusedStep DEF LogoutStep
  <2>5. CASE AnswerReceived(r) \/ AnswerFails(r)
    BY <2>5, AnswerReceivedStep, AnswerFailsStep
  <2>. QED
    BY <1>3, <2>1, <2>2, <2>3, <2>4, <2>5 DEF Step
<1>. QED
  BY <1>1, <1>2, <1>3, TickStep, CrashStep, StutterStep DEF Next

(* The invariant holds in every behaviour, fair or not. *)
LEMMA Invariant == Spec => []Inv
  BY InitInv, NextInv, PTL DEF Spec

(***************************************************************************)
(* The variables of the service keep their types; in particular no         *)
(* transaction is consumed twice.                                          *)
(***************************************************************************)
THEOREM ProviderTypeCorrect == Spec => []TypeOK
<1>1. Inv => TypeOK
  BY DEF Inv
<1>. QED
  BY Invariant, <1>1, PTL

(***************************************************************************)
(* Hydra is told one decision through a transaction of a login or a        *)
(* logout, and one grant through one of a consent, however many requests   *)
(* complete it at once.                                                    *)
(***************************************************************************)
THEOREM DecidedOnce == Spec => []OneDecisionPerTransaction
  BY Invariant, InvOnce, PTL

(* The endpoint of one flow decides no challenge of another. *)
THEOREM FlowsApart == Spec => []FlowsKeptApart
  BY Invariant, InvApart, PTL

(* What is accepted had its transaction taken out of the store for it. *)
THEOREM AcceptedIsConsumed == Spec => []AcceptsAreConsumed
  BY Invariant, InvConsumed, PTL

(***************************************************************************)
(* A login accepted after an interaction has the subject, the level, the   *)
(* acr and the freshness that were asked for, for every list of ACR values *)
(* and every max_age that a request can have.                              *)
(***************************************************************************)
THEOREM LoginsAssured == Spec => []InteractiveLoginsAssured
  BY Invariant, InvAssured, PTL

(* A browser that follows the hints of StartLogin passes CompleteLogin. *)
THEOREM HandoffIsEnough == Spec => []HandoffSuffices
  BY Invariant, InvHandoff, PTL

(* A login is accepted without a transaction only on Hydra's word, where no prompt *)
(* and no level asks for more, and while no browser is in the UI for it.           *)
THEOREM SilentOnlyOnHydrasWord == Spec => []SilentLoginsOnHydrasWord
  BY Invariant, InvOnWord, PTL

(* A consent grants no more than was requested and was asked for. *)
THEOREM GrantsWithinBounds == Spec => []ConsentsWithinBounds
  BY Invariant, InvBounds, PTL

(* prompt=none sends nobody to the UI who would have to do something there. *)
THEOREM NoneIsSilent == Spec => []PromptNoneStaysSilent
  BY Invariant, InvSilent, PTL

-------------------------------------------------------------------------------
(***************************************************************************)
(* The safety half of ConsumedIsAnswered: no handler gives up a            *)
(* transaction that it has consumed.  It answers Hydra, the call fails, or *)
(* the process dies; until then it is on its way there.  Together with     *)
(* weak fairness of Step this is why a consumed transaction is answered.   *)
(***************************************************************************)
AnsweringPCs == {"loginKratos", "loginPolicy", "consentPolicy", "answer"}

Told(h) == \E c \in Challenges : \E i \in DOMAIN decisions[c] : decisions[c][i].handle = h

AtWork(r, h) == pc[r] \in AnsweringPCs /\ handle[r] = h

OnItsWay ==
    \A h \in Handles :
        uses[h] = 1 => Told(h) \/ h \in undecided \/ \E r \in Requests : AtWork(r, h)

AnsweredOrOnItsWay ==
    \A h \in Handles :
        uses[h] = 1 =>
            \/ Via(h, {"accept", "reject"}) # {} \/ h \in undecided
            \/ \E r \in Requests : AtWork(r, h)

(* A handler that returns without an answer had consumed nothing. *)
Quits(r) ==
    /\ \E from \in PCs \ AnsweringPCs : Finish(r, from)
    /\ UNCHANGED <<uses, decisions, undecided>>

(* A handler that goes on keeps what it has consumed, or consumes it now. *)
GoesOn(r) ==
    /\ \A q \in Requests \ {r} : pc'[q] = pc[q] /\ handle'[q] = handle[q]
    /\ pc[r] \in AnsweringPCs => pc'[r] \in AnsweringPCs /\ handle'[r] = handle[r]
    /\ \/ uses' = uses
       \/ /\ uses' = [uses EXCEPT ![handle[r]] = @ + 1]
          /\ pc'[r] \in AnsweringPCs /\ handle'[r] = handle[r]
    /\ UNCHANGED <<decisions, undecided>>

(* A handler that decides goes on (Decide). *)
LEMMA DecidesOn ==
    ASSUME HandlerTypes, NEW r \in Requests, NEW from, NEW c, NEW h, NEW d,
           Decide(r, from, c, h, d), from \in AnsweringPCs => h = handle[r]
    PROVE  GoesOn(r)
  BY DEF HandlerTypes, Decide, Goto, GoesOn, AnsweringPCs, storeVars, worldVars

(* A handler that begins goes on (StartLogin, StartConsent, StartLogout and the callbacks). *)
LEMMA BeginsOn ==
    ASSUME HandlerTypes, NEW r \in Requests, Begin(r)
    PROVE  GoesOn(r)
<1>1. ASSUME NEW c, NEW h, NEW d, Decide(r, "idle", c, h, d) PROVE GoesOn(r)
  BY <1>1, DecidesOn DEF AnsweringPCs
<1>2. ASSUME NEW c, BeginCreate(r, c) PROVE GoesOn(r)
  BY <1>2 DEF BeginCreate, HandlerTypes, Goto, GoesOn, AnsweringPCs, storeVars, worldVars
<1>3. ASSUME NEW cs, NEW to, NEW h, NEW f, Load(r, cs, to, h, f) PROVE GoesOn(r)
  BY <1>3 DEF Load, HandlerTypes, Goto, GoesOn, AnsweringPCs, storeVars, worldVars
<1>4. ASSUME NEW c, StartSilentLogin(r, c) PROVE GoesOn(r)
  BY <1>4 DEF StartSilentLogin, HandlerTypes, Goto, GoesOn, AnsweringPCs, storeVars, worldVars
<1>5. CASE BeginLogin(r)
  BY <1>1, <1>2, <1>3, <1>4, <1>5 DEF BeginLogin, RejectLogin, StartInteractiveLogin, CompleteLogin
<1>6. CASE BeginConsent(r)
  BY <1>1, <1>2, <1>3, <1>6
  DEF BeginConsent, ConsentRequired, StartConsent, DenyConsent, GrantConsent, GrantTooMuch
<1>7. CASE BeginLogout(r)
  BY <1>2, <1>3, <1>7 DEF BeginLogout, StartLogout, CompleteLogout
<1>. QED
  BY <1>5, <1>6, <1>7 DEF Begin

(* The steps of a handler: it goes on, quits, or has come to its answer. *)
LEMMA StepsOn ==
    ASSUME HandlerTypes, NEW r \in Requests, Step(r)
    PROVE  GoesOn(r) \/ Quits(r) \/ AnswerReceived(r) \/ AnswerFails(r)
<1>. USE DEF HandlerTypes, Goto, GoesOn, AnsweringPCs
<1>1. ASSUME NEW from \in {"silentPolicy", "loginKratos", "loginPolicy", "consentKratos", "consentPolicy"},
             NEW d, Decide(r, from, challenge[r], IF from = "silentPolicy" THEN NoHandle ELSE handle[r], d)
      PROVE  GoesOn(r)
  BY <1>1, DecidesOn
<1>2. ASSUME NEW from \in {"consumeLogin", "consumeDeny", "consumeConsent", "consumeLogout"},
             ConsumeRefused(r, from) \/ ConsumeFails(r, from)
      PROVE  Quits(r)
  BY <1>2 DEF ConsumeRefused, ConsumeFails, Quits, PCs, storeVars, worldVars, Port!Lose
<1>3. CASE Create(r) \/ CreateFails(r)
  BY <1>3 DEF Create, CreateFails, Insert, Port!Create, Quits, PCs, storeVars, worldVars
<1>4. CASE Consume(r, "consumeLogin", "loginKratos") \/ Consume(r, "consumeConsent", "consentPolicy")
  BY <1>4 DEF Consume, Port!Consume, worldVars
<1>5. CASE Deny(r) \/ ConsumeLogout(r)
  BY <1>5 DEF Deny, ConsumeLogout, Port!Consume, worldVars
<1>6. CASE LoginSession(r) \/ ConsentSession(r)
  BY <1>6 DEF LoginSession, ConsentSession, storeVars, worldVars
<1>7. CASE LoginStep(r)
  <2>1. CASE SilentPolicy(r)
    BY <1>1, <2>1 DEF SilentPolicy
  <2>2. CASE LoginPolicy(r)
    BY <1>1, <2>2 DEF LoginPolicy
  <2>3. CASE LoginSessionRefused(r)
    BY <1>1, <2>3 DEF LoginSessionRefused
  <2>. QED
    BY <1>2, <1>4, <1>6, <1>7, <2>1, <2>2, <2>3 DEF LoginStep
<1>8. CASE ConsentStep(r)
  <2>1. CASE ConsentAllowed(r)
    BY <1>1, <2>1 DEF ConsentAllowed
  <2>2. CASE ConsentRefused(r) \/ ConsentSessionRefused(r)
    BY <1>1, <2>2 DEF ConsentRefused, ConsentSessionRefused
  <2>. QED
    BY <1>2, <1>4, <1>5, <1>6, <1>8, <2>1, <2>2 DEF ConsentStep
<1>9. CASE LogoutStep(r)
  BY <1>2, <1>5, <1>9 DEF LogoutStep
<1>. QED
  BY <1>3, <1>7, <1>8, <1>9 DEF Step

(* Hydra does not forget what it was told (AnswerReceived). *)
LEMMA ReceivedIsTold ==
    ASSUME Inv, NEW r \in Requests, AnswerReceived(r)
    PROVE  \A h \in Handles : Told(h) \/ AtWork(r, h) => Told(h)'
<1>. PICK c, d : c = challenge[r] /\ d = answer[r]
  OBVIOUS
<1>1. decisions' = [decisions EXCEPT ![c] = Append(@, d)] /\ pc[r] = "answer"
  BY DEF AnswerReceived, Finish, Goto
<1>2. c \in Challenges /\ d.handle = handle[r] /\ d \in Decisions
  BY <1>1 DEF Inv, Progress, Justified
<1>3. decisions \in [Challenges -> Seq(Decisions)]
  BY DEF Inv, TypeOK
<1>4. /\ \A b \in Challenges : b # c => decisions'[b] = decisions[b]
      /\ decisions'[c] = Append(decisions[c], d)
      /\ decisions[c] \in Seq(Decisions)
  BY <1>1, <1>2, <1>3
<1>5. /\ \A i \in DOMAIN decisions[c] : i \in DOMAIN decisions'[c] /\ decisions'[c][i] = decisions[c][i]
      /\ Len(decisions[c]) + 1 \in DOMAIN decisions'[c]
      /\ decisions'[c][Len(decisions[c]) + 1] = d
  BY <1>2, <1>4
<1>6. ASSUME NEW h \in Handles, Told(h) PROVE Told(h)'
  <2>1. PICK b \in Challenges : \E i \in DOMAIN decisions[b] : decisions[b][i].handle = h
    BY <1>6 DEF Told
  <2>. QED
    BY <1>4, <1>5, <2>1 DEF Told
<1>7. ASSUME NEW h \in Handles, AtWork(r, h) PROVE Told(h)'
  BY <1>2, <1>5, <1>7 DEF Told, AtWork
<1>. QED
  BY <1>6, <1>7

(* Nobody gives a consumed transaction up. *)
LEMMA NextOnItsWay == Inv /\ Inv' /\ OnItsWay /\ [Next]_vars => OnItsWay'
<1>. SUFFICES ASSUME Inv, Inv', OnItsWay, [Next]_vars,
                     NEW h \in Handles, uses'[h] = 1, ~Told(h)', h \notin undecided'
              PROVE  \E r \in Requests : AtWork(r, h)'
  BY DEF OnItsWay
<1>0. HandlerTypes /\ uses \in [Handles -> 0 .. 1]
  BY DEF Inv, TypeOK, HandlerTypes
<1>1. ASSUME uses' = uses, decisions' = decisions, undecided \subseteq undecided'
      PROVE  \E r \in Requests : AtWork(r, h)
  BY <1>1 DEF OnItsWay, Told
<1>2. ASSUME NEW r \in Requests, GoesOn(r) PROVE \E q \in Requests : AtWork(q, h)'
  <2>1. \A q \in Requests : AtWork(q, h) => AtWork(q, h)'
    BY <1>2 DEF GoesOn, AtWork
  <2>2. CASE uses' = uses
    BY <1>1, <1>2, <2>1, <2>2 DEF GoesOn
  <2>3. CASE /\ uses' = [uses EXCEPT ![handle[r]] = @ + 1]
             /\ pc'[r] \in AnsweringPCs /\ handle'[r] = handle[r]
    <3>1. CASE handle[r] = h
      BY <2>3, <3>1 DEF AtWork
    <3>2. CASE handle[r] # h
      <4>1. uses[h] = 1
        BY <1>0, <2>3, <3>2
      <4>. QED
        BY <1>2, <2>1, <4>1 DEF GoesOn, OnItsWay, Told
    <3>. QED
      BY <3>1, <3>2
  <2>. QED
    BY <1>2, <2>2, <2>3 DEF GoesOn
<1>3. ASSUME NEW r \in Requests, NEW from, Finish(r, from)
      PROVE  \A q \in Requests \ {r} : AtWork(q, h) => AtWork(q, h)'
  BY <1>0, <1>3 DEF Finish, Goto, AtWork, HandlerTypes
<1>4. ASSUME NEW r \in Requests, Quits(r) PROVE \E q \in Requests : AtWork(q, h)'
  <2>1. PICK q \in Requests : AtWork(q, h)
    BY <1>1, <1>4 DEF Quits
  <2>2. q # r
    BY <1>4, <2>1 DEF Quits, Finish, Goto, AtWork
  <2>. QED
    BY <1>3, <1>4, <2>1, <2>2 DEF Quits
<1>5. ASSUME NEW r \in Requests, AnswerReceived(r) PROVE \E q \in Requests : AtWork(q, h)'
  <2>1. uses' = uses /\ undecided' = undecided
    BY <1>5 DEF AnswerReceived, storeVars
  <2>2. ~Told(h) /\ ~AtWork(r, h)
    BY <1>5, ReceivedIsTold
  <2>. QED
    BY <1>3, <1>5, <2>1, <2>2 DEF AnswerReceived, OnItsWay
<1>6. ASSUME NEW r \in Requests, AnswerFails(r) PROVE \E q \in Requests : AtWork(q, h)'
  <2>1. uses' = uses /\ decisions' = decisions /\ undecided' = undecided \cup {handle[r]}
    BY <1>6 DEF AnswerFails, storeVars
  <2>2. PICK q \in Requests : AtWork(q, h)
    BY <1>1, <2>1
  <2>3. q # r
    BY <2>1, <2>2 DEF AtWork
  <2>. QED
    BY <1>3, <1>6, <2>2, <2>3 DEF AnswerFails
<1>7. CASE Crash
  <2>1. uses' = uses /\ decisions' = decisions
        /\ undecided' = undecided \cup {handle[r] : r \in Requests}
    BY <1>7 DEF Crash
  <2>2. PICK q \in Requests : AtWork(q, h)
    BY <1>1, <2>1
  <2>. QED
    BY <2>1, <2>2 DEF AtWork
<1>8. CASE Tick \/ UNCHANGED vars
  <2>1. UNCHANGED <<uses, decisions, undecided, pc, handle>>
    BY <1>8 DEF Tick, Port!Tick, vars, storeVars, worldVars, localVars
  <2>. QED
    BY <1>1, <2>1 DEF AtWork
<1>9. ASSUME NEW r \in Requests, TurnedAway(r) PROVE UNCHANGED vars
  BY <1>9 DEF TurnedAway
<1>. QED
  BY <1>0, <1>2, <1>4, <1>5, <1>6, <1>7, <1>8, <1>9, BeginsOn, StepsOn DEF Next

(***************************************************************************)
(* However handlers race, fail and crash, a consumed transaction has led   *)
(* to a call that Hydra received, to one that is known to have failed, or  *)
(* its handler is still on its way to Hydra (CompleteLogin,                *)
(* CompleteConsent, CompleteLogout).                                       *)
(***************************************************************************)
THEOREM NeverGivenUp == Spec => []AnsweredOrOnItsWay
<1>1. Init => OnItsWay
  BY DEF Init, CoreInit, Port!Init, OnItsWay
<1>2. Inv /\ OnItsWay => AnsweredOrOnItsWay
  <2>. SUFFICES ASSUME Inv, NEW h \in Handles, Told(h)
                PROVE  Via(h, {"accept", "reject"}) # {}
    BY DEF OnItsWay, AnsweredOrOnItsWay
  <2>1. PICK c \in Challenges : \E i \in DOMAIN decisions[c] : decisions[c][i].handle = h
    BY DEF Told
  <2>2. PICK i \in DOMAIN decisions[c] : decisions[c][i].handle = h
    BY <2>1
  <2>3. decisions[c][i] \in Decisions
    BY <2>2 DEF Inv, Ledger, Justified
  <2>4. decisions[c][i].verdict \in {"accept", "reject"}
    BY <2>3 DEF Decisions
  <2>5. <<c, i>> \in Via(h, {"accept", "reject"})
    BY <2>2, <2>4 DEF Via
  <2>. QED
    BY <2>5
<1>. QED
  BY <1>1, <1>2, NextOnItsWay, Invariant, PTL DEF Spec

===============================================================================

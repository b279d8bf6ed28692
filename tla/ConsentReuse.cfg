SPECIFICATION Spec
CONSTANTS
    Requests = {r1, r2}
    Handles = {h1}
    NoHandle = NoHandle
    LoginChallenges <- NoChallenges
    ConsentChallenges = {c1}
    LogoutChallenges <- NoChallenges
    NoChallenge = NoChallenge
    Subjects = {alice, bob}
    NoSubject = NoSubject
    alice = alice
    bob = bob
    scope1 = scope1
    scope2 = scope2
    api = api
    aal1 = aal1
    aal2 = aal2
    aal3 = aal3
    gold = gold
    odd = odd
    blank = blank
    BlankACR = blank
    OIDCACRMappings <- MCOIDCACRMappings
    BuiltinACRs <- MCBuiltinACRs
    LoginRequests <- MCOneLoginRequest
    ConsentRequests <- MCOneConsentRequest
    Scopes = {scope1, scope2}
    Audiences = {api}
    AALs = {0, 2}
    RequiredAAL = 2
    NoMaxAge = NoMaxAge
    NoTime = NoTime
    SampleLoginAAL = 1
    TicksPerSecond = 1
    TTL = 1
    MaxTime = 1
    MaxDecisions = 2
    Redis = FALSE
INVARIANTS
    ConsentTransactionsSingleUse

SPECIFICATION Spec
CONSTANTS
    Requests = {r1, r2}
    Handles = {h1, h2}
    NoHandle = NoHandle
    LoginChallenges = {l1}
    ConsentChallenges <- NoChallenges
    LogoutChallenges <- NoChallenges
    NoChallenge = NoChallenge
    Subjects = {alice, bob}
    NoSubject = NoSubject
    alice = alice
    bob = bob
    scope1 = scope1
    scope2 = scope2
    api = api
    aal1 = aal1
    aal2 = aal2
    aal3 = aal3
    gold = gold
    odd = odd
    blank = blank
    BlankACR = blank
    OIDCACRMappings <- MCOIDCACRMappings
    BuiltinACRs <- MCBuiltinACRs
    LoginRequests <- MCLoginRequests
    ConsentRequests <- MCConsentRequests
    Scopes = {scope1, scope2}
    Audiences = {api}
    AALs = {0, 1, 2}
    RequiredAAL = 0
    NoMaxAge = NoMaxAge
    NoTime = NoTime
    SampleLoginAAL = 1
    TicksPerSecond = 2
    TTL = 2
    MaxTime = 3
    MaxDecisions = 2
    Redis = FALSE
INVARIANTS
    InteractiveLoginsAssured
    HandoffSuffices
    SilentLoginsOnHydrasWord
    PromptNoneStaysSilent
SYMMETRY Symmetry

SPECIFICATION DecisionSpec
CONSTANTS
    a1 = a1
    alice = alice
    bob = bob
    Scopes <- SomeScopes
    Audiences = {a1}
    Blank = blank
    Subjects = {alice, bob}
    Wildcard = wildcard
    Configs <- SomeConfigs
    MaxList = 2
    Missing = missing
    Names <- SomeNames
    Values <- SomeValues
    Lower <- SomeLower
    Text <- SomeText
    Trim <- SomeTrim
    Fold <- SomeFold
    Valid <- SomeValid
    ClaimConfigs <- SomeClaimConfigs
    Sessions <- SomeSessions
    ClaimReplies <- SomeClaimReplies
INVARIANTS
    GrantsOnlyShrink AllowedIsAccepted PolicyHasLastWord StaticRulesBind
    NoReservedClaims ClaimsEntitled ClaimsKeepTheirSource VerifiedHasEvidence NoSilentLoss
CHECK_DEADLOCK FALSE

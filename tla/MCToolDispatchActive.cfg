SPECIFICATION FairSpec
CONSTANTS
    Sessions = {s1}
    t1 = t1
    t2 = t2
    p1 = p1
    NoTool = NoTool
    NoSession = NoSession
    ZeroVector = ZeroVector
    Tools = {t1, t2}
    Policies = {p1}
    Relevant = {p1}
    Intents = {i1, i2}
    Requests = {r1}
    Denied <- MCDenied
    Match <- MCMatch
    Threshold = 2
    TTL = 1
    ShadowMode = FALSE
    CleWired = TRUE
    Fallible = {"session", "registry", "policy", "audit", "classifier", "store"}
    MaxClock = 1
    MaxEnded = 0
    MaxAge = 1
INVARIANTS
    InterceptionHonest
    SuggestionLearned
    CorrectionExplained
PROPERTIES
    SessionsOnlyEnd
    CleNeverBlocks
    ImplementsGoverned
CHECK_DEADLOCK FALSE

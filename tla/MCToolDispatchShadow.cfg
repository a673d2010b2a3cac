SPECIFICATION Spec
CONSTANTS
    Sessions = {s1}
    t1 = t1
    t2 = t2
    p1 = p1
    NoTool = NoTool
    NoSession = NoSession
    ZeroVector = ZeroVector
    Tools = {t1, t2}
    Policies = {p1}
    Relevant = {p1}
    Intents = {i1}
    Requests = {r1, r2}
    Denied <- MCDenied
    Match <- MCMatch
    Threshold = 2
    TTL = 1
    ShadowMode = TRUE
    CleWired = TRUE
    Fallible = {"session", "registry", "policy", "audit", "classifier", "store", "execution"}
    MaxClock = 1
    MaxEnded = 1
    MaxAge = 1
SYMMETRY RequestSymmetry
INVARIANTS
    TypeOK
    NoStandingPolicyBypassed
    NoExecutionAfterExpiry
    AuditMatchesExecution
PROPERTIES
    ImplementsGoverned
CHECK_DEADLOCK FALSE

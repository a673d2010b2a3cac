SPECIFICATION MCSpec
CONSTANTS
    Pairs = {"p1", "p2"}
    Embeddings = {"v1"}
    ZeroVector = ZeroVector
    Similar <- MCSimilar
    Limit = 1
    Callers = {"c1", "c2"}
    NoCaller = NoCaller
    NoPair = NoPair
    MaxCorrections = 2
    PolicyIds = {"policy"}
    NoPolicy = NoPolicy
    Conditions <- MCConditions
    WrittenPolicies <- MCWritten
    AddedPolicies <- MCAdded
    Contexts <- MCContexts
    TrueWord = 7
    FalseWord = 6
    StringTest <- MCStringTest
    GraphSessions = {"s1", "s2"}
    Nodes = {"n1", "n2", "n3"}
    NoNode = NoNode
    NoGraph = NoGraph
    MaxStarts = 3
    Orgs = {"o1", "o2"}
    Listings = {1, 2, 3}
    NoListing = NoListing
    Prices = {0, 1}
    Ratings = {0, 5}
    MaxReviews = 1
    Holders = {"h1", "h2"}
    LabelSets = {"k"}
    NoLabels = NoLabels
    Buckets = {1, 2}
    Values = {1, 2, 3}
    Levels = {0}
    MaxCalls = 3
    MaxResets = 1
    Askers = {"a1", "a2"}
    Audiences = {"x", "y"}
    Lifetime = 4
    Margin = 1
    NoAudience = NoAudience
    WatchedTools = {"t"}
    Times = {0, 1, 5}
    ErrorRates = {1, 4}
    WindowSize = 3
    DriftThreshold = 1
    MinSamples = 3
    FailureThreshold = 2
    SuccessThreshold = 1
    Timeout = 1
    Never = Never
    N = 2
    Dispatches = {"d1", "d2"}
    SendTimeout = 1
    MaxForced = 1
INVARIANTS
    PlainAsWritten
    CallGraphsAgree
    MarketplaceAgrees
    MetricsAgree
    IdentityFresh
    DriftAgrees
    CountsAgree
    FailuresIsolated
PROPERTIES
    MissedOnlyIfCrowdedOut

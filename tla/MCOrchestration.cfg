SPECIFICATION MCSpec
CONSTANTS
    t1 = t1
    t2 = t2
    t3 = t3
    Steps = {"classify_intent", "check_patterns", "validate_correction", "execute_tool"}
    Missing = "missing"
    Asked = t1
    Learnable <- MCLearnable
    Thresholds = {0, 1, 2, 3}
    NoPattern = NoPattern
    ChainTools = {t1, t2, t3}
    InitialDependencies <- MCDependencies
    Related <- MCRelated
    Unknown = Unknown
    MaxHops = 3
    MaxAvailable = 3
    Keys = {k1}
    Clients = {c1, c2}
    Stamps = {"x", "y", "z"}
    RequestsPerWindow = 2
    Window = 5
    Second = 2
    NoKey = NoKey
    FailureThreshold = 2
    SuccessThreshold = 2
    Timeout = 2
    Never = Never
    N = 1
    Dispatches = {"d1", "d2", "d3"}
    SendTimeout = 1
    MaxForced = 1
INVARIANTS
    AcceptedIsRunnable
    RejectedIsCyclic
    WindowRespected
    CorrectsIffConfident
    ChainsRunnable
    TripLasts
PROPERTIES
    NeverRepeats
    ImplementsOrdered
    WorkflowsEnd
    RetryAfterRight
    SessionsServed
    TripsOnFailures
    ClosesOnSuccesses
    DispatchEnds
    Recovers
CHECK_DEADLOCK FALSE

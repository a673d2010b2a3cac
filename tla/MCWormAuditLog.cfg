SPECIFICATION Spec
CONSTANTS
    Events = {e1, e2}
    Genesis = Genesis
    Torn = Torn
    MaxSeq = 3
    MaxCrashes = 2
SYMMETRY EventSymmetry
INVARIANTS
    AckedIsStored
    ChainUnbroken
    ServedIsStoredOrRefused
PROPERTIES
    ImplementsAppendOnly
CHECK_DEADLOCK FALSE

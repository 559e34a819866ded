SPECIFICATION Spec
CONSTANTS
    tamper = tamper
    operator = operator
    Caller <- MCCaller
    MaxSession = 3
INVARIANTS
    EngineRunsOnce
    NoLiveKeysAfter
    AckMeansLoaded
PROPERTIES
    ZeroizeCompletes
CHECK_DEADLOCK FALSE

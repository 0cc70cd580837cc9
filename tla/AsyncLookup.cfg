SPECIFICATION Spec
CONSTANTS
    Keys = {k1, k2}
    Reqs = {q1, q2}
    MaxChecks = 2
    None = None
    NoState = NoState
    Stop = Stop
CHECK_DEADLOCK FALSE
INVARIANTS
    TypeOK
    IndexesAgree
    NoLookupLost
    SettledAnswerIsLatest
PROPERTIES
    EveryLookupAnswered
    LookupShutdownReturns

SPECIFICATION Spec
CONSTANTS
    c1 = c1
    c2 = c2
    NoFunc = NoFunc
    NaN = NaN
    NoTimer = NoTimer
    Undefined = Undefined
    Contexts <- OneContext
    Delays <- NaNDelays
    Ms = 1
    MAX_TIMERS = 2
    MAX_EXPIRIES = 2
    MAX_WAIT = 2
    CallbackReenters = FALSE
    PerlMayDie = FALSE
    ClockStepsBack = FALSE
    MaxDepth = 1
    MaxId = 3
    MaxClock = 2
INVARIANTS
    ClampingFits

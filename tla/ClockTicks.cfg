SPECIFICATION Spec
CONSTANTS
    c1 = c1
    c2 = c2
    NoFunc = NoFunc
    NaN = NaN
    NoTimer = NoTimer
    Undefined = Undefined
    Contexts <- OneContext
    Delays <- HalfMsDelays
    Ms = 2
    MAX_TIMERS = 2
    MAX_EXPIRIES = 2
    MAX_WAIT = 5
    CallbackReenters = FALSE
    PerlMayDie = TRUE
    ClockStepsBack = TRUE
    MaxDepth = 1
    MaxId = 2
    MaxClock = 7
INVARIANTS
    NoZombie
PROPERTIES
    RoundComplete
    NoOversleep

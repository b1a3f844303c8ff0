SPECIFICATION FairSpec
CONSTANTS
    c1 = c1
    c2 = c2
    NoFunc = NoFunc
    NaN = NaN
    NoTimer = NoTimer
    Undefined = Undefined
    Contexts <- OneContext
    Delays <- ShortDelays
    Ms = 1
    MAX_TIMERS = 3
    MAX_EXPIRIES = 1
    MAX_WAIT = 2
    CallbackReenters = FALSE
    PerlMayDie = FALSE
    ClockStepsBack = FALSE
    MaxDepth = 1
    MaxId = 3
    MaxClock = 3
PROPERTIES
    NoStarvation
    EvalReturns

SPECIFICATION Spec
CONSTANTS
    c1 = c1
    c2 = c2
    NoFunc = NoFunc
    NaN = NaN
    NoTimer = NoTimer
    Undefined = Undefined
    Contexts <- OneContext
    Delays <- ShortDelays
    Ms = 1
    MAX_TIMERS = 3
    MAX_EXPIRIES = 2
    MAX_WAIT = 2
    CallbackReenters = FALSE
    PerlMayDie = FALSE
    ClockStepsBack = FALSE
    MaxDepth = 2
    MaxId = 4
    MaxClock = 3
INVARIANTS
    TypeOK
    Sorted
    NoZombie
    NoLostTimer
    NoEmptyCallback
PROPERTIES
    OncePerRound
    RoundComplete
    ImplementsService

SPECIFICATION EmbeddingSpec
CONSTANTS
    c1 = c1
    c2 = c2
    NoFunc = NoFunc
    NaN = NaN
    Undefined = Undefined
    Contexts <- TwoContexts
    Delays <- NoOtherDelay
    Ms = 1
    MAX_TIMERS = 2
    MAX_EXPIRIES = 1
    MAX_WAIT = 1
    CallbackReenters = FALSE
    PerlMayDie = TRUE
    ClockStepsBack = FALSE
    MaxDepth = 2
    MaxId = 2
    MaxClock = 1
    MaxIsolates = 3
    MaxEntered = 2
INVARIANTS
    EmbeddingTypeOK
    NotUnderfoot
    QuietSetUp
    StaleOnlyIfAbandoned
    ForeignOnlyIfNested
SYMMETRY Symmetry

SPECIFICATION SubArgumentsSpec
CONSTANTS
    f1 = f1
    Functions <- OneFunction
    MaxUses = 4
    OptionLists <- FewOptions
    Targets <- BothTargets
    MaxResets = 1
    Methods = {"get"}
    MaxArgs = 2
    MaxDepth = 4
    MaxMade = 4
CONSTRAINT
    CountsOrRecords
INVARIANTS
    CallsTypeOK
    FlagsIgnoreOrder
    StatsAreOfTheLastCall
    LinesInOrder
    StackBalanced
    ArgumentsAlive
    OnlyCallsDisturbArguments
PROPERTIES
    DetachedUnchanged

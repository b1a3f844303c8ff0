SPECIFICATION SubArgumentsSpec
CONSTANTS
    f1 = f1
    Functions <- NoFunctions
    MaxUses = 0
    OptionLists <- NoOptions
    Targets <- BothTargets
    MaxResets = 0
    Methods = {"get"}
    MaxArgs = 2
    MaxDepth = 4
    MaxMade = 4
INVARIANTS
    ArgumentsArrive

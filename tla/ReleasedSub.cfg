SPECIFICATION TextSpec
CONSTANTS
    Graphs <- SubGraphs
    MaxContainers = 4
    Width = 5
    Mantissa = 3
INVARIANTS
    FuncAlive
CHECK_DEADLOCK FALSE

SPECIFICATION TextSpec
CONSTANTS
    Graphs <- SmallGraphs
    MaxContainers = 4
    Width = 5
    Mantissa = 3
INVARIANTS
    TypeOK
    SharingKept
    RoundTrip
    LogReadsBack
PROPERTIES
    SetEnds
CHECK_DEADLOCK FALSE

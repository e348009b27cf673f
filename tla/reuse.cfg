CONSTANTS
    Blocks <- ReportBlocks
    Edges <- ReportEdges
    Rank <- ReportRank
    Edited = {"fit"}
    Recoded = {"load"}
    LiveRecode = FALSE
    MaxRuns = 3
    MaxEvents = 2
SPECIFICATION Spec
INVARIANTS
    TypeOK
    ReuseIsExact
    OneGeneration
    LastGoodRunStays
PROPERTIES
    OnlySupersededReclaimed

CONSTANTS
    Blocks <- BranchBlocks
    Edges <- BranchEdges
    Rank <- BranchRank
    Edited = {}
    Recoded = {}
    LiveRecode = FALSE
    MaxRuns = 3
    MaxEvents = 0
SPECIFICATION Spec
INVARIANTS
    ReusedInputsStay

CONSTANTS
    Blocks <- PairBlocks
    Edges <- PairEdges
    Rank <- PairRank
    Interactive = {}
    Broken = {}
    Requests = {"pause", "cancel_run"}
SPECIFICATION Spec
PROPERTIES
    ExecuteLeavesNoTask

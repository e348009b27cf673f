CONSTANTS
    Blocks <- PairBlocks
    Edges <- PairEdges
    Rank <- PairRank
    Interactive = {}
    Broken = {}
    Requests = {"cancel_workflow"}
SPECIFICATION FairSpec
PROPERTIES
    FinishedRunEnds

CONSTANTS
    Blocks <- DiamondBlocks
    Edges <- DiamondEdges
    Rank <- DiamondRank
    Interactive = {}
    Broken = {}
    Requests = {"cancel_workflow"}
SPECIFICATION Spec
PROPERTIES
    CancelledIsFinal

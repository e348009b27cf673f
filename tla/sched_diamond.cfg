CONSTANTS
    Blocks <- DiamondBlocks
    Edges <- DiamondEdges
    Rank <- DiamondRank
    Interactive = {"left"}
    Broken = {}
    Requests = {"pause", "cancel_block", "cancel_workflow", "cancel_run"}
SPECIFICATION Spec
INVARIANTS
    RunsOnlyWhenFed
    NoBlockForgotten
    RefusalIsRetried
    CompletedMeansOver
    FailureSkipsSuccessors
    UnfinishedBlockHasLiveTask
PROPERTIES
    FollowsStateTable
    CancelSpawnsNothing
    KeepsContract

CONSTANTS
    Blocks <- ChoiceBlocks
    Edges <- ChoiceEdges
    Rank <- ChoiceRank
    Interactive = {"pick"}
    Broken = {"bad"}
    Requests = {"pause", "cancel_block", "cancel_workflow", "cancel_run", "from_here"}
SPECIFICATION FairSpec
INVARIANTS
    TypeOK
    RunsOnlyWhenFed
    NoBlockForgotten
    TerminalEventIsOnDisk
PROPERTIES
    SkipHasCause
    RunFinishes
    CancelledWorkerGoes
    KeepsContract

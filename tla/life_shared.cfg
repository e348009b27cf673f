CONSTANTS
    Runs <- OneRun
    Backends <- TwoBackends
    Home <- OneOfAda
    Workflow <- OneFlow
    Machine <- OneMachine
    Killable = {"ada"}
    MaxOpens <- OpensOnce
    MaxFaults = 2
SPECIFICATION FairSpec
INVARIANTS
    TypeOK
    MarkerWhileNeeded
    OnlyDeadRunsReconciled
    StopLeavesNoRunningRow
PROPERTIES
    TerminalIsFinal
    RowsClose

CONSTANTS
    Runs <- TwoRuns
    Backends <- Apart
    Home <- AllOfAda
    Workflow <- SameFlow
    Machine <- TwoMachines
    Killable = {}
    MaxOpens <- AdaReopens
    MaxFaults = 0
SPECIFICATION Spec
INVARIANTS
    OnlyDeadRunsReconciled
    LiveRunStoreOpen
    OneRunPerWorkflow

CONSTANTS
    Runs <- OneRun
    Backends <- TwoBackends
    Home <- OneOfAda
    Workflow <- OneFlow
    Machine <- OneMachine
    Killable = {"ada"}
    MaxOpens <- OpensOnce
    MaxFaults = 0
SPECIFICATION Spec
INVARIANTS
    StoreOutlivesRun

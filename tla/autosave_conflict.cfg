CONSTANTS
    Agents <- OneAgent
    MaxCalls = 1
    MaxOutside = 0
    MaxTyped = 1
    MaxSaves = 2
    EventsPerChange = 2
SPECIFICATION Spec
PROPERTIES
    ConflictsNotOverwritten
CHECK_DEADLOCK FALSE

CONSTANTS
    Agents <- OneAgent
    MaxCalls = 1
    MaxOutside = 1
    MaxTyped = 1
    MaxSaves = 1
    EventsPerChange = 1
SPECIFICATION Spec
INVARIANTS
    TypeOK
    UpToDateTabShowsFile
    OwnWritesNotEchoed
PROPERTIES
    NoFirstPartyWriteLost
CHECK_DEADLOCK FALSE

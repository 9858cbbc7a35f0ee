SPECIFICATION LocalSpec
CONSTANTS
    r1 = r1
    r2 = r2
    none = none
    Runs <- MCRuns
    NoRun <- none
    MaxCommands = 2
    MaxInbox = 1
    MaxInvocations = 2
    MaxSupervisors = 2
    Modules = {m1, m2}
    Nobody = Nobody
CHECK_DEADLOCK FALSE
INVARIANTS
    
    ServerIsOnFile
PROPERTIES
    ToldToStopEnds

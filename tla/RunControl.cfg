SPECIFICATION FairSpec
CONSTANTS
    h1 = h1
    h2 = h2
    Handlers <- OneHandler
    Operations <- StartStopUnmount
    WithRestart = TRUE
    MaxRuns = 2
    MaxRequests = 2
    MaxFaults = 1
    MaxInbox = 1
INVARIANTS
    ExecutingRunIsRecorded
PROPERTIES
    Converges
    LastStopWins

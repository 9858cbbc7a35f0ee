SPECIFICATION FairSpec
CONSTANTS
    h1 = h1
    h2 = h2
    Handlers <- TwoHandlers
    Operations <- StartStop
    WithRestart = FALSE
    MaxRuns = 1
    MaxRequests = 1
    MaxFaults = 0
    MaxInbox = 1
PROPERTIES
    Heals

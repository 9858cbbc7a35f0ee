SPECIFICATION LifeSpec
CONSTANTS
    person = person
    bag = bag
    frameInfo = frameInfo
    o1 = o1
    o2 = o2
    Keys <- MCKeys
    MaxFrame = 3
    MaxLost = 2
    MaxAgain = 1
    Operators <- TwoOperators
    MaxIncidents = 2
    MaxUpdates = 2
    MaxUnheard = 1
    PullLimit = 2
CHECK_DEADLOCK FALSE
INVARIANTS
    NeverAhead
PROPERTIES
    ConfirmedStays
    ResolutionLands

SPECIFICATION Spec
CONSTANTS
    t1 = t1
    t2 = t2
    p1 = p1
    b1 = b1
    b2 = b2
    q1 = q1
    c1 = c1
    c2 = c2
    None = None
    NoFrame = NoFrame
    TempPersons <- MCTempPersons
    RealPersons <- OnePerson
    TempBags <- TwoTempBags
    RealBags <- OneBag
    Cams <- OneCam
    Views <- MCViews
    MaxFrames = 4
    OwnerThreshold = 0
    GunThreshold = 0
    UnattendedTime = 0
    MaxIncidents = 2
CHECK_DEADLOCK FALSE
INVARIANTS SceneConsistent
PROPERTIES DiesForCause 

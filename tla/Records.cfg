SPECIFICATION Spec
CONSTANTS
    t1 = t1
    t2 = t2
    p1 = p1
    c1 = c1
    NoFrame = NoFrame
    TempPersons <- TwoTemps
    RealPersons <- OnePerson
    TempBags <- Nobody
    RealBags <- Nobody
    Cams <- OneCam
    Views <- MCViews
    Threshold = 1
    Window = 1
    MaxFrames = 3
    MaxIncidents = 2
    MaxFailures = 1
CHECK_DEADLOCK FALSE
INVARIANTS
    RowsResolve
    
    ReportedOnce

SPECIFICATION SettingsSpec
CONSTANTS
    r1 = r1
    r2 = r2
    messenger = messenger
    old = old
    here = here
    m1 = m1
    m2 = m2
    None = None
    Mask = Mask
    Requests <- TwoRequests
    SourceIds <- TwoSources
    Kinds <- OneKind
    OldRules <- MCOldRules
    OldEndpoints <- MCOldEndpoints
    RuleEntries <- MCRuleEntries
    EndpointEntries <- MCEndpointEntries
    MaxRules = 2
    MaxEndpoints = 3
    MaxSaves = 2
    MaxBatches = 1
    Models <- TwoModels
    Builtin = m1
    Offered <- OneOffered
    OthersBound = FALSE
    Entries <- MCEntries
    MaxRows = 2
    MaxUploads = 1
    MaxDisturbances = 1
SYMMETRY MCSymmetry
CHECK_DEADLOCK FALSE
INVARIANTS
    RulesHeal
    SavesHeal
PROPERTIES
    SecretSurvives
    DeliveredAsChosen
    NewcomersSurvive

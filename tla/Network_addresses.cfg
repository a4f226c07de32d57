\* Two servers, two addresses of the node's own, two groups and two entries.
CONSTANTS
    g1 = g1
    g2 = g2
    Servers = {1, 2}
    Statics = {3}
    Secondary = 4
    RequestTries = 0
    ProbeNum = 2
    AnnounceNum = 2
    AnnounceWait = 1
    AnnounceInterval = 1
    ProbeMin = 1
    MaxConflicts = 2
    RateLimitInterval = 1
    DefendInterval = 2
    FreeTimers = 3
    MaxXid = 2
    MaxCommands = 1
    Groups = {g1, g2}
    NoGroup = NoGroup
    MaxJoins = 2
    JoinTimer = 1
    ReportDelay = 3
    ResponseTimes = {0}
SPECIFICATION NetworkSpec
INVARIANTS NetworkTypeOK RequestNamesOffer WaitsWithTimer MembersAreKept GroupsAreAnnounced
PROPERTIES ProbedBeforeUse
SYMMETRY GroupSymmetry

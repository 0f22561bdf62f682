CONSTANTS
    Home = Home
    a = a
    b = b
    c = c
    d = d
    Routes <- MCRoutes
    Edits <- MCEdits
    Absent = Absent
    StartupAttempts = 2
    Faults = TRUE
SPECIFICATION FairSpec
INVARIANTS
    TypeOK
    RememberedIsServed
PROPERTIES
    ReloadsKeepHome
    Converges

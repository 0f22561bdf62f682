CONSTANTS
    cl01 = cl01
    cl02 = cl02
    cl03 = cl03
    NodeList <- MCThreeNodes
    Macs = {m1, m2}
    None = None
    MinEndpoints = 1
    DryRun = FALSE
    MaxMoves = 3
SPECIFICATION FairSpec
INVARIANT TypeOK
PROPERTIES
    NeverWorsens
    BeatVouches
    UnclaimedLeftAlone
    Converges

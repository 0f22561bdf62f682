CONSTANTS
    cl01 = cl01
    cl02 = cl02
    cl03 = cl03
    Peers = {cl02, cl03}
    Survivor = cl01
    Services <- MCServices
    Faults = TRUE
SPECIFICATION FairSpec
INVARIANTS
    TypeOK
    SomebodyWaits
    QuorumOutlivesMoves
PROPERTIES
    NodesDrain
    WorkReturns

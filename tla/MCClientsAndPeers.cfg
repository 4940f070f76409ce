CONSTANTS
    r1 = r1
    r2 = r2
    c1 = c1
    c2 = c2
    StoragePeers = {1, 2, 3, 4, 5}
    OperatorOf <- MCOperatorOf
    RegionOf <- MCRegionOf
    DataShards = 2
    ParityShards = 1
    MinRegions = 2
    Repairers = {r1, r2}
    EpochOf <- MCEpochOf
    LeaseEnd <- MCLeaseEnd
    MaxHour = 1
    MaxFaults = 2
    PackSize = 3
    History = {1, 2, 3}
    Parents <- MCParents
    Names = {1, 2}
    MaxMoves = 4
    Connections = {c1, c2}
    Nobody = Nobody
    Requests <- MCRequests
SPECIFICATION MCSpec
INVARIANTS
    OperatorsFailAlone
    RepairedIsWhole
    RenewedLeasesAreHeld
    SoundPacksResolve
    CopiesAreWhole
    OnlySoundRuns
PROPERTIES
    RepairEnds
    EveryRequestEnds
    ParsingGoesForward
    RepairGoesForward
    CommandsOneAtATime

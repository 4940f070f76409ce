CONSTANTS
    n0 = n0
    n1 = n1
    n2 = n2
    repo = repo
    laptop = laptop
    desk = desk
    k1 = k1
    k2 = k2
    alice = alice
    bob = bob
    acc1 = acc1
    acc2 = acc2
    bug = bug
    peer = peer
    local = local
    bootstrap = bootstrap
    server = server
    SaveMayFail = TRUE
    Objects = {1, 2}
    LocalNode <- MCLocalNode
    OperatorOf <- MCOperatorOf
    RegionOf <- MCRegionOf
    StoragePolicies <- MCPolicies
    FirstPolicy <- P11
    Offers <- MCOffers
    Losses <- MCLosses
    Lease = 1
    MaxTime = 1
    PruneTimes = {1}
    MaxSegments = 2
    Repos = {repo}
    Devices = {laptop, desk}
    Keys = {k1, k2}
    MaxKeyEpoch = 2
    GrantsPut <- MCGrantsPut
    Revocations <- MCRevocations
    Usernames = {alice, bob}
    AccountIds = {acc1, acc2}
    RepoNames = {repo}
    NoProfile = NoProfile
    MaxSessions = 2
    MaxClock = 1
    Ttl = 1
    Updates <- MCUpdates
    Contents <- MCContents
    SignedEvents <- MCSignedEvents
    SampleEvents <- MCSamples
    MaxEvents = 5
    MaxSeconds = 1
    Peers = {peer}
    LocalPeer = local
    Descriptors = {bootstrap, server}
    BootstrapNode = bootstrap
    Addresses = {n0}
    Announcements <- MCAnnouncements
    PeerPruneTimes = {2, 4}
    MaxNow = 3
SPECIFICATION MCSpec
INVARIANTS
    PromisedIsReadable
    RevokedStayOut
    GrantsKept
    AccountFileLoads
    SessionsHonoured
    EventFileLoads
    NumbersStand
PROPERTIES
    AvailabilityLasts
    SignedLeasesStand
    SegmentsStand
    ExpiringPeersStayExpiring

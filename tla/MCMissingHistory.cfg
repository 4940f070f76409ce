CONSTANTS
    main = main
    dev = dev
    c1 = c1
    c2 = c2
    c3 = c3
    c4 = c4
    blob = blob
    t1 = t1
    t2 = t2
    t3 = t3
    t4 = t4
    laptop = laptop
    desk = desk
    alice = alice
    bob = bob
    NoOid = NoOid
    NoReceipt = NoReceipt
    Anonymous = Anonymous
    TxIds = {t1, t2, t3, t4}
    Signers = {laptop, desk, Anonymous}
    Accounts = {alice, bob}
    AccountOf <- MCAccountOf
    MaxEpoch = 2
    RefNames = {main, dev}
    Heads = {main, dev}
    Oids = {c1, c2, c3, c4, blob}
    Commits = {c1, c2, c3, c4}
    TreeOf <- MCTreeOf
    ParentsOf <- MCParentsOf
    Requests <- GraphRequests
    Packs <- GraphPacks
    Changes <- NoChanges
    SaveMayFail = FALSE
SPECIFICATION Spec
INVARIANT RefTargetsComplete

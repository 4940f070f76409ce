CONSTANTS
    tag = tag
    blob = blob
    t1 = t1
    t2 = t2
    t3 = t3
    t4 = t4
    laptop = laptop
    desk = desk
    alice = alice
    bob = bob
    NoOid = NoOid
    NoReceipt = NoReceipt
    Anonymous = Anonymous
    TxIds = {t1, t2, t3, t4}
    Signers = {laptop, desk, Anonymous}
    Accounts = {alice, bob}
    AccountOf <- MCAccountOf
    MaxEpoch = 2
    RefNames = {tag}
    Heads = {}
    Oids = {blob}
    Commits = {}
    TreeOf <- NoTrees
    ParentsOf <- NoTrees
    Requests <- FewRequests
    Packs <- OneBlob
    Changes <- FewChanges
    SaveMayFail = TRUE
SPECIFICATION ClientSpec
INVARIANTS
    NoEquivocation

CONSTANTS
    main = main
    c1 = c1
    c2 = c2
    c3 = c3
    old = old
    blob = blob
    p = p
    q = q
    laptop = laptop
    desk = desk
    alice = alice
    bob = bob
    NoOid = NoOid
    NoReceipt = NoReceipt
    Anonymous = Anonymous
    Signers = {laptop, desk, Anonymous}
    Accounts = {alice, bob}
    AccountOf <- MCAccountOf
    MaxEpoch = 2
    TreeOf <- MCTreeOf
    ParentsOf <- MCParentsOf
    Pushers = {p, q}
    SignerOf <- MCSignerOf
    Sanitized <- MCSanitized
    TxIds <- MCTxIds
    Requests <- NoRequests
    Packs <- NoPacks
    RefNames = {main}
    Heads = {main}
    Oids = {c1, c2, c3, old, blob}
    Commits = {c1, c2, c3}
    Pushes <- PushAndDelete
    Changes <- RequireSigned
    SaveMayFail = TRUE
SPECIFICATION PushSpec
INVARIANTS
    DurableRefTargets
    RefTargetsComplete
PROPERTY OkWasCommitted

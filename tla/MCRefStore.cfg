CONSTANTS
    main = main
    dev = dev
    a = a
    b = b
    t1 = t1
    t2 = t2
    t3 = t3
    alice = alice
    bob = bob
    NoOid = NoOid
    NoReceipt = NoReceipt
    RefNames = {main, dev}
    Oids = {a, b}
    TxIds = {t1, t2, t3}
    Signers = {alice, bob}
    Updates <- MCUpdates
SPECIFICATION Spec
INVARIANTS
    TypeOK
    SnapshotLoads
    AppliedOnce
    AnswersStand
    CheckpointsVerify
PROPERTY RefLogSpec

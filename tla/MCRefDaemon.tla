----------------------------- MODULE MCRefDaemon -----------------------------
(* Small instances of RefDaemon for TLC: two branches over four commits.    *)
EXTENDS RefDaemon, TLC

CONSTANTS main, dev,                \* branches
          c1, c2, c3, c4,           \* commits: c1 <- c2 <- c3, and c1 <- c4
          blob,                     \* the tree every commit has
          t1, t2, t3, t4,
          laptop, desk, alice, bob

MCAccountOf == laptop :> alice @@ desk :> bob

MCTreeOf == [c \in Commits |-> {blob}]

MCParentsOf == [c \in Commits |-> IF c = c1 THEN {} ELSE IF c = c3 THEN {c2} ELSE {c1}]

Req(tx, ref, old, new, force, epoch, signer) ==
    [tx |-> tx, ref |-> ref, old |-> old, new |-> new, force |-> force,
     epoch |-> epoch, signer |-> signer]

(* main is created, moved on, contended for by two devices, forced back;   *)
(* dev starts from a commit whose history main need not have uploaded.     *)
GraphRequests ==
    {Req(t1, main, NoOid, c1, FALSE, 0, laptop),
     Req(t2, main, c1, c2, FALSE, 0, laptop),
     Req(t2, main, c1, c4, FALSE, 0, desk),
     Req(t3, main, c2, c3, FALSE, 0, laptop),
     Req(t3, main, c2, c4, FALSE, 0, desk),
     Req(t4, main, c2, c4, TRUE, 0, desk),
     Req(t4, dev, NoOid, c3, TRUE, 0, desk)}

(* Fewer of them, when saves may fail. *)
FailingRequests ==
    {Req(t1, main, NoOid, c1, FALSE, 0, laptop),
     Req(t2, main, c1, c2, FALSE, 0, laptop),
     Req(t2, main, c1, c4, FALSE, 0, desk),
     Req(t3, main, c2, c4, FALSE, 0, desk),
     Req(t4, main, c2, c4, TRUE, 1, desk)}

GraphPacks == {{blob}, {c1}, {c2}, {c3}, {c4}}

FailingPacks == {{c1, blob}, {c2, c4}}

NoChanges == {}

Protect == {[command |-> "POLICY_PROTECT_REF", value |-> main],
            [command |-> "POLICY_GRANT_FORCE_ACCOUNT", value |-> bob]}
=============================================================================

--------------------------- MODULE MCDaemonStores ---------------------------
(* The stores of one daemon besides its refs, each over a small instance.   *)
(*                                                                         *)
(* They share the process and nothing else: no command touches two of them *)
(* and every property is about one.  So a behaviour is explored in which   *)
(* only one of them, the focus, is sent commands, for each of them.        *)
EXTENDS ObjectStorage, KeyGrants, AccountStore, CollaborationLog, NodeStore

CONSTANTS
    n0, n1, n2,                     \* the local nodes
    repo, laptop, desk, k1, k2,     \* a repository, devices and keys
    alice, bob, acc1, acc2,         \* user names and accounts
    bug,                            \* the title of an issue
    peer, local,                    \* nodes
    bootstrap, server               \* what a node is

MCLocalNode == [i \in 0..2 |-> <<n0, n1, n2>>[i + 1]]
MCOperatorOf == n0 :> n0 @@ n1 :> n1 @@ n2 :> n2
MCRegionOf == n0 :> "local-a" @@ n1 :> "local-b" @@ n2 :> "local-a"

P21 == [data |-> 2, parity |-> 1, operators |-> 2, regions |-> 2]
P11 == [data |-> 1, parity |-> 1, operators |-> 1, regions |-> 1]
MCPolicies == {P21, P11}

(* Somebody signs for the local node that is the only one of its region,   *)
(* as it is and later without its role; and numbers the last shard as the  *)
(* one before, a shard that a smaller policy does not have.                *)
Lease1 ==
    [segment |-> 1, shard |-> [cid |-> 1, index |-> 1], peer |-> n1, operator |-> n1,
     region |-> "local-b", storage |-> TRUE, epoch |-> 1, expires |-> 1, signed |-> TRUE]
MCOffers ==
    {Lease1, [Lease1 EXCEPT !.storage = FALSE, !.epoch = 2, !.expires = 2],
     [Lease1 EXCEPT !.shard.cid = 2, !.expires = 2]}
MCLosses == {[object |-> 2, shards |-> {0}], [object |-> 2, shards |-> {0, 1}]}

KeyGrantOf(e, d, k) == [repo |-> repo, epoch |-> e, device |-> d, key |-> k]
MCGrantsPut ==
    {KeyGrantOf(0, laptop, k1), KeyGrantOf(1, laptop, k1), KeyGrantOf(1, laptop, k2),
     KeyGrantOf(2, laptop, k2), KeyGrantOf(2, desk, k2)}
MCRevocations == {<<laptop, 1>>, <<laptop, 2>>, <<desk, 2>>}

MCUpdates == {1 :> "text" @@ 3 :> "malformed"}

Issue == [repo |-> repo, kind |-> "issue", actor |-> alice, title |-> bug]
Pull == [repo |-> repo, kind |-> "pull", actor |-> alice, title |-> bug]
SignedIssue == [device |-> laptop, event |->
    [repo |-> repo, kind |-> "issue", actor |-> laptop, title |-> bug, time |-> 1]]
MCContents == {Issue, Pull}
MCSignedEvents == {SignedIssue, [SignedIssue EXCEPT !.device = desk]}
MCSamples ==
    <<EventAt(Issue, 0), EventAt([Issue EXCEPT !.actor = bob], 0),
      EventAt(Pull, 0), EventAt([Pull EXCEPT !.actor = bob], 0)>>

MCAnnouncements ==
    {[peer |-> peer, descriptor |-> server, issued |-> 1, expires |-> 3],
     [peer |-> peer, descriptor |-> server, issued |-> 2, expires |-> 4]}

VARIABLE focus

stores == <<storageVars, grantVars, accountVars, collabVars, nodeVars>>

MCInit ==
    /\ StorageInit /\ GrantsInit /\ AccountsInit /\ CollabInit /\ NodeInit
    /\ focus \in {"objects", "grants", "accounts", "collaboration", "network"}

MCNext ==
    /\ UNCHANGED focus
    /\ \/ /\ focus = "objects" /\ StorageNext
          /\ UNCHANGED <<grantVars, accountVars, collabVars, nodeVars>>
       \/ /\ focus = "grants" /\ GrantsNext
          /\ UNCHANGED <<storageVars, accountVars, collabVars, nodeVars>>
       \/ /\ focus = "accounts" /\ AccountsNext
          /\ UNCHANGED <<storageVars, grantVars, collabVars, nodeVars>>
       \/ /\ focus = "collaboration" /\ CollabNext
          /\ UNCHANGED <<storageVars, grantVars, accountVars, nodeVars>>
       \/ /\ focus = "network" /\ NodeNext
          /\ UNCHANGED <<storageVars, grantVars, accountVars, collabVars>>

MCSpec == MCInit /\ [][MCNext]_<<stores, focus>>
=============================================================================

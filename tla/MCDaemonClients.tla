--------------------------- MODULE MCDaemonClients ---------------------------
(* A small instance of DaemonClients for TLC: one tag, no history, and      *)
(* everything about the policy.                                             *)
EXTENDS DaemonClients, TLC

CONSTANTS tag, blob, t1, t2, t3, t4, laptop, desk, alice, bob

MCAccountOf == laptop :> alice @@ desk :> bob

NoTrees == [c \in Commits |-> {}]

Req(tx, old, new, force, epoch, signer) ==
    [tx |-> tx, ref |-> tag, old |-> old, new |-> new, force |-> force,
     epoch |-> epoch, signer |-> signer]

(* Created, deleted and forced, for several epochs and without a signature; *)
(* t1 is sent again with another epoch.                                     *)
PolicyRequests ==
    {Req(t1, NoOid, blob, FALSE, 0, laptop),
     Req(t1, NoOid, blob, FALSE, 1, laptop),
     Req(t2, blob, NoOid, FALSE, 1, desk),
     Req(t3, blob, blob, TRUE, 2, laptop),
     Req(t4, NoOid, blob, FALSE, 0, Anonymous)}

PolicyChanges ==
    {[command |-> "POLICY_SET_REQUIRE_SIGNED", value |-> TRUE],
     [command |-> "POLICY_SET_REQUIRE_SIGNED", value |-> FALSE],
     [command |-> "POLICY_GRANT_WRITER_ACCOUNT", value |-> alice],
     [command |-> "POLICY_GRANT_FORCE_ACCOUNT", value |-> bob],
     [command |-> "POLICY_PROTECT_REF", value |-> tag]}

OneBlob == {{blob}}

(* What the findings need, and no more.                                     *)
FewRequests ==
    {Req(t1, NoOid, blob, FALSE, 0, laptop),
     Req(t2, NoOid, blob, FALSE, 0, desk),
     Req(t4, NoOid, blob, FALSE, 0, Anonymous)}

FewChanges ==
    {[command |-> "POLICY_SET_REQUIRE_SIGNED", value |-> TRUE],
     [command |-> "POLICY_GRANT_WRITER_ACCOUNT", value |-> alice]}
=============================================================================

---------------------------- MODULE MCPushHelper ----------------------------
(* Small instances of PushHelper for TLC: two helpers and a short history. *)
EXTENDS PushHelper, TLC

CONSTANTS main,                     \* the branch
          c1, c2, c3,               \* commits: c1 <- c2 <- c3
          old, blob,                \* the trees of c1 and of c2
          p, q,                     \* helpers
          laptop, desk, alice, bob

MCAccountOf == laptop :> alice @@ desk :> bob

MCTreeOf == [c \in Commits |-> IF c = c1 THEN {old} ELSE {blob}]

MCParentsOf == [c \in Commits |-> IF c = c1 THEN {} ELSE IF c = c2 THEN {c1} ELSE {c2}]

MCSignerOf == p :> laptop @@ q :> desk

MCSanitized == [r \in RefNames |-> r]

MCTxIds == {Sanitized[r] : r \in RefNames} \X Target \X Target

NoRequests == {}

NoPacks == {}

NoChanges == {}

RequireSigned == {[command |-> "POLICY_SET_REQUIRE_SIGNED", value |-> TRUE]}

Push(src, dst) == [src |-> src, dst |-> dst, force |-> FALSE]

Forced(src, dst) == [src |-> src, dst |-> dst, force |-> TRUE]

Delete(dst) == [src |-> NoOid, dst |-> dst, force |-> FALSE]

(* One helper pushes a branch, which moves on or not meanwhile, and        *)
(* another deletes it, again and again.                                    *)
PushAndDelete == p :> {Push(c2, main)} @@ q :> {Delete(main)}

(* A branch moves on and is forced back. *)
BackAndForth == p :> {Push(c2, main)} @@ q :> {Forced(c1, main)}
=============================================================================

---------------------------- MODULE ObjectGraph ----------------------------
(***************************************************************************)
(* Git objects as crates/gitmesh-repository sees them when it validates a  *)
(* ref update: which objects a commit needs, which commits precede it, and *)
(* what the object store must hold before a ref may name it.               *)
(***************************************************************************)
EXTENDS RefOps, FiniteSets

CONSTANTS
    Commits,    \* the object ids that are commits
    TreeOf,     \* the trees and blobs of each commit
    ParentsOf,  \* the parents of each commit
    Heads       \* the ref names under refs/heads/

ASSUME CommitsAssumption == Commits \subseteq Oids

ASSUME GraphAssumption ==
    /\ TreeOf \in [Commits -> SUBSET (Oids \ Commits)]
    /\ ParentsOf \in [Commits -> SUBSET Commits]
    /\ Heads \subseteq RefNames

(* What can be reached from a commit through `next`: what is in every set  *)
(* that has the commit and, of each commit in it, the next ones.           *)
Closed(set, next) == \A c \in set : next[c] \subseteq set

Within(next) ==
    [c \in Commits |->
        {a \in Commits : \A set \in SUBSET Commits : c \in set /\ Closed(set, next) => a \in set}]

Ancestors == Within(ParentsOf)

(* collect_reachable_object_graph: all the objects a clone of o needs.     *)
Closure(o) ==
    IF o \in Commits THEN Ancestors[o] \cup UNION {TreeOf[c] : c \in Ancestors[o]}
                     ELSE {o}

(* validate_commit_graph: the commit, its tree, its direct parents.  The   *)
(* parents' trees and the rest of the history are not looked at.           *)
ValidCommitGraph(held, o) ==
    /\ o \in Commits
    /\ TreeOf[o] \subseteq held
    /\ ParentsOf[o] \subseteq held

(* validate_ref_target *)
ValidRefTarget(held, ref, o) ==
    /\ o \in held
    /\ ref \in Heads => ValidCommitGraph(held, o)

(* is_commit_ancestor walks back along the commits that are held until it  *)
(* finds the ancestor, and fails at the first one that is missing.  This   *)
(* is when it can find it.                                                 *)
HeldParents(held) == [c \in Commits |-> IF c \in held THEN ParentsOf[c] ELSE {}]

\* Any commit passes for an ancestor of one that has parents.
IsCommitAncestor_Bug(held, ancestor, descendant) ==
    \/ ancestor = descendant
    \/ {ancestor, descendant} \subseteq held \cap Commits /\ ParentsOf[descendant] # {}

IsCommitAncestor(held, ancestor, descendant) ==
    \/ ancestor = descendant
    \/ /\ {ancestor, descendant} \subseteq held \cap Commits
       /\ ancestor \in Within(HeldParents(held))[descendant]

(* Behind a merge it may meet a missing commit on another path before.     *)
WalkMayFail(held, descendant) ==
    /\ descendant \in Commits
    /\ \E c \in Ancestors[descendant] : Cardinality(ParentsOf[c]) > 1
    /\ ~ (Ancestors[descendant] \subseteq held)
=============================================================================

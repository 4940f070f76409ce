----------------------------- MODULE NodeStore -----------------------------
(***************************************************************************)
(* NetworkNodeStore of gitmesh-network behind gitmeshd's NETWORK_ commands: *)
(* the addresses the node listens on and the peers it knows.               *)
(*                                                                         *)
(* The time of a command is what the system clock says, which need not go  *)
(* forward.  register_signed_peer is part of the store; no command of the  *)
(* daemon calls it yet.                                                    *)
(***************************************************************************)
EXTENDS Naturals, StoreFile

CONSTANTS
    Peers,              \* ids of other nodes
    LocalPeer,          \* the id of this one
    Descriptors,        \* what a peer is: operator, roles, region, protocols, addresses
    BootstrapNode,      \* the descriptor NETWORK_BOOTSTRAP makes
    Addresses,          \* addresses to listen on
    Announcements,      \* signed: [peer, descriptor, issued, expires]
    PeerPruneTimes,     \* the timestamps pruning is asked for
    MaxNow              \* bound on the clock

Never == 0       \* no expires_at_unix

NoPeer == [descriptor |-> BootstrapNode, first |-> 0, last |-> 0, expires |-> Never]

ASSUME NodeAssumption ==
    /\ LocalPeer \notin Peers
    /\ BootstrapNode \in Descriptors
    /\ \A a \in Announcements :
          a.peer \in Peers \cup {LocalPeer} /\ a.descriptor \in Descriptors /\ a.expires \in Nat
    /\ MaxNow \in Nat

VARIABLES
    node,        \* [listen, known]: the store in memory
    nodeFile,    \* the file
    now

nodeVars == <<node, nodeFile, now>>

IsKnown(store, p) == store.known[p].first # 0

EmptyNode == [listen |-> {}, known |-> [p \in Peers |-> NoPeer]]

NodeInit ==
    /\ node = EmptyNode
    /\ nodeFile = EmptyNode
    /\ now = 1

IsActivePeer(record, t) == record.expires = Never \/ t < record.expires

-----------------------------------------------------------------------------
\* A manual registration makes the record a manual one.
Registered_Bug(record, descriptor, expires) ==
    [descriptor |-> descriptor, first |-> record.first, last |-> now, expires |-> expires]

(* An expiry that was learned stays unless a new one comes with it.        *)
Registered(record, descriptor, expires) ==
    [descriptor |-> descriptor, first |-> record.first, last |-> now,
     expires |-> IF expires = Never THEN record.expires ELSE expires]

(* register_peer_with_expiry *)
RegisterPeer(store, p, descriptor, expires) ==
    [store EXCEPT !.known[p] =
        IF IsKnown(store, p) THEN Registered(@, descriptor, expires)
        ELSE [descriptor |-> descriptor, first |-> now, last |-> now, expires |-> expires]]

MayRegister(p, expires) == p # LocalPeer /\ (expires = Never \/ expires > now)

Register(p, descriptor, expires) ==
    /\ MayRegister(p, expires)
    /\ node' = RegisterPeer(node, p, descriptor, expires)
    /\ nodeFile' \in Saving(nodeFile, node')
    /\ UNCHANGED now

AddListenAddress(store, address) == [store EXCEPT !.listen = @ \cup {address}]

(* NETWORK_LISTEN *)
Listen(address) ==
    /\ node' = AddListenAddress(node, address)
    /\ nodeFile' \in Saving(nodeFile, node')
    /\ UNCHANGED now

(* NETWORK_BOOTSTRAP *)
Bootstrap(p) == Register(p, BootstrapNode, Never)

(* NETWORK_PEER_ADD *)
PeerAdd(p, descriptor) == Register(p, descriptor, Never)

(* SignedNodeAnnouncement::verify: the signature is by the peer's device,   *)
(* and the announcement is in force.                                       *)
AnnouncementVerifies(a) == a.issued <= now /\ now < a.expires

(* register_signed_peer *)
RegisterSigned(a) ==
    /\ AnnouncementVerifies(a)
    /\ Register(a.peer, a.descriptor, a.expires)

(* NETWORK_PEER_PRUNE_EXPIRED [<timestamp>] *)
PrunePeers(t) ==
    /\ node' = [node EXCEPT !.known =
           [p \in Peers |-> IF IsActivePeer(@[p], t) THEN @[p] ELSE NoPeer]]
    /\ nodeFile' \in Saving(nodeFile, node')
    /\ UNCHANGED now

(* from_snapshot refuses the file as a whole if a peer was seen for the    *)
(* last time before the first, or after it expired.                        *)
NodeLoads(file) ==
    \A p \in Peers : IsKnown(file, p) =>
        /\ file.known[p].last >= file.known[p].first
        /\ file.known[p].expires # Never => file.known[p].expires > file.known[p].last

NodeRestart ==
    /\ NodeLoads(nodeFile)
    /\ node' = nodeFile
    /\ UNCHANGED <<nodeFile, now>>

(* Time passes, or the system clock is set.                                *)
SetClock ==
    /\ now' \in 1..MaxNow
    /\ UNCHANGED <<node, nodeFile>>

NodeNext ==
    \/ \E address \in Addresses : Listen(address)
    \/ \E p \in Peers : Bootstrap(p)
    \/ \E p \in Peers, d \in Descriptors : PeerAdd(p, d)
    \/ \E a \in Announcements : RegisterSigned(a)
    \/ \E t \in PeerPruneTimes : PrunePeers(t)
    \/ NodeRestart
    \/ SetClock

NodeSpec == NodeInit /\ [][NodeNext]_nodeVars

-----------------------------------------------------------------------------
(* Properties. *)

(* A peer that was learned from a signed announcement stays one that       *)
(* expires, whatever is added by hand later, until it is pruned: docs/     *)
(* NETWORKING.md, "Known-peer stores preserve expiry for peers learned     *)
(* from signed announcements".  Only a restart from an older file forgets  *)
(* it.                                                                     *)
ExpiringPeersStayExpiring ==
    [][\A p \in Peers :
          LET expires(store) == IsKnown(store, p) /\ store.known[p].expires # Never
          IN  expires(node) /\ ~ NodeRestart =>
                  \/ expires(node')
                  \/ ~ IsKnown(node', p)]_nodeVars
=============================================================================

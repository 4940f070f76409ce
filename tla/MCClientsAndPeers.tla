-------------------------- MODULE MCClientsAndPeers --------------------------
(* What is around the stores of a daemon: its socket, the copies that are   *)
(* made of its repository, the packs it is sent and the peers that hold     *)
(* shards.  None of the four shares state with another, so a behaviour is   *)
(* explored in which only one of them, the focus, does anything.            *)
EXTENDS ShardTransfer, PackDeltas, CloneRepository, DaemonSocket, TLC

CONSTANTS r1, r2, c1, c2      \* repairers and connections

(* Peers 1 and 2 are of one operator: peer 2 is the last resort.            *)
MCOperatorOf == <<1, 1, 2, 3, 4>>
MCRegionOf   == <<"a", "a", "b", "b", "a">>
MCEpochOf    == r1 :> 2 @@ r2 :> 3
MCLeaseEnd   == <<1, 3, 4>>

(* Two branches from the same root                                          *)
MCParents == <<{}, {1}, {1}>>

MCRequests ==
    [form : {"line", "frame"},
     does : {"answers", "bulky", "panics", "denied", "malformed", "too large"}]

AnyPack == CHOOSE p \in Packs : TRUE

VARIABLE focus

around == <<transferVars, packVars, cloneVars, socketVars>>

MCInit ==
    /\ TransferInit /\ PackInit /\ CloneInit /\ SocketInit
    /\ focus \in {"one repair", "two repairs", "packs", "copies", "socket"}
    /\ focus # "packs" => read = AnyPack

(* Two repairs meet one fault, at one hour; a single one several, and       *)
(* leases that run out.                                                     *)
TransferFocus ==
    /\ TransferNext
    /\ focus = "one repair" => repair'[r2].at = "idle"
    /\ focus = "two repairs" => faults' <= 1 /\ hour' = 0

(* Where nothing is left to do: anywhere else, to stop is a deadlock.       *)
Finished ==
    /\ focus = "packs" => parsed # "not yet"
    /\ focus = "copies" => gm.at = "idle" /\ helper.at = "fetched"
    /\ focus = "socket" => \A c \in Connections : conn[c].at = "closed"
    /\ focus \in {"one repair", "two repairs"} =>
          \A c \in Repairers : repair[c].at \in {"idle", "done", "failed", "unneeded"}

MCNext ==
    /\ UNCHANGED focus
    /\ \/ /\ focus \in {"one repair", "two repairs"} /\ TransferFocus
          /\ UNCHANGED <<packVars, cloneVars, socketVars>>
       \/ /\ focus = "packs" /\ PackNext
          /\ UNCHANGED <<transferVars, cloneVars, socketVars>>
       \/ /\ focus = "copies" /\ CloneNext
          /\ UNCHANGED <<transferVars, packVars, socketVars>>
       \/ /\ focus = "socket" /\ SocketNext
          /\ UNCHANGED <<transferVars, packVars, cloneVars>>
       \/ Finished /\ UNCHANGED around

(* The fairness of the repairs and of the socket's threads                  *)
MCSpec ==
    /\ MCInit /\ [][MCNext]_<<around, focus>>
    /\ TransferFairness /\ SocketFairness
=============================================================================

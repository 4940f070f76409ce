----------------------- MODULE AvailabilityDirectory -----------------------
(***************************************************************************)
(* InMemoryAvailabilityDirectory of gitmesh-network: which peer says, until *)
(* when, that it holds which shard of which segment.                       *)
(*                                                                         *)
(* A record is [segment, shard, peer, operator, region, storage, epoch,    *)
(* expires, signed].  Its shard is the pair [cid, index], its operator and *)
(* region are what it claims, storage says whether the storage role is     *)
(* among its roles, and signed whether it has a signature that verifies.   *)
(* Nothing ties the index to the cid, or operator and region to the peer.  *)
(***************************************************************************)
EXTENDS Naturals, FiniteSets

CONSTANTS OperatorOf, RegionOf     \* of each peer, when it speaks for itself

SameShard(r, s) == r.segment = s.segment /\ r.shard = s.shard /\ r.peer = s.peer

\* An unsigned record replaces a signed one of the same epoch.
Replaces_Bug(r, existing) == r.epoch >= existing.epoch

Replaces(r, existing) ==
    \/ r.epoch > existing.epoch
    \/ r.epoch = existing.epoch /\ (r.signed \/ ~ existing.signed)

(* publish, publish_verified_signed: one record after the other, each for  *)
(* another shard or another peer.                                          *)
Publish(directory, records) ==
    {e \in directory : \A r \in records : SameShard(r, e) => ~ Replaces(r, e)}
    \cup {r \in records : \A e \in directory : SameShard(r, e) => Replaces(r, e)}

(* from_snapshot: what to_snapshot wrote is published into an empty         *)
(* directory.                                                              *)
Loaded(file) == Publish({}, file)

IsActive(r, now) == r.expires > now

(* SignedShardProviderRecord::verify: the lease is running and signed by   *)
(* the device of the certificate that comes with it, whoever's that is.    *)
Verifies(signed, now) == signed.signed /\ IsActive(signed, now)

ActiveRecords(directory, segment, now) ==
    {r \in directory : r.segment = segment /\ IsActive(r, now)}

PruneExpired(directory, now) == {r \in directory : IsActive(r, now)}

(* counts_for_durability *)
Durable(records) == {r \in records : r.storage}

(* availability_report and satisfies_requirement: distinct indices,         *)
(* operators and regions are counted, as the records have them.            *)
SatisfiesRequirement(records, requirement) ==
    /\ Cardinality({r.shard.index : r \in Durable(records)}) >= requirement.data
    /\ Cardinality({r.operator : r \in Durable(records)}) >= requirement.operators
    /\ Cardinality({r.region : r \in Durable(records)}) >= requirement.regions
=============================================================================

--------------------------- MODULE ObjectStorage ---------------------------
(***************************************************************************)
(* gitmeshd's objects as encrypted segments cut into shards                *)
(* (RepositoryObjectStore), with the provider records that make them       *)
(* available (InMemoryAvailabilityDirectory), and the two files both are   *)
(* saved in, one after the other.                                          *)
(*                                                                         *)
(* The daemon holds every shard of its objects itself, one local node per  *)
(* shard; others publish signed records, which say what they like.         *)
(*                                                                         *)
(* The cid of a segment's shard is a hash over the segment and the index,  *)
(* and stands here as the index; a number beyond them is some other cid.   *)
(***************************************************************************)
EXTENDS AvailabilityDirectory, StoreFile

CONSTANTS
    Objects,         \* Git object ids, numbers: "all" goes through them in order
    LocalNode,       \* the peer v0-node-i of each shard i: 0 .. most shards - 1
    StoragePolicies, \* the policies STORAGE_POLICY_SET is sent
    FirstPolicy,     \* StoragePolicy::default
    Offers,          \* the signed records others may publish
    Losses,          \* the shards an object may lose: [object, shards]
    PruneTimes,      \* the timestamps pruning is asked for
    Lease,           \* how long a local record lasts: 86400 seconds
    MaxTime,         \* bound on the clock
    MaxSegments      \* bound on how many segments are encrypted

(* One shard for each index: erasure_encode.                               *)
Shards(policy) == 0..(policy.data + policy.parity - 1)

(* StoragePolicy::new, validate *)
ValidPolicy(policy) ==
    /\ policy.data > 0 /\ policy.parity > 0
    /\ policy.operators \in 1..policy.data /\ policy.regions \in 1..policy.data

ASSUME StorageAssumption ==
    /\ Objects \subseteq Nat /\ IsFiniteSet(Objects)
    /\ FirstPolicy \in StoragePolicies
    /\ StoragePolicies \subseteq [data: Nat, parity: Nat, operators: Nat, regions: Nat]
    /\ \A p \in StoragePolicies : ValidPolicy(p) /\ Shards(p) \subseteq DOMAIN LocalNode

(* ShardProviderRecord *)
ProviderRecord ==
    [segment: Nat, shard: [cid: Nat, index: Nat], peer: DOMAIN OperatorOf,
     operator: {OperatorOf[p] : p \in DOMAIN OperatorOf},
     region: {RegionOf[p] : p \in DOMAIN OperatorOf},
     storage: BOOLEAN, epoch: Nat, expires: Nat, signed: BOOLEAN]

ASSUME LeaseAssumption ==
    /\ Offers \subseteq ProviderRecord
    /\ \A i \in DOMAIN LocalNode : LocalNode[i] \in DOMAIN OperatorOf
    /\ \A loss \in Losses : loss.object \in Objects
    /\ PruneTimes \subseteq Nat /\ Lease \in Nat \ {0}

VARIABLES
    storage,       \* [policy, objects, durable]: the RepositoryObjectStore in memory
    availability,  \* the directory in memory
    files,         \* [storage, availability]: what is saved, without the flags
    made,          \* how many segments were encrypted: no two are the same
    clock

storageVars == <<storage, availability, files, made, clock>>

(* Segment 0 is no object.                                                 *)
Absent == [segment |-> 0, held |-> {}]

Stored(s, o) == s.objects[o].segment # 0

(* reconstruct_ciphertext: from any policy.data shards of the segment      *)
Enough(s, held) == Cardinality(held) >= s.policy.data

(* get_git_object, reconstruct_canonical *)
Readable(s, o) == Stored(s, o) /\ Enough(s, s.objects[o].held)

(* save_to_path writes no durability_satisfied: from_snapshot computes it  *)
(* again, under the policy that was saved.                                 *)
ToSnapshot(s) == [policy |-> s.policy, objects |-> s.objects]

FromSnapshot(f) ==
    [policy |-> f.policy, objects |-> f.objects,
     durable |-> {o \in Objects : Readable(f, o)}]

EmptyFile == [policy |-> FirstPolicy, objects |-> [o \in Objects |-> Absent]]

StorageInit ==
    /\ storage = FromSnapshot(EmptyFile)
    /\ availability = {}
    /\ files = [storage |-> EmptyFile, availability |-> {}]
    /\ made = 0
    /\ clock = 0

-----------------------------------------------------------------------------
(* What the daemon says of itself. *)

(* local_provider_records_for_object, published with lease epoch 1         *)
LocalRecord(segment, i) ==
    [segment |-> segment, shard |-> [cid |-> i, index |-> i], peer |-> LocalNode[i],
     operator |-> OperatorOf[LocalNode[i]], region |-> RegionOf[LocalNode[i]], storage |-> TRUE,
     epoch |-> 1, expires |-> clock + Lease, signed |-> FALSE]

LocalRecords(s, o) == {LocalRecord(s.objects[o].segment, i) : i \in s.objects[o].held}

PublishLocal(s, os) == Publish(availability, UNION {LocalRecords(s, o) : o \in os})

\* Evidence about shards that are not held is counted too.
AvailableTarget_Bug(o) ==
    Stored(storage, o) /\
    SatisfiesRequirement(ActiveRecords(availability, storage.objects[o].segment, clock),
                         storage.policy)

(* object_availability_report: one record about a shard that is not held,  *)
(* or with an index the policy has no shard for, is an error, whatever the *)
(* others say.                                                             *)
Acceptable(s, o, r) == r.shard.cid \in s.objects[o].held /\ r.shard.index \in Shards(s.policy)

Evidence(o) == ActiveRecords(availability, storage.objects[o].segment, clock)

AvailableTarget(o) ==
    LET active == Evidence(o)
    IN  /\ Stored(storage, o)
        /\ \A r \in active : Acceptable(storage, o, r)
        /\ SatisfiesRequirement(active, storage.policy)

(* durability_satisfied is set when the shards of the object change.       *)
WithShards(s, o, segment, held) ==
    [s EXCEPT !.objects[o] = [segment |-> segment, held |-> held],
              !.durable = IF Enough(s, held) THEN @ \cup {o} ELSE @ \ {o}]

(* save_objects, then save_availability: the first that fails ends the     *)
(* command.                                                                *)
SaveBoth ==
    \/ files' = [storage |-> ToSnapshot(storage'), availability |-> availability']
    \/ /\ SaveMayFail
       /\ files' \in {files, [files EXCEPT !.storage = ToSnapshot(storage')]}

-----------------------------------------------------------------------------
(* The commands. *)

\* Storing an object again encrypts it again.
PutObject_Bug(o) ==
    /\ made < MaxSegments
    /\ made' = made + 1
    /\ storage' = WithShards(storage, o, made', Shards(storage.policy))

PutObject(o) ==
    IF Stored(storage, o)
    THEN UNCHANGED <<storage, made>>
    ELSE /\ made < MaxSegments
         /\ made' = made + 1
         /\ storage' = WithShards(storage, o, made', Shards(storage.policy))

(* OBJECT_PUT, and PACK_PUT for each of its objects *)
ObjectPut(o) ==
    /\ PutObject(o)
    /\ availability' = PublishLocal(storage', {o})
    /\ SaveBoth
    /\ UNCHANGED clock

Repaired(s, o) == WithShards(s, o, s.objects[o].segment, Shards(s.policy))

(* OBJECT_REPAIR <oid>; an object that cannot be read is left as it is.    *)
ObjectRepair(o) ==
    /\ Readable(storage, o)
    /\ storage' = Repaired(storage, o)
    /\ availability' = PublishLocal(storage', {o})
    /\ SaveBoth
    /\ UNCHANGED <<made, clock>>

(* OBJECT_REPAIR all: the first object that cannot be repaired ends it,    *)
(* before anything is published or saved.                                  *)
ObjectRepairAll ==
    LET all    == {o \in Objects : Stored(storage, o)}
        broken == {o \in all : ~ Readable(storage, o)}
        tried  == {o \in all : \A b \in broken : o < b}
    IN  /\ storage' = [storage EXCEPT
               !.objects = [o \in Objects |-> IF o \in tried THEN Repaired(storage, o).objects[o]
                                              ELSE @[o]],
               !.durable = @ \cup tried]
        /\ IF broken = {}
           THEN availability' = PublishLocal(storage', all) /\ SaveBoth
           ELSE UNCHANGED <<availability, files>>
        /\ UNCHANGED <<made, clock>>

SetStoragePolicy(p) ==
    /\ \A o \in Objects : ~ Stored(storage, o)
    /\ storage' = [storage EXCEPT !.policy = p]

(* STORAGE_POLICY_SET *)
StoragePolicySet(p) ==
    /\ SetStoragePolicy(p)
    /\ files' \in Saving(files, [files EXCEPT !.storage = ToSnapshot(storage')])
    /\ UNCHANGED <<availability, made, clock>>

SaveAvailability == files' \in Saving(files, [files EXCEPT !.availability = availability'])

(* NETWORK_PROVIDER_PUBLISH_SIGNED: no shard, peer, operator or role is    *)
(* looked at.  The cid of a segment is not known before it is made.        *)
PublishSigned(offer) ==
    /\ offer.segment <= made
    /\ Verifies(offer, clock)
    /\ availability' = Publish(availability, {offer})
    /\ SaveAvailability
    /\ UNCHANGED <<storage, made, clock>>

(* NETWORK_PROVIDER_PRUNE_EXPIRED [<timestamp>]: the timestamp is taken as *)
(* it is given, also when it is still to come.                             *)
PruneProviders(time) ==
    /\ availability' = PruneExpired(availability, time)
    /\ SaveAvailability
    /\ UNCHANGED <<storage, made, clock>>

(* Shards are lost: simulate_object_shard_loss.                            *)
LoseShards(o, lost) ==
    /\ Stored(storage, o)
    /\ storage' = WithShards(storage, o, storage.objects[o].segment,
                             storage.objects[o].held \ lost)
    /\ UNCHANGED <<availability, files, made, clock>>

Tick ==
    /\ clock < MaxTime
    /\ clock' = clock + 1
    /\ UNCHANGED <<storage, availability, files, made>>

\* The records are taken from the file and not published anew.
Reload_Bug ==
    /\ storage' = FromSnapshot(files.storage)
    /\ availability' = files.availability

(* with_every_store_path: load, rehydrate_availability_from_objects        *)
Reload ==
    /\ storage' = FromSnapshot(files.storage)
    /\ availability' =
          Publish(Loaded(files.availability),
                  UNION {LocalRecords(files.storage, o) :
                         o \in {x \in Objects : Stored(files.storage, x)}})

(* The process dies and is started again; it starts only once it could     *)
(* save the records it published.                                          *)
StorageRestart ==
    /\ Reload
    /\ files' = [files EXCEPT !.availability = availability']
    /\ UNCHANGED <<made, clock>>

StorageNext ==
    \/ \E o \in Objects : ObjectPut(o)
    \/ \E o \in Objects : ObjectRepair(o)
    \/ ObjectRepairAll
    \/ \E p \in StoragePolicies : StoragePolicySet(p)
    \/ \E offer \in Offers : PublishSigned(offer)
    \/ \E time \in PruneTimes : PruneProviders(time)
    \/ \E loss \in Losses : LoseShards(loss.object, loss.shards)
    \/ Tick
    \/ StorageRestart

StorageSpec == StorageInit /\ [][StorageNext]_storageVars

-----------------------------------------------------------------------------
(* Properties. *)

(* What the store calls durable can be read back, and so can what its      *)
(* leases make available, as long as they number the shards as they are:   *)
(* the flag is computed when shards change, the leases outlive the shards  *)
(* they name, whoever published them, and a ref update believes both.  The *)
(* report counts indices and compares none with its cid, so that two       *)
(* leases can make two shards of one.                                      *)
NumberedRight(o) == \A r \in Evidence(o) : r.shard.index = r.shard.cid

PromisedIsReadable ==
    \A o \in Objects :
        o \in storage.durable \/ (AvailableTarget(o) /\ NumberedRight(o))
            => Readable(storage, o)

Whole(s, o) == Stored(s, o) /\ s.objects[o].held = Shards(s.policy)

(* A lease counts for no less than another in whose place it is.           *)
CountsFor(e, r) == r.storage => e.storage /\ e.operator = r.operator /\ e.region = r.region

(* When the daemon is started it publishes its own leases again, which are *)
(* enough by themselves unless the policy wants more operators or regions  *)
(* than it has.  What was saved of others must be evidence too, in the     *)
(* place of an own lease for no less than that one.  Nor must a lease of   *)
(* another be of epoch 0, which any of the daemon's takes the place of.    *)
OwnLeasesQualify(o) ==
    LET f      == files.storage
        others == {r \in files.availability : r.segment = f.objects[o].segment /\ r.signed}
    IN  /\ SatisfiesRequirement(LocalRecords(f, o), f.policy)
        /\ \A r \in others :
              /\ IsActive(r, clock) => Acceptable(f, o, r)
              /\ \A own \in LocalRecords(f, o) :
                    SameShard(r, own) => IsActive(r, clock) /\ CountsFor(r, own)
        /\ \A r \in availability :
              r.segment = f.objects[o].segment /\ r.signed => r.epoch > 0

(* A lease that the report on o refuses, or that takes the place of one    *)
(* and counts for less.                                                    *)
Spoils(offer, o) ==
    /\ offer.segment = storage.objects[o].segment
    /\ \/ ~ Acceptable(storage, o, offer)
       \/ \E r \in availability : SameShard(offer, r) /\ ~ CountsFor(offer, r)

(* An object that is stored in full, in the file as well, and available    *)
(* stays available whatever fails, whatever the daemon publishes of itself *)
(* and whenever it is restarted: only time, a pruning ahead of time, a     *)
(* loss of shards or a signed lease that spoils it ends that.              *)
AvailabilityLasts ==
    [][\A o \in Objects :
          /\ Whole(storage, o) /\ Whole(files.storage, o)
          /\ AvailableTarget(o) /\ OwnLeasesQualify(o)
          => \/ AvailableTarget(o)'
             \/ clock' > clock
             \/ \E time \in PruneTimes : time > clock /\ PruneProviders(time)
             \/ ~ Whole(storage, o)'
             \/ \E offer \in Offers : Spoils(offer, o) /\ PublishSigned(offer)]_storageVars

(* A signed lease that was saved only ends for a later lease on the same   *)
(* shard and peer, a signed one if it is of the same epoch, or by pruning  *)
(* after it expired: no record the daemon publishes of itself and no       *)
(* restart replaces one of its epoch (docs/NETWORKING.md:86-94).           *)
SignedLeasesStand ==
    [][\A r \in availability \cap files.availability : r.signed =>
          \/ r \in availability'
          \/ \E s \in availability' : SameShard(s, r) /\ s.epoch >= r.epoch
                                      /\ (s.signed \/ s.epoch > r.epoch)
          \/ \E time \in PruneTimes : time >= r.expires /\ PruneProviders(time)]_storageVars

(* A saved object keeps the segment it was saved as, which is what the     *)
(* records of other peers name.                                            *)
SegmentsStand ==
    [][\A o \in Objects : Stored(files.storage, o) =>
          files'.storage.objects[o].segment = files.storage.objects[o].segment]_storageVars
=============================================================================

------------------------- MODULE DaemonStoresProofs -------------------------
(***************************************************************************)
(* What the stores of a daemon keep of objects, of the leases on their     *)
(* shards and of the nodes it knows, whichever saves fail and whenever it  *)
(* is started again.                                                       *)
(***************************************************************************)
EXTENDS ObjectStorage, NodeStore, CollaborationLog, FiniteSetTheorems, TLAPS

-----------------------------------------------------------------------------
(* The object store and the availability directory. *)

ObjectMap == [Objects -> [segment: Nat, held: SUBSET Nat]]

StorageTypeOK ==
    /\ storage \in [policy: StoragePolicies, objects: ObjectMap, durable: SUBSET Objects]
    /\ availability \subseteq ProviderRecord
    /\ files \in [storage: [policy: StoragePolicies, objects: ObjectMap],
                 availability: SUBSET ProviderRecord]
    /\ made \in Nat /\ clock \in Nat

(* An object's shards are among those its policy cuts; an object that is   *)
(* not stored has none.                                                    *)
ShardsFit(s) ==
    \A o \in Objects : /\ s.objects[o].held \subseteq Shards(s.policy)
                       /\ ~ Stored(s, o) => s.objects[o].held = {}

SegmentsUpTo(s, n) == \A o \in Objects : s.objects[o].segment <= n

DurableReadable(s) == \A o \in s.durable : Readable(s, o)

(* What one store has, another has as the same segment under the same      *)
(* policy.                                                                 *)
KeepsStored(old, new) ==
    \A o \in Objects : Stored(old, o) =>
        new.policy = old.policy /\ new.objects[o].segment = old.objects[o].segment

(* There is one lease for each shard and peer.  Those of the daemon itself *)
(* are of epoch 1 and say of a local node what it is, and one on a segment *)
(* of an object that is stored is for one of its shards.                   *)
OneEach(directory) == \A r, e \in directory : SameShard(r, e) => r = e

OwnSpeakTrue(directory) ==
    \A r \in directory : ~ r.signed =>
        /\ r.epoch = 1 /\ r.storage /\ r.shard.index = r.shard.cid
        /\ r.operator = OperatorOf[r.peer] /\ r.region = RegionOf[r.peer]

OwnFit(directory, s, n) ==
    \A r \in directory : ~ r.signed =>
        /\ r.segment <= n
        /\ \A o \in Objects : Stored(s, o) /\ r.segment = s.objects[o].segment
                => r.shard.cid \in Shards(s.policy)

DirectoryOK(directory, s, n) ==
    /\ directory \subseteq ProviderRecord /\ IsFiniteSet(directory)
    /\ OneEach(directory) /\ OwnSpeakTrue(directory) /\ OwnFit(directory, s, n)

StorageInv ==
    /\ StorageTypeOK
    /\ ShardsFit(storage) /\ ShardsFit(files.storage)
    /\ SegmentsUpTo(storage, made) /\ DurableReadable(storage)
    /\ KeepsStored(files.storage, storage)
    /\ DirectoryOK(availability, storage, made)
    /\ DirectoryOK(files.availability, storage, made)

(* The shards a policy cuts are finitely many, and enough of them.         *)
LEMMA ShardsOfPolicy ==
    ASSUME NEW p \in StoragePolicies
    PROVE  /\ Shards(p) \subseteq Nat /\ IsFiniteSet(Shards(p))
           /\ Cardinality(Shards(p)) >= p.data
           /\ p.data \in Nat /\ p.operators \in Nat /\ p.regions \in Nat
<1>1. p.data \in Nat /\ p.parity \in Nat /\ p.operators \in Nat /\ p.regions \in Nat
  BY StorageAssumption
<1>2. p.data > 0 /\ p.parity > 0
  BY StorageAssumption DEF ValidPolicy
<1>3. /\ 0 \in Int /\ p.data + p.parity - 1 \in Int
      /\ ~ (0 > p.data + p.parity - 1)
  BY <1>1, <1>2
<1>4. /\ IsFiniteSet(0..(p.data + p.parity - 1))
      /\ Cardinality(0..(p.data + p.parity - 1)) = (p.data + p.parity - 1) - 0 + 1
  BY <1>3, FS_Interval
<1> QED
  BY <1>1, <1>2, <1>4 DEF Shards

StoreType == [policy: StoragePolicies, objects: ObjectMap, durable: SUBSET Objects]

(* What a store is once an object has other shards.                        *)
LEMMA WithShardsStore ==
    ASSUME NEW s \in StoreType, NEW o \in Objects, NEW segment \in Nat \ {0},
           NEW held \in SUBSET Shards(s.policy), ShardsFit(s), DurableReadable(s)
    PROVE  LET new == WithShards(s, o, segment, held)
           IN  /\ new \in StoreType /\ new.policy = s.policy
               /\ new.objects[o] = [segment |-> segment, held |-> held]
               /\ \A x \in Objects \ {o} : new.objects[x] = s.objects[x]
               /\ ShardsFit(new) /\ DurableReadable(new)
<1> DEFINE new == WithShards(s, o, segment, held)
           durable == IF Enough(s, held) THEN s.durable \cup {o} ELSE s.durable \ {o}
           objects == [s.objects EXCEPT ![o] = [segment |-> segment, held |-> held]]
<1>1. /\ s.policy \in StoragePolicies /\ s.durable \subseteq Objects
      /\ s.objects \in ObjectMap
  BY DEF StoreType
<1>2. held \subseteq Nat
  BY <1>1, ShardsOfPolicy
<1>3. objects \in ObjectMap /\ durable \subseteq Objects
  BY <1>1, <1>2 DEF ObjectMap
<1>4. new = [s EXCEPT !.objects = objects, !.durable = durable]
  BY DEF WithShards, StoreType
<1> HIDE DEF objects, durable
<1>5. /\ new \in StoreType /\ new.policy = s.policy
      /\ new.objects = objects /\ new.durable = durable
  BY <1>3, <1>4 DEF StoreType
<1> HIDE DEF new
<1>6. /\ objects[o] = [segment |-> segment, held |-> held]
      /\ \A x \in Objects \ {o} : objects[x] = s.objects[x]
  BY <1>1 DEF objects, ObjectMap
<1>7. ShardsFit(new)
  BY <1>5, <1>6 DEF ShardsFit, Stored
<1>8. DurableReadable(new)
  <2> SUFFICES ASSUME NEW x \in durable PROVE Readable(new, x)
    BY <1>5 DEF DurableReadable
  <2>1. CASE x = o
    <3>1. Enough(s, held)
      BY <2>1 DEF durable
    <3> QED
      BY <1>5, <1>6, <2>1, <3>1 DEF Readable, Stored, Enough
  <2>2. CASE x # o
    <3>1. x \in s.durable /\ x \in Objects
      BY <1>1, <2>2 DEF durable
    <3>2. Readable(s, x)
      BY <3>1 DEF DurableReadable
    <3> QED
      BY <1>5, <1>6, <2>2, <3>1, <3>2 DEF Readable, Stored, Enough
  <2> QED
    BY <2>1, <2>2
<1>9. new = WithShards(s, o, segment, held)
  BY DEF new
<1> QED
  BY <1>5, <1>6, <1>7, <1>8 DEF new

(* Publishing good leases into a good directory gives a good one.          *)
LEMMA PublishOK ==
    ASSUME NEW d, NEW records, NEW s, NEW n,
           DirectoryOK(d, s, n), DirectoryOK(records, s, n)
    PROVE  DirectoryOK(Publish(d, records), s, n)
<1>1. \A r \in Publish(d, records) : r \in d \/ r \in records
  BY DEF Publish
<1>2. IsFiniteSet(Publish(d, records))
  <2>1. IsFiniteSet(d \cup records)
    BY FS_Union DEF DirectoryOK
  <2>2. Publish(d, records) \in SUBSET (d \cup records)
    BY <1>1
  <2> QED
    BY <2>1, <2>2, FS_Subset
<1>3. OneEach(Publish(d, records))
  <2> SUFFICES ASSUME NEW r \in Publish(d, records), NEW e \in Publish(d, records),
                      SameShard(r, e)
               PROVE  r = e
    BY DEF OneEach
  <2>1. SameShard(e, r)
    BY DEF SameShard
  <2> QED
    BY <2>1 DEF Publish, DirectoryOK, OneEach
<1> QED
  BY <1>1, <1>2, <1>3 DEF DirectoryOK, OwnSpeakTrue, OwnFit

(* A directory is good with whatever replaces the store, if what that has  *)
(* stored is as it was or as a segment that is new.                        *)
LEMMA DirectoryMovesOn ==
    ASSUME NEW d, NEW old, NEW new, NEW n \in Nat, NEW m \in Nat, n <= m,
           DirectoryOK(d, old, n),
           \A o \in Objects : Stored(new, o) =>
              \/ new.objects[o].segment > n
              \/ /\ Stored(old, o) /\ new.policy = old.policy
                 /\ new.objects[o].segment = old.objects[o].segment
    PROVE  DirectoryOK(d, new, m)
<1>1. \A r \in d : r.segment \in Nat
  BY DEF DirectoryOK, ProviderRecord
<1>2. OwnFit(d, new, m)
  <2> SUFFICES ASSUME NEW r \in d, ~ r.signed
               PROVE  /\ r.segment <= m
                      /\ \A o \in Objects : Stored(new, o) /\ r.segment = new.objects[o].segment
                            => r.shard.cid \in Shards(new.policy)
    BY DEF OwnFit
  <2>1. r.segment <= n
    BY DEF DirectoryOK, OwnFit
  <2>2. r.segment <= m
    BY <1>1, <2>1
  <2>3. ASSUME NEW o \in Objects, Stored(new, o), r.segment = new.objects[o].segment
        PROVE  r.shard.cid \in Shards(new.policy)
    <3>1. ~ (new.objects[o].segment > n)
      BY <1>1, <2>1, <2>3
    <3> QED
      BY <2>3, <3>1 DEF DirectoryOK, OwnFit
  <2> QED
    BY <2>2, <2>3
<1> QED
  BY <1>2 DEF DirectoryOK

(* What the daemon publishes for objects of a store it has is good.        *)
LEMMA LocalRecordsOK ==
    ASSUME NEW s, s.policy \in StoragePolicies, s.objects \in ObjectMap, ShardsFit(s),
           NEW n \in Nat, SegmentsUpTo(s, n), clock \in Nat, NEW os \in SUBSET Objects
    PROVE  DirectoryOK(UNION {LocalRecords(s, o) : o \in os}, s, n)
<1> DEFINE records == UNION {LocalRecords(s, o) : o \in os}
           shards == Shards(s.policy)
           rec(o, i) == LocalRecord(s.objects[o].segment, i)
<1>1. shards \subseteq Nat /\ IsFiniteSet(shards) /\ shards \subseteq DOMAIN LocalNode
  BY ShardsOfPolicy, StorageAssumption
<1>2. \A o \in Objects : s.objects[o].held \subseteq shards /\ s.objects[o].segment \in Nat
  BY DEF ShardsFit, ObjectMap
<1>3. \A r \in records : \E o \in os : \E i \in s.objects[o].held : r = rec(o, i)
  BY DEF LocalRecords
<1>4. \A o \in os : \A i \in shards : rec(o, i) \in ProviderRecord
  <2> SUFFICES ASSUME NEW o \in os, NEW i \in shards PROVE rec(o, i) \in ProviderRecord
    OBVIOUS
  <2>1. /\ s.objects[o].segment \in Nat /\ i \in Nat /\ LocalNode[i] \in DOMAIN OperatorOf
        /\ clock + Lease \in Nat
    BY <1>1, <1>2, LeaseAssumption
  <2>2. [cid |-> i, index |-> i] \in [cid: Nat, index: Nat]
    BY <2>1
  <2> QED
    BY <2>1, <2>2 DEF ProviderRecord, LocalRecord
<1>5. records \subseteq ProviderRecord
  BY <1>2, <1>3, <1>4
<1>6. OneEach(records)
  <2>1. ASSUME NEW r \in records
        PROVE  r = LocalRecord(r.segment, r.shard.index)
    <3>1. PICK o \in os : \E i \in s.objects[o].held : r = rec(o, i)
      BY <1>3
    <3>2. PICK i \in s.objects[o].held : r = rec(o, i)
      BY <3>1
    <3>3. r.segment = s.objects[o].segment /\ r.shard.index = i
      BY <3>2 DEF LocalRecord
    <3> QED
      BY <3>2, <3>3
  <2> HIDE DEF records
  <2> QED
    BY <2>1 DEF OneEach, SameShard
<1>7. OwnSpeakTrue(records)
  BY <1>3 DEF OwnSpeakTrue, LocalRecord
<1>8. OwnFit(records, s, n)
  <2> SUFFICES ASSUME NEW r \in records
               PROVE  /\ r.segment <= n
                      /\ \A x \in Objects : Stored(s, x) /\ r.segment = s.objects[x].segment
                            => r.shard.cid \in shards
    BY DEF OwnFit
  <2>1. PICK o \in os : \E i \in s.objects[o].held : r = rec(o, i)
    BY <1>3
  <2>2. PICK i \in s.objects[o].held : r = rec(o, i)
    BY <2>1
  <2>3. r.segment = s.objects[o].segment /\ r.shard.cid = i /\ i \in shards
    BY <1>2, <2>2 DEF LocalRecord
  <2> QED
    BY <2>3 DEF SegmentsUpTo
<1>9. IsFiniteSet(records)
  <2> DEFINE pairs == os \X shards
             f == [p \in pairs |-> rec(p[1], p[2])]
             image == {f[p] : p \in pairs}
  <2>1. IsFiniteSet(os)
    BY StorageAssumption, FS_Subset
  <2>2. IsFiniteSet(pairs)
    BY <1>1, <2>1, FS_Product
  <2>3. f \in Surjection(pairs, image)
    BY DEF Surjection
  <2>4. IsFiniteSet(image)
    BY <2>2, <2>3, FS_Surjection
  <2>5. records \in SUBSET image
    <3> SUFFICES ASSUME NEW r \in records PROVE r \in image
      OBVIOUS
    <3>0. PICK o \in os : \E i \in s.objects[o].held : r = rec(o, i)
      BY <1>3
    <3>1. PICK i \in s.objects[o].held : r = rec(o, i)
      BY <3>0
    <3>2. <<o, i>> \in pairs
      BY <1>2, <3>1
    <3>3. f[<<o, i>>] = r
      BY <3>1, <3>2
    <3> QED
      BY <3>2, <3>3
  <2> QED
    BY <2>4, <2>5, FS_Subset
<1> QED
  BY <1>5, <1>6, <1>7, <1>8, <1>9 DEF DirectoryOK
-----------------------------------------------------------------------------
(* What a step does to the store, to the leases and to the files. *)

StoreStep ==
    /\ storage' \in StoreType /\ made' \in Nat /\ made <= made'
    /\ ShardsFit(storage') /\ DurableReadable(storage') /\ SegmentsUpTo(storage', made')
    /\ KeepsStored(files.storage, storage')
    /\ \A o \in Objects : Stored(storage', o) =>
          \/ storage'.objects[o].segment > made
          \/ /\ Stored(storage, o) /\ storage'.policy = storage.policy
             /\ storage'.objects[o].segment = storage.objects[o].segment

(* The daemon runs on and publishes running leases of its own, or it is    *)
(* started again and publishes those of all objects it finds.              *)
Publishes ==
    \E records \in SUBSET ProviderRecord :
        /\ DirectoryOK(records, storage', made')
        /\ \A r \in records : ~ r.signed
        /\ \A r \in records : IsActive(r, clock)
        /\ availability' = Publish(availability, records)

Restarts ==
    /\ storage' = FromSnapshot(files.storage)
    /\ \E records \in SUBSET ProviderRecord :
          /\ DirectoryOK(records, storage', made')
          /\ \A r \in records : ~ r.signed
          /\ \A r \in records : IsActive(r, clock)
          /\ \A o \in Objects : Stored(files.storage, o) =>
                LocalRecords(files.storage, o) \subseteq records
          /\ availability' = Publish(Loaded(files.availability), records)

LeasesStep ==
    \/ /\ KeepsStored(storage, storage')
       /\ \/ UNCHANGED availability
          \/ Publishes
          \/ \E offer \in Offers : PublishSigned(offer)
          \/ UNCHANGED clock /\ \E time \in PruneTimes : PruneProviders(time)
    \/ Restarts

FilesStep ==
    \E s \in {files.storage, ToSnapshot(storage')},
       a \in {files.availability, availability'} :
           files' = [storage |-> s, availability |-> a]

StorageStep ==
    /\ StoreStep /\ LeasesStep /\ FilesStep
    /\ clock' = clock \/ (clock' = clock + 1 /\ UNCHANGED availability)

(* What is in memory and in the files, of the types it has.                *)
LEMMA StorageTypes ==
    ASSUME StorageInv
    PROVE  /\ storage \in StoreType /\ storage.policy \in StoragePolicies
           /\ storage.objects \in ObjectMap /\ storage.durable \subseteq Objects
           /\ files.storage.policy \in StoragePolicies /\ files.storage.objects \in ObjectMap
           /\ files.storage \in [policy: StoragePolicies, objects: ObjectMap]
           /\ availability \subseteq ProviderRecord /\ files.availability \subseteq ProviderRecord
           /\ made \in Nat /\ clock \in Nat
           /\ files = [storage |-> files.storage, availability |-> files.availability]
BY DEF StorageInv, StorageTypeOK, StoreType

(* The shards of one object change, or it is stored.                       *)
LEMMA StoreChanges ==
    ASSUME StorageInv, NEW o \in Objects, NEW segment, NEW held \in SUBSET Shards(storage.policy),
           storage' = WithShards(storage, o, segment, held),
           \/ /\ Stored(storage, o) /\ segment = storage.objects[o].segment /\ made' = made
           \/ ~ Stored(storage, o) /\ segment = made + 1 /\ made' = made + 1
    PROVE  StoreStep /\ KeepsStored(storage, storage')
<1>1. /\ storage \in StoreType /\ storage.objects \in ObjectMap /\ made \in Nat
      /\ files.storage.objects \in ObjectMap
  BY StorageTypes
<1>2. \A x \in Objects : storage.objects[x].segment \in Nat
  BY <1>1 DEF ObjectMap
<1>3. segment \in Nat \ {0}
  BY <1>1, <1>2 DEF Stored
<1>4. /\ storage' \in StoreType /\ storage'.policy = storage.policy
      /\ storage'.objects[o] = [segment |-> segment, held |-> held]
      /\ \A x \in Objects \ {o} : storage'.objects[x] = storage.objects[x]
      /\ ShardsFit(storage') /\ DurableReadable(storage')
  BY <1>1, <1>3, WithShardsStore DEF StorageInv
<1>5. made' \in Nat /\ made <= made'
  BY <1>1
<1>6. SegmentsUpTo(storage', made')
  <2> SUFFICES ASSUME NEW x \in Objects PROVE storage'.objects[x].segment <= made'
    BY DEF SegmentsUpTo
  <2>1. storage.objects[x].segment <= made /\ storage.objects[o].segment <= made
    BY DEF StorageInv, SegmentsUpTo
  <2> QED
    BY <1>1, <1>2, <1>4, <1>5, <2>1
<1>7. KeepsStored(storage, storage')
  BY <1>4 DEF KeepsStored, Stored
<1>8. KeepsStored(files.storage, storage')
  <2>1. ASSUME NEW x \in Objects, Stored(files.storage, x)
        PROVE  Stored(storage, x)
    BY <2>1 DEF StorageInv, KeepsStored, Stored
  <2> QED
    BY <1>7, <2>1 DEF StorageInv, KeepsStored
<1>9. ASSUME NEW x \in Objects, Stored(storage', x)
      PROVE  \/ storage'.objects[x].segment > made
             \/ /\ Stored(storage, x) /\ storage'.policy = storage.policy
                /\ storage'.objects[x].segment = storage.objects[x].segment
  <2>1. CASE x = o
    BY <1>1, <1>4, <2>1
  <2>2. CASE x # o
    BY <1>4, <1>9, <2>2 DEF Stored
  <2> QED
    BY <2>1, <2>2
<1> QED
  BY <1>4, <1>5, <1>6, <1>7, <1>8, <1>9 DEF StoreStep

(* Nothing in the store changes.                                           *)
LEMMA StoreStays ==
    ASSUME StorageInv, UNCHANGED <<storage, made>>
    PROVE  StoreStep /\ KeepsStored(storage, storage')
<1>1. storage \in StoreType /\ made \in Nat /\ made <= made
  BY StorageTypes
<1> QED
  BY <1>1 DEF StoreStep, StorageInv, KeepsStored

(* The daemon publishes what it holds of some objects.                     *)
LEMMA LocalPublished ==
    ASSUME StorageInv, StoreStep, KeepsStored(storage, storage'), UNCHANGED clock,
           NEW os \in SUBSET Objects, availability' = PublishLocal(storage', os)
    PROVE  LeasesStep
<1> DEFINE records == UNION {LocalRecords(storage', o) : o \in os}
<1>1. clock \in Nat
  BY StorageTypes
<1>2. DirectoryOK(records, storage', made')
  BY <1>1, LocalRecordsOK DEF StoreStep, StoreType
<1>3. \A r \in records : ~ r.signed /\ IsActive(r, clock)
  BY <1>1, LeaseAssumption DEF LocalRecords, LocalRecord, IsActive
<1>4. records \subseteq ProviderRecord
  BY <1>2 DEF DirectoryOK
<1>5. availability' = Publish(availability, records)
  BY DEF PublishLocal
<1> HIDE DEF records
<1>6. Publishes
  BY <1>2, <1>3, <1>4, <1>5 DEF Publishes
<1> QED
  BY <1>6 DEF LeasesStep

(* Saving both files writes them in their order, as far as that goes.      *)
LEMMA SavingBoth ==
    ASSUME StorageInv, SaveBoth
    PROVE  FilesStep
<1>1. files = [storage |-> files.storage, availability |-> files.availability]
  BY StorageTypes
<1>2. [files EXCEPT !.storage = ToSnapshot(storage')]
        = [storage |-> ToSnapshot(storage'), availability |-> files.availability]
  BY <1>1
<1> QED
  BY <1>1, <1>2 DEF SaveBoth, FilesStep

(* Saving the availability file writes it or leaves it.                    *)
LEMMA SavingAvailability ==
    ASSUME StorageInv, SaveAvailability \/ UNCHANGED files
    PROVE  FilesStep
<1>1. files = [storage |-> files.storage, availability |-> files.availability]
  BY StorageTypes
<1>2. [files EXCEPT !.availability = availability']
        = [storage |-> files.storage, availability |-> availability']
  BY <1>1
<1> QED
  BY <1>1, <1>2 DEF SaveAvailability, Saving, FilesStep

(* Every step is one of those, for storing, repairing and losing shards... *)
LEMMA ObjectSteps ==
    ASSUME StorageInv, NEW o \in Objects, ObjectPut(o) \/ ObjectRepair(o)
    PROVE  StorageStep
<1>1. storage.policy \in StoragePolicies
  BY StorageTypes
<1>2. StoreStep /\ KeepsStored(storage, storage')
  <2>1. CASE UNCHANGED <<storage, made>>
    BY <2>1, StoreStays
  <2>2. CASE ObjectPut(o) /\ ~ UNCHANGED <<storage, made>>
    <3>1. /\ ~ Stored(storage, o) /\ made' = made + 1
          /\ storage' = WithShards(storage, o, made', Shards(storage.policy))
      BY <2>2 DEF ObjectPut, PutObject
    <3> QED
      BY <3>1, StoreChanges
  <2>3. CASE ObjectRepair(o)
    <3>1. /\ Stored(storage, o) /\ made' = made
          /\ storage' = WithShards(storage, o, storage.objects[o].segment, Shards(storage.policy))
      BY <2>3 DEF ObjectRepair, Repaired, Readable
    <3> QED
      BY <3>1, StoreChanges
  <2> QED
    BY <2>1, <2>2, <2>3
<1>3. availability' = PublishLocal(storage', {o}) /\ SaveBoth /\ UNCHANGED clock
  BY DEF ObjectPut, ObjectRepair
<1>4. LeasesStep
  BY <1>2, <1>3, LocalPublished
<1>5. FilesStep
  BY <1>3, SavingBoth
<1> QED
  BY <1>2, <1>3, <1>4, <1>5 DEF StorageStep

(* ... for repairing all there is ...                                      *)
LEMMA RepairAllStep ==
    ASSUME StorageInv, ObjectRepairAll
    PROVE  StorageStep
<1> DEFINE all == {o \in Objects : Stored(storage, o)}
           broken == {o \in all : ~ Readable(storage, o)}
           tried == {o \in all : \A b \in broken : o < b}
           objects == [o \in Objects |-> IF o \in tried THEN Repaired(storage, o).objects[o]
                                         ELSE storage.objects[o]]
<1>1. /\ storage \in StoreType /\ storage.policy \in StoragePolicies
      /\ storage.objects \in ObjectMap /\ storage.durable \subseteq Objects /\ made \in Nat
  BY StorageTypes
<1>2. storage' = [storage EXCEPT !.objects = objects, !.durable = @ \cup tried]
  BY <1>1 DEF ObjectRepairAll, StoreType
<1>3. ASSUME NEW o \in tried
      PROVE  /\ Stored(storage, o)
             /\ Repaired(storage, o).objects[o]
                   = [segment |-> storage.objects[o].segment, held |-> Shards(storage.policy)]
  <2>1. Stored(storage, o) /\ o \in Objects
    OBVIOUS
  <2>2. storage.objects[o].segment \in Nat \ {0}
    BY <1>1, <2>1 DEF Stored, ObjectMap
  <2>3. WithShards(storage, o, storage.objects[o].segment, Shards(storage.policy)).objects[o]
           = [segment |-> storage.objects[o].segment, held |-> Shards(storage.policy)]
    BY <1>1, <2>1, <2>2, WithShardsStore DEF StorageInv
  <2> QED
    BY <2>1, <2>3 DEF Repaired
<1>4. \A o \in Objects :
          objects[o] = IF o \in tried THEN [segment |-> storage.objects[o].segment,
                                            held |-> Shards(storage.policy)]
                       ELSE storage.objects[o]
  BY <1>3
<1>5. /\ Shards(storage.policy) \subseteq Nat /\ tried \subseteq Objects
      /\ Cardinality(Shards(storage.policy)) >= storage.policy.data
  BY <1>1, ShardsOfPolicy
<1>6. objects \in ObjectMap
  <2>1. \A o \in Objects : storage.objects[o] \in [segment: Nat, held: SUBSET Nat]
    BY <1>1 DEF ObjectMap
  <2>2. ASSUME NEW o \in Objects
        PROVE  objects[o] \in [segment: Nat, held: SUBSET Nat]
    <3>1. CASE o \in tried
      <4>1. objects[o]
              = [segment |-> storage.objects[o].segment, held |-> Shards(storage.policy)]
        BY <1>4, <3>1
      <4> HIDE DEF objects, tried
      <4> QED
        BY <1>5, <2>1, <4>1
    <3>2. CASE o \notin tried
      BY <1>4, <2>1, <3>2
    <3> QED
      BY <3>1, <3>2
  <2> QED
    BY <2>2 DEF ObjectMap
<1>6a. \A o \in tried : Stored(storage, o)
  BY <1>3
<1> HIDE DEF objects, tried
<1>7. /\ storage' \in StoreType /\ storage'.policy = storage.policy
      /\ storage'.objects = objects /\ storage'.durable = storage.durable \cup tried
  BY <1>1, <1>2, <1>5, <1>6 DEF StoreType
<1>7a. ASSUME NEW o \in Objects
       PROVE  /\ storage'.objects[o].segment = storage.objects[o].segment
              /\ o \in tried => storage'.objects[o].held = Shards(storage.policy)
              /\ o \notin tried => storage'.objects[o] = storage.objects[o]
  <2>1. storage'.objects[o] = objects[o]
    BY <1>7
  <2>2. CASE o \in tried
    <3>1. objects[o] = [segment |-> storage.objects[o].segment, held |-> Shards(storage.policy)]
      BY <1>4, <2>2
    <3> QED
      BY <2>1, <2>2, <3>1
  <2>3. CASE o \notin tried
    <3>1. objects[o] = storage.objects[o]
      BY <1>4, <2>3
    <3> QED
      BY <2>1, <2>3, <3>1
  <2> QED
    BY <2>2, <2>3
<1>8. \A o \in Objects : storage'.objects[o].segment = storage.objects[o].segment
  BY <1>7a
<1>9. made' = made /\ clock' = clock
  BY DEF ObjectRepairAll
<1>10. ShardsFit(storage')
  BY <1>6a, <1>7, <1>7a DEF StorageInv, ShardsFit, Stored
<1>11. DurableReadable(storage')
  <2> SUFFICES ASSUME NEW o \in storage.durable \cup tried
               PROVE  Readable(storage', o)
    BY <1>7 DEF DurableReadable
  <2>1. o \in Objects
    BY <1>1, <1>5
  <2>2. CASE o \in tried
    <3>1. storage'.objects[o].held = Shards(storage.policy)
      BY <1>7a, <2>1, <2>2
    <3>2. Stored(storage', o)
      BY <1>6a, <1>8, <2>1, <2>2 DEF Stored
    <3> QED
      BY <1>5, <1>7, <3>1, <3>2 DEF Readable, Enough
  <2>3. CASE o \notin tried
    <3>1. Readable(storage, o)
      BY <2>3 DEF StorageInv, DurableReadable
    <3>2. storage'.objects[o] = storage.objects[o]
      BY <1>7a, <2>1, <2>3
    <3> QED
      BY <1>7, <3>1, <3>2 DEF Readable, Stored, Enough
  <2> QED
    BY <2>2, <2>3
<1>12. KeepsStored(storage, storage') /\ KeepsStored(files.storage, storage')
  BY <1>7, <1>8 DEF StorageInv, KeepsStored
<1>13. StoreStep
  <2>1. SegmentsUpTo(storage', made')
    BY <1>8, <1>9 DEF StorageInv, SegmentsUpTo
  <2>2. \A o \in Objects : Stored(storage', o) => Stored(storage, o)
    BY <1>8 DEF Stored
  <2>3. made' \in Nat /\ made <= made'
    BY <1>1, <1>9
  <2> QED
    BY <1>7, <1>8, <1>10, <1>11, <1>12, <2>1, <2>2, <2>3 DEF StoreStep
<1>14. CASE broken = {}
  <2>1. availability' = PublishLocal(storage', all) /\ SaveBoth
    BY <1>14 DEF ObjectRepairAll
  <2>2. all \in SUBSET Objects
    OBVIOUS
  <2>3. LeasesStep
    BY <1>9, <1>12, <1>13, <2>1, <2>2, LocalPublished
  <2> QED
    BY <1>9, <1>13, <2>1, <2>3, SavingBoth DEF StorageStep
<1>15. CASE broken # {}
  <2>1. UNCHANGED <<availability, files>>
    BY <1>15 DEF ObjectRepairAll
  <2>2. LeasesStep
    BY <1>12, <2>1 DEF LeasesStep
  <2> QED
    BY <1>9, <1>13, <2>1, <2>2, SavingAvailability DEF StorageStep
<1> QED
  BY <1>14, <1>15

(* ... for a policy, losses, time and what others publish ...              *)
LEMMA OtherSteps ==
    ASSUME StorageInv,
           \/ \E p \in StoragePolicies : StoragePolicySet(p)
           \/ \E offer \in Offers : PublishSigned(offer)
           \/ \E time \in PruneTimes : PruneProviders(time)
           \/ \E loss \in Losses : LoseShards(loss.object, loss.shards)
           \/ Tick
    PROVE  StorageStep
<1>t. /\ storage \in StoreType /\ storage.policy \in StoragePolicies
      /\ storage.objects \in ObjectMap /\ storage.durable \subseteq Objects /\ made \in Nat
      /\ files.storage.objects \in ObjectMap
      /\ files = [storage |-> files.storage, availability |-> files.availability]
  BY StorageTypes
<1>1. ASSUME NEW p \in StoragePolicies, StoragePolicySet(p)
      PROVE  StorageStep
  <2>1. /\ \A o \in Objects : ~ Stored(storage, o)
        /\ storage' = [storage EXCEPT !.policy = p]
        /\ UNCHANGED <<availability, made, clock>>
    BY <1>1 DEF StoragePolicySet, SetStoragePolicy
  <2>2. /\ storage' \in StoreType /\ storage'.objects = storage.objects
        /\ storage'.durable = storage.durable
    BY <1>t, <2>1 DEF StoreType
  <2>3. \A o \in Objects : ~ Stored(storage', o) /\ ~ Stored(files.storage, o)
    BY <2>1, <2>2 DEF StorageInv, KeepsStored, Stored
  <2>4. ShardsFit(storage')
    BY <2>1, <2>2 DEF StorageInv, ShardsFit
  <2>5. DurableReadable(storage')
    BY <1>t, <2>1, <2>2 DEF StorageInv, DurableReadable, Readable
  <2>6. SegmentsUpTo(storage', made')
    BY <2>1, <2>2 DEF StorageInv, SegmentsUpTo
  <2>7. KeepsStored(storage, storage') /\ KeepsStored(files.storage, storage')
    BY <2>1, <2>3 DEF KeepsStored
  <2>8. StoreStep
    BY <1>t, <2>1, <2>2, <2>3, <2>4, <2>5, <2>6, <2>7 DEF StoreStep
  <2>9. FilesStep
    <3>1. files' = files \/ files' = [files EXCEPT !.storage = ToSnapshot(storage')]
      BY <1>1 DEF StoragePolicySet, Saving
    <3>2. [files EXCEPT !.storage = ToSnapshot(storage')]
            = [storage |-> ToSnapshot(storage'), availability |-> files.availability]
      BY <1>t
    <3> QED
      BY <1>t, <3>1, <3>2 DEF FilesStep
  <2> QED
    BY <2>1, <2>7, <2>8, <2>9 DEF StorageStep, LeasesStep
<1>2. ASSUME NEW offer \in Offers, PublishSigned(offer)
      PROVE  StorageStep
  <2>1. SaveAvailability /\ UNCHANGED <<storage, made, clock>>
    BY <1>2 DEF PublishSigned
  <2>2. LeasesStep
    BY <1>2, <2>1, StoreStays DEF LeasesStep
  <2> QED
    BY <2>1, <2>2, StoreStays, SavingAvailability DEF StorageStep
<1>3. ASSUME NEW time \in PruneTimes, PruneProviders(time)
      PROVE  StorageStep
  <2>1. SaveAvailability /\ UNCHANGED <<storage, made, clock>>
    BY <1>3 DEF PruneProviders
  <2>2. LeasesStep
    BY <1>3, <2>1, StoreStays DEF LeasesStep
  <2> QED
    BY <2>1, <2>2, StoreStays, SavingAvailability DEF StorageStep
<1>4. ASSUME NEW loss \in Losses, LoseShards(loss.object, loss.shards)
      PROVE  StorageStep
  <2> DEFINE o == loss.object
  <2>1. /\ Stored(storage, o) /\ UNCHANGED <<availability, files, made, clock>>
        /\ storage' = WithShards(storage, o, storage.objects[o].segment,
                                 storage.objects[o].held \ loss.shards)
    BY <1>4 DEF LoseShards
  <2>2. o \in Objects
    BY LeaseAssumption
  <2>3. storage.objects[o].held \ loss.shards \in SUBSET Shards(storage.policy)
    BY <2>2 DEF StorageInv, ShardsFit
  <2>4. StoreStep /\ KeepsStored(storage, storage')
    BY <2>1, <2>2, <2>3, StoreChanges
  <2> QED
    BY <2>1, <2>4, SavingAvailability DEF StorageStep, LeasesStep
<1>5. ASSUME Tick
      PROVE  StorageStep
  <2>1. clock' = clock + 1 /\ UNCHANGED <<storage, availability, files, made>>
    BY <1>5 DEF Tick
  <2> QED
    BY <2>1, StoreStays, SavingAvailability DEF StorageStep, LeasesStep
<1> QED
  BY <1>1, <1>2, <1>3, <1>4, <1>5

(* What is loaded of a directory that was saved is what was saved.         *)
LEMMA LoadedIsSaved == \A d : Loaded(d) = d
BY DEF Loaded, Publish

(* ... and for a restart.                                                  *)
LEMMA RestartStep ==
    ASSUME StorageInv, StorageRestart
    PROVE  StorageStep
<1> DEFINE f == files.storage
           all == {x \in Objects : Stored(f, x)}
           records == UNION {LocalRecords(f, o) : o \in all}
<1>1. /\ f.policy \in StoragePolicies /\ f.objects \in ObjectMap
      /\ made \in Nat /\ clock \in Nat
      /\ files = [storage |-> f, availability |-> files.availability]
      /\ f \in [policy: StoragePolicies, objects: ObjectMap]
      /\ storage.objects \in ObjectMap
  BY StorageTypes
<1>2. /\ storage' = FromSnapshot(f)
      /\ availability' = Publish(Loaded(files.availability), records)
      /\ files' = [files EXCEPT !.availability = availability']
      /\ UNCHANGED <<made, clock>>
  BY DEF StorageRestart, Reload
<1>3. /\ storage' \in StoreType /\ storage'.policy = f.policy /\ storage'.objects = f.objects
      /\ storage'.durable = {o \in Objects : Readable(f, o)}
  BY <1>1, <1>2 DEF FromSnapshot, StoreType
<1>4. \A o \in Objects : Stored(f, o) =>
          Stored(storage, o) /\ storage.policy = f.policy
            /\ storage.objects[o].segment = f.objects[o].segment
  BY DEF StorageInv, KeepsStored, Stored
<1>5. SegmentsUpTo(f, made)
  <2> SUFFICES ASSUME NEW o \in Objects PROVE f.objects[o].segment <= made
    BY DEF SegmentsUpTo
  <2>1. CASE Stored(f, o)
    BY <1>4, <2>1 DEF StorageInv, SegmentsUpTo
  <2>2. CASE ~ Stored(f, o)
    BY <1>1, <2>2 DEF Stored
  <2> QED
    BY <2>1, <2>2
<1>6. StoreStep
  <2>1. ShardsFit(storage')
    BY <1>3 DEF StorageInv, ShardsFit, Stored
  <2>2. DurableReadable(storage')
    BY <1>3 DEF DurableReadable, Readable, Stored, Enough
  <2>3. SegmentsUpTo(storage', made')
    BY <1>2, <1>3, <1>5 DEF SegmentsUpTo
  <2>4. KeepsStored(f, storage')
    BY <1>3 DEF KeepsStored
  <2>5. \A o \in Objects : Stored(storage', o) =>
            /\ Stored(storage, o) /\ storage'.policy = storage.policy
            /\ storage'.objects[o].segment = storage.objects[o].segment
    BY <1>3, <1>4 DEF Stored
  <2>6. made' \in Nat /\ made <= made'
    BY <1>1, <1>2
  <2> QED
    BY <1>3, <2>1, <2>2, <2>3, <2>4, <2>5, <2>6 DEF StoreStep
<1>7. DirectoryOK(records, storage', made')
  <2>1. DirectoryOK(records, f, made)
    BY <1>1, <1>5, LocalRecordsOK DEF StorageInv
  <2>2. OwnFit(records, storage', made')
    BY <1>2, <1>3, <2>1 DEF DirectoryOK, OwnFit, Stored
  <2> QED
    BY <2>1, <2>2 DEF DirectoryOK
<1>8. \A r \in records : ~ r.signed /\ IsActive(r, clock)
  BY <1>1, LeaseAssumption DEF LocalRecords, LocalRecord, IsActive
<1>9. \A o \in Objects : Stored(f, o) => LocalRecords(f, o) \subseteq records
  OBVIOUS
<1>10. records \in SUBSET ProviderRecord
  BY <1>7 DEF DirectoryOK
<1> HIDE DEF records
<1>11. Restarts
  BY <1>2, <1>7, <1>8, <1>9, <1>10 DEF Restarts
<1>12. FilesStep
  <2>1. [files EXCEPT !.availability = availability']
          = [storage |-> f, availability |-> availability']
    BY <1>1
  <2> QED
    BY <1>2, <2>1 DEF FilesStep
<1> QED
  BY <1>2, <1>6, <1>11, <1>12 DEF StorageStep, LeasesStep

(* Every step of the daemon and of time is one of those, or none.          *)
LEMMA StorageSteps ==
    ASSUME StorageInv, [StorageNext]_storageVars
    PROVE  StorageStep
<1>1. CASE UNCHANGED storageVars
  <2>1. UNCHANGED <<storage, availability, files, made, clock>>
    BY <1>1 DEF storageVars
  <2> QED
    BY <2>1, StoreStays, SavingAvailability DEF StorageStep, LeasesStep
<1>2. CASE StorageNext
  BY <1>2, ObjectSteps, RepairAllStep, OtherSteps, RestartStep DEF StorageNext
<1> QED
  BY <1>1, <1>2
-----------------------------------------------------------------------------
(* The invariant. *)

(* Nothing is stored and there are no leases.                              *)
LEMMA StorageInvInit == StorageInit => StorageInv
<1> SUFFICES ASSUME StorageInit PROVE StorageInv
  OBVIOUS
<1> DEFINE empty == [o \in Objects |-> Absent]
<1>1. empty \in ObjectMap
  BY DEF ObjectMap, Absent
<1>2. \A o \in Objects : empty[o].segment = 0 /\ empty[o].held = {}
  BY DEF Absent
<1>3. /\ EmptyFile = [policy |-> FirstPolicy, objects |-> empty]
      /\ EmptyFile.policy = FirstPolicy /\ EmptyFile.objects = empty
  BY DEF EmptyFile
<1> HIDE DEF empty
<1>4. \A o \in Objects : ~ Stored(EmptyFile, o)
  BY <1>2, <1>3 DEF Stored
<1>5. {o \in Objects : Readable(EmptyFile, o)} = {}
  BY <1>4 DEF Readable
<1>6. /\ storage = [policy |-> FirstPolicy, objects |-> empty, durable |-> {}]
      /\ storage.objects = empty /\ storage.durable = {}
  BY <1>3, <1>5 DEF StorageInit, FromSnapshot
<1>7. files = [storage |-> EmptyFile, availability |-> {}] /\ availability = {}
      /\ made = 0 /\ clock = 0
  BY DEF StorageInit
<1>8. files.storage = EmptyFile /\ files.availability = {}
  BY <1>7
<1>9. StorageTypeOK
  BY <1>1, <1>3, <1>6, <1>7, StorageAssumption DEF StorageTypeOK
<1>10. ShardsFit(storage) /\ ShardsFit(files.storage)
  BY <1>2, <1>3, <1>6, <1>8 DEF ShardsFit
<1>11. SegmentsUpTo(storage, made) /\ DurableReadable(storage)
  BY <1>2, <1>6, <1>7 DEF SegmentsUpTo, DurableReadable
<1>12. KeepsStored(files.storage, storage)
  BY <1>4, <1>8 DEF KeepsStored
<1>13. DirectoryOK({}, storage, made)
  BY FS_EmptySet DEF DirectoryOK, OneEach, OwnSpeakTrue, OwnFit
<1> QED
  BY <1>7, <1>8, <1>9, <1>10, <1>11, <1>12, <1>13 DEF StorageInv

(* Each lease that was there or is published is in the directory or gave   *)
(* way to another for the same shard.                                      *)
LEMMA PublishCovers ==
    ASSUME NEW d, NEW records, OneEach(d), OneEach(records)
    PROVE  /\ \A r \in d : \/ r \in Publish(d, records)
                           \/ \E e \in records \cap Publish(d, records) :
                                 SameShard(e, r) /\ Replaces(e, r)
           /\ \A r \in records : \/ r \in Publish(d, records)
                                 \/ \E e \in d \cap Publish(d, records) :
                                       SameShard(e, r) /\ ~ Replaces(r, e)
<1>1. ASSUME NEW r \in d, r \notin Publish(d, records)
      PROVE  \E e \in records \cap Publish(d, records) : SameShard(e, r) /\ Replaces(e, r)
  <2>1. PICK e \in records : SameShard(e, r) /\ Replaces(e, r)
    BY <1>1 DEF Publish
  <2>2. \A x \in d : SameShard(e, x) => x = r
    BY <2>1 DEF OneEach, SameShard
  <2>3. e \in Publish(d, records)
    BY <2>1, <2>2 DEF Publish
  <2> QED
    BY <2>1, <2>3
<1>2. ASSUME NEW r \in records, r \notin Publish(d, records)
      PROVE  \E e \in d \cap Publish(d, records) : SameShard(e, r) /\ ~ Replaces(r, e)
  <2>1. PICK e \in d : SameShard(r, e) /\ ~ Replaces(r, e)
    BY <1>2 DEF Publish
  <2>2. \A x \in records : SameShard(x, e) => x = r
    BY <2>1 DEF OneEach, SameShard
  <2>3. e \in Publish(d, records) /\ SameShard(e, r)
    BY <2>1, <2>2 DEF Publish, SameShard
  <2> QED
    BY <2>1, <2>3
<1> QED
  BY <1>1, <1>2

(* The files hold what they held, or what is in memory.                    *)
LEMMA FilesHold ==
    ASSUME FilesStep
    PROVE  /\ files' = [storage |-> files'.storage, availability |-> files'.availability]
           /\ files'.storage = files.storage \/ files'.storage = ToSnapshot(storage')
           /\ files'.availability \in {files.availability, availability'}
<1>1. PICK s \in {files.storage, ToSnapshot(storage')},
           a \in {files.availability, availability'} :
              files' = [storage |-> s, availability |-> a]
  BY DEF FilesStep
<1>2. files'.storage = s /\ files'.availability = a
  BY <1>1
<1> QED
  BY <1>1, <1>2

(* A signed lease is good whatever it says.                                *)
LEMMA OfferOK ==
    ASSUME NEW offer \in Offers, PublishSigned(offer)
    PROVE  /\ \A s, n : DirectoryOK({offer}, s, n)
           /\ offer \in ProviderRecord /\ offer.signed /\ IsActive(offer, clock)
           /\ availability' = Publish(availability, {offer})
           /\ UNCHANGED <<storage, made, clock>>
<1>1. /\ offer \in ProviderRecord /\ offer.signed /\ IsActive(offer, clock)
      /\ availability' = Publish(availability, {offer}) /\ UNCHANGED <<storage, made, clock>>
  BY LeaseAssumption DEF PublishSigned, Verifies
<1>2. IsFiniteSet({offer})
  BY FS_Singleton
<1> QED
  BY <1>1, <1>2 DEF DirectoryOK, OneEach, OwnSpeakTrue, OwnFit

(* What the leases are after a step fits the store after it.               *)
LEMMA LeasesStepOK ==
    ASSUME StorageInv, StoreStep, LeasesStep
    PROVE  /\ DirectoryOK(availability', storage', made')
           /\ DirectoryOK(files.availability, storage', made')
<1>1. made \in Nat /\ made' \in Nat /\ made <= made'
  BY StorageTypes DEF StoreStep
<1>2. \A d : DirectoryOK(d, storage, made) => DirectoryOK(d, storage', made')
  BY <1>1, DirectoryMovesOn DEF StoreStep
<1>3. DirectoryOK(availability, storage', made') /\ DirectoryOK(files.availability, storage', made')
  BY <1>2 DEF StorageInv
<1>4. CASE UNCHANGED availability
  BY <1>3, <1>4
<1>5. CASE Publishes
  BY <1>3, <1>5, PublishOK DEF Publishes
<1>5a. ASSUME NEW offer \in Offers, PublishSigned(offer)
       PROVE  DirectoryOK(availability', storage', made')
  BY <1>3, <1>5a, OfferOK, PublishOK
<1>6. ASSUME NEW time \in PruneTimes, PruneProviders(time)
      PROVE  DirectoryOK(availability', storage', made')
  <2>1. availability' \in SUBSET availability
    BY <1>6 DEF PruneProviders, PruneExpired
  <2>2. IsFiniteSet(availability')
    BY <1>3, <2>1, FS_Subset DEF DirectoryOK
  <2> QED
    BY <1>3, <2>1, <2>2 DEF DirectoryOK, OneEach, OwnSpeakTrue, OwnFit
<1>7. CASE Restarts
  <2>1. PICK records \in SUBSET ProviderRecord :
            /\ DirectoryOK(records, storage', made')
            /\ availability' = Publish(files.availability, records)
    BY <1>7, LoadedIsSaved DEF Restarts
  <2> QED
    BY <1>3, <2>1, PublishOK
<1> QED
  BY <1>3, <1>4, <1>5, <1>5a, <1>6, <1>7 DEF LeasesStep

(* Every step keeps it.                                                    *)
LEMMA StorageInvNext ==
    ASSUME StorageInv, [StorageNext]_storageVars
    PROVE  StorageInv'
<1>1. StorageStep
  BY StorageSteps
<1>2. StoreStep /\ LeasesStep /\ FilesStep
  BY <1>1 DEF StorageStep
<1>3. /\ DirectoryOK(availability', storage', made')
      /\ DirectoryOK(files'.availability, storage', made')
  BY <1>2, LeasesStepOK, FilesHold
<1>4. clock' \in Nat
  BY <1>1, StorageTypes DEF StorageStep
<1>5. /\ storage'.policy \in StoragePolicies /\ storage'.objects \in ObjectMap
      /\ ShardsFit(storage') /\ KeepsStored(files.storage, storage')
  BY <1>2 DEF StoreStep, StoreType
<1>6. /\ files'.storage \in [policy: StoragePolicies, objects: ObjectMap]
      /\ ShardsFit(files'.storage) /\ KeepsStored(files'.storage, storage')
  <2>1. CASE files'.storage = files.storage
    BY <1>5, <2>1, StorageTypes DEF StorageInv
  <2>2. CASE files'.storage = ToSnapshot(storage')
    <3>1. /\ files'.storage = [policy |-> storage'.policy, objects |-> storage'.objects]
          /\ files'.storage.policy = storage'.policy
          /\ files'.storage.objects = storage'.objects
      BY <2>2 DEF ToSnapshot
    <3> QED
      BY <1>5, <3>1 DEF ShardsFit, KeepsStored, Stored
  <2> QED
    BY <1>2, <2>1, <2>2, FilesHold
<1>7. StorageTypeOK'
  <2>1. availability' \subseteq ProviderRecord /\ files'.availability \subseteq ProviderRecord
    BY <1>3 DEF DirectoryOK
  <2>2. files' = [storage |-> files'.storage, availability |-> files'.availability]
    BY <1>2, FilesHold
  <2> QED
    BY <1>2, <1>4, <1>6, <2>1, <2>2 DEF StorageTypeOK, StoreStep, StoreType
<1> QED
  BY <1>2, <1>3, <1>5, <1>6, <1>7 DEF StorageInv, StoreStep

-----------------------------------------------------------------------------
(* What of it matters. *)

(* The shards, operators and regions of finitely many leases are finitely  *)
(* many.                                                                   *)
LEMMA FiniteImages ==
    ASSUME NEW records, IsFiniteSet(records)
    PROVE  /\ IsFiniteSet({r.shard.index : r \in Durable(records)})
           /\ IsFiniteSet({r.operator : r \in Durable(records)})
           /\ IsFiniteSet({r.region : r \in Durable(records)})
<1> DEFINE durable == Durable(records)
<1>1. IsFiniteSet(durable)
  <2>1. durable \in SUBSET records
    BY DEF Durable
  <2> QED
    BY <2>1, FS_Subset
<1> HIDE DEF durable
<1>2. [r \in durable |-> r.shard.index] \in Surjection(durable, {r.shard.index : r \in durable})
  BY DEF Surjection
<1>3. [r \in durable |-> r.operator] \in Surjection(durable, {r.operator : r \in durable})
  BY DEF Surjection
<1>4. [r \in durable |-> r.region] \in Surjection(durable, {r.region : r \in durable})
  BY DEF Surjection
<1>5. /\ IsFiniteSet({r.shard.index : r \in durable})
      /\ IsFiniteSet({r.operator : r \in durable})
      /\ IsFiniteSet({r.region : r \in durable})
  BY <1>1, <1>2, <1>3, <1>4, FS_Surjection
<1> QED
  BY <1>5 DEF durable

(* A lease is covered by one on the same shard that counts for no less.    *)
Covers(e, r) == e.shard = r.shard /\ CountsFor(e, r)

(* Leases that cover others satisfy what those satisfy.                    *)
LEMMA CoveringSatisfies ==
    ASSUME NEW some, NEW more, IsFiniteSet(more), NEW p \in StoragePolicies,
           \A r \in some : \E e \in more : Covers(e, r),
           SatisfiesRequirement(some, p)
    PROVE  SatisfiesRequirement(more, p)
<1>1. p.data \in Nat /\ p.operators \in Nat /\ p.regions \in Nat
  BY ShardsOfPolicy
<1>2. ASSUME NEW A, NEW B, IsFiniteSet(B), A \subseteq B, NEW n \in Nat, Cardinality(A) >= n
      PROVE  Cardinality(B) >= n
  <2>1. IsFiniteSet(A) /\ Cardinality(A) <= Cardinality(B)
    BY <1>2, FS_Subset
  <2>2. Cardinality(A) \in Nat /\ Cardinality(B) \in Nat
    BY <1>2, <2>1, FS_CardinalityType
  <2> QED
    BY <1>2, <2>1, <2>2
<1>a. ASSUME NEW r \in Durable(some)
      PROVE  \E e \in Durable(more) : /\ e.shard = r.shard /\ e.operator = r.operator
                                       /\ e.region = r.region
  BY <1>a DEF Durable, Covers, CountsFor
<1>3. {r.shard.index : r \in Durable(some)} \subseteq {r.shard.index : r \in Durable(more)}
  BY <1>a
<1>4. {r.operator : r \in Durable(some)} \subseteq {r.operator : r \in Durable(more)}
  BY <1>a
<1>5. {r.region : r \in Durable(some)} \subseteq {r.region : r \in Durable(more)}
  BY <1>a
<1>6. Cardinality({r.shard.index : r \in Durable(more)}) >= p.data
  BY <1>1, <1>2, <1>3, FiniteImages DEF SatisfiesRequirement
<1>7. Cardinality({r.operator : r \in Durable(more)}) >= p.operators
  BY <1>1, <1>2, <1>4, FiniteImages DEF SatisfiesRequirement
<1>8. Cardinality({r.region : r \in Durable(more)}) >= p.regions
  BY <1>1, <1>2, <1>5, FiniteImages DEF SatisfiesRequirement
<1> QED
  BY <1>6, <1>7, <1>8 DEF SatisfiesRequirement

(* Whatever fails and whoever publishes leases, an object that the store   *)
(* calls durable can be read back, and so can one that its leases make     *)
(* available, if those that run have the index of their cid.               *)
THEOREM PromisedAlwaysReadable == StorageSpec => []PromisedIsReadable
<1>1. StorageInv => PromisedIsReadable
  <2> SUFFICES ASSUME StorageInv, NEW o \in Objects, AvailableTarget(o), NumberedRight(o)
               PROVE  Readable(storage, o)
    BY DEF PromisedIsReadable, StorageInv, DurableReadable
  <2> DEFINE counted == {r.shard.index : r \in Durable(Evidence(o))}
             held == storage.objects[o].held
  <2>1. /\ Stored(storage, o) /\ Cardinality(counted) >= storage.policy.data
        /\ \A r \in Evidence(o) : r.shard.cid \in held
    BY DEF AvailableTarget, SatisfiesRequirement, Acceptable
  <2>2. counted \subseteq held
    BY <2>1 DEF NumberedRight, Durable
  <2>3. IsFiniteSet(held) /\ storage.policy.data \in Nat
    <3>1. /\ held \in SUBSET Shards(storage.policy) /\ IsFiniteSet(Shards(storage.policy))
          /\ storage.policy.data \in Nat
      BY StorageTypes, ShardsOfPolicy DEF StorageInv, ShardsFit
    <3> QED
      BY <3>1, FS_Subset
  <2> HIDE DEF held, counted
  <2>4. IsFiniteSet(counted) /\ Cardinality(counted) <= Cardinality(held)
    BY <2>2, <2>3, FS_Subset
  <2>5. Cardinality(counted) \in Nat /\ Cardinality(held) \in Nat
    BY <2>3, <2>4, FS_CardinalityType
  <2>6. Cardinality(held) >= storage.policy.data
    BY <2>1, <2>3, <2>4, <2>5
  <2> QED
    BY <2>1, <2>6 DEF Readable, Enough, held
<1> QED
  BY <1>1, StorageInvInit, StorageInvNext, PTL DEF StorageSpec

(* An object that was saved keeps its segment for ever.                    *)
THEOREM SegmentsAlwaysStand == StorageSpec => SegmentsStand
<1> DEFINE Stands == \A o \in Objects : Stored(files.storage, o) =>
                files'.storage.objects[o].segment = files.storage.objects[o].segment
<1>1. ASSUME StorageInv, [StorageNext]_storageVars
      PROVE  Stands
  <2>1. KeepsStored(files.storage, storage') /\ FilesStep
    BY <1>1, StorageSteps DEF StorageStep, StoreStep
  <2> QED
    BY <2>1, FilesHold DEF KeepsStored, ToSnapshot
<1>2. StorageInv /\ [StorageNext]_storageVars => [Stands]_storageVars
  BY <1>1
<1> HIDE DEF Stands
<1>3. StorageSpec => [][Stands]_storageVars
  BY <1>2, StorageInvInit, StorageInvNext, PTL DEF StorageSpec
<1> QED
  BY <1>3 DEF Stands, SegmentsStand
(* What becomes of a lease that is replaced.                               *)
LEMMA ReplacedLease ==
    ASSUME NEW r \in ProviderRecord, NEW e \in ProviderRecord, Replaces(e, r), r.signed
    PROVE  e.epoch >= r.epoch /\ (e.signed \/ e.epoch > r.epoch)
BY DEF Replaces, ProviderRecord

(* A signed lease that is in the file as well only gives way to a later    *)
(* one or to its end.                                                      *)
THEOREM SignedLeasesAlwaysStand == StorageSpec => SignedLeasesStand
<1> DEFINE Stands ==
        \A r \in availability \cap files.availability : r.signed =>
            \/ r \in availability'
            \/ \E s \in availability' : SameShard(s, r) /\ s.epoch >= r.epoch
                                        /\ (s.signed \/ s.epoch > r.epoch)
            \/ \E time \in PruneTimes : time >= r.expires /\ PruneProviders(time)
<1>1. ASSUME StorageInv, [StorageNext]_storageVars
      PROVE  Stands
  <2> SUFFICES ASSUME NEW r \in availability \cap files.availability, r.signed,
                      r \notin availability'
               PROVE  \/ \E s \in availability' : SameShard(s, r) /\ s.epoch >= r.epoch
                                                  /\ (s.signed \/ s.epoch > r.epoch)
                      \/ \E time \in PruneTimes : time >= r.expires /\ PruneProviders(time)
    OBVIOUS
  <2>1. LeasesStep
    BY <1>1, StorageSteps DEF StorageStep
  <2>2. /\ r \in ProviderRecord /\ r.expires \in Nat
        /\ OneEach(availability) /\ OneEach(files.availability)
    BY <1>1 DEF StorageInv, DirectoryOK, ProviderRecord
  <2>3. ASSUME NEW d, r \in d, OneEach(d), NEW records \in SUBSET ProviderRecord,
               OneEach(records), availability' = Publish(d, records)
        PROVE  \E s \in availability' : SameShard(s, r) /\ s.epoch >= r.epoch
                                        /\ (s.signed \/ s.epoch > r.epoch)
    BY <2>2, <2>3, PublishCovers, ReplacedLease
  <2>4. CASE Publishes
    BY <2>2, <2>3, <2>4 DEF Publishes, DirectoryOK
  <2>5. CASE Restarts
    BY <2>2, <2>3, <2>5, LoadedIsSaved DEF Restarts, DirectoryOK
  <2>5a. ASSUME NEW offer \in Offers, PublishSigned(offer)
         PROVE  \E s \in availability' : SameShard(s, r) /\ s.epoch >= r.epoch
                                         /\ (s.signed \/ s.epoch > r.epoch)
    <3>1. /\ {offer} \in SUBSET ProviderRecord /\ OneEach({offer})
          /\ availability' = Publish(availability, {offer})
      BY <2>5a, OfferOK DEF DirectoryOK
    <3> QED
      BY <2>2, <2>3, <3>1
  <2>6. ASSUME NEW time \in PruneTimes, PruneProviders(time)
        PROVE  time >= r.expires
    <3>1. ~ (r.expires > time)
      BY <2>6 DEF PruneProviders, PruneExpired, IsActive
    <3> QED
      BY <2>2, <3>1, LeaseAssumption
  <2> QED
    BY <2>1, <2>4, <2>5, <2>5a, <2>6 DEF LeasesStep
<1>2. StorageInv /\ [StorageNext]_storageVars => [Stands]_storageVars
  BY <1>1
<1> HIDE DEF Stands
<1>3. StorageSpec => [][Stands]_storageVars
  BY <1>2, StorageInvInit, StorageInvNext, PTL DEF StorageSpec
<1> QED
  BY <1>3 DEF Stands, SignedLeasesStand

(* What is published covers what ran, if it counts for no less where it    *)
(* takes the place of that.                                                *)
LEMMA ActiveStay ==
    ASSUME NEW d \in SUBSET ProviderRecord, NEW records \in SUBSET ProviderRecord,
           OneEach(d), OneEach(records), clock \in Nat,
           \A r \in records : IsActive(r, clock), NEW segment,
           \A r \in d, e \in records :
               r.segment = segment /\ SameShard(e, r) /\ Replaces(e, r) => CountsFor(e, r)
    PROVE  \A r \in ActiveRecords(d, segment, clock) :
              \E e \in ActiveRecords(Publish(d, records), segment, clock) : Covers(e, r)
<1> SUFFICES ASSUME NEW r \in ActiveRecords(d, segment, clock)
             PROVE  \E e \in ActiveRecords(Publish(d, records), segment, clock) : Covers(e, r)
  OBVIOUS
<1>1. r \in d /\ r.segment = segment /\ IsActive(r, clock)
  BY DEF ActiveRecords
<1>2. CASE r \in Publish(d, records)
  <2>1. Covers(r, r) /\ r \in ActiveRecords(Publish(d, records), segment, clock)
    BY <1>1, <1>2 DEF Covers, CountsFor, ActiveRecords
  <2> QED
    BY <2>1
<1>3. CASE r \notin Publish(d, records)
  <2>1. PICK e \in records \cap Publish(d, records) : SameShard(e, r) /\ Replaces(e, r)
    BY <1>1, <1>3, PublishCovers
  <2>2. CountsFor(e, r) /\ IsActive(e, clock) /\ e.segment = segment /\ e.shard = r.shard
    BY <1>1, <2>1 DEF SameShard
  <2>3. Covers(e, r) /\ e \in ActiveRecords(Publish(d, records), segment, clock)
    BY <2>1, <2>2 DEF Covers, ActiveRecords
  <2> QED
    BY <2>3
<1> QED
  BY <1>2, <1>3

(* A lease of the daemon counts for no less than the one it takes the      *)
(* place of, which is an earlier one of its own.                           *)
LEMMA OwnCountForOwn ==
    ASSUME NEW r \in ProviderRecord, NEW e \in ProviderRecord, ~ e.signed,
           OwnSpeakTrue({e}), OwnSpeakTrue({r}), r.signed => r.epoch > 0,
           SameShard(e, r), Replaces(e, r)
    PROVE  CountsFor(e, r)
<1>1. e.epoch = 1 /\ e.storage /\ e.operator = OperatorOf[e.peer] /\ e.region = RegionOf[e.peer]
  BY DEF OwnSpeakTrue
<1>2. r.epoch \in Nat
  BY DEF ProviderRecord
<1>3. ~ r.signed
  BY <1>1, <1>2 DEF Replaces
<1>4. r.operator = OperatorOf[r.peer] /\ r.region = RegionOf[r.peer] /\ e.peer = r.peer
  BY <1>3 DEF OwnSpeakTrue, SameShard
<1> QED
  BY <1>1, <1>4 DEF CountsFor

(* The daemon's own leases run after a restart, or signed ones that count  *)
(* for no less are in their place.                                         *)
LEMMA OwnRun ==
    ASSUME StorageInv, NEW records \in SUBSET ProviderRecord, OneEach(records),
           \A r \in records : IsActive(r, clock), NEW o \in Objects, OwnLeasesQualify(o),
           LocalRecords(files.storage, o) \subseteq records
    PROVE  \A r \in LocalRecords(files.storage, o) :
              \E e \in ActiveRecords(Publish(files.availability, records),
                                     files.storage.objects[o].segment, clock) : Covers(e, r)
<1> DEFINE segment == files.storage.objects[o].segment
           d == files.availability
<1> SUFFICES ASSUME NEW r \in LocalRecords(files.storage, o)
             PROVE  \E e \in Publish(d, records) :
                        e.segment = segment /\ IsActive(e, clock) /\ Covers(e, r)
  BY DEF ActiveRecords
<1>1. r \in records /\ r.segment = segment /\ r.epoch = 1
  BY DEF LocalRecords, LocalRecord
<1>2. OneEach(d) /\ OwnSpeakTrue(d) /\ d \subseteq ProviderRecord
  BY DEF StorageInv, DirectoryOK
<1>3. CASE r \in Publish(d, records)
  BY <1>1, <1>3 DEF Covers, CountsFor
<1>4. CASE r \notin Publish(d, records)
  <2>1. PICK e \in d \cap Publish(d, records) : SameShard(e, r) /\ ~ Replaces(r, e)
    BY <1>1, <1>2, <1>4, PublishCovers
  <2>2. e.segment = segment /\ e.shard = r.shard
    BY <1>1, <2>1 DEF SameShard
  <2>3. CASE e.signed
    <3>1. IsActive(e, clock) /\ CountsFor(e, r)
      BY <2>1, <2>2, <2>3 DEF OwnLeasesQualify
    <3> QED
      BY <2>1, <2>2, <3>1 DEF Covers
  <2>4. CASE ~ e.signed
    <3>1. e.epoch = 1
      BY <1>2, <2>1, <2>4 DEF OwnSpeakTrue
    <3> QED
      BY <1>1, <2>1, <2>4, <3>1 DEF Replaces
  <2> QED
    BY <2>3, <2>4
<1> QED
  BY <1>3, <1>4

(* An object that is whole and available, in memory and in the file, stays *)
(* available unless time passes, leases are pruned ahead of time, shards   *)
(* are lost or a signed lease spoils it.                                   *)
THEOREM AvailabilityAlwaysLasts == StorageSpec => AvailabilityLasts
<1> DEFINE Lasts ==
        \A o \in Objects :
          /\ Whole(storage, o) /\ Whole(files.storage, o)
          /\ AvailableTarget(o) /\ OwnLeasesQualify(o)
          => \/ AvailableTarget(o)'
             \/ clock' > clock
             \/ \E time \in PruneTimes : time > clock /\ PruneProviders(time)
             \/ ~ Whole(storage, o)'
             \/ \E offer \in Offers : Spoils(offer, o) /\ PublishSigned(offer)
<1>1. ASSUME StorageInv, [StorageNext]_storageVars
      PROVE  Lasts
  <2> SUFFICES ASSUME NEW o \in Objects, AvailableTarget(o), Whole(storage, o),
                      Whole(files.storage, o), OwnLeasesQualify(o),
                      ~ (clock' > clock), Whole(storage, o)',
                      ~ (\E time \in PruneTimes : time > clock /\ PruneProviders(time)),
                      ~ (\E offer \in Offers : Spoils(offer, o) /\ PublishSigned(offer))
               PROVE  AvailableTarget(o)'
    OBVIOUS
  <2> DEFINE segment == storage.objects[o].segment
             segmentNext == storage'.objects[o].segment
             active == ActiveRecords(availability, segment, clock)
             activeNext == ActiveRecords(availability', segmentNext, clock)
  <2>1. /\ StoreStep /\ LeasesStep
        /\ clock' = clock \/ (clock' = clock + 1 /\ UNCHANGED availability)
    BY <1>1, StorageSteps DEF StorageStep
  <2>2. clock \in Nat /\ clock' = clock
    BY <1>1, <2>1, StorageTypes
  <2>3. /\ Stored(storage, o) /\ SatisfiesRequirement(active, storage.policy)
        /\ \A r \in active : Acceptable(storage, o, r)
        /\ Stored(files.storage, o)
    BY DEF AvailableTarget, Evidence, Whole
  <2>4. storage'.objects[o].held = Shards(storage'.policy) /\ Stored(storage', o)
    BY DEF Whole, Stored
  <2>5. /\ DirectoryOK(availability', storage', made')
        /\ storage'.policy \in StoragePolicies
    BY <1>1, <2>1, LeasesStepOK DEF StoreStep, StoreType
  <2>6. IsFiniteSet(activeNext)
    <3>1. activeNext \in SUBSET availability'
      BY DEF ActiveRecords
    <3> QED
      BY <2>5, <3>1, FS_Subset DEF DirectoryOK
  <2>7. ASSUME NEW r \in activeNext, ~ r.signed
        PROVE  Acceptable(storage', o, r)
    <3>1. r \in availability' /\ r.segment = segmentNext
      BY DEF ActiveRecords
    <3> QED
      BY <2>4, <2>5, <2>7, <3>1 DEF DirectoryOK, OwnFit, OwnSpeakTrue, Acceptable
  <2>8. ASSUME \A r \in activeNext : r.signed => Acceptable(storage', o, r),
               SatisfiesRequirement(activeNext, storage'.policy)
        PROVE  AvailableTarget(o)'
    <3>1. \A r \in activeNext : Acceptable(storage', o, r)
      BY <2>7, <2>8
    <3> QED
      BY <2>2, <2>4, <2>8, <3>1 DEF AvailableTarget, Evidence, Stored, Acceptable
  <2>9. /\ OneEach(availability) /\ OneEach(files.availability) /\ OwnSpeakTrue(availability)
        /\ availability \in SUBSET ProviderRecord /\ files.availability \in SUBSET ProviderRecord
    BY <1>1 DEF StorageInv, DirectoryOK
  <2>10. ASSUME storage'.policy = storage.policy, segmentNext = segment,
                \A r \in availability' : r.signed => r \in availability \/ Acceptable(storage, o, r)
                                                   \/ r.segment # segment,
                \A r \in active : \E e \in activeNext : Covers(e, r)
         PROVE  AvailableTarget(o)'
    <3>1. SatisfiesRequirement(activeNext, storage'.policy)
      BY <2>3, <2>5, <2>6, <2>10, CoveringSatisfies
    <3>2. ASSUME NEW r \in activeNext, r.signed
          PROVE  Acceptable(storage', o, r)
      <4>1. r \in availability' /\ r.segment = segment /\ IsActive(r, clock)
        BY <2>10 DEF ActiveRecords
      <4>2. Acceptable(storage, o, r)
        BY <2>3, <2>10, <3>2, <4>1 DEF ActiveRecords
      <4>3. storage.objects[o].held = Shards(storage.policy)
        BY DEF Whole
      <4> QED
        BY <2>4, <2>10, <4>2, <4>3 DEF Acceptable
    <3> QED
      BY <2>8, <3>1, <3>2
  <2>11. CASE KeepsStored(storage, storage') /\
              (\/ UNCHANGED availability
               \/ Publishes
               \/ \E offer \in Offers : PublishSigned(offer)
               \/ \E time \in PruneTimes : PruneProviders(time))
    <3>1. storage'.policy = storage.policy /\ segmentNext = segment
      BY <2>3, <2>11 DEF KeepsStored
    <3>2. CASE UNCHANGED availability
      <4>1. \A r \in active : Covers(r, r) /\ r \in activeNext
        BY <3>1, <3>2 DEF Covers, CountsFor
      <4> QED
        BY <2>10, <3>1, <3>2, <4>1
    <3>3. CASE Publishes
      <4>1. PICK records \in SUBSET ProviderRecord :
                /\ OneEach(records) /\ OwnSpeakTrue(records)
                /\ \A r \in records : ~ r.signed /\ IsActive(r, clock)
                /\ availability' = Publish(availability, records)
        BY <3>3 DEF Publishes, DirectoryOK
      <4>2. ASSUME NEW r \in availability, NEW e \in records, r.segment = segment,
                   SameShard(e, r), Replaces(e, r)
            PROVE  CountsFor(e, r)
        <5>1. r \in ProviderRecord /\ e \in ProviderRecord /\ ~ e.signed
          BY <2>9, <4>1
        <5>2. OwnSpeakTrue({e}) /\ OwnSpeakTrue({r})
          BY <2>9, <4>1 DEF OwnSpeakTrue
        <5>3. files.storage.objects[o].segment = segment
          BY <1>1, <2>3 DEF StorageInv, KeepsStored
        <5>4. r.signed => r.epoch > 0
          BY <4>2, <5>3 DEF OwnLeasesQualify
        <5> QED
          BY <4>2, <5>1, <5>2, <5>4, OwnCountForOwn
      <4>3. \A r \in active : \E e \in activeNext : Covers(e, r)
        BY <2>2, <2>9, <3>1, <4>1, <4>2, ActiveStay
      <4>4. \A r \in availability' : r.signed => r \in availability
        BY <4>1 DEF Publish
      <4> QED
        BY <2>10, <3>1, <4>3, <4>4
    <3>4. ASSUME NEW offer \in Offers, PublishSigned(offer)
          PROVE  AvailableTarget(o)'
      <4>1. /\ {offer} \in SUBSET ProviderRecord /\ OneEach({offer}) /\ IsActive(offer, clock)
            /\ availability' = Publish(availability, {offer})
        BY <3>4, OfferOK DEF DirectoryOK
      <4>2. offer.segment = segment =>
                /\ Acceptable(storage, o, offer)
                /\ \A r \in availability : SameShard(offer, r) => CountsFor(offer, r)
        BY <3>4 DEF Spoils
      <4>3. \A r \in availability, e \in {offer} :
                r.segment = segment /\ SameShard(e, r) /\ Replaces(e, r) => CountsFor(e, r)
        BY <4>2 DEF SameShard
      <4>4. \A r \in active : \E e \in activeNext : Covers(e, r)
        BY <2>2, <2>9, <3>1, <4>1, <4>3, ActiveStay
      <4>5. \A r \in availability' : r \in availability \/ r = offer
        BY <4>1 DEF Publish
      <4> QED
        BY <2>10, <3>1, <4>2, <4>4, <4>5
    <3>5. ASSUME NEW time \in PruneTimes, PruneProviders(time)
          PROVE  AvailableTarget(o)'
      <4>1. ~ (time > clock) /\ time \in Nat
        BY <3>5, LeaseAssumption
      <4>2. availability' = PruneExpired(availability, time)
        BY <3>5 DEF PruneProviders
      <4>3. \A r \in availability : r.expires \in Nat
        BY <2>9 DEF ProviderRecord
      <4>4. active \subseteq activeNext
        BY <2>2, <3>1, <4>1, <4>2, <4>3 DEF PruneExpired, ActiveRecords, IsActive
      <4>5. \A r \in active : Covers(r, r)
        BY DEF Covers, CountsFor
      <4>6. \A r \in availability' : r \in availability
        BY <4>2 DEF PruneExpired
      <4> QED
        BY <2>10, <3>1, <4>4, <4>5, <4>6
    <3> QED
      BY <2>11, <3>2, <3>3, <3>4, <3>5
  <2>12. CASE Restarts
    <3>1. PICK records \in SUBSET ProviderRecord :
              /\ OneEach(records) /\ \A r \in records : ~ r.signed /\ IsActive(r, clock)
              /\ LocalRecords(files.storage, o) \subseteq records
              /\ availability' = Publish(files.availability, records)
      BY <2>3, <2>12, LoadedIsSaved DEF Restarts, DirectoryOK
    <3>2. /\ storage'.policy = files.storage.policy
          /\ storage'.objects = files.storage.objects
      BY <2>12 DEF Restarts, FromSnapshot
    <3>3. \A r \in LocalRecords(files.storage, o) : \E e \in activeNext : Covers(e, r)
      BY <1>1, <3>1, <3>2, OwnRun
    <3>4. SatisfiesRequirement(LocalRecords(files.storage, o), storage'.policy)
      BY <3>2 DEF OwnLeasesQualify
    <3>5. SatisfiesRequirement(activeNext, storage'.policy)
      BY <2>5, <2>6, <3>3, <3>4, CoveringSatisfies
    <3>6. ASSUME NEW r \in activeNext, r.signed
          PROVE  Acceptable(storage', o, r)
      <4>1. /\ r \in files.availability /\ IsActive(r, clock)
            /\ r.segment = files.storage.objects[o].segment
        BY <3>1, <3>2, <3>6 DEF ActiveRecords, Publish
      <4>2. Acceptable(files.storage, o, r)
        BY <3>6, <4>1 DEF OwnLeasesQualify
      <4> QED
        BY <3>2, <4>2 DEF Acceptable
    <3> QED
      BY <2>8, <3>5, <3>6
  <2> QED
    BY <2>1, <2>11, <2>12 DEF LeasesStep
<1>2. StorageInv /\ [StorageNext]_storageVars => [Lasts]_storageVars
  BY <1>1
<1> HIDE DEF Lasts
<1>3. StorageSpec => [][Lasts]_storageVars
  BY <1>2, StorageInvInit, StorageInvNext, PTL DEF StorageSpec
<1> QED
  BY <1>3 DEF Lasts, AvailabilityLasts
-----------------------------------------------------------------------------
(* The nodes it knows. *)

PeerRecord == [descriptor: Descriptors, first: Nat, last: Nat, expires: Nat]

NodeStoreType == [listen: SUBSET Addresses, known: [Peers -> PeerRecord]]

NodeTypeOK == node \in NodeStoreType /\ nodeFile \in NodeStoreType /\ now \in Nat \ {0}

(* A node that is registered has its type, and is known if it was.         *)
LEMMA RegisterPeerType ==
    ASSUME NodeTypeOK, NEW p \in Peers, NEW descriptor \in Descriptors, NEW expires \in Nat
    PROVE  LET new == RegisterPeer(node, p, descriptor, expires)
           IN  /\ new \in NodeStoreType
               /\ \A q \in Peers \ {p} : new.known[q] = node.known[q]
               /\ IsKnown(node, p) => /\ new.known[p].first = node.known[p].first
                                      /\ node.known[p].expires # Never => new.known[p].expires # Never
<1> DEFINE record == IF IsKnown(node, p) THEN Registered(node.known[p], descriptor, expires)
                     ELSE [descriptor |-> descriptor, first |-> now, last |-> now,
                           expires |-> expires]
           known == [node.known EXCEPT ![p] = record]
           new == RegisterPeer(node, p, descriptor, expires)
<1>1. node.known \in [Peers -> PeerRecord] /\ node.known[p] \in PeerRecord /\ now \in Nat
  BY DEF NodeTypeOK, NodeStoreType
<1>2. record \in PeerRecord
  BY <1>1 DEF Registered, PeerRecord
<1>3. IsKnown(node, p) => /\ record.first = node.known[p].first
                          /\ node.known[p].expires # Never => record.expires # Never
  BY <1>1 DEF Registered
<1>4. new = [node EXCEPT !.known = known]
  BY <1>1 DEF RegisterPeer, NodeTypeOK, NodeStoreType
<1> HIDE DEF record
<1>5. known \in [Peers -> PeerRecord] /\ known[p] = record
      /\ \A q \in Peers \ {p} : known[q] = node.known[q]
  BY <1>1, <1>2
<1> HIDE DEF known
<1>6. new \in NodeStoreType /\ new.known = known
  BY <1>4, <1>5 DEF NodeTypeOK, NodeStoreType
<1> QED
  BY <1>3, <1>5, <1>6

(* A step keeps the types, and of a node that expires it does not make one *)
(* that never does, unless an older file is loaded.                        *)
Expires(store, p) == IsKnown(store, p) /\ store.known[p].expires # Never

LEMMA NodeStep ==
    ASSUME NodeTypeOK, [NodeNext]_nodeVars
    PROVE  /\ NodeTypeOK'
           /\ NodeRestart \/ \A p \in Peers : Expires(node, p) =>
                                Expires(node', p) \/ ~ IsKnown(node', p)
<1> DEFINE Goal == /\ NodeTypeOK'
                   /\ NodeRestart \/ \A p \in Peers : Expires(node, p) =>
                                        Expires(node', p) \/ ~ IsKnown(node', p)
<1>1. ASSUME NEW p, NEW descriptor \in Descriptors, NEW expires \in Nat, p \in Peers,
             Register(p, descriptor, expires)
      PROVE  Goal
  <2> DEFINE new == RegisterPeer(node, p, descriptor, expires)
  <2>1. node' = new /\ nodeFile' \in {nodeFile, new} /\ now' = now
    BY <1>1 DEF Register, Saving
  <2>2. /\ new \in NodeStoreType
        /\ \A q \in Peers \ {p} : new.known[q] = node.known[q]
        /\ IsKnown(node, p) => /\ new.known[p].first = node.known[p].first
                               /\ node.known[p].expires # Never => new.known[p].expires # Never
    BY <1>1, RegisterPeerType
  <2> HIDE DEF new
  <2>3. NodeTypeOK'
    BY <2>1, <2>2 DEF NodeTypeOK
  <2>4. \A q \in Peers : Expires(node, q) => Expires(node', q)
    BY <2>1, <2>2 DEF Expires, IsKnown
  <2> QED
    BY <2>3, <2>4
<1>2. ASSUME NEW address \in Addresses, Listen(address)
      PROVE  Goal
  <2>1. node' = [node EXCEPT !.listen = @ \cup {address}]
        /\ nodeFile' \in {nodeFile, node'} /\ now' = now
    BY <1>2 DEF Listen, AddListenAddress, Saving
  <2>2. node' \in NodeStoreType /\ node'.known = node.known
    BY <2>1 DEF NodeTypeOK, NodeStoreType
  <2> QED
    BY <2>1, <2>2 DEF NodeTypeOK, Expires, IsKnown
<1>3. ASSUME NEW p \in Peers, Bootstrap(p)
      PROVE  Goal
  BY <1>1, <1>3, NodeAssumption DEF Bootstrap, Never
<1>4. ASSUME NEW p \in Peers, NEW d \in Descriptors, PeerAdd(p, d)
      PROVE  Goal
  BY <1>1, <1>4 DEF PeerAdd, Never
<1>5. ASSUME NEW a \in Announcements, RegisterSigned(a)
      PROVE  Goal
  <2>1. Register(a.peer, a.descriptor, a.expires) /\ a.descriptor \in Descriptors
        /\ a.expires \in Nat /\ a.peer \in Peers
    BY <1>5, NodeAssumption DEF RegisterSigned, Register, MayRegister
  <2> QED
    BY <1>1, <2>1
<1>6. ASSUME NEW t \in PeerPruneTimes, PrunePeers(t)
      PROVE  Goal
  <2> DEFINE known == [p \in Peers |-> IF IsActivePeer(node.known[p], t) THEN node.known[p]
                                       ELSE NoPeer]
  <2>1. node' = [node EXCEPT !.known = known]
        /\ nodeFile' \in {nodeFile, node'} /\ now' = now
    BY <1>6 DEF PrunePeers, Saving, NodeTypeOK, NodeStoreType
  <2>2. known \in [Peers -> PeerRecord]
    <3>1. NoPeer \in PeerRecord
      BY NodeAssumption DEF NoPeer, PeerRecord, Never
    <3> QED
      BY <3>1 DEF NodeTypeOK, NodeStoreType
  <2>3. \A p \in Peers : known[p] = node.known[p] \/ known[p].first = 0
    BY DEF NoPeer
  <2> HIDE DEF known
  <2>4. node' \in NodeStoreType /\ node'.known = known
    BY <2>1, <2>2 DEF NodeTypeOK, NodeStoreType
  <2> QED
    BY <2>1, <2>3, <2>4 DEF NodeTypeOK, Expires, IsKnown
<1>7. CASE NodeRestart
  BY <1>7 DEF NodeRestart, NodeTypeOK
<1>8. CASE SetClock \/ UNCHANGED nodeVars
  <2>1. node' = node /\ nodeFile' = nodeFile /\ now' \in Nat \ {0}
    BY <1>8, NodeAssumption DEF SetClock, nodeVars, NodeTypeOK
  <2> QED
    BY <2>1 DEF NodeTypeOK
<1> QED
  BY <1>2, <1>3, <1>4, <1>5, <1>6, <1>7, <1>8 DEF NodeNext

(* A peer that was learned from a signed announcement stays one that       *)
(* expires, however often it is added by hand and saved.                   *)
THEOREM ExpiringAlwaysStay == NodeSpec => ExpiringPeersStayExpiring
<1> DEFINE Stay ==
        \A p \in Peers :
          LET expires(store) == IsKnown(store, p) /\ store.known[p].expires # Never
          IN  expires(node) /\ ~ NodeRestart =>
                  \/ expires(node')
                  \/ ~ IsKnown(node', p)
<1>1. NodeInit => NodeTypeOK
  <2> SUFFICES ASSUME NodeInit PROVE NodeTypeOK
    OBVIOUS
  <2>1. NoPeer \in PeerRecord
    BY NodeAssumption DEF NoPeer, PeerRecord, Never
  <2> QED
    BY <2>1 DEF NodeInit, EmptyNode, NodeTypeOK, NodeStoreType
<1>2. NodeTypeOK /\ [NodeNext]_nodeVars => NodeTypeOK' /\ [Stay]_nodeVars
  BY NodeStep DEF Expires
<1> HIDE DEF Stay
<1>3. NodeSpec => [][Stay]_nodeVars
  BY <1>1, <1>2, PTL DEF NodeSpec
<1> QED
  BY <1>3 DEF Stay, ExpiringPeersStayExpiring
-----------------------------------------------------------------------------
(* CollaborationLog.  The log only grows, and the file is its beginning:   *)
(* what was there when a client was answered is in its place for ever.     *)

AllEvents ==
    {EventAt(content, at) : content \in Contents, at \in Nat}
    \cup {signed.event : signed \in SignedEvents}
    \cup {SampleEvents[k] : k \in 1..4}

Begins(short, long) ==
    Len(short) <= Len(long) /\ \A k \in 1..Len(short) : long[k] = short[k]

NumbersOfFile ==
    \A n \in numbered : n[1] \in ToSet(eventFile) /\ NumberOf(eventFile, n[1]) = n[2]

CollabInv ==
    /\ events \in Seq(AllEvents) /\ eventFile \in Seq(AllEvents) /\ second \in Nat
    /\ IsInjective(events)
    /\ Begins(eventFile, events)
    /\ NumbersOfFile

(* Inserting an event keeps the others in their places, and none comes     *)
(* twice.                                                                  *)
LEMMA InsertGrows ==
    ASSUME NEW E, NEW log \in Seq(E), NEW event \in E, IsInjective(log)
    PROVE  /\ Insert(log, event) \in Seq(E)
           /\ IsInjective(Insert(log, event))
           /\ Begins(log, Insert(log, event))
<1>1. CASE event \in ToSet(log)
  BY <1>1 DEF Insert, Begins
<1>2. CASE event \notin ToSet(log)
  <2>1. Insert(log, event) = Append(log, event)
    BY <1>2 DEF Insert
  <2>2. \A k \in 1..Len(log) : log[k] # event
    BY <1>2 DEF ToSet
  <2> QED
    BY <2>1, <2>2 DEF IsInjective, Begins
<1> QED
  BY <1>1, <1>2

(* What begins a log begins every longer one.                              *)
LEMMA BeginsTransitive ==
    ASSUME NEW E, NEW a \in Seq(E), NEW b \in Seq(E), NEW c \in Seq(E),
           Begins(a, b), Begins(b, c)
    PROVE  Begins(a, c)
BY DEF Begins

(* So do the samples.                                                      *)
LEMMA SeededGrows ==
    ASSUME NEW log \in Seq(AllEvents), IsInjective(log)
    PROVE  /\ Seeded(log) \in Seq(AllEvents)
           /\ IsInjective(Seeded(log))
           /\ Begins(log, Seeded(log))
<1>1. \A k \in 1..4 : SampleEvents[k] \in AllEvents
  BY DEF AllEvents
<1>2. \A l \in Seq(AllEvents) : \A k \in 1..4 : IsInjective(l) =>
          LET m == Insert(l, SampleEvents[k])
          IN  m \in Seq(AllEvents) /\ IsInjective(m) /\ Begins(l, m)
  BY <1>1, InsertGrows
<1> DEFINE a == Insert(log, SampleEvents[1])
           b == Insert(a, SampleEvents[2])
           c == Insert(b, SampleEvents[3])
           d == Insert(c, SampleEvents[4])
<1>3. a \in Seq(AllEvents) /\ IsInjective(a) /\ Begins(log, a)
  BY <1>2
<1> HIDE DEF a
<1>4. b \in Seq(AllEvents) /\ IsInjective(b) /\ Begins(a, b)
  BY <1>2, <1>3
<1> HIDE DEF b
<1>5. c \in Seq(AllEvents) /\ IsInjective(c) /\ Begins(b, c)
  BY <1>2, <1>4
<1> HIDE DEF c
<1>6. d \in Seq(AllEvents) /\ IsInjective(d) /\ Begins(c, d)
  BY <1>2, <1>5
<1>7. Seeded(log) = d
  BY DEF Seeded, a, b, c
<1> HIDE DEF d
<1> QED
  BY <1>3, <1>4, <1>5, <1>6, <1>7, BeginsTransitive

(* The number of an event is decided by what comes before it.              *)
LEMMA NumberStays ==
    ASSUME NEW E, NEW short \in Seq(E), NEW long \in Seq(E),
           IsInjective(long), Begins(short, long), NEW event \in ToSet(short)
    PROVE  event \in ToSet(long) /\ NumberOf(long, event) = NumberOf(short, event)
<1> DEFINE counted(log) ==
        {k \in Summaries(log, event) : \E l \in DOMAIN log : k <= l /\ log[l] = event}
<1>1. DOMAIN short = 1..Len(short) /\ DOMAIN long = 1..Len(long)
      /\ Len(short) \in Nat /\ Len(long) \in Nat
  OBVIOUS
<1>2. PICK p \in 1..Len(short) : short[p] = event
  BY <1>1 DEF ToSet
<1>3. p \in 1..Len(long) /\ long[p] = event
  BY <1>1, <1>2 DEF Begins
<1>4. \A l \in 1..Len(long) : long[l] = event => l = p
  BY <1>1, <1>3 DEF IsInjective
<1>5. \A l \in 1..Len(short) : short[l] = event => l = p
  BY <1>1, <1>4 DEF Begins
<1>6. counted(long) = {k \in 1..p : long[k].repo = event.repo /\ long[k].kind = event.kind}
  BY <1>1, <1>3, <1>4 DEF Summaries
<1>7. counted(short) = {k \in 1..p : short[k].repo = event.repo /\ short[k].kind = event.kind}
  BY <1>1, <1>2, <1>5 DEF Summaries
<1>8. \A k \in 1..p : long[k] = short[k]
  BY <1>1, <1>2 DEF Begins
<1>9. counted(long) = counted(short)
  BY <1>6, <1>7, <1>8
<1> QED
  BY <1>1, <1>3, <1>9 DEF NumberOf, ToSet

(* A new event is the last of its kind.                                    *)
LEMMA NewestIsLast ==
    ASSUME NEW E, NEW log \in Seq(E), NEW event \in E, Insert(log, event) # log
    PROVE  /\ event \in ToSet(Insert(log, event))
           /\ NumberOf(Insert(log, event), event)
                = Cardinality(Summaries(Insert(log, event), event))
<1> DEFINE more == Append(log, event)
<1>1. Insert(log, event) = more
  BY DEF Insert
<1>2. Len(more) \in Nat /\ DOMAIN more = 1..Len(more) /\ Len(more) \in DOMAIN more
      /\ more[Len(more)] = event
  OBVIOUS
<1>3. {k \in Summaries(more, event) : \E l \in DOMAIN more : k <= l /\ more[l] = event}
        = Summaries(more, event)
  BY <1>2 DEF Summaries
<1> QED
  BY <1>1, <1>2, <1>3 DEF NumberOf, ToSet
(* An empty log has nothing to be numbered.                                *)
LEMMA CollabInvInit == CollabInit => CollabInv
BY DEF CollabInit, CollabInv, IsInjective, Begins, NumbersOfFile

(* A command that makes the log longer keeps what was numbered, in memory  *)
(* and, when it is saved, in the file.                                     *)
LEMMA GrowingKeepsNumbers ==
    ASSUME CollabInv, events' \in Seq(AllEvents), IsInjective(events'),
           Begins(events, events'), eventFile' \in Saving(eventFile, events')
    PROVE  /\ eventFile' \in Seq(AllEvents)
           /\ Begins(eventFile', events')
           /\ \A n \in numbered :
                 n[1] \in ToSet(eventFile') /\ NumberOf(eventFile', n[1]) = n[2]
<1>1. eventFile' = eventFile \/ eventFile' = events'
  BY DEF Saving
<1>2. Begins(eventFile, events')
  BY BeginsTransitive DEF CollabInv
<1>3. CASE eventFile' = eventFile
  BY <1>2, <1>3 DEF CollabInv, NumbersOfFile
<1>4. CASE eventFile' = events'
  <2>1. Begins(events', events')
    BY DEF Begins
  <2>2. \A n \in numbered :
           n[1] \in ToSet(events') /\ NumberOf(events', n[1]) = n[2]
    BY <1>2, NumberStays DEF CollabInv, NumbersOfFile
  <2> QED
    BY <1>4, <2>1, <2>2
<1> QED
  BY <1>1, <1>3, <1>4

(* Opening one issue or pull request.                                      *)
LEMMA OpenKeepsCollabInv ==
    ASSUME CollabInv, NEW event \in AllEvents, OpenEvent(event)
    PROVE  CollabInv'
<1>1. events' = Insert(events, event) /\ eventFile' \in Saving(eventFile, events') /\ second' = second
  BY DEF OpenEvent
<1>2. events' \in Seq(AllEvents) /\ IsInjective(events') /\ Begins(events, events')
  BY <1>1, InsertGrows DEF CollabInv
<1>3. /\ eventFile' \in Seq(AllEvents)
      /\ Begins(eventFile', events')
      /\ \A n \in numbered :
            n[1] \in ToSet(eventFile') /\ NumberOf(eventFile', n[1]) = n[2]
  BY <1>1, <1>2, GrowingKeepsNumbers
<1>4. NumbersOfFile'
  <2>1. CASE events' # events /\ eventFile' = events'
    <3>1. numbered' = numbered \cup {<<event, Cardinality(Summaries(events', event))>>}
      BY <2>1 DEF OpenEvent
    <3>2. /\ event \in ToSet(events')
          /\ NumberOf(events', event) = Cardinality(Summaries(events', event))
      BY <1>1, <2>1, NewestIsLast DEF CollabInv
    <3> QED
      BY <1>3, <2>1, <3>1, <3>2 DEF NumbersOfFile
  <2>2. CASE ~ (events' # events /\ eventFile' = events')
    BY <1>3, <2>2 DEF OpenEvent, NumbersOfFile
  <2> QED
    BY <2>1, <2>2
<1> QED
  BY <1>1, <1>2, <1>3, <1>4 DEF CollabInv

(* Every step keeps the invariant: a restart takes the beginning of the    *)
(* log that the file has, and all that was numbered is in it.              *)
LEMMA CollabInvNext == CollabInv /\ [CollabNext]_collabVars => CollabInv'
<1> SUFFICES ASSUME CollabInv, [CollabNext]_collabVars
             PROVE  CollabInv'
  OBVIOUS
<1>1. ASSUME NEW content \in Contents, Open(content)
      PROVE  CollabInv'
  BY <1>1, OpenKeepsCollabInv DEF Open, AllEvents, CollabInv
<1>2. ASSUME NEW signed \in SignedEvents, OpenSigned(signed)
      PROVE  CollabInv'
  BY <1>2, OpenKeepsCollabInv DEF OpenSigned, AllEvents
<1>3. CASE SeedSamples
  <2>1. events' = Seeded(events) /\ eventFile' \in Saving(eventFile, events')
        /\ numbered' = numbered /\ second' = second
    BY <1>3 DEF SeedSamples
  <2>2. events' \in Seq(AllEvents) /\ IsInjective(events') /\ Begins(events, events')
    BY <2>1, SeededGrows DEF CollabInv
  <2>3. /\ eventFile' \in Seq(AllEvents)
        /\ Begins(eventFile', events')
        /\ \A n \in numbered :
              n[1] \in ToSet(eventFile') /\ NumberOf(eventFile', n[1]) = n[2]
    BY <2>1, <2>2, GrowingKeepsNumbers
  <2> QED
    BY <2>1, <2>2, <2>3 DEF CollabInv, NumbersOfFile
<1>4. CASE CollabRestart
  <2>1. events' = eventFile /\ eventFile' = eventFile /\ numbered' = numbered /\ second' = second
        /\ IsInjective(eventFile)
    BY <1>4 DEF CollabRestart, ReloadEvents, EventsLoad
  <2> QED
    BY <2>1 DEF CollabInv, NumbersOfFile, Begins
<1>5. CASE NextSecond
  BY <1>5 DEF NextSecond, CollabInv, NumbersOfFile
<1>6. CASE UNCHANGED collabVars
  BY <1>6 DEF collabVars, CollabInv, NumbersOfFile
<1> QED
  BY <1>1, <1>2, <1>3, <1>4, <1>5, <1>6 DEF CollabNext

(* However often an event is sent and whichever saves fail, the file has   *)
(* no event twice, so that its loader takes it.                            *)
THEOREM EventFileAlwaysLoads == CollabSpec => []EventFileLoads
<1>1. CollabInv => EventFileLoads
  BY DEF CollabInv, EventFileLoads, EventsLoad, IsInjective, Begins
<1> QED
  BY <1>1, CollabInvInit, CollabInvNext, PTL DEF CollabSpec

(* The number that a new issue or pull request was answered with is its    *)
(* number for ever.                                                        *)
THEOREM NumbersAlwaysStand == CollabSpec => []NumbersStand
<1>1. CollabInv => NumbersStand
  BY NumberStays DEF CollabInv, NumbersOfFile, NumbersStand
<1> QED
  BY <1>1, CollabInvInit, CollabInvNext, PTL DEF CollabSpec
=============================================================================

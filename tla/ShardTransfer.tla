---------------------------- MODULE ShardTransfer ----------------------------
(***************************************************************************)
(* The shards of one segment at storage peers (gitmesh-storage over the    *)
(* NetworkTransport of gitmesh-network): an uploader that plans where they *)
(* go, stores and announces them, and repairers that audit the providers,  *)
(* rebuild what is missing or corrupt and announce who holds it now.       *)
(*                                                                         *)
(* Every request is a step of its own: between two of them a shard is lost *)
(* or spoilt, a peer goes away or comes back, and the other clients run.   *)
(* A shard that is put is the right one: it is cut from the segment or     *)
(* rebuilt from DataShards shards that were verified.                      *)
(***************************************************************************)
EXTENDS AvailabilityDirectory, Sequences, FiniteSetsExt

CONSTANTS
    StoragePeers,    \* the peers with the storage role, numbers: they are ordered by id
    DataShards, ParityShards,
    MinRegions,      \* min_distinct_regions of the storage policy
    Repairers,       \* the clients that repair, each once
    EpochOf,         \* the lease epoch a repairer announces, one of its own; the uploader's is 1
    LeaseEnd,        \* when leases of an epoch end
    MaxHour,         \* bound on the clock
    MaxFaults        \* bound on how often a shard or a peer fails

ASSUME TransferAssumption ==
    /\ StoragePeers \subseteq Nat /\ IsFiniteSet(StoragePeers)
    /\ DataShards \in Nat \ {0} /\ ParityShards \in Nat \ {0}
    /\ \A r \in Repairers : EpochOf[r] \in Nat \ {0, 1}
    /\ \A r, s \in Repairers : EpochOf[r] = EpochOf[s] => r = s

VARIABLES
    swarm,       \* [up, held, receipts]: the peers that answer, what each holds, its receipts
    directory,   \* the provider records of the segment at the directory peer, oldest first
    upload,      \* [at, plan, next]: the uploader
    repair,      \* [at, ...]: each repairer
    hour,        \* now_unix
    faults       \* how many there were

transferVars == <<swarm, directory, upload, repair, hour, faults>>

ShardIndexes == 0..(DataShards + ParityShards - 1)

(* ShardEnvelope::verify: the bytes are those of the shard's content id.   *)
Intact(p, i) == swarm.held[p][i] = "valid"

Holds(p, i) == p \in swarm.up /\ Intact(p, i)

(* A shard is verified against the segment, its peer must answer.          *)
AuditShard(p, i) == IF p \in swarm.up THEN swarm.held[p][i] ELSE "missing"

(* Who uploads or repairs announces a shard with its own cid and index, of *)
(* a storage peer with its own operator and region, all of them fixed by i *)
(* and p here.                                                             *)
Record(i, p, epoch) ==
    [segment |-> 1, shard |-> i, peer |-> p, epoch |-> epoch,
     expires |-> LeaseEnd[epoch], signed |-> FALSE]

(* PublishProvider: InMemoryAvailabilityDirectory keeps the place of the   *)
(* record that is replaced.                                                *)
Published(records, r) ==
    IF \E k \in DOMAIN records : SameShard(records[k], r)
    THEN [k \in DOMAIN records |->
             IF SameShard(records[k], r) /\ Replaces(r, records[k]) THEN r ELSE records[k]]
    ELSE Append(records, r)

(* The n-th of a set of numbers                                            *)
Nth(set, n) == CHOOSE k \in set : Cardinality({l \in set : l < k}) = n - 1

(* The directory answers with the records that are active, in their order. *)
ActiveAt(records, now) ==
    LET active == {k \in DOMAIN records : IsActive(records[k], now)}
    IN  [n \in 1..Cardinality(active) |-> records[Nth(active, n)]]

(* The peer also publishes a lease into a directory of its own, which      *)
(* neither an upload, an audit nor a repair reads.                         *)
PutShard(p, i) == [swarm EXCEPT !.held[p][i] = "valid"]

-----------------------------------------------------------------------------
(* Where the shards go. *)

\* Peers of one operator count as independent.
FirstOfOperator_Bug(peers) == peers

(* require_distinct_operator_per_shard, which placement_policy always sets *)
FirstOfOperator(peers) ==
    {p \in peers : \A q \in peers : OperatorOf[q] = OperatorOf[p] => p <= q}

(* plan_shard_placement takes the peers in the order of their ids: it does *)
(* not look for others when those are of too few regions.                  *)
PlanShardPlacement(peers) ==
    LET candidates == FirstOfOperator(peers)
    IN  [n \in 1..Min({Cardinality(candidates), DataShards + ParityShards}) |->
            Nth(candidates, n)]

Placed(plan) ==
    /\ Len(plan) = DataShards + ParityShards
    /\ Cardinality({RegionOf[plan[k]] : k \in DOMAIN plan}) >= MinRegions

-----------------------------------------------------------------------------
(* The uploader: plan_and_distribute_shards, publish_providers_via_transport. *)

UploadPlan ==
    /\ upload.at = "idle"
    /\ Placed(PlanShardPlacement(swarm.up))
    /\ upload' = [at |-> "put", plan |-> PlanShardPlacement(swarm.up), next |-> 1]
    /\ UNCHANGED <<swarm, directory, repair, hour, faults>>

(* handle_idempotent: the transaction id of a put names the shard and its  *)
(* lease, and a peer with a receipt for it answers without storing.        *)
PutOnce(p, i) ==
    IF <<p, i>> \in swarm.receipts THEN swarm
    ELSE [PutShard(p, i) EXCEPT !.receipts = @ \cup {<<p, i>>}]

UploadPut ==
    LET p == upload.plan[upload.next]
        i == upload.next - 1
    IN  /\ upload.at = "put"
        /\ IF p \in swarm.up
           THEN /\ swarm' = PutOnce(p, i)
                /\ upload' = IF upload.next < Len(upload.plan)
                             THEN [upload EXCEPT !.next = @ + 1]
                             ELSE [upload EXCEPT !.at = "publish", !.next = 1]
           ELSE /\ upload' = [upload EXCEPT !.at = "idle"]
                /\ UNCHANGED swarm
        /\ UNCHANGED <<directory, repair, hour, faults>>

UploadPublish ==
    /\ upload.at = "publish"
    /\ directory' = Published(directory, Record(upload.next - 1, upload.plan[upload.next], 1))
    /\ upload' = IF upload.next < Len(upload.plan) THEN [upload EXCEPT !.next = @ + 1]
                 ELSE [upload EXCEPT !.at = "done"]
    /\ UNCHANGED <<swarm, repair, hour, faults>>

-----------------------------------------------------------------------------
(* repair_shards_via_transport. *)

NotStarted ==
    [at |-> "idle", now |-> 0, providers |-> <<>>, others |-> {}, next |-> 1,
     found |-> {}, before |-> {}, checked |-> 0, targets |-> {}, tried |-> "nothing",
     faults |-> 0]

Step(c, new) == repair' = [repair EXCEPT ![c] = new]

AtLast(r) == r.next = Len(r.providers)

(* A request names the providers, here those discovered at the directory   *)
(* or those of the finished upload, and the peers that may replace one.    *)
RepairBegin(c) ==
    /\ repair[c].at = "idle"
    /\ \E providers \in {ActiveAt(directory, hour)} \cup
              (IF upload.at = "done"
               THEN {[k \in DOMAIN upload.plan |-> Record(k - 1, upload.plan[k], 1)]} ELSE {}) :
          Step(c, [NotStarted EXCEPT !.at = IF providers = <<>> THEN "failed" ELSE "audit",
                                     !.now = hour, !.providers = providers,
                                     !.others = swarm.up, !.faults = faults])
    /\ UNCHANGED <<swarm, directory, upload, hour, faults>>

(* A valid copy of a shard outweighs a corrupt one, and that a missing one. *)
Indexes(audits, found) == {i \in ShardIndexes : <<i, found>> \in audits}
Verified(audits) == Indexes(audits, "valid")
Corrupt(audits)  == Indexes(audits, "corrupt") \ Verified(audits)
Missing(audits)  == Indexes(audits, "missing") \ (Verified(audits) \cup Corrupt(audits))

RepairNeeded(r) ==
    \/ Verified(r.found) # ShardIndexes
    \/ r.checked < DataShards + ParityShards

(* reconstruct_all_shards *)
Rebuildable(audits) == Cardinality(Verified(audits)) >= DataShards

\* What is still missing after the repair is audited and repaired again.
Concluded_Bug(r) ==
    CASE r.at = "check" /\ Verified(r.found) # ShardIndexes ->
             [r EXCEPT !.at = "audit", !.next = 1, !.found = {}]
      [] r.at = "check" /\ Verified(r.found) = ShardIndexes -> [r EXCEPT !.at = "done"]
      [] r.at = "audit" /\ ~ Rebuildable(r.found) -> [r EXCEPT !.at = "failed"]
      [] r.at = "audit" /\ Rebuildable(r.found) ->
             IF RepairNeeded(r)
             THEN [r EXCEPT !.at = "fetch", !.next = 1, !.before = r.found, !.found = {}]
             ELSE [r EXCEPT !.at = "unneeded"]

Concluded(r) ==
    CASE r.at = "check" -> [r EXCEPT !.at = "done"]
      [] r.at = "audit" /\ ~ Rebuildable(r.found) -> [r EXCEPT !.at = "failed"]
      [] r.at = "audit" /\ Rebuildable(r.found) ->
             IF RepairNeeded(r)
             THEN [r EXCEPT !.at = "fetch", !.next = 1, !.before = r.found, !.found = {}]
             ELSE [r EXCEPT !.at = "unneeded"]

(* audit_shards_via_transport, one provider after the other, before and    *)
(* after the repair                                                        *)
RepairAudit(c) ==
    LET r == repair[c]
        provider == r.providers[r.next]
        audit    == <<provider.shard, AuditShard(provider.peer, provider.shard)>>
        audited  == IF IsActive(provider, r.now)
                    THEN [r EXCEPT !.found = @ \cup {audit},
                                   !.checked = IF r.at = "audit" THEN @ + 1 ELSE @]
                    ELSE r
    IN  /\ r.at \in {"audit", "check"}
        /\ Step(c, IF AtLast(r) THEN Concluded(audited) ELSE [audited EXCEPT !.next = @ + 1])
        /\ UNCHANGED <<swarm, directory, upload, hour, faults>>

\* What is corrupt is taken for stored.
RepairTargets_Bug(r) == Missing(r.before)

RepairTargets(r) == Missing(r.before) \cup Corrupt(r.before)

(* What is left when every target is stored.  The lease of every provider  *)
(* is renewed, of those also that were not audited because theirs had run  *)
(* out.                                                                    *)
Stored(r, c) ==
    IF r.targets # {} THEN r
    ELSE [r EXCEPT !.at = "publish", !.next = 1,
                   !.providers = [k \in DOMAIN r.providers |->
                        Record(r.providers[k].shard, r.providers[k].peer, EpochOf[c])]]

(* fetch_shards_via_transport from every provider of a verified shard: one *)
(* that does not answer with it ends the repair, whoever else holds it.    *)
RepairFetch(c) ==
    LET r == repair[c]
        provider == r.providers[r.next]
        stale    == /\ provider.shard \in Verified(r.before) /\ IsActive(provider, r.now)
                    /\ ~ Holds(provider.peer, provider.shard)
    IN  /\ r.at = "fetch"
        /\ Step(c, CASE stale -> [r EXCEPT !.at = "failed"]
                     [] ~ stale /\ ~ AtLast(r) -> [r EXCEPT !.next = @ + 1]
                     [] ~ stale /\ AtLast(r) ->
                            Stored([r EXCEPT !.at = "store", !.targets = RepairTargets(r)], c))
        /\ UNCHANGED <<swarm, directory, upload, hour, faults>>

Places(r, i) == {k \in DOMAIN r.providers : r.providers[k].shard = i}

(* choose_repair_target: a peer that holds nothing yet, of a new operator  *)
(* if there is one; or else the old provider.                              *)
ChooseRepairTarget(r, fallback) ==
    LET used      == {r.providers[k].peer : k \in DOMAIN r.providers}
        operators == {OperatorOf[p] : p \in used}
        unused    == r.others \ used
        fresh     == {p \in unused : OperatorOf[p] \notin operators}
    IN  CASE fresh # {} -> Min(fresh)
          [] fresh = {} /\ unused # {} -> Min(unused)
          [] OTHER -> fallback

(* The preferred peer; then, when that fails, the old provider, or when    *)
(* that was it, another one.                                               *)
NextPeer(r, i, old) ==
    LET preferred == IF i \in Missing(r.before) THEN ChooseRepairTarget(r, old) ELSE old
    IN  CASE r.tried = "nothing" -> preferred
          [] r.tried = "preferred" /\ preferred # old -> old
          [] OTHER -> ChooseRepairTarget(r, old)

\* A failing put is tried again for ever.
Retried_Bug(r, i, old) == TRUE

(* One more attempt may follow a failure, at another peer.                 *)
Retried(r, i, old) ==
    r.tried = "nothing" /\ (NextPeer(r, i, old) # old \/ ChooseRepairTarget(r, old) # old)

(* store_repaired_shard for the next shard, in the order of the indexes.   *)
RepairStore(c) ==
    LET r   == repair[c]
        i   == Min(r.targets)
        old == r.providers[Max(Places(r, i))].peer     \* provider_by_index keeps the last
        p   == NextPeer(r, i, old)
    IN  /\ r.at = "store"
        /\ IF p \in swarm.up
           THEN /\ swarm' = PutShard(p, i)
                /\ Step(c, Stored([r EXCEPT
                       !.providers[Min(Places(r, i))] = Record(i, p, EpochOf[c]),
                       !.targets = @ \ {i}, !.tried = "nothing"], c))
           ELSE /\ Step(c, IF Retried(r, i, old) THEN [r EXCEPT !.tried = "preferred"]
                           ELSE [r EXCEPT !.at = "failed"])
                /\ UNCHANGED swarm
        /\ UNCHANGED <<directory, upload, hour, faults>>

(* publish_providers_via_transport *)
RepairPublish(c) ==
    LET r == repair[c]
    IN  /\ r.at = "publish"
        /\ directory' = Published(directory, r.providers[r.next])
        /\ Step(c, IF AtLast(r) THEN [r EXCEPT !.at = "check", !.next = 1]
                   ELSE [r EXCEPT !.next = @ + 1])
        /\ UNCHANGED <<swarm, upload, hour, faults>>

RepairStep(c) ==
    RepairAudit(c) \/ RepairFetch(c) \/ RepairStore(c) \/ RepairPublish(c)

-----------------------------------------------------------------------------
(* What happens to the peers meanwhile: remove_shard, corrupt_shard,       *)
(* remove_peer, add_peer of a peer as it was.                              *)

Fault(new) ==
    /\ faults < MaxFaults
    /\ faults' = faults + 1
    /\ swarm' = new
    /\ UNCHANGED <<directory, upload, repair, hour>>

RemoveShard(p, i) ==
    p \in swarm.up /\ swarm.held[p][i] # "missing" /\ Fault([swarm EXCEPT !.held[p][i] = "missing"])

CorruptShard(p, i) ==
    p \in swarm.up /\ Intact(p, i) /\ Fault([swarm EXCEPT !.held[p][i] = "corrupt"])

RemovePeer(p) == p \in swarm.up /\ Fault([swarm EXCEPT !.up = @ \ {p}])
AddPeer(p)    == p \notin swarm.up /\ Fault([swarm EXCEPT !.up = @ \cup {p}])

Hour ==
    /\ hour < MaxHour
    /\ hour' = hour + 1
    /\ UNCHANGED <<swarm, directory, upload, repair, faults>>

TransferInit ==
    /\ swarm = [up |-> StoragePeers, receipts |-> {},
                held |-> [p \in StoragePeers |-> [i \in ShardIndexes |-> "missing"]]]
    /\ directory = <<>>
    /\ upload = [at |-> "idle", plan |-> <<>>, next |-> 1]
    /\ repair = [c \in Repairers |-> NotStarted]
    /\ hour = 0
    /\ faults = 0

TransferNext ==
    \/ UploadPlan \/ UploadPut \/ UploadPublish
    \/ \E c \in Repairers : RepairBegin(c) \/ RepairStep(c)
    \/ \E p \in StoragePeers, i \in ShardIndexes : RemoveShard(p, i) \/ CorruptShard(p, i)
    \/ \E p \in StoragePeers : RemovePeer(p) \/ AddPeer(p)
    \/ Hour

(* A repair is one call of a function: it goes on when its requests are    *)
(* answered, which the transport always does, if only with an error.       *)
TransferFairness == \A c \in Repairers : WF_transferVars(RepairStep(c))

TransferSpec == TransferInit /\ [][TransferNext]_transferVars /\ TransferFairness

-----------------------------------------------------------------------------
(* Properties. *)

(* No two shards of an upload share the fate of one operator: with up to   *)
(* ParityShards of them gone, and a fault besides costing a shard at most, *)
(* the others hold what is left of the segment (docs/STORAGE.md, Placement). *)
OperatorsFailAlone ==
    upload.at \in {"publish", "done"} =>
        \A gone \in SUBSET {OperatorOf[p] : p \in StoragePeers} :
            Cardinality({i \in ShardIndexes :
                \E p \in StoragePeers : OperatorOf[p] \notin gone /\ Holds(p, i)})
            + Cardinality(gone) + faults >= DataShards + ParityShards

Quiet(r) == r.faults = faults

(* A repair that ends well while nothing failed, whoever else repairs the  *)
(* same segment meanwhile (docs/STORAGE.md:183), leaves every shard it     *)
(* asked a provider for at a provider it announces.                        *)
RepairedIsWhole ==
    \A c \in Repairers : LET r == repair[c] IN
        r.at = "done" /\ Quiet(r) =>
            \A audit \in r.before : \E k \in DOMAIN r.providers :
                r.providers[k].shard = audit[1] /\ Holds(r.providers[k].peer, audit[1])

(* And when it was given one provider for each shard, each with a lease    *)
(* that was running, every lease it renewed or made at the directory is of *)
(* a peer that holds the shard.                                            *)
RenewedLeasesAreHeld ==
    \A c \in Repairers : LET r == repair[c] IN
        /\ r.at = "done" /\ Quiet(r)
        /\ \A i \in ShardIndexes : Cardinality(Places(r, i)) <= 1
        /\ r.checked = Len(r.providers)
        => \A k \in DOMAIN directory :
              directory[k].epoch = EpochOf[c] => Holds(directory[k].peer, directory[k].shard)

(* No repair goes back to what it has done, whatever fails and whoever     *)
(* else repairs: it goes through its phases in their order, in each of     *)
(* them from provider to provider, while it stores from target to target,  *)
(* and tries two peers at most for each.                                   *)
Phases == <<"idle", "audit", "fetch", "store", "publish", "check", "over">>

Phase(r) == CHOOSE n \in DOMAIN Phases :
    Phases[n] = IF r.at \in {"done", "failed", "unneeded"} THEN "over" ELSE r.at

Further(new, r) ==
    \/ Phase(new) > Phase(r)
    \/ /\ new.at = r.at
       /\ CASE r.at \in {"audit", "fetch", "publish", "check"} ->
                   new.next = r.next + 1 /\ new.next <= Len(new.providers)
            [] r.at = "store" ->
                   \/ new.targets \subseteq r.targets /\ new.targets # r.targets
                   \/ new.targets = r.targets /\ r.tried = "nothing" /\ new.tried # "nothing"
            [] OTHER -> FALSE

RepairGoesForward ==
    [][\A c \in Repairers : repair'[c] # repair[c] => Further(repair'[c], repair[c])]_transferVars

(* Every repair ends, whatever fails while it runs.                        *)
RepairEnds ==
    \A c \in Repairers :
        repair[c].at = "audit" ~> repair[c].at \in {"done", "failed", "unneeded"}
=============================================================================

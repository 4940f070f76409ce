------------------------- MODULE ShardTransferProofs -------------------------
(***************************************************************************)
(* The peers hold the shards that uploads and repairs left there, but for  *)
(* those that faults account for, whoever repairs at the same time; and no *)
(* repair goes back to what it has done.                                   *)
(***************************************************************************)
EXTENDS ShardTransfer, FiniteSetTheorems, TLAPS

-----------------------------------------------------------------------------
(* Shards at peers that fail.  First, the least, the greatest and the n-th *)
(* of a finite set of numbers.                                             *)

(* A set of numbers has a least one.                                       *)
LEMMA LeastExists ==
    ASSUME NEW S \in SUBSET Nat, S # {}
    PROVE  \E m \in S : \A l \in S : m <= l
<1> DEFINE less == OpToRel(<, Nat)
<1>1. \E m \in S : \A l \in S : ~ (<<l, m>> \in less)
  BY NatLessThanWellFounded, WFMin
<1>2. \A l, m \in Nat : l < m => <<l, m>> \in less
  BY DEF OpToRel
<1> HIDE DEF less
<1>3. PICK m \in S : \A l \in S : <<l, m>> \notin less
  BY <1>1
<1>4. ASSUME NEW l \in S
      PROVE  m <= l
  <2>1. l \in Nat /\ m \in Nat
    OBVIOUS
  <2>2. ~ (l < m)
    BY <1>2, <1>3, <2>1
  <2> QED
    BY <2>1, <2>2
<1> QED
  BY <1>4

(* Min gives that least number.                                            *)
LEMMA MinIsLeast ==
    ASSUME NEW S \in SUBSET Nat, S # {}
    PROVE  Min(S) \in S /\ \A l \in S : Min(S) <= l
BY LeastExists DEF Min

(* What precedes a number in a finite set, and how many they are           *)
LEMMA BelowIsFinite ==
    ASSUME NEW S \in SUBSET Nat, IsFiniteSet(S), NEW k \in S
    PROVE  LET below == {l \in S : l < k}
           IN  /\ IsFiniteSet(below)
               /\ Cardinality(below) \in Nat
               /\ Cardinality(below) < Cardinality(S)
<1> DEFINE below == {l \in S : l < k}
<1>1. below \in SUBSET S /\ k \notin below
  OBVIOUS
<1> QED
  BY <1>1, FS_Subset, FS_CardinalityType

(* A finite set of numbers has a greatest one: the one that most precede.  *)
LEMMA GreatestExists ==
    ASSUME NEW S \in SUBSET Nat, IsFiniteSet(S), S # {}
    PROVE  \E m \in S : \A l \in S : l <= m
<1> DEFINE below(k) == {l \in S : l < k}
           size == [k \in S |-> Cardinality(below(k))]
           left == {Cardinality(S) - size[k] : k \in S}
<1>1. \A k \in S : k \in Nat /\ IsFiniteSet(below(k)) /\ size[k] = Cardinality(below(k))
  BY BelowIsFinite
<1>2. \A k \in S : size[k] \in Nat /\ size[k] < Cardinality(S)
  BY BelowIsFinite
<1>3. Cardinality(S) \in Nat
  BY FS_CardinalityType
<1> HIDE DEF size
<1>4. left \in SUBSET Nat /\ left # {}
  <2>1. \A k \in S : Cardinality(S) - size[k] \in Nat
    BY <1>2, <1>3
  <2> QED
    BY <2>1
<1>5. PICK m \in S : \A l \in left : Cardinality(S) - size[m] <= l
  BY <1>4, LeastExists
<1>6. \A l \in S : size[l] <= size[m]
  <2>1. \A l \in S : Cardinality(S) - size[m] <= Cardinality(S) - size[l]
    BY <1>5
  <2> QED
    BY <1>2, <1>3, <2>1
<1>7. ASSUME NEW l \in S, m < l
      PROVE  FALSE
  <2>1. m \notin below(m) /\ below(m) \cup {m} \in SUBSET below(l)
    <3>1. \A k \in S : k < m \/ k = m => k < l
      BY <1>1, <1>7
    <3>2. ~ (m < m)
      BY <1>1
    <3> QED
      BY <3>1, <3>2
  <2>2. Cardinality(below(m) \cup {m}) = size[m] + 1
    BY <1>1, <2>1, FS_AddElement
  <2>3. size[m] + 1 <= size[l]
    <3>1. Cardinality(below(m) \cup {m}) <= Cardinality(below(l))
      BY <1>1, <2>1, FS_Subset
    <3> QED
      BY <1>1, <2>2, <3>1
  <2> QED
    BY <1>2, <1>6, <2>3
<1>8. ASSUME NEW l \in S
      PROVE  l <= m
  BY <1>1, <1>7
<1> QED
  BY <1>8

(* So has a finite set of numbers.                                         *)
LEMMA MaxIsGreatest ==
    ASSUME NEW S \in SUBSET Nat, IsFiniteSet(S), S # {}
    PROVE  Max(S) \in S
<1>1. \A k, l \in S : l <= k <=> k >= l
  OBVIOUS
<1> QED
  BY <1>1, GreatestExists DEF Max

(* A set of at least n numbers has an n-th one.                            *)
LEMMA NthExists ==
    ASSUME NEW S \in SUBSET Nat, IsFiniteSet(S), NEW n \in 1..Cardinality(S)
    PROVE  Nth(S, n) \in S /\ Cardinality({l \in S : l < Nth(S, n)}) = n - 1
<1> DEFINE below(k) == {l \in S : l < k}
           size(k)  == Cardinality(below(k))
           enough   == {k \in S : size(k) >= n - 1}
<1>1. \A k \in S : IsFiniteSet(below(k)) /\ size(k) \in Nat
  BY BelowIsFinite
<1>2. Cardinality(S) \in Nat /\ S # {}
  BY FS_CardinalityType, FS_EmptySet
<1>3. PICK g \in S : \A l \in S : l <= g
  BY <1>2, GreatestExists
<1>4. g \in enough
  <2>1. below(g) = S \ {g}
    <3>1. \A l \in S : l < g <=> l # g
      BY <1>3
    <3> QED
      BY <3>1
  <2>2. size(g) = Cardinality(S) - 1
    BY <2>1, FS_RemoveElement
  <2> QED
    BY <1>2, <2>2
<1>5. PICK m \in enough : \A l \in enough : m <= l
  BY <1>4, LeastExists
<1>6. size(m) = n - 1
  <2> SUFFICES ASSUME size(m) # n - 1
               PROVE  FALSE
    OBVIOUS
  <2>1. size(m) >= n
    BY <1>1
  <2>2. below(m) # {}
    BY <1>1, <2>1, FS_EmptySet
  <2>3. PICK h \in below(m) : \A l \in below(m) : l <= h
    BY <1>1, <2>2, GreatestExists
  <2>4. below(h) = below(m) \ {h}
    <3>1. \A l \in S : l < h <=> l < m /\ l # h
      BY <2>3
    <3> QED
      BY <2>3, <3>1
  <2>5. size(h) = size(m) - 1
    <3>1. IsFiniteSet(below(m)) /\ h \in below(m)
      BY <1>1, <2>3
    <3>2. Cardinality(below(m) \ {h}) = Cardinality(below(m)) - 1
      BY <3>1, FS_RemoveElement
    <3> QED
      BY <2>4, <3>2
  <2>6. h \in enough
    BY <1>1, <2>1, <2>3, <2>5
  <2> QED
    BY <1>5, <2>3, <2>6
<1>7. \E k \in S : Cardinality({l \in S : l < k}) = n - 1
  BY <1>6
<1> QED
  BY <1>7 DEF Nth
-----------------------------------------------------------------------------
(* Types.  A lease of the segment is one that Record makes.                *)

Leases == {Record(i, p, e) : i \in ShardIndexes, p \in StoragePeers, e \in Nat}

Findings == {"missing", "valid", "corrupt"}

Audits == ShardIndexes \X Findings

SwarmType ==
    [up: SUBSET StoragePeers, held: [StoragePeers -> [ShardIndexes -> Findings]],
     receipts: SUBSET (StoragePeers \X ShardIndexes)]

(* A plan gives each shard a peer of an operator of its own.               *)
PlanOK(plan) ==
    /\ plan \in Seq(StoragePeers) /\ Len(plan) = DataShards + ParityShards
    /\ \A j, k \in DOMAIN plan : OperatorOf[plan[j]] = OperatorOf[plan[k]] => j = k

UploadTypeOK ==
    /\ upload \in [at: {"idle", "put", "publish", "done"}, plan: Seq(StoragePeers), next: Nat]
    /\ upload.at # "idle" => PlanOK(upload.plan)
    /\ upload.at \in {"put", "publish"} => upload.next \in 1..Len(upload.plan)

RepairType ==
    [at: {"idle", "audit", "fetch", "store", "publish", "check", "done", "failed", "unneeded"},
     now: Nat, providers: Seq(Leases), others: SUBSET StoragePeers, next: Nat,
     found: SUBSET Audits, before: SUBSET Audits, checked: Nat,
     targets: SUBSET ShardIndexes, tried: {"nothing", "preferred"}, faults: Nat]

TransferTypeOK ==
    /\ swarm \in SwarmType
    /\ directory \in Seq(Leases)
    /\ UploadTypeOK
    /\ repair \in [Repairers -> RepairType]
    /\ hour \in Nat /\ faults \in Nat

(* The shards are numbers from 0, and there is a finite number of them.    *)
LEMMA ShardIndexesType ==
    /\ ShardIndexes \subseteq Nat /\ IsFiniteSet(ShardIndexes)
    /\ Cardinality(ShardIndexes) = DataShards + ParityShards
    /\ \A k \in 1..(DataShards + ParityShards) : k - 1 \in ShardIndexes
    /\ \A i \in ShardIndexes : i + 1 \in 1..(DataShards + ParityShards)
BY TransferAssumption, FS_Interval DEF ShardIndexes

(* What a lease says.                                                      *)
LEMMA LeaseType ==
    /\ \A r \in Leases :
          r.shard \in ShardIndexes /\ r.peer \in StoragePeers /\ r.epoch \in Nat
    /\ \A i \in ShardIndexes, p \in StoragePeers, e \in Nat :
          LET r == Record(i, p, e)
          IN  r \in Leases /\ r.shard = i /\ r.peer = p /\ r.epoch = e
<1>1. \A i, p, e : LET r == Record(i, p, e) IN r.shard = i /\ r.peer = p /\ r.epoch = e
  BY DEF Record
<1> QED
  BY <1>1 DEF Leases

(* A plan that is placed takes as many peers as there are shards, each the *)
(* first of its operator.                                                  *)
LEMMA PlacementOK ==
    ASSUME NEW peers \in SUBSET StoragePeers, Placed(PlanShardPlacement(peers))
    PROVE  PlanOK(PlanShardPlacement(peers))
<1> DEFINE candidates == FirstOfOperator(peers)
           total == DataShards + ParityShards
           plan == PlanShardPlacement(peers)
<1>1. candidates \in SUBSET Nat /\ candidates \subseteq StoragePeers /\ IsFiniteSet(candidates)
  BY TransferAssumption, FS_Subset DEF FirstOfOperator
<1>2. Cardinality(candidates) \in Nat /\ total \in Nat
  BY <1>1, FS_CardinalityType, TransferAssumption
<1>3. PICK n \in Nat : /\ n <= Cardinality(candidates)
                       /\ plan = [k \in 1..n |-> Nth(candidates, k)]
  <2>1. {Cardinality(candidates), total} \in SUBSET Nat
    BY <1>2
  <2>2. Min({Cardinality(candidates), total}) \in Nat
        /\ Min({Cardinality(candidates), total}) <= Cardinality(candidates)
    BY <2>1, MinIsLeast
  <2> QED
    BY <2>2 DEF PlanShardPlacement
<1>4. \A k \in 1..n : /\ Nth(candidates, k) \in candidates
                      /\ Cardinality({l \in candidates : l < Nth(candidates, k)}) = k - 1
  <2>1. \A k \in 1..n : k \in 1..Cardinality(candidates)
    BY <1>2, <1>3
  <2> QED
    BY <1>1, <2>1, NthExists
<1>5. plan \in Seq(StoragePeers) /\ Len(plan) = n /\ DOMAIN plan = 1..n
  <2>1. \A k \in 1..n : Nth(candidates, k) \in StoragePeers
    BY <1>1, <1>4
  <2> DEFINE p == [k \in 1..n |-> Nth(candidates, k)]
  <2>2. p \in Seq(StoragePeers) /\ Len(p) = n /\ DOMAIN p = 1..n
    BY <2>1
  <2> QED
    BY <1>3, <2>2
<1>6. ASSUME NEW j \in 1..n, NEW k \in 1..n, OperatorOf[plan[j]] = OperatorOf[plan[k]]
      PROVE  j = k
  <2>1. plan[j] = plan[k]
    <3>1. plan[j] \in candidates /\ plan[k] \in candidates
      BY <1>3, <1>4
    <3>2. plan[j] \in Nat /\ plan[k] \in Nat
      BY <1>1, <3>1
    <3>3. plan[j] <= plan[k] /\ plan[k] <= plan[j]
      BY <1>6, <3>1 DEF FirstOfOperator
    <3> QED
      BY <3>2, <3>3
  <2>2. Nth(candidates, j) = Nth(candidates, k)
    BY <1>3, <2>1
  <2>3. j - 1 = k - 1
    BY <1>4, <2>2
  <2> QED
    BY <2>3
<1>7. n = total
  BY <1>5 DEF Placed
<1> QED
  BY <1>5, <1>6, <1>7 DEF PlanOK

(* What the directory answers are leases of its own.                       *)
LEMMA ActiveAtType ==
    ASSUME NEW records \in Seq(Leases), NEW now
    PROVE  ActiveAt(records, now) \in Seq(Leases)
<1> DEFINE active == {k \in DOMAIN records : IsActive(records[k], now)}
<1>1. active \in SUBSET Nat /\ active \subseteq 1..Len(records) /\ IsFiniteSet(active)
  BY FS_Interval, FS_Subset
<1>2. Cardinality(active) \in Nat
  BY <1>1, FS_CardinalityType
<1>3. \A n \in 1..Cardinality(active) : Nth(active, n) \in active
  BY <1>1, NthExists
<1>4. \A n \in 1..Cardinality(active) : records[Nth(active, n)] \in Leases
  BY <1>1, <1>3
<1> HIDE DEF active
<1>5. [n \in 1..Cardinality(active) |-> records[Nth(active, n)]] \in Seq(Leases)
  BY <1>2, <1>4
<1> QED
  BY <1>5 DEF ActiveAt, active

(* The places of a sequence are finitely many.                             *)
LEMMA PlacesAreFinite == \A n \in Nat : IsFiniteSet(1..n)
<1>1. \A n \in Nat : n \in Int
  OBVIOUS
<1> QED
  BY <1>1, FS_Interval

(* What is published joins the leases or takes the place of some.          *)
LEMMA PublishedType ==
    ASSUME NEW records \in Seq(Leases), NEW r \in Leases
    PROVE  /\ Published(records, r) \in Seq(Leases)
           /\ \A k \in DOMAIN Published(records, r) :
                 Published(records, r)[k] = r
                 \/ \E j \in DOMAIN records : Published(records, r)[k] = records[j]
<1>1. CASE \E k \in DOMAIN records : SameShard(records[k], r)
  BY <1>1 DEF Published
<1>2. CASE ~ \E k \in DOMAIN records : SameShard(records[k], r)
  BY <1>2 DEF Published
<1> QED
  BY <1>1, <1>2
-----------------------------------------------------------------------------
(* What steps do to the peers: without a fault they keep every shard, and  *)
(* each fault costs one shard that was confirmed, or one peer, at most.    *)

Has(s, p, i) == p \in s.up /\ s.held[p][i] = "valid"

Lost(s) == {x \in s.receipts : s.held[x[1]][x[2]] # "valid"}

Down(s) == StoragePeers \ s.up

Calm(s, t) ==
    /\ t.up = s.up /\ s.receipts \subseteq t.receipts
    /\ Lost(t) \subseteq Lost(s)
    /\ \A p \in StoragePeers, i \in ShardIndexes : s.held[p][i] = "valid" => t.held[p][i] = "valid"

Fails(s, t) ==
    /\ t.receipts = s.receipts
    /\ \/ t.up = s.up /\ \E x : Lost(t) \subseteq Lost(s) \cup {x}
       \/ Lost(t) = Lost(s) /\ \E p : Down(t) \subseteq Down(s) \cup {p}

(* Nothing is lost by standing still.                                      *)
LEMMA CalmReflexive == \A s : Calm(s, s)
BY DEF Calm

(* A shard that is put is there, once or again.                            *)
LEMMA PutShardOK ==
    ASSUME swarm \in SwarmType, NEW p \in StoragePeers, NEW i \in ShardIndexes
    PROVE  /\ PutShard(p, i) \in SwarmType
           /\ Calm(swarm, PutShard(p, i))
           /\ PutShard(p, i).held[p][i] = "valid"
           /\ PutShard(p, i).receipts = swarm.receipts
<1> DEFINE t == PutShard(p, i)
<1>1. /\ t.up = swarm.up /\ t.receipts = swarm.receipts
      /\ t.held = [swarm.held EXCEPT ![p][i] = "valid"]
      /\ t \in SwarmType
  BY DEF PutShard, SwarmType, Findings
<1>2. /\ t.held[p][i] = "valid"
      /\ \A q \in StoragePeers, j \in ShardIndexes :
            t.held[q][j] = swarm.held[q][j] \/ t.held[q][j] = "valid"
  BY <1>1 DEF SwarmType
<1>3. Lost(t) \subseteq Lost(swarm)
  BY <1>1, <1>2 DEF Lost, SwarmType
<1>4. \A q \in StoragePeers, j \in ShardIndexes :
         swarm.held[q][j] = "valid" => t.held[q][j] = "valid"
  BY <1>2
<1> HIDE DEF t
<1>5. Calm(swarm, t)
  BY <1>1, <1>3, <1>4 DEF Calm
<1> QED
  BY <1>1, <1>2, <1>5 DEF t

(* So is one that is put under a transaction id, and it is confirmed.      *)
LEMMA PutOnceOK ==
    ASSUME swarm \in SwarmType, NEW p \in StoragePeers, NEW i \in ShardIndexes
    PROVE  /\ PutOnce(p, i) \in SwarmType
           /\ Calm(swarm, PutOnce(p, i))
           /\ <<p, i>> \in PutOnce(p, i).receipts
<1>1. CASE <<p, i>> \in swarm.receipts
  BY <1>1, CalmReflexive DEF PutOnce
<1>2. CASE <<p, i>> \notin swarm.receipts
  <2> DEFINE s == PutShard(p, i)
             t == [s EXCEPT !.receipts = @ \cup {<<p, i>>}]
  <2>1. /\ s \in SwarmType /\ Calm(swarm, s) /\ s.held[p][i] = "valid"
        /\ s.receipts = swarm.receipts
    BY PutShardOK
  <2> HIDE DEF s
  <2>2. t.up = s.up /\ t.held = s.held /\ t.receipts = s.receipts \cup {<<p, i>>} /\ t \in SwarmType
    <3> DEFINE more == s.receipts \cup {<<p, i>>}
    <3>1. more \in SUBSET (StoragePeers \X ShardIndexes)
      BY <2>1 DEF SwarmType
    <3> HIDE DEF more
    <3>2. t = [s EXCEPT !.receipts = more]
      BY DEF more
    <3>3. /\ [s EXCEPT !.receipts = more].up = s.up
          /\ [s EXCEPT !.receipts = more].held = s.held
          /\ [s EXCEPT !.receipts = more].receipts = more
          /\ [s EXCEPT !.receipts = more] \in SwarmType
      BY <2>1, <3>1 DEF SwarmType
    <3> HIDE DEF t
    <3> QED
      BY <3>2, <3>3 DEF more
  <2>3. Lost(t) \subseteq Lost(s)
    BY <2>1, <2>2 DEF Lost
  <2>4. Calm(swarm, t)
    BY <2>1, <2>2, <2>3 DEF Calm
  <2>5. PutOnce(p, i) = t
    BY <1>2 DEF PutOnce, s
  <2> QED
    BY <2>2, <2>4, <2>5
<1> QED
  BY <1>1, <1>2

(* What the peers may do by themselves.                                    *)
PeerFails ==
    \/ \E p \in StoragePeers, i \in ShardIndexes : RemoveShard(p, i) \/ CorruptShard(p, i)
    \/ \E p \in StoragePeers : RemovePeer(p) \/ AddPeer(p)

(* A failing peer is one of the faults that Fails tells of.                *)
LEMMA PeerFailsOK ==
    ASSUME swarm \in SwarmType, faults \in Nat, PeerFails
    PROVE  /\ swarm' \in SwarmType /\ Fails(swarm, swarm')
           /\ faults' = faults + 1
           /\ UNCHANGED <<directory, upload, repair, hour>>
<1>1. faults' = faults + 1 /\ UNCHANGED <<directory, upload, repair, hour>>
  BY DEF PeerFails, RemoveShard, CorruptShard, RemovePeer, AddPeer, Fault
<1>2. ASSUME NEW p \in StoragePeers, NEW i \in ShardIndexes, NEW new \in Findings,
             swarm' = [swarm EXCEPT !.held[p][i] = new]
      PROVE  swarm' \in SwarmType /\ Fails(swarm, swarm')
  <2>1. /\ swarm'.up = swarm.up /\ swarm'.receipts = swarm.receipts
        /\ swarm'.held = [swarm.held EXCEPT ![p][i] = new]
        /\ swarm' \in SwarmType
    BY <1>2 DEF SwarmType
  <2>2. \A q \in StoragePeers, j \in ShardIndexes :
           <<q, j>> # <<p, i>> => swarm'.held[q][j] = swarm.held[q][j]
    BY <2>1 DEF SwarmType
  <2>3. \A x \in swarm.receipts : x[1] \in StoragePeers /\ x[2] \in ShardIndexes /\ x = <<x[1], x[2]>>
    BY DEF SwarmType
  <2>4. Lost(swarm') \subseteq Lost(swarm) \cup {<<p, i>>}
    BY <2>1, <2>2, <2>3 DEF Lost
  <2> QED
    BY <2>1, <2>4 DEF Fails
<1>3. ASSUME NEW p \in StoragePeers, NEW up \in SUBSET StoragePeers,
             swarm.up \subseteq up \cup {p}, swarm' = [swarm EXCEPT !.up = up]
      PROVE  swarm' \in SwarmType /\ Fails(swarm, swarm')
  <2>1. /\ swarm'.up = up /\ swarm'.receipts = swarm.receipts /\ swarm'.held = swarm.held
        /\ swarm' \in SwarmType
    BY <1>3 DEF SwarmType
  <2>2. Lost(swarm') = Lost(swarm) /\ Down(swarm') \subseteq Down(swarm) \cup {p}
    BY <1>3, <2>1 DEF Lost, Down
  <2> QED
    BY <2>1, <2>2 DEF Fails
<1>4. ASSUME NEW p \in StoragePeers, NEW i \in ShardIndexes, RemoveShard(p, i) \/ CorruptShard(p, i)
      PROVE  swarm' \in SwarmType /\ Fails(swarm, swarm')
  <2>1. "missing" \in Findings /\ "corrupt" \in Findings
    BY DEF Findings
  <2> QED
    BY <1>2, <1>4, <2>1 DEF RemoveShard, CorruptShard, Fault
<1>5. ASSUME NEW p \in StoragePeers, RemovePeer(p) \/ AddPeer(p)
      PROVE  swarm' \in SwarmType /\ Fails(swarm, swarm')
  <2>1. swarm.up \subseteq StoragePeers
    BY DEF SwarmType
  <2>2. CASE RemovePeer(p)
    BY <1>3, <2>1, <2>2 DEF RemovePeer, Fault
  <2>3. CASE AddPeer(p)
    BY <1>3, <2>1, <2>3 DEF AddPeer, Fault
  <2> QED
    BY <1>5, <2>2, <2>3
<1> QED
  BY <1>1, <1>4, <1>5 DEF PeerFails
-----------------------------------------------------------------------------
(* What a placement promises.  Every shard that was put is confirmed by    *)
(* the peer of the plan, and the faults account for what is lost or down.  *)

Confirmed(n) == \A k \in 1..n : <<upload.plan[k], k - 1>> \in swarm.receipts

UploadConfirmed ==
    /\ upload.at = "put" => Confirmed(upload.next - 1)
    /\ upload.at \in {"publish", "done"} => Confirmed(Len(upload.plan))

LossCounted(s, f) == Cardinality(Lost(s)) + Cardinality(Down(s)) <= f

(* A set of two parts is no larger than they are together.                 *)
LEMMA UnionIsBounded ==
    ASSUME NEW S, IsFiniteSet(S), NEW T, IsFiniteSet(T)
    PROVE  /\ IsFiniteSet(S \cup T) /\ Cardinality(S \cup T) \in Nat
           /\ Cardinality(S) \in Nat /\ Cardinality(T) \in Nat
           /\ Cardinality(S \cup T) <= Cardinality(S) + Cardinality(T)
<1>1. /\ IsFiniteSet(S \cup T) /\ IsFiniteSet(S \cap T)
      /\ Cardinality(S \cup T) = Cardinality(S) + Cardinality(T) - Cardinality(S \cap T)
  BY FS_Union, FS_Intersection
<1>2. /\ Cardinality(S \cup T) \in Nat /\ Cardinality(S \cap T) \in Nat
      /\ Cardinality(S) \in Nat /\ Cardinality(T) \in Nat
  BY <1>1, FS_CardinalityType
<1> QED
  BY <1>1, <1>2

(* One thing more makes a set larger by one at most.                       *)
LEMMA OneMore ==
    ASSUME NEW S, IsFiniteSet(S), NEW x, NEW T, T \subseteq S \cup {x}
    PROVE  /\ Cardinality(S) \in Nat /\ Cardinality(T) \in Nat
           /\ Cardinality(T) <= Cardinality(S) + 1
<1>1. IsFiniteSet(S \cup {x}) /\ Cardinality(S \cup {x}) <= Cardinality(S) + 1
  <2>1. Cardinality(S) \in Nat
    BY FS_CardinalityType
  <2>2. /\ IsFiniteSet(S \cup {x})
        /\ Cardinality(S \cup {x}) = IF x \in S THEN Cardinality(S) ELSE Cardinality(S) + 1
    BY FS_AddElement
  <2> QED
    BY <2>1, <2>2
<1>2. IsFiniteSet(T) /\ Cardinality(T) <= Cardinality(S \cup {x})
  BY <1>1, FS_Subset
<1>3. Cardinality(S) \in Nat /\ Cardinality(T) \in Nat /\ Cardinality(S \cup {x}) \in Nat
  BY <1>1, <1>2, FS_CardinalityType
<1> QED
  BY <1>1, <1>2, <1>3

(* What is lost and who is down can be counted.                            *)
LEMMA LossIsFinite ==
    ASSUME NEW s \in SwarmType
    PROVE  IsFiniteSet(Lost(s)) /\ IsFiniteSet(Down(s))
<1>1. IsFiniteSet(StoragePeers \X ShardIndexes)
  BY TransferAssumption, ShardIndexesType, FS_Product
<1>2. Lost(s) \in SUBSET (StoragePeers \X ShardIndexes)
  BY DEF Lost, SwarmType
<1>3. Down(s) \in SUBSET StoragePeers
  BY DEF Down
<1> QED
  BY <1>1, <1>2, <1>3, TransferAssumption, FS_Subset

(* The count goes on to hold.                                              *)
LEMMA LossStaysCounted ==
    ASSUME NEW s \in SwarmType, NEW t \in SwarmType, NEW f \in Nat, LossCounted(s, f)
    PROVE  /\ Calm(s, t) => LossCounted(t, f)
           /\ Fails(s, t) => LossCounted(t, f + 1)
<1>1. /\ IsFiniteSet(Lost(s)) /\ IsFiniteSet(Down(s))
      /\ IsFiniteSet(Lost(t)) /\ IsFiniteSet(Down(t))
  BY LossIsFinite
<1>2. /\ Cardinality(Lost(s)) \in Nat /\ Cardinality(Down(s)) \in Nat
      /\ Cardinality(Lost(t)) \in Nat /\ Cardinality(Down(t)) \in Nat
  BY <1>1, FS_CardinalityType
<1>3. ASSUME Calm(s, t)
      PROVE  LossCounted(t, f)
  <2>1. Lost(t) \in SUBSET Lost(s) /\ Down(t) = Down(s)
    BY <1>3 DEF Calm, Down
  <2>2. Cardinality(Lost(t)) <= Cardinality(Lost(s))
    BY <1>1, <2>1, FS_Subset
  <2> QED
    BY <1>2, <2>1, <2>2 DEF LossCounted
<1>4. ASSUME Fails(s, t)
      PROVE  LossCounted(t, f + 1)
  <2>1. CASE t.up = s.up /\ \E x : Lost(t) \subseteq Lost(s) \cup {x}
    <3>1. Down(t) = Down(s) /\ Cardinality(Lost(t)) <= Cardinality(Lost(s)) + 1
      BY <1>1, <2>1, OneMore DEF Down
    <3> QED
      BY <1>2, <3>1 DEF LossCounted
  <2>2. CASE Lost(t) = Lost(s) /\ \E p : Down(t) \subseteq Down(s) \cup {p}
    <3>1. Cardinality(Down(t)) <= Cardinality(Down(s)) + 1
      BY <1>1, <2>2, OneMore
    <3> QED
      BY <1>2, <2>2, <3>1 DEF LossCounted
  <2> QED
    BY <1>4, <2>1, <2>2 DEF Fails
<1> QED
  BY <1>3, <1>4

(* A set whose members each have a name of their own in another is not     *)
(* larger.                                                                 *)
LEMMA NamesBound ==
    ASSUME NEW S, IsFiniteSet(S), NEW T, IsFiniteSet(T), NEW f \in [S -> T],
           \A x, y \in S : f[x] = f[y] => x = y
    PROVE  /\ Cardinality(S) \in Nat /\ Cardinality(T) \in Nat
           /\ Cardinality(S) <= Cardinality(T)
<1>1. Cardinality(S) \in Nat /\ Cardinality(T) \in Nat
  BY FS_CardinalityType
<1>2. ~ (Cardinality(T) < Cardinality(S))
  BY FS_PigeonHole
<1> QED
  BY <1>1, <1>2

(* What is missing of an upload is charged to operators that are gone, to  *)
(* peers that are down or to shards that were lost, each once.             *)
LEMMA UploadSurvives ==
    ASSUME swarm \in SwarmType, faults \in Nat, PlanOK(upload.plan),
           Confirmed(Len(upload.plan)), LossCounted(swarm, faults),
           NEW gone \in SUBSET {OperatorOf[p] : p \in StoragePeers}
    PROVE  Cardinality({i \in ShardIndexes :
               \E p \in StoragePeers : OperatorOf[p] \notin gone /\ Holds(p, i)})
           + Cardinality(gone) + faults >= DataShards + ParityShards
<1> DEFINE held == {i \in ShardIndexes :
                      \E p \in StoragePeers : OperatorOf[p] \notin gone /\ Holds(p, i)}
           peer == [i \in ShardIndexes |-> upload.plan[i + 1]]
           m1 == {i \in ShardIndexes : OperatorOf[peer[i]] \in gone}
           m2 == {i \in ShardIndexes : peer[i] \in Down(swarm)}
           m3 == {i \in ShardIndexes : <<peer[i], i>> \in Lost(swarm)}
<1>1. \A i \in ShardIndexes : peer[i] \in StoragePeers /\ <<peer[i], i>> \in swarm.receipts
  <2>1. \A i \in ShardIndexes :
           i + 1 \in DOMAIN upload.plan /\ i + 1 \in 1..Len(upload.plan) /\ (i + 1) - 1 = i
    BY ShardIndexesType DEF PlanOK
  <2>2. \A k \in DOMAIN upload.plan : upload.plan[k] \in StoragePeers
    BY DEF PlanOK
  <2> QED
    BY <2>1, <2>2 DEF Confirmed
<1>2. \A i, j \in ShardIndexes : OperatorOf[peer[i]] = OperatorOf[peer[j]] => i = j
  <2>1. \A i \in ShardIndexes : i \in Nat /\ i + 1 \in DOMAIN upload.plan
    BY ShardIndexesType DEF PlanOK
  <2>2. \A i, j \in ShardIndexes : OperatorOf[peer[i]] = OperatorOf[peer[j]] => i + 1 = j + 1
    BY <2>1 DEF PlanOK
  <2> QED
    BY <2>1, <2>2
<1> HIDE DEF peer
<1>3. /\ IsFiniteSet(ShardIndexes) /\ m1 \in SUBSET ShardIndexes /\ m2 \in SUBSET ShardIndexes
      /\ m3 \in SUBSET ShardIndexes /\ held \in SUBSET ShardIndexes
  BY ShardIndexesType
<1>4. IsFiniteSet(m1) /\ IsFiniteSet(m2) /\ IsFiniteSet(m3) /\ IsFiniteSet(held)
  BY <1>3, FS_Subset
<1>5. IsFiniteSet(Down(swarm)) /\ IsFiniteSet(Lost(swarm))
  BY LossIsFinite
<1>6. IsFiniteSet(gone)
  <2> DEFINE operator == [p \in StoragePeers |-> OperatorOf[p]]
             operators == {OperatorOf[p] : p \in StoragePeers}
  <2>1. operator \in Surjection(StoragePeers, operators)
    BY DEF Surjection
  <2>2. IsFiniteSet(operators)
    BY <2>1, TransferAssumption, FS_Surjection
  <2> QED
    BY <2>2, FS_Subset
<1>7. Cardinality(m1) <= Cardinality(gone)
  <2> DEFINE f == [i \in m1 |-> OperatorOf[peer[i]]]
  <2>1. f \in [m1 -> gone] /\ \A x, y \in m1 : f[x] = f[y] => x = y
    BY <1>2
  <2> HIDE DEF f, m1
  <2> QED
    BY <1>4, <1>6, <2>1, NamesBound
<1>8. Cardinality(m2) <= Cardinality(Down(swarm))
  <2> DEFINE f == [i \in m2 |-> peer[i]]
  <2>1. f \in [m2 -> Down(swarm)] /\ \A x, y \in m2 : f[x] = f[y] => x = y
    BY <1>2
  <2> HIDE DEF f, m2
  <2> QED
    BY <1>4, <1>5, <2>1, NamesBound
<1>9. Cardinality(m3) <= Cardinality(Lost(swarm))
  <2> DEFINE f == [i \in m3 |-> <<peer[i], i>>]
  <2>1. f \in [m3 -> Lost(swarm)] /\ \A x, y \in m3 : f[x] = f[y] => x = y
    OBVIOUS
  <2> HIDE DEF f, m3
  <2> QED
    BY <1>4, <1>5, <2>1, NamesBound
<1>10. ShardIndexes = held \cup (m1 \cup (m2 \cup m3))
  <2>1. ASSUME NEW i \in ShardIndexes, i \notin m1, i \notin m2, i \notin m3
        PROVE  i \in held
    <3>1. OperatorOf[peer[i]] \notin gone /\ peer[i] \in swarm.up
      BY <1>1, <2>1 DEF Down
    <3>2. swarm.held[peer[i]][i] = "valid"
      BY <1>1, <2>1 DEF Lost
    <3> QED
      BY <1>1, <3>1, <3>2 DEF Holds, Intact
  <2> QED
    BY <2>1
<1> HIDE DEF held, m1, m2, m3
<1>11. /\ IsFiniteSet(m2 \cup m3)
       /\ Cardinality(m2 \cup m3) <= Cardinality(m2) + Cardinality(m3)
       /\ Cardinality(m2 \cup m3) \in Nat /\ Cardinality(m2) \in Nat /\ Cardinality(m3) \in Nat
  BY <1>4, UnionIsBounded
<1>12. /\ IsFiniteSet(m1 \cup (m2 \cup m3))
       /\ Cardinality(m1 \cup (m2 \cup m3)) <= Cardinality(m1) + Cardinality(m2 \cup m3)
       /\ Cardinality(m1 \cup (m2 \cup m3)) \in Nat /\ Cardinality(m1) \in Nat
  BY <1>4, <1>11, UnionIsBounded
<1>13. /\ Cardinality(ShardIndexes) <= Cardinality(held) + Cardinality(m1 \cup (m2 \cup m3))
       /\ Cardinality(held) \in Nat
  BY <1>4, <1>10, <1>12, UnionIsBounded
<1>14. Cardinality(ShardIndexes) = DataShards + ParityShards /\ DataShards + ParityShards \in Nat
  BY ShardIndexesType, TransferAssumption
<1>15. /\ Cardinality(gone) \in Nat /\ Cardinality(Down(swarm)) \in Nat
       /\ Cardinality(Lost(swarm)) \in Nat
  BY <1>5, <1>6, FS_CardinalityType
<1>16. Cardinality(held) + Cardinality(gone) + faults >= DataShards + ParityShards
  BY <1>7, <1>8, <1>9, <1>11, <1>12, <1>13, <1>14, <1>15 DEF LossCounted
<1> QED
  BY <1>16 DEF held
-----------------------------------------------------------------------------
(* What a repair knows at each of its steps: r is its state, s the peers,  *)
(* and f how many faults there were.                                       *)

HeldAt(r, s, i) ==
    \E k \in DOMAIN r.providers : r.providers[k].shard = i /\ Has(s, r.providers[k].peer, i)

ValidHeld(r, s, audits) == \A i \in ShardIndexes : <<i, "valid">> \in audits => HeldAt(r, s, i)

PlacesKnown(r, audits) == \A a \in audits : \E k \in DOMAIN r.providers : r.providers[k].shard = a[1]

AskedFor(r, n, audits) == \A k \in 1..n : \E x : <<r.providers[k].shard, x>> \in audits

Audits1(r, s, f) ==
    /\ PlacesKnown(r, r.found)
    /\ r.faults = f => ValidHeld(r, s, r.found)

BeforeKnown(r) ==
    /\ PlacesKnown(r, r.before)
    /\ r.checked = Len(r.providers) => AskedFor(r, Len(r.providers), r.before)

TargetsLeft(r, s, f) ==
    r.faults = f => \A a \in r.before : a[1] \in r.targets \/ HeldAt(r, s, a[1])

Renewed(r, epoch) ==
    r.targets = {} /\ \A k \in DOMAIN r.providers : r.providers[k].epoch = epoch

RepairOK(r, epoch, s, f) ==
    /\ r.at # "idle" => r.faults <= f
    /\ r.at \in {"audit", "fetch", "store", "publish", "check"} => r.next \in 1..Len(r.providers)
    /\ r.at = "audit" =>
          /\ Audits1(r, s, f)
          /\ r.checked < r.next
          /\ r.checked = r.next - 1 => AskedFor(r, r.next - 1, r.found)
    /\ r.at \in {"fetch", "store", "publish", "check", "done"} => BeforeKnown(r)
    /\ r.at = "fetch" /\ r.faults = f => ValidHeld(r, s, r.before)
    /\ r.at = "store" =>
          r.targets # {} /\ \A i \in r.targets : \E k \in DOMAIN r.providers : r.providers[k].shard = i
    /\ r.at \in {"publish", "check", "done"} => Renewed(r, epoch)
    /\ r.at \in {"store", "publish", "check", "done"} => TargetsLeft(r, s, f)

(* A shard that is held stays held while nothing fails.                    *)
LEMMA HeldStays ==
    ASSUME NEW r \in RepairType, NEW s, NEW t, Calm(s, t), NEW i \in ShardIndexes, HeldAt(r, s, i)
    PROVE  HeldAt(r, t, i)
<1>1. PICK k \in DOMAIN r.providers : r.providers[k].shard = i /\ Has(s, r.providers[k].peer, i)
  BY DEF HeldAt
<1>2. r.providers[k].peer \in StoragePeers
  <2>1. r.providers[k] \in Leases
    BY DEF RepairType
  <2> QED
    BY <2>1, LeaseType
<1>3. Has(t, r.providers[k].peer, i)
  BY <1>1, <1>2 DEF Has, Calm
<1> QED
  BY <1>1, <1>3 DEF HeldAt

(* A repair that announces keeps the leases it announces.                  *)
Announced == {"publish", "check", "done"}

Keeps(r, n) == r.at \in Announced => n.at \in Announced /\ n.providers = r.providers

(* A step of the repairer c that keeps what is known of it                 *)
StepOK(c) ==
    \E n \in RepairType :
        Step(c, n) /\ RepairOK(n, EpochOf[c], swarm', faults) /\ Keeps(repair[c], n)

(* What a repair knows stays true while the others go on without a fault,  *)
(* and of what it knew of a shard nothing is claimed after one.            *)
LEMMA RepairStays ==
    ASSUME NEW r \in RepairType, NEW epoch, NEW s, NEW t, NEW f \in Nat, RepairOK(r, epoch, s, f)
    PROVE  /\ Calm(s, t) => RepairOK(r, epoch, t, f)
           /\ RepairOK(r, epoch, t, f + 1)
<1>1. ASSUME Calm(s, t)
      PROVE  RepairOK(r, epoch, t, f)
  <2>1. \A i \in ShardIndexes : HeldAt(r, s, i) => HeldAt(r, t, i)
    BY <1>1, HeldStays
  <2>2. \A audits : ValidHeld(r, s, audits) => ValidHeld(r, t, audits)
    BY <2>1 DEF ValidHeld
  <2>3. \A a \in r.before : a[1] \in ShardIndexes
    BY DEF RepairType, Audits
  <2>4. TargetsLeft(r, s, f) => TargetsLeft(r, t, f)
    BY <2>1, <2>3 DEF TargetsLeft
  <2> QED
    BY <2>2, <2>4 DEF RepairOK, Audits1
<1>2. r.faults \in Nat
  BY DEF RepairType
<1>3. r.at # "idle" => r.faults # f + 1 /\ r.faults <= f + 1
  BY <1>2 DEF RepairOK
<1>4. RepairOK(r, epoch, t, f + 1)
  BY <1>3 DEF RepairOK, Audits1, TargetsLeft
<1> QED
  BY <1>1, <1>4

-----------------------------------------------------------------------------
(* One request of an audit more.                                           *)
LEMMA AuditedOK ==
    ASSUME NEW r \in RepairType, NEW n \in RepairType, NEW epoch, NEW s, NEW f,
           n.providers = r.providers, n.next = r.next, n.faults = r.faults, r.at = "audit",
           RepairOK(r, epoch, s, f),
           NEW x, NEW audit, audit = <<r.providers[r.next].shard, x>>,
           x = "valid" => Has(s, r.providers[r.next].peer, r.providers[r.next].shard),
           \/ n.found = r.found \cup {audit} /\ n.checked = r.checked + 1
           \/ n.found = r.found /\ n.checked = r.checked
    PROVE  /\ Audits1(n, s, f)
           /\ n.checked <= n.next
           /\ n.checked = n.next => AskedFor(n, n.next, n.found)
<1>1. /\ r.next \in DOMAIN r.providers /\ r.next \in Nat /\ r.checked \in Nat
      /\ Audits1(r, s, f) /\ r.checked < r.next
      /\ r.checked = r.next - 1 => AskedFor(r, r.next - 1, r.found)
  BY DEF RepairOK, RepairType
<1>2. PlacesKnown(n, n.found)
  <2>1. PlacesKnown(r, r.found)
    BY <1>1 DEF Audits1
  <2>2. r.providers[r.next].shard = audit[1]
    OBVIOUS
  <2> QED
    BY <1>1, <2>1, <2>2 DEF PlacesKnown
<1>3. n.faults = f => ValidHeld(n, s, n.found)
  <2> SUFFICES ASSUME n.faults = f, NEW i \in ShardIndexes, <<i, "valid">> \in n.found
               PROVE  HeldAt(n, s, i)
    BY DEF ValidHeld
  <2>1. CASE <<i, "valid">> \in r.found
    BY <1>1, <2>1 DEF Audits1, ValidHeld, HeldAt
  <2>2. CASE <<i, "valid">> = audit
    <3>1. i = r.providers[r.next].shard /\ x = "valid"
      BY <2>2
    <3> QED
      BY <1>1, <3>1 DEF HeldAt
  <2> QED
    BY <2>1, <2>2
<1>4. ASSUME n.checked = n.next
      PROVE  AskedFor(n, n.next, n.found)
  <2>1. n.found = r.found \cup {audit} /\ r.checked = r.next - 1
    BY <1>1, <1>4
  <2>2. \A k \in 1..n.next : k \in 1..(r.next - 1) \/ k = r.next
    BY <1>1
  <2>3. AskedFor(r, r.next - 1, r.found)
    BY <1>1, <2>1
  <2> QED
    BY <2>1, <2>2, <2>3 DEF AskedFor
<1> QED
  BY <1>1, <1>2, <1>3, <1>4 DEF Audits1

(* What a repairer is, at the start of a step.                             *)
LEMMA RepairerType ==
    ASSUME TransferTypeOK, NEW c \in Repairers
    PROVE  repair[c] \in RepairType /\ repair[c].providers \in Seq(Leases)
BY DEF TransferTypeOK, RepairType

(* An audit, before or after the repair, keeps what is known.              *)
LEMMA RepairAuditOK ==
    ASSUME TransferTypeOK, NEW c \in Repairers, RepairAudit(c),
           RepairOK(repair[c], EpochOf[c], swarm, faults)
    PROVE  StepOK(c)
<1> DEFINE r == repair[c]
           provider == r.providers[r.next]
           audit    == <<provider.shard, AuditShard(provider.peer, provider.shard)>>
           audited  == IF IsActive(provider, r.now)
                       THEN [r EXCEPT !.found = @ \cup {audit},
                                      !.checked = IF r.at = "audit" THEN @ + 1 ELSE @]
                       ELSE r
<1>1. /\ r.at \in {"audit", "check"} /\ swarm' = swarm
      /\ Step(c, IF AtLast(r) THEN Concluded(audited) ELSE [audited EXCEPT !.next = @ + 1])
  BY DEF RepairAudit
<1>2. r \in RepairType /\ r.next \in 1..Len(r.providers) /\ RepairOK(r, EpochOf[c], swarm, faults)
  BY <1>1, RepairerType DEF RepairOK
<1>3. /\ provider.shard \in ShardIndexes /\ provider.peer \in StoragePeers
      /\ audit \in Audits
      /\ AuditShard(provider.peer, provider.shard) = "valid" =>
            Has(swarm, provider.peer, provider.shard)
  <2>1. r.next \in DOMAIN r.providers /\ provider \in Leases
    BY <1>2, RepairerType
  <2>2. provider.shard \in ShardIndexes /\ provider.peer \in StoragePeers
    BY <2>1, LeaseType
  <2> HIDE DEF provider
  <2>3. /\ AuditShard(provider.peer, provider.shard) \in Findings
        /\ AuditShard(provider.peer, provider.shard) = "valid" =>
              Has(swarm, provider.peer, provider.shard)
    BY <2>2 DEF AuditShard, TransferTypeOK, SwarmType, Findings, Has
  <2> QED
    BY <2>2, <2>3 DEF Audits
<1> HIDE DEF audit, provider, r
<1>4. /\ audited \in RepairType
      /\ audited.at = r.at /\ audited.next = r.next /\ audited.faults = r.faults
      /\ audited.providers = r.providers /\ audited.before = r.before
      /\ audited.targets = r.targets
      /\ r.at = "check" => audited.checked = r.checked
      /\ r.at = "audit" =>
            \/ audited.found = r.found \cup {audit} /\ audited.checked = r.checked + 1
            \/ audited.found = r.found /\ audited.checked = r.checked
  <2>1. CASE ~ IsActive(provider, r.now)
    BY <1>2, <2>1
  <2>2. CASE IsActive(provider, r.now)
    <3> DEFINE found   == r.found \cup {audit}
               checked == IF r.at = "audit" THEN r.checked + 1 ELSE r.checked
               n       == [r EXCEPT !.found = found, !.checked = checked]
    <3>1. found \in SUBSET Audits /\ checked \in Nat
      BY <1>2, <1>3 DEF RepairType
    <3>2. audited = n
      BY <2>2
    <3> HIDE DEF found, checked, audited
    <3>3. /\ n \in RepairType
          /\ n.at = r.at /\ n.next = r.next /\ n.faults = r.faults
          /\ n.providers = r.providers /\ n.before = r.before /\ n.targets = r.targets
          /\ n.checked = checked /\ n.found = found
      BY <1>2, <3>1 DEF RepairType
    <3> HIDE DEF n
    <3> QED
      BY <3>2, <3>3 DEF found, checked
  <2> QED
    BY <2>1, <2>2
<1> HIDE DEF audited
<1>5. CASE r.at = "check"
  <2> DEFINE n == IF AtLast(r) THEN [audited EXCEPT !.at = "done"]
                  ELSE [audited EXCEPT !.next = @ + 1]
  <2>1. Step(c, n)
    BY <1>1, <1>4, <1>5 DEF Concluded
  <2>2. /\ n \in RepairType
        /\ n.providers = r.providers /\ n.before = r.before /\ n.targets = r.targets
        /\ n.checked = r.checked /\ n.faults = r.faults
        /\ \/ n.at = "done"
           \/ n.at = "check" /\ n.next \in 1..Len(n.providers)
    <3>1. CASE AtLast(r)
      BY <1>2, <1>4, <1>5, <3>1 DEF RepairType
    <3>2. CASE ~ AtLast(r)
      <4>1. r.next + 1 \in Nat /\ r.next + 1 \in 1..Len(r.providers)
        BY <1>2, <3>2 DEF AtLast
      <4>2. n = [audited EXCEPT !.next = r.next + 1]
        BY <1>4, <3>2
      <4> HIDE DEF n
      <4>3. /\ n \in RepairType /\ n.next = r.next + 1
            /\ n.at = audited.at /\ n.providers = audited.providers
            /\ n.before = audited.before /\ n.targets = audited.targets
            /\ n.checked = audited.checked /\ n.faults = audited.faults
        BY <1>4, <4>1, <4>2 DEF RepairType
      <4> QED
        BY <1>4, <1>5, <4>1, <4>3
    <3> QED
      BY <3>1, <3>2
  <2> HIDE DEF n
  <2>3. BeforeKnown(n)
    <3>1. BeforeKnown(r)
      BY <1>2, <1>5 DEF RepairOK
    <3> QED
      BY <2>2, <3>1 DEF BeforeKnown, PlacesKnown, AskedFor
  <2>4. Renewed(n, EpochOf[c])
    BY <1>2, <1>5, <2>2 DEF RepairOK, Renewed
  <2>5. TargetsLeft(n, swarm, faults)
    BY <1>2, <1>5, <2>2 DEF RepairOK, TargetsLeft, HeldAt
  <2>6. n.faults <= faults
    BY <1>2, <1>5, <2>2 DEF RepairOK
  <2>7. RepairOK(n, EpochOf[c], swarm', faults)
    BY <1>1, <2>2, <2>3, <2>4, <2>5, <2>6 DEF RepairOK
  <2>8. Keeps(r, n)
    BY <2>2 DEF Keeps, Announced
  <2> QED
    BY <2>1, <2>2, <2>7, <2>8 DEF StepOK, r
<1>6. CASE r.at = "audit"
  <2>1. /\ Audits1(audited, swarm, faults) /\ audited.checked <= audited.next
        /\ audited.checked = audited.next => AskedFor(audited, audited.next, audited.found)
    BY <1>2, <1>3, <1>4, <1>6, AuditedOK DEF audit, provider
  <2>2. audited.faults <= faults /\ audited.next \in Nat /\ audited.checked \in Nat
    BY <1>2, <1>4, <1>6 DEF RepairOK, RepairType
  <2>3. CASE ~ AtLast(r)
    <3> DEFINE n == [audited EXCEPT !.next = @ + 1]
    <3>1. /\ n \in RepairType /\ n.at = "audit" /\ n.next = audited.next + 1
          /\ n.found = audited.found /\ n.checked = audited.checked
          /\ n.providers = audited.providers /\ n.faults = audited.faults
      BY <1>4, <1>6 DEF RepairType
    <3>2. n.next \in 1..Len(n.providers) /\ Step(c, n)
      BY <1>1, <1>2, <1>4, <2>3, <3>1 DEF AtLast
    <3> HIDE DEF n
    <3>3. Audits1(n, swarm, faults)
      BY <2>1, <3>1 DEF Audits1, ValidHeld, HeldAt, PlacesKnown
    <3>4. /\ n.checked < n.next
          /\ n.checked = n.next - 1 => AskedFor(n, n.next - 1, n.found)
      <4>1. n.next - 1 = audited.next /\ n.checked < n.next
        BY <2>1, <2>2, <3>1
      <4>2. n.checked = audited.next => AskedFor(n, audited.next, n.found)
        BY <2>1, <3>1 DEF AskedFor
      <4> QED
        BY <4>1, <4>2
    <3>5. RepairOK(n, EpochOf[c], swarm', faults)
      BY <1>1, <2>2, <3>1, <3>2, <3>3, <3>4 DEF RepairOK
    <3>6. Keeps(r, n)
      BY <1>6 DEF Keeps, Announced
    <3> QED
      BY <3>1, <3>2, <3>5, <3>6 DEF StepOK, r
  <2>4. CASE AtLast(r) /\ (~ Rebuildable(audited.found) \/ ~ RepairNeeded(audited))
    <3> DEFINE n(at) == [audited EXCEPT !.at = at]
    <3>1. PICK at \in {"failed", "unneeded"} : Step(c, n(at))
      BY <1>1, <1>4, <1>6, <2>4 DEF Concluded
    <3>2. n(at) \in RepairType /\ n(at).at = at /\ n(at).faults = audited.faults
      BY <1>4 DEF RepairType
    <3> HIDE DEF n
    <3>3. RepairOK(n(at), EpochOf[c], swarm', faults)
      BY <2>2, <3>1, <3>2 DEF RepairOK
    <3>4. Keeps(r, n(at))
      BY <1>6 DEF Keeps, Announced
    <3> QED
      BY <3>1, <3>2, <3>3, <3>4 DEF StepOK, r
  <2>5. CASE AtLast(r) /\ Rebuildable(audited.found) /\ RepairNeeded(audited)
    <3> DEFINE n == [audited EXCEPT !.at = "fetch", !.next = 1, !.before = audited.found,
                                    !.found = {}]
    <3>1. Step(c, n)
      BY <1>1, <1>4, <1>6, <2>5 DEF Concluded
    <3>2. /\ n \in RepairType /\ n.at = "fetch" /\ n.next = 1 /\ n.before = audited.found
          /\ n.checked = audited.checked /\ n.providers = audited.providers
          /\ n.faults = audited.faults
      BY <1>4 DEF RepairType
    <3>3. n.next \in 1..Len(n.providers) /\ audited.next = Len(n.providers)
      BY <1>2, <1>4, <2>5, <3>2 DEF AtLast
    <3> HIDE DEF n
    <3>4. BeforeKnown(n)
      BY <2>1, <3>2, <3>3 DEF BeforeKnown, Audits1, PlacesKnown, AskedFor
    <3>5. n.faults = faults => ValidHeld(n, swarm, n.before)
      BY <2>1, <3>2 DEF Audits1, ValidHeld, HeldAt
    <3>6. RepairOK(n, EpochOf[c], swarm', faults)
      BY <1>1, <2>2, <3>2, <3>3, <3>4, <3>5 DEF RepairOK
    <3>7. Keeps(r, n)
      BY <1>6 DEF Keeps, Announced
    <3> QED
      BY <3>1, <3>2, <3>6, <3>7 DEF StepOK, r
  <2> QED
    BY <2>3, <2>4, <2>5
<1> QED
  BY <1>1, <1>5, <1>6

(* A repair that stores, or has stored what it had to.                     *)
Storing(r, s, f) ==
    /\ r.at = "store" /\ r.faults <= f /\ r.next \in 1..Len(r.providers)
    /\ BeforeKnown(r) /\ TargetsLeft(r, s, f)
    /\ \A i \in r.targets : \E k \in DOMAIN r.providers : r.providers[k].shard = i

(* It goes on storing, or renews every lease and announces.                *)
LEMMA StoredOK ==
    ASSUME NEW r \in RepairType, NEW c \in Repairers, NEW s, NEW f, Storing(r, s, f)
    PROVE  Stored(r, c) \in RepairType /\ RepairOK(Stored(r, c), EpochOf[c], s, f)
<1>1. CASE r.targets # {}
  BY <1>1 DEF Stored, Storing, RepairOK
<1>2. CASE r.targets = {}
  <2> DEFINE leases == [k \in DOMAIN r.providers |->
                           Record(r.providers[k].shard, r.providers[k].peer, EpochOf[c])]
             n == [r EXCEPT !.at = "publish", !.next = 1, !.providers = leases]
  <2>1. Stored(r, c) = n
    BY <1>2 DEF Stored
  <2>2. r.providers \in Seq(Leases) /\ EpochOf[c] \in Nat
    BY TransferAssumption DEF RepairType
  <2>3. \A k \in DOMAIN r.providers :
           /\ leases[k] \in Leases
           /\ leases[k].shard = r.providers[k].shard /\ leases[k].peer = r.providers[k].peer
           /\ leases[k].epoch = EpochOf[c]
    <3>1. \A k \in DOMAIN r.providers : r.providers[k] \in Leases
      BY <2>2
    <3> QED
      BY <2>2, <3>1, LeaseType
  <2>4. leases \in Seq(Leases) /\ Len(leases) = Len(r.providers)
        /\ DOMAIN leases = DOMAIN r.providers /\ DOMAIN r.providers = 1..Len(r.providers)
    <3>1. DOMAIN leases = 1..Len(r.providers) /\ DOMAIN r.providers = 1..Len(r.providers)
      BY <2>2
    <3>2. Len(r.providers) \in Nat
      BY <2>2
    <3>3. leases \in [1..Len(r.providers) -> Leases]
      BY <2>3, <3>1
    <3> HIDE DEF leases
    <3>4. \A m \in Nat : leases \in [1..m -> Leases] => leases \in Seq(Leases) /\ Len(leases) = m
      OBVIOUS
    <3> QED
      BY <3>1, <3>2, <3>3, <3>4
  <2> HIDE DEF leases
  <2>5. /\ n \in RepairType /\ n.at = "publish" /\ n.next = 1 /\ n.providers = leases
        /\ n.before = r.before /\ n.checked = r.checked /\ n.targets = r.targets
        /\ n.faults = r.faults
    BY <2>4 DEF RepairType
  <2> HIDE DEF n
  <2>6. n.next \in 1..Len(n.providers) /\ n.faults <= f
    BY <2>4, <2>5 DEF Storing
  <2>7. BeforeKnown(n)
    <3>1. BeforeKnown(r)
      BY DEF Storing
    <3> QED
      BY <2>3, <2>4, <2>5, <3>1 DEF BeforeKnown, PlacesKnown, AskedFor
  <2>8. Renewed(n, EpochOf[c])
    BY <1>2, <2>3, <2>4, <2>5 DEF Renewed
  <2>9. TargetsLeft(n, s, f)
    <3>1. TargetsLeft(r, s, f)
      BY DEF Storing
    <3> QED
      BY <2>3, <2>4, <2>5, <3>1 DEF TargetsLeft, HeldAt
  <2> QED
    BY <2>1, <2>5, <2>6, <2>7, <2>8, <2>9 DEF RepairOK
<1> QED
  BY <1>1, <1>2

(* Fetching leaves as targets all that was found missing or corrupt.       *)
LEMMA RepairFetchOK ==
    ASSUME TransferTypeOK, NEW c \in Repairers, RepairFetch(c),
           RepairOK(repair[c], EpochOf[c], swarm, faults)
    PROVE  StepOK(c)
<1> DEFINE r == repair[c]
           failed == [r EXCEPT !.at = "failed"]
           next   == [r EXCEPT !.next = @ + 1]
           stores == [r EXCEPT !.at = "store", !.targets = RepairTargets(r)]
<1>1. /\ r.at = "fetch" /\ swarm' = swarm
      /\ \/ Step(c, failed)
         \/ ~ AtLast(r) /\ Step(c, next)
         \/ Step(c, Stored(stores, c))
  BY DEF RepairFetch
<1>2. r \in RepairType /\ r.next \in 1..Len(r.providers) /\ r.faults <= faults
      /\ BeforeKnown(r) /\ (r.faults = faults => ValidHeld(r, swarm, r.before))
  BY <1>1, RepairerType DEF RepairOK
<1> HIDE DEF r
<1>3. CASE Step(c, failed)
  <2>1. failed \in RepairType /\ failed.at = "failed" /\ failed.faults = r.faults
    BY <1>2 DEF RepairType
  <2> HIDE DEF failed
  <2>2. RepairOK(failed, EpochOf[c], swarm', faults) /\ Keeps(r, failed)
    BY <1>1, <1>2, <2>1 DEF RepairOK, Keeps, Announced
  <2> QED
    BY <1>3, <2>1, <2>2 DEF StepOK, r
<1>4. CASE ~ AtLast(r) /\ Step(c, next)
  <2>1. r.next + 1 \in Nat /\ r.next + 1 \in 1..Len(r.providers)
    BY <1>2, <1>4 DEF AtLast
  <2>2. /\ next \in RepairType /\ next.at = "fetch" /\ next.next = r.next + 1
        /\ next.providers = r.providers /\ next.before = r.before /\ next.checked = r.checked
        /\ next.faults = r.faults
    BY <1>1, <1>2, <2>1 DEF RepairType
  <2> HIDE DEF next
  <2>3. BeforeKnown(next)
    BY <1>2, <2>2 DEF BeforeKnown, PlacesKnown, AskedFor
  <2>4. next.faults = faults => ValidHeld(next, swarm, next.before)
    BY <1>2, <2>2 DEF ValidHeld, HeldAt
  <2>5. RepairOK(next, EpochOf[c], swarm', faults) /\ Keeps(r, next)
    BY <1>1, <1>2, <2>1, <2>2, <2>3, <2>4 DEF RepairOK, Keeps, Announced
  <2> QED
    BY <1>4, <2>2, <2>5 DEF StepOK, r
<1>5. CASE Step(c, Stored(stores, c))
  <2>1. RepairTargets(r) \in SUBSET ShardIndexes
    BY DEF RepairTargets, Missing, Corrupt, Indexes
  <2>2. /\ stores \in RepairType /\ stores.at = "store" /\ stores.next = r.next
        /\ stores.providers = r.providers /\ stores.before = r.before
        /\ stores.checked = r.checked /\ stores.faults = r.faults
        /\ stores.targets = RepairTargets(r)
    BY <1>2, <2>1 DEF RepairType
  <2> HIDE DEF stores
  <2>3. BeforeKnown(stores)
    BY <1>2, <2>2 DEF BeforeKnown, PlacesKnown, AskedFor
  <2>4. \A i \in stores.targets : \E k \in DOMAIN stores.providers : stores.providers[k].shard = i
    <3>1. \A i \in RepairTargets(r) : <<i, "missing">> \in r.before \/ <<i, "corrupt">> \in r.before
      BY DEF RepairTargets, Missing, Corrupt, Indexes
    <3>2. \A i, x : <<i, x>> \in r.before => \E k \in DOMAIN r.providers : r.providers[k].shard = i
      BY <1>2 DEF BeforeKnown, PlacesKnown
    <3> QED
      BY <2>2, <3>1, <3>2
  <2>5. TargetsLeft(stores, swarm, faults)
    <3> SUFFICES ASSUME r.faults = faults, NEW a \in r.before
                 PROVE  a[1] \in RepairTargets(r) \/ HeldAt(r, swarm, a[1])
      BY <2>2 DEF TargetsLeft, HeldAt
    <3>1. PICK i \in ShardIndexes, x \in Findings : a = <<i, x>>
      BY <1>2 DEF RepairType, Audits
    <3>2. CASE i \in Verified(r.before)
      BY <1>2, <3>1, <3>2 DEF Verified, Indexes, ValidHeld
    <3>3. CASE i \notin Verified(r.before)
      <4>1. x # "valid"
        BY <3>1, <3>3 DEF Verified, Indexes
      <4>2. i \in RepairTargets(r)
        BY <3>1, <3>3, <4>1 DEF Findings, RepairTargets, Missing, Corrupt, Indexes
      <4> QED
        BY <3>1, <4>2
    <3> QED
      BY <3>2, <3>3
  <2>6. Storing(stores, swarm, faults)
    BY <1>2, <2>2, <2>3, <2>4, <2>5 DEF Storing
  <2>7. Stored(stores, c) \in RepairType /\ RepairOK(Stored(stores, c), EpochOf[c], swarm', faults)
    BY <1>1, <2>2, <2>6, StoredOK
  <2>8. Keeps(r, Stored(stores, c))
    BY <1>1 DEF Keeps, Announced
  <2> QED
    BY <1>5, <2>7, <2>8 DEF StepOK, r
<1> QED
  BY <1>1, <1>3, <1>4, <1>5

(* The peer that is asked next is one of the storage peers.                *)
LEMMA NextPeerType ==
    ASSUME NEW r \in RepairType, NEW i, NEW old \in StoragePeers
    PROVE  NextPeer(r, i, old) \in StoragePeers
<1>1. r.others \in SUBSET StoragePeers /\ StoragePeers \subseteq Nat
  BY TransferAssumption DEF RepairType
<1>2. \A S \in SUBSET r.others : S # {} => Min(S) \in StoragePeers
  <2> SUFFICES ASSUME NEW S \in SUBSET r.others, S # {}
               PROVE  Min(S) \in StoragePeers
    OBVIOUS
  <2>1. S \in SUBSET Nat
    BY <1>1
  <2> QED
    BY <1>1, <2>1, MinIsLeast
<1>3. ChooseRepairTarget(r, old) \in StoragePeers
  <2> DEFINE used   == {r.providers[k].peer : k \in DOMAIN r.providers}
             unused == r.others \ used
             fresh  == {p \in unused : OperatorOf[p] \notin {OperatorOf[q] : q \in used}}
  <2>1. fresh \in SUBSET r.others /\ unused \in SUBSET r.others
    OBVIOUS
  <2>2. ChooseRepairTarget(r, old) = CASE fresh # {} -> Min(fresh)
                                       [] fresh = {} /\ unused # {} -> Min(unused)
                                       [] OTHER -> old
    BY DEF ChooseRepairTarget
  <2> HIDE DEF fresh, unused
  <2>3. fresh # {} => Min(fresh) \in StoragePeers
    BY <1>2, <2>1
  <2>4. unused # {} => Min(unused) \in StoragePeers
    BY <1>2, <2>1
  <2> QED
    BY <2>2, <2>3, <2>4
<1> QED
  BY <1>3 DEF NextPeer

(* A shard that is stored is held by the provider put down for it.         *)
LEMMA RepairStoreOK ==
    ASSUME TransferTypeOK, NEW c \in Repairers, RepairStore(c),
           RepairOK(repair[c], EpochOf[c], swarm, faults)
    PROVE  StepOK(c) /\ swarm' \in SwarmType /\ Calm(swarm, swarm')
<1> DEFINE r   == repair[c]
           i   == Min(r.targets)
           old == r.providers[Max(Places(r, i))].peer
           p   == NextPeer(r, i, old)
           at  == Min(Places(r, i))
           stored == [r EXCEPT !.providers[at] = Record(i, p, EpochOf[c]),
                               !.targets = @ \ {i}, !.tried = "nothing"]
<1>1. /\ r.at = "store" /\ UNCHANGED faults
      /\ \/ p \in swarm.up /\ swarm' = PutShard(p, i) /\ Step(c, Stored(stored, c))
         \/ swarm' = swarm /\ Step(c, [r EXCEPT !.tried = "preferred"])
         \/ swarm' = swarm /\ Step(c, [r EXCEPT !.at = "failed"])
  BY DEF RepairStore
<1>2. r \in RepairType /\ Storing(r, swarm, faults) /\ r.targets # {}
  BY <1>1, RepairerType DEF RepairOK, Storing
<1>3. i \in r.targets /\ i \in ShardIndexes
  <2>1. r.targets \in SUBSET Nat /\ r.targets \subseteq ShardIndexes
    BY <1>2, ShardIndexesType DEF RepairType
  <2> QED
    BY <1>2, <2>1, MinIsLeast
<1> HIDE DEF i
<1>4. /\ r.providers \in Seq(Leases) /\ DOMAIN r.providers = 1..Len(r.providers)
      /\ Places(r, i) \in SUBSET Nat /\ Places(r, i) \subseteq DOMAIN r.providers
      /\ IsFiniteSet(Places(r, i)) /\ Places(r, i) # {}
  <2>1. r.providers \in Seq(Leases) /\ DOMAIN r.providers = 1..Len(r.providers)
        /\ Len(r.providers) \in Nat
    BY <1>2 DEF RepairType
  <2>2. Places(r, i) # {} /\ Places(r, i) \in SUBSET (1..Len(r.providers))
    BY <1>2, <1>3, <2>1 DEF Storing, Places
  <2>3. IsFiniteSet(1..Len(r.providers))
    BY <2>1, PlacesAreFinite
  <2> QED
    BY <2>1, <2>2, <2>3, FS_Subset
<1>5. at \in Places(r, i) /\ Max(Places(r, i)) \in Places(r, i)
  BY <1>4, MinIsLeast, MaxIsGreatest
<1>6. old \in StoragePeers /\ p \in StoragePeers
  <2>1. r.providers[Max(Places(r, i))] \in Leases
    BY <1>4, <1>5
  <2>2. old \in StoragePeers
    BY <2>1, LeaseType
  <2> QED
    BY <1>2, <2>2, NextPeerType
<1>7. at \in DOMAIN r.providers /\ r.providers[at].shard = i
  BY <1>4, <1>5 DEF Places
<1> HIDE DEF r, old, p, at
<1>8. swarm \in SwarmType /\ faults \in Nat
  BY DEF TransferTypeOK
<1>9. CASE swarm' = swarm /\ Step(c, [r EXCEPT !.tried = "preferred"])
  <2> DEFINE n == [r EXCEPT !.tried = "preferred"]
  <2>1. /\ n \in RepairType /\ n.at = r.at /\ n.next = r.next /\ n.providers = r.providers
        /\ n.before = r.before /\ n.checked = r.checked /\ n.targets = r.targets
        /\ n.faults = r.faults
    BY <1>2 DEF RepairType
  <2> HIDE DEF n
  <2>2. BeforeKnown(n)
    <3>1. BeforeKnown(r)
      BY <1>2 DEF Storing
    <3> QED
      BY <2>1, <3>1 DEF BeforeKnown, PlacesKnown, AskedFor
  <2>3. TargetsLeft(n, swarm, faults)
    BY <1>2, <2>1 DEF Storing, TargetsLeft, HeldAt
  <2>4. RepairOK(n, EpochOf[c], swarm', faults) /\ Keeps(r, n)
    BY <1>1, <1>2, <1>9, <2>1, <2>2, <2>3 DEF Storing, RepairOK, Keeps, Announced, r
  <2> QED
    BY <1>8, <1>9, <2>1, <2>4, CalmReflexive DEF StepOK, r, n
<1>10. CASE swarm' = swarm /\ Step(c, [r EXCEPT !.at = "failed"])
  <2> DEFINE n == [r EXCEPT !.at = "failed"]
  <2>1. n \in RepairType /\ n.at = "failed" /\ n.faults = r.faults
    BY <1>2 DEF RepairType
  <2> HIDE DEF n
  <2>2. RepairOK(n, EpochOf[c], swarm', faults) /\ Keeps(r, n)
    BY <1>1, <1>2, <2>1 DEF Storing, RepairOK, Keeps, Announced, r
  <2> QED
    BY <1>8, <1>10, <2>1, <2>2, CalmReflexive DEF StepOK, r, n
<1>11. CASE p \in swarm.up /\ swarm' = PutShard(p, i) /\ Step(c, Stored(stored, c))
  <2>1. /\ swarm' \in SwarmType /\ Calm(swarm, swarm') /\ swarm'.held[p][i] = "valid"
        /\ Has(swarm', p, i)
    BY <1>3, <1>6, <1>8, <1>11, PutShardOK DEF Has, Calm
  <2> DEFINE lease   == Record(i, p, EpochOf[c])
             leases  == [r.providers EXCEPT ![at] = lease]
             targets == r.targets \ {i}
  <2>2. lease \in Leases /\ lease.shard = i /\ lease.peer = p
    BY <1>3, <1>6, LeaseType, TransferAssumption
  <2> HIDE DEF lease
  <2>3. /\ leases \in Seq(Leases) /\ Len(leases) = Len(r.providers)
        /\ DOMAIN leases = DOMAIN r.providers
        /\ leases[at] = lease
        /\ \A k \in DOMAIN r.providers : k # at => leases[k] = r.providers[k]
    BY <1>4, <1>7, <2>2
  <2>4. targets \in SUBSET ShardIndexes
    BY <1>2 DEF RepairType
  <2>5. stored = [r EXCEPT !.providers = leases, !.targets = targets, !.tried = "nothing"]
    BY DEF lease
  <2> HIDE DEF leases, stored
  <2>6. /\ stored \in RepairType /\ stored.at = r.at /\ stored.next = r.next
        /\ stored.providers = leases /\ stored.targets = targets
        /\ stored.before = r.before /\ stored.checked = r.checked /\ stored.faults = r.faults
    BY <1>2, <2>3, <2>4, <2>5 DEF RepairType
  <2>7. \A k \in DOMAIN r.providers : stored.providers[k].shard = r.providers[k].shard
    BY <1>7, <2>2, <2>3, <2>6
  <2>8. BeforeKnown(stored)
    <3>1. BeforeKnown(r) /\ 1..Len(r.providers) = DOMAIN r.providers
      BY <1>2, <1>4 DEF Storing
    <3> QED
      BY <2>3, <2>6, <2>7, <3>1 DEF BeforeKnown, PlacesKnown, AskedFor
  <2>9. \A j \in stored.targets :
           \E k \in DOMAIN stored.providers : stored.providers[k].shard = j
    BY <1>2, <2>3, <2>6, <2>7 DEF Storing
  <2>10. TargetsLeft(stored, swarm', faults)
    <3> SUFFICES ASSUME r.faults = faults, NEW a \in r.before
                 PROVE  a[1] \in targets \/ HeldAt(stored, swarm', a[1])
      BY <2>6 DEF TargetsLeft
    <3>1. CASE a[1] = i
      BY <1>7, <2>1, <2>2, <2>3, <2>6, <3>1 DEF HeldAt
    <3>2. CASE a[1] # i /\ a[1] \notin r.targets
      <4>1. HeldAt(r, swarm, a[1]) /\ a[1] \in ShardIndexes
        BY <1>2, <3>2 DEF Storing, TargetsLeft, RepairType, Audits
      <4>2. HeldAt(r, swarm', a[1])
        BY <1>2, <2>1, <4>1, HeldStays
      <4>3. PICK k \in DOMAIN r.providers :
               r.providers[k].shard = a[1] /\ Has(swarm', r.providers[k].peer, a[1])
        BY <4>2 DEF HeldAt
      <4>4. k # at
        BY <1>7, <3>2, <4>3
      <4> QED
        BY <2>3, <2>6, <4>3, <4>4 DEF HeldAt
    <3> QED
      BY <3>1, <3>2
  <2>11. Storing(stored, swarm', faults)
    BY <1>1, <1>2, <2>3, <2>6, <2>8, <2>9, <2>10 DEF Storing, r
  <2>12. Stored(stored, c) \in RepairType /\ RepairOK(Stored(stored, c), EpochOf[c], swarm', faults)
    BY <2>6, <2>11, StoredOK
  <2>13. Keeps(r, Stored(stored, c))
    BY <1>1 DEF Keeps, Announced, r
  <2> QED
    BY <1>11, <2>1, <2>12, <2>13 DEF StepOK, r
<1> QED
  BY <1>1, <1>9, <1>10, <1>11 DEF r, p, old, at

(* A repairer publishes the leases it made, of its own epoch.              *)
LEMMA RepairPublishOK ==
    ASSUME TransferTypeOK, NEW c \in Repairers, RepairPublish(c),
           RepairOK(repair[c], EpochOf[c], swarm, faults)
    PROVE  /\ StepOK(c)
           /\ \E k \in DOMAIN repair[c].providers :
                 /\ directory' = Published(directory, repair[c].providers[k])
                 /\ repair[c].providers[k] \in Leases
                 /\ repair[c].providers[k].epoch = EpochOf[c]
           /\ repair[c].at = "publish"
<1> DEFINE r == repair[c]
           checks == [r EXCEPT !.at = "check", !.next = 1]
           next   == [r EXCEPT !.next = @ + 1]
<1>1. /\ r.at = "publish" /\ swarm' = swarm
      /\ directory' = Published(directory, r.providers[r.next])
      /\ \/ AtLast(r) /\ Step(c, checks)
         \/ ~ AtLast(r) /\ Step(c, next)
  BY DEF RepairPublish
<1>2. /\ r \in RepairType /\ r.next \in 1..Len(r.providers) /\ r.faults <= faults
      /\ BeforeKnown(r) /\ Renewed(r, EpochOf[c]) /\ TargetsLeft(r, swarm, faults)
      /\ DOMAIN r.providers = 1..Len(r.providers) /\ r.providers[r.next] \in Leases
  BY <1>1, RepairerType DEF RepairOK
<1>3. r.providers[r.next].epoch = EpochOf[c]
  BY <1>2 DEF Renewed
<1> HIDE DEF r
<1>4. ASSUME NEW n \in RepairType, Step(c, n), n.at \in {"publish", "check"},
             n.next \in 1..Len(n.providers), n.providers = r.providers, n.before = r.before,
             n.checked = r.checked, n.targets = r.targets, n.faults = r.faults
      PROVE  StepOK(c)
  <2>1. BeforeKnown(n)
    BY <1>2, <1>4 DEF BeforeKnown, PlacesKnown, AskedFor
  <2>2. Renewed(n, EpochOf[c]) /\ TargetsLeft(n, swarm, faults)
    BY <1>2, <1>4 DEF Renewed, TargetsLeft, HeldAt
  <2>3. RepairOK(n, EpochOf[c], swarm', faults) /\ Keeps(r, n)
    BY <1>1, <1>2, <1>4, <2>1, <2>2 DEF RepairOK, Keeps, Announced
  <2> QED
    BY <1>4, <2>3 DEF StepOK, r
<1>5. ASSUME AtLast(r) /\ Step(c, checks)
      PROVE  StepOK(c)
  <2>1. /\ checks \in RepairType /\ checks.at = "check" /\ checks.next = 1
        /\ checks.providers = r.providers /\ checks.before = r.before
        /\ checks.checked = r.checked /\ checks.targets = r.targets /\ checks.faults = r.faults
    BY <1>2 DEF RepairType
  <2>2. 1 \in 1..Len(r.providers)
    BY <1>2
  <2> HIDE DEF checks
  <2> QED
    BY <1>4, <1>5, <2>1, <2>2
<1>6. ASSUME ~ AtLast(r) /\ Step(c, next)
      PROVE  StepOK(c)
  <2>1. r.next + 1 \in Nat /\ r.next + 1 \in 1..Len(r.providers)
    BY <1>2, <1>6 DEF AtLast
  <2>2. /\ next \in RepairType /\ next.at = "publish" /\ next.next = r.next + 1
        /\ next.providers = r.providers /\ next.before = r.before
        /\ next.checked = r.checked /\ next.targets = r.targets /\ next.faults = r.faults
    BY <1>1, <1>2, <2>1 DEF RepairType
  <2> HIDE DEF next
  <2> QED
    BY <1>4, <1>6, <2>1, <2>2
<1>7. StepOK(c)
  BY <1>1, <1>5, <1>6
<1> QED
  BY <1>1, <1>2, <1>3, <1>7 DEF r

(* A repair begins with leases that the directory or the upload announced. *)
LEMMA RepairBeginOK ==
    ASSUME TransferTypeOK, NEW c \in Repairers, RepairBegin(c)
    PROVE  StepOK(c)
<1>1. PICK providers \in {ActiveAt(directory, hour)} \cup
              (IF upload.at = "done"
               THEN {[k \in DOMAIN upload.plan |-> Record(k - 1, upload.plan[k], 1)]} ELSE {}) :
         Step(c, [NotStarted EXCEPT !.at = IF providers = <<>> THEN "failed" ELSE "audit",
                                    !.now = hour, !.providers = providers,
                                    !.others = swarm.up, !.faults = faults])
  BY DEF RepairBegin
<1>2. repair[c].at = "idle" /\ swarm' = swarm
  BY DEF RepairBegin
<1>3. providers \in Seq(Leases)
  <2>1. ActiveAt(directory, hour) \in Seq(Leases)
    BY ActiveAtType DEF TransferTypeOK
  <2>2. ASSUME upload.at = "done"
        PROVE  [k \in DOMAIN upload.plan |-> Record(k - 1, upload.plan[k], 1)] \in Seq(Leases)
    <3>1. PlanOK(upload.plan)
      BY <2>2 DEF TransferTypeOK, UploadTypeOK
    <3>2. /\ DOMAIN upload.plan = 1..Len(upload.plan) /\ Len(upload.plan) \in Nat
          /\ Len(upload.plan) = DataShards + ParityShards
      BY <3>1 DEF PlanOK
    <3>3. \A k \in 1..Len(upload.plan) :
             upload.plan[k] \in StoragePeers /\ k - 1 \in ShardIndexes
      BY <3>1, <3>2, ShardIndexesType DEF PlanOK
    <3>4. \A k \in 1..Len(upload.plan) : Record(k - 1, upload.plan[k], 1) \in Leases
      BY <3>3, LeaseType
    <3> QED
      BY <3>2, <3>4
  <2> QED
    BY <2>1, <2>2
<1> DEFINE at == IF providers = <<>> THEN "failed" ELSE "audit"
           n  == [NotStarted EXCEPT !.at = at, !.now = hour, !.providers = providers,
                                    !.others = swarm.up, !.faults = faults]
<1>4. Step(c, n) /\ at \in {"failed", "audit"} /\ (at = "audit" => providers # <<>>)
  BY <1>1
<1>5. hour \in Nat /\ faults \in Nat /\ swarm.up \in SUBSET StoragePeers
  BY DEF TransferTypeOK, SwarmType
<1> HIDE DEF at
<1>6. /\ n \in RepairType /\ n.at = at /\ n.next = 1 /\ n.found = {} /\ n.checked = 0
      /\ n.providers = providers /\ n.faults = faults
  BY <1>3, <1>4, <1>5 DEF RepairType, NotStarted
<1> HIDE DEF n
<1>7. at = "audit" => n.next \in 1..Len(n.providers)
  BY <1>3, <1>4, <1>6
<1>8. Audits1(n, swarm, faults) /\ AskedFor(n, n.next - 1, n.found) /\ n.checked < n.next
  BY <1>6 DEF Audits1, PlacesKnown, ValidHeld, AskedFor
<1>9. RepairOK(n, EpochOf[c], swarm', faults)
  BY <1>2, <1>4, <1>5, <1>6, <1>7, <1>8 DEF RepairOK
<1>10. Keeps(repair[c], n)
  BY <1>2 DEF Keeps, Announced
<1> QED
  BY <1>4, <1>6, <1>9, <1>10 DEF StepOK

-----------------------------------------------------------------------------
(* The whole invariant.  A lease of a repairer's epoch at the directory is *)
(* one it announces.                                                       *)

LeasesAnnounced ==
    \A c \in Repairers : \A k \in DOMAIN directory : directory[k].epoch = EpochOf[c] =>
        /\ repair[c].at \in Announced
        /\ \E j \in DOMAIN repair[c].providers : directory[k] = repair[c].providers[j]

TransferInv ==
    /\ TransferTypeOK
    /\ UploadConfirmed
    /\ LossCounted(swarm, faults)
    /\ \A c \in Repairers : RepairOK(repair[c], EpochOf[c], swarm, faults)
    /\ LeasesAnnounced

(* The invariant holds at the start.                                       *)
LEMMA TransferInvInit == TransferInit => TransferInv
<1> SUFFICES ASSUME TransferInit
             PROVE  TransferInv
  OBVIOUS
<1>1. swarm \in SwarmType /\ swarm.up = StoragePeers /\ swarm.receipts = {}
  BY DEF TransferInit, SwarmType, Findings
<1>2. NotStarted \in RepairType
  BY DEF NotStarted, RepairType
<1>3. TransferTypeOK
  BY <1>1, <1>2 DEF TransferInit, TransferTypeOK, UploadTypeOK
<1>4. UploadConfirmed
  BY DEF TransferInit, UploadConfirmed
<1>5. LossCounted(swarm, faults)
  <2>1. Lost(swarm) = {} /\ Down(swarm) = {}
    BY <1>1 DEF Lost, Down
  <2>2. Cardinality({}) = 0 /\ faults = 0
    BY FS_EmptySet DEF TransferInit
  <2> QED
    BY <2>1, <2>2 DEF LossCounted
<1>6. ASSUME NEW c \in Repairers
      PROVE  RepairOK(repair[c], EpochOf[c], swarm, faults)
  <2>1. repair[c].at = "idle"
    BY DEF TransferInit, NotStarted
  <2> QED
    BY <2>1 DEF RepairOK
<1>7. LeasesAnnounced
  BY DEF TransferInit, LeasesAnnounced
<1> QED
  BY <1>3, <1>4, <1>5, <1>6, <1>7 DEF TransferInv

(* A repairer's step keeps what is known of all of them.                   *)
LEMMA RepairersKeep ==
    ASSUME TransferInv, NEW c \in Repairers, StepOK(c), Calm(swarm, swarm'), faults' = faults
    PROVE  /\ repair' \in [Repairers -> RepairType]
           /\ \A d \in Repairers : RepairOK(repair'[d], EpochOf[d], swarm', faults')
           /\ \A d \in Repairers : Keeps(repair[d], repair'[d])
<1>1. repair \in [Repairers -> RepairType] /\ faults \in Nat
  BY DEF TransferInv, TransferTypeOK
<1>2. PICK n \in RepairType :
         Step(c, n) /\ RepairOK(n, EpochOf[c], swarm', faults) /\ Keeps(repair[c], n)
  BY DEF StepOK
<1>3. repair' = [repair EXCEPT ![c] = n]
  BY <1>2 DEF Step
<1>4. ASSUME NEW d \in Repairers, d # c
      PROVE  RepairOK(repair'[d], EpochOf[d], swarm', faults') /\ Keeps(repair[d], repair'[d])
  <2>1. repair'[d] = repair[d] /\ repair[d] \in RepairType
    BY <1>1, <1>3, <1>4
  <2>2. RepairOK(repair[d], EpochOf[d], swarm', faults)
    BY <1>1, <2>1, RepairStays DEF TransferInv
  <2> QED
    BY <2>1, <2>2 DEF Keeps
<1>5. repair'[c] = n
  BY <1>1, <1>3
<1> QED
  BY <1>1, <1>2, <1>3, <1>4, <1>5

(* What is published by one who keeps the leases it announces is announced. *)
LEMMA PublishedAnnounced ==
    ASSUME TransferInv, \A d \in Repairers : Keeps(repair[d], repair'[d]),
           NEW r \in Leases, directory' = Published(directory, r),
           \A d \in Repairers : r.epoch = EpochOf[d] =>
               /\ repair[d].at \in Announced
               /\ \E j \in DOMAIN repair[d].providers : r = repair[d].providers[j]
    PROVE  directory' \in Seq(Leases) /\ LeasesAnnounced'
<1>1. directory \in Seq(Leases)
  BY DEF TransferInv, TransferTypeOK
<1>2. /\ directory' \in Seq(Leases)
      /\ \A k \in DOMAIN directory' :
            directory'[k] = r \/ \E j \in DOMAIN directory : directory'[k] = directory[j]
  BY <1>1, PublishedType
<1>3. ASSUME NEW d \in Repairers, NEW k \in DOMAIN directory', directory'[k].epoch = EpochOf[d]
      PROVE  /\ repair[d].at \in Announced
             /\ \E j \in DOMAIN repair[d].providers : directory'[k] = repair[d].providers[j]
  <2>1. CASE directory'[k] = r
    BY <1>3, <2>1
  <2>2. CASE \E j \in DOMAIN directory : directory'[k] = directory[j]
    BY <1>3, <2>2 DEF TransferInv, LeasesAnnounced
  <2> QED
    BY <1>2, <2>1, <2>2
<1>4. LeasesAnnounced'
  BY <1>3 DEF LeasesAnnounced, Keeps
<1> QED
  BY <1>2, <1>4

(* Leases that nobody published since are still announced.                 *)
LEMMA SameLeasesAnnounced ==
    ASSUME TransferInv, \A d \in Repairers : Keeps(repair[d], repair'[d]), UNCHANGED directory
    PROVE  directory' \in Seq(Leases) /\ LeasesAnnounced'
BY DEF TransferInv, TransferTypeOK, LeasesAnnounced, Keeps

(* Every step of a repairer keeps the invariant.                           *)
LEMMA RepairKeepsTransferInv ==
    ASSUME TransferInv, NEW c \in Repairers, RepairBegin(c) \/ RepairStep(c)
    PROVE  TransferInv'
<1>1. TransferTypeOK /\ RepairOK(repair[c], EpochOf[c], swarm, faults)
  BY DEF TransferInv
<1>2. UNCHANGED <<upload, hour, faults>>
  BY DEF RepairBegin, RepairStep, RepairAudit, RepairFetch, RepairStore, RepairPublish
<1>3. StepOK(c) /\ swarm' \in SwarmType /\ Calm(swarm, swarm')
  <2>1. swarm \in SwarmType
    BY <1>1 DEF TransferTypeOK
  <2>2. CASE RepairBegin(c)
    BY <1>1, <2>1, <2>2, RepairBeginOK, CalmReflexive DEF RepairBegin
  <2>3. CASE RepairAudit(c)
    BY <1>1, <2>1, <2>3, RepairAuditOK, CalmReflexive DEF RepairAudit
  <2>4. CASE RepairFetch(c)
    BY <1>1, <2>1, <2>4, RepairFetchOK, CalmReflexive DEF RepairFetch
  <2>5. CASE RepairStore(c)
    BY <1>1, <2>5, RepairStoreOK
  <2>6. CASE RepairPublish(c)
    BY <1>1, <2>1, <2>6, RepairPublishOK, CalmReflexive DEF RepairPublish
  <2> QED
    BY <2>2, <2>3, <2>4, <2>5, <2>6 DEF RepairStep
<1>4. /\ repair' \in [Repairers -> RepairType]
      /\ \A d \in Repairers : RepairOK(repair'[d], EpochOf[d], swarm', faults')
      /\ \A d \in Repairers : Keeps(repair[d], repair'[d])
  BY <1>2, <1>3, RepairersKeep
<1>5. directory' \in Seq(Leases) /\ LeasesAnnounced'
  <2>1. CASE RepairPublish(c)
    <3>1. /\ repair[c].at \in Announced
          /\ \E k \in DOMAIN repair[c].providers :
                /\ directory' = Published(directory, repair[c].providers[k])
                /\ repair[c].providers[k] \in Leases
                /\ repair[c].providers[k].epoch = EpochOf[c]
      BY <1>1, <2>1, RepairPublishOK DEF Announced
    <3>2. \A d \in Repairers : EpochOf[d] = EpochOf[c] => d = c
      BY TransferAssumption
    <3> QED
      BY <1>4, <3>1, <3>2, PublishedAnnounced
  <2>2. CASE UNCHANGED directory
    BY <1>4, <2>2, SameLeasesAnnounced
  <2> QED
    BY <2>1, <2>2 DEF RepairBegin, RepairStep, RepairAudit, RepairFetch, RepairStore
<1>6. UploadConfirmed'
  BY <1>2, <1>3 DEF TransferInv, UploadConfirmed, Confirmed, Calm
<1>7. LossCounted(swarm', faults')
  BY <1>1, <1>2, <1>3, LossStaysCounted DEF TransferInv, TransferTypeOK
<1>8. TransferTypeOK'
  BY <1>1, <1>2, <1>3, <1>4, <1>5 DEF TransferTypeOK, UploadTypeOK, PlanOK
<1> QED
  BY <1>4, <1>5, <1>6, <1>7, <1>8 DEF TransferInv

(* So does a step of the uploader: it announces leases of the epoch 1.     *)
LEMMA UploadKeepsTransferInv ==
    ASSUME TransferInv, UploadPlan \/ UploadPut \/ UploadPublish
    PROVE  TransferInv'
<1>1. TransferTypeOK /\ UNCHANGED <<repair, hour, faults>>
  BY DEF TransferInv, UploadPlan, UploadPut, UploadPublish
<1>2. /\ swarm \in SwarmType /\ faults \in Nat /\ UploadTypeOK /\ UploadConfirmed
      /\ directory \in Seq(Leases)
      /\ upload \in [at: {"idle", "put", "publish", "done"}, plan: Seq(StoragePeers), next: Nat]
  BY DEF TransferInv, TransferTypeOK, UploadTypeOK
<1>3. \A d \in Repairers : Keeps(repair[d], repair'[d])
  BY <1>1 DEF Keeps
<1>4. ASSUME upload.at # "idle"
      PROVE  /\ PlanOK(upload.plan) /\ Len(upload.plan) = DataShards + ParityShards
             /\ Len(upload.plan) \in Nat /\ DOMAIN upload.plan = 1..Len(upload.plan)
             /\ \A k \in 1..Len(upload.plan) :
                   upload.plan[k] \in StoragePeers /\ k \in Nat /\ k - 1 \in ShardIndexes
  <2>1. /\ PlanOK(upload.plan) /\ Len(upload.plan) = DataShards + ParityShards
        /\ Len(upload.plan) \in Nat /\ DOMAIN upload.plan = 1..Len(upload.plan)
    BY <1>2, <1>4 DEF UploadTypeOK, PlanOK
  <2>2. \A k \in 1..Len(upload.plan) : k \in Nat /\ k - 1 \in ShardIndexes
    BY <2>1, ShardIndexesType
  <2> QED
    BY <1>2, <2>1, <2>2
<1>5. ASSUME UploadPlan
      PROVE  /\ UNCHANGED <<swarm, directory>>
             /\ UploadTypeOK' /\ UploadConfirmed'
  <2> DEFINE plan == PlanShardPlacement(swarm.up)
  <2>1. swarm.up \in SUBSET StoragePeers
    BY <1>2 DEF SwarmType
  <2>2. /\ UNCHANGED <<swarm, directory>> /\ Placed(plan)
        /\ upload' = [at |-> "put", plan |-> plan, next |-> 1]
    BY <1>5 DEF UploadPlan
  <2>3. PlanOK(plan)
    BY <2>1, <2>2, PlacementOK
  <2> HIDE DEF plan
  <2>4. plan \in Seq(StoragePeers) /\ 1 \in 1..Len(plan)
    BY <2>3, TransferAssumption DEF PlanOK
  <2>5. UploadTypeOK'
    BY <2>2, <2>3, <2>4 DEF UploadTypeOK
  <2>6. UploadConfirmed'
    BY <2>2 DEF UploadConfirmed, Confirmed
  <2> QED
    BY <2>2, <2>5, <2>6
<1>6. ASSUME UploadPut
      PROVE  /\ UNCHANGED directory /\ swarm' \in SwarmType /\ Calm(swarm, swarm')
             /\ UploadTypeOK' /\ UploadConfirmed'
  <2> DEFINE p == upload.plan[upload.next]
             i == upload.next - 1
             more == [upload EXCEPT !.next = @ + 1]
             last == [upload EXCEPT !.at = "publish", !.next = 1]
             idle == [upload EXCEPT !.at = "idle"]
  <2>1. /\ upload.at = "put" /\ UNCHANGED directory
        /\ \/ /\ swarm' = PutOnce(p, i)
              /\ upload' = IF upload.next < Len(upload.plan) THEN more ELSE last
           \/ swarm' = swarm /\ upload' = idle
    BY <1>6 DEF UploadPut
  <2>2. upload.next \in 1..Len(upload.plan) /\ upload.next \in Nat
    BY <1>2, <2>1 DEF UploadTypeOK
  <2>3. p \in StoragePeers /\ i \in ShardIndexes
    BY <1>4, <2>1, <2>2
  <2>4. ASSUME swarm' = swarm, upload' = idle
        PROVE  /\ swarm' \in SwarmType /\ Calm(swarm, swarm')
               /\ UploadTypeOK' /\ UploadConfirmed'
    <3>1. upload' \in [at: {"idle", "put", "publish", "done"}, plan: Seq(StoragePeers), next: Nat]
          /\ upload'.at = "idle"
      BY <1>2, <2>4
    <3> QED
      BY <1>2, <2>4, <3>1, CalmReflexive DEF UploadTypeOK, UploadConfirmed
  <2>5. ASSUME swarm' = PutOnce(p, i),
               upload' = IF upload.next < Len(upload.plan) THEN more ELSE last
        PROVE  /\ swarm' \in SwarmType /\ Calm(swarm, swarm')
               /\ UploadTypeOK' /\ UploadConfirmed'
    <3>1. swarm' \in SwarmType /\ Calm(swarm, swarm') /\ <<p, i>> \in swarm'.receipts
      BY <1>2, <2>3, <2>5, PutOnceOK
    <3>2. \A k \in 1..upload.next : <<upload.plan[k], k - 1>> \in swarm'.receipts
      <4>1. \A k \in 1..(upload.next - 1) : <<upload.plan[k], k - 1>> \in swarm'.receipts
        BY <1>2, <2>1, <3>1 DEF UploadConfirmed, Confirmed, Calm
      <4>2. \A k \in 1..upload.next : k \in 1..(upload.next - 1) \/ k = upload.next
        BY <2>2
      <4> QED
        BY <3>1, <4>1, <4>2
    <3> HIDE DEF p, i
    <3>3. CASE upload.next < Len(upload.plan)
      <4>1. upload.next + 1 \in Nat /\ upload.next + 1 \in 1..Len(upload.plan)
            /\ (upload.next + 1) - 1 = upload.next
        BY <1>4, <2>1, <2>2, <3>3
      <4>2. /\ upload' \in [at: {"idle", "put", "publish", "done"}, plan: Seq(StoragePeers), next: Nat]
            /\ upload'.at = "put" /\ upload'.plan = upload.plan /\ upload'.next = upload.next + 1
        BY <1>2, <2>1, <2>5, <3>3, <4>1
      <4>3. UploadTypeOK'
        BY <1>4, <2>1, <4>1, <4>2 DEF UploadTypeOK, PlanOK
      <4>4. UploadConfirmed'
        BY <3>2, <4>1, <4>2 DEF UploadConfirmed, Confirmed
      <4> QED
        BY <3>1, <4>3, <4>4
    <3>4. CASE ~ (upload.next < Len(upload.plan))
      <4>1. upload.next = Len(upload.plan) /\ 1 \in 1..Len(upload.plan)
        BY <1>4, <2>1, <2>2, <3>4
      <4>2. /\ upload' \in [at: {"idle", "put", "publish", "done"}, plan: Seq(StoragePeers), next: Nat]
            /\ upload'.at = "publish" /\ upload'.plan = upload.plan /\ upload'.next = 1
        BY <1>2, <2>1, <2>5, <3>4
      <4>3. UploadTypeOK'
        BY <1>4, <2>1, <4>1, <4>2 DEF UploadTypeOK, PlanOK
      <4>4. UploadConfirmed'
        BY <3>2, <4>1, <4>2 DEF UploadConfirmed, Confirmed
      <4> QED
        BY <3>1, <4>3, <4>4
    <3> QED
      BY <3>3, <3>4
  <2> QED
    BY <2>1, <2>4, <2>5
<1>7. ASSUME UploadPublish
      PROVE  /\ swarm' = swarm /\ directory' \in Seq(Leases) /\ LeasesAnnounced'
             /\ UploadTypeOK' /\ UploadConfirmed'
  <2> DEFINE lease == Record(upload.next - 1, upload.plan[upload.next], 1)
             more == [upload EXCEPT !.next = @ + 1]
             done == [upload EXCEPT !.at = "done"]
  <2>1. /\ upload.at = "publish" /\ swarm' = swarm
        /\ directory' = Published(directory, lease)
        /\ upload' = IF upload.next < Len(upload.plan) THEN more ELSE done
    BY <1>7 DEF UploadPublish
  <2>2. upload.next \in 1..Len(upload.plan) /\ upload.next \in Nat
    BY <1>2, <2>1 DEF UploadTypeOK
  <2>3. lease \in Leases /\ lease.epoch = 1
    <3>1. upload.plan[upload.next] \in StoragePeers /\ upload.next - 1 \in ShardIndexes
      BY <1>4, <2>1, <2>2
    <3> QED
      BY <3>1, LeaseType
  <2> HIDE DEF lease
  <2>4. \A d \in Repairers : lease.epoch # EpochOf[d]
    BY <2>3, TransferAssumption
  <2>5. directory' \in Seq(Leases) /\ LeasesAnnounced'
    BY <1>3, <2>1, <2>3, <2>4, PublishedAnnounced
  <2>6. /\ upload' \in [at: {"idle", "put", "publish", "done"}, plan: Seq(StoragePeers), next: Nat]
        /\ upload'.plan = upload.plan
        /\ \/ upload'.at = "publish" /\ upload'.next \in 1..Len(upload.plan)
           \/ upload'.at = "done"
    <3>1. CASE upload.next < Len(upload.plan)
      <4>1. upload.next + 1 \in Nat /\ upload.next + 1 \in 1..Len(upload.plan)
        BY <1>4, <2>1, <2>2, <3>1
      <4> QED
        BY <1>2, <2>1, <3>1, <4>1
    <3>2. CASE ~ (upload.next < Len(upload.plan))
      BY <1>2, <2>1, <3>2
    <3> QED
      BY <3>1, <3>2
  <2>7. UploadTypeOK'
    BY <1>4, <2>1, <2>6 DEF UploadTypeOK, PlanOK
  <2>8. UploadConfirmed'
    BY <1>2, <2>1, <2>6 DEF UploadConfirmed, Confirmed
  <2> QED
    BY <2>1, <2>5, <2>7, <2>8
<1>8. /\ swarm' \in SwarmType /\ Calm(swarm, swarm') /\ UploadTypeOK' /\ UploadConfirmed'
      /\ directory' \in Seq(Leases) /\ LeasesAnnounced'
  <2>1. UNCHANGED directory => LeasesAnnounced'
    BY <1>3, SameLeasesAnnounced
  <2> QED
    BY <1>2, <1>5, <1>6, <1>7, <2>1, CalmReflexive
<1>9. \A d \in Repairers : RepairOK(repair'[d], EpochOf[d], swarm', faults')
  <2>1. \A d \in Repairers : repair[d] \in RepairType
    BY <1>1 DEF TransferTypeOK
  <2> QED
    BY <1>1, <1>2, <1>8, <2>1, RepairStays DEF TransferInv
<1>10. LossCounted(swarm', faults')
  BY <1>1, <1>2, <1>8, LossStaysCounted DEF TransferInv
<1>11. TransferTypeOK'
  BY <1>1, <1>8 DEF TransferTypeOK
<1> QED
  BY <1>8, <1>9, <1>10, <1>11 DEF TransferInv

(* A failing peer takes what it held, and the faults are counted.          *)
LEMMA FailingKeepsTransferInv ==
    ASSUME TransferInv, PeerFails
    PROVE  TransferInv'
<1>1. swarm \in SwarmType /\ faults \in Nat /\ TransferTypeOK
  BY DEF TransferInv, TransferTypeOK
<1>2. /\ swarm' \in SwarmType /\ Fails(swarm, swarm') /\ faults' = faults + 1
      /\ UNCHANGED <<directory, upload, repair, hour>>
  BY <1>1, PeerFailsOK
<1>3. LossCounted(swarm', faults')
  BY <1>1, <1>2, LossStaysCounted DEF TransferInv
<1>4. \A d \in Repairers : RepairOK(repair'[d], EpochOf[d], swarm', faults')
  <2>1. \A d \in Repairers : repair[d] \in RepairType
    BY <1>1 DEF TransferTypeOK
  <2> QED
    BY <1>1, <1>2, <2>1, RepairStays DEF TransferInv
<1>5. UploadConfirmed'
  BY <1>2 DEF TransferInv, UploadConfirmed, Confirmed, Fails
<1>6. LeasesAnnounced'
  BY <1>2 DEF TransferInv, LeasesAnnounced
<1>7. TransferTypeOK'
  <2>1. faults' \in Nat
    BY <1>1, <1>2
  <2> QED
    BY <1>1, <1>2, <2>1 DEF TransferTypeOK, UploadTypeOK, PlanOK
<1> QED
  BY <1>3, <1>4, <1>5, <1>6, <1>7 DEF TransferInv

(* Every step keeps the invariant.                                         *)
LEMMA TransferInvNext == TransferInv /\ [TransferNext]_transferVars => TransferInv'
<1> SUFFICES ASSUME TransferInv, [TransferNext]_transferVars
             PROVE  TransferInv'
  OBVIOUS
<1>1. CASE UploadPlan \/ UploadPut \/ UploadPublish
  BY <1>1, UploadKeepsTransferInv
<1>2. CASE \E c \in Repairers : RepairBegin(c) \/ RepairStep(c)
  BY <1>2, RepairKeepsTransferInv
<1>3. CASE PeerFails
  BY <1>3, FailingKeepsTransferInv
<1>4. ASSUME hour' \in Nat, UNCHANGED <<swarm, directory, upload, repair, faults>>
      PROVE  TransferInv'
  BY <1>4 DEF TransferInv, TransferTypeOK, UploadTypeOK, PlanOK, UploadConfirmed, Confirmed,
              LeasesAnnounced
<1>5. CASE Hour
  <2>1. hour' \in Nat
    BY <1>5 DEF Hour, TransferInv, TransferTypeOK
  <2> QED
    BY <1>4, <1>5, <2>1 DEF Hour
<1>6. CASE UNCHANGED transferVars
  BY <1>4, <1>6 DEF transferVars, TransferInv, TransferTypeOK
<1> QED
  BY <1>1, <1>2, <1>3, <1>5, <1>6 DEF TransferNext, PeerFails

(* So it holds always.                                                     *)
LEMMA TransferInvAlways == TransferSpec => []TransferInv
BY TransferInvInit, TransferInvNext, PTL DEF TransferSpec

(* It says that an upload survives the operators that are gone.            *)
LEMMA OperatorsAlone == TransferInv => OperatorsFailAlone
<1> SUFFICES ASSUME TransferInv, upload.at \in {"publish", "done"},
                    NEW gone \in SUBSET {OperatorOf[p] : p \in StoragePeers}
             PROVE  Cardinality({i \in ShardIndexes :
                        \E p \in StoragePeers : OperatorOf[p] \notin gone /\ Holds(p, i)})
                    + Cardinality(gone) + faults >= DataShards + ParityShards
  BY DEF OperatorsFailAlone
<1>1. /\ swarm \in SwarmType /\ faults \in Nat /\ PlanOK(upload.plan)
      /\ Confirmed(Len(upload.plan)) /\ LossCounted(swarm, faults)
  BY DEF TransferInv, TransferTypeOK, UploadTypeOK, UploadConfirmed
<1> QED
  BY <1>1, UploadSurvives

(* It says that nothing is left to store when a repair is done.            *)
LEMMA RepairedWhole == TransferInv => RepairedIsWhole
<1> SUFFICES ASSUME TransferInv, NEW c \in Repairers, repair[c].at = "done", Quiet(repair[c]),
                    NEW audit \in repair[c].before
             PROVE  \E k \in DOMAIN repair[c].providers :
                       /\ repair[c].providers[k].shard = audit[1]
                       /\ Holds(repair[c].providers[k].peer, audit[1])
  BY DEF RepairedIsWhole
<1>1. HeldAt(repair[c], swarm, audit[1])
  BY DEF TransferInv, RepairOK, TargetsLeft, Renewed, Quiet
<1> QED
  BY <1>1 DEF HeldAt, Has, Holds, Intact

(* Where a shard has one provider at most, two places for it are the same. *)
LEMMA SinglePlace ==
    ASSUME NEW r \in RepairType, NEW j \in DOMAIN r.providers, NEW k \in DOMAIN r.providers,
           r.providers[j].shard = r.providers[k].shard,
           Cardinality(Places(r, r.providers[k].shard)) <= 1
    PROVE  j = k
<1> DEFINE places == Places(r, r.providers[k].shard)
<1>1. DOMAIN r.providers = 1..Len(r.providers) /\ Len(r.providers) \in Nat
  BY DEF RepairType
<1>2. IsFiniteSet(places) /\ places \in SUBSET (1..Len(r.providers)) /\ j \in places /\ k \in places
  <2>1. places \in SUBSET (1..Len(r.providers)) /\ j \in places /\ k \in places
    BY <1>1 DEF Places
  <2>2. IsFiniteSet(1..Len(r.providers))
    BY <1>1, PlacesAreFinite
  <2> HIDE DEF places
  <2> QED
    BY <2>1, <2>2, FS_Subset
<1>3. Cardinality(places) \in Nat /\ Cardinality(places) # 0
  BY <1>2, FS_CardinalityType, FS_EmptySet
<1>4. Cardinality(places) = 1
  BY <1>3
<1>5. PICK x : places = {x}
  BY <1>2, <1>4, FS_Singleton
<1> QED
  BY <1>2, <1>5

(* It says whom the leases at the directory name.                          *)
LEMMA RenewedHeld == TransferInv => RenewedLeasesAreHeld
<1> SUFFICES ASSUME TransferInv, NEW c \in Repairers, repair[c].at = "done", Quiet(repair[c]),
                    \A i \in ShardIndexes : Cardinality(Places(repair[c], i)) <= 1,
                    repair[c].checked = Len(repair[c].providers),
                    NEW n \in DOMAIN directory, directory[n].epoch = EpochOf[c]
             PROVE  Holds(directory[n].peer, directory[n].shard)
  BY DEF RenewedLeasesAreHeld
<1> DEFINE r == repair[c]
<1>1. r \in RepairType /\ RepairOK(r, EpochOf[c], swarm, faults)
  BY DEF TransferInv, TransferTypeOK
<1>2. PICK j \in DOMAIN r.providers : directory[n] = r.providers[j]
  BY DEF TransferInv, LeasesAnnounced
<1>3. r.providers \in Seq(Leases) /\ DOMAIN r.providers = 1..Len(r.providers)
  BY <1>1 DEF RepairType
<1>4. r.providers[j].shard \in ShardIndexes
  BY <1>3, LeaseType
<1>5. PICK x : <<r.providers[j].shard, x>> \in r.before
  BY <1>1, <1>2, <1>3 DEF RepairOK, BeforeKnown, AskedFor
<1>6. HeldAt(r, swarm, r.providers[j].shard)
  BY <1>1, <1>5 DEF RepairOK, TargetsLeft, Renewed, Quiet
<1>7. PICK k \in DOMAIN r.providers :
         /\ r.providers[k].shard = r.providers[j].shard
         /\ Has(swarm, r.providers[k].peer, r.providers[j].shard)
  BY <1>6 DEF HeldAt
<1>8. j = k
  BY <1>1, <1>4, <1>7, SinglePlace
<1> QED
  BY <1>2, <1>7, <1>8 DEF Has, Holds, Intact

(* With ParityShards operators and as many faults between them, an upload  *)
(* that was confirmed is still there: the placement keeps its promise.     *)
THEOREM OperatorsAlwaysFailAlone == TransferSpec => []OperatorsFailAlone
BY TransferInvAlways, OperatorsAlone, PTL

(* A repair that ends well leaves every shard it asked for with a provider *)
(* it announces, whoever repairs at the same time.                         *)
THEOREM RepairedAlwaysWhole == TransferSpec => []RepairedIsWhole
BY TransferInvAlways, RepairedWhole, PTL

(* The leases that a repair renewed or made name peers that hold the shard. *)
THEOREM RenewedAlwaysHeld == TransferSpec => []RenewedLeasesAreHeld
BY TransferInvAlways, RenewedHeld, PTL

-----------------------------------------------------------------------------
(* Repairs go forward: each of their actions does. *)

(* The phases are told apart by their names, and numbered in their order.  *)
LEMMA PhaseNumbers ==
    ASSUME NEW r
    PROVE  /\ r.at = "idle" => Phase(r) = 1
           /\ r.at = "audit" => Phase(r) = 2
           /\ r.at = "fetch" => Phase(r) = 3
           /\ r.at = "store" => Phase(r) = 4
           /\ r.at = "publish" => Phase(r) = 5
           /\ r.at = "check" => Phase(r) = 6
           /\ r.at \in {"done", "failed", "unneeded"} => Phase(r) = 7
<1> DEFINE name == IF r.at \in {"done", "failed", "unneeded"} THEN "over" ELSE r.at
<1>1. DOMAIN Phases = 1..7
  BY DEF Phases
<1>2. /\ Phases[1] = "idle" /\ Phases[2] = "audit" /\ Phases[3] = "fetch"
      /\ Phases[4] = "store" /\ Phases[5] = "publish" /\ Phases[6] = "check"
      /\ Phases[7] = "over"
  BY DEF Phases
<1>3. \A m, n \in 1..7 : Phases[m] = Phases[n] => m = n
  BY <1>2
<1>4. \A n \in 1..7 : Phases[n] = name => Phase(r) = n
  BY <1>1, <1>3 DEF Phase
<1> QED
  BY <1>2, <1>4

(* What a step of the repairer c brings further.                           *)
Forward(c) == \E new : Step(c, new) /\ Further(new, repair[c])

(* It begins.                                                              *)
LEMMA BeginForward ==
    ASSUME NEW c \in Repairers, RepairBegin(c)
    PROVE  Forward(c)
<1>1. PICK providers :
         Step(c, [NotStarted EXCEPT !.at = IF providers = <<>> THEN "failed" ELSE "audit",
                                    !.now = hour, !.providers = providers,
                                    !.others = swarm.up, !.faults = faults])
  BY DEF RepairBegin
<1> DEFINE new == [NotStarted EXCEPT !.at = IF providers = <<>> THEN "failed" ELSE "audit",
                                     !.now = hour, !.providers = providers,
                                     !.others = swarm.up, !.faults = faults]
<1>2. new.at \in {"failed", "audit"} /\ repair[c].at = "idle"
  BY DEF NotStarted, RepairBegin
<1> HIDE DEF new
<1>3. Phase(new) > Phase(repair[c])
  BY <1>2, PhaseNumbers
<1> QED
  BY <1>1, <1>3 DEF Forward, Further, new

(* An audit goes to the next provider, or on to what follows.              *)
LEMMA AuditForward ==
    ASSUME TransferTypeOK, NEW c \in Repairers, RepairAudit(c),
           RepairOK(repair[c], EpochOf[c], swarm, faults)
    PROVE  Forward(c)
<1> DEFINE r == repair[c]
           provider == r.providers[r.next]
           audit    == <<provider.shard, AuditShard(provider.peer, provider.shard)>>
           audited  == IF IsActive(provider, r.now)
                       THEN [r EXCEPT !.found = @ \cup {audit},
                                      !.checked = IF r.at = "audit" THEN @ + 1 ELSE @]
                       ELSE r
           next     == [audited EXCEPT !.next = @ + 1]
<1>1. /\ r.at \in {"audit", "check"}
      /\ Step(c, IF AtLast(r) THEN Concluded(audited) ELSE next)
  BY DEF RepairAudit
<1>2. r \in RepairType /\ r.next \in 1..Len(r.providers) /\ r.providers \in Seq(Leases)
  BY <1>1, RepairerType DEF RepairOK
<1> HIDE DEF provider, audit, r
<1>3. /\ audited.at = r.at /\ audited.next = r.next /\ audited.providers = r.providers
      /\ \A at : [audited EXCEPT !.at = at].at = at
      /\ [audited EXCEPT !.at = "fetch", !.next = 1, !.before = audited.found,
                         !.found = {}].at = "fetch"
      /\ next.at = r.at /\ next.next = r.next + 1 /\ next.providers = r.providers
  BY <1>2 DEF RepairType
<1> HIDE DEF audited, next
<1>4. CASE AtLast(r)
  <2>1. \/ r.at = "check" /\ Concluded(audited).at = "done"
        \/ r.at = "audit" /\ Concluded(audited).at \in {"failed", "fetch", "unneeded"}
    BY <1>1, <1>3 DEF Concluded
  <2>2. Phase(Concluded(audited)) > Phase(r)
    BY <2>1, PhaseNumbers
  <2> QED
    BY <1>1, <1>4, <2>2 DEF Forward, Further, r
<1>5. CASE ~ AtLast(r)
  <2>1. Step(c, next)
    BY <1>1, <1>5
  <2>2. next.next = r.next + 1 /\ next.next <= Len(next.providers)
    BY <1>2, <1>3, <1>5 DEF AtLast
  <2>3. Further(next, r)
    BY <1>1, <1>3, <2>2 DEF Further
  <2> QED
    BY <2>1, <2>3 DEF Forward, r
<1> QED
  BY <1>4, <1>5

(* What is stored is announced, and so the repair is further.              *)
LEMMA StoredForward ==
    ASSUME NEW r \in RepairType, NEW c, r.at = "store", r.targets = {}
    PROVE  Phase(Stored(r, c)) = 5
<1>1. Stored(r, c).at = "publish"
  BY DEF Stored, RepairType
<1> QED
  BY <1>1, PhaseNumbers

(* Fetching goes to the next provider, or to the first target.             *)
LEMMA FetchForward ==
    ASSUME TransferTypeOK, NEW c \in Repairers, RepairFetch(c),
           RepairOK(repair[c], EpochOf[c], swarm, faults)
    PROVE  Forward(c)
<1> DEFINE r == repair[c]
           failed == [r EXCEPT !.at = "failed"]
           next   == [r EXCEPT !.next = @ + 1]
           stores == [r EXCEPT !.at = "store", !.targets = RepairTargets(r)]
<1>1. /\ r.at = "fetch"
      /\ \/ Step(c, failed)
         \/ ~ AtLast(r) /\ Step(c, next)
         \/ Step(c, Stored(stores, c))
  BY DEF RepairFetch
<1>2. r \in RepairType /\ r.next \in 1..Len(r.providers) /\ r.providers \in Seq(Leases)
  BY <1>1, RepairerType DEF RepairOK
<1> HIDE DEF r
<1>3. RepairTargets(r) \in SUBSET ShardIndexes
  BY DEF RepairTargets, Missing, Corrupt, Indexes
<1>4. /\ failed.at = "failed" /\ stores.at = "store" /\ stores \in RepairType
      /\ next.at = r.at /\ next.next = r.next + 1 /\ next.providers = r.providers
  BY <1>2, <1>3 DEF RepairType
<1> HIDE DEF failed, next, stores
<1>5. CASE Step(c, failed)
  <2>1. Phase(failed) > Phase(r)
    BY <1>1, <1>4, PhaseNumbers
  <2> QED
    BY <1>5, <2>1 DEF Forward, Further, r
<1>6. CASE ~ AtLast(r) /\ Step(c, next)
  <2>1. next.next = r.next + 1 /\ next.next <= Len(next.providers)
    BY <1>2, <1>4, <1>6 DEF AtLast
  <2>2. Further(next, r)
    BY <1>1, <1>4, <2>1 DEF Further
  <2> QED
    BY <1>6, <2>2 DEF Forward, r
<1>7. CASE Step(c, Stored(stores, c))
  <2>1. Phase(Stored(stores, c)) \in {4, 5}
    <3>1. CASE stores.targets = {}
      BY <1>4, <3>1, StoredForward
    <3>2. CASE stores.targets # {}
      <4>1. Stored(stores, c) = stores
        BY <3>2 DEF Stored
      <4> QED
        BY <1>4, <4>1, PhaseNumbers
    <3> QED
      BY <3>1, <3>2
  <2>2. Phase(Stored(stores, c)) > Phase(r)
    BY <1>1, <2>1, PhaseNumbers
  <2> QED
    BY <1>7, <2>2 DEF Forward, Further, r
<1> QED
  BY <1>1, <1>5, <1>6, <1>7

(* Storing leaves a target less, or a peer less to try for it.             *)
LEMMA StoreForward ==
    ASSUME TransferTypeOK, NEW c \in Repairers, RepairStore(c),
           RepairOK(repair[c], EpochOf[c], swarm, faults)
    PROVE  Forward(c)
<1> DEFINE r   == repair[c]
           i   == Min(r.targets)
           old == r.providers[Max(Places(r, i))].peer
           p   == NextPeer(r, i, old)
           at  == Min(Places(r, i))
           lease  == Record(i, p, EpochOf[c])
           stored == [r EXCEPT !.providers[at] = lease, !.targets = @ \ {i}, !.tried = "nothing"]
           again  == [r EXCEPT !.tried = "preferred"]
           failed == [r EXCEPT !.at = "failed"]
<1>1. /\ r.at = "store"
      /\ \/ Step(c, Stored(stored, c))
         \/ r.tried = "nothing" /\ Step(c, again)
         \/ Step(c, failed)
  BY DEF RepairStore, Retried
<1>2. r \in RepairType /\ r.targets # {}
  BY <1>1, RepairerType DEF RepairOK
<1>3. i \in r.targets
  <2>1. r.targets \in SUBSET Nat
    BY <1>2, ShardIndexesType DEF RepairType
  <2> QED
    BY <1>2, <2>1, MinIsLeast
<1> HIDE DEF r, i, old, p, at, lease
<1>4. /\ failed.at = "failed"
      /\ again.at = "store" /\ again.targets = r.targets /\ again.tried = "preferred"
      /\ stored.at = "store" /\ stored.targets = r.targets \ {i}
      /\ [stored EXCEPT !.at = "publish", !.next = 1,
              !.providers = [k \in DOMAIN stored.providers |->
                  Record(stored.providers[k].shard, stored.providers[k].peer, EpochOf[c])]].at
         = "publish"
  BY <1>1, <1>2 DEF RepairType
<1> HIDE DEF failed, again, stored
<1>5. CASE Step(c, failed)
  <2>1. Phase(failed) > Phase(r)
    BY <1>1, <1>4, PhaseNumbers
  <2> QED
    BY <1>5, <2>1 DEF Forward, Further, r
<1>6. CASE r.tried = "nothing" /\ Step(c, again)
  <2>1. Further(again, r)
    BY <1>1, <1>4, <1>6 DEF Further
  <2> QED
    BY <1>6, <2>1 DEF Forward, r
<1>7. CASE Step(c, Stored(stored, c))
  <2>1. CASE stored.targets = {}
    <3>1. Stored(stored, c).at = "publish"
      BY <1>4, <2>1 DEF Stored
    <3>2. Phase(Stored(stored, c)) > Phase(r)
      BY <1>1, <3>1, PhaseNumbers
    <3> QED
      BY <1>7, <3>2 DEF Forward, Further, r
  <2>2. CASE stored.targets # {}
    <3>1. Stored(stored, c) = stored
      BY <2>2 DEF Stored
    <3>2. Further(stored, r)
      BY <1>1, <1>3, <1>4 DEF Further
    <3> QED
      BY <1>7, <3>1, <3>2 DEF Forward, r
  <2> QED
    BY <2>1, <2>2
<1> QED
  BY <1>1, <1>5, <1>6, <1>7

(* Announcing goes to the next provider, or on to the check.               *)
LEMMA PublishForward ==
    ASSUME TransferTypeOK, NEW c \in Repairers, RepairPublish(c),
           RepairOK(repair[c], EpochOf[c], swarm, faults)
    PROVE  Forward(c)
<1> DEFINE r == repair[c]
           check == [r EXCEPT !.at = "check", !.next = 1]
           next  == [r EXCEPT !.next = @ + 1]
<1>1. r.at = "publish" /\ Step(c, IF AtLast(r) THEN check ELSE next)
  BY DEF RepairPublish
<1>2. r \in RepairType /\ r.next \in 1..Len(r.providers) /\ r.providers \in Seq(Leases)
  BY <1>1, RepairerType DEF RepairOK
<1> HIDE DEF r
<1>3. /\ check.at = "check"
      /\ next.at = r.at /\ next.next = r.next + 1 /\ next.providers = r.providers
  BY <1>2 DEF RepairType
<1> HIDE DEF check, next
<1>4. CASE AtLast(r)
  <2>1. Phase(check) > Phase(r)
    BY <1>1, <1>3, PhaseNumbers
  <2> QED
    BY <1>1, <1>4, <2>1 DEF Forward, Further, r
<1>5. CASE ~ AtLast(r)
  <2>1. next.next = r.next + 1 /\ next.next <= Len(next.providers)
    BY <1>2, <1>3, <1>5 DEF AtLast
  <2>2. Further(next, r)
    BY <1>1, <1>3, <2>1 DEF Further
  <2> QED
    BY <1>1, <1>5, <2>2 DEF Forward, r
<1> QED
  BY <1>4, <1>5

(* Whatever fails and however many repair, with whatever peers, shards and *)
(* leases: no step takes a repair back.  As its providers and its targets  *)
(* are finitely many, so are its steps.                                    *)
THEOREM RepairsAlwaysForward == TransferSpec => RepairGoesForward
<1> DEFINE Progress == \A c \in Repairers :
        repair'[c] # repair[c] => Further(repair'[c], repair[c])
<1>1. ASSUME TransferInv, NEW c \in Repairers, RepairBegin(c) \/ RepairStep(c)
      PROVE  Progress
  <2>1. TransferTypeOK /\ RepairOK(repair[c], EpochOf[c], swarm, faults)
    BY <1>1 DEF TransferInv
  <2>2. Forward(c)
    BY <1>1, <2>1, BeginForward, AuditForward, FetchForward, StoreForward, PublishForward
       DEF RepairStep
  <2>3. PICK new : repair' = [repair EXCEPT ![c] = new] /\ Further(new, repair[c])
    BY <2>2 DEF Forward, Step
  <2>4. DOMAIN repair = Repairers
    BY <2>1 DEF TransferTypeOK
  <2> QED
    BY <2>3, <2>4
<1>2. ASSUME TransferNext, ~ \E c \in Repairers : RepairBegin(c) \/ RepairStep(c)
      PROVE  repair' = repair
  BY <1>2 DEF TransferNext, UploadPlan, UploadPut, UploadPublish, RemoveShard, CorruptShard,
              RemovePeer, AddPeer, Fault, Hour
<1>3. TransferInv /\ [TransferNext]_transferVars => [Progress]_transferVars
  BY <1>1, <1>2
<1> QED
  BY <1>3, TransferInvAlways, PTL DEF TransferSpec, RepairGoesForward
=============================================================================

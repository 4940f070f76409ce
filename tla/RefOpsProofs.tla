---------------------------- MODULE RefOpsProofs ----------------------------
(***************************************************************************)
(* What the operators of RefOps do to a store, for every store and every   *)
(* update: the lemmas the proofs about RefStore, RefDaemon and PushHelper  *)
(* rest on.                                                                *)
(***************************************************************************)
EXTENDS RefOps, WellFoundedInduction, TLAPS

(* The operators of RefLog, whatever its log is. *)
G == INSTANCE RefLog WITH log <- <<>>, durable <- 0

-----------------------------------------------------------------------------
(* Types. *)

(* The empty sequence is the one of length zero.                           *)
LEMMA EmptySeq ==
    ASSUME NEW S, NEW q \in Seq(S), Len(q) = 0
    PROVE  q = <<>>
OBVIOUS

(* RefStore::default() is a store. *)
LEMMA EmptyStoreType == EmptyStore \in Store
BY DEF EmptyStore, EmptyRefs, Store, RefMap, Target

(* A checkpoint built from typed parts is a Checkpoint. *)
LEMMA NewCheckpointType ==
    ASSUME NEW cs \in Seq(Checkpoint), NEW m \in Mutation, NEW refs \in RefMap
    PROVE  NewCheckpoint(cs, m, refs) \in Checkpoint
<1> DEFINE n == Len(cs)
           parent == IF n = 0 THEN NoCid ELSE cs[n].cid
           previous == IF n = 0 THEN NoHistory ELSE cs[n].historyRoot
           history == Append(previous, m)
<1>1. n # 0 => cs[n] \in Checkpoint
  OBVIOUS
<1>2. parent \in Cid
  BY <1>1 DEF Checkpoint, NoCid, Cid
<1>3. history \in Seq(Mutation)
  BY <1>1 DEF Checkpoint, NoHistory
<1>4. m.sequence \in Nat
  BY DEF Mutation
<1>5. [sequence |-> m.sequence, refsRoot |-> refs, historyRoot |-> history] \in CidBody
  BY <1>3, <1>4 DEF CidBody
<1>6. ComputeCheckpointCid(m.sequence, parent, refs, history) \in Cid
  BY <1>2, <1>5 DEF ComputeCheckpointCid, Cid
<1> QED
  BY <1>2, <1>3, <1>4, <1>6 DEF NewCheckpoint, Checkpoint, ComputeHistoryRoot

(* Deciding an update gives a receipt of the kind a store records. *)
LEMMA DecideType ==
    ASSUME NEW s \in Store, NEW op \in Op
    PROVE  Decide(s, op) \in Receipt
BY DEF Decide, Committed, Conflict, Receipt, Store, Op, RefMap

(* Applying an update to a store gives a store. *)
LEMMA ApplyUpdateType ==
    ASSUME NEW s \in Store, NEW tx \in TxIds, NEW op \in Op
    PROVE  ApplyUpdate(s, tx, op) \in Store
<1> DEFINE receipt == Decide(s, op)
           refs == [s.refs EXCEPT ![op.ref] = op.new]
           m == CommittedMutation(s, tx, op, receipt)
<1>1. receipt \in Receipt
  BY DecideType
<1>2. Record(s, tx, op, receipt) \in [TxIds -> ReceiptEntry \cup {NoReceipt}]
  BY <1>1 DEF Record, Store, ReceiptEntry
<1>3. refs \in RefMap
  BY DEF Store, RefMap, Op
<1>4. m \in Mutation
  BY <1>1 DEF CommittedMutation, Mutation, Receipt, Store
<1>5. NewCheckpoint(s.checkpoints, m, refs) \in Checkpoint
  BY <1>3, <1>4, NewCheckpointType DEF Store
<1>6. CommitUpdate(s, tx, op) \in Store
  BY <1>2, <1>3, <1>4, <1>5 DEF CommitUpdate, Store
<1>7. RejectUpdate(s, tx, op) \in Store
  BY <1>2 DEF RejectUpdate, Store
<1> QED
  BY <1>6, <1>7 DEF ApplyUpdate

(* Whatever a known transaction answers is an answer. *)
LEMMA PreflightType ==
    ASSUME NEW s \in Store, NEW tx \in TxIds, NEW op \in Op, Known(s, tx)
    PROVE  PreflightReceipt(s, tx, op) \in Receipt \cup {IdempotencyViolation}
<1>1. s.receipts[tx] \in ReceiptEntry
  BY DEF Known, Store
<1> QED
  BY <1>1 DEF PreflightReceipt, ReceiptEntry

-----------------------------------------------------------------------------
(* Consistency.  ConsistentStore is what from_snapshot checks, written     *)
(* without recursion, and applying an update preserves it: the first n     *)
(* entries are untouched, and entry n + 1 is what append_checkpoint made.  *)

(* The conjunct of ConsistentStore about entry i. *)
ConsistentEntry(s, i) ==
    /\ MutationInSequence(s, i)
    /\ MutationFollows(s, i)
    /\ MutationHasReceipt(s, i)
    /\ CheckpointRecomputes(s, i)

(* An empty store is consistent: what load_from_path returns without file. *)
LEMMA EmptyStoreConsistent == ConsistentStore(EmptyStore)
BY DEF ConsistentStore, EmptyStore, ReplayedRefs

(* A committed transaction leaves the entries before it as they were.      *)
LEMMA CommitKeepsEntry ==
    ASSUME NEW s \in Store, NEW tx \in TxIds, NEW op \in Op,
           ~ Known(s, tx),
           Len(s.mutations) = Len(s.checkpoints),
           NEW i \in 1..Len(s.mutations), ConsistentEntry(s, i)
    PROVE  ConsistentEntry(CommitUpdate(s, tx, op), i)
<1> DEFINE t == CommitUpdate(s, tx, op)
<1>1. s.mutations \in Seq(Mutation) /\ s.checkpoints \in Seq(Checkpoint)
  BY DEF Store
<1>2. t.mutations[i] = s.mutations[i]
  BY <1>1 DEF CommitUpdate
<1>3. \A j \in 1..i : t.checkpoints[j] = s.checkpoints[j]
  BY <1>1 DEF CommitUpdate
<1>4. i # 1 => i - 1 \in 1..i
  OBVIOUS
<1>5. /\ RefsBefore(t, i) = RefsBefore(s, i)
      /\ ParentOf(t, i) = ParentOf(s, i)
      /\ HistoryBefore(t, i) = HistoryBefore(s, i)
  BY <1>3, <1>4 DEF RefsBefore, ParentOf, HistoryBefore
<1>6. s.mutations[i].tx # tx /\ s.mutations[i].tx \in TxIds
  <2>1. s.mutations[i] \in Mutation
    BY <1>1
  <2>2. s.receipts[s.mutations[i].tx] # NoReceipt
    BY DEF ConsistentEntry, MutationHasReceipt
  <2> QED
    BY <2>1, <2>2 DEF Known, Mutation
<1>7. t.receipts[s.mutations[i].tx] = s.receipts[s.mutations[i].tx]
  BY <1>6 DEF CommitUpdate, Record, Store
<1>8. MutationInSequence(t, i) /\ MutationFollows(t, i)
  BY <1>2, <1>5 DEF ConsistentEntry, MutationInSequence, MutationFollows
<1>9. MutationHasReceipt(t, i)
  BY <1>2, <1>7 DEF ConsistentEntry, MutationHasReceipt
<1>10. CheckpointRecomputes(t, i)
  BY <1>2, <1>3, <1>5 DEF ConsistentEntry, CheckpointRecomputes
<1> QED
  BY <1>8, <1>9, <1>10 DEF ConsistentEntry

(* The entry a committed transaction adds is consistent.                   *)
LEMMA CommitAddsEntry ==
    ASSUME NEW s \in Store, NEW tx \in TxIds, NEW op \in Op,
           ConsistentStore(s), CasHolds(s, op)
    PROVE  ConsistentEntry(CommitUpdate(s, tx, op), Len(s.mutations) + 1)
<1> DEFINE t == CommitUpdate(s, tx, op)
           n == Len(s.mutations)
           receipt == Committed(op.ref, s.refs[op.ref], op.new)
           refs == [s.refs EXCEPT ![op.ref] = op.new]
           m == CommittedMutation(s, tx, op, receipt)
           c == NewCheckpoint(s.checkpoints, m, refs)
<1>1. s.mutations \in Seq(Mutation) /\ s.checkpoints \in Seq(Checkpoint) /\ n \in Nat
  BY DEF Store
<1>2. n = Len(s.checkpoints)
  BY DEF ConsistentStore
<1>3. Decide(s, op) = receipt
  BY DEF Decide
<1>4. /\ t.mutations = Append(s.mutations, m)
      /\ t.checkpoints = Append(s.checkpoints, c)
      /\ t.receipts = Record(s, tx, op, receipt)
  BY <1>3 DEF CommitUpdate
<1>5. t.mutations[n + 1] = m /\ t.checkpoints[n + 1] = c
  BY <1>1, <1>2, <1>4
<1>6. n # 0 => t.checkpoints[n] = s.checkpoints[n]
  BY <1>1, <1>2, <1>4
<1>7. n + 1 = 1 <=> n = 0
  BY <1>1
<1>8. /\ RefsBefore(t, n + 1) = s.refs
      /\ ParentOf(t, n + 1) = IF n = 0 THEN NoCid ELSE s.checkpoints[n].cid
      /\ HistoryBefore(t, n + 1) = IF n = 0 THEN NoHistory ELSE s.checkpoints[n].historyRoot
  <2>1. CASE n = 0
    <3>1. s.checkpoints = <<>>
      BY <1>1, <1>2, <2>1, EmptySeq
    <3> QED
      BY <2>1, <3>1 DEF RefsBefore, ParentOf, HistoryBefore, ConsistentStore, ReplayedRefs
  <2>2. CASE n # 0
    <3>1. s.checkpoints # <<>> /\ n + 1 - 1 = n /\ n + 1 # 1
      BY <1>1, <1>2, <2>2
    <3>2. s.refs = s.checkpoints[n].refsRoot
      BY <1>2, <3>1 DEF ConsistentStore, ReplayedRefs
    <3> QED
      BY <1>6, <2>2, <3>1, <3>2 DEF RefsBefore, ParentOf, HistoryBefore
  <2> QED
    BY <2>1, <2>2
<1>9. /\ m.sequence = n + 1 /\ m.tx = tx /\ m.op = op
      /\ m.ref = op.ref /\ m.old = s.refs[op.ref] /\ m.new = op.new
  BY DEF CommittedMutation, Committed
<1>10. MutationInSequence(t, n + 1) /\ MutationFollows(t, n + 1)
  BY <1>5, <1>8, <1>9 DEF MutationInSequence, MutationFollows
<1>11. t.receipts[tx] = [op |-> op, receipt |-> receipt]
  BY <1>4 DEF Record, Store
<1>12. receipt \in Receipt
  BY <1>3, DecideType
<1>13. t.receipts[tx] \in ReceiptEntry
  BY <1>11, <1>12 DEF ReceiptEntry
<1>14. MutationHasReceipt(t, n + 1)
  BY <1>5, <1>9, <1>11, <1>13, NoReceiptAssumption DEF MutationHasReceipt, Committed
<1>15. c = [sequence |-> m.sequence, parent |-> ParentOf(t, n + 1), refsRoot |-> refs,
            historyRoot |-> ComputeHistoryRoot(HistoryBefore(t, n + 1), m),
            cid |-> ComputeCheckpointCid(m.sequence, ParentOf(t, n + 1), refs,
                        ComputeHistoryRoot(HistoryBefore(t, n + 1), m))]
  BY <1>2, <1>8 DEF NewCheckpoint
<1>16. CheckpointRecomputes(t, n + 1)
  BY <1>5, <1>8, <1>9, <1>15 DEF CheckpointRecomputes
<1> QED
  BY <1>10, <1>14, <1>16 DEF ConsistentEntry

(* Applying an update to a consistent store leaves it consistent.          *)
LEMMA ApplyUpdateConsistent ==
    ASSUME NEW s \in Store, NEW tx \in TxIds, NEW op \in Op,
           ConsistentStore(s), ~ Known(s, tx)
    PROVE  ConsistentStore(ApplyUpdate(s, tx, op))
<1>1. s.mutations \in Seq(Mutation) /\ s.checkpoints \in Seq(Checkpoint)
  BY DEF Store
<1>2. Len(s.mutations) = Len(s.checkpoints) /\ Len(s.mutations) \in Nat
  BY <1>1 DEF ConsistentStore
<1>3. ASSUME CasHolds(s, op)
      PROVE  ConsistentStore(CommitUpdate(s, tx, op))
  <2> DEFINE t == CommitUpdate(s, tx, op)
             n == Len(s.mutations)
  <2>1. Len(t.mutations) = n + 1 /\ Len(t.checkpoints) = n + 1
    BY <1>1, <1>2 DEF CommitUpdate
  <2>2. ASSUME NEW i \in 1..(n + 1)
        PROVE  ConsistentEntry(t, i)
    <3>1. CASE i \in 1..n
      <4>1. ConsistentEntry(s, i)
        BY <3>1 DEF ConsistentStore, ConsistentEntry
      <4> QED
        BY <1>2, <3>1, <4>1, CommitKeepsEntry
    <3>2. CASE i = n + 1
      BY <1>3, <3>2, CommitAddsEntry
    <3> QED
      BY <1>2, <3>1, <3>2
  <2>3. t.refs = ReplayedRefs(t)
    <3> DEFINE refs == [s.refs EXCEPT ![op.ref] = op.new]
               m == CommittedMutation(s, tx, op, Decide(s, op))
    <3>1. t.checkpoints[n + 1] = NewCheckpoint(s.checkpoints, m, refs)
      BY <1>1, <1>2 DEF CommitUpdate
    <3>2. t.checkpoints # <<>>
      BY <1>2, <2>1
    <3>3. t.checkpoints[n + 1].refsRoot = refs
      BY <3>1 DEF NewCheckpoint
    <3>4. t.refs = refs
      BY DEF CommitUpdate
    <3> QED
      BY <2>1, <3>2, <3>3, <3>4 DEF ReplayedRefs
  <2> QED
    BY <2>1, <2>2, <2>3 DEF ConsistentStore, ConsistentEntry
<1>4. ASSUME ~ CasHolds(s, op)
      PROVE  ConsistentStore(RejectUpdate(s, tx, op))
  <2> DEFINE t == RejectUpdate(s, tx, op)
  <2>1. /\ t.refs = s.refs /\ t.mutations = s.mutations /\ t.checkpoints = s.checkpoints
        /\ t.receipts = Record(s, tx, op, Decide(s, op))
    BY DEF RejectUpdate, Store
  <2>2. ASSUME NEW i \in 1..Len(s.mutations)
        PROVE  ConsistentEntry(t, i)
    <3>1. ConsistentEntry(s, i)
      BY DEF ConsistentStore, ConsistentEntry
    <3>2. s.mutations[i].tx # tx /\ s.mutations[i].tx \in TxIds
      <4>1. s.mutations[i] \in Mutation
        BY <1>1
      <4>2. s.receipts[s.mutations[i].tx] # NoReceipt
        BY <3>1 DEF ConsistentEntry, MutationHasReceipt
      <4> QED
        BY <4>1, <4>2 DEF Known, Mutation
    <3>3. t.receipts[s.mutations[i].tx] = s.receipts[s.mutations[i].tx]
      BY <2>1, <3>2 DEF Record, Store
    <3> QED
      BY <2>1, <3>1, <3>3 DEF ConsistentEntry, MutationInSequence, MutationFollows,
           MutationHasReceipt, CheckpointRecomputes, RefsBefore, ParentOf, HistoryBefore
  <2> QED
    BY <1>2, <2>1, <2>2 DEF ConsistentStore, ConsistentEntry, ReplayedRefs
<1> QED
  BY <1>3, <1>4 DEF ApplyUpdate

-----------------------------------------------------------------------------
(* Receipts and the log. *)

(* Both outcomes record the decision, and nothing else, as the receipt.    *)
LEMMA ApplyUpdateRecords ==
    ASSUME NEW s \in Store, NEW tx \in TxIds, NEW op \in Op
    PROVE  LET t == ApplyUpdate(s, tx, op)
           IN  /\ Known(t, tx)
               /\ t.receipts[tx] = [op |-> op, receipt |-> Decide(s, op)]
               /\ \A x \in TxIds \ {tx} : t.receipts[x] = s.receipts[x]
<1> DEFINE t == ApplyUpdate(s, tx, op)
<1>1. CommitUpdate(s, tx, op).receipts = Record(s, tx, op, Decide(s, op))
  BY DEF CommitUpdate
<1>2. RejectUpdate(s, tx, op).receipts = Record(s, tx, op, Decide(s, op))
  BY DEF RejectUpdate, Store
<1>3. t.receipts = Record(s, tx, op, Decide(s, op))
  BY <1>1, <1>2 DEF ApplyUpdate
<1>4. s.receipts \in [TxIds -> ReceiptEntry \cup {NoReceipt}]
  BY DEF Store
<1>5. /\ t.receipts[tx] = [op |-> op, receipt |-> Decide(s, op)]
      /\ \A x \in TxIds \ {tx} : t.receipts[x] = s.receipts[x]
  BY <1>3, <1>4 DEF Record
<1>6. t.receipts[tx] \in ReceiptEntry
  BY <1>5, DecideType DEF ReceiptEntry
<1> QED
  BY <1>5, <1>6, NoReceiptAssumption DEF Known

(* What committing an update does to the log: one entry, for that update.  *)
LEMMA CommitUpdateLog ==
    ASSUME NEW s \in Store, NEW tx \in TxIds, NEW op \in Op, CasHolds(s, op)
    PROVE  LET t == CommitUpdate(s, tx, op)
               n == Len(s.mutations)
           IN  /\ n \in Nat /\ Len(t.mutations) = n + 1
               /\ \A i \in 1..n : t.mutations[i] = s.mutations[i]
               /\ t.mutations[n + 1] = CommittedMutation(s, tx, op, Decide(s, op))
<1> DEFINE t == CommitUpdate(s, tx, op)
           n == Len(s.mutations)
           m == CommittedMutation(s, tx, op, Decide(s, op))
<1>1. s.mutations \in Seq(Mutation) /\ n \in Nat
  BY DEF Store
<1>2. t.mutations = Append(s.mutations, m)
  BY DEF CommitUpdate
<1>5. Decide(s, op) \in Receipt
  BY DecideType
<1>6. m \in Mutation
  BY <1>1, <1>5 DEF CommittedMutation, Mutation, Receipt
<1>7. /\ Len(t.mutations) = n + 1 /\ t.mutations[n + 1] = m
      /\ \A i \in 1..n : t.mutations[i] = s.mutations[i]
  BY <1>1, <1>2, <1>6
<1> QED
  BY <1>1, <1>7

(* A transaction known as not committed stays out of the log: entries name *)
(* known transactions, by MutationHasReceipt.                              *)
LEMMA LoggedIsKnown ==
    ASSUME NEW s \in Store, ConsistentStore(s), NEW i \in 1..Len(s.mutations)
    PROVE  Known(s, s.mutations[i].tx) /\ s.mutations[i].tx \in TxIds
<1>1. s.mutations[i] \in Mutation
  BY DEF Store
<1>2. s.receipts[s.mutations[i].tx] # NoReceipt
  BY DEF ConsistentStore, MutationHasReceipt
<1> QED
  BY <1>1, <1>2 DEF Known, Mutation

(* Applying a new transaction logs it once if it is committed and not at   *)
(* all if it is not, and leaves the others as they were.                   *)
LEMMA ApplyUpdateOnce ==
    ASSUME NEW s \in Store, NEW tx \in TxIds, NEW op \in Op,
           ConsistentStore(s), AppliedOnceIn(s), ~ Known(s, tx)
    PROVE  AppliedOnceIn(ApplyUpdate(s, tx, op))
<1> DEFINE t == ApplyUpdate(s, tx, op)
           n == Len(s.mutations)
<1>1. /\ Known(t, tx)
      /\ t.receipts[tx] = [op |-> op, receipt |-> Decide(s, op)]
      /\ \A x \in TxIds \ {tx} : t.receipts[x] = s.receipts[x]
  BY ApplyUpdateRecords
<1>2. \A i \in 1..n : s.mutations[i].tx \in TxIds \ {tx}
  BY LoggedIsKnown
<1>3. \A x \in TxIds \ {tx} : CommittedAs(t, x) <=> CommittedAs(s, x)
  BY <1>1 DEF CommittedAs, Known
<1>4. ASSUME CasHolds(s, op)
      PROVE  AppliedOnceIn(t)
  <2>1. t = CommitUpdate(s, tx, op)
    BY <1>4 DEF ApplyUpdate
  <2>2. /\ n \in Nat /\ Len(t.mutations) = n + 1
        /\ \A i \in 1..n : t.mutations[i] = s.mutations[i]
        /\ t.mutations[n + 1].tx = tx
    <3> DEFINE c == CommitUpdate(s, tx, op)
    <3>1. /\ n \in Nat /\ Len(c.mutations) = n + 1
          /\ \A i \in 1..n : c.mutations[i] = s.mutations[i]
          /\ c.mutations[n + 1] = CommittedMutation(s, tx, op, Decide(s, op))
      BY <1>4, CommitUpdateLog
    <3> QED
      BY <2>1, <3>1 DEF CommittedMutation
  <2>3. CommittedAs(t, tx)
    BY <1>1, <1>4 DEF CommittedAs, Decide, Committed
  <2>4. \A i, j \in 1..(n + 1) : t.mutations[i].tx = t.mutations[j].tx => i = j
    <3>1. \A i, j \in 1..n : t.mutations[i].tx = t.mutations[j].tx => i = j
      BY <2>2 DEF AppliedOnceIn
    <3>2. \A i \in 1..n : t.mutations[i].tx # tx
      BY <1>2, <2>2
    <3>3. 1..(n + 1) = 1..n \cup {n + 1}
      BY <2>2
    <3> QED
      BY <2>2, <3>1, <3>2, <3>3
  <2>5. LoggedAt(t, tx) # {}
    <3>1. n + 1 \in LoggedAt(t, tx)
      BY <2>2 DEF LoggedAt
    <3> QED
      BY <3>1
  <2>6. \A x \in TxIds \ {tx} : LoggedAt(t, x) = LoggedAt(s, x)
    <3>1. 1..(n + 1) = 1..n \cup {n + 1}
      BY <2>2
    <3> QED
      BY <2>2, <3>1 DEF LoggedAt
  <2> QED
    BY <1>3, <2>2, <2>3, <2>4, <2>5, <2>6 DEF AppliedOnceIn
<1>5. ASSUME ~ CasHolds(s, op)
      PROVE  AppliedOnceIn(t)
  <2>1. t.mutations = s.mutations
    BY <1>5 DEF ApplyUpdate, RejectUpdate, Store
  <2>2. ~ CommittedAs(t, tx)
    BY <1>1, <1>5 DEF CommittedAs, Decide, Conflict
  <2>3. LoggedAt(t, tx) = {}
    BY <1>2, <2>1 DEF LoggedAt
  <2>4. \A x \in TxIds : LoggedAt(t, x) = LoggedAt(s, x)
    BY <2>1 DEF LoggedAt
  <2> QED
    BY <1>3, <2>1, <2>2, <2>3, <2>4 DEF AppliedOnceIn
<1> QED
  BY <1>4, <1>5

(* What an entry of the log says was swapped is what its update asked for. *)
LogAsAsked(s) ==
    \A i \in 1..Len(s.mutations) :
        LET m == s.mutations[i]
        IN  m.ref = m.op.ref /\ m.old = m.op.old /\ m.new = m.op.new

(* A new entry says what was asked for: its old value was compared.        *)
LEMMA ApplyUpdateAsAsked ==
    ASSUME NEW s \in Store, NEW tx \in TxIds, NEW op \in Op, LogAsAsked(s)
    PROVE  LogAsAsked(ApplyUpdate(s, tx, op))
<1>1. CASE CasHolds(s, op)
  <2> DEFINE t == CommitUpdate(s, tx, op)
             n == Len(s.mutations)
  <2>1. /\ n \in Nat /\ Len(t.mutations) = n + 1
        /\ \A i \in 1..n : t.mutations[i] = s.mutations[i]
        /\ t.mutations[n + 1] = CommittedMutation(s, tx, op, Decide(s, op))
    BY <1>1, CommitUpdateLog
  <2>2. Decide(s, op) = Committed(op.ref, op.old, op.new)
    BY <1>1 DEF Decide, CasHolds
  <2>3. LET m == t.mutations[n + 1]
        IN  m.ref = m.op.ref /\ m.old = m.op.old /\ m.new = m.op.new
    BY <2>1, <2>2 DEF CommittedMutation, Committed
  <2>4. 1..(n + 1) = 1..n \cup {n + 1}
    BY <2>1
  <2> HIDE DEF t, n
  <2>5. LogAsAsked(t)
    BY <2>1, <2>3, <2>4 DEF LogAsAsked, n
  <2> QED
    BY <1>1, <2>5 DEF ApplyUpdate, t
<1>2. CASE ~ CasHolds(s, op)
  BY <1>2 DEF ApplyUpdate, RejectUpdate, Store, LogAsAsked
<1> QED
  BY <1>1, <1>2

(* A transaction with a "committed" receipt is in the log as its receipt   *)
(* has it.                                                                 *)
LEMMA CommittedIsLogged ==
    ASSUME NEW s \in Store, ConsistentStore(s), AppliedOnceIn(s), LogAsAsked(s),
           NEW tx \in TxIds, CommittedAs(s, tx)
    PROVE  LET op == s.receipts[tx].op
           IN  \E i \in 1..Len(s.mutations) :
                   LET m == s.mutations[i]
                   IN  m.ref = op.ref /\ m.old = op.old /\ m.new = op.new
<1>1. PICK i \in 1..Len(s.mutations) : s.mutations[i].tx = tx
  BY DEF AppliedOnceIn, LoggedAt
<1>2. s.receipts[tx].op = s.mutations[i].op
  BY <1>1 DEF ConsistentStore, MutationHasReceipt
<1> QED
  BY <1>2 DEF LogAsAsked

(* Applying an update leaves every entry it finds in place.                *)
LEMMA ApplyUpdateExtends ==
    ASSUME NEW s \in Store, NEW tx \in TxIds, NEW op \in Op,
           Len(s.mutations) = Len(s.checkpoints)
    PROVE  PrefixOf(s, ApplyUpdate(s, tx, op))
<1>1. s.mutations \in Seq(Mutation) /\ s.checkpoints \in Seq(Checkpoint)
  BY DEF Store
<1>2. CASE CasHolds(s, op)
  <2> DEFINE t == CommitUpdate(s, tx, op)
  <2>1. /\ Len(t.mutations) = Len(s.mutations) + 1
        /\ \A i \in 1..Len(s.mutations) : t.mutations[i] = s.mutations[i]
    BY <1>2, CommitUpdateLog
  <2>2. \A i \in 1..Len(s.mutations) : t.checkpoints[i] = s.checkpoints[i]
    BY <1>1 DEF CommitUpdate
  <2> QED
    BY <1>1, <1>2, <2>1, <2>2 DEF ApplyUpdate, PrefixOf
<1>3. CASE ~ CasHolds(s, op)
  BY <1>1, <1>3 DEF ApplyUpdate, RejectUpdate, Store, PrefixOf
<1> QED
  BY <1>2, <1>3

(* A store that was just saved is what its file holds.                     *)
LEMMA PrefixOfSelf ==
    ASSUME NEW s \in Store
    PROVE  PrefixOf(s, s)
BY DEF Store, PrefixOf

(* Being a prefix is transitive.                                           *)
LEMMA PrefixOfMore ==
    ASSUME NEW f \in Store, NEW s \in Store, NEW t \in Store,
           PrefixOf(f, s), PrefixOf(s, t)
    PROVE  PrefixOf(f, t)
<1>1. Len(f.mutations) \in Nat /\ Len(s.mutations) \in Nat /\ Len(t.mutations) \in Nat
  BY DEF Store
<1> QED
  BY <1>1 DEF PrefixOf

(* Entry i of a consistent store has number i and hangs on entry i - 1.    *)
LEMMA ConsistentCheckpoint ==
    ASSUME NEW s \in Store, ConsistentStore(s), NEW i \in 1..Len(s.checkpoints)
    PROVE  LET c == s.checkpoints[i]
           IN  /\ c.sequence = i
               /\ c.parent = ParentOf(s, i)
               /\ c.cid = ComputeCheckpointCid(c.sequence, c.parent, c.refsRoot,
                                               c.historyRoot)
<1>1. MutationInSequence(s, i) /\ CheckpointRecomputes(s, i)
  BY DEF ConsistentStore
<1> QED
  BY <1>1 DEF MutationInSequence, CheckpointRecomputes

-----------------------------------------------------------------------------
(* The log as RefLog reads it. *)

(* A read after an appended swap sees it if it wrote that ref.             *)
LEMMA HeadOfAppend ==
    ASSUME NEW l \in Seq(G!Swap), NEW e \in G!Swap, NEW r \in RefNames
    PROVE  G!HeadOf(Append(l, e), r) = IF e.ref = r THEN e.new ELSE G!HeadOf(l, r)
<1> DEFINE n == Len(l)
           k == Append(l, e)
<1>1. n \in Nat /\ Len(k) = n + 1 /\ k[n + 1] = e /\ \A i \in 1..n : k[i] = l[i]
  OBVIOUS
<1>2. 1..(n + 1) = 1..n \cup {n + 1}
  BY <1>1
<1> HIDE DEF k, n
<1>3. G!Writes(l, r) \subseteq 1..n /\ G!Writes(l, r) = {i \in 1..n : l[i].ref = r}
  BY DEF G!Writes, n
<1>4. CASE e.ref = r
  <2>1. G!Writes(k, r) = G!Writes(l, r) \cup {n + 1}
    BY <1>1, <1>2, <1>3, <1>4 DEF G!Writes
  <2>2. \A i \in G!Writes(k, r) : i <= n + 1
    BY <1>1, <1>3, <2>1
  <2>3. ASSUME NEW i \in G!Writes(k, r), \A j \in G!Writes(k, r) : j <= i
        PROVE  i = n + 1
    <3>1. n + 1 <= i
      BY <2>1, <2>3
    <3>2. i \in Int /\ i <= n + 1
      BY <1>1, <1>3, <2>1
    <3> QED
      BY <1>1, <3>1, <3>2
  <2>4. n + 1 \in G!Writes(k, r)
    BY <2>1
  <2>5. G!LastWrite(k, r) = n + 1
    BY <2>2, <2>3, <2>4 DEF G!LastWrite
  <2> QED
    BY <1>1, <1>4, <2>4, <2>5 DEF G!HeadOf, k
<1>5. CASE e.ref # r
  <2>1. G!Writes(k, r) = G!Writes(l, r)
    BY <1>1, <1>2, <1>3, <1>5 DEF G!Writes
  <2>2. G!LastWrite(k, r) = G!LastWrite(l, r)
    BY <2>1 DEF G!LastWrite
  <2>3. ASSUME G!Writes(l, r) # {}
        PROVE  G!LastWrite(l, r) \in 1..n
    <3>1. PICK w \in G!Writes(l, r) : \A j \in G!Writes(l, r) : j <= w
      <4> DEFINE gaps == {n - i : i \in G!Writes(l, r)}
      <4>1. gaps \in SUBSET Nat /\ gaps # {}
        BY <1>1, <1>3, <2>3
      <4>2. PICK g \in gaps : \A h \in gaps : g <= h
        <5>1. PICK g \in gaps : \A h \in gaps : ~ (<<h, g>> \in OpToRel(<, Nat))
          BY <4>1, WFMin, NatLessThanWellFounded
        <5>2. ASSUME NEW h \in gaps
              PROVE  g <= h
          <6>1. h \in Nat /\ g \in Nat
            BY <4>1
          <6>2. ~ (h < g)
            BY <5>1, <6>1, Zenon DEF OpToRel
          <6> QED
            BY <6>1, <6>2
        <5> QED
          BY <5>1, <5>2
      <4>3. PICK w \in G!Writes(l, r) : g = n - w
        BY <4>2
      <4>4. \A j \in G!Writes(l, r) : n - w <= n - j
        BY <4>2, <4>3
      <4> QED
        BY <1>1, <1>3, <4>3, <4>4
    <3>2. G!LastWrite(l, r) \in G!Writes(l, r)
      BY <3>1 DEF G!LastWrite
    <3> QED
      BY <1>3, <3>2
  <2> QED
    BY <1>1, <1>5, <2>1, <2>2, <2>3 DEF G!HeadOf, k
<1> QED
  BY <1>4, <1>5

(* The ref map holds what the log says was written last.                   *)
HeadsAre(s) == \A r \in RefNames : s.refs[r] = G!HeadOf(LogOf(s), r)

(* Committing an update appends its swap to the log.                       *)
LEMMA CommitUpdateSwap ==
    ASSUME NEW s \in Store, NEW tx \in TxIds, NEW op \in Op, CasHolds(s, op)
    PROVE  LET swap == [tx |-> tx, ref |-> op.ref, old |-> op.old, new |-> op.new]
           IN  /\ swap \in G!Swap
               /\ LogOf(s) \in Seq(G!Swap)
               /\ LogOf(CommitUpdate(s, tx, op)) = Append(LogOf(s), swap)
<1> DEFINE t == CommitUpdate(s, tx, op)
           n == Len(s.mutations)
           swap == [tx |-> tx, ref |-> op.ref, old |-> op.old, new |-> op.new]
<1>1. /\ n \in Nat /\ Len(t.mutations) = n + 1
      /\ \A i \in 1..n : t.mutations[i] = s.mutations[i]
      /\ t.mutations[n + 1] = CommittedMutation(s, tx, op, Decide(s, op))
  BY CommitUpdateLog
<1>2. Decide(s, op) = Committed(op.ref, op.old, op.new)
  BY DEF Decide, CasHolds
<1>3. SwapOf(t.mutations[n + 1]) = swap
  BY <1>1, <1>2 DEF CommittedMutation, Committed, SwapOf
<1>4. swap \in G!Swap
  BY DEF Op, Target, G!Swap, G!Target
<1>5. \A i \in 1..n : SwapOf(s.mutations[i]) \in G!Swap
  <2> SUFFICES ASSUME NEW i \in 1..n
               PROVE  SwapOf(s.mutations[i]) \in G!Swap
    OBVIOUS
  <2>1. s.mutations[i] \in Mutation
    BY DEF Store
  <2> QED
    BY <2>1 DEF Mutation, SwapOf, Op, Target, G!Swap, G!Target
<1>6. LogOf(s) \in Seq(G!Swap) /\ Len(LogOf(s)) = n
  BY <1>1, <1>5 DEF LogOf
<1>7. LogOf(t) = [i \in 1..(n + 1) |-> SwapOf(t.mutations[i])]
  BY <1>1 DEF LogOf
<1>8. Append(LogOf(s), swap) = [i \in 1..(n + 1) |-> IF i = n + 1 THEN swap ELSE LogOf(s)[i]]
  BY <1>1, <1>6
<1>9. \A i \in 1..n : LogOf(s)[i] = SwapOf(t.mutations[i])
  BY <1>1 DEF LogOf
<1>10. LogOf(t) = Append(LogOf(s), swap)
  BY <1>1, <1>3, <1>7, <1>8, <1>9
<1> QED
  BY <1>4, <1>6, <1>10

(* Applying an update keeps every ref what its last logged write made it.  *)
LEMMA ApplyUpdateHeads ==
    ASSUME NEW s \in Store, NEW tx \in TxIds, NEW op \in Op, HeadsAre(s)
    PROVE  HeadsAre(ApplyUpdate(s, tx, op))
<1> DEFINE t == CommitUpdate(s, tx, op)
           swap == [tx |-> tx, ref |-> op.ref, old |-> op.old, new |-> op.new]
<1>1. ASSUME CasHolds(s, op), NEW r \in RefNames
      PROVE  t.refs[r] = G!HeadOf(LogOf(t), r)
  <2>1. swap \in G!Swap /\ LogOf(s) \in Seq(G!Swap) /\ LogOf(t) = Append(LogOf(s), swap)
    BY <1>1, CommitUpdateSwap
  <2>2. G!HeadOf(LogOf(t), r) = IF op.ref = r THEN op.new ELSE G!HeadOf(LogOf(s), r)
    <3>1. G!HeadOf(Append(LogOf(s), swap), r)
            = IF swap.ref = r THEN swap.new ELSE G!HeadOf(LogOf(s), r)
      BY <2>1, HeadOfAppend
    <3> QED
      BY <2>1, <3>1
  <2>3. t.refs = [s.refs EXCEPT ![op.ref] = op.new]
    BY DEF CommitUpdate
  <2> QED
    BY <2>2, <2>3 DEF HeadsAre, Store, RefMap
<1>2. ASSUME ~ CasHolds(s, op)
      PROVE  HeadsAre(RejectUpdate(s, tx, op))
  BY <1>2 DEF HeadsAre, RejectUpdate, LogOf, Store
<1> QED
  BY <1>1, <1>2 DEF ApplyUpdate, HeadsAre

(* An empty store is an empty log.                                         *)
LEMMA EmptyStoreHeads == LogOf(EmptyStore) = <<>> /\ HeadsAre(EmptyStore)
<1>1. LogOf(EmptyStore) = <<>>
  BY DEF LogOf, EmptyStore
<1> QED
  BY <1>1 DEF HeadsAre, EmptyStore, EmptyRefs, G!HeadOf, G!Writes

(* The log has an entry for each mutation.                                 *)
LEMMA LogLength ==
    ASSUME NEW s \in Store
    PROVE  Len(LogOf(s)) = Len(s.mutations) /\ Len(s.mutations) \in Nat
BY DEF Store, LogOf

(* What RefLog!Commit asks of a swap holds of every update that commits:   *)
(* its transaction is new to the log, the log gives its ref the value it   *)
(* expects, and it is what the log grows by.                               *)
LEMMA ApplyUpdateIsCommit ==
    ASSUME NEW s \in Store, NEW tx \in TxIds, NEW op \in Op,
           ConsistentStore(s), HeadsAre(s), ~ Known(s, tx), CasHolds(s, op)
    PROVE  \E swap \in G!Swap :
               /\ \A i \in 1..Len(LogOf(s)) : LogOf(s)[i].tx # swap.tx
               /\ G!HeadOf(LogOf(s), swap.ref) = swap.old
               /\ LogOf(ApplyUpdate(s, tx, op)) = Append(LogOf(s), swap)
<1> DEFINE swap == [tx |-> tx, ref |-> op.ref, old |-> op.old, new |-> op.new]
<1>1. swap \in G!Swap /\ LogOf(ApplyUpdate(s, tx, op)) = Append(LogOf(s), swap)
  BY CommitUpdateSwap DEF ApplyUpdate
<1>2. \A i \in 1..Len(LogOf(s)) : LogOf(s)[i].tx # swap.tx
  BY LoggedIsKnown, LogLength DEF LogOf, SwapOf
<1>3. G!HeadOf(LogOf(s), swap.ref) = swap.old
  BY DEF HeadsAre, CasHolds, Op
<1> HIDE DEF swap
<1> QED
  BY <1>1, <1>2, <1>3

(* An update that does not commit leaves the log alone.                    *)
LEMMA RejectIsStutter ==
    ASSUME NEW s \in Store, NEW tx \in TxIds, NEW op \in Op, ~ CasHolds(s, op)
    PROVE  LET t == ApplyUpdate(s, tx, op)
           IN  /\ LogOf(t) = LogOf(s)
               /\ t.refs = s.refs /\ t.mutations = s.mutations
               /\ t.checkpoints = s.checkpoints
BY DEF ApplyUpdate, RejectUpdate, Store, LogOf

(* Going back to a prefix of the log cuts the log.                         *)
LEMMA PrefixIsCut ==
    ASSUME NEW f \in Store, NEW s \in Store, PrefixOf(f, s)
    PROVE  LogOf(f) = SubSeq(LogOf(s), 1, Len(f.mutations))
<1> DEFINE k == Len(f.mutations)
           n == Len(s.mutations)
<1>1. k \in Nat /\ n \in Nat /\ k <= n
  BY DEF Store, PrefixOf
<1>2. \A i \in 1..k : f.mutations[i] = s.mutations[i]
  BY DEF PrefixOf
<1>3. LogOf(f) = [i \in 1..k |-> SwapOf(s.mutations[i])]
  BY <1>2 DEF LogOf
<1>4. SubSeq(LogOf(s), 1, k) = [i \in 1..k |-> LogOf(s)[i]]
  <2>1. \A i \in 1..n : LogOf(s)[i] \in {SwapOf(s.mutations[j]) : j \in 1..n}
    BY DEF LogOf
  <2>2. LogOf(s) \in Seq({SwapOf(s.mutations[j]) : j \in 1..n})
    BY <1>1, <2>1 DEF LogOf
  <2> QED
    BY <1>1, <2>2
<1>5. \A i \in 1..k : LogOf(s)[i] = SwapOf(s.mutations[i])
  BY <1>1 DEF LogOf
<1> QED
  BY <1>3, <1>4, <1>5
=============================================================================

--------------------------- MODULE RefStoreProofs ---------------------------
(***************************************************************************)
(* What RefStore guarantees for every set of refs, object ids, transaction *)
(* ids, signers and updates.                                               *)
(***************************************************************************)
EXTENDS RefStore, RefOpsProofs, TLAPS

-----------------------------------------------------------------------------
(* The operators of RefOps. *)

-----------------------------------------------------------------------------
(* Type correctness. *)

(* A daemon without a snapshot file starts from values of the types.      *)
LEMMA TypeInit == Init => TypeOK
BY EmptyStoreType DEF Init, TypeOK

(* Applying an update, saving and restarting keep every variable in its    *)
(* type.                                                                   *)
LEMMA TypeNext ==
    ASSUME TypeOK, [Next]_vars
    PROVE  TypeOK'
<1> USE DEF TypeOK
<1>1. ASSUME NEW u \in Updates, ApplyKnown(u)
      PROVE  TypeOK'
  BY <1>1, PreflightType, UpdatesAssumption DEF ApplyKnown, AnswerWith, Answer
<1>2. ASSUME NEW u \in Updates, ApplyNew(u)
      PROVE  TypeOK'
  BY <1>2, DecideType, ApplyUpdateType, UpdatesAssumption DEF ApplyNew, AnswerWith, Answer
<1>3. CASE Save
  BY <1>3 DEF Save
<1>4. CASE Restart
  BY <1>4 DEF Restart
<1>5. CASE UNCHANGED vars
  BY <1>5 DEF vars
<1> QED
  BY <1>1, <1>2, <1>3, <1>4, <1>5 DEF Next, Apply

(* The variables keep their types: RefStore and its snapshot. *)
THEOREM TypeCorrect == Spec => []TypeOK
<1>1. Init => TypeOK
  BY TypeInit
<1>2. TypeOK /\ [Next]_vars => TypeOK'
  BY TypeNext
<1> QED
  BY <1>1, <1>2, PTL DEF Spec

-----------------------------------------------------------------------------
(* Consistency.  ConsistentStore is what from_snapshot checks, written     *)
(* without recursion, and it is preserved by every step: the first n       *)
(* entries are untouched, and entry n + 1 is what append_checkpoint made.  *)

(* Whatever was applied, the store and the file are ones a restart loads.  *)
THEOREM SnapshotsLoad == Spec => []SnapshotLoads
<1>1. Init => SnapshotLoads
  BY EmptyStoreConsistent DEF Init, SnapshotLoads
<1>2. TypeOK /\ SnapshotLoads /\ [Next]_vars => SnapshotLoads'
  <2> SUFFICES ASSUME TypeOK, SnapshotLoads, [Next]_vars
               PROVE  SnapshotLoads'
    OBVIOUS
  <2> USE DEF SnapshotLoads
  <2>1. ASSUME NEW u \in Updates, ApplyKnown(u)
        PROVE  SnapshotLoads'
    BY <2>1 DEF ApplyKnown
  <2>2. ASSUME NEW u \in Updates, ApplyNew(u)
        PROVE  SnapshotLoads'
    BY <2>2, ApplyUpdateConsistent, UpdatesAssumption
       DEF ApplyNew, TypeOK
  <2>3. CASE Save
    BY <2>3 DEF Save
  <2>4. CASE Restart
    BY <2>4 DEF Restart
  <2>5. CASE UNCHANGED vars
    BY <2>5 DEF vars
  <2> QED
    BY <2>1, <2>2, <2>3, <2>4, <2>5 DEF Next, Apply
<1> QED
  BY <1>1, <1>2, TypeCorrect, PTL DEF Spec

-----------------------------------------------------------------------------
(* Receipts.                                                               *)

(* A receipt is written once: every retry is answered as the first time.   *)
THEOREM AnswersAlwaysStand == Spec => []AnswersStand
<1>1. Init => AnswersStand
  BY DEF Init, AnswersStand, AnswersStandIn
<1>2. TypeOK /\ AnswersStand /\ [Next]_vars => AnswersStand'
  <2> SUFFICES ASSUME TypeOK, AnswersStand, [Next]_vars
               PROVE  AnswersStand'
    OBVIOUS
  <2>1. ASSUME NEW u \in Updates, ApplyKnown(u)
        PROVE  AnswersStand'
    BY <2>1 DEF ApplyKnown, AnswerWith, AnswersStand, AnswersStandIn
  <2>2. ASSUME NEW u \in Updates, ApplyNew(u)
        PROVE  AnswersStand'
    <3>1. store \in Store /\ u.tx \in TxIds /\ u.op \in Op /\ answers \subseteq Answer
      BY UpdatesAssumption DEF TypeOK
    <3>2. /\ Known(store', u.tx)
          /\ store'.receipts[u.tx] = [op |-> u.op, receipt |-> Decide(store, u.op)]
          /\ \A x \in TxIds \ {u.tx} : store'.receipts[x] = store.receipts[x]
      BY <2>2, <3>1, ApplyUpdateRecords DEF ApplyNew
    <3>3. ASSUME NEW a \in answers
          PROVE  Known(store', a.tx) /\ a.receipt = PreflightReceipt(store', a.tx, a.op)
      <4>1. Known(store, a.tx) /\ a.receipt = PreflightReceipt(store, a.tx, a.op)
        BY DEF AnswersStand, AnswersStandIn
      <4>2. a.tx \in TxIds \ {u.tx}
        BY <2>2, <3>1, <4>1 DEF ApplyNew, Answer
      <4> QED
        BY <3>2, <4>1, <4>2 DEF Known, PreflightReceipt
    <3>4. Decide(store, u.op) = PreflightReceipt(store', u.tx, u.op)
      BY <3>2 DEF PreflightReceipt
    <3>5. AnswersStandIn(answers', store')
      BY <2>2, <3>2, <3>3, <3>4 DEF ApplyNew, AnswerWith, AnswersStandIn
    <3> QED
      BY <2>2, <3>5 DEF ApplyNew, AnswersStand
  <2>3. CASE Save
    BY <2>3 DEF Save, AnswersStand
  <2>4. CASE Restart
    BY <2>4 DEF Restart, AnswersStand
  <2>5. CASE UNCHANGED vars
    BY <2>5 DEF vars, AnswersStand
  <2> QED
    BY <2>1, <2>2, <2>3, <2>4, <2>5 DEF Next, Apply
<1> QED
  BY <1>1, <1>2, TypeCorrect, PTL DEF Spec

(* Exactly the transactions answered "committed" are in the log, and each  *)
(* of them once.                                                           *)
THEOREM EachAppliedOnce == Spec => []AppliedOnce
<1>1. Init => AppliedOnce
  BY DEF Init, AppliedOnce, AppliedOnceIn, EmptyStore, CommittedAs, Known, LoggedAt
<1>2. TypeOK /\ SnapshotLoads /\ AppliedOnce /\ [Next]_vars => AppliedOnce'
  <2> SUFFICES ASSUME TypeOK, SnapshotLoads, AppliedOnce, [Next]_vars
               PROVE  AppliedOnce'
    OBVIOUS
  <2> USE DEF AppliedOnce
  <2>1. ASSUME NEW u \in Updates, ApplyKnown(u)
        PROVE  AppliedOnce'
    BY <2>1 DEF ApplyKnown
  <2>2. ASSUME NEW u \in Updates, ApplyNew(u)
        PROVE  AppliedOnce'
    BY <2>2, ApplyUpdateOnce, UpdatesAssumption
       DEF ApplyNew, TypeOK, SnapshotLoads
  <2>3. CASE Save
    BY <2>3 DEF Save
  <2>4. CASE Restart
    BY <2>4 DEF Restart
  <2>5. CASE UNCHANGED vars
    BY <2>5 DEF vars
  <2> QED
    BY <2>1, <2>2, <2>3, <2>4, <2>5 DEF Next, Apply
<1> QED
  BY <1>1, <1>2, TypeCorrect, SnapshotsLoad, PTL DEF Spec

-----------------------------------------------------------------------------
(* The log.                                                                *)

(* The inductive invariant behind the refinement and the checkpoint chain. *)
LogInv ==
    /\ TypeOK /\ SnapshotLoads
    /\ HeadsAre(store) /\ HeadsAre(saved.store)
    /\ PrefixOf(saved.store, store)

(* The empty store satisfies the log invariant.                            *)
LEMMA LogInvInit == Init => LogInv
BY TypeInit, EmptyStoreType, EmptyStoreConsistent, EmptyStoreHeads, PrefixOfSelf
   DEF Init, SnapshotLoads, LogInv

(* Every step of the store keeps the log invariant: appending to the log,  *)
(* saving it, and cutting it back to what was saved.                       *)
LEMMA LogInvNext == LogInv /\ TypeOK' /\ SnapshotLoads' /\ [Next]_vars => LogInv'
<1> SUFFICES ASSUME LogInv, TypeOK', SnapshotLoads', [Next]_vars
             PROVE  LogInv'
  OBVIOUS
<1> USE DEF LogInv
<1>1. ASSUME NEW u \in Updates, ApplyKnown(u)
      PROVE  LogInv'
  BY <1>1 DEF ApplyKnown
<1>2. ASSUME NEW u \in Updates, ApplyNew(u)
      PROVE  LogInv'
  <2>1. /\ store \in Store /\ saved.store \in Store /\ u.tx \in TxIds /\ u.op \in Op
        /\ Len(store.mutations) = Len(store.checkpoints)
    BY UpdatesAssumption DEF TypeOK, SnapshotLoads, ConsistentStore
  <2>2. store' = ApplyUpdate(store, u.tx, u.op) /\ saved' = saved
    BY <1>2 DEF ApplyNew
  <2>3. HeadsAre(store') /\ HeadsAre(saved'.store)
    BY <2>1, <2>2, ApplyUpdateHeads
  <2>4. PrefixOf(store, store')
    BY <2>1, <2>2, ApplyUpdateExtends
  <2>5. PrefixOf(saved'.store, store')
    BY <2>1, <2>2, <2>4, PrefixOfMore DEF TypeOK
  <2> QED
    BY <2>3, <2>5
<1>3. CASE Save
  BY <1>3, PrefixOfSelf DEF Save, TypeOK
<1>4. CASE Restart
  BY <1>4, PrefixOfSelf DEF Restart, TypeOK
<1>5. CASE UNCHANGED vars
  BY <1>5 DEF vars, HeadsAre
<1> QED
  BY <1>1, <1>2, <1>3, <1>4, <1>5 DEF Next, Apply

(* The log invariant holds in every reachable state.                       *)
LEMMA LogInvariant == Spec => []LogInv
BY LogInvInit, LogInvNext, TypeCorrect, SnapshotsLoad, PTL DEF Spec

(* Clients can follow the chain: every checkpoint extends the one before,  *)
(* and the saved log and chain begin the ones in memory.                   *)
THEOREM CheckpointsAlwaysVerify == Spec => []CheckpointsVerify
<1>1. LogInv => CheckpointsVerify
  <2> SUFFICES ASSUME LogInv
               PROVE  CheckpointsVerify
    OBVIOUS
  <2>1. ASSUME NEW i \in 1..Len(store.checkpoints)
        PROVE  CheckpointChains(IF i = 1 THEN NoCheckpoint ELSE store.checkpoints[i - 1],
                                store.checkpoints[i])
    <3> DEFINE c == store.checkpoints[i]
    <3>1. store \in Store /\ ConsistentStore(store)
      BY DEF LogInv, TypeOK, SnapshotLoads
    <3>2. Len(store.checkpoints) \in Nat
      BY <3>1 DEF Store
    <3>3. /\ c.sequence = i
          /\ c.parent = ParentOf(store, i)
          /\ c.cid = ComputeCheckpointCid(c.sequence, c.parent, c.refsRoot, c.historyRoot)
      BY <3>1, ConsistentCheckpoint
    <3>4. CASE i = 1
      <4>1. CheckpointChains(NoCheckpoint, c)
        BY <3>3, <3>4 DEF CheckpointChains, NoCheckpoint, ParentOf
      <4> QED
        BY <3>4, <4>1
    <3>5. CASE i # 1
      <4>1. i - 1 \in 1..Len(store.checkpoints)
        BY <3>2, <3>5
      <4>2. store.checkpoints[i - 1].sequence = i - 1
        BY <3>1, <4>1, ConsistentCheckpoint
      <4>3. c.sequence = i - 1 + 1 /\ c.parent = store.checkpoints[i - 1].cid
        BY <3>3, <3>5 DEF ParentOf
      <4>4. CheckpointChains(store.checkpoints[i - 1], c)
        BY <3>3, <4>2, <4>3 DEF CheckpointChains
      <4> QED
        BY <3>5, <4>4
    <3> QED
      BY <3>4, <3>5
  <2> QED
    BY <2>1 DEF LogInv, CheckpointsVerify, ChainVerifies
<1> QED
  BY <1>1, LogInvariant, PTL

-----------------------------------------------------------------------------
(* Refinement: RefStore implements RefLog.  A commit is a Commit, a save a *)
(* Persist, a restart a Crash, and everything else stutters.               *)

(* What is proved of the operators of RefLog holds of this instance.       *)
LEMMA SameOperators ==
    /\ L!Swap = G!Swap
    /\ \A l, r : L!HeadOf(l, r) = G!HeadOf(l, r)
BY DEF L!Swap, L!Target, L!HeadOf, L!LastWrite, L!Writes,
       G!Swap, G!Target, G!HeadOf, G!LastWrite, G!Writes

(* The empty store is the empty log.                                       *)
LEMMA RefinesInit == Init => L!Init
BY DEF Init, EmptyStore, LogOf, L!Init

(* Every step of the store is a step of the log, or does not change it.    *)
LEMMA RefinesNext == LogInv /\ [Next]_vars => [L!Next]_(L!vars)
<1> SUFFICES ASSUME LogInv, [Next]_vars
             PROVE  [L!Next]_(L!vars)
  OBVIOUS
<1>1. ASSUME NEW u \in Updates, ApplyKnown(u)
      PROVE  UNCHANGED L!vars
  BY <1>1 DEF ApplyKnown, L!vars
<1>2. ASSUME NEW u \in Updates, ApplyNew(u)
      PROVE  [L!Next]_(L!vars)
  <2>1. /\ store \in Store /\ u.tx \in TxIds /\ u.op \in Op
        /\ ConsistentStore(store) /\ HeadsAre(store)
    BY UpdatesAssumption DEF LogInv, TypeOK, SnapshotLoads
  <2>2. store' = ApplyUpdate(store, u.tx, u.op) /\ saved' = saved /\ ~ Known(store, u.tx)
    BY <1>2 DEF ApplyNew
  <2>3. CASE CasHolds(store, u.op)
    <3>1. PICK swap \in G!Swap :
             /\ \A i \in 1..Len(LogOf(store)) : LogOf(store)[i].tx # swap.tx
             /\ G!HeadOf(LogOf(store), swap.ref) = swap.old
             /\ LogOf(store') = Append(LogOf(store), swap)
      BY <2>1, <2>2, <2>3, ApplyUpdateIsCommit
    <3>2. L!Commit(swap) /\ swap \in L!Swap
      BY <2>2, <3>1, SameOperators DEF L!Commit
    <3> QED
      BY <3>2 DEF L!Next
  <2>4. CASE ~ CasHolds(store, u.op)
    BY <2>1, <2>2, <2>4, RejectIsStutter DEF L!vars
  <2> QED
    BY <2>3, <2>4
<1>3. CASE Save
  <2>1. L!Persist
    BY <1>3, LogLength DEF LogInv, TypeOK, Save, L!Persist
  <2> QED
    BY <2>1 DEF L!Next
<1>4. CASE Restart
  <2>1. L!Crash
    BY <1>4, PrefixIsCut DEF LogInv, TypeOK, Restart, L!Crash
  <2> QED
    BY <2>1 DEF L!Next
<1>5. CASE UNCHANGED vars
  BY <1>5 DEF vars, L!vars
<1> QED
  BY <1>1, <1>2, <1>3, <1>4, <1>5 DEF Next, Apply

(* Every behaviour of the ref store is a behaviour of the log: swaps take  *)
(* effect once, against the value the log gives, and saved ones survive.   *)
THEOREM ImplementsRefLog == Spec => RefLogSpec
BY RefinesInit, RefinesNext, LogInvariant, PTL DEF Spec, RefLogSpec, L!Spec
=============================================================================

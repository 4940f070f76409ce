------------------------------ MODULE RefStore ------------------------------
(***************************************************************************)
(* crates/gitmesh-coordination, RefStore: the ref map, its receipts, its   *)
(* mutation log and its checkpoint chain, used through the interface a     *)
(* daemon has: apply an update, save to the snapshot file, start again     *)
(* from the file.                                                          *)
(***************************************************************************)
EXTENDS RefOps

CONSTANT Updates    \* the (transaction id, operation) pairs clients may send

ASSUME UpdatesAssumption == Updates \subseteq [tx: TxIds, op: Op]

VARIABLES
    store,      \* the RefStore in memory
    answers,    \* every answer this store gave, since it was empty
    saved       \* the snapshot file, and what `answers` was when it was written

vars == <<store, answers, saved>>

Answer == [tx: TxIds, op: Op, receipt: Receipt \cup {IdempotencyViolation}]

Init ==
    /\ store = EmptyStore
    /\ answers = {}
    /\ saved = [store |-> EmptyStore, answers |-> {}]

AnswerWith(u, receipt) ==
    answers' = answers \cup {[tx |-> u.tx, op |-> u.op, receipt |-> receipt]}

-----------------------------------------------------------------------------
(* RefStore::apply *)

ApplyKnown(u) ==
    /\ Known(store, u.tx)
    /\ AnswerWith(u, PreflightReceipt(store, u.tx, u.op))
    /\ UNCHANGED <<store, saved>>

ApplyNew(u) ==
    /\ ~ Known(store, u.tx)
    /\ store' = ApplyUpdate(store, u.tx, u.op)
    /\ AnswerWith(u, Decide(store, u.op))
    /\ UNCHANGED saved

Apply(u) == ApplyKnown(u) \/ ApplyNew(u)

(* RefStore::save_to_path writes a temporary file and renames it over the  *)
(* snapshot: after a crash the file is the old snapshot or the new one.    *)
Save ==
    /\ saved' = [store |-> store, answers |-> answers]
    /\ UNCHANGED <<store, answers>>

(* A new process calls RefStore::load_from_path, which refuses a snapshot  *)
(* that is not consistent.  The unsaved part of the store is gone, and so  *)
(* is what was said about it.                                              *)
Restart ==
    /\ ConsistentStore(saved.store)
    /\ store' = saved.store
    /\ answers' = saved.answers
    /\ UNCHANGED saved

Next == (\E u \in Updates : Apply(u)) \/ Save \/ Restart

Spec == Init /\ [][Next]_vars

-----------------------------------------------------------------------------
(* Properties. *)

(* Every variable holds a value of its type: RefStore, its receipts and    *)
(* its snapshot (the structs of lib.rs:393-528).                           *)
TypeOK ==
    /\ store \in Store
    /\ answers \subseteq Answer
    /\ saved \in [store: Store, answers: SUBSET Answer]

(* What the store writes it can read back: whatever the updates, the       *)
(* conflicts and the restarts were, the store is one that from_snapshot    *)
(* accepts, so a daemon is never locked out by its own snapshot.           *)
SnapshotLoads == ConsistentStore(store) /\ ConsistentStore(saved.store)

(* A transaction takes effect exactly once if it was answered "committed"  *)
(* and never if it was not: retries, reused ids and restarts neither       *)
(* repeat a mutation nor leave a receipt without one.                      *)
AppliedOnce == AppliedOnceIn(store) /\ AppliedOnceIn(saved.store)

(* The answer a client once got is the answer every retry gets, whatever   *)
(* was applied in between: a receipt, once given, is never overwritten.    *)
AnswersStandIn(given, s) ==
    \A a \in given :
        /\ Known(s, a.tx)
        /\ a.receipt = PreflightReceipt(s, a.tx, a.op)

AnswersStand ==
    /\ AnswersStandIn(answers, store)
    /\ AnswersStandIn(saved.answers, saved.store)

(* A client that follows the checkpoints one by one, checking each against *)
(* the one before it as SignedRefCheckpoint::verify does, never meets one  *)
(* it must refuse; and what a restart cuts off the log and the chain is    *)
(* always an end of them, never something in the middle.                   *)
ChainVerifies(s) ==
    \A i \in 1..Len(s.checkpoints) :
        CheckpointChains(IF i = 1 THEN NoCheckpoint ELSE s.checkpoints[i - 1],
                         s.checkpoints[i])

CheckpointsVerify == ChainVerifies(store) /\ PrefixOf(saved.store, store)

(* The store implements the log of RefLog: a swap is logged only if its    *)
(* transaction is new and the last logged write of the ref is what the     *)
(* client expected, and a restart cuts the log at the last save.           *)
L == INSTANCE RefLog WITH log <- LogOf(store), durable <- Len(saved.store.mutations)

RefLogSpec == L!Spec
=============================================================================

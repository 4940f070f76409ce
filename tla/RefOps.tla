------------------------------- MODULE RefOps -------------------------------
(***************************************************************************)
(* The functional core of crates/gitmesh-coordination: what a RefStore     *)
(* holds, what one RefUpdate does to it, what its snapshot must satisfy to *)
(* be loaded.  RefStore.tla, RefDaemon.tla and PushHelper.tla turn these   *)
(* operators into steps.                                                   *)
(*                                                                         *)
(* A hash is modelled by what it commits to: the root of a ref map is the  *)
(* map, a chained root is the sequence of what was chained.  Two roots are *)
(* then equal exactly when the hashed data are.                            *)
(*                                                                         *)
(* A definition whose name ends in _Bug is a plausible bug of the one it   *)
(* precedes.  No specification uses it: PROJECT.json names the property    *)
(* that fails when it takes that definition's place.                       *)
(***************************************************************************)
EXTENDS Integers, Sequences

CONSTANTS
    RefNames,    \* the ref names clients use
    Oids,        \* the Git object ids clients use
    TxIds,       \* the transaction ids clients use
    Signers,     \* the signer field: a device, or the name of an unsigned client
    NoOid,       \* Option::<GitSha1Oid>::None: an absent ref, a deletion
    NoReceipt    \* no entry for a transaction id in the receipt map

ASSUME NoOidAssumption == NoOid \notin Oids

Target == Oids \cup {NoOid}

RefMap == [RefNames -> Target]

(* A RefUpdate without its transaction id, which is also its               *)
(* operation_fingerprint: the fingerprint lists every other field.  The    *)
(* repository id is left out, a daemon serves one repository.              *)
Op == [ref: RefNames, old: Target, new: Target, force: BOOLEAN,
       epoch: Nat, signer: Signers]

Committed(ref, old, new) ==
    [status |-> "committed", ref |-> ref, old |-> old, new |-> new]

Conflict(ref, expected, actual) ==
    [status |-> "conflict", ref |-> ref, old |-> expected, new |-> actual]

IdempotencyViolation ==
    [status |-> "idempotency_violation", ref |-> "none", old |-> NoOid, new |-> NoOid]

Receipt ==
    [status: {"committed", "conflict"}, ref: RefNames, old: Target, new: Target]

ReceiptEntry == [op: Op, receipt: Receipt]

ASSUME NoReceiptAssumption == NoReceipt \notin ReceiptEntry

Mutation ==
    [sequence: Nat, tx: TxIds, op: Op, ref: RefNames, old: Target, new: Target]

CidBody == [sequence: Nat, refsRoot: RefMap, historyRoot: Seq(Mutation)]

Cid == Seq(CidBody)

NoCid == <<>>

NoHistory == <<>>

Checkpoint ==
    [sequence: Nat, parent: Cid, refsRoot: RefMap, historyRoot: Seq(Mutation),
     cid: Cid]

Store ==
    [refs: RefMap, receipts: [TxIds -> ReceiptEntry \cup {NoReceipt}],
     mutations: Seq(Mutation), checkpoints: Seq(Checkpoint)]

EmptyRefs == [r \in RefNames |-> NoOid]

EmptyStore ==
    [refs |-> EmptyRefs, receipts |-> [t \in TxIds |-> NoReceipt],
     mutations |-> <<>>, checkpoints |-> <<>>]

-----------------------------------------------------------------------------
(* The chained hashes. *)

ComputeHistoryRoot(previous, mutation) == Append(previous, mutation)

ComputeCheckpointCid(sequence, parent, refsRoot, historyRoot) ==
    Append(parent, [sequence |-> sequence, refsRoot |-> refsRoot,
                    historyRoot |-> historyRoot])

\* Every checkpoint is built as if it were the first.
NewCheckpoint_Bug(checkpoints, mutation, refs) ==
    LET history == ComputeHistoryRoot(NoHistory, mutation)
    IN  [sequence |-> mutation.sequence, parent |-> NoCid, refsRoot |-> refs,
         historyRoot |-> history,
         cid |-> ComputeCheckpointCid(mutation.sequence, NoCid, refs, history)]

(* append_checkpoint: what it pushes after `mutation` made the refs `refs`, *)
(* chained to the store's latest checkpoint, if there is one.              *)
NewCheckpoint(checkpoints, mutation, refs) ==
    LET n       == Len(checkpoints)
        parent  == IF n = 0 THEN NoCid ELSE checkpoints[n].cid
        history == ComputeHistoryRoot(
                       IF n = 0 THEN NoHistory ELSE checkpoints[n].historyRoot,
                       mutation)
    IN  [sequence |-> mutation.sequence, parent |-> parent, refsRoot |-> refs,
         historyRoot |-> history,
         cid |-> ComputeCheckpointCid(mutation.sequence, parent, refs, history)]

-----------------------------------------------------------------------------
(* RefStore::preflight_receipt and the head of RefStore::apply: what a     *)
(* transaction id that was seen before answers.                            *)

\* Only a rejection is remembered: a committed id is decided again.
Known_Bug(s, tx) ==
    s.receipts[tx] # NoReceipt /\ s.receipts[tx].receipt.status = "conflict"

Known(s, tx) == s.receipts[tx] # NoReceipt

PreflightReceipt(s, tx, op) ==
    IF s.receipts[tx].op = op THEN s.receipts[tx].receipt
                              ELSE IdempotencyViolation

(* The rest of RefStore::apply, for a transaction id that is not known:    *)
(* compare, then swap or refuse, and record the receipt either way.        *)

\* An absent ref is created whatever the client expected of it.
CasHolds_Bug(s, op) == s.refs[op.ref] = op.old \/ s.refs[op.ref] = NoOid

CasHolds(s, op) == s.refs[op.ref] = op.old

Decide(s, op) ==
    IF CasHolds(s, op) THEN Committed(op.ref, s.refs[op.ref], op.new)
                       ELSE Conflict(op.ref, op.old, s.refs[op.ref])

\* A conflict leaves no receipt, so a retry is decided again.
Record_Bug(s, tx, op, receipt) ==
    IF receipt.status = "committed"
    THEN [s.receipts EXCEPT ![tx] = [op |-> op, receipt |-> receipt]]
    ELSE s.receipts

Record(s, tx, op, receipt) ==
    [s.receipts EXCEPT ![tx] = [op |-> op, receipt |-> receipt]]

\* The sequence number of the last mutation is used again.
CommittedMutation_Bug(s, tx, op, receipt) ==
    LET n == Len(s.mutations)
    IN  [sequence |-> IF n = 0 THEN 1 ELSE s.mutations[n].sequence, tx |-> tx, op |-> op,
         ref |-> receipt.ref, old |-> receipt.old, new |-> receipt.new]

CommittedMutation(s, tx, op, receipt) ==
    [sequence |-> Len(s.mutations) + 1, tx |-> tx, op |-> op,
     ref |-> receipt.ref, old |-> receipt.old, new |-> receipt.new]

\* The checkpoint is computed before the ref map is changed.
CommitUpdate_Bug(s, tx, op) ==
    LET receipt  == Decide(s, op)
        mutation == CommittedMutation(s, tx, op, receipt)
    IN  [refs        |-> [s.refs EXCEPT ![op.ref] = op.new],
         receipts    |-> Record(s, tx, op, receipt),
         mutations   |-> Append(s.mutations, mutation),
         checkpoints |-> Append(s.checkpoints,
                                NewCheckpoint(s.checkpoints, mutation, s.refs))]

CommitUpdate(s, tx, op) ==
    LET receipt  == Decide(s, op)
        refs     == [s.refs EXCEPT ![op.ref] = op.new]
        mutation == CommittedMutation(s, tx, op, receipt)
    IN  [refs        |-> refs,
         receipts    |-> Record(s, tx, op, receipt),
         mutations   |-> Append(s.mutations, mutation),
         checkpoints |-> Append(s.checkpoints,
                                NewCheckpoint(s.checkpoints, mutation, refs))]

\* A rejection is recorded without its conflict.
RejectUpdate_Bug(s, tx, op) ==
    [s EXCEPT !.receipts = Record(s, tx, op, IdempotencyViolation)]

RejectUpdate(s, tx, op) ==
    [s EXCEPT !.receipts = Record(s, tx, op, Decide(s, op))]

ApplyUpdate(s, tx, op) ==
    IF CasHolds(s, op) THEN CommitUpdate(s, tx, op) ELSE RejectUpdate(s, tx, op)

-----------------------------------------------------------------------------
(* RefStore::from_snapshot: the checks a snapshot must pass to be loaded.  *)
(* The code replays the mutations over an empty ref map; since it insists  *)
(* that the refs root of every checkpoint is the replayed map, the map     *)
(* after mutation i is the refs root of checkpoint i.                      *)

RefsBefore(s, i) == IF i = 1 THEN EmptyRefs ELSE s.checkpoints[i - 1].refsRoot

ParentOf(s, i) == IF i = 1 THEN NoCid ELSE s.checkpoints[i - 1].cid

HistoryBefore(s, i) == IF i = 1 THEN NoHistory ELSE s.checkpoints[i - 1].historyRoot

ReplayedRefs(s) ==
    IF s.checkpoints = <<>> THEN EmptyRefs
                            ELSE s.checkpoints[Len(s.checkpoints)].refsRoot

(* validate_mutation_sequence *)
MutationInSequence(s, i) == s.mutations[i].sequence = i

(* the old value of a mutation is what the replay holds *)
MutationFollows(s, i) ==
    LET m == s.mutations[i] IN RefsBefore(s, i)[m.ref] = m.old

(* validate_mutation_receipt *)
MutationHasReceipt(s, i) ==
    LET m == s.mutations[i]
    IN  /\ s.receipts[m.tx] # NoReceipt
        /\ s.receipts[m.tx].op = m.op
        /\ s.receipts[m.tx].receipt = Committed(m.ref, m.old, m.new)

(* the checkpoint is the one recomputed from the replay *)
CheckpointRecomputes(s, i) ==
    LET m == s.mutations[i]
        c == s.checkpoints[i]
    IN  /\ c.sequence = m.sequence
        /\ c.parent = ParentOf(s, i)
        /\ c.refsRoot = [RefsBefore(s, i) EXCEPT ![m.ref] = m.new]
        /\ c.historyRoot = ComputeHistoryRoot(HistoryBefore(s, i), m)
        /\ c.cid = ComputeCheckpointCid(m.sequence, c.parent, c.refsRoot, c.historyRoot)

ConsistentStore(s) ==
    /\ Len(s.mutations) = Len(s.checkpoints)
    /\ \A i \in 1..Len(s.mutations) :
          /\ MutationInSequence(s, i)
          /\ MutationFollows(s, i)
          /\ MutationHasReceipt(s, i)
          /\ CheckpointRecomputes(s, i)
    /\ s.refs = ReplayedRefs(s)

-----------------------------------------------------------------------------
(* SignedRefCheckpoint::verify, without the signature: what a client       *)
(* checks of a checkpoint given the one before it.                         *)

NoCheckpoint == [sequence |-> 0, cid |-> NoCid]

CheckpointChains(previous, c) ==
    /\ c.sequence = previous.sequence + 1
    /\ c.parent = previous.cid
    /\ c.cid = ComputeCheckpointCid(c.sequence, c.parent, c.refsRoot, c.historyRoot)

LatestCheckpoint(s) == s.checkpoints[Len(s.checkpoints)]

-----------------------------------------------------------------------------
(* The log of swaps RefLog.tla speaks of: what the clients asked for.      *)

SwapOf(m) == [tx |-> m.tx, ref |-> m.op.ref, old |-> m.op.old, new |-> m.op.new]

LogOf(s) == [i \in 1..Len(s.mutations) |-> SwapOf(s.mutations[i])]

-----------------------------------------------------------------------------
(* What the receipts and the log say of a transaction.                     *)

CommittedAs(s, tx) ==
    /\ Known(s, tx)
    /\ s.receipts[tx].receipt.status = "committed"

LoggedAt(s, tx) == {i \in 1..Len(s.mutations) : s.mutations[i].tx = tx}

(* Every committed transaction is logged, and logged once, and no other is.*)
AppliedOnceIn(s) ==
    /\ \A i, j \in 1..Len(s.mutations) : s.mutations[i].tx = s.mutations[j].tx => i = j
    /\ \A t \in TxIds : CommittedAs(s, t) <=> LoggedAt(s, t) # {}

(* The log and the checkpoints of s begin as those of f, a file of it.     *)
PrefixOf(f, s) ==
    /\ Len(f.mutations) <= Len(s.mutations)
    /\ \A i \in 1..Len(f.mutations) :
          /\ f.mutations[i] = s.mutations[i]
          /\ f.checkpoints[i] = s.checkpoints[i]
=============================================================================

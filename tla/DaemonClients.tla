--------------------------- MODULE DaemonClients ---------------------------
(***************************************************************************)
(* What the clients of gitmeshd have seen of it: the answers they got, and *)
(* every policy and checkpoint they could have read.  None of this is      *)
(* state of the daemon; it outlives its crashes.                           *)
(***************************************************************************)
EXTENDS RefDaemon

VARIABLES
    replies,     \* what clients were answered to their updates, ever
    policies,    \* the policies POLICY_SHOW could have shown, ever
    checkpoints  \* the checkpoints REF_CHECKPOINT could have shown, ever

seen == <<replies, policies, checkpoints>>

LatestCheckpoints(s) ==
    IF s.checkpoints = <<>> THEN {} ELSE {LatestCheckpoint(s)}

ClientInit ==
    /\ Init
    /\ replies = {}
    /\ policies = {policy}
    /\ checkpoints = LatestCheckpoints(refs)

(* POLICY_SHOW and REF_CHECKPOINT may come between any two commands.       *)
Observe ==
    /\ policies' = policies \cup {policy'}
    /\ checkpoints' = checkpoints \cup LatestCheckpoints(refs')

ReceiptFor(request) ==
    IF Known(refs, request.tx) THEN PreflightReceipt(refs, request.tx, OpOf(request))
                               ELSE Decide(refs, OpOf(request))

(* An update is answered with a receipt unless it was applied and could    *)
(* not be saved.  (An answer that is lost on its way is one nobody can     *)
(* compare with another.)                                                  *)
Reply(request) ==
    replies' = IF refs' # refs /\ disk'.refs # refs' THEN replies
               ELSE replies \cup {[request |-> request, receipt |-> ReceiptFor(request)]}

ClientUpdate(request) ==
    /\ RefUpdate(request)
    /\ Reply(request)
    /\ Observe

Unanswered ==
    /\ \/ \E change \in Changes : PolicyChange(change)
       \/ \E pack \in Packs : ObjectPut(pack)
       \/ \E o \in Oids : Expire(o)
       \/ Restart
    /\ UNCHANGED replies
    /\ Observe

ClientNext == (\E request \in Requests : ClientUpdate(request)) \/ Unanswered

ClientSpec == ClientInit /\ [][ClientNext]_<<vars, seen>>

-----------------------------------------------------------------------------
(* Properties. *)

(* Replies, policies and checkpoints have their types.                     *)
SeenTypeOK ==
    /\ replies \subseteq [request: Request, receipt: Receipt \cup {IdempotencyViolation}]
    /\ policies \subseteq Policy
    /\ checkpoints \subseteq Checkpoint

Decided(reply) == reply.receipt # IdempotencyViolation

(* What a client was told about its update is in the ref file: no crash    *)
(* takes back a "committed", nor turns a "conflict" into one.              *)
AnswersAreDurable ==
    \A reply \in {r \in replies : Decided(r)} :
        /\ Known(disk.refs, reply.request.tx)
        /\ disk.refs.receipts[reply.request.tx].receipt = reply.receipt

(* A client that sends the same request again, because the answer was lost *)
(* or it does not know, is answered as the first time: docs/PROTOCOL.md.   *)
SameAnswer(signers) ==
    \A r, s \in replies :
        r.request = s.request /\ r.request.signer \in signers => r.receipt = s.receipt

SignedRetriesAgree == SameAnswer(Devices)

RetriesAgree == SameAnswer(Signers)

(* An epoch names one policy, whatever crashed in between: a client that   *)
(* signs for an epoch knows the policy it signs for.  (Until the counter   *)
(* saturates.)                                                             *)
EpochNamesPolicy ==
    \A p, q \in policies : p.epoch = q.epoch /\ p.epoch < MaxEpoch => p = q

(* The log is in the order of the policies: an entry never carries an      *)
(* epoch older than an entry before it, and each was authorized by a       *)
(* policy that had that epoch.                                             *)
LogFollowsPolicy ==
    LET log == refs.mutations
    IN  \A i \in 1..Len(log) :
            /\ \A j \in i..Len(log) : log[i].op.epoch <= log[j].op.epoch
            /\ log[Len(log)].op.epoch <= policy.epoch
            /\ \E p \in policies : AuthorizeRefUpdate(p, log[i].op)

(* Clients that compare checkpoints never see two for one sequence number: *)
(* the daemon does not equivocate, not even by crashing.                   *)
NoEquivocation ==
    \A c, d \in checkpoints : c.sequence = d.sequence => c = d

(* While every save succeeds, the daemon is for its clients a register     *)
(* that never crashes: a transaction is decided once, against the value    *)
(* that the ref has then, and every retry is answered from what was        *)
(* decided, in spite of memory, file and restarts (docs/PROTOCOL.md,       *)
(* Idempotency).                                                           *)
Decisions ==
    {[tx |-> t, request |-> refs.receipts[t].op, answer |-> refs.receipts[t].receipt] :
        t \in {u \in TxIds : Known(refs, u)}}

Once == INSTANCE ExactlyOnce WITH
    value <- refs.refs, decided <- Decisions, told <- replies,
    Epochs <- 0..MaxEpoch, Refused <- IdempotencyViolation

AnsweredOnce == Once!Spec
=============================================================================

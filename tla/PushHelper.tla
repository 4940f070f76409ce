----------------------------- MODULE PushHelper -----------------------------
(***************************************************************************)
(* git-remote-gitmesh against gitmeshd: any number of `git push` processes *)
(* interleaved, each a sequence of separate commands to the daemon         *)
(*                                                                         *)
(*    REF_GET, OBJECT_PUT for every reachable object, POLICY_SHOW,         *)
(*    REF_UPDATE[_SIGNED][_FORCE]                                          *)
(*                                                                         *)
(* with crashes of the daemon and policy changes in between.  What the     *)
(* daemon does with a command is RefDaemon.tla.                            *)
(***************************************************************************)
EXTENDS RefDaemon

CONSTANTS
    Pushers,      \* the helper processes
    SignerOf,     \* the identity each of them has, or Anonymous
    Pushes,       \* the refspecs each of them may be told to push
    Sanitized     \* sanitize_tx_component of each ref name

(* PushCommand: the source, NoOid to delete; the destination; a leading "+" *)
PushCommand == [src: Target, dst: RefNames, force: BOOLEAN]

ASSUME PushAssumption ==
    /\ SignerOf \in [Pushers -> Signers]
    /\ Pushes \in [Pushers -> SUBSET PushCommand]
    /\ RefNames # {}
    /\ \A r \in RefNames, old, new \in Target : <<Sanitized[r], old, new>> \in TxIds

VARIABLE
    helper      \* where each helper is in apply_push, and what it read

pushVars == <<vars, helper>>

NoCommand == [src |-> NoOid, dst |-> CHOOSE r \in RefNames : TRUE, force |-> FALSE]

Idle(result) ==
    [at |-> "idle", push |-> NoCommand, expected |-> NoOid, unsent |-> {},
     epoch |-> 0, result |-> result]

PushInit == Init /\ helper = [p \in Pushers |-> Idle("none")]

-----------------------------------------------------------------------------
(* apply_push, one command to the daemon at a time. *)

\* The trees of the older commits are taken for sent already.
Begin_Bug(p, push) ==
    /\ helper[p].at = "idle"
    /\ helper' = [helper EXCEPT ![p] =
           [at |-> "put", push |-> push, expected |-> refs.refs[push.dst],
            unsent |-> IF push.src = NoOid THEN {} ELSE Ancestors[push.src] \cup TreeOf[push.src],
            epoch |-> 0, result |-> "none"]]
    /\ UNCHANGED vars

(* rev-parse and rev-list are both given the name of the source: by the    *)
(* second the branch may have moved on.  (It is taken not to be set back   *)
(* or elsewhere between the two.)                                          *)
MovedOn(src) == {src} \cup {c \in Commits : src \in Ancestors[c]}

(* REF_GET, rev-parse, then rev-list: what must be put before the ref may  *)
(* move.                                                                   *)
Begin(p, push) ==
    /\ helper[p].at = "idle"
    /\ \E tip \in MovedOn(push.src) :
          helper' = [helper EXCEPT ![p] =
              [at |-> "put", push |-> push, expected |-> refs.refs[push.dst],
               unsent |-> IF push.src = NoOid THEN {} ELSE Closure(tip),
               epoch |-> 0, result |-> "none"]]
    /\ UNCHANGED vars

\* What the daemon answers is not looked at.
ImportObject_Bug(p) ==
    /\ helper[p].at = "put"
    /\ \E o \in helper[p].unsent :
          /\ ObjectPut({o})
          /\ helper' = [helper EXCEPT ![p].unsent = @ \ {o}]

(* rev-list --objects names the commits first, newest before oldest.       *)
NextInRevList(unsent, o) ==
    \A c \in unsent \cap Commits : c = o \/ (o \in Commits /\ o \notin Ancestors[c])

(* import_git_object: the first object the daemon does not confirm ends the *)
(* push.  It may have saved that one, and only failed at its leases.        *)
ImportObject(p) ==
    /\ helper[p].at = "put"
    /\ \E o \in {x \in helper[p].unsent : NextInRevList(helper[p].unsent, x)} :
          \/ /\ PutAndSave({o})
             /\ helper' = [helper EXCEPT ![p].unsent = @ \ {o}]
          \/ /\ ObjectPut({o})
             /\ helper' = [helper EXCEPT ![p] = Idle("error")]

(* current_policy_epoch *)
ReadEpoch(p) ==
    /\ helper[p].at = "put"
    /\ helper[p].unsent = {}
    /\ helper' = [helper EXCEPT ![p].at = "update", ![p].epoch = policy.epoch]
    /\ UNCHANGED vars

(* The transaction id says what is pushed and nothing about who or when.   *)
TransactionId(push, expected) == <<Sanitized[push.dst], expected, push.src>>

RequestOf(p) ==
    LET h == helper[p]
    IN  [tx |-> TransactionId(h.push, h.expected), ref |-> h.push.dst,
         old |-> h.expected, new |-> h.push.src, force |-> h.push.force,
         epoch |-> IF SignerOf[p] = Anonymous THEN 0 ELSE h.epoch,
         signer |-> SignerOf[p]]

\* Any receipt will do, a conflict too.
ReportOn_Bug(p, receipt) == helper' = [helper EXCEPT ![p] = Idle("ok")]

ReportOn(p, receipt) ==
    helper' = [helper EXCEPT ![p] =
        Idle(IF receipt.status = "committed" THEN "ok" ELSE "error")]

UpdateKnown(p) ==
    /\ helper[p].at = "update"
    /\ AnswerKnown(RequestOf(p))
    /\ ReportOn(p, PreflightReceipt(refs, RequestOf(p).tx, OpOf(RequestOf(p))))

UpdateApplied(p) ==
    /\ helper[p].at = "update"
    /\ ApplyAndSave(RequestOf(p))
    /\ ReportOn(p, Decide(refs, OpOf(RequestOf(p))))

(* The daemon applied it, but could not save it or died before it answered. *)
UpdateUnanswered(p) ==
    /\ helper[p].at = "update"
    /\ \/ ApplyUnsaved(RequestOf(p))
       \/ ApplyAndSave(RequestOf(p))
    /\ helper' = [helper EXCEPT ![p] = Idle("error")]

(* Refused: not authorized, not valid, not available; or the walk over the *)
(* history met a commit the daemon does not hold.                          *)
UpdateRefused(p) ==
    /\ helper[p].at = "update"
    /\ ~ Known(refs, RequestOf(p).tx)
    /\ Accepts(RequestOf(p)) => WalkMayFail(objects, helper[p].push.src)
    /\ helper' = [helper EXCEPT ![p] = Idle("error")]
    /\ UNCHANGED vars

(* The process is killed, or finds the daemon down: git starts it anew for *)
(* the next push.                                                          *)
Dies(p) ==
    /\ helper[p].at # "idle"
    /\ helper' = [helper EXCEPT ![p] = Idle("none")]
    /\ UNCHANGED vars

Step(p) ==
    \/ \E push \in Pushes[p] : Begin(p, push)
    \/ ImportObject(p)
    \/ ReadEpoch(p)
    \/ UpdateKnown(p)
    \/ UpdateApplied(p)
    \/ UpdateUnanswered(p)
    \/ UpdateRefused(p)
    \/ Dies(p)

PushNext ==
    \/ \E p \in Pushers : Step(p)
    \/ \E change \in Changes : PolicyChange(change) /\ UNCHANGED helper
    \/ Restart /\ UNCHANGED helper

PushSpec == PushInit /\ [][PushNext]_pushVars

-----------------------------------------------------------------------------
(* Properties. *)

(* The helper is where apply_push can be, with what it can have read, and  *)
(* asks for the update only when every object was put.                     *)
HelperTypeOK ==
    /\ helper \in [Pushers ->
         [at: {"idle", "put", "update"}, push: PushCommand, expected: Target,
          unsent: SUBSET Oids, epoch: 0..MaxEpoch,
          result: {"none", "ok", "error"}]]
    /\ \A p \in Pushers : helper[p].at = "update" => helper[p].unsent = {}

ReportsOk(p) == helper[p].at = "update" /\ helper'[p].result = "ok"

(* "ok" means the compare-and-swap that was asked for is in the log,       *)
(* whichever command of the push the daemon failed or restarted at.        *)
OkWasCommitted ==
    [][\A p \in Pushers : ReportsOk(p) =>
          \E i \in 1..Len(refs'.mutations) :
              LET m == refs'.mutations[i]
              IN  /\ m.ref = helper[p].push.dst
                  /\ m.old = helper[p].expected
                  /\ m.new = helper[p].push.src]_pushVars

(* "ok" means the ref is now what was pushed: docs/COORDINATION.md, "A     *)
(* push succeeds only if current_ref == expected_old_oid".                 *)
OkMeansApplied ==
    [][\A p \in Pushers : ReportsOk(p) =>
          /\ refs.refs[helper[p].push.dst] = helper[p].expected
          /\ refs'.refs[helper[p].push.dst] = helper[p].push.src]_pushVars
=============================================================================

----------------------------- MODULE RefDaemon -----------------------------
(***************************************************************************)
(* gitmeshd: the refs, the policy and the Git objects of one repository    *)
(* behind one lock, each with its own snapshot file.                       *)
(*                                                                         *)
(* serve_unix_socket runs every command under a Mutex, so a command is one *)
(* step.  It changes memory first and saves the file afterwards: when the  *)
(* save fails the command answers an error and the change stays in memory. *)
(* A crash keeps the files and loses the rest.                             *)
(*                                                                         *)
(* A command that is refused changes nothing and is not a step.            *)
(***************************************************************************)
EXTENDS PolicyOps, ObjectGraph

CONSTANTS
    Requests,      \* the REF_UPDATEs clients send
    Packs,         \* the sets of objects clients upload, by OBJECT_PUT or PACK_PUT
    Changes,       \* the policy commands clients send
    SaveMayFail    \* whether saving a file can fail

Request ==
    [tx: TxIds, ref: RefNames, old: Target, new: Target, force: BOOLEAN,
     epoch: Nat, signer: Signers]

Change ==
    [command: {"POLICY_SET_REQUIRE_SIGNED"}, value: BOOLEAN]
    \cup [command: {"POLICY_GRANT_WRITER_ACCOUNT", "POLICY_GRANT_FORCE_ACCOUNT"},
          value: Accounts]
    \cup [command: {"POLICY_PROTECT_REF"}, value: RefNames]

ASSUME DaemonAssumption ==
    /\ Requests \subseteq Request
    /\ Packs \subseteq SUBSET Oids
    /\ Changes \subseteq Change
    /\ SaveMayFail \in BOOLEAN

VARIABLES
    refs,        \* the RefStore in memory
    policy,      \* the RepoPolicy in memory
    objects,     \* the objects in memory, all their shards present
    leased,      \* the objects whose provider records have not expired
    disk         \* the ref, policy and object files

memory == <<refs, policy, objects, leased>>
vars == <<memory, disk>>

Init ==
    /\ refs = EmptyStore
    /\ policy = DefaultPolicy
    /\ objects = {}
    /\ leased = {}
    /\ disk = [refs |-> EmptyStore, policy |-> DefaultPolicy, objects |-> {}]

-----------------------------------------------------------------------------
(* REF_UPDATE, REF_UPDATE_FORCE and their SIGNED forms.  An unsigned one   *)
(* carries no epoch: ref_update fills in the epoch it finds.               *)

\* A signed update loses the epoch it was signed for as well.
OpOf_Bug(request) ==
    [ref |-> request.ref, old |-> request.old, new |-> request.new,
     force |-> request.force, signer |-> request.signer, epoch |-> policy.epoch]

OpOf(request) ==
    [ref |-> request.ref, old |-> request.old, new |-> request.new,
     force |-> request.force, signer |-> request.signer,
     epoch |-> IF request.signer = Anonymous THEN policy.epoch ELSE request.epoch]

\* A forced update is not validated at all.
ValidRefUpdate_Bug(op) ==
    \/ op.new = NoOid
    \/ op.force
    \/ /\ ValidRefTarget(objects, op.ref, op.new)
       /\ op.ref \in Heads /\ op.old # NoOid => IsCommitAncestor(objects, op.old, op.new)

(* RepositoryObjectStore::validate_ref_update *)
ValidRefUpdate(op) ==
    \/ op.new = NoOid
    \/ /\ ValidRefTarget(objects, op.ref, op.new)
       /\ op.ref \in Heads /\ ~ op.force /\ op.old # NoOid =>
              IsCommitAncestor(objects, op.old, op.new)

(* require_available_ref_target *)
AvailableRefTarget(op) == op.new = NoOid \/ op.new \in objects \cap leased

AnswerKnown(request) ==
    /\ Known(refs, request.tx)
    /\ UNCHANGED vars

Accepts(request) ==
    /\ ~ Known(refs, request.tx)
    /\ AuthorizeRefUpdate(policy, OpOf(request))
    /\ ValidRefUpdate(OpOf(request))
    /\ AvailableRefTarget(OpOf(request))

ApplyToRefs(request) ==
    /\ Accepts(request)
    /\ refs' = ApplyUpdate(refs, request.tx, OpOf(request))
    /\ UNCHANGED <<policy, objects, leased>>

\* The answer is sent before the file is saved.
ApplyAndSave_Bug(request) ==
    /\ ApplyToRefs(request)
    /\ UNCHANGED disk

ApplyAndSave(request) ==
    /\ ApplyToRefs(request)
    /\ disk' = [disk EXCEPT !.refs = refs']

ApplyUnsaved(request) ==
    /\ SaveMayFail
    /\ ApplyToRefs(request)
    /\ UNCHANGED disk

RefUpdate(request) ==
    \/ AnswerKnown(request)
    \/ ApplyAndSave(request)
    \/ ApplyUnsaved(request)

-----------------------------------------------------------------------------
(* POLICY_SET_REQUIRE_SIGNED, POLICY_GRANT_WRITER_ACCOUNT,                 *)
(* POLICY_GRANT_FORCE_ACCOUNT, POLICY_PROTECT_REF *)

AfterChange(p, change) ==
    CASE change.command = "POLICY_SET_REQUIRE_SIGNED"   -> SetRequireSigned(p, change.value)
      [] change.command = "POLICY_GRANT_WRITER_ACCOUNT" -> GrantWriter(p, change.value)
      [] change.command = "POLICY_GRANT_FORCE_ACCOUNT"  -> GrantForcePush(p, change.value)
      [] change.command = "POLICY_PROTECT_REF"          -> ProtectRef(p, change.value)

PolicyChange(change) ==
    /\ policy' = AfterChange(policy, change)
    /\ \/ disk' = [disk EXCEPT !.policy = policy']
       \/ SaveMayFail /\ UNCHANGED disk
    /\ UNCHANGED <<refs, objects, leased>>

-----------------------------------------------------------------------------
(* OBJECT_PUT and PACK_PUT store the objects that are new, renew the leases*)
(* of all of them and save the whole object store.  The availability file  *)
(* saved after it is left out: a restart publishes local leases anew.      *)

PutInMemory(pack) ==
    /\ objects' = objects \cup pack
    /\ leased' = leased \cup pack
    /\ UNCHANGED <<refs, policy>>

PutAndSave(pack) ==
    /\ PutInMemory(pack)
    /\ disk' = [disk EXCEPT !.objects = objects']

PutUnsaved(pack) ==
    /\ SaveMayFail
    /\ PutInMemory(pack)
    /\ UNCHANGED disk

ObjectPut(pack) == PutAndSave(pack) \/ PutUnsaved(pack)

(* 86400 seconds pass since the object was last put.                       *)
Expire(o) ==
    /\ o \in leased
    /\ leased' = leased \ {o}
    /\ UNCHANGED <<refs, policy, objects, disk>>

-----------------------------------------------------------------------------
(* The process dies and with_every_store_path starts a new one, which      *)
(* publishes the provider records of every object it loaded.               *)
Restart ==
    /\ ConsistentStore(disk.refs)
    /\ refs' = disk.refs
    /\ policy' = disk.policy
    /\ objects' = disk.objects
    /\ leased' = disk.objects
    /\ UNCHANGED disk

Next ==
    \/ \E request \in Requests : RefUpdate(request)
    \/ \E change \in Changes : PolicyChange(change)
    \/ \E pack \in Packs : ObjectPut(pack)
    \/ \E o \in Oids : Expire(o)
    \/ Restart

Spec == Init /\ [][Next]_vars

-----------------------------------------------------------------------------
(* Properties. *)

(* Every variable holds a value of its type (DaemonState, lib.rs:160-178). *)
TypeOK ==
    /\ refs \in Store
    /\ policy \in Policy
    /\ objects \subseteq Oids
    /\ leased \subseteq objects
    /\ disk \in [refs: Store, policy: Policy, objects: SUBSET Oids]

(* The three files are ones with_every_store_path loads, whichever saves   *)
(* failed: a daemon that stopped can be started again.                     *)
DaemonStarts == ConsistentStore(disk.refs)

(* What a ref in the ref file names is in the object file, with its tree   *)
(* and its direct parents, so it is there after a crash.                   *)
DurableRefTargets ==
    \A ref \in RefNames :
        LET o == disk.refs.refs[ref]
        IN  o # NoOid => ValidRefTarget(disk.objects, ref, o)

(* Everything a clone of a ref needs is in the object file.                *)
RefTargetsComplete ==
    \A ref \in Heads :
        LET o == disk.refs.refs[ref]
        IN  o # NoOid => Closure(o) \subseteq disk.objects

(* Without a force push or a deletion a branch loses no commit: whatever   *)
(* it pointed to since is in the history of what it points to now.         *)
GoesForward(log, r, i, j) ==
    \A k \in (i + 1)..j : log[k].ref = r => ~ log[k].op.force /\ log[k].new # NoOid

BranchesKeepCommits ==
    LET log == refs.mutations
    IN  \A r \in Heads, i, j \in 1..Len(log) :
            /\ i < j /\ log[i].ref = r /\ log[j].ref = r
            /\ log[i].new # NoOid /\ GoesForward(log, r, i, j)
            => log[i].new \in Ancestors[log[j].new]

(* Whichever saves fail and whenever the daemon dies, its refs are the log *)
(* of RefLog: each swap takes effect once, against the value the log gives *)
(* the ref, and a crash loses only what the last good save had not got.    *)
L == INSTANCE RefLog WITH log <- LogOf(refs), durable <- Len(disk.refs.mutations)

RefsAreLog == L!Spec
=============================================================================

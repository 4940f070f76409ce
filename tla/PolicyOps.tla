----------------------------- MODULE PolicyOps -----------------------------
(***************************************************************************)
(* The functional core of RepoPolicy (crates/gitmesh-coordination): the    *)
(* grants of a repository, the epoch that names them, and which RefUpdates *)
(* they authorize.                                                         *)
(***************************************************************************)
EXTENDS RefOps

CONSTANTS
    Accounts,      \* account ids
    AccountOf,     \* the account that certified each device
    Anonymous,     \* the signer of an unsigned update
    MaxEpoch       \* the largest epoch, u64::MAX in the code: adding to it saturates

ASSUME MaxEpochAssumption == MaxEpoch \in Nat

Devices == Signers \ {Anonymous}

ASSUME AccountsAssumption == AccountOf \in [Devices -> Accounts]

(* writer_accounts and writer_devices are one set here, and so are the     *)
(* force_push sets: account ids and device ids are different hashes.       *)
Principals == Accounts \cup Devices

Policy ==
    [epoch: 0..MaxEpoch, requireSigned: BOOLEAN, writers: SUBSET Principals,
     forcers: SUBSET Principals, protected: SUBSET RefNames]

DefaultPolicy ==
    [epoch |-> 0, requireSigned |-> FALSE, writers |-> {}, forcers |-> {},
     protected |-> {}]

\* Adding to the largest epoch overflows, to zero, instead of saturating.
Bump_Bug(epoch) == IF epoch = MaxEpoch THEN 0 ELSE epoch + 1

Bump(epoch) == IF epoch = MaxEpoch THEN MaxEpoch ELSE epoch + 1

(* Every setter bumps the epoch if it changes something, and only then.    *)
Changed(p, q) == IF q = p THEN p ELSE [q EXCEPT !.epoch = Bump(p.epoch)]

SetRequireSigned(p, value) == Changed(p, [p EXCEPT !.requireSigned = value])

GrantWriter(p, a) == Changed(p, [p EXCEPT !.writers = @ \cup {a}])

GrantForcePush(p, a) == Changed(p, [p EXCEPT !.forcers = @ \cup {a}])

ProtectRef(p, r) == Changed(p, [p EXCEPT !.protected = @ \cup {r}])

(* Whom the signature of an update speaks for: its device and the account. *)
ActorOf(signer) ==
    IF signer = Anonymous THEN {} ELSE {signer, AccountOf[signer]}

MayWrite(p, actor) == p.writers = {} \/ p.writers \cap actor # {}

Rewinds(op) == op.force \/ op.new = NoOid

\* The epoch of the update is not compared with the policy's.
AuthorizeRefUpdate_Bug(p, op) ==
    IF op.signer = Anonymous
    THEN ~ p.requireSigned /\ p.writers = {}
    ELSE /\ MayWrite(p, ActorOf(op.signer))
         /\ op.ref \in p.protected /\ Rewinds(op) =>
                p.forcers \cap ActorOf(op.signer) # {}

AuthorizeRefUpdate(p, op) ==
    /\ op.epoch = p.epoch
    /\ IF op.signer = Anonymous
       THEN ~ p.requireSigned /\ p.writers = {}
       ELSE /\ MayWrite(p, ActorOf(op.signer))
            /\ op.ref \in p.protected /\ Rewinds(op) =>
                   p.forcers \cap ActorOf(op.signer) # {}
=============================================================================

-------------------------- MODULE PushHelperProofs --------------------------
(***************************************************************************)
(* What any number of `git push` processes guarantee together with the     *)
(* daemon, whichever saves fail, whatever the policy becomes and whenever  *)
(* anything dies.                                                          *)
(***************************************************************************)
EXTENDS PushHelper, RefDaemonProofs, TLAPS

-----------------------------------------------------------------------------
(* Types. *)

(* A helper is told to push a source to a destination there is.            *)
LEMMA NoCommandType == NoCommand \in PushCommand
BY PushAssumption DEF NoCommand, PushCommand, Target

(* What a clone of an object needs is objects.                             *)
LEMMA ClosureType ==
    ASSUME NEW o \in Oids
    PROVE  Closure(o) \subseteq Oids
<1>1. CASE o \in Commits
  <2>1. Ancestors[o] \subseteq Commits
    BY <1>1 DEF Ancestors, Within
  <2>2. \A c \in Ancestors[o] : TreeOf[c] \subseteq Oids
    BY <2>1, GraphAssumption
  <2> QED
    BY <1>1, <2>1, <2>2, CommitsAssumption DEF Closure
<1>2. CASE o \notin Commits
  BY <1>2 DEF Closure
<1> QED
  BY <1>1, <1>2

(* What rev-list names has all that a clone of the source needs.           *)
LEMMA MovedOnType ==
    ASSUME NEW o \in Oids, NEW tip \in MovedOn(o)
    PROVE  Closure(tip) \subseteq Oids /\ Closure(o) \subseteq Closure(tip)
<1>1. CASE tip = o
  BY <1>1, ClosureType
<1>2. CASE tip \in Commits /\ o \in Ancestors[tip]
  <2>1. tip \in Oids /\ o \in Commits
    BY <1>2, CommitsAssumption DEF Ancestors, Within
  <2>2. Ancestors[o] \subseteq Ancestors[tip]
    BY <1>2, <2>1 DEF Ancestors, Within
  <2> QED
    BY <1>2, <2>1, <2>2, ClosureType DEF Closure
<1> QED
  BY <1>1, <1>2 DEF MovedOn

(* What a helper asks the daemon for is a request.                         *)
LEMMA RequestOfType ==
    ASSUME HelperTypeOK, NEW p \in Pushers
    PROVE  RequestOf(p) \in Request
<1>1. /\ helper[p].push \in PushCommand /\ helper[p].expected \in Target
      /\ helper[p].epoch \in 0..MaxEpoch
  BY DEF HelperTypeOK
<1>2. helper[p].epoch \in Nat
  BY <1>1, MaxEpochAssumption
<1>3. TransactionId(helper[p].push, helper[p].expected) \in TxIds
  BY <1>1, PushAssumption DEF TransactionId, PushCommand
<1>4. SignerOf[p] \in Signers
  BY PushAssumption
<1> QED
  BY <1>1, <1>2, <1>3, <1>4 DEF RequestOf, Request, PushCommand

(* A helper that gives up or is done has its type.                         *)
LEMMA IdleType ==
    ASSUME NEW result \in {"none", "ok", "error"}
    PROVE  /\ Idle(result) \in
                  [at: {"idle", "put", "update"}, push: PushCommand, expected: Target,
                   unsent: SUBSET Oids, epoch: 0..MaxEpoch, result: {"none", "ok", "error"}]
           /\ Idle(result).at = "idle"
BY NoCommandType, MaxEpochAssumption DEF Idle, Target

(* No helper has begun.                                                    *)
LEMMA HelperTypeInit == PushInit => HelperTypeOK
BY IdleType DEF PushInit, HelperTypeOK

(* Every step of a push, a policy change or a restart keeps the types.     *)
LEMMA HelperTypeNext ==
    ASSUME TypeOK, HelperTypeOK, [PushNext]_pushVars
    PROVE  HelperTypeOK'
<1> DEFINE HelperType ==
        [at: {"idle", "put", "update"}, push: PushCommand, expected: Target,
         unsent: SUBSET Oids, epoch: 0..MaxEpoch, result: {"none", "ok", "error"}]
           Fits(h) == h \in HelperType /\ (h.at = "update" => h.unsent = {})
<1>1. helper \in [Pushers -> HelperType] /\ \A p \in Pushers : Fits(helper[p])
  BY DEF HelperTypeOK
<1>2. ASSUME NEW p \in Pushers, NEW h, Fits(h), helper' = [helper EXCEPT ![p] = h]
      PROVE  HelperTypeOK'
  BY <1>1, <1>2 DEF HelperTypeOK
<1>3. \A result \in {"none", "ok", "error"} : Fits(Idle(result))
  BY IdleType
<1>4. ASSUME NEW p \in Pushers, Step(p)
      PROVE  HelperTypeOK'
  <2> DEFINE h == helper[p]
  <2>1. h \in HelperType
    BY <1>1
  <2>2. ASSUME NEW push \in Pushes[p], Begin(p, push)
        PROVE  HelperTypeOK'
    <3>0. PICK tip \in MovedOn(push.src) :
              helper' = [helper EXCEPT ![p] =
                  [at |-> "put", push |-> push, expected |-> refs.refs[push.dst],
                   unsent |-> IF push.src = NoOid THEN {} ELSE Closure(tip),
                   epoch |-> 0, result |-> "none"]]
      BY <2>2 DEF Begin
    <3> DEFINE new ==
            [at |-> "put", push |-> push, expected |-> refs.refs[push.dst],
             unsent |-> IF push.src = NoOid THEN {} ELSE Closure(tip),
             epoch |-> 0, result |-> "none"]
    <3>1. push \in PushCommand
      BY PushAssumption
    <3>2. refs.refs[push.dst] \in Target
      BY <3>1 DEF TypeOK, Store, RefMap, PushCommand
    <3>3. (IF push.src = NoOid THEN {} ELSE Closure(tip)) \subseteq Oids
      BY <3>1, MovedOnType DEF PushCommand, Target
    <3>4. Fits(new)
      BY <3>1, <3>2, <3>3, MaxEpochAssumption
    <3>5. helper' = [helper EXCEPT ![p] = new]
      BY <3>0
    <3> HIDE DEF new, Fits
    <3> QED
      BY <1>2, <3>4, <3>5
  <2>3. CASE ImportObject(p)
    <3>1. CASE helper' = [helper EXCEPT ![p] = Idle("error")]
      BY <1>2, <1>3, <3>1
    <3>2. ASSUME NEW o, helper[p].at = "put", helper' = [helper EXCEPT ![p].unsent = @ \ {o}]
          PROVE  HelperTypeOK'
      <4>1. Fits([h EXCEPT !.unsent = @ \ {o}])
        BY <2>1, <3>2
      <4>2. helper' = [helper EXCEPT ![p] = [h EXCEPT !.unsent = @ \ {o}]]
        BY <1>1, <3>2
      <4> HIDE DEF Fits, h
      <4> QED
        BY <1>2, <4>1, <4>2
    <3> QED
      BY <2>3, <3>1, <3>2 DEF ImportObject
  <2>4. CASE ReadEpoch(p)
    <3>1. policy.epoch \in 0..MaxEpoch
      BY DEF TypeOK, Policy
    <3>2. Fits([h EXCEPT !.at = "update", !.epoch = policy.epoch])
      BY <2>1, <2>4, <3>1 DEF ReadEpoch
    <3>3. helper' = [helper EXCEPT ![p] = [h EXCEPT !.at = "update", !.epoch = policy.epoch]]
      BY <1>1, <2>4 DEF ReadEpoch
    <3> HIDE DEF Fits, h
    <3> QED
      BY <1>2, <3>2, <3>3
  <2>5. CASE UpdateKnown(p) \/ UpdateApplied(p)
    <3>1. helper' = [helper EXCEPT ![p] = Idle("ok")]
            \/ helper' = [helper EXCEPT ![p] = Idle("error")]
      BY <2>5 DEF UpdateKnown, UpdateApplied, ReportOn
    <3> QED
      BY <1>2, <1>3, <3>1
  <2>6. CASE UpdateUnanswered(p) \/ UpdateRefused(p)
    BY <1>2, <1>3, <2>6 DEF UpdateUnanswered, UpdateRefused
  <2>7. CASE Dies(p)
    BY <1>2, <1>3, <2>7 DEF Dies
  <2> QED
    BY <1>4, <2>2, <2>3, <2>4, <2>5, <2>6, <2>7 DEF Step
<1>5. CASE UNCHANGED helper
  BY <1>5 DEF HelperTypeOK
<1> QED
  BY <1>4, <1>5 DEF PushNext, pushVars

(* To the daemon, a step of a helper is a command like any other.          *)
LEMMA PushNextIsDaemonStep ==
    ASSUME HelperTypeOK, [PushNext]_pushVars
    PROVE  DaemonStep
<1>1. ASSUME NEW p \in Pushers, Step(p)
      PROVE  DaemonStep
  <2>1. RequestOf(p) \in Request
    BY RequestOfType
  <2>2. CASE ImportObject(p)
    <3>1. PICK o \in helper[p].unsent : PutAndSave({o}) \/ ObjectPut({o})
      BY <2>2 DEF ImportObject
    <3>2. {o} \in SUBSET Oids
      BY <3>1 DEF HelperTypeOK
    <3> QED
      BY <3>1, <3>2 DEF ObjectPut, DaemonStep
  <2>3. CASE UpdateKnown(p) \/ UpdateApplied(p) \/ UpdateUnanswered(p)
    BY <2>1, <2>3 DEF UpdateKnown, UpdateApplied, UpdateUnanswered, RefUpdate, DaemonStep
  <2>4. CASE UNCHANGED vars
    BY <2>4 DEF DaemonStep
  <2> QED
    BY <1>1, <2>2, <2>3, <2>4 DEF Step, Begin, ReadEpoch, UpdateRefused, Dies
<1> QED
  BY <1>1, DaemonAssumption DEF PushNext, DaemonStep, pushVars

(* The helper and the daemon keep their types, and the daemon's refs are   *)
(* sound, whatever is pushed.                                              *)
LEMMA PushesKeepDaemon == PushSpec => [](HelperTypeOK /\ TypeOK /\ RefsInv)
<1>1. PushInit => HelperTypeOK /\ TypeOK /\ RefsInv
  BY HelperTypeInit, DaemonTypeInit, RefsInvInit DEF PushInit
<1>2. HelperTypeOK /\ TypeOK /\ RefsInv /\ [PushNext]_pushVars
          => (HelperTypeOK /\ TypeOK /\ RefsInv)'
  BY HelperTypeNext, PushNextIsDaemonStep, DaemonTypeNext, RefsInvNext
<1> QED
  BY <1>1, <1>2, PTL DEF PushSpec

(* A helper is where apply_push can be, and it asks for the update only    *)
(* when every object was put.                                              *)
THEOREM HelperTypeCorrect == PushSpec => []HelperTypeOK
BY PushesKeepDaemon, PTL

(* However pushes interleave, saves fail and the daemon dies, its refs     *)
(* are the log of RefLog.                                                  *)
THEOREM PushesImplementRefLog == PushSpec => RefsAreLog
<1>1. PushInit => L!Init
  BY DEF PushInit, Init, EmptyStore, LogOf, L!Init
<1>2. HelperTypeOK /\ TypeOK /\ RefsInv /\ TypeOK' /\ [PushNext]_pushVars
          => [L!Next]_(L!vars)
  BY PushNextIsDaemonStep, DaemonStepRefinesLog
<1> QED
  BY <1>1, <1>2, PushesKeepDaemon, PTL DEF PushSpec, RefsAreLog, L!Spec

(* And no branch loses a commit to a push that does not force it.          *)
THEOREM PushesKeepCommits == PushSpec => []BranchesKeepCommits
<1>1. PushInit => HistoryInv
  BY HistoryInvInit DEF PushInit
<1>2. HelperTypeOK /\ TypeOK /\ HistoryInv /\ [PushNext]_pushVars => HistoryInv'
  BY PushNextIsDaemonStep, HistoryInvNext
<1>3. HistoryInv => BranchesKeepCommits
  BY DEF HistoryInv, HistoryKept, PairsKeep, BranchesKeepCommits
<1> QED
  BY <1>1, <1>2, <1>3, PushesKeepDaemon, PTL DEF PushSpec

-----------------------------------------------------------------------------
(* Complete refs.  A helper asks for its update only after the daemon      *)
(* confirmed each object, and it confirms what it saved; so whatever a ref *)
(* names, in memory or in the file, the object file has all of.            *)

(* Whatever the file has is in memory too.                                 *)
FileInMemory == disk.objects \subseteq objects

(* What a helper need not put any more is in the file.                     *)
SentIsSaved ==
    \A p \in Pushers :
        helper[p].at # "idle" /\ helper[p].push.src # NoOid =>
            Closure(helper[p].push.src) \ helper[p].unsent \subseteq disk.objects

TargetsComplete(s, held) ==
    \A r \in RefNames :
        LET o == s.refs[r]
        IN  o # NoOid => /\ Closure(o) \subseteq held
                         /\ r \in Heads => o \in Commits

PushInv ==
    /\ FileInMemory /\ SentIsSaved
    /\ TargetsComplete(refs, disk.objects)
    /\ TargetsComplete(disk.refs, disk.objects)

(* No file loses an object, and memory has what the file has.              *)
LEMMA FileGrows ==
    ASSUME TypeOK, FileInMemory, DaemonStep
    PROVE  disk.objects \subseteq disk'.objects /\ FileInMemory'
<1> USE DEF TypeOK, FileInMemory
<1>1. ASSUME NEW request \in Request, RefUpdate(request)
      PROVE  disk'.objects = disk.objects /\ objects' = objects
  BY <1>1 DEF RefUpdate, AnswerKnown, ApplyAndSave, ApplyUnsaved, ApplyToRefs, vars, memory
<1>2. ASSUME NEW change \in Change, PolicyChange(change)
      PROVE  disk'.objects = disk.objects /\ objects' = objects
  BY <1>2 DEF PolicyChange
<1>3. ASSUME NEW pack \in SUBSET Oids, ObjectPut(pack)
      PROVE  disk.objects \subseteq disk'.objects /\ FileInMemory'
  BY <1>3 DEF ObjectPut, PutAndSave, PutUnsaved, PutInMemory
<1>4. ASSUME NEW o \in Oids, Expire(o)
      PROVE  disk'.objects = disk.objects /\ objects' = objects
  BY <1>4 DEF Expire
<1>5. CASE Restart
  BY <1>5 DEF Restart
<1>6. CASE UNCHANGED vars
  BY <1>6 DEF vars, memory
<1> QED
  BY <1>1, <1>2, <1>3, <1>4, <1>5, <1>6 DEF DaemonStep

(* Refs that were complete are so when more is held.                       *)
LEMMA TargetsStayComplete ==
    ASSUME NEW s, NEW held, NEW more, TargetsComplete(s, held), held \subseteq more
    PROVE  TargetsComplete(s, more)
BY DEF TargetsComplete

(* Applying an update whose new value is complete keeps the refs complete. *)
LEMMA ApplyUpdateComplete ==
    ASSUME NEW s \in Store, NEW tx \in TxIds, NEW op \in Op, NEW held,
           TargetsComplete(s, held),
           op.new # NoOid => /\ Closure(op.new) \subseteq held
                             /\ op.ref \in Heads => op.new \in Commits
    PROVE  TargetsComplete(ApplyUpdate(s, tx, op), held)
<1>1. CASE CasHolds(s, op)
  <2>1. ApplyUpdate(s, tx, op).refs = [s.refs EXCEPT ![op.ref] = op.new]
    BY <1>1 DEF ApplyUpdate, CommitUpdate
  <2>2. s.refs \in RefMap /\ op.ref \in RefNames
    BY DEF Store, Op
  <2> QED
    BY <2>1, <2>2 DEF TargetsComplete, RefMap
<1>2. CASE ~ CasHolds(s, op)
  BY <1>2, RejectIsStutter DEF TargetsComplete
<1> QED
  BY <1>1, <1>2

(* No helper has begun, and there are no refs.                             *)
LEMMA PushInvInit == PushInit => PushInv
BY DEF PushInit, Init, Idle, EmptyStore, EmptyRefs, PushInv, FileInMemory, SentIsSaved,
       TargetsComplete

(* Every command of a push, policy change and restart keeps all of it.     *)
LEMMA PushInvNext ==
    ASSUME TypeOK, HelperTypeOK, PushInv, [PushNext]_pushVars
    PROVE  PushInv'
<1>1. DaemonStep
  BY PushNextIsDaemonStep
<1>2. disk.objects \subseteq disk'.objects /\ FileInMemory'
  BY <1>1, FileGrows DEF PushInv
<1>3. SentIsSaved'
  <2>1. ASSUME NEW p \in Pushers, NEW h, helper' = [helper EXCEPT ![p] = h],
               h.at # "idle" /\ h.push.src # NoOid =>
                   Closure(h.push.src) \ h.unsent \subseteq disk'.objects
        PROVE  SentIsSaved'
    BY <1>2, <2>1 DEF SentIsSaved, PushInv, HelperTypeOK
  <2>2. ASSUME NEW p \in Pushers, Step(p)
        PROVE  SentIsSaved'
    <3> DEFINE h == helper[p]
    <3>1. \A result \in {"none", "ok", "error"} :
              helper' = [helper EXCEPT ![p] = Idle(result)] => SentIsSaved'
      <4>1. \A result \in {"none", "ok", "error"} : Idle(result).at = "idle"
        BY DEF Idle
      <4> QED
        BY <2>1, <4>1
    <3>2. ASSUME NEW push \in Pushes[p], Begin(p, push)
          PROVE  SentIsSaved'
      <4>0. PICK tip \in MovedOn(push.src) :
                helper' = [helper EXCEPT ![p] =
                    [at |-> "put", push |-> push, expected |-> refs.refs[push.dst],
                     unsent |-> IF push.src = NoOid THEN {} ELSE Closure(tip),
                     epoch |-> 0, result |-> "none"]]
        BY <3>2 DEF Begin
      <4> DEFINE new ==
              [at |-> "put", push |-> push, expected |-> refs.refs[push.dst],
               unsent |-> IF push.src = NoOid THEN {} ELSE Closure(tip),
               epoch |-> 0, result |-> "none"]
      <4>1. new.push.src # NoOid => Closure(new.push.src) \ new.unsent = {}
        <5>1. push.src \in Target
          BY PushAssumption DEF PushCommand
        <5> QED
          BY <5>1, MovedOnType DEF Target
      <4>2. helper' = [helper EXCEPT ![p] = new]
        BY <4>0
      <4> HIDE DEF new
      <4> QED
        BY <2>1, <4>1, <4>2
    <3>3. CASE ImportObject(p)
      <4>1. ASSUME NEW o \in h.unsent, PutAndSave({o}),
                   helper' = [helper EXCEPT ![p].unsent = @ \ {o}]
            PROVE  SentIsSaved'
        <5>1. helper[p].at = "put"
          BY <3>3 DEF ImportObject
        <5>2. disk'.objects = objects \cup {o}
          BY <4>1 DEF PutAndSave, PutInMemory, TypeOK
        <5>3. h.push.src # NoOid => Closure(h.push.src) \ h.unsent \subseteq disk.objects
          BY <5>1 DEF PushInv, SentIsSaved
        <5>4. disk.objects \subseteq objects
          BY DEF PushInv, FileInMemory
        <5> DEFINE new == [h EXCEPT !.unsent = @ \ {o}]
        <5>5. helper' = [helper EXCEPT ![p] = new]
          BY <4>1 DEF HelperTypeOK
        <5>6. new.push = h.push /\ new.unsent = h.unsent \ {o}
          BY DEF HelperTypeOK
        <5>7. new.push.src # NoOid => Closure(new.push.src) \ new.unsent \subseteq disk'.objects
          BY <5>2, <5>3, <5>4, <5>6
        <5> HIDE DEF new
        <5> QED
          BY <2>1, <5>5, <5>7
      <4> QED
        BY <3>1, <3>3, <4>1 DEF ImportObject
    <3>4. CASE ReadEpoch(p)
      <4> DEFINE new == [h EXCEPT !.at = "update", !.epoch = policy.epoch]
      <4>1. helper' = [helper EXCEPT ![p] = new] /\ h.at = "put" /\ disk' = disk
        BY <3>4 DEF ReadEpoch, HelperTypeOK, vars
      <4>2. new.push = h.push /\ new.unsent = h.unsent
        BY DEF HelperTypeOK
      <4>3. new.push.src # NoOid => Closure(new.push.src) \ new.unsent \subseteq disk'.objects
        BY <4>1, <4>2 DEF PushInv, SentIsSaved
      <4> HIDE DEF new
      <4> QED
        BY <2>1, <4>1, <4>3
    <3>5. CASE UpdateKnown(p) \/ UpdateApplied(p) \/ UpdateUnanswered(p) \/ UpdateRefused(p)
               \/ Dies(p)
      BY <3>1, <3>5
         DEF UpdateKnown, UpdateApplied, ReportOn, UpdateUnanswered, UpdateRefused, Dies
    <3> QED
      BY <2>2, <3>2, <3>3, <3>4, <3>5 DEF Step
  <2>3. CASE UNCHANGED helper
    BY <1>2, <2>3 DEF SentIsSaved, PushInv
  <2> QED
    BY <2>2, <2>3 DEF PushNext, pushVars
<1>4. TargetsComplete(refs, disk'.objects) /\ TargetsComplete(disk.refs, disk'.objects)
  BY <1>2, TargetsStayComplete DEF PushInv
<1>5. CASE Untouched \/ Reloaded
  BY <1>2, <1>3, <1>4, <1>5 DEF Untouched, Reloaded, PushInv
<1>6. ASSUME NEW p \in Pushers, ApplyToRefs(RequestOf(p)), helper[p].at = "update",
             disk'.refs \in {refs', disk.refs}
      PROVE  PushInv'
  <2> DEFINE op == OpOf(RequestOf(p))
             tx == RequestOf(p).tx
  <2>1. op \in Op /\ tx \in TxIds
    BY RequestOfType, OpOfType DEF TypeOK, Request
  <2>2. refs' = ApplyUpdate(refs, tx, op) /\ ValidRefUpdate(op)
    BY <1>6 DEF ApplyToRefs, Accepts
  <2>3. op.new = helper[p].push.src
    BY DEF OpOf, RequestOf
  <2>4. op.new # NoOid => Closure(op.new) \subseteq disk'.objects
    <3>1. helper[p].unsent = {}
      BY <1>6 DEF HelperTypeOK
    <3>2. op.new # NoOid => Closure(op.new) \subseteq disk.objects
      BY <1>6, <2>3, <3>1 DEF PushInv, SentIsSaved
    <3> QED
      BY <1>2, <3>2
  <2>5. op.new # NoOid /\ op.ref \in Heads => op.new \in Commits
    BY <2>2 DEF ValidRefUpdate, ValidRefTarget, ValidCommitGraph
  <2> HIDE DEF op, tx
  <2>6. TargetsComplete(refs', disk'.objects)
    BY <1>4, <2>1, <2>2, <2>4, <2>5, ApplyUpdateComplete DEF TypeOK
  <2> QED
    BY <1>2, <1>3, <1>4, <1>6, <2>6 DEF PushInv
<1>7. ASSUME NEW p \in Pushers, Step(p)
      PROVE  PushInv'
  <2>1. ASSUME NEW o, PutAndSave({o}) \/ ObjectPut({o})
        PROVE  Untouched
    BY <2>1 DEF PutAndSave, ObjectPut, PutUnsaved, PutInMemory, Untouched, TypeOK
  <2>2. UNCHANGED vars => Untouched
    BY DEF vars, memory, Untouched
  <2>3. CASE ImportObject(p)
    BY <1>5, <2>1, <2>3 DEF ImportObject
  <2>4. CASE UpdateApplied(p) \/ UpdateUnanswered(p)
    <3>1. helper[p].at = "update"
      BY <2>4 DEF UpdateApplied, UpdateUnanswered
    <3>2. ApplyAndSave(RequestOf(p)) \/ ApplyUnsaved(RequestOf(p))
      BY <2>4 DEF UpdateApplied, UpdateUnanswered
    <3>3. ApplyToRefs(RequestOf(p)) /\ disk'.refs \in {refs', disk.refs}
      BY <3>2 DEF ApplyAndSave, ApplyUnsaved, TypeOK
    <3> QED
      BY <1>6, <3>1, <3>3
  <2>5. CASE UNCHANGED vars
    BY <1>5, <2>2, <2>5
  <2> QED
    BY <1>7, <2>3, <2>4, <2>5
       DEF Step, Begin, ReadEpoch, UpdateKnown, AnswerKnown, UpdateRefused, Dies
<1>8. \A change \in Changes : PolicyChange(change) => Untouched
  BY DEF PolicyChange, Untouched, TypeOK
<1>9. Restart => Reloaded
  BY DEF Restart, Reloaded
<1>10. UNCHANGED pushVars => Untouched
  BY DEF pushVars, vars, memory, Untouched
<1> QED
  BY <1>5, <1>7, <1>8, <1>9, <1>10 DEF PushNext

(* It holds in every reachable state.                                      *)
LEMMA PushInvariant == PushSpec => []PushInv
BY PushInvInit, PushInvNext, PushesKeepDaemon, PTL DEF PushSpec

(* However pushes interleave and whichever saves fail, all that a clone of *)
(* a branch in the ref file needs is in the object file.                   *)
THEOREM PushedRefsAreComplete == PushSpec => []RefTargetsComplete
<1>1. PushInv => RefTargetsComplete
  BY GraphAssumption DEF PushInv, TargetsComplete, RefTargetsComplete
<1> QED
  BY <1>1, PushInvariant, PTL

(* And each ref in the file names something a daemon that restarts accepts *)
(* as its target.                                                          *)
THEOREM PushedTargetsAreDurable == PushSpec => []DurableRefTargets
<1>1. TypeOK /\ PushInv => DurableRefTargets
  <2> SUFFICES ASSUME TypeOK, PushInv, NEW ref \in RefNames,
                      disk.refs.refs[ref] # NoOid
               PROVE  ValidRefTarget(disk.objects, ref, disk.refs.refs[ref])
    BY DEF DurableRefTargets
  <2> DEFINE o == disk.refs.refs[ref]
  <2>1. Closure(o) \subseteq disk.objects /\ (ref \in Heads => o \in Commits)
    BY DEF PushInv, TargetsComplete
  <2>2. CASE o \in Commits
    <3>1. o \in Ancestors[o]
      BY <2>2, WithinReflexive DEF Ancestors
    <3>2. ParentsOf[o] \subseteq Ancestors[o]
      BY <2>2, <3>1, WithinClosed, GraphAssumption DEF Ancestors
    <3>3. TreeOf[o] \subseteq Closure(o) /\ Ancestors[o] \subseteq Closure(o)
      BY <2>2, <3>1 DEF Closure
    <3> QED
      BY <2>1, <2>2, <3>1, <3>2, <3>3 DEF ValidRefTarget, ValidCommitGraph
  <2>3. CASE o \notin Commits
    BY <2>1, <2>3 DEF Closure, ValidRefTarget
  <2> QED
    BY <2>2, <2>3
<1> QED
  BY <1>1, PushInvariant, PushesKeepDaemon, PTL

-----------------------------------------------------------------------------
(* "ok".  A helper reports it for a "committed" receipt, which is either   *)
(* new, and then the last entry of the log is the swap that was asked for, *)
(* or an old one of an update with the same fingerprint, whose entry is in *)
(* the log still.                                                          *)

(* A helper under way has not reported anything.                           *)
Silent == \A p \in Pushers : helper[p].at # "idle" => helper[p].result = "none"

(* A helper reports only as it stops.                                      *)
LEMMA SilentNext ==
    ASSUME HelperTypeOK, Silent, [PushNext]_pushVars
    PROVE  Silent'
<1>1. ASSUME NEW p \in Pushers, NEW h, helper' = [helper EXCEPT ![p] = h],
             h.at # "idle" => h.result = "none"
      PROVE  Silent'
  BY <1>1 DEF Silent, HelperTypeOK
<1>2. \A result : Idle(result).at = "idle"
  BY DEF Idle
<1>3. ASSUME NEW p \in Pushers, Step(p)
      PROVE  Silent'
  <2>1. ASSUME NEW push \in Pushes[p], Begin(p, push)
        PROVE  Silent'
    <3>0. PICK tip \in MovedOn(push.src) :
              helper' = [helper EXCEPT ![p] =
                  [at |-> "put", push |-> push, expected |-> refs.refs[push.dst],
                   unsent |-> IF push.src = NoOid THEN {} ELSE Closure(tip),
                   epoch |-> 0, result |-> "none"]]
      BY <2>1 DEF Begin
    <3> DEFINE new ==
            [at |-> "put", push |-> push, expected |-> refs.refs[push.dst],
             unsent |-> IF push.src = NoOid THEN {} ELSE Closure(tip),
             epoch |-> 0, result |-> "none"]
    <3>1. helper' = [helper EXCEPT ![p] = new] /\ new.result = "none"
      BY <3>0
    <3> HIDE DEF new
    <3> QED
      BY <1>1, <3>1
  <2>2. CASE ImportObject(p)
    <3>1. ASSUME NEW o, helper' = [helper EXCEPT ![p].unsent = @ \ {o}]
          PROVE  Silent'
      BY <2>2, <3>1 DEF ImportObject, Silent, HelperTypeOK
    <3> QED
      BY <1>1, <1>2, <2>2, <3>1 DEF ImportObject
  <2>3. CASE ReadEpoch(p)
    BY <2>3 DEF ReadEpoch, Silent, HelperTypeOK
  <2>4. CASE UpdateKnown(p) \/ UpdateApplied(p) \/ UpdateUnanswered(p) \/ UpdateRefused(p)
             \/ Dies(p)
    BY <1>1, <1>2, <2>4
       DEF UpdateKnown, UpdateApplied, ReportOn, UpdateUnanswered, UpdateRefused, Dies
  <2> QED
    BY <1>3, <2>1, <2>2, <2>3, <2>4 DEF Step
<1>4. CASE UNCHANGED helper
  BY <1>4 DEF Silent
<1> QED
  BY <1>3, <1>4 DEF PushNext, pushVars

(* The swap that helper p asked for is in the log l.                       *)
Swapped(p, l) ==
    \E i \in 1..Len(l) :
        LET m == l[i]
        IN  /\ m.ref = helper[p].push.dst
            /\ m.old = helper[p].expected
            /\ m.new = helper[p].push.src

(* A helper reports "ok" in a step of its own that ended its update.       *)
LEMMA OkIsAnswer ==
    ASSUME HelperTypeOK, Silent, [PushNext]_pushVars, NEW p \in Pushers, ReportsOk(p)
    PROVE  UpdateKnown(p) \/ UpdateApplied(p)
<1>1. helper[p].at = "update" /\ helper[p].result = "none" /\ helper'[p].result = "ok"
  BY DEF ReportsOk, Silent
<1>2. helper'[p] # helper[p]
  BY <1>1
<1>3. \A q \in Pushers : \A h :
         helper' = [helper EXCEPT ![q] = h] => q = p /\ helper'[p] = h
  BY <1>2 DEF HelperTypeOK
<1>4. PICK q \in Pushers : Step(q)
  BY <1>2 DEF PushNext, pushVars
<1>5. \A result : Idle(result).result = result
  BY DEF Idle
<1>6. CASE \E push \in Pushes[q] : Begin(q, push)
  BY <1>1, <1>2, <1>3, <1>6 DEF Begin
<1>7. CASE ImportObject(q)
  <2>1. helper[q].at = "put"
    BY <1>7 DEF ImportObject
  <2>2. helper'[p] = helper[p]
    BY <1>1, <1>7, <2>1 DEF ImportObject, HelperTypeOK
  <2> QED
    BY <1>2, <2>2
<1>8. CASE ReadEpoch(q)
  <2>1. helper'[p] = helper[p]
    BY <1>1, <1>8 DEF ReadEpoch, HelperTypeOK
  <2> QED
    BY <1>2, <2>1
<1>9. CASE UpdateKnown(q) \/ UpdateApplied(q)
  BY <1>3, <1>9 DEF UpdateKnown, UpdateApplied, ReportOn
<1>10. CASE UpdateUnanswered(q) \/ UpdateRefused(q) \/ Dies(q)
  <2>1. helper'[p].result \in {"error", "none"}
    BY <1>3, <1>5, <1>10 DEF UpdateUnanswered, UpdateRefused, Dies
  <2> QED
    BY <1>1, <2>1
<1> QED
  BY <1>4, <1>6, <1>7, <1>8, <1>9, <1>10 DEF Step

(* The receipt behind an "ok" is of a swap in the log.                     *)
LEMMA OkIsLogged ==
    ASSUME TypeOK, HelperTypeOK, RefsInv, Silent, [PushNext]_pushVars,
           NEW p \in Pushers, ReportsOk(p)
    PROVE  Swapped(p, refs'.mutations)
<1> DEFINE request == RequestOf(p)
           op == OpOf(request)
<1>1. /\ request \in Request /\ request.tx \in TxIds /\ op \in Op
      /\ op.ref = helper[p].push.dst /\ op.old = helper[p].expected
      /\ op.new = helper[p].push.src
  BY RequestOfType, OpOfType DEF TypeOK, Request, RequestOf, OpOf
<1>2. refs \in Store /\ ConsistentStore(refs) /\ AppliedOnceIn(refs) /\ LogAsAsked(refs)
  BY DEF TypeOK, RefsInv, SoundRefs
<1>3. \A result : helper' = [helper EXCEPT ![p] = Idle(result)] => result = "ok"
  BY DEF ReportsOk, Idle, HelperTypeOK
<1>4. ASSUME NEW receipt, ReportOn(p, receipt)
      PROVE  receipt.status = "committed"
  BY <1>3, <1>4 DEF ReportOn
<1>5. CASE UpdateKnown(p)
  <2>1. PreflightReceipt(refs, request.tx, op).status = "committed"
    BY <1>4, <1>5 DEF UpdateKnown
  <2>2. Known(refs, request.tx) /\ refs' = refs
    BY <1>5 DEF UpdateKnown, AnswerKnown, vars, memory
  <2> HIDE DEF op, request
  <2>3. refs.receipts[request.tx].op = op /\ CommittedAs(refs, request.tx)
    BY <2>1, <2>2 DEF PreflightReceipt, IdempotencyViolation, CommittedAs
  <2> QED
    BY <1>1, <1>2, <2>2, <2>3, CommittedIsLogged DEF Swapped
<1>6. CASE UpdateApplied(p)
  <2>1. Decide(refs, op).status = "committed"
    BY <1>4, <1>6 DEF UpdateApplied
  <2>2. refs' = ApplyUpdate(refs, request.tx, op)
    BY <1>6 DEF UpdateApplied, ApplyAndSave, ApplyToRefs
  <2> HIDE DEF op, request
  <2>3. CasHolds(refs, op)
    BY <2>1 DEF Decide, Conflict
  <2>4. refs' = CommitUpdate(refs, request.tx, op)
    BY <2>2, <2>3 DEF ApplyUpdate
  <2> DEFINE n == Len(refs.mutations)
  <2>5. /\ n \in Nat /\ Len(refs'.mutations) = n + 1
        /\ refs'.mutations[n + 1] = CommittedMutation(refs, request.tx, op, Decide(refs, op))
    BY <1>1, <1>2, <2>3, <2>4, CommitUpdateLog
  <2>6. Decide(refs, op) = Committed(op.ref, op.old, op.new)
    BY <2>3 DEF Decide, CasHolds
  <2>7. /\ refs'.mutations[n + 1].ref = op.ref /\ refs'.mutations[n + 1].old = op.old
        /\ refs'.mutations[n + 1].new = op.new
    BY <2>5, <2>6 DEF CommittedMutation, Committed
  <2>8. n + 1 \in 1..Len(refs'.mutations)
    BY <2>5
  <2> HIDE DEF n
  <2> QED
    BY <1>1, <2>7, <2>8 DEF Swapped
<1> QED
  BY <1>5, <1>6, OkIsAnswer

(* "ok" is only said of a swap that is in the log, whatever failed before. *)
THEOREM OkAlwaysCommitted == PushSpec => OkWasCommitted
<1>1. PushInit => Silent
  BY DEF PushInit, Idle, Silent
<1>2. HelperTypeOK /\ Silent /\ [PushNext]_pushVars => Silent'
  BY SilentNext
<1>3. TypeOK /\ HelperTypeOK /\ RefsInv /\ Silent /\ [PushNext]_pushVars
          => [\A p \in Pushers : ReportsOk(p) =>
                 \E i \in 1..Len(refs'.mutations) :
                     LET m == refs'.mutations[i]
                     IN  /\ m.ref = helper[p].push.dst
                         /\ m.old = helper[p].expected
                         /\ m.new = helper[p].push.src]_pushVars
  BY OkIsLogged DEF Swapped
<1> QED
  BY <1>1, <1>2, <1>3, PushesKeepDaemon, PTL DEF PushSpec, OkWasCommitted
=============================================================================

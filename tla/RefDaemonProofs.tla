--------------------------- MODULE RefDaemonProofs ---------------------------
(***************************************************************************)
(* What gitmeshd guarantees for its refs, and what its clients may rely    *)
(* on, for every repository, every history of commits and every set of     *)
(* requests.                                                               *)
(***************************************************************************)
EXTENDS DaemonClients, RefOpsProofs, TLAPS

(* Anything a client may ask of the daemon, whatever the constants that    *)
(* bound the requests of a run are; PushHelper's steps are such steps too. *)
DaemonStep ==
    \/ \E request \in Request : RefUpdate(request)
    \/ \E change \in Change : PolicyChange(change)
    \/ \E pack \in SUBSET Oids : ObjectPut(pack)
    \/ \E o \in Oids : Expire(o)
    \/ Restart
    \/ UNCHANGED vars

(* A step of the specification is such a step.                             *)
LEMMA NextIsDaemonStep == [Next]_vars => DaemonStep
BY DaemonAssumption DEF Next, DaemonStep

-----------------------------------------------------------------------------
(* Ancestry: Within(next)[c] is the least set that has c and is closed     *)
(* under next.                                                             *)

(* A commit is its own ancestor.                                           *)
LEMMA WithinReflexive ==
    ASSUME NEW next, NEW c \in Commits
    PROVE  c \in Within(next)[c]
BY DEF Within

(* An ancestor of an ancestor is an ancestor.                              *)
LEMMA WithinTransitive ==
    ASSUME NEW next, NEW b \in Commits, NEW c \in Commits,
           NEW a \in Within(next)[b], b \in Within(next)[c]
    PROVE  a \in Within(next)[c]
BY DEF Within

(* What is reached along fewer edges is reached along more.                *)
LEMMA WithinMonotone ==
    ASSUME NEW less, NEW more, \A c \in Commits : less[c] \subseteq more[c],
           NEW c \in Commits
    PROVE  Within(less)[c] \subseteq Within(more)[c]
<1>1. \A set \in SUBSET Commits : Closed(set, more) => Closed(set, less)
  BY DEF Closed
<1> QED
  BY <1>1 DEF Within

(* The least closed set is closed.                                         *)
LEMMA WithinClosed ==
    ASSUME NEW next \in [Commits -> SUBSET Commits],
           NEW c \in Commits, NEW b \in Within(next)[c]
    PROVE  next[b] \subseteq Within(next)[c]
<1>1. b \in Commits
  BY DEF Within
<1> QED
  BY <1>1 DEF Within, Closed

(* What is_commit_ancestor finds among the commits that are held is an     *)
(* ancestor.                                                               *)
LEMMA FoundIsAncestor ==
    ASSUME NEW held, NEW a, NEW c \in Commits, IsCommitAncestor(held, a, c)
    PROVE  a \in Commits /\ a \in Ancestors[c]
<1>1. CASE a = c
  BY <1>1, WithinReflexive DEF Ancestors
<1>2. CASE a # c
  <2>1. a \in Commits /\ a \in Within(HeldParents(held))[c]
    BY <1>2 DEF IsCommitAncestor
  <2>2. \A b \in Commits : HeldParents(held)[b] \subseteq ParentsOf[b]
    BY DEF HeldParents
  <2> QED
    BY <2>1, <2>2, WithinMonotone DEF Ancestors
<1> QED
  BY <1>1, <1>2

-----------------------------------------------------------------------------
(* Types. *)

(* The operation the daemon makes of a request is one a store takes.       *)
LEMMA OpOfType ==
    ASSUME NEW request \in Request, policy \in Policy
    PROVE  OpOf(request) \in Op
<1>1. policy.epoch \in Nat
  BY MaxEpochAssumption DEF Policy
<1> QED
  BY <1>1 DEF OpOf, Op, Request

(* A setter of the policy keeps the epoch in its range.                    *)
LEMMA ChangedType ==
    ASSUME NEW p \in Policy, NEW q \in Policy
    PROVE  Changed(p, q) \in Policy
<1>1. Bump(p.epoch) \in 0..MaxEpoch
  BY MaxEpochAssumption DEF Bump, Policy
<1> QED
  BY <1>1 DEF Changed, Policy

(* Every policy command makes a policy of a policy.                        *)
LEMMA AfterChangeType ==
    ASSUME NEW p \in Policy, NEW change \in Change
    PROVE  AfterChange(p, change) \in Policy
<1>1. CASE change \in [command: {"POLICY_SET_REQUIRE_SIGNED"}, value: BOOLEAN]
  <2>1. [p EXCEPT !.requireSigned = change.value] \in Policy
    BY <1>1 DEF Policy
  <2>2. AfterChange(p, change) = SetRequireSigned(p, change.value)
    BY <1>1 DEF AfterChange
  <2> QED
    BY <2>1, <2>2, ChangedType DEF SetRequireSigned
<1>2. CASE change \in [command: {"POLICY_GRANT_WRITER_ACCOUNT", "POLICY_GRANT_FORCE_ACCOUNT"},
                       value: Accounts]
  <2>1. change.value \in Principals
    BY <1>2 DEF Principals
  <2>2. /\ [p EXCEPT !.writers = @ \cup {change.value}] \in Policy
        /\ [p EXCEPT !.forcers = @ \cup {change.value}] \in Policy
    BY <2>1 DEF Policy
  <2>3. \/ AfterChange(p, change) = GrantWriter(p, change.value)
        \/ AfterChange(p, change) = GrantForcePush(p, change.value)
    BY <1>2 DEF AfterChange
  <2> QED
    BY <2>2, <2>3, ChangedType DEF GrantWriter, GrantForcePush
<1>3. CASE change \in [command: {"POLICY_PROTECT_REF"}, value: RefNames]
  <2>1. [p EXCEPT !.protected = @ \cup {change.value}] \in Policy
    BY <1>3 DEF Policy
  <2>2. AfterChange(p, change) = ProtectRef(p, change.value)
    BY <1>3 DEF AfterChange
  <2> QED
    BY <2>1, <2>2, ChangedType DEF ProtectRef
<1> QED
  BY <1>1, <1>2, <1>3 DEF Change

(* A new daemon starts from values of the types.                           *)
LEMMA DaemonTypeInit == Init => TypeOK
<1>1. DefaultPolicy \in Policy
  BY MaxEpochAssumption DEF DefaultPolicy, Policy
<1> QED
  BY <1>1, EmptyStoreType DEF Init, TypeOK

(* Every command, an expiry and a restart keep the types.                  *)
LEMMA DaemonTypeNext == TypeOK /\ DaemonStep => TypeOK'
<1> SUFFICES ASSUME TypeOK, DaemonStep
             PROVE  TypeOK'
  OBVIOUS
<1> USE DEF TypeOK
<1>1. ASSUME NEW request \in Request, RefUpdate(request)
      PROVE  TypeOK'
  <2>1. CASE AnswerKnown(request)
    BY <2>1 DEF AnswerKnown, vars, memory
  <2>2. ASSUME ApplyToRefs(request)
        PROVE  /\ refs' \in Store
               /\ policy' = policy /\ objects' = objects /\ leased' = leased
    BY <2>2, OpOfType, ApplyUpdateType DEF ApplyToRefs, Request
  <2>3. CASE ApplyAndSave(request)
    BY <2>2, <2>3 DEF ApplyAndSave
  <2>4. CASE ApplyUnsaved(request)
    BY <2>2, <2>4 DEF ApplyUnsaved
  <2> QED
    BY <1>1, <2>1, <2>3, <2>4 DEF RefUpdate
<1>2. ASSUME NEW change \in Change, PolicyChange(change)
      PROVE  TypeOK'
  <2>1. policy' \in Policy
    BY <1>2, AfterChangeType DEF PolicyChange
  <2> QED
    BY <1>2, <2>1 DEF PolicyChange
<1>3. ASSUME NEW pack \in SUBSET Oids, ObjectPut(pack)
      PROVE  TypeOK'
  BY <1>3 DEF ObjectPut, PutAndSave, PutUnsaved, PutInMemory
<1>4. ASSUME NEW o \in Oids, Expire(o)
      PROVE  TypeOK'
  BY <1>4 DEF Expire
<1>5. CASE Restart
  BY <1>5 DEF Restart
<1>6. CASE UNCHANGED vars
  BY <1>6 DEF vars, memory
<1> QED
  BY <1>1, <1>2, <1>3, <1>4, <1>5, <1>6 DEF DaemonStep

(* The variables of the daemon keep their types.                           *)
THEOREM DaemonTypeCorrect == Spec => []TypeOK
BY DaemonTypeInit, DaemonTypeNext, NextIsDaemonStep, PTL DEF Spec

-----------------------------------------------------------------------------
(* The refs.  Whatever the command, one of three things happens to them.   *)

Untouched == refs' = refs /\ disk'.refs = disk.refs

Updated(request) ==
    /\ Accepts(request)
    /\ refs' = ApplyUpdate(refs, request.tx, OpOf(request))
    /\ disk'.refs \in {refs', disk.refs}

Reloaded == refs' = disk.refs /\ disk'.refs = disk.refs

(* The commands of the policy and of the objects do not touch the refs.    *)
LEMMA RefsStep ==
    ASSUME TypeOK, DaemonStep
    PROVE  Untouched \/ Reloaded \/ \E request \in Request : Updated(request)
<1> USE DEF TypeOK
<1>1. ASSUME NEW request \in Request, RefUpdate(request)
      PROVE  Untouched \/ Updated(request)
  <2>1. CASE AnswerKnown(request)
    BY <2>1 DEF AnswerKnown, vars, memory, Untouched
  <2>2. CASE ApplyAndSave(request)
    BY <2>2 DEF ApplyAndSave, ApplyToRefs, Updated
  <2>3. CASE ApplyUnsaved(request)
    BY <2>3 DEF ApplyUnsaved, ApplyToRefs, Updated
  <2> QED
    BY <1>1, <2>1, <2>2, <2>3 DEF RefUpdate
<1>2. ASSUME NEW change \in Change, PolicyChange(change)
      PROVE  Untouched
  BY <1>2 DEF PolicyChange, Untouched
<1>3. ASSUME NEW pack \in SUBSET Oids, ObjectPut(pack)
      PROVE  Untouched
  BY <1>3 DEF ObjectPut, PutAndSave, PutUnsaved, PutInMemory, Untouched
<1>4. ASSUME NEW o \in Oids, Expire(o)
      PROVE  Untouched
  BY <1>4 DEF Expire, Untouched
<1>5. CASE Restart
  BY <1>5 DEF Restart, Reloaded
<1>6. CASE UNCHANGED vars
  BY <1>6 DEF vars, memory, Untouched
<1> QED
  BY <1>1, <1>2, <1>3, <1>4, <1>5, <1>6 DEF DaemonStep

(* What holds of the store in memory and of its file, whichever saves      *)
(* fail: each loads, each says what its log says, the file's log comes     *)
(* first.                                                                  *)
SoundRefs(s) ==
    ConsistentStore(s) /\ HeadsAre(s) /\ AppliedOnceIn(s) /\ LogAsAsked(s)

RefsInv ==
    /\ SoundRefs(refs) /\ SoundRefs(disk.refs)
    /\ PrefixOf(disk.refs, refs)

(* Applying an update keeps a store sound.                                 *)
LEMMA ApplyUpdateSound ==
    ASSUME NEW s \in Store, NEW tx \in TxIds, NEW op \in Op,
           SoundRefs(s), ~ Known(s, tx)
    PROVE  SoundRefs(ApplyUpdate(s, tx, op)) /\ PrefixOf(s, ApplyUpdate(s, tx, op))
BY ApplyUpdateConsistent, ApplyUpdateHeads, ApplyUpdateOnce, ApplyUpdateAsAsked,
   ApplyUpdateExtends DEF SoundRefs, ConsistentStore

(* A new daemon has sound refs.                                            *)
LEMMA RefsInvInit == Init => RefsInv
<1>1. AppliedOnceIn(EmptyStore) /\ LogAsAsked(EmptyStore)
  BY DEF AppliedOnceIn, LogAsAsked, EmptyStore, CommittedAs, Known, LoggedAt
<1> QED
  BY <1>1, EmptyStoreType, EmptyStoreConsistent, EmptyStoreHeads, PrefixOfSelf
     DEF Init, RefsInv, SoundRefs

(* Every step keeps the refs sound.                                        *)
LEMMA RefsInvNext == TypeOK /\ RefsInv /\ DaemonStep => RefsInv'
<1> SUFFICES ASSUME TypeOK, RefsInv, DaemonStep
             PROVE  RefsInv'
  OBVIOUS
<1>1. refs \in Store /\ disk.refs \in Store
  BY DEF TypeOK
<1>2. CASE Untouched
  BY <1>2 DEF Untouched, RefsInv, SoundRefs
<1>3. CASE Reloaded
  BY <1>1, <1>3, PrefixOfSelf DEF Reloaded, RefsInv, SoundRefs
<1>4. ASSUME NEW request \in Request, Updated(request)
      PROVE  RefsInv'
  <2>1. request.tx \in TxIds /\ OpOf(request) \in Op /\ ~ Known(refs, request.tx)
    BY <1>4, OpOfType DEF TypeOK, Request, Updated, Accepts
  <2>2. refs' \in Store /\ SoundRefs(refs') /\ PrefixOf(refs, refs')
    BY <1>1, <1>4, <2>1, ApplyUpdateSound, ApplyUpdateType DEF Updated, RefsInv
  <2>3. CASE disk'.refs = refs'
    BY <2>2, <2>3, PrefixOfSelf DEF RefsInv
  <2>4. CASE disk'.refs = disk.refs
    BY <1>1, <2>2, <2>4, PrefixOfMore DEF RefsInv
  <2> QED
    BY <1>4, <2>3, <2>4 DEF Updated
<1> QED
  BY <1>2, <1>3, <1>4, RefsStep

(* The refs are sound in every reachable state.                            *)
LEMMA RefsInvariant == Spec => []RefsInv
BY RefsInvInit, RefsInvNext, NextIsDaemonStep, DaemonTypeCorrect, PTL DEF Spec

(* Whichever saves failed, a daemon that stopped can be started again: its *)
(* ref file passes every check of from_snapshot.                           *)
THEOREM DaemonAlwaysStarts == Spec => []DaemonStarts
<1>1. RefsInv => DaemonStarts
  BY DEF RefsInv, SoundRefs, DaemonStarts
<1> QED
  BY <1>1, RefsInvariant, PTL

-----------------------------------------------------------------------------
(* Refinement: the refs of the daemon implement RefLog.  An update that is *)
(* saved makes the log durable as it is applied, even one that is refused; *)
(* one that is not saved is a swap a crash may still cut off.              *)

(* What is proved of the operators of RefLog holds of this instance.       *)
LEMMA DaemonLogOperators ==
    /\ L!Swap = G!Swap
    /\ \A l, r : L!HeadOf(l, r) = G!HeadOf(l, r)
BY DEF L!Swap, L!Target, L!HeadOf, L!LastWrite, L!Writes,
       G!Swap, G!Target, G!HeadOf, G!LastWrite, G!Writes

(* Every step of the daemon is a step of the log, or does not change it.   *)
LEMMA DaemonStepRefinesLog ==
    TypeOK /\ RefsInv /\ TypeOK' /\ DaemonStep => [L!Next]_(L!vars)
<1> SUFFICES ASSUME TypeOK, RefsInv, TypeOK', DaemonStep
             PROVE  [L!Next]_(L!vars)
  OBVIOUS
<1>1. refs \in Store /\ disk.refs \in Store /\ refs' \in Store
  BY DEF TypeOK
<1>2. CASE Untouched
  BY <1>2 DEF Untouched, L!vars
<1>3. CASE Reloaded
  <2>1. L!Crash
    BY <1>1, <1>3, PrefixIsCut DEF Reloaded, RefsInv, L!Crash
  <2> QED
    BY <2>1 DEF L!Next
<1>4. ASSUME NEW request \in Request, Updated(request)
      PROVE  [L!Next]_(L!vars)
  <2> DEFINE op == OpOf(request)
  <2>1. /\ request.tx \in TxIds /\ op \in Op /\ ~ Known(refs, request.tx)
        /\ refs' = ApplyUpdate(refs, request.tx, op)
        /\ ConsistentStore(refs) /\ HeadsAre(refs)
    BY <1>4, OpOfType DEF TypeOK, Request, Updated, Accepts, RefsInv, SoundRefs
  <2>2. Len(LogOf(refs')) = Len(refs'.mutations) /\ Len(LogOf(refs)) = Len(refs.mutations)
    BY <1>1, LogLength
  <2>3. disk'.refs = refs' \/ disk'.refs = disk.refs
    BY <1>4 DEF Updated
  <2>4. CASE CasHolds(refs, op)
    <3>1. PICK swap \in G!Swap :
             /\ \A i \in 1..Len(LogOf(refs)) : LogOf(refs)[i].tx # swap.tx
             /\ G!HeadOf(LogOf(refs), swap.ref) = swap.old
             /\ LogOf(refs') = Append(LogOf(refs), swap)
      BY <1>1, <2>1, <2>4, ApplyUpdateIsCommit
    <3>2. L!Commit(swap) /\ swap \in L!Swap
      BY <2>2, <2>3, <3>1, DaemonLogOperators DEF L!Commit
    <3> QED
      BY <3>2 DEF L!Next
  <2>5. CASE ~ CasHolds(refs, op)
    <3>1. LogOf(refs') = LogOf(refs) /\ refs'.mutations = refs.mutations
      BY <1>1, <2>1, <2>5, RejectIsStutter
    <3>2. CASE disk'.refs = refs'
      <4>1. L!Persist
        BY <2>2, <3>1, <3>2 DEF L!Persist
      <4> QED
        BY <4>1 DEF L!Next
    <3>3. CASE disk'.refs = disk.refs
      BY <3>1, <3>3 DEF L!vars
    <3> QED
      BY <2>3, <3>2, <3>3
  <2> QED
    BY <2>4, <2>5
<1> QED
  BY <1>2, <1>3, <1>4, RefsStep

(* Whichever saves fail and whenever the daemon dies, its refs behave as   *)
(* the log of RefLog does.                                                 *)
THEOREM DaemonImplementsRefLog == Spec => RefsAreLog
<1>1. Init => L!Init
  BY DEF Init, EmptyStore, LogOf, L!Init
<1> QED
  BY <1>1, DaemonStepRefinesLog, NextIsDaemonStep, DaemonTypeCorrect, RefsInvariant, PTL
     DEF Spec, RefsAreLog, L!Spec

-----------------------------------------------------------------------------
(* Branches keep their commits.  The property speaks of pairs of entries   *)
(* of the log; what makes it inductive is that the same holds between an   *)
(* entry and the ref as it is now, in memory and in the file.              *)

(* What BranchesKeepCommits says, of any log.                              *)
PairsKeep(log) ==
    \A r \in Heads, i, j \in 1..Len(log) :
        /\ i < j /\ log[i].ref = r /\ log[j].ref = r
        /\ log[i].new # NoOid /\ GoesForward(log, r, i, j)
        => log[i].new \in Ancestors[log[j].new]

TipsKeep(s) ==
    \A r \in Heads, i \in 1..Len(s.mutations) :
        /\ s.mutations[i].ref = r /\ s.mutations[i].new # NoOid
        /\ GoesForward(s.mutations, r, i, Len(s.mutations))
        => /\ s.refs[r] \in Commits
           /\ s.mutations[i].new \in Ancestors[s.refs[r]]

HistoryKept(s) == PairsKeep(s.mutations) /\ TipsKeep(s)

(* A valid update of a branch that neither forces nor deletes leads to a   *)
(* commit whose ancestors have everything the branch had.                  *)
LEMMA ValidUpdateGoesForward ==
    ASSUME NEW op \in Op, ValidRefUpdate(op), op.ref \in Heads, op.new # NoOid
    PROVE  /\ op.new \in Commits
           /\ ~ op.force /\ op.old \in Commits =>
                  Ancestors[op.old] \subseteq Ancestors[op.new]
<1>1. op.new \in Commits
  BY DEF ValidRefUpdate, ValidRefTarget, ValidCommitGraph
<1>2. ASSUME ~ op.force, op.old \in Commits
      PROVE  Ancestors[op.old] \subseteq Ancestors[op.new]
  <2>1. op.old # NoOid
    BY <1>2, CommitsAssumption, NoOidAssumption
  <2>2. IsCommitAncestor(objects, op.old, op.new)
    BY <1>2, <2>1 DEF ValidRefUpdate
  <2>3. op.old \in Ancestors[op.new]
    BY <1>1, <2>2, FoundIsAncestor
  <2> QED
    BY <1>1, <1>2, <2>3, WithinTransitive DEF Ancestors
<1> QED
  BY <1>1, <1>2

(* Committing a valid update keeps the history of every branch.            *)
LEMMA CommitKeepsHistory ==
    ASSUME NEW s \in Store, NEW tx \in TxIds, NEW op \in Op,
           CasHolds(s, op), ValidRefUpdate(op), HistoryKept(s)
    PROVE  HistoryKept(CommitUpdate(s, tx, op))
<1> DEFINE t == CommitUpdate(s, tx, op)
           n == Len(s.mutations)
           l == s.mutations
           k == t.mutations
<1>1. /\ n \in Nat /\ Len(k) = n + 1
      /\ \A i \in 1..n : k[i] = l[i]
      /\ k[n + 1] = CommittedMutation(s, tx, op, Decide(s, op))
  BY CommitUpdateLog
<1>2. k[n + 1].ref = op.ref /\ k[n + 1].new = op.new /\ k[n + 1].op = op
  BY <1>1 DEF CommittedMutation, Decide, Committed
<1>3. t.refs = [s.refs EXCEPT ![op.ref] = op.new] /\ op.old = s.refs[op.ref]
  BY DEF CommitUpdate, CasHolds
<1>4. s.refs \in RefMap /\ op.ref \in RefNames
  BY DEF Store, Op
<1> HIDE DEF t, n, l, k
<1>5. ASSUME NEW r \in Heads, NEW i \in 1..n, NEW j \in i..n,
             GoesForward(k, r, i, j)
      PROVE  GoesForward(l, r, i, j)
  <2>1. \A x \in (i + 1)..j : x \in 1..n /\ k[x] = l[x]
    BY <1>1
  <2> QED
    BY <1>5, <2>1 DEF GoesForward
<1>6. ASSUME NEW r \in Heads, NEW i \in 1..n,
             k[i].ref = r, k[i].new # NoOid, GoesForward(k, r, i, n + 1)
      PROVE  /\ t.refs[r] \in Commits
             /\ k[i].new \in Ancestors[t.refs[r]]
  <2>1. l[i] = k[i] /\ n \in i..n /\ n + 1 \in (i + 1)..(n + 1)
    BY <1>1
  <2>2. GoesForward(k, r, i, n)
    <3>1. (i + 1)..n \subseteq (i + 1)..(n + 1)
      BY <1>1
    <3> QED
      BY <1>6, <3>1 DEF GoesForward
  <2>3. s.refs[r] \in Commits /\ k[i].new \in Ancestors[s.refs[r]]
    <3>1. GoesForward(l, r, i, n)
      BY <1>5, <2>1, <2>2
    <3> QED
      BY <1>6, <2>1, <3>1 DEF HistoryKept, TipsKeep, l, n
  <2>4. CASE r = op.ref
    <3>1. ~ op.force /\ op.new # NoOid
      BY <1>2, <1>6, <2>1, <2>4 DEF GoesForward
    <3>2. op.new \in Commits /\ Ancestors[s.refs[r]] \subseteq Ancestors[op.new]
      BY <1>3, <2>3, <2>4, <3>1, ValidUpdateGoesForward
    <3>3. t.refs[r] = op.new
      BY <1>3, <1>4, <2>4 DEF RefMap
    <3> QED
      BY <2>3, <3>2, <3>3
  <2>5. CASE r # op.ref
    <3>1. t.refs[r] = s.refs[r]
      <4>1. r \in RefNames
        BY GraphAssumption
      <4> QED
        BY <1>3, <1>4, <2>5, <4>1 DEF RefMap
    <3> QED
      BY <2>3, <3>1
  <2> QED
    BY <2>4, <2>5
<1>7. PairsKeep(k)
  <2> SUFFICES ASSUME NEW r \in Heads, NEW i \in 1..(n + 1), NEW j \in 1..(n + 1),
                      i < j, k[i].ref = r, k[j].ref = r,
                      k[i].new # NoOid, GoesForward(k, r, i, j)
               PROVE  k[i].new \in Ancestors[k[j].new]
    BY <1>1 DEF PairsKeep
  <2>1. i \in 1..n
    BY <1>1
  <2>2. CASE j = n + 1
    <3>1. r = op.ref /\ t.refs[r] = op.new
      BY <1>2, <1>3, <1>4, <2>2 DEF RefMap
    <3> QED
      BY <1>2, <1>6, <2>1, <2>2, <3>1
  <2>3. CASE j # n + 1
    <3>1. j \in 1..n /\ j \in i..n /\ k[i] = l[i] /\ k[j] = l[j]
      BY <1>1, <2>1, <2>3
    <3>2. GoesForward(l, r, i, j)
      BY <1>5, <2>1, <3>1
    <3> QED
      BY <2>1, <3>1, <3>2 DEF HistoryKept, PairsKeep, l, n
  <2> QED
    BY <2>2, <2>3
<1>8. TipsKeep(t)
  <2> SUFFICES ASSUME NEW r \in Heads, NEW i \in 1..(n + 1),
                      k[i].ref = r, k[i].new # NoOid, GoesForward(k, r, i, n + 1)
               PROVE  t.refs[r] \in Commits /\ k[i].new \in Ancestors[t.refs[r]]
    BY <1>1 DEF TipsKeep, k
  <2>1. CASE i \in 1..n
    BY <1>6, <2>1
  <2>2. CASE i = n + 1
    <3>1. r = op.ref /\ t.refs[r] = op.new /\ op.new # NoOid
      BY <1>2, <1>3, <1>4, <2>2 DEF RefMap
    <3>2. op.new \in Commits
      BY <3>1, ValidUpdateGoesForward
    <3> QED
      BY <1>2, <2>2, <3>1, <3>2, WithinReflexive DEF Ancestors
  <2> QED
    BY <1>1, <2>1, <2>2
<1> QED
  BY <1>7, <1>8 DEF HistoryKept, k, t

(* The history is kept in memory and in the file.                          *)
HistoryInv == HistoryKept(refs) /\ HistoryKept(disk.refs)

(* A new daemon has no history to keep.                                    *)
LEMMA HistoryInvInit == Init => HistoryInv
BY DEF Init, HistoryInv, HistoryKept, PairsKeep, TipsKeep, EmptyStore

(* Every step keeps it: an update, because it was validated.               *)
LEMMA HistoryInvNext == TypeOK /\ HistoryInv /\ DaemonStep => HistoryInv'
<1> SUFFICES ASSUME TypeOK, HistoryInv, DaemonStep
             PROVE  HistoryInv'
  OBVIOUS
<1>1. refs \in Store /\ disk.refs \in Store
  BY DEF TypeOK
<1>2. CASE Untouched
  BY <1>2 DEF Untouched, HistoryInv
<1>3. CASE Reloaded
  BY <1>3 DEF Reloaded, HistoryInv
<1>4. ASSUME NEW request \in Request, Updated(request)
      PROVE  HistoryInv'
  <2> DEFINE op == OpOf(request)
  <2>1. /\ request.tx \in TxIds /\ op \in Op /\ ValidRefUpdate(op)
        /\ refs' = ApplyUpdate(refs, request.tx, op)
        /\ disk'.refs \in {refs', disk.refs}
    BY <1>4, OpOfType DEF TypeOK, Request, Updated, Accepts
  <2>2. HistoryKept(refs')
    <3>1. CASE CasHolds(refs, op)
      <4>1. refs' = CommitUpdate(refs, request.tx, op)
        BY <2>1, <3>1 DEF ApplyUpdate
      <4> HIDE DEF op
      <4> QED
        BY <1>1, <2>1, <3>1, <4>1, CommitKeepsHistory DEF HistoryInv
    <3>2. CASE ~ CasHolds(refs, op)
      <4>1. refs'.refs = refs.refs /\ refs'.mutations = refs.mutations
        BY <1>1, <2>1, <3>2, RejectIsStutter
      <4> QED
        BY <4>1 DEF HistoryInv, HistoryKept, TipsKeep
    <3> QED
      BY <3>1, <3>2
  <2> QED
    BY <2>1, <2>2 DEF HistoryInv
<1> QED
  BY <1>2, <1>3, <1>4, RefsStep

(* Whichever saves fail and whenever the daemon dies: without a force push *)
(* or a deletion a branch loses no commit.                                 *)
THEOREM BranchesAlwaysKeepCommits == Spec => []BranchesKeepCommits
<1>1. HistoryInv => BranchesKeepCommits
  BY DEF HistoryInv, HistoryKept, PairsKeep, BranchesKeepCommits
<1> QED
  BY <1>1, HistoryInvInit, HistoryInvNext, NextIsDaemonStep, DaemonTypeCorrect, PTL DEF Spec

-----------------------------------------------------------------------------
(* When every save succeeds.                                               *)

MemoryIsFile == refs = disk.refs /\ policy = disk.policy /\ objects = disk.objects

(* A change is in the file before the next command.                        *)
LEMMA MemoryIsFileNext ==
    ASSUME ~ SaveMayFail
    PROVE  TypeOK /\ MemoryIsFile /\ DaemonStep => MemoryIsFile'
<1> SUFFICES ASSUME TypeOK, MemoryIsFile, DaemonStep
             PROVE  MemoryIsFile'
  OBVIOUS
<1> USE DEF TypeOK, MemoryIsFile
<1>1. ASSUME NEW request \in Request, RefUpdate(request)
      PROVE  MemoryIsFile'
  BY <1>1 DEF RefUpdate, AnswerKnown, ApplyAndSave, ApplyUnsaved, ApplyToRefs, vars, memory
<1>2. ASSUME NEW change \in Change, PolicyChange(change)
      PROVE  MemoryIsFile'
  BY <1>2 DEF PolicyChange
<1>3. ASSUME NEW pack \in SUBSET Oids, ObjectPut(pack)
      PROVE  MemoryIsFile'
  BY <1>3 DEF ObjectPut, PutAndSave, PutUnsaved, PutInMemory
<1>4. ASSUME NEW o \in Oids, Expire(o)
      PROVE  MemoryIsFile'
  BY <1>4 DEF Expire
<1>5. CASE Restart
  BY <1>5 DEF Restart
<1>6. CASE UNCHANGED vars
  BY <1>6 DEF vars, memory
<1> QED
  BY <1>1, <1>2, <1>3, <1>4, <1>5, <1>6 DEF DaemonStep

(* A new daemon without files holds nothing.                               *)
LEMMA MemoryIsFileInit == Init => MemoryIsFile
BY DEF Init, MemoryIsFile

(* What a ref in memory names is in memory.                                *)
TargetsHeld ==
    \A ref \in RefNames :
        refs.refs[ref] # NoOid => ValidRefTarget(objects, ref, refs.refs[ref])

(* More objects make no target invalid.                                    *)
LEMMA ValidTargetStays ==
    ASSUME NEW held, NEW more, held \subseteq more,
           NEW ref, NEW o, ValidRefTarget(held, ref, o)
    PROVE  ValidRefTarget(more, ref, o)
BY DEF ValidRefTarget, ValidCommitGraph

(* The target of an update was validated, and no object goes away.         *)
LEMMA TargetsHeldNext ==
    ASSUME ~ SaveMayFail
    PROVE  TypeOK /\ MemoryIsFile /\ TargetsHeld /\ DaemonStep => TargetsHeld'
<1> SUFFICES ASSUME TypeOK, MemoryIsFile, TargetsHeld, DaemonStep
             PROVE  TargetsHeld'
  OBVIOUS
<1>1. objects \subseteq objects'
  <2>1. \A request \in Request : RefUpdate(request) => objects' = objects
    BY DEF RefUpdate, AnswerKnown, ApplyAndSave, ApplyUnsaved, ApplyToRefs, vars, memory
  <2>2. \A change \in Change : PolicyChange(change) => objects' = objects
    BY DEF PolicyChange
  <2>3. \A pack \in SUBSET Oids : ObjectPut(pack) => objects \subseteq objects'
    BY DEF ObjectPut, PutAndSave, PutUnsaved, PutInMemory
  <2>4. \A o \in Oids : Expire(o) => objects' = objects
    BY DEF Expire
  <2>5. Restart => objects' = objects
    BY DEF Restart, MemoryIsFile
  <2>6. UNCHANGED vars => objects' = objects
    BY DEF vars, memory
  <2> QED
    BY <2>1, <2>2, <2>3, <2>4, <2>5, <2>6 DEF DaemonStep
<1>2. CASE refs' = refs
  BY <1>1, <1>2, ValidTargetStays DEF TargetsHeld
<1>3. ASSUME NEW request \in Request, Updated(request)
      PROVE  TargetsHeld'
  <2> DEFINE op == OpOf(request)
  <2>1. /\ request.tx \in TxIds /\ op \in Op /\ ValidRefUpdate(op)
        /\ refs' = ApplyUpdate(refs, request.tx, op)
    BY <1>3, OpOfType DEF TypeOK, Request, Updated, Accepts
  <2>2. CASE CasHolds(refs, op)
    <3>1. refs'.refs = [refs.refs EXCEPT ![op.ref] = op.new]
      BY <2>1, <2>2 DEF ApplyUpdate, CommitUpdate
    <3> HIDE DEF op
    <3>2. refs.refs \in RefMap /\ op.ref \in RefNames
      BY <2>1 DEF TypeOK, Store, Op
    <3>3. ASSUME NEW ref \in RefNames, refs'.refs[ref] # NoOid
          PROVE  ValidRefTarget(objects, ref, refs'.refs[ref])
      <4>1. CASE ref = op.ref
        BY <2>1, <3>1, <3>2, <3>3, <4>1 DEF ValidRefUpdate, RefMap
      <4>2. CASE ref # op.ref
        BY <3>1, <3>2, <3>3, <4>2 DEF TargetsHeld, RefMap
      <4> QED
        BY <4>1, <4>2
    <3> QED
      BY <1>1, <3>3, ValidTargetStays DEF TargetsHeld
  <2>3. CASE ~ CasHolds(refs, op)
    <3>1. refs'.refs = refs.refs
      BY <2>1, <2>3, RejectIsStutter DEF TypeOK
    <3> QED
      BY <1>1, <3>1, ValidTargetStays DEF TargetsHeld
  <2> QED
    BY <2>2, <2>3
<1> QED
  BY <1>2, <1>3, RefsStep DEF Untouched, Reloaded, MemoryIsFile

(* When saves succeed, what a ref in the ref file names is in the object   *)
(* file, with its tree and its parents.                                    *)
THEOREM RefTargetsAreDurable ==
    ASSUME ~ SaveMayFail
    PROVE  Spec => []DurableRefTargets
<1>1. Init => TargetsHeld
  BY DEF Init, TargetsHeld, EmptyStore, EmptyRefs
<1>2. MemoryIsFile /\ TargetsHeld => DurableRefTargets
  BY DEF MemoryIsFile, TargetsHeld, DurableRefTargets
<1>3. TypeOK /\ MemoryIsFile /\ DaemonStep => MemoryIsFile'
  BY MemoryIsFileNext
<1>4. TypeOK /\ MemoryIsFile /\ TargetsHeld /\ DaemonStep => TargetsHeld'
  BY TargetsHeldNext
<1> QED
  BY <1>1, <1>2, <1>3, <1>4, MemoryIsFileInit, NextIsDaemonStep, DaemonTypeCorrect, PTL
     DEF Spec

-----------------------------------------------------------------------------
(* The clients. *)

(* With clients watching, the daemon does what it does.                    *)
LEMMA ClientNextIsDaemonStep == [ClientNext]_<<vars, seen>> => DaemonStep
BY DaemonAssumption DEF ClientNext, ClientUpdate, Unanswered, DaemonStep

(* So all that was proved of its steps holds.                              *)
LEMMA ClientsSeeDaemon == ClientSpec => [](TypeOK /\ RefsInv)
<1>1. ClientInit => TypeOK /\ RefsInv
  BY DaemonTypeInit, RefsInvInit DEF ClientInit
<1>2. TypeOK /\ RefsInv /\ [ClientNext]_<<vars, seen>> => (TypeOK /\ RefsInv)'
  BY DaemonTypeNext, RefsInvNext, ClientNextIsDaemonStep
<1> QED
  BY <1>1, <1>2, PTL DEF ClientSpec

(* What REF_CHECKPOINT shows is a checkpoint.                              *)
LEMMA LatestCheckpointType ==
    ASSUME NEW s \in Store
    PROVE  LatestCheckpoints(s) \subseteq Checkpoint
<1>1. s.checkpoints \in Seq(Checkpoint)
  BY DEF Store
<1>2. s.checkpoints # <<>> => Len(s.checkpoints) \in 1..Len(s.checkpoints)
  BY <1>1
<1> QED
  BY <1>1, <1>2 DEF LatestCheckpoints, LatestCheckpoint

(* Replies, policies and checkpoints have their types, whichever saves     *)
(* fail.                                                                   *)
THEOREM SeenTypeCorrect == ClientSpec => []SeenTypeOK
<1>1. ClientInit /\ TypeOK => SeenTypeOK
  BY LatestCheckpointType DEF ClientInit, SeenTypeOK, TypeOK
<1>2. TypeOK /\ TypeOK' /\ SeenTypeOK /\ [ClientNext]_<<vars, seen>> => SeenTypeOK'
  <2> SUFFICES ASSUME TypeOK, TypeOK', SeenTypeOK, [ClientNext]_<<vars, seen>>
               PROVE  SeenTypeOK'
    OBVIOUS
  <2>1. ASSUME Observe
        PROVE  policies' \subseteq Policy /\ checkpoints' \subseteq Checkpoint
    BY <2>1, LatestCheckpointType DEF Observe, SeenTypeOK, TypeOK
  <2>2. ASSUME NEW request \in Requests, ClientUpdate(request)
        PROVE  SeenTypeOK'
    <3>1. request \in Request /\ request.tx \in TxIds /\ OpOf(request) \in Op
      BY DaemonAssumption, OpOfType DEF TypeOK, Request
    <3>2. ReceiptFor(request) \in Receipt \cup {IdempotencyViolation}
      BY <3>1, PreflightType, DecideType DEF ReceiptFor, TypeOK
    <3>3. \/ replies' = replies
          \/ replies' = replies \cup {[request |-> request, receipt |-> ReceiptFor(request)]}
      BY <2>2 DEF ClientUpdate, Reply
    <3> QED
      BY <2>1, <2>2, <3>1, <3>2, <3>3 DEF ClientUpdate, SeenTypeOK
  <2>3. CASE Unanswered
    BY <2>1, <2>3 DEF Unanswered, SeenTypeOK
  <2>4. CASE UNCHANGED <<vars, seen>>
    BY <2>4 DEF seen, SeenTypeOK
  <2> QED
    BY <2>2, <2>3, <2>4 DEF ClientNext
<1> QED
  BY <1>1, <1>2, ClientsSeeDaemon, PTL DEF ClientSpec

(* When saves succeed, a step is one of three things to the clients: an    *)
(* update that was known is answered, one is applied and answered, or      *)
(* something happens that is no answer to an update.                       *)
Answered(request, receipt) ==
    replies' = replies \cup {[request |-> request, receipt |-> receipt]}

Retried(request) ==
    /\ Known(refs, request.tx)
    /\ Answered(request, PreflightReceipt(refs, request.tx, OpOf(request)))
    /\ refs' = refs /\ policy' = policy
    /\ Observe

Applied(request) ==
    /\ Accepts(request)
    /\ refs' = ApplyUpdate(refs, request.tx, OpOf(request))
    /\ Answered(request, Decide(refs, OpOf(request)))
    /\ policy' = policy
    /\ Observe

Elsewhere ==
    /\ refs' = refs /\ replies' = replies
    /\ policy' = policy \/ \E change \in Change : policy' = AfterChange(policy, change)
    /\ Observe

(* These are all the steps there are.                                      *)
LEMMA ClientSteps ==
    ASSUME ~ SaveMayFail, TypeOK, MemoryIsFile, [ClientNext]_<<vars, seen>>
    PROVE  \/ \E request \in Request \cap Requests : Retried(request) \/ Applied(request)
           \/ Elsewhere
           \/ UNCHANGED <<vars, seen>>
<1>1. ASSUME NEW request \in Requests, ClientUpdate(request)
      PROVE  request \in Request /\ (Retried(request) \/ Applied(request))
  <2>1. request \in Request /\ Reply(request) /\ Observe
    BY <1>1, DaemonAssumption DEF ClientUpdate
  <2>2. CASE AnswerKnown(request)
    BY <2>1, <2>2 DEF AnswerKnown, Reply, ReceiptFor, Retried, Answered, vars, memory
  <2>3. CASE ApplyAndSave(request)
    <3>1. disk'.refs = refs'
      BY <2>3 DEF ApplyAndSave, TypeOK
    <3> QED
      BY <2>1, <2>3, <3>1 DEF ApplyAndSave, ApplyToRefs, Reply, ReceiptFor, Applied, Answered,
                              Accepts
  <2> QED
    BY <1>1, <2>1, <2>2, <2>3 DEF ClientUpdate, RefUpdate, ApplyUnsaved
<1>2. ASSUME Unanswered
      PROVE  Elsewhere
  <2>1. replies' = replies /\ Observe
    BY <1>2 DEF Unanswered
  <2>2. \A change \in Changes : PolicyChange(change) => Elsewhere
    BY <2>1, DaemonAssumption DEF PolicyChange, Elsewhere
  <2>3. \A pack \in Packs : ObjectPut(pack) => Elsewhere
    BY <2>1 DEF ObjectPut, PutAndSave, PutUnsaved, PutInMemory, Elsewhere
  <2>4. \A o \in Oids : Expire(o) => Elsewhere
    BY <2>1 DEF Expire, Elsewhere
  <2>5. Restart => Elsewhere
    BY <2>1 DEF Restart, MemoryIsFile, Elsewhere
  <2> QED
    BY <1>2, <2>2, <2>3, <2>4, <2>5 DEF Unanswered
<1> QED
  BY <1>1, <1>2 DEF ClientNext

(* Memory is what the files hold, for the clients too.                     *)
LEMMA ClientsSeeFiles ==
    ASSUME ~ SaveMayFail
    PROVE  ClientSpec => []MemoryIsFile
<1>1. TypeOK /\ MemoryIsFile /\ [ClientNext]_<<vars, seen>> => MemoryIsFile'
  BY MemoryIsFileNext, ClientNextIsDaemonStep
<1>2. ClientInit => MemoryIsFile
  BY MemoryIsFileInit DEF ClientInit
<1> QED
  BY <1>1, <1>2, ClientsSeeDaemon, PTL DEF ClientSpec

-----------------------------------------------------------------------------
(* Replies.                                                                *)

RepliesHold ==
    \A reply \in {r \in replies : Decided(r)} :
        /\ Known(refs, reply.request.tx)
        /\ refs.receipts[reply.request.tx].receipt = reply.receipt

(* What is answered is recorded, and what is recorded stays.               *)
LEMMA RepliesHoldNext ==
    ASSUME ~ SaveMayFail, TypeOK, SeenTypeOK, MemoryIsFile, RepliesHold,
           [ClientNext]_<<vars, seen>>
    PROVE  RepliesHold'
<1>1. ASSUME NEW request \in Request, Retried(request)
      PROVE  RepliesHold'
  <2> DEFINE receipt == PreflightReceipt(refs, request.tx, OpOf(request))
  <2>1. Known(refs, request.tx) /\ refs' = refs
    BY <1>1 DEF Retried
  <2>2. receipt # IdempotencyViolation => receipt = refs.receipts[request.tx].receipt
    BY DEF PreflightReceipt
  <2>3. replies' = replies \cup {[request |-> request, receipt |-> receipt]}
    BY <1>1 DEF Retried, Answered
  <2> HIDE DEF receipt
  <2> QED
    BY <2>1, <2>2, <2>3 DEF RepliesHold, Decided
<1>2. ASSUME NEW request \in Request, Applied(request)
      PROVE  RepliesHold'
  <2> DEFINE op == OpOf(request)
             receipt == Decide(refs, op)
  <2>1. refs \in Store /\ request.tx \in TxIds /\ op \in Op /\ ~ Known(refs, request.tx)
    BY <1>2, OpOfType DEF TypeOK, Request, Applied, Accepts
  <2>2. refs' = ApplyUpdate(refs, request.tx, op)
    BY <1>2 DEF Applied
  <2>3. /\ Known(refs', request.tx)
        /\ refs'.receipts[request.tx] = [op |-> op, receipt |-> receipt]
        /\ \A x \in TxIds \ {request.tx} : refs'.receipts[x] = refs.receipts[x]
    BY <2>1, <2>2, ApplyUpdateRecords
  <2>4. replies' = replies \cup {[request |-> request, receipt |-> receipt]}
    BY <1>2 DEF Applied, Answered
  <2>5. ASSUME NEW reply \in replies, Decided(reply)
        PROVE  /\ Known(refs', reply.request.tx)
               /\ refs'.receipts[reply.request.tx].receipt = reply.receipt
    <3>1. /\ Known(refs, reply.request.tx)
          /\ refs.receipts[reply.request.tx].receipt = reply.receipt
      BY <2>5 DEF RepliesHold
    <3>2. reply.request.tx \in TxIds \ {request.tx}
      BY <2>1, <3>1 DEF SeenTypeOK, Request
    <3> QED
      BY <2>3, <3>1, <3>2 DEF Known
  <2>6. refs'.receipts[request.tx].receipt = receipt
    BY <2>3
  <2> HIDE DEF receipt, op
  <2> QED
    BY <2>3, <2>4, <2>5, <2>6 DEF RepliesHold, Decided
<1>3. CASE refs' = refs /\ replies' = replies
  BY <1>3 DEF RepliesHold, Decided
<1> QED
  BY <1>1, <1>2, <1>3, ClientSteps DEF Elsewhere, vars, memory, seen

(* When saves succeed, what a client was told of its update is in the ref  *)
(* file, and no crash takes it back.                                       *)
THEOREM AnswersAlwaysDurable ==
    ASSUME ~ SaveMayFail
    PROVE  ClientSpec => []AnswersAreDurable
<1>1. ClientInit => RepliesHold
  BY DEF ClientInit, RepliesHold
<1>2. TypeOK /\ SeenTypeOK /\ MemoryIsFile /\ RepliesHold /\ [ClientNext]_<<vars, seen>>
          => RepliesHold'
  BY RepliesHoldNext
<1>3. MemoryIsFile /\ RepliesHold => AnswersAreDurable
  BY DEF MemoryIsFile, RepliesHold, AnswersAreDurable
<1>4. ClientSpec => []MemoryIsFile
  BY ClientsSeeFiles
<1> QED
  BY <1>1, <1>2, <1>3, <1>4, ClientsSeeDaemon, SeenTypeCorrect, PTL DEF ClientSpec

(* What the daemon makes of a signed request, whatever its policy.         *)
SignedOp(request) ==
    [ref |-> request.ref, old |-> request.old, new |-> request.new,
     force |-> request.force, signer |-> request.signer, epoch |-> request.epoch]

SignedRepliesHold ==
    \A r \in replies :
        r.request.signer \in Devices =>
            /\ Known(refs, r.request.tx)
            /\ r.receipt = PreflightReceipt(refs, r.request.tx, SignedOp(r.request))

(* The fingerprint of a signed request is its own, so the answer to it is  *)
(* fixed by what was recorded.                                             *)
LEMMA SignedRepliesHoldNext ==
    ASSUME ~ SaveMayFail, TypeOK, SeenTypeOK, MemoryIsFile, SignedRepliesHold,
           [ClientNext]_<<vars, seen>>
    PROVE  SignedRepliesHold'
<1>1. \A request \in Request :
          request.signer \in Devices => OpOf(request) = SignedOp(request)
  BY DEF OpOf, SignedOp, Devices
<1>2. ASSUME NEW request \in Request, Retried(request)
      PROVE  SignedRepliesHold'
  <2> DEFINE receipt == PreflightReceipt(refs, request.tx, OpOf(request))
  <2>1. Known(refs, request.tx) /\ refs' = refs
    BY <1>2 DEF Retried
  <2>2. request.signer \in Devices =>
            receipt = PreflightReceipt(refs, request.tx, SignedOp(request))
    BY <1>1
  <2>3. replies' = replies \cup {[request |-> request, receipt |-> receipt]}
    BY <1>2 DEF Retried, Answered
  <2> HIDE DEF receipt
  <2> QED
    BY <2>1, <2>2, <2>3 DEF SignedRepliesHold
<1>3. ASSUME NEW request \in Request, Applied(request)
      PROVE  SignedRepliesHold'
  <2> DEFINE op == OpOf(request)
             receipt == Decide(refs, op)
  <2>1. refs \in Store /\ request.tx \in TxIds /\ op \in Op /\ ~ Known(refs, request.tx)
    BY <1>3, OpOfType DEF TypeOK, Request, Applied, Accepts
  <2>2. refs' = ApplyUpdate(refs, request.tx, op)
    BY <1>3 DEF Applied
  <2>3. /\ Known(refs', request.tx)
        /\ refs'.receipts[request.tx] = [op |-> op, receipt |-> receipt]
        /\ \A x \in TxIds \ {request.tx} : refs'.receipts[x] = refs.receipts[x]
    BY <2>1, <2>2, ApplyUpdateRecords
  <2>4. replies' = replies \cup {[request |-> request, receipt |-> receipt]}
    BY <1>3 DEF Applied, Answered
  <2>5. ASSUME NEW reply \in replies, reply.request.signer \in Devices
        PROVE  /\ Known(refs', reply.request.tx)
               /\ reply.receipt = PreflightReceipt(refs', reply.request.tx, SignedOp(reply.request))
    <3>1. /\ Known(refs, reply.request.tx)
          /\ reply.receipt = PreflightReceipt(refs, reply.request.tx, SignedOp(reply.request))
      BY <2>5 DEF SignedRepliesHold
    <3>2. reply.request.tx \in TxIds \ {request.tx}
      BY <2>1, <3>1 DEF SeenTypeOK, Request
    <3> QED
      BY <2>3, <3>1, <3>2 DEF Known, PreflightReceipt
  <2>6. request.signer \in Devices =>
            receipt = PreflightReceipt(refs', request.tx, SignedOp(request))
    BY <1>1, <2>3 DEF PreflightReceipt
  <2> HIDE DEF receipt, op
  <2> QED
    BY <2>3, <2>4, <2>5, <2>6 DEF SignedRepliesHold
<1>4. CASE refs' = refs /\ replies' = replies
  BY <1>4 DEF SignedRepliesHold
<1> QED
  BY <1>2, <1>3, <1>4, ClientSteps DEF Elsewhere, vars, memory, seen

(* When saves succeed, a signed request that is sent again is answered as  *)
(* the first time.                                                         *)
THEOREM SignedRetriesAlwaysAgree ==
    ASSUME ~ SaveMayFail
    PROVE  ClientSpec => []SignedRetriesAgree
<1>1. ClientInit => SignedRepliesHold
  BY DEF ClientInit, SignedRepliesHold
<1>2. TypeOK /\ SeenTypeOK /\ MemoryIsFile /\ SignedRepliesHold /\ [ClientNext]_<<vars, seen>>
          => SignedRepliesHold'
  BY SignedRepliesHoldNext
<1>3. SignedRepliesHold => SignedRetriesAgree
  BY DEF SignedRepliesHold, SignedRetriesAgree, SameAnswer
<1>4. ClientSpec => []MemoryIsFile
  BY ClientsSeeFiles
<1> QED
  BY <1>1, <1>2, <1>3, <1>4, ClientsSeeDaemon, SeenTypeCorrect, PTL DEF ClientSpec

-----------------------------------------------------------------------------
(* Policies.                                                               *)

(* Only the largest epoch can be that of several policies, and no policy   *)
(* that was shown is ahead of the one in force.                            *)
EpochsInv ==
    /\ policy \in policies
    /\ \A p \in policies :
          /\ p.epoch <= policy.epoch
          /\ p.epoch = policy.epoch /\ p.epoch < MaxEpoch => p = policy
    /\ EpochNamesPolicy

(* A command that changes the policy moves the epoch on, up to the largest.*)
LEMMA AfterChangeEpoch ==
    ASSUME NEW p \in Policy, NEW change \in Change
    PROVE  LET q == AfterChange(p, change)
           IN  q = p \/ q.epoch = Bump(p.epoch)
<1>1. \A q \in Policy : Changed(p, q) = p \/ Changed(p, q).epoch = Bump(p.epoch)
  BY DEF Changed, Policy
<1>2. CASE change \in [command: {"POLICY_SET_REQUIRE_SIGNED"}, value: BOOLEAN]
  <2>1. [p EXCEPT !.requireSigned = change.value] \in Policy
    BY <1>2 DEF Policy
  <2>2. AfterChange(p, change) = SetRequireSigned(p, change.value)
    BY <1>2 DEF AfterChange
  <2> QED
    BY <1>1, <2>1, <2>2 DEF SetRequireSigned
<1>3. CASE change \in [command: {"POLICY_GRANT_WRITER_ACCOUNT", "POLICY_GRANT_FORCE_ACCOUNT"},
                       value: Accounts]
  <2>1. change.value \in Principals
    BY <1>3 DEF Principals
  <2>2. /\ [p EXCEPT !.writers = @ \cup {change.value}] \in Policy
        /\ [p EXCEPT !.forcers = @ \cup {change.value}] \in Policy
    BY <2>1 DEF Policy
  <2>3. \/ AfterChange(p, change) = GrantWriter(p, change.value)
        \/ AfterChange(p, change) = GrantForcePush(p, change.value)
    BY <1>3 DEF AfterChange
  <2> QED
    BY <1>1, <2>2, <2>3 DEF GrantWriter, GrantForcePush
<1>4. CASE change \in [command: {"POLICY_PROTECT_REF"}, value: RefNames]
  <2>1. [p EXCEPT !.protected = @ \cup {change.value}] \in Policy
    BY <1>4 DEF Policy
  <2>2. AfterChange(p, change) = ProtectRef(p, change.value)
    BY <1>4 DEF AfterChange
  <2> QED
    BY <1>1, <2>1, <2>2 DEF ProtectRef
<1> QED
  BY <1>2, <1>3, <1>4 DEF Change

(* Every step keeps the epochs in order.                                   *)
LEMMA EpochsInvNext ==
    ASSUME ~ SaveMayFail, TypeOK, TypeOK', SeenTypeOK, MemoryIsFile, EpochsInv,
           [ClientNext]_<<vars, seen>>
    PROVE  EpochsInv'
<1>1. /\ policy.epoch \in 0..MaxEpoch /\ policy'.epoch \in 0..MaxEpoch /\ MaxEpoch \in Nat
      /\ \A p \in policies : p.epoch \in 0..MaxEpoch
  BY MaxEpochAssumption DEF TypeOK, Policy, SeenTypeOK
<1>2. CASE policy' = policy /\ Observe
  <2>1. policies' = policies
    BY <1>2 DEF Observe, EpochsInv
  <2> QED
    BY <1>2, <2>1 DEF EpochsInv, EpochNamesPolicy
<1>3. CASE UNCHANGED <<vars, seen>>
  BY <1>3 DEF vars, memory, seen, EpochsInv, EpochNamesPolicy
<1>4. ASSUME NEW change \in Change, policy' = AfterChange(policy, change), policy' # policy,
             Observe
      PROVE  EpochsInv'
  <2>1. policy'.epoch = Bump(policy.epoch)
    BY <1>4, AfterChangeEpoch DEF TypeOK
  <2>2. policies' = policies \cup {policy'}
    BY <1>4 DEF Observe
  <2>3. CASE policy.epoch < MaxEpoch
    <3>1. policy'.epoch = policy.epoch + 1
      BY <1>1, <2>1, <2>3 DEF Bump
    <3>2. \A p \in policies : p.epoch < policy'.epoch
      BY <1>1, <3>1 DEF EpochsInv
    <3> QED
      BY <1>1, <2>2, <3>2 DEF EpochsInv, EpochNamesPolicy
  <2>4. CASE policy.epoch = MaxEpoch
    <3>1. policy'.epoch = MaxEpoch
      BY <2>1, <2>4 DEF Bump
    <3> QED
      BY <1>1, <2>2, <3>1 DEF EpochsInv, EpochNamesPolicy
  <2> QED
    BY <1>1, <2>3, <2>4
<1> QED
  BY <1>2, <1>3, <1>4, ClientSteps DEF Retried, Applied, Elsewhere

(* The epochs are in order in every reachable state.                       *)
LEMMA EpochsInvariant ==
    ASSUME ~ SaveMayFail
    PROVE  ClientSpec => []EpochsInv
<1>1. ClientInit /\ TypeOK => EpochsInv
  BY MaxEpochAssumption DEF ClientInit, EpochsInv, EpochNamesPolicy, TypeOK, Policy
<1>2. TypeOK /\ TypeOK' /\ SeenTypeOK /\ MemoryIsFile /\ EpochsInv
          /\ [ClientNext]_<<vars, seen>> => EpochsInv'
  BY EpochsInvNext
<1>3. ClientSpec => []MemoryIsFile
  BY ClientsSeeFiles
<1> QED
  BY <1>1, <1>2, <1>3, ClientsSeeDaemon, SeenTypeCorrect, PTL DEF ClientSpec

(* When saves succeed, an epoch below the largest names one policy, through*)
(* every change and crash.                                                 *)
THEOREM EpochsAlwaysNamePolicy ==
    ASSUME ~ SaveMayFail
    PROVE  ClientSpec => []EpochNamesPolicy
<1>1. EpochsInv => EpochNamesPolicy
  BY DEF EpochsInv
<1>2. ClientSpec => []EpochsInv
  BY EpochsInvariant
<1> QED
  BY <1>1, <1>2, PTL

(* Of every entry of the log: those after it have no older epoch, the      *)
(* policy in force has not either, and some policy authorized it.          *)
LogOrdered ==
    LET log == refs.mutations
    IN  \A i \in 1..Len(log) :
            /\ \A j \in i..Len(log) : log[i].op.epoch <= log[j].op.epoch
            /\ log[i].op.epoch <= policy.epoch
            /\ \E p \in policies : AuthorizeRefUpdate(p, log[i].op)

(* An update is logged with the epoch of the policy that authorized it,    *)
(* and the policy's epoch never falls.                                     *)
LEMMA LogOrderedNext ==
    ASSUME ~ SaveMayFail, TypeOK, TypeOK', MemoryIsFile, EpochsInv, EpochsInv',
           LogOrdered, [ClientNext]_<<vars, seen>>
    PROVE  LogOrdered'
<1>1. refs \in Store /\ Len(refs.mutations) \in Nat
  BY DEF TypeOK, Store
<1>2. policy.epoch \in Nat /\ policy'.epoch \in Nat
  BY MaxEpochAssumption DEF TypeOK, Policy
<1>3. \A i \in 1..Len(refs.mutations) : refs.mutations[i].op.epoch \in Nat
  <2> SUFFICES ASSUME NEW i \in 1..Len(refs.mutations)
               PROVE  refs.mutations[i].op.epoch \in Nat
    OBVIOUS
  <2>1. refs.mutations[i] \in Mutation
    BY <1>1 DEF Store
  <2> QED
    BY <2>1 DEF Mutation, Op
<1>4. policies \subseteq policies' /\ policy.epoch <= policy'.epoch
  <2>1. policies \subseteq policies'
    BY ClientSteps DEF Retried, Applied, Elsewhere, Observe, seen
  <2> QED
    BY <2>1 DEF EpochsInv
<1>5. CASE refs'.mutations = refs.mutations
  BY <1>1, <1>2, <1>3, <1>4, <1>5 DEF LogOrdered
<1>6. ASSUME NEW request \in Request, Applied(request), CasHolds(refs, OpOf(request))
      PROVE  LogOrdered'
  <2> DEFINE op == OpOf(request)
             n == Len(refs.mutations)
             k == refs'.mutations
             l == refs.mutations
  <2>1. /\ request.tx \in TxIds /\ op \in Op /\ AuthorizeRefUpdate(policy, op)
        /\ refs' = CommitUpdate(refs, request.tx, op) /\ policy' = policy
    BY <1>6, OpOfType DEF TypeOK, Request, Applied, Accepts, ApplyUpdate
  <2>2. op.epoch = policy.epoch
    BY <2>1 DEF AuthorizeRefUpdate
  <2>3. /\ Len(k) = n + 1
        /\ \A i \in 1..n : k[i] = l[i]
        /\ k[n + 1] = CommittedMutation(refs, request.tx, op, Decide(refs, op))
    BY <1>1, <1>6, <2>1, CommitUpdateLog
  <2>4. k[n + 1].op = op
    BY <2>3 DEF CommittedMutation
  <2>5. \A i \in 1..n : l[i].op.epoch <= op.epoch
    BY <2>2 DEF LogOrdered
  <2>6. policy \in policies'
    BY <1>4 DEF EpochsInv
  <2> HIDE DEF op, n, k, l
  <2>7. ASSUME NEW i \in 1..(n + 1)
        PROVE  /\ \A j \in i..(n + 1) : k[i].op.epoch <= k[j].op.epoch
               /\ k[i].op.epoch <= policy.epoch
               /\ \E p \in policies' : AuthorizeRefUpdate(p, k[i].op)
    <3>1. CASE i = n + 1
      <4>1. \A j \in i..(n + 1) : j = i
        BY <1>1, <3>1 DEF n
      <4> QED
        BY <1>2, <2>1, <2>2, <2>4, <2>6, <3>1, <4>1
    <3>2. CASE i # n + 1
      <4>1. i \in 1..n /\ k[i] = l[i]
        BY <1>1, <2>3, <3>2 DEF n
      <4>2. ASSUME NEW j \in i..(n + 1)
            PROVE  k[i].op.epoch <= k[j].op.epoch
        <5>1. CASE j = n + 1
          BY <2>4, <2>5, <4>1, <5>1
        <5>2. CASE j # n + 1
          <6>1. j \in i..n /\ j \in 1..n
            BY <1>1, <4>1, <5>2 DEF n
          <6> QED
            BY <2>3, <4>1, <6>1 DEF LogOrdered, l, n
        <5> QED
          BY <5>1, <5>2
      <4>3. /\ l[i].op.epoch <= policy.epoch
            /\ \E p \in policies : AuthorizeRefUpdate(p, l[i].op)
        BY <4>1 DEF LogOrdered, l, n
      <4> QED
        BY <1>4, <4>1, <4>2, <4>3
    <3> QED
      BY <3>1, <3>2
  <2> QED
    BY <2>1, <2>3, <2>7 DEF LogOrdered, k, n
<1>7. ASSUME NEW request \in Request, Applied(request), ~ CasHolds(refs, OpOf(request))
      PROVE  refs'.mutations = refs.mutations
  BY <1>1, <1>7, OpOfType, RejectIsStutter DEF TypeOK, Request, Applied
<1> QED
  BY <1>5, <1>6, <1>7, ClientSteps DEF Retried, Elsewhere, vars, memory

(* When saves succeed, the log is in the order of the policies and every   *)
(* entry was authorized by one that had its epoch.                         *)
THEOREM LogAlwaysFollowsPolicy ==
    ASSUME ~ SaveMayFail
    PROVE  ClientSpec => []LogFollowsPolicy
<1>1. ClientInit => LogOrdered
  BY DEF ClientInit, Init, EmptyStore, LogOrdered
<1>2. TypeOK /\ TypeOK' /\ MemoryIsFile /\ EpochsInv /\ EpochsInv' /\ LogOrdered
          /\ [ClientNext]_<<vars, seen>> => LogOrdered'
  BY LogOrderedNext
<1>3. TypeOK /\ LogOrdered => LogFollowsPolicy
  <2>1. TypeOK => Len(refs.mutations) \in Nat
    BY DEF TypeOK, Store
  <2> QED
    BY <2>1 DEF LogOrdered, LogFollowsPolicy
<1>4. ClientSpec => []MemoryIsFile /\ []EpochsInv
  BY ClientsSeeFiles, EpochsInvariant
<1> QED
  BY <1>1, <1>2, <1>3, <1>4, ClientsSeeDaemon, PTL DEF ClientSpec

-----------------------------------------------------------------------------
(* Checkpoints.                                                            *)

(* Every checkpoint that was shown is where its number says, in the store. *)
ShownInChain ==
    \A c \in checkpoints :
        /\ c.sequence \in 1..Len(refs.checkpoints)
        /\ c = refs.checkpoints[c.sequence]

(* The last checkpoint of a sound store is where its number says.          *)
LEMMA LatestInChain ==
    ASSUME NEW s \in Store, ConsistentStore(s), NEW c \in LatestCheckpoints(s)
    PROVE  /\ c.sequence \in 1..Len(s.checkpoints)
           /\ c = s.checkpoints[c.sequence]
<1> DEFINE n == Len(s.checkpoints)
<1>1. s.checkpoints \in Seq(Checkpoint) /\ s.checkpoints # <<>> /\ c = s.checkpoints[n]
  BY DEF Store, LatestCheckpoints, LatestCheckpoint
<1>2. n \in 1..n
  BY <1>1
<1>3. s.checkpoints[n].sequence = n
  BY <1>2, ConsistentCheckpoint
<1> QED
  BY <1>1, <1>2, <1>3

(* The chain only grows, so what was shown stays where it was.             *)
LEMMA ShownInChainNext ==
    ASSUME ~ SaveMayFail, TypeOK, TypeOK', RefsInv, RefsInv', MemoryIsFile, ShownInChain,
           [ClientNext]_<<vars, seen>>
    PROVE  ShownInChain'
<1>1. refs \in Store /\ refs' \in Store /\ ConsistentStore(refs) /\ ConsistentStore(refs')
  BY DEF TypeOK, RefsInv, SoundRefs
<1>2. PrefixOf(refs, refs')
  <2>1. ASSUME NEW request \in Request, Applied(request)
        PROVE  PrefixOf(refs, refs')
    <3>1. request.tx \in TxIds /\ OpOf(request) \in Op
      BY OpOfType DEF TypeOK, Request
    <3> QED
      BY <1>1, <2>1, <3>1, ApplyUpdateExtends DEF Applied, ConsistentStore
  <2>2. CASE refs' = refs
    BY <1>1, <2>2, PrefixOfSelf
  <2> QED
    BY <2>1, <2>2, ClientSteps DEF Retried, Elsewhere, vars, memory
<1>3. checkpoints' \subseteq checkpoints \cup LatestCheckpoints(refs')
  BY ClientSteps DEF Retried, Applied, Elsewhere, Observe, seen
<1>4. ASSUME NEW c \in checkpoints
      PROVE  /\ c.sequence \in 1..Len(refs'.checkpoints)
             /\ c = refs'.checkpoints[c.sequence]
  <2>1. /\ Len(refs.checkpoints) = Len(refs.mutations)
        /\ Len(refs'.checkpoints) = Len(refs'.mutations)
        /\ Len(refs.checkpoints) \in Nat /\ Len(refs'.checkpoints) \in Nat
    BY <1>1 DEF ConsistentStore, Store
  <2> QED
    BY <1>2, <2>1 DEF ShownInChain, PrefixOf
<1>5. ASSUME NEW c \in LatestCheckpoints(refs')
      PROVE  /\ c.sequence \in 1..Len(refs'.checkpoints)
             /\ c = refs'.checkpoints[c.sequence]
  BY <1>1, LatestInChain
<1> QED
  BY <1>3, <1>4, <1>5 DEF ShownInChain

(* When saves succeed, the daemon shows one checkpoint for a sequence      *)
(* number, whatever crashes.                                               *)
THEOREM NeverEquivocates ==
    ASSUME ~ SaveMayFail
    PROVE  ClientSpec => []NoEquivocation
<1>1. ClientInit => ShownInChain
  BY DEF ClientInit, Init, EmptyStore, LatestCheckpoints, ShownInChain
<1>2. TypeOK /\ TypeOK' /\ RefsInv /\ RefsInv' /\ MemoryIsFile /\ ShownInChain
          /\ [ClientNext]_<<vars, seen>> => ShownInChain'
  BY ShownInChainNext
<1>3. ShownInChain => NoEquivocation
  BY DEF ShownInChain, NoEquivocation
<1>4. ClientSpec => []MemoryIsFile
  BY ClientsSeeFiles
<1> QED
  BY <1>1, <1>2, <1>3, <1>4, ClientsSeeDaemon, PTL DEF ClientSpec

-----------------------------------------------------------------------------
(* Refinement: with saves that succeed, the daemon and what it answered    *)
(* are a register that never crashes.                                      *)

(* An update is read as a request that the register can take it for.       *)
LEMMA OpIsReading ==
    ASSUME TypeOK, NEW request \in Request
    PROVE  OpOf(request) \in Once!Readings(request)
<1>1. policy.epoch \in 0..MaxEpoch
  BY DEF TypeOK, Policy
<1> QED
  BY <1>1 DEF OpOf, Once!Readings

(* The decisions after an update are those before it and its own.          *)
LEMMA ApplyUpdateDecides ==
    ASSUME NEW s \in Store, NEW tx \in TxIds, NEW op \in Op, ~ Known(s, tx),
           refs = s, refs' = ApplyUpdate(s, tx, op)
    PROVE  Decisions' = Decisions \cup {[tx |-> tx, request |-> op, answer |-> Decide(s, op)]}
<1> DEFINE t == ApplyUpdate(s, tx, op)
           entry(u, x) == [tx |-> x, request |-> u.receipts[x].op,
                           answer |-> u.receipts[x].receipt]
           known(u) == {x \in TxIds : Known(u, x)}
<1>1. /\ Known(t, tx) /\ t.receipts[tx] = [op |-> op, receipt |-> Decide(s, op)]
      /\ \A x \in TxIds \ {tx} : t.receipts[x] = s.receipts[x]
  BY ApplyUpdateRecords
<1>2. known(t) = known(s) \cup {tx} /\ tx \notin known(s)
  BY <1>1 DEF Known
<1>3. entry(t, tx) = [tx |-> tx, request |-> op, answer |-> Decide(s, op)]
  BY <1>1
<1>4. \A x \in known(s) : entry(t, x) = entry(s, x)
  BY <1>1, <1>2
<1>5. Decisions = {entry(s, x) : x \in known(s)} /\ Decisions' = {entry(t, x) : x \in known(t)}
  BY DEF Decisions
<1> HIDE DEF entry, known, t
<1> QED
  BY <1>2, <1>3, <1>4, <1>5

(* A retry is answered from the decision on its transaction.               *)
LEMMA RetriedIsRepeat ==
    ASSUME TypeOK, NEW request \in Requests, request \in Request, Retried(request)
    PROVE  Once!Repeat(request)
<1> DEFINE op == OpOf(request)
           d == [tx |-> request.tx, request |-> refs.receipts[request.tx].op,
                 answer |-> refs.receipts[request.tx].receipt]
<1>1. request.tx \in TxIds /\ Known(refs, request.tx)
  BY DEF Request, Retried
<1>2. d \in Decisions
  BY <1>1 DEF Decisions
<1>3. op \in Once!Readings(request)
  BY OpIsReading
<1>4. PreflightReceipt(refs, request.tx, op)
          = IF d.request = op THEN d.answer ELSE IdempotencyViolation
  BY DEF PreflightReceipt
<1>5. Once!Tell(request, IF d.request = op THEN d.answer ELSE IdempotencyViolation)
  BY <1>4 DEF Retried, Answered, Once!Tell
<1>6. refs' = refs /\ Decisions' = Decisions
  BY DEF Retried, Decisions, Known
<1>7. d.tx = request.tx
  OBVIOUS
<1> HIDE DEF d, op
<1> QED
  BY <1>2, <1>3, <1>5, <1>6, <1>7 DEF Once!Repeat

(* An update that is applied is decided, as the register decides it.       *)
LEMMA AppliedIsDecide ==
    ASSUME TypeOK, NEW request \in Requests, request \in Request, Applied(request)
    PROVE  Once!Decide(request)
<1> DEFINE op == OpOf(request)
           answer == Decide(refs, op)
<1>1. /\ refs \in Store /\ request.tx \in TxIds /\ op \in Op /\ ~ Known(refs, request.tx)
      /\ refs' = ApplyUpdate(refs, request.tx, op)
  BY OpOfType DEF TypeOK, Request, Applied, Accepts
<1>2. op.ref = request.ref /\ op.old = request.old /\ op.new = request.new
  BY DEF OpOf
<1>3. op \in Once!Readings(request)
  BY OpIsReading
<1>4. Decisions' = Decisions \cup {Once!Decision(request, op, answer)}
  BY <1>1, ApplyUpdateDecides DEF Once!Decision
<1>5. Once!Tell(request, answer)
  BY DEF Applied, Answered, Once!Tell
<1>6. \A d \in Decisions : d.tx # request.tx
  BY <1>1 DEF Decisions
<1>7. CASE CasHolds(refs, op)
  <2>1. refs.refs[request.ref] = request.old
    BY <1>2, <1>7 DEF CasHolds
  <2>2. answer = [status |-> "committed", ref |-> request.ref, old |-> request.old,
                  new |-> request.new]
    BY <1>2, <1>7, <2>1 DEF Decide, Committed
  <2>3. refs'.refs = [refs.refs EXCEPT ![request.ref] = request.new]
    BY <1>1, <1>2, <1>7 DEF ApplyUpdate, CommitUpdate
  <2> HIDE DEF op, answer
  <2>4. Once!Swap(request, op)
    BY <1>4, <1>5, <2>1, <2>2, <2>3 DEF Once!Swap
  <2> QED
    BY <1>3, <1>6, <2>4 DEF Once!Decide
<1>8. CASE ~ CasHolds(refs, op)
  <2>1. refs.refs[request.ref] # request.old
    BY <1>2, <1>8 DEF CasHolds
  <2>2. answer = [status |-> "conflict", ref |-> request.ref, old |-> request.old,
                  new |-> refs.refs[request.ref]]
    BY <1>2, <1>8 DEF Decide, Conflict
  <2>3. refs'.refs = refs.refs
    BY <1>1, <1>8 DEF ApplyUpdate, RejectUpdate, Store
  <2> HIDE DEF op, answer
  <2>4. Once!Conflict(request, op)
    BY <1>4, <1>5, <2>1, <2>2, <2>3 DEF Once!Conflict
  <2> QED
    BY <1>3, <1>6, <2>4 DEF Once!Decide
<1> QED
  BY <1>7, <1>8

(* When saves succeed, the daemon is for its clients a register that       *)
(* decides each transaction once and never crashes.                        *)
THEOREM DaemonAnswersOnce ==
    ASSUME ~ SaveMayFail
    PROVE  ClientSpec => AnsweredOnce
<1>1. ClientInit => Once!Init
  BY NoReceiptAssumption
     DEF ClientInit, Init, EmptyStore, EmptyRefs, Decisions, Known, Once!Init
<1>2. TypeOK /\ MemoryIsFile /\ [ClientNext]_<<vars, seen>> => [Once!Next]_(Once!vars)
  <2> SUFFICES ASSUME TypeOK, MemoryIsFile, [ClientNext]_<<vars, seen>>
               PROVE  [Once!Next]_(Once!vars)
    OBVIOUS
  <2>1. ASSUME NEW request \in Requests, Retried(request) \/ Applied(request)
        PROVE  Once!Next
    BY <2>1, RetriedIsRepeat, AppliedIsDecide, DaemonAssumption DEF Once!Next
  <2>2. CASE refs' = refs /\ replies' = replies
    BY <2>2 DEF Once!vars, Decisions, Known
  <2> QED
    BY <2>1, <2>2, ClientSteps DEF Elsewhere, vars, memory, seen
<1>3. ClientSpec => []MemoryIsFile
  BY ClientsSeeFiles
<1> QED
  BY <1>1, <1>2, <1>3, ClientsSeeDaemon, PTL DEF ClientSpec, AnsweredOnce, Once!Spec
=============================================================================

# A formal model of GitMesh

TLA+ modules, TLC configurations and TLAPS proofs for GitMesh: the coordination
core (the ref store, the repository policy, the daemon that serialises commands
over them, the push helper), the daemon's other stores (objects and provider
leases, key grants, accounts, issues, known peers), and what surrounds them: the
socket, clones and fetches, packs, and shards at peers that fail. The reference is
the Rust code; file names below are relative to `src/crates/`.

Conventions: a definition keeps the name of what it models in CamelCase. A
definition ending in `_Bug` is a plausible bug of the one it precedes. No
specification uses it; `PROJECT.json` ("mutants") names the property that
catches it. `PROJECT.json` also maps every definition to source lines.

## 1. Inventory

| component | state | operations | depends on |
|---|---|---|---|
| `gitmesh-coordination` RefStore | refs, receipts by transaction id, mutation log, checkpoint chain | apply (compare-and-swap), preflight, save, load with full replay | hashes, signatures |
| `gitmesh-coordination` RepoPolicy | epoch, require-signed flag, writers, force pushers, protected refs | setters that bump the epoch, authorise a ref update | identity |
| `gitmeshd` DaemonState | one RefStore, RepoPolicy, object store, availability directory, key grants, accounts, collaboration log, network node; one file for each | some sixty text commands, each under one mutex; save after change | all of the above |
| `gitmesh-repository` | objects: encrypted segment and shards | put, get, audit, repair, validate ref targets, export packs | storage, git |
| `git-remote-gitmesh` | pending pushes and fetches of one process | push: REF_GET, OBJECT_PUT..., POLICY_SHOW, REF_UPDATE; fetch: PACK_GET | daemon socket, `git` |
| `gitmesh-network` | availability directory (provider leases), known peers, in-memory peers and swarm | publish, renew, expire, prune, plan placement, store/fetch/audit shards | identity |
| `gitmesh-storage` | none of its own | erasure-code, audit, repair and distribute over a transport | network, crypto |
| `gitmesh-identity` | device certificates, repository key grants by epoch | grant, revoke device, status | crypto |
| `gitmesh-accounts` | profiles, sessions, repository registrations | create, update, issue and revoke sessions | |
| `gitmesh-collaboration` | issue and pull request events | insert, summarise | identity |
| `gm` | local repository list, bare clones | create, import, clone, status | daemon socket |
| `gitmesh-git`, `gitmesh-core`, `gitmesh-crypto` | none | parse and write objects, packs, deltas, hashes, ciphers | |

Interaction. Clients open a Unix socket; the daemon starts a thread for each
connection and takes the mutex for the whole of `handle_command`
(`gitmeshd/src/lib.rs:2161`), so commands are atomic towards each other and
interleave between clients. A client operation such as a push is many commands.
Each store has its own file, written by "temporary file, then rename"; there is
no transaction over several files, and a change is made in memory before its
file is saved.

What is hard about it:

* *Retries.* A client that lost the answer sends the transaction again; ids are
  chosen by clients and may be reused, and the fingerprint that tells reuse from
  retry covers fields the daemon itself may fill in.
* *Partial failure and crashes.* A failed save leaves memory ahead of the file
  and visible to clients; a crash then goes back.
* *Interleavings.* Pushes, policy changes and restarts come between the
  commands of one push; what was read first may be stale when used.
* *Cross-file consistency.* A ref must name objects that are in another file.
* *Order.* Log, receipts, refs and checkpoint chain change together and are
  replayed as a whole on load; one disagreement and the daemon cannot start.

What makes each part correct: the store applies a transaction once and never
changes an answer; its snapshot always loads; its checkpoints chain; the policy
in force authorised each entry, and an epoch names one policy; refs name objects
that survive a crash; branches lose no commit without force; "ok" from a push
means the branch moved. An object that is called available can be read, as long as its
leases number the shards as they are, and leases outlast failures and restarts. What the daemon confirmed (a grant, a
revocation, a session, a number, an expiry) stands, and every file loads. Shards
of one segment fail apart, and a repair leaves what it announces. A copy has the
history of its refs. A request ends, and nothing runs on a state that a panic
left behind.

## 2. Modules

| module | models | notes |
|---|---|---|
| `RefOps`, `RefOpsProofs` | types and pure functions of RefStore, snapshot checks, and lemmas about them | constants only |
| `RefLog` | abstract specification: a log of swaps with a durable prefix | what a ref store promises |
| `RefStore` | apply, save, restart over one store | implements `RefLog` |
| `RefStoreProofs` | TLAPS proofs about `RefStore` | |
| `PolicyOps` | RepoPolicy | constants only |
| `ObjectGraph` | validation of ref targets, ancestry, closures | constants only; what can be reached is the least closed set |
| `RefDaemon` | gitmeshd: refs, policy, objects, leases, files, failures | composes the three; its refs implement `RefLog` too |
| `DaemonClients` | `RefDaemon` with what its clients have seen | history variables only; implements `ExactlyOnce` |
| `ExactlyOnce` | abstract specification: a register for each ref that decides a transaction once | what `REF_UPDATE` promises clients; no memory, file or crash |
| `RefDaemonProofs` | TLAPS proofs about `RefDaemon` and `DaemonClients` | |
| `PushHelper`, `PushHelperProofs` | `git-remote-gitmesh` processes over `RefDaemon`, and TLAPS proofs | one action per daemon command |
| `StoreFile` | save by temporary file and rename | shared by the stores below |
| `AvailabilityDirectory` | provider records: what replaces what, expiry, pruning, requirements | constants only |
| `ObjectStorage` | objects as segments with shards, local leases, the storage policy, two files | over `AvailabilityDirectory` |
| `KeyGrants` | repository keys granted to devices | |
| `AccountStore` | profiles, sessions, registered repositories | |
| `AccessProofs` | TLAPS proofs about `KeyGrants` and `AccountStore` | |
| `CollaborationLog` | issues and pull requests and their numbers | |
| `NodeStore` | listen addresses and known peers | |
| `ShardTransfer` | upload and repair of one segment over peers that fail | over `AvailabilityDirectory` |
| `PackDeltas` | resolution of the deltas of a pack | the calls of the recursive function are part of the state |
| `CloneRepository` | `gm` cloning and the helper fetching from a daemon that changes | |
| `DaemonSocket` | connections, threads, the mutex | implements `OneAtATime` |
| `OneAtATime` | abstract specification: commands that take effect one at a time | what the socket promises clients |
| `DaemonStoresProofs` | TLAPS proofs about `ObjectStorage`, `NodeStore` and `CollaborationLog` | |
| `ShardTransferProofs` | TLAPS proofs about `ShardTransfer` | |
| `ClientsProofs` | TLAPS proofs about `DaemonSocket`, `CloneRepository` and `PackDeltas` | |
| `MC...` | instances for TLC | |

Correspondence with the code.

* **A hash is what it commits to.** A refs root is the ref map, a history root
  the sequence of mutations, a checkpoint id the chain of checkpoint bodies.
  Equal hashes then mean equal data, which is the collision assumption.
* **A signature is a fact.** A signed update is one whose `signer` is a device;
  `AccountOf` gives the account that certified it. Forgery is not modelled.
* **`Op` is the fingerprint.** `operation_fingerprint` lists all fields of an
  update but its id, so the model compares the operations themselves.
* **Snapshot checks.** The code replays the log over an empty map and demands
  that each checkpoint equals the recomputed one. So the replayed map after
  entry *i* is the refs root of checkpoint *i*, which lets `ConsistentStore` be
  written without recursion.
* **One command, one step.** `RefDaemon` has one action per command and outcome:
  `ApplyAndSave`, `ApplyUnsaved` (the save failed, the change stayed in memory),
  `AnswerKnown`. `Accepts` is the sequence of checks of
  `apply_verified_ref_update`. A refused command changes nothing and is no step.
* **Files.** `disk` holds the ref, policy and object files. A crash may come
  anywhere; as a command touches one of these files, and by rename, dying inside
  one equals dying before or after it, or after its `...Unsaved` form. The
  availability file is left out: `with_every_store_path` republishes a lease for
  every object it loads (`Restart`).
* **Push.** `PushHelper` splits `apply_push` at its daemon requests: `Begin`
  (REF_GET, and what git says of the source: `rev-parse` and `rev-list` are given its name, and
  the branch may have moved on between the two, `MovedOn`), `ImportObject` (one OBJECT_PUT, commits before trees and blobs as
  `rev-list --objects` lists them), `ReadEpoch` (POLICY_SHOW), `Update...`. At any
  request the process may be killed or find the daemon down (`Dies`).
  Without an identity `POLICY_SHOW` is not sent; the step is then a stutter of
  the daemon and the epoch it reads is not used. The transaction id is the
  triple the code formats, with the ref name sanitised.

* **The other stores.** Each store module has one action per command that
  changes its store; `Saving` gives what the file may be afterwards. A `...Restart`
  reloads from the file what the loader makes of it, under the checks of
  `from_snapshot`. History variables (`told`, `answered`, `numbered`) hold what
  clients were answered, which is only what was saved.
* **Objects and leases.** `ObjectStorage` keeps the segment and the shards of each
  object, the flag the store computes when shards change, and the directory. An
  encrypted segment is its number: encryption is randomised, so encrypting an
  object again gives another segment. The content id of a segment's shard is a hash over
  segment and index and stands as the index; a number beyond them is some other id. A
  record names a content id *and* an index, a peer, an operator, a region and whether it
  has the storage role, each as its publisher likes. `Verifies` is what
  `verify_signature` asks: a certificate that comes with the record, whoever's it is, and
  that the record runs. `PublishSigned` looks at nothing else; its other guard says only
  that nobody knows the hash of a segment that is not made yet. `AvailableTarget` is the
  report: a record whose content id is not held, or whose index is beyond the policy, is an
  error; otherwise distinct indices, operators and regions are counted. `SaveBoth` writes two files one after the other and stops at the first
  that fails.
* **Transport.** `ShardTransfer` makes each request of the upload and the repair a
  step: audit one provider, fetch one shard, store one shard, publish one record.
  `RepairBegin` chooses the providers, either those discovered at the directory or
  those the uploader returned. Between the steps peers lose or spoil shards, go and
  come back (`InMemorySwarm`). `held[p][i]` says what `ShardEnvelope::verify` would.
  A peer that stores a shard also publishes a record in a directory of its own
  (`gitmesh-network/src/lib.rs:1608`), which no upload or repair reads; it is left out.
  Peers are numbers in the order of their ids; what the code takes in that order, the
  candidates of a placement and the active records of an answer, is the `Nth` of a set.
  A repairer's leases are told from others' by their epoch, so each has its own.
* **Issues and pull requests.** A summary's number is its place among the summaries of
  its repository (`NumberOf`), which the code counts anew for each answer.
  `COLLAB_SEED_SAMPLES` inserts its four events one after the other (`Seeded`).
* **Packs.** `resolve_pack_entry` calls itself, for the base of a delta and for each candidate of
  a search by object id. `PackDeltas` keeps its calls in the state: which one runs, who called
  it, how far each got (`calls`), and a step for each thing that one of them looks at.
  `resolved` and `known` are the code's own arrays; the third, its marks, is what was begun
  and is not resolved (`Resolving`). `Sound` is the order-free reference the result is
  compared with: the least set of entries that is closed under applying deltas. An entry
  without a base may have a kind that is not known, and then fails as a delta does that does
  not apply.
* **Copies.** `CloneRepository` reads the daemon by `PACK_GET all` and then
  `REF_LIST`, and the helper by `REF_LIST` first. `git index-pack --strict`, git's own
  connectivity check and its `update-ref` are modelled from how they are used.
* **Socket.** `DaemonSocket` has one action per stage of `handle_unix_stream`; what
  a command does is reduced to how it ends.
* **Register.** For `ExactlyOnce`, the value of a ref is the one in memory, what is decided are
  the receipts in memory, and what clients were told are their answers. An unsigned
  request is taken for some epoch, as the daemon fills one in.

## 3. Runs

TLC checks each within a few minutes. Violation runs state what a document of the
repository says and show that the code does otherwise.

| run | question | result |
|---|---|---|
| `ref_store` | idempotency, snapshot, chain, refinement of `RefLog` | holds |
| `daemon_clients` | with saves that succeed: agreeing retries, one policy per epoch, no equivocation, refinement of `ExactlyOnce` | holds |
| `daemon_failing_saves` | with saves that may fail: can start, branches keep commits, refs implement `RefLog` | holds |
| `daemon_graph` | with saves that succeed: refs on disk name objects on disk | holds |
| `push_race` | two helpers, one deletes what the other pushes, while saves fail, the policy changes and the daemon crashes: refs stay complete, and "ok" means the swap was committed | holds |
| `daemon_stores` | the other stores of the daemon, with saves that fail and restarts: what was confirmed stands, files load, available and numbered right is readable | holds |
| `clients_and_peers` | shards over operators, one repair and two at once, clones and fetches, packs, sockets; nothing stops halfway, repairs and requests end; the socket implements `OneAtATime` | holds |
| `fetch_again` | a repository keeps the history of the refs it fetched | violated: every fetch writes over the one pack file |
| `unsigned_retry` | retry is answered with the original receipt | violated: the daemon fills in the current epoch, part of the fingerprint |
| `log_after_crash` | one checkpoint per sequence number | violated when saving the refs failed |
| `missing_history` | a branch's whole history is held | violated: older commits are not looked at |
| `push_again` | "ok" means the ref moved | violated: A to B, back to A, to B again reuses the transaction id |

The runs that hold under "saves succeed" do need it. With `SaveMayFail = TRUE`
TLC refutes `SignedRetriesAgree` (a retry answered from memory, forgotten by the
crash), `EpochNamesPolicy` and `LogFollowsPolicy` (an epoch counted again from the
file) and `DurableRefTargets` in `MCDaemonGraph` (an object that only memory holds is
pushed to, and only the ref is saved). `log_after_crash` stands for this family
of one cause: memory changes before the save that may fail. In `push_race` saves
do fail, and `DurableRefTargets` holds, because the helper gives up at the first
object that was not saved.

Bounds and why they suffice.

* `MCRefStore`: two refs, two values, three ids, seven updates among which each
  id has at least two operations. The log grows to three entries at most, since
  an id commits at most once; that is enough for a chain with a middle, and for
  any order of commit, conflict, retry, reuse, save and restart.
* `MCDaemonClients`: one tag and one object; all of the interest is in the
  policy. Five requests over epochs 0 to 2, a reused id, a deletion, a forced
  update and an unsigned one; `MaxEpoch = 3` is reached, so saturation happens.
* `MCRefDaemon`: four commits in a fork (`c1 <- c2 <- c3`, `c1 <- c4`), uploaded
  in any order, with contending updates of equal and different ids. History of
  depth two separates "the parents are there" from "the history is there".
  The failing instance is the smaller of the two because it also checks the
  refinement, which tries every swap in every state.
* `MCPushHelper`: two helpers and a history of three commits, of which the first two are
  pushed and their trees differ, so that the older one can be missing alone; the third is
  where the pushed branch may have moved on to when its objects are listed. Each helper may push again any
  number of times: with a push and a deletion the branch goes there and back, and
  transaction ids are reused. The log is bounded by the transaction ids, of which
  there are finitely many for finitely many commits. One policy change suffices
  for an epoch that is over when the update arrives.

* `MCDaemonStores` and `MCClientsAndPeers` hold several components that share no
  state: no command touches two of these stores. A behaviour therefore has a
  `focus`, the one component that takes steps, and every property is about one
  component. Interleaving them would multiply states and show nothing more.
* `daemon_stores`. Objects: two, so that one can be whole while the other is
  broken and `OBJECT_REPAIR all` stops between them; two policies, of two and three
  shards, since a reported shard must be able to be one of several; `Lease = 1` and
  `MaxTime = 1`, so that a lease ends while a renewed one runs;
  `MaxSegments = 2`, one for each object, or two for one, which `SegmentsStand` would
  see; pruning at time 1, which is ahead of time at 0 and due at 1. Three signed leases are
  offered on the first segment: one that says of shard 1 what the daemon would, over the lease
  of the only node of its region; one of a later epoch in its place, without the storage
  role; and one that gives shard 2 the index of shard 1, which is refused where a
  policy of two shards is in force and makes two shards of one where shard 1 has
  another lease. Only the second object loses shards, one or too many: either object may be
  the first segment, so that the leases are about an object that loses some and about one that does not.
  With these every premise and exception of `PromisedIsReadable` and
  `AvailabilityLasts` is met: TLC refutes each of the two without any one of them, for some in
  an instance with other offers or losses of the same kind.
  Grants: three epochs, two keys for one slot, two revocations of one
  device in any order. Accounts: two names for two accounts, two sessions, an update
  that fails at its third field. Collaboration: `MaxEvents = 5`, the four samples and
  one more, over two seconds, one of them signed for a time of its own, and the same
  event sent twice. Network:
  a clock that is set to any of three values, two announcements of one peer.
* `clients_and_peers`. `ShardTransfer`: five peers of four operators in two regions,
  a segment of 2+1 shards, so that every placement leaves a spare peer and one is of
  an operator that is used already. A single repair meets two faults
  (`MaxFaults = 2`), which is one more than the parity, and an hour that passes; two repairs at once meet one
  fault in one hour. `PackSize = 3`: all packs whose entries have no base, an offset or
  an id as base, including circles, missing bases and bases that come later; three
  entries are the fewest with a circle that an innocent entry leads to, and with a search
  that begins an entry which searches in turn. `MaxMoves = 4`:
  the daemon gets two branches, object and ref each. Two connections: one that stops or panics, one
  that waits.
* `fetch_again` needs `MaxMoves = 5`: three objects that arrive and two refs.

`MaxEpoch` stands for `u64::MAX`. Time (`clock`, `time`, `second`, `now`, `hour`), the
numbers of segments, sessions, events, faults and daemon changes are bounded as
named above; the rest needs no bound: sequence numbers are bounded by the ids, and
`sequence` in the code cannot reach 2^64.
No symmetry is used. The type invariants of the daemon, its clients and the helper are in no
run, nor is `AnswersAreDurable`, which `AnsweredOnce` covers; they are theorems. Deadlock is checked in
every run. In `clients_and_peers` the system does stop, where repairs are over, a
pack was read, copies are made or all connections are closed: there, and nowhere else,
the instance lets it stand (`Finished`).

Fairness. Most properties are safety properties and need none. Two are not:

* `RepairEnds` assumes weak fairness of each repair's steps: a repair is one function
  call, and the transport answers every request, if only with an error. Nothing
  is assumed of the peers, the clock or the other repair.
* `EveryRequestEnds` assumes weak fairness of each connection's thread, which the
  operating system schedules. Nothing is assumed of clients. Each connection asks for the mutex
  once, and each holder gives it back in one step, so weak fairness of the
  thread suffices: with finitely many connections it cannot be passed over forever.

What the runs taught about the code, besides the findings:

* `RenewedLeasesAreHeld` needs its premise. `repair_shards_via_transport` renews
  every lease it was given. If a provider's lease had run out it was not audited,
  and if two providers were given for one shard only one is replaced; either way it
  may announce a shard that nobody holds.
* An object's own leases may not be enough to make it available again. A signed lease
  in the file is loaded before the daemon publishes its own, and if its epoch is the
  same or a later one it keeps its place though it has run out (`publish`,
  `gitmesh-network/src/lib.rs:975`), so that after a restart the shard has no
  running lease. docs/NETWORKING.md:86 asks that unsigned updates of the same epoch
  do not replace signed ones, and does not speak of signed ones that are over.
  `AvailabilityLasts` has this as a premise (`OwnLeasesQualify`).
* The availability report compares no index with its content id
  (`gitmesh-repository/src/lib.rs:178`) and counts distinct indices
  (`gitmesh-network/src/lib.rs:1243`). Two signed leases that give shards other indices can
  therefore make an object available that has too few shards left to be read.
  `PromisedIsReadable` has as a premise that leases number the shards as they are
  (`NumberedRight`); the daemon's own always do (`OwnSpeakTrue`).
* `NETWORK_PROVIDER_PUBLISH_SIGNED` accepts what is signed and runs, whatever it says. One
  record on a stored segment with a content id that is not held makes the report an error
  (`gitmesh-repository/src/lib.rs:178`), and one without the storage role, in the place of a local lease,
  takes its shard out of the count: either ends the object's availability. `AvailabilityLasts` names
  both as exceptions (`Spoils`). No document says how far a signed record is to be
  trusted, so neither is called a finding.
* A provider that lost its shard ends the whole repair (`RepairFetch`), though
  another provider holds a copy, until its lease is over.
* `NodeStore` has states whose file `from_snapshot` refuses: a peer that was learned
  with an expiry and is registered by hand after it. `NodeRestart` has the check as its guard.
* `resolve_pack_entry` leaves an entry marked after an error, so that a pack with a
  delta before its base may be refused although it is sound. `SoundPacksResolve`
  promises acceptance only for packs whose bases come first, as git writes them. A pack has each object once in the model: which of
  two equal entries a delta by object id finds is not looked at.
* A second batch of fetch commands in one helper process installs nothing and is
  reported done; git's own check after the fetch is what keeps its refs right.

## 4. Proofs

Every property of a passing run is also a theorem, for every value of the constants
under the assumptions named here, but for the two that speak of liveness (end of this section). TLC evaluates
every assumption on the constants of the runs.

### The ref store: `RefStoreProofs`, over the lemmas of `RefOpsProofs`

For every set of refs, object ids, transaction ids, signers and updates:

| theorem | statement |
|---|---|
| `TypeCorrect` | `Spec => []TypeOK` |
| `SnapshotsLoad` | `Spec => []SnapshotLoads`: a restart is never refused |
| `AnswersAlwaysStand` | `Spec => []AnswersStand`: an answer given is the answer to every retry |
| `EachAppliedOnce` | `Spec => []AppliedOnce`: logged exactly when committed, once |
| `CheckpointsAlwaysVerify` | `Spec => []CheckpointsVerify`: the chain verifies, the file is a prefix |
| `ImplementsRefLog` | `Spec => RefLogSpec`: the refinement |

Assumptions: `NoOid` is no object id, `NoReceipt` is no receipt entry, `Updates`
has its type.

Argument. The invariant is `ConsistentStore`, the very check that
`from_snapshot` makes: every log entry has its sequence number, a matching
receipt, the old value the previous checkpoint holds, and a checkpoint that can
be recomputed. It is inductive because an update appends one entry that is
consistent (`CommitAddsEntry`) and changes no receipt an older entry relies on
(`CommitKeepsEntry`: the new id is not known, hence not in the log,
`LoggedIsKnown`). `AppliedOnce` follows from the same two facts. For the
refinement, the state must also say that each ref is what its last logged write
made it (`HeadsAre`) and that the file's log is a prefix of the memory's
(`PrefixOf`); with these in `LogInv` a commit is a `Commit` of the log, a
save a `Persist`, a restart a `Crash`, and all else stutters.

What an operator of `RefOps` does to any store is stated in `RefOpsProofs`, so that the
daemon and the helper need not repeat it: `ApplyUpdateConsistent`, `ApplyUpdateOnce`,
`ApplyUpdateHeads`, `ApplyUpdateExtends`, and for the refinement `ApplyUpdateIsCommit`,
`RejectIsStutter` and `PrefixIsCut`.

### The daemon and its clients: `RefDaemonProofs`

For every repository, graph of commits, set of devices and set of requests:

| theorem | statement | saves |
|---|---|---|
| `DaemonTypeCorrect` | `Spec => []TypeOK` | may fail |
| `DaemonAlwaysStarts` | `Spec => []DaemonStarts`: the ref file loads | may fail |
| `DaemonImplementsRefLog` | `Spec => RefsAreLog`: the refs implement `RefLog` | may fail |
| `BranchesAlwaysKeepCommits` | `Spec => []BranchesKeepCommits`: no commit is lost without force | may fail |
| `SeenTypeCorrect` | `ClientSpec => []SeenTypeOK` | may fail |
| `RefTargetsAreDurable` | `Spec => []DurableRefTargets`: refs on disk name objects on disk | succeed |
| `AnswersAlwaysDurable` | `ClientSpec => []AnswersAreDurable`: no answer is taken back | succeed |
| `SignedRetriesAlwaysAgree` | `ClientSpec => []SignedRetriesAgree`: signed retries get the answer again | succeed |
| `EpochsAlwaysNamePolicy` | `ClientSpec => []EpochNamesPolicy`: an epoch names one policy | succeed |
| `LogAlwaysFollowsPolicy` | `ClientSpec => []LogFollowsPolicy`: entries are authorised, in the order of epochs | succeed |
| `NeverEquivocates` | `ClientSpec => []NoEquivocation`: one checkpoint for each sequence number | succeed |
| `DaemonAnswersOnce` | `ClientSpec => AnsweredOnce`: to its clients the daemon is an `ExactlyOnce` register | succeed |

Assumptions: those of `RefOps`; `CommitsAssumption` and `GraphAssumption` (commits are
objects, trees have no commits; the graph need be neither finite nor acyclic);
`DaemonAssumption`, the types of the requests. The last seven theorems assume
`~ SaveMayFail`, without which TLC refutes them (section 3).

Argument. Every step is reduced to what it does to refs and file (`RefsStep`): an update
that is applied, with the file following or not, a restart, or neither. With saves that fail,
memory *and* file are sound stores and the file is a prefix of the memory
(`RefsInv`); the statement about memory alone is not inductive, since a
restart takes the file. `HistoryInv` says of both that every earlier value of a branch
which has not been forced or deleted since is an ancestor of each later one
(`PairsKeep`) and of the tip (`TipsKeep`): the daemon validates an update
against the value that the client expects, and the compare-and-swap makes that the
tip. With saves that succeed, memory equals file between commands (`MemoryIsFile`),
and each property has its own strengthening: `TargetsHeld` (the target of every ref
is validated by the objects held, of which there are only ever more),
`RepliesHold` (what was answered is what the receipts record), `SignedRepliesHold`
(the answer to a signed request is what preflight gives for it), `EpochsInv` (no policy
that was in force has a later epoch than the current one), `LogOrdered` (the log's
epochs ascend to the policy's), `ShownInChain` (a checkpoint that was shown is in the
chain at its number). For the register, memory equal to the file makes a restart a stutter; an
update that is applied adds exactly its own receipt (`ApplyUpdateDecides`) and is a `Decide`
(`AppliedIsDecide`), one whose id is known is a `Repeat` (`RetriedIsRepeat`), and every
other command, a change of policy among them, leaves refs, receipts and answers alone.

### Pushes: `PushHelperProofs`

For any number of helpers and pushes, killed anywhere, with a daemon whose saves may fail:

| theorem | statement |
|---|---|
| `HelperTypeCorrect` | `PushSpec => []HelperTypeOK` |
| `PushesImplementRefLog` | `PushSpec => RefsAreLog` |
| `PushesKeepCommits` | `PushSpec => []BranchesKeepCommits` |
| `PushedRefsAreComplete` | `PushSpec => []RefTargetsComplete`: the whole history is held |
| `PushedTargetsAreDurable` | `PushSpec => []DurableRefTargets` |
| `OkAlwaysCommitted` | `PushSpec => OkWasCommitted`: "ok" is said of a logged swap only |

Assumptions: those of the daemon, and `PushAssumption` (types, and that every id
the helper makes is a transaction id). Nothing is assumed of how names are sanitised: that two
refs may share an id is covered, and "ok" is still said of a committed swap of the
helper's own.

Argument. A step of a helper is a step of the daemon (`PushNextIsDaemonStep`), so its
invariants hold as they are. What is proved here is what the daemon alone does not
give: `PushInv` says that what a helper need not send any more is in the object *file*
(`SentIsSaved`), and that every ref, in memory and in the file, has its
closure in the object file (`TargetsComplete`). The daemon accepts a branch with
history missing (`missing_history`) and drops what it did not save; refs are
complete all the same, because a helper asks for the update only when everything
was confirmed and an object is confirmed when it was saved. What is listed for sending may
belong to a later commit, but has the closure of the one that is pushed (`MovedOnType`). This is the argument that
the conjunction of two weak parts is strong, and it needs no bound on history.

### Stores of a daemon: `AccessProofs`, `DaemonStoresProofs`

Whether or not saves may fail, for any repositories, devices, keys, users and so on:

| theorem | statement |
|---|---|
| `GrantsTypeCorrect` | `GrantsSpec => []GrantsTypeOK`: in particular a revocation is from epoch 1 on |
| `RevocationsStand` | `GrantsSpec => []RevokedStayOut`: a confirmed revocation is never undone |
| `GrantsStand` | `GrantsSpec => []GrantsKept`: a confirmed grant is in memory and file, one for each slot |
| `AccountFileAlwaysLoads` | `AccountsSpec => []AccountFileLoads`: no command writes a file its loader refuses |
| `SessionsAreHonoured` | `AccountsSpec => []SessionsHonoured`: what clients were told of their sessions holds |
| `PromisedAlwaysReadable` | `StorageSpec => []PromisedIsReadable`: what may be named by a ref can be read, where its leases number the shards as they are |
| `SegmentsAlwaysStand` | `StorageSpec => SegmentsStand`: a saved object keeps its segment |
| `SignedLeasesAlwaysStand` | `StorageSpec => SignedLeasesStand`: no unsigned or older record replaces a signed one |
| `AvailabilityAlwaysLasts` | `StorageSpec => AvailabilityLasts`: nothing but time, early pruning, lost shards or a signed lease that spoils it ends availability |
| `ExpiringAlwaysStay` | `NodeSpec => ExpiringPeersStayExpiring` |
| `EventFileAlwaysLoads` | `CollabSpec => []EventFileLoads`: no event twice |
| `NumbersAlwaysStand` | `CollabSpec => []NumbersStand`: a number that was answered stands |

Assumptions: `GrantAssumption`, `AccountAssumption`, `StorageAssumption`,
`LeaseAssumption`, `NodeAssumption` (types; a storage policy is one that
`StoragePolicy::new` accepts, with a local node for each shard; a signed lease may say anything of the right type; a lease
has a length) and
`CollaborationAssumption` (there are four samples, as in the code).

Argument. Most of these say that what was confirmed is true of memory *and* of
the file, since a command changes the one, a save makes the other follow or not
(`SavingIsOldOrNew`), and a restart goes back.

* Grants: `RevocationsUpheld`, `GrantsInBoth`. A revocation keeps the smaller epoch, a
  grant replaces only its own slot, and clients are then no longer promised the
  grant it replaced.
* Accounts: memory and file each pass the loader's checks, with session ids that
  were issued before (`SoundStore`, in `AccountsInv`), so that a new id is new; on
  top of that, `SessionsInv`. Neither says anything of the clock.
* Objects: `StorageInv`. Shards are among those the policy cuts, a segment's
  number was made before, and a durable object has shards enough. Of the directory, in memory
  and file: there is one lease for each shard and peer (`OneEach`), and the daemon's
  own, being unsigned, say of their node what it is (`OwnSpeakTrue`) and of a segment
  in use a shard it was cut into (`OwnFit`). A segment that is new has no records of the
  daemon yet, which is what makes old ones harmless. Of what others signed nothing is
  known but its type.
  The actions are reduced to what they do to store, leases, files and clock
  (`StorageStep`); the action properties follow from that form.
  `PromisedAlwaysReadable`: where leases number right, distinct indices are distinct shards
  held, so as many as the policy asks for are enough to read. `AvailabilityAlwaysLasts`: each lease
  that counted is still there, or one on the same shard that counts for no
  less took its place (`Covers`), and records covered so satisfy the requirement if the first did
  (`CoveringSatisfies`); after a restart the covered ones are the daemon's own
  (`OwnCountForOwn`, `OwnRun`).
* Events: `CollabInv`. The file is the beginning of the log and the log has no event
  twice; events are only appended, so the number of an event, which counts those
  before it in its repository, is the same in file and memory.

### Around the stores: `ClientsProofs`, `ShardTransferProofs`

| theorem | statement |
|---|---|
| `OnlySoundAlways` | `SocketSpec => []OnlySoundRuns`: no command runs on a poisoned state or a broken request |
| `SocketIsSerial` | `SocketSpec => CommandsOneAtATime`: the socket implements `OneAtATime` |
| `CopiesAlwaysWhole` | `CloneSpec => []CopiesAreWhole`: a copy has the history of its refs |
| `OperatorsAlwaysFailAlone` | `TransferSpec => []OperatorsFailAlone`: gone operators and faults cost one shard each |
| `RepairedAlwaysWhole` | `TransferSpec => []RepairedIsWhole`: a repair that ends well while nothing failed left every shard somewhere |
| `RenewedAlwaysHeld` | `TransferSpec => []RenewedLeasesAreHeld`: and its leases name those who hold them |
| `RepairsAlwaysForward` | `TransferSpec => RepairGoesForward`: every step of a repair brings it further |
| `SoundPacksAlwaysResolve` | `PackSpec => []SoundPacksResolve`: a pack is accepted only if all its entries can be built, and always if bases also come first |
| `ParsingAlwaysForward` | `PackSpec => ParsingGoesForward`: every step of the parser brings it further |

Assumptions: `SocketAssumption`, `CloneAssumption` (a commit is greater than its
parents, so that there is no circle), `TransferAssumption` (finitely many peers, at
least one shard of each kind, an epoch of its own for each repairer), `PackAssumption` (a pack
has a number of entries).

Argument.

* Socket: `SocketInv`. A thread that runs a command holds the mutex and the state is not
  poisoned, so there is one at most; a request that runs has come in full.
  For the refinement, `ToldAtTheEnd` adds that a client is told something only when its
  connection ends. So a step of a thread that ends it is a `Perform` if the command ran, since none
  ran before it that panicked, and a `Refuse` if it is told of an error; all others stutter.
* Copies: `CloneInv`. The index of a pack has the parents of all it has, a new bare
  repository gets its refs last, and what the helper advertised is in the pack it can
  get. `HistoryWithin` then gives the history: a set with the commit and the parents of
  its members has it.
* Placement: every shard that was put is confirmed by the peer planned for it
  (`UploadConfirmed`), and shards lost after they were confirmed and peers that are
  down are no more than the faults (`LossCounted`). A missing shard is charged to
  its operator, its peer or its own loss. Each of the three charges is to one shard only, since
  the plan has one operator for each (`PlanOK`), and the pigeonhole principle gives
  the bound (`UploadSurvives`). That a planned peer exists for every shard is
  `NthExists`, about the n-th of a finite set of numbers.
* Repair: `RepairOK` says for each repairer, at each of its steps, what it knows of the
  shards: while it audits, that shards found valid are held; while it stores, that every
  shard it asked for is held or still a target (`TargetsLeft`). All is claimed only
  while no fault came since it began; other repairers, uploads and the clock take no
  shard from a peer (`Calm`, `RepairStays`). `LeasesAnnounced` says that a lease with a repairer's
  epoch at the directory is one of its providers; where each shard has one provider
  and all were audited, the peer that holds the shard is the one named.
* Forward: that a repair or the parser ends is not provable here, but the part of it that
  does not speak of fairness is. `Further` and `ParsingGoesForward` are measures that every
  step raises, none lowers, and that are bounded: the phases of a repair with the providers
  and targets left in each, and for the parser how far each call got. It is left to TLC that some
  step is always possible (`RepairEnds`, and for the parser the check of deadlock).
* Packs: `PackInv` says that what is resolved is sound, as `Sound` is closed
  (`SoundIsClosed`), and that all entries the loop went past are resolved. That gives one
  half. The other needs to know that nothing of a good pack is ever left marked:
  `InOrder` says that all bases of an entry the loop is at are resolved already and known, so
  that it searches for none, one call runs at a time, and that call cannot fail.

### Only model-checked

* `RepairEnds` and `EveryRequestEnds`: liveness under fairness is out of the prover's
  reach, as is `ENABLED`, and with it that nothing stops halfway. What of them is a safety
  property is proved (`RepairsAlwaysForward`, `ParsingAlwaysForward`, `OnlySoundAlways`).

Histories are not computed by recursion: `Within`, `Ancestors`, `Closure` and
`HistoryOf`, like `Sound`, are the least set that is closed under the links, so facts about them hold for
every graph, finite or not.

## 5. What is not modelled

* Cryptography and byte formats: a hash is what it commits to, a signature a fact,
  a malformed text a value. Device certificates and key wrapping are pure functions.
* Failures of the disk beyond "the save failed" and "the old file or the new".
  `save_to_path` does not sync; a rename that survives a power cut without its
  data is outside the model.
* Commands that only read, except where another component acts on what they
  read (`REF_GET`, `POLICY_SHOW`, `REF_LIST`, `PACK_GET`, `PACK_GET_REACHABLE`, `SESSION_AUTH`).
* A branch that is set back or elsewhere by another git process between the `rev-parse` and the
  `rev-list` of a push: its objects would then be listed from a commit that is not a
  descendant of the one that is pushed.
* `PACK_PUT` that stops midway. Its earlier objects stay in memory, as after an
  `OBJECT_PUT` whose save failed.
* The order in which `is_commit_ancestor` walks a history with merges: behind a
  missing commit it may fail before it finds the ancestor. `IsCommitAncestor`
  is when it can find it, `WalkMayFail` when it may not.
* Challenge audits (`challenge_shards_via_transport`) and signed publication over a
  transport: only tests call them, and they change no state that repair uses. Of the peers' role and protocol checks
  it is assumed that all of them are storage peers.
* `check-connectivity` of the remote helper, which git asks for only when it clones
  into an empty repository.
* The local list of repositories that `gm` keeps, and the web application, which
  keep no state that others use.
* Two stores at once. No command changes two of them, but for the objects and their
  availability, which are in one module; refs and objects are in `RefDaemon`.

## 6. Plan

In this order, the most important behaviour first:

1. *Done*: `RefOps`, `RefLog`, `RefStore`, their proofs, `PolicyOps`,
   `ObjectGraph`, `RefDaemon`, `DaemonClients`, `PushHelper`.
2. *Done*: `AvailabilityDirectory`, `ObjectStorage`, `ShardTransfer` (with placement),
   `NodeStore`, `KeyGrants`, `AccountStore` and their proofs, `CollaborationLog`,
   `CloneRepository`, `PackDeltas`, `DaemonSocket`.
3. *Done*: proofs about `RefDaemon`, `DaemonClients`, `PushHelper`, `ObjectStorage`,
   `NodeStore`, `CollaborationLog`, `CloneRepository`, `DaemonSocket` and `ShardTransfer`
   (section 4).
4. *Done*: the abstract promises to clients: `ExactlyOnce`, which `DaemonClients` implements, and
   `OneAtATime`, which `DaemonSocket` implements; `PackDeltas` without recursion, and proofs
   about it and about the progress of repairs.
5. `ObjectStorage` and `ShardTransfer` as one abstract promise, "what is announced can be
   read", which both implement.
6. Liveness of the push, with TLC: every push ends, and under no contention succeeds.

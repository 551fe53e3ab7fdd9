# m-ld-js, specified

TLA+ specifications of the engine of [m-ld-js](../src/README.md), a library for
live shared Linked Data: each *clone* of a *domain* holds the domain's graph as
a set of triples, writes to it locally, and exchanges operations with the other
clones over a publish-subscribe network, so that all clones converge.

Paths are from the root of the repository; source files are under
`src/src/`, with `engine/` short for `src/src/engine/`.

| To | run, in this directory |
|---|---|
| parse a module | `tlasany SuSet.tla` |
| model-check a run | `tlc -workers 2 -config SuSet_ops.cfg SuSetMC.tla` |
| check the proofs | `tlapm SuSet_proofs.tla`, and likewise the other `*_proofs.tla` |

`PROJECT.json` lists the runs, the source lines of each definition, the hazards
that the properties are for, the mutants that show that each property can be
broken, the findings and the theorems.

Contents: 1 the system, 2 the modules, 3 the runs, what they show and the
findings, 4 the proofs, 5 what is not modelled, 6 the plan.

## 1. The system

### Components

| Component | State it keeps | Operations | Made correct by |
|---|---|---|---|
| **SU-Set dataset** `engine/dataset/SuSetDataset.ts`, `engine/ops.ts`, `InterimUpdatePatch.ts` | the user graph, the TIDs table, the journal's state, all in one key-value store | `transact`, `apply`, `takeSnapshot`, `applySnapshot`, `resetClock`, `saveClock` | the same operations give the same graph at all clones; graph and TIDs agree; adds win over concurrent deletes |
| **TIDs store** `engine/dataset/TidsStore.ts` | a key for each triple, with the set of transaction IDs that inserted it; a cache of those sets | `findTripleTids`, `findTriplesTids`, `commit` | a transaction finds what is stored; a patch is applied whole or not at all |
| **Dataset transactions** `engine/dataset/index.ts` | the `txn` lock of the store | `transact` (prepare, write one batch), `saveAll` | one transaction at a time; a batch is atomic |
| **Clocks** `engine/clocks.ts` | none; immutable tree clocks, whose leaves are process identities, and the global clock with its latest transaction IDs | `ticked`, `forked`, `update`, `anyNonIdLt`, `hash` | identities are never shared; the order of clocks is causal order; a hash is of one operation |
| **Message service** `engine/messages.ts` | the local time; the ordering buffer | `event`, `join`, `receive`, `deliver`, `reconsider` | causal delivery; the buffer empties |
| **Dataset engine** `engine/dataset/DatasetEngine.ts` | the clone's lifecycle: message service, liveness, whether it is new, ordering buffer, remote operations | `initialise`, `connect`, `newClock`, `snapshot`, `revupFrom`, `acceptRemoteOperation`, `write`, `close` | each operation is applied once, in order, and never lost; recovery ends |
| **Remote operations** `engine/dataset/RemoteOperations.ts` | period, and whether operations flow | `attach`, `detach`, `nextPeriod` | rev-ups before what is published; no operation of an earlier connection is applied; outdated until the last rev-up is delivered |
| **Journal** `engine/journal/` | entries and operations by tick, the journal's time and global clock | builder `next`/`commit`, `applicableOperation`, `latestOperations`, disposal | each operation in one place; rev-up gives what the requester lacks, neither less nor more |
| **Journal clerk** `engine/journal/JournalClerk.ts` | a queue of entries, the fusion in progress, save points | `processEntry`, `checkpoint`, fusion `next`/`append`/`commit` | fused entries mean what the entries meant, to whoever reads meanwhile |
| **Causal operations** `engine/ops.ts` | none | `fusion`, `cutBy`, contiguity and overlap | fusion and cutting commute with application |
| **Locks** `engine/locks.ts` | for each key, the running shared tasks and the chain behind them | `share`, `extend`, `acquire`, `exclusive` | exclusion; no task waits for ever |
| **Publish-subscribe remotes** `engine/remotes/PubsubRemotes.ts` | requests sent and their timers, acknowledgements, notification streams, liveness | `newClock`, `snapshot`, `revupFrom` as requests; replies; publication; presence | an answer is to the question; everyone is asked; streams are complete; all ends |
| **State engine** `engine/StateEngine.ts`, `engine/AbstractMeld.ts` | the state lock, followers, the live and status values | `read`, `write`, `follow` | followers see each update once, in order |
| **Liveness and status** `DatasetEngine.ts`, `AbstractMeld.ts` | live, status, the pause of output | `setLive`, `decideLive`, `createStatus` | a clone knows whether there are others; output waits for recovery |
| **Transports** `mqtt/`, `socket.io/`, `ably/`, `wrtc/` | presence, rate windows, peer connections | presence `join`, `leave`, ghost, will; `onPresenceChange` | presence tells who can be asked, in the end |
| **Lists** `engine/lseq.ts`, `constraints/DefaultList.ts` | positions and indexes of the items | `between`, `rewriteIndexes`, `check`, `apply` | indexes follow positions; no item is lost; what is asked for is shown |
| **Constraints** `constraints/` | none | `check`, `apply` | constraints hold in every clone without undoing convergence |
| **Subject updates** `api.ts`, `engine/updates.ts` | none; they change the app's own copy | `updateSubject` | the copy follows the graph |
| **json-rql** `engine/dataset/Jrql*.ts`, `engine/Subject*.ts`, … | none between transactions | query and result translation | – |
| **Encoding, security** `engine/MeldEncoding.ts`, `security/` | none | serialisation | – |

### How they interact

* A *local write* takes the `state` lock exclusively, shares the `live` lock, then
  takes the store's `txn` lock. The engine ticks the clock; the SU-Set finds the TIDs of the
  deleted triples, patches graph and TIDs, adds a journal entry, and saves the
  local time and the global clock, in one batch. The operation is then published. It
  carries its time, its patch, and its *predecessor*: the last public tick of
  this process.
* A *remote operation* comes by live publication, by rev-up (a collaborator
  reads its journal), or forwarded. The message service either ignores it
  (already seen), buffers it (a third process has ticks that we have not seen),
  rejects it (its predecessor is missing, so re-connect), or joins its time and
  ticks twice: once for the operation and once for what the local constraints
  may add to it. Delivery may free operations in the buffer; they are all
  applied, in order, under one exclusive hold of the `state` lock.
* A *newcomer* asks any clone for a clock. That clone forks its own identity,
  saves its half and replies with the other. It then asks any clone for a
  snapshot, which is the global clock and the data in batches; operations
  continue meanwhile and are replayed after.
* A *recovery* follows whenever the remotes become live. The clone takes the
  state lock (shared) and the live lock, stops its output, asks any clone for a
  rev-up, and failing that for a snapshot; attaches the recovery's updates, then
  whatever is published; re-emits its own operations that the collaborator
  lacks; and lets its output go.
* A *request* goes to one peer after another, under one message identity, with
  a timeout for each. A reply with a stream is acknowledged when the consumer
  has subscribed, and only then the peer begins to send notifications.
* The *clerk* fuses journal entries in the background, at save points.
* *Presence* is kept by the transport, as a retained message per client (MQTT)
  or a room of the server (socket.io). From it comes whether the remotes are
  live: unknown, none, or some. The engine's own liveness is published as presence.
* A *list constraint* makes positions for the items that the app inserts at
  indexes, and keeps the indexes, which every clone has for itself, in step.
* A *restart* re-creates the message service from the journal's saved time.

### What is hard

Delivery in any order and more than once; ticks which are internal to a clone
and which a crash takes back; identities that divide while operations are under
way, so that clones know the identity tree to different depths; operations
that come fused and overlap what a clone has; snapshots that are read while the
data change; a journal that is fused while it is read; recoveries that overlap
with operations of an earlier connection and with the clone's own; late
replies; presence that is older than the connection; asynchronous steps that
interleave under locks that cover some of them; caches. `hazards` in
`PROJECT.json` has each at its line, with the properties that are for it.

## 2. The modules

| Module | Models | Extends, instantiates |
|---|---|---|
| `SuSet` | the replicated set, with clocks as vectors over a fixed group of clones | |
| `SuSetMC` | constants; the three settings of its run | `SingleValued` |
| `SuSet_proofs` | theorems | `SuSet`, `TLAPS` |
| `TidTable` | abstract: a table that is patched whole or not at all | |
| `TidsStore` | the store and its cache in asynchronous steps | `TidTable` (refinement) |
| `TidsStoreMC`, `TidsStore_proofs` | constants; theorems | `TidsStore` |
| `TreeClock` | tree clocks as functions on paths | |
| `TreeClockCode` | the recursive methods of `clocks.ts`, over tree nodes, to compare `TreeClock` with | `TreeClock` |
| `Clones` | joining, identities, and ordered delivery, with tree clocks | `TreeClock` |
| `ClonesMC` | constants; the domain of three clones that have joined; the comparison of clocks | `Clones`, `TreeClockCode` |
| `Snapshots` | one snapshot, its data read while operations go on | |
| `SnapshotsMC`, `Snapshots_proofs` | constants; theorems | `Snapshots` |
| `Locks` | the lock manager, as operators on one lock | |
| `Gates` | who holds the two locks of a clone, and what they see | `Locks` |
| `Gates_proofs` | theorems, and lemmas about locks as queues | `Gates`, `TLAPS` |
| `SingleValued` | the single-valued constraint, working on the replicated set | `SuSet` |
| `SingleValued_proofs` | theorems | `SingleValued`, `SuSet_proofs` |
| `Operations` | causal operations: contiguity, fusion, cutting | |
| `Journal` | the journal of a clone, its clerk, and a rev-up that is read from it | `Operations` |
| `Remotes` | requests to peers, and the streams that follow | |
| `Recovery` | a clone's recovery, and its output and input meanwhile | |
| `Presence` | presence, liveness, and the engine's decision | |
| `Lseq` | positions of list items, as operators | |
| `Lists` | a list that two clones edit, with the constraint's rewriting | `Lseq` |
| `GatesMC`, `JournalMC`, `RemotesMC`, `RecoveryMC`, `PresenceMC` | constants | the module named |
| `Remotes_proofs`, `Recovery_proofs`, `Presence_proofs` | theorems | the module named, `TLAPS` |

How they fit. `SuSet` assumes of the table what `TidTable` says, and
`TidsStore` is shown to implement that. `SuSet` has a fixed group, so that
clocks are vectors and everything about the *data* can be proved;
`Clones` has the data reduced to sets of operations, and the clocks in full.
`Snapshots` looks at the data of one snapshot, which `Clones` takes as one step.
`Gates` is about one clone, and says why the others may take a write, the receipt
of an operation or the beginning of a snapshot as steps that do not overlap.
`SuSet` and `Clones` let every operation reach every clone at any time: how it
gets there is in `Recovery` (which of them, in which order, with what is
published and what is held back), in `Journal` (what a rev-up is made of) and in
`Remotes` (whether the answer and its streams arrive). `Recovery` has a boolean
for whether there are remotes; `Presence` is where that comes from.
`SingleValued` composes the set with one of the constraints that the code has.
`SuSetMC` has three settings: two clones under any constraint, two under that one, and
three clones without any.

### SuSet

| In the module | In the code |
|---|---|
| `graph[c]` | the quads of the default graph |
| `tids[c]` | `TidsStore`, as pairs of a triple and a TID |
| `time[c]` | `MessageService.localTime` |
| `journal[c]` | the journal state: `time` and `gwc` of `JournalState` |
| `ops` | operations journalled by their source; whatever has been journalled can reach any clone at any time, live or by rev-up, in any order, repeatedly. It is never removed: loss is an operation that does not reach a clone yet |
| `Transact`, `TransactNothing` | `DatasetEngine.write` with `SuSetDataset.transact`; with nothing to save, or failing, after its tick |
| `Apply` | `acceptRemoteOperation`, `MessageService.deliver` and `SuSetDataset.apply`: both patches, the constraint's operation and its journal entry |
| `Restart` | the process stops; the message service is made again from the journal |

A transaction is one step since the `txn` lock and the single batch make it
so. A constraint is any patch from `Assertions`; the code lets constraints see
the update and the state, so that any choice is possible. An operation is one
transaction (fused operations belong to the journal).

`SingleValued` replaces "any patch" by what the code's constraint does: `Affected` are
the values that an interim update leaves subjects with, `Checked` refuses a local
transaction, `Mended` deletes all but the greatest value after a remote one.

### TidsStore

Each `await` of `TidsStore.ts` divides two steps. The transaction goes `idle`,
`preparing` (it has found TIDs), `loading` (commit waits for sets that the
cache lacks), `writing`, and back; preparation and the batch may fail.
`StreamRead` and `StreamLoad` are the two halves of a read by a snapshot, which
does not hold the `txn` lock. Cached sets are mutated in place by commit, as in
the code.

### TreeClock and TreeClockCode

A tree clock is a function from paths (sequences of 0 and 1) to ticks; the
identity of a process is a path to a leaf. `TreeClock` has an operator for each
method in use, without recursion. `TreeClockCode` transcribes the recursive
methods of `TreeClock` in `clocks.ts`; `ClonesMC` compares the two on the clocks
that clones really have, those of clones and operations that have forked differently
among them.

### Clones

| In the module | In the code |
|---|---|
| `phase[c]` | no clock; `requestClock` done and snapshot not yet; live |
| `time[c]`, `buffer[c]` | `MessageService` |
| `saved[c]`, `gwc[c]` | the journal's time and global clock |
| `applied[c]` | the operations in the dataset |
| `offers` | `newClock` replies on their way, which may be lost |
| `helper[c]` | who answered `newClock` |
| `NewClock`, `ResetClock`, `Snapshot` | `DatasetEngine.newClock`; `initialise` with `SuSetDataset.resetClock`; `processSnapshot` of a newcomer |
| `Write`, `Receive` | `write`; `acceptRemoteOperation`, with `receive`, `deliver`, `reconsider` and the journal entries of all that is taken |
| `Discard` | re-connection after the network timeout, which empties the buffer |
| `Restart` | as above |

`OneHelper` says whether a newcomer's clock and snapshot come from the same
clone. The code does not see to that, and one finding is what follows if they
do not; with it, the other properties hold.

### Snapshots

The iterator of quads is opened under the state lock, with the global clock, and
does not see later writes; the TIDs of each quad are read later, and `Insert` writes one of them (`TidsStore.commit`). `Apply` is any
operation at the collaborator, `Take`, `Send`, `Insert`, `Complete` are the
snapshot, `Update` the operations since.

### Locks and Gates

A lock is a queue of batches of tasks. The first batch runs, once started; the last is
what `locks.ts` calls the head. `Share` joins the last batch unless that is exclusive;
`Extend` adds to the running one, exclusive or not; `Turn` is the settling of a batch
and the start of the next, which are promise callbacks in the code and so steps of
their own.

| In `Gates` | In the code |
|---|---|
| `state`, `live` | the two keys of the `LockManager` |
| `data`, `current` | the dataset, as the number of its changes; the `EngineState` that `newState` made last |
| `pc`, `scope`, `reads`, `heard`, `closed` | how far each procedure, remote operation, request and decision is; for a procedure its state, the stages of its reads, what its handler has heard, and whether it was unsubscribed |
| `handling` | the handlers that `StateEngine.handling` waits for |
| `ReadProc` to `EndProc` | `StateEngine.read`, `write`, `follow` |
| `Read`, `OpenRead`, `Consume` | `DatasetEngine.read`: asked for with the state held; its query opened when the live lock is had; its results consumed. A describe holds the state to the end |
| `AskWrite`, `Write`, `NextState` | the `write` of a state, after `engine.handling`; `DatasetEngine.write`; `nextState` |
| `AcceptRemote`, `Apply`, `EndRemote` | `acceptRemoteOperation`, one at a time, each of which may take several from the buffer |
| `ShareState`, `AskLive`, `Collect`, `Collected`, `Reply` | `withLocalState` with `snapshot` or `revupFrom` |
| `ShareState`, `AskLive`, `NotConnected`, `Connected`, `ApplySnapshot`, `SetLive` | `decideLive` and `connect`, with a rev-up or a snapshot |

The app is what the API allows, with two reservations: a writing procedure has
consumed its results before it writes; and unless `Nests`, it does not make
the consumption of one read wait for another.

### SingleValued

All triples are of the one property, as pairs of a subject and a value. `SvTransact`
and `SvApply` are `Transact` and `Apply` of `SuSet` with what the constraint decides in
place of any choice: so every behaviour here is one of `SuSet`, and nothing that is
proved of `SuSet` can be broken by the constraint.
`constrained` says whether the domain declares the constraint;
if not, any other may be there, as in `SuSet`. `written` is a history: the operations that
applications made, to tell them from those that constraints add.

### Operations and Journal

There are two processes, the clone ("self") and a remote one, each with ticks,
the tick of its last fork, and what it has seen of the other: enough for every branch
of contiguity, fusion and cutting, which look at one process and at whether another
cause comes between.

| In `Journal` | In the code |
|---|---|
| `hist` | what was done: a history of single transactions, against which all that is stored is compared |
| `store` | the key-value store: `entries` by local tick, `prevs` and `ops` by TID (`journal/index.ts`), `gwc`, `start` and `time` of `JournalState`, and the dataset's TIDs, with a history of those not written (`lost`) |
| `tail`, `due`, `fusion` | the clerk's queue, whether a savepoint is due, the fusion in progress |
| `reader` | a collaborator's rev-up under way, as its receiver sees it |
| `Write`, `RemoteWrite`, `Fork` | transactions, with ticks skipped by those that turned out empty; `newClock` |
| `Receive` | `SuSetDataset.apply` with `applicableOperation`: any run of the remote's operations may come as one, as far as its clerk could have fused it |
| `ClerkEntry`, `ClerkCheckpoint`, `Checkpoint` | `JournalClerk.processEntry`, savepoints by count, by the administrator or the schedule; the fusion's removal and insertion of entries; disposal |
| `Written`, `Keeps` | which TIDs `TidsStore.commit` may write of an operation's, with and without their triple's set in the cache |
| `Snapshot`, `Restart` | `applySnapshot`; the process stops, and the clerk with it |
| `AskRevup`, `ReadEntry`, `EndRead` | `operationsSince`, one entry at a time while the journal changes |

### Remotes

| In `Remotes` | In the code |
|---|---|
| `present`, `recent` | the presence list, `recentlySentTo` |
| `req` | a call of `send`: whom it waits for, who has been tried with which result, and the acknowledgements that wait for `readyToAck` |
| `net`, `unwiring` | replies and acknowledgements on their way; replies in `onReply`'s `await` |
| `session` | at a peer: the request has come, is answered and waits for its acknowledgement, streams on some channels, or is over |
| `consumer` | the notifications that came to the consumer, per channel |
| `Ask`, `TimeOut`, `PublishFails`, `Reply`, `Unwired`, `Drop`, `Subscribe`, `Slow` | `nextSender` and `send`; `getResponse`; `onReply`; `consume` and `failIfSlow` |
| `Serve`, `Acked`, `AckTimeOut`, `Notify` | `onSent`, `getAck`, `produce` |

Replies may come late, or never (`net` need not be emptied), and from earlier requests; peers
leave and join.

### Recovery

| In `Recovery` | In the code |
|---|---|
| `bJournal`, `serving` | the collaborator's journal, and the rev-up or snapshot that it sends with what it receives meanwhile (`remoteUpdatesBeforeNow`) |
| `toMe`, `toB` | publications on their way, in order for each sender |
| `data`, `journal`, `start`, `disk` | the dataset, the journal and its start, the saved time |
| `time`, `buffer` | `MessageService`; `Deliver`, `Reconsider` and `Accepted` are one message, one of those in the buffer, and all that comes of it, as a function of how often the buffer has been reconsidered |
| `source`, `revups`, `held` | the period of `RemoteOperations`, its recovery's updates, and what is published meanwhile, which waits |
| `queue`, `taking` | messages to be accepted one at a time (`concatMap`) and the one whose turn it is |
| `opps`, `retries`, `attempt`, `answer` | `decideLive` as begun, to be made again, and under way between its `await`s |
| `out` | operations held by `PauseableSource` |
| `Decide`, `Reply`, `Fail`, `Retry`, `Connect`, `Attach`, `Clear`, `Insert`, `Connected` | `decideLive`, `connect`, `requestSnapshot`, `processSnapshot`, `emitOpsSince` |
| `Revup`, `RevupsEnd`, `Take`, `Accept`, `Buffer`, `Disordered`, `BackingUp`, `Arrive` | `RemoteOperations.attach`, `acceptRemoteOperation`, re-connection on disorder or chronic buffering |
| `Write`, `BWrites`, `CWrites`, `BReceives`, `Change`, `RevupsFail`, `SnapshotFails`, `Restart` | writes here and elsewhere; the remotes come and go; failures; a crash |

### Presence

The broker and the server of socket.io are modelled as the code uses them: retained
messages, wills, and subscriptions granted before or after what is retained; a room and
its notices. `conn`, `link`, `attached` have a connection at both ends, which
get to know of its loss separately (`Drop`, `Expire`). `connected`, `seen`, `ready`,
`joining` are `PubsubRemotes.connected` and the fields of `MqttPresence`; `remotes` is the
remotes' liveness; `live`, `newClone`, `todo`, `connecting` are the engine's. `Receive` is the
handler of each kind of message; `Decide` and `Finish` are `decideLive` and the end of `connect`,
whose inside is `Recovery`.

### Lseq and Lists

`Lseq` has the positions as sequences of places, and `between` with `alloc` as operators.
`Lists` has two clones with a list. `list` are the shared triples, with
TIDs; `index` the clone's own, entailed; `channel` the operations on their way;
`view` is an app's own copy that follows updates with `updateSubject`. `Insert`,
`Delete`, `Replace` and `Move` are transactions, `Receive` is an operation of the other
clone: each runs `Rewritten`, the loop of `rewriteIndexes` with its queue and its batch, and what
is entailed from its notifications. The constraint's own deletions, of the higher position
of a slot that has got two, are operations that are published.

## 3. The runs

| Run | Question | Bounds | Result |
|---|---|---|---|
| `SuSet_ops` | Does the set converge in any order of delivery, with lost ticks, restarts and constraints that add operations of their own? Does the single-valued constraint leave one value, the greatest? Does everyone catch up? | 2 clones with 2 triples, any constraint and 3 operations; the same with the single-valued constraint and up to 6 operations, 3 of them of the app; 3 clones with 1 triple and no constraint; 1 tick without an operation | holds |
| `TidsStore_txn` | Does the store implement the table, but for triples that a snapshot is reading? | 3 triples of which one is streamed, 2 TIDs, one TID for each triple of a patch | holds |
| `TidsStore_tids` | … with several TIDs for one triple in a patch? | 2 triples, 2 TIDs | **violated** |
| `Clones_order` | Are identities unique and is delivery causal, complete and never stuck? Do the operators on clocks do what the methods do? | 3 clones, identities of depth 2, one helper; 2 operations while clones join from genesis, 3 among clones that had joined | holds |
| `Snapshots_data` | Does a newcomer end with the right TIDs, and all triples, but for what finding 1 loses? | 2 triples, 3 operations | holds |
| `Gates_locks` | What do updates and snapshots wait for? Is everyone served? | a reader with a handler, a writer that writes twice, each with a read; a remote operation that frees another; a request; a recovery by rev-up or snapshot | holds |
| `Journal_clerk` | Is anything lost from the journal, or told wrongly in a rev-up, whatever the clerk fuses meanwhile? Do the data follow, but for what finding 1 loses? | 1 triple, 3 operations of two processes, entries of up to 2 operations, 2 other events (a fork, an empty transaction, a restart, a snapshot, a rev-up), each once | holds |
| `Remotes_requests` | Is an answer to the question, a stream whole, everyone asked? Does all end? | 2 peers, 1 request after others, 2 notifications on a channel, one peer that leaves | holds |
| `Recovery_revup` | In none of the circumstances under "Findings": is an operation lost, published out of order, or the clone falsely up to date? Does it get there? | 2, 3 and 1 operations of the clone, its collaborator and a third, 3 in all; 3 times that remotes come or go, something fails or the process stops | holds |
| `Lists_edits` | In none of the circumstances under "Findings": do indexes follow positions, is no item lost, is what is asked for shown, and told to the app? | 2 clones, 4 transactions, 2 operations on their way to each, 3 items, positions in base 3 | holds |
| `Lists_replaced` | … if an item is replaced in one transaction? | the same | **violated** |
| `Presence_liveness` | Is presence right without a connection, after one is lost, and in the end? | 2 clones of which one may be new, MQTT or socket.io, one connection lost | holds |

*Why the bounds are enough.* Three clones are the fewest for a third party's
effect to overtake its cause; three operations are the fewest for insert,
delete and a concurrent re-insert, and for an operation that frees two others
in a buffer. Triples are independent in the set except where a constraint relates two, so two
clones have two triples there. One tick
without an operation is what a restart can take back; more are more of the
same. Two TIDs tell a set from its part,
and two triples that no snapshot reads tell a patch from its part. Depth 2 is a fork of a fork. In `Gates` there
is one actor of each kind, so that each pair of kinds competes for the locks; two writes show
that the second waits for the handlers of the first.
In `Journal`, three operations are a fusion of two and one before, between or after
it, and two further events put a rev-up or a restart before, in or after each. In
`Remotes`, two peers are a first and a next one, and the earlier requests whose replies
are late stand for those with other message identities. In `Recovery`, three operations are one to be missed,
one to wait for it, and one concurrent with both; three events are to lose the
remotes, get them back and have something fail. In `Lists`, positions in base 3 run out
of room at the first level after two items, so that all branches of `between` are taken;
moves and deletes need two items, and concurrent moves two transactions more, for which two operations on their way to a clone are enough. In `Presence`, one lost connection makes a
second session of a clone, and what the first one left. The mutants show that within its bounds each
property can be broken by a bug in the code.

*Symmetry* is used for safety only, over clones (in `Clones`, over the two
that are not genesis) and over TIDs and triples.

*Deadlock* is checked in `Clones` and `TidsStore`, where something can always
happen. The other models stop when the operations and events of their bounds are through and all has been
served, so it is off there; that nothing is stuck *before* that is
`NeverStuck`, `EveryoneCatchesUp`, `AllServed`, `AllEnds`, `CatchesUp` and `AgreedInTheEnd`.

*Fairness.*

* `SuSetMC`: for each clone, if it can take an operation, it does so at some
  time. The code justifies this: a
  live operation that is lost shows up as a missing predecessor, or as chronic
  buffering, or when presence changes; each makes the clone re-connect, and a
  rev-up is everything in the collaborator's journal since the clone's time
  (`operationsSince`). That the collaborator is there for long enough is an assumption about the
  network; `Recovery` is about how. Nothing is assumed of writes, ticks or restarts.
* `Gates`: promises are settled and their callbacks run; procedures and handlers of
  the app end and its results are consumed; a request to the remotes has a reply or a timeout
  (`networkTimeout`). Nothing is said about whether anyone reads, writes, receives or asks.
* `Remotes`: timers fire (`networkTimeout`), and what a clone or peer can do it does. Not that a
  reply comes in time or an acknowledgement at all.
* `Recovery`: one weak fairness for whatever the clone, the collaborator and the network do by themselves: locks are handed on,
  publications arrive, `delay` timers fire. What may go wrong is not fair, and bounded.
  `CatchesUp` assumes that the remotes stay in the end.
* `Presence`: connections are made again (the client libraries retry), the server notices
  a lost one (keep-alive), messages on a connection arrive, and `connect` ends.

### The properties

The properties of a run that need the same states are put together under one name, and
their parts are named and commented in the module.

*SU-Set.* `TidsAreOrSet`: the TIDs at a clone are those inserted and not deleted
by the operations in its journal, whatever the order. `GraphShowsTids`: the graph,
patched separately, is of the triples with a TID. `Converged`, `AddWins`: what
the user is promised. `TicksIdentifyOps`: a tick taken back by a crash and taken
again makes no second operation of one TID. `AppliedOnlyGrows`,
`DeliveredInOrder`: nothing is lost by a step, and causes come before effects,
which is what the two checks on receipt add up to. `EveryoneCatchesUp`: ticks
that no one will ever hear of leave no gap that others wait for.

*SingleValued.* `Resolved`, where the domain has the constraint, is `AtMostOneValue` (concurrent values are
resolved by the step that brings them together, at whichever clone) and `LostToGreater` (a value that the app
wrote is shown by all who have it, unless an app deleted it or a greater one came). `EveryoneCatchesUp` is also about
its operations: those that it adds to a delivery are delivered in their turn, and that comes to an end.

*TIDs store.* `FindsStoredElsewhere`, and the refinement
`ImplementsTable`.

*Clones.* `IdentitiesUnique`: `IdentitiesDisjoint` counts identities in memory, in journals, and in
replies on their way; `UniqueTids` (hashes are of one operation); `NeverThrows` (no clock
meets one that has forked its identity). `ClockTellsDataset`: `IgnoredWasHad` (what is ignored as
"already had" is in the dataset) and `CausalDelivery`. `NeverStuck`;
`JournalTellsApplied` (rev-up gives what is lacking); `ClocksAsCode`.

*Snapshots.* `TidsConverge`, `NothingLost`: in the end the newcomer has the collaborator's TIDs and triples, though
they were read late. `lost` is a history of the TIDs that came with the snapshot and were not written (finding 1). Those of them
which the snapshot's clock covers are `Dropped`; the others come again as operations. Just the `Dropped` ones are missing, and no triple but one that had one.

*Gates.* `LocksCover`: `TasksCovered`, whoever needs a lock is a task that runs under it, through all
the hand-overs from procedure to read to query to handler, otherwise `extend` throws, or
covers somebody else; `StatesCurrent`, nobody's state is de-scoped by another, and no
update falls between a procedure's state and its handler. `ChangesWait`: `UpdatesWait`,
`HandlersFinish`, `SnapshotsWait`, what must be over before an update or a snapshot changes the data. These say less than the API
promises (`Immutable`, see the findings): a snapshot does not wait for procedures and handlers, nor an operation from the
buffer for the handlers of the one that freed it. `AllServed`:
no order of requests for the two locks leaves anyone waiting.

*Journal.* `JournalWhole`: each operation since the start is in one entry (`EntriesTile`), and nothing
that an entry or the state leads to is missing (`NeverCorrupted`). `OpsFaithful`: what has been fused
and cut in whatever pieces is what its transactions amount to. `DataFollows`: the dataset's TIDs are what
all operations amount to, though they came fused and overlapping, but for just those that were not written (`lost`, a history; finding 1).
`RevupExact`: the peer can take
each operation as it comes, and in the end has all operations, and their TIDs but for those that it did not write.

*Remotes.* `StreamsSound`: one peer streams for a request, and to the end. `AnswersTheQuestion`;
`EveryoneAsked` (the code's own comment); `AllEnds`: requests, and what peers do about them.

*Recovery.* `OperationsKept`: what the time covers is in the data (`NothingLost`), and own operations
that the collaborator lacks are in the journal (`OwnKept`). `PublishedInOrder`.
`RecoveredInTruth`: the clone says that it is not outdated when it has what its collaborator had, and when
all is quiet, what there is. `CatchesUp`: rev-ups, buffered messages and attempts do not wait for each other.

*Lists.* `ListsSound`: `IndexesFollowPositions`. `NothingVanishes`: concurrent moves lose no item.
`ShownAsAsked`: an index that was asked for is where the item is. `ViewFollows`: an app's
copy follows the updates.

*Presence.* `PresenceSound`: offline without a connection, whatever answers come late.
`AloneOnceReady`: a clone takes itself to be alone only if it was, at a time since it connected.
`AgreedInTheEnd`.

### The findings

1. `TidsStore_tids`: commit reads the set of a triple once for each of the triple's TIDs
   in the patch, in parallel, each into a set of its own; the last one is
   written, the others' TIDs are lost. A snapshot's batch is such a patch, if two transactions have inserted a triple; so is
   a fused operation that inserts one twice; and so is an operation with that of a constraint which inserts a triple that the operation
   inserts. A set in the cache is one for all, so a triple of which the patch also deletes TIDs has all of them. What follows:
   * `Snapshots_lost.cfg` (`SnapshotsMC`, `NoTripleLost`): an operation deletes the TID which the newcomer kept of two; there
     it is the last, and the triple goes, while the collaborator keeps it. `TidsConverge` and `NothingLost` have this reservation.
   * `Journal_lost.cfg` (`JournalMC`, `DataComplete`): a clone receives two inserts of a triple as one operation and has one TID.
     `DataFollows` and `RevupComplete` have this reservation.
   * In `SuSet` no constraint inserts what the operation inserts (`InsertsOther`), and operations are single transactions.
2. `Lists_replaced`: when an item is replaced in one transaction, one came and one went, so the
   next old item keeps its index, and the loop of `rewriteIndexes` ends before it comes to it. The new
   item, which waits in the batch to be put "prior to next old item" (`lseq.ts:345`), is then given a position
   below the end of all positions, which may be after that of the next item. Whoever loads the list by its
   positions has another order than who edited it.

Next to these, the properties of the passing runs leave room for the following, which is
found by running the configurations named (`tlc -workers 2 -config X.cfg M.tla`), or the run of the module
with the name of the circumstance in `Adverse`.

*Clones, Snapshots, Gates*

* `Clones_ignored.cfg` (`ClonesMC`, `IgnoredWasHad`): clock from one clone, snapshot from another that lacks the
  first one's latest operation: the newcomer ignores that operation when it comes
  (`DatasetEngine.ts:250`, "Already had this message."). `OneHelper` in `Clones` is that clock and snapshot come from the same
  clone, which the code does not see to. With three clones and depth 3
  `IdentitiesDisjoint` fails as well: the newcomer, asked for a clock, goes back to the last
  tick in its journal, which drops the fork that it came from.
* `Snapshots_converge.cfg` (`SnapshotsMC`, `Converged`): a triple deleted between the iterator's opening and the
  reading of its TIDs is sent without TIDs, and stays at the newcomer.
* `Gates_nested.cfg` (`GatesMC`, `AllServed`): a read holds the live lock until its results are consumed. If
  somebody has asked for that lock exclusively meanwhile, another read by the consumer of
  those results waits behind, and with it everything else in the clone.
* `Gates_handlers.cfg` (`GatesMC`, `Immutable`): operations freed from the ordering buffer are applied without
  waiting for the handlers of each other's updates, whose states are de-scoped while
  they run. A recovery by snapshot, too, changes the data under a running procedure: `decideLive`
  *shares* the state, and releases it before the snapshot is applied.

*TIDs store.* `FindsStoredElsewhere` is not about triples that a snapshot is reading: a snapshot's
read that began before a transaction's batch puts its outdated set into the cache after
commit has cleared it (`TidsStore.ts:81`), and the next transaction finds it.

*Journal*

* `ask-at-start` (`Journal_revup.cfg`, `RevupComplete`): the journal after a snapshot answers a request from
  exactly its start, though the requester may lack other operations of the snapshot.
* `fused-after-gap` (`Journal_gap.cfg`, `RevupComplete`): a fused operation that is not contiguous with
  what the clone has is taken for one that overlaps it (`JournalState.ts:94`, "Seen ticks >= op.from
  (otherwise we would not be here)").
* `fused-after-snapshot`, `snapshot-while-fusing` (`NeverCorrupted`): a fused operation comes next after
  a snapshot, whose last operation has no entry; the clerk goes on with entries from before a snapshot.

*Remotes*

* With three peers and `Rejoins`, `EveryoneAsked` fails: a peer that leaves and joins is listed last, and may be
  come to again before others have been asked once (`PubsubRemotes.ts:465`). That none comes back
  is the hypothesis under which it is proved.
* `OneStream` excepts a reply that is being unwrapped while its attempt times out: it is
  acknowledged later, and a second peer streams to nobody.

*Recovery*

* `before-attach` (`UpToDate`): what is published between the collaborator's answer and the attachment
  to its updates is dropped.
* `collaborator-lags` (`UpToDate`): the collaborator answers before it has received an operation of a
  third clone that came to this one in an earlier period.
* `write-unconnected` (`PublishedInOrder`): a write between the remotes' coming back and the attempt is
  published before those that are missing.
* `snapshot-behind` (`OwnKept`): a snapshot from a clone that lacks own operations, which are then
  no longer in the journal.
* `snapshot-fails`, `crash-while-applying` (`NothingLost`): the store has been cleared, and its time covers
  what it lacks.
* `late-delivery` (`RecoveredWhenSaid`): another attempt begins while the last rev-up of a recovery waits for its turn.
* `crash-when-new` (`NothingLost`): a crash between the new clock and the first snapshot (`DatasetEngine.ts:60`, a FIXME).

*Lists*

* `prepended-elsewhere` (`IndexesFollowPositions`, `NothingVanishes`): an item is to go before one that has a zero place of a site with an
  earlier name, made by inserts at the head. The lower bound is extended with zero places of our own site (`cloneWith`, `lseq.ts:164-169`), which
  come after it, and so does the new item.
* `replaced`: finding 2, if the item is not the last.
* `position-reused` (`IndexesFollowPositions`, `NothingVanishes`, `ViewFollows`): a new item gets the position of one that the transaction deletes.
  Other clones have it deleted (`addDelete` takes it out of the inserts, `lseq.ts:255-258`); and if it is the same slot the operation says
  nothing of it (`ops.ts:32`) though the update does.
* `queue-left` (`IndexesFollowPositions`, `NothingVanishes`, `ViewFollows`): an operation deletes the last item and inserts after it. At the
  receiver the loop of `rewriteIndexes` ends after the last old item (`lseq.ts:320-325`), before it has come to the insert, which has no index there.
* `moved-back` (`NothingVanishes`): a slot that was moved before is moved towards the end by one clone, and by
  another at the same time.
* `mixed-update` (`ViewFollows`): `updateSubject` takes neighbouring splices together
  (`updates.ts:198-207`), which is wrong if one only inserts and the next deletes.

*Presence.* `Presence_ghost.cfg` (`PresenceMC`, `AloneOnlyIfAlone`): `MqttPresence.ready` is not reset when the
connection closes (`MqttPresence.ts:48`), so on a reconnection presence is looked at before the ghost is back, and a clone can
take itself to be alone although others are there: it is a silo for a moment, and if new it closes.
`AloneOnceReady` is what remains.

*SingleValued.* A value that loses to a greater one, which itself is deleted at the same time, leaves none: this
is inherent in resolving without knowing, and `LostToGreater` is what remains.

## 4. The proofs

Eight modules prove about eight components, for all constants that satisfy the component's named assumption
(which TLC evaluates in its runs), so for any number of clones, peers, triples or operations and any of the bounds.

| Component | Theorems | and the properties of runs that they state |
|---|---|---|
| `SuSet` | `TidsCorrect`, `GraphCorrect`, `Convergence`, `AddWinsAlways`, `UniqueTids`, `CausalDelivery` | all of `SuSet_ops` but `Resolved` and `EveryoneCatchesUp` |
| `SingleValued` | `StillASuSet`, `AlwaysResolved` | those again; `Resolved` |
| `TidsStore` | `ReadsCorrect`, `Refinement` | both of `TidsStore_txn` |
| `Gates` | `LocksCorrect`, `ChangesCorrect` | all of `Gates_locks` but `AllServed`; not `Immutable`, which is false |
| `Snapshots` | `SameTids`, `AllThere` | both of `Snapshots_data`, with their reservation |
| `Remotes` | `StreamsCorrect`, `AnswersRight`, `EveryoneIsAsked` | all of `Remotes_requests` but `AllEnds` |
| `Recovery` | `OperationsKeptOtherwise`, `PublishedInOrderOtherwise`, `UpToDateOtherwise`, `RecoveredInTruthOtherwise` | all of `Recovery_revup` but `CatchesUp`, each if certain circumstances do not come about |
| `Presence` | `PresenceCorrect`, `AloneIsRight` | all of `Presence_liveness` but `AgreedInTheEnd` |

Each follows one scheme: an inductive invariant `IInv`, of named parts; `Init => IInv`; a lemma for each
action, that it keeps `IInv`; and from `IInv` the properties. What follows is what is in the invariants beyond the
properties, and why.

### SuSet_proofs

For all constants that satisfy `SuSetAssumption`: `TypeCorrect`,
`TidsCorrect` (`TidsAreOrSet`), `GraphCorrect` (`GraphShowsTids`), `Convergence`
(`Converged`), `AddWinsAlways` (`AddWins`), `UniqueTids` (`TicksIdentifyOps`), and
`CausalDelivery` (`DeliveredInOrder` and `AppliedOnlyGrows`).

The properties are not inductive. What they need as well, `IInv`, is: a
clock, in memory and saved, agrees with the global clock in the journal about other
processes, and is not behind it about its own (`ClocksAgree`); and the operations,
with the global clocks of all the journals, are `Coherent`: nobody knows more of
a process than it does itself, `prev` is not before the source's last operation,
a deleted TID is one inserted in the deleter's past, and what a journal has reached
is closed under causal past. So a delete never comes before the insert that it
deletes, and applying in any order that respects causes gives the set difference in
`TidsAreOrSet`. Two lemmas about any coherent set of operations, `Delivery` and
`Publication`, carry the proof: an accepted operation, or a new one, adds just itself to
what is reached, and what it adds to is not after it. The effect
of an operation's patches on graph and TIDs is a matter of sets, by cases
on whether a triple loses its last TID, is inserted, or is changed by the constraint.
`Converged` and `AddWins` follow from the two.

### TidsStore_proofs

`TypeCorrect` needs no assumption. `ReadsCorrect` (`FindsStoredElsewhere`) and
`Refinement` (`ImplementsTable`) assume `OneTidEach` (an insertion has one TID for each
triple) and are about the triples that no snapshot is reading; these
are just the reservations of the run `TidsStore_tids` and of `FindsStoredElsewhere`. The invariant, for such
triples: while a transaction prepares, everything in the cache is what is stored; while
it loads and writes, `affected` and the insertions yet to be loaded are together the
patch on what is stored; and when it writes, the cache is empty.

### SingleValued_proofs

The step of a clone under the constraint is a step of `SuSet` under *any* constraint (`SvIsAny`: what the
constraint adds is a patch), so that `SuSet`'s
invariant is kept and `StillASuSet` follows without another proof. For `AlwaysResolved` the invariant has
`AtMostOneValue` itself, where there is the constraint: before a remote operation there is one value at most of each subject, so that two afterwards involve
one that the operation inserts; the constraint then sees the subject (it is in the update) and all its values
(they are in the graph after the operation), and deletes all but the greatest, which exists since values are finite in
number (`Triple` has finitely many, by assumption). `LostToGreater` needs `Justified`: whatever
the constraint's operations delete is below a value that was inserted in their causal past. The constraint's operation
comes after all that its clone has and after the operation applied (`MendingComesAfter`); and by causal delivery
that value had come to whoever applied the deletion.

### Gates_proofs

The lemmas about locks are about any lock: a queue of batches, of which the first runs, where a batch is one exclusive
task with its extensions, or shared ones (`LockFor`, for sets of actors who take the lock alone, who extend it, and who
share it). Each operation of `Locks` keeps that, and lets whatever runs go on (`share`, `acquire` and `extend` add; a
task that ends is taken out; only an empty batch is turned over).

The invariant has both locks as such queues (`StateLock`, `LiveLock`), `LocksCover`, and three facts about handlers:
one that has not been registered has heard nothing (`HeardSince`), none runs, and no read of the writer goes on,
while a writer writes (`WritingAlone`), and none runs under a remote operation before one was taken (`HandledTaken`).
`ChangesCorrect` then looks at who can change the data: it has the state alone, or has the live lock
alone and applies a snapshot; and those who are named in `ChangesWait` hold the one or the other lock. Procedures and handlers
hold the state only, so nothing is proved of them and snapshots.

### Snapshots_proofs

An operation is known by the TIDs it inserts and deletes; a TID is `Alive` after `k` operations if made by one of the first
`k` and not deleted by a later one of these. `Collaborator` is that the collaborator has just those that are alive.
The newcomer's invariant is in two parts, for the `k` operations that it has or its snapshot is of: `Timely`, no TID that it knows was
deleted within the `k`, though it may have been made later (read late); `Whole`, each TID alive after `k` is known, or its triple is yet to be
read, or it is *going to be deleted* by an operation that is to be replayed. So what the late reading misses
makes no difference in the end. Both parts except the TIDs that are `Dropped`, and since a TID comes with the snapshot once (`Once`)
just these are missing. Without that reservation `AllThere` does not hold, nor does its converse: see the findings.

### Remotes_proofs

The invariant is about three things. `Conversations`, of each peer with the clone: after it was asked there is one reply on its way or being
unwrapped, if any, none while it has yet to answer, and if the reply is not an offer then the session is over;
peers that were not asked know nothing. `Consumed`, of each channel: what was consumed and what is left to stream
are together all that there is, so long as neither side has given up. `OneByOne`: unless an attempt timed out,
only the peer that is waited for, or made the offer, is busy with the request, and all replies are from the peer that is waited for.
It holds as an attempt is made only when the one before has its outcome. A peer starts to stream when it has the
acknowledgement, which is sent when the request is over (`Quiet`); hence one stream, and it is notified from its start.
A time-out breaks this for good, since the late answer may be acknowledged as well: this is why `OneStream` is only about requests without one.

`EveryoneIsAsked` assumes that no peer that has left comes back (`~Rejoins`), without which it is false. `Round` says that
`recentlySentTo` holds those listed first (`Prefix`), and that the request goes round the list from where the
last one ended (`InTurn`): those of the peers that were there throughout, whom it passed, were asked, on each side of the boundary that `recent`
makes, and it begins with the second side. So when it comes to a peer for the second time it has been through both sides.

### Recovery_proofs

For any numbers of operations and events (the bounds of `Recovery` are constants, about which nothing more is assumed than
that b may write its first operation). What is assumed is about the circumstances under "Findings", all of which can come about
in the code. Each theorem admits some that leave it true and says nothing of the others, in which TLC finds it, or what it rests on, violated. So
they are not about whatever may happen: they say that *nothing else* goes wrong.

| Theorem | admits | and fails in |
|---|---|---|
| `InvariantHolds`, `OperationsKeptOtherwise` | `write-unconnected`, `late-delivery` | `snapshot-behind`, `snapshot-fails`, `crash-while-applying`, `crash-when-new` |
| `PublishedInOrderOtherwise` | `late-delivery` | `write-unconnected` |
| `UpToDateOtherwise` | `late-delivery` | `before-attach`, `collaborator-lags` |
| `RecoveredInTruthOtherwise` | none | `late-delivery`, and where `UpToDateOtherwise` does |

In the rest, what the theorem rests on is violated.

The invariant comes in layers.

* `Whole`, ten parts that each step keeps together. The time, the saved time, what b has, and an answer's time are all
  within what was `Written`, in an order that depends on the phase (`Times`, `Control`): while a snapshot is applied the time
  is already the snapshot's and the saved time is not. What is on its way or waits has been written (`Known`), so
  between an answer and its attachment all that is pending is no news, either to the clone or to the answer
  (`Stale`): this is what makes it harmless that the state lock is released while a snapshot is still to be applied.
  `Shown` and `Journalled` are then what `OperationsKept` says, with the exceptions that the
  steps of a recovery make (data cleared, a new clone not yet filled).
* `Streams`. `Gapless` is that no operation comes without the one before; what is to be published is so with regard to what
  b has, and when output goes on, its last operation is the clone's last. Emission makes it so
  (`EmittedFollows`: the journal is gapless and has all that b lacks), and an attempt that is abandoned
  drops what it held back (`PauseableSource`).
* `Answered`. `Ordered`: b's journal is in causal order. Thus a sequence from it `Brings` what is missing: if one who has the
  *time now* takes all of it in turn, it comes to have the answer's time, and at the turn of each operation that is new to it
  has what is before. `Brings` is the notion to which the argument is
  reduced; it is kept when the time moves on, and when the first of the sequence has its turn, is ignored or is accepted.
  As it says that the first that is new is ready, no rev-up is ever put in the buffer for want of another.
* `Complete`: all that was written is in the time or the answer or is coming (`AnswerComplete`), and once the attempt
  is at its end, in the time or underway (`SettledComplete`). So when all is quiet it is in the time. The proof
  does not need to know that the clone says so: `UpToDate` follows from `Quiet` alone.
* `Marked`, `UpdatesArrive`, `DueArrives`: the marks on messages are of one recovery at a time, the last rev-up is the
  one marked, and by the turn of a message marked `due` the sequence before it brings what was told. Another attempt while such a
  message waits is `late-delivery`, hence the reservation.

Accepting a message is a function of how many times the buffer was reconsidered, and what a rev-up has is one of how much of
the journal was read. That such a function is what its definition says, and what it has done after `n` steps, is
shown by `NumbersByInduction`, in which a *set* of numbers takes the place of the operator that the library's
theorems have: a number outside it would have a least one before it.

### Presence_proofs

What a clone sees depends on messages that are still in its inbox, so the invariant says what it *will* see: `Follows`, that after all that is on its way the
clone has seen who is listed, and `Truthful`, that no prefix of it, once the ghost is back, shows less than there was when the clone
was alone. Both are defined on the inbox, as a whole and by its parts, and the lemmas about them are induction on nothing but
the sequence's length in steps of one: a message is appended, or the first one is taken. With socket.io the answers are
right when they are made (`Noticed`), and a server's first word is that there is a connection (`Ordered`). `Keyed`: with MQTT presence
is of a client, and outlives its connection until the will. `AloneIsRight` has the reservation of the run: an
MQTT clone on a later connection whose ghost is not back.

### Only model-checked

* Liveness, which is out of the prover's reach: `EveryoneCatchesUp`, `AllServed`, `AllEnds`,
  `CatchesUp`, `AgreedInTheEnd`.
* `TreeClock`, `Clones`: facts about trees of unbounded depth need induction over data, and the library's
  induction theorems take an operator as parameter, which the provers cannot instantiate (minimal elements of well-founded
  relations on a *set* can be had, and are used in `Remotes_proofs`,
  `SingleValued_proofs` and `Recovery_proofs`); sums and folds have no usable theorems.
  `Lseq` and `TreeClockCode` are recursive operators.
* `Journal`: `Operations` folds over sequences. `Lists`: positions and indexes by recursion.
* What is not a property of `Spec`: the bounds, and `Deadlock`.

## 5. What is not modelled

* *Ably* (`ably/`). What becomes of presence when a suspended connection comes back is up to its
  library; the code looks at it when it has subscribed (`AblyRemotes.ts:60-61`). Its rate limiting keeps order by
  `concatMap`.
* *WebRTC peering* (`wrtc/`): another channel for notifications, set up by the browser.
  A channel that dies in the middle of a stream is not told to the consumer, as in `Remotes`
  a stream may never complete.
* *Encoding and security*: serialisation, without state. What matters here is that the TID of an operation is the
  hash of its time, which is in `SuSet` and `TreeClock`, and that unwrapping a message takes time, in `Remotes`.
* *json-rql and the API* (`Jrql*.ts`, `Subject*.ts`, `jrql-support.ts`, `api.ts`, patterns, queries): translations without state
  of their own between transactions; which locks a read holds is in `Gates`, what an update does to an app's
  copy in `Lists`. Nested subjects are left out.
* *The quad store and the key-value store* are libraries; `TidsStore` has their batches, which are written or not.
  `TidsStore.commit` whose *read* of the key-value store fails is not in it.
* *In `Gates`*: the `txn` lock, which is taken last, for one step, and never held while
  another is waited for; reads by handlers; and of `close` nothing.
* *In `Recovery`*: writes of a new clone before its first recovery; a fork of the identity while a
  snapshot is processed; own operations that are not in the journal any more (`recent == null`, "Clone outdated"), which is
  retried as any failure and which `OwnKept` says does not happen. A silo is
  the same as a clone whose remotes are gone.
* *In `Journal`*: the constraint's operation that follows a remote one, which is one more `Write` with the tick
  after; more than two processes, whose operations never share an entry.
* *`CheckList`* applies constraints in order.

## 6. The plan

1. *Core* (done): `SuSet`, `TidTable`/`TidsStore`, `TreeClock`/`TreeClockCode`, `Clones`,
   `Snapshots`, `Locks`/`Gates`.
2. *Engine* (done): `Recovery`, `Remotes`, `Presence`.
3. *Journal* (done): `Operations`, `Journal`.
4. *Algorithms and the edge* (done): `Lseq`/`Lists`, `SingleValued`.
5. *Proofs* (done): `SuSet`, `SingleValued`, `TidsStore`, `Gates`, `Snapshots`, `Remotes`, `Presence`,
   `Recovery`.
6. *More proofs* (left): of `Clones`, `ClockTellsDataset` from facts about
   clocks as functions on paths, which need no induction if the depth of a fork is never looked at.

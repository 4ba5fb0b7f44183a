# A TLA+ model of stacksindex

stacksindex indexes smart contract events of the Stacks chain. It reads the
newest part of the chain from an API that may reorganize its blocks at any
time, stores the events of the configured contracts in Postgres, and calls user
handlers for every event in chain order, in the transaction that moves the
checkpoint. It has to survive reorganizations, crashes at any point, lost
answers, and a chain that grows while it is being read.

The modules here model the passes of `run` and `live` (reconciliation with the
canonical chain, the sync producer, the indexing consumer, the finalized
marker, the tables they share), and what stands around them: how heads reach
live indexing, the retries and budgets of failed requests, the check of changed
contract definitions, the progress that is reported, and the handle a user
creates, calls from several places and closes. TLC checks them on small
instances. TLAPS proves, for every value of the constants, the safety properties
of historical passes and of live indexing (what is handled is handled once,
what is kept is canonical, nothing is missed, the finalized work stands, and a
pass implements the projection promised to the handlers), of the reported
progress, of changed definitions, of heads and of the service, from hypotheses
that the findings and known consequences show to be necessary.

Paths below are relative to `src/packages/stacksindex/src/`.

## Inventory

| Component | Source | State | Operations | What makes it correct |
|---|---|---|---|---|
| Chain and API | (external; `test-utils/fake-chain.ts`) | canonical blocks and their logs | mine, reorganize; status, block, logs page, transaction batch, discovery | – |
| Sync store | `sync-store/` | blocks, transactions, events, sync_progress, checkpoints, sync_anchors, meta | inserts that ignore conflicts, progress upsert and raise, rewind | a synced height means stored; a rewind undoes everything above it |
| Reconciliation | `runtime/reorg.ts` | – (search bounds in memory) | verify the anchor, binary search for the common ancestor, rewind, fail | nothing orphaned stays; finalized data is never replayed silently |
| Historical sync | `sync/` | one `ContractSyncState` per contract, a queue of safe heights | discovery, backfill, catch-up, store page, save progress, offer safe height | no event is skipped, whatever the paging, the restarts and the growth |
| Indexing | `runtime/historical.ts`, `runtime/batches.ts` | rows and markers of one call | batches of whole blocks, checkpoint, finalized marker | each event once, in order, never past a missing one |
| Handlers, database | `indexing/`, `database/` | user tables | run a batch in the checkpoint's transaction | writes and checkpoint move together |
| Live indexing | `runtime/realtime.ts`, `sync-realtime/block.ts` | anchor, failure budget | plan a head, fetch blocks or contracts, retry | equals what historical passes would have indexed |
| Heads | `datasources/api/heads.ts` | last head, failures, sliding buffer | poll, subscribe, fall back, report stalls | the newest head arrives; no duplicate; falls back for good |
| Failure budget | `lib/failure-budget.ts` | streak, first failure | record, reset | spent only by a long and dense streak |
| API client | `datasources/api/index.ts` | rate-limit window | request, retry | bounded retries |
| Contract definitions | `runtime/definition.ts`, `runtime/contracts.ts` | meta row | compare and record at the start of a run | an accepted change loses no event |
| Service, run phase | `runtime/index.ts`, `promise/`, `effect-api/` | active calls, phase, live fibers, closed | create, run, live, status, close | the phase reflects the calls; no handler writes twice for a print because of a failed batch or an interrupt; close ends |
| Status | `runtime/status.ts` | – | read the phase, then the stored rows | a phase that says ready follows a completed pass |
| Progress | `runtime/progress.ts` | contract snapshots, estimator samples | add up, estimate | what is reported complete is stored |
| Configuration, codec, telemetry | `runtime/config.ts`, `codec/`, `telemetry/`, `logger/`, `lib/` | – | parse, report | – |

How they interact in a pass: `syncAndIndexTo` reads the tip, reconciles, saves
the tip as the anchor, then runs two fibers. The producer
(`createSync.historical`) stores pages and offers safe heights over a queue of
one; the consumer indexes up to each. They share only the database. When the
stream ends, the contracts that read their newest page are raised to the tip,
and what is left is indexed up to the tip. Everything in memory dies with the
pass; the tables survive it. The hard parts are the chain moving under a pass,
a stop between two transactions, page boundaries inside blocks, and the tip
that could not be read. In live indexing every head starts a pass of its own,
with the head as its tip: `planFetch` decides whether its blocks are fetched one
by one or the contracts page by page, and whether the anchor must be checked.

Around the passes, heads come from a websocket or from polling, through a
buffer of one, while requests are retried on two levels and failures are
counted against budgets. Each call compares the contract definitions with the
recorded ones before it starts. Calls of one handle overlap freely: they share
the run phase in memory and every table in the database (blocks, events,
`sync_progress`, the anchor, the checkpoint), and nothing makes one wait for
another. A pass that starts rewinds the tables that others are working on.
Each of the hard parts is a hazard in `PROJECT.json`, with its line.

## Modules

| Module | Models | Extends |
|---|---|---|
| `Chain` | the canonical chain, its reorganizations, and the API answers with the cursor semantics of the repository's fake chain | – |
| `SyncStore` | the tables and the transactions on them; the history variable `handled` | `Chain` |
| `Reconcile` | `readChainTip`, `reconcileWithCanonicalChain`, `setSyncAnchor`, one step per request or transaction | `SyncStore` |
| `ContractSync` | `createSync.historical`: initialization, discovery, catch-up walk, backfill, `storeEvents`, progress, safe heights | `SyncStore` |
| `IndexEvents` | `indexEventsUpTo`, `chunkEventsByBlock`, `indexBatches`, `indexBatch` | `SyncStore` |
| `Indexer` | the pass: the three above composed, stops, the chain as environment; all properties | the three |
| `LiveIndexer` | `runLive`, `processHead`, `planFetch`, `getLinkedBlocks`, `syncBlocksAndIndexTo`, `syncBlock`, and the head stream they consume | `Indexer` |
| `Projection` | abstract specification: what handlers are promised | `Chain` |
| `Progress` | the contract snapshots of a sync and `computeRunProgress`, on top of the pass | `Indexer` |
| `FailureBudget` | a streak of failures and its age, as a value | – |
| `ApiRequest` | one request of the API client with its attempts: the rate limiter's retries inside those of `execute` | – |
| `Heads` | `blockHeads`, `pollHeads`, `webSocketHeads`, `subscribeHeads`, `watchStalls`, and the loop of `runLive` that consumes the heads | `FailureBudget`, `ApiRequest` |
| `Definitions` | `checkContractDefinitions`, `resolveContracts`, and passes seen from afar | – |
| `Service` | `createIndexer`, `layer`, `trackRun`, `run`, `live`, `close`, their passes as rewinds, reads and batches, handlers, crashes | – |
| `MCIndexer`, `MCProgress`, `MCLive`, `MCDefinitions`, `MCService` | constants' values for TLC | their module |
| `Completeness` | the inductive invariants `SoundInv` and `StoredInv`, and the hypotheses `ReorgsBetweenPasses` and `NothingInTheWay` | `Indexer` |
| `IndexerProofs` | proof of the types, of what stays below the highest tip, of the finality results, and of what paging guarantees a reader while the chain moves | `Completeness` |
| `SoundnessProofs` | proof that nothing wrong is kept and nothing is handled twice | `IndexerProofs` |
| `CompletenessProofs` | proof that nothing is missed, and of the refinement | `SoundnessProofs` |
| `LiveProofs` | the same results for live indexing | `CompletenessProofs`, `LiveIndexer` |
| `ProgressProofs` | proof that the reported progress is never ahead of what is stored | `CompletenessProofs`, `Progress` |
| `DefinitionsProofs` | proof that changed definitions lose no event | `Definitions` |
| `ServiceProofs` | proof of the safety properties of the service | `Service` |
| `HeadsProofs` | proof of the safety properties of heads | `Heads` |

`Indexer` and `LiveIndexer` are the core; `Progress` observes it. `Heads`,
`Definitions` and `Service` each look at one side of the program closely and at
the passes from afar. `Heads` justifies the stream `LiveIndexer` assumes (the
newest head arrives; heads may lag and are not repeated) and the ways its `live`
may end; `Definitions` justifies the fixed ranges of `Indexer`. `Service` has
calls that start, fail, are interrupted and closed, one after the other or under
each other, and says what holds however little is known of their passes.
`Indexer` and `LiveIndexer` look at one call at a time. That is an assumption
about the user and not something the code ensures: what two passes can do to
each other's events is a known consequence below.

### State and code

* A block is a record of the fork that minted it and of the number of logs each
  contract printed in it. Height and fork stand for the block hash. An event is
  a contract, a position and the fork, so a log of an orphaned block is never
  mistaken for one of its replacement.
* `blocks`, `events`, `progress`, `checkpoint`, `anchor` are the tables.
  `handled` is a history variable: the events whose handler writes stand. A
  rewind removes what it will replay, because the code asks handlers to be
  idempotent rather than rolling their writes back.
* `phase`, `tip`, `probing`, `ancestor` are the locals of a pass. `probing` is
  the set of stored heights in `blocks[low..high]`, so a probe is one iteration
  of the search.
* `sync[c]` is the `ContractSyncState` of a contract. Its `mode` is where the
  code stands: `start` before initialization, `walk` inside `fetchNewPages`,
  `ready` at the loop head, `fetched` with a backfill page in hand, `stored`
  between the transaction of `storeEvents` and `persistProgress`.
* `queue` holds safe heights; the loop head requires that at most one is
  waiting, which is the suspended `Queue.offer` of a buffer of one.
* `batches` is what an `indexEventsUpTo` call still has to index: it reads its
  rows once, and each `IndexBatch` is one database transaction.

* `following` says that `runLive` is past its historical pass; `offered` is the
  head in the sliding buffer and `lastHead` the one emitted last, which is not
  repeated; `linked` holds the blocks a pass still has to fetch one by one. A
  live pass runs through the same `phase`s as a historical one, entered at
  `plan` (the blocks page is requested), `trusted` (the anchor needs no check)
  or `reconcile`; fetching block by block takes the place of the producer.

* In `Heads` a block is the number of blocks that replaced it as the chain tip,
  so the tip is always 0 and the model stays finite however long the chain
  grows. `socket` and `frames` are the connection and what it delivered,
  `source` and `sleep` the fiber of `webSocketHeads` or `pollHeads`, `head` the
  `HeadState`, `watch` the watchdog's sleep, `buffer` the sliding queue.
  Sleeps are countdowns that end on time; requests and passes take any time.
* In `Definitions` an event is a contract and a height, the tables are
  `recorded` (`meta.contracts`), `progress`, `events`, `checkpoint` and
  `anchor`, and a pass syncs a contract any number of heights at a time.
* In `Service` a block holds one print, which is handled, skipped or fails its
  call. A call has its stage, the tip of its pass, the checkpoint and the rows it
  read, and the writes of its open transaction. Of the tables there are the
  checkpoint, the anchor and `handled`, the blocks whose writes stand. What is
  stored is not kept: reading the rows finds any set of blocks between the
  checkpoint and the safe height, and the reconciliation that begins a pass
  rewinds to any height (reorg.ts:118, :133 and :177 name three). Whatever other
  calls stored, rewound or left half done, one of these is what the code does.
  `unreported` counts the committed writes of passes that are not over, `passed`
  says that a call of this handle completed a pass, and `MaxActive` bounds how
  many calls are active at once. `news` says that the head stream of a live call
  has a block newer than the head it took; the chain and the process may move and
  crash any number of times. PGlite has one connection, so a transaction there
  excludes every other query; Postgres lets calls interleave.

In the passes, each API request and each database transaction is a step of its own; the chain
and the other fiber may move between any two. Everything between two such
points is one step. Two kinds of steps are coarser: `StorePage` of
`ContractSync` and `SyncBlock` of `LiveIndexer` take the requests for a page's
transactions or for a block together with the database transaction that stores
what they answered. In `Service` the reads of a reconciliation and its rewind
are one step (the rewind goes anywhere, so nothing depends on the reads), and so
are the commit of a batch and the count in memory that follows it
(historical.ts:113-128): only a call whose result is never returned can end
between the two. `Stop` ends the pass in any phase: a crash, an interrupt, a
failed request, a handler error and a database error all leave the same thing
behind, the committed transactions.

### What is abstracted

* A log has a transaction of its own, so transaction rows are merged with event
  rows, and the split of a batch request into chunks is left out. A transaction
  mined again on another fork counts as another transaction; the code's reuse
  of its stored height is not covered (a hazard without property).
* First-event discovery is one step, and its result is the oldest log at or
  above the start that it can see; the logs it cannot see are `Hidden`.
* A reorganization mints the first block of its fork in the same step, and does
  not reach `MaxDepth` blocks or more below the highest tip.
* `Progress` takes a snapshot when the producer offers it; the consumer shows it
  later, and nothing stored is lost in between.
* The status request answers the current tip, the tip without hash, or nothing;
  it does not lag. A head may lag behind the tip by `HeadLag` blocks.
* Whether fetching by block is cheaper depends on transactions that are not in
  the model. Those of the logs are a lower bound: where it allows it, either
  way may be taken.
* The API answers for the transactions of canonical blocks only; a block that
  is gone is a transient failure.
* A transient failure of a live pass is followed by the next head or ends
  `live`: when the failure budget is spent is left open in `LiveIndexer` and
  modelled in `Heads`.
* A page always has its cursor; the code's fallback for a response without one
  is not modelled.
* All contracts may initialize concurrently (the code bounds this at eight).
* Block times, metrics, logs and time estimates are left out.
* `Definitions` has no reorganizations: they are `Indexer`'s, and the recorded
  ranges take no part in them.
* `Service` has no stored events and no finalized marker: its rewinds go to any
  height and its rows may be any above the checkpoint, which includes what the
  code does and much that it does not. So it can say nothing of events that are
  missed; `Indexer` says it for one call, and for two it does not hold.
* A call of `status` only reads and is not a step.
* `trackRun`'s two `Ref` operations are one step: no other fiber runs between
  them. A new handle is created only when no call of the last one is left. What
  an abandoned handler promise does after an interrupt is not modelled (a hazard
  without property).
* In `Heads` a page request of one block is all that is asked of the API, and
  its retries are those of `ApiRequest`; the concurrent requests of a pass are
  independent of it.

## Properties

`HandledThroughCheckpoint` is what the program is for: in a verified pass, the
handlers ran for exactly the canonical events in range up to the checkpoint. It
can be broken from far away: a skipped page, a raised height, a rewind to the
wrong block, an uncapped index. `SyncedMeansStored`, `OfferedHeightsAreStored`
and `StoredThroughTip` say it of the intermediate promises: of the
`sync_progress` rows, of the queue, and of the end of the sync. All are bounded
by the cap of the pass, because a row or a safe height may name a height above
the tip, where nothing is indexed and nothing is promised until a later tip.

`StoredIsCanonical` says a reconciled store holds no orphan. It, and
`HandledThroughCheckpoint`, are claimed while no reorganization happens during
a pass; what a pass that was hit by one leaves behind is caught by the
reconciliation of the next one, or not: see the findings.

`FinalizedBelowCheckpoint`, `FinalizedMonotone`, `FinalNeverReplayed` and
`FinalizedStands` are the promises of `finalizedBlockHeight`; the first three
are checked with the chain moving at any moment. `NothingHandledTwice` says a
row waiting to be indexed was not handled yet. `NoReorgError` says a shallow
reorg never fails a run.

`ImplementsProjection` is the refinement: with `height` the checkpoint and
`finalized` the marker, every step of `Indexer` extends the projection by
exactly the canonical events of the blocks it adds, confirms covered blocks,
cuts back to a canonical prefix, or stutters.

`TipIsHandled`, `StoredBelowNextBlock` and `CanonicalNeverReplayed` are about
live indexing: a head's pass handles what historical passes would have, blocks
are fetched one by one only on top of a complete range, and neither a lagging
head nor a trusted anchor makes a handler see an event of a canonical block
again. Like `HandledThroughCheckpoint` they are claimed while no reorganization
happens during a pass or under a waiting head (`StaleHeads`).

`ReportedIsStored` says of the reported progress what `SyncedMeansStored` says
of the rows, at every moment of a sync, and `TotalIsStored` of the sum over the
contracts: a report of 100 percent has nothing left to store, no contract making
up for another.

Of the heads, `NoHeadMissed` says that subscribing before polling leaves no
gap. It has one exception, a block that comes after the poll was read and
before the server handled the subscription, since the client does not wait for
the confirmation; the next block, or the stall watchdog, covers it.
`NewestIsTaken` says the sliding buffer loses only replaced heads,
`FallbackIsEarned` and `EndsOnlyAfterSpan` that neither the websocket nor `live`
is given up for less than the documented failures, `StallsReportedOnce` that
the watchdog misses and repeats no stall, and `AttemptsBounded` that two layers
of retries stay within their product. `NeverDeaf` is the liveness of it all.

Of the definitions, `NoEventUnindexed` is the promise of `definition.ts`,
`SavedProgressHolds` that the saved progress of a contract that was added,
removed or moved can be trusted, and `PassIsComplete` that a call that is
accepted and completes has handled everything in its ranges.

Of the service, `PhaseMatchesCalls` and `ReadyAfterPass` say what a phase means
while calls start and end under each other: what they do together, and that one
that says ready follows a completed pass. Neither says how far the checkpoint
is, which any pass may rewind. `AppliedOnce` says that no handler writes again
for a print whose writes stand, through failures, interrupts, closes and crashes
inside a batch, and `EventsCounted` that the counts are those of the committed
writes; `CallsSettle` says every run and every close ends. `AppliedOnce` and the
last part of `PhaseMatchesCalls` are claimed for calls that never overlapped:
they say nothing of batches of two calls that commit in any order
(historical.ts:254), see the known consequences.

Two hazards are held by few properties. That a rewind undoes the cursor of a
pass that stopped while syncing (sync-store/index.ts:485) is checked only where
it fails, in `stop_then_rewind`: the runs that pass either have no stop while
syncing or no page above the tip. A tip that cannot be read (historical.ts:163)
is met only in `anything_goes`, by the properties of the finalized marker; the
others are claimed for tips that were read in full.

### Fairness

`EventuallyCaughtUp` is liveness under `FairLiveSpec`: weak fairness of the
steps of a pass, of the heads, of ending a pass and starting the next one, and
of mining. The code justifies it as follows: both fibers run on one event loop
and suspend only for requests, the database and the queue; and a pass is
followed by another, by a schedule of `run` calls or by the loop of `live`.
Mining is assumed because a head below the anchor is skipped: after a reorg to
a shorter chain, live indexing waits until the chain outgrows its anchor. The
run has no stops, since an endless series of crashes prevents progress in the
code too; interrupts of `live` may happen forever.

`NeverDeaf` is checked under `FairHeadsSpec`: the four fibers are scheduled, the
server answers (something), time passes, and blocks come. Nothing is asked of
the socket, which may break in every connection, of the notifications, or of
how requests and passes end.

`CallsSettle` is checked under `FairServiceSpec`: a call that can take a step of
its own (a query, a handler, a commit) again and again takes one. That is the
event loop with handlers and queries that return, and, since a query on PGlite
waits whenever another call has a transaction open, that PGlite takes queries in
the order they come (an external library; without it a live call that follows
many heads could keep a run waiting). A close that began interrupts and
disposes. A live call is not asked to end, and no call is asked to fail.
`CallsSettle` says that there is always a later moment without a close or a run
in progress, which, with finitely many calls, means that each comes to an end.

## Runs

`Finality` is 1 or 2, and reorgs are no deeper than it except in
`growth_and_reorgs`, where `MaxDepth` is 2 and `Finality` 1.

| Run | Instance | Question |
|---|---|---|
| `growth_and_reorgs` | 2 contracts, height 3, 2 reorgs between passes, some deeper than the finality, growth between passes and while syncing | does a pass implement the projection, also after a deep reorg? |
| `pages_and_ranges` | 2 contracts, one ends and one starts at block 2, up to 2 logs of each in a block, pages of 2, batches of 2, height 3, growth between passes and while syncing | do page boundaries inside a block, or logs around a range, lose or add events, does the reported progress run ahead of what is stored, or reach its total early? |
| `stops_and_reorgs` | 2 contracts, height 3, 1 stop in any phase, 1 reorg, growth between passes | do restarts skip or repeat an event, leave orphans, or fail a run? |
| `live_follows` | 4 contracts of which 2 print, height 3, 1 reorg between heads, growth between passes, heads that lag by 1 | does a head's pass handle exactly what is due, whichever way it is fetched? |
| `anything_goes` | 1 contract, historical and live passes, growth and 1 reorg in any phase and under a waiting head, any tip answer, lagging heads, 2 stops | does the finalized marker hold in all circumstances? |
| `catches_up` | 2 contracts, height 3, historical and live passes, 1 reorg, growth in any phase, `FairLiveSpec` | is every event eventually handled? |
| `heads` | websocket with fallback, budgets of 2 failures over 2 ticks, 1 retry on each level, polls every tick, stalls after 2, 2 frames, blocks up to 2 behind, `FairHeadsSpec` | do heads arrive through broken connections, failures and the fallback? |
| `definitions` | 2 contracts, each undefined or starting at 0 or 3 and ending at 2 or never, height 3, any number of calls and stops | does an accepted change of definitions lose an event? |
| `service` | 2 calls of either kind, at once or one after the other, both databases, height 1 with an end block there, rewinds to any height, any number of heads, handles and crashes, `FairServiceSpec` | do phase, writes and counts stay right under failures, interrupts and crashes, and does every run and close end? |

`HandledThroughCheckpoint` is not repeated where `ImplementsProjection` is
checked: the refinement implies it there. Deadlock is not checked in `heads`,
where `live` may end, and in `definitions`, where the chain may be at its bound
and every change refused.

The bounds are the smallest at which the cases happen: a catch-up limit of 2
pages of 1 log is exceeded by 3 events; a finality of 1 is passed by a chain of
3 blocks; one reorg can be followed by a pass, a growth and another pass; two
contracts are enough for one to be ahead of the other; a batch size of 1 commits
every block by itself, one of 2 joins blocks; four contracts make a gap of two
blocks cheaper to fetch by block, two an empty block. Each contract prints 0 or
1 logs in a block (up to 2 in `pages_and_ranges`), chosen freely for each block,
so empty blocks, shared blocks and contracts without events are all included.
In `heads` two failures are the least that tells a streak from a failure and one
connection from two, a span of 2 ticks separates a dense streak from a long one,
and a distance of 2 tells the tip, the block before it and everything older
apart. In `definitions` a start above the other range's end makes ranges that
move past each other, and 3 blocks let one lie below, in and above them. In
`service` the second call is the one that overlaps, or meets what the first left
behind; phase and counts do not depend on heights, and one block is enough for a
batch that fails after its handler wrote, is rewound, handled again and
committed. Batches of several blocks are in the other runs and in the theorems.
Nothing but `MaxActive` is bounded: a pass has a count of its own, so the states
are finite however many heads come.
`Contents` narrows the choice where live indexing multiplies the states: in
`live_follows` contract 2 prints only with contract 1 and the others never.
`anything_goes` has a single contract: the finalized marker moves with the tip
and the checkpoint, which contracts share, and one contract leaves room for
every other freedom at once.
Contracts are not symmetric (ties in the scheduler follow the definition
order), so no symmetry is used, except in `definitions`, where nothing tells
contracts apart.

### Findings

These runs check what the repository says and find it violated.

* `stop_then_rewind`: schema.ts:70, "Every event of the contract at or below
  this height is stored". A pass stores a page above its own tip and stops. The
  next pass rewinds to the anchor, which deletes the page's events; but the
  forward cursor is cleared only in rows whose synced height is above the
  rewind height (`sync-store/index.ts:485-493`), and this row's is not. The
  sync resumes at the cursor and the events below it are never fetched again.
* `end_block_missed`: realtime.ts:183-185, "every contract synced through the
  anchor (the previous pass completed)". The pass of the head at a contract's
  end block fails after the other contracts were stored. The next head is
  planned with the contracts syncing above the anchor, which leaves out the one
  that ended there; it is fetched block by block, and the checkpoint passes
  the events the ended contract still misses.

* `latest_left_behind`: README.md:497 says calls that cannot index their
  contracts without missing events fail. The definitions are compared by the
  word "latest", which every call resolves to another height. Next to a
  contract without an endBlock, the checkpoint the contracts share has passed
  the "latest" contract's newer events when the next call is accepted; they are
  synced and never handled. No concurrency is needed.

### Known consequences

These follow from the code as well. They are stated here and are not runs of
their own; the models above exclude or tolerate them as said.

* Discovery looks only at a contract's own transactions. A contract whose
  events come from calls made by other contracts (the case
  test-utils/fake-chain.ts:283-287 describes) is done on its first pass without
  reading its newest page, and the final index passes its events, although
  historical.ts:524-525 says every contract's newest events are fetched
  (`Hidden` is empty in the runs). One that is further behind than the catch-up
  limit falls back to discovery in every pass (sync/index.ts:451).
* A historical pass whose tip has no hash saves no anchor. When `live` follows it
  with a head that lags more than the finality, that head becomes an anchor
  below the finalized block (realtime.ts:297 compares a head with the anchor only),
  and the next pass rewinds to it: the checkpoint falls behind the finalized
  marker. With tips that have their hash, or heads that lag no more, it cannot
  happen (`LiveFinalizedIsIndexed`).
* Without an anchor and with nothing indexed, stored rows of an orphaned fork
  are kept (reorg.ts:114), although reorg.ts:86-87 says everything above the
  finalized block is replayed.
* A reorg during a sync stores canonical blocks above orphaned ones, which the
  binary search assumes not to exist (reorg.ts:82-84), and may keep an orphan.
* A contract is complete at an end block the chain has not reached, which only
  an anchor undoes (sync/index.ts:380).
* Overlapping calls read the checkpoint and the rows above it before their
  transactions (historical.ts:254). Their batches may commit in any order: a
  handler may run twice or out of order, and the checkpoint may move back,
  whereas README.md:27 and :277 speak of one run. A checkpoint that was read may
  also be saved again after another call moved or rewound it
  (historical.ts:305).
* Overlapping calls can lose an event, although status.ts:29 calls the
  checkpoint the "height through which every event has been indexed" and
  runtime/index.ts:75-77 speaks of concurrent calls. Run A commits the events of
  a page that lie above the anchor. Run B starts, finds the anchor canonical and
  rewinds to it (reorg.ts:133), which deletes them. A then saves its progress
  past them, in a transaction of its own (sync/index.ts:738 and :793). B loads
  that row, syncs what lies above it, and its checkpoint passes an event that was
  deleted and never handled. No reorganization and no failure is needed.
* A pass whose tip could not be read removes the anchor, and the next one
  replays everything above the finalized block (reorg.ts:118): the checkpoint
  moves back below a pass that was completed, without any overlap. So does the
  reconciliation of a reorganization (reorg.ts:177), which in a live call happens
  while the phase says "live".
* When `live` ends under a `run` that overlapped it, the phase stays "live"
  until the run ends, and a status says ready (status.ts:11).
* A second `close` returns at once, while the first may still wait; and a close
  does not wait for a `run` in flight, which finds its database closed.
* Two blocks that come during the poll of a reconnect are emitted as the
  newest, the older, the newest (heads.ts:195-196 says the poll cannot reorder
  heads). The pass skips the older one; nothing is lost.

## Proofs

| Theorem | Module | Says |
|---|---|---|
| `TypeCorrect` | `IndexerProofs` | `Spec => [](TypeOK /\ PagesHeld)` |
| `PeakInvariant` | `IndexerProofs` | `Spec => [](TypeInv /\ PeakInv)` |
| `FinalityInvariant` | `IndexerProofs` | `Spec => [](TypeOK /\ PeakInv /\ FinalityInv)` |
| `FinalizedIsIndexed` | `IndexerProofs` | `Spec => []FinalizedBelowCheckpoint` |
| `FinalizedNeverMovesBack` | `IndexerProofs` | `Spec => FinalizedMonotone` |
| `FinalWorkIsKept` | `IndexerProofs` | `Spec => FinalNeverReplayed` |
| `PageReaches`, `NextContinues`, `FirstCursorIs` | `IndexerProofs` | what a page, its `next` and `prev` cursors and first-event discovery answer |
| `HandledAtMostOnce` | `SoundnessProofs` | `Spec => []NothingHandledTwice` |
| `SoundInvariant` | `SoundnessProofs` | `Spec => [](TypeInv /\ SoundInv)` |
| `StoredStaysCanonical` | `SoundnessProofs` | `Spec => []StoredIsCanonical` |
| `FinalizedWorkStands` | `SoundnessProofs` | `Spec => []FinalizedStands` |
| `NeverReorgError` | `SoundnessProofs` | `Spec => []NoReorgError` |
| `StoredInvariant` | `CompletenessProofs` | `Spec => [](TypeInv /\ StoredInv)` |
| `SyncedIsStored` | `CompletenessProofs` | `Spec => []SyncedMeansStored` |
| `OfferedStaysStored` | `CompletenessProofs` | `Spec => []OfferedHeightsAreStored` |
| `StoredToTheTip` | `CompletenessProofs` | `Spec => []StoredThroughTip` |
| `HandledToTheCheckpoint` | `CompletenessProofs` | `Spec => []HandledThroughCheckpoint` |
| `PagesStayFetchable` | `CompletenessProofs` | no transaction batch of a syncing pass lacks a transaction |
| `KeepsProjection` | `CompletenessProofs` | `Spec => ImplementsProjection` |
| `LiveTypeCorrect` | `LiveProofs` | `LiveSpec => [](LiveTypeOK /\ PagesHeld)` |
| `LivePeakInvariant` | `LiveProofs` | `LiveSpec => []LivePeakInv` |
| `LiveFinalizedIsIndexed` | `LiveProofs` | `LiveSpec => []FinalizedBelowCheckpoint` |
| `LiveFinalizedNeverMovesBack` | `LiveProofs` | `LiveSpec => FinalizedMonotone` |
| `LiveFinalWorkIsKept` | `LiveProofs` | `LiveSpec => FinalNeverReplayed` |
| `LiveHandledAtMostOnce` | `LiveProofs` | `LiveSpec => []NothingHandledTwice` |
| `LiveSoundInvariant` | `LiveProofs` | `LiveSpec => []LiveSoundInv` |
| `LiveStoredStaysCanonical` | `LiveProofs` | `LiveSpec => []StoredIsCanonical` |
| `LiveFinalizedWorkStands` | `LiveProofs` | `LiveSpec => []FinalizedStands` |
| `LiveNeverReorgError` | `LiveProofs` | `LiveSpec => []NoReorgError` |
| `LiveCanonicalNeverReplayed` | `LiveProofs` | `LiveSpec => CanonicalNeverReplayed` |
| `LiveStoredInvariant` | `LiveProofs` | `LiveSpec => []LiveStoredInv` |
| `LiveTipIsHandled` | `LiveProofs` | `LiveSpec => []TipIsHandled` |
| `LiveStoredBelowNextBlock` | `LiveProofs` | `LiveSpec => []StoredBelowNextBlock` |
| `LiveSyncedIsStored` | `LiveProofs` | `LiveSpec => []SyncedMeansStored` |
| `LiveStoredToTheTip` | `LiveProofs` | `LiveSpec => []StoredThroughTip` |
| `LiveHandledToTheCheckpoint` | `LiveProofs` | `LiveSpec => []HandledThroughCheckpoint` |
| `LiveKeepsProjection` | `LiveProofs` | `LiveSpec => ImplementsProjection` |
| `ReportInvariant` | `ProgressProofs` | `ProgressSpec => []ReportInv`, with the invariants of a pass |
| `ReportedNeverAhead` | `ProgressProofs` | `ProgressSpec => []ReportedIsStored` |
| `ReportReachesTheTip` | `ProgressProofs` | no contract completes more than its range; with all ranges completed everything up to the tip is stored |
| `ServiceInvariant` | `ServiceProofs` | `ServiceSpec => []ServiceInv` |
| `PhaseStaysMatched` | `ServiceProofs` | `ServiceSpec => []PhaseMatchesCalls` |
| `ReadyIsAfterPass` | `ServiceProofs` | `ServiceSpec => []ReadyAfterPass` |
| `PrintsAppliedOnce` | `ServiceProofs` | `ServiceSpec => []AppliedOnce` |
| `DefinitionsTypeCorrect` | `DefinitionsProofs` | `DefinitionsSpec => []DefinitionsTypeOK` |
| `DefinitionsLoseNoEvent` | `DefinitionsProofs` | `DefinitionsSpec => []NoEventUnindexed` |
| `ProgressIsStored` | `DefinitionsProofs` | `DefinitionsSpec => []SavedProgressHolds` |
| `PassesComplete` | `DefinitionsProofs` | `DefinitionsSpec => []PassIsComplete` |
| `HeadsInvariant` | `HeadsProofs` | `HeadsSpec => []HeadsInv` |
| `AttemptsStayBounded` | `HeadsProofs` | `HeadsSpec => []AttemptsBounded` |
| `NewestStaysTaken` | `HeadsProofs` | `HeadsSpec => []NewestIsTaken` |
| `FallbackStaysEarned` | `HeadsProofs` | `HeadsSpec => []FallbackIsEarned` |
| `SpanIsWaited` | `HeadsProofs` | `HeadsSpec => []EndsOnlyAfterSpan` |
| `StallsStayReported` | `HeadsProofs` | `HeadsSpec => []StallsReportedOnce` |
| `HeadsAreNotMissed` | `HeadsProofs` | `HeadsSpec => []NoHeadMissed` |

`TypeCorrect` needs only the assumptions stated with the constants; TLC checks
`TypeOK` as a part of `LiveTypeOK`, in historical and live passes. `TypeOK` is
not inductive by itself: a saved progress is typed only if the page that was
stored exists and, on the walk back from the newest page, has a cursor;
`PagesHeld` adds that.

`PeakInvariant` has no hypothesis either: whatever the status request answers,
everything a pass stores, reads or offers was mined (`PeakInv`), since cursors,
pages and safe heights all come from logs the API returned or from a tip it
reported. A saved synced height may be above every tip (a contract complete at
its end block, a row the chain shrank behind), so the invariant says where such
a height may stand and that no page is read and nothing offered from there.

`FinalizedNeverMovesBack` needs only that a batch in flight carries a marker
that is not below the stored one (`MarkerInv`). The other two finality theorems
assume `ReorgsAreShallow` (`MaxDepth <= Finality`) and nothing about the tip.
The argument: a height is finalized only when it is `Finality` below the
confirmation height, which is at most the tip of the pass, or without a tip at
most what was indexed; either was mined (`PeakInv`), so the finalized height is
`Finality` below the highest tip ever (`Deep`), and no reorg reaches it. What
could undo it is a rewind, and every rewind goes to the finalized height, to
the anchor, or to an ancestor found in a search that starts at the finalized
height. So the invariant also has to say that the finalized height is at or
below the anchor, the ancestor and everything still probed, and at or below the
tip that becomes the next anchor: `FinalityInv`. The last needs `Deep` and
the reorg bound: a tip read later is not lower than `peak - MaxDepth`. A batch
in flight carries a marker of its own, which must obey the same bounds and stay
at or below the checkpoint; that is the last conjunct.

Chain moves, reorganizations and stops in every phase are covered: the theorems
put no bound on `MinePhases`, `ReorgPhases` and `StopPhases`.

`HandledAtMostOnce` has no hypothesis. What was handled is at or below the
checkpoint and what waits is above it (`HandledInv`): a call reads only rows
above the checkpoint, a batch takes whole blocks from the bottom, and a rewind
lowers the checkpoint and forgets the handled events with the same height.

The other theorems about stored and handled events rest on the paging lemmas of
`IndexerProofs`. A page is the `PageLimit` newest logs at or below its cursor, so
`prev` loses nothing (`PageReaches`), `next` overlaps or touches the page it
follows even inside a block (`NextContinues`), and a block mined on top changes
no page at or below the old tip (`GrownPage`). The logs are a finite set in a
total order; the rank of a log is a cardinality, so these are lemmas about
finite sets and need no induction.

*Nothing wrong is kept* (`SoundInv`, assuming `ReorgsBetweenPasses`: reorgs
come while no pass runs, and a tip is read with its hash). Between two passes
the store is described by a common height `m` of the stored and the canonical
chain. Up to `m` everything is canonical; above it every stored block is
`Outdated`, older than each canonical block above `m` and than every fork still
to come, so that no comparison of hashes can take it for canonical. A reorg
lowers `m` to the fork point, and only then are the blocks between old to the
new fork; that is why forks are ordered (`ForksRise`). The binary search keeps
`ancestor <= m` with the finalized block among what is probed (`SearchInv`),
and a rewind to a height at or below `m` leaves `SoundStore`: all of it is
canonical. Stopping anywhere keeps it, with the chain's height as the next `m`.
Passes may stop in every phase and discovery may overlook any log: neither can
keep anything wrong. `FinalizedWorkStands` and `NeverReorgError` assume
`ReorgsAreShallow` as well, which keeps the finalized height at or below `m`
(by `FinalityInvariant`, a new fork starts above it). The hypotheses are
necessary: a reorg during a sync may keep an orphan (known consequences), and a
tip without a hash leaves no anchor to reconcile with.

*Nothing is missed* (`StoredInv`, assuming `NothingInTheWay`). Here the data up
to the common height is complete too: `handled` is exactly what is due, and
what a `sync_progress` row names is stored. While a pass syncs, each contract
accounts for each of its logs (`ContractInv`). Reading forward, the logs up to its cursor are
stored or on the page at hand, and the next page continues it (`Forward`).
Walking back, the newest page reaches the tip, each page leaves out only what
the older one holds, and the oldest leaves out only what the walk has still to
read or the store has (`Backward`). A contract that is done has everything up to
the tip. Offered heights, safe heights in the queue and the rows of a call
inherit it, and the batches turn it into `handled = Due(checkpoint)`. Growth of
the chain is allowed in every phase: new blocks are above the tip of the pass
and no page below changes. `KeepsProjection` maps `height` to the checkpoint and
`finalized` to its marker; reconciliation is a cut or a stutter of `Projection`,
the consumer extends or confirms, everything else stutters or moves the chain.

`NothingInTheWay` excludes what the repository's own code cannot survive, and
nothing else: reorgs during a pass, as above; logs hidden from discovery
(`Hidden`, the hazard at sync/index.ts:378); and a stop during the sync while
the chain moves, which is the finding `stop_then_rewind` (the rewind deletes
events below a forward cursor that it keeps). With `"sync"` left out of
`StopPhases` the chain may do anything between passes, and with stops in every
phase it must be `Quiet`: it grows between passes only. A pass then resumes
where the last one stopped, at a saved cursor that still continues what is
stored (`ResumeInv`, `Resumable` in `SavedCursors`). `HandledThroughCheckpoint` shares the hypothesis: in
the instance of `stop_then_rewind` TLC finds it violated too, since the lost
events never reach the handlers. The run `stops_and_reorgs` covers stops in
every phase next to reorgs: with growth between passes only and one log in each
block no page reaches above the tip or ends inside a block, and nothing is lost.

*Live indexing.* A step of `LiveSpec` is a step of `Indexer`, or one of the four
that plan a head's pass and fetch its blocks (`LiveSteps`), so each invariant of
a historical pass is proved once for `Next` and once more for those four.
`LiveTypeCorrect`, `LivePeakInvariant`, `LiveFinalizedNeverMovesBack` and
`LiveHandledAtMostOnce` have no hypothesis.

The other two finality theorems assume `ReorgsAreShallow` and `HeadsAreRecent`:
every tip is read with its hash, or a head lags behind the chain, with a reorg,
by no more than the finality. Live rewinds to a trusted anchor without checking
it, so the question is what anchors it has. A head below the anchor is skipped,
so a pass that starts from an anchor never lowers it below the finalized block;
a pass that starts without one takes the head as it comes (`OfferedInv`). The
hypothesis is necessary (see the known consequences).

`LiveSoundInvariant` adds to `SoundInv` that a head which waits, or whose pass
is planned, is a canonical block and that an anchor is trusted only when it is
canonical (`HeadsInv`), assuming `ReorgsBetweenPasses` and that no reorg comes
under a waiting head (`~StaleHeads`). For `LiveCanonicalNeverReplayed` it also
says that a handled event is stored and that the block stored at its height is
its own (`KeptInv`): a rewind goes at least to the newest stored block that is
canonical, so it forgets no event of a canonical block. Passes may stop in every
phase.

`LiveStoredInvariant` adds to `StoredInv` what the shortcuts rely on. Through an
anchor that is canonical everything is stored once its pass is over
(`AnchorInv`); the linked blocks are all the blocks from some height to the tip
of the pass, with everything below stored (`LinkedInv`); and the last call of a
pass holds every row it has still to index (`LastInv`). It assumes
`NothingInTheWayOfHeads`: `NothingInTheWay`, no reorg under a waiting head, and
no stop while a pass syncs, because the finding `end_block_missed` is such a
stop: the next head trusts the anchor of the pass that stopped.

*Progress.* `ProgressSpec` implies `Spec`, so what is proved of a pass holds
under a report. `ReportInv` says that while a contract syncs, its saved row is
not ahead of it and it never falls back below where the report has it start;
with `ContractInv` the blocks reported complete are stored
(`ReportedNeverAhead`, assuming `NothingInTheWay`).

TLC checked `SoundInv` and `StoredInv` as invariants on instances like the runs
(both with and without stops, up to 2 logs in a block, pages of 1 and 2) before
they were proved.

The theorems about the service hold for any number of calls of either kind, any
chain, both databases and any number of crashes, with no hypothesis. `ServiceInv`
types the variables (`Typed`), counts the calls of an open handle and says how
the phase follows them, one that says ready only after a pass (`CallsCounted`,
`PhaseFollows`), and says of each call what it holds in its stage: rows only
while it indexes them, a batch taken from them, writes only inside a transaction
(`CallSound`). `AppliedOnce` is not inductive. It follows from `HandledBelow`:
without overlap the writes that stand end at the checkpoint, the rows a call has
read start above it, and a checkpoint that a call may save again is the one that
is stored. A rewind keeps it at whatever height it stops, since it lowers the
checkpoint and forgets the writes above it together; a batch keeps it, since it
takes its rows from the bottom and commits with its checkpoint; and a failure,
an interrupt, a close or a crash anywhere leaves only what was committed. With
overlap it fails, because another call's commit or rewind moves the checkpoint
under the rows that were read.

The theorems about definitions assume that no endBlock is "latest"
(`Latest \notin Ends`), which `latest_left_behind` shows to be necessary; they
put no bound on the contracts, the ranges, the chain and the sequence of calls.
The invariant `DefinitionsInv` is what a pass keeps of its promises while it is
under way: checkpoint, anchor and tip are in order (`HeightsOrdered`), a pass
works with the recorded ranges (`RangesResolved`), an open contract has stored
everything through its position and a finished one everything through the anchor
(`PositionsHold`), and a pass that ended left no row behind (`PassEnds`). With
them `NoEventUnindexed` is inductive: an added contract starts above the
checkpoint and its old progress, a changed range needs an empty checkpoint, and
indexing reaches no height that an open contract has not stored.

The theorems about heads hold for either transport and for every limit, span,
interval and bound on the blocks in flight; they assume only that `Missing` is
told apart from blocks and requests. None of the properties is inductive, and
`HeadsInv` says of each what it follows from. Attempts are counted in full
rounds of the limiter (`AttemptsCounted`); the waiting head is the last one
emitted (`BufferIsNewest`); a streak is no older than the last success, and the
streak of polls is empty while the websocket is followed
(`StreaksFollowSuccess`); while a stall is unreported the watchdog wakes up
before it is due, because its sleep and the age of the head add up to at most a
stall (`WatchdogWakesUp`); failures count connections without a notification
(`FailuresAreDeaf`). `NewestIsKnown` is why subscribing before the poll leaves
no gap: once the poll was read, a newer block is either the last notification
received or was mined while the server had not handled the subscription.
`HeadsInv` types every variable but the source's sleep, a power of two that the
prover cannot evaluate; TLC checks it in `HeadsTypeOK`.

Only model-checked: `TotalIsStored`, whose totals are sums over the contracts and
would need induction over data (`ReportReachesTheTip` proves of each contract
what the sum relies on); for the same reason the one count in `ServiceTypeOK` and
`EventsCounted`; the sleep in `HeadsTypeOK`, a power of two; and
`EventuallyCaughtUp`, `NeverDeaf` and `CallsSettle`, since liveness under
fairness is beyond the prover.

## Not modelled

* The percentage, the time estimate and the log lines of `runtime/progress.ts`,
  `codec/`, `telemetry/`, `logger/`, metrics: nothing reads them back. Starting
  the exporter is a step of `Service`.
* Which options and definitions are valid (`runtime/config.ts`, the shapes in
  `runtime/contracts.ts`): stateless schemas; that they may be refused is
  modelled.
* Read-only contract calls of handlers (`datasources/api/read-only.ts`): pure
  requests pinned to a block.
* The transactions table apart from its events, and with it the reuse of a
  stored transaction's height when it is mined again (sync/index.ts:713).
* Lint rules, examples and end-to-end scenarios: not part of the program.

## Plan

What is left, in order of importance:

1. The transactions table as a table of its own, with a log's transaction
   mined again on another fork.
2. Transactions hidden from first-event discovery, as a run that shows what is
   missed.
3. Two passes of `Indexer` over one set of tables, as a run that shows how
   overlapping calls lose an event.

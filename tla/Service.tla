------------------------------ MODULE Service ------------------------------
(***************************************************************************)
(* The indexer as its user holds it (promise/index.ts, runtime/index.ts):  *)
(* a handle is created over a database, serves run, live and status calls  *)
(* that may overlap, and is closed.  The calls share the run phase and the *)
(* tables.  Of the tables this module keeps the checkpoint, the anchor and *)
(* which handler writes stand; blocks, events and sync_progress are in     *)
(* modules SyncStore to Indexer.  Here a pass may rewind to any height, and *)
(* may find any of the blocks above the checkpoint stored: whatever the    *)
(* tables hold, and whatever other calls did to them, it is covered.       *)
(***************************************************************************)
EXTENDS Integers, FiniteSetsExt, Functions

CONSTANTS
    None,        \* no value
    Calls,       \* the run and live calls a user makes
    MaxHeight,   \* bound: the chain is 1..MaxHeight
    FirstTip,    \* the height of the chain at first
    BatchSize,   \* blocks in a batch
    EndHeight,   \* getEndBlockHeight: where every contract ended, None if some never does
    Databases,   \* which databases the handle may be opened on
    MaxActive    \* bound: how many calls are active at once

ASSUME ServiceAssumption ==
    /\ IsFiniteSet(Calls)
    /\ FirstTip \in 1..MaxHeight
    /\ MaxHeight \in Nat
    /\ BatchSize \in Nat \ {0}
    /\ EndHeight \in Nat \cup {None}
    /\ Databases \subseteq {"pglite", "postgres"}
    /\ MaxActive \in Nat

VARIABLES
    handle,     \* the lifecycle of the handle
    phase,      \* RunPhase
    active,     \* activeCalls
    calls,      \* the run and live calls
    unreported, \* how many prints were committed in passes that are not over
    passed,     \* a call of this handle completed a pass, for the properties
    database,   \* "pglite" or "postgres"
    tip,        \* the height of the chain
    checkpoint, \* checkpoints.blockHeight, 0 without a row
    anchor,     \* sync_anchors.blockHeight, 0 without a row
    handled,    \* the blocks whose handler writes were committed and not rewound since
    overlapped  \* two calls were active at once, for the properties

storeVars == <<checkpoint, anchor, handled>>
worldVars == <<database, tip>>
vars == <<handle, phase, active, calls, unreported, passed, overlapped, storeVars, worldVars>>

Heights == 1..MaxHeight

IndexerPhase == {"idle", "backfill", "live", "done", "failed"}

\* Where createIndexer and close are.
Building == {"connect", "migrate", "userMigrations", "telemetry", "configure"}
Handle == Building \cup {"none", "disposing", "open", "closing", "closed"}

\* A call works from "prepare" on, until it has "ended".
Working == {"prepare", "reconcile", "anchor", "pass", "batch", "tx", "follow"}
Stage == Working \cup {"none", "ended"}

Call == [kind: {"run", "live"}, at: Stage, following: BOOLEAN,
         to: 0..MaxHeight,          \* the tip of its pass, 0 when it could not be read
         news: BOOLEAN,             \* a newer block is the head of the chain
         safe: 0..MaxHeight,        \* the safe height it indexes to
         last: BOOLEAN,             \* it indexes to the tip for the last time
         read: 0..MaxHeight,        \* the checkpoint it read
         rows: SUBSET Heights,      \* the blocks it is still to index
         upto: 0..MaxHeight,        \* inside a batch: its last block,
         todo: SUBSET Heights,      \* the blocks not executed,
         written: SUBSET Heights,   \* and those a handler wrote for
         count: Nat]                \* eventsByContract of its pass

NoCall == [kind |-> "run", at |-> "none", following |-> FALSE, to |-> 0, news |-> FALSE,
           safe |-> 0, last |-> FALSE, read |-> 0, rows |-> {}, upto |-> 0, todo |-> {},
           written |-> {}, count |-> 0]

Active == {c \in Calls : calls[c].at \in Working}

\* The handle, the phase, the calls and the tables hold values of their kinds,
\* a call waits with rows only for a batch or inside one, a batch is taken from
\* them, and a call that is not executing a batch holds no open writes.
ServiceTypeOK ==
    /\ handle \in Handle
    /\ phase \in IndexerPhase
    /\ active \in 0..Cardinality(Calls)
    /\ calls \in [Calls -> Call]
    /\ \A c \in Calls :
         /\ calls[c].at \notin {"batch", "tx"} => calls[c].rows = {}
         /\ calls[c].at # "tx" => calls[c].todo = {} /\ calls[c].written = {}
         /\ calls[c].at = "tx" =>
              /\ calls[c].upto \in calls[c].rows
              /\ calls[c].todo \cup calls[c].written \subseteq
                   {h \in calls[c].rows : h <= calls[c].upto}
              /\ calls[c].todo \cap calls[c].written = {}
    /\ unreported \in Nat
    /\ passed \in BOOLEAN
    /\ database \in Databases
    /\ tip \in Heights
    /\ checkpoint \in 0..MaxHeight
    /\ anchor \in 0..MaxHeight
    /\ handled \subseteq Heights
    /\ overlapped \in BOOLEAN

ServiceInit ==
    /\ handle = "none"
    /\ phase = "idle"
    /\ active = 0
    /\ calls = [c \in Calls |-> NoCall]
    /\ unreported = 0
    /\ passed = FALSE
    /\ database \in Databases
    /\ tip = FirstTip
    /\ checkpoint = 0
    /\ anchor = 0
    /\ handled = {}
    /\ overlapped = FALSE

-----------------------------------------------------------------------------
(* createIndexer: the layers are built eagerly, one after the other; the     *)
(* first that fails disposes of the others and rejects.                      *)

callVars == <<phase, active, calls, unreported, passed, overlapped>>

\* A new handle is opened when none is and no call is left of the last one.
Create ==
    /\ handle \in {"none", "closed"}
    /\ Active = {}
    /\ handle' = "connect"
    /\ UNCHANGED callVars

Built(from, to) ==
    /\ handle = from
    /\ handle' = to
    /\ UNCHANGED callVars

\* The database is opened; its own tables are created or upgraded, then the
\* user's; the exporter is built after the database and released before it.
Connect == Built("connect", "migrate")
MigrateInternal == Built("migrate", "userMigrations")
MigrateUser == Built("userMigrations", "telemetry")
StartTelemetry == Built("telemetry", "configure")

\* resolveIndexerConfig, then the service with a phase and a count of its own.
Configure ==
    /\ handle = "configure"
    /\ handle' = "open"
    /\ phase' = "idle"
    /\ active' = 0
    /\ passed' = FALSE
    /\ UNCHANGED <<calls, unreported, overlapped>>

BuildFails ==
    /\ handle \in Building \ {"telemetry"}
    /\ handle' = "disposing"
    /\ UNCHANGED callVars
Reject == Built("disposing", "none")

Build ==
    /\ \/ Create
       \/ Connect
       \/ MigrateInternal
       \/ MigrateUser
       \/ StartTelemetry
       \/ Configure
       \/ BuildFails
       \/ Reject
    /\ UNCHANGED <<storeVars, worldVars>>

-----------------------------------------------------------------------------
(* trackRun: calls share the phase.  A fiber is taken to keep running between *)
(* its two Ref operations on the count and the phase.                         *)

\* Only a call that starts while none is active moves the phase.
Acquire ==
    /\ active' = active + 1
    /\ phase' = IF active = 0 THEN "backfill" ELSE phase

\* Mutant of Outcome: only a failed call is not done.
OutcomeUnlessFailed(exit) == IF exit = "failure" THEN "failed" ELSE "done"

Outcome(exit) ==
    CASE exit = "success"   -> "done"
      [] exit = "interrupt" -> "idle"
      [] exit = "failure"   -> "failed"

\* Mutant of Release: every call that ends sets its outcome.
ReleaseAlways(exit) ==
    /\ active' = active - 1
    /\ phase' = Outcome(exit)

\* Only the last call to end sets its outcome.
Release(exit) ==
    /\ active' = active - 1
    /\ phase' = IF active = 1 THEN Outcome(exit) ELSE phase

\* run() and live(): ensureOpen, then trackRun.
StartCall(c, kind) ==
    /\ handle = "open"
    /\ active < MaxActive
    /\ calls[c].at = "none"
    /\ calls' = [calls EXCEPT ![c] = [NoCall EXCEPT !.kind = kind, !.at = "prepare"]]
    /\ Acquire
    /\ overlapped' = (overlapped \/ active > 0)
    /\ UNCHANGED <<handle, unreported, passed, storeVars, worldVars>>

\* Nothing of a call outlives it.
Over == [NoCall EXCEPT !.at = "ended"]

\* The effect of a call is over: an open transaction is rolled back, its count
\* is returned or lost with it, and its place is released.
Exit(c, exit) ==
    /\ calls' = [calls EXCEPT ![c] = Over]
    /\ unreported' = unreported - calls[c].count
    /\ Release(exit)

-----------------------------------------------------------------------------
(* What a call does: prepareContracts, a pass to the tip it read, and for    *)
(* live a pass for each new head.                                            *)

around == <<handle, overlapped, worldVars>>
kept == <<around, active, phase, passed>>

\* On PGlite every query waits for the transaction in progress.
CanQuery(c) == database = "pglite" => \A d \in Calls \ {c} : calls[d].at # "tx"

\* The database of a disposed runtime is closed.
HasDatabase(c) == handle # "closed" /\ CanQuery(c)

\* prepareContracts accepted the definitions; the chain tip is read, or cannot
\* be: then the pass goes on without one, and any head is news to a live call.
Prepare(c) ==
    /\ calls[c].at = "prepare"
    /\ HasDatabase(c)
    /\ \/ calls' = [calls EXCEPT ![c].at = "reconcile", ![c].to = tip, ![c].news = FALSE]
       \/ calls' = [calls EXCEPT ![c].at = "reconcile", ![c].news = calls[c].kind = "live"]
    /\ UNCHANGED <<kept, unreported, storeVars>>

\* rewindTo: a checkpoint above the height is lowered to it, and what was
\* handled above it is to be handled again.
Rewind(height) ==
    /\ checkpoint' = IF checkpoint > height THEN height ELSE checkpoint
    /\ handled' = {h \in handled : h <= height}
    /\ UNCHANGED anchor

\* reconcileWithCanonicalChain: the pass rewinds to the anchor, to the finalized
\* height or to a common ancestor.
ReconcileWithCanonicalChain(c) ==
    /\ calls[c].at = "reconcile"
    /\ HasDatabase(c)
    /\ \E height \in 0..MaxHeight : Rewind(height)
    /\ calls' = [calls EXCEPT ![c].at = "anchor"]
    /\ UNCHANGED <<kept, unreported>>

\* The tip becomes the anchor; one that was not read, or came without a hash,
\* removes it.
SetAnchor(c) ==
    /\ calls[c].at = "anchor"
    /\ HasDatabase(c)
    /\ anchor' \in {calls[c].to, 0}
    /\ calls' = [calls EXCEPT ![c].at = "pass"]
    /\ UNCHANGED <<kept, unreported, checkpoint, handled>>

\* indexingCap: without a tip, everything stored is indexed.
Cap(c) == IF calls[c].to = 0 THEN MaxHeight ELSE calls[c].to

\* indexEventsUpTo: the checkpoint and the rows above it are read, outside of
\* any transaction.  Which of the blocks are stored depends on what this call
\* and others synced and rewound.
ReadRows(c, safe, last) ==
    /\ calls[c].at = "pass"
    /\ ~calls[c].last
    /\ HasDatabase(c)
    /\ \E rows \in SUBSET {h \in Heights : checkpoint < h /\ h <= safe} :
         calls' = [calls EXCEPT ![c].at = "batch", ![c].safe = safe, ![c].last = last,
                                ![c].read = checkpoint, ![c].rows = rows]
    /\ UNCHANGED <<kept, unreported, storeVars>>

\* For a safe height of the sync, and at last for the tip.
IndexSafeHeight(c) == \E safe \in (calls[c].safe + 1)..Cap(c) : ReadRows(c, safe, FALSE)
IndexToTip(c) == ReadRows(c, Cap(c), TRUE)

\* No row is left.
NothingToIndex(c) ==
    /\ calls[c].at = "batch"
    /\ calls[c].rows = {}
    /\ calls' = [calls EXCEPT ![c].at = "pass"]
    /\ UNCHANGED <<kept, unreported, storeVars>>

\* There was none, and the block of the checkpoint became final: the checkpoint
\* that was read is saved again with its finalized height.
Confirm(c) ==
    /\ calls[c].at = "batch"
    /\ calls[c].rows = {}
    /\ calls[c].read > 0
    /\ HasDatabase(c)
    /\ checkpoint' = calls[c].read
    /\ calls' = [calls EXCEPT ![c].at = "pass"]
    /\ UNCHANGED <<kept, unreported, anchor, handled>>

\* Mutant of Batch: a batch begins with the block of the checkpoint.
BatchFromCheckpoint(c, upto) == calls[c].read..upto

\* chunkEventsByBlock: the rows through a block.
Batch(c, upto) == {h \in calls[c].rows : h <= upto}

\* indexBatch: a transaction is opened for the next rows.
BeginBatch(c) ==
    /\ calls[c].at = "batch"
    /\ HasDatabase(c)
    /\ \E upto \in calls[c].rows :
         /\ Cardinality(Batch(c, upto)) <= BatchSize
         /\ calls' = [calls EXCEPT ![c].at = "tx", ![c].upto = upto, ![c].todo = Batch(c, upto)]
    /\ UNCHANGED <<kept, unreported, storeVars>>

\* executeRow takes the next row of the batch.
NextRow(c, h) ==
    /\ calls[c].at = "tx"
    /\ handle # "closed"
    /\ h \in calls[c].todo
    /\ \A g \in calls[c].todo : h <= g

\* The row is skipped: it is out of its contract's range, no handler is defined
\* for it, or onInvalid drops it.
SkipRow(c) ==
    /\ \E h \in Heights :
         /\ NextRow(c, h)
         /\ calls' = [calls EXCEPT ![c].todo = @ \ {h}]
    /\ UNCHANGED <<kept, unreported, storeVars>>

\* runHandler: the handler's awaited queries use the open transaction.
HandleRow(c) ==
    /\ \E h \in Heights :
         /\ NextRow(c, h)
         /\ calls' = [calls EXCEPT ![c].todo = @ \ {h}, ![c].written = @ \cup {h}]
    /\ UNCHANGED <<kept, unreported, storeVars>>

\* The print does not match and onInvalid is "fail", or the handler throws.
RowFails(c) ==
    /\ \E h \in Heights : NextRow(c, h)
    /\ Exit(c, "failure")
    /\ UNCHANGED <<around, passed, storeVars>>

\* The handlers' writes of a batch become visible.
Apply(written) ==
    /\ handled' = handled \cup written
    /\ unreported' = unreported + Cardinality(written)
    /\ UNCHANGED anchor

\* Mutant of Commit: the handlers' writes commit without the checkpoint.
CommitWritesAlone(c) ==
    /\ Apply(calls[c].written)
    /\ UNCHANGED checkpoint

\* The handlers' writes and the checkpoint commit together.
Commit(c) ==
    /\ Apply(calls[c].written)
    /\ checkpoint' = calls[c].upto

\* Mutant of Counted: every row of the batch is counted.
CountedRows(c) == Cardinality(Batch(c, calls[c].upto))

\* The prints passed to handlers in the batch.
Counted(c) == Cardinality(calls[c].written)

\* A batch is counted once it is committed, and the rows after it follow.
CommitBatch(c) ==
    /\ calls[c].at = "tx"
    /\ calls[c].todo = {}
    /\ handle # "closed"
    /\ Commit(c)
    /\ \E rest \in {{h \in calls[c].rows : h > calls[c].upto}} :
         calls' = [calls EXCEPT ![c].at = IF rest = {} THEN "pass" ELSE "batch", ![c].rows = rest,
                                ![c].upto = 0, ![c].written = {}, ![c].count = @ + Counted(c)]
    /\ UNCHANGED kept

\* The rows up to the tip are indexed.
PassDone(c) ==
    /\ calls[c].at = "pass"
    /\ calls[c].last
    /\ passed' = TRUE
    /\ UNCHANGED <<around, storeVars>>

IsComplete(height) == EndHeight # None /\ height >= EndHeight

\* A live call ends where every contract did: after its historical pass it
\* looks at the anchor, which another call may have moved, and later at its
\* head.
LiveEnds(c) ==
    IF calls[c].following THEN IsComplete(calls[c].to)
                          ELSE anchor > 0 /\ IsComplete(anchor)

\* run returns its result, live its end.
Finish(c) ==
    /\ PassDone(c)
    /\ calls[c].kind = "run" \/ (HasDatabase(c) /\ LiveEnds(c))
    /\ Exit(c, "success")

\* Waiting for heads, a live call has no pass: the count of the last was logged
\* or lost, the next one has its own.
NoPass(c) ==
    /\ calls' = [calls EXCEPT ![c].at = "follow", ![c].following = TRUE, ![c].safe = 0,
                              ![c].last = FALSE, ![c].read = 0, ![c].count = 0]
    /\ unreported' = unreported - calls[c].count

\* runLive follows the heads once its historical pass is done.
Follow(c) ==
    /\ PassDone(c)
    /\ calls[c].kind = "live"
    /\ HasDatabase(c)
    /\ ~LiveEnds(c)
    /\ NoPass(c)
    /\ phase' = IF calls[c].following THEN phase ELSE "live"
    /\ UNCHANGED active

\* processHead: a head that is not older than the anchor starts a pass to it.
TakeHead(c) ==
    /\ calls[c].at = "follow"
    /\ HasDatabase(c)
    /\ calls[c].news
    /\ tip >= anchor
    /\ calls' = [calls EXCEPT ![c].at = "reconcile", ![c].to = tip, ![c].news = FALSE]
    /\ UNCHANGED <<kept, unreported, storeVars>>

\* The pass of a head fails on a transient error of a request, while it
\* reconciles or fetches: the next head retries it.
SkipHead(c) ==
    /\ calls[c].following
    /\ calls[c].at = "reconcile" \/ (calls[c].at = "pass" /\ ~calls[c].last)
    /\ NoPass(c)
    /\ UNCHANGED <<kept, storeVars>>

\* A call fails on an error that is not retried, or its caller interrupts it.
Fail(c) ==
    /\ calls[c].at \in Working
    /\ \E exit \in {"failure", "interrupt"} : Exit(c, exit)
    /\ UNCHANGED <<around, passed, storeVars>>

-----------------------------------------------------------------------------
(* close, and what happens around a handle. *)

\* close: `closed` is set, so that no call starts any more.
Close ==
    /\ handle = "open"
    /\ handle' = "closing"
    /\ UNCHANGED <<callVars, storeVars, worldVars>>

Live(c) == calls[c].kind = "live" /\ c \in Active

\* Mutant of InterruptLive: a live call that waits for a head is left alone.
InterruptBusy(c) ==
    /\ handle = "closing"
    /\ Live(c)
    /\ calls[c].at # "follow"
    /\ Exit(c, "interrupt")
    /\ UNCHANGED <<around, passed, storeVars>>

\* Live calls are interrupted; an interrupted live call resolves.
InterruptLive(c) ==
    /\ handle = "closing"
    /\ Live(c)
    /\ Exit(c, "interrupt")
    /\ UNCHANGED <<around, passed, storeVars>>

\* Once they ended the runtime is disposed of: the exporter is flushed and the
\* database closed.
Dispose ==
    /\ handle = "closing"
    /\ \A c \in Calls : ~Live(c)
    /\ handle' = "closed"
    /\ UNCHANGED <<callVars, storeVars, worldVars>>

\* A run close did not wait for finds its database closed.
LoseDatabase(c) ==
    /\ handle = "closed"
    /\ calls[c].at \in Working
    /\ Exit(c, "failure")
    /\ UNCHANGED <<around, passed, storeVars>>

\* The chain gets a newest block, on top of the last or of another fork.
NewBlock ==
    /\ tip' \in Heights
    /\ calls' = [c \in Calls |-> [calls[c] EXCEPT !.news = @ \/ Live(c)]]
    /\ UNCHANGED <<handle, phase, active, unreported, passed, overlapped, storeVars, database>>

TotalCount == FoldFunction(LAMBDA n, m : n + m, 0, [c \in Calls |-> calls[c].count])

\* The process crashes: only the database is left.
Crash ==
    /\ handle \notin {"none", "closed"}
    /\ handle' = "none"
    /\ phase' = "idle"
    /\ active' = 0
    /\ calls' = [c \in Calls |-> IF c \in Active THEN Over ELSE calls[c]]
    /\ unreported' = unreported - TotalCount
    /\ passed' = FALSE
    /\ UNCHANGED <<overlapped, storeVars, worldVars>>

\* What a call does of itself.
Step(c) ==
    \/ Prepare(c)
    \/ ReconcileWithCanonicalChain(c)
    \/ SetAnchor(c)
    \/ IndexSafeHeight(c)
    \/ IndexToTip(c)
    \/ NothingToIndex(c)
    \/ Confirm(c)
    \/ BeginBatch(c)
    \/ SkipRow(c)
    \/ HandleRow(c)
    \/ RowFails(c)
    \/ CommitBatch(c)
    \/ Finish(c)
    \/ Follow(c)
    \/ LoseDatabase(c)

ServiceNext ==
    \/ Build
    \/ \E c \in Calls, kind \in {"run", "live"} : StartCall(c, kind)
    \/ \E c \in Calls :
         \/ Step(c)
         \/ TakeHead(c)
         \/ SkipHead(c)
         \/ Fail(c)
         \/ InterruptLive(c)
    \/ Close
    \/ Dispose
    \/ NewBlock
    \/ Crash

ServiceSpec == ServiceInit /\ [][ServiceNext]_vars

\* The scheduler runs every fiber, handlers and queries return, PGlite takes
\* queries in the order they come, and a close goes on once it started.
FairServiceSpec ==
    /\ ServiceSpec
    /\ \A c \in Calls : SF_vars(Step(c)) /\ WF_vars(InterruptLive(c))
    /\ WF_vars(Dispose)

-----------------------------------------------------------------------------
(* Properties. *)

\* runtime/index.ts:75-77: the phase tells what the calls do together, however
\* they overlap: it names a result only while none is active, and it is "live"
\* while a live call follows the chain, whatever other calls start or end.  It
\* may stay "live" after that call ended, under one that overlapped it.
PhaseMatchesCalls ==
    handle \in {"open", "closing"} =>
        /\ active = Cardinality(Active)
        /\ Active = {} <=> phase \in {"idle", "done", "failed"}
        /\ (\E c \in Active : calls[c].following) => phase = "live"
        /\ phase = "live" /\ ~overlapped => \E c \in Active : calls[c].kind = "live"

\* status.ts:28: a status call that reads "live" or "done" and so says ready is
\* right that a historical pass of this handle finished, however the calls that
\* share the phase overlap, fail or are interrupted.  How far the checkpoint it
\* reads next has come is not in the phase: any pass may have rewound it.
ReadyAfterPass == handle = "open" /\ phase \in {"live", "done"} => passed

\* README.md:27: no handler writes twice for a print, unless the chain or an
\* unreadable tip had it rewound in between: not when a call fails, is
\* interrupted, closed or crashes, wherever it is.  Calls that overlap may:
\* each reads the checkpoint and the rows before it opens its transaction.
AppliedOnce == ~overlapped => \A c \in Calls : calls[c].written \cap handled = {}

\* RunResult.eventsProcessed: a pass counts the prints whose handler's writes
\* it committed, none of a batch that was rolled back or of another call.
EventsCounted == unreported = TotalCount

\* Every run returns, and close ends: no transaction, live call or closed
\* database keeps them waiting.  Calls are finitely many, so there is always
\* a later moment at which no run and no close is in progress.
CallsSettle ==
    []<>(handle # "closing" /\ \A c \in Calls : calls[c].kind = "live" \/ c \notin Active)

=============================================================================

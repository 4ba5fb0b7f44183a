----------------------------- MODULE SyncStore -----------------------------
(***************************************************************************)
(* The sync store (sync-store/index.ts, schema.ts): the tables that        *)
(* survive a restart, and the transactions on them.  Transaction rows are  *)
(* not kept apart from event rows: each log has a transaction of its own.  *)
(*                                                                         *)
(* `handled` is a history variable: the events whose handler writes stand, *)
(* that is, the handler calls committed and not discarded by a later       *)
(* rewind.                                                                 *)
(***************************************************************************)
EXTENDS Chain

CONSTANTS
    StartBlock,  \* each contract's first block; 0 where undefined
    EndBlock     \* each contract's last block, None where undefined

ASSUME RangeAssumption ==
    /\ StartBlock \in [Contracts -> Nat]
    /\ EndBlock \in [Contracts -> Nat \cup {None}]

HasEnd(c) == EndBlock[c] # None
InRange(c, h) == StartBlock[c] <= h /\ (HasEnd(c) => h <= EndBlock[c])

VARIABLES
    blocks,      \* blocks table: the stored hash (fork) at each height
    events,      \* events table
    progress,    \* sync_progress row of each contract, None if absent
    checkpoint,  \* checkpoints row, None if absent
    anchor,      \* sync_anchors row, None if absent
    handled

storeVars == <<blocks, events, progress, checkpoint, anchor, handled>>

Progress ==
    [cursor: Position \cup {None}, synced: Nat, isComplete: BOOLEAN]
Checkpoint == [blockHeight: Nat, finalized: Nat]
Anchor == [height: Heights, hash: Forks]

\* None is no row.
ASSUME RowAssumption ==
    /\ None \notin Progress
    /\ None \notin Checkpoint
    /\ None \notin Anchor

StoreTypeOK ==
    /\ blocks \in [Heights -> Forks \cup {None}]
    /\ events \subseteq Event
    /\ progress \in [Contracts -> Progress \cup {None}]
    /\ checkpoint \in Checkpoint \cup {None}
    /\ anchor \in Anchor \cup {None}
    /\ handled \subseteq Event

StoreInit ==
    /\ blocks = [h \in Heights |-> None]
    /\ events = {}
    /\ progress = [c \in Contracts |-> None]
    /\ checkpoint = None
    /\ anchor = None
    /\ handled = {}

CheckpointHeight == IF checkpoint = None THEN 0 ELSE checkpoint.blockHeight
FinalizedHeight == IF checkpoint = None THEN 0 ELSE checkpoint.finalized

\* insertBlocks, for the blocks of new events: a row already stored at a height
\* is kept (ON CONFLICT DO NOTHING).
InsertBlocks(new) ==
    blocks' = [h \in Heights |->
                IF blocks[h] = None /\ \E e \in new : e.height = h
                THEN (CHOOSE e \in new : e.height = h).fork
                ELSE blocks[h]]

\* insertEvents, in the transaction that inserts their blocks.
InsertEvents(new) ==
    /\ InsertBlocks(new)
    /\ events' = events \cup new

\* getStoredBlocks: the heights of the rows within low..high.
StoredBlocks(low, high) == {h \in low..high : h > 0 /\ blocks[h] # None}

UpsertCheckpoint(height, finalized) ==
    checkpoint' = [blockHeight |-> height, finalized |-> finalized]

UpsertSyncProgress(c, cursor, synced, isComplete) ==
    progress' = [progress EXCEPT ![c] =
                   [cursor |-> cursor, synced |-> synced, isComplete |-> isComplete]]

\* raiseSyncedBlockHeight: rows still syncing and lower are raised.
RaiseSyncedBlockHeight(cs, height) ==
    progress' = [c \in Contracts |->
                   IF /\ c \in cs
                      /\ progress[c] # None
                      /\ ~progress[c].isComplete
                      /\ progress[c].synced < height
                   THEN [progress[c] EXCEPT !.synced = height]
                   ELSE progress[c]]

\* Mutant of RewindTo: the rows of sync_progress stay as they are.
RewindKeepingProgress(height) ==
    /\ events' = {e \in events : e.height <= height}
    /\ blocks' = [h \in Heights |-> IF h > height THEN None ELSE blocks[h]]
    /\ checkpoint' = IF checkpoint # None /\ checkpoint.blockHeight > height
                     THEN [checkpoint EXCEPT !.blockHeight = height]
                     ELSE checkpoint
    /\ handled' = {e \in handled : e.height <= height}
    /\ UNCHANGED <<progress, anchor>>

\* Mutant of RewindTo: a checkpoint above the height is deleted, not lowered.
RewindDroppingCheckpoint(height) ==
    /\ events' = {e \in events : e.height <= height}
    /\ blocks' = [h \in Heights |-> IF h > height THEN None ELSE blocks[h]]
    /\ progress' = [c \in Contracts |->
                      IF progress[c] # None /\ progress[c].synced > height
                      THEN [cursor |-> None, synced |-> height, isComplete |-> FALSE]
                      ELSE progress[c]]
    /\ checkpoint' = IF CheckpointHeight > height THEN None ELSE checkpoint
    /\ handled' = {e \in handled : e.height <= height}
    /\ UNCHANGED anchor

\* rewindTo: one transaction discards everything above `height`.
RewindTo(height) ==
    /\ events' = {e \in events : e.height <= height}
    /\ blocks' = [h \in Heights |-> IF h > height THEN None ELSE blocks[h]]
    /\ progress' = [c \in Contracts |->
                      IF progress[c] # None /\ progress[c].synced > height
                      THEN [cursor |-> None, synced |-> height, isComplete |-> FALSE]
                      ELSE progress[c]]
    /\ checkpoint' = IF checkpoint # None /\ checkpoint.blockHeight > height
                     THEN [checkpoint EXCEPT !.blockHeight = height]
                     ELSE checkpoint
    /\ handled' = {e \in handled : e.height <= height}
    /\ UNCHANGED anchor

=============================================================================

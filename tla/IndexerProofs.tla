--------------------------- MODULE IndexerProofs ---------------------------
(***************************************************************************)
(* Type correctness of Indexer and its finalized block, for every value of *)
(* its constants.  Whatever happens, every table, page and height keeps    *)
(* its type, nothing above the highest tip is read or offered, and the     *)
(* finalized marker never moves back.  When no reorg is deeper than the    *)
(* finality, the marker stays at or below the checkpoint and no rewind     *)
(* discards handler work at or below it.  And what the API's pages leave   *)
(* out, and what a moving chain leaves of them.                            *)
(***************************************************************************)
EXTENDS Completeness, SequenceTheorems, FiniteSetTheorems, TLAPS

\* What the API answers is typed: its logs are events of the model, and a page
\* of them is a page with positions for cursors.
LEMMA LogsAreEvents ==
    ASSUME ChainTypeOK, NEW c \in Contracts
    PROVE  Logs(c) \subseteq Event
<1> SUFFICES ASSUME NEW h \in 1..top, NEW i \in 1..chain[h].logs[c]
             PROVE  [contract |-> c, height |-> h, index |-> i,
                     fork |-> chain[h].fork] \in Event
    BY DEF Logs
<1>1. h \in Heights /\ chain[h] \in Block
    BY ChainAssumption DEF ChainTypeOK, Heights
<1>2. chain[h].logs[c] \in 0..MaxLogs /\ chain[h].fork \in Forks
    BY <1>1 DEF Block
<1>3. i \in 1..MaxLogs
    BY <1>2, ChainAssumption
<1> QED BY <1>1, <1>2, <1>3 DEF Event

LEMMA CursorInType ==
    ASSUME NEW S \in SUBSET Event
    PROVE  CursorIn(S) \in Position \cup {None}
<1>1. CASE S = {}
    BY <1>1 DEF CursorIn
<1>2. CASE S # {}
    <2>1. (CHOOSE e \in S : TRUE) \in Event
        BY <1>2
    <2> QED BY <1>2, <2>1 DEF CursorIn, CursorOf, Position, Event
<1> QED BY <1>1, <1>2

LEMMA LogsPageType ==
    ASSUME ChainTypeOK, NEW c \in Contracts, NEW cursor
    PROVE  LogsPage(c, cursor) \in Page
<1> DEFINE below == {e \in Logs(c) : cursor # None => AtOrBelow(e, cursor)}
<1>1. below \subseteq Event /\ Logs(c) \ below \subseteq Event
    BY LogsAreEvents
<1> HIDE DEF below
<1>2. \A S \in SUBSET Event : \A n : /\ NthNewest(S, n) \in SUBSET Event
                                     /\ NthOldest(S, n) \in SUBSET Event
    BY DEF NthNewest, NthOldest
<1>3. UNION {NthNewest(below, n) : n \in 1..PageLimit} \in SUBSET Event
  <2>1. \A n \in 1..PageLimit : NthNewest(below, n) \subseteq Event
    BY <1>1, <1>2
  <2> QED BY <2>1
<1>4. /\ CursorIn(NthNewest(below, 1)) \in Position \cup {None}
      /\ CursorIn(NthOldest(Logs(c) \ below, PageLimit)) \in Position \cup {None}
      /\ CursorIn(NthNewest(below, PageLimit + 1)) \in Position \cup {None}
    BY <1>1, <1>2, CursorInType
<1>5. LogsPage(c, cursor) =
        [results |-> UNION {NthNewest(below, n) : n \in 1..PageLimit},
         cursor  |-> CursorIn(NthNewest(below, 1)),
         next    |-> CursorIn(NthOldest(Logs(c) \ below, PageLimit)),
         prev    |-> CursorIn(NthNewest(below, PageLimit + 1))]
    BY DEF LogsPage, below
<1> QED BY <1>3, <1>4, <1>5 DEF Page

LEMMA FirstCursorType ==
    ASSUME ChainTypeOK, NEW c \in Contracts, NEW from
    PROVE  FirstCursor(c, from) \in Position \cup {None}
<1>1. NthOldest(Discoverable(c, from), 1) \in SUBSET Event
    BY LogsAreEvents DEF NthOldest, Discoverable
<1> QED BY <1>1, CursorInType DEF FirstCursor

-----------------------------------------------------------------------------
(* The transactions of the sync store keep its tables typed. *)

LEMMA RewindToType ==
    ASSUME StoreTypeOK, NEW height \in Nat, RewindTo(height)
    PROVE  StoreTypeOK'
<1>1. blocks' \in [Heights -> Forks \cup {None}]
    BY DEF StoreTypeOK, RewindTo
<1>2. events' \subseteq Event /\ handled' \subseteq Event
    BY DEF StoreTypeOK, RewindTo
<1>3. progress' \in [Contracts -> Progress \cup {None}]
    BY DEF StoreTypeOK, RewindTo, Progress
<1>4. checkpoint' \in Checkpoint \cup {None}
    BY DEF StoreTypeOK, RewindTo, Checkpoint
<1>5. anchor' \in Anchor \cup {None}
    BY DEF StoreTypeOK, RewindTo
<1> QED BY <1>1, <1>2, <1>3, <1>4, <1>5 DEF StoreTypeOK

LEMMA InsertedType ==
    ASSUME StoreTypeOK, NEW new \in SUBSET Event, InsertEvents(new)
    PROVE  blocks' \in [Heights -> Forks \cup {None}] /\ events' \subseteq Event
<1>1. \A h \in Heights : (\E e \in new : e.height = h) =>
          (CHOOSE e \in new : e.height = h).fork \in Forks
    BY DEF Event
<1>2. blocks' \in [Heights -> Forks \cup {None}]
    BY <1>1 DEF StoreTypeOK, InsertEvents, InsertBlocks
<1>3. events' \subseteq Event
    BY DEF StoreTypeOK, InsertEvents, InsertBlocks
<1> QED BY <1>2, <1>3

LEMMA InsertEventsType ==
    ASSUME StoreTypeOK, NEW new \in SUBSET Event, InsertEvents(new),
           UNCHANGED <<progress, checkpoint, anchor, handled>>
    PROVE  StoreTypeOK'
BY InsertedType DEF StoreTypeOK

LEMMA UpsertType ==
    ASSUME StoreTypeOK, NEW c \in Contracts, NEW cursor \in Position \cup {None},
           NEW synced \in Nat, NEW isComplete \in BOOLEAN,
           UpsertSyncProgress(c, cursor, synced, isComplete)
    PROVE  progress' \in [Contracts -> Progress \cup {None}]
<1>1. [cursor |-> cursor, synced |-> synced, isComplete |-> isComplete] \in Progress
    BY DEF Progress
<1> QED BY <1>1 DEF UpsertSyncProgress, StoreTypeOK

LEMMA StoredHeights ==
    ASSUME StoreTypeOK
    PROVE  CheckpointHeight \in Nat /\ FinalizedHeight \in Nat
BY DEF StoreTypeOK, CheckpointHeight, FinalizedHeight, Checkpoint

LEMMA ReconcileType ==
    ASSUME ChainTypeOK, StoreTypeOK, PassTypeOK, ReconcileStep
    PROVE  StoreTypeOK' /\ PassTypeOK'
<1> USE DEF PassTypeOK, Phases
<1>0. UNCHANGED storeVars => StoreTypeOK'
    BY DEF storeVars, StoreTypeOK
<1>1. CASE ReadChainTip
    <2>1. top \in Heights /\ chain[top].fork \in Forks
        BY ChainAssumption DEF ChainTypeOK, Heights, Block
    <2>2. tip' \in Tip \cup {None}
        BY <1>1, <2>1, TipReadsAssumption DEF ReadChainTip, Tip
    <2> QED BY <1>0, <1>1, <2>2 DEF ReadChainTip
<1>2. CASE NothingToReplay
    BY <1>0, <1>2 DEF NothingToReplay
<1>3. CASE ReplayUnfinalized
    BY <1>3, StoredHeights, RewindToType DEF ReplayUnfinalized
<1>4. CASE AnchorCanonical
    <2>1. anchor.height \in Nat
        BY <1>4 DEF AnchorCanonical, StoreTypeOK, Anchor, Heights
    <2>2. StoreTypeOK'
        BY <1>4, <2>1, RewindToType DEF AnchorCanonical
    <2> QED BY <1>4, <2>2 DEF AnchorCanonical
<1>5. CASE AnchorOrphaned
    <2>1. anchor.height \in Heights
        BY <1>5 DEF AnchorOrphaned, StoredBlocks, StoreTypeOK, Anchor
    <2>2. probing' \subseteq Heights
        BY <1>5, <2>1, StoredHeights, ChainAssumption DEF AnchorOrphaned, StoredBlocks, Heights
    <2> QED BY <1>0, <1>5, <2>2 DEF AnchorOrphaned, StoredBlocks
<1>6. CASE Probe
    BY <1>0, <1>6 DEF Probe
<1>7. CASE FailWithReorgError
    BY <1>0, <1>7 DEF FailWithReorgError
<1>8. CASE RewindToAncestor
    <2>1. StoreTypeOK'
        BY <1>8, StoredHeights, RewindToType DEF RewindToAncestor, Heights
    <2> QED BY <1>8, <2>1 DEF RewindToAncestor
<1>9. CASE SetSyncAnchor
    <2>1. anchor' \in Anchor \cup {None}
        BY <1>9 DEF SetSyncAnchor, Tip, Anchor
    <2> QED BY <1>9, <2>1 DEF SetSyncAnchor, StoreTypeOK
<1> QED
    BY <1>1, <1>2, <1>3, <1>4, <1>5, <1>6, <1>7, <1>8, <1>9 DEF ReconcileStep

-----------------------------------------------------------------------------
(* The consumer. *)

LEMMA ConfirmationType ==
    ASSUME NEW to \in Int, NEW tipHeight \in Nat \cup {None},
           Confirmation(to, tipHeight) # None
    PROVE  Confirmation(to, tipHeight) \in Int
BY DEF Confirmation, MinOf

LEMMA IndexEventsType ==
    ASSUME StoreTypeOK, IndexTypeOK, NEW to \in Int, NEW tipHeight \in Nat \cup {None},
           IndexEventsUpTo(to, tipHeight)
    PROVE  checkpoint' \in Checkpoint \cup {None} /\ IndexTypeOK'
<1>1. \A t \in Int : FinalizeCheckpointBlock(t) \in Nat
    BY StoredHeights DEF FinalizeCheckpointBlock, MaxOf
<1>2. \A d \in Int : FinalityThreshold(d) \in Int
    BY IndexAssumption DEF FinalityThreshold
<1>3. CASE IndexNothing(to, tipHeight)
    <2>1. CASE checkpoint' = checkpoint
        BY <1>3, <2>1 DEF IndexNothing, UpsertCheckpoint, StoreTypeOK, IndexTypeOK
    <2>2. CASE checkpoint' # checkpoint
        <3>1. /\ checkpoint # None
              /\ Confirmation(to, tipHeight) # None
              /\ checkpoint' = [blockHeight |-> CheckpointHeight, finalized |->
                    FinalizeCheckpointBlock(FinalityThreshold(Confirmation(to, tipHeight)))]
            BY <1>3, <2>2 DEF IndexNothing, UpsertCheckpoint
        <3>2. FinalizeCheckpointBlock(FinalityThreshold(Confirmation(to, tipHeight))) \in Nat
            BY <1>1, <1>2, <3>1, ConfirmationType
        <3>3. checkpoint' \in Checkpoint
            BY <3>1, <3>2, StoredHeights DEF Checkpoint
        <3> QED BY <1>3, <3>3 DEF IndexNothing, UpsertCheckpoint, IndexTypeOK
    <2> QED BY <2>1, <2>2
<1>4. CASE IndexRows(to, tipHeight)
    <2> DEFINE confirmation(last) == IF Confirmation(to, tipHeight) = None THEN last.height
                                     ELSE Confirmation(to, tipHeight)
    <2>1. PICK last \in RowsUpTo(to) :
            batches' = [rows      |-> RowsUpTo(to),
                        threshold |-> FinalityThreshold(confirmation(last)),
                        finalized |-> FinalizeCheckpointBlock(
                                        FinalityThreshold(confirmation(last)))]
        BY <1>4 DEF IndexRows
    <2>2. RowsUpTo(to) \subseteq Event
        BY DEF RowsUpTo, StoreTypeOK
    <2>3. last.height \in Int
        BY <2>2 DEF Event, Heights
    <2>4. confirmation(last) \in Int
        BY <2>3, ConfirmationType
    <2> HIDE DEF confirmation
    <2>5. batches' \in Indexing
        BY <1>1, <1>2, <2>1, <2>2, <2>4 DEF Indexing
    <2> QED BY <1>4, <2>5 DEF IndexRows, IndexTypeOK, StoreTypeOK
<1> QED BY <1>3, <1>4 DEF IndexEventsUpTo

LEMMA IndexBatchType ==
    ASSUME StoreTypeOK, IndexTypeOK, IndexBatch
    PROVE  StoreTypeOK' /\ IndexTypeOK'
<1>1. batches \in Indexing
    BY DEF IndexBatch, UpsertCheckpoint, IndexTypeOK
<1>2. PICK h \in {e.height : e \in batches.rows} :
        \E f \in {batches.finalized} \cup {e.height : e \in Prefix(batches.rows, h)} :
          /\ handled' = handled \cup InContractRange(Prefix(batches.rows, h))
          /\ checkpoint' = [blockHeight |-> h, finalized |-> f]
          /\ batches' = IF batches.rows \ Prefix(batches.rows, h) = {} THEN None
                        ELSE [batches EXCEPT
                                !.rows = batches.rows \ Prefix(batches.rows, h),
                                !.finalized = f]
    BY DEF IndexBatch, UpsertCheckpoint
<1>3. /\ batches.rows \subseteq Event
      /\ Prefix(batches.rows, h) \subseteq Event
      /\ batches.finalized \in Nat
    BY <1>1 DEF Prefix, Indexing
<1>4. h \in Nat
    BY <1>2, <1>3 DEF Event, Heights
<1>5. PICK f \in {batches.finalized} \cup {e.height : e \in Prefix(batches.rows, h)} :
          /\ checkpoint' = [blockHeight |-> h, finalized |-> f]
          /\ batches' = IF batches.rows \ Prefix(batches.rows, h) = {} THEN None
                        ELSE [batches EXCEPT
                                !.rows = batches.rows \ Prefix(batches.rows, h),
                                !.finalized = f]
    BY <1>2
<1>6. f \in Nat
    BY <1>3, <1>5 DEF Event, Heights
<1>7. checkpoint' \in Checkpoint
    BY <1>4, <1>5, <1>6 DEF Checkpoint
<1>8. handled' \subseteq Event
    BY <1>2, <1>3 DEF StoreTypeOK, InContractRange
<1>9. batches' \in Indexing \cup {None}
    BY <1>1, <1>3, <1>5, <1>6 DEF Indexing
<1> QED BY <1>7, <1>8, <1>9 DEF IndexBatch, UpsertCheckpoint, StoreTypeOK, IndexTypeOK

LEMMA RaiseType ==
    ASSUME StoreTypeOK, NEW cs, NEW height \in Nat, RaiseSyncedBlockHeight(cs, height)
    PROVE  progress' \in [Contracts -> Progress \cup {None}]
BY DEF RaiseSyncedBlockHeight, StoreTypeOK, Progress

LEMMA CapType ==
    ASSUME PassTypeOK
    PROVE  IndexingCap \in Int /\ TipHeight \in Nat \cup {None}
BY ChainAssumption DEF PassTypeOK, IndexingCap, TipHeight, Unbounded, Tip, Heights

LEMMA ConsumerType ==
    ASSUME StoreTypeOK, PassTypeOK, SyncTypeOK, IndexTypeOK, PagesHeld, ConsumerStep
    PROVE  StoreTypeOK' /\ PassTypeOK' /\ SyncTypeOK' /\ IndexTypeOK' /\ PagesHeld'
<1>1. CASE IndexSafeHeight
    <2>1. Head(queue) \in Nat /\ Tail(queue) \in Seq(Nat)
        BY <1>1, HeadTailProperties DEF IndexSafeHeight, SyncTypeOK
    <2>2. MinOf(Head(queue), IndexingCap) \in Int
        BY <2>1, CapType DEF MinOf
    <2>3. checkpoint' \in Checkpoint \cup {None} /\ IndexTypeOK'
        BY <1>1, <2>2, CapType, IndexEventsType DEF IndexSafeHeight
    <2> QED
        BY <1>1, <2>1, <2>3
        DEF IndexSafeHeight, StoreTypeOK, PassTypeOK, passVars, SyncTypeOK,
            PagesHeld, HoldsPages
<1>2. CASE IndexBatch /\ UNCHANGED <<passVars, syncVars>>
    BY <1>2, IndexBatchType DEF PassTypeOK, passVars, syncVars, SyncTypeOK,
       PagesHeld, HoldsPages
<1>3. CASE RaiseToTip
    <2>1. progress' \in [Contracts -> Progress \cup {None}]
        <3>1. CASE tip = None
            BY <1>3, <3>1 DEF RaiseToTip, StoreTypeOK
        <3>2. CASE tip # None
            <4>1. tip.height \in Nat
                BY <3>2 DEF PassTypeOK, Tip, Heights
            <4> QED BY <1>3, <3>2, <4>1, RaiseType DEF RaiseToTip
        <3> QED BY <3>1, <3>2
    <2> QED
        BY <1>3, <2>1
        DEF RaiseToTip, StoreTypeOK, PassTypeOK, Phases, syncVars, SyncTypeOK,
            IndexTypeOK, PagesHeld, HoldsPages
<1>4. CASE IndexRemaining
    <2>1. checkpoint' \in Checkpoint \cup {None} /\ IndexTypeOK'
        BY <1>4, CapType, IndexEventsType DEF IndexRemaining
    <2> QED
        BY <1>4, <2>1
        DEF IndexRemaining, StoreTypeOK, PassTypeOK, Phases, syncVars, SyncTypeOK,
            PagesHeld, HoldsPages
<1> QED BY <1>1, <1>2, <1>3, <1>4 DEF ConsumerStep

-----------------------------------------------------------------------------
(* The producer. *)

LEMMA PutState ==
    ASSUME SyncTypeOK, PagesHeld, NEW c \in Contracts,
           NEW t \in SyncState, HoldsPages(t), sync' = [sync EXCEPT ![c] = t]
    PROVE  sync' \in [Contracts -> SyncState] /\ PagesHeld'
BY DEF SyncTypeOK, PagesHeld, HoldsPages

LEMMA EmptyHeld ==
    ASSUME NEW s, s.pages = <<>>, s.mode \notin {"fetched", "stored"}
    PROVE  HoldsPages(s)
BY DEF HoldsPages

LEMMA CompleteType ==
    ASSUME StoreTypeOK, SyncTypeOK, PagesHeld, NEW c \in Contracts, NEW s \in SyncState,
           HasEnd(c), CompleteAtEndBlock(c, s)
    PROVE  /\ sync' \in [Contracts -> SyncState] /\ PagesHeld'
           /\ progress' \in [Contracts -> Progress \cup {None}]
<1> DEFINE t == [s EXCEPT !.mode = "ready", !.cursor = None, !.pages = <<>>,
                          !.synced = EndBlock[c], !.done = TRUE]
<1>1. EndBlock[c] \in Nat
    BY RangeAssumption DEF HasEnd
<1>2. t \in SyncState /\ t.pages = <<>> /\ t.mode = "ready"
    BY <1>1, EmptySeq DEF SyncState, Modes
<1>3. sync' \in [Contracts -> SyncState] /\ PagesHeld'
    BY <1>2, EmptyHeld, PutState DEF CompleteAtEndBlock
<1>4. progress' \in [Contracts -> Progress \cup {None}]
    BY <1>1, UpsertType DEF CompleteAtEndBlock
<1> QED BY <1>3, <1>4

LEMMA BeginBackfillType ==
    ASSUME StoreTypeOK, SyncTypeOK, PagesHeld, NEW c \in Contracts, NEW s \in SyncState,
           s.mode \notin {"fetched", "stored"}, HoldsPages(s),
           NEW cursor \in Position \cup {None}, BeginBackfill(c, s, cursor)
    PROVE  /\ sync' \in [Contracts -> SyncState] /\ PagesHeld'
           /\ progress' \in [Contracts -> Progress \cup {None}]
<1>1. CASE /\ sync' = [sync EXCEPT ![c] = [s EXCEPT !.mode = "ready", !.done = TRUE]]
           /\ UpsertSyncProgress(c, s.cursor, s.synced, FALSE)
    <2> DEFINE t == [s EXCEPT !.mode = "ready", !.done = TRUE]
    <2>1. t \in SyncState /\ HoldsPages(t)
        BY DEF SyncState, Modes, HoldsPages
    <2>2. s.cursor \in Position \cup {None} /\ s.synced \in Nat
        BY DEF SyncState
    <2> QED BY <1>1, <2>1, <2>2, PutState, UpsertType
<1>2. CASE HasEnd(c) /\ CompleteAtEndBlock(c, s)
    BY <1>2, CompleteType
<1>3. CASE /\ cursor # None
           /\ sync' = [sync EXCEPT ![c] =
                         [s EXCEPT !.mode = "ready", !.cursor = cursor,
                                   !.synced = MaxOf(s.synced, cursor.height - 1)]]
           /\ UNCHANGED progress
    <2> DEFINE t == [s EXCEPT !.mode = "ready", !.cursor = cursor,
                              !.synced = MaxOf(s.synced, cursor.height - 1)]
    <2>1. MaxOf(s.synced, cursor.height - 1) \in Nat
        BY <1>3 DEF SyncState, Position, Heights, MaxOf
    <2>2. t \in SyncState /\ HoldsPages(t)
        BY <1>3, <2>1 DEF SyncState, Modes, HoldsPages
    <2> QED BY <1>3, <2>2, PutState DEF StoreTypeOK
<1> QED BY <1>1, <1>2, <1>3 DEF BeginBackfill

LEMMA EndWalkType ==
    ASSUME StoreTypeOK, SyncTypeOK, PagesHeld, NEW c \in Contracts, NEW s \in SyncState,
           HoldsPages(s), EndWalk(c, s)
    PROVE  /\ sync' \in [Contracts -> SyncState] /\ PagesHeld'
           /\ progress' \in [Contracts -> Progress \cup {None}]
<1> DEFINE t == [s EXCEPT !.mode = "ready", !.walk = None,
                          !.done = s.pages = <<>>, !.syncedToHead = s.pages = <<>>]
<1>1. t \in SyncState /\ HoldsPages(t)
    BY DEF SyncState, Modes, HoldsPages
<1> QED BY <1>1, PutState DEF EndWalk, StoreTypeOK

\* A walk puts a page that has a cursor in front of the pages it holds.
LEMMA LongerType ==
    ASSUME NEW s \in SyncState, HoldsPages(s), NEW page \in Page, page.cursor # None
    PROVE  /\ [s EXCEPT !.pages = <<page>> \o s.pages] \in SyncState
           /\ HoldsPages([s EXCEPT !.pages = <<page>> \o s.pages])
<1> DEFINE pages == <<page>> \o s.pages
<1>1. s.pages \in Seq(Page) /\ <<page>> \in Seq(Page) /\ Len(<<page>>) = 1
    BY DEF SyncState
<1>2. /\ pages \in Seq(Page)
      /\ Len(pages) = 1 + Len(s.pages)
      /\ \A i \in 1..Len(pages) :
            pages[i] = IF i <= 1 THEN <<page>>[i] ELSE s.pages[i - 1]
    BY <1>1, ConcatProperties
<1>3. Len(s.pages) \in Nat
    BY <1>1, LenProperties
<1>4. pages # <<>>
    BY <1>2, <1>3, EmptySeq
<1>5. ASSUME s.cursor = None, NEW i \in 1..Len(pages)
      PROVE  pages[i].cursor # None
    <2>1. CASE i = 1
        BY <1>2, <2>1
    <2>2. CASE i # 1
        <3>1. i - 1 \in 1..Len(s.pages) /\ pages[i] = s.pages[i - 1]
            BY <1>2, <1>3, <2>2
        <3> QED BY <1>5, <3>1 DEF HoldsPages
    <2> QED BY <2>1, <2>2
<1>6. ASSUME NEW p \in Seq(Page), p # <<>>,
             s.cursor = None => \A i \in 1..Len(p) : p[i].cursor # None
      PROVE  /\ [s EXCEPT !.pages = p] \in SyncState
             /\ HoldsPages([s EXCEPT !.pages = p])
    BY <1>6 DEF SyncState, HoldsPages
<1> QED BY <1>2, <1>4, <1>5, <1>6

LEMMA WalkPageType ==
    ASSUME ChainTypeOK, StoreTypeOK, SyncTypeOK, PagesHeld,
           NEW c \in Contracts, WalkPage(c)
    PROVE  /\ sync' \in [Contracts -> SyncState] /\ PagesHeld'
           /\ progress' \in [Contracts -> Progress \cup {None}]
<1> DEFINE s == sync[c]
           page == LogsPage(c, s.walk)
           old(p) == p # None => p.height <= s.synced
           longer == [s EXCEPT !.pages = <<page>> \o s.pages]
           reset == [s EXCEPT !.pages = <<>>, !.walk = None]
<1>1. s \in SyncState /\ HoldsPages(s) /\ s.mode = "walk"
    BY DEF WalkPage, SyncTypeOK, PagesHeld
<1>2. page \in Page
    BY LogsPageType
<1>3. ~old(page.cursor) => longer \in SyncState /\ HoldsPages(longer)
    BY <1>1, <1>2, LongerType
<1>4. \/ old(page.cursor) /\ EndWalk(c, s)
      \/ ~old(page.cursor) /\ EndWalk(c, longer)
      \/ /\ ~old(page.cursor)
         /\ sync' = [sync EXCEPT ![c] = [longer EXCEPT !.walk = page.prev]]
         /\ UNCHANGED progress
      \/ BeginBackfill(c, reset, FirstCursor(c, MaxOf(StartBlock[c], s.synced + 1)))
    BY DEF WalkPage
<1> HIDE DEF s, page, old, longer
<1>5. CASE old(page.cursor) /\ EndWalk(c, s)
    BY <1>1, <1>5, EndWalkType
<1>6. CASE ~old(page.cursor) /\ EndWalk(c, longer)
    BY <1>3, <1>6, EndWalkType
<1>7. CASE /\ ~old(page.cursor)
           /\ sync' = [sync EXCEPT ![c] = [longer EXCEPT !.walk = page.prev]]
           /\ UNCHANGED progress
    <2> DEFINE t == [longer EXCEPT !.walk = page.prev]
    <2>1. t \in SyncState /\ HoldsPages(t)
        BY <1>2, <1>3, <1>7 DEF SyncState, Page, HoldsPages
    <2> QED BY <1>7, <2>1, PutState DEF StoreTypeOK
<1>8. CASE BeginBackfill(c, reset, FirstCursor(c, MaxOf(StartBlock[c], s.synced + 1)))
    <2>1. reset \in SyncState /\ reset.pages = <<>> /\ reset.mode = "walk"
        BY <1>1, EmptySeq DEF SyncState
    <2>2. HoldsPages(reset)
        BY <2>1, EmptyHeld
    <2>3. FirstCursor(c, MaxOf(StartBlock[c], s.synced + 1)) \in Position \cup {None}
        BY FirstCursorType
    <2> HIDE DEF reset
    <2> QED BY <1>8, <2>1, <2>2, <2>3, BeginBackfillType
<1> QED BY <1>4, <1>5, <1>6, <1>7, <1>8

LEMMA OfferType ==
    ASSUME SyncTypeOK, sync' \in [Contracts -> SyncState], OfferSafeHeight
    PROVE  queue' \in Seq(Nat)
<1>1. \A c \in Contracts : sync'[c].synced \in Nat
    BY DEF SyncState
<1>2. \A h \in {sync'[c].synced : c \in Contracts} : Append(queue, h) \in Seq(Nat)
    BY <1>1, AppendProperties DEF SyncTypeOK
<1> QED BY <1>2 DEF OfferSafeHeight, SyncTypeOK

LEMMA SaveBackfillType ==
    ASSUME StoreTypeOK, SyncTypeOK, PagesHeld, NEW c \in Contracts, SaveBackfillPage(c)
    PROVE  /\ sync' \in [Contracts -> SyncState] /\ PagesHeld'
           /\ progress' \in [Contracts -> Progress \cup {None}]
<1> DEFINE s == sync[c]
           page == Head(s.pages)
           t == [s EXCEPT !.mode = "ready", !.pages = <<>>, !.cursor = page.next,
                          !.synced = MaxOf(s.synced, s.cursor.height - 1)]
<1>1. s \in SyncState /\ HoldsPages(s) /\ s.mode = "stored" /\ s.cursor # None
    BY DEF SaveBackfillPage, SyncTypeOK, PagesHeld
<1>2. page \in Page
    <2>1. s.pages \in Seq(Page) /\ s.pages # <<>>
        BY <1>1 DEF SyncState, HoldsPages
    <2> QED BY <2>1, HeadTailProperties
<1>3. MaxOf(s.synced, s.cursor.height - 1) \in Nat
    BY <1>1 DEF SyncState, Position, Heights, MaxOf
<1>4. t \in SyncState /\ t.pages = <<>> /\ t.mode = "ready"
    BY <1>1, <1>2, <1>3, EmptySeq DEF SyncState, Modes, Page
<1>5. \/ HasEnd(c) /\ CompleteAtEndBlock(c, s)
      \/ /\ sync' = [sync EXCEPT ![c] = t]
         /\ UpsertSyncProgress(c, t.cursor, t.synced, FALSE)
    BY DEF SaveBackfillPage
<1> HIDE DEF s, t
<1>6. t.cursor \in Position \cup {None} /\ t.synced \in Nat
    BY <1>4 DEF SyncState
<1> QED BY <1>1, <1>4, <1>5, <1>6, CompleteType, EmptyHeld, PutState, UpsertType

LEMMA SaveCatchUpType ==
    ASSUME StoreTypeOK, SyncTypeOK, PagesHeld, NEW c \in Contracts, SaveCatchUpPage(c)
    PROVE  /\ sync' \in [Contracts -> SyncState] /\ PagesHeld'
           /\ progress' \in [Contracts -> Progress \cup {None}]
<1> DEFINE s == sync[c]
           height == Head(s.pages).cursor.height
           newest == Len(s.pages) = 1
           synced == MaxOf(s.synced, IF newest THEN height ELSE height - 1)
           t == [s EXCEPT !.mode = "ready", !.pages = Tail(s.pages), !.synced = synced,
                          !.done = newest, !.syncedToHead = newest]
           u == [s EXCEPT !.pages = Tail(s.pages)]
<1>1. s \in SyncState /\ HoldsPages(s) /\ s.mode = "stored" /\ s.cursor = None
    BY DEF SaveCatchUpPage, SyncTypeOK, PagesHeld
<1>2. s.pages \in Seq(Page) /\ s.pages # <<>>
    BY <1>1 DEF SyncState, HoldsPages
<1>3. /\ Head(s.pages) \in Page /\ Tail(s.pages) \in Seq(Page)
      /\ Head(s.pages) = s.pages[1]
      /\ Len(s.pages) \in Nat \ {0}
      /\ Len(Tail(s.pages)) = Len(s.pages) - 1
      /\ \A i \in 1..Len(Tail(s.pages)) : Tail(s.pages)[i] = s.pages[i + 1]
    BY <1>2, HeadTailProperties, EmptySeq
<1>4. \A i \in 1..Len(s.pages) : s.pages[i].cursor # None
    BY <1>1 DEF HoldsPages
<1>5. Head(s.pages).cursor # None
    BY <1>3, <1>4
<1>6. synced \in Nat
    BY <1>1, <1>3, <1>5 DEF SyncState, Page, Position, Heights, MaxOf
<1>7. \A i \in 1..Len(Tail(s.pages)) : Tail(s.pages)[i].cursor # None
    BY <1>3, <1>4
<1>8. t \in SyncState /\ t.cursor = None /\ t.pages = Tail(s.pages)
      /\ t.mode = "ready" /\ t.synced = synced
    BY <1>1, <1>3, <1>6 DEF SyncState, Modes
<1>9. HoldsPages(t)
    BY <1>7, <1>8 DEF HoldsPages
<1>10. u \in SyncState
    BY <1>1, <1>3 DEF SyncState
<1>11. \/ HasEnd(c) /\ CompleteAtEndBlock(c, u)
       \/ /\ sync' = [sync EXCEPT ![c] = t]
          /\ UpsertSyncProgress(c, None, t.synced, FALSE)
    BY DEF SaveCatchUpPage
<1> HIDE DEF s, t, u, synced
<1> QED BY <1>6, <1>8, <1>9, <1>10, <1>11, CompleteType, PutState, UpsertType

LEMMA ProducerType ==
    ASSUME ChainTypeOK, StoreTypeOK, SyncTypeOK, PagesHeld, SyncStep
    PROVE  StoreTypeOK' /\ SyncTypeOK' /\ PagesHeld'
<1>0. PICK c \in Contracts :
        \/ InitFromScratch(c) \/ InitFromSaved(c) \/ WalkPage(c)
        \/ StartCatchUp(c) \/ FetchBackfillPage(c) \/ StorePage(c)
        \/ SaveBackfillPage(c) \/ SaveCatchUpPage(c)
    BY DEF SyncStep
<1>s. sync[c] \in SyncState /\ HoldsPages(sync[c])
    BY DEF SyncTypeOK, PagesHeld
<1>1. CASE InitFromScratch(c)
    <2>1. FirstCursor(c, StartBlock[c]) \in Position \cup {None}
        BY FirstCursorType
    <2>2. /\ sync' \in [Contracts -> SyncState] /\ PagesHeld'
          /\ progress' \in [Contracts -> Progress \cup {None}]
        BY <1>1, <1>s, <2>1, BeginBackfillType DEF InitFromScratch
    <2> QED BY <1>1, <2>2 DEF InitFromScratch, StoreTypeOK, SyncTypeOK
<1>2. CASE InitFromSaved(c)
    <2> DEFINE s == [sync[c] EXCEPT !.synced = progress[c].synced, !.mode = "ready"]
    <2>1. /\ progress[c].synced \in Nat
          /\ progress[c].cursor \in Position \cup {None}
        BY <1>2 DEF InitFromSaved, StoreTypeOK, Progress
    <2>2. s \in SyncState /\ HoldsPages(s)
        BY <1>s, <2>1 DEF SyncState, Modes, HoldsPages
    <2>3. PICK t : /\ sync' = [sync EXCEPT ![c] = t]
                   /\ \/ t = [s EXCEPT !.done = TRUE]
                      \/ /\ progress[c].cursor # None
                         /\ t = [s EXCEPT !.cursor = progress[c].cursor]
                      \/ t = [s EXCEPT !.mode = "walk"]
        BY <1>2 DEF InitFromSaved
    <2> HIDE DEF s
    <2>4. t \in SyncState /\ HoldsPages(t)
        BY <2>1, <2>2, <2>3 DEF SyncState, Modes, HoldsPages
    <2> QED BY <1>2, <2>3, <2>4, PutState DEF InitFromSaved, storeVars, StoreTypeOK, SyncTypeOK
<1>3. CASE WalkPage(c)
    BY <1>3, WalkPageType DEF WalkPage, StoreTypeOK, SyncTypeOK
<1>4. CASE StartCatchUp(c)
    <2> DEFINE t == [sync[c] EXCEPT !.mode = "walk"]
    <2>1. t \in SyncState /\ HoldsPages(t)
        BY <1>s DEF SyncState, Modes, HoldsPages
    <2>2. sync' = [sync EXCEPT ![c] = t]
        BY <1>4 DEF StartCatchUp
    <2> QED BY <1>4, <2>1, <2>2, PutState DEF StartCatchUp, storeVars, StoreTypeOK, SyncTypeOK
<1>5. CASE FetchBackfillPage(c)
    <2> DEFINE page == LogsPage(c, sync[c].cursor)
               t == [sync[c] EXCEPT !.mode = "fetched", !.pages = <<page>>]
    <2>1. page \in Page /\ sync[c].cursor # None
        BY <1>5, LogsPageType DEF FetchBackfillPage
    <2> HIDE DEF page
    <2>p. <<page>> \in Seq(Page) /\ <<page>> # <<>>
        BY <2>1
    <2>2. t \in SyncState /\ t.mode = "fetched" /\ t.pages # <<>> /\ t.cursor # None
        BY <1>s, <2>1, <2>p DEF SyncState, Modes
    <2>q. HoldsPages(t)
        BY <2>2 DEF HoldsPages
    <2>3. sync' = [sync EXCEPT ![c] = t]
        BY <1>5 DEF FetchBackfillPage, SyncTypeOK, page
    <2> QED BY <1>5, <2>2, <2>q, <2>3, PutState
        DEF FetchBackfillPage, storeVars, StoreTypeOK, SyncTypeOK
<1>6. CASE StorePage(c)
    <2> DEFINE t == [sync[c] EXCEPT !.mode = "stored"]
               new == {e \in Missing(c) : HasEnd(c) => e.height <= EndBlock[c]}
    <2>1. sync[c].pages # <<>>
        BY <1>6, <1>s DEF StorePage, HasPage, HoldsPages
    <2>2. t \in SyncState /\ HoldsPages(t)
        BY <1>s, <2>1 DEF SyncState, Modes, HoldsPages
    <2>3. Missing(c) \subseteq Event
        <3>1. Head(sync[c].pages) \in Page
            BY <1>s, <2>1, HeadTailProperties DEF SyncState
        <3> QED BY <3>1 DEF Missing, Page
    <2>4. StoreTypeOK'
        BY <1>6, <2>3, InsertEventsType DEF StorePage
    <2>5. sync' = [sync EXCEPT ![c] = t]
        BY <1>6 DEF StorePage
    <2> QED BY <1>6, <2>2, <2>4, <2>5, PutState DEF StorePage, SyncTypeOK
<1>7. CASE SaveBackfillPage(c)
    BY <1>7, SaveBackfillType, OfferType DEF SaveBackfillPage, StoreTypeOK, SyncTypeOK
<1>8. CASE SaveCatchUpPage(c)
    BY <1>8, SaveCatchUpType, OfferType DEF SaveCatchUpPage, StoreTypeOK, SyncTypeOK
<1> QED BY <1>0, <1>1, <1>2, <1>3, <1>4, <1>5, <1>6, <1>7, <1>8

-----------------------------------------------------------------------------
(* The whole step. *)

LEMMA ChainStepType ==
    ASSUME ChainTypeOK, Mine \/ Reorg
    PROVE  ChainTypeOK'
<1> USE ChainAssumption, NoneAssumption DEF Heights, Forks
<1>1. CASE Mine
    <2>1. PICK logs \in Contents :
            chain' = [chain EXCEPT ![top + 1] = [fork |-> forks, logs |-> logs]]
        BY <1>1 DEF Mine
    <2>2. [fork |-> forks, logs |-> logs] \in Block
        BY DEF ChainTypeOK, Block
    <2>3. [fork |-> forks, logs |-> logs] # None
        BY <2>2
    <2>4. chain' \in [Heights -> Block \cup {None}]
        BY <2>1, <2>2 DEF ChainTypeOK
    <2>5. top' = top + 1 /\ top' \in Heights /\ forks' = forks
        BY <1>1 DEF Mine, ChainTypeOK
    <2>6. peak' \in Heights /\ top' <= peak'
        BY <1>1, <2>5 DEF Mine, MaxOf, ChainTypeOK
    <2>7. \A h \in Heights : chain'[h] # None <=> h <= top'
        BY <2>1, <2>3, <2>5 DEF ChainTypeOK
    <2> QED BY <2>4, <2>5, <2>6, <2>7 DEF ChainTypeOK
<1>2. CASE Reorg
    <2>1. PICK k \in 0..(top - 1), logs \in Contents :
            /\ chain' = [h \in Heights |->
                           IF h <= k THEN chain[h]
                           ELSE IF h = k + 1 THEN [fork |-> forks + 1, logs |-> logs]
                           ELSE None]
            /\ top' = k + 1
        BY <1>2 DEF Reorg
    <2>2. forks + 1 \in Forks
        BY <1>2 DEF Reorg, ChainTypeOK
    <2>3. [fork |-> forks + 1, logs |-> logs] \in Block
        BY <2>2 DEF Block
    <2>4. [fork |-> forks + 1, logs |-> logs] # None
        BY <2>3
    <2>5. chain' \in [Heights -> Block \cup {None}]
        BY <2>1, <2>3 DEF ChainTypeOK
    <2>6. top' \in Heights /\ top' <= peak' /\ peak' \in Heights /\ forks' \in Forks
        BY <1>2, <2>1, <2>2 DEF Reorg, ChainTypeOK
    <2>7. \A h \in Heights : chain'[h] # None <=> h <= top'
        BY <2>1, <2>4 DEF ChainTypeOK
    <2> QED BY <2>5, <2>6, <2>7 DEF ChainTypeOK
<1> QED BY <1>1, <1>2

LEMMA FreshType ==
    /\ [c \in Contracts |-> FreshState(c)] \in [Contracts -> SyncState]
    /\ \A c \in Contracts : HoldsPages(FreshState(c))
<1> SUFFICES ASSUME NEW c \in Contracts
             PROVE  FreshState(c) \in SyncState /\ HoldsPages(FreshState(c))
    OBVIOUS
<1>1. MaxOf(StartBlock[c] - 1, 0) \in Nat
    BY RangeAssumption DEF MaxOf
<1>2. FreshState(c) \in SyncState
    BY <1>1, EmptySeq DEF FreshState, SyncState, Modes
<1>3. HoldsPages(FreshState(c))
    BY EmptyHeld DEF FreshState
<1> QED BY <1>2, <1>3

TypeInv == TypeOK /\ PagesHeld

LEMMA ResetType ==
    ASSUME TypeInv, Reset
    PROVE  StoreTypeOK' /\ PassTypeOK' /\ SyncTypeOK' /\ IndexTypeOK' /\ PagesHeld'
<1>1. SyncTypeOK' /\ PagesHeld'
    BY FreshType, EmptySeq DEF Reset, SyncTypeOK, PagesHeld, HoldsPages
<1> QED BY <1>1 DEF TypeInv, TypeOK, Reset, storeVars, StoreTypeOK, PassTypeOK, Phases,
        IndexTypeOK

LEMMA TypeInvInit == Init => TypeInv
<1> SUFFICES ASSUME Init PROVE TypeInv
    OBVIOUS
<1>1. ChainTypeOK
    <2>1. PICK logs \in Contents :
            chain = [h \in Heights |-> IF h = 1 THEN [fork |-> 0, logs |-> logs] ELSE None]
        BY DEF Init, ChainInit
    <2>2. [fork |-> 0, logs |-> logs] \in Block /\ [fork |-> 0, logs |-> logs] # None
        BY ChainAssumption, NoneAssumption DEF Block, Forks
    <2> QED BY <2>1, <2>2, ChainAssumption DEF Init, ChainInit, ChainTypeOK, Heights, Forks
<1>2. StoreTypeOK
    BY DEF Init, StoreInit, StoreTypeOK
<1>3. PassTypeOK
    BY DEF Init, PassInit, PassTypeOK, Phases
<1>4. SyncTypeOK /\ PagesHeld
    BY FreshType, EmptySeq DEF Init, SyncInit, SyncTypeOK, PagesHeld
<1> QED
    BY <1>1, <1>2, <1>3, <1>4, IndexerAssumption
    DEF Init, IndexInit, IndexTypeOK, TypeInv, TypeOK

LEMMA TypeInvStep == TypeInv /\ [Next]_vars => TypeInv'
<1> SUFFICES ASSUME TypeInv, [Next]_vars PROVE TypeInv'
    OBVIOUS
<1>0. ChainTypeOK /\ StoreTypeOK /\ PassTypeOK /\ SyncTypeOK /\ IndexTypeOK
      /\ stops \in 0..MaxStops /\ PagesHeld
    BY DEF TypeInv, TypeOK
<1>c. UNCHANGED chainVars => ChainTypeOK'
    BY <1>0 DEF chainVars, ChainTypeOK
<1>s. UNCHANGED syncVars => SyncTypeOK' /\ PagesHeld'
    BY <1>0 DEF syncVars, SyncTypeOK, PagesHeld, HoldsPages
<1>b. UNCHANGED batches => IndexTypeOK'
    BY <1>0 DEF IndexTypeOK
<1>p. UNCHANGED passVars => PassTypeOK'
    BY <1>0 DEF passVars, PassTypeOK
<1>1. CASE ReconcileStep
    <2>1. StoreTypeOK' /\ PassTypeOK'
        BY <1>0, <1>1, ReconcileType
    <2>2. UNCHANGED chainVars /\ UNCHANGED syncVars /\ UNCHANGED <<batches, stops>>
        BY <1>1 DEF ReconcileStep
    <2> QED BY <1>0, <1>c, <1>s, <1>b, <2>1, <2>2 DEF TypeInv, TypeOK
<1>2. CASE ProducerStep
    <2>1. StoreTypeOK' /\ SyncTypeOK' /\ PagesHeld'
        BY <1>0, <1>2, ProducerType DEF ProducerStep
    <2>2. UNCHANGED chainVars /\ UNCHANGED passVars /\ UNCHANGED <<batches, stops>>
        BY <1>2 DEF ProducerStep
    <2> QED BY <1>0, <1>c, <1>p, <1>b, <2>1, <2>2 DEF TypeInv, TypeOK
<1>3. CASE ConsumerStep
    <2>1. StoreTypeOK' /\ PassTypeOK' /\ SyncTypeOK' /\ IndexTypeOK' /\ PagesHeld'
        BY <1>0, <1>3, ConsumerType
    <2>2. UNCHANGED chainVars /\ UNCHANGED stops
        BY <1>3 DEF ConsumerStep
    <2> QED BY <1>0, <1>c, <2>1, <2>2 DEF TypeInv, TypeOK
<1>4. CASE EndStep
    <2>1. Reset /\ UNCHANGED stops /\ UNCHANGED chainVars
        BY <1>4 DEF EndStep, EndPass
    <2> QED BY <1>0, <1>c, <2>1, ResetType DEF TypeInv, TypeOK
<1>5. CASE StopStep
    <2>1. Reset /\ stops < MaxStops /\ stops' = stops + 1 /\ UNCHANGED chainVars
        BY <1>5 DEF StopStep, Stop
    <2>2. stops' \in 0..MaxStops
        BY <1>0, <2>1, IndexerAssumption
    <2> QED BY <1>c, <2>1, <2>2, ResetType DEF TypeInv, TypeOK
<1>6. CASE ChainStep
    <2>1. ChainTypeOK'
        BY <1>0, <1>6, ChainStepType DEF ChainStep
    <2>2. /\ UNCHANGED storeVars /\ UNCHANGED passVars /\ UNCHANGED syncVars
          /\ UNCHANGED <<batches, stops>>
        BY <1>6 DEF ChainStep
    <2>3. StoreTypeOK'
        BY <1>0, <2>2 DEF storeVars, StoreTypeOK
    <2> QED BY <1>0, <1>p, <1>s, <1>b, <2>1, <2>2, <2>3 DEF TypeInv, TypeOK
<1>7. CASE UNCHANGED vars
    <2>1. /\ UNCHANGED chainVars /\ UNCHANGED storeVars /\ UNCHANGED passVars
          /\ UNCHANGED syncVars /\ UNCHANGED <<batches, stops>>
        BY <1>7 DEF vars
    <2>3. StoreTypeOK'
        BY <1>0, <2>1 DEF storeVars, StoreTypeOK
    <2> QED BY <1>0, <1>c, <1>p, <1>s, <1>b, <2>1, <2>3 DEF TypeInv, TypeOK
<1> QED BY <1>1, <1>2, <1>3, <1>4, <1>5, <1>6, <1>7 DEF Next

\* Every table, page and height of the indexer keeps its type in every run,
\* whatever crashes, reorganizations and answers of the API it meets; the
\* pages in memory always carry what saving them needs.
THEOREM TypeCorrect == Spec => [](TypeOK /\ PagesHeld)
<1> QED BY TypeInvInit, TypeInvStep, PTL DEF Spec, TypeInv

-----------------------------------------------------------------------------
(* The finalized marker never moves back. *)

\* A batch in flight carries a marker that is not below the stored one.
MarkerInv == batches # None => /\ phase \in {"sync", "last"}
                               /\ FinalizedHeight <= batches.finalized

\* Finalizing the checkpoint's own block only raises the marker.
LEMMA FinalizeRaises ==
    ASSUME TypeInv, NEW t
    PROVE  /\ FinalizedHeight <= FinalizeCheckpointBlock(t)
           /\ FinalizeCheckpointBlock(t) \in Nat
BY StoredHeights DEF TypeInv, TypeOK, FinalizeCheckpointBlock, MaxOf

LEMMA MarkerIndexEvents ==
    ASSUME TypeInv, batches = None, NEW to, NEW height, IndexEventsUpTo(to, height)
    PROVE  /\ FinalizedHeight' >= FinalizedHeight
           /\ batches' # None => FinalizedHeight' <= batches'.finalized
<1>1. FinalizedHeight \in Nat
    BY StoredHeights DEF TypeInv, TypeOK
<1>2. CASE IndexNothing(to, height)
    <2>1. batches' = None
        BY <1>2 DEF IndexNothing
    <2>2. CASE checkpoint' = checkpoint
        BY <1>1, <2>1, <2>2 DEF FinalizedHeight
    <2>3. CASE checkpoint' # checkpoint
        <3> DEFINE f == FinalizeCheckpointBlock(FinalityThreshold(Confirmation(to, height)))
        <3>1. checkpoint' = [blockHeight |-> CheckpointHeight, finalized |-> f]
            BY <1>2, <2>3 DEF IndexNothing, UpsertCheckpoint
        <3>2. f \in Nat /\ FinalizedHeight <= f /\ CheckpointHeight \in Nat
            BY FinalizeRaises, StoredHeights DEF TypeInv, TypeOK
        <3> HIDE DEF f
        <3>3. checkpoint' \in Checkpoint /\ checkpoint'.finalized = f
            BY <3>1, <3>2 DEF Checkpoint
        <3> QED BY <1>1, <2>1, <3>2, <3>3, RowAssumption DEF FinalizedHeight
    <2> QED BY <2>2, <2>3
<1>3. CASE IndexRows(to, height)
    <2>1. FinalizedHeight' = FinalizedHeight
        BY <1>3 DEF IndexRows, FinalizedHeight
    <2>2. PICK t : batches'.finalized = FinalizeCheckpointBlock(t)
        BY <1>3 DEF IndexRows
    <2> QED BY <1>1, <2>1, <2>2, FinalizeRaises
<1> QED BY <1>2, <1>3 DEF IndexEventsUpTo

LEMMA MarkerIndexBatch ==
    ASSUME TypeInv, MarkerInv, IndexBatch, phase' = phase
    PROVE  MarkerInv' /\ FinalizedHeight' >= FinalizedHeight
<1>1. /\ batches # None /\ batches \in Indexing /\ FinalizedHeight <= batches.finalized
      /\ phase \in {"sync", "last"} /\ FinalizedHeight \in Nat
    BY StoredHeights DEF IndexBatch, MarkerInv, TypeInv, TypeOK, IndexTypeOK
<1>2. PICK h \in {e.height : e \in batches.rows} :
        \E f \in {batches.finalized} \cup {e.height : e \in Prefix(batches.rows, h)} :
          /\ IsFinalizedAfter(f, Prefix(batches.rows, h))
          /\ checkpoint' = [blockHeight |-> h, finalized |-> f]
          /\ batches' = IF batches.rows \ Prefix(batches.rows, h) = {} THEN None
                        ELSE [batches EXCEPT
                                !.rows = batches.rows \ Prefix(batches.rows, h),
                                !.finalized = f]
    BY DEF IndexBatch, UpsertCheckpoint
<1>3. PICK f : /\ IsFinalizedAfter(f, Prefix(batches.rows, h))
               /\ checkpoint' = [blockHeight |-> h, finalized |-> f]
               /\ batches' = IF batches.rows \ Prefix(batches.rows, h) = {} THEN None
                             ELSE [batches EXCEPT
                                     !.rows = batches.rows \ Prefix(batches.rows, h),
                                     !.finalized = f]
    BY <1>2
<1>4. /\ f \in {batches.finalized} \cup
              {e.height : e \in Prefix(Prefix(batches.rows, h), batches.threshold)}
      /\ batches.finalized <= f
    BY <1>3 DEF IsFinalizedAfter
<1>5. f \in Nat /\ h \in Nat /\ batches.finalized \in Nat
    <2>1. \A e \in batches.rows : e.height \in Nat
        BY <1>1 DEF Indexing, Event, Heights
    <2> QED BY <1>1, <1>4, <2>1 DEF Indexing, Prefix
<1>6. checkpoint' \in Checkpoint /\ checkpoint'.finalized = f
    BY <1>3, <1>5 DEF Checkpoint
<1>7. FinalizedHeight' = f
    BY <1>6, RowAssumption DEF FinalizedHeight
<1>8. batches' # None => batches'.finalized = f
    BY <1>1, <1>3 DEF Indexing
<1> QED BY <1>1, <1>4, <1>5, <1>7, <1>8 DEF MarkerInv

LEMMA RewindKeepsMarker ==
    ASSUME TypeInv, NEW height \in Nat, RewindTo(height)
    PROVE  FinalizedHeight' = FinalizedHeight
<1>0. checkpoint \in Checkpoint \cup {None}
    BY DEF TypeInv, TypeOK, StoreTypeOK
<1>1. CASE checkpoint' = checkpoint
    BY <1>1 DEF FinalizedHeight
<1>2. CASE checkpoint # None /\ checkpoint' = [checkpoint EXCEPT !.blockHeight = height]
    <2>1. checkpoint' \in Checkpoint /\ checkpoint'.finalized = checkpoint.finalized
        BY <1>0, <1>2 DEF Checkpoint
    <2> QED BY <1>2, <2>1, RowAssumption DEF FinalizedHeight
<1> QED BY <1>1, <1>2 DEF RewindTo

\* Only the consumer moves the marker.
LEMMA MarkerKept ==
    ASSUME TypeInv, [Next]_vars, ~ConsumerStep
    PROVE  FinalizedHeight' = FinalizedHeight
<1>1. CASE ReconcileStep
    <2>0. /\ anchor # None => anchor.height \in Nat
          /\ ancestor # None => ancestor \in Nat
          /\ FinalizedHeight \in Nat
        BY ChainAssumption, StoredHeights
        DEF TypeInv, TypeOK, StoreTypeOK, PassTypeOK, Anchor, Heights
    <2>1. checkpoint' = checkpoint \/ \E height \in Nat : RewindTo(height)
        BY <1>1, <2>0 DEF ReconcileStep, ReadChainTip, NothingToReplay,
           ReplayUnfinalized, AnchorCanonical, AnchorOrphaned, Probe, FailWithReorgError,
           RewindToAncestor, SetSyncAnchor, storeVars
    <2> QED BY <2>1, RewindKeepsMarker DEF FinalizedHeight
<1>2. CASE EndStep \/ StopStep
    BY <1>2 DEF EndStep, EndPass, StopStep, Stop, Reset, storeVars, FinalizedHeight
<1>3. CASE ProducerStep \/ ChainStep \/ UNCHANGED vars
    <2>1. ProducerStep => UNCHANGED checkpoint
        BY DEF ProducerStep, SyncStep, InitFromScratch, InitFromSaved, WalkPage,
           StartCatchUp, FetchBackfillPage, StorePage, SaveBackfillPage, SaveCatchUpPage,
           storeVars
    <2>2. ChainStep \/ UNCHANGED vars => UNCHANGED checkpoint
        BY DEF ChainStep, vars, storeVars
    <2> QED BY <1>3, <2>1, <2>2 DEF FinalizedHeight
<1> QED BY <1>1, <1>2, <1>3 DEF Next

LEMMA MarkerStep ==
    ASSUME TypeInv, MarkerInv, [Next]_vars
    PROVE  MarkerInv' /\ FinalizedHeight' >= FinalizedHeight
<1>0. FinalizedHeight \in Nat
    BY StoredHeights DEF TypeInv, TypeOK
<1>1. CASE ~ConsumerStep
    <2>1. FinalizedHeight' = FinalizedHeight
        BY <1>1, MarkerKept
    <2>2. CASE ReconcileStep
        BY <1>0, <2>1, <2>2 DEF MarkerInv, ReconcileStep, ReadChainTip, NothingToReplay,
           ReplayUnfinalized, AnchorCanonical, AnchorOrphaned, Probe, FailWithReorgError,
           RewindToAncestor, SetSyncAnchor
    <2>3. CASE EndStep \/ StopStep
        BY <1>0, <2>1, <2>3 DEF EndStep, EndPass, StopStep, Stop, Reset, MarkerInv
    <2>4. CASE ProducerStep \/ ChainStep \/ UNCHANGED vars
        <3>1. UNCHANGED <<batches, phase>>
            BY <2>4 DEF ProducerStep, ChainStep, vars, passVars
        <3> QED BY <1>0, <2>1, <3>1 DEF MarkerInv
    <2> QED BY <1>1, <2>2, <2>3, <2>4 DEF Next
<1>2. CASE IndexSafeHeight \/ IndexRemaining
    <2>1. /\ batches = None /\ phase' \in {"sync", "last"}
          /\ \E to : IndexEventsUpTo(to, TipHeight)
        BY <1>2 DEF IndexSafeHeight, IndexRemaining, MarkerInv, passVars
    <2> QED BY <2>1, MarkerIndexEvents DEF MarkerInv
<1>3. CASE IndexBatch /\ UNCHANGED <<passVars, syncVars>>
    BY <1>3, MarkerIndexBatch DEF passVars
<1>4. CASE RaiseToTip
    BY <1>0, <1>4 DEF RaiseToTip, MarkerInv, FinalizedHeight
<1> QED BY <1>1, <1>2, <1>3, <1>4 DEF ConsumerStep

LEMMA MarkerInit == Init => MarkerInv
BY DEF Init, IndexInit, MarkerInv

\* No rewind, batch, crash or restart moves the finalized marker back, however
\* deep the reorgs and whatever the tip request answers.
THEOREM FinalizedNeverMovesBack == Spec => FinalizedMonotone
<1>1. TypeInv /\ MarkerInv /\ [Next]_vars =>
        MarkerInv' /\ [FinalizedHeight' >= FinalizedHeight]_vars
    BY MarkerStep
<1>2. Spec => []TypeInv
    BY TypeInvInit, TypeInvStep, PTL DEF Spec
<1> QED BY <1>1, <1>2, MarkerInit, PTL DEF Spec, FinalizedMonotone

-----------------------------------------------------------------------------
(* Nothing above the highest tip is read, stored or offered. *)

LEMMA LogsBelow ==
    ASSUME ChainTypeOK, NEW c \in Contracts, NEW e \in Logs(c)
    PROVE  e.height \in Nat /\ e.height <= peak
<1>1. PICK h \in 1..top : e.height = h
    <2>1. PICK h \in 1..top : \E i \in 1..chain[h].logs[c] :
            e = [contract |-> c, height |-> h, index |-> i, fork |-> chain[h].fork]
        BY DEF Logs
    <2> QED BY <2>1
<1>2. top \in Nat /\ peak \in Nat /\ top <= peak
    BY DEF ChainTypeOK, Heights
<1> QED BY <1>1, <1>2

LEMMA CursorBelow ==
    ASSUME NEW S, NEW low \in Nat, \A e \in S : low <= e.height /\ e.height <= peak,
           CursorIn(S) # None
    PROVE  low <= CursorIn(S).height /\ CursorIn(S).height <= peak
<1>1. S # {} /\ CursorIn(S) = CursorOf(CHOOSE e \in S : TRUE)
    BY DEF CursorIn
<1>2. PICK e \in S : CursorIn(S) = CursorOf(e)
    BY <1>1
<1> QED BY <1>2 DEF CursorOf

LEMMA PageBelow ==
    ASSUME ChainTypeOK, NEW c \in Contracts, NEW cursor
    PROVE  PageBelowPeak(LogsPage(c, cursor))
<1> DEFINE below == {e \in Logs(c) : cursor # None => AtOrBelow(e, cursor)}
           newest == NthNewest(below, 1)
           next == NthOldest(Logs(c) \ below, PageLimit)
<1>1. LogsPage(c, cursor).cursor = CursorIn(newest) /\ LogsPage(c, cursor).next = CursorIn(next)
    BY DEF LogsPage
<1>2. newest \subseteq Logs(c) /\ next \subseteq Logs(c)
    BY DEF NthNewest, NthOldest
<1>3. /\ \A e \in newest : 0 <= e.height /\ e.height <= peak
      /\ \A e \in next : 0 <= e.height /\ e.height <= peak
    BY <1>2, LogsBelow
<1> HIDE DEF newest, next
<1>4. CursorIn(newest) # None => CursorIn(newest).height <= peak
    BY <1>3, CursorBelow
<1>5. CursorIn(next) # None => CursorIn(next).height <= peak
    BY <1>3, CursorBelow
<1> QED BY <1>1, <1>4, <1>5 DEF PageBelowPeak

LEMMA FirstCursorBelow ==
    ASSUME ChainTypeOK, NEW c \in Contracts, NEW from \in Nat, FirstCursor(c, from) # None
    PROVE  from <= FirstCursor(c, from).height /\ FirstCursor(c, from).height <= peak
<1> DEFINE oldest == NthOldest(Discoverable(c, from), 1)
<1>1. \A e \in oldest : from <= e.height /\ e.height <= peak
    BY LogsBelow DEF NthOldest, Discoverable
<1>2. FirstCursor(c, from) = CursorIn(oldest)
    BY DEF FirstCursor
<1> HIDE DEF oldest
<1> QED BY <1>1, <1>2, CursorBelow

-----------------------------------------------------------------------------
(* The producer advances one contract at a time. *)

\* A step moves no other contract, and leaves this one below the highest tip.
StaysBelow(c) ==
    /\ \A d \in Contracts \ {c} : sync'[d] = sync[d] /\ progress'[d] = progress[d]
    /\ StateBelowPeak(c, sync'[c])
    /\ RowBelowPeak(progress'[c])
    /\ sync'[c].mode \in {"fetched", "stored"} =>
         \A d \in Contracts \ {c} : sync[d].mode = "ready"

\* A contract that is ready or walking handles no page.
LEMMA PutBelow ==
    ASSUME TypeInv, PeakInv, NEW c \in Contracts, NEW t, sync' = [sync EXCEPT ![c] = t],
           StateBelowPeak(c, t), t.mode \in {"ready", "walk"},
           \/ UNCHANGED progress
           \/ \E cursor, synced, isComplete :
                /\ UpsertSyncProgress(c, cursor, synced, isComplete)
                /\ cursor # None => synced <= peak /\ cursor.height <= peak
    PROVE  StaysBelow(c)
<1>1. sync'[c] = t /\ \A d \in Contracts \ {c} : sync'[d] = sync[d]
    BY DEF TypeInv, TypeOK, SyncTypeOK
<1>2. progress \in [Contracts -> Progress \cup {None}]
    BY DEF TypeInv, TypeOK, StoreTypeOK
<1>3. CASE UNCHANGED progress
    BY <1>1, <1>3 DEF StaysBelow, PeakInv
<1>4. ASSUME NEW cursor, NEW synced, NEW isComplete,
             UpsertSyncProgress(c, cursor, synced, isComplete),
             cursor # None => synced <= peak /\ cursor.height <= peak
      PROVE  StaysBelow(c)
    <2>1. /\ progress'[c] = [cursor |-> cursor, synced |-> synced, isComplete |-> isComplete]
          /\ \A d \in Contracts \ {c} : progress'[d] = progress[d]
        BY <1>2, <1>4 DEF UpsertSyncProgress
    <2>2. RowBelowPeak(progress'[c])
        BY <1>4, <2>1 DEF RowBelowPeak
    <2> QED BY <1>1, <2>1, <2>2 DEF StaysBelow
<1> QED BY <1>3, <1>4

LEMMA CompleteBelow ==
    ASSUME TypeInv, PeakInv, NEW c \in Contracts, NEW s \in SyncState, HasEnd(c),
           CompleteAtEndBlock(c, s)
    PROVE  StaysBelow(c) /\ sync'[c].mode = "ready"
<1> DEFINE t == [s EXCEPT !.mode = "ready", !.cursor = None, !.pages = <<>>,
                          !.synced = EndBlock[c], !.done = TRUE]
<1>1. t.mode = "ready" /\ t.cursor = None /\ t.pages = <<>> /\ t.done
    BY DEF SyncState
<1>2. sync' = [sync EXCEPT ![c] = t] /\ UpsertSyncProgress(c, None, EndBlock[c], TRUE)
    BY DEF CompleteAtEndBlock
<1> HIDE DEF t
<1>3. StateBelowPeak(c, t)
    BY <1>1 DEF StateBelowPeak
<1>4. sync'[c] = t
    BY <1>2 DEF TypeInv, TypeOK, SyncTypeOK
<1> QED BY <1>1, <1>2, <1>3, <1>4, PutBelow

\* What a contract starts a forward pagination from: no page yet, and synced to
\* a height its first cursor is not below.
LEMMA BackfillBelow ==
    ASSUME TypeInv, PeakInv, NEW c \in Contracts, NEW s \in SyncState,
           s.cursor = None, s.pages = <<>>, NEW from \in Nat, s.synced <= from,
           BeginBackfill(c, s, FirstCursor(c, from))
    PROVE  StaysBelow(c)
<1> DEFINE cursor == FirstCursor(c, from)
           t == [s EXCEPT !.mode = "ready", !.cursor = cursor,
                          !.synced = MaxOf(s.synced, cursor.height - 1)]
           u == [s EXCEPT !.mode = "ready", !.done = TRUE]
<1>1. cursor \in Position \cup {None}
    BY FirstCursorType DEF TypeInv, TypeOK
<1>2. \/ sync' = [sync EXCEPT ![c] = u] /\ UpsertSyncProgress(c, s.cursor, s.synced, FALSE)
      \/ HasEnd(c) /\ CompleteAtEndBlock(c, s)
      \/ cursor # None /\ sync' = [sync EXCEPT ![c] = t] /\ UNCHANGED progress
    BY DEF BeginBackfill
<1>3. /\ u.mode = "ready" /\ u.cursor = None /\ u.pages = <<>> /\ u.done
      /\ t.mode = "ready" /\ t.cursor = cursor /\ t.pages = <<>>
      /\ t.synced = MaxOf(s.synced, cursor.height - 1)
    BY DEF SyncState
<1>4. cursor # None => from <= cursor.height /\ cursor.height <= peak
    BY FirstCursorBelow DEF TypeInv, TypeOK
<1> HIDE DEF cursor, t, u
<1>5. CASE sync' = [sync EXCEPT ![c] = u] /\ UpsertSyncProgress(c, s.cursor, s.synced, FALSE)
    <2>1. StateBelowPeak(c, u)
        BY <1>3 DEF StateBelowPeak
    <2> QED BY <1>3, <1>5, <2>1, PutBelow
<1>6. CASE HasEnd(c) /\ CompleteAtEndBlock(c, s)
    BY <1>6, CompleteBelow
<1>7. CASE cursor # None /\ sync' = [sync EXCEPT ![c] = t] /\ UNCHANGED progress
    <2>1. s.synced \in Nat /\ cursor.height \in Nat /\ peak \in Nat
        BY <1>1, <1>7 DEF SyncState, Position, Heights, TypeInv, TypeOK, ChainTypeOK
    <2>2. t.synced <= peak
        BY <1>3, <1>4, <1>7, <2>1 DEF MaxOf
    <2>3. StateBelowPeak(c, t)
        BY <1>3, <1>4, <1>7, <2>2 DEF StateBelowPeak
    <2> QED BY <1>3, <1>7, <2>3, PutBelow
<1> QED BY <1>2, <1>5, <1>6, <1>7

LEMMA EndWalkBelow ==
    ASSUME TypeInv, PeakInv, NEW c \in Contracts, NEW s \in SyncState, s.cursor = None,
           \A i \in 1..Len(s.pages) : PageBelowPeak(s.pages[i]),
           s.pages # <<>> => s.synced <= peak, EndWalk(c, s)
    PROVE  StaysBelow(c)
<1> DEFINE t == [s EXCEPT !.mode = "ready", !.walk = None,
                          !.done = s.pages = <<>>, !.syncedToHead = s.pages = <<>>]
<1>1. /\ t.mode = "ready" /\ t.cursor = None /\ t.pages = s.pages /\ t.synced = s.synced
      /\ t.done = (s.pages = <<>>)
    BY DEF SyncState
<1>2. sync' = [sync EXCEPT ![c] = t] /\ UNCHANGED progress
    BY DEF EndWalk
<1> HIDE DEF t
<1>3. StateBelowPeak(c, t)
    BY <1>1 DEF StateBelowPeak
<1> QED BY <1>1, <1>2, <1>3, PutBelow

\* A page a walk puts in front of its pages.
LEMMA LongerBelow ==
    ASSUME NEW s \in SyncState, \A i \in 1..Len(s.pages) : PageBelowPeak(s.pages[i]),
           NEW page \in Page, PageBelowPeak(page)
    PROVE  \A i \in 1..Len(<<page>> \o s.pages) : PageBelowPeak((<<page>> \o s.pages)[i])
<1> DEFINE pages == <<page>> \o s.pages
<1>1. s.pages \in Seq(Page) /\ <<page>> \in Seq(Page) /\ Len(<<page>>) = 1
    BY DEF SyncState
<1>2. /\ Len(pages) = 1 + Len(s.pages) /\ Len(s.pages) \in Nat
      /\ \A i \in 1..Len(pages) : pages[i] = IF i <= 1 THEN <<page>>[i] ELSE s.pages[i - 1]
    BY <1>1, ConcatProperties, LenProperties
<1> HIDE DEF pages
<1>3. ASSUME NEW i \in 1..Len(pages) PROVE PageBelowPeak(pages[i])
    <2>1. CASE i = 1
        BY <1>2, <2>1
    <2>2. CASE i # 1
        <3>1. i - 1 \in 1..Len(s.pages) /\ pages[i] = s.pages[i - 1]
            BY <1>2, <2>2
        <3> QED BY <3>1
    <2> QED BY <2>1, <2>2
<1> QED BY <1>3 DEF pages

LEMMA WalkBelow ==
    ASSUME TypeInv, PeakInv, NEW c \in Contracts, WalkPage(c)
    PROVE  StaysBelow(c)
<1> DEFINE s == sync[c]
           page == LogsPage(c, s.walk)
           old(p) == p # None => p.height <= s.synced
           longer == [s EXCEPT !.pages = <<page>> \o s.pages]
           reset == [s EXCEPT !.pages = <<>>, !.walk = None]
           from == MaxOf(StartBlock[c], s.synced + 1)
           on == [longer EXCEPT !.walk = page.prev]
<1>1. /\ s \in SyncState /\ s.mode = "walk" /\ s.cursor = None /\ ~s.done
      /\ s.synced \in Nat /\ HoldsPages(s)
      /\ \A i \in 1..Len(s.pages) : PageBelowPeak(s.pages[i])
      /\ s.pages # <<>> => s.synced <= peak
    BY DEF WalkPage, PeakInv, StateBelowPeak, TypeInv, TypeOK, SyncTypeOK, PagesHeld,
       SyncState
<1>2. page \in Page /\ PageBelowPeak(page)
    BY LogsPageType, PageBelow DEF TypeInv, TypeOK
<1>3. \/ EndWalk(c, s)
      \/ ~old(page.cursor) /\ EndWalk(c, longer)
      \/ /\ ~old(page.cursor)
         /\ sync' = [sync EXCEPT ![c] = on]
         /\ UNCHANGED progress
      \/ BeginBackfill(c, reset, FirstCursor(c, from))
    BY DEF WalkPage
<1>4. ~old(page.cursor) => /\ s.synced <= peak
                           /\ longer \in SyncState
    <2>1. ~old(page.cursor) => s.synced <= peak
        <3>1. peak \in Nat
            BY DEF TypeInv, TypeOK, ChainTypeOK, Heights
        <3> QED BY <1>1, <1>2, <3>1 DEF PageBelowPeak, Page, Position, Heights
    <2>2. ~old(page.cursor) => page.cursor # None
        OBVIOUS
    <2> QED BY <1>1, <1>2, <2>1, <2>2, LongerType
<1>5. /\ longer.mode = "walk" /\ longer.cursor = None /\ ~longer.done
      /\ longer.synced = s.synced
      /\ \A i \in 1..Len(longer.pages) : PageBelowPeak(longer.pages[i])
    <2>1. \A i \in 1..Len(<<page>> \o s.pages) : PageBelowPeak((<<page>> \o s.pages)[i])
        BY <1>1, <1>2, LongerBelow
    <2> QED BY <1>1, <2>1 DEF SyncState
<1>6. /\ reset \in SyncState /\ reset.cursor = None /\ reset.pages = <<>>
      /\ reset.synced = s.synced
    BY <1>1, EmptySeq DEF SyncState
<1>7. from \in Nat /\ s.synced <= from
    BY <1>1, RangeAssumption DEF MaxOf
<1> HIDE DEF s, page, old, longer, reset, from
<1>8. CASE EndWalk(c, s)
    BY <1>1, <1>8, EndWalkBelow
<1>9. CASE ~old(page.cursor) /\ EndWalk(c, longer)
    BY <1>4, <1>5, <1>9, EndWalkBelow
<1>10. CASE /\ ~old(page.cursor)
            /\ sync' = [sync EXCEPT ![c] = on]
            /\ UNCHANGED progress
    <2>1. /\ on.mode = "walk" /\ on.cursor = None /\ ~on.done /\ on.synced = s.synced
          /\ on.pages = longer.pages
        BY <1>4, <1>5, <1>10 DEF SyncState
    <2> HIDE DEF on
    <2>2. StateBelowPeak(c, on)
        BY <1>4, <1>5, <1>10, <2>1 DEF StateBelowPeak
    <2> QED BY <1>10, <2>1, <2>2, PutBelow
<1>11. CASE BeginBackfill(c, reset, FirstCursor(c, from))
    BY <1>6, <1>7, <1>11, BackfillBelow
<1> QED BY <1>3, <1>8, <1>9, <1>10, <1>11

LEMMA InitBelow ==
    ASSUME TypeInv, PeakInv, NEW c \in Contracts, InitFromScratch(c) \/ InitFromSaved(c)
    PROVE  StaysBelow(c)
<1>1. /\ sync[c] = FreshState(c) /\ sync[c] \in SyncState
      /\ sync[c].cursor = None /\ sync[c].pages = <<>> /\ ~sync[c].done
      /\ sync[c].synced = MaxOf(StartBlock[c] - 1, 0)
    <2>1. sync[c] = FreshState(c)
        BY DEF InitFromScratch, InitFromSaved, PeakInv, StateBelowPeak
    <2>2. sync[c] \in SyncState
        BY DEF TypeInv, TypeOK, SyncTypeOK
    <2> QED BY <2>1, <2>2 DEF FreshState
<1>2. CASE InitFromScratch(c)
    <2>1. StartBlock[c] \in Nat /\ sync[c].synced <= StartBlock[c]
        BY <1>1, RangeAssumption DEF MaxOf
    <2> QED BY <1>1, <1>2, <2>1, BackfillBelow DEF InitFromScratch
<1>3. CASE InitFromSaved(c)
    <2> DEFINE s == [sync[c] EXCEPT !.synced = progress[c].synced, !.mode = "ready"]
               done == [s EXCEPT !.done = TRUE]
               resumed == [s EXCEPT !.cursor = progress[c].cursor]
               walk == [s EXCEPT !.mode = "walk"]
    <2>1. /\ done.mode = "ready" /\ done.done /\ done.cursor = None /\ done.pages = <<>>
          /\ resumed.mode = "ready" /\ resumed.cursor = progress[c].cursor
          /\ resumed.pages = <<>> /\ resumed.synced = progress[c].synced
          /\ walk.mode = "walk" /\ walk.cursor = None /\ walk.pages = <<>> /\ ~walk.done
        BY <1>1 DEF SyncState
    <2>2. /\ \/ sync' = [sync EXCEPT ![c] = done]
             \/ progress[c].cursor # None /\ sync' = [sync EXCEPT ![c] = resumed]
             \/ sync' = [sync EXCEPT ![c] = walk]
          /\ UNCHANGED progress /\ progress[c] # None
        BY <1>3 DEF InitFromSaved, storeVars
    <2> HIDE DEF done, resumed, walk
    <2>3. StateBelowPeak(c, done) /\ StateBelowPeak(c, walk)
        BY <2>1 DEF StateBelowPeak
    <2>4. progress[c].cursor # None => StateBelowPeak(c, resumed)
        BY <2>1, <2>2 DEF StateBelowPeak, PeakInv, RowBelowPeak
    <2> QED BY <2>1, <2>2, <2>3, <2>4, PutBelow
<1> QED BY <1>2, <1>3

\* Reading and storing a page is done for one contract while the others wait.
LEMMA PageStepBelow ==
    ASSUME TypeInv, PeakInv, NEW c \in Contracts,
           StartCatchUp(c) \/ FetchBackfillPage(c) \/ StorePage(c)
    PROVE  StaysBelow(c)
<1> DEFINE s == sync[c]
           page == LogsPage(c, s.cursor)
           walk == [s EXCEPT !.mode = "walk"]
           fetched == [s EXCEPT !.mode = "fetched", !.pages = <<page>>]
           stored == [s EXCEPT !.mode = "stored"]
<1>1. s \in SyncState /\ sync \in [Contracts -> SyncState] /\ UNCHANGED progress
      /\ RowBelowPeak(progress[c])
    BY DEF TypeInv, TypeOK, SyncTypeOK, StartCatchUp, FetchBackfillPage, StorePage, storeVars,
       PeakInv
<1>2. /\ ~s.done /\ s.synced <= peak /\ StateBelowPeak(c, s)
      /\ \A d \in Contracts \ {c} : sync[d].mode = "ready"
    <2>1. \/ ~s.done /\ \A d \in Contracts : sync[d].mode = "ready"
          \/ s.mode = "fetched"
        BY DEF StartCatchUp, FetchBackfillPage, StorePage, HasPage, Picked, AtLoopHead, Syncing
    <2>2. s.mode = "fetched" => \A d \in Contracts \ {c} : sync[d].mode = "ready"
        BY DEF PeakInv
    <2>3. StateBelowPeak(c, s)
        BY DEF PeakInv
    <2> QED BY <2>1, <2>2, <2>3 DEF StateBelowPeak
<1>3. CASE StartCatchUp(c)
    <2>1. s.pages = <<>> /\ s.cursor = None /\ sync' = [sync EXCEPT ![c] = walk]
        BY <1>3 DEF StartCatchUp
    <2>2. /\ walk.mode = "walk" /\ walk.cursor = None /\ walk.pages = <<>> /\ ~walk.done
        BY <1>1, <1>2, <2>1 DEF SyncState
    <2> HIDE DEF walk
    <2>3. StateBelowPeak(c, walk)
        BY <2>2 DEF StateBelowPeak
    <2> QED BY <2>1, <2>2, <2>3, <1>1, PutBelow
<1>4. CASE FetchBackfillPage(c)
    <2>1. s.cursor # None /\ sync' = [sync EXCEPT ![c] = fetched]
        BY <1>1, <1>4 DEF FetchBackfillPage
    <2>2. PageBelowPeak(page)
        BY PageBelow DEF TypeInv, TypeOK
    <2> HIDE DEF page
    <2>3. /\ fetched.mode = "fetched" /\ fetched.cursor = s.cursor /\ fetched.pages = <<page>>
          /\ ~fetched.done /\ fetched.synced = s.synced
        BY <1>1, <1>2 DEF SyncState
    <2> HIDE DEF fetched
    <2>4. \A i \in 1..Len(fetched.pages) : PageBelowPeak(fetched.pages[i])
        BY <2>2, <2>3
    <2>5. StateBelowPeak(c, fetched)
        BY <1>2, <2>3, <2>4 DEF StateBelowPeak
    <2>6. sync'[c] = fetched /\ \A d \in Contracts \ {c} : sync'[d] = sync[d]
        BY <1>1, <2>1
    <2> QED BY <1>1, <1>2, <2>5, <2>6 DEF StaysBelow
<1>5. CASE StorePage(c)
    <2>1. /\ stored.mode = "stored" /\ stored.cursor = s.cursor /\ stored.pages = s.pages
          /\ ~stored.done /\ stored.synced = s.synced
        BY <1>1, <1>2 DEF SyncState
    <2>2. sync' = [sync EXCEPT ![c] = stored]
        BY <1>5 DEF StorePage
    <2> HIDE DEF stored
    <2>3. StateBelowPeak(c, stored)
        BY <1>2, <2>1 DEF StateBelowPeak
    <2>4. sync'[c] = stored /\ \A d \in Contracts \ {c} : sync'[d] = sync[d]
        BY <1>1, <2>2
    <2> QED BY <1>1, <1>2, <2>3, <2>4 DEF StaysBelow
<1> QED BY <1>3, <1>4, <1>5

LEMMA SaveBackfillBelow ==
    ASSUME TypeInv, PeakInv, NEW c \in Contracts, SaveBackfillPage(c)
    PROVE  StaysBelow(c) /\ sync'[c].mode = "ready"
<1> DEFINE s == sync[c]
           page == Head(s.pages)
           t == [s EXCEPT !.mode = "ready", !.pages = <<>>, !.cursor = page.next,
                          !.synced = MaxOf(s.synced, s.cursor.height - 1)]
<1>1. s \in SyncState /\ HoldsPages(s) /\ s.mode = "stored" /\ s.cursor # None
      /\ StateBelowPeak(c, s) /\ peak \in Nat
    BY DEF SaveBackfillPage, TypeInv, TypeOK, SyncTypeOK, PagesHeld, PeakInv, ChainTypeOK,
       Heights
<1>2. s.synced \in Nat /\ s.cursor.height \in Nat /\ s.synced <= peak
      /\ s.cursor.height <= peak
    BY <1>1 DEF SyncState, Position, Heights, StateBelowPeak
<1>3. PageBelowPeak(page)
    <2>1. s.pages \in Seq(Page) /\ s.pages # <<>>
        BY <1>1 DEF SyncState, HoldsPages
    <2>2. Len(s.pages) \in Nat \ {0} /\ page = s.pages[1]
        BY <2>1, HeadTailProperties, EmptySeq
    <2> QED BY <1>1, <2>2 DEF StateBelowPeak
<1>4. \/ HasEnd(c) /\ CompleteAtEndBlock(c, s)
      \/ /\ sync' = [sync EXCEPT ![c] = t]
         /\ UpsertSyncProgress(c, t.cursor, t.synced, FALSE)
    BY DEF SaveBackfillPage
<1>5. CASE HasEnd(c) /\ CompleteAtEndBlock(c, s)
    BY <1>1, <1>5, CompleteBelow
<1>6. CASE /\ sync' = [sync EXCEPT ![c] = t]
           /\ UpsertSyncProgress(c, t.cursor, t.synced, FALSE)
    <2>1. /\ t.mode = "ready" /\ t.pages = <<>> /\ t.cursor = page.next
          /\ t.synced = MaxOf(s.synced, s.cursor.height - 1)
        BY <1>1 DEF SyncState
    <2> HIDE DEF t, page, s
    <2>2. t.synced <= peak /\ (t.cursor # None => t.cursor.height <= peak)
        BY <1>1, <1>2, <1>3, <2>1 DEF MaxOf, PageBelowPeak
    <2>3. StateBelowPeak(c, t)
        BY <2>1, <2>2 DEF StateBelowPeak
    <2>4. sync'[c] = t
        BY <1>6 DEF TypeInv, TypeOK, SyncTypeOK
    <2> QED BY <1>6, <2>1, <2>2, <2>3, <2>4, PutBelow
<1> QED BY <1>4, <1>5, <1>6

LEMMA SaveCatchUpBelow ==
    ASSUME TypeInv, PeakInv, NEW c \in Contracts, SaveCatchUpPage(c)
    PROVE  StaysBelow(c) /\ sync'[c].mode = "ready"
<1> DEFINE s == sync[c]
           height == Head(s.pages).cursor.height
           newest == Len(s.pages) = 1
           synced == MaxOf(s.synced, IF newest THEN height ELSE height - 1)
           t == [s EXCEPT !.mode = "ready", !.pages = Tail(s.pages), !.synced = synced,
                          !.done = newest, !.syncedToHead = newest]
           u == [s EXCEPT !.pages = Tail(s.pages)]
<1>1. s \in SyncState /\ HoldsPages(s) /\ s.mode = "stored" /\ s.cursor = None
      /\ StateBelowPeak(c, s) /\ peak \in Nat
    BY DEF SaveCatchUpPage, TypeInv, TypeOK, SyncTypeOK, PagesHeld, PeakInv, ChainTypeOK,
       Heights
<1>2. s.pages \in Seq(Page) /\ s.pages # <<>> /\ s.synced \in Nat /\ s.synced <= peak
    BY <1>1 DEF SyncState, HoldsPages, StateBelowPeak
<1>3. /\ Head(s.pages) \in Page /\ Tail(s.pages) \in Seq(Page)
      /\ Head(s.pages) = s.pages[1]
      /\ Len(s.pages) \in Nat \ {0}
      /\ Len(Tail(s.pages)) = Len(s.pages) - 1
      /\ \A i \in 1..Len(Tail(s.pages)) : Tail(s.pages)[i] = s.pages[i + 1]
    BY <1>2, HeadTailProperties, EmptySeq
<1>4. height \in Nat /\ height <= peak
    <2>1. Head(s.pages).cursor # None /\ PageBelowPeak(Head(s.pages))
        BY <1>1, <1>3 DEF HoldsPages, StateBelowPeak
    <2> QED BY <1>3, <2>1 DEF PageBelowPeak, Page, Position, Heights
<1>5. synced <= peak
    BY <1>1, <1>2, <1>4 DEF MaxOf
<1>6. \A i \in 1..Len(Tail(s.pages)) : PageBelowPeak(Tail(s.pages)[i])
    BY <1>1, <1>3 DEF StateBelowPeak
<1>7. u \in SyncState
    BY <1>1, <1>3 DEF SyncState
<1>8. /\ t.mode = "ready" /\ t.pages = Tail(s.pages) /\ t.cursor = None /\ t.synced = synced
    BY <1>1 DEF SyncState
<1>9. \/ HasEnd(c) /\ CompleteAtEndBlock(c, u)
      \/ /\ sync' = [sync EXCEPT ![c] = t]
         /\ UpsertSyncProgress(c, None, t.synced, FALSE)
    BY DEF SaveCatchUpPage
<1> HIDE DEF s, t, u, synced, height, newest
<1>10. CASE HasEnd(c) /\ CompleteAtEndBlock(c, u)
    BY <1>7, <1>10, CompleteBelow
<1>11. CASE /\ sync' = [sync EXCEPT ![c] = t]
            /\ UpsertSyncProgress(c, None, t.synced, FALSE)
    <2>1. StateBelowPeak(c, t)
        BY <1>5, <1>6, <1>8 DEF StateBelowPeak
    <2>2. sync'[c] = t
        BY <1>11 DEF TypeInv, TypeOK, SyncTypeOK
    <2> QED BY <1>8, <1>11, <2>1, <2>2, PutBelow
<1> QED BY <1>9, <1>10, <1>11

\* An offered height is one a contract that has more to sync is synced to.
LEMMA OfferBelow ==
    ASSUME TypeInv, SyncTypeOK', PeakInv, NEW c \in Contracts, StaysBelow(c),
           sync[c].mode = "stored", sync'[c].mode = "ready", OfferSafeHeight
    PROVE  \A i \in DOMAIN queue' : queue'[i] <= peak
<1>1. queue \in Seq(Nat) /\ \A i \in DOMAIN queue : queue[i] <= peak
    BY DEF TypeInv, TypeOK, SyncTypeOK, PeakInv
<1>2. CASE queue' = queue
    BY <1>1, <1>2
<1>3. CASE queue' # queue
    <2>1. PICK h \in {sync'[d].synced : d \in Contracts} :
            IsSafeHeight(h, sync') /\ queue' = Append(queue, h)
        BY <1>3 DEF OfferSafeHeight
    <2>2. PICK d \in Contracts : ~sync'[d].done /\ h = sync'[d].synced
        BY <2>1 DEF IsSafeHeight
    <2>3. h \in Nat
        BY <2>2 DEF SyncTypeOK, SyncState
    <2>4. h <= peak
        <3>1. CASE d = c
            BY <2>2, <3>1 DEF StaysBelow, StateBelowPeak
        <3>2. CASE d # c
            <4>1. sync'[d] = sync[d] /\ sync[d].mode = "ready" /\ StateBelowPeak(d, sync[d])
                BY <3>2 DEF StaysBelow, PeakInv
            <4> QED BY <2>2, <4>1 DEF StateBelowPeak
        <3> QED BY <3>1, <3>2
    <2>5. /\ Len(queue') = Len(queue) + 1 /\ DOMAIN queue' = 1..Len(queue')
          /\ DOMAIN queue = 1..Len(queue) /\ Len(queue) \in Nat
          /\ \A i \in 1..Len(queue) : queue'[i] = queue[i]
          /\ queue'[Len(queue) + 1] = h
        BY <1>1, <2>1, <2>3, AppendProperties, LenProperties
    <2> QED BY <1>1, <2>4, <2>5
<1> QED BY <1>2, <1>3

LEMMA ProducerBelow ==
    ASSUME TypeInv, TypeInv', PeakInv, ProducerStep
    PROVE  PeakInv'
<1>1. PICK c \in Contracts :
        \/ InitFromScratch(c) \/ InitFromSaved(c) \/ WalkPage(c)
        \/ StartCatchUp(c) \/ FetchBackfillPage(c) \/ StorePage(c)
        \/ SaveBackfillPage(c) \/ SaveCatchUpPage(c)
    BY DEF ProducerStep, SyncStep
<1>2. UNCHANGED <<peak, tip>>
    BY DEF ProducerStep, chainVars, passVars
<1>3. StaysBelow(c)
    BY <1>1, InitBelow, WalkBelow, PageStepBelow, SaveBackfillBelow, SaveCatchUpBelow
<1>4. \A d \in Contracts : StateBelowPeak(d, sync[d])' /\ RowBelowPeak(progress[d])'
    <2> SUFFICES ASSUME NEW d \in Contracts
                 PROVE  StateBelowPeak(d, sync[d])' /\ RowBelowPeak(progress[d])'
        OBVIOUS
    <2>1. StateBelowPeak(d, sync'[d]) /\ RowBelowPeak(progress'[d])
        <3>1. CASE d = c
            BY <1>3, <3>1 DEF StaysBelow
        <3>2. CASE d # c
            BY <1>3, <3>2 DEF StaysBelow, PeakInv
        <3> QED BY <3>1, <3>2
    <2> QED BY <1>2, <2>1 DEF StateBelowPeak, RowBelowPeak, PageBelowPeak, FreshState
<1>5. ASSUME NEW a \in Contracts, NEW b \in Contracts,
             sync'[a].mode \in {"fetched", "stored"}, b # a
      PROVE  sync'[b].mode = "ready"
    <2>0. /\ sync'[c].mode \in {"fetched", "stored"} =>
               \A d \in Contracts \ {c} : sync[d].mode = "ready"
          /\ \A d \in Contracts \ {c} : sync'[d] = sync[d]
          /\ \A d, e \in Contracts :
               sync[d].mode \in {"fetched", "stored"} /\ e # d => sync[e].mode = "ready"
        BY <1>3 DEF StaysBelow, PeakInv
    <2>1. CASE a = c
        BY <1>5, <2>0, <2>1
    <2>2. CASE a # c /\ b # c
        BY <1>5, <2>0, <2>2
    <2>3. CASE a # c /\ b = c
        <3>1. sync[a].mode \in {"fetched", "stored"} /\ sync[c].mode = "ready"
            BY <1>5, <2>0, <2>3
        <3>2. FALSE
            <4>1. ~AtLoopHead
                BY <3>1 DEF AtLoopHead
            <4> QED BY <1>1, <3>1, <4>1 DEF InitFromScratch, InitFromSaved, WalkPage,
                StartCatchUp, FetchBackfillPage, StorePage, HasPage, Picked,
                SaveBackfillPage, SaveCatchUpPage
        <3> QED BY <3>2
    <2> QED BY <2>1, <2>2, <2>3
<1>6. \A e \in events' : e.height <= peak
    <2>1. CASE StorePage(c)
        <3>1. events' \subseteq events \cup Logs(c)
            BY <2>1 DEF StorePage, Fetchable, InsertEvents
        <3>2. \A e \in Logs(c) : e.height <= peak
            BY LogsBelow DEF TypeInv, TypeOK
        <3> QED BY <3>1, <3>2 DEF PeakInv
    <2>2. CASE ~StorePage(c)
        BY <1>1, <2>2 DEF InitFromScratch, InitFromSaved, WalkPage, StartCatchUp,
           FetchBackfillPage, SaveBackfillPage, SaveCatchUpPage, storeVars, PeakInv
    <2> QED BY <2>1, <2>2
<1>7. \A i \in DOMAIN queue' : queue'[i] <= peak
    <2>1. CASE SaveBackfillPage(c) \/ SaveCatchUpPage(c)
        <3>1. sync[c].mode = "stored" /\ OfferSafeHeight
            BY <2>1 DEF SaveBackfillPage, SaveCatchUpPage
        <3>2. sync'[c].mode = "ready"
            BY <2>1, SaveBackfillBelow, SaveCatchUpBelow
        <3> QED BY <1>3, <3>1, <3>2, OfferBelow DEF TypeInv, TypeOK
    <2>2. CASE ~(SaveBackfillPage(c) \/ SaveCatchUpPage(c))
        BY <1>1, <2>2 DEF InitFromScratch, InitFromSaved, WalkPage, StartCatchUp,
           FetchBackfillPage, StorePage, PeakInv
    <2> QED BY <2>1, <2>2
<1> QED BY <1>2, <1>4, <1>5, <1>6, <1>7 DEF PeakInv

LEMMA RewindBelow ==
    ASSUME PeakInv, TypeInv, NEW height, RewindTo(height)
    PROVE  /\ events' \subseteq events
           /\ \A c \in Contracts : RowBelowPeak(progress'[c])
<1>1. \A c \in Contracts :
        \/ progress'[c] = progress[c]
        \/ progress'[c] = [cursor |-> None, synced |-> height, isComplete |-> FALSE]
    BY DEF RewindTo
<1>2. ASSUME NEW c \in Contracts PROVE RowBelowPeak(progress'[c])
    <2>1. CASE progress'[c] = progress[c]
        BY <2>1 DEF PeakInv
    <2>2. CASE progress'[c] = [cursor |-> None, synced |-> height, isComplete |-> FALSE]
        BY <2>2 DEF RowBelowPeak
    <2> QED BY <1>1, <2>1, <2>2
<1> QED BY <1>2 DEF RewindTo

LEMMA ReconcileBelow ==
    ASSUME TypeInv, PeakInv, ReconcileStep
    PROVE  PeakInv'
<1>1. UNCHANGED <<peak, sync, queue>>
    BY DEF ReconcileStep, chainVars, syncVars
<1>2. tip' # None => tip'.height <= peak
    <2>1. CASE ReadChainTip
        <3>1. tip' # None => tip'.height = top
            BY <2>1, TipReadsAssumption DEF ReadChainTip
        <3> QED BY <3>1 DEF TypeInv, TypeOK, ChainTypeOK
    <2>2. CASE ~ReadChainTip
        BY <2>2 DEF PeakInv, ReconcileStep, NothingToReplay, ReplayUnfinalized,
           AnchorCanonical, AnchorOrphaned, Probe, FailWithReorgError, RewindToAncestor,
           SetSyncAnchor
    <2> QED BY <2>1, <2>2
<1>3. UNCHANGED <<events, progress>> \/ \E height : RewindTo(height)
    BY DEF ReconcileStep, ReadChainTip, NothingToReplay, ReplayUnfinalized, AnchorCanonical,
       AnchorOrphaned, Probe, FailWithReorgError, RewindToAncestor, SetSyncAnchor, storeVars
<1>4. events' \subseteq events /\ \A c \in Contracts : RowBelowPeak(progress'[c])
    BY <1>3, RewindBelow DEF PeakInv
<1> QED BY <1>1, <1>2, <1>4
    DEF PeakInv, StateBelowPeak, RowBelowPeak, PageBelowPeak, FreshState

LEMMA RaiseBelow ==
    ASSUME TypeInv, PeakInv, NEW cs, NEW height, height <= peak,
           RaiseSyncedBlockHeight(cs, height)
    PROVE  \A c \in Contracts : RowBelowPeak(progress'[c])
<1>1. progress \in [Contracts -> Progress \cup {None}]
    BY DEF TypeInv, TypeOK, StoreTypeOK
<1>2. ASSUME NEW c \in Contracts PROVE RowBelowPeak(progress'[c])
    <2>1. \/ progress'[c] = progress[c]
          \/ /\ progress[c] # None
             /\ progress'[c] = [progress[c] EXCEPT !.synced = height]
        BY DEF RaiseSyncedBlockHeight
    <2>2. CASE progress'[c] = progress[c]
        BY <2>2 DEF PeakInv
    <2>3. CASE /\ progress[c] # None
               /\ progress'[c] = [progress[c] EXCEPT !.synced = height]
        <3>1. /\ progress'[c].synced = height
              /\ progress'[c].cursor = progress[c].cursor
            BY <1>1, <2>3 DEF Progress
        <3> QED BY <2>3, <3>1 DEF PeakInv, RowBelowPeak
    <2> QED BY <2>1, <2>2, <2>3
<1> QED BY <1>2

LEMMA ConsumerBelow ==
    ASSUME TypeInv, PeakInv, ConsumerStep
    PROVE  PeakInv'
<1>1. UNCHANGED <<peak, sync, tip, events>>
    BY DEF ConsumerStep, chainVars, IndexSafeHeight, IndexBatch, RaiseToTip, IndexRemaining,
       passVars, syncVars
<1>2. \A i \in DOMAIN queue' : queue'[i] <= peak
    <2>1. CASE IndexSafeHeight
        <3>1. queue \in Seq(Nat) /\ queue # <<>> /\ queue' = Tail(queue)
            BY <2>1 DEF IndexSafeHeight, TypeInv, TypeOK, SyncTypeOK
        <3>2. \A i \in DOMAIN queue' : i + 1 \in DOMAIN queue /\ queue'[i] = queue[i + 1]
            BY <3>1, HeadTailProperties, LenProperties
        <3> QED BY <3>2 DEF PeakInv
    <2>2. CASE ~IndexSafeHeight
        BY <2>2 DEF ConsumerStep, RaiseToTip, IndexRemaining, syncVars, PeakInv
    <2> QED BY <2>1, <2>2
<1>3. \A c \in Contracts : RowBelowPeak(progress'[c])
    <2>1. CASE UNCHANGED progress
        BY <2>1 DEF PeakInv
    <2>2. CASE tip # None /\ \E cs : RaiseSyncedBlockHeight(cs, tip.height)
        BY <2>2, RaiseBelow DEF PeakInv
    <2> QED BY <2>1, <2>2 DEF ConsumerStep, IndexSafeHeight, IndexBatch, RaiseToTip,
        IndexRemaining
<1> QED BY <1>1, <1>2, <1>3
    DEF PeakInv, StateBelowPeak, RowBelowPeak, PageBelowPeak, FreshState

LEMMA ResetBelow ==
    ASSUME PeakInv, Reset, UNCHANGED peak
    PROVE  PeakInv'
<1>1. \A c \in Contracts : sync'[c] = FreshState(c)
    BY DEF Reset
<1>2. UNCHANGED <<events, progress>> /\ tip' = None /\ queue' = <<>>
    BY DEF Reset, storeVars
<1>3. \A c \in Contracts : /\ FreshState(c).mode = "start" /\ FreshState(c).cursor = None
                           /\ FreshState(c).pages = <<>>
    BY DEF FreshState
<1>4. \A c \in Contracts : FreshState(c)' = FreshState(c)
    BY DEF FreshState
<1> HIDE DEF FreshState
<1>5. \A c \in Contracts : StateBelowPeak(c, sync[c])' /\ RowBelowPeak(progress[c])'
    BY <1>1, <1>2, <1>3, <1>4 DEF PeakInv, StateBelowPeak, RowBelowPeak
<1> QED BY <1>1, <1>2, <1>3, <1>5 DEF PeakInv

\* A growing chain only raises the highest tip.
LEMMA ChainBelow ==
    ASSUME TypeInv, PeakInv, ChainStep \/ UNCHANGED vars
    PROVE  PeakInv'
<1>1. UNCHANGED <<sync, queue, tip, events, progress>>
    BY DEF ChainStep, storeVars, passVars, syncVars, vars
<1>2. peak \in Nat /\ peak' \in Nat /\ peak <= peak'
    <2>1. peak \in Nat /\ top \in Nat
        BY DEF TypeInv, TypeOK, ChainTypeOK, Heights
    <2> QED BY <2>1 DEF ChainStep, Mine, Reorg, MaxOf, vars, chainVars
<1>3. /\ \A e \in events : e.height \in Nat
      /\ \A i \in DOMAIN queue : queue[i] \in Nat
      /\ tip # None => tip.height \in Nat
      /\ \A c \in Contracts : progress[c] # None => progress[c].synced \in Nat
      /\ \A c \in Contracts : progress[c] # None /\ progress[c].cursor # None =>
                                  progress[c].cursor.height \in Nat
    BY ElementOfSeq, LenProperties DEF TypeInv, TypeOK, StoreTypeOK, PassTypeOK, SyncTypeOK,
       Event, Heights, Tip, Progress, Position
<1>4. ASSUME NEW c \in Contracts
      PROVE  StateBelowPeak(c, sync[c])'
    <2>1. sync[c] \in SyncState /\ StateBelowPeak(c, sync[c])
        BY DEF TypeInv, TypeOK, SyncTypeOK, PeakInv
    <2>2. /\ sync[c].synced \in Nat
          /\ sync[c].cursor # None => sync[c].cursor.height \in Nat
          /\ \A i \in 1..Len(sync[c].pages) : sync[c].pages[i] \in Page
        BY <2>1, ElementOfSeq DEF SyncState, Position, Heights
    <2>3. \A i \in 1..Len(sync[c].pages) : PageBelowPeak(sync[c].pages[i])'
        <3>1. ASSUME NEW page \in Page, PageBelowPeak(page)
              PROVE  /\ page.cursor # None => page.cursor.height <= peak'
                     /\ page.next # None => page.next.height <= peak'
            BY <1>2, <3>1 DEF PageBelowPeak, Page, Position, Heights
        <3>2. \A i \in 1..Len(sync[c].pages) : PageBelowPeak(sync[c].pages[i])
            BY <2>1 DEF StateBelowPeak
        <3> QED BY <1>1, <2>2, <3>1, <3>2 DEF PageBelowPeak
    <2> QED BY <1>1, <1>2, <2>1, <2>2, <2>3 DEF StateBelowPeak, FreshState
<1>5. \A c \in Contracts : RowBelowPeak(progress[c])'
    BY <1>1, <1>2, <1>3 DEF PeakInv, RowBelowPeak
<1> QED BY <1>1, <1>2, <1>3, <1>4, <1>5 DEF PeakInv

LEMMA PeakInit == Init => PeakInv
BY DEF Init, ChainInit, StoreInit, PassInit, SyncInit, PeakInv, StateBelowPeak, RowBelowPeak,
   FreshState

LEMMA PeakStep ==
    ASSUME TypeInv, TypeInv', PeakInv, [Next]_vars
    PROVE  PeakInv'
<1>1. CASE EndStep \/ StopStep
    BY <1>1, ResetBelow DEF EndStep, EndPass, StopStep, Stop, chainVars
<1> QED BY <1>1, ReconcileBelow, ProducerBelow, ConsumerBelow, ChainBelow DEF Next

\* Whatever the tip request answers, and however the chain moves, the indexer
\* stores, reads and offers nothing above the highest tip there ever was, and
\* handles the page of one contract at a time.
THEOREM PeakInvariant == Spec => [](TypeInv /\ PeakInv)
<1>1. TypeInv /\ TypeInv' /\ PeakInv /\ [Next]_vars => PeakInv'
    BY PeakStep
<1> QED BY <1>1, TypeInvInit, TypeInvStep, PeakInit, PTL DEF Spec

-----------------------------------------------------------------------------
(* The finalized block. *)

LEMMA FinalityInvInit == Init => FinalityInv
BY ChainAssumption
   DEF Init, ChainInit, StoreInit, PassInit, IndexInit, FinalityInv, MayBeFinal, Deep,
       FinalizedHeight, CheckpointHeight

LEMMA Heighted ==
    ASSUME TypeOK
    PROVE  /\ peak \in Nat /\ top \in Nat /\ top <= peak
           /\ FinalizedHeight \in Nat /\ CheckpointHeight \in Nat
           /\ tip # None => tip.height \in Nat
           /\ anchor # None => anchor.height \in Nat
           /\ Finality \in Nat /\ MaxDepth \in Nat
BY StoredHeights, ChainAssumption, IndexAssumption
   DEF TypeOK, ChainTypeOK, PassTypeOK, StoreTypeOK, Tip, Anchor, Heights

\* A rewind to the finalized height or above keeps the marker and leaves the
\* checkpoint above it.
LEMMA RewindToFinality ==
    ASSUME TypeOK, NEW height \in Nat, FinalizedHeight <= height,
           FinalizedHeight <= CheckpointHeight, RewindTo(height)
    PROVE  /\ FinalizedHeight' = FinalizedHeight
           /\ FinalizedHeight' <= CheckpointHeight'
           /\ {e \in handled : e.height <= FinalizedHeight} \subseteq handled'
           /\ UNCHANGED anchor
<1>1. checkpoint \in Checkpoint \cup {None}
    BY DEF TypeOK, StoreTypeOK
<1>2. /\ FinalizedHeight' = FinalizedHeight
      /\ FinalizedHeight' <= CheckpointHeight'
    <2>1. CASE checkpoint # None /\ checkpoint.blockHeight > height
        <3>1. checkpoint' \in Checkpoint
            BY <1>1, <2>1 DEF RewindTo, Checkpoint
        <3> QED BY <1>1, <2>1, <3>1, RowAssumption
                DEF RewindTo, FinalizedHeight, CheckpointHeight, Checkpoint
    <2>2. CASE ~(checkpoint # None /\ checkpoint.blockHeight > height)
        BY <2>2 DEF RewindTo, FinalizedHeight, CheckpointHeight
    <2> QED BY <2>1, <2>2
<1>3. {e \in handled : e.height <= FinalizedHeight} \subseteq handled'
    <2>1. \A e \in handled : e.height \in Nat
        BY DEF TypeOK, StoreTypeOK, Event, Heights
    <2> QED BY <2>1, StoredHeights DEF RewindTo, TypeOK
<1> QED BY <1>2, <1>3 DEF RewindTo

\* A reconcile step keeps the finalized marker, its handler work and the
\* invariant.
LEMMA ReconcileFinality ==
    ASSUME TypeOK, FinalityInv, TypeOK', ReconcileStep, ReorgsAreShallow
    PROVE  /\ FinalityInv'
           /\ FinalizedHeight' = FinalizedHeight
           /\ {e \in handled : e.height <= FinalizedHeight} \subseteq handled'
<1>h. /\ peak \in Nat /\ top \in Nat /\ top <= peak
      /\ FinalizedHeight \in Nat /\ CheckpointHeight \in Nat
      /\ tip # None => tip.height \in Nat
      /\ anchor # None => anchor.height \in Nat
      /\ Finality \in Nat /\ MaxDepth \in Nat
    BY Heighted
<1>u. UNCHANGED <<peak, top, batches>>
    BY DEF ReconcileStep, chainVars
<1>s. UNCHANGED storeVars => /\ FinalizedHeight' = FinalizedHeight
                             /\ CheckpointHeight' = CheckpointHeight
                             /\ UNCHANGED <<anchor, handled>>
    BY DEF storeVars, FinalizedHeight, CheckpointHeight
<1>b. batches = None
    <2>1. phase \notin {"sync", "last"}
        BY DEF ReconcileStep, ReadChainTip, NothingToReplay, ReplayUnfinalized, AnchorCanonical,
               AnchorOrphaned, Probe, FailWithReorgError, RewindToAncestor, SetSyncAnchor
    <2> QED BY <2>1 DEF FinalityInv
<1>1. CASE ReadChainTip
    <2>1. tip' # None => tip'.height = top
        BY <1>1, TipReadsAssumption DEF ReadChainTip
    <2>2. FinalizedHeight <= top
        BY <1>h DEF FinalityInv, MayBeFinal, Deep, ReorgsAreShallow
    <2> QED
        BY <1>h, <1>u, <1>s, <1>b, <1>1, <2>1, <2>2
        DEF ReadChainTip, FinalityInv, MayBeFinal, Deep
<1>2. CASE NothingToReplay
    BY <1>u, <1>s, <1>b, <1>2 DEF NothingToReplay, FinalityInv, MayBeFinal, Deep
<1>3. CASE ReplayUnfinalized
    <2>1. /\ FinalizedHeight' = FinalizedHeight
          /\ FinalizedHeight' <= CheckpointHeight'
          /\ {e \in handled : e.height <= FinalizedHeight} \subseteq handled'
          /\ UNCHANGED anchor
        BY <1>h, <1>3, RewindToFinality DEF ReplayUnfinalized, FinalityInv
    <2> QED BY <1>u, <1>b, <1>3, <2>1 DEF ReplayUnfinalized, FinalityInv, MayBeFinal, Deep
<1>4. CASE AnchorCanonical
    <2>1. /\ FinalizedHeight' = FinalizedHeight
          /\ FinalizedHeight' <= CheckpointHeight'
          /\ {e \in handled : e.height <= FinalizedHeight} \subseteq handled'
          /\ UNCHANGED anchor
        BY <1>h, <1>4, RewindToFinality DEF AnchorCanonical, FinalityInv
    <2> QED BY <1>u, <1>b, <1>4, <2>1 DEF AnchorCanonical, FinalityInv, MayBeFinal, Deep
<1>5. CASE AnchorOrphaned
    <2>1. \A h \in probing' : FinalizedHeight <= h
        BY <1>h, <1>5 DEF AnchorOrphaned, StoredBlocks
    <2> QED
        BY <1>u, <1>s, <1>b, <1>5, <2>1
        DEF AnchorOrphaned, StoredBlocks, FinalityInv, MayBeFinal, Deep
<1>6. CASE Probe
    <2>1. PICK middle \in probing :
            \/ ancestor' = middle /\ probing' \subseteq probing
            \/ UNCHANGED ancestor /\ probing' \subseteq probing
        BY <1>6 DEF Probe
    <2>2. phase = "search" /\ UNCHANGED <<phase, tip>> /\ UNCHANGED storeVars
        BY <1>6 DEF Probe
    <2> QED BY <1>u, <1>s, <1>b, <2>1, <2>2 DEF FinalityInv, MayBeFinal, Deep
<1>7. CASE FailWithReorgError
    BY <1>u, <1>s, <1>b, <1>7 DEF FailWithReorgError, FinalityInv, MayBeFinal, Deep
<1>8. CASE RewindToAncestor
    <2>1. ancestor # None => ancestor \in Nat /\ FinalizedHeight <= ancestor
        BY <1>8, ChainAssumption
        DEF RewindToAncestor, TypeOK, PassTypeOK, Heights, FinalityInv
    <2>2. /\ FinalizedHeight' = FinalizedHeight
          /\ FinalizedHeight' <= CheckpointHeight'
          /\ {e \in handled : e.height <= FinalizedHeight} \subseteq handled'
          /\ UNCHANGED anchor
        BY <1>h, <1>8, <2>1, RewindToFinality DEF RewindToAncestor, FinalityInv
    <2> QED BY <1>u, <1>b, <1>8, <2>2 DEF RewindToAncestor, FinalityInv, MayBeFinal, Deep
<1>9. CASE SetSyncAnchor
    <2>1. /\ FinalizedHeight' = FinalizedHeight
          /\ CheckpointHeight' = CheckpointHeight
          /\ UNCHANGED <<handled, tip>>
          /\ anchor' \in {tip, None}
        BY <1>9 DEF SetSyncAnchor, FinalizedHeight, CheckpointHeight
    <2>2. tip # None => FinalizedHeight <= tip.height
        BY DEF FinalityInv, MayBeFinal
    <2> QED BY <1>u, <1>b, <1>9, <2>1, <2>2 DEF SetSyncAnchor, FinalityInv, MayBeFinal, Deep
<1> QED
    BY <1>1, <1>2, <1>3, <1>4, <1>5, <1>6, <1>7, <1>8, <1>9 DEF ReconcileStep

-----------------------------------------------------------------------------
(* The consumer. *)

\* What finalizing the checkpoint's own block may raise the marker to.
LEMMA FinalizeCheckpoint ==
    ASSUME TypeOK, FinalityInv, NEW t \in Int, MayBeConfirmed(t + Finality)
    PROVE  /\ FinalizeCheckpointBlock(t) \in FinalizedHeight..CheckpointHeight
           /\ MayBeFinal(FinalizeCheckpointBlock(t))
<1>1. /\ FinalizedHeight \in Nat /\ CheckpointHeight \in Nat /\ peak \in Nat
      /\ tip # None => tip.height \in Nat
      /\ Finality \in Nat
    BY Heighted
<1>2. FinalizedHeight <= CheckpointHeight /\ MayBeFinal(FinalizedHeight)
    BY DEF FinalityInv
<1> QED BY <1>1, <1>2 DEF FinalizeCheckpointBlock, MaxOf, MayBeFinal, Deep, MayBeConfirmed

\* The heights a call may index up to: every height at or below the tip's, and
\* without a tip a safe height or no bound.
Indexable(to) == to \in Int /\ (tip = None => to <= peak \/ to = Unbounded)

LEMMA ConfirmedBelow ==
    ASSUME TypeOK, PeakInv, NEW to, Indexable(to)
    PROVE  IF Confirmation(to, TipHeight) = None
           THEN tip = None
           ELSE /\ Confirmation(to, TipHeight) \in Int
                /\ MayBeConfirmed(Confirmation(to, TipHeight))
<1>1. tip # None => tip.height \in Nat /\ tip.height <= peak
    BY Heighted DEF PeakInv
<1>2. peak \in Nat /\ to \in Int /\ (tip = None => to <= peak \/ to = Unbounded)
    BY Heighted DEF Indexable
<1>3. CASE tip = None
    <2>1. TipHeight = None
        BY <1>3 DEF TipHeight
    <2> QED BY <1>2, <1>3, <2>1, NoneAssumption DEF Confirmation, MayBeConfirmed
<1>4. CASE tip # None
    <2>1. TipHeight = tip.height /\ TipHeight # None
        BY <1>1, <1>4, NoneAssumption DEF TipHeight
    <2>2. Confirmation(to, TipHeight) = MinOf(to, tip.height)
        BY <2>1 DEF Confirmation
    <2> QED BY <1>1, <1>2, <1>4, <2>2, NoneAssumption DEF MinOf, MayBeConfirmed
<1> QED BY <1>3, <1>4

LEMMA ThresholdBelow ==
    ASSUME TypeOK, NEW h \in Int, MayBeConfirmed(h)
    PROVE  FinalityThreshold(h) \in Int /\ MayBeConfirmed(FinalityThreshold(h) + Finality)
<1>1. Finality \in Nat /\ h - Finality + Finality = h /\ h - Finality \in Int
    BY Heighted
<1> QED BY <1>1 DEF FinalityThreshold

LEMMA IndexEventsFinality ==
    ASSUME TypeOK, PeakInv, FinalityInv, batches = None, NEW to, Indexable(to),
           phase' \in {"sync", "last"}, phase \in {"sync", "final"},
           UNCHANGED <<top, peak, tip, anchor, events, handled>>,
           IndexEventsUpTo(to, TipHeight)
    PROVE  FinalityInv'
<1>1. /\ FinalizedHeight \in Nat /\ CheckpointHeight \in Nat /\ peak \in Nat /\ top \in Nat
      /\ tip # None => tip.height \in Nat
      /\ Finality \in Nat /\ MaxDepth \in Nat
      /\ anchor # None => anchor.height \in Nat
    BY Heighted
<1>2. ASSUME NEW h \in Int, MayBeConfirmed(h)
      PROVE  /\ FinalityThreshold(h) \in Int
             /\ MayBeConfirmed(FinalityThreshold(h) + Finality)
             /\ FinalizeCheckpointBlock(FinalityThreshold(h)) \in
                    FinalizedHeight..CheckpointHeight
             /\ MayBeFinal(FinalizeCheckpointBlock(FinalityThreshold(h)))
    <2>1. /\ FinalityThreshold(h) \in Int
          /\ MayBeConfirmed(FinalityThreshold(h) + Finality)
        BY <1>2, ThresholdBelow
    <2> QED BY <2>1, FinalizeCheckpoint
<1>3. anchor # None => anchor = tip
    BY DEF FinalityInv
<1>4. CASE IndexNothing(to, TipHeight)
    <2>1. CASE checkpoint' = checkpoint
        <3>1. FinalizedHeight' = FinalizedHeight /\ CheckpointHeight' = CheckpointHeight
            BY <2>1 DEF FinalizedHeight, CheckpointHeight
        <3> QED
            BY <1>1, <1>4, <3>1 DEF IndexNothing, UpsertCheckpoint, FinalityInv,
                MayBeFinal, Deep
    <2>2. CASE checkpoint' # checkpoint
        <3> DEFINE h == Confirmation(to, TipHeight)
                   f == FinalizeCheckpointBlock(FinalityThreshold(h))
        <3>1. /\ checkpoint # None /\ h # None
              /\ checkpoint' = [blockHeight |-> CheckpointHeight, finalized |-> f]
            BY <1>4, <2>2 DEF IndexNothing, UpsertCheckpoint
        <3>2. h \in Int /\ MayBeConfirmed(h)
            BY <3>1, ConfirmedBelow
        <3>3. f \in FinalizedHeight..CheckpointHeight /\ MayBeFinal(f)
            BY <1>2, <3>2
        <3> HIDE DEF h, f
        <3>4. checkpoint' \in Checkpoint /\ checkpoint' # None
            BY <1>1, <3>1, <3>3, RowAssumption DEF Checkpoint
        <3>5. FinalizedHeight' = f /\ CheckpointHeight' = CheckpointHeight
            BY <3>1, <3>4 DEF FinalizedHeight, CheckpointHeight
        <3> QED
            BY <1>1, <1>3, <1>4, <3>3, <3>5 DEF IndexNothing, FinalityInv, MayBeFinal, Deep
    <2> QED BY <2>1, <2>2
<1>5. CASE IndexRows(to, TipHeight)
    <2>1. FinalizedHeight' = FinalizedHeight /\ CheckpointHeight' = CheckpointHeight
        BY <1>5 DEF IndexRows, FinalizedHeight, CheckpointHeight
    <2>2. PICK last \in RowsUpTo(to) :
            batches' = LET h == IF Confirmation(to, TipHeight) = None THEN last.height
                                ELSE Confirmation(to, TipHeight)
                       IN  [rows      |-> RowsUpTo(to),
                            threshold |-> FinalityThreshold(h),
                            finalized |-> FinalizeCheckpointBlock(FinalityThreshold(h))]
        BY <1>5 DEF IndexRows
    <2>3. last.height \in Int /\ last.height <= peak
        BY DEF RowsUpTo, PeakInv, TypeOK, StoreTypeOK, Event, Heights
    <2>4. PICK h \in Int :
            /\ MayBeConfirmed(h)
            /\ batches' = [rows      |-> RowsUpTo(to),
                           threshold |-> FinalityThreshold(h),
                           finalized |-> FinalizeCheckpointBlock(FinalityThreshold(h))]
        <3>1. CASE Confirmation(to, TipHeight) = None
            <4>1. MayBeConfirmed(last.height)
                BY <2>3, <3>1, ConfirmedBelow DEF MayBeConfirmed
            <4> QED BY <2>2, <2>3, <3>1, <4>1
        <3>2. CASE Confirmation(to, TipHeight) # None
            <4>1. /\ Confirmation(to, TipHeight) \in Int
                  /\ MayBeConfirmed(Confirmation(to, TipHeight))
                BY <3>2, ConfirmedBelow
            <4> QED BY <2>2, <3>2, <4>1
        <3> QED BY <3>1, <3>2
    <2> DEFINE t == FinalityThreshold(h)
               f == FinalizeCheckpointBlock(t)
    <2>5. /\ MayBeConfirmed(t + Finality)
          /\ f \in FinalizedHeight..CheckpointHeight /\ MayBeFinal(f)
        BY <1>2, <2>4
    <2>6. batches'.rows = RowsUpTo(to) /\ batches'.threshold = t /\ batches'.finalized = f
        BY <2>4
    <2>7. \A e \in RowsUpTo(to) : CheckpointHeight < e.height
        BY DEF RowsUpTo
    <2> HIDE DEF t, f
    <2> QED
        BY <1>1, <1>3, <2>1, <2>5, <2>6, <2>7
        DEF FinalityInv, MayBeFinal, MayBeConfirmed, Deep
<1> QED BY <1>4, <1>5 DEF IndexEventsUpTo

LEMMA IndexBatchFinality ==
    ASSUME TypeOK, FinalityInv, TypeOK', IndexBatch, UNCHANGED <<top, peak, passVars>>
    PROVE  FinalityInv'
<1>0. /\ FinalizedHeight \in Nat /\ CheckpointHeight \in Nat /\ peak \in Nat /\ top \in Nat
      /\ Finality \in Nat /\ MaxDepth \in Nat
    BY Heighted
<1>1. /\ batches # None /\ batches \in Indexing
      /\ phase \in {"sync", "last"}
      /\ \A e \in batches.rows : CheckpointHeight < e.height
      /\ MayBeConfirmed(batches.threshold + Finality)
      /\ batches.finalized \in FinalizedHeight..CheckpointHeight
      /\ MayBeFinal(batches.finalized)
      /\ anchor \in {tip, None}
    BY DEF IndexBatch, UpsertCheckpoint, FinalityInv, TypeOK, IndexTypeOK
<1>2. tip # None => tip.height \in Nat
    BY Heighted
<1>3. PICK h \in {e.height : e \in batches.rows} :
        \E f \in {batches.finalized} \cup {e.height : e \in Prefix(batches.rows, h)} :
          /\ IsFinalizedAfter(f, Prefix(batches.rows, h))
          /\ checkpoint' = [blockHeight |-> h, finalized |-> f]
          /\ batches' = IF batches.rows \ Prefix(batches.rows, h) = {} THEN None
                        ELSE [batches EXCEPT
                                !.rows = batches.rows \ Prefix(batches.rows, h),
                                !.finalized = f]
    BY DEF IndexBatch, UpsertCheckpoint
<1>4. PICK f : /\ IsFinalizedAfter(f, Prefix(batches.rows, h))
               /\ checkpoint' = [blockHeight |-> h, finalized |-> f]
               /\ batches' = IF batches.rows \ Prefix(batches.rows, h) = {} THEN None
                             ELSE [batches EXCEPT
                                     !.rows = batches.rows \ Prefix(batches.rows, h),
                                     !.finalized = f]
    BY <1>3
<1>5. \A e \in batches.rows : e.height \in Nat
    BY <1>1 DEF Indexing, Event, Heights
<1>6. h \in Nat /\ CheckpointHeight < h
    BY <1>1, <1>5
<1>7. batches.threshold \in Int /\ batches.finalized \in Nat
    BY <1>1 DEF Indexing
<1>8. /\ f \in Nat /\ FinalizedHeight <= f /\ f <= h
      /\ MayBeFinal(f)
    <2>1. /\ batches.finalized <= f
          /\ \/ f = batches.finalized
             \/ \E e \in batches.rows :
                  e.height = f /\ e.height <= h /\ e.height <= batches.threshold
        <3>1. f \in {batches.finalized} \cup
                 {e.height : e \in Prefix(Prefix(batches.rows, h), batches.threshold)}
            BY <1>4 DEF IsFinalizedAfter
        <3>2. batches.finalized <= f
            BY <1>4 DEF IsFinalizedAfter
        <3> QED BY <3>1, <3>2 DEF Prefix
    <2>2. f \in Nat
        BY <1>5, <1>7, <2>1
    <2>3. FinalizedHeight <= f /\ f <= h
        BY <1>0, <1>1, <1>5, <1>6, <1>7, <2>1, <2>2
    <2>4. MayBeFinal(f)
        <3>1. CASE f = batches.finalized
            BY <1>1, <3>1
        <3>2. CASE f <= batches.threshold
            BY <1>0, <1>1, <1>2, <1>7, <2>2, <3>2 DEF MayBeFinal, MayBeConfirmed, Deep
        <3> QED BY <2>1, <3>1, <3>2
    <2> QED BY <2>2, <2>3, <2>4
<1>9. checkpoint' # None /\ FinalizedHeight' = f /\ CheckpointHeight' = h
    <2>1. checkpoint' \in Checkpoint
        BY <1>4, <1>6, <1>8 DEF Checkpoint
    <2> QED BY <1>4, <2>1, RowAssumption DEF FinalizedHeight, CheckpointHeight
<1>10. batches' # None =>
          /\ \A e \in batches'.rows : h < e.height
          /\ batches'.threshold = batches.threshold
          /\ batches'.finalized = f
    <2> SUFFICES ASSUME batches' # None
                 PROVE  /\ \A e \in batches'.rows : h < e.height
                        /\ batches'.threshold = batches.threshold
                        /\ batches'.finalized = f
        OBVIOUS
    <2>1. /\ batches'.rows = batches.rows \ Prefix(batches.rows, h)
          /\ batches'.threshold = batches.threshold
          /\ batches'.finalized = f
        BY <1>1, <1>4 DEF Indexing
    <2>2. \A e \in batches.rows \ Prefix(batches.rows, h) : h < e.height
        BY <1>5, <1>6 DEF Prefix
    <2> QED BY <2>1, <2>2
<1>11. UNCHANGED <<top, peak, tip, anchor, phase>>
    BY DEF IndexBatch, UpsertCheckpoint, passVars
<1>12. anchor # None => f <= anchor.height
    BY <1>1, <1>8 DEF MayBeFinal
<1> QED
    BY <1>0, <1>1, <1>2, <1>8, <1>9, <1>10, <1>11, <1>12
    DEF FinalityInv, MayBeFinal, MayBeConfirmed, Deep

LEMMA ConsumerFinality ==
    ASSUME TypeOK, PeakInv, FinalityInv, TypeOK', ConsumerStep
    PROVE  /\ FinalityInv'
           /\ {e \in handled : e.height <= FinalizedHeight} \subseteq handled'
<1>u. UNCHANGED <<top, peak>>
    BY DEF ConsumerStep, chainVars
<1>1. CASE IndexSafeHeight
    <2>1. Indexable(MinOf(Head(queue), IndexingCap))
        <3>1. Head(queue) \in Nat /\ Head(queue) <= peak
            <4>1. queue \in Seq(Nat) /\ queue # <<>>
                BY <1>1 DEF IndexSafeHeight, TypeOK, SyncTypeOK
            <4>2. Head(queue) \in Nat /\ Head(queue) = queue[1] /\ 1 \in DOMAIN queue
                BY <4>1, HeadTailProperties, EmptySeq, LenProperties
            <4> QED BY <4>2 DEF PeakInv
        <3>2. IndexingCap \in Int
            BY CapType DEF TypeOK
        <3>3. peak \in Nat /\ peak <= MaxHeight /\ MaxHeight \in Nat
            BY ChainAssumption DEF TypeOK, ChainTypeOK, Heights
        <3> QED BY <3>1, <3>2, <3>3 DEF Indexable, IndexingCap, Unbounded, MinOf
    <2>2. /\ phase = "sync" /\ phase' = phase /\ batches = None
          /\ UNCHANGED <<tip, anchor, events, handled>>
          /\ IndexEventsUpTo(MinOf(Head(queue), IndexingCap), TipHeight)
        BY <1>1 DEF IndexSafeHeight, passVars
    <2> QED BY <1>u, <2>1, <2>2, IndexEventsFinality
<1>2. CASE IndexBatch /\ UNCHANGED <<passVars, syncVars>>
    <2>1. FinalityInv'
        BY <1>u, <1>2, IndexBatchFinality
    <2> QED BY <1>2, <2>1 DEF IndexBatch, UpsertCheckpoint
<1>3. CASE RaiseToTip
    <2>1. /\ FinalizedHeight' = FinalizedHeight /\ CheckpointHeight' = CheckpointHeight
          /\ UNCHANGED <<tip, anchor, handled, batches>>
          /\ batches = None /\ phase = "sync" /\ phase' = "final"
        BY <1>3 DEF RaiseToTip, FinalizedHeight, CheckpointHeight
    <2>2. FinalizedHeight \in Nat
        BY Heighted
    <2> QED BY <1>u, <2>1, <2>2 DEF FinalityInv, MayBeFinal, Deep
<1>4. CASE IndexRemaining
    <2>1. phase = "final" /\ phase' = "last" /\ UNCHANGED <<tip, anchor, events, handled>>
          /\ IndexEventsUpTo(IndexingCap, TipHeight)
        BY <1>4 DEF IndexRemaining
    <2>2. batches = None
        BY <2>1 DEF FinalityInv
    <2>3. Indexable(IndexingCap)
        BY CapType DEF TypeOK, Indexable, IndexingCap
    <2> QED BY <1>u, <2>1, <2>2, <2>3, IndexEventsFinality
<1> QED BY <1>1, <1>2, <1>3, <1>4 DEF ConsumerStep

\* A step of the chain, of the producer or of the end of a pass touches no
\* checkpoint; the chain only makes blocks deeper, and a reorg stays above
\* what is final.
LEMMA OtherStepFinality ==
    ASSUME TypeOK, FinalityInv, ReorgsAreShallow,
           ProducerStep \/ EndStep \/ StopStep \/ ChainStep \/ UNCHANGED vars
    PROVE  FinalityInv' /\ UNCHANGED <<checkpoint, handled>>
<1>h. /\ peak \in Nat /\ top \in Nat /\ top <= peak
      /\ FinalizedHeight \in Nat /\ CheckpointHeight \in Nat
      /\ tip # None => tip.height \in Nat
      /\ anchor # None => anchor.height \in Nat
      /\ Finality \in Nat /\ MaxDepth \in Nat
    BY Heighted
<1>b. batches # None => batches.finalized \in Nat /\ batches.threshold \in Int
    BY DEF TypeOK, IndexTypeOK, Indexing
<1>1. CASE ProducerStep
    <2>1. UNCHANGED <<checkpoint, handled, anchor, batches, phase, tip, probing, ancestor,
                      peak, top>>
        BY <1>1 DEF ProducerStep, SyncStep, InitFromScratch, InitFromSaved, WalkPage,
           StartCatchUp, FetchBackfillPage, StorePage, SaveBackfillPage, SaveCatchUpPage,
           storeVars, passVars, chainVars
    <2>2. FinalizedHeight' = FinalizedHeight /\ CheckpointHeight' = CheckpointHeight
        BY <2>1 DEF FinalizedHeight, CheckpointHeight
    <2> QED BY <2>1, <2>2 DEF FinalityInv, MayBeFinal, MayBeConfirmed, Deep
<1>2. CASE EndStep \/ StopStep
    <2>1. Reset /\ UNCHANGED chainVars
        BY <1>2 DEF EndStep, EndPass, StopStep, Stop
    <2>2. FinalizedHeight' = FinalizedHeight /\ CheckpointHeight' = CheckpointHeight
          /\ UNCHANGED <<checkpoint, handled, anchor, peak, top>>
          /\ batches' = None /\ tip' = None /\ phase' = "idle"
        BY <2>1 DEF Reset, storeVars, chainVars, FinalizedHeight, CheckpointHeight
    <2> QED BY <2>2 DEF FinalityInv, MayBeFinal, MayBeConfirmed, Deep
<1>3. CASE ChainStep
    <2>1. /\ FinalizedHeight' = FinalizedHeight /\ CheckpointHeight' = CheckpointHeight
          /\ UNCHANGED <<checkpoint, handled, anchor, batches, phase, tip, probing, ancestor>>
        BY <1>3 DEF ChainStep, storeVars, passVars, FinalizedHeight, CheckpointHeight
    <2>2. peak' \in Nat /\ peak <= peak' /\ (top' = peak' \/ peak' - MaxDepth < top')
        <3>1. CASE Mine
            BY <1>h, <3>1 DEF Mine, MaxOf, FinalityInv
        <3>2. CASE Reorg
            BY <1>h, <3>2 DEF Reorg
        <3> QED BY <1>3, <3>1, <3>2 DEF ChainStep
    <2> QED BY <1>h, <1>b, <2>1, <2>2 DEF FinalityInv, MayBeFinal, MayBeConfirmed, Deep
<1>4. CASE UNCHANGED vars
    <2>1. UNCHANGED <<checkpoint, handled, anchor, batches, phase, tip, probing, ancestor,
                      peak, top>>
        BY <1>4 DEF vars, storeVars, passVars, chainVars
    <2>2. FinalizedHeight' = FinalizedHeight /\ CheckpointHeight' = CheckpointHeight
        BY <2>1 DEF FinalizedHeight, CheckpointHeight
    <2> QED BY <2>1, <2>2 DEF FinalityInv, MayBeFinal, MayBeConfirmed, Deep
<1> QED BY <1>1, <1>2, <1>3, <1>4

-----------------------------------------------------------------------------

LEMMA FinalityStep ==
    ASSUME ReorgsAreShallow, TypeOK, TypeOK', PeakInv, FinalityInv, [Next]_vars
    PROVE  /\ FinalityInv'
           /\ {e \in handled : e.height <= FinalizedHeight} \subseteq handled'
<1>1. CASE ReconcileStep
    BY <1>1, ReconcileFinality
<1>2. CASE ConsumerStep
    BY <1>2, ConsumerFinality
<1>3. CASE ProducerStep \/ EndStep \/ StopStep \/ ChainStep \/ UNCHANGED vars
    <2>1. FinalityInv' /\ UNCHANGED <<checkpoint, handled>>
        BY <1>3, OtherStepFinality
    <2> QED BY <2>1
<1> QED BY <1>1, <1>2, <1>3 DEF Next

THEOREM FinalityInvariant ==
    ASSUME ReorgsAreShallow
    PROVE  Spec => [](TypeOK /\ PeakInv /\ FinalityInv)
<1>1. TypeInv /\ PeakInv => TypeOK
    BY DEF TypeInv
<1>2. TypeOK /\ TypeOK' /\ PeakInv /\ FinalityInv /\ [Next]_vars => FinalityInv'
    BY FinalityStep
<1> QED BY <1>1, <1>2, PeakInvariant, FinalityInvInit, PTL DEF Spec

\* The finalized marker is never ahead of the checkpoint: a replay from the
\* finalized block skips no event that was not indexed.
THEOREM FinalizedIsIndexed ==
    ASSUME ReorgsAreShallow
    PROVE  Spec => []FinalizedBelowCheckpoint
<1>1. FinalityInv => FinalizedBelowCheckpoint
    BY DEF FinalityInv, FinalizedBelowCheckpoint
<1> QED BY <1>1, FinalityInvariant, PTL

\* No rewind discards what handlers wrote at or below the finalized block,
\* though the chain may be reorganized at any step of a pass.
THEOREM FinalWorkIsKept ==
    ASSUME ReorgsAreShallow
    PROVE  Spec => FinalNeverReplayed
<1>1. TypeOK /\ TypeOK' /\ PeakInv /\ FinalityInv /\ [Next]_vars =>
        [{e \in handled : e.height <= FinalizedHeight} \subseteq handled']_vars
    BY FinalityStep
<1> QED BY <1>1, FinalityInvariant, PTL DEF Spec, FinalNeverReplayed

-----------------------------------------------------------------------------
(* What the paging of the logs endpoint guarantees a reader, whatever the   *)
(* chain holds: the pages reached by walking back leave no log out, the     *)
(* next page continues a page, and growth of the chain changes no page      *)
(* below its old tip.  Facts about Chain's LogsPage and FirstCursor come    *)
(* first, then the same facts about the logs in a contract's range, and     *)
(* what a moving chain leaves of them.                                      *)

(* Logs in chain order. *)

\* A finite set of logs whose positions tell them apart.
LogSet(S) ==
    /\ IsFiniteSet(S)
    /\ \A e \in S : e.height \in Nat /\ e.index \in Nat
    /\ \A e, f \in S : e.height = f.height /\ e.index = f.index => e = f

\* A set of natural numbers has a least member.
LEMMA LeastNat ==
    ASSUME NEW T \in SUBSET Nat, T # {}
    PROVE  \E n \in T : \A m \in T : n <= m
<1>1. \E n \in T : \A m \in T : ~ (<<m, n>> \in OpToRel(<, Nat))
    BY NatLessThanWellFounded, WFMin
<1>2. \A m, n \in Nat : m < n => <<m, n>> \in OpToRel(<, Nat)
    BY DEF OpToRel
<1>3. \A m, n \in T : ~(m < n) => n <= m
    OBVIOUS
<1> QED BY <1>1, <1>2, <1>3

LEMMA LogSubset ==
    ASSUME NEW S, LogSet(S), NEW T \in SUBSET S
    PROVE  LogSet(T)
BY FS_Subset DEF LogSet

\* The chain order is a total order of a set of logs.
LEMMA ChainOrder ==
    ASSUME NEW S, LogSet(S)
    PROVE  /\ \A e \in S : AtOrBelow(e, e)
           /\ \A e, f \in S : AtOrBelow(e, f) \/ AtOrBelow(f, e)
           /\ \A e, f \in S : AtOrBelow(e, f) /\ AtOrBelow(f, e) => e = f
           /\ \A e, f, g \in S : AtOrBelow(e, f) /\ AtOrBelow(f, g) => AtOrBelow(e, g)
BY DEF LogSet, AtOrBelow

\* How many logs of S are at or above e.
Rank(S, e) == Cardinality({f \in S : AtOrBelow(e, f)})

\* Ranks count from one, and fall as logs get newer.
LEMMA RankFalls ==
    ASSUME NEW S, LogSet(S)
    PROVE  /\ \A e \in S : Rank(S, e) \in Nat /\ Rank(S, e) >= 1
           /\ \A e, f \in S : AtOrBelow(e, f) /\ e # f => Rank(S, f) < Rank(S, e)
<1> DEFINE Above(e) == {f \in S : AtOrBelow(e, f)}
<1>1. \A e \in S : IsFiniteSet(Above(e)) /\ Cardinality(Above(e)) \in Nat
    BY FS_Subset, FS_CardinalityType DEF LogSet
<1>2. \A e \in S : Above(e) # {}
    BY ChainOrder
<1>3. \A e \in S : Cardinality(Above(e)) # 0
    BY <1>1, <1>2, FS_EmptySet
<1>4. ASSUME NEW e \in S, NEW f \in S, AtOrBelow(e, f), e # f
      PROVE  Cardinality(Above(f)) < Cardinality(Above(e))
    <2>1. Above(f) \in SUBSET Above(e) /\ Above(f) # Above(e)
        BY <1>4, ChainOrder
    <2> QED BY <1>1, <2>1, FS_Subset
<1> QED BY <1>1, <1>3, <1>4 DEF Rank

\* A set of logs has an oldest one.
LEMMA OldestExists ==
    ASSUME NEW S, LogSet(S), S # {}
    PROVE  \E m \in S : \A f \in S : AtOrBelow(m, f)
<1>1. PICK n \in {Rank(S, e) : e \in S} : \A r \in {Rank(S, e) : e \in S} : r <= n
    <2> DEFINE Slack == {Cardinality(S) - Rank(S, e) : e \in S}
    <2>1. Cardinality(S) \in Nat
        BY FS_CardinalityType DEF LogSet
    <2>2. \A e \in S : Rank(S, e) \in Nat /\ Rank(S, e) <= Cardinality(S)
        BY RankFalls, FS_Subset DEF LogSet, Rank
    <2>3. Slack \in SUBSET Nat /\ Slack # {}
        BY <2>1, <2>2
    <2>4. PICK n \in Slack : \A m \in Slack : n <= m
        BY <2>3, LeastNat
    <2>5. PICK e \in S : n = Cardinality(S) - Rank(S, e)
        BY <2>4
    <2>6. ASSUME NEW f \in S PROVE Rank(S, f) <= Rank(S, e)
        <3>1. Cardinality(S) - Rank(S, f) \in Slack
            OBVIOUS
        <3> HIDE DEF Slack
        <3>2. Cardinality(S) - Rank(S, e) <= Cardinality(S) - Rank(S, f)
            BY <2>4, <2>5, <3>1
        <3> QED BY <2>1, <2>2, <3>2
    <2> QED BY <2>6
<1>2. PICK m \in S : n = Rank(S, m)
    BY <1>1
<1>3. ASSUME NEW f \in S PROVE AtOrBelow(m, f)
    <2>1. Rank(S, f) <= Rank(S, m) /\ Rank(S, f) \in Nat /\ Rank(S, m) \in Nat
        BY <1>1, <1>2, RankFalls
    <2>2. f # m /\ AtOrBelow(f, m) => Rank(S, m) < Rank(S, f)
        BY RankFalls
    <2> QED BY <2>1, <2>2, ChainOrder
<1> QED BY <1>3

\* Every rank up to that of a log is the rank of a log at or above it.
LEMMA RankAttained ==
    ASSUME NEW S, LogSet(S), NEW e \in S, NEW n \in 1..Rank(S, e)
    PROVE  \E g \in S : Rank(S, g) = n /\ AtOrBelow(e, g)
<1> DEFINE T == {f \in S : AtOrBelow(e, f) /\ Rank(S, f) >= n}
           Ranks == {Rank(S, f) : f \in T}
<1>1. n \in Nat /\ n >= 1 /\ \A f \in S : Rank(S, f) \in Nat
    BY RankFalls
<1>2. e \in T
    BY <1>1, ChainOrder
<1>3. PICK r \in Ranks : \A q \in Ranks : r <= q
    <2>1. Ranks \in SUBSET Nat /\ Ranks # {}
        BY <1>1, <1>2
    <2> QED BY <2>1, LeastNat
<1>4. PICK g \in T : r = Rank(S, g)
    BY <1>3
<1>5. ASSUME r > n PROVE FALSE
    <2> DEFINE U == {f \in S : AtOrBelow(g, f)} \ {g}
    <2>1. IsFiniteSet({f \in S : AtOrBelow(g, f)}) /\ g \in {f \in S : AtOrBelow(g, f)}
        BY FS_Subset, ChainOrder DEF LogSet
    <2>2. IsFiniteSet(U) /\ Cardinality(U) = r - 1
        BY <1>4, <2>1, FS_RemoveElement DEF Rank
    <2>3. U # {}
        BY <1>1, <1>4, <1>5, <2>2, FS_EmptySet
    <2>4. PICK h \in U : \A f \in U : AtOrBelow(h, f)
        <3>1. LogSet(U)
            BY LogSubset
        <3> HIDE DEF U
        <3> QED BY <3>1, <2>3, OldestExists
    <2>5. {f \in S : AtOrBelow(h, f)} = U
        BY <2>4, ChainOrder
    <2>6. h \in S /\ Rank(S, h) = r - 1
        BY <2>2, <2>4, <2>5 DEF Rank
    <2>7. AtOrBelow(e, h)
        BY <1>4, <2>4, ChainOrder
    <2>8. h \in T
        BY <1>1, <1>4, <1>5, <2>6, <2>7
    <2>9. Rank(S, h) \in Ranks
        BY <2>8
    <2>10. r \in Nat
        BY <1>1, <1>4
    <2> HIDE DEF T, Ranks, U
    <2>11. r <= Rank(S, h)
        BY <1>3, <2>9
    <2> QED BY <2>6, <2>10, <2>11
<1> QED BY <1>1, <1>4, <1>5

-----------------------------------------------------------------------------
(* The logs of a contract. *)

\* A log is where the canonical block of its height says it is.
LEMMA LogsAre ==
    ASSUME ChainTypeOK, NEW c \in Contracts, NEW e
    PROVE  e \in Logs(c) <=>
             /\ e \in Event
             /\ e.contract = c
             /\ e.height <= top
             /\ e.index <= chain[e.height].logs[c]
             /\ e.fork = chain[e.height].fork
<1>1. /\ top \in Heights
      /\ \A h \in 1..top : h \in Heights /\ chain[h] \in Block
      /\ \A h \in 1..top : chain[h].logs[c] \in 0..MaxLogs
    <2>1. top \in Heights /\ \A h \in 1..top : h \in Heights
        BY ChainAssumption DEF ChainTypeOK, Heights
    <2>2. \A h \in 1..top : chain[h] \in Block
        BY <2>1, NoneAssumption DEF ChainTypeOK, Heights
    <2> QED BY <2>1, <2>2 DEF Block
<1>2. MaxLogs \in Nat /\ MaxHeight \in Nat
    BY ChainAssumption
<1>3. ASSUME e \in Logs(c)
      PROVE  /\ e \in Event /\ e.contract = c /\ e.height <= top
             /\ e.index <= chain[e.height].logs[c] /\ e.fork = chain[e.height].fork
    <2>1. PICK h \in 1..top : \E i \in 1..chain[h].logs[c] :
            e = [contract |-> c, height |-> h, index |-> i, fork |-> chain[h].fork]
        BY <1>3 DEF Logs
    <2>2. e \in Event
        BY <1>3, LogsAreEvents
    <2> QED BY <1>1, <2>1, <2>2 DEF Heights
<1>4. ASSUME e \in Event, e.contract = c, e.height <= top,
             e.index <= chain[e.height].logs[c], e.fork = chain[e.height].fork
      PROVE  e \in Logs(c)
    <2>1. /\ e.height \in Nat /\ e.height >= 1 /\ e.index \in Nat /\ e.index >= 1
          /\ e = [contract |-> c, height |-> e.height, index |-> e.index, fork |-> e.fork]
        BY <1>2, <1>4 DEF Event, Heights
    <2>2. e.height \in 1..top
        BY <1>1, <1>4, <2>1 DEF Heights
    <2>3. e.index \in 1..chain[e.height].logs[c]
        BY <1>1, <1>4, <2>1, <2>2
    <2> QED BY <1>4, <2>1, <2>2, <2>3 DEF Logs
<1> QED BY <1>3, <1>4

LEMMA LogsAreLogSet ==
    ASSUME ChainTypeOK, NEW c \in Contracts
    PROVE  LogSet(Logs(c))
<1>0. MaxLogs \in Nat /\ MaxHeight \in Nat
    BY ChainAssumption
<1>1. \A e \in Logs(c) : /\ e \in Event /\ e.contract = c
                          /\ e.fork = chain[e.height].fork
                          /\ e.height \in 1..MaxHeight /\ e.index \in 1..MaxLogs
    BY LogsAre DEF Event, Heights
<1>2. \A e, f \in Logs(c) : e.height = f.height /\ e.index = f.index => e = f
    BY <1>1 DEF Event
<1>3. IsFiniteSet(Logs(c))
    <2> DEFINE g == [e \in Logs(c) |-> <<e.height, e.index>>]
               T == (1..MaxHeight) \X (1..MaxLogs)
    <2>1. g \in Injection(Logs(c), T)
        BY <1>1, <1>2 DEF Injection, IsInjective
    <2>2. IsFiniteSet(T)
        <3>1. IsFiniteSet(1..MaxHeight) /\ IsFiniteSet(1..MaxLogs)
            BY <1>0, FS_Interval
        <3> QED BY <3>1, FS_Product
    <2> QED BY <2>1, <2>2, FS_Injection
<1> QED BY <1>0, <1>1, <1>2, <1>3 DEF LogSet

LEMMA CursorOfIs ==
    ASSUME NEW e \in Event
    PROVE  /\ CursorOf(e) \in Position /\ CursorOf(e) # None
           /\ CursorOf(e).height = e.height /\ CursorOf(e).index = e.index
           /\ \A p : AtOrBelow(p, CursorOf(e)) <=> AtOrBelow(p, e)
           /\ \A p : AtOrBelow(CursorOf(e), p) <=> AtOrBelow(e, p)
BY NoneAssumption DEF CursorOf, Position, Event, AtOrBelow

\* The cursor of a set of logs is that of one of them.
LEMMA CursorInIs ==
    ASSUME NEW S \in SUBSET Event
    PROVE  /\ S = {} <=> CursorIn(S) = None
           /\ CursorIn(S) # None => \E g \in S : CursorIn(S) = CursorOf(g)
<1>1. CASE S = {}
    BY <1>1 DEF CursorIn
<1>2. CASE S # {}
    <2>1. (CHOOSE e \in S : TRUE) \in S
        BY <1>2
    <2> QED BY <1>2, <2>1, CursorOfIs DEF CursorIn
<1> QED BY <1>1, <1>2

\* What a request for the page at a cursor may answer from.
Readable(c, cursor) == {e \in Logs(c) : cursor # None => AtOrBelow(e, cursor)}

LEMMA ReadableLogs ==
    ASSUME ChainTypeOK, NEW c \in Contracts, NEW cursor
    PROVE  Readable(c, cursor) \subseteq Event /\ LogSet(Readable(c, cursor))
BY LogsAreLogSet, LogSubset, LogsAreEvents DEF Readable

\* The page itself, in terms of ranks.
LEMMA PageIs ==
    ASSUME ChainTypeOK, NEW c \in Contracts, NEW cursor
    PROVE  LET page == LogsPage(c, cursor)
               S == Readable(c, cursor)
           IN  /\ page.results = {e \in S : Rank(S, e) \in 1..PageLimit}
               /\ page.cursor = CursorIn({e \in S : Rank(S, e) = 1})
               /\ page.prev = CursorIn({e \in S : Rank(S, e) = PageLimit + 1})
<1> DEFINE S == Readable(c, cursor)
<1>1. \A n : NthNewest(S, n) = {e \in S : Rank(S, e) = n}
    BY DEF NthNewest, Rank
<1>2. S = {e \in Logs(c) : cursor # None => AtOrBelow(e, cursor)}
    BY DEF Readable
<1>3. UNION {NthNewest(S, n) : n \in 1..PageLimit} = {e \in S : Rank(S, e) \in 1..PageLimit}
    BY <1>1
<1> HIDE DEF S
<1>4. /\ LogsPage(c, cursor).results = UNION {NthNewest(S, n) : n \in 1..PageLimit}
      /\ LogsPage(c, cursor).cursor = CursorIn(NthNewest(S, 1))
      /\ LogsPage(c, cursor).prev = CursorIn(NthNewest(S, PageLimit + 1))
    BY <1>2 DEF LogsPage
<1>5. QED BY <1>1, <1>3, <1>4 DEF S

-----------------------------------------------------------------------------
(* What a page holds and what it leaves out. *)

\* A page's results and its older cursors lie at or below the cursor asked for,
\* the next page's above it.
LEMMA PageBounds ==
    ASSUME ChainTypeOK, NEW c \in Contracts, NEW cursor
    PROVE  LET page == LogsPage(c, cursor)
           IN  /\ page.results \subseteq Readable(c, cursor)
               /\ page.cursor # None =>
                    \E g \in Readable(c, cursor) : page.cursor = CursorOf(g)
               /\ page.prev # None =>
                    \E g \in Readable(c, cursor) : page.prev = CursorOf(g)
               /\ page.next # None =>
                    \E g \in Logs(c) \ Readable(c, cursor) :
                        /\ page.next = CursorOf(g)
                        /\ Cardinality({f \in Logs(c) \ Readable(c, cursor) :
                                           AtOrBelow(f, g)}) = PageLimit
<1> DEFINE S == Readable(c, cursor)
           A == Logs(c) \ S
           O == {e \in A : Cardinality({f \in A : AtOrBelow(f, e)}) = PageLimit}
<1>1. S \subseteq Event /\ A \subseteq Event
    BY ReadableLogs, LogsAreEvents
<1>2. LogsPage(c, cursor).next = CursorIn(O)
    BY DEF LogsPage, Readable, NthOldest
<1>3. O \in SUBSET Event
    BY <1>1
<1>4. LogsPage(c, cursor).next # None => \E g \in O : LogsPage(c, cursor).next = CursorOf(g)
    BY <1>2, <1>3, CursorInIs
<1>5. \A n : {e \in S : Rank(S, e) = n} \in SUBSET Event
    BY <1>1
<1> HIDE DEF S
<1>6. /\ CursorIn({e \in S : Rank(S, e) = 1}) # None =>
           \E g \in S : CursorIn({e \in S : Rank(S, e) = 1}) = CursorOf(g)
      /\ CursorIn({e \in S : Rank(S, e) = PageLimit + 1}) # None =>
           \E g \in S : CursorIn({e \in S : Rank(S, e) = PageLimit + 1}) = CursorOf(g)
    BY <1>5, CursorInIs
<1>7. /\ LogsPage(c, cursor).results = {e \in S : Rank(S, e) \in 1..PageLimit}
      /\ LogsPage(c, cursor).cursor = CursorIn({e \in S : Rank(S, e) = 1})
      /\ LogsPage(c, cursor).prev = CursorIn({e \in S : Rank(S, e) = PageLimit + 1})
    BY PageIs DEF S
<1> QED BY <1>4, <1>6, <1>7 DEF S

\* Walking back from the newest page leaves nothing out: a log the API answers
\* from is on the page or at or below the cursor of the older page.
THEOREM PageReaches ==
    ASSUME ChainTypeOK, NEW c \in Contracts, NEW cursor, NEW e \in Readable(c, cursor)
    PROVE  LET page == LogsPage(c, cursor)
           IN  /\ page.cursor # None
               /\ AtOrBelow(e, page.cursor)
               /\ \/ e \in page.results
                  \/ page.prev # None /\ AtOrBelow(e, page.prev)
<1> DEFINE S == Readable(c, cursor)
           At(n) == {f \in S : Rank(S, f) = n}
<1>1. S \subseteq Event /\ LogSet(S) /\ e \in S
    BY ReadableLogs
<1>2. PageLimit \in Nat /\ PageLimit >= 1 /\ Rank(S, e) \in Nat /\ Rank(S, e) >= 1
    BY <1>1, ChainAssumption, RankFalls
<1>3. /\ LogsPage(c, cursor).results = {f \in S : Rank(S, f) \in 1..PageLimit}
      /\ LogsPage(c, cursor).cursor = CursorIn(At(1))
      /\ LogsPage(c, cursor).prev = CursorIn(At(PageLimit + 1))
    BY PageIs
<1> HIDE DEF S
<1>4. ASSUME NEW n \in 1..Rank(S, e)
      PROVE  CursorIn(At(n)) # None /\ AtOrBelow(e, CursorIn(At(n)))
    <2>1. PICK g \in S : Rank(S, g) = n /\ AtOrBelow(e, g)
        BY <1>1, RankAttained
    <2>2. At(n) \in SUBSET Event /\ At(n) # {}
        BY <1>1, <2>1
    <2>3. PICK h \in At(n) : CursorIn(At(n)) = CursorOf(h) /\ CursorIn(At(n)) # None
        BY <2>2, CursorInIs
    <2>4. h = g
        <3>1. /\ AtOrBelow(g, h) /\ g # h => Rank(S, h) < Rank(S, g)
              /\ AtOrBelow(h, g) /\ g # h => Rank(S, g) < Rank(S, h)
              /\ AtOrBelow(g, h) \/ AtOrBelow(h, g)
            BY <1>1, <2>1, <2>3, RankFalls, ChainOrder
        <3>2. Rank(S, g) = n /\ Rank(S, h) = n /\ n \in Nat
            BY <1>2, <2>1, <2>3
        <3> QED BY <3>1, <3>2
    <2>5. g \in Event
        BY <1>1
    <2> QED BY <2>1, <2>3, <2>4, <2>5, CursorOfIs
<1>5. 1 \in 1..Rank(S, e)
    BY <1>2
<1>6. Rank(S, e) \notin 1..PageLimit => PageLimit + 1 \in 1..Rank(S, e)
    BY <1>2
<1> HIDE DEF At
<1> QED BY <1>1, <1>3, <1>4, <1>5, <1>6

\* The next page continues a page: a log it answers from is at or below the
\* page's own cursor or on the next page, whose cursor may share a block with it.
THEOREM NextContinues ==
    ASSUME ChainTypeOK, NEW c \in Contracts, NEW cursor \in Position \cup {None},
           LogsPage(c, cursor).next # None,
           NEW e \in Readable(c, LogsPage(c, cursor).next)
    PROVE  \/ e \in Readable(c, cursor)
           \/ e \in LogsPage(c, LogsPage(c, cursor).next).results
<1> DEFINE next == LogsPage(c, cursor).next
           S == Readable(c, cursor)
           A == Logs(c) \ S
           N == Readable(c, next)
<1>1. PICK g \in A : next = CursorOf(g) /\ Cardinality({f \in A : AtOrBelow(f, g)}) = PageLimit
    BY PageBounds
<1>2. /\ g \in Event /\ LogSet(Logs(c)) /\ LogSet(N) /\ LogSet(A)
      /\ N = {f \in Logs(c) : AtOrBelow(f, g)}
    <2>1. LogSet(Logs(c)) /\ Logs(c) \subseteq Event
        BY LogsAreLogSet, LogsAreEvents
    <2>2. LogSet(A)
        BY <2>1, LogSubset
    <2> QED BY <1>1, <2>1, <2>2, ReadableLogs, CursorOfIs DEF Readable
<1>3. SUFFICES ASSUME e \notin S PROVE e \in LogsPage(c, next).results
    OBVIOUS
<1>4. \A f \in Logs(c) : AtOrBelow(e, f) => f \in A
    <2>1. e \in Logs(c) /\ cursor # None /\ ~AtOrBelow(e, cursor)
        BY <1>3 DEF Readable
    <2>2. LogSet(Logs(c))
        BY <1>2
    <2>3. ASSUME NEW f \in Logs(c), AtOrBelow(e, f), AtOrBelow(f, cursor)
          PROVE  AtOrBelow(e, cursor)
        <3>1. /\ e.height \in Nat /\ f.height \in Nat /\ e.index \in Nat /\ f.index \in Nat
              /\ cursor.height \in Nat /\ cursor.index \in Nat
            BY <2>1, <2>2 DEF LogSet, Position, Heights
        <3> QED BY <2>3, <3>1 DEF AtOrBelow
    <2> QED BY <2>1, <2>3 DEF Readable
<1>5. {f \in N : AtOrBelow(e, f)} \subseteq {f \in A : AtOrBelow(f, g)}
    BY <1>2, <1>4
<1>6. Rank(N, e) <= PageLimit
    <2>1. IsFiniteSet({f \in A : AtOrBelow(f, g)})
        BY <1>2, FS_Subset DEF LogSet
    <2> QED BY <1>1, <1>5, <2>1, FS_Subset DEF Rank
<1>7. Rank(N, e) \in 1..PageLimit
    BY <1>2, <1>6, RankFalls, ChainAssumption
<1>8. LogsPage(c, next).results = {f \in N : Rank(N, f) \in 1..PageLimit}
    BY PageIs
<1> QED BY <1>7, <1>8

\* A log is on the page at its own cursor.
LEMMA LogOnItsPage ==
    ASSUME ChainTypeOK, NEW c \in Contracts, NEW g \in Logs(c)
    PROVE  g \in LogsPage(c, CursorOf(g)).results
<1> DEFINE N == Readable(c, CursorOf(g))
<1>1. g \in Event /\ LogSet(N) /\ LogSet(Logs(c))
    BY LogsAreEvents, ReadableLogs, LogsAreLogSet
<1>2. N = {f \in Logs(c) : AtOrBelow(f, g)}
    BY <1>1, CursorOfIs DEF Readable
<1>3. g \in N /\ {f \in N : AtOrBelow(g, f)} = {g}
    BY <1>1, <1>2, ChainOrder
<1>4. Rank(N, g) = 1
    BY <1>3, FS_Singleton DEF Rank
<1>5. LogsPage(c, CursorOf(g)).results = {f \in N : Rank(N, f) \in 1..PageLimit}
    BY PageIs
<1> HIDE DEF N
<1> QED BY <1>3, <1>4, <1>5, ChainAssumption

\* First-event discovery finds the oldest discoverable log, if there is one.
THEOREM FirstCursorIs ==
    ASSUME ChainTypeOK, NEW c \in Contracts, NEW from
    PROVE  /\ FirstCursor(c, from) = None => Discoverable(c, from) = {}
           /\ FirstCursor(c, from) # None =>
                \E g \in Discoverable(c, from) :
                    /\ FirstCursor(c, from) = CursorOf(g)
                    /\ \A f \in Discoverable(c, from) : AtOrBelow(g, f)
<1> DEFINE D == Discoverable(c, from)
           Oldest == {e \in D : Cardinality({f \in D : AtOrBelow(f, e)}) = 1}
<1>1. D \in SUBSET Logs(c) /\ D \subseteq Event
    BY LogsAreEvents DEF Discoverable
<1>2. LogSet(D)
    BY <1>1, LogsAreLogSet, LogSubset
<1>3. FirstCursor(c, from) = CursorIn(Oldest)
    BY DEF FirstCursor, NthOldest
<1> HIDE DEF D
<1>4. D # {} => Oldest # {}
    <2> SUFFICES ASSUME D # {} PROVE Oldest # {}
        OBVIOUS
    <2>1. PICK m \in D : \A f \in D : AtOrBelow(m, f)
        BY <1>2, OldestExists
    <2>2. {f \in D : AtOrBelow(f, m)} = {m}
        BY <1>2, <2>1, ChainOrder
    <2> QED BY <2>2, FS_Singleton
<1>5. ASSUME NEW g \in Oldest, NEW f \in D PROVE AtOrBelow(g, f)
    <2>1. IsFiniteSet({h \in D : AtOrBelow(h, g)})
        BY <1>2, FS_Subset DEF LogSet
    <2>2. PICK x : {h \in D : AtOrBelow(h, g)} = {x}
        BY <1>5, <2>1, FS_Singleton
    <2>3. g \in {h \in D : AtOrBelow(h, g)}
        BY <1>2, <1>5, ChainOrder
    <2>4. f \in {h \in D : AtOrBelow(h, g)} => f = g
        BY <2>2, <2>3
    <2> QED BY <1>2, <1>5, <2>4, ChainOrder
<1>6. /\ Oldest = {} <=> CursorIn(Oldest) = None
      /\ CursorIn(Oldest) # None => \E g \in Oldest : CursorIn(Oldest) = CursorOf(g)
    BY <1>1, CursorInIs
<1> QED BY <1>3, <1>4, <1>5, <1>6 DEF D

-----------------------------------------------------------------------------
(* Growth: a block on the tip changes no page below it. *)

\* Facts about the logs and pages of a state, to be used of the next one.
LogsFact ==
    ChainTypeOK => \A c \in Contracts : \A e :
        e \in Logs(c) <=>
             /\ e \in Event
             /\ e.contract = c
             /\ e.height <= top
             /\ e.index <= chain[e.height].logs[c]
             /\ e.fork = chain[e.height].fork
PageFact ==
    ChainTypeOK => \A c \in Contracts : \A cursor :
        LogsPage(c, cursor).results =
            {e \in Readable(c, cursor) : Rank(Readable(c, cursor), e) \in 1..PageLimit}

LEMMA LogsNext == LogsFact'
<1>1. LogsFact
    BY LogsAre DEF LogsFact
<1> QED BY <1>1, PTL

LEMMA PageNext == PageFact'
<1>1. PageFact
    BY PageIs DEF PageFact
<1> QED BY <1>1, PTL

LEMMA GrownLogs ==
    ASSUME ChainTypeOK, ChainTypeOK', Mine, NEW c \in Contracts
    PROVE  Logs(c) = {e \in Logs(c)' : e.height <= top}
<1>1. /\ top' = top + 1 /\ top \in Nat
      /\ \A h \in Heights : h <= top => chain'[h] = chain[h]
    BY ChainAssumption DEF Mine, ChainTypeOK, Heights
<1>2. \A e \in Event : e.height <= top =>
        /\ chain'[e.height].fork = chain[e.height].fork
        /\ chain'[e.height].logs[c] = chain[e.height].logs[c]
    BY <1>1 DEF Event
<1>3. \A e : e \in Logs(c) <=>
             /\ e \in Event /\ e.contract = c /\ e.height <= top
             /\ e.index <= chain[e.height].logs[c] /\ e.fork = chain[e.height].fork
    BY LogsAre
<1>4. \A e : e \in Logs(c)' <=>
             /\ e \in Event /\ e.contract = c /\ e.height <= top'
             /\ e.index <= chain'[e.height].logs[c] /\ e.fork = chain'[e.height].fork
    BY LogsNext DEF LogsFact
<1>5. \A e \in Event : e.height \in Nat
    BY DEF Event, Heights
<1> QED BY <1>1, <1>2, <1>3, <1>4, <1>5

LEMMA GrownPage ==
    ASSUME ChainTypeOK, ChainTypeOK', Mine, NEW c \in Contracts,
           NEW cursor \in Position, cursor.height <= top
    PROVE  LogsPage(c, cursor).results' = LogsPage(c, cursor).results
<1>1. Readable(c, cursor)' = Readable(c, cursor)
    <2>1. \A e \in Logs(c)' : AtOrBelow(e, cursor) => e.height <= top
        <3>1. Logs(c)' \subseteq Event
            BY LogsNext DEF LogsFact
        <3>2. \A e \in Event : e.height \in Nat
            BY DEF Event, Heights
        <3>3. cursor.height \in Nat /\ top \in Nat
            BY DEF Position, Heights, ChainTypeOK
        <3> QED BY <3>1, <3>2, <3>3 DEF AtOrBelow
    <2>2. cursor # None
        BY NoneAssumption
    <2> QED BY <2>1, <2>2, GrownLogs DEF Readable
<1>2. LogsPage(c, cursor).results' =
            {e \in Readable(c, cursor)' : Rank(Readable(c, cursor)', e) \in 1..PageLimit}
    BY PageNext DEF PageFact
<1>3. LogsPage(c, cursor).results =
            {e \in Readable(c, cursor) : Rank(Readable(c, cursor), e) \in 1..PageLimit}
    BY PageIs
<1> QED BY <1>1, <1>2, <1>3

-----------------------------------------------------------------------------
(* The logs a contract wants, and the pages they are on. *)

LEMMA WantedAre ==
    ASSUME ChainTypeOK, NEW c \in Contracts
    PROVE  /\ Wanted(c) \subseteq Logs(c)
           /\ \A e \in Logs(c) : /\ e \in Event /\ e.contract = c
                                 /\ e.height \in Nat /\ e.height >= 1 /\ e.height <= top
                                 /\ e.index \in Nat
           /\ \A e \in Wanted(c) : InRange(c, e.height)
           /\ \A e \in Logs(c) : InRange(c, e.height) => e \in Wanted(c)
           /\ top \in Nat /\ top >= 1 /\ top \in Heights
<1>1. \A e \in Logs(c) : e \in Event /\ e.contract = c /\ e.height <= top
    BY LogsAre
<1>2. \A e \in Event : e.height \in Nat /\ e.height >= 1 /\ e.index \in Nat
    BY DEF Event, Heights
<1>3. top \in Nat /\ top >= 1 /\ top \in Heights
    BY DEF ChainTypeOK, Heights
<1> QED BY <1>1, <1>2, <1>3 DEF Wanted

LEMMA WantedNext ==
    ASSUME ChainTypeOK', NEW c \in Contracts
    PROVE  \A e \in Wanted(c)' : e.height \in Nat /\ InRange(c, e.height)
<1>1. \A e \in Logs(c)' : e.height \in Nat
    BY LogsNext DEF LogsFact, Event, Heights
<1> QED BY <1>1 DEF Wanted

\* A cursor's height is a height.
LEMMA CursorHeights ==
    \A p \in Position : p # None /\ p.height \in Nat /\ p.height >= 1 /\ p.index \in Nat
BY NoneAssumption DEF Position, Heights

\* Lower logs come first.
LEMMA LowerFirst ==
    ASSUME ChainTypeOK, NEW c \in Contracts, NEW e \in Logs(c), NEW p \in Position
    PROVE  /\ e.height < p.height => AtOrBelow(e, p)
           /\ AtOrBelow(e, p) => e.height <= p.height
BY WantedAre, CursorHeights DEF AtOrBelow

\* A page of a backward walk, in terms of the wanted logs: it has a cursor
\* unless nothing is left, and accounts for what is left but for what is at or
\* below the cursor of the older page.
LEMMA WalkedPage ==
    ASSUME ChainTypeOK, NEW c \in Contracts, NEW cursor \in Position \cup {None},
           NEW left, left = IF cursor = None THEN Wanted(c) ELSE UpTo(c, cursor)
    PROVE  LET page == LogsPage(c, cursor)
           IN  /\ page \in Page
               /\ page.results \subseteq Logs(c)
               /\ page.cursor = None => left = {}
               /\ page.cursor # None => /\ page.cursor.height <= top
                                        /\ left \subseteq UpTo(c, page.cursor)
               /\ page.prev # None => page.prev.height <= top
               /\ page.cursor # None => UpTo(c, page.cursor) \subseteq
                    page.results \cup IF page.prev = None THEN {} ELSE UpTo(c, page.prev)
<1> DEFINE page == LogsPage(c, cursor)
           R == Readable(c, cursor)
<1>1. page \in Page
    BY LogsPageType
<1>2. /\ left \subseteq R /\ left \subseteq Wanted(c)
      /\ \A e \in Wanted(c) : e \in R => e \in left
      /\ R \subseteq Logs(c)
    BY WantedAre DEF Readable, UpTo
<1>3. /\ page.results \subseteq R
      /\ page.cursor # None => \E g \in R : page.cursor = CursorOf(g)
      /\ page.prev # None => \E g \in R : page.prev = CursorOf(g)
    BY PageBounds
<1>4. \A e \in R : /\ page.cursor # None
                   /\ AtOrBelow(e, page.cursor)
                   /\ \/ e \in page.results
                      \/ page.prev # None /\ AtOrBelow(e, page.prev)
    BY PageReaches
<1>5. \A g \in R : g \in Event /\ g.height <= top /\ CursorOf(g).height = g.height
    BY <1>2, WantedAre, CursorOfIs
<1>6. ASSUME page.cursor # None, NEW e \in UpTo(c, page.cursor)
      PROVE  e \in R
    <2>1. PICK g \in R : page.cursor = CursorOf(g)
        BY <1>3, <1>6
    <2>2. e \in Logs(c) /\ AtOrBelow(e, g)
        BY <1>5, <1>6, <2>1, CursorOfIs, WantedAre DEF UpTo
    <2>3. cursor # None => AtOrBelow(e, cursor)
        <3> SUFFICES ASSUME cursor # None PROVE AtOrBelow(e, cursor)
            OBVIOUS
        <3>1. cursor.height \in Nat /\ cursor.index \in Nat
            BY CursorHeights
        <3>2. AtOrBelow(g, cursor) /\ g \in Logs(c)
            BY <2>1 DEF Readable
        <3>3. g.height \in Nat /\ g.index \in Nat /\ e.height \in Nat /\ e.index \in Nat
            BY <2>2, <3>2, WantedAre
        <3> QED BY <2>2, <3>1, <3>2, <3>3 DEF AtOrBelow
    <2> QED BY <2>2, <2>3 DEF Readable
<1>7. ASSUME page.cursor # None, NEW e \in UpTo(c, page.cursor)
      PROVE  \/ e \in page.results
             \/ page.prev # None /\ e \in UpTo(c, page.prev)
    BY <1>4, <1>6, <1>7 DEF UpTo
<1> HIDE DEF page, R
<1>8. page.cursor # None => left \subseteq UpTo(c, page.cursor)
    BY <1>2, <1>4 DEF UpTo
<1> QED BY <1>1, <1>2, <1>3, <1>4, <1>5, <1>7, <1>8 DEF page

\* A page read forward is continued by its next page.
LEMMA ForwardPage ==
    ASSUME ChainTypeOK, NEW c \in Contracts, NEW cursor \in Position
    PROVE  /\ LogsPage(c, cursor) \in Page
           /\ LogsPage(c, cursor).results \subseteq Logs(c)
           /\ NextFits(c, cursor, LogsPage(c, cursor).next)
<1> DEFINE page == LogsPage(c, cursor)
           next == page.next
<1>0. cursor # None
    BY CursorHeights
<1>1. page.results \subseteq Logs(c)
    BY PageBounds DEF Readable
<1>2. ASSUME next # None PROVE next.height <= top
    <2>1. PICK g \in Logs(c) : next = CursorOf(g)
        BY <1>2, PageBounds
    <2> QED BY <2>1, CursorOfIs, WantedAre
<1>3. ASSUME next # None, NEW e \in UpTo(c, next)
      PROVE  e \in UpTo(c, cursor) \/ e \in LogsPage(c, next).results
    <2>1. e \in Readable(c, next) /\ e \in Wanted(c)
        BY <1>3, WantedAre DEF UpTo, Readable
    <2>2. e \in Readable(c, cursor) \/ e \in LogsPage(c, next).results
        BY <1>3, <2>1, NextContinues
    <2> QED BY <1>0, <2>1, <2>2 DEF UpTo, Readable
<1>4. page \in Page
    BY LogsPageType
<1> QED BY <1>1, <1>2, <1>3, <1>4 DEF NextFits

\* Where forward reading starts: no wanted log from the height on is below it.
LEMMA StartingPoint ==
    ASSUME ChainTypeOK, Hidden = {}, NEW c \in Contracts, NEW from \in Nat
    PROVE  LET cursor == FirstCursor(c, from)
           IN  /\ cursor \in Position \cup {None}
               /\ cursor = None => \A e \in Wanted(c) : e.height < from
               /\ cursor # None =>
                    /\ cursor.height <= top
                    /\ \A e \in Wanted(c) : e.height < from \/ cursor.height <= e.height
                    /\ \A e \in UpTo(c, cursor) :
                         e.height < from \/ e \in LogsPage(c, cursor).results
<1> DEFINE cursor == FirstCursor(c, from)
           D == Discoverable(c, from)
<1>1. D = {e \in Logs(c) : e.height >= from}
    BY DEF Discoverable
<1>2. \A e \in Wanted(c) : e \in D \/ e.height < from
    BY <1>1, WantedAre
<1>3. ASSUME cursor # None
      PROVE  /\ cursor.height <= top
             /\ \A e \in Wanted(c) : e.height < from \/ cursor.height <= e.height
             /\ \A e \in UpTo(c, cursor) :
                  e.height < from \/ e \in LogsPage(c, cursor).results
    <2>1. PICK g \in D : cursor = CursorOf(g) /\ \A f \in D : AtOrBelow(g, f)
        BY <1>3, FirstCursorIs
    <2>2. g \in Logs(c) /\ g \in Event /\ g.height <= top /\ cursor.height = g.height
        BY <1>1, <2>1, WantedAre, CursorOfIs
    <2>3. \A e \in D : g.height <= e.height
        BY <1>1, <2>1, <2>2, WantedAre DEF AtOrBelow
    <2>4. g \in LogsPage(c, cursor).results
        BY <2>1, <2>2, LogOnItsPage
    <2>5. ASSUME NEW e \in UpTo(c, cursor), e \in D PROVE e = g
        <3>1. AtOrBelow(e, g) /\ AtOrBelow(g, e) /\ e \in Logs(c)
            BY <1>1, <2>1, <2>2, <2>5, CursorOfIs DEF UpTo
        <3> QED BY <2>2, <3>1, LogsAreLogSet, ChainOrder
    <2>6. \A e \in UpTo(c, cursor) : e \in Wanted(c)
        BY DEF UpTo
    <2> QED BY <1>2, <2>2, <2>3, <2>4, <2>5, <2>6
<1>4. cursor \in Position \cup {None}
    BY FirstCursorType
<1>5. cursor = None => D = {}
    BY FirstCursorIs
<1> QED BY <1>2, <1>3, <1>4, <1>5

-----------------------------------------------------------------------------
(* Steps that leave the chain alone, let it grow or reorganize it. *)

LEMMA LogsUnmoved ==
    ASSUME UNCHANGED chainVars
    PROVE  /\ \A c : Logs(c)' = Logs(c) /\ Wanted(c)' = Wanted(c)
           /\ \A c, h : DueOf(c, h)' = DueOf(c, h)
           /\ \A c, p : UpTo(c, p)' = UpTo(c, p)
           /\ \A c, p : LogsPage(c, p)' = LogsPage(c, p)
           /\ \A h : Due(h)' = Due(h)
           /\ CanonicalEvents' = CanonicalEvents
           /\ \A h : CanonicalHash(h)' = CanonicalHash(h)
<1>1. chain' = chain /\ top' = top
    BY DEF chainVars
<1>2. \A c : Logs(c)' = Logs(c)
    BY <1>1 DEF Logs
<1>3. \A c : Wanted(c)' = Wanted(c)
    BY <1>2 DEF Wanted
<1>4. CanonicalEvents' = CanonicalEvents
    BY <1>2 DEF CanonicalEvents
<1>5. \A h : Due(h)' = Due(h)
    BY <1>4 DEF Due
<1>6. \A c, p : LogsPage(c, p)' = LogsPage(c, p)
    BY <1>2 DEF LogsPage
<1>7. \A h : CanonicalHash(h)' = CanonicalHash(h)
    BY <1>1 DEF CanonicalHash
<1> QED BY <1>2, <1>3, <1>4, <1>5, <1>6, <1>7 DEF DueOf, UpTo

\* The due events of all contracts are those of each.
LEMMA DueIs ==
    ASSUME ChainTypeOK
    PROVE  /\ \A h, e : e \in Due(h) <=> \E c \in Contracts : e \in DueOf(c, h)
           /\ \A h : \A e \in Due(h) : e.contract \in Contracts /\ e \in DueOf(e.contract, h)
           /\ \A h : StoredThrough(h) <=> Due(h) \subseteq events
<1>1. \A c \in Contracts : \A e \in Logs(c) : e.contract = c
    BY WantedAre
<1>2. \A h, e : e \in Due(h) <=> \E c \in Contracts : e \in DueOf(c, h)
    BY <1>1 DEF Due, CanonicalEvents, DueOf, Wanted
<1>3. \A h : \A c \in Contracts : \A e \in DueOf(c, h) : e.contract = c
    BY <1>1 DEF DueOf, Wanted
<1> QED BY <1>2, <1>3 DEF StoredThrough

\* Where two chains agree, they hold the same logs.
LEMMA SamePrefix ==
    ASSUME ChainTypeOK, ChainTypeOK', NEW k \in Nat, k <= top, k <= top',
           \A h \in 1..k : chain'[h] = chain[h]
    PROVE  /\ \A c \in Contracts : \A e : e.height <= k => (e \in Logs(c)' <=> e \in Logs(c))
           /\ \A c \in Contracts : \A e : e.height <= k => (e \in Wanted(c)' <=> e \in Wanted(c))
           /\ \A h \in Int : h <= k => \A c \in Contracts : DueOf(c, h)' = DueOf(c, h)
           /\ \A h \in Int : h <= k => Due(h)' = Due(h)
<1>0. /\ top \in Nat /\ top' \in Nat
      /\ \A e \in Event : e.height \in Nat /\ e.height >= 1
    BY DEF ChainTypeOK, Heights, Event
<1>1. ASSUME NEW c \in Contracts, NEW e, e.height <= k
      PROVE  e \in Logs(c)' <=> e \in Logs(c)
    <2>1. e \in Logs(c) <=>
            /\ e \in Event /\ e.contract = c /\ e.height <= top
            /\ e.index <= chain[e.height].logs[c] /\ e.fork = chain[e.height].fork
        BY LogsAre
    <2>2. e \in Logs(c)' <=>
            /\ e \in Event /\ e.contract = c /\ e.height <= top'
            /\ e.index <= chain'[e.height].logs[c] /\ e.fork = chain'[e.height].fork
        BY LogsNext DEF LogsFact
    <2>3. e \in Event => e.height <= top /\ e.height <= top' /\ e.height \in 1..k
        BY <1>0, <1>1
    <2> QED BY <2>1, <2>2, <2>3
<1>2. \A c \in Contracts : \A e : e.height <= k => (e \in Wanted(c)' <=> e \in Wanted(c))
    BY <1>1 DEF Wanted
<1>3. ASSUME NEW h \in Int, h <= k, NEW c \in Contracts
      PROVE  DueOf(c, h)' = DueOf(c, h)
    <2>1. Logs(c)' \subseteq Event /\ Logs(c) \subseteq Event
        BY LogsNext, LogsAreEvents DEF LogsFact
    <2>2. Wanted(c)' \subseteq Event /\ Wanted(c) \subseteq Event
        BY <2>1 DEF Wanted
    <2>3. \A e \in Event : e.height <= h => e.height <= k
        BY <1>0, <1>3
    <2> QED BY <1>2, <2>2, <2>3 DEF DueOf
<1>4. ASSUME NEW h \in Int, h <= k
      PROVE  Due(h)' = Due(h)
    <2>1. \A e : e \in CanonicalEvents => e \in Event
        BY LogsAreEvents DEF CanonicalEvents
    <2>2. \A e : e \in CanonicalEvents' => e \in Event
        BY LogsNext DEF LogsFact, CanonicalEvents
    <2>3. \A e : e.height <= k => (e \in CanonicalEvents' <=> e \in CanonicalEvents)
        BY <1>1 DEF CanonicalEvents
    <2>4. \A e \in Event : e.height <= h => e.height <= k
        BY <1>0, <1>4
    <2> QED BY <2>1, <2>2, <2>3, <2>4 DEF Due
<1> QED BY <1>1, <1>2, <1>3, <1>4

\* A new block leaves the logs, the pages and the cursors below it as they are.
LEMMA Grown ==
    ASSUME ChainTypeOK, ChainTypeOK', Mine
    PROVE  /\ top \in Nat /\ top' = top + 1 /\ forks' = forks
           /\ \A h \in 1..top : chain'[h] = chain[h]
           /\ chain'[top'].fork = forks
           /\ \A c \in Contracts : Logs(c) \subseteq Logs(c)'
           /\ \A c \in Contracts : \A e \in Wanted(c)' : e \in Wanted(c) \/ e.height = top'
           /\ \A c \in Contracts : \A p \in Position : p.height <= top =>
                /\ UpTo(c, p)' = UpTo(c, p)
                /\ LogsPage(c, p).results' = LogsPage(c, p).results
<1>1. /\ top \in Nat /\ top' = top + 1 /\ top' \in Heights /\ forks' = forks
      /\ \A h \in 1..top : chain'[h] = chain[h]
      /\ chain'[top'].fork = forks
    BY ChainAssumption DEF Mine, ChainTypeOK, Heights
<1>2. \A c \in Contracts : Logs(c) = {e \in Logs(c)' : e.height <= top}
    BY GrownLogs
<1>3. \A c \in Contracts : \A e \in Logs(c)' : e.height \in Nat /\ e.height <= top'
                                             /\ e.index \in Nat
    BY LogsNext DEF LogsFact, Event, Heights
<1>4. \A c \in Contracts : \A e \in Wanted(c)' : e \in Wanted(c) \/ e.height = top'
    BY <1>1, <1>2, <1>3 DEF Wanted
<1>5. ASSUME NEW c \in Contracts, NEW p \in Position, p.height <= top
      PROVE  UpTo(c, p)' = UpTo(c, p)
    <2>1. \A e \in Logs(c)' : AtOrBelow(e, p) => e.height <= top
        BY <1>1, <1>3, <1>5, CursorHeights DEF AtOrBelow
    <2> QED BY <1>2, <2>1 DEF UpTo, Wanted
<1> QED BY <1>1, <1>2, <1>4, <1>5, GrownPage

\* The chain is what it was, or one block longer.
LEMMA AtLeastGrown ==
    ASSUME ChainTypeOK, ChainTypeOK', Mine \/ UNCHANGED chainVars
    PROVE  /\ top \in Nat /\ top' \in Nat /\ top <= top' /\ forks' = forks
           /\ \A h \in 1..top : chain'[h] = chain[h]
           /\ \A h \in (top + 1)..top' : chain'[h].fork = forks
           /\ \A c \in Contracts : Logs(c) \subseteq Logs(c)'
           /\ \A c \in Contracts : \A e \in Wanted(c)' : e \in Wanted(c) \/ top < e.height
           /\ \A c \in Contracts : \A p \in Position : p.height <= top =>
                /\ UpTo(c, p)' = UpTo(c, p)
                /\ LogsPage(c, p).results' = LogsPage(c, p).results
           /\ \A h \in Int : h <= top => /\ \A c \in Contracts : DueOf(c, h)' = DueOf(c, h)
                                         /\ Due(h)' = Due(h)
<1>1. CASE Mine
    <2>1. /\ top \in Nat /\ top' = top + 1 /\ forks' = forks
          /\ \A h \in 1..top : chain'[h] = chain[h]
          /\ chain'[top'].fork = forks
          /\ \A c \in Contracts : Logs(c) \subseteq Logs(c)'
          /\ \A c \in Contracts : \A e \in Wanted(c)' : e \in Wanted(c) \/ e.height = top'
          /\ \A c \in Contracts : \A p \in Position : p.height <= top =>
               /\ UpTo(c, p)' = UpTo(c, p)
               /\ LogsPage(c, p).results' = LogsPage(c, p).results
        BY <1>1, Grown
    <2>2. \A h \in Int : h <= top => /\ \A c \in Contracts : DueOf(c, h)' = DueOf(c, h)
                                     /\ Due(h)' = Due(h)
        BY <2>1, SamePrefix
    <2>3. \A h \in (top + 1)..top' : chain'[h].fork = forks
        BY <2>1
    <2>4. \A c \in Contracts : \A e \in Wanted(c)' : e \in Wanted(c) \/ top < e.height
        BY <2>1
    <2> QED BY <2>1, <2>2, <2>3, <2>4
<1>2. CASE UNCHANGED chainVars
    <2>1. chain' = chain /\ top' = top /\ forks' = forks /\ top \in Nat
        BY <1>2 DEF chainVars, ChainTypeOK, Heights
    <2> QED BY <1>2, <2>1, LogsUnmoved
<1> QED BY <1>1, <1>2

=============================================================================

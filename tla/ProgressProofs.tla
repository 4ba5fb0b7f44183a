--------------------------- MODULE ProgressProofs ---------------------------
(***************************************************************************)
(* Proof that the progress a pass reports is never ahead of what it has    *)
(* stored: a contract's reported range starts where the contract started   *)
(* or at its first block, and reaches at most the height it is synced to.  *)
(***************************************************************************)
EXTENDS Progress, CompletenessProofs

\* Reporting changes nothing of the pass.
LEMMA ProgressIsAPass == ProgressSpec => Spec
<1>1. ProgressInit => Init
    BY DEF ProgressInit
<1>2. [ProgressNext]_progressVars => [Next]_vars
    BY DEF ProgressNext, progressVars
<1> QED BY <1>1, <1>2, PTL DEF ProgressSpec, Spec

\* A synced height is only ever raised.
LEMMA MaxRaises ==
    \A a, b \in Int : MaxOf(a, b) \in Int /\ a <= MaxOf(a, b) /\ b <= MaxOf(a, b)
BY DEF MaxOf

-----------------------------------------------------------------------------
(* The producer. *)

\* What a step of the producer does to the contract it advances: it was not
\* done, and it is either done now or synced at least as far, with a saved row
\* that is not ahead of it.
Raises(c) ==
    /\ sync'[c].mode # "start"
    /\ ~sync[c].done
    /\ ~sync'[c].done =>
         /\ sync[c].mode # "start" => sync[c].synced <= sync'[c].synced
         /\ progress'[c] # None => progress'[c].synced <= sync'[c].synced

\* The other contracts are left alone.
LeavesOthers(c) ==
    \A d \in Contracts : d # c => sync'[d] = sync[d] /\ progress'[d] = progress[d]

\* A contract that reached its end block is done.
LEMMA EndRaises ==
    ASSUME TypeInv, NEW c \in Contracts, NEW s \in SyncState, ~sync[c].done,
           CompleteAtEndBlock(c, s)
    PROVE  Raises(c) /\ LeavesOthers(c)
<1>1. SyncTypeOK /\ StoreTypeOK
    BY Typed
<1>2. sync'[c].mode = "ready" /\ sync'[c].done
    BY <1>1 DEF CompleteAtEndBlock, SyncTypeOK, SyncState
<1>3. LeavesOthers(c)
    BY <1>1 DEF CompleteAtEndBlock, UpsertSyncProgress, SyncTypeOK, StoreTypeOK, LeavesOthers
<1> QED BY <1>2, <1>3 DEF Raises

\* The begin of the backfill keeps what the contract is synced to, or raises it
\* to below the cursor.
LEMMA BackfillRaises ==
    ASSUME TypeInv, NEW c \in Contracts, NEW s \in SyncState, NEW from,
           ~sync[c].done, ~s.done,
           sync[c].mode # "start" => sync[c].synced <= s.synced,
           progress[c] # None => progress[c].synced <= s.synced,
           BeginBackfill(c, s, FirstCursor(c, from))
    PROVE  Raises(c) /\ LeavesOthers(c)
<1> DEFINE cursor == FirstCursor(c, from)
<1>1. /\ SyncTypeOK /\ StoreTypeOK /\ s.synced \in Int /\ sync[c].synced \in Int
      /\ progress[c] # None => progress[c].synced \in Int
    BY Typed DEF SyncTypeOK, SyncState
<1>2. cursor # None => cursor.height - 1 \in Int
    BY FirstCursorType, CursorHeights, Typed
<1>3. BeginBackfill(c, s, cursor)
    OBVIOUS
<1> HIDE DEF cursor
<1>4. CASE /\ sync' = [sync EXCEPT ![c] = [s EXCEPT !.mode = "ready", !.done = TRUE]]
           /\ UpsertSyncProgress(c, s.cursor, s.synced, FALSE)
    <2>1. sync'[c].mode = "ready" /\ sync'[c].done
        BY <1>1, <1>4 DEF SyncTypeOK, SyncState
    <2>2. LeavesOthers(c)
        BY <1>1, <1>4 DEF UpsertSyncProgress, SyncTypeOK, StoreTypeOK, LeavesOthers
    <2> QED BY <2>1, <2>2 DEF Raises
<1>5. CASE CompleteAtEndBlock(c, s)
    BY <1>5, EndRaises
<1>6. CASE /\ cursor # None
           /\ sync' = [sync EXCEPT ![c] =
                         [s EXCEPT !.mode = "ready", !.cursor = cursor,
                                   !.synced = MaxOf(s.synced, cursor.height - 1)]]
           /\ UNCHANGED progress
    <2>1. /\ sync'[c].mode = "ready"
          /\ sync'[c].synced = MaxOf(s.synced, cursor.height - 1)
        BY <1>1, <1>6 DEF SyncTypeOK, SyncState
    <2>2. s.synced <= sync'[c].synced /\ sync'[c].synced \in Int
        BY <1>1, <1>2, <1>6, <2>1, MaxRaises
    <2>3. LeavesOthers(c)
        BY <1>1, <1>6 DEF SyncTypeOK, LeavesOthers
    <2> QED BY <1>1, <1>6, <2>1, <2>2, <2>3 DEF Raises
<1> QED BY <1>3, <1>4, <1>5, <1>6 DEF BeginBackfill

\* Reading a page, or storing it, moves neither the synced height nor the row.
LEMMA ReadingRaises ==
    ASSUME TypeInv, NEW c \in Contracts, NEW s, ReportHolds(c), ~sync[c].done,
           sync[c].mode # "start", sync' = [sync EXCEPT ![c] = s], UNCHANGED progress,
           s.mode # "start", s.synced = sync[c].synced
    PROVE  Raises(c) /\ LeavesOthers(c)
<1>1. SyncTypeOK /\ sync[c].synced \in Nat
    BY Typed DEF SyncTypeOK, SyncState
<1>2. sync'[c] = s /\ progress'[c] = progress[c] /\ LeavesOthers(c)
    BY <1>1 DEF SyncTypeOK, LeavesOthers
<1> QED BY <1>1, <1>2 DEF ReportHolds, Raises

\* The row saved after a page is where the contract is synced to.
LEMMA SavingRaises ==
    ASSUME TypeInv, NEW c \in Contracts, NEW s, NEW cursor, ~sync[c].done,
           sync' = [sync EXCEPT ![c] = s], UpsertSyncProgress(c, cursor, s.synced, FALSE),
           s.mode # "start", s.synced \in Int, sync[c].synced <= s.synced
    PROVE  Raises(c) /\ LeavesOthers(c)
<1>1. SyncTypeOK /\ StoreTypeOK
    BY Typed
<1>2. /\ sync'[c] = s /\ progress'[c].synced = s.synced
    BY <1>1 DEF SyncTypeOK, StoreTypeOK, UpsertSyncProgress
<1>3. LeavesOthers(c)
    BY <1>1 DEF UpsertSyncProgress, SyncTypeOK, StoreTypeOK, LeavesOthers
<1> QED BY <1>2, <1>3 DEF Raises

LEMMA WalkRaises ==
    ASSUME TypeInv, NEW c \in Contracts, ReportHolds(c), ~sync[c].done, WalkPage(c)
    PROVE  Raises(c) /\ LeavesOthers(c)
<1> DEFINE s      == sync[c]
           page   == LogsPage(c, s.walk)
           longer == [s EXCEPT !.pages = <<page>> \o @]
           bare   == [s EXCEPT !.pages = <<>>, !.walk = None]
<1>1. s \in SyncState /\ s.mode = "walk" /\ s.synced \in Int
    BY Typed DEF WalkPage, SyncTypeOK, SyncState
<1>2. \/ EndWalk(c, s)
      \/ EndWalk(c, longer)
      \/ sync' = [sync EXCEPT ![c] = [longer EXCEPT !.walk = page.prev]] /\ UNCHANGED progress
      \/ BeginBackfill(c, bare, FirstCursor(c, MaxOf(StartBlock[c], s.synced + 1)))
    BY DEF WalkPage
<1>3. /\ longer.mode = "walk" /\ longer.synced = s.synced
      /\ [longer EXCEPT !.walk = page.prev].mode = "walk"
      /\ [longer EXCEPT !.walk = page.prev].synced = s.synced
    BY <1>1 DEF SyncState
<1>4. bare \in SyncState /\ bare.synced = s.synced /\ bare.done = s.done
    <2>1. <<>> \in Seq(Page)
        OBVIOUS
    <2> QED BY <1>1, <2>1 DEF SyncState
<1>5. ASSUME NEW t, t \in {s, longer}, EndWalk(c, t)
      PROVE  Raises(c) /\ LeavesOthers(c)
    <2> DEFINE u == [t EXCEPT !.mode = "ready", !.walk = None, !.done = t.pages = <<>>,
                              !.syncedToHead = t.pages = <<>>]
    <2>1. u.mode = "ready" /\ u.synced = s.synced
        BY <1>1, <1>5 DEF SyncState
    <2>2. sync' = [sync EXCEPT ![c] = u] /\ UNCHANGED progress
        BY <1>5 DEF EndWalk
    <2> HIDE DEF u
    <2> QED BY <1>1, <2>1, <2>2, ReadingRaises
<1>6. CASE sync' = [sync EXCEPT ![c] = [longer EXCEPT !.walk = page.prev]] /\ UNCHANGED progress
    <2> DEFINE t == [longer EXCEPT !.walk = page.prev]
    <2>1. t.mode = "walk" /\ t.synced = s.synced
        BY <1>3
    <2>2. sync' = [sync EXCEPT ![c] = t]
        BY <1>6
    <2> HIDE DEF t
    <2> QED BY <1>1, <1>6, <2>1, <2>2, ReadingRaises
<1>7. CASE BeginBackfill(c, bare, FirstCursor(c, MaxOf(StartBlock[c], s.synced + 1)))
    <2>1. s.synced <= bare.synced /\ (progress[c] # None => progress[c].synced <= bare.synced)
          /\ ~bare.done
        BY <1>1, <1>4 DEF ReportHolds
    <2> HIDE DEF bare
    <2> QED BY <1>4, <1>7, <2>1, BackfillRaises
<1> QED BY <1>2, <1>5, <1>6, <1>7

LEMMA SavedPageRaises ==
    ASSUME TypeInv, NEW c \in Contracts, ReportHolds(c), ~sync[c].done,
           SaveBackfillPage(c) \/ SaveCatchUpPage(c)
    PROVE  Raises(c) /\ LeavesOthers(c)
<1> DEFINE s == sync[c]
<1>1. s \in SyncState /\ s.mode = "stored" /\ s.synced \in Int /\ HoldsPages(s)
    <2>1. s \in SyncState /\ HoldsPages(s)
        BY Typed DEF SyncTypeOK, TypeInv, PagesHeld
    <2>2. s.mode = "stored"
        BY DEF SaveBackfillPage, SaveCatchUpPage
    <2>3. s.synced \in Int
        BY <2>1 DEF SyncState
    <2> QED BY <2>1, <2>2, <2>3
<1>2. s.pages \in Seq(Page) /\ s.pages # <<>> /\ Tail(s.pages) \in Seq(Page)
    BY <1>1 DEF HoldsPages, SyncState
<1>3. CASE SaveBackfillPage(c)
    <2> DEFINE t == [s EXCEPT !.mode = "ready", !.pages = <<>>, !.cursor = Head(s.pages).next,
                              !.synced = MaxOf(s.synced, s.cursor.height - 1)]
    <2>1. s.cursor.height - 1 \in Int
        BY <1>1, <1>3, CursorHeights DEF SaveBackfillPage, SyncState
    <2>2. t.mode = "ready" /\ t.synced = MaxOf(s.synced, s.cursor.height - 1)
        BY <1>1 DEF SyncState
    <2>3. t.synced \in Int /\ s.synced <= t.synced
        BY <1>1, <2>1, <2>2, MaxRaises
    <2>4. \/ CompleteAtEndBlock(c, s)
          \/ sync' = [sync EXCEPT ![c] = t] /\ UpsertSyncProgress(c, t.cursor, t.synced, FALSE)
        BY <1>3 DEF SaveBackfillPage
    <2> HIDE DEF t
    <2> QED BY <1>1, <2>2, <2>3, <2>4, EndRaises, SavingRaises
<1>4. CASE SaveCatchUpPage(c)
    <2> DEFINE height == Head(s.pages).cursor.height
               newest == Len(s.pages) = 1
               t == [s EXCEPT !.mode = "ready", !.pages = Tail(s.pages),
                              !.synced = MaxOf(s.synced, IF newest THEN height ELSE height - 1),
                              !.done = newest, !.syncedToHead = newest]
               rest == [s EXCEPT !.pages = Tail(s.pages)]
    <2>1. (IF newest THEN height ELSE height - 1) \in Int
        <3>1. Head(s.pages) = s.pages[1] /\ 1 \in 1..Len(s.pages) /\ s.pages[1] \in Page
            BY <1>2
        <3>2. Head(s.pages).cursor \in Position
            BY <1>1, <1>4, <3>1 DEF SaveCatchUpPage, HoldsPages, Page
        <3> QED BY <3>2, CursorHeights
    <2>2. /\ t.mode = "ready"
          /\ t.synced = MaxOf(s.synced, IF newest THEN height ELSE height - 1)
        BY <1>1 DEF SyncState
    <2>3. t.synced \in Int /\ s.synced <= t.synced
        BY <1>1, <2>1, <2>2, MaxRaises
    <2>4. rest \in SyncState
        BY <1>1, <1>2 DEF SyncState
    <2>5. \/ CompleteAtEndBlock(c, rest)
          \/ sync' = [sync EXCEPT ![c] = t] /\ UpsertSyncProgress(c, None, t.synced, FALSE)
        BY <1>4 DEF SaveCatchUpPage
    <2> HIDE DEF t, rest
    <2> QED BY <1>1, <2>2, <2>3, <2>4, <2>5, EndRaises, SavingRaises
<1> QED BY <1>3, <1>4

\* Every step of the producer advances one contract.
LEMMA ProducerRaises ==
    ASSUME TypeInv, StoredInv, ProducerStep, \A c \in Contracts : ReportHolds(c)
    PROVE  \E c \in Contracts : Raises(c) /\ LeavesOthers(c)
<1>1. PICK c \in Contracts :
        \/ InitFromScratch(c) \/ InitFromSaved(c) \/ WalkPage(c)
        \/ StartCatchUp(c) \/ FetchBackfillPage(c) \/ StorePage(c)
        \/ SaveBackfillPage(c) \/ SaveCatchUpPage(c)
    BY DEF ProducerStep, SyncStep
<1>2. /\ ContractInv(c, sync[c]) /\ ReportHolds(c)
      /\ sync \in [Contracts -> SyncState] /\ sync[c] \in SyncState
    BY SyncFacts, Typed DEF ProducerStep, SyncTypeOK
<1>3. ~sync[c].done
    <2>1. sync[c].mode = "start" => ~sync[c].done
        BY <1>2 DEF ContractInv, FreshState
    <2>2. sync[c].mode \in {"walk", "fetched", "stored"} => ~sync[c].done
        BY <1>2 DEF ContractInv
    <2>3. Picked(c) => ~sync[c].done
        BY DEF Picked, Syncing
    <2> QED BY <1>1, <2>1, <2>2, <2>3 DEF InitFromScratch, InitFromSaved, WalkPage, StartCatchUp,
               FetchBackfillPage, StorePage, HasPage, SaveBackfillPage, SaveCatchUpPage
<1>4. CASE InitFromScratch(c)
    BY <1>2, <1>3, <1>4, BackfillRaises DEF InitFromScratch
<1>5. CASE InitFromSaved(c)
    <2>1. PICK t : /\ sync' = [sync EXCEPT ![c] = t] /\ UNCHANGED progress
                   /\ t.mode # "start" /\ (progress[c] # None => t.synced = progress[c].synced)
        <3> DEFINE s == [sync[c] EXCEPT !.synced = progress[c].synced, !.mode = "ready"]
        <3>1. /\ s.synced = progress[c].synced /\ s.mode = "ready"
              /\ [s EXCEPT !.done = TRUE].mode = "ready"
              /\ [s EXCEPT !.done = TRUE].synced = s.synced
              /\ [s EXCEPT !.cursor = progress[c].cursor].mode = "ready"
              /\ [s EXCEPT !.cursor = progress[c].cursor].synced = s.synced
              /\ [s EXCEPT !.mode = "walk"].mode = "walk"
              /\ [s EXCEPT !.mode = "walk"].synced = s.synced
            BY <1>2 DEF SyncState
        <3>2. PICK t \in {[s EXCEPT !.done = TRUE], [s EXCEPT !.cursor = progress[c].cursor],
                          [s EXCEPT !.mode = "walk"]} : sync' = [sync EXCEPT ![c] = t]
            BY <1>5 DEF InitFromSaved
        <3>3. UNCHANGED progress
            BY <1>5 DEF InitFromSaved, storeVars
        <3> HIDE DEF s
        <3>4. t.mode \in {"ready", "walk"} /\ t.synced = progress[c].synced
            BY <3>1, <3>2
        <3> QED BY <3>2, <3>3, <3>4
    <2>2. sync'[c] = t /\ LeavesOthers(c) /\ sync[c].mode = "start"
        BY <1>2, <1>5, <2>1 DEF LeavesOthers, InitFromSaved
    <2>3. progress[c] # None => progress[c].synced \in Nat
        BY Typed
    <2> QED BY <1>3, <2>1, <2>2, <2>3 DEF Raises
<1>6. CASE WalkPage(c)
    BY <1>2, <1>3, <1>6, WalkRaises
<1>7. CASE StartCatchUp(c) \/ FetchBackfillPage(c) \/ StorePage(c)
    <2>1. PICK t : /\ sync' = [sync EXCEPT ![c] = t] /\ UNCHANGED progress
                   /\ t.mode # "start" /\ t.synced = sync[c].synced
        <3> DEFINE page == LogsPage(c, sync[c].cursor)
        <3>1. /\ [sync[c] EXCEPT !.mode = "walk"].mode = "walk"
              /\ [sync[c] EXCEPT !.mode = "walk"].synced = sync[c].synced
              /\ [sync[c] EXCEPT !.mode = "stored"].mode = "stored"
              /\ [sync[c] EXCEPT !.mode = "stored"].synced = sync[c].synced
              /\ [sync[c] EXCEPT !.mode = "fetched", !.pages = <<page>>].mode = "fetched"
              /\ [sync[c] EXCEPT !.mode = "fetched", !.pages = <<page>>].synced = sync[c].synced
            BY <1>2 DEF SyncState
        <3>2. PICK t \in {[sync[c] EXCEPT !.mode = "walk"], [sync[c] EXCEPT !.mode = "stored"],
                          [sync[c] EXCEPT !.mode = "fetched", !.pages = <<page>>]} :
                 sync' = [sync EXCEPT ![c] = t]
            BY <1>2, <1>7 DEF StartCatchUp, FetchBackfillPage, StorePage
        <3>3. UNCHANGED progress
            BY <1>7 DEF StartCatchUp, FetchBackfillPage, StorePage, storeVars
        <3> HIDE DEF page
        <3>4. t.mode \in {"walk", "stored", "fetched"} /\ t.synced = sync[c].synced
            BY <3>1, <3>2
        <3> QED BY <3>2, <3>3, <3>4
    <2>2. sync[c].mode # "start"
        BY <1>7 DEF StartCatchUp, FetchBackfillPage, StorePage, HasPage, Picked, AtLoopHead
    <2> QED BY <1>2, <1>3, <2>1, <2>2, ReadingRaises
<1>8. CASE SaveBackfillPage(c) \/ SaveCatchUpPage(c)
    BY <1>2, <1>3, <1>8, SavedPageRaises
<1> QED BY <1>1, <1>4, <1>5, <1>6, <1>7, <1>8

-----------------------------------------------------------------------------
(* The report. *)

\* The report is taken once, when every contract is ready, and kept.
LEMMA TrackedType ==
    ASSUME TypeInv', ReportInv, TrackProgress, started' # None
    PROVE  started' \in [Contracts -> Summary]
<1>1. CASE started # None
    BY <1>1 DEF TrackProgress, ReportInv
<1>2. CASE started = None
    <2>1. started' = [c \in Contracts |-> StartedSummary(c)']
        BY <1>2 DEF TrackProgress
    <2>2. ASSUME NEW c \in Contracts PROVE StartedSummary(c)' \in Summary
        <3>1. sync'[c].synced \in Nat /\ sync'[c].done \in BOOLEAN
            BY DEF TypeInv, TypeOK, SyncTypeOK, SyncState
        <3>2. progress'[c] # None => progress'[c].synced \in Nat
            BY DEF TypeInv, TypeOK, StoreTypeOK, Progress
        <3> QED BY <3>1, <3>2 DEF StartedSummary, Summary
    <2> QED BY <2>1, <2>2
<1> QED BY <1>1, <1>2

\* A report that fits its contracts still fits them after a step that does.
LEMMA Tracked ==
    ASSUME TypeInv', ReportInv, TrackProgress, phase' = "sync",
           \A c \in Contracts :
               sync'[c].mode # "start" /\ ~sync'[c].done /\ progress'[c] # None =>
                   progress'[c].synced <= sync'[c].synced,
           started # None => \A c \in Contracts :
               /\ sync'[c].mode # "start"
               /\ started[c].doneAtStart => sync'[c].done
               /\ ~sync'[c].done => started[c].initialBlockHeight <= sync'[c].synced + 1
    PROVE  ReportInv'
<1>1. CASE started # None \/ ~Initialized'
    BY <1>1 DEF TrackProgress, ReportInv, ReportHolds
<1>2. CASE started = None /\ Initialized'
    <2>1. started' = [c \in Contracts |-> StartedSummary(c)']
        BY <1>2 DEF TrackProgress
    <2>2. ASSUME NEW c \in Contracts
          PROVE  /\ StartedSummary(c)'.doneAtStart => sync'[c].done
                 /\ ~sync'[c].done =>
                      StartedSummary(c)'.initialBlockHeight <= sync'[c].synced + 1
        <3>1. sync'[c].synced \in Nat
            BY DEF TypeInv, TypeOK, SyncTypeOK, SyncState
        <3>2. progress'[c] # None => progress'[c].synced \in Nat
            BY DEF TypeInv, TypeOK, StoreTypeOK, Progress
        <3>3. sync'[c].mode = "ready"
            BY <1>2 DEF Initialized
        <3> QED BY <3>1, <3>2, <3>3 DEF StartedSummary
    <2>3. started' # None => started' \in [Contracts -> Summary]
        BY TrackedType
    <2> QED BY <1>2, <2>1, <2>2, <2>3 DEF ReportInv, ReportHolds, Initialized
<1> QED BY <1>1, <1>2

\* The contract the producer advances still fits what was reported of it.
LEMMA ProducerTracked ==
    ASSUME TypeInv, TypeInv', StoredInv, ReportInv, ProducerStep, TrackProgress
    PROVE  ReportInv'
<1>1. phase = "sync" /\ phase' = "sync" /\ \A c \in Contracts : ReportHolds(c)
    BY DEF ProducerStep, passVars, ReportInv
<1>2. PICK c \in Contracts : Raises(c) /\ LeavesOthers(c)
    BY <1>1, ProducerRaises
<1>3. /\ sync[c].synced \in Nat /\ sync'[c].synced \in Nat
      /\ started # None => started[c].initialBlockHeight \in Nat
    <2>1. sync[c].synced \in Nat
        BY DEF TypeInv, TypeOK, SyncTypeOK, SyncState
    <2>2. sync'[c].synced \in Nat
        BY DEF TypeInv, TypeOK, SyncTypeOK, SyncState
    <2> QED BY <2>1, <2>2 DEF ReportInv, Summary
<1>4. /\ sync'[c].mode # "start" /\ ~sync'[c].done /\ progress'[c] # None =>
            progress'[c].synced <= sync'[c].synced
      /\ started # None =>
            /\ sync'[c].mode # "start"
            /\ started[c].doneAtStart => sync'[c].done
            /\ ~sync'[c].done => started[c].initialBlockHeight <= sync'[c].synced + 1
    BY <1>1, <1>2, <1>3 DEF Raises, ReportHolds
<1>5. ASSUME NEW d \in Contracts, d # c
      PROVE  /\ sync'[d].mode # "start" /\ ~sync'[d].done /\ progress'[d] # None =>
                   progress'[d].synced <= sync'[d].synced
             /\ started # None =>
                   /\ sync'[d].mode # "start"
                   /\ started[d].doneAtStart => sync'[d].done
                   /\ ~sync'[d].done =>
                        started[d].initialBlockHeight <= sync'[d].synced + 1
    BY <1>1, <1>2, <1>5 DEF LeavesOthers, ReportHolds
<1> QED BY <1>1, <1>4, <1>5, Tracked

\* A pass begins to sync with every contract uninitialized, and no other step
\* moves a contract while it syncs.
LEMMA OthersAlone ==
    ASSUME TypeInv, StoredInv, phase' = "sync",
           ReconcileStep \/ ConsumerStep \/ EndStep \/ StopStep \/ ChainStep
    PROVE  /\ sync' = sync /\ progress' = progress
           /\ phase # "sync" => /\ phase \notin {"final", "last"}
                                /\ \A c \in Contracts : sync[c].mode = "start"
<1>1. CASE ReconcileStep
    <2>1. phase = "setAnchor" /\ sync' = sync /\ progress' = progress
        BY <1>1 DEF ReconcileStep, ReadChainTip, NothingToReplay, ReplayUnfinalized,
           AnchorCanonical, AnchorOrphaned, Probe, FailWithReorgError, RewindToAncestor,
           SetSyncAnchor, syncVars, storeVars
    <2>2. sync = [c \in Contracts |-> FreshState(c)]
        BY <2>1 DEF StoredInv, PassInv
    <2> QED BY <2>1, <2>2 DEF FreshState
<1>2. CASE ConsumerStep
    BY <1>2 DEF ConsumerStep, IndexSafeHeight, IndexBatch, RaiseToTip, IndexRemaining, passVars,
       syncVars
<1>3. CASE EndStep \/ StopStep
    BY <1>3 DEF EndStep, EndPass, StopStep, Stop, Reset
<1>4. CASE ChainStep
    BY <1>4 DEF ChainStep, storeVars, passVars, syncVars
<1> QED BY <1>1, <1>2, <1>3, <1>4

LEMMA ReportStep ==
    ASSUME TypeInv, TypeInv', StoredInv, ReportInv, [ProgressNext]_progressVars
    PROVE  ReportInv'
<1>1. CASE UNCHANGED progressVars
    BY <1>1 DEF progressVars, vars, storeVars, passVars, syncVars, ReportInv, ReportHolds
<1>2. CASE ProgressNext /\ phase' # "sync"
    <2>1. TrackProgress
        BY <1>2 DEF ProgressNext
    <2>2. started' # None => started' \in [Contracts -> Summary]
        BY <2>1, TrackedType
    <2> QED BY <1>2, <2>1, <2>2 DEF TrackProgress, ReportInv
<1>3. CASE ProgressNext /\ phase' = "sync"
    <2>1. TrackProgress /\ Next
        BY <1>3 DEF ProgressNext
    <2>2. CASE ProducerStep
        BY <2>1, <2>2, ProducerTracked
    <2>3. CASE ReconcileStep \/ ConsumerStep \/ EndStep \/ StopStep \/ ChainStep
        <3>1. /\ sync' = sync /\ progress' = progress
              /\ phase # "sync" => /\ phase \notin {"final", "last"}
                                   /\ \A c \in Contracts : sync[c].mode = "start"
            BY <1>3, <2>3, OthersAlone
        <3>2. CASE phase = "sync"
            BY <1>3, <2>1, <3>1, <3>2, Tracked DEF ReportInv, ReportHolds
        <3>3. CASE phase # "sync"
            BY <1>3, <2>1, <3>1, <3>3, Tracked DEF ReportInv
        <3> QED BY <3>2, <3>3
    <2> QED BY <2>1, <2>2, <2>3 DEF Next
<1> QED BY <1>1, <1>2, <1>3

\* The contracts of a pass stay where the report has them, or further on.
THEOREM ReportInvariant ==
    ASSUME NothingInTheWay
    PROVE  ProgressSpec => [](TypeInv /\ StoredInv /\ ReportInv)
<1>1. ProgressSpec => [](TypeInv /\ StoredInv)
    BY ProgressIsAPass, StoredInvariant, PTL
<1>2. ProgressInit => ReportInv
    BY DEF ProgressInit, Init, PassInit, ReportInv
<1>3. TypeInv /\ TypeInv' /\ StoredInv /\ ReportInv /\ [ProgressNext]_progressVars => ReportInv'
    BY ReportStep
<1> QED BY <1>1, <1>2, <1>3, PTL DEF ProgressSpec

\* Of what a contract is said to have completed every event is stored.
LEMMA ReportIsStored == TypeInv /\ StoredInv /\ ReportInv => ReportedIsStored
<1> SUFFICES ASSUME TypeInv, StoredInv, ReportInv, started # None, tip # None,
                    NEW c \in Contracts, NEW e \in Logs(c),
                    e \in Due(MinOf(Lower(c) + CompletedBlocks(c) - 1, tip.height))
             PROVE  e \in events
    BY DEF ReportedIsStored
<1>1. /\ e.height \in Nat /\ e \in Wanted(c) /\ InRange(c, e.height) /\ tip.height \in Nat
      /\ e.height <= MinOf(Lower(c) + CompletedBlocks(c) - 1, tip.height)
    BY Typed, WantedAre DEF Due, Wanted
<1>2. /\ phase \in {"sync", "final", "last"} /\ StartBlock[c] \in Nat
      /\ started[c] \in Summary /\ sync[c].synced \in Nat
      /\ HasEnd(c) => EndBlock[c] \in Nat
    BY Typed, RangeAssumption DEF ReportInv, HasEnd, SyncTypeOK, SyncState
<1>3. SyncingInv
    BY <1>2 DEF StoredInv
<1>4. /\ Lower(c) \in Nat /\ BlockRange(c) \in Nat
      /\ StartBlock[c] # 0 => Lower(c) = StartBlock[c]
      /\ StartBlock[c] = 0 => Lower(c) = started[c].initialBlockHeight
    BY <1>1, <1>2 DEF Lower, Target, TipHeight, BlockRange, MaxOf, Summary
<1>5. e.height <= tip.height
    <2>1. Lower(c) + CompletedBlocks(c) - 1 \in Int
        BY <1>2, <1>4 DEF CompletedBlocks, MinOf, MaxOf
    <2> QED BY <1>1, <2>1 DEF MinOf
<1>6. CASE phase # "sync" \/ sync[c].done
    <2>1. DueOf(c, tip.height) \subseteq events
        BY <1>2, <1>3, <1>6 DEF SyncingInv, StoredThrough, ContractInv
    <2> QED BY <1>1, <1>5, <2>1 DEF DueOf
<1>7. CASE phase = "sync" /\ ~sync[c].done
    <2>1. DueOf(c, sync[c].synced) \subseteq events
        BY <1>3, <1>7 DEF SyncingInv, ContractInv, Working
    <2>2. ~started[c].doneAtStart /\ started[c].initialBlockHeight <= sync[c].synced + 1
        BY <1>7 DEF ReportInv, ReportHolds
    <2>3. e.height <= Lower(c) + MinOf(MaxOf(sync[c].synced - Lower(c) + 1, 0), BlockRange(c)) - 1
        <3>1. CompletedBlocks(c) = MinOf(MaxOf(sync[c].synced - Lower(c) + 1, 0), BlockRange(c))
            BY <2>2 DEF CompletedBlocks
        <3>2. Lower(c) + CompletedBlocks(c) - 1 \in Int
            BY <1>2, <1>4, <3>1 DEF MinOf, MaxOf
        <3> QED BY <1>1, <3>1, <3>2 DEF MinOf
    <2>4. e.height <= sync[c].synced \/ e.height < Lower(c)
        BY <1>1, <1>2, <1>4, <2>3 DEF MinOf, MaxOf
    <2>5. e.height <= sync[c].synced
        BY <1>1, <1>2, <1>4, <2>2, <2>4 DEF InRange, Summary
    <2> QED BY <1>1, <2>1, <2>5 DEF DueOf
<1> QED BY <1>6, <1>7

\* The progress shown is never ahead of what is stored: of the blocks a contract
\* is said to have completed every event up to the tip is stored, in every
\* state of every sync.
THEOREM ReportedNeverAhead ==
    ASSUME NothingInTheWay
    PROVE  ProgressSpec => []ReportedIsStored
BY ReportIsStored, ReportInvariant, PTL

\* A contract never completes more than its range, and where none has a block
\* left to complete there is nothing left to store.
LEMMA WholeRange ==
    ASSUME TypeInv, StoredInv, ReportInv, started # None, tip # None
    PROVE  /\ \A c \in Contracts : CompletedBlocks(c) \in 0..BlockRange(c)
           /\ (\A c \in Contracts : CompletedBlocks(c) = BlockRange(c)) =>
                Due(tip.height) \subseteq events
<1>1. ASSUME NEW c \in Contracts
      PROVE  /\ Lower(c) \in Nat /\ BlockRange(c) \in Nat /\ Target(c) \in Nat
             /\ CompletedBlocks(c) \in 0..BlockRange(c)
             /\ Target(c) <= Lower(c) + BlockRange(c) - 1
    <2>1. /\ StartBlock[c] \in Nat /\ started[c] \in Summary /\ sync[c].synced \in Nat
          /\ tip.height \in Nat
          /\ HasEnd(c) => EndBlock[c] \in Nat
        BY Typed, RangeAssumption DEF ReportInv, HasEnd, SyncTypeOK, SyncState
    <2>2. Lower(c) \in Nat /\ Target(c) \in Nat
        BY <2>1 DEF Lower, Target, TipHeight, Summary
    <2>3. BlockRange(c) \in Nat /\ Target(c) <= Lower(c) + BlockRange(c) - 1
        BY <2>2 DEF BlockRange, MaxOf
    <2>4. CompletedBlocks(c) \in 0..BlockRange(c)
        BY <2>1, <2>2, <2>3 DEF CompletedBlocks, MinOf, MaxOf
    <2> QED BY <2>2, <2>3, <2>4
<1>2. ASSUME \A c \in Contracts : CompletedBlocks(c) = BlockRange(c),
             NEW e \in Due(tip.height)
      PROVE  e \in events
    <2>1. PICK c \in Contracts : e \in Logs(c)
        BY DEF Due, CanonicalEvents
    <2>2. /\ e.contract = c /\ e.height \in Nat /\ tip.height \in Nat
          /\ InRange(c, e.height) /\ e.height <= tip.height /\ e \in CanonicalEvents
        BY <2>1, Typed, WantedAre DEF Due
    <2>3. e.height <= Target(c)
        BY <2>2 DEF InRange, Target, TipHeight
    <2>4. e.height <= MinOf(Lower(c) + CompletedBlocks(c) - 1, tip.height)
        BY <1>1, <1>2, <2>2, <2>3 DEF MinOf
    <2>5. e \in Due(MinOf(Lower(c) + CompletedBlocks(c) - 1, tip.height))
        BY <2>2, <2>4 DEF Due
    <2> QED BY <2>1, <2>5, ReportIsStored DEF ReportedIsStored
<1> QED BY <1>1, <1>2

\* The arithmetic of the report is sound: no contract completes more blocks than
\* its range has, so a total that is reached is reached by each of them, and
\* then every event up to the tip is stored.
THEOREM ReportReachesTheTip ==
    ASSUME NothingInTheWay
    PROVE  ProgressSpec =>
             [](started # None /\ tip # None =>
                  /\ \A c \in Contracts : CompletedBlocks(c) \in 0..BlockRange(c)
                  /\ (\A c \in Contracts : CompletedBlocks(c) = BlockRange(c)) =>
                       Due(tip.height) \subseteq events)
<1>1. TypeInv /\ StoredInv /\ ReportInv =>
        (started # None /\ tip # None =>
           /\ \A c \in Contracts : CompletedBlocks(c) \in 0..BlockRange(c)
           /\ (\A c \in Contracts : CompletedBlocks(c) = BlockRange(c)) =>
                Due(tip.height) \subseteq events)
    BY WholeRange
<1> QED BY <1>1, ReportInvariant, PTL

=============================================================================

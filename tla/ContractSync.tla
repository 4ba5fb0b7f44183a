---------------------------- MODULE ContractSync ----------------------------
(***************************************************************************)
(* The historical sync producer (sync/index.ts): every contract is         *)
(* initialized, then the contract at the lowest position is advanced one   *)
(* page at a time, and after each stored page the height below which every *)
(* unfinished contract is synced is offered to the indexer.                *)
(*                                                                         *)
(* A contract walks its newest pages backwards ("walk", fetchNewPages),    *)
(* holds fetched pages to store oldest first ("ready" with pages), or      *)
(* follows a forward cursor ("fetched" once the page is read).  Storing a  *)
(* page and saving the progress are two transactions ("stored" between).   *)
(***************************************************************************)
EXTENDS SyncStore, Sequences

CONSTANT MaxCatchUpPages  \* pages a catch-up buffers before it resumes forward

ASSUME SyncAssumption == MaxCatchUpPages \in Nat \ {0}

VARIABLES
    sync,   \* the in-memory ContractSyncState of each contract
    queue   \* safe heights offered to the indexer, oldest first

syncVars == <<sync, queue>>

Modes == {"start", "walk", "ready", "fetched", "stored"}
Page ==
    [results: SUBSET Event, cursor: Position \cup {None},
     next: Position \cup {None}, prev: Position \cup {None}]
SyncState ==
    [mode: Modes, cursor: Position \cup {None}, walk: Position \cup {None},
     pages: Seq(Page), synced: Nat, done: BOOLEAN, syncedToHead: BOOLEAN]

SyncTypeOK ==
    /\ sync \in [Contracts -> SyncState]
    /\ queue \in Seq(Nat)

\* A page being handled is held, and a page reached by walking back from the
\* newest one has a cursor: its height is what the contract is synced to.
HoldsPages(s) ==
    /\ s.mode \in {"fetched", "stored"} => s.pages # <<>>
    /\ s.cursor = None => \A i \in 1..Len(s.pages) : s.pages[i].cursor # None

PagesHeld == \A c \in Contracts : HoldsPages(sync[c])

\* makeContractSyncState, before the saved progress is read.
FreshState(c) ==
    [mode |-> "start", cursor |-> None, walk |-> None, pages |-> <<>>,
     synced |-> MaxOf(StartBlock[c] - 1, 0), done |-> FALSE, syncedToHead |-> FALSE]

SyncInit ==
    /\ sync = [c \in Contracts |-> FreshState(c)]
    /\ queue = <<>>

-----------------------------------------------------------------------------

\* completeAtEndBlock
CompleteAtEndBlock(c, s) ==
    /\ sync' = [sync EXCEPT ![c] =
                  [s EXCEPT !.mode = "ready", !.cursor = None, !.pages = <<>>,
                            !.synced = EndBlock[c], !.done = TRUE]]
    /\ UpsertSyncProgress(c, None, EndBlock[c], TRUE)

\* Mutant of BeginBackfill: an event in the end block itself is out of range.
BeginBackfillBeforeEnd(c, s, cursor) ==
    \/ /\ cursor = None
       /\ ~HasEnd(c)
       /\ sync' = [sync EXCEPT ![c] = [s EXCEPT !.mode = "ready", !.done = TRUE]]
       /\ UpsertSyncProgress(c, s.cursor, s.synced, FALSE)
    \/ /\ HasEnd(c)
       /\ cursor # None => cursor.height >= EndBlock[c]
       /\ CompleteAtEndBlock(c, s)
    \/ /\ cursor # None
       /\ HasEnd(c) => cursor.height < EndBlock[c]
       /\ sync' = [sync EXCEPT ![c] =
                     [s EXCEPT !.mode = "ready", !.cursor = cursor,
                               !.synced = MaxOf(s.synced, cursor.height - 1)]]
       /\ UNCHANGED progress

\* beginBackfill: forward pagination starts at the discovered cursor, or the
\* contract is done when there is nothing to fetch in its range.
BeginBackfill(c, s, cursor) ==
    \/ /\ cursor = None
       /\ ~HasEnd(c)
       /\ sync' = [sync EXCEPT ![c] = [s EXCEPT !.mode = "ready", !.done = TRUE]]
       /\ UpsertSyncProgress(c, s.cursor, s.synced, FALSE)
    \/ /\ HasEnd(c)
       /\ cursor # None => cursor.height > EndBlock[c]
       /\ CompleteAtEndBlock(c, s)
    \/ /\ cursor # None
       /\ HasEnd(c) => cursor.height <= EndBlock[c]
       /\ sync' = [sync EXCEPT ![c] =
                     [s EXCEPT !.mode = "ready", !.cursor = cursor,
                               !.synced = MaxOf(s.synced, cursor.height - 1)]]
       /\ UNCHANGED progress

\* initContractFromScratch
InitFromScratch(c) ==
    /\ sync[c].mode = "start"
    /\ progress[c] = None
    /\ BeginBackfill(c, sync[c], FirstCursor(c, StartBlock[c]))
    /\ UNCHANGED <<blocks, events, checkpoint, anchor, handled, queue>>

\* Mutant of InitFromSaved: a contract without a saved cursor is done.
InitWithoutCatchUp(c) ==
    /\ sync[c].mode = "start"
    /\ progress[c] # None
    /\ LET s == [sync[c] EXCEPT !.synced = progress[c].synced, !.mode = "ready"]
       IN  sync' = [sync EXCEPT ![c] =
                      IF progress[c].cursor = None THEN [s EXCEPT !.done = TRUE]
                      ELSE [s EXCEPT !.cursor = progress[c].cursor]]
    /\ UNCHANGED <<storeVars, queue>>

\* initContractFromSaved: complete, resumed at the saved cursor, or caught up.
InitFromSaved(c) ==
    /\ sync[c].mode = "start"
    /\ progress[c] # None
    /\ LET s == [sync[c] EXCEPT !.synced = progress[c].synced, !.mode = "ready"]
           atEnd == HasEnd(c) /\ s.synced >= EndBlock[c]
       IN  sync' = [sync EXCEPT ![c] =
                      IF atEnd THEN [s EXCEPT !.done = TRUE]
                      ELSE IF progress[c].cursor # None
                           THEN [s EXCEPT !.cursor = progress[c].cursor]
                           ELSE [s EXCEPT !.mode = "walk"]]
    /\ UNCHANGED <<storeVars, queue>>

-----------------------------------------------------------------------------
(* fetchNewPages and catchUp, one page request per step. *)

\* The end of the walk: the pages fetched are pending, or the contract is done.
EndWalk(c, s) ==
    /\ sync' = [sync EXCEPT ![c] =
                  [s EXCEPT !.mode = "ready", !.walk = None,
                            !.done = s.pages = <<>>,
                            !.syncedToHead = s.pages = <<>>]]
    /\ UNCHANGED progress

WalkPage(c) ==
    /\ sync[c].mode = "walk"
    /\ LET s    == sync[c]
           page == LogsPage(c, s.walk)
           old(p) == p # None => p.height <= s.synced
           longer == [s EXCEPT !.pages = <<page>> \o @]
       IN  \/ /\ old(page.cursor)
              /\ EndWalk(c, s)
           \/ /\ ~old(page.cursor)
              /\ old(page.prev)
              /\ EndWalk(c, longer)
           \/ /\ ~old(page.cursor)
              /\ ~old(page.prev)
              /\ Len(longer.pages) < MaxCatchUpPages
              /\ sync' = [sync EXCEPT ![c] = [longer EXCEPT !.walk = page.prev]]
              /\ UNCHANGED progress
           \/ /\ ~old(page.cursor)
              /\ ~old(page.prev)
              /\ Len(longer.pages) >= MaxCatchUpPages
              /\ BeginBackfill(c, [s EXCEPT !.pages = <<>>, !.walk = None],
                               FirstCursor(c, MaxOf(StartBlock[c], s.synced + 1)))
    /\ UNCHANGED <<blocks, events, checkpoint, anchor, handled, queue>>

-----------------------------------------------------------------------------
(* The loop of createSync.historical. *)

\* pickNextState: where the contract reads next.
NextHeight(c) == IF sync[c].cursor = None THEN sync[c].synced + 1
                 ELSE sync[c].cursor.height

Syncing == {c \in Contracts : ~sync[c].done}

\* The loop is between two pages: every contract is initialized, no page is
\* being handled, and the last offer was accepted (the queue holds one).
AtLoopHead ==
    /\ \A c \in Contracts : sync[c].mode = "ready"
    /\ Len(queue) <= 1

\* The lowest position; the first defined among equals.
Picked(c) ==
    /\ AtLoopHead
    /\ c \in Syncing
    /\ \A d \in Syncing : \/ NextHeight(c) < NextHeight(d)
                          \/ NextHeight(c) = NextHeight(d) /\ c <= d

\* The forward cursor is exhausted: catch up from the newest page.
StartCatchUp(c) ==
    /\ Picked(c)
    /\ sync[c].pages = <<>>
    /\ sync[c].cursor = None
    /\ sync' = [sync EXCEPT ![c].mode = "walk"]
    /\ UNCHANGED <<storeVars, queue>>

\* Mutant of FetchBackfillPage: the progress past the page is saved when it is
\* read, before it is stored.
SaveProgressOnFetch(c) ==
    /\ Picked(c)
    /\ sync[c].pages = <<>>
    /\ sync[c].cursor # None
    /\ LET page == LogsPage(c, sync[c].cursor)
       IN  /\ sync' = [sync EXCEPT ![c].mode = "fetched", ![c].pages = <<page>>]
           /\ UpsertSyncProgress(c, page.next, sync[c].cursor.height, FALSE)
    /\ UNCHANGED <<blocks, events, checkpoint, anchor, handled, queue>>

FetchBackfillPage(c) ==
    /\ Picked(c)
    /\ sync[c].pages = <<>>
    /\ sync[c].cursor # None
    /\ sync' = [sync EXCEPT ![c].mode = "fetched",
                            ![c].pages = <<LogsPage(c, sync[c].cursor)>>]
    /\ UNCHANGED <<storeVars, queue>>

HasPage(c) ==
    \/ sync[c].mode = "fetched"
    \/ Picked(c) /\ sync[c].pages # <<>>

Missing(c) == Head(sync[c].pages).results \ events

\* The transaction batch answers only for canonical transactions.
Fetchable(c) == Missing(c) \subseteq Logs(c)

\* storeEvents: the missing transactions are fetched, up to endBlock, and the
\* page is stored in one transaction. A transaction the API no longer knows is
\* a TransactionBatchError, which ends the pass (no step here).
StorePage(c) ==
    /\ HasPage(c)
    /\ Fetchable(c)
    /\ InsertEvents({e \in Missing(c) : HasEnd(c) => e.height <= EndBlock[c]})
    /\ sync' = [sync EXCEPT ![c].mode = "stored"]
    /\ UNCHANGED <<progress, checkpoint, anchor, handled, queue>>

\* Mutant of IsSafeHeight: the highest synced height instead of the lowest.
IsHighestSynced(h, states) ==
    /\ \E c \in Contracts : ~states[c].done /\ h = states[c].synced
    /\ \A c \in Contracts : ~states[c].done => h >= states[c].synced

\* getSafeBlockHeight: the lowest synced height of the unfinished contracts.
IsSafeHeight(h, states) ==
    /\ \E c \in Contracts : ~states[c].done /\ h = states[c].synced
    /\ \A c \in Contracts : ~states[c].done => h <= states[c].synced

\* Mutant of OfferSafeHeight: an offer is made when every contract is done.
OfferAlways ==
    \/ \E h \in {sync'[c].synced : c \in Contracts} :
         IsSafeHeight(h, sync') /\ queue' = Append(queue, h)
    \/ (\A c \in Contracts : sync'[c].done) /\ queue' = Append(queue, None)

\* The safe height is offered after each page, unless every contract is done.
OfferSafeHeight ==
    \/ \E h \in {sync'[c].synced : c \in Contracts} :
         IsSafeHeight(h, sync') /\ queue' = Append(queue, h)
    \/ (\A c \in Contracts : sync'[c].done) /\ queue' = queue

\* syncBackfillPage, once the page is stored.
SaveBackfillPage(c) ==
    /\ sync[c].mode = "stored"
    /\ sync[c].cursor # None
    /\ LET s    == sync[c]
           page == Head(s.pages)
           t    == [s EXCEPT !.mode = "ready", !.pages = <<>>, !.cursor = page.next,
                             !.synced = MaxOf(s.synced, s.cursor.height - 1)]
       IN  IF HasEnd(c) /\ s.cursor.height > EndBlock[c]
           THEN CompleteAtEndBlock(c, s)
           ELSE /\ sync' = [sync EXCEPT ![c] = t]
                /\ UpsertSyncProgress(c, t.cursor, t.synced, FALSE)
    /\ OfferSafeHeight
    /\ UNCHANGED <<blocks, events, checkpoint, anchor, handled>>

\* Mutant of SaveCatchUpPage: every page completes its top block.
SaveCatchUpPageWhole(c) ==
    /\ sync[c].mode = "stored"
    /\ sync[c].cursor = None
    /\ LET s      == sync[c]
           newest == Len(s.pages) = 1
           t      == [s EXCEPT !.mode = "ready", !.pages = Tail(s.pages),
                               !.synced = MaxOf(s.synced, Head(s.pages).cursor.height),
                               !.done = newest, !.syncedToHead = newest]
       IN  /\ sync' = [sync EXCEPT ![c] = t]
           /\ UpsertSyncProgress(c, None, t.synced, FALSE)
    /\ OfferSafeHeight
    /\ UNCHANGED <<blocks, events, checkpoint, anchor, handled>>

\* syncCatchUpPage, once the page is stored: only the newest page completes
\* its top block.
SaveCatchUpPage(c) ==
    /\ sync[c].mode = "stored"
    /\ sync[c].cursor = None
    /\ LET s      == sync[c]
           height == Head(s.pages).cursor.height
           newest == Len(s.pages) = 1
           t      == [s EXCEPT !.mode = "ready", !.pages = Tail(s.pages),
                               !.synced = MaxOf(s.synced, IF newest THEN height
                                                          ELSE height - 1),
                               !.done = newest, !.syncedToHead = newest]
       IN  IF HasEnd(c) /\ t.synced >= EndBlock[c]
           THEN CompleteAtEndBlock(c, [s EXCEPT !.pages = Tail(s.pages)])
           ELSE /\ sync' = [sync EXCEPT ![c] = t]
                /\ UpsertSyncProgress(c, None, t.synced, FALSE)
    /\ OfferSafeHeight
    /\ UNCHANGED <<blocks, events, checkpoint, anchor, handled>>

\* The stream ended: every contract is done and every offer was consumed.
StreamEnded ==
    /\ \A c \in Contracts : sync[c].mode = "ready" /\ sync[c].done
    /\ queue = <<>>

SyncStep ==
    \E c \in Contracts :
        \/ InitFromScratch(c)
        \/ InitFromSaved(c)
        \/ WalkPage(c)
        \/ StartCatchUp(c)
        \/ FetchBackfillPage(c)
        \/ StorePage(c)
        \/ SaveBackfillPage(c)
        \/ SaveCatchUpPage(c)

=============================================================================

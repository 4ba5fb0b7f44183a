------------------------------ MODULE Progress ------------------------------
(***************************************************************************)
(* What a historical pass reports of itself (runtime/progress.ts): a       *)
(* snapshot of every contract once all are initialized (the "started"      *)
(* event) and after every page, added up to blocks completed out of a      *)
(* total.                                                                  *)
(*                                                                         *)
(* A snapshot is taken here when it is offered; the log shows it when the  *)
(* consumer takes it, and nothing stored is lost in between.               *)
(***************************************************************************)
EXTENDS Indexer, Functions

VARIABLE started  \* the contracts' snapshots when the sync started, None before

progressVars == <<vars, started>>

\* What a snapshot keeps from the start of the sync. Its lastBlockHeight is
\* the synced height of the moment, its bounds are constants.
Summary == [doneAtStart: BOOLEAN, initialBlockHeight: Nat]

\* The producer offers "started" when every contract is initialized. A contract
\* found from scratch begins above its synced height, a saved one at it. (One
\* that completed at its end block while it was initialized began lower; it is
\* done at the start, and its range counts as completed from wherever.)
StartedSummary(c) ==
    [doneAtStart |-> sync[c].done,
     initialBlockHeight |-> IF progress[c] = None THEN sync[c].synced + 1
                            ELSE progress[c].synced]

Initialized == \A c \in Contracts : sync[c].mode = "ready"

ProgressInit == Init /\ started = None

TrackProgress ==
    started' = IF phase' \notin {"sync", "final", "last"} THEN None
               ELSE IF started # None THEN started
               ELSE IF Initialized' THEN [c \in Contracts |-> StartedSummary(c)]'
               ELSE None

ProgressNext == Next /\ TrackProgress

ProgressSpec == ProgressInit /\ [][ProgressNext]_progressVars

-----------------------------------------------------------------------------
(* computeRunProgress *)

\* The bounds of a contract; a startBlock of 0 is an unset one.
Lower(c) == IF StartBlock[c] # 0 THEN StartBlock[c] ELSE started[c].initialBlockHeight
Target(c) == IF HasEnd(c) THEN EndBlock[c] ELSE TipHeight

\* Mutant of BlockRange: the target block is left out.
BlockRangeBelowTarget(c) == MaxOf(Target(c) - Lower(c), 0)

BlockRange(c) == MaxOf(Target(c) - Lower(c) + 1, 0)

\* Mutant of CompletedBlocks: the block above the synced height is counted.
CompletedBlocksAndNext(c) ==
    IF started[c].doneAtStart THEN BlockRange(c)
    ELSE MinOf(MaxOf(sync[c].synced - Lower(c) + 2, 0), BlockRange(c))

CompletedBlocks(c) ==
    IF started[c].doneAtStart THEN BlockRange(c)
    ELSE MinOf(MaxOf(sync[c].synced - Lower(c) + 1, 0), BlockRange(c))

\* The totals over the contracts whose bounds are known: all, with a tip.
RunProgress ==
    [completedBlocks |-> FoldFunction(LAMBDA m, n : m + n, 0,
                                      [c \in Contracts |-> CompletedBlocks(c)]),
     totalBlocks |-> FoldFunction(LAMBDA m, n : m + n, 0,
                                  [c \in Contracts |-> BlockRange(c)])]

-----------------------------------------------------------------------------
(* Properties. *)

\* progress.ts:28: the progress shown is never ahead of what is stored.  Of the
\* blocks a contract is said to have completed, every event up to the tip is
\* stored, at any moment of a sync, however the contract started (from
\* scratch, from a cursor, catching up, done at once) and whatever a page cut
\* through.
ReportedIsStored ==
    started # None /\ tip # None =>
        \A c \in Contracts :
            Logs(c) \cap Due(MinOf(Lower(c) + CompletedBlocks(c) - 1, tip.height))
              \subseteq events

\* A run that shows its total, 100 percent, has nothing left to store: no
\* contract's blocks make up for those of another.
TotalIsStored ==
    /\ started # None
    /\ tip # None
    /\ RunProgress.completedBlocks = RunProgress.totalBlocks
    => Due(tip.height) \subseteq events

-----------------------------------------------------------------------------
(* Why the report is never ahead: the inductive invariant behind            *)
(* ReportedIsStored, next to what is known of the contracts themselves.     *)

\* While a contract is synced its saved row is not ahead of it, it never falls
\* back below where it was when the sync started, and a contract that was done
\* then stays done.
ReportHolds(c) ==
    /\ sync[c].mode # "start" /\ ~sync[c].done /\ progress[c] # None =>
         progress[c].synced <= sync[c].synced
    /\ started # None =>
         /\ sync[c].mode # "start"
         /\ started[c].doneAtStart => sync[c].done
         /\ ~sync[c].done => started[c].initialBlockHeight <= sync[c].synced + 1

ReportInv ==
    /\ phase \notin {"sync", "final", "last"} => started = None
    /\ started # None => started \in [Contracts -> Summary]
    /\ phase = "sync" => \A c \in Contracts : ReportHolds(c)

=============================================================================

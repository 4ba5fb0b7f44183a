------------------------------ MODULE Indexer ------------------------------
(***************************************************************************)
(* A historical pass (runtime/historical.ts): Reconcile, then the sync     *)
(* producer (ContractSync) and the indexing consumer (IndexEvents) side by *)
(* side, then the final index.  A pass may stop at any step (the process   *)
(* crashes, a request or a handler fails, the run is interrupted) and the  *)
(* next one starts from what the database holds.                           *)
(***************************************************************************)
EXTENDS Reconcile, ContractSync, IndexEvents

CONSTANTS
    MinePhases,   \* the phases of a pass during which the chain may grow
    ReorgPhases,  \* the phases during which a reorg may happen
    StopPhases,   \* the phases during which a pass may stop
    MaxStops      \* bound: how many passes stop

ASSUME IndexerAssumption ==
    /\ MinePhases \subseteq Phases
    /\ ReorgPhases \subseteq Phases
    /\ StopPhases \subseteq Phases
    /\ MaxStops \in Nat

VARIABLE stops  \* how many passes stopped

vars == <<chainVars, storeVars, passVars, syncVars, batches, stops>>

\* Every variable holds a value of its kind: the tables, the volatile state of
\* the pass, the pages in memory and the chain.
TypeOK ==
    /\ ChainTypeOK
    /\ StoreTypeOK
    /\ PassTypeOK
    /\ SyncTypeOK
    /\ IndexTypeOK
    /\ stops \in 0..MaxStops

Init ==
    /\ ChainInit
    /\ StoreInit
    /\ PassInit
    /\ SyncInit
    /\ IndexInit
    /\ stops = 0

-----------------------------------------------------------------------------
(* The pass: syncAndIndexTo. *)

TipHeight == IF tip = None THEN None ELSE tip.height

\* Mutant of IndexingCap: indexing is never capped.
NoCap == Unbounded

\* Nothing above the tip is indexed; without a tip indexing is not capped.
IndexingCap == IF tip = None THEN Unbounded ELSE tip.height

\* The consumer takes a safe height from the stream.
IndexSafeHeight ==
    /\ phase = "sync"
    /\ batches = None
    /\ queue # <<>>
    /\ queue' = Tail(queue)
    /\ IndexEventsUpTo(MinOf(Head(queue), IndexingCap), TipHeight)
    /\ UNCHANGED <<passVars, sync, blocks, events, progress, anchor, handled>>

\* The stream ended: the contracts that read their newest page after the tip
\* was read are synced through the tip.
RaiseToTip ==
    /\ phase = "sync"
    /\ StreamEnded
    /\ batches = None
    /\ IF tip = None THEN UNCHANGED progress
       ELSE RaiseSyncedBlockHeight(
              {c \in Contracts : /\ sync[c].syncedToHead
                                 /\ HasEnd(c) => EndBlock[c] >= tip.height},
              tip.height)
    /\ phase' = "final"
    /\ UNCHANGED <<tip, probing, ancestor, syncVars, batches>>
    /\ UNCHANGED <<blocks, events, checkpoint, anchor, handled>>

\* The final index of what is left up to the cap.
IndexRemaining ==
    /\ phase = "final"
    /\ IndexEventsUpTo(IndexingCap, TipHeight)
    /\ phase' = "last"
    /\ UNCHANGED <<tip, probing, ancestor, syncVars>>
    /\ UNCHANGED <<blocks, events, progress, anchor, handled>>

\* Nothing of a pass outlives it but the database.
Reset ==
    /\ phase' = "idle"
    /\ tip' = None
    /\ probing' = {}
    /\ ancestor' = None
    /\ sync' = [c \in Contracts |-> FreshState(c)]
    /\ queue' = <<>>
    /\ batches' = None
    /\ UNCHANGED storeVars

\* The pass ends: it completed, or the run failed on a ReorgError, or the
\* transaction batch lacks a transaction of the page (TransactionBatchError).
EndPass ==
    /\ \/ phase = "last" /\ batches = None
       \/ phase = "reorgError"
       \/ phase = "sync" /\ \E c \in Contracts : HasPage(c) /\ ~Fetchable(c)
    /\ Reset
    /\ UNCHANGED stops

\* The pass stops short: a crash, a failed request, a handler or database
\* error, an interrupt. An open transaction is rolled back.
Stop ==
    /\ phase \in StopPhases \ {"idle"}
    /\ stops < MaxStops
    /\ stops' = stops + 1
    /\ Reset

-----------------------------------------------------------------------------

ReconcileStep ==
    /\ \/ ReadChainTip
       \/ NothingToReplay
       \/ ReplayUnfinalized
       \/ AnchorCanonical
       \/ AnchorOrphaned
       \/ Probe
       \/ FailWithReorgError
       \/ RewindToAncestor
       \/ SetSyncAnchor
    /\ UNCHANGED <<chainVars, syncVars, batches, stops>>

ProducerStep ==
    /\ phase = "sync"
    /\ SyncStep
    /\ UNCHANGED <<chainVars, passVars, batches, stops>>

ConsumerStep ==
    /\ \/ IndexSafeHeight
       \/ IndexBatch /\ UNCHANGED <<passVars, syncVars>>
       \/ RaiseToTip
       \/ IndexRemaining
    /\ UNCHANGED <<chainVars, stops>>

EndStep == EndPass /\ UNCHANGED chainVars

StopStep == Stop /\ UNCHANGED chainVars

ChainStep ==
    /\ \/ phase \in MinePhases /\ Mine
       \/ phase \in ReorgPhases /\ Reorg
    /\ UNCHANGED <<storeVars, passVars, syncVars, batches, stops>>

Next ==
    \/ ReconcileStep
    \/ ProducerStep
    \/ ConsumerStep
    \/ EndStep
    \/ StopStep
    \/ ChainStep

Spec == Init /\ [][Next]_vars

-----------------------------------------------------------------------------
(* Properties. *)

\* A pass has verified the stored chain and works on it.
Reconciled == phase \in {"setAnchor", "sync", "final", "last"}

CanonicalEvents == UNION {Logs(c) : c \in Contracts}

\* The canonical events in their contract's range at or below a height.
Due(height) ==
    {e \in CanonicalEvents : InRange(e.contract, e.height) /\ e.height <= height}

\* Once reconcileWithCanonicalChain returns, no stored event or block is
\* orphaned: the rewind went back to a common ancestor and nothing stored
\* since comes from another fork.
StoredIsCanonical ==
    Reconciled =>
        /\ events \subseteq CanonicalEvents
        /\ \A h \in Heights : blocks[h] # None => blocks[h] = CanonicalHash(h)

\* sync_progress.syncedBlockHeight: every event of the contract at or below
\* this height (and the cap, which an endBlock may exceed) is stored, whatever
\* pages, catch-ups and restarts led to it.
SyncedMeansStored ==
    Reconciled =>
        \A c \in Contracts : progress[c] # None =>
            Logs(c) \cap Due(MinOf(progress[c].synced, IndexingCap)) \subseteq events

\* Once the sync ended, every event up to the tip of the pass is stored: each
\* contract read its newest logs after the tip was read.
StoredThroughTip ==
    phase \in {"final", "last"} /\ tip # None => Due(tip.height) \subseteq events

\* A safe height on the queue still holds when it is consumed: every event up
\* to it and the cap is stored, for finished contracts too.
OfferedHeightsAreStored ==
    \A i \in DOMAIN queue : Due(MinOf(queue[i], IndexingCap)) \subseteq events

\* The handlers ran for exactly the canonical events up to the checkpoint: the
\* checkpoint never passes an event that is stored only later, and none
\* handled on an orphaned fork stands.
HandledThroughCheckpoint == Reconciled => handled = Due(CheckpointHeight)

\* The rows waiting to be indexed were not handled yet: between two rewinds a
\* handler runs at most once for an event.
NothingHandledTwice == batches # None => batches.rows \cap handled = {}

\* What was handled at or below the finalized block stays canonical, in every
\* phase, as long as no reorg is deeper than the finality.
FinalizedStands ==
    \A e \in handled : e.height <= FinalizedHeight => e \in Logs(e.contract)

\* The finalized marker is never ahead of the checkpoint, so a rewind to it
\* never skips an event that was not indexed.
FinalizedBelowCheckpoint == FinalizedHeight <= CheckpointHeight

\* A reorg no deeper than the finality never fails a run with a ReorgError.
NoReorgError == phase # "reorgError"

\* No rewind, batch or restart moves the finalized marker back.
FinalizedMonotone == [][FinalizedHeight' >= FinalizedHeight]_vars

\* No rewind discards handler work at or below the finalized block.
FinalNeverReplayed ==
    [][{e \in handled : e.height <= FinalizedHeight} \subseteq handled']_vars

\* Every step of a pass is a step of the projection promised to the handlers,
\* or leaves it alone.
Promised ==
    INSTANCE Projection WITH height <- CheckpointHeight, finalized <- FinalizedHeight

ImplementsProjection == Promised!Spec

-----------------------------------------------------------------------------
(* Why the finalized block is safe: the inductive invariants behind         *)
(* FinalizedBelowCheckpoint, FinalizedMonotone and FinalNeverReplayed.      *)

\* A page the producer holds answers for blocks that were mined.
PageBelowPeak(page) ==
    /\ page.cursor # None => page.cursor.height <= peak
    /\ page.next # None => page.next.height <= peak

\* A contract's cursor and pages are at or below the highest tip, and so is
\* what it is synced to between two pages. Where it is not, before its start
\* block or behind a saved height the chain lost, it reads no page or is done.
StateBelowPeak(c, s) ==
    /\ s.mode = "start" => s = FreshState(c)
    /\ s.mode = "walk" => s.cursor = None
    /\ s.mode \in {"walk", "fetched", "stored"} => ~s.done
    /\ s.cursor # None => s.cursor.height <= peak
    /\ \A i \in 1..Len(s.pages) : PageBelowPeak(s.pages[i])
    /\ \/ s.mode \in {"fetched", "stored"}
       \/ s.mode = "ready" /\ ~s.done
       \/ s.mode = "walk" /\ s.pages # <<>>
       => s.synced <= peak

RowBelowPeak(row) ==
    row # None /\ row.cursor # None => row.synced <= peak /\ row.cursor.height <= peak

\* Whatever the tip request answered, a pass reads and offers nothing above the
\* highest tip there was; and it handles one page at a time.
PeakInv ==
    /\ \A e \in events : e.height <= peak
    /\ tip # None => tip.height <= peak
    /\ \A i \in DOMAIN queue : queue[i] <= peak
    /\ \A c \in Contracts : StateBelowPeak(c, sync[c]) /\ RowBelowPeak(progress[c])
    /\ \A c, d \in Contracts :
         sync[c].mode \in {"fetched", "stored"} /\ d # c => sync[d].mode = "ready"

\* No reorg is deeper than the finality.
ReorgsAreShallow == MaxDepth <= Finality

\* A height that was Finality blocks deep.
Deep(h) == h = 0 \/ h + Finality <= peak

\* What a pass may finalize: deep, and not above the tip it works to.
MayBeFinal(h) == Deep(h) /\ (tip # None => h <= tip.height)

\* What a pass may confirm: it was mined, and is not above that tip.
MayBeConfirmed(h) == h <= peak /\ (tip # None => h <= tip.height)

FinalityInv ==
    /\ top = peak \/ peak - MaxDepth < top
    /\ MayBeFinal(FinalizedHeight)
    /\ FinalizedHeight <= CheckpointHeight
    /\ anchor # None => FinalizedHeight <= anchor.height
    /\ phase \in {"sync", "final", "last"} => anchor \in {tip, None}
    /\ phase = "search" => /\ \A h \in probing : FinalizedHeight <= h
                           /\ ancestor # None => FinalizedHeight <= ancestor
    /\ batches # None =>
         /\ phase \in {"sync", "last"}
         /\ \A e \in batches.rows : CheckpointHeight < e.height
         /\ MayBeConfirmed(batches.threshold + Finality)
         /\ batches.finalized \in FinalizedHeight..CheckpointHeight
         /\ MayBeFinal(batches.finalized)

=============================================================================

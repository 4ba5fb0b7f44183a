---------------------------- MODULE Completeness ----------------------------
(***************************************************************************)
(* Why nothing wrong is kept, and why nothing is missed: the inductive     *)
(* invariants behind the properties of Indexer about stored and handled    *)
(* events.                                                                 *)
(*                                                                         *)
(* SoundInv, wherever passes stop: between two passes the stored data is   *)
(* canonical up to a common height of the stored and the canonical chain,  *)
(* and whatever is stored above it cannot be taken for canonical; from the *)
(* rewind of a pass on everything stored is canonical.                     *)
(*                                                                         *)
(* StoredInv, of passes that run to their end: the data is complete up to  *)
(* that height as well, and while a pass syncs every contract accounts for *)
(* each of its logs: stored, in a page it holds, or below a page or a      *)
(* cursor it has still to read.                                            *)
(***************************************************************************)
EXTENDS Indexer

\* The chain moves between passes only, and only grows.
Quiet == MinePhases \subseteq {"idle"} /\ ReorgPhases = {}

\* Reorgs come between passes, and every tip is read with its hash.
ReorgsBetweenPasses ==
    /\ ReorgPhases \subseteq {"idle"}
    /\ TipReads \subseteq {"full"}

\* Nothing is missed when reorgs come between passes, every tip is read with
\* its hash, first-event discovery sees every log, and no pass that syncs stops
\* short unless the chain is quiet.
NothingInTheWay ==
    /\ ReorgsBetweenPasses
    /\ Hidden = {}
    /\ "sync" \in StopPhases => Quiet

\* The logs of a contract in its block range, those at or below a height and
\* those at or below a cursor.
Wanted(c) == {e \in Logs(c) : InRange(c, e.height)}
DueOf(c, height) == {e \in Wanted(c) : e.height <= height}
UpTo(c, cursor) == {e \in Wanted(c) : AtOrBelow(e, cursor)}

-----------------------------------------------------------------------------
(* The chain and the store, in every phase. *)

\* Forks follow one another up the chain.
ForksRise ==
    /\ \A h \in 1..top : chain[h].fork <= forks
    /\ \A g, h \in 1..top : g <= h => chain[g].fork <= chain[h].fork

\* Before the first anchor nothing is stored; the finalized block, the
\* checkpoint's block and the block of every event are stored.
StoreInv ==
    /\ anchor = None => StoreInit
    /\ anchor # None => /\ CheckpointHeight <= anchor.height
                        /\ anchor.hash <= forks
                        /\ anchor.height > top => anchor.hash < forks
    /\ FinalizedHeight <= CheckpointHeight
    /\ FinalizedHeight > 0 => blocks[FinalizedHeight] # None
    /\ CheckpointHeight > 0 => blocks[CheckpointHeight] # None
    /\ \A e \in events : blocks[e.height] # None
    /\ \A h \in Heights : blocks[h] # None => blocks[h] <= forks

\* The tip of a pass is canonical; reorgs come between passes.
PassInv ==
    /\ ReorgsAreShallow => phase # "reorgError"
    /\ phase # "idle" =>
         /\ tip # None
         /\ tip.height <= top
         /\ tip.hash = chain[tip.height].fork
    /\ phase \in {"sync", "final", "last"} => anchor = tip
    /\ phase \notin {"sync", "final", "last"} =>
         /\ sync = [c \in Contracts |-> FreshState(c)]
         /\ queue = <<>>
         /\ batches = None

-----------------------------------------------------------------------------
(* What is stored is right. *)

\* Between passes, and until the rewind of the next one.
Unverified == {"idle", "plan", "trusted", "reconcile", "search", "reorgError"}

\* Up to m what is stored and handled is canonical.
SoundUpTo(m) ==
    /\ \A e \in events : e.height <= m => e \in Logs(e.contract)
    /\ \A h \in Heights : h <= m /\ blocks[h] # None => blocks[h] = chain[h].fork
    /\ \A e \in handled : e.height <= m => e \in Due(CheckpointHeight)
    /\ \A e \in handled : e.height <= CheckpointHeight

\* A block older than every canonical block above m, those still to come too.
Outdated(fork, m) == fork < forks /\ \A g \in (m + 1)..top : fork < chain[g].fork

\* Whatever is stored above m is outdated: it cannot be taken for canonical.
DifferAbove(m) ==
    /\ \A h \in Heights : h > m /\ blocks[h] # None => Outdated(blocks[h], m)
    /\ anchor # None /\ anchor.height > m => Outdated(anchor.hash, m)

\* The binary search looks at stored blocks from the finalized one on, keeps
\* the highest canonical one, and has still to look at those above it.
SearchInv(m) ==
    /\ anchor # None
    /\ \A h \in probing :
         /\ FinalizedHeight <= h
         /\ h <= anchor.height
         /\ blocks[h] # None
         /\ ancestor # None => ancestor < h
    /\ ancestor # None => /\ FinalizedHeight <= ancestor
                          /\ ancestor <= MinOf(anchor.height, m)
                          /\ blocks[ancestor] # None
    /\ \A h \in FinalizedHeight..MinOf(anchor.height, m) :
         h > 0 /\ blocks[h] # None /\ (ancestor # None => ancestor < h) => h \in probing

\* What the pass will keep is not above its tip.
KeptBelowTip(m) == phase # "idle" /\ anchor # None => MinOf(anchor.height, m) <= tip.height

SoundHeight(m) ==
    /\ SoundUpTo(m)
    /\ DifferAbove(m)
    /\ KeptBelowTip(m)
    /\ ReorgsAreShallow => FinalizedHeight <= m
    /\ phase = "search" => SearchInv(m)

\* From the rewind on everything stored and handled is canonical.
SoundStore ==
    /\ events \subseteq CanonicalEvents
    /\ \A h \in Heights : blocks[h] # None => blocks[h] = CanonicalHash(h)
    /\ handled \subseteq Due(CheckpointHeight)
    /\ CheckpointHeight <= tip.height

\* A call of the consumer indexes stored rows above the checkpoint.
SoundBatches ==
    /\ phase \in {"sync", "last"}
    /\ \A e \in batches.rows :
         e \in events /\ CheckpointHeight < e.height /\ e.height <= tip.height
    /\ batches.finalized \in FinalizedHeight..CheckpointHeight
    /\ batches.finalized > 0 => blocks[batches.finalized] # None

SoundInv ==
    /\ ForksRise
    /\ StoreInv
    /\ PassInv
    /\ phase \in Unverified => \E m \in 0..top : SoundHeight(m)
    /\ phase \notin Unverified => SoundStore
    /\ batches # None => SoundBatches

-----------------------------------------------------------------------------
(* What is stored is complete, between passes. *)

\* Reading on from a cursor misses nothing: what is at or below it is stored or
\* on the page the API answers for it.
Resumable(c, cursor) == UpTo(c, cursor) \subseteq LogsPage(c, cursor).results \cup events

\* Passes may stop while they sync, on a quiet chain.
Resuming == Quiet /\ "sync" \in StopPhases

\* There every pass works to the top of the chain, on what the last one left.
ResumeInv ==
    Resuming =>
        /\ phase # "search"
        /\ phase # "idle" => tip.height = top
        /\ anchor # None => /\ anchor.height <= top
                            /\ anchor.hash = chain[anchor.height].fork

\* A saved cursor is one the contract is reading at; on a quiet chain it may
\* also come from a pass that stopped.
SavedCursors ==
    \A c \in Contracts : progress[c] # None /\ progress[c].cursor # None =>
        IF Resuming
        THEN /\ anchor # None
             /\ progress[c].cursor.height <= anchor.height
             /\ Resumable(c, progress[c].cursor)
        ELSE /\ phase = "sync"
             /\ sync[c].mode # "start"
             /\ ~sync[c].done
             /\ sync[c].cursor # None

\* Up to m the stored and the canonical chain agree.
AgreeUpTo(m) ==
    /\ \A e \in events : e.height <= m => e \in Logs(e.contract)
    /\ \A h \in Heights : h <= m /\ blocks[h] # None => blocks[h] = chain[h].fork
    /\ {e \in handled : e.height <= m} = Due(MinOf(CheckpointHeight, m))
    /\ \A e \in handled : e.height <= CheckpointHeight
    /\ \A c \in Contracts : progress[c] # None =>
         DueOf(c, MinOf(progress[c].synced, MinOf(anchor.height, m))) \subseteq events

CommonHeight(m) ==
    /\ AgreeUpTo(m)
    /\ DifferAbove(m)
    /\ KeptBelowTip(m)
    /\ ReorgsAreShallow => FinalizedHeight <= m
    /\ phase = "search" => SearchInv(m)

-----------------------------------------------------------------------------
(* From the rewind on. *)

Canonical ==
    /\ events \subseteq CanonicalEvents
    /\ \A h \in Heights : blocks[h] # None => blocks[h] = CanonicalHash(h)
    /\ handled = Due(CheckpointHeight)
    /\ CheckpointHeight <= tip.height

\* The saved progress of a contract holds, up to the tip of the pass.
ProgressHolds ==
    \A c \in Contracts : progress[c] # None =>
        DueOf(c, MinOf(progress[c].synced, tip.height)) \subseteq events

ProgressBelowTip ==
    \A c \in Contracts : progress[c] # None => progress[c].synced <= tip.height

\* The page after this one continues it.
NextFits(c, cursor, next) == next # None =>
    /\ next.height <= top
    /\ UpTo(c, next) \subseteq UpTo(c, cursor) \cup LogsPage(c, next).results

\* Forward: the logs up to the cursor are stored or on the page at hand.
Forward(c, s) ==
    /\ s.cursor.height <= top
    /\ s.walk = None
    /\ s.mode \in {"ready", "fetched", "stored"}
    /\ s.mode = "ready" => s.pages = <<>> /\ Resumable(c, s.cursor)
    /\ s.mode = "fetched" => /\ s.pages[1].results \subseteq Logs(c)
                             /\ UpTo(c, s.cursor) \subseteq s.pages[1].results \cup events
                             /\ NextFits(c, s.cursor, s.pages[1].next)
    /\ s.mode = "stored" => /\ UpTo(c, s.cursor) \subseteq events
                            /\ NextFits(c, s.cursor, s.pages[1].next)

\* A page of a walk leaves out only what the page before it accounts for.
PagesFit(c, pages) ==
    \A i \in 1..Len(pages) :
        /\ pages[i].cursor # None
        /\ pages[i].cursor.height <= top
        /\ pages[i].results \subseteq Logs(c)
        /\ i > 1 => UpTo(c, pages[i].cursor) \subseteq
                      pages[i].results \cup UpTo(c, pages[i - 1].cursor)

\* Backward: the oldest page held leaves out only what is stored or has still
\* to be walked; the newest one reaches the tip.
Backward(c, s) ==
    /\ s.mode # "fetched"
    /\ s.mode # "walk" => s.walk = None
    /\ s.mode = "walk" => (s.walk = None <=> s.pages = <<>>)
    /\ s.walk # None => s.walk.height <= top
    /\ PagesFit(c, s.pages)
    /\ s.pages # <<>> =>
         /\ DueOf(c, tip.height) \subseteq UpTo(c, s.pages[Len(s.pages)].cursor)
         /\ s.mode = "walk" =>
              UpTo(c, s.pages[1].cursor) \subseteq s.pages[1].results \cup UpTo(c, s.walk)
         /\ s.mode = "ready" =>
              UpTo(c, s.pages[1].cursor) \subseteq s.pages[1].results \cup events
         /\ s.mode = "stored" => UpTo(c, s.pages[1].cursor) \subseteq events

\* A contract still syncing: it is complete up to its synced height.
Working(c, s) ==
    /\ DueOf(c, s.synced) \subseteq events
    /\ s.synced <= MaxOf(top, StartBlock[c] - 1)
    /\ s.cursor # None => Forward(c, s)
    /\ s.cursor = None => Backward(c, s)

\* A contract of the producer: not initialized yet, still syncing, or done,
\* which means that its logs up to the tip are stored.
ContractInv(c, s) ==
    /\ s.mode = "start" => /\ s = FreshState(c)
                           /\ progress[c] # None => progress[c].synced <= tip.height
    /\ s.done => DueOf(c, tip.height) \subseteq events
    /\ s.mode \in {"walk", "fetched", "stored"} => ~s.done
    /\ ~s.done => Working(c, s)

\* Every event of every contract up to a height is stored.
StoredThrough(height) == \A c \in Contracts : DueOf(c, height) \subseteq events

\* A call of the consumer holds every row it has still to index.
BatchesInv ==
    /\ phase \in {"sync", "last"}
    /\ \E to \in 0..tip.height :
         /\ StoredThrough(to)
         /\ \A e \in batches.rows :
              e \in events /\ CheckpointHeight < e.height /\ e.height <= to
         /\ \A c \in Contracts : \A e \in DueOf(c, to) :
              CheckpointHeight < e.height => e \in batches.rows
    /\ batches.finalized \in FinalizedHeight..CheckpointHeight
    /\ batches.finalized > 0 => blocks[batches.finalized] # None

SyncingInv ==
    /\ phase = "sync" =>
         /\ \A c \in Contracts : ContractInv(c, sync[c])
         /\ \A i \in DOMAIN queue : StoredThrough(MinOf(queue[i], tip.height))
    /\ phase \in {"final", "last"} => queue = <<>> /\ StoredThrough(tip.height)
    /\ batches # None => BatchesInv

StoredInv ==
    /\ ForksRise
    /\ StoreInv
    /\ SavedCursors
    /\ PassInv
    /\ ResumeInv
    /\ phase \in Unverified => \E m \in 0..top : CommonHeight(m)
    /\ phase \notin Unverified => Canonical /\ ProgressHolds
    /\ phase = "setAnchor" => ProgressBelowTip
    /\ phase \in {"sync", "final", "last"} => SyncingInv

=============================================================================

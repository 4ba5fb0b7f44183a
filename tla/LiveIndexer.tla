---------------------------- MODULE LiveIndexer ----------------------------
(***************************************************************************)
(* Live indexing (runtime/realtime.ts, sync-realtime/block.ts): after a    *)
(* historical pass, every new head of the chain starts a pass of its own.  *)
(* The head is the tip of that pass.  Its blocks are fetched one by one    *)
(* when they link it to the anchor and that costs fewer requests;          *)
(* otherwise the pass is the one of Indexer, without the anchor's check    *)
(* when the head proves the anchor canonical.                              *)
(***************************************************************************)
EXTENDS Indexer

CONSTANTS
    MaxBlocksPerFetch,  \* MAX_BLOCKS_PER_FETCH: one page of blocks
    HeadLag,            \* how far behind the tip an emitted head may be
    StaleHeads          \* whether a reorg may happen while a head waits

ASSUME LiveAssumption ==
    /\ MaxBlocksPerFetch \in Nat
    /\ HeadLag \in Nat
    /\ StaleHeads \in BOOLEAN

VARIABLES
    following,  \* runLive follows heads: its historical pass is over
    offered,    \* the newest head not processed yet (a sliding buffer of one)
    lastHead,   \* the last head emitted
    linked      \* the blocks a pass still has to fetch one by one, none in a
                \* pass that fetches contract pages

liveVars == <<following, offered, lastHead, linked>>

LightBlock == [height: Heights, hash: Forks, parent: Forks \cup {None}]

ASSUME LightBlockAssumption == None \notin LightBlock

LiveTypeOK ==
    /\ TypeOK
    /\ following \in BOOLEAN
    /\ offered \in LightBlock \cup {None}
    /\ lastHead \in LightBlock \cup {None}
    /\ linked \subseteq LightBlock

LiveInit ==
    /\ Init
    /\ following = FALSE
    /\ offered = None
    /\ lastHead = None
    /\ linked = {}

-----------------------------------------------------------------------------
(* Heads and plans. *)

LightBlockAt(h) ==
    [height |-> h, hash |-> chain[h].fork, parent |-> CanonicalHash(h - 1)]

\* A new head replaces the one still waiting; the last one is not repeated.
EmitHead ==
    /\ following
    /\ \E h \in 1..top :
         /\ h >= top - HeadLag
         /\ LightBlockAt(h) # lastHead
         /\ offered' = LightBlockAt(h)
         /\ lastHead' = LightBlockAt(h)
    /\ UNCHANGED <<following, linked>>

\* Mutant of Skipped: an older head is processed.
SkippedIfAnchor(head) ==
    anchor # None /\ head.height = anchor.height /\ head.hash = anchor.hash

\* Mutant of Skipped: a head that replaced the anchor is skipped.
SkippedAtAnchor(head) == anchor # None /\ head.height <= anchor.height

\* The head is the anchor already, or older than it.
Skipped(head) ==
    /\ anchor # None
    /\ \/ head.height = anchor.height /\ head.hash = anchor.hash
       \/ head.height < anchor.height

SkipHead ==
    /\ Skipped(offered)
    /\ UNCHANGED <<passVars, linked>>

\* getSyncingContracts: the contracts whose end block is not below a height.
SyncingAt(height) == {c \in Contracts : HasEnd(c) => EndBlock[c] >= height}

\* Syncing by block is worth a look: the head is above the anchor, within one
\* page of blocks, and the fewest requests it takes are fewer than one page
\* per contract.
BlocksConsidered(head) ==
    /\ anchor # None
    /\ head.height > anchor.height
    /\ LET gap == head.height - anchor.height
       IN  /\ gap <= MaxBlocksPerFetch
           /\ (IF gap = 1 THEN 1 ELSE gap + 1) < Cardinality(SyncingAt(anchor.height + 1))

\* Mutant of BuildsOnAnchor: the parent is not compared.
IsOneAboveAnchor(head) == anchor # None /\ head.height = anchor.height + 1

\* The head builds on the anchor, which is then canonical.
BuildsOnAnchor(head) ==
    anchor # None /\ head.height = anchor.height + 1 /\ head.parent = anchor.hash

\* Every syncing contract is synced through the anchor.
SyncedThroughAnchor ==
    \A c \in SyncingAt(anchor.height + 1) :
        /\ progress[c] # None
        /\ progress[c].cursor = None
        /\ progress[c].synced >= anchor.height

\* The fewest requests that fetch the blocks: one for each block and one for
\* each of its transactions, which are at least those of the logs.
FewestRequests(bs) ==
    Cardinality(bs) +
    Cardinality({e \in CanonicalEvents :
                   \E b \in bs : b.height = e.height /\ b.hash = e.fork})

\* The blocks link the head to the anchor. They are fetched one by one if the
\* contracts are synced and the transactions are few, contract by contract
\* otherwise; only the transactions with logs are known here.
PlanLinked(bs) ==
    /\ phase' = "trusted"
    /\ \/ linked' = {}
       \/ /\ SyncedThroughAnchor
          /\ FewestRequests(bs) < Cardinality(SyncingAt(anchor.height + 1))
          /\ linked' = bs

\* planFetch, up to its request for the blocks page.
StartPass(head) ==
    /\ ~Skipped(head)
    /\ tip' = [height |-> head.height, hash |-> head.hash]
    /\ UNCHANGED <<probing, ancestor>>
    /\ \/ /\ ~BuildsOnAnchor(head)
          /\ BlocksConsidered(head) => head.height = anchor.height + 1
          /\ phase' = "reconcile"
          /\ linked' = {}
       \/ /\ BuildsOnAnchor(head)
          /\ ~BlocksConsidered(head)
          /\ phase' = "trusted"
          /\ linked' = {}
       \/ /\ BuildsOnAnchor(head)
          /\ BlocksConsidered(head)
          /\ PlanLinked({head})
       \/ /\ BlocksConsidered(head)
          /\ head.height > anchor.height + 1
          /\ phase' = "plan"
          /\ linked' = {}

\* The next head is taken from the buffer.
TakeHead ==
    /\ phase = "idle"
    /\ offered # None
    /\ SkipHead \/ StartPass(offered)
    /\ offered' = None
    /\ UNCHANGED <<storeVars, following, lastHead>>

\* Mutant of PageLinks: the first block's parent is not compared.
PageHoldsHead ==
    /\ CanonicalHash(tip.height) = tip.hash
    /\ anchor.height >= top - MaxBlocksPerFetch

\* getLinkedBlocks: the page of the newest blocks holds a chain from the
\* anchor to the head.
PageLinks ==
    /\ CanonicalHash(anchor.height) = anchor.hash
    /\ CanonicalHash(tip.height) = tip.hash
    /\ anchor.height >= top - MaxBlocksPerFetch

\* Mutant of ListBlocks: the block next to the anchor is left out.
ListBlocksPastNext ==
    /\ phase = "plan"
    /\ \/ /\ PageLinks
          /\ PlanLinked({LightBlockAt(h) : h \in (anchor.height + 2)..tip.height})
       \/ /\ ~PageLinks
          /\ phase' = "reconcile"
          /\ linked' = {}
    /\ UNCHANGED <<storeVars, tip, probing, ancestor, following, offered, lastHead>>

\* Once the blocks page is read, the plan is made.
ListBlocks ==
    /\ phase = "plan"
    /\ \/ /\ PageLinks
          /\ PlanLinked({LightBlockAt(h) : h \in (anchor.height + 1)..tip.height})
       \/ /\ ~PageLinks
          /\ phase' = "reconcile"
          /\ linked' = {}
    /\ UNCHANGED <<storeVars, tip, probing, ancestor, following, offered, lastHead>>

\* reconcileWithCanonicalChain with anchorIsCanonical: no request.
AnchorTrusted ==
    /\ phase = "trusted"
    /\ RewindTo(anchor.height)
    /\ phase' = "setAnchor"
    /\ UNCHANGED <<tip, probing, ancestor, liveVars>>

-----------------------------------------------------------------------------
(* A pass by block: syncBlocksAndIndexTo. *)

IsNextBlock(b) == b \in linked /\ \A a \in linked : b.height <= a.height

\* The API answers for canonical blocks only.
Gone(b) == CanonicalHash(b.height) # b.hash

\* Mutant of SyncBlock: a last block without logs ends the pass.
SyncBlockIndexingItsLogs ==
    /\ phase = "sync"
    /\ linked # {}
    /\ \E b \in linked :
         /\ IsNextBlock(b)
         /\ ~Gone(b)
         /\ InsertEvents({e \in Due(b.height) : e.height = b.height})
         /\ RaiseSyncedBlockHeight({c \in Contracts : InRange(c, b.height)}, b.height)
         /\ linked' = linked \ {b}
         /\ phase' = IF linked # {b} THEN "sync"
                     ELSE IF \E e \in Due(b.height) : e.height = b.height
                          THEN "final" ELSE "last"
    /\ UNCHANGED <<tip, probing, ancestor, checkpoint, anchor, handled,
                   following, offered, lastHead>>

\* syncBlock: the block's logs of the contracts it is in range of are stored
\* and these contracts are raised to it, in one transaction. After the last
\* block, what is stored is indexed up to the head.
SyncBlock ==
    /\ phase = "sync"
    /\ linked # {}
    /\ \E b \in linked :
         /\ IsNextBlock(b)
         /\ ~Gone(b)
         /\ InsertEvents({e \in Due(b.height) : e.height = b.height})
         /\ RaiseSyncedBlockHeight({c \in Contracts : InRange(c, b.height)}, b.height)
         /\ linked' = linked \ {b}
         /\ phase' = IF linked = {b} THEN "final" ELSE "sync"
    /\ UNCHANGED <<tip, probing, ancestor, checkpoint, anchor, handled,
                   following, offered, lastHead>>

-----------------------------------------------------------------------------
(* runLive. *)

\* isComplete: every contract reached its end block.
Complete(height) == \A c \in Contracts : HasEnd(c) /\ height >= EndBlock[c]

\* Heads are followed from now on, or no longer: the stream is closed.
Follow(still) ==
    /\ following' = still
    /\ linked' = {}
    /\ IF still THEN UNCHANGED <<offered, lastHead>>
       ELSE offered' = None /\ lastHead' = None

\* The pass ends. A historical pass of `live` that completed starts to follow
\* the chain. A head's pass is followed by the next head, after a transient
\* failure too unless the failure budget is spent.
LiveEnd ==
    /\ EndPass
    /\ \/ /\ following
          /\ \/ phase = "last" /\ Follow(~Complete(tip.height))
             \/ phase = "reorgError" /\ Follow(FALSE)
             \/ phase = "sync" /\ \E still \in BOOLEAN : Follow(still)
       \/ ~following /\ Follow(FALSE)
       \/ /\ ~following
          /\ phase = "last"
          /\ ~(anchor # None /\ Complete(anchor.height))
          /\ Follow(TRUE)

\* A block to fetch was orphaned: a transient failure.
BlockGone ==
    /\ phase = "sync"
    /\ linked # {}
    /\ \E b \in linked : IsNextBlock(b) /\ Gone(b)
    /\ Reset
    /\ UNCHANGED stops
    /\ \E still \in BOOLEAN : Follow(still)

\* A pass stops short, on a failure that is retried with the next head or on
\* one that is not.
LiveStop == Stop /\ \E still \in {following, FALSE} : Follow(still)

\* `live` is interrupted while it waits for a head.
Interrupt ==
    /\ following
    /\ phase = "idle"
    /\ Follow(FALSE)
    /\ UNCHANGED <<storeVars, passVars>>

-----------------------------------------------------------------------------

HeadStep ==
    /\ \/ EmitHead /\ UNCHANGED <<storeVars, passVars>>
       \/ TakeHead
       \/ ListBlocks
       \/ AnchorTrusted
       \/ SyncBlock
    /\ UNCHANGED <<chainVars, syncVars, batches, stops>>

PassStep ==
    /\ \/ ReconcileStep /\ (phase = "idle" => ~following)
       \/ ProducerStep /\ linked = {}
       \/ ConsumerStep
    /\ UNCHANGED liveVars

EndLiveStep == (LiveEnd \/ BlockGone) /\ UNCHANGED chainVars

StopLiveStep ==
    /\ \/ LiveStop
       \/ Interrupt /\ UNCHANGED <<syncVars, batches, stops>>
    /\ UNCHANGED chainVars

LiveChainStep ==
    /\ ChainStep
    /\ forks' = forks \/ offered = None \/ StaleHeads
    /\ UNCHANGED liveVars

LiveNext == HeadStep \/ PassStep \/ EndLiveStep \/ StopLiveStep \/ LiveChainStep

LiveSpec == LiveInit /\ [][LiveNext]_<<vars, liveVars>>

\* The fibers of a pass are scheduled, requests and transactions return, and a
\* pass that ended is followed by another: a run, or the pass of the next
\* head. Blocks keep being mined: a head below the anchor is skipped until the
\* chain outgrows it. Nothing is asked of stops and interrupts.
FairLiveSpec ==
    /\ LiveSpec
    /\ WF_<<vars, liveVars>>(HeadStep)
    /\ WF_<<vars, liveVars>>(PassStep)
    /\ WF_<<vars, liveVars>>(EndLiveStep)
    /\ WF_<<vars, liveVars>>(LiveChainStep /\ top' > top)

-----------------------------------------------------------------------------
(* Properties. *)

\* A pass that completed handled every event up to its tip: following heads
\* indexes what historical passes would have, whatever way each head was
\* fetched.
TipIsHandled == phase = "last" /\ batches = None /\ tip # None => handled = Due(tip.height)

\* Blocks are fetched one by one only on top of a complete range: every event
\* below the next block is stored.
StoredBelowNextBlock ==
    phase = "sync" /\ linked # {} =>
        \E b \in linked : IsNextBlock(b) /\ Due(b.height - 1) \subseteq events

\* realtime.ts:281-283: a lagging head, a trusted anchor or a restart never
\* makes a handler see again an event whose block is still canonical.
CanonicalNeverReplayed ==
    [][handled \cap CanonicalEvents \subseteq handled']_<<vars, liveVars>>

\* Every event in range is eventually handled, the ones mined while a pass ran
\* by a later pass, of a run or of a head.
EventuallyCaughtUp == <>[](handled = Due(top))

=============================================================================

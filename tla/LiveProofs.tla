----------------------------- MODULE LiveProofs -----------------------------
(***************************************************************************)
(* Live indexing, for every value of its constants.  A pass of a head is a *)
(* pass of Indexer with two shortcuts, the trusted anchor and the blocks   *)
(* fetched one by one, and with a tip that may lag: the results about      *)
(* Indexer hold of it too.                                                 *)
(***************************************************************************)
EXTENDS CompletenessProofs, LiveIndexer

-----------------------------------------------------------------------------
(* A step of live indexing is a step of Indexer, or one of the steps that   *)
(* plan a head's pass and fetch its blocks.                                 *)

PlanStep ==
    \/ phase = "idle" /\ offered # None /\ StartPass(offered) /\ UNCHANGED storeVars
    \/ ListBlocks

LiveOnlyStep ==
    /\ PlanStep \/ AnchorTrusted \/ SyncBlock \/ BlockGone
    /\ UNCHANGED <<chainVars, stops>>
    /\ ~BlockGone => UNCHANGED <<syncVars, batches>>

LEMMA LiveSteps ==
    ASSUME [LiveNext]_<<vars, liveVars>>
    PROVE  [Next]_vars \/ LiveOnlyStep
<1>1. CASE HeadStep
    <2>1. UNCHANGED <<chainVars, syncVars, batches, stops>>
        BY <1>1 DEF HeadStep
    <2>2. CASE EmitHead /\ UNCHANGED <<storeVars, passVars>>
        BY <2>1, <2>2 DEF vars
    <2>3. CASE TakeHead
        <3>1. SkipHead => UNCHANGED vars
            BY <2>1, <2>3 DEF TakeHead, SkipHead, vars
        <3> QED BY <2>1, <2>3, <3>1 DEF TakeHead, PlanStep, LiveOnlyStep
    <2>4. CASE ListBlocks \/ AnchorTrusted \/ SyncBlock
        BY <2>1, <2>4 DEF PlanStep, LiveOnlyStep
    <2> QED BY <1>1, <2>2, <2>3, <2>4 DEF HeadStep
<1>2. CASE PassStep
    BY <1>2 DEF PassStep, Next
<1>3. CASE EndLiveStep
    BY <1>3 DEF EndLiveStep, LiveEnd, EndStep, Next, LiveOnlyStep, BlockGone
<1>4. CASE StopLiveStep
    BY <1>4 DEF StopLiveStep, LiveStop, StopStep, Interrupt, Next, vars
<1>5. CASE LiveChainStep
    BY <1>5 DEF LiveChainStep, Next
<1>6. CASE UNCHANGED <<vars, liveVars>>
    BY <1>6
<1> QED BY <1>1, <1>2, <1>3, <1>4, <1>5, <1>6 DEF LiveNext

-----------------------------------------------------------------------------
(* Types. *)

\* A head's pass that may skip the anchor's check has an anchor, and its tip
\* is a block of its own.
LiveTypeInv ==
    /\ LiveTypeOK
    /\ PagesHeld
    /\ phase \in {"plan", "trusted"} => anchor # None /\ tip # None /\ tip.hash # None

LEMMA LiveTyped ==
    ASSUME LiveTypeInv
    PROVE  /\ TypeInv
           /\ offered # None => /\ offered \in LightBlock
                                /\ offered.height \in Heights /\ offered.height \in Nat
                                /\ offered.hash \in Forks /\ offered.hash \in Nat
                                /\ offered.hash # None
           /\ \A b \in linked : /\ b \in LightBlock /\ b.height \in Heights /\ b.height \in Nat
                                /\ b.hash \in Nat /\ b.hash # None
<1>1. TypeInv
    BY DEF LiveTypeInv, LiveTypeOK, TypeInv
<1>2. \A b \in LightBlock : /\ b.height \in Heights /\ b.height \in Nat
                            /\ b.hash \in Forks /\ b.hash \in Nat /\ b.hash # None
    BY ChainAssumption, NoneAssumption DEF LightBlock, Heights, Forks
<1> QED BY <1>1, <1>2 DEF LiveTypeInv, LiveTypeOK

LEMMA LightBlockType ==
    ASSUME TypeInv, NEW h \in 1..top
    PROVE  /\ LightBlockAt(h) \in LightBlock
           /\ LightBlockAt(h).height = h /\ LightBlockAt(h).hash = chain[h].fork
<1>1. /\ \A g \in 1..top : g \in Heights /\ chain[g].fork \in Forks
      /\ h \in Nat
    <2>1. \A g \in 1..top : g \in Heights /\ chain[g] # None
        BY Typed DEF ChainTypeOK
    <2> QED BY <2>1, Typed DEF ChainTypeOK, Block
<1>2. CanonicalHash(h - 1) \in Forks \cup {None}
    BY <1>1 DEF CanonicalHash
<1> QED BY <1>1, <1>2 DEF LightBlockAt, LightBlock

\* A page that links the head to the anchor holds canonical blocks.
LEMMA PageIsLinked ==
    ASSUME LiveTypeInv, phase = "plan", PageLinks
    PROVE  /\ tip.height \in 1..top /\ anchor.height \in 1..top
           /\ tip.hash = chain[tip.height].fork /\ anchor.hash = chain[anchor.height].fork
           /\ \A h \in (anchor.height + 1)..tip.height : h \in 1..top
<1>1. /\ anchor # None /\ tip # None /\ tip.hash # None /\ top \in Nat
      /\ anchor.height \in Nat /\ anchor.hash \in Nat /\ tip.height \in Nat
    BY LiveTyped, Typed DEF LiveTypeInv
<1>2. anchor.hash # None
    BY <1>1, NoneAssumption
<1> QED BY <1>1, <1>2 DEF PageLinks, CanonicalHash

\* The plan of a pass takes the head for its tip and reads the chain's blocks.
LEMMA PlanIs ==
    ASSUME LiveTypeInv, PlanStep
    PROVE  /\ UNCHANGED <<storeVars, probing, ancestor>>
           /\ phase \in {"idle", "plan"} /\ phase' \in {"plan", "trusted", "reconcile"}
           /\ phase = "idle" => /\ offered # None /\ ~Skipped(offered)
                                /\ tip' = [height |-> offered.height, hash |-> offered.hash]
           /\ phase = "plan" => tip' = tip
           /\ tip' \in Tip /\ tip' # None /\ tip'.hash # None
           /\ phase' \in {"plan", "trusted"} => anchor # None
<1>1. CASE phase = "idle" /\ offered # None /\ StartPass(offered) /\ UNCHANGED storeVars
    <2>1. tip' \in Tip /\ tip' = [height |-> offered.height, hash |-> offered.hash]
        BY <1>1, LiveTyped DEF StartPass, Tip
    <2>2. tip' # None /\ tip'.hash # None
        BY <1>1, <2>1, TipAssumption, LiveTyped
    <2> QED BY <1>1, <2>1, <2>2 DEF StartPass, PlanLinked, BuildsOnAnchor, BlocksConsidered
<1>2. CASE ListBlocks
    <2>1. anchor # None /\ tip \in Tip /\ tip # None /\ tip.hash # None
        BY <1>2, LiveTyped, Typed DEF ListBlocks, LiveTypeInv
    <2> QED BY <1>2, <2>1 DEF ListBlocks, PlanLinked
<1> QED BY <1>1, <1>2 DEF PlanStep

LEMMA SyncBlockIs ==
    ASSUME LiveTypeInv, SyncBlock
    PROVE  \E b \in linked :
             /\ IsNextBlock(b) /\ ~Gone(b)
             /\ b.height \in 1..top /\ b.hash = chain[b.height].fork
             /\ InsertEvents({e \in Due(b.height) : e.height = b.height})
             /\ {e \in Due(b.height) : e.height = b.height} \subseteq Event
             /\ RaiseSyncedBlockHeight({c \in Contracts : InRange(c, b.height)}, b.height)
             /\ linked' = linked \ {b}
             /\ phase' = IF linked = {b} THEN "final" ELSE "sync"
<1>1. PICK b \in linked :
         /\ IsNextBlock(b)
         /\ ~Gone(b)
         /\ InsertEvents({e \in Due(b.height) : e.height = b.height})
         /\ RaiseSyncedBlockHeight({c \in Contracts : InRange(c, b.height)}, b.height)
         /\ linked' = linked \ {b}
         /\ phase' = IF linked = {b} THEN "final" ELSE "sync"
    BY DEF SyncBlock
<1>2. b.height \in 1..top /\ b.hash = chain[b.height].fork
    BY <1>1, LiveTyped DEF Gone, CanonicalHash
<1>3. \A c \in Contracts : Logs(c) \subseteq Event
    BY LogsAreEvents, LiveTyped, Typed
<1>4. {e \in Due(b.height) : e.height = b.height} \subseteq Event
    BY <1>3 DEF Due, CanonicalEvents
<1> QED BY <1>1, <1>2, <1>4

LEMMA LiveOnlyType ==
    ASSUME LiveTypeInv, LiveOnlyStep
    PROVE  TypeInv'
<1>0. /\ TypeInv /\ ChainTypeOK /\ StoreTypeOK /\ PassTypeOK /\ SyncTypeOK /\ IndexTypeOK
      /\ stops \in 0..MaxStops /\ PagesHeld
    BY LiveTyped DEF TypeInv, TypeOK
<1>c. ChainTypeOK' /\ stops' \in 0..MaxStops
    BY <1>0 DEF LiveOnlyStep, chainVars, ChainTypeOK
<1>s. ~BlockGone => SyncTypeOK' /\ PagesHeld' /\ IndexTypeOK'
    BY <1>0 DEF LiveOnlyStep, syncVars, SyncTypeOK, PagesHeld, HoldsPages, IndexTypeOK
<1>1. CASE PlanStep /\ ~BlockGone
    <2>1. /\ UNCHANGED <<storeVars, probing, ancestor>>
          /\ phase' \in {"plan", "trusted", "reconcile"} /\ tip' \in Tip
        BY <1>1, PlanIs
    <2> QED BY <1>0, <1>c, <1>s, <1>1, <2>1
            DEF TypeInv, TypeOK, storeVars, StoreTypeOK, PassTypeOK, Phases
<1>2. CASE AnchorTrusted /\ ~BlockGone
    <2>1. /\ RewindTo(anchor.height) /\ anchor.height \in Nat
          /\ phase' = "setAnchor" /\ UNCHANGED <<tip, probing, ancestor>>
        BY <1>0, <1>2, Typed DEF AnchorTrusted, LiveTypeInv
    <2>2. StoreTypeOK'
        BY <1>0, <2>1, RewindToType
    <2> QED BY <1>0, <1>c, <1>s, <1>2, <2>1, <2>2 DEF TypeInv, TypeOK, PassTypeOK, Phases
<1>3. CASE SyncBlock /\ ~BlockGone
    <2>1. PICK b \in linked :
             /\ InsertEvents({e \in Due(b.height) : e.height = b.height})
             /\ {e \in Due(b.height) : e.height = b.height} \subseteq Event
             /\ RaiseSyncedBlockHeight({c \in Contracts : InRange(c, b.height)}, b.height)
             /\ phase' = IF linked = {b} THEN "final" ELSE "sync"
        BY <1>3, SyncBlockIs
    <2>2. b.height \in Nat
        BY LiveTyped
    <2>3. progress' \in [Contracts -> Progress \cup {None}]
        BY <1>0, <2>1, <2>2, RaiseType
    <2>4. blocks' \in [Heights -> Forks \cup {None}] /\ events' \subseteq Event
        BY <1>0, <2>1, InsertedType
    <2>5. StoreTypeOK'
        BY <1>0, <1>3, <2>3, <2>4 DEF SyncBlock, StoreTypeOK
    <2> QED BY <1>0, <1>c, <1>s, <1>3, <2>1, <2>5
            DEF SyncBlock, TypeInv, TypeOK, PassTypeOK, Phases
<1>4. CASE BlockGone
    <2>1. Reset
        BY <1>4 DEF BlockGone
    <2> QED BY <1>0, <1>c, <2>1, ResetType DEF TypeInv, TypeOK
<1> QED BY <1>1, <1>2, <1>3, <1>4 DEF LiveOnlyStep

\* What live indexing keeps in memory.
LEMMA LiveVarsType ==
    ASSUME LiveTypeInv, [LiveNext]_<<vars, liveVars>>
    PROVE  /\ following' \in BOOLEAN
           /\ offered' \in LightBlock \cup {None} /\ lastHead' \in LightBlock \cup {None}
           /\ linked' \subseteq LightBlock
<1>0. /\ TypeInv
      /\ following \in BOOLEAN
      /\ offered \in LightBlock \cup {None} /\ lastHead \in LightBlock \cup {None}
      /\ linked \subseteq LightBlock
    BY LiveTyped DEF LiveTypeInv, LiveTypeOK
<1>1. CASE EmitHead
    <2>1. PICK h \in 1..top : offered' = LightBlockAt(h) /\ lastHead' = LightBlockAt(h)
        BY <1>1 DEF EmitHead
    <2> QED BY <1>0, <1>1, <2>1, LightBlockType DEF EmitHead
<1>2. CASE TakeHead
    <2>1. linked' \in {linked, {}, {offered}} /\ offered # None
        BY <1>2 DEF TakeHead, SkipHead, StartPass, PlanLinked
    <2> QED BY <1>0, <1>2, <2>1 DEF TakeHead
<1>3. CASE ListBlocks
    <2>1. linked' = {} \/ /\ phase = "plan" /\ PageLinks
                          /\ linked' = {LightBlockAt(h) : h \in (anchor.height + 1)..tip.height}
        BY <1>3 DEF ListBlocks, PlanLinked
    <2>2. linked' \subseteq LightBlock
        BY <1>0, <2>1, PageIsLinked, LightBlockType
    <2> QED BY <1>0, <1>3, <2>2 DEF ListBlocks
<1>4. CASE AnchorTrusted \/ PassStep \/ LiveChainStep \/ UNCHANGED <<vars, liveVars>>
    BY <1>0, <1>4 DEF AnchorTrusted, PassStep, LiveChainStep, liveVars
<1>5. CASE SyncBlock
    BY <1>0, <1>5 DEF SyncBlock
<1>6. CASE \E still \in BOOLEAN : Follow(still)
    BY <1>0, <1>6 DEF Follow
<1>7. EndLiveStep \/ StopLiveStep => \E still \in BOOLEAN : Follow(still)
    <2>1. Complete(tip.height) \in BOOLEAN
        BY DEF Complete
    <2> QED BY <1>0, <2>1
            DEF EndLiveStep, LiveEnd, BlockGone, StopLiveStep, LiveStop, Interrupt
<1> QED BY <1>1, <1>2, <1>3, <1>4, <1>5, <1>6, <1>7 DEF LiveNext, HeadStep

LEMMA LiveTypeStep ==
    ASSUME LiveTypeInv, [LiveNext]_<<vars, liveVars>>
    PROVE  LiveTypeInv'
<1>0. TypeInv
    BY LiveTyped
<1>1. TypeInv'
    BY <1>0, LiveSteps, TypeInvStep, LiveOnlyType
<1>2. phase' \in {"plan", "trusted"} => anchor' # None /\ tip' # None /\ tip'.hash # None
    <2>1. CASE [Next]_vars
        <3>1. CASE UNCHANGED <<phase, anchor, tip>>
            BY <3>1 DEF LiveTypeInv
        <3>2. CASE phase' \notin {"plan", "trusted"}
            BY <3>2
        <3> QED BY <2>1, <3>1, <3>2
            DEF Next, ReconcileStep, ReadChainTip, NothingToReplay, ReplayUnfinalized,
                AnchorCanonical, AnchorOrphaned, Probe, FailWithReorgError, RewindToAncestor,
                SetSyncAnchor, ProducerStep, ConsumerStep, IndexSafeHeight, IndexBatch,
                RaiseToTip, IndexRemaining, EndStep, EndPass, StopStep, Stop, Reset, ChainStep,
                passVars, storeVars, vars
    <2>2. CASE LiveOnlyStep
        BY <2>2, PlanIs DEF LiveOnlyStep, AnchorTrusted, SyncBlock, BlockGone, Reset, storeVars
    <2> QED BY <2>1, <2>2, LiveSteps
<1>3. LiveTypeOK'
    BY <1>1, LiveVarsType DEF TypeInv, LiveTypeOK
<1> QED BY <1>1, <1>2, <1>3 DEF LiveTypeInv, TypeInv

LEMMA LiveTypeInit == LiveInit => LiveTypeInv
BY TypeInvInit, ChainAssumption
   DEF LiveInit, Init, PassInit, LiveTypeInv, LiveTypeOK, TypeInv

\* Live indexing keeps the types of everything it holds: the heads it waits
\* for, the blocks it fetches one by one, and all that a pass keeps, whatever
\* heads, reorganizations, stops and interrupts it meets.
THEOREM LiveTypeCorrect == LiveSpec => [](LiveTypeOK /\ PagesHeld)
<1>1. LiveTypeInv => LiveTypeOK /\ PagesHeld
    BY DEF LiveTypeInv
<1> QED BY <1>1, LiveTypeInit, LiveTypeStep, PTL DEF LiveSpec

LEMMA LiveTypeAlways == LiveSpec => []LiveTypeInv
BY LiveTypeInit, LiveTypeStep, PTL DEF LiveSpec

-----------------------------------------------------------------------------
(* Fetching block by block leaves the producer and the consumer idle until  *)
(* the last block.                                                          *)

FetchesAlone ==
    /\ phase # "sync" => queue = <<>>
    /\ phase \notin {"sync", "last"} => batches = None
    /\ phase = "sync" /\ linked # {} => queue = <<>> /\ batches = None

LEMMA FetchesStep ==
    ASSUME FetchesAlone, [LiveNext]_<<vars, liveVars>>
    PROVE  FetchesAlone'
<1>1. CASE HeadStep
    <2>1. UNCHANGED <<queue, batches>>
        BY <1>1 DEF HeadStep, syncVars
    <2>2. CASE EmitHead /\ UNCHANGED <<storeVars, passVars>>
        BY <2>1, <2>2 DEF EmitHead, FetchesAlone, passVars
    <2>3. CASE TakeHead
        BY <2>1, <2>3 DEF TakeHead, SkipHead, StartPass, PlanLinked, FetchesAlone, passVars
    <2>4. CASE ListBlocks \/ AnchorTrusted \/ SyncBlock
        <3>1. /\ (phase = "sync" /\ linked # {}) \/ phase \notin {"sync", "last"}
              /\ phase' = "sync" => phase = "sync"
            BY <2>4 DEF ListBlocks, PlanLinked, AnchorTrusted, SyncBlock
        <3> QED BY <2>1, <3>1 DEF FetchesAlone
    <2> QED BY <1>1, <2>2, <2>3, <2>4 DEF HeadStep
<1>2. CASE PassStep
    <2>0. UNCHANGED linked
        BY <1>2 DEF PassStep, liveVars
    <2>1. CASE ReconcileStep
        <3>1. UNCHANGED <<queue, batches>> /\ phase \notin {"sync", "last"}
            BY <2>1 DEF ReconcileStep, ReadChainTip, NothingToReplay, ReplayUnfinalized,
               AnchorCanonical, AnchorOrphaned, Probe, FailWithReorgError, RewindToAncestor,
               SetSyncAnchor, syncVars
        <3> QED BY <3>1 DEF FetchesAlone
    <2>2. CASE ProducerStep /\ linked = {}
        <3>1. UNCHANGED <<phase, batches>> /\ phase = "sync"
            BY <2>2 DEF ProducerStep, passVars
        <3> QED BY <2>0, <2>2, <3>1 DEF FetchesAlone
    <2>3. CASE ConsumerStep
        <3>1. /\ queue = <<>> => queue' = <<>>
              /\ phase' # phase => queue' = <<>>
              /\ phase' # phase /\ phase' # "last" => batches' = None
              /\ phase' # phase => phase' \in {"final", "last"}
              /\ queue = <<>> /\ batches = None => phase' = "last" \/ batches' = None
            BY <2>3 DEF ConsumerStep, IndexSafeHeight, IndexBatch, RaiseToTip, IndexRemaining,
               StreamEnded, FetchesAlone, passVars, syncVars
        <3> QED BY <2>0, <3>1 DEF FetchesAlone
    <2> QED BY <1>2, <2>1, <2>2, <2>3 DEF PassStep
<1>3. CASE EndLiveStep \/ StopLiveStep
    BY <1>3 DEF EndLiveStep, LiveEnd, EndPass, BlockGone, StopLiveStep, LiveStop, Stop,
       Interrupt, Reset, passVars, syncVars, FetchesAlone
<1>4. CASE LiveChainStep \/ UNCHANGED <<vars, liveVars>>
    <2>1. UNCHANGED <<phase, queue, batches, linked>>
        BY <1>4 DEF LiveChainStep, ChainStep, vars, liveVars, passVars, syncVars
    <2> QED BY <2>1 DEF FetchesAlone
<1> QED BY <1>1, <1>2, <1>3, <1>4 DEF LiveNext

LEMMA FetchesInit == LiveInit => FetchesAlone
BY DEF LiveInit, Init, PassInit, SyncInit, IndexInit, FetchesAlone

LEMMA FetchesAlways == LiveSpec => []FetchesAlone
BY FetchesInit, FetchesStep, PTL DEF LiveSpec

-----------------------------------------------------------------------------
(* The finalized marker never moves back. *)

\* Planning and fetching a head's blocks leaves the marker alone.
LEMMA LiveOnlyMarker ==
    ASSUME LiveTypeInv, LiveOnlyStep
    PROVE  FinalizedHeight' = FinalizedHeight
<1>1. CASE UNCHANGED checkpoint
    BY <1>1 DEF FinalizedHeight
<1>2. CASE AnchorTrusted
    <2>1. RewindTo(anchor.height) /\ anchor.height \in Nat /\ TypeInv
        BY <1>2, LiveTyped, Typed DEF AnchorTrusted, LiveTypeInv
    <2> QED BY <2>1, RewindKeepsMarker
<1> QED BY <1>1, <1>2, PlanIs DEF LiveOnlyStep, SyncBlock, BlockGone, Reset, storeVars

LEMMA LiveMarkerStep ==
    ASSUME LiveTypeInv, FetchesAlone, MarkerInv, [LiveNext]_<<vars, liveVars>>
    PROVE  MarkerInv' /\ FinalizedHeight' >= FinalizedHeight
<1>0. TypeInv /\ FinalizedHeight \in Nat
    BY LiveTyped, Typed
<1>1. CASE [Next]_vars
    BY <1>0, <1>1, MarkerStep
<1>2. CASE LiveOnlyStep
    <2>1. FinalizedHeight' = FinalizedHeight
        BY <1>2, LiveOnlyMarker
    <2>2. batches' = None
        <3>1. (phase = "sync" /\ linked # {}) \/ phase \notin {"sync", "last"} \/ BlockGone
            BY <1>2, PlanIs DEF LiveOnlyStep, AnchorTrusted, SyncBlock
        <3> QED BY <1>2, <3>1 DEF LiveOnlyStep, FetchesAlone, BlockGone, Reset
    <2> QED BY <1>0, <2>1, <2>2 DEF MarkerInv
<1> QED BY <1>1, <1>2, LiveSteps

\* No head, trusted anchor, stop or restart moves the finalized marker back,
\* however deep the reorgs and whatever the tip request answers.
THEOREM LiveFinalizedNeverMovesBack == LiveSpec => FinalizedMonotone
<1>1. LiveInit => MarkerInv
    BY MarkerInit DEF LiveInit
<1>2. LiveTypeInv /\ FetchesAlone /\ MarkerInv /\ [LiveNext]_<<vars, liveVars>> =>
        MarkerInv' /\ [FinalizedHeight' >= FinalizedHeight]_vars
    BY LiveMarkerStep
<1> QED BY <1>1, <1>2, LiveTypeAlways, FetchesAlways, PTL DEF LiveSpec, FinalizedMonotone

-----------------------------------------------------------------------------
(* Nothing above the highest tip is read, stored or offered. *)

HeadsBelowPeak == offered # None => offered.height <= peak

\* The highest tip only rises.
LEMMA LivePeakRises ==
    ASSUME LiveTypeInv, [LiveNext]_<<vars, liveVars>>
    PROVE  peak \in Nat /\ peak' \in Nat /\ peak <= peak'
<1>1. peak \in Nat /\ top \in Nat
    BY LiveTyped, Typed DEF ChainTypeOK, Heights
<1>2. UNCHANGED peak \/ Mine \/ Reorg
    BY LiveSteps DEF Next, ReconcileStep, ProducerStep, ConsumerStep, EndStep, StopStep,
       ChainStep, chainVars, vars, LiveOnlyStep
<1> QED BY <1>1, <1>2 DEF Mine, Reorg, MaxOf

LEMMA HeadsPeakStep ==
    ASSUME LiveTypeInv, HeadsBelowPeak, [LiveNext]_<<vars, liveVars>>
    PROVE  HeadsBelowPeak'
<1>0. TypeInv /\ peak \in Nat /\ peak' \in Nat /\ peak <= peak'
    BY LiveTyped, LivePeakRises
<1>1. CASE EmitHead /\ UNCHANGED vars
    <2>1. PICK h \in 1..top : offered' = LightBlockAt(h)
        BY <1>1 DEF EmitHead
    <2>2. top <= peak /\ top \in Nat
        BY <1>0, Typed DEF ChainTypeOK
    <2> QED BY <1>0, <1>1, <2>1, <2>2, LightBlockType DEF HeadsBelowPeak, vars, chainVars
<1>2. CASE offered' \in {offered, None}
    BY <1>0, <1>2, LiveTyped DEF HeadsBelowPeak
<1>3. (EmitHead /\ UNCHANGED vars) \/ offered' \in {offered, None}
    BY DEF LiveNext, HeadStep, TakeHead, ListBlocks, AnchorTrusted, SyncBlock, PassStep,
       EndLiveStep, LiveEnd, BlockGone, StopLiveStep, LiveStop, Interrupt, Follow,
       LiveChainStep, liveVars, vars
<1> QED BY <1>1, <1>2, <1>3

\* A head's pass fetches canonical blocks up to its head.
LEMMA LiveOnlyPeak ==
    ASSUME LiveTypeInv, HeadsBelowPeak, PeakInv, LiveOnlyStep
    PROVE  PeakInv'
<1>0. TypeInv /\ UNCHANGED peak /\ peak \in Nat
    BY LiveTyped, Typed DEF LiveOnlyStep, chainVars, ChainTypeOK, Heights
<1>1. CASE BlockGone
    BY <1>0, <1>1, ResetBelow DEF BlockGone
<1>2. CASE ~BlockGone
    <2>1. UNCHANGED <<sync, queue>>
        BY <1>2 DEF LiveOnlyStep, syncVars
    <2>2. tip' # None => tip'.height <= peak
        BY <1>2, PlanIs DEF LiveOnlyStep, AnchorTrusted, SyncBlock, HeadsBelowPeak, PeakInv
    <2>3. /\ \A e \in events' : e.height <= peak
          /\ \A c \in Contracts : RowBelowPeak(progress'[c])
        <3>1. CASE PlanStep
            BY <3>1, PlanIs DEF storeVars, PeakInv
        <3>2. CASE AnchorTrusted
            BY <1>0, <3>2, RewindBelow DEF AnchorTrusted, PeakInv
        <3>3. CASE SyncBlock
            <4>1. PICK b \in linked :
                     /\ b.height \in 1..top
                     /\ InsertEvents({e \in Due(b.height) : e.height = b.height})
                     /\ RaiseSyncedBlockHeight({c \in Contracts : InRange(c, b.height)},
                                               b.height)
                BY <3>3, SyncBlockIs
            <4>2. b.height <= peak
                BY <1>0, <4>1, Typed DEF ChainTypeOK
            <4>3. events' \subseteq events \cup {e \in Due(b.height) : e.height = b.height}
                BY <4>1 DEF InsertEvents
            <4>4. \A c \in Contracts : RowBelowPeak(progress'[c])
                BY <1>0, <4>1, <4>2, RaiseBelow
            <4> QED BY <4>2, <4>3, <4>4 DEF PeakInv
        <3> QED BY <1>2, <3>1, <3>2, <3>3 DEF LiveOnlyStep
    <2> QED BY <1>0, <2>1, <2>2, <2>3
        DEF PeakInv, StateBelowPeak, RowBelowPeak, PageBelowPeak, FreshState
<1> QED BY <1>1, <1>2

LivePeakInv == LiveTypeInv /\ FetchesAlone /\ HeadsBelowPeak /\ PeakInv

\* Following heads, the blocks fetched one by one included, stores, reads and
\* offers nothing above the highest tip there ever was.
THEOREM LivePeakInvariant == LiveSpec => []LivePeakInv
<1>1. LiveInit => HeadsBelowPeak /\ PeakInv
    BY PeakInit DEF LiveInit, HeadsBelowPeak
<1>2. LiveTypeInv /\ LiveTypeInv' /\ PeakInv /\ HeadsBelowPeak /\ [LiveNext]_<<vars, liveVars>>
      => HeadsBelowPeak' /\ PeakInv'
    <2> SUFFICES ASSUME LiveTypeInv, LiveTypeInv', PeakInv, HeadsBelowPeak,
                        [LiveNext]_<<vars, liveVars>>
                 PROVE  HeadsBelowPeak' /\ PeakInv'
        OBVIOUS
    <2>1. TypeInv /\ TypeInv'
        BY LiveTyped DEF LiveTypeInv, LiveTypeOK, TypeInv
    <2> QED BY <2>1, LiveSteps, PeakStep, LiveOnlyPeak, HeadsPeakStep
<1> QED BY <1>1, <1>2, LiveTypeAlways, FetchesAlways, PTL DEF LiveSpec, LivePeakInv

-----------------------------------------------------------------------------
(* The anchor and the heads that wait. *)

\* Every tip is read with its hash: heads are followed from an anchor on.
TipHasHash == TipReads \subseteq {"full"}

\* A head waits only while heads are followed, which takes an anchor.
FollowInv ==
    /\ tip # None => tip.hash # None
    /\ phase # "idle" => tip # None
    /\ phase \in {"sync", "final", "last"} => anchor = tip
    /\ following => anchor # None
    /\ offered # None => following

LEMMA TopHasHash ==
    ASSUME TypeInv
    PROVE  chain[top].fork # None /\ [height |-> top, hash |-> chain[top].fork] # None
<1>1. top \in 1..top /\ chain[top].fork \in Nat
    BY Typed
<1>2. chain[top] \in Block
    BY <1>1, Typed, NoneAssumption DEF ChainTypeOK
<1>3. [height |-> top, hash |-> chain[top].fork] \in Tip
    BY <1>2, Typed DEF Tip, Block
<1> QED BY <1>1, <1>3, NoneAssumption, TipAssumption

\* What a step of Indexer keeps of it.
LEMMA FollowedPass ==
    ASSUME TipHasHash, LiveTypeInv, FetchesAlone, FollowInv,
           ReconcileStep \/ ProducerStep \/ ConsumerStep
    PROVE  /\ tip' # None => tip'.hash # None
           /\ phase' # "idle" => tip' # None
           /\ phase' \in {"sync", "final", "last"} => anchor' = tip'
           /\ anchor # None => anchor' # None
<1>0. TypeInv /\ (tip # None => tip \in Tip)
    BY LiveTyped, Typed
<1>1. CASE ReconcileStep
    <2>1. CASE ReadChainTip
        <3>1. tip' = [height |-> top, hash |-> chain[top].fork] /\ phase' = "reconcile"
              /\ anchor' = anchor
            BY <2>1 DEF ReadChainTip, TipHasHash, storeVars
        <3> QED BY <1>0, <3>1, TopHasHash DEF FollowInv
    <2>2. CASE SetSyncAnchor
        <3>1. tip # None /\ tip.hash # None => anchor' = tip
            BY <2>2 DEF SetSyncAnchor
        <3>2. phase = "setAnchor" /\ phase' = "sync" /\ tip' = tip
            BY <2>2 DEF SetSyncAnchor
        <3> QED BY <1>0, <3>1, <3>2 DEF FollowInv
    <2>3. CASE ~ReadChainTip /\ ~SetSyncAnchor
        <3>1. /\ UNCHANGED <<tip, anchor>> /\ phase # "idle"
              /\ phase' \in {"setAnchor", "search", "reorgError"}
            BY <1>1, <2>3 DEF ReconcileStep, NothingToReplay, ReplayUnfinalized,
               AnchorCanonical, AnchorOrphaned, Probe, FailWithReorgError, RewindToAncestor,
               RewindTo, storeVars
        <3> QED BY <3>1 DEF FollowInv
    <2> QED BY <2>1, <2>2, <2>3
<1>2. CASE ProducerStep
    <2>1. UNCHANGED <<tip, phase, anchor>>
        BY <1>2 DEF ProducerStep, SyncStep, InitFromScratch, InitFromSaved, WalkPage,
           StartCatchUp, FetchBackfillPage, StorePage, SaveBackfillPage, SaveCatchUpPage,
           storeVars, passVars
    <2> QED BY <1>2, <2>1 DEF FollowInv, ProducerStep
<1>3. CASE ConsumerStep
    <2>1. /\ phase \in {"sync", "final", "last"} /\ UNCHANGED <<tip, anchor>>
          /\ phase' \in {"sync", "final", "last"}
        <3>1. batches # None => phase \in {"sync", "last"}
            BY DEF FetchesAlone
        <3> QED BY <1>3, <3>1 DEF ConsumerStep, IndexSafeHeight, IndexBatch, UpsertCheckpoint,
               RaiseToTip, IndexRemaining, passVars
    <2> QED BY <2>1 DEF FollowInv
<1> QED BY <1>1, <1>2, <1>3

LEMMA FollowStep ==
    ASSUME TipHasHash, LiveTypeInv, FetchesAlone, FollowInv, [LiveNext]_<<vars, liveVars>>
    PROVE  FollowInv'
<1>0. TypeInv
    BY LiveTyped
<1>2. CASE EmitHead /\ UNCHANGED vars
    BY <1>2 DEF EmitHead, FollowInv, vars, passVars, storeVars
<1>3. CASE TakeHead
    <2>1. CASE SkipHead
        BY <1>3, <2>1 DEF TakeHead, SkipHead, FollowInv, passVars, storeVars
    <2>2. CASE ~SkipHead
        <3>1. PlanStep /\ phase = "idle" /\ anchor' = anchor /\ offered' = None
              /\ following' = following
            BY <1>3, <2>2 DEF TakeHead, PlanStep, storeVars
        <3>2. phase' \in {"plan", "trusted", "reconcile"} /\ tip' # None /\ tip'.hash # None
            BY <3>1, PlanIs
        <3> QED BY <1>3, <3>1, <3>2 DEF FollowInv
    <2> QED BY <2>1, <2>2
<1>4. CASE ListBlocks
    <2>1. PlanStep /\ UNCHANGED <<anchor, offered, following>>
          /\ phase = "plan"
        BY <1>4 DEF PlanStep, ListBlocks, storeVars
    <2>2. phase' \in {"plan", "trusted", "reconcile"} /\ tip' # None /\ tip'.hash # None
        BY <2>1, PlanIs
    <2> QED BY <2>1, <2>2 DEF FollowInv
<1>5. CASE AnchorTrusted
    BY <1>5 DEF AnchorTrusted, RewindTo, FollowInv, liveVars
<1>6. CASE SyncBlock
    <2>1. PICK b \in linked : phase' = IF linked = {b} THEN "final" ELSE "sync"
        BY <1>6, SyncBlockIs
    <2>2. /\ phase = "sync" /\ phase' \in {"final", "sync"} /\ linked # {}
          /\ UNCHANGED <<tip, anchor, following, offered>>
        BY <1>6, <2>1 DEF SyncBlock
    <2> QED BY <2>2 DEF FollowInv
<1>7. CASE PassStep
    <2>1. ReconcileStep \/ ProducerStep \/ ConsumerStep
        BY <1>7 DEF PassStep
    <2>2. UNCHANGED <<following, offered>>
        BY <1>7 DEF PassStep, liveVars
    <2> QED BY <2>1, <2>2, FollowedPass DEF FollowInv
<1>8. CASE LiveChainStep \/ UNCHANGED <<vars, liveVars>>
    <2>1. UNCHANGED <<following, offered, tip, phase, anchor>>
        BY <1>8 DEF LiveChainStep, ChainStep, liveVars, vars, passVars, storeVars
    <2> QED BY <2>1 DEF FollowInv
<1>9. CASE EndLiveStep \/ StopLiveStep
    <2>1. CASE Reset
        <3>1. /\ anchor' = anchor /\ phase' = "idle" /\ tip' = None
            BY <2>1 DEF Reset, storeVars
        <3>2. PICK still \in BOOLEAN :
                 /\ Follow(still)
                 /\ still => anchor # None
            <4>1. CASE LiveStop \/ Interrupt
                BY <1>0, <4>1 DEF LiveStop, Interrupt, FollowInv, LiveTypeInv, LiveTypeOK
            <4>2. CASE BlockGone
                BY <4>2 DEF BlockGone, FollowInv
            <4>3. CASE LiveEnd
                <5>1. Complete(tip.height) \in BOOLEAN
                    BY DEF Complete
                <5> QED BY <4>3, <5>1 DEF LiveEnd, FollowInv
            <4> QED BY <1>9, <4>1, <4>2, <4>3 DEF EndLiveStep, StopLiveStep
        <3>3. /\ following' => anchor' # None
              /\ offered' # None => following' /\ offered' = offered
            BY <3>1, <3>2 DEF Follow, FollowInv
        <3> QED BY <3>1, <3>3 DEF FollowInv
    <2>2. CASE Interrupt
        BY <2>2 DEF Interrupt, Follow, FollowInv, storeVars, passVars
    <2> QED BY <1>9, <2>1, <2>2 DEF EndLiveStep, LiveEnd, EndPass, BlockGone, StopLiveStep,
            LiveStop, Stop
<1> QED BY <1>2, <1>3, <1>4, <1>5, <1>6, <1>7, <1>8, <1>9
        DEF LiveNext, HeadStep, vars

\* Without an anchor, a head lags no further behind the chain than the
\* finality allows for.
HeadsAreRecent == TipHasHash \/ HeadLag + MaxOf(MaxDepth - 1, 0) <= Finality

\* A head's pass has its own tip, and an anchor once it set one. Before the
\* first anchor, a waiting head is not below the finalized block.
OfferedInv ==
    /\ following /\ phase # "idle" => tip # None /\ tip.hash # None
    /\ following /\ phase \in {"sync", "final", "last"} => anchor # None
    /\ offered # None => following
    /\ offered # None /\ anchor = None => FinalizedHeight <= offered.height

\* A head emitted without an anchor is not below the finalized block: the chain
\* is at most a reorg shorter than it was.
LEMMA EmittedHead ==
    ASSUME LiveTypeInv, FinalityInv, OfferedInv, EmitHead, UNCHANGED vars,
           anchor # None \/ HeadLag + MaxOf(MaxDepth - 1, 0) <= Finality
    PROVE  OfferedInv'
<1>1. /\ TypeInv /\ peak \in Nat /\ top \in Nat /\ FinalizedHeight \in Nat
      /\ MaxDepth \in Nat /\ Finality \in Nat /\ HeadLag \in Nat
    BY LiveTyped, Typed, Heighted, LiveAssumption DEF TypeInv
<1>2. PICK h \in 1..top : h >= top - HeadLag /\ offered' = LightBlockAt(h)
    BY DEF EmitHead
<1>3. offered'.height = h
    BY <1>1, <1>2, LightBlockType
<1>4. anchor = None => FinalizedHeight <= h
    <2>1. FinalizedHeight = 0 \/ FinalizedHeight + Finality <= peak
        BY DEF FinalityInv, MayBeFinal, Deep
    <2>2. top >= peak - MaxOf(MaxDepth - 1, 0)
        BY <1>1 DEF FinalityInv, MaxOf
    <2>3. MaxOf(MaxDepth - 1, 0) \in Nat
        BY <1>1 DEF MaxOf
    <2> QED BY <1>1, <1>2, <2>1, <2>2, <2>3
<1>5. UNCHANGED <<following, phase, tip, anchor>> /\ FinalizedHeight' = FinalizedHeight
    BY DEF EmitHead, vars, passVars, storeVars, FinalizedHeight
<1> QED BY <1>3, <1>4, <1>5 DEF OfferedInv, EmitHead

LEMMA OfferedStep ==
    ASSUME LiveTypeInv, FetchesAlone, FinalityInv, OfferedInv, [LiveNext]_<<vars, liveVars>>,
           following => anchor # None \/ HeadLag + MaxOf(MaxDepth - 1, 0) <= Finality
    PROVE  OfferedInv'
<1>0. TypeInv
    BY LiveTyped
<1>1. CASE EmitHead /\ UNCHANGED vars
    BY <1>1, EmittedHead DEF EmitHead
<1>2. CASE TakeHead
    <2>1. CASE SkipHead
        BY <1>2, <2>1 DEF TakeHead, SkipHead, OfferedInv, passVars, storeVars
    <2>2. CASE ~SkipHead
        <3>1. PlanStep /\ offered' = None
            BY <1>2, <2>2 DEF TakeHead, PlanStep, storeVars
        <3>2. phase' \in {"plan", "trusted", "reconcile"} /\ tip' # None /\ tip'.hash # None
            BY <3>1, PlanIs
        <3> QED BY <3>1, <3>2 DEF OfferedInv
    <2> QED BY <2>1, <2>2
<1>3. CASE ListBlocks
    <2>1. PlanStep /\ UNCHANGED <<anchor, checkpoint, offered, following>>
        BY <1>3 DEF PlanStep, ListBlocks, storeVars
    <2>2. phase' \in {"plan", "trusted", "reconcile"} /\ tip' # None /\ tip'.hash # None
        BY <2>1, PlanIs
    <2> QED BY <2>1, <2>2 DEF OfferedInv, FinalizedHeight
<1>4. CASE AnchorTrusted /\ LiveOnlyStep
    <2>1. /\ FinalizedHeight' = FinalizedHeight /\ phase = "trusted" /\ phase' = "setAnchor"
          /\ UNCHANGED <<tip, anchor, offered, following>>
        BY <1>4, LiveOnlyMarker DEF AnchorTrusted, RewindTo, liveVars
    <2> QED BY <2>1 DEF OfferedInv
<1>5. CASE SyncBlock
    <2>1. /\ phase = "sync" /\ phase' \in {"final", "sync"}
          /\ UNCHANGED <<tip, anchor, checkpoint, following, offered>>
        BY <1>5, SyncBlockIs DEF SyncBlock
    <2> QED BY <2>1 DEF OfferedInv, FinalizedHeight
<1>6. CASE PassStep
    <2>0. UNCHANGED <<following, offered>> /\ (ReadChainTip => ~following)
        BY <1>6 DEF PassStep, ReadChainTip, liveVars, ReconcileStep, ProducerStep, ConsumerStep,
           IndexSafeHeight, IndexBatch, RaiseToTip, IndexRemaining, FetchesAlone
    <2>1. CASE ~ConsumerStep /\ ~SetSyncAnchor /\ ~ReadChainTip
        <3>1. Next
            BY <1>6 DEF PassStep, Next
        <3>2. FinalizedHeight' = FinalizedHeight
            BY <1>0, <2>1, <3>1, MarkerKept
        <3>3. /\ UNCHANGED <<tip, anchor>> /\ phase # "idle"
              /\ phase' \in {phase, "setAnchor", "search", "reorgError"}
            BY <1>6, <2>1 DEF PassStep, ProducerStep, SyncStep, InitFromScratch, InitFromSaved,
               WalkPage, StartCatchUp, FetchBackfillPage, StorePage, SaveBackfillPage,
               SaveCatchUpPage, storeVars, passVars, ReconcileStep, NothingToReplay,
               ReplayUnfinalized, AnchorCanonical, AnchorOrphaned, Probe, FailWithReorgError,
               RewindToAncestor, RewindTo
        <3> QED BY <2>0, <3>2, <3>3 DEF OfferedInv
    <2>2. CASE ReadChainTip
        BY <2>0, <2>2 DEF OfferedInv
    <2>3. CASE SetSyncAnchor
        <3>1. following => /\ tip' = tip /\ tip # None /\ tip.hash # None /\ anchor' = tip
            BY <2>3 DEF SetSyncAnchor, OfferedInv
        <3> QED BY <2>0, <3>1 DEF OfferedInv
    <2>4. CASE ConsumerStep
        <3>1. /\ phase \in {"sync", "final", "last"} /\ UNCHANGED <<tip, anchor>>
              /\ phase' \in {"sync", "final", "last"}
            <4>1. batches # None => phase \in {"sync", "last"}
                BY DEF FetchesAlone
            <4> QED BY <2>4, <4>1 DEF ConsumerStep, IndexSafeHeight, IndexBatch,
                   UpsertCheckpoint, RaiseToTip, IndexRemaining, passVars
        <3> QED BY <2>0, <3>1 DEF OfferedInv
    <2> QED BY <2>1, <2>2, <2>3, <2>4
<1>7. CASE LiveChainStep \/ UNCHANGED <<vars, liveVars>>
    <2>1. UNCHANGED <<following, offered, tip, phase, anchor, checkpoint>>
        BY <1>7 DEF LiveChainStep, ChainStep, liveVars, vars, passVars, storeVars
    <2> QED BY <2>1 DEF OfferedInv, FinalizedHeight
<1>8. CASE EndLiveStep \/ StopLiveStep
    <2>1. UNCHANGED <<anchor, checkpoint>> /\ phase' = "idle"
        BY <1>8 DEF EndLiveStep, LiveEnd, EndPass, BlockGone, StopLiveStep, LiveStop, Stop,
           Interrupt, Reset, storeVars, passVars
    <2>2. \E still \in BOOLEAN : Follow(still)
        <3>1. Complete(tip.height) \in BOOLEAN
            BY DEF Complete
        <3> QED BY <1>0, <1>8, <3>1 DEF EndLiveStep, LiveEnd, BlockGone, StopLiveStep,
               LiveStop, Interrupt, LiveTypeInv, LiveTypeOK
    <2>3. offered' # None => following' /\ offered' = offered
        BY <2>2 DEF Follow
    <2> QED BY <2>1, <2>3 DEF OfferedInv, FinalizedHeight
<1>9. AnchorTrusted => LiveOnlyStep \/ ~HeadStep
    BY DEF HeadStep, LiveOnlyStep
<1> QED BY <1>1, <1>2, <1>3, <1>4, <1>5, <1>6, <1>7, <1>8, <1>9
        DEF LiveNext, HeadStep, vars

-----------------------------------------------------------------------------
(* The finalized block. *)

\* A head that is not skipped is not below the anchor.
LEMMA HeadAboveAnchor ==
    ASSUME LiveTypeInv, offered # None, ~Skipped(offered), anchor # None
    PROVE  anchor.height <= offered.height
BY LiveTyped, Typed DEF Skipped

\* The steps of a head's pass finalize nothing, and the rewind to a trusted
\* anchor discards nothing final.
LEMMA LiveOnlyFinality ==
    ASSUME LiveTypeInv, FetchesAlone, HeadsBelowPeak, PeakInv, OfferedInv, FinalityInv,
           LiveOnlyStep
    PROVE  /\ FinalityInv'
           /\ FinalizedHeight' = FinalizedHeight
           /\ {e \in handled : e.height <= FinalizedHeight} \subseteq handled'
<1>0. /\ TypeInv /\ TypeOK /\ UNCHANGED <<peak, top>>
      /\ FinalizedHeight \in Nat /\ CheckpointHeight \in Nat
      /\ anchor # None => anchor.height \in Nat
    BY LiveTyped, Typed DEF LiveOnlyStep, chainVars, TypeInv
<1>s. UNCHANGED <<checkpoint, handled>> =>
        /\ FinalizedHeight' = FinalizedHeight /\ CheckpointHeight' = CheckpointHeight
        /\ {e \in handled : e.height <= FinalizedHeight} \subseteq handled'
    BY DEF FinalizedHeight, CheckpointHeight
<1>1. CASE PlanStep /\ UNCHANGED <<syncVars, batches>>
    <2>1. /\ UNCHANGED <<checkpoint, handled, anchor, probing, ancestor, batches>>
          /\ phase \in {"idle", "plan"} /\ phase' \in {"plan", "trusted", "reconcile"}
          /\ phase = "idle" => /\ offered # None /\ ~Skipped(offered)
                               /\ tip' = [height |-> offered.height, hash |-> offered.hash]
          /\ phase = "plan" => tip' = tip
          /\ tip' # None
        BY <1>1, PlanIs DEF storeVars
    <2>2. batches = None
        BY <2>1 DEF FetchesAlone
    <2>3. CASE phase = "plan"
        BY <1>0, <1>s, <2>1, <2>2, <2>3 DEF FinalityInv, MayBeFinal, Deep
    <2>4. CASE phase = "idle"
        <3>1. offered.height <= peak /\ tip'.height = offered.height
            BY <2>1, <2>4 DEF HeadsBelowPeak
        <3>2. FinalizedHeight <= tip'.height
            BY <1>0, <2>1, <2>4, <3>1, HeadAboveAnchor, LiveTyped DEF FinalityInv, OfferedInv
        <3> QED BY <1>0, <1>s, <2>1, <2>2, <2>4, <3>1, <3>2 DEF FinalityInv, MayBeFinal, Deep
    <2> QED BY <2>1, <2>3, <2>4
<1>2. CASE AnchorTrusted /\ UNCHANGED <<syncVars, batches>>
    <2>1. /\ anchor # None /\ RewindTo(anchor.height) /\ phase = "trusted"
          /\ phase' = "setAnchor" /\ UNCHANGED <<tip, probing, ancestor, batches>>
        BY <1>2 DEF AnchorTrusted, LiveTypeInv
    <2>2. /\ FinalizedHeight' = FinalizedHeight
          /\ FinalizedHeight' <= CheckpointHeight'
          /\ {e \in handled : e.height <= FinalizedHeight} \subseteq handled'
          /\ UNCHANGED anchor
        BY <1>0, <2>1, RewindToFinality DEF FinalityInv
    <2>3. batches = None
        BY <2>1 DEF FetchesAlone
    <2> QED BY <1>0, <2>1, <2>2, <2>3 DEF FinalityInv, MayBeFinal, Deep
<1>3. CASE SyncBlock /\ UNCHANGED <<syncVars, batches>>
    <2>1. /\ phase = "sync" /\ linked # {}
          /\ UNCHANGED <<tip, probing, ancestor, anchor, checkpoint, handled, batches>>
          /\ phase' \in {"sync", "final"}
        BY <1>3, SyncBlockIs DEF SyncBlock
    <2>2. batches = None
        BY <2>1 DEF FetchesAlone
    <2> QED BY <1>0, <1>s, <2>1, <2>2 DEF FinalityInv, MayBeFinal, Deep
<1>4. CASE BlockGone
    <2>1. phase' = "idle" /\ tip' = None /\ batches' = None
          /\ UNCHANGED <<checkpoint, handled, anchor>>
        BY <1>4 DEF BlockGone, Reset, storeVars
    <2> QED BY <1>0, <1>s, <2>1 DEF FinalityInv, MayBeFinal, Deep
<1> QED BY <1>1, <1>2, <1>3, <1>4 DEF LiveOnlyStep

LEMMA LiveFinalityStep ==
    ASSUME ReorgsAreShallow, HeadsAreRecent, LiveTypeInv, LiveTypeInv', FetchesAlone,
           HeadsBelowPeak, PeakInv, OfferedInv, FinalityInv, TipHasHash => FollowInv,
           [LiveNext]_<<vars, liveVars>>
    PROVE  /\ OfferedInv' /\ FinalityInv'
           /\ {e \in handled : e.height <= FinalizedHeight} \subseteq handled'
<1>1. TypeInv /\ TypeInv' /\ TypeOK /\ TypeOK'
    BY LiveTyped DEF LiveTypeInv, LiveTypeOK, TypeInv
<1>2. following => anchor # None \/ HeadLag + MaxOf(MaxDepth - 1, 0) <= Finality
    BY DEF HeadsAreRecent, FollowInv
<1>3. OfferedInv'
    BY <1>2, OfferedStep
<1>4. CASE [Next]_vars
    BY <1>1, <1>3, <1>4, FinalityStep
<1>5. CASE LiveOnlyStep
    BY <1>3, <1>5, LiveOnlyFinality
<1> QED BY <1>4, <1>5, LiveSteps

LEMMA FollowInit == LiveInit => FollowInv /\ OfferedInv /\ FinalityInv
BY FinalityInvInit DEF LiveInit, Init, PassInit, FollowInv, OfferedInv

LEMMA FollowAlways ==
    ASSUME TipHasHash
    PROVE  LiveSpec => []FollowInv
<1>1. LiveTypeInv /\ FetchesAlone /\ FollowInv /\ [LiveNext]_<<vars, liveVars>> => FollowInv'
    BY FollowStep
<1> QED BY <1>1, FollowInit, LiveTypeAlways, FetchesAlways, PTL DEF LiveSpec

LiveFinalityInv == LivePeakInv /\ OfferedInv /\ FinalityInv

THEOREM LiveFinality ==
    ASSUME ReorgsAreShallow, HeadsAreRecent
    PROVE  LiveSpec => [](LiveFinalityInv /\ (TipHasHash => FollowInv))
<1>1. LiveSpec => [](TipHasHash => FollowInv)
    <2>1. CASE TipHasHash
        <3>1. FollowInv => (TipHasHash => FollowInv)
            OBVIOUS
        <3> QED BY <2>1, <3>1, FollowAlways, PTL
    <2>2. CASE ~TipHasHash
        <3>1. TRUE => (TipHasHash => FollowInv)
            BY <2>2
        <3> QED BY <3>1, PTL
    <2> QED BY <2>1, <2>2
<1>2. /\ LivePeakInv /\ LivePeakInv' /\ OfferedInv /\ FinalityInv
      /\ (TipHasHash => FollowInv) /\ [LiveNext]_<<vars, liveVars>>
      => OfferedInv' /\ FinalityInv'
    BY LiveFinalityStep DEF LivePeakInv
<1> QED BY <1>1, <1>2, LivePeakInvariant, FollowInit, PTL DEF LiveSpec, LiveFinalityInv

\* Following heads, lagging and replaced ones included, never finalizes a
\* block that was not indexed.
THEOREM LiveFinalizedIsIndexed ==
    ASSUME ReorgsAreShallow, HeadsAreRecent
    PROVE  LiveSpec => []FinalizedBelowCheckpoint
<1>1. LiveFinalityInv => FinalizedBelowCheckpoint
    BY DEF LiveFinalityInv, FinalityInv, FinalizedBelowCheckpoint
<1> QED BY <1>1, LiveFinality, PTL

\* No head's pass discards what handlers wrote at or below the finalized
\* block, though the chain may be reorganized at any step of it.
THEOREM LiveFinalWorkIsKept ==
    ASSUME ReorgsAreShallow, HeadsAreRecent
    PROVE  LiveSpec => FinalNeverReplayed
<1>1. /\ LiveFinalityInv /\ LiveFinalityInv' /\ (TipHasHash => FollowInv)
      /\ [LiveNext]_<<vars, liveVars>>
      => [{e \in handled : e.height <= FinalizedHeight} \subseteq handled']_vars
    BY LiveFinalityStep DEF LiveFinalityInv, LivePeakInv
<1> QED BY <1>1, LiveFinality, PTL DEF LiveSpec, FinalNeverReplayed

-----------------------------------------------------------------------------
(* No event is handled twice. *)

LEMMA LiveOnlyHandled ==
    ASSUME LiveTypeInv, FetchesAlone, HandledInv, LiveOnlyStep
    PROVE  HandledInv'
<1>0. TypeInv /\ CheckpointHeight \in Nat /\ \A e \in handled : e.height \in Nat
    BY LiveTyped, Typed
<1>1. CASE PlanStep /\ UNCHANGED batches
    BY <1>1, PlanIs DEF HandledInv, storeVars, CheckpointHeight
<1>2. CASE AnchorTrusted /\ UNCHANGED batches
    <2>1. RewindTo(anchor.height) /\ anchor.height \in Nat /\ phase = "trusted"
        BY <1>0, <1>2, Typed DEF AnchorTrusted, LiveTypeInv
    <2> QED BY <1>0, <1>2, <2>1, RewindMoves DEF HandledInv, MinOf
<1>3. CASE SyncBlock /\ UNCHANGED batches
    BY <1>3 DEF SyncBlock, FetchesAlone, HandledInv, CheckpointHeight
<1>4. CASE BlockGone
    BY <1>4 DEF BlockGone, Reset, storeVars, HandledInv, CheckpointHeight
<1> QED BY <1>1, <1>2, <1>3, <1>4 DEF LiveOnlyStep

LEMMA LiveHandledStep ==
    ASSUME LiveTypeInv, FetchesAlone, HandledInv, [LiveNext]_<<vars, liveVars>>
    PROVE  HandledInv'
BY LiveTyped, LiveSteps, HandledStep, LiveOnlyHandled

\* Between two rewinds a handler runs at most once for an event, whatever way
\* the heads were fetched.
THEOREM LiveHandledAtMostOnce == LiveSpec => []NothingHandledTwice
<1>1. LiveInit => HandledInv
    BY HandledInit DEF LiveInit
<1>2. LiveTypeInv /\ FetchesAlone /\ HandledInv /\ [LiveNext]_<<vars, liveVars>> => HandledInv'
    BY LiveHandledStep
<1>3. LiveTypeInv /\ HandledInv => NothingHandledTwice
    <2> SUFFICES ASSUME LiveTypeInv, HandledInv, batches # None,
                        NEW e \in batches.rows, e \in handled
                 PROVE  FALSE
        BY DEF NothingHandledTwice
    <2> QED BY LiveTyped, Typed DEF HandledInv
<1> QED BY <1>1, <1>2, <1>3, LiveTypeAlways, FetchesAlways, PTL DEF LiveSpec

-----------------------------------------------------------------------------
(* What is stored is right. *)

\* A head that waits, or whose pass is planned, is a canonical block.
HeadsInv ==
    /\ offered # None => offered.height \in 1..top /\ offered = LightBlockAt(offered.height)
    /\ phase \in {"plan", "trusted"} => anchor # None /\ anchor.height < tip.height
    /\ phase = "trusted" => CanonicalHash(anchor.height) = anchor.hash

\* Handled events are stored, and the block stored for an event is its own.
KeptInv ==
    /\ handled \subseteq events
    /\ phase \in Unverified => \A e \in events : blocks[e.height] = e.fork

\* A waiting head stays canonical while no reorg may orphan it.
LEMMA HeadsStep ==
    ASSUME ReorgsBetweenPasses, ~StaleHeads, LiveTypeInv, LiveTypeInv', FetchesAlone, HeadsInv,
           [LiveNext]_<<vars, liveVars>>
    PROVE  HeadsInv'
<1>0. /\ TypeInv /\ TypeInv' /\ top \in Nat
      /\ offered # None => offered.height \in Nat
      /\ anchor # None => anchor.height \in Nat /\ anchor.height >= 1
    BY LiveTyped, Typed DEF LiveTypeInv, LiveTypeOK, TypeInv
<1>u. ASSUME UNCHANGED chainVars
      PROVE  /\ top' = top /\ (\A h : CanonicalHash(h)' = CanonicalHash(h))
             /\ (\A h : LightBlockAt(h)' = LightBlockAt(h))
    BY <1>u DEF chainVars, LightBlockAt, CanonicalHash
<1>1. CASE EmitHead /\ UNCHANGED vars
    <2>1. PICK h \in 1..top : offered' = LightBlockAt(h)
        BY <1>1 DEF EmitHead
    <2>2. offered'.height = h
        BY <2>1 DEF LightBlockAt
    <2>3. UNCHANGED <<chainVars, phase, anchor, tip>>
        BY <1>1 DEF vars, passVars, storeVars
    <2> QED BY <1>u, <2>1, <2>2, <2>3 DEF HeadsInv
<1>2. CASE TakeHead /\ UNCHANGED chainVars
    <2>1. offered' = None /\ phase = "idle" /\ offered # None /\ anchor' = anchor
        BY <1>2 DEF TakeHead, storeVars
    <2>2. CASE SkipHead
        BY <2>1, <2>2 DEF SkipHead, passVars, HeadsInv
    <2>3. CASE StartPass(offered)
        <3>1. tip'.height = offered.height
            BY <2>3 DEF StartPass
        <3>2. CASE phase' = "reconcile"
            BY <2>1, <3>2 DEF HeadsInv
        <3>3. CASE phase' = "trusted" /\ BuildsOnAnchor(offered)
            <4>1. /\ anchor # None /\ offered.height = anchor.height + 1
                  /\ offered.parent = anchor.hash
                BY <3>3 DEF BuildsOnAnchor
            <4>2. offered.parent = CanonicalHash(offered.height - 1)
                BY <2>1 DEF HeadsInv, LightBlockAt
            <4>3. CanonicalHash(anchor.height) = anchor.hash
                BY <1>0, <4>1, <4>2
            <4> QED BY <1>0, <1>2, <1>u, <2>1, <3>1, <3>3, <4>1, <4>3 DEF HeadsInv
        <3>4. CASE phase' = "plan" /\ BlocksConsidered(offered)
            BY <1>0, <2>1, <3>1, <3>4 DEF BlocksConsidered, HeadsInv
        <3> QED BY <2>3, <3>2, <3>3, <3>4 DEF StartPass, PlanLinked
    <2> QED BY <1>2, <2>2, <2>3 DEF TakeHead
<1>3. CASE ListBlocks /\ UNCHANGED chainVars
    <2>1. UNCHANGED <<anchor, tip, offered>> /\ phase = "plan"
          /\ ((phase' = "trusted" /\ PageLinks) \/ phase' = "reconcile")
        BY <1>3 DEF ListBlocks, PlanLinked, storeVars
    <2> QED BY <1>3, <1>u, <2>1 DEF HeadsInv, PageLinks
<1>4. CASE AnchorTrusted /\ UNCHANGED chainVars
    BY <1>4, <1>u DEF AnchorTrusted, liveVars, HeadsInv
<1>5. CASE SyncBlock /\ UNCHANGED chainVars
    <2>1. phase' \in {"sync", "final"} /\ offered' = offered
        BY <1>5 DEF SyncBlock
    <2> QED BY <1>5, <1>u, <2>1 DEF HeadsInv
<1>6. CASE PassStep
    <2>1. /\ UNCHANGED chainVars /\ phase' \notin {"plan", "trusted"} /\ offered' = offered
        <3>1. CASE ReconcileStep
            BY <1>6, <3>1 DEF PassStep, liveVars, ReconcileStep, ReadChainTip, NothingToReplay,
               ReplayUnfinalized, AnchorCanonical, AnchorOrphaned, Probe, FailWithReorgError,
               RewindToAncestor, SetSyncAnchor
        <3>2. CASE ProducerStep
            BY <1>6, <3>2 DEF PassStep, liveVars, ProducerStep, passVars
        <3>3. CASE ConsumerStep
            <4>1. batches # None => phase \in {"sync", "last"}
                BY DEF FetchesAlone
            <4> QED BY <4>1, <1>6, <3>3 DEF PassStep, liveVars, ConsumerStep, IndexSafeHeight,
               IndexBatch, RaiseToTip, IndexRemaining, passVars
        <3> QED BY <1>6, <3>1, <3>2, <3>3 DEF PassStep
    <2> QED BY <1>u, <2>1 DEF HeadsInv
<1>7. CASE EndLiveStep \/ StopLiveStep
    <2>1. UNCHANGED chainVars /\ phase' = "idle" /\ offered' \in {offered, None}
        BY <1>7 DEF EndLiveStep, LiveEnd, EndPass, BlockGone, StopLiveStep, LiveStop, Stop,
           Interrupt, Reset, Follow, passVars
    <2> QED BY <1>u, <2>1 DEF HeadsInv
<1>8. CASE LiveChainStep \/ UNCHANGED <<vars, liveVars>>
    <2>1. UNCHANGED <<phase, tip, anchor, offered>>
        BY <1>8 DEF LiveChainStep, ChainStep, vars, liveVars, passVars, storeVars
    <2>2. CASE Mine
        <3>1. top' = top + 1 /\ \A h \in 1..top : chain'[h] = chain[h]
            BY <1>0, <2>2, Typed DEF Mine, ChainTypeOK
        <3>2. \A h \in 1..top : CanonicalHash(h)' = CanonicalHash(h) /\ h \in 1..top'
            BY <1>0, <3>1 DEF CanonicalHash
        <3>3. CanonicalHash(0)' = CanonicalHash(0)
            BY DEF CanonicalHash
        <3>4. \A h \in 1..top : LightBlockAt(h)' = LightBlockAt(h)
            <4> SUFFICES ASSUME NEW h \in 1..top PROVE LightBlockAt(h)' = LightBlockAt(h)
                OBVIOUS
            <4>1. h - 1 \in 1..top \/ h - 1 = 0
                BY <1>0
            <4>2. CanonicalHash(h - 1)' = CanonicalHash(h - 1)
                BY <3>2, <3>3, <4>1
            <4> QED BY <3>1, <4>2 DEF LightBlockAt
        <3>5. phase = "trusted" => anchor.height \in 1..top
            BY <1>0, NoneAssumption, Typed DEF HeadsInv, CanonicalHash
        <3> QED BY <2>1, <3>2, <3>4, <3>5 DEF HeadsInv
    <2>3. CASE phase \in ReorgPhases /\ Reorg /\ LiveChainStep
        <3>1. forks' # forks
            BY <1>0, <2>3, Typed DEF Reorg
        <3>2. offered = None /\ phase = "idle"
            BY <2>3, <3>1 DEF LiveChainStep, ReorgsBetweenPasses
        <3> QED BY <2>1, <3>2 DEF HeadsInv
    <2>4. CASE UNCHANGED <<vars, liveVars>>
        BY <1>u, <2>1, <2>4 DEF HeadsInv, vars
    <2> QED BY <1>8, <2>2, <2>3, <2>4 DEF LiveChainStep, ChainStep
<1> QED BY <1>1, <1>2, <1>3, <1>4, <1>5, <1>6, <1>7, <1>8
        DEF LiveNext, HeadStep, vars

\* The plan of a pass takes a canonical head for its tip, above what it keeps.
LEMMA PlanKept ==
    ASSUME LiveTypeInv, FetchesAlone, PassInv, HeadsInv, PlanStep,
           UNCHANGED <<chainVars, syncVars, batches>>
    PROVE  /\ UNCHANGED storeVars
           /\ phase \in Unverified /\ phase' \in {"plan", "trusted", "reconcile"}
           /\ PassInv'
           /\ \A m \in 0..top : KeptBelowTip(m) => KeptBelowTip(m)'
<1>1. /\ UNCHANGED storeVars /\ anchor' = anchor
      /\ phase \in {"idle", "plan"} /\ phase' \in {"plan", "trusted", "reconcile"}
      /\ phase = "idle" => /\ offered # None /\ ~Skipped(offered)
                           /\ tip' = [height |-> offered.height, hash |-> offered.hash]
      /\ phase = "plan" => tip' = tip
      /\ tip' # None
    BY PlanIs DEF storeVars
<1>2. /\ TypeInv /\ batches' = None /\ sync' = sync /\ queue' = queue
      /\ top' = top /\ chain' = chain /\ top \in Nat
      /\ anchor # None => anchor.height \in Nat
      /\ offered # None => offered.height \in Nat
    BY <1>1, LiveTyped, Typed DEF PassInv, syncVars, chainVars
<1>4. tip'.height <= top /\ tip'.hash = chain[tip'.height].fork
    <2>1. CASE phase = "plan"
        BY <1>1, <1>2, <2>1 DEF PassInv
    <2>2. CASE phase = "idle"
        <3>1. offered.height \in 1..top /\ offered.hash = chain[offered.height].fork
            BY <1>1, <2>2 DEF HeadsInv, LightBlockAt
        <3> QED BY <1>1, <1>2, <2>2, <3>1
    <2> QED BY <1>1, <2>1, <2>2
<1>5. PassInv'
    BY <1>1, <1>2, <1>4 DEF PassInv
<1>6. ASSUME NEW m \in 0..top, KeptBelowTip(m) PROVE KeptBelowTip(m)'
    <2> SUFFICES ASSUME anchor # None PROVE MinOf(anchor.height, m) <= tip'.height
        BY <1>1 DEF KeptBelowTip
    <2>1. CASE phase = "plan"
        BY <1>1, <1>6, <2>1 DEF KeptBelowTip
    <2>2. CASE phase = "idle"
        <3>1. anchor.height <= tip'.height
            BY <1>1, <2>2, HeadAboveAnchor
        <3> QED BY <1>1, <1>2, <1>6, <2>2, <3>1 DEF MinOf
    <2> QED BY <1>1, <2>1, <2>2
<1> QED BY <1>1, <1>5, <1>6 DEF Unverified

\* The steps of a head's pass store nothing wrong.
LEMMA PlanSound ==
    ASSUME LiveTypeInv, FetchesAlone, SoundInv, HeadsInv, PlanStep,
           UNCHANGED <<chainVars, syncVars, batches>>
    PROVE  SoundInv'
<1>1. TypeInv /\ PassInv /\ batches' = None
    BY LiveTyped, PlanIs DEF SoundInv, PassInv
<1>2. /\ UNCHANGED storeVars
      /\ phase \in Unverified /\ phase' \in {"plan", "trusted", "reconcile"}
      /\ PassInv'
      /\ \A m \in 0..top : KeptBelowTip(m) => KeptBelowTip(m)'
    BY <1>1, PlanKept
<1>3. PICK m \in 0..top : SoundHeight(m)
    BY <1>2 DEF SoundInv
<1>4. KeptBelowTip(m)'
    BY <1>2, <1>3 DEF SoundHeight
<1> QED BY <1>1, <1>2, <1>3, <1>4, UnverifiedSound DEF Unverified

LEMMA TrustSound ==
    ASSUME LiveTypeInv, FetchesAlone, SoundInv, HeadsInv, AnchorTrusted,
           UNCHANGED <<chainVars, syncVars, batches>>
    PROVE  SoundInv'
<1>1. /\ phase = "trusted" /\ phase' = "setAnchor" /\ RewindTo(anchor.height) /\ tip' = tip
      /\ anchor' = anchor /\ anchor # None /\ CanonicalHash(anchor.height) = anchor.hash
    BY DEF AnchorTrusted, HeadsInv, RewindTo
<1>2. /\ TypeInv /\ ForksRise /\ StoreInv /\ PassInv /\ batches' = None
      /\ sync' = sync /\ queue' = queue /\ top' = top /\ chain' = chain
      /\ tip # None /\ anchor.height \in Nat /\ CheckpointHeight \in Nat /\ FinalizedHeight \in Nat
    BY <1>1, LiveTyped, Typed DEF SoundInv, PassInv, syncVars, chainVars
<1>3. PICK m \in 0..top : SoundHeight(m)
    BY <1>1 DEF SoundInv, Unverified
<1>4. /\ SoundUpTo(m) /\ anchor.height <= m /\ MinOf(anchor.height, m) <= tip.height
    BY <1>1, <1>2, <1>3, AnchorIsCommon DEF SoundHeight, KeptBelowTip
<1>5. CheckpointHeight <= anchor.height /\ FinalizedHeight <= anchor.height
    BY <1>1, <1>2 DEF StoreInv
<1>6. StoreInv' /\ SoundStore'
    BY <1>1, <1>2, <1>4, <1>5, RewindSound
<1>7. PassInv' /\ ForksRise'
    BY <1>1, <1>2, ChainAlone DEF PassInv
<1> QED BY <1>1, <1>2, <1>6, <1>7 DEF SoundInv, Unverified

\* A block fetched on its own brings its canonical logs.
LEMMA BlockStored ==
    ASSUME LiveTypeInv, ForksRise, StoreInv, anchor # None, SyncBlock, UNCHANGED chainVars
    PROVE  \E b \in linked :
             LET new == {e \in Due(b.height) : e.height = b.height}
             IN  /\ IsNextBlock(b)
                 /\ linked' = linked \ {b}
                 /\ phase' = IF linked = {b} THEN "final" ELSE "sync"
                 /\ RaiseSyncedBlockHeight({c \in Contracts : InRange(c, b.height)}, b.height)
                 /\ new \subseteq CanonicalEvents
                 /\ events' = events \cup new
                 /\ \A h \in Heights : blocks[h] # None => blocks'[h] = blocks[h]
                 /\ \A h \in Heights : blocks'[h] # None /\ blocks[h] = None =>
                                         blocks'[h] = CanonicalHash(h)
                 /\ FinalizedHeight' = FinalizedHeight /\ CheckpointHeight' = CheckpointHeight
                 /\ StoreInv'
<1>1. PICK b \in linked :
         /\ IsNextBlock(b)
         /\ InsertEvents({e \in Due(b.height) : e.height = b.height})
         /\ RaiseSyncedBlockHeight({c \in Contracts : InRange(c, b.height)}, b.height)
         /\ linked' = linked \ {b}
         /\ phase' = IF linked = {b} THEN "final" ELSE "sync"
    BY SyncBlockIs
<1> DEFINE new == {e \in Due(b.height) : e.height = b.height}
<1>2. new \subseteq CanonicalEvents
    BY DEF Due
<1>3. new \in SUBSET CanonicalEvents /\ UNCHANGED <<checkpoint, anchor, handled>> /\ TypeInv
    BY <1>2, LiveTyped DEF SyncBlock
<1>4. /\ events' = events \cup new
      /\ \A h \in Heights : blocks[h] # None => blocks'[h] = blocks[h]
      /\ \A h \in Heights : blocks'[h] # None /\ blocks[h] = None => blocks'[h] = CanonicalHash(h)
      /\ FinalizedHeight' = FinalizedHeight /\ CheckpointHeight' = CheckpointHeight
      /\ StoreInv'
    BY <1>1, <1>3, InsertedIsCanonical
<1> QED BY <1>1, <1>2, <1>4

LEMMA BlockSound ==
    ASSUME LiveTypeInv, FetchesAlone, SoundInv, SyncBlock,
           UNCHANGED <<chainVars, syncVars, batches>>
    PROVE  SoundInv'
<1>1. /\ phase = "sync" /\ linked # {} /\ tip' = tip /\ anchor' = anchor /\ handled' = handled
      /\ batches' = None /\ top' = top /\ chain' = chain
    BY DEF SyncBlock, FetchesAlone, chainVars
<1>2. /\ TypeInv /\ ForksRise /\ StoreInv /\ PassInv /\ SoundStore /\ tip # None /\ anchor = tip
    BY <1>1, LiveTyped, SoundFacts
<1>3. PICK b \in linked :
         LET new == {e \in Due(b.height) : e.height = b.height}
         IN  /\ phase' = IF linked = {b} THEN "final" ELSE "sync"
             /\ new \subseteq CanonicalEvents
             /\ events' = events \cup new
             /\ \A h \in Heights : blocks[h] # None => blocks'[h] = blocks[h]
             /\ \A h \in Heights : blocks'[h] # None /\ blocks[h] = None =>
                                     blocks'[h] = CanonicalHash(h)
             /\ CheckpointHeight' = CheckpointHeight
             /\ StoreInv'
    BY <1>2, BlockStored
<1>4. SoundStore'
    <2>1. events' \subseteq CanonicalEvents
        BY <1>2, <1>3 DEF SoundStore
    <2>2. \A h \in Heights : blocks'[h] # None => blocks'[h] = CanonicalHash(h)
        BY <1>2, <1>3 DEF SoundStore
    <2> QED BY <1>1, <1>2, <1>3, <2>1, <2>2, LogsUnmoved DEF SoundStore
<1>5. PassInv' /\ ForksRise'
    BY <1>1, <1>2, <1>3, ChainAlone DEF PassInv
<1> QED BY <1>1, <1>3, <1>4, <1>5 DEF SoundInv, Unverified

LEMMA LiveSoundStep ==
    ASSUME ReorgsBetweenPasses, ~StaleHeads, LiveTypeInv, LiveTypeInv', FetchesAlone,
           SoundInv, HeadsInv, ReorgsAreShallow => Deep(FinalizedHeight),
           [LiveNext]_<<vars, liveVars>>
    PROVE  SoundInv' /\ HeadsInv'
<1>1. TypeInv /\ TypeInv'
    BY LiveTyped DEF LiveTypeInv, LiveTypeOK, TypeInv
<1>2. CASE [Next]_vars
    BY <1>1, <1>2, SoundStep, HeadsStep
<1>3. CASE LiveOnlyStep
    <2>1. BlockGone => Reset
        BY DEF BlockGone
    <2> QED BY <1>1, <1>3, <2>1, HeadsStep, PlanSound, TrustSound, BlockSound, ResetSound
            DEF LiveOnlyStep
<1> QED BY <1>2, <1>3, LiveSteps

\* A step that touches the store belongs to a pass that has rewound.
LEMMA StoreMoves ==
    ASSUME LiveTypeInv, FetchesAlone, [LiveNext]_<<vars, liveVars>>
    PROVE  UNCHANGED storeVars \/ phase' \notin Unverified
<1>1. CASE LiveOnlyStep
    BY <1>1, PlanIs, SyncBlockIs DEF LiveOnlyStep, AnchorTrusted, BlockGone, Reset, Unverified
<1>2. CASE [Next]_vars
    <2>1. batches # None => phase \in {"sync", "last"}
        BY DEF FetchesAlone
    <2> QED BY <1>2, <2>1
        DEF Next, ReconcileStep, ReadChainTip, NothingToReplay, ReplayUnfinalized,
            AnchorCanonical, AnchorOrphaned, Probe, FailWithReorgError, RewindToAncestor,
            SetSyncAnchor, ProducerStep, ConsumerStep, IndexSafeHeight, IndexBatch,
            RaiseToTip, IndexRemaining, EndStep, EndPass, StopStep, Stop, Reset, ChainStep,
            passVars, vars, Unverified
<1> QED BY <1>1, <1>2, LiveSteps

\* Handlers only run for stored rows, and only a rewind discards their work.
LEMMA HandledMoves ==
    ASSUME LiveTypeInv, FetchesAlone, SoundInv, handled \subseteq events,
           [LiveNext]_<<vars, liveVars>>
    PROVE  \/ handled \subseteq handled' /\ handled' \subseteq events'
           \/ \E height \in Nat : RewindTo(height)
<1>0. TypeInv /\ \A e \in handled : e.height \in Nat
    BY LiveTyped, Typed
<1>1. CASE UNCHANGED <<handled, events>>
    BY <1>1
<1>2. CASE ReplayUnfinalized \/ AnchorCanonical \/ RewindToAncestor
    BY <1>0, <1>2, Rewinds
<1>3. CASE AnchorTrusted
    <2>1. RewindTo(anchor.height) /\ anchor.height \in Nat
        BY <1>0, <1>3, Typed DEF AnchorTrusted, LiveTypeInv
    <2> QED BY <2>1
<1>4. CASE IndexBatch /\ ConsumerStep
    <2>1. events' = events
        BY <1>4 DEF IndexBatch
    <2>2. batches # None /\ \E S \in SUBSET batches.rows :
             handled' = handled \cup InContractRange(S)
        BY <1>0, <1>4, BatchIs DEF Prefix
    <2>3. batches.rows \subseteq events
        BY <2>2 DEF SoundInv, SoundBatches
    <2> QED BY <2>1, <2>2, <2>3 DEF InContractRange
<1>5. CASE \E S : InsertEvents(S) /\ handled' = handled
    BY <1>5 DEF InsertEvents
<1>6. CASE ProducerStep
    <2>1. UNCHANGED handled /\ (UNCHANGED events \/ \E S : InsertEvents(S))
        BY <1>6
           DEF ProducerStep, SyncStep, InitFromScratch, InitFromSaved, WalkPage, StartCatchUp,
               FetchBackfillPage, SaveBackfillPage, SaveCatchUpPage, StorePage, storeVars
    <2> QED BY <1>1, <1>5, <2>1
<1>7. CASE [Next]_vars
    BY <1>1, <1>2, <1>4, <1>6, <1>7
       DEF Next, ReconcileStep, ReadChainTip, NothingToReplay, AnchorOrphaned, Probe,
           FailWithReorgError, SetSyncAnchor, ConsumerStep, IndexSafeHeight, RaiseToTip,
           IndexRemaining, EndStep, EndPass, StopStep, Stop, Reset, ChainStep, storeVars, vars
<1>8. CASE LiveOnlyStep
    <2>1. SyncBlock => \E S : InsertEvents(S) /\ handled' = handled
        BY SyncBlockIs DEF SyncBlock
    <2> QED BY <1>1, <1>3, <1>5, <1>8, <2>1, PlanIs
            DEF LiveOnlyStep, BlockGone, Reset, storeVars
<1> QED BY <1>7, <1>8, LiveSteps

\* A canonical event is in the canonical block at its height.
LEMMA CanonicalAre ==
    ASSUME TypeInv
    PROVE  \A e \in CanonicalEvents :
             /\ e.height \in Heights /\ e.height \in 1..top
             /\ e.fork = chain[e.height].fork /\ e.fork = CanonicalHash(e.height)
<1> SUFFICES ASSUME NEW c \in Contracts, NEW e \in Logs(c)
             PROVE  /\ e.height \in Heights /\ e.height \in 1..top
                    /\ e.fork = chain[e.height].fork /\ e.fork = CanonicalHash(e.height)
    BY DEF CanonicalEvents
<1>1. e.height \in Nat /\ e.height >= 1 /\ e.height <= top /\ e.fork = chain[e.height].fork
    BY Typed, WantedAre, LogsAre
<1>2. e.height \in 1..top
    BY <1>1, Typed
<1> QED BY <1>1, <1>2, Typed DEF CanonicalHash

LEMMA OwnBlocks ==
    ASSUME TypeInv, SoundInv, phase \notin Unverified
    PROVE  \A e \in events : blocks[e.height] = e.fork
BY CanonicalAre DEF SoundInv, SoundStore, StoreInv

LEMMA KeptStep ==
    ASSUME LiveTypeInv, LiveTypeInv', FetchesAlone, SoundInv, SoundInv', KeptInv,
           [LiveNext]_<<vars, liveVars>>
    PROVE  KeptInv'
<1>1. handled' \subseteq events'
    <2>1. CASE \E height \in Nat : RewindTo(height)
        BY <2>1 DEF RewindTo, KeptInv
    <2> QED BY <2>1, HandledMoves DEF KeptInv
<1>2. phase' \in Unverified => \A e \in events' : blocks'[e.height] = e.fork
    BY StoreMoves, OwnBlocks, LiveTyped DEF storeVars, KeptInv
<1> QED BY <1>1, <1>2 DEF KeptInv

\* A handled event whose block is still canonical is at or below every rewind:
\* the search for an ancestor has its block left to look at until then.
LEMMA CanonicalKeptStep ==
    ASSUME LiveTypeInv, FetchesAlone, SoundInv, HeadsInv, KeptInv, [LiveNext]_<<vars, liveVars>>
    PROVE  handled \cap CanonicalEvents \subseteq handled'
<1>0. /\ TypeInv /\ StoreInv /\ PassInv /\ CheckpointHeight \in Nat /\ FinalizedHeight \in Nat
      /\ anchor # None => anchor.height \in Nat
      /\ \A e \in handled : e.height \in Nat /\ e.height \in Heights
    BY LiveTyped, Typed DEF SoundInv
<1>1. CASE handled \subseteq handled'
    BY <1>1
<1>2. CASE ReplayUnfinalized
    <2>1. handled = {}
        BY <1>0, <1>2 DEF ReplayUnfinalized, StoreInv, StoreInit
    <2> QED BY <2>1
<1>3. CASE AnchorCanonical \/ AnchorTrusted
    <2>1. RewindTo(anchor.height) /\ anchor # None /\ phase \in Unverified
        BY <1>3 DEF AnchorCanonical, AnchorTrusted, LiveTypeInv, Unverified
    <2>2. PICK m \in 0..top : SoundHeight(m)
        BY <2>1 DEF SoundInv
    <2>3. \A e \in handled : e.height <= anchor.height
        BY <1>0, <2>1, <2>2 DEF SoundHeight, SoundUpTo, StoreInv
    <2>4. handled' = {e \in handled : e.height <= anchor.height}
        BY <2>1 DEF RewindTo
    <2> QED BY <2>3, <2>4
<1>4. CASE RewindToAncestor
    <2>1. /\ phase = "search" /\ probing = {} /\ ~FinalizedReplaced
          /\ RewindTo(IF ancestor = None THEN FinalizedHeight ELSE ancestor)
        BY <1>4 DEF RewindToAncestor
    <2>2. PICK m \in 0..top : SoundHeight(m)
        BY <2>1 DEF SoundInv, Unverified
    <2>3. /\ SearchInv(m) /\ DifferAbove(m) /\ m \in Nat /\ anchor # None /\ StoreInv
          /\ \A e \in handled : e.height <= anchor.height
          /\ ancestor # None => ancestor \in Nat
        BY <1>0, <2>1, <2>2, Typed DEF SoundHeight, SoundUpTo, SearchInv, StoreInv, PassTypeOK
    <2>4. PICK height \in Nat :
            /\ height = IF ancestor = None THEN FinalizedHeight ELSE ancestor
            /\ handled' = {e \in handled : e.height <= height}
            /\ FinalizedHeight <= height
        BY <1>0, <2>1, <2>3 DEF RewindTo, SearchInv
    <2>5. ASSUME NEW e \in handled, e \in CanonicalEvents, height < e.height PROVE FALSE
        <3>1. /\ e.fork = CanonicalHash(e.height) /\ e.height \in Heights /\ e.height \in 1..top
              /\ e.fork = chain[e.height].fork
            BY <1>0, <2>5, CanonicalAre
        <3>2. blocks[e.height] = e.fork /\ blocks[e.height] # None
            BY <2>1, <2>3, <2>5 DEF KeptInv, StoreInv, Unverified
        <3>3. e.height <= m
            <4> SUFFICES ASSUME m < e.height PROVE FALSE
                BY <1>0, <2>3
            <4>1. Outdated(blocks[e.height], m)
                BY <1>0, <2>3, <3>1, <3>2 DEF DifferAbove
            <4>2. e.height \in (m + 1)..top /\ chain[e.height].fork \in Nat
                BY <1>0, <2>3, <3>1, Typed
            <4> QED BY <3>1, <3>2, <4>1, <4>2 DEF Outdated
        <3>4. e.height \in FinalizedHeight..MinOf(anchor.height, m) /\ e.height > 0
            BY <1>0, <2>3, <2>4, <2>5, <3>3 DEF MinOf
        <3>5. ancestor # None => ancestor < e.height
            BY <2>4, <2>5
        <3>6. e.height \in probing
            BY <2>3, <3>2, <3>4, <3>5 DEF SearchInv
        <3> QED BY <2>1, <3>6
    <2>6. \A e \in handled \cap CanonicalEvents : e.height <= height
        BY <1>0, <2>4, <2>5
    <2> QED BY <2>4, <2>6
<1>5. CASE \A height \in Nat : ~RewindTo(height)
    BY <1>5, HandledMoves DEF KeptInv
<1>6. CASE [Next]_vars
    <2>1. ReconcileStep \/ UNCHANGED handled \/ IndexBatch
        BY <1>6 DEF Next, ProducerStep, SyncStep, InitFromScratch, InitFromSaved, WalkPage,
           StartCatchUp, FetchBackfillPage, SaveBackfillPage, SaveCatchUpPage, StorePage,
           ConsumerStep, IndexSafeHeight, RaiseToTip, IndexRemaining, EndStep, EndPass,
           StopStep, Stop, Reset, ChainStep, storeVars, vars
    <2>2. IndexBatch => handled \subseteq handled'
        BY <1>0, BatchIs
    <2>3. ReconcileStep => \/ UNCHANGED handled \/ ReplayUnfinalized
                           \/ AnchorCanonical \/ RewindToAncestor
        BY DEF ReconcileStep, ReadChainTip, NothingToReplay, AnchorOrphaned, Probe,
           FailWithReorgError, SetSyncAnchor, storeVars
    <2> QED BY <1>1, <1>2, <1>3, <1>4, <2>1, <2>2, <2>3
<1>7. CASE LiveOnlyStep
    BY <1>1, <1>3, <1>7, PlanIs DEF LiveOnlyStep, SyncBlock, BlockGone, Reset, storeVars
<1> QED BY <1>6, <1>7, LiveSteps

\* What live indexing knows of its store, wherever passes stop.
LiveSoundInv ==
    /\ LiveTypeInv
    /\ FetchesAlone
    /\ FollowInv
    /\ SoundInv
    /\ HeadsInv
    /\ KeptInv

LEMMA LiveSoundInit == LiveInit => SoundInv /\ HeadsInv /\ KeptInv
<1> SUFFICES ASSUME LiveInit PROVE SoundInv /\ HeadsInv /\ KeptInv
    OBVIOUS
<1>1. Init /\ TypeInv
    BY LiveTypeInit, LiveTyped DEF LiveInit
<1>2. offered = None /\ phase = "idle" /\ handled = {} /\ events = {}
    BY <1>1 DEF LiveInit, Init, PassInit, StoreInit
<1> QED BY <1>1, <1>2, SoundInit DEF HeadsInv, KeptInv

\* Nothing wrong is kept while heads are followed, wherever passes stop: until
\* a pass has rewound the stored data is canonical up to a common height, and
\* from then on everywhere; a head's pass trusts only an anchor that is
\* canonical, and the blocks of stored events tell their fork.
THEOREM LiveSoundInvariant ==
    ASSUME ReorgsBetweenPasses, ~StaleHeads
    PROVE  LiveSpec => []LiveSoundInv
<1>1. TipHasHash
    BY DEF ReorgsBetweenPasses, TipHasHash
<1>2. LiveSpec => []FollowInv
    BY <1>1, FollowAlways
<1>3. LiveSpec => [](ReorgsAreShallow => Deep(FinalizedHeight))
    <2>1. CASE ReorgsAreShallow
        <3>1. LiveFinalityInv => (ReorgsAreShallow => Deep(FinalizedHeight))
            BY DEF LiveFinalityInv, FinalityInv, MayBeFinal
        <3>2. HeadsAreRecent
            BY <1>1 DEF HeadsAreRecent
        <3> QED BY <2>1, <3>1, <3>2, LiveFinality, PTL
    <2>2. CASE ~ReorgsAreShallow
        <3>1. TRUE => (ReorgsAreShallow => Deep(FinalizedHeight))
            BY <2>2
        <3> QED BY <3>1, PTL
    <2> QED BY <2>1, <2>2
<1>4. /\ LiveTypeInv /\ LiveTypeInv' /\ FetchesAlone /\ SoundInv /\ HeadsInv /\ KeptInv
      /\ (ReorgsAreShallow => Deep(FinalizedHeight)) /\ [LiveNext]_<<vars, liveVars>>
      => SoundInv' /\ HeadsInv' /\ KeptInv'
    BY LiveSoundStep, KeptStep
<1> QED BY <1>2, <1>3, <1>4, LiveSoundInit, LiveTypeAlways, FetchesAlways, PTL
        DEF LiveSpec, LiveSoundInv

\* Once a head's pass has reconciled, or trusted its anchor, no stored event or
\* block is orphaned.
THEOREM LiveStoredStaysCanonical ==
    ASSUME ReorgsBetweenPasses, ~StaleHeads
    PROVE  LiveSpec => []StoredIsCanonical
<1>1. LiveSoundInv => StoredIsCanonical
    BY SoundIsCanonical DEF LiveSoundInv
<1> QED BY <1>1, LiveSoundInvariant, PTL

\* What was handled at or below the finalized block stays canonical while
\* heads are followed, as long as no reorg is deeper than the finality.
THEOREM LiveFinalizedWorkStands ==
    ASSUME ReorgsBetweenPasses, ~StaleHeads, ReorgsAreShallow
    PROVE  LiveSpec => []FinalizedStands
<1>1. LiveSoundInv => FinalizedStands
    BY FinalIsCanonical, LiveTyped DEF LiveSoundInv
<1> QED BY <1>1, LiveSoundInvariant, PTL

\* No head's pass fails with a ReorgError over a reorg no deeper than the
\* finality.
THEOREM LiveNeverReorgError ==
    ASSUME ReorgsBetweenPasses, ~StaleHeads, ReorgsAreShallow
    PROVE  LiveSpec => []NoReorgError
<1>1. LiveSoundInv => NoReorgError
    BY DEF LiveSoundInv, SoundInv, PassInv, NoReorgError
<1> QED BY <1>1, LiveSoundInvariant, PTL

\* A lagging head, a trusted anchor, a search for an ancestor or a stop never
\* makes a handler see again an event whose block is still canonical.
THEOREM LiveCanonicalNeverReplayed ==
    ASSUME ReorgsBetweenPasses, ~StaleHeads
    PROVE  LiveSpec => CanonicalNeverReplayed
<1>1. LiveSoundInv /\ [LiveNext]_<<vars, liveVars>> =>
        [handled \cap CanonicalEvents \subseteq handled']_<<vars, liveVars>>
    BY CanonicalKeptStep DEF LiveSoundInv
<1> QED BY <1>1, LiveSoundInvariant, PTL DEF LiveSpec, CanonicalNeverReplayed

-----------------------------------------------------------------------------
(* What is stored is complete.                                              *)

\* Nothing is missed when heads are followed if no reorg comes under a waiting
\* head either, and no pass that syncs stops short: the finding
\* end_block_missed is about the pass of the next head.
NothingInTheWayOfHeads ==
    /\ NothingInTheWay
    /\ ~StaleHeads
    /\ "sync" \notin StopPhases

\* An anchor that is canonical, once its pass is over, is one through which
\* everything is stored; the search is for an ancestor of one that is not.
AnchorInv ==
    /\ phase = "search" => anchor # None /\ CanonicalHash(anchor.height) # anchor.hash
    /\ anchor # None /\ phase # "sync" /\ CanonicalHash(anchor.height) = anchor.hash =>
         StoredThrough(anchor.height)

\* The linked blocks are those from a height to the tip of the pass, and
\* everything below them is stored.
LinkedFrom(n) ==
    /\ linked = {LightBlockAt(h) : h \in n..tip.height}
    /\ StoredThrough(n - 1)

\* Blocks are fetched one by one from the anchor on, and the producer waits.
LinkedInv == linked # {} =>
    /\ Contracts # {}
    /\ \/ /\ phase \in {"trusted", "setAnchor"}
          /\ anchor # None
          /\ CanonicalHash(anchor.height) = anchor.hash
          /\ LinkedFrom(anchor.height + 1)
       \/ /\ phase = "sync"
          /\ sync = [c \in Contracts |-> FreshState(c)]
          /\ \E n \in 1..tip.height : LinkedFrom(n)

\* The last call of a pass holds every event it has still to index.
LastInv == phase = "last" =>
    \A c \in Contracts : \A e \in DueOf(c, tip.height) :
        e.height > CheckpointHeight => batches # None /\ e \in batches.rows

LEMMA NotResuming ==
    ASSUME NothingInTheWayOfHeads
    PROVE  /\ ~Resuming /\ ResumeInv /\ ResumeInv'
           /\ NothingInTheWay /\ ReorgsBetweenPasses /\ ~StaleHeads
BY DEF NothingInTheWayOfHeads, NothingInTheWay, Resuming, ResumeInv

\* The steps of a head's pass miss nothing.
LEMMA PlanStored ==
    ASSUME NothingInTheWayOfHeads, LiveTypeInv, FetchesAlone, StoredInv, HeadsInv, PlanStep,
           UNCHANGED <<chainVars, syncVars, batches>>
    PROVE  StoredInv'
<1>1. TypeInv /\ PassInv /\ ResumeInv'
    BY LiveTyped, NotResuming DEF StoredInv
<1>2. /\ UNCHANGED storeVars
      /\ phase \in Unverified /\ phase' \in {"plan", "trusted", "reconcile"}
      /\ PassInv'
      /\ \A m \in 0..top : KeptBelowTip(m) => KeptBelowTip(m)'
    BY <1>1, PlanKept
<1>3. PICK m \in 0..top : CommonHeight(m)
    BY <1>2 DEF StoredInv
<1>4. KeptBelowTip(m)'
    BY <1>2, <1>3 DEF CommonHeight
<1> QED BY <1>1, <1>2, <1>3, <1>4, UnverifiedStep DEF Unverified

LEMMA TrustStored ==
    ASSUME NothingInTheWayOfHeads, LiveTypeInv, LiveTypeInv', FetchesAlone, StoredInv, HeadsInv,
           AnchorTrusted, UNCHANGED <<chainVars, syncVars, batches>>
    PROVE  StoredInv'
<1>1. /\ phase = "trusted" /\ phase' = "setAnchor" /\ RewindTo(anchor.height) /\ tip' = tip
      /\ anchor # None /\ CanonicalHash(anchor.height) = anchor.hash
    BY DEF AnchorTrusted, HeadsInv
<1>2. /\ TypeInv /\ TypeInv' /\ StoreInv
      /\ anchor.height \in Nat /\ CheckpointHeight \in Nat /\ FinalizedHeight \in Nat
    BY <1>1, LiveTyped, Typed DEF StoredInv, LiveTypeInv, LiveTypeOK, TypeInv
<1>3. PICK m \in 0..top : CommonHeight(m)
    BY <1>1 DEF StoredInv, Unverified
<1>4. /\ AgreeUpTo(m) /\ anchor.height <= m /\ MinOf(anchor.height, m) <= tip.height
    BY <1>1, <1>2, <1>3, AnchorIsCommon DEF CommonHeight, KeptBelowTip
<1>5. CheckpointHeight <= anchor.height /\ FinalizedHeight <= anchor.height
    BY <1>1, <1>2 DEF StoreInv
<1>6. ~(anchor.height < CheckpointHeight) /\ ~Resuming
    BY <1>2, <1>5, NotResuming
<1> QED BY <1>1, <1>2, <1>3, <1>4, <1>5, <1>6, RewindStored

\* The next block of the linked ones is the lowest.
LEMMA NextBlockIs ==
    ASSUME NEW n \in Nat, NEW to \in Nat, n <= to,
           linked = {LightBlockAt(h) : h \in n..to}, NEW b, IsNextBlock(b)
    PROVE  /\ b = LightBlockAt(n) /\ b.height = n
           /\ linked \ {b} = {LightBlockAt(h) : h \in (n + 1)..to}
           /\ linked = {b} <=> n = to
<1>1. \A h : LightBlockAt(h).height = h
    BY DEF LightBlockAt
<1>2. n \in n..to /\ LightBlockAt(n) \in linked /\ b \in linked
    BY DEF IsNextBlock
<1>3. b.height <= n
    BY <1>1, <1>2 DEF IsNextBlock
<1>4. PICK g \in n..to : b = LightBlockAt(g)
    BY <1>2
<1>5. g = n
    BY <1>1, <1>3, <1>4
<1>6. b = LightBlockAt(n) /\ b.height = n
    BY <1>1, <1>4, <1>5
<1>7. \A h \in n..to : LightBlockAt(h) = b <=> h = n
    BY <1>1, <1>6
<1>8. linked \ {b} = {LightBlockAt(h) : h \in (n + 1)..to}
    <2>1. \A h \in n..to : h \in (n + 1)..to <=> h # n
        OBVIOUS
    <2>2. \A h \in (n + 1)..to : h \in n..to
        OBVIOUS
    <2> QED BY <1>7, <2>1, <2>2
<1>9. linked = {b} <=> n = to
    <2>1. n = to => n..to = {n}
        OBVIOUS
    <2>2. n # to => n + 1 \in (n + 1)..to
        OBVIOUS
    <2>3. n # to => LightBlockAt(n + 1) \in linked \ {b}
        BY <1>8, <2>2
    <2> QED BY <1>2, <1>6, <2>1, <2>3
<1> QED BY <1>6, <1>8, <1>9

\* What a step by block stores: everything through the block, canonical.
LEMMA BlockKept ==
    ASSUME LiveTypeInv, LiveTypeInv', StoredInv, LinkedInv, SyncBlock, UNCHANGED chainVars
    PROVE  \E n \in 1..tip.height :
             /\ LinkedFrom(n)
             /\ linked' = {LightBlockAt(h) : h \in (n + 1)..tip.height}
             /\ phase' = IF n = tip.height THEN "final" ELSE "sync"
             /\ StoredThrough(n)'
             /\ StoreInv' /\ Canonical'
             /\ \A c \in Contracts : progress'[c] # None =>
                  /\ progress[c] # None /\ progress'[c].cursor = progress[c].cursor
                  /\ progress'[c].synced \in {progress[c].synced, n}
<1>1. /\ phase = "sync" /\ linked # {} /\ UNCHANGED <<tip, anchor, handled>>
      /\ TypeInv /\ TypeInv' /\ ChainTypeOK
    BY LiveTyped, Typed DEF SyncBlock, LiveTypeInv, LiveTypeOK, TypeInv
<1>2. /\ ForksRise /\ StoreInv /\ Canonical /\ tip # None /\ anchor = tip /\ tip.height \in Nat
    BY <1>1, SyncFacts
<1>3. PICK b \in linked :
         LET new == {e \in Due(b.height) : e.height = b.height}
         IN  /\ IsNextBlock(b)
             /\ linked' = linked \ {b}
             /\ phase' = IF linked = {b} THEN "final" ELSE "sync"
             /\ RaiseSyncedBlockHeight({c \in Contracts : InRange(c, b.height)}, b.height)
             /\ new \subseteq CanonicalEvents
             /\ events' = events \cup new
             /\ \A h \in Heights : blocks[h] # None => blocks'[h] = blocks[h]
             /\ \A h \in Heights : blocks'[h] # None /\ blocks[h] = None =>
                                     blocks'[h] = CanonicalHash(h)
             /\ CheckpointHeight' = CheckpointHeight
             /\ StoreInv'
    BY <1>1, <1>2, BlockStored
<1>4. PICK n \in 1..tip.height : LinkedFrom(n)
    BY <1>1 DEF LinkedInv
<1>5. /\ n \in Nat /\ n <= tip.height /\ b.height = n
      /\ linked \ {b} = {LightBlockAt(h) : h \in (n + 1)..tip.height}
      /\ linked = {b} <=> n = tip.height
    <2>1. n \in Nat /\ n <= tip.height
        BY <1>2
    <2> QED BY <1>2, <1>3, <1>4, <2>1, NextBlockIs DEF LinkedFrom
<1>6. StoredThrough(n)'
    <2> SUFFICES ASSUME NEW c \in Contracts, NEW e \in DueOf(c, n)
                 PROVE  e \in events'
        BY <1>1, LogsUnmoved DEF StoredThrough
    <2>1. e.height \in Nat /\ e.height <= n
        BY <1>1, WantedAre DEF DueOf
    <2>2. CASE e.height = n
        <3>1. e \in Due(n)
            BY <1>1, DueIs
        <3> QED BY <1>3, <1>5, <2>2, <3>1
    <2>3. CASE e.height # n
        <3>1. e \in DueOf(c, n - 1)
            BY <1>5, <2>1, <2>3 DEF DueOf
        <3> QED BY <1>3, <1>4, <3>1 DEF LinkedFrom, StoredThrough
    <2> QED BY <2>2, <2>3
<1>7. Canonical'
    <2>1. events' \subseteq CanonicalEvents
        BY <1>2, <1>3 DEF Canonical
    <2>2. \A h \in Heights : blocks'[h] # None => blocks'[h] = CanonicalHash(h)
        BY <1>2, <1>3 DEF Canonical
    <2> QED BY <1>1, <1>2, <1>3, <2>1, <2>2, LogsUnmoved DEF Canonical
<1>8. ASSUME NEW c \in Contracts, progress'[c] # None
      PROVE  /\ progress[c] # None /\ progress'[c].cursor = progress[c].cursor
             /\ progress'[c].synced \in {progress[c].synced, n}
    <2>1. \/ progress'[c] = progress[c]
          \/ progress[c] # None /\ progress'[c] = [progress[c] EXCEPT !.synced = n]
        BY <1>3, <1>5 DEF RaiseSyncedBlockHeight
    <2>2. progress[c] # None => progress[c] \in Progress
        BY <1>1, Typed DEF StoreTypeOK
    <2> QED BY <1>8, <2>1, <2>2 DEF Progress
<1> QED BY <1>3, <1>4, <1>5, <1>6, <1>7, <1>8

LEMMA BlockComplete ==
    ASSUME NothingInTheWayOfHeads, LiveTypeInv, LiveTypeInv', FetchesAlone, StoredInv, LinkedInv,
           SyncBlock, UNCHANGED <<chainVars, syncVars, batches>>
    PROVE  StoredInv'
<1>1. /\ phase = "sync" /\ linked # {} /\ UNCHANGED <<tip, anchor>>
      /\ sync = [c \in Contracts |-> FreshState(c)] /\ queue = <<>> /\ batches = None
      /\ sync' = sync /\ queue' = queue /\ batches' = batches
      /\ TypeInv /\ TypeInv' /\ ChainTypeOK
    BY LiveTyped, Typed
       DEF SyncBlock, LinkedInv, FetchesAlone, syncVars, LiveTypeInv, LiveTypeOK, TypeInv
<1>2. /\ ForksRise /\ PassInv /\ SavedCursors /\ ProgressHolds /\ SyncingInv
      /\ tip # None /\ anchor = tip /\ tip.height \in Nat
      /\ ~Resuming /\ ResumeInv'
    BY <1>1, SyncFacts, NotResuming
<1>3. PICK n \in 1..tip.height :
         /\ phase' = IF n = tip.height THEN "final" ELSE "sync"
         /\ StoredThrough(n)'
         /\ StoreInv' /\ Canonical'
         /\ \A c \in Contracts : progress'[c] # None =>
              /\ progress[c] # None /\ progress'[c].cursor = progress[c].cursor
              /\ progress'[c].synced \in {progress[c].synced, n}
    BY <1>1, BlockKept
<1>4. ForksRise' /\ PassInv'
    <2>1. top' = top /\ chain' = chain
        BY DEF chainVars
    <2> QED BY <1>1, <1>2, <1>3, <2>1, ChainAlone DEF PassInv
<1>5. ASSUME NEW c \in Contracts, progress'[c] # None PROVE progress'[c].cursor = None
    <2>1. sync[c].mode = "start"
        BY <1>1 DEF FreshState
    <2> QED BY <1>2, <1>3, <1>5, <2>1 DEF SavedCursors
<1>6. SavedCursors'
    BY <1>5 DEF SavedCursors
<1>7. ASSUME NEW c \in Contracts, progress'[c] # None
      PROVE  /\ progress'[c].synced <= tip.height
             /\ DueOf(c, MinOf(progress'[c].synced, tip.height)) \subseteq events'
    <2>1. /\ progress[c].synced \in Nat /\ progress[c].synced <= tip.height
          /\ DueOf(c, MinOf(progress[c].synced, tip.height)) \subseteq events
        <3>1. ContractInv(c, sync[c]) /\ sync[c].mode = "start"
            BY <1>1, <1>2 DEF SyncingInv, FreshState
        <3> QED BY <1>1, <1>2, <1>3, <1>7, <3>1, Typed DEF ContractInv, ProgressHolds
    <2>2. CASE progress'[c].synced = n
        <3>1. MinOf(n, tip.height) = n /\ n <= tip.height
            BY <1>2 DEF MinOf
        <3>2. DueOf(c, n) \subseteq events'
            BY <1>3, LogsUnmoved DEF StoredThrough
        <3> QED BY <2>2, <3>1, <3>2
    <2>3. CASE progress'[c].synced = progress[c].synced
        <3>1. events \subseteq events'
            BY <1>1 DEF SyncBlock, InsertEvents
        <3> QED BY <1>1, <2>1, <2>3, <3>1
    <2> QED BY <1>3, <1>7, <2>2, <2>3
<1>8. ProgressHolds'
    BY <1>1, <1>7, LogsUnmoved DEF ProgressHolds
<1>9. CASE n = tip.height
    <2>1. StoredThrough(tip.height)' /\ phase' = "final"
        BY <1>1, <1>3, <1>9, LogsUnmoved DEF StoredThrough
    <2> QED BY <1>1, <1>2, <1>3, <1>4, <1>6, <1>8, <2>1
            DEF StoredInv, Unverified, SyncingInv
<1>10. CASE n # tip.height
    <2>1. phase' = "sync"
        BY <1>3, <1>10
    <2>2. \A c \in Contracts : ContractInv(c, sync[c])'
        <3> SUFFICES ASSUME NEW c \in Contracts PROVE ContractInv(c, sync[c])'
            OBVIOUS
        <3>1. ContractInv(c, sync[c]) /\ events \subseteq events'
            BY <1>1, <1>2 DEF SyncingInv, SyncBlock, InsertEvents
        <3> QED BY <1>1, <1>7, <3>1, ContractAlone
    <2>3. DOMAIN queue' = {}
        BY <1>1
    <2> QED BY <1>1, <1>2, <1>3, <1>4, <1>6, <1>8, <2>1, <2>2, <2>3
            DEF StoredInv, Unverified, SyncingInv
<1> QED BY <1>9, <1>10

\* A linked block is canonical as long as its pass syncs.
LEMMA LinkedAreCanonical ==
    ASSUME LiveTypeInv, StoredInv, LinkedInv, phase = "sync", NEW b \in linked
    PROVE  ~Gone(b)
<1>1. PICK n \in 1..tip.height : LinkedFrom(n)
    BY DEF LinkedInv
<1>2. PICK h \in n..tip.height : b = LightBlockAt(h)
    BY <1>1 DEF LinkedFrom
<1>3. tip.height \in 1..top
    BY LiveTyped, SyncFacts
<1>4. h \in 1..top
    BY <1>1, <1>2, <1>3, LiveTyped, Typed
<1> QED BY <1>2, <1>4 DEF LightBlockAt, Gone, CanonicalHash

LEMMA LiveStoredStep ==
    ASSUME NothingInTheWayOfHeads, LiveTypeInv, LiveTypeInv', FetchesAlone, StoredInv, HeadsInv,
           LinkedInv, ReorgsAreShallow => Deep(FinalizedHeight), [LiveNext]_<<vars, liveVars>>
    PROVE  StoredInv' /\ HeadsInv'
<1>1. TypeInv /\ TypeInv' /\ NothingInTheWay /\ ReorgsBetweenPasses /\ ~StaleHeads
    BY LiveTyped, NotResuming DEF LiveTypeInv, LiveTypeOK, TypeInv
<1>2. CASE [Next]_vars
    BY <1>1, <1>2, StoredStep, HeadsStep
<1>3. CASE LiveOnlyStep
    <2>1. ~BlockGone
        BY LinkedAreCanonical DEF BlockGone
    <2> QED BY <1>1, <1>3, <2>1, HeadsStep, PlanStored, TrustStored, BlockComplete
            DEF LiveOnlyStep
<1> QED BY <1>2, <1>3, LiveSteps

\* An anchor that the chain has after a move is one it had before, with the
\* same events up to it: new blocks and new forks are younger.
LEMMA AnchorMoved ==
    ASSUME TypeInv, TypeInv', StoreInv, Mine \/ Reorg, anchor # None,
           UNCHANGED <<anchor, events>>, CanonicalHash(anchor.height)' = anchor.hash
    PROVE  /\ CanonicalHash(anchor.height) = anchor.hash
           /\ StoredThrough(anchor.height) => StoredThrough(anchor.height)'
<1>1. /\ ChainTypeOK /\ ChainTypeOK' /\ top \in Nat /\ top' \in Nat /\ forks \in Nat
      /\ anchor.height \in Nat /\ anchor.height >= 1 /\ anchor.hash \in Nat
      /\ anchor.hash # None /\ anchor.hash <= forks
      /\ anchor.height > top => anchor.hash < forks
    BY Typed, NoneAssumption DEF TypeInv, TypeOK, ChainTypeOK, StoreInv, Heights
<1>2. anchor.height \in 1..top' /\ chain'[anchor.height].fork = anchor.hash
    BY <1>1 DEF CanonicalHash
<1>3. CASE Mine
    <2>1. /\ \A h \in 1..top : chain'[h] = chain[h]
          /\ \A h \in (top + 1)..top' : chain'[h].fork = forks
          /\ \A h \in Int : h <= top => \A c \in Contracts : DueOf(c, h)' = DueOf(c, h)
        BY <1>1, <1>3, AtLeastGrown
    <2>2. anchor.height \in 1..top
        <3>1. anchor.height \in 1..top \/ anchor.height \in (top + 1)..top'
            BY <1>1, <1>2
        <3> QED BY <1>1, <1>2, <2>1, <3>1
    <2> QED BY <1>1, <1>2, <2>1, <2>2 DEF CanonicalHash, StoredThrough
<1>4. CASE Reorg
    <2>1. PICK k \in 0..(top - 1) :
            /\ top' = k + 1
            /\ \A h \in Heights : h <= k => chain'[h] = chain[h]
            /\ \A h \in Heights : h = k + 1 => chain'[h].fork = forks + 1
        BY <1>4 DEF Reorg
    <2>2. k \in Nat /\ k <= top /\ k <= top' /\ anchor.height \in Heights
        BY <1>1, <2>1, Typed
    <2>3. anchor.height <= k
        BY <1>1, <1>2, <2>1, <2>2
    <2>4. \A h \in 1..k : h \in Heights /\ h <= k
        BY <1>1, <2>2, Typed
    <2>5. \A h \in 1..k : chain'[h] = chain[h]
        BY <2>1, <2>4
    <2>6. \A h \in Int : h <= k => \A c \in Contracts : DueOf(c, h)' = DueOf(c, h)
        BY <1>1, <2>2, <2>5, SamePrefix
    <2> QED BY <1>1, <1>2, <2>2, <2>3, <2>5, <2>6 DEF CanonicalHash, StoredThrough
<1> QED BY <1>3, <1>4

\* A pass that ends while it syncs failed: a page lacks a transaction, a block
\* is gone, or it stopped.  None of them happens.
LEMMA SyncsToItsEnd ==
    ASSUME NothingInTheWayOfHeads, LiveTypeInv, StoredInv, LinkedInv, phase = "sync",
           [LiveNext]_<<vars, liveVars>>
    PROVE  phase' \in {"sync", "final", "last"}
<1>1. TypeInv
    BY LiveTyped
<1>2. ~EndPass /\ ~BlockGone /\ ~Stop
    BY <1>1, PagesAreFetchable, LinkedAreCanonical
       DEF EndPass, BlockGone, Stop, NothingInTheWayOfHeads
<1>3. CASE [Next]_vars
    BY <1>2, <1>3
       DEF Next, ReconcileStep, ReadChainTip, NothingToReplay, ReplayUnfinalized,
           AnchorCanonical, AnchorOrphaned, Probe, FailWithReorgError, RewindToAncestor,
           SetSyncAnchor, ProducerStep, ConsumerStep, IndexSafeHeight, IndexBatch,
           RaiseToTip, IndexRemaining, EndStep, StopStep, ChainStep, passVars, vars
<1>4. CASE LiveOnlyStep
    BY <1>2, <1>4, PlanIs DEF LiveOnlyStep, AnchorTrusted, SyncBlock
<1> QED BY <1>3, <1>4, LiveSteps

LEMMA AnchorStep ==
    ASSUME NothingInTheWayOfHeads, LiveTypeInv, LiveTypeInv', FetchesAlone, StoredInv, StoredInv',
           AnchorInv, LinkedInv, [LiveNext]_<<vars, liveVars>>
    PROVE  AnchorInv'
<1>0. TypeInv /\ TypeInv' /\ StoreInv /\ ChainTypeOK
    BY LiveTyped, Typed DEF StoredInv, LiveTypeInv, LiveTypeOK, TypeInv
<1>1. CASE phase' \in {"final", "last"}
    <2>1. anchor' = tip' /\ StoredThrough(tip.height)'
        BY <1>1 DEF StoredInv, PassInv, SyncingInv
    <2> QED BY <1>1, <2>1 DEF AnchorInv, StoredThrough
<1>2. CASE phase' = "sync"
    BY <1>2 DEF AnchorInv
<1>3. CASE /\ UNCHANGED <<chainVars, events, anchor>> /\ phase # "sync"
           /\ phase' = "search" => phase = "search" \/ AnchorOrphaned
    <2>1. /\ (\A h : CanonicalHash(h)' = CanonicalHash(h))
          /\ (\A h : StoredThrough(h)' <=> StoredThrough(h))
        BY <1>3, LogsUnmoved DEF StoredThrough
    <2> QED BY <1>3, <2>1 DEF AnchorInv, AnchorOrphaned
<1>4. CASE AnchorCanonical \/ AnchorTrusted
    <2>1. /\ RewindTo(anchor.height) /\ anchor' = anchor /\ phase' = "setAnchor" /\ anchor # None
          /\ phase # "sync"
        BY <1>4 DEF AnchorCanonical, AnchorTrusted, RewindTo, LiveTypeInv
    <2>2. UNCHANGED chainVars
        BY <1>4, <2>1, LiveSteps
           DEF Next, ReconcileStep, ProducerStep, ConsumerStep, EndStep, EndPass, StopStep, Stop,
               Reset, ChainStep, IndexSafeHeight, RaiseToTip, IndexRemaining, passVars, vars,
               LiveOnlyStep, AnchorCanonical, AnchorTrusted
    <2>3. ASSUME CanonicalHash(anchor.height) = anchor.hash PROVE StoredThrough(anchor.height)'
        <3> SUFFICES ASSUME NEW c \in Contracts, NEW e \in DueOf(c, anchor.height)
                     PROVE  e \in events'
            BY <2>1, <2>2, LogsUnmoved DEF StoredThrough
        <3>1. e \in events
            BY <2>1, <2>3 DEF AnchorInv, StoredThrough
        <3> QED BY <2>1, <3>1 DEF RewindTo, DueOf
    <2> QED BY <2>1, <2>2, <2>3, LogsUnmoved DEF AnchorInv
<1>5. CASE ReplayUnfinalized
    BY <1>5 DEF ReplayUnfinalized, RewindTo, AnchorInv
<1>6. CASE RewindToAncestor /\ UNCHANGED chainVars
    <2>1. /\ anchor' = anchor /\ phase = "search" /\ phase' = "setAnchor"
        BY <1>6 DEF RewindToAncestor, RewindTo
    <2> QED BY <1>6, <2>1, LogsUnmoved DEF AnchorInv
<1>7. CASE (Mine \/ Reorg) /\ UNCHANGED <<anchor, events, phase>>
    <2>1. CASE anchor = None
        BY <1>7, <2>1 DEF AnchorInv
    <2>2. CASE anchor # None
        <3>1. CanonicalHash(anchor.height)' = anchor.hash =>
                /\ CanonicalHash(anchor.height) = anchor.hash
                /\ StoredThrough(anchor.height) => StoredThrough(anchor.height)'
            BY <1>0, <1>7, <2>2, AnchorMoved
        <3> QED BY <1>7, <2>2, <3>1 DEF AnchorInv
    <2> QED BY <2>1, <2>2
<1>8. CASE phase # "sync"
    <2>1. CASE ReconcileStep
        BY <2>1, <1>2, <1>3, <1>4, <1>5, <1>6, <1>8
           DEF ReconcileStep, ReadChainTip, NothingToReplay, AnchorOrphaned, Probe,
               FailWithReorgError, SetSyncAnchor, storeVars
    <2>2. CASE ConsumerStep
        <3>1. batches # None => phase \in {"sync", "last"}
            BY DEF FetchesAlone
        <3> QED BY <1>1, <1>8, <2>2, <3>1
                DEF ConsumerStep, IndexSafeHeight, IndexBatch, RaiseToTip, IndexRemaining, passVars
    <2>3. CASE EndStep \/ StopStep \/ UNCHANGED vars
        BY <1>3, <1>8, <2>3 DEF EndStep, EndPass, StopStep, Stop, Reset, storeVars, passVars, vars
    <2>4. CASE ChainStep
        BY <1>7, <2>4 DEF ChainStep, storeVars, passVars
    <2>5. CASE LiveOnlyStep
        <3>1. PlanStep => UNCHANGED <<events, anchor>> /\ phase' # "search"
            BY PlanIs DEF storeVars
        <3> QED BY <1>3, <1>4, <1>8, <2>5, <3>1
                DEF LiveOnlyStep, SyncBlock, BlockGone, Reset, storeVars
    <2> QED BY <1>8, <2>1, <2>2, <2>3, <2>4, <2>5, LiveSteps DEF Next, ProducerStep
<1> QED BY <1>1, <1>2, <1>8, SyncsToItsEnd

LEMMA LinkedFromAlone ==
    ASSUME UNCHANGED <<chainVars, linked, tip>>, events \subseteq events', NEW n, LinkedFrom(n)
    PROVE  LinkedFrom(n)'
<1>1. \A h : LightBlockAt(h)' = LightBlockAt(h)
    BY DEF chainVars, LightBlockAt, CanonicalHash
<1>2. StoredThrough(n - 1)'
    BY LogsUnmoved DEF LinkedFrom, StoredThrough
<1> QED BY <1>1, <1>2 DEF LinkedFrom

\* A plan by block saves requests: there is a contract to fetch for.
LEMMA PlanHasContracts ==
    ASSUME NEW bs, IsFiniteSet(bs), NEW height,
           FewestRequests(bs) < Cardinality(SyncingAt(height))
    PROVE  Contracts # {}
<1> SUFFICES ASSUME Contracts = {} PROVE FALSE
    OBVIOUS
<1>1. SyncingAt(height) = {} /\ CanonicalEvents = {}
    BY DEF SyncingAt, CanonicalEvents
<1>2. Cardinality(bs) \in Nat /\ Cardinality({}) = 0
    BY FS_CardinalityType, FS_EmptySet
<1>3. FewestRequests(bs) = Cardinality(bs) + 0
    <2>1. {e \in CanonicalEvents : \E b \in bs : b.height = e.height /\ b.hash = e.fork} = {}
        BY <1>1
    <2> QED BY <1>2, <2>1 DEF FewestRequests
<1> QED BY <1>1, <1>2, <1>3

LEMMA PlanLinks ==
    ASSUME LiveTypeInv, HeadsInv, HeadsInv', AnchorInv, PlanStep, UNCHANGED chainVars
    PROVE  LinkedInv'
<1> SUFFICES ASSUME linked' # {} PROVE LinkedInv'
    BY DEF LinkedInv
<1>1. /\ UNCHANGED storeVars /\ anchor' = anchor /\ events' = events
      /\ phase \in {"idle", "plan"}
      /\ \A h : CanonicalHash(h)' = CanonicalHash(h) /\ LightBlockAt(h)' = LightBlockAt(h)
      /\ offered # None => offered.height \in Nat
      /\ top \in Nat /\ (anchor # None => anchor.height \in Nat)
    BY PlanIs, LiveTyped, Typed DEF storeVars, chainVars, LightBlockAt, CanonicalHash
<1>2. PICK bs : /\ PlanLinked(bs) /\ IsFiniteSet(bs)
                /\ bs = {LightBlockAt(h) : h \in (anchor.height + 1)..tip'.height}
    <2>1. CASE phase = "idle" /\ offered # None /\ StartPass(offered)
        <3>1. PlanLinked({offered}) /\ BuildsOnAnchor(offered) /\ tip'.height = offered.height
            BY <2>1 DEF StartPass
        <3>2. offered.height = anchor.height + 1 /\ offered = LightBlockAt(offered.height)
            BY <2>1, <3>1 DEF BuildsOnAnchor, HeadsInv
        <3>3. (anchor.height + 1)..tip'.height = {offered.height}
            BY <1>1, <2>1, <3>1, <3>2
        <3>4. {offered} = {LightBlockAt(h) : h \in (anchor.height + 1)..tip'.height}
            BY <3>2, <3>3
        <3> QED BY <3>1, <3>4, FS_Singleton
    <2>2. CASE ListBlocks
        <3>1. /\ tip' = tip
              /\ PlanLinked({LightBlockAt(h) : h \in (anchor.height + 1)..tip.height})
              /\ PageLinks /\ phase = "plan"
            BY <2>2 DEF ListBlocks
        <3>2. tip.height \in 1..top /\ anchor.height \in 1..top
            BY <3>1, PageIsLinked
        <3> DEFINE heights == (anchor.height + 1)..tip.height
                   block == [h \in heights |-> LightBlockAt(h)]
        <3>3. anchor.height + 1 \in Int /\ tip.height \in Int
            BY <1>1, <3>2
        <3>4. IsFiniteSet(heights)
            BY <3>3, FS_Interval, Zenon
        <3>5. block \in Surjection(heights, {LightBlockAt(h) : h \in heights})
            BY DEF Surjection
        <3> HIDE DEF block, heights
        <3>6. IsFiniteSet({LightBlockAt(h) : h \in heights})
            BY <3>4, <3>5, FS_Surjection
        <3> QED BY <3>1, <3>6 DEF heights
    <2> QED BY <2>1, <2>2 DEF PlanStep
<1>3. /\ phase' = "trusted" /\ linked' = bs
      /\ FewestRequests(bs) < Cardinality(SyncingAt(anchor.height + 1))
    BY <1>2 DEF PlanLinked
<1>4. Contracts # {}
    BY <1>2, <1>3, PlanHasContracts
<1>5. anchor # None /\ CanonicalHash(anchor.height) = anchor.hash
    BY <1>1, <1>3 DEF HeadsInv
<1>6. StoredThrough(anchor.height)'
    BY <1>1, <1>5, LogsUnmoved DEF AnchorInv, StoredThrough
<1>7. (anchor.height + 1) - 1 = anchor.height
    BY <1>1, <1>5
<1>8. LinkedFrom(anchor.height + 1)'
    BY <1>1, <1>2, <1>3, <1>6, <1>7 DEF LinkedFrom
<1> QED BY <1>1, <1>3, <1>4, <1>5, <1>8 DEF LinkedInv

\* A pass by block sets its anchor and waits for its blocks.
LEMMA LinkedPass ==
    ASSUME LiveTypeInv, FetchesAlone, PassInv, LinkedInv, PassStep
    PROVE  LinkedInv'
<1> SUFFICES ASSUME linked' # {} PROVE LinkedInv'
    BY DEF LinkedInv
<1>1. linked' = linked /\ linked # {}
    BY DEF PassStep, liveVars
<1>2. /\ phase \in {"trusted", "setAnchor", "sync"} /\ Contracts # {} /\ batches = None
      /\ phase = "sync" => queue = <<>> /\ sync = [c \in Contracts |-> FreshState(c)]
    BY <1>1 DEF LinkedInv, FetchesAlone
<1>3. CASE ReconcileStep
    <2>1. SetSyncAnchor /\ UNCHANGED <<chainVars, sync, events, tip>> /\ phase = "setAnchor"
        BY <1>2, <1>3 DEF ReconcileStep, ReadChainTip, NothingToReplay, ReplayUnfinalized,
           AnchorCanonical, AnchorOrphaned, Probe, FailWithReorgError, RewindToAncestor,
           SetSyncAnchor, syncVars
    <2>2. phase' = "sync" /\ sync' = [c \in Contracts |-> FreshState(c)]
        BY <2>1 DEF SetSyncAnchor, PassInv
    <2>3. anchor # None /\ tip # None /\ anchor.height \in Nat /\ tip.height \in Nat
        BY <1>1, <2>1, LiveTyped, Typed DEF LinkedInv, PassInv
    <2>4. PICK n \in Nat : n = anchor.height + 1
        BY <2>3
    <2>5. LinkedFrom(n)
        BY <1>1, <2>1, <2>4 DEF LinkedInv
    <2>6. n \in 1..tip.height
        BY <1>1, <2>3, <2>4, <2>5 DEF LinkedFrom
    <2>7. LinkedFrom(n)'
        BY <1>1, <2>1, <2>5, LinkedFromAlone
    <2> QED BY <1>2, <2>1, <2>2, <2>6, <2>7 DEF LinkedInv
<1>4. CASE ConsumerStep
    <2>1. phase = "sync" => ~StreamEnded
        <3>1. PICK c \in Contracts : TRUE
            BY <1>2
        <3>2. phase = "sync" => sync[c].mode = "start"
            BY <1>2 DEF FreshState
        <3> QED BY <3>2 DEF StreamEnded
    <2> QED BY <1>2, <1>4, <2>1 DEF ConsumerStep, IndexSafeHeight, IndexBatch, RaiseToTip,
           IndexRemaining
<1> QED BY <1>1, <1>3, <1>4 DEF PassStep

\* A step by block leaves the blocks above it, and everything below is stored.
LEMMA LinkedBlock ==
    ASSUME LiveTypeInv, LiveTypeInv', StoredInv, LinkedInv, SyncBlock,
           UNCHANGED <<chainVars, syncVars>>
    PROVE  LinkedInv'
<1> SUFFICES ASSUME linked' # {} PROVE LinkedInv'
    BY DEF LinkedInv
<1>1. /\ phase = "sync" /\ linked # {} /\ tip' = tip /\ sync' = sync
      /\ tip.height \in Nat
    BY LiveTyped, SyncFacts DEF SyncBlock, syncVars
<1>2. PICK n \in 1..tip.height :
        /\ linked' = {LightBlockAt(h) : h \in (n + 1)..tip.height}
        /\ phase' = IF n = tip.height THEN "final" ELSE "sync"
        /\ StoredThrough(n)'
    BY BlockKept
<1>3. n + 1 \in 1..tip.height /\ (n + 1) - 1 = n /\ n # tip.height
    BY <1>1, <1>2
<1>4. \A h : LightBlockAt(h)' = LightBlockAt(h)
    BY DEF chainVars, LightBlockAt, CanonicalHash
<1>5. LinkedFrom(n + 1)'
    BY <1>1, <1>2, <1>3, <1>4 DEF LinkedFrom
<1> QED BY <1>1, <1>2, <1>3, <1>5 DEF LinkedInv

\* A block mined on the tip is above every linked one.
LEMMA LinkedGrown ==
    ASSUME LiveTypeInv, LiveTypeInv', PassInv, LinkedInv, Mine,
           UNCHANGED <<storeVars, passVars, syncVars, liveVars>>
    PROVE  LinkedInv'
<1> SUFFICES ASSUME linked # {} PROVE LinkedInv'
    BY DEF LinkedInv, liveVars
<1>1. /\ UNCHANGED <<linked, phase, anchor, tip, sync, events>> /\ TypeInv /\ TypeInv'
      /\ ChainTypeOK /\ ChainTypeOK' /\ tip # None /\ tip.height \in Nat /\ tip.height <= top
      /\ top \in Nat /\ (anchor # None => anchor.height \in Nat /\ anchor.hash # None)
    BY LiveTyped, Typed, NoneAssumption
       DEF LinkedInv, PassInv, storeVars, passVars, syncVars, liveVars, LiveTypeInv, LiveTypeOK,
           TypeInv, TypeOK
<1>2. /\ top <= top' /\ top' \in Nat
      /\ \A h \in 1..top : chain'[h] = chain[h]
      /\ \A h \in Int : h <= top => \A c \in Contracts : DueOf(c, h)' = DueOf(c, h)
    BY <1>1, AtLeastGrown
<1>3. \A h \in 0..top : CanonicalHash(h)' = CanonicalHash(h)
    BY <1>1, <1>2 DEF CanonicalHash
<1>4. \A h \in 1..tip.height : LightBlockAt(h)' = LightBlockAt(h)
    <2> SUFFICES ASSUME NEW h \in 1..tip.height PROVE LightBlockAt(h)' = LightBlockAt(h)
        OBVIOUS
    <2>1. h \in 1..top /\ h - 1 \in 0..top
        BY <1>1
    <2> QED BY <1>2, <1>3, <2>1 DEF LightBlockAt
<1>5. ASSUME NEW n \in 1..(tip.height + 1), LinkedFrom(n) PROVE LinkedFrom(n)'
    <2>1. n - 1 \in Int /\ n - 1 <= top /\ \A h \in n..tip.height : h \in 1..tip.height
        BY <1>1
    <2>2. StoredThrough(n - 1)'
        BY <1>1, <1>2, <1>5, <2>1 DEF LinkedFrom, StoredThrough
    <2>3. linked' = {LightBlockAt(h)' : h \in n..tip.height}
        BY <1>1, <1>4, <1>5, <2>1 DEF LinkedFrom
    <2> QED BY <1>1, <2>2, <2>3 DEF LinkedFrom
<1>6. CASE phase = "sync"
    <2>1. PICK n \in 1..tip.height : LinkedFrom(n)
        BY <1>6 DEF LinkedInv
    <2>2. n \in 1..(tip.height + 1)
        BY <1>1
    <2> QED BY <1>1, <1>5, <1>6, <2>1, <2>2 DEF LinkedInv
<1>7. CASE phase # "sync"
    <2>1. /\ anchor # None /\ CanonicalHash(anchor.height) = anchor.hash
          /\ LinkedFrom(anchor.height + 1)
        BY <1>7 DEF LinkedInv
    <2>2. anchor.height \in 1..top
        BY <1>1, <2>1 DEF CanonicalHash
    <2>3. PICK n \in Nat : n = anchor.height + 1
        BY <1>1, <2>1
    <2>4. n \in 1..(tip.height + 1)
        BY <1>1, <2>1, <2>2, <2>3 DEF LinkedFrom
    <2>5. LinkedFrom(n)'
        BY <1>5, <2>1, <2>3, <2>4
    <2>6. CanonicalHash(anchor.height)' = anchor.hash
        BY <1>1, <1>3, <2>1, <2>2
    <2>7. LinkedFrom(anchor.height + 1)'
        BY <1>1, <2>3, <2>5 DEF LinkedFrom
    <2> QED BY <1>1, <1>7, <2>1, <2>6, <2>7 DEF LinkedInv
<1> QED BY <1>6, <1>7

LEMMA LinkedAlone ==
    ASSUME LinkedInv, UNCHANGED <<chainVars, linked, tip, phase, anchor, sync, events>>
    PROVE  LinkedInv'
<1>1. /\ \A h : LightBlockAt(h)' = LightBlockAt(h)
      /\ \A h : CanonicalHash(h)' = CanonicalHash(h)
      /\ \A h : StoredThrough(h)' <=> StoredThrough(h)
    <2>1. \A h : LightBlockAt(h)' = LightBlockAt(h) /\ CanonicalHash(h)' = CanonicalHash(h)
        BY DEF chainVars, LightBlockAt, CanonicalHash
    <2>2. \A h : StoredThrough(h)' <=> StoredThrough(h)
        BY LogsUnmoved DEF StoredThrough
    <2> QED BY <2>1, <2>2
<1>2. \A n : LinkedFrom(n) => linked' = {LightBlockAt(h)' : h \in n..tip'.height}
                              /\ StoredThrough(n - 1)'
    BY <1>1 DEF LinkedFrom
<1> QED BY <1>1, <1>2 DEF LinkedInv, LinkedFrom

LEMMA LinkedStep ==
    ASSUME NothingInTheWayOfHeads, LiveTypeInv, LiveTypeInv', FetchesAlone, StoredInv,
           HeadsInv, HeadsInv', AnchorInv, LinkedInv, [LiveNext]_<<vars, liveVars>>
    PROVE  LinkedInv'
<1>0. PassInv /\ ReorgPhases \subseteq {"idle"}
    BY NotResuming DEF StoredInv, ReorgsBetweenPasses
<1>1. CASE HeadStep
    <2>1. UNCHANGED <<chainVars, syncVars>>
        BY <1>1 DEF HeadStep
    <2>2. CASE EmitHead /\ UNCHANGED <<storeVars, passVars>>
        BY <2>1, <2>2, LinkedAlone DEF EmitHead, storeVars, passVars, syncVars
    <2>3. CASE PlanStep
        BY <2>1, <2>3, PlanLinks
    <2>4. CASE TakeHead
        <3>1. SkipHead => LinkedInv'
            BY <2>1, <2>4, LinkedAlone DEF TakeHead, SkipHead, storeVars, passVars, syncVars
        <3> QED BY <2>3, <2>4, <3>1 DEF TakeHead, PlanStep
    <2>5. CASE AnchorTrusted
        <3> SUFFICES ASSUME linked # {} PROVE LinkedInv'
            BY <2>5 DEF LinkedInv, AnchorTrusted, liveVars
        <3>1. /\ phase = "trusted" /\ phase' = "setAnchor" /\ RewindTo(anchor.height)
              /\ UNCHANGED <<tip, anchor, linked>> /\ anchor # None /\ anchor.height \in Nat
            BY <2>5, LiveTyped, Typed DEF AnchorTrusted, RewindTo, liveVars, LiveTypeInv
        <3>2. /\ Contracts # {} /\ CanonicalHash(anchor.height) = anchor.hash
              /\ LinkedFrom(anchor.height + 1)
            BY <3>1 DEF LinkedInv
        <3>3. /\ \A h : LightBlockAt(h)' = LightBlockAt(h)
              /\ \A h : CanonicalHash(h)' = CanonicalHash(h)
            BY <2>1 DEF chainVars, LightBlockAt, CanonicalHash
        <3>4. StoredThrough((anchor.height + 1) - 1)'
            <4> SUFFICES ASSUME NEW c \in Contracts, NEW e \in DueOf(c, anchor.height)
                         PROVE  e \in events'
                BY <2>1, <3>1, LogsUnmoved DEF StoredThrough
            <4>1. e \in events
                BY <3>1, <3>2 DEF LinkedFrom, StoredThrough
            <4> QED BY <3>1, <4>1 DEF RewindTo, DueOf
        <3> QED BY <3>1, <3>2, <3>3, <3>4 DEF LinkedInv, LinkedFrom
    <2>6. CASE SyncBlock
        BY <2>1, <2>6, LinkedBlock
    <2>7. CASE ListBlocks
        BY <2>3, <2>7 DEF PlanStep
    <2> QED BY <1>1, <2>2, <2>4, <2>5, <2>6, <2>7 DEF HeadStep
<1>2. CASE PassStep
    BY <1>0, <1>2, LinkedPass
<1>3. CASE EndLiveStep \/ StopLiveStep
    <2>1. linked' = {}
        BY <1>3 DEF EndLiveStep, LiveEnd, BlockGone, StopLiveStep, LiveStop, Interrupt, Follow
    <2> QED BY <2>1 DEF LinkedInv
<1>4. CASE LiveChainStep
    <2>1. CASE Mine
        BY <1>0, <1>4, <2>1, LinkedGrown DEF LiveChainStep, ChainStep
    <2>2. CASE phase = "idle"
        <3>1. linked' = {}
            BY <1>4, <2>2 DEF LinkedInv, LiveChainStep, liveVars
        <3> QED BY <3>1 DEF LinkedInv
    <2> QED BY <1>0, <1>4, <2>1, <2>2 DEF LiveChainStep, ChainStep
<1>5. CASE UNCHANGED <<vars, liveVars>>
    BY <1>5, LinkedAlone DEF vars, storeVars, passVars, syncVars, liveVars
<1> QED BY <1>1, <1>2, <1>3, <1>4, <1>5 DEF LiveNext

\* A batch of the last call leaves the rows above its block.
LEMMA LastBatch ==
    ASSUME TypeInv, StoredInv, LastInv, phase = "last", IndexBatch,
           UNCHANGED <<chainVars, passVars>>
    PROVE  LastInv'
<1>1. /\ batches # None /\ batches \in Indexing /\ ChainTypeOK
      /\ CheckpointHeight \in Nat /\ tip' = tip
      /\ \A e \in batches.rows : e.height \in Nat /\ CheckpointHeight < e.height
    <2>1. batches # None /\ BatchesInv
        BY DEF IndexBatch, StoredInv, PassInv, SyncingInv
    <2> QED BY <2>1, Typed DEF IndexTypeOK, BatchesInv, passVars
<1>2. PICK h \in {e.height : e \in batches.rows} :
        /\ CheckpointHeight' = h
        /\ batches.rows \ Prefix(batches.rows, h) # {} =>
             batches' # None /\ batches'.rows = batches.rows \ Prefix(batches.rows, h)
    BY BatchIs
<1>3. h \in Nat /\ CheckpointHeight < h
    BY <1>1, <1>2
<1>4. ASSUME NEW c \in Contracts, NEW e \in DueOf(c, tip.height), e.height > h
      PROVE  batches' # None /\ e \in batches'.rows
    <2>1. e.height \in Nat
        BY <1>1, WantedAre DEF DueOf
    <2>2. e \in batches.rows
        BY <1>1, <1>3, <1>4, <2>1 DEF LastInv
    <2>3. e \in batches.rows \ Prefix(batches.rows, h)
        BY <1>3, <1>4, <2>1, <2>2 DEF Prefix
    <2> QED BY <1>2, <2>3
<1> QED BY <1>1, <1>2, <1>4, LogsUnmoved DEF LastInv

\* The last call reads every row up to the tip that is above the checkpoint.
LEMMA LastCall ==
    ASSUME TypeInv, StoredInv, IndexRemaining, UNCHANGED chainVars
    PROVE  LastInv'
<1>1. /\ tip' = tip /\ phase = "final" /\ StoredThrough(tip.height) /\ tip.height \in Nat
      /\ IndexEventsUpTo(tip.height, TipHeight)
      /\ CheckpointHeight \in Nat /\ ChainTypeOK /\ batches = None
    BY IndexFacts, Typed DEF IndexRemaining, SyncingInv, BatchesInv
<1>2. CheckpointHeight' = CheckpointHeight
    BY <1>1, CallIs
<1>3. ASSUME NEW c \in Contracts, NEW e \in DueOf(c, tip.height), e.height > CheckpointHeight
      PROVE  batches' # None /\ e \in batches'.rows
    <2>1. e.height \in Nat /\ e.height <= tip.height
        BY <1>1, WantedAre DEF DueOf
    <2>2. e \in RowsUpTo(tip.height) /\ CheckpointHeight < tip.height
        BY <1>1, <1>3, <2>1 DEF StoredThrough, RowsUpTo
    <2>3. IndexRows(tip.height, TipHeight)
        BY <1>1, <2>2 DEF IndexEventsUpTo, IndexNothing
    <2>4. batches' \in Indexing /\ batches'.rows = RowsUpTo(tip.height)
        <3>1. TipHeight = tip.height /\ TipHeight # None
            BY <1>1, IndexFacts, NoneAssumption
        <3>2. Confirmation(tip.height, TipHeight) = tip.height
            BY <1>1, <3>1 DEF Confirmation, MinOf
        <3>3. /\ FinalityThreshold(tip.height) \in Int
              /\ \A t : FinalizeCheckpointBlock(t) \in Nat
            BY <1>1, Typed, IndexAssumption
               DEF FinalityThreshold, FinalizeCheckpointBlock, MaxOf
        <3>4. PICK s \in Int, f \in Nat :
                batches' = [rows |-> RowsUpTo(tip.height), threshold |-> s, finalized |-> f]
            BY <1>1, <2>3, <3>2, <3>3, NoneAssumption DEF IndexRows
        <3>5. RowsUpTo(tip.height) \subseteq Event
            BY Typed DEF RowsUpTo, StoreTypeOK
        <3> QED BY <3>4, <3>5 DEF Indexing
    <2> QED BY <2>2, <2>4, IndexingAssumption
<1> QED BY <1>1, <1>2, <1>3, LogsUnmoved DEF LastInv

LEMMA LastStep ==
    ASSUME NothingInTheWayOfHeads, LiveTypeInv, LiveTypeInv', StoredInv, LastInv,
           [LiveNext]_<<vars, liveVars>>
    PROVE  LastInv'
<1> SUFFICES ASSUME phase' = "last" PROVE LastInv'
    BY DEF LastInv
<1>0. /\ TypeInv /\ ChainTypeOK /\ ChainTypeOK' /\ top \in Nat
      /\ ReorgPhases \subseteq {"idle"}
    BY LiveTyped, Typed, NotResuming
       DEF LiveTypeInv, LiveTypeOK, TypeOK, ReorgsBetweenPasses
<1>1. CASE UNCHANGED <<phase, tip, batches, checkpoint>> /\ (UNCHANGED chainVars \/ Mine)
    <2>1. phase = "last" /\ tip.height \in Nat /\ tip.height <= top
        BY <1>0, <1>1, IndexFacts
    <2>2. PICK to \in Nat : to = tip.height
        BY <2>1
    <2>3. \A c \in Contracts : DueOf(c, to)' = DueOf(c, to)
        BY <1>0, <1>1, <2>1, <2>2, AtLeastGrown
    <2>4. \A c \in Contracts : \A e \in Wanted(c)' : e.height <= to => e \in DueOf(c, to)
        BY <2>3 DEF DueOf
    <2>5. \A c \in Contracts : \A e \in DueOf(c, to) :
            e.height > CheckpointHeight => batches # None /\ e \in batches.rows
        BY <2>1, <2>2 DEF LastInv
    <2> QED BY <1>1, <2>2, <2>4, <2>5 DEF LastInv, DueOf, CheckpointHeight
<1>2. CASE PassStep
    <2>1. ConsumerStep
        BY <1>2 DEF PassStep, ReconcileStep, ReadChainTip, NothingToReplay, ReplayUnfinalized,
           AnchorCanonical, AnchorOrphaned, Probe, FailWithReorgError, RewindToAncestor,
           SetSyncAnchor, ProducerStep, passVars
    <2>2. CASE IndexRemaining
        BY <1>0, <2>1, <2>2, LastCall DEF ConsumerStep
    <2>3. CASE IndexBatch /\ UNCHANGED <<passVars, syncVars>>
        BY <1>0, <2>1, <2>3, LastBatch DEF ConsumerStep, passVars
    <2> QED BY <2>1, <2>2, <2>3 DEF ConsumerStep, IndexSafeHeight, RaiseToTip, passVars
<1>3. CASE HeadStep
    <2>1. EmitHead /\ UNCHANGED <<storeVars, passVars>>
        BY <1>3 DEF HeadStep, TakeHead, SkipHead, StartPass, PlanLinked, ListBlocks, AnchorTrusted,
           SyncBlock, passVars
    <2> QED BY <1>1, <1>3, <2>1 DEF HeadStep, storeVars, passVars
<1>4. CASE EndLiveStep \/ StopLiveStep
    BY <1>4 DEF EndLiveStep, LiveEnd, EndPass, BlockGone, StopLiveStep, LiveStop, Stop,
       Interrupt, Reset, passVars
<1>5. CASE LiveChainStep
    BY <1>0, <1>1, <1>5 DEF LiveChainStep, ChainStep, storeVars, passVars
<1>6. CASE UNCHANGED <<vars, liveVars>>
    BY <1>1, <1>6 DEF vars, storeVars, passVars
<1> QED BY <1>2, <1>3, <1>4, <1>5, <1>6 DEF LiveNext

\* What live indexing knows of its store when nothing is in the way.
LiveStoredInv ==
    /\ LiveTypeInv
    /\ FetchesAlone
    /\ StoredInv
    /\ HeadsInv
    /\ AnchorInv
    /\ LinkedInv
    /\ LastInv

LEMMA LiveStoredInit ==
    LiveInit => StoredInv /\ HeadsInv /\ AnchorInv /\ LinkedInv /\ LastInv
<1> SUFFICES ASSUME LiveInit
             PROVE  StoredInv /\ HeadsInv /\ AnchorInv /\ LinkedInv /\ LastInv
    OBVIOUS
<1>1. Init /\ TypeInv
    BY LiveTypeInit, LiveTyped DEF LiveInit
<1>2. offered = None /\ phase = "idle" /\ anchor = None /\ linked = {}
    BY <1>1 DEF LiveInit, Init, PassInit, StoreInit
<1> QED BY <1>1, <1>2, StoredInit DEF HeadsInv, AnchorInv, LinkedInv, LastInv

LEMMA LiveStoredNext ==
    ASSUME NothingInTheWayOfHeads, LiveStoredInv, LiveTypeInv',
           ReorgsAreShallow => Deep(FinalizedHeight), [LiveNext]_<<vars, liveVars>>
    PROVE  StoredInv' /\ HeadsInv' /\ AnchorInv' /\ LinkedInv' /\ LastInv'
<1>1. StoredInv' /\ HeadsInv'
    BY LiveStoredStep DEF LiveStoredInv
<1>2. AnchorInv'
    BY <1>1, AnchorStep DEF LiveStoredInv
<1>3. LinkedInv'
    BY <1>1, LinkedStep DEF LiveStoredInv
<1>4. LastInv'
    BY LastStep DEF LiveStoredInv
<1> QED BY <1>1, <1>2, <1>3, <1>4

\* Nothing is missed while heads are followed: the store agrees with the chain
\* up to a common height until a pass has rewound, and a pass accounts for
\* every log in its contract's range; an anchor that is canonical is one
\* through which everything is stored, so that fetching single blocks from it
\* on leaves no gap.
THEOREM LiveStoredInvariant ==
    ASSUME NothingInTheWayOfHeads
    PROVE  LiveSpec => []LiveStoredInv
<1>1. TipHasHash
    BY NotResuming DEF ReorgsBetweenPasses, TipHasHash
<1>2. LiveSpec => [](ReorgsAreShallow => Deep(FinalizedHeight))
    <2>1. CASE ReorgsAreShallow
        <3>1. LiveFinalityInv => (ReorgsAreShallow => Deep(FinalizedHeight))
            BY DEF LiveFinalityInv, FinalityInv, MayBeFinal
        <3>2. HeadsAreRecent
            BY <1>1 DEF HeadsAreRecent
        <3> QED BY <2>1, <3>1, <3>2, LiveFinality, PTL
    <2>2. CASE ~ReorgsAreShallow
        <3>1. TRUE => (ReorgsAreShallow => Deep(FinalizedHeight))
            BY <2>2
        <3> QED BY <3>1, PTL
    <2> QED BY <2>1, <2>2
<1>3. /\ LiveTypeInv /\ LiveTypeInv' /\ FetchesAlone
      /\ StoredInv /\ HeadsInv /\ AnchorInv /\ LinkedInv /\ LastInv
      /\ (ReorgsAreShallow => Deep(FinalizedHeight)) /\ [LiveNext]_<<vars, liveVars>>
      => StoredInv' /\ HeadsInv' /\ AnchorInv' /\ LinkedInv' /\ LastInv'
    BY LiveStoredNext DEF LiveStoredInv
<1> QED BY <1>2, <1>3, LiveStoredInit, LiveTypeAlways, FetchesAlways, PTL
        DEF LiveSpec, LiveStoredInv

\* A pass that completed handled every event up to its tip: following heads,
\* page by page or block by block, indexes what historical passes would have.
THEOREM LiveTipIsHandled ==
    ASSUME NothingInTheWayOfHeads
    PROVE  LiveSpec => []TipIsHandled
<1>1. LiveStoredInv => TipIsHandled
    <2> SUFFICES ASSUME LiveStoredInv, phase = "last", batches = None
                 PROVE  handled = Due(tip.height)
        BY DEF TipIsHandled
    <2>1. /\ TypeInv /\ ChainTypeOK /\ handled = Due(CheckpointHeight)
          /\ CheckpointHeight <= tip.height /\ CheckpointHeight \in Nat /\ tip.height \in Nat
        BY LiveTyped, Typed, IndexFacts DEF LiveStoredInv, Canonical
    <2>2. ASSUME NEW e \in Due(tip.height) PROVE e \in Due(CheckpointHeight)
        <3>1. e.contract \in Contracts /\ e \in DueOf(e.contract, tip.height)
            BY <2>1, DueIs
        <3>2. ~(e.height > CheckpointHeight) /\ e.height \in Nat
            BY <2>1, <3>1, WantedAre DEF LiveStoredInv, LastInv, DueOf
        <3> QED BY <2>1, <3>2 DEF Due
    <2>3. \A e \in Due(CheckpointHeight) : e \in Due(tip.height)
        <3>1. \A e \in Due(CheckpointHeight) : e.height \in Nat
            BY <2>1, DueIs, WantedAre DEF DueOf
        <3> QED BY <2>1, <3>1 DEF Due
    <2> QED BY <2>1, <2>2, <2>3
<1> QED BY <1>1, LiveStoredInvariant, PTL

\* Blocks are fetched one by one only on top of a complete range: everything
\* below the next block is stored, and its contracts may be raised to it.
THEOREM LiveStoredBelowNextBlock ==
    ASSUME NothingInTheWayOfHeads
    PROVE  LiveSpec => []StoredBelowNextBlock
<1>1. LiveStoredInv => StoredBelowNextBlock
    <2> SUFFICES ASSUME LiveStoredInv, phase = "sync", linked # {}
                 PROVE  \E b \in linked : IsNextBlock(b) /\ Due(b.height - 1) \subseteq events
        BY DEF StoredBelowNextBlock
    <2>1. PICK n \in 1..tip.height : LinkedFrom(n)
        BY DEF LiveStoredInv, LinkedInv
    <2>2. tip.height \in Nat /\ ChainTypeOK /\ n \in n..tip.height
        BY LiveTyped, Typed, SyncFacts DEF LiveStoredInv
    <2>3. \A h : LightBlockAt(h).height = h
        BY DEF LightBlockAt
    <2>4. LightBlockAt(n) \in linked
        BY <2>1, <2>2 DEF LinkedFrom
    <2>5. IsNextBlock(LightBlockAt(n))
        <3>1. \A b \in linked : \E h \in n..tip.height : b = LightBlockAt(h)
            BY <2>1 DEF LinkedFrom
        <3> QED BY <2>2, <2>3, <2>4, <3>1 DEF IsNextBlock
    <2>6. Due(LightBlockAt(n).height - 1) \subseteq events
        BY <2>1, <2>2, <2>3, DueIs DEF LinkedFrom
    <2> QED BY <2>4, <2>5, <2>6
<1> QED BY <1>1, LiveStoredInvariant, PTL

\* What a contract's row says is synced is stored, in the pass of a head too:
\* the contracts raised to a single block have everything below it.
THEOREM LiveSyncedIsStored ==
    ASSUME NothingInTheWayOfHeads
    PROVE  LiveSpec => []SyncedMeansStored
<1>1. LiveStoredInv => SyncedMeansStored
    BY LiveTyped, SyncedRowsAreStored DEF LiveStoredInv
<1> QED BY <1>1, LiveStoredInvariant, PTL

\* Once the sync of a pass ended, by pages or by blocks, every event up to its
\* tip is stored.
THEOREM LiveStoredToTheTip ==
    ASSUME NothingInTheWayOfHeads
    PROVE  LiveSpec => []StoredThroughTip
<1>1. LiveStoredInv => StoredThroughTip
    BY LiveTyped, TipIsStored DEF LiveStoredInv
<1> QED BY <1>1, LiveStoredInvariant, PTL

\* The handlers ran for exactly the canonical events up to the checkpoint once
\* a pass, of a run or of a head, has reconciled.
THEOREM LiveHandledToTheCheckpoint ==
    ASSUME NothingInTheWayOfHeads
    PROVE  LiveSpec => []HandledThroughCheckpoint
<1>1. LiveStoredInv => HandledThroughCheckpoint
    BY CheckpointIsHandled DEF LiveStoredInv
<1> QED BY <1>1, LiveStoredInvariant, PTL

-----------------------------------------------------------------------------
(* The projection promised to the handlers. *)

\* The steps that plan a head's pass leave the projection alone; trusting the
\* anchor cuts it back.
LEMMA LiveOnlyProjected ==
    ASSUME LiveTypeInv, LiveTypeInv', StoredInv, StoredInv', LiveOnlyStep
    PROVE  \/ Promised!Cut
           \/ UNCHANGED <<chainVars, handled, CheckpointHeight, FinalizedHeight>>
<1>1. UNCHANGED chainVars /\ TypeInv /\ TypeInv'
    BY LiveTyped DEF LiveOnlyStep, LiveTypeInv, LiveTypeOK, TypeInv
<1>2. CASE PlanStep \/ SyncBlock \/ BlockGone
    <2>1. UNCHANGED <<handled, checkpoint>>
        BY <1>2, PlanIs DEF SyncBlock, BlockGone, Reset, storeVars
    <2> QED BY <1>1, <2>1 DEF CheckpointHeight, FinalizedHeight
<1>3. CASE AnchorTrusted
    <2>1. RewindTo(anchor.height) /\ phase' = "setAnchor" /\ anchor.height \in Nat
        BY <1>1, <1>3, Typed DEF AnchorTrusted, LiveTypeInv
    <2> QED BY <1>1, <2>1, RewindProjected
<1> QED BY <1>2, <1>3 DEF LiveOnlyStep

\* Live indexing keeps what was promised to the handlers as historical passes
\* do: the shortcuts of a head's pass extend, confirm or cut back the same
\* projection of the canonical chain.
THEOREM LiveKeepsProjection ==
    ASSUME NothingInTheWayOfHeads
    PROVE  LiveSpec => ImplementsProjection
<1>1. LiveInit => Promised!Init
    BY InitProjected DEF LiveInit
<1>2. LiveStoredInv /\ LiveStoredInv' /\ [LiveNext]_<<vars, liveVars>>
      => [Promised!Next]_<<Promised!chainVars, handled, CheckpointHeight, FinalizedHeight>>
    <2> SUFFICES ASSUME LiveStoredInv, LiveStoredInv', [LiveNext]_<<vars, liveVars>>
                 PROVE  \/ Promised!Next
                        \/ UNCHANGED <<chainVars, handled, CheckpointHeight, FinalizedHeight>>
        BY DEF Promised!chainVars, chainVars
    <2>1. /\ TypeInv /\ TypeInv' /\ StoredInv /\ StoredInv' /\ LiveTypeInv /\ LiveTypeInv'
        BY LiveTyped DEF LiveStoredInv, LiveTypeInv, LiveTypeOK, TypeInv
    <2>2. CASE [Next]_vars
        BY <2>1, <2>2, StepProjected
    <2>3. CASE LiveOnlyStep
        BY <2>1, <2>3, LiveOnlyProjected DEF Promised!Next
    <2> QED BY <2>2, <2>3, LiveSteps
<1> QED BY <1>1, <1>2, LiveStoredInvariant, PTL
        DEF LiveSpec, ImplementsProjection, Promised!Spec

=============================================================================

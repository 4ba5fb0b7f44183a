-------------------------- MODULE SoundnessProofs --------------------------
(***************************************************************************)
(* Nothing wrong is kept, for every value of Indexer's constants: no event *)
(* is handled twice, and wherever passes stop and whatever first-event     *)
(* discovery overlooks, a pass that reorgs leave alone works on canonical  *)
(* data only, the finalized work stands and no shallow reorg fails a run.  *)
(***************************************************************************)
EXTENDS IndexerProofs

LEMMA Typed ==
    ASSUME TypeInv
    PROVE  /\ ChainTypeOK /\ StoreTypeOK /\ PassTypeOK /\ SyncTypeOK /\ IndexTypeOK
           /\ top \in Nat /\ top \in Heights /\ forks \in Nat
           /\ \A h \in Heights : h \in Nat /\ h >= 1
           /\ \A h \in 1..top : h \in Heights /\ chain[h].fork \in Nat
           /\ CheckpointHeight \in Nat /\ FinalizedHeight \in Nat
           /\ tip # None => tip \in Tip /\ tip.height \in Heights /\ tip.height \in Nat
           /\ anchor # None => /\ anchor.height \in Heights /\ anchor.height \in Nat
                               /\ anchor.hash \in Nat
           /\ \A h \in Heights : blocks[h] # None => blocks[h] \in Nat
           /\ \A c \in Contracts : progress[c] # None =>
                /\ progress[c].synced \in Nat
                /\ progress[c].cursor \in Position \cup {None}
           /\ \A e \in events : e \in Event /\ e.height \in Heights
           /\ \A e \in handled : e \in Event /\ e.height \in Heights
           /\ MaxDepth \in Nat /\ Finality \in Nat
<1>1. ChainTypeOK /\ StoreTypeOK /\ PassTypeOK /\ SyncTypeOK /\ IndexTypeOK
    BY DEF TypeInv, TypeOK
<1>2. /\ top \in Nat /\ top \in Heights /\ forks \in Nat
      /\ \A h \in Heights : h \in Nat /\ h >= 1
      /\ \A h \in 1..top : h \in Heights
    BY <1>1, ChainAssumption DEF ChainTypeOK, Heights, Forks
<1>3. \A h \in 1..top : chain[h].fork \in Nat
    <2>1. \A h \in 1..top : chain[h] \in Block
        BY <1>1, <1>2, NoneAssumption DEF ChainTypeOK
    <2> QED BY <2>1 DEF Block, Forks
<1>4. CheckpointHeight \in Nat /\ FinalizedHeight \in Nat
    BY <1>1, StoredHeights
<1>5. /\ tip # None => tip \in Tip /\ tip.height \in Heights /\ tip.height \in Nat
      /\ anchor # None => /\ anchor.height \in Heights /\ anchor.height \in Nat
                          /\ anchor.hash \in Nat
    <2>1. tip # None => tip \in Tip /\ tip.height \in Heights
        BY <1>1 DEF PassTypeOK, Tip
    <2>2. anchor # None => anchor.height \in Heights /\ anchor.hash \in Nat
        BY <1>1 DEF StoreTypeOK, Anchor, Forks
    <2> QED BY <1>2, <2>1, <2>2
<1>6. \A h \in Heights : blocks[h] # None => blocks[h] \in Nat
    BY <1>1 DEF StoreTypeOK, Forks
<1>7. \A c \in Contracts : progress[c] # None =>
                /\ progress[c].synced \in Nat
                /\ progress[c].cursor \in Position \cup {None}
    BY <1>1 DEF StoreTypeOK, Progress
<1>8. /\ \A e \in events : e \in Event /\ e.height \in Heights
      /\ \A e \in handled : e \in Event /\ e.height \in Heights
    BY <1>1 DEF StoreTypeOK, Event
<1>9. MaxDepth \in Nat /\ Finality \in Nat
    BY ChainAssumption, IndexAssumption
<1> QED BY <1>1, <1>2, <1>3, <1>4, <1>5, <1>6, <1>7, <1>8, <1>9

-----------------------------------------------------------------------------
(* What was handled is at or below the checkpoint, what waits is above it. *)

HandledInv ==
    /\ \A e \in handled : e.height <= CheckpointHeight
    /\ batches # None => /\ phase \in {"sync", "last"}
                         /\ \A e \in batches.rows : CheckpointHeight < e.height

\* A rewind leaves the finalized marker alone and lowers the checkpoint to the
\* height it goes back to, if it was above.
LEMMA RewindMoves ==
    ASSUME TypeInv, NEW height \in Nat, RewindTo(height)
    PROVE  /\ FinalizedHeight' = FinalizedHeight
           /\ CheckpointHeight' = MinOf(CheckpointHeight, height)
           /\ CheckpointHeight' <= CheckpointHeight /\ CheckpointHeight' <= height
           /\ CheckpointHeight' \in Nat
           /\ handled' = {e \in handled : e.height <= height}
<1>1. handled' = {e \in handled : e.height <= height}
    BY DEF RewindTo
<1>2. CheckpointHeight \in Nat
    BY Typed
<1>3. CASE checkpoint # None /\ checkpoint.blockHeight > height
    <2>1. checkpoint \in Checkpoint /\ checkpoint' = [checkpoint EXCEPT !.blockHeight = height]
        BY <1>3, Typed DEF RewindTo, StoreTypeOK
    <2>2. checkpoint' \in Checkpoint /\ checkpoint'.blockHeight = height
          /\ checkpoint'.finalized = checkpoint.finalized
        BY <2>1 DEF Checkpoint
    <2> QED BY <1>1, <1>2, <1>3, <2>2, RowAssumption
            DEF FinalizedHeight, CheckpointHeight, MinOf
<1>4. CASE ~(checkpoint # None /\ checkpoint.blockHeight > height)
    <2>1. checkpoint' = checkpoint
        BY <1>4 DEF RewindTo
    <2>2. checkpoint # None => checkpoint \in Checkpoint
        BY Typed DEF StoreTypeOK
    <2>3. CheckpointHeight <= height
        BY <1>4, <2>2 DEF CheckpointHeight, Checkpoint
    <2> QED BY <1>1, <1>2, <2>1, <2>3 DEF FinalizedHeight, CheckpointHeight, MinOf
<1> QED BY <1>3, <1>4

\* The rewinds of the reconciliation.
LEMMA Rewinds ==
    ASSUME TypeInv, ReplayUnfinalized \/ AnchorCanonical \/ RewindToAncestor
    PROVE  \E height \in Nat : RewindTo(height)
<1>1. CASE ReplayUnfinalized
    BY <1>1, Typed DEF ReplayUnfinalized
<1>2. CASE AnchorCanonical
    BY <1>2, Typed DEF AnchorCanonical
<1>3. CASE RewindToAncestor
    <2>1. (IF ancestor = None THEN FinalizedHeight ELSE ancestor) \in Nat
        BY Typed DEF PassTypeOK
    <2> QED BY <1>3, <2>1 DEF RewindToAncestor
<1> QED BY <1>1, <1>2, <1>3

\* A call of the consumer leaves the checkpoint where it is, and may finalize
\* the checkpoint's own block.
LEMMA CallIs ==
    ASSUME TypeInv, NEW to, NEW tipHeight, IndexEventsUpTo(to, tipHeight)
    PROVE  /\ CheckpointHeight' = CheckpointHeight
           /\ FinalizedHeight' \in {FinalizedHeight, MaxOf(CheckpointHeight, FinalizedHeight)}
           /\ \/ batches' = batches
              \/ /\ FinalizedHeight' = FinalizedHeight
                 /\ batches'.rows = RowsUpTo(to)
                 /\ batches'.finalized \in {FinalizedHeight,
                                            MaxOf(CheckpointHeight, FinalizedHeight)}
<1> DEFINE markers == {FinalizedHeight, MaxOf(CheckpointHeight, FinalizedHeight)}
<1>1. /\ \A t : FinalizeCheckpointBlock(t) \in markers
      /\ \A f \in markers : f \in Nat
    BY Typed DEF FinalizeCheckpointBlock, MaxOf
<1> HIDE DEF markers
<1>2. CASE IndexNothing(to, tipHeight)
    <2>1. batches' = batches
        BY <1>2 DEF IndexNothing
    <2>2. CASE checkpoint' = checkpoint
        BY <2>1, <2>2 DEF CheckpointHeight, FinalizedHeight
    <2>3. CASE checkpoint' # checkpoint
        <3>1. PICK f \in markers : checkpoint' = [blockHeight |-> CheckpointHeight, finalized |-> f]
            BY <1>1, <1>2, <2>3 DEF IndexNothing, UpsertCheckpoint
        <3>2. checkpoint' \in Checkpoint
            BY <1>1, <3>1, Typed DEF Checkpoint
        <3>3. checkpoint'.blockHeight = CheckpointHeight /\ checkpoint'.finalized = f
            BY <3>1
        <3>4. CheckpointHeight' = CheckpointHeight /\ FinalizedHeight' = f
            BY <3>2, <3>3, RowAssumption DEF CheckpointHeight, FinalizedHeight
        <3> QED BY <2>1, <3>4 DEF markers
    <2> QED BY <2>2, <2>3
<1>3. CASE IndexRows(to, tipHeight)
    <2>1. CheckpointHeight' = CheckpointHeight /\ FinalizedHeight' = FinalizedHeight
        BY <1>3 DEF IndexRows, CheckpointHeight, FinalizedHeight
    <2>2. \E s : \E f \in markers :
             batches' = [rows |-> RowsUpTo(to), threshold |-> s, finalized |-> f]
        BY <1>1, <1>3 DEF IndexRows
    <2>3. batches'.rows = RowsUpTo(to) /\ batches'.finalized \in markers
        BY <2>2
    <2> QED BY <2>1, <2>3 DEF markers
<1> QED BY <1>2, <1>3 DEF IndexEventsUpTo

\* A batch hands whole blocks to the handlers and moves the checkpoint to the
\* last of them.
LEMMA BatchIs ==
    ASSUME TypeInv, IndexBatch
    PROVE  /\ batches # None /\ batches \in Indexing
           /\ \E h \in {e.height : e \in batches.rows} :
              \E f \in {batches.finalized} \cup {e.height : e \in Prefix(batches.rows, h)} :
                /\ h \in Nat /\ f \in Nat
                /\ batches.finalized <= f
                /\ checkpoint' # None
                /\ CheckpointHeight' = h /\ FinalizedHeight' = f
                /\ handled' = handled \cup InContractRange(Prefix(batches.rows, h))
                /\ batches' # None => /\ batches'.rows = batches.rows \ Prefix(batches.rows, h)
                                      /\ batches'.finalized = f
                /\ batches.rows \ Prefix(batches.rows, h) # {} => batches' # None
<1>1. batches # None /\ batches \in Indexing
    BY Typed DEF IndexBatch, IndexTypeOK
<1>2. PICK h \in {e.height : e \in batches.rows} :
        \E f \in {batches.finalized} \cup {e.height : e \in Prefix(batches.rows, h)} :
          /\ IsFinalizedAfter(f, Prefix(batches.rows, h))
          /\ checkpoint' = [blockHeight |-> h, finalized |-> f]
          /\ handled' = handled \cup InContractRange(Prefix(batches.rows, h))
          /\ batches' = IF batches.rows \ Prefix(batches.rows, h) = {} THEN None
                        ELSE [batches EXCEPT
                                !.rows = batches.rows \ Prefix(batches.rows, h),
                                !.finalized = f]
    BY DEF IndexBatch, UpsertCheckpoint
<1>3. PICK f \in {batches.finalized} \cup {e.height : e \in Prefix(batches.rows, h)} :
          /\ IsFinalizedAfter(f, Prefix(batches.rows, h))
          /\ checkpoint' = [blockHeight |-> h, finalized |-> f]
          /\ handled' = handled \cup InContractRange(Prefix(batches.rows, h))
          /\ batches' = IF batches.rows \ Prefix(batches.rows, h) = {} THEN None
                        ELSE [batches EXCEPT
                                !.rows = batches.rows \ Prefix(batches.rows, h),
                                !.finalized = f]
    BY <1>2
<1>4. /\ \A e \in batches.rows : e.height \in Nat
      /\ batches.finalized \in Nat
    BY <1>1, Typed DEF Indexing, Event, Heights
<1>5. h \in Nat /\ f \in Nat
    BY <1>2, <1>3, <1>4 DEF Prefix
<1>6. batches.finalized <= f
    BY <1>3 DEF IsFinalizedAfter
<1>7. checkpoint' # None /\ FinalizedHeight' = f /\ CheckpointHeight' = h
    <2>1. checkpoint' \in Checkpoint
        BY <1>3, <1>5 DEF Checkpoint
    <2> QED BY <1>3, <2>1, RowAssumption DEF FinalizedHeight, CheckpointHeight
<1>8. batches' # None => /\ batches'.rows = batches.rows \ Prefix(batches.rows, h)
                         /\ batches'.finalized = f
    BY <1>1, <1>3 DEF Indexing
<1>9. batches.rows \ Prefix(batches.rows, h) # {} => batches' # None
    <2> SUFFICES ASSUME batches.rows \ Prefix(batches.rows, h) # {} PROVE batches' # None
        OBVIOUS
    <2>1. batches' \in Indexing
        BY <1>1, <1>3, <1>5 DEF Indexing
    <2> QED BY <2>1, IndexingAssumption
<1> QED BY <1>1, <1>3, <1>5, <1>6, <1>7, <1>8, <1>9

LEMMA HandledStep ==
    ASSUME TypeInv, HandledInv, [Next]_vars
    PROVE  HandledInv'
<1>0. CheckpointHeight \in Nat /\ \A e \in handled : e.height \in Nat
    BY Typed
<1>1. CASE ReconcileStep
    <2>1. batches' = batches /\ phase \notin {"sync", "last"}
        BY <1>1 DEF ReconcileStep, ReadChainTip, NothingToReplay, ReplayUnfinalized,
           AnchorCanonical, AnchorOrphaned, Probe, FailWithReorgError, RewindToAncestor,
           SetSyncAnchor
    <2>2. batches' = None
        BY <2>1 DEF HandledInv
    <2>3. \A e \in handled' : e.height <= CheckpointHeight'
        <3>1. CASE ReplayUnfinalized \/ AnchorCanonical \/ RewindToAncestor
            <4>1. PICK height \in Nat : RewindTo(height)
                BY <3>1, Rewinds
            <4> QED BY <1>0, <4>1, RewindMoves DEF HandledInv, MinOf
        <3>2. CASE UNCHANGED <<checkpoint, handled>>
            BY <3>2 DEF HandledInv, CheckpointHeight
        <3> QED BY <1>1, <3>1, <3>2
                DEF ReconcileStep, ReadChainTip, NothingToReplay, AnchorOrphaned, Probe,
                    FailWithReorgError, SetSyncAnchor, storeVars
    <2> QED BY <2>2, <2>3 DEF HandledInv
<1>2. CASE IndexSafeHeight \/ IndexRemaining
    <2>1. /\ batches = None /\ handled' = handled /\ phase' \in {"sync", "last"}
          /\ \E to, tipHeight : IndexEventsUpTo(to, tipHeight)
        <3>1. phase = "final" => batches = None
            BY DEF HandledInv
        <3> QED BY <1>2, <3>1 DEF IndexSafeHeight, IndexRemaining, passVars
    <2>2. PICK to, tipHeight : IndexEventsUpTo(to, tipHeight)
        BY <2>1
    <2>3. CheckpointHeight' = CheckpointHeight
          /\ (batches' # None => batches'.rows = RowsUpTo(to))
        BY <2>1, <2>2, CallIs
    <2> QED BY <2>1, <2>3 DEF HandledInv, RowsUpTo
<1>3. CASE IndexBatch /\ UNCHANGED <<passVars, syncVars>>
    <2>1. PICK h \in {e.height : e \in batches.rows} :
                /\ h \in Nat /\ CheckpointHeight' = h
                /\ handled' = handled \cup InContractRange(Prefix(batches.rows, h))
                /\ batches' # None => batches'.rows = batches.rows \ Prefix(batches.rows, h)
        BY <1>3, BatchIs
    <2>2. /\ batches # None /\ phase' = phase
          /\ \A e \in batches.rows : CheckpointHeight < e.height /\ e.height \in Nat
        <3>1. batches # None /\ batches \in Indexing
            BY <1>3, BatchIs
        <3> QED BY <1>3, <3>1 DEF HandledInv, Indexing, Event, Heights, passVars
    <2>3. \A e \in handled' : e.height <= CheckpointHeight'
        BY <1>0, <2>1, <2>2 DEF HandledInv, InContractRange, Prefix
    <2>4. batches' # None => \A e \in batches'.rows : CheckpointHeight' < e.height
        BY <2>1, <2>2 DEF Prefix
    <2> QED BY <2>2, <2>3, <2>4 DEF HandledInv
<1>4. CASE RaiseToTip
    BY <1>4 DEF RaiseToTip, HandledInv, CheckpointHeight
<1>5. CASE EndStep \/ StopStep
    BY <1>5 DEF EndStep, EndPass, StopStep, Stop, Reset, storeVars, HandledInv, CheckpointHeight
<1>6. CASE ProducerStep \/ ChainStep \/ UNCHANGED vars
    <2>1. /\ checkpoint' = checkpoint /\ handled' = handled /\ batches' = batches /\ phase' = phase
        BY <1>6 DEF ProducerStep, SyncStep, InitFromScratch, InitFromSaved, WalkPage,
           StartCatchUp, FetchBackfillPage, StorePage, SaveBackfillPage, SaveCatchUpPage,
           ChainStep, vars, storeVars, passVars
    <2> QED BY <2>1 DEF HandledInv, CheckpointHeight
<1> QED BY <1>1, <1>2, <1>3, <1>4, <1>5, <1>6 DEF Next, ConsumerStep

LEMMA HandledInit == Init => HandledInv
BY DEF Init, StoreInit, IndexInit, HandledInv

\* Between two rewinds a handler runs at most once for an event: the rows
\* waiting to be indexed are above the checkpoint, and whatever the chain does
\* and wherever a pass stops, what was handled is at or below it.
THEOREM HandledAtMostOnce == Spec => []NothingHandledTwice
<1>0. Spec => []TypeInv
    BY TypeCorrect DEF TypeInv
<1>1. Spec => []HandledInv
    <2>1. TypeInv /\ HandledInv /\ [Next]_vars => HandledInv'
        BY HandledStep
    <2> QED BY <1>0, <2>1, HandledInit, PTL DEF Spec
<1>2. TypeInv /\ HandledInv => NothingHandledTwice
    <2> SUFFICES ASSUME TypeInv, HandledInv, batches # None,
                        NEW e \in batches.rows, e \in handled
                 PROVE  FALSE
        BY DEF NothingHandledTwice
    <2> QED BY Typed DEF HandledInv
<1> QED BY <1>0, <1>1, <1>2, PTL

-----------------------------------------------------------------------------
(* Reconciliation: what is stored above the common height is discarded. *)

LEMMA ChainAlone ==
    ASSUME UNCHANGED chainVars, ForksRise
    PROVE  ForksRise'
BY DEF ForksRise, chainVars

\* What the invariant says of the store and the chain outlives a step that
\* changes neither.
LEMMA StoreAlone ==
    ASSUME UNCHANGED <<chainVars, storeVars>>
    PROVE  /\ blocks' = blocks /\ events' = events /\ progress' = progress
           /\ checkpoint' = checkpoint /\ anchor' = anchor /\ handled' = handled
           /\ chain' = chain /\ top' = top /\ forks' = forks
           /\ FinalizedHeight' = FinalizedHeight /\ CheckpointHeight' = CheckpointHeight
           /\ StoreInv => StoreInv'
           /\ \A m : SoundUpTo(m) => SoundUpTo(m)'
           /\ \A m : DifferAbove(m) => DifferAbove(m)'
<1>1. /\ blocks' = blocks /\ events' = events /\ progress' = progress
      /\ checkpoint' = checkpoint /\ anchor' = anchor /\ handled' = handled
      /\ chain' = chain /\ top' = top /\ forks' = forks
    BY DEF storeVars, chainVars
<1>2. FinalizedHeight' = FinalizedHeight /\ CheckpointHeight' = CheckpointHeight
    BY <1>1 DEF FinalizedHeight, CheckpointHeight
<1>3. StoreInv => StoreInv'
    BY <1>1, <1>2 DEF StoreInv, StoreInit
<1>4. ASSUME NEW m, SoundUpTo(m) PROVE SoundUpTo(m)'
    <2>1. Due(CheckpointHeight)' = Due(CheckpointHeight)
        BY <1>2, LogsUnmoved
    <2> QED BY <1>1, <1>2, <1>4, <2>1, LogsUnmoved DEF SoundUpTo
<1>5. ASSUME NEW m, DifferAbove(m) PROVE DifferAbove(m)'
    BY <1>1, <1>5 DEF DifferAbove, Outdated
<1> QED BY <1>1, <1>2, <1>3, <1>4, <1>5

\* A rewind to a common height leaves only what is canonical.
LEMMA RewindSound ==
    ASSUME TypeInv, StoreInv, NEW m \in 0..top, SoundUpTo(m), tip # None,
           anchor # None, MinOf(anchor.height, m) <= tip.height,
           NEW height \in Nat, height <= m, height <= anchor.height, FinalizedHeight <= height,
           height < CheckpointHeight /\ height > 0 => blocks[height] # None,
           RewindTo(height), UNCHANGED <<chainVars, tip>>
    PROVE  StoreInv' /\ SoundStore'
<1>0. /\ m \in Nat /\ m <= top
      /\ events' = {e \in events : e.height <= height}
      /\ \A h \in Heights : blocks'[h] = IF h > height THEN None ELSE blocks[h]
      /\ handled' = {e \in handled : e.height <= height}
      /\ anchor' = anchor /\ tip' = tip
    BY Typed DEF RewindTo
<1>1. /\ FinalizedHeight' = FinalizedHeight
      /\ CheckpointHeight' = MinOf(CheckpointHeight, height)
      /\ CheckpointHeight' \in Nat
      /\ FinalizedHeight \in Nat /\ CheckpointHeight \in Nat
      /\ CheckpointHeight <= anchor.height /\ FinalizedHeight <= CheckpointHeight
    BY RewindMoves, Typed DEF StoreInv
<1>2. StoreInv'
    <2>1. CheckpointHeight' <= anchor'.height /\ anchor'.hash <= forks'
          /\ (anchor'.height > top' => anchor'.hash < forks')
        BY <1>0, <1>1, Typed DEF StoreInv, MinOf, chainVars
    <2>2. FinalizedHeight' > 0 => blocks'[FinalizedHeight'] # None
        <3>1. FinalizedHeight > 0 => FinalizedHeight \in Heights
            BY <1>1, Typed DEF Heights
        <3>2. FinalizedHeight > 0 => blocks[FinalizedHeight] # None
            BY DEF StoreInv
        <3> QED BY <1>0, <1>1, <3>1, <3>2
    <2>3. CheckpointHeight' > 0 => blocks'[CheckpointHeight'] # None
        <3>1. CheckpointHeight' <= anchor.height /\ CheckpointHeight' <= height
            BY <1>1, Typed DEF MinOf
        <3>2. CheckpointHeight' > 0 => CheckpointHeight' \in Heights
            BY <1>1, <3>1, Typed DEF Heights
        <3>3. CheckpointHeight' > 0 => blocks[CheckpointHeight'] # None
            BY <1>1, Typed DEF StoreInv, MinOf
        <3> QED BY <1>0, <1>1, <3>1, <3>2, <3>3
    <2>4. \A e \in events' : blocks'[e.height] # None
        BY <1>0, Typed DEF StoreInv
    <2>5. \A h \in Heights : blocks'[h] # None => blocks'[h] <= forks'
        BY <1>0 DEF StoreInv, chainVars
    <2>6. FinalizedHeight' <= CheckpointHeight'
        BY <1>1 DEF MinOf
    <2> QED BY <1>0, <2>1, <2>2, <2>3, <2>4, <2>5, <2>6 DEF StoreInv
<1>3. events' \subseteq CanonicalEvents'
    <2>1. \A e \in events' : e \in Logs(e.contract) /\ e.contract \in Contracts
        BY <1>0, Typed DEF SoundUpTo, Event
    <2> QED BY <2>1, LogsUnmoved DEF CanonicalEvents
<1>4. \A h \in Heights : blocks'[h] # None => blocks'[h] = CanonicalHash(h)'
    <2>1. ASSUME NEW h \in Heights, blocks'[h] # None
          PROVE  blocks'[h] = CanonicalHash(h)
        <3>1. h <= height /\ blocks[h] # None /\ blocks'[h] = blocks[h]
            BY <1>0, <2>1, Typed
        <3>2. h \in 1..top /\ blocks[h] = chain[h].fork
            BY <1>0, <3>1, Typed DEF SoundUpTo
        <3> QED BY <3>1, <3>2 DEF CanonicalHash
    <2> QED BY <2>1, LogsUnmoved
<1>5. handled' \subseteq Due(CheckpointHeight)'
    <2> SUFFICES ASSUME NEW e \in handled' PROVE e \in Due(CheckpointHeight)'
        OBVIOUS
    <2>1. e \in handled /\ e.height <= height /\ e.height \in Nat
        BY <1>0, Typed
    <2>2. e \in Due(CheckpointHeight) /\ e.height <= CheckpointHeight
        BY <1>0, <2>1 DEF SoundUpTo
    <2>3. e.height <= CheckpointHeight'
        BY <1>1, <2>1, <2>2 DEF MinOf
    <2>4. e \in Due(CheckpointHeight')
        BY <2>2, <2>3 DEF Due
    <2> QED BY <2>4, LogsUnmoved DEF Due
<1>6. CheckpointHeight' <= tip'.height
    <2>1. CheckpointHeight' <= height /\ height <= MinOf(anchor.height, m)
        BY <1>0, <1>1, Typed DEF MinOf
    <2> QED BY <1>0, <1>1, <2>1, Typed DEF MinOf
<1> QED BY <1>2, <1>3, <1>4, <1>5, <1>6 DEF SoundStore

\* An anchor that is found canonical is not above the common height.
LEMMA AnchorIsCommon ==
    ASSUME TypeInv, NEW m \in 0..top, DifferAbove(m), anchor # None,
           CanonicalHash(anchor.height) = anchor.hash
    PROVE  anchor.height <= m
<1> SUFFICES ASSUME anchor.height > m PROVE FALSE
    BY Typed
<1>1. anchor.hash # None /\ anchor.height \in Nat /\ anchor.hash \in Nat
    BY Typed, NoneAssumption
<1>2. anchor.height \in 1..top /\ chain[anchor.height].fork = anchor.hash
    BY <1>1 DEF CanonicalHash
<1>3. anchor.hash < chain[anchor.height].fork
    BY <1>1, <1>2 DEF DifferAbove, Outdated
<1> QED BY <1>1, <1>2, <1>3

\* The search leaves the store alone, looks at stored blocks only, keeps only
\* canonical ones, and fails no run when reorgs are shallow.
LEMMA SearchKept ==
    ASSUME TypeInv, TypeInv', StoreInv, PassInv, UNCHANGED <<chainVars, syncVars, batches>>,
           NEW m \in 0..top, SoundUpTo(m), DifferAbove(m),
           ReorgsAreShallow => FinalizedHeight <= m,
           phase = "search" => SearchInv(m),
           AnchorOrphaned \/ Probe \/ FailWithReorgError
    PROVE  /\ UNCHANGED storeVars /\ tip' = tip
           /\ phase \in {"reconcile", "search"} /\ phase' \in {"search", "reorgError"}
           /\ PassInv'
           /\ phase' = "search" => SearchInv(m)'
<1>0. m \in Nat /\ m <= top
    BY Typed
<1>1. UNCHANGED storeVars =>
        /\ blocks' = blocks /\ anchor' = anchor /\ top' = top /\ FinalizedHeight' = FinalizedHeight
        /\ chain' = chain /\ sync' = sync /\ queue' = queue /\ batches' = batches
    BY DEF storeVars, chainVars, syncVars, FinalizedHeight
<1>2. CASE AnchorOrphaned
    <2>1. /\ UNCHANGED storeVars /\ phase' = "search" /\ ancestor' = None /\ anchor # None
          /\ probing' = {h \in FinalizedHeight..anchor.height : h > 0 /\ blocks[h] # None}
          /\ CanonicalHash(anchor.height) # anchor.hash
          /\ phase = "reconcile" /\ tip' = tip
        BY <1>2 DEF AnchorOrphaned, StoredBlocks
    <2>2. SearchInv(m)'
        <3>1. /\ FinalizedHeight <= anchor.height
              /\ FinalizedHeight > 0 => blocks[FinalizedHeight] # None
            BY <2>1, Typed DEF StoreInv
        <3>2. \A h \in FinalizedHeight..MinOf(anchor.height, m) :
                h > 0 /\ blocks[h] # None => h \in probing'
            BY <1>0, <2>1, <3>1, Typed DEF MinOf
        <3>3. \A h \in probing' : FinalizedHeight <= h /\ h <= anchor.height /\ blocks[h] # None
            BY <2>1, Typed
        <3> QED BY <1>1, <2>1, <3>2, <3>3 DEF SearchInv
    <2>3. PassInv'
        BY <1>1, <2>1 DEF PassInv
    <2> QED BY <2>1, <2>2, <2>3
<1>3. CASE Probe
    <2>1. /\ UNCHANGED storeVars /\ phase' = phase /\ phase = "search" /\ tip' = tip
          /\ SearchInv(m) /\ anchor # None
        BY <1>3 DEF Probe, SearchInv
    <2>2. PICK middle \in probing :
            IF CanonicalHash(middle) = blocks[middle]
            THEN /\ ancestor' = middle
                 /\ probing' = {h \in probing : h > middle}
            ELSE /\ probing' = {h \in probing : h < middle}
                 /\ ancestor' = ancestor
        BY <1>3 DEF Probe
    <2>3. /\ middle \in Heights /\ middle \in Nat /\ FinalizedHeight <= middle
          /\ middle <= anchor.height /\ blocks[middle] # None
        BY <2>1, <2>2, Typed DEF SearchInv, PassTypeOK
    <2>4. CanonicalHash(middle) = blocks[middle] => middle <= m
        <3> SUFFICES ASSUME CanonicalHash(middle) = blocks[middle], middle > m PROVE FALSE
            BY <1>0, <2>3
        <3>1. middle \in 1..top /\ chain[middle].fork = blocks[middle]
            BY <2>3 DEF CanonicalHash
        <3>2. blocks[middle] < chain[middle].fork
            BY <1>0, <2>3, <3>1 DEF DifferAbove, Outdated
        <3> QED BY <2>3, <3>1, <3>2, Typed
    <2>5. CanonicalHash(middle) # blocks[middle] => m < middle
        <3> SUFFICES ASSUME middle <= m PROVE CanonicalHash(middle) = blocks[middle]
            BY <1>0, <2>3
        <3>1. middle \in 1..top
            BY <1>0, <2>3, Typed
        <3>2. blocks[middle] = chain[middle].fork
            BY <2>3 DEF SoundUpTo
        <3> QED BY <3>1, <3>2 DEF CanonicalHash
    <2>6. SearchInv(m)'
        <3>1. ancestor' # None =>
                 FinalizedHeight <= ancestor' /\ ancestor' <= MinOf(anchor.height, m)
                 /\ blocks[ancestor'] # None
            BY <1>0, <2>1, <2>2, <2>3, <2>4, Typed DEF SearchInv, MinOf
        <3>2. \A h \in probing' :
                /\ FinalizedHeight <= h
                /\ h <= anchor.height
                /\ blocks[h] # None
                /\ ancestor' # None => ancestor' < h
            BY <2>1, <2>2 DEF SearchInv
        <3>3. ASSUME NEW h \in FinalizedHeight..MinOf(anchor.height, m), h > 0, blocks[h] # None,
                     ancestor' # None => ancestor' < h
              PROVE  h \in probing'
            <4>1. h \in Nat /\ h <= m
                BY <1>0, <2>1, Typed DEF MinOf
            <4>2. CASE CanonicalHash(middle) = blocks[middle]
                <5>1. ancestor' = middle /\ middle # None /\ middle < h
                    BY <2>2, <2>3, <3>3, <4>2, NoneAssumption
                <5>2. ancestor # None => ancestor < middle /\ ancestor \in Nat
                    BY <2>1, <2>2, Typed DEF SearchInv, PassTypeOK
                <5>3. h \in probing
                    BY <2>1, <2>3, <3>3, <4>1, <5>1, <5>2 DEF SearchInv
                <5> QED BY <2>2, <4>2, <5>1, <5>3
            <4>3. CASE CanonicalHash(middle) # blocks[middle]
                <5>1. h \in probing
                    BY <2>1, <2>2, <3>3, <4>3 DEF SearchInv
                <5> QED BY <1>0, <2>2, <2>3, <2>5, <4>1, <4>3, <5>1
            <4> QED BY <4>2, <4>3
        <3>4. /\ blocks' = blocks /\ anchor' = anchor /\ FinalizedHeight' = FinalizedHeight
            BY <1>1, <2>1
        <3> QED BY <2>1, <3>1, <3>2, <3>3, <3>4 DEF SearchInv
    <2>7. PassInv'
        BY <1>1, <2>1 DEF PassInv
    <2> QED BY <2>1, <2>6, <2>7
<1>4. CASE FailWithReorgError
    <2>1. /\ UNCHANGED storeVars /\ phase' = "reorgError" /\ phase = "search" /\ tip' = tip
          /\ SearchInv(m) /\ probing = {} /\ FinalizedReplaced
        BY <1>4 DEF FailWithReorgError
    <2>2. ~ReorgsAreShallow
        <3> SUFFICES ASSUME ReorgsAreShallow PROVE FALSE
            OBVIOUS
        <3>1. /\ ancestor = None /\ FinalizedHeight > 0 /\ FinalizedHeight <= anchor.height
              /\ blocks[FinalizedHeight] # None
            BY <2>1, Typed DEF FinalizedReplaced
        <3>2. FinalizedHeight \in FinalizedHeight..MinOf(anchor.height, m)
            BY <1>0, <3>1, Typed DEF MinOf
        <3> QED BY <2>1, <3>1, <3>2 DEF SearchInv
    <2>3. PassInv'
        BY <1>1, <2>1, <2>2 DEF PassInv
    <2> QED BY <2>1, <2>3
<1> QED BY <1>2, <1>3, <1>4

\* The search ends at a common height, or rewinds everything.
LEMMA SearchEnds ==
    ASSUME TypeInv, StoreInv, PassInv, NEW m \in 0..top, SearchInv(m), RewindToAncestor
    PROVE  /\ phase' = "setAnchor" /\ tip' = tip /\ anchor # None
           /\ \E height \in Nat :
                /\ RewindTo(height)
                /\ height <= m /\ height <= anchor.height /\ FinalizedHeight <= height
                /\ height > 0 => blocks[height] # None
<1>1. /\ phase = "search" /\ phase' = "setAnchor" /\ tip' = tip
      /\ anchor # None /\ anchor.height \in Nat /\ FinalizedHeight \in Nat
      /\ m \in Nat
      /\ FinalizedHeight <= anchor.height
      /\ ~FinalizedReplaced
    BY Typed DEF RewindToAncestor, PassInv, SearchInv, StoreInv
<1>2. CASE ancestor = None
    <2>1. FinalizedHeight = 0
        BY <1>1, <1>2 DEF FinalizedReplaced, StoreInv
    <2>2. RewindTo(0)
        BY <1>2, <2>1 DEF RewindToAncestor
    <2> QED BY <1>1, <2>1, <2>2
<1>3. CASE ancestor # None
    <2>1. RewindTo(ancestor) /\ ancestor \in Nat
        BY <1>3, Typed DEF RewindToAncestor, PassTypeOK
    <2>2. ancestor <= m /\ ancestor <= anchor.height /\ FinalizedHeight <= ancestor
          /\ blocks[ancestor] # None
        BY <1>1, <1>3, <2>1 DEF SearchInv, MinOf
    <2> QED BY <1>1, <2>1, <2>2
<1> QED BY <1>2, <1>3

\* A step that leaves the store alone and stays short of the rewind keeps the
\* common height.
LEMMA UnverifiedSound ==
    ASSUME TypeInv, SoundInv, UNCHANGED <<chainVars, storeVars>>, batches' = None,
           NEW m \in 0..top, SoundHeight(m), phase' \in Unverified,
           PassInv', KeptBelowTip(m)', phase' = "search" => SearchInv(m)'
    PROVE  SoundInv'
<1>1. /\ top' = top /\ FinalizedHeight' = FinalizedHeight
      /\ ForksRise' /\ StoreInv' /\ SoundUpTo(m)' /\ DifferAbove(m)'
    BY StoreAlone, ChainAlone DEF SoundInv, SoundHeight
<1>2. SoundHeight(m)'
    BY <1>1 DEF SoundHeight
<1> QED BY <1>1, <1>2 DEF SoundInv

LEMMA ReconcileSound ==
    ASSUME ReorgsBetweenPasses, TypeInv, TypeInv', SoundInv, ReconcileStep
    PROVE  SoundInv'
<1>u. /\ UNCHANGED <<chainVars, syncVars, batches>>
      /\ chain' = chain /\ top' = top /\ sync' = sync /\ queue' = queue /\ batches' = batches
    BY DEF ReconcileStep, chainVars, syncVars
<1>i. ForksRise /\ StoreInv /\ PassInv /\ ForksRise'
    BY <1>u, ChainAlone DEF SoundInv
<1>r. /\ phase \in {"idle", "reconcile", "search", "setAnchor"} /\ batches = None
      /\ batches' = None
    <2>1. phase \in {"idle", "reconcile", "search", "setAnchor"}
        BY DEF ReconcileStep, ReadChainTip, NothingToReplay, ReplayUnfinalized,
           AnchorCanonical, AnchorOrphaned, Probe, FailWithReorgError, RewindToAncestor,
           SetSyncAnchor
    <2> QED BY <1>u, <1>i, <2>1 DEF PassInv
<1>t. ASSUME NEW m \in 0..top, SoundHeight(m), phase \in {"reconcile", "search"}
      PROVE  /\ m \in Nat /\ SoundUpTo(m) /\ DifferAbove(m) /\ KeptBelowTip(m)
             /\ ReorgsAreShallow => FinalizedHeight <= m
             /\ phase = "search" => SearchInv(m)
    BY <1>t, Typed DEF SoundHeight
<1>w. ASSUME NEW m \in 0..top, SoundHeight(m), phase \in {"reconcile", "search"}, anchor # None,
             NEW height \in Nat, RewindTo(height), height <= m, height <= anchor.height,
             FinalizedHeight <= height,
             height < CheckpointHeight /\ height > 0 => blocks[height] # None,
             phase' = "setAnchor", tip' = tip
      PROVE  SoundInv'
    <2>1. SoundUpTo(m) /\ tip # None /\ MinOf(anchor.height, m) <= tip.height
        BY <1>i, <1>t, <1>w DEF PassInv, KeptBelowTip
    <2>2. StoreInv' /\ SoundStore'
        BY <1>u, <1>i, <1>w, <2>1, RewindSound
    <2>3. PassInv'
        BY <1>u, <1>i, <1>w DEF PassInv, RewindTo
    <2> QED BY <1>i, <1>r, <1>w, <2>2, <2>3 DEF SoundInv, Unverified
<1>1. CASE ReadChainTip
    <2>1. /\ phase = "idle" /\ phase' = "reconcile" /\ UNCHANGED storeVars
          /\ tip' = [height |-> top, hash |-> chain[top].fork]
        BY <1>1 DEF ReadChainTip, ReorgsBetweenPasses
    <2>2. PICK m \in 0..top : SoundHeight(m)
        BY <2>1 DEF SoundInv, Unverified
    <2>3. tip'.height = top /\ tip'.hash = chain[top].fork /\ m <= tip'.height /\ tip' # None
        <3>1. tip'.height = top /\ tip'.hash = chain[top].fork /\ m <= top
            BY <2>1, Typed
        <3>2. top \in 1..top /\ chain[top] \in Block
            BY Typed, NoneAssumption DEF ChainTypeOK
        <3>3. tip' \in Tip
            BY <2>1, <3>2, Typed DEF Tip, Block
        <3> QED BY <3>1, <3>3, TipAssumption
    <2>4. PassInv'
        BY <1>u, <1>i, <2>1, <2>3, Typed DEF PassInv, storeVars
    <2>5. KeptBelowTip(m)'
        <3>1. anchor' = anchor
            BY <2>1 DEF storeVars
        <3> QED BY <2>3, <3>1, Typed DEF KeptBelowTip, MinOf
    <2> QED BY <1>u, <1>r, <2>1, <2>2, <2>3, <2>4, <2>5, UnverifiedSound DEF Unverified
<1>2. CASE NothingToReplay \/ ReplayUnfinalized
    <2>1. phase = "reconcile" /\ anchor = None /\ StoreInit /\ tip # None
        BY <1>2, <1>i DEF NothingToReplay, ReplayUnfinalized, StoreInv, PassInv
    <2>2. CheckpointHeight = 0 /\ FinalizedHeight = 0
        BY <2>1 DEF StoreInit, CheckpointHeight, FinalizedHeight
    <2>3. UNCHANGED storeVars /\ phase' = "setAnchor" /\ tip' = tip
        BY <1>2, <2>2 DEF NothingToReplay, ReplayUnfinalized
    <2>4. StoreInv' /\ CheckpointHeight' = 0 /\ StoreInit'
        BY <1>u, <1>i, <2>1, <2>2, <2>3, StoreAlone DEF StoreInit
    <2>5. SoundStore'
        <3>1. tip'.height \in Nat
            BY <2>1, <2>3, Typed
        <3> QED BY <2>4, <3>1 DEF StoreInit, SoundStore
    <2>6. PassInv'
        BY <1>u, <1>i, <2>1, <2>3 DEF PassInv, storeVars
    <2> QED BY <1>i, <1>r, <2>3, <2>4, <2>5, <2>6 DEF SoundInv, Unverified
<1>3. CASE AnchorCanonical
    <2>1. /\ phase = "reconcile" /\ anchor # None /\ RewindTo(anchor.height)
          /\ CanonicalHash(anchor.height) = anchor.hash
          /\ phase' = "setAnchor" /\ tip' = tip
        BY <1>3 DEF AnchorCanonical
    <2>2. PICK m \in 0..top : SoundHeight(m)
        BY <2>1 DEF SoundInv, Unverified
    <2>3. anchor.height <= m
        BY <1>t, <2>1, <2>2, AnchorIsCommon
    <2>4. /\ FinalizedHeight <= anchor.height /\ ~(anchor.height < CheckpointHeight)
          /\ anchor.height \in Nat
        BY <1>i, <2>1, Typed DEF StoreInv
    <2> QED BY <1>w, <2>1, <2>2, <2>3, <2>4
<1>4. CASE AnchorOrphaned \/ Probe \/ FailWithReorgError
    <2>1. phase \in {"reconcile", "search"}
        BY <1>4 DEF AnchorOrphaned, Probe, FailWithReorgError
    <2>2. PICK m \in 0..top : SoundHeight(m)
        BY <2>1 DEF SoundInv, Unverified
    <2>3. /\ UNCHANGED storeVars /\ tip' = tip /\ phase' \in {"search", "reorgError"}
          /\ PassInv' /\ (phase' = "search" => SearchInv(m)')
        BY <1>u, <1>i, <1>t, <1>4, <2>1, <2>2, SearchKept
    <2>4. KeptBelowTip(m)'
        <3>1. anchor' = anchor
            BY <2>3 DEF storeVars
        <3> QED BY <1>t, <2>1, <2>2, <2>3, <3>1 DEF KeptBelowTip
    <2> QED BY <1>u, <1>r, <1>t, <2>1, <2>2, <2>3, <2>4, UnverifiedSound DEF Unverified
<1>5. CASE RewindToAncestor
    <2>1. phase = "search"
        BY <1>5 DEF RewindToAncestor
    <2>2. PICK m \in 0..top : SoundHeight(m)
        BY <2>1 DEF SoundInv, Unverified
    <2>3. SearchInv(m)
        BY <1>t, <2>1, <2>2
    <2>4. /\ phase' = "setAnchor" /\ tip' = tip /\ anchor # None
          /\ \E height \in Nat :
                /\ RewindTo(height)
                /\ height <= m /\ height <= anchor.height /\ FinalizedHeight <= height
                /\ height > 0 => blocks[height] # None
        BY <1>i, <1>5, <2>3, SearchEnds
    <2> QED BY <1>w, <2>1, <2>2, <2>4
<1>6. CASE SetSyncAnchor
    <2>1. /\ phase = "setAnchor" /\ phase' = "sync" /\ tip' = tip
          /\ anchor' = IF tip # None /\ tip.hash # None THEN tip ELSE None
          /\ UNCHANGED <<blocks, events, progress, checkpoint, handled>>
        BY <1>6 DEF SetSyncAnchor
    <2>2. /\ tip # None /\ tip.height <= top /\ tip.hash = chain[tip.height].fork
          /\ tip.height \in Nat /\ tip.height \in 1..top /\ tip.hash \in Nat
        BY <1>i, <2>1, Typed DEF PassInv
    <2>3. anchor' = tip
        BY <2>1, <2>2, NoneAssumption
    <2>4. CheckpointHeight' = CheckpointHeight /\ FinalizedHeight' = FinalizedHeight
        BY <2>1 DEF CheckpointHeight, FinalizedHeight
    <2>5. SoundStore
        BY <2>1 DEF SoundInv, Unverified
    <2>6. StoreInv'
        <3>1. /\ CheckpointHeight' <= anchor'.height /\ anchor'.hash <= forks'
              /\ ~(anchor'.height > top')
            BY <1>u, <1>i, <2>2, <2>3, <2>4, <2>5, Typed DEF SoundStore, ForksRise, chainVars
        <3>2. forks' = forks
            BY <1>u DEF chainVars
        <3> QED BY <1>i, <2>1, <2>2, <2>3, <2>4, <3>1, <3>2 DEF StoreInv
    <2>7. SoundStore'
        <3>1. Due(CheckpointHeight)' = Due(CheckpointHeight)
            BY <1>u, <2>4, LogsUnmoved
        <3> QED BY <1>u, <2>1, <2>4, <2>5, <3>1, LogsUnmoved DEF SoundStore
    <2>8. PassInv'
        BY <1>u, <1>i, <2>1, <2>2, <2>3 DEF PassInv
    <2> QED BY <1>i, <1>r, <2>1, <2>6, <2>7, <2>8 DEF SoundInv, Unverified
<1> QED BY <1>1, <1>2, <1>3, <1>4, <1>5, <1>6 DEF ReconcileStep

-----------------------------------------------------------------------------
(* The producer and the consumer: what is added is canonical. *)

\* What a pass that syncs or indexes knows.
LEMMA SoundFacts ==
    ASSUME TypeInv, SoundInv, phase \in {"sync", "final", "last"}
    PROVE  /\ ForksRise /\ StoreInv /\ PassInv /\ SoundStore
           /\ tip # None /\ tip.height \in Nat /\ tip.height \in 1..top /\ anchor = tip
           /\ IndexingCap = tip.height /\ TipHeight = tip.height
<1>1. ForksRise /\ StoreInv /\ PassInv /\ SoundStore
    BY DEF SoundInv, Unverified
<1>2. tip # None /\ tip.height \in Nat /\ tip.height \in 1..top /\ anchor = tip
    BY <1>1, Typed DEF PassInv
<1> QED BY <1>1, <1>2 DEF IndexingCap, TipHeight

\* A step that leaves the stored events alone keeps the invariant if what is
\* handled at the checkpoint is canonical.
LEMMA VerifiedSound ==
    ASSUME TypeInv, SoundInv,
           phase \in {"sync", "final", "last"}, phase' \in {"sync", "final", "last"},
           UNCHANGED <<chainVars, tip, blocks, events, anchor>>,
           CheckpointHeight' <= tip.height, FinalizedHeight' <= CheckpointHeight',
           FinalizedHeight' > 0 => blocks[FinalizedHeight'] # None,
           CheckpointHeight' > 0 => blocks[CheckpointHeight'] # None,
           handled' \subseteq Due(CheckpointHeight'),
           batches' # None => SoundBatches'
    PROVE  SoundInv'
<1>1. /\ ForksRise /\ StoreInv /\ PassInv /\ SoundStore /\ tip # None /\ anchor = tip
    BY SoundFacts
<1>2. /\ chain' = chain /\ top' = top /\ forks' = forks /\ tip' = tip
      /\ blocks' = blocks /\ events' = events /\ anchor' = anchor
    BY DEF chainVars
<1>3. SoundStore'
    BY <1>1, <1>2, LogsUnmoved DEF SoundStore
<1>4. StoreInv'
    BY <1>1, <1>2 DEF StoreInv
<1>5. PassInv'
    BY <1>1, <1>2 DEF PassInv
<1>6. ForksRise'
    BY <1>1, ChainAlone
<1> QED BY <1>3, <1>4, <1>5, <1>6 DEF SoundInv, Unverified

\* What is inserted is canonical, and so are the blocks it comes with.
LEMMA InsertedIsCanonical ==
    ASSUME TypeInv, ForksRise, StoreInv, anchor # None, UNCHANGED chainVars,
           NEW new \in SUBSET CanonicalEvents, InsertEvents(new),
           UNCHANGED <<checkpoint, anchor, handled>>
    PROVE  /\ events' = events \cup new
           /\ \A h \in Heights : blocks[h] # None => blocks'[h] = blocks[h]
           /\ \A h \in Heights : blocks'[h] # None /\ blocks[h] = None =>
                                   blocks'[h] = CanonicalHash(h)
           /\ \A e \in new : e.height \in Heights /\ blocks'[e.height] # None
                               /\ e.fork = CanonicalHash(e.height)
           /\ FinalizedHeight' = FinalizedHeight /\ CheckpointHeight' = CheckpointHeight
           /\ StoreInv'
<1>1. /\ FinalizedHeight' = FinalizedHeight /\ CheckpointHeight' = CheckpointHeight
      /\ top' = top /\ forks' = forks /\ events' = events \cup new
    BY DEF InsertEvents, FinalizedHeight, CheckpointHeight, chainVars
<1>2. \A e \in new : /\ e.height \in 1..top /\ e.height \in Heights
                      /\ e.fork = chain[e.height].fork
                      /\ e.fork = CanonicalHash(e.height)
    <2> SUFFICES ASSUME NEW e \in new
                 PROVE  /\ e.height \in 1..top /\ e.height \in Heights
                        /\ e.fork = chain[e.height].fork
                        /\ e.fork = CanonicalHash(e.height)
        OBVIOUS
    <2>1. PICK c \in Contracts : e \in Logs(c)
        BY DEF CanonicalEvents
    <2>2. e \in Event /\ e.height <= top /\ e.fork = chain[e.height].fork
        BY <2>1, LogsAre, Typed
    <2>3. e.height \in Heights
        BY <2>2 DEF Event
    <2>4. e.height \in 1..top
        BY <2>2, <2>3, Typed
    <2> QED BY <2>2, <2>3, <2>4 DEF CanonicalHash
<1>4. ASSUME NEW h \in Heights
      PROVE  /\ blocks[h] # None => blocks'[h] = blocks[h]
             /\ blocks'[h] # None => \/ blocks[h] # None
                                     \/ blocks'[h] = CanonicalHash(h) /\ blocks'[h] <= forks
             /\ (\E e \in new : e.height = h) => blocks'[h] # None
    <2>1. blocks'[h] = IF blocks[h] = None /\ \E e \in new : e.height = h
                       THEN (CHOOSE e \in new : e.height = h).fork
                       ELSE blocks[h]
        BY DEF InsertEvents, InsertBlocks
    <2>2. CASE blocks[h] = None /\ \E e \in new : e.height = h
        <3>1. PICK e \in new : e = CHOOSE f \in new : f.height = h
            BY <2>2
        <3>2. e.height = h /\ blocks'[h] = e.fork
            BY <2>1, <2>2, <3>1
        <3>3. h \in 1..top /\ e.fork = chain[h].fork /\ e.fork = CanonicalHash(h)
            BY <1>2, <3>2
        <3>4. chain[h].fork <= forks /\ chain[h].fork \in Nat
            BY <3>3, Typed DEF ForksRise
        <3> QED BY <2>2, <3>2, <3>3, <3>4, NoneAssumption
    <2>3. CASE ~(blocks[h] = None /\ \E e \in new : e.height = h)
        BY <2>1, <2>3
    <2> QED BY <2>2, <2>3
<1>5. StoreInv'
    <2>1. /\ FinalizedHeight > 0 => FinalizedHeight \in Heights
          /\ CheckpointHeight > 0 => CheckpointHeight \in Heights
        BY Typed, ChainAssumption DEF StoreInv, Heights
    <2>2. \A e \in events' : blocks'[e.height] # None
        <3>1. \A e \in events : e.height \in Heights /\ blocks[e.height] # None
            BY Typed DEF StoreInv
        <3> QED BY <1>1, <1>2, <1>4, <3>1
    <2>3. \A h \in Heights : blocks'[h] # None => blocks'[h] <= forks
        BY <1>4 DEF StoreInv
    <2> QED BY <1>1, <1>4, <2>1, <2>2, <2>3 DEF StoreInv
<1> QED BY <1>1, <1>2, <1>4, <1>5

\* A stored page adds canonical events of one contract and their blocks.
LEMMA PageIsCanonical ==
    ASSUME TypeInv, ForksRise, StoreInv, anchor # None, UNCHANGED chainVars,
           NEW c \in Contracts, StorePage(c)
    PROVE  /\ events \subseteq events'
           /\ \A e \in events' : e \in events \/ e \in Logs(c)
           /\ \A e \in Head(sync[c].pages).results : e \in Wanted(c) => e \in events'
           /\ \A h \in Heights : blocks[h] # None => blocks'[h] = blocks[h]
           /\ \A h \in Heights : blocks'[h] # None /\ blocks[h] = None =>
                                   blocks'[h] = CanonicalHash(h)
           /\ FinalizedHeight' = FinalizedHeight /\ CheckpointHeight' = CheckpointHeight
           /\ StoreInv'
<1> DEFINE results == Head(sync[c].pages).results
           new == {e \in Missing(c) : HasEnd(c) => e.height <= EndBlock[c]}
<1>1. /\ InsertEvents(new) /\ Fetchable(c)
      /\ UNCHANGED <<progress, checkpoint, anchor, handled>>
    BY DEF StorePage
<1>2. /\ Missing(c) = results \ events /\ new \subseteq Logs(c) /\ new \subseteq CanonicalEvents
    BY <1>1 DEF Missing, Fetchable, CanonicalEvents
<1>3. ASSUME NEW e \in results, e \in Wanted(c), e \notin events
      PROVE  e \in new
    <2>1. InRange(c, e.height)
        BY <1>3, Typed, WantedAre
    <2> QED BY <1>2, <1>3, <2>1 DEF InRange
<1> HIDE DEF new
<1>4. /\ events' = events \cup new
      /\ \A h \in Heights : blocks[h] # None => blocks'[h] = blocks[h]
      /\ \A h \in Heights : blocks'[h] # None /\ blocks[h] = None =>
                              blocks'[h] = CanonicalHash(h)
      /\ FinalizedHeight' = FinalizedHeight /\ CheckpointHeight' = CheckpointHeight
      /\ StoreInv'
    BY <1>1, <1>2, InsertedIsCanonical
<1> QED BY <1>2, <1>3, <1>4

LEMMA ProducerSound ==
    ASSUME TypeInv, SoundInv, ProducerStep
    PROVE  SoundInv'
<1>1. /\ UNCHANGED <<chainVars, batches>> /\ phase = "sync" /\ phase' = phase /\ tip' = tip
      /\ batches' = batches /\ top' = top /\ chain' = chain /\ forks' = forks
    BY DEF ProducerStep, passVars, chainVars
<1>2. /\ ForksRise /\ StoreInv /\ PassInv /\ SoundStore /\ tip # None /\ anchor = tip
      /\ anchor # None
      /\ batches # None => SoundBatches
    BY <1>1, SoundFacts DEF SoundInv
<1>3. CASE UNCHANGED <<blocks, events, checkpoint, anchor, handled>>
    <2>1. FinalizedHeight' = FinalizedHeight /\ CheckpointHeight' = CheckpointHeight
        BY <1>3 DEF FinalizedHeight, CheckpointHeight
    <2>2. SoundBatches => SoundBatches'
        BY <1>1, <1>3, <2>1 DEF SoundBatches
    <2> QED BY <1>1, <1>2, <1>3, <2>1, <2>2, VerifiedSound DEF StoreInv, SoundStore
<1>4. CASE \E c \in Contracts : StorePage(c)
    <2>1. PICK c \in Contracts : StorePage(c)
        BY <1>4
    <2>2. /\ events \subseteq events'
          /\ \A e \in events' : e \in events \/ e \in Logs(c)
          /\ \A h \in Heights : blocks[h] # None => blocks'[h] = blocks[h]
          /\ \A h \in Heights : blocks'[h] # None /\ blocks[h] = None =>
                                  blocks'[h] = CanonicalHash(h)
          /\ FinalizedHeight' = FinalizedHeight /\ CheckpointHeight' = CheckpointHeight
          /\ StoreInv'
        BY <1>1, <1>2, <2>1, PageIsCanonical
    <2>3. anchor' = anchor /\ handled' = handled /\ progress' = progress
        BY <2>1 DEF StorePage
    <2>4. SoundStore'
        <3>1. events' \subseteq CanonicalEvents
            BY <1>2, <2>2 DEF SoundStore, CanonicalEvents
        <3>2. \A h \in Heights : blocks'[h] # None => blocks'[h] = CanonicalHash(h)
            BY <1>2, <2>2 DEF SoundStore
        <3>3. Due(CheckpointHeight)' = Due(CheckpointHeight)
            BY <1>1, <2>2, LogsUnmoved
        <3> QED BY <1>1, <1>2, <2>2, <2>3, <3>1, <3>2, <3>3, LogsUnmoved DEF SoundStore
    <2>5. SoundBatches => SoundBatches'
        <3> SUFFICES ASSUME SoundBatches PROVE SoundBatches'
            OBVIOUS
        <3>1. /\ phase \in {"sync", "last"}
              /\ batches.finalized \in FinalizedHeight..CheckpointHeight
              /\ batches.finalized > 0 => blocks[batches.finalized] # None
              /\ CheckpointHeight <= anchor.height /\ anchor.height \in Heights
              /\ CheckpointHeight \in Nat /\ FinalizedHeight \in Nat
            BY <1>2, Typed DEF SoundBatches, StoreInv
        <3>2. batches.finalized > 0 => batches.finalized \in Heights
            BY <3>1, ChainAssumption DEF Heights
        <3>3. batches.finalized > 0 => blocks'[batches.finalized] # None
            BY <2>2, <3>1, <3>2
        <3> QED BY <1>1, <2>2, <3>1, <3>3 DEF SoundBatches
    <2>6. PassInv'
        BY <1>1, <1>2, <2>3 DEF PassInv
    <2>7. ForksRise'
        BY <1>1, <1>2, ChainAlone
    <2> QED BY <1>1, <1>2, <2>2, <2>4, <2>5, <2>6, <2>7 DEF SoundInv, Unverified
<1> QED BY <1>3, <1>4
        DEF ProducerStep, SyncStep, InitFromScratch, InitFromSaved, WalkPage, StartCatchUp,
            FetchBackfillPage, SaveBackfillPage, SaveCatchUpPage, storeVars

\* A call of the consumer takes stored rows up to the tip.
LEMMA CallSound ==
    ASSUME TypeInv, SoundInv, phase \in {"sync", "final"}, batches = None,
           phase' \in {"sync", "last"},
           UNCHANGED <<chainVars, tip, blocks, events, anchor, handled>>,
           NEW to \in Int, to <= tip.height, IndexEventsUpTo(to, TipHeight)
    PROVE  SoundInv'
<1>1. /\ StoreInv /\ SoundStore /\ tip # None /\ tip.height \in Nat
      /\ CheckpointHeight \in Nat /\ FinalizedHeight \in Nat
      /\ FinalizedHeight <= CheckpointHeight
    BY SoundFacts, Typed DEF StoreInv
<1> DEFINE markers == {FinalizedHeight, MaxOf(CheckpointHeight, FinalizedHeight)}
<1>2. \A f \in markers : f \in FinalizedHeight..CheckpointHeight /\ (f > 0 => blocks[f] # None)
    BY <1>1 DEF MaxOf, StoreInv
<1>3. /\ CheckpointHeight' = CheckpointHeight
      /\ FinalizedHeight' \in markers
      /\ batches' # None => /\ FinalizedHeight' = FinalizedHeight
                            /\ batches'.rows = RowsUpTo(to)
                            /\ batches'.finalized \in markers
    BY CallIs
<1> HIDE DEF markers
<1>4. batches' # None => SoundBatches'
    <2> SUFFICES ASSUME batches' # None PROVE SoundBatches'
        OBVIOUS
    <2>1. \A e \in RowsUpTo(to) :
            e \in events /\ CheckpointHeight < e.height /\ e.height <= tip.height
        BY <1>1, Typed DEF RowsUpTo
    <2>2. /\ batches'.finalized \in FinalizedHeight'..CheckpointHeight'
          /\ batches'.finalized > 0 => blocks[batches'.finalized] # None
        BY <1>2, <1>3
    <2> QED BY <1>3, <2>1, <2>2 DEF SoundBatches
<1>5. FinalizedHeight' <= CheckpointHeight' /\ (FinalizedHeight' > 0 => blocks[FinalizedHeight'] # None)
    BY <1>1, <1>2, <1>3
<1>6. handled' \subseteq Due(CheckpointHeight') /\ CheckpointHeight' <= tip.height
      /\ (CheckpointHeight' > 0 => blocks[CheckpointHeight'] # None)
    BY <1>1, <1>3 DEF SoundStore, StoreInv
<1> QED BY <1>4, <1>5, <1>6, VerifiedSound

\* A batch hands stored rows above the checkpoint to the handlers.
LEMMA BatchSound ==
    ASSUME TypeInv, SoundInv, IndexBatch, UNCHANGED <<chainVars, passVars>>
    PROVE  SoundInv'
<1>1. PICK h \in {e.height : e \in batches.rows} :
      \E f \in {batches.finalized} \cup {e.height : e \in Prefix(batches.rows, h)} :
        /\ h \in Nat /\ f \in Nat /\ batches.finalized <= f
        /\ CheckpointHeight' = h /\ FinalizedHeight' = f
        /\ handled' = handled \cup InContractRange(Prefix(batches.rows, h))
        /\ batches' # None => /\ batches'.rows = batches.rows \ Prefix(batches.rows, h)
                              /\ batches'.finalized = f
    BY BatchIs
<1>2. PICK f \in {batches.finalized} \cup {e.height : e \in Prefix(batches.rows, h)} :
        /\ h \in Nat /\ f \in Nat /\ batches.finalized <= f
        /\ CheckpointHeight' = h /\ FinalizedHeight' = f
        /\ handled' = handled \cup InContractRange(Prefix(batches.rows, h))
        /\ batches' # None => /\ batches'.rows = batches.rows \ Prefix(batches.rows, h)
                              /\ batches'.finalized = f
    BY <1>1
<1>3. /\ phase \in {"sync", "last"} /\ phase' = phase /\ tip' = tip
      /\ UNCHANGED <<blocks, events, anchor>>
      /\ \A e \in batches.rows :
           e \in events /\ CheckpointHeight < e.height /\ e.height <= tip.height
      /\ batches.finalized \in FinalizedHeight..CheckpointHeight
      /\ batches.finalized > 0 => blocks[batches.finalized] # None
    <2>1. batches # None
        BY BatchIs
    <2> QED BY <2>1 DEF SoundInv, SoundBatches, IndexBatch, passVars
<1>4. /\ StoreInv /\ SoundStore /\ tip # None /\ tip.height \in Nat
      /\ CheckpointHeight \in Nat /\ FinalizedHeight \in Nat
    BY <1>3, SoundFacts, Typed
<1>5. /\ \A e \in batches.rows : e.height \in Nat /\ blocks[e.height] # None
      /\ CheckpointHeight < h /\ h <= tip.height /\ blocks[h] # None
    <2>1. \A e \in batches.rows : e.height \in Nat /\ blocks[e.height] # None
        BY <1>3, <1>4, Typed DEF StoreInv
    <2> QED BY <1>1, <1>3, <2>1
<1>6. f <= h /\ (f > 0 => blocks[f] # None)
    <2>1. \A e \in Prefix(batches.rows, h) : e \in batches.rows /\ e.height <= h
        BY DEF Prefix
    <2> QED BY <1>2, <1>3, <1>4, <1>5, <2>1
<1>7. handled' \subseteq Due(h)
    <2>1. \A e \in handled : e \in Due(h)
        <3>1. \A e \in handled : e \in Due(CheckpointHeight) /\ e.height \in Nat
            BY <1>4, Typed DEF SoundStore
        <3> QED BY <1>2, <1>4, <1>5, <3>1 DEF Due
    <2>2. \A e \in InContractRange(Prefix(batches.rows, h)) : e \in Due(h)
        BY <1>3, <1>4 DEF InContractRange, Prefix, Due, SoundStore
    <2> QED BY <1>2, <2>1, <2>2
<1>8. batches' # None => SoundBatches'
    <2> SUFFICES ASSUME batches' # None PROVE SoundBatches'
        OBVIOUS
    <2>1. \A e \in batches.rows \ Prefix(batches.rows, h) : h < e.height
        BY <1>2, <1>5 DEF Prefix
    <2>2. f \in f..h
        BY <1>2, <1>6
    <2> QED BY <1>2, <1>3, <1>6, <2>1, <2>2 DEF SoundBatches
<1> QED BY <1>2, <1>3, <1>5, <1>6, <1>7, <1>8, VerifiedSound

LEMMA ConsumerSound ==
    ASSUME TypeInv, SoundInv, ConsumerStep
    PROVE  SoundInv'
<1>0. UNCHANGED chainVars
    BY DEF ConsumerStep
<1>1. CASE IndexSafeHeight
    <2>1. /\ phase = "sync" /\ phase' = phase /\ batches = None /\ tip' = tip
          /\ UNCHANGED <<blocks, events, anchor, handled>>
          /\ queue \in Seq(Nat) /\ queue # <<>>
          /\ IndexEventsUpTo(MinOf(Head(queue), IndexingCap), TipHeight)
        BY <1>1, Typed DEF IndexSafeHeight, passVars, SyncTypeOK
    <2>2. Head(queue) \in Nat /\ IndexingCap = tip.height /\ tip.height \in Nat
        BY <2>1, SoundFacts, HeadTailProperties
    <2>3. MinOf(Head(queue), IndexingCap) \in Int
          /\ MinOf(Head(queue), IndexingCap) <= tip.height
        BY <2>2 DEF MinOf
    <2> QED BY <1>0, <2>1, <2>3, CallSound
<1>2. CASE IndexBatch /\ UNCHANGED <<passVars, syncVars>>
    BY <1>0, <1>2, BatchSound
<1>3. CASE RaiseToTip
    <2>1. /\ phase = "sync" /\ phase' = "final" /\ batches' = None /\ tip' = tip
          /\ UNCHANGED <<blocks, events, anchor, checkpoint, handled>>
          /\ FinalizedHeight' = FinalizedHeight /\ CheckpointHeight' = CheckpointHeight
        BY <1>3 DEF RaiseToTip, FinalizedHeight, CheckpointHeight
    <2>2. StoreInv /\ SoundStore
        BY <2>1, SoundFacts
    <2> QED BY <1>0, <2>1, <2>2, VerifiedSound DEF StoreInv, SoundStore
<1>4. CASE IndexRemaining
    <2>1. /\ phase = "final" /\ phase' = "last" /\ tip' = tip /\ batches = None
          /\ UNCHANGED <<blocks, events, anchor, handled>>
          /\ IndexEventsUpTo(IndexingCap, TipHeight)
        BY <1>4 DEF IndexRemaining, SoundInv, SoundBatches
    <2>2. IndexingCap = tip.height /\ IndexingCap \in Int /\ IndexingCap <= tip.height
        BY <2>1, SoundFacts
    <2> QED BY <1>0, <2>1, <2>2, CallSound
<1> QED BY <1>1, <1>2, <1>3, <1>4 DEF ConsumerStep

-----------------------------------------------------------------------------
(* The end of a pass, complete or not, and the moves of the chain. *)

\* After a rewind the tip of the chain is a common height.
LEMMA TopIsSound ==
    ASSUME TypeInv, StoreInv, PassInv, SoundStore, phase \notin Unverified
    PROVE  SoundUpTo(top) /\ DifferAbove(top) /\ FinalizedHeight <= top
<1>1. /\ tip # None /\ tip.height \in Nat /\ tip.height <= top /\ top \in Nat /\ ChainTypeOK
      /\ CheckpointHeight \in Nat /\ FinalizedHeight \in Nat /\ CheckpointHeight <= tip.height
    BY Typed DEF PassInv, Unverified, SoundStore
<1>2. \A e \in events : e \in Logs(e.contract)
    <2>1. \A c \in Contracts : \A e \in Logs(c) : e.contract = c
        BY <1>1, WantedAre
    <2> QED BY <2>1 DEF SoundStore, CanonicalEvents
<1>3. \A h \in Heights : blocks[h] # None => h <= top /\ blocks[h] = chain[h].fork
    BY DEF SoundStore, CanonicalHash
<1>4. \A e \in handled : e \in Due(CheckpointHeight) /\ e.height <= CheckpointHeight
    BY DEF SoundStore, Due
<1>5. SoundUpTo(top)
    BY <1>2, <1>3, <1>4 DEF SoundUpTo
<1>6. DifferAbove(top)
    <2>1. \A h \in Heights : h > top => blocks[h] = None
        BY <1>1, <1>3, Typed
    <2>2. anchor # None /\ anchor.height > top => Outdated(anchor.hash, top)
        BY <1>1 DEF StoreInv, Outdated
    <2> QED BY <2>1, <2>2 DEF DifferAbove
<1>7. FinalizedHeight <= top
    BY <1>1 DEF StoreInv
<1> QED BY <1>5, <1>6, <1>7

LEMMA ResetSound ==
    ASSUME TypeInv, SoundInv, Reset, UNCHANGED chainVars
    PROVE  SoundInv'
<1>1. /\ UNCHANGED <<chainVars, storeVars>>
      /\ phase' = "idle" /\ tip' = None /\ queue' = <<>> /\ batches' = None
      /\ sync' = [c \in Contracts |-> FreshState(c)]
      /\ anchor' = anchor /\ top' = top /\ chain' = chain
    BY DEF Reset, storeVars, chainVars
<1>2. /\ ForksRise /\ StoreInv /\ PassInv /\ top \in Nat
    BY Typed DEF SoundInv
<1>3. PassInv'
    BY <1>1, <1>2 DEF PassInv
<1>4. \E m \in 0..top : SoundUpTo(m) /\ DifferAbove(m) /\ (ReorgsAreShallow => FinalizedHeight <= m)
    <2>1. CASE phase \in Unverified
        BY <2>1 DEF SoundInv, SoundHeight
    <2>2. CASE phase \notin Unverified
        <3>1. top \in 0..top
            BY <1>2
        <3> QED BY <1>2, <2>2, <3>1, TopIsSound DEF SoundInv
    <2> QED BY <2>1, <2>2
<1>5. PICK m \in 0..top :
         SoundUpTo(m) /\ DifferAbove(m) /\ (ReorgsAreShallow => FinalizedHeight <= m)
    BY <1>4
<1>6. /\ FinalizedHeight' = FinalizedHeight
      /\ ForksRise' /\ StoreInv' /\ SoundUpTo(m)' /\ DifferAbove(m)'
    BY <1>1, <1>2, <1>5, StoreAlone, ChainAlone
<1>7. SoundHeight(m)'
    BY <1>1, <1>5, <1>6 DEF SoundHeight, KeptBelowTip
<1> QED BY <1>1, <1>3, <1>6, <1>7 DEF SoundInv, Unverified

\* The chain grows, or nothing changes.
LEMMA GrownChain ==
    ASSUME TypeInv, TypeInv', ForksRise, StoreInv, PassInv,
           (phase \in MinePhases /\ Mine) \/ UNCHANGED chainVars,
           UNCHANGED <<storeVars, passVars, syncVars, batches>>
    PROVE  /\ ForksRise' /\ StoreInv' /\ PassInv' /\ (ResumeInv => ResumeInv')
           /\ \A m \in 0..top : DifferAbove(m) => DifferAbove(m)'
<1>1. /\ blocks' = blocks /\ events' = events /\ progress' = progress
      /\ checkpoint' = checkpoint /\ anchor' = anchor /\ handled' = handled
      /\ tip' = tip /\ phase' = phase
      /\ sync' = sync /\ queue' = queue /\ batches' = batches
      /\ FinalizedHeight' = FinalizedHeight /\ CheckpointHeight' = CheckpointHeight
      /\ top' = top \/ (phase \in MinePhases /\ (Quiet => phase = "idle"))
    BY DEF storeVars, passVars, syncVars, FinalizedHeight, CheckpointHeight, Quiet, chainVars
<1>2. ChainTypeOK /\ ChainTypeOK'
    BY Typed DEF TypeInv, TypeOK
<1>3. /\ top \in Nat /\ top' \in Nat /\ top <= top' /\ forks' = forks
      /\ \A h \in 1..top : chain'[h] = chain[h]
      /\ \A h \in (top + 1)..top' : chain'[h].fork = forks
    BY <1>2, AtLeastGrown
<1>4. ForksRise'
    <2>1. \A h \in 1..top' : h \in 1..top \/ h \in (top + 1)..top'
        BY <1>3
    <2> QED BY <1>3, <2>1, Typed DEF ForksRise
<1>5. StoreInv'
    <2>1. anchor # None /\ anchor.height > top' => anchor.height > top
        BY <1>3, Typed
    <2> QED BY <1>1, <1>3, <2>1 DEF StoreInv, StoreInit
<1>6. PassInv'
    <2>1. phase # "idle" => tip.height \in 1..top
        BY Typed DEF PassInv
    <2>2. phase # "idle" => tip.height <= top' /\ chain'[tip.height] = chain[tip.height]
        BY <1>1, <1>3, <2>1
    <2> QED BY <1>1, <2>2 DEF PassInv
<1>8. ResumeInv => ResumeInv'
    <2> SUFFICES ASSUME ResumeInv, Resuming PROVE ResumeInv'
        BY DEF ResumeInv
    <2>1. phase # "idle" => top' = top
        BY <1>1 DEF Resuming
    <2>2. anchor # None => anchor.height <= top' /\ anchor.hash = chain'[anchor.height].fork
        BY <1>3, Typed DEF ResumeInv
    <2> QED BY <1>1, <2>1, <2>2 DEF ResumeInv
<1>7. ASSUME NEW m \in 0..top, DifferAbove(m) PROVE DifferAbove(m)'
    <2>1. ASSUME NEW fork, Outdated(fork, m) PROVE Outdated(fork, m)'
        <3>1. \A g \in (m + 1)..top' : g \in (m + 1)..top \/ g \in (top + 1)..top'
            BY <1>3
        <3>2. \A g \in (m + 1)..top : g \in 1..top
            BY <1>3
        <3> QED BY <1>3, <2>1, <3>1, <3>2 DEF Outdated
    <2> QED BY <1>1, <1>7, <2>1 DEF DifferAbove
<1> QED BY <1>4, <1>5, <1>6, <1>7, <1>8

\* A reorg between two passes lowers the common height to the fork point: what
\* is stored above it is older than every block of the new fork.
LEMMA ReorgedChain ==
    ASSUME ReorgsBetweenPasses, TypeInv, TypeInv', ForksRise, StoreInv, PassInv,
           phase \in ReorgPhases, Reorg,
           UNCHANGED <<storeVars, passVars, syncVars, batches>>,
           ReorgsAreShallow => Deep(FinalizedHeight),
           NEW m \in 0..top, DifferAbove(m), ReorgsAreShallow => FinalizedHeight <= m
    PROVE  /\ phase = "idle" /\ ForksRise' /\ StoreInv' /\ PassInv' /\ ~Resuming
           /\ \E n \in 0..top' :
                /\ n <= m /\ n <= top /\ \A h \in 1..n : chain'[h] = chain[h]
                /\ DifferAbove(n)'
                /\ ReorgsAreShallow => FinalizedHeight <= n
<1>1. /\ blocks' = blocks /\ events' = events /\ progress' = progress
      /\ checkpoint' = checkpoint /\ anchor' = anchor /\ handled' = handled
      /\ tip' = tip /\ phase' = phase
      /\ sync' = sync /\ queue' = queue /\ batches' = batches
      /\ FinalizedHeight' = FinalizedHeight /\ CheckpointHeight' = CheckpointHeight
      /\ phase = "idle" /\ ~Resuming
    BY DEF storeVars, passVars, syncVars, FinalizedHeight, CheckpointHeight, Quiet, Resuming,
           ReorgsBetweenPasses
<1>2. ChainTypeOK /\ ChainTypeOK' /\ top \in Nat /\ top \in Heights /\ forks \in Nat
    BY Typed DEF TypeInv, TypeOK
<1>3. PICK k \in 0..(top - 1) :
        /\ k >= peak - MaxDepth
        /\ \E logs \in Contents :
             chain' = [h \in Heights |->
                         IF h <= k THEN chain[h]
                         ELSE IF h = k + 1
                              THEN [fork |-> forks + 1, logs |-> logs]
                              ELSE None]
        /\ top' = k + 1
    BY DEF Reorg
<1>4. /\ k \in Nat /\ k <= top /\ top' = k + 1 /\ top' \in Nat /\ forks' = forks + 1
      /\ k + 1 \in Heights
    BY <1>2, <1>3 DEF Reorg, ChainTypeOK
<1>5. /\ \A h \in 1..k : chain'[h] = chain[h]
      /\ chain'[k + 1].fork = forks + 1
    <2>1. \A h \in 1..k : h \in Heights
        BY <1>2, <1>3, Typed
    <2>2. \A h \in Heights : h <= k => chain'[h] = chain[h]
        BY <1>3
    <2>3. PICK logs \in Contents : chain'[k + 1] = [fork |-> forks + 1, logs |-> logs]
        BY <1>3, <1>4
    <2> QED BY <1>4, <2>1, <2>2, <2>3
<1>6. ForksRise'
    <2>1. \A h \in 1..k : chain'[h].fork \in Nat /\ chain'[h].fork <= forks
        BY <1>2, <1>4, <1>5, Typed DEF ForksRise
    <2>2. \A h \in 1..top' : h \in 1..k \/ h = k + 1
        BY <1>4
    <2>3. \A h \in 1..top' : chain'[h].fork <= forks'
        BY <1>2, <1>4, <1>5, <2>1, <2>2
    <2>4. ASSUME NEW g \in 1..top', NEW h \in 1..top', g <= h
          PROVE  chain'[g].fork <= chain'[h].fork
        <3>1. CASE h = k + 1
            BY <1>4, <1>5, <2>3, <3>1
        <3>2. CASE h \in 1..k
            <4>1. g \in 1..k
                BY <2>4, <3>2
            <4>2. g \in 1..top /\ h \in 1..top
                BY <1>2, <1>4, <3>2, <4>1
            <4> QED BY <1>2, <1>5, <2>4, <3>2, <4>1, <4>2 DEF ForksRise
        <3> QED BY <2>2, <3>1, <3>2
    <2> QED BY <2>3, <2>4 DEF ForksRise
<1>7. StoreInv'
    <2>1. anchor # None => anchor.hash <= forks' /\ anchor.hash < forks'
        BY <1>2, <1>4, Typed DEF StoreInv
    <2>2. \A h \in Heights : blocks[h] # None => blocks[h] <= forks'
        BY <1>2, <1>4, Typed DEF StoreInv
    <2> QED BY <1>1, <1>2, <2>1, <2>2 DEF StoreInv, StoreInit
<1>8. PassInv'
    BY <1>1, <1>2 DEF PassInv
<1>9. PICK n \in Nat : n = MinOf(m, k)
    BY <1>4 DEF MinOf
<1>10. n <= m /\ n <= k /\ n <= top /\ m \in Nat /\ n \in 0..top' /\ (n = m \/ n = k)
    BY <1>4, <1>9 DEF MinOf
<1>11. DifferAbove(n)'
    <2>1. ASSUME NEW fork \in Nat, fork <= forks, NEW h \in Nat, h > n,
                 h > m => Outdated(fork, m)
          PROVE  Outdated(fork, n)'
        <3>1. fork < forks'
            BY <1>2, <1>4, <2>1
        <3>2. ASSUME NEW g \in (n + 1)..top' PROVE fork < chain'[g].fork
            <4>1. CASE g = k + 1
                BY <1>2, <1>5, <2>1, <4>1
            <4>2. CASE g # k + 1
                <5>1. n = m /\ g \in (m + 1)..top /\ g \in 1..k
                    BY <1>2, <1>4, <1>10, <3>2, <4>2
                <5> QED BY <1>5, <2>1, <5>1 DEF Outdated
            <4> QED BY <4>1, <4>2
        <3> QED BY <3>1, <3>2 DEF Outdated
    <2>2. \A h \in Heights : h > n /\ blocks[h] # None => Outdated(blocks[h], n)'
        <3> SUFFICES ASSUME NEW h \in Heights, h > n, blocks[h] # None
                     PROVE  Outdated(blocks[h], n)'
            OBVIOUS
        <3>1. /\ h \in Nat /\ blocks[h] \in Nat /\ blocks[h] <= forks
              /\ h > m => Outdated(blocks[h], m)
            BY <1>2, Typed DEF StoreInv, DifferAbove
        <3>2. PICK fork \in Nat : fork = blocks[h]
            BY <3>1
        <3>3. Outdated(fork, n)'
            BY <2>1, <3>1, <3>2
        <3> QED BY <1>1, <3>2, <3>3 DEF Outdated
    <2>3. anchor # None /\ anchor.height > n => Outdated(anchor.hash, n)'
        <3> SUFFICES ASSUME anchor # None, anchor.height > n PROVE Outdated(anchor.hash, n)'
            OBVIOUS
        <3>1. /\ anchor.height \in Nat /\ anchor.hash \in Nat /\ anchor.hash <= forks
              /\ anchor.height > m => Outdated(anchor.hash, m)
            BY <1>2, Typed DEF StoreInv, DifferAbove
        <3>2. PICK fork \in Nat : fork = anchor.hash
            BY <3>1
        <3>3. Outdated(fork, n)'
            BY <2>1, <3>1, <3>2
        <3> QED BY <1>1, <3>2, <3>3 DEF Outdated
    <2> QED BY <1>1, <2>2, <2>3 DEF DifferAbove
<1>12. ReorgsAreShallow => FinalizedHeight <= n
    <2> SUFFICES ASSUME ReorgsAreShallow PROVE FinalizedHeight <= n
        OBVIOUS
    <2>1. FinalizedHeight <= m /\ FinalizedHeight \in Nat
        BY Typed
    <2>2. FinalizedHeight <= k
        <3>1. peak \in Nat /\ MaxDepth \in Nat /\ Finality \in Nat
            BY <1>2, Typed DEF ChainTypeOK, Heights
        <3> QED BY <1>3, <1>4, <2>1, <3>1 DEF Deep, ReorgsAreShallow
    <2> QED BY <1>10, <2>1, <2>2
<1>13. \A h \in 1..n : chain'[h] = chain[h]
    BY <1>4, <1>5, <1>10
<1> QED BY <1>1, <1>6, <1>7, <1>8, <1>10, <1>11, <1>12, <1>13

LEMMA GrownSound ==
    ASSUME TypeInv, TypeInv', SoundInv,
           (phase \in MinePhases /\ Mine) \/ UNCHANGED chainVars,
           UNCHANGED <<storeVars, passVars, syncVars, batches>>
    PROVE  SoundInv'
<1>1. /\ blocks' = blocks /\ events' = events /\ anchor' = anchor /\ handled' = handled
      /\ tip' = tip /\ phase' = phase /\ probing' = probing /\ ancestor' = ancestor
      /\ batches' = batches
      /\ FinalizedHeight' = FinalizedHeight /\ CheckpointHeight' = CheckpointHeight
    BY DEF storeVars, passVars, FinalizedHeight, CheckpointHeight
<1>2. ForksRise /\ StoreInv /\ PassInv /\ ChainTypeOK /\ ChainTypeOK'
    BY Typed DEF SoundInv, TypeInv, TypeOK
<1>3. /\ ForksRise' /\ StoreInv' /\ PassInv'
      /\ \A m \in 0..top : DifferAbove(m) => DifferAbove(m)'
    BY <1>2, GrownChain
<1>4. /\ top \in Nat /\ top' \in Nat /\ top <= top' 
      /\ \A h \in 1..top : chain'[h] = chain[h]
      /\ \A c \in Contracts : Logs(c) \subseteq Logs(c)'
    BY <1>2, AtLeastGrown
<1>5. /\ CanonicalEvents \subseteq CanonicalEvents'
      /\ \A e \in Due(CheckpointHeight) : e \in Due(CheckpointHeight)'
    BY <1>1, <1>4 DEF CanonicalEvents, Due
<1>6. CASE phase \in Unverified
    <2>1. PICK m \in 0..top : SoundHeight(m)
        BY <1>6 DEF SoundInv
    <2>2. m \in 0..top' /\ m \in Nat /\ SoundUpTo(m) /\ DifferAbove(m)'
        BY <1>3, <1>4, <2>1 DEF SoundHeight
    <2>3. SoundUpTo(m)'
        <3>1. \A e \in events : e.height <= m => e \in Logs(e.contract)'
            BY <1>4, <2>2, Typed DEF SoundUpTo, Event
        <3>2. \A h \in Heights : h <= m /\ blocks[h] # None => blocks[h] = chain'[h].fork
            <4>1. \A h \in Heights : h <= m => h \in 1..top
                BY <1>4, <2>1, Typed
            <4> QED BY <1>4, <2>2, <4>1 DEF SoundUpTo
        <3> QED BY <1>1, <1>5, <2>2, <3>1, <3>2 DEF SoundUpTo
    <2>4. SoundHeight(m)'
        BY <1>1, <2>1, <2>2, <2>3 DEF SoundHeight, KeptBelowTip, SearchInv
    <2>5. batches = None
        BY <1>2, <1>6 DEF PassInv, Unverified
    <2> QED BY <1>1, <1>3, <1>6, <2>2, <2>4, <2>5 DEF SoundInv
<1>7. CASE phase \notin Unverified
    <2>1. \A h \in Heights : blocks[h] # None => blocks[h] = CanonicalHash(h)'
        <3> SUFFICES ASSUME NEW h \in Heights, blocks[h] # None
                     PROVE  blocks[h] = CanonicalHash(h)'
            OBVIOUS
        <3>1. blocks[h] = CanonicalHash(h) /\ h \in 1..top
            BY <1>7 DEF SoundInv, SoundStore, CanonicalHash
        <3>2. h \in 1..top'
            BY <1>4, <3>1
        <3> QED BY <1>4, <3>1, <3>2 DEF CanonicalHash
    <2>2. SoundStore'
        BY <1>1, <1>5, <1>7, <2>1 DEF SoundInv, SoundStore
    <2>3. batches # None => SoundBatches'
        BY <1>1 DEF SoundInv, SoundBatches
    <2> QED BY <1>1, <1>3, <1>7, <2>2, <2>3 DEF SoundInv
<1> QED BY <1>6, <1>7

LEMMA ReorgSound ==
    ASSUME ReorgsBetweenPasses, TypeInv, TypeInv', SoundInv, phase \in ReorgPhases, Reorg,
           UNCHANGED <<storeVars, passVars, syncVars, batches>>,
           ReorgsAreShallow => Deep(FinalizedHeight)
    PROVE  SoundInv'
<1>1. /\ blocks' = blocks /\ events' = events /\ anchor' = anchor /\ handled' = handled
      /\ phase' = phase /\ batches' = batches
      /\ FinalizedHeight' = FinalizedHeight /\ CheckpointHeight' = CheckpointHeight
      /\ phase = "idle"
    BY DEF storeVars, passVars, FinalizedHeight, CheckpointHeight, ReorgsBetweenPasses
<1>2. ForksRise /\ StoreInv /\ PassInv /\ ChainTypeOK /\ ChainTypeOK' /\ top \in Nat
    BY Typed DEF SoundInv, TypeInv, TypeOK
<1>3. PICK m \in 0..top : SoundHeight(m)
    BY <1>1 DEF SoundInv, Unverified
<1>4. /\ m \in Nat /\ SoundUpTo(m) /\ DifferAbove(m)
      /\ ReorgsAreShallow => FinalizedHeight <= m
    BY <1>3 DEF SoundHeight
<1>5. /\ ForksRise' /\ StoreInv' /\ PassInv'
      /\ \E n \in 0..top' :
           /\ n <= m /\ n <= top /\ \A h \in 1..n : chain'[h] = chain[h]
           /\ DifferAbove(n)'
           /\ ReorgsAreShallow => FinalizedHeight <= n
    BY <1>2, <1>4, ReorgedChain
<1>6. PICK n \in 0..top' :
           /\ n <= m /\ n <= top /\ \A h \in 1..n : chain'[h] = chain[h]
           /\ DifferAbove(n)'
           /\ ReorgsAreShallow => FinalizedHeight <= n
    BY <1>5
<1>7. n \in Nat /\ n <= top'
    BY <1>6, Typed DEF TypeInv, TypeOK, ChainTypeOK
<1>8. \A c \in Contracts : \A e : e.height <= n => (e \in Logs(c)' <=> e \in Logs(c))
    BY <1>2, <1>6, <1>7, SamePrefix
<1>9. SoundUpTo(n)'
    <2>1. \A e \in events : e.height <= n => e \in Logs(e.contract)'
        <3>1. \A e \in events : e.height \in Nat /\ e.contract \in Contracts
            BY Typed DEF Event
        <3> QED BY <1>4, <1>6, <1>7, <1>8, <3>1 DEF SoundUpTo
    <2>2. \A h \in Heights : h <= n /\ blocks[h] # None => blocks[h] = chain'[h].fork
        <3>1. \A h \in Heights : h <= n => h \in 1..n /\ h <= m
            BY <1>4, <1>6, <1>7, Typed
        <3> QED BY <1>4, <1>6, <3>1 DEF SoundUpTo
    <2>3. \A e \in handled : e.height <= n => e \in Due(CheckpointHeight)'
        <3> SUFFICES ASSUME NEW e \in handled, e.height <= n PROVE e \in Due(CheckpointHeight)'
            OBVIOUS
        <3>1. e.height \in Nat /\ e.height <= m
            BY <1>4, <1>6, <1>7, Typed
        <3>2. e \in Due(CheckpointHeight)
            BY <1>4, <3>1 DEF SoundUpTo
        <3>3. PICK c \in Contracts : e \in Logs(c)
            BY <3>2 DEF Due, CanonicalEvents
        <3>4. e \in CanonicalEvents'
            BY <1>8, <3>3 DEF CanonicalEvents
        <3> QED BY <1>1, <3>2, <3>4 DEF Due
    <2> QED BY <1>1, <1>4, <2>1, <2>2, <2>3 DEF SoundUpTo
<1>10. SoundHeight(n)'
    BY <1>1, <1>6, <1>9 DEF SoundHeight, KeptBelowTip
<1>11. batches = None
    BY <1>1, <1>2 DEF PassInv
<1> QED BY <1>1, <1>5, <1>10, <1>11 DEF SoundInv, Unverified

-----------------------------------------------------------------------------
(* Every reachable state. *)

LEMMA SoundInit ==
    ASSUME Init, TypeInv
    PROVE  SoundInv
<1>1. /\ top = 1 /\ forks = 0 /\ chain[1].fork = 0 /\ StoreInit
      /\ phase = "idle" /\ tip = None /\ queue = <<>> /\ batches = None
      /\ sync = [c \in Contracts |-> FreshState(c)]
    <2>1. 1 \in Heights
        BY ChainAssumption DEF Heights
    <2> QED BY <2>1 DEF Init, ChainInit, PassInit, SyncInit, IndexInit
<1>2. /\ CheckpointHeight = 0 /\ FinalizedHeight = 0 /\ anchor = None /\ events = {}
      /\ handled = {}
      /\ \A h \in Heights : blocks[h] = None
    BY <1>1 DEF StoreInit, CheckpointHeight, FinalizedHeight
<1>3. ForksRise
    BY <1>1 DEF ForksRise
<1>4. StoreInv
    BY <1>1, <1>2 DEF StoreInv
<1>5. PassInv
    BY <1>1, <1>2 DEF PassInv
<1>6. SoundHeight(1)
    BY <1>1, <1>2 DEF SoundHeight, KeptBelowTip, SoundUpTo, DifferAbove
<1> QED BY <1>1, <1>3, <1>4, <1>5, <1>6 DEF SoundInv, Unverified

LEMMA SoundStep ==
    ASSUME ReorgsBetweenPasses, TypeInv, TypeInv', SoundInv, [Next]_vars,
           ReorgsAreShallow => Deep(FinalizedHeight)
    PROVE  SoundInv'
<1>1. CASE ChainStep \/ UNCHANGED vars
    <2>1. \/ /\ (phase \in MinePhases /\ Mine) \/ UNCHANGED chainVars
             /\ UNCHANGED <<storeVars, passVars, syncVars, batches>>
          \/ /\ phase \in ReorgPhases /\ Reorg
             /\ UNCHANGED <<storeVars, passVars, syncVars, batches>>
        BY <1>1 DEF ChainStep, vars
    <2> QED BY <2>1, GrownSound, ReorgSound
<1>2. CASE EndStep \/ StopStep
    BY <1>2, ResetSound DEF EndStep, EndPass, StopStep, Stop
<1> QED BY <1>1, <1>2, ReconcileSound, ProducerSound, ConsumerSound DEF Next

\* What is stored is right in every state of every run whose reorgs come
\* between passes: up to a common height with the canonical chain until a pass
\* has rewound, and then everywhere, though passes stop at any step, new blocks
\* arrive at any step and first-event discovery overlooks logs.
THEOREM SoundInvariant ==
    ASSUME ReorgsBetweenPasses
    PROVE  Spec => [](TypeInv /\ SoundInv)
<1>1. Spec => []TypeInv
    BY TypeCorrect DEF TypeInv
<1>2. Init /\ TypeInv => SoundInv
    BY SoundInit
<1>3. CASE ReorgsAreShallow
    <2>1. Spec => []FinalityInv
        BY <1>3, FinalityInvariant, PTL
    <2>2. FinalityInv => Deep(FinalizedHeight)
        BY DEF FinalityInv, MayBeFinal
    <2>3. TypeInv /\ TypeInv' /\ FinalityInv /\ SoundInv /\ [Next]_vars => SoundInv'
        BY <2>2, SoundStep
    <2> QED BY <1>1, <1>2, <2>1, <2>3, PTL DEF Spec
<1>4. CASE ~ReorgsAreShallow
    <2>1. TypeInv /\ TypeInv' /\ SoundInv /\ [Next]_vars => SoundInv'
        BY <1>4, SoundStep
    <2> QED BY <1>1, <1>2, <2>1, PTL DEF Spec
<1> QED BY <1>3, <1>4

LEMMA SoundIsCanonical == SoundInv => StoredIsCanonical
BY DEF SoundInv, StoredIsCanonical, Reconciled, Unverified, SoundStore

\* Once a pass has reconciled, no stored event or block is orphaned, wherever
\* earlier passes stopped.
THEOREM StoredStaysCanonical ==
    ASSUME ReorgsBetweenPasses
    PROVE  Spec => []StoredIsCanonical
BY SoundIsCanonical, SoundInvariant, PTL

LEMMA FinalIsCanonical ==
    ASSUME ReorgsAreShallow, TypeInv, SoundInv
    PROVE  FinalizedStands
<1> SUFFICES ASSUME NEW e \in handled, e.height <= FinalizedHeight
             PROVE  e \in Logs(e.contract)
    BY DEF FinalizedStands
<1>1. e.height \in Nat /\ FinalizedHeight \in Nat
    BY Typed
<1>2. \E h : e \in Due(h)
    <2>1. CASE phase \in Unverified
        <3>1. PICK m \in 0..top : SoundHeight(m)
            BY <2>1 DEF SoundInv
        <3>2. e.height <= m
            BY <1>1, <3>1, Typed DEF SoundHeight
        <3> QED BY <3>1, <3>2 DEF SoundHeight, SoundUpTo
    <2>2. CASE phase \notin Unverified
        BY <2>2 DEF SoundInv, SoundStore
    <2> QED BY <2>1, <2>2
<1> QED BY <1>2, Typed, DueIs DEF DueOf, Wanted

\* What was handled at or below the finalized block stays canonical in every
\* phase, the search for a common ancestor included, as long as no reorg is
\* deeper than the finality.
THEOREM FinalizedWorkStands ==
    ASSUME ReorgsBetweenPasses, ReorgsAreShallow
    PROVE  Spec => []FinalizedStands
<1>1. TypeInv /\ SoundInv => FinalizedStands
    BY FinalIsCanonical
<1> QED BY <1>1, SoundInvariant, PTL

\* A reorg no deeper than the finality never fails a run with a ReorgError: the
\* search finds the finalized block canonical at the latest.
THEOREM NeverReorgError ==
    ASSUME ReorgsBetweenPasses, ReorgsAreShallow
    PROVE  Spec => []NoReorgError
<1>1. SoundInv => NoReorgError
    BY DEF SoundInv, PassInv, NoReorgError
<1> QED BY <1>1, SoundInvariant, PTL

=============================================================================

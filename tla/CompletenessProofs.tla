------------------------- MODULE CompletenessProofs -------------------------
(***************************************************************************)
(* Nothing is missed, for every value of Indexer's constants: when passes  *)
(* run to their end, the stored data is complete up to a common height of  *)
(* the stored and the canonical chain, and with it the properties about    *)
(* stored and handled events hold, and the projection promised to the      *)
(* handlers.                                                               *)
(***************************************************************************)
EXTENDS SoundnessProofs

-----------------------------------------------------------------------------
(* Reconciliation. *)

\* Nothing stored, nothing missing.
LEMMA NothingStored ==
    ASSUME TypeInv, StoreInit, tip # None
    PROVE  Canonical /\ ProgressHolds /\ ProgressBelowTip
<1>1. CheckpointHeight = 0
    BY DEF StoreInit, CheckpointHeight
<1>2. Due(0) = {}
    <2>1. \A e \in CanonicalEvents : e.height \in Nat /\ e.height >= 1
        BY Typed, WantedAre DEF CanonicalEvents
    <2> QED BY <2>1 DEF Due
<1> QED BY <1>1, <1>2, Typed DEF StoreInit, Canonical, ProgressHolds, ProgressBelowTip

\* Where the data is complete it is right.
LEMMA AgreeIsSound ==
    ASSUME TypeInv, NEW m \in 0..top, AgreeUpTo(m)
    PROVE  SoundUpTo(m)
<1>1. /\ MinOf(CheckpointHeight, m) \in Nat /\ CheckpointHeight \in Nat
      /\ MinOf(CheckpointHeight, m) <= CheckpointHeight
    BY Typed DEF MinOf
<1>2. \A e \in CanonicalEvents : e.height \in Nat
    BY Typed, WantedAre DEF CanonicalEvents
<1>3. \A e \in handled : e.height <= m => e \in Due(MinOf(CheckpointHeight, m))
    BY DEF AgreeUpTo
<1>4. \A e \in handled : e.height <= m => e \in Due(CheckpointHeight)
    BY <1>1, <1>2, <1>3, Typed DEF Due
<1> QED BY <1>4 DEF AgreeUpTo, SoundUpTo

\* A rewind to a common height leaves only what is canonical, and progress that
\* holds.
LEMMA RewindToCommon ==
    ASSUME TypeInv, StoreInv, NEW m \in 0..top, AgreeUpTo(m),
           MinOf(anchor.height, m) <= tip.height, tip # None, tip.height <= top, anchor # None,
           NEW height \in Nat, height <= m, height <= anchor.height, FinalizedHeight <= height,
           height < CheckpointHeight /\ height > 0 => blocks[height] # None,
           RewindTo(height), UNCHANGED <<chainVars, tip>>, TypeInv'
    PROVE  /\ StoreInv'
           /\ Canonical'
           /\ ProgressHolds'
           /\ ProgressBelowTip'
           /\ \A c \in Contracts : progress'[c] # None /\ progress'[c].cursor # None =>
                 progress[c] # None /\ progress'[c].cursor = progress[c].cursor
<1>0. /\ m \in Nat /\ m <= top
      /\ events' = {e \in events : e.height <= height}
      /\ handled' = {e \in handled : e.height <= height}
      /\ anchor' = anchor /\ tip' = tip /\ height <= tip.height
    BY Typed DEF RewindTo, MinOf
<1>1. SoundUpTo(m)
    BY AgreeIsSound
<1>2. StoreInv' /\ SoundStore'
    BY <1>1, RewindSound
<1>3. CheckpointHeight' = MinOf(CheckpointHeight, height)
    BY RewindMoves
<1>4. Canonical'
    <2>1. handled' = {e \in handled : e.height <= m /\ e.height <= height}
        BY <1>0, Typed
    <2>2. {e \in handled : e.height <= m} = Due(MinOf(CheckpointHeight, m))
        BY DEF AgreeUpTo
    <2>3. handled' = {e \in Due(MinOf(CheckpointHeight, m)) : e.height <= height}
        BY <2>1, <2>2
    <2>4. \A e \in CanonicalEvents : e.height \in Nat
        BY Typed, WantedAre DEF CanonicalEvents
    <2>5. Due(MinOf(CheckpointHeight, height)) =
            {e \in Due(MinOf(CheckpointHeight, m)) : e.height <= height}
        BY <1>0, <2>4, Typed DEF Due, MinOf
    <2>6. \A h : Due(h)' = Due(h)
        BY LogsUnmoved
    <2>7. Due(CheckpointHeight)' = Due(MinOf(CheckpointHeight, height))
        BY <1>3, <2>6
    <2> QED BY <1>2, <2>3, <2>5, <2>7 DEF Canonical, SoundStore
<1>5. ASSUME NEW c \in Contracts, progress'[c] # None
      PROVE  /\ progress'[c].synced <= tip'.height
             /\ DueOf(c, MinOf(progress[c].synced, tip.height))' \subseteq events'
             /\ progress'[c].cursor # None =>
                   progress[c] # None /\ progress'[c].cursor = progress[c].cursor
    <2>1. /\ progress'[c] = IF progress[c] # None /\ progress[c].synced > height
                            THEN [cursor |-> None, synced |-> height, isComplete |-> FALSE]
                            ELSE progress[c]
          /\ progress[c] # None
        BY <1>5 DEF RewindTo
    <2>2. progress[c].synced \in Nat /\ progress'[c].synced = MinOf(progress[c].synced, height)
        BY <2>1, Typed DEF MinOf
    <2>3. progress'[c].synced <= tip'.height /\ progress'[c].synced <= height
        BY <1>0, <2>2, Typed DEF MinOf
    <2>4. DueOf(c, MinOf(progress[c].synced, MinOf(anchor.height, m))) \subseteq events
        BY <2>1 DEF AgreeUpTo
    <2>5. DueOf(c, progress'[c].synced) \subseteq events'
        <3>1. \A e \in Wanted(c) : e.height \in Nat
            BY Typed, WantedAre
        <3>2. progress'[c].synced <= MinOf(progress[c].synced, MinOf(anchor.height, m))
            BY <1>0, <2>2, Typed DEF MinOf
        <3>3. /\ progress'[c].synced \in Nat
              /\ MinOf(progress[c].synced, MinOf(anchor.height, m)) \in Nat
            BY <1>0, <2>2, Typed DEF MinOf
        <3>4. \A e \in DueOf(c, progress'[c].synced) :
                e \in DueOf(c, MinOf(progress[c].synced, MinOf(anchor.height, m)))
            BY <3>1, <3>2, <3>3 DEF DueOf
        <3>5. \A e \in DueOf(c, progress'[c].synced) : e.height <= height
            BY <2>3, <3>1, <3>3 DEF DueOf
        <3> QED BY <1>0, <2>4, <3>4, <3>5
    <2>6. MinOf(progress'[c].synced, tip'.height) = progress'[c].synced
        BY <2>3 DEF MinOf
    <2>7. \A h : DueOf(c, h)' = DueOf(c, h)
        BY LogsUnmoved
    <2>8. progress'[c].cursor # None => progress'[c].cursor = progress[c].cursor
        BY <2>1
    <2>9. DueOf(c, MinOf(progress[c].synced, tip.height))' = DueOf(c, progress'[c].synced)
        BY <2>6, <2>7
    <2> QED BY <2>1, <2>3, <2>5, <2>8, <2>9
<1> QED BY <1>2, <1>4, <1>5 DEF ProgressHolds, ProgressBelowTip

\* What is complete outlives a step that changes neither the chain nor the
\* store.
LEMMA AgreeAlone ==
    ASSUME UNCHANGED <<chainVars, storeVars>>
    PROVE  /\ \A m : AgreeUpTo(m) => AgreeUpTo(m)'
           /\ \A c, p : Resumable(c, p) => Resumable(c, p)'
<1>1. /\ blocks' = blocks /\ events' = events /\ progress' = progress
      /\ anchor' = anchor /\ handled' = handled
      /\ chain' = chain /\ top' = top /\ CheckpointHeight' = CheckpointHeight
    BY StoreAlone
<1>2. ASSUME NEW m, AgreeUpTo(m) PROVE AgreeUpTo(m)'
    <2>1. Due(MinOf(CheckpointHeight, m))' = Due(MinOf(CheckpointHeight, m))
        BY <1>1, LogsUnmoved
    <2>2. \A c \in Contracts : progress'[c] # None =>
            DueOf(c, MinOf(progress[c].synced, MinOf(anchor.height, m)))' \subseteq events'
        BY <1>1, <1>2, LogsUnmoved DEF AgreeUpTo
    <2> QED BY <1>1, <1>2, <2>1, <2>2, LogsUnmoved DEF AgreeUpTo
<1>3. ASSUME NEW c, NEW p, Resumable(c, p) PROVE Resumable(c, p)'
    BY <1>1, <1>3, LogsUnmoved DEF Resumable
<1> QED BY <1>2, <1>3

\* A pass on a quiet chain stays at the top of the chain and on the blocks that
\* the last one left.
LEMMA ResumeAlone ==
    ASSUME ResumeInv, UNCHANGED <<chainVars, anchor>>, phase' # "search",
           phase' # "idle" => phase # "idle" /\ tip' = tip
    PROVE  ResumeInv'
<1>1. chain' = chain /\ top' = top /\ anchor' = anchor
    BY DEF chainVars
<1> QED BY <1>1 DEF ResumeInv

\* The rewind of a pass: the invariant from before it to after it.
LEMMA RewindStored ==
    ASSUME TypeInv, TypeInv', StoredInv, phase \in {"reconcile", "search", "trusted"},
           anchor # None, NEW m \in 0..top, AgreeUpTo(m), MinOf(anchor.height, m) <= tip.height,
           NEW height \in Nat, height <= m, height <= anchor.height, FinalizedHeight <= height,
           height < CheckpointHeight /\ height > 0 => blocks[height] # None,
           Resuming => height = anchor.height,
           RewindTo(height), phase' = "setAnchor",
           UNCHANGED <<chainVars, syncVars, batches, tip>>
    PROVE  StoredInv'
<1>0. /\ tip # None /\ tip.height <= top /\ phase \in Unverified
      /\ ForksRise /\ StoreInv /\ SavedCursors /\ PassInv /\ ResumeInv
      /\ anchor' = anchor /\ events' = {e \in events : e.height <= height}
      /\ top' = top /\ chain' = chain /\ tip' = tip /\ sync' = sync /\ queue' = queue
      /\ batches' = batches
    BY DEF StoredInv, PassInv, Unverified, RewindTo, chainVars, syncVars
<1>1. /\ StoreInv' /\ Canonical' /\ ProgressHolds' /\ ProgressBelowTip'
      /\ \A c \in Contracts : progress'[c] # None /\ progress'[c].cursor # None =>
             progress[c] # None /\ progress'[c].cursor = progress[c].cursor
    BY <1>0, RewindToCommon
<1>2. SavedCursors'
    <2> SUFFICES ASSUME NEW c \in Contracts, progress'[c] # None, progress'[c].cursor # None
                 PROVE  /\ Resuming
                        /\ anchor' # None /\ progress'[c].cursor.height <= anchor'.height
                        /\ Resumable(c, progress[c].cursor)'
        BY DEF SavedCursors
    <2>1. progress[c] # None /\ progress'[c].cursor = progress[c].cursor
        BY <1>1
    <2>2. /\ Resuming /\ progress[c].cursor.height <= anchor.height
          /\ Resumable(c, progress[c].cursor)
        BY <1>0, <2>1 DEF SavedCursors
    <2>3. progress[c].cursor \in Position
        BY <2>1, Typed
    <2>4. \A e \in UpTo(c, progress[c].cursor) : e.height <= anchor.height
        <3>1. \A e \in UpTo(c, progress[c].cursor) :
                e.height <= progress[c].cursor.height /\ e.height \in Nat
            BY <2>3, Typed, LowerFirst, WantedAre DEF UpTo
        <3> QED BY <2>2, <2>3, <3>1, Typed, CursorHeights
    <2>5. UpTo(c, progress[c].cursor) \subseteq
            LogsPage(c, progress[c].cursor).results \cup events'
        BY <1>0, <2>2, <2>4 DEF Resumable
    <2>6. Resumable(c, progress[c].cursor)'
        BY <2>1, <2>5, LogsUnmoved DEF Resumable
    <2> QED BY <1>0, <2>1, <2>2, <2>6
<1>3. PassInv'
    BY <1>0 DEF PassInv, Unverified
<1>4. ForksRise'
    BY <1>0, ChainAlone
<1>5. ResumeInv'
    BY <1>0, ResumeAlone
<1> QED BY <1>1, <1>2, <1>3, <1>4, <1>5 DEF StoredInv, Unverified

\* A step of the reconciliation that leaves the store alone and stays short of
\* the rewind keeps the common height.
LEMMA UnverifiedStep ==
    ASSUME TypeInv, StoredInv, UNCHANGED <<chainVars, storeVars, syncVars, batches>>,
           NEW m \in 0..top, CommonHeight(m), phase \in Unverified, phase' \in Unverified,
           PassInv', KeptBelowTip(m)', ResumeInv', phase' = "search" => SearchInv(m)'
    PROVE  StoredInv'
<1>1. /\ anchor' = anchor /\ progress' = progress /\ top' = top
      /\ sync' = sync /\ FinalizedHeight' = FinalizedHeight
      /\ ForksRise /\ StoreInv /\ SavedCursors
    BY StoreAlone DEF StoredInv, storeVars, chainVars, syncVars
<1>2. ForksRise' /\ StoreInv' /\ AgreeUpTo(m)' /\ DifferAbove(m)'
    BY <1>1, ChainAlone, StoreAlone, AgreeAlone DEF CommonHeight
<1>3. SavedCursors'
    <2> SUFFICES ASSUME NEW c \in Contracts, progress'[c] # None, progress'[c].cursor # None
                 PROVE  /\ Resuming
                        /\ anchor' # None /\ progress'[c].cursor.height <= anchor'.height
                        /\ Resumable(c, progress[c].cursor)'
        BY DEF SavedCursors
    <2>1. /\ Resuming /\ anchor # None /\ progress[c].cursor.height <= anchor.height
          /\ Resumable(c, progress[c].cursor)
        BY <1>1 DEF SavedCursors, Unverified
    <2>2. Resumable(c, progress[c].cursor)'
        BY <1>1, <2>1, AgreeAlone
    <2> QED BY <1>1, <2>1, <2>2
<1>4. CommonHeight(m)'
    BY <1>1, <1>2 DEF CommonHeight
<1> QED BY <1>1, <1>2, <1>3, <1>4 DEF StoredInv, Unverified

LEMMA SearchStored ==
    ASSUME TypeInv, TypeInv', StoredInv, UNCHANGED <<chainVars, syncVars, batches>>,
           AnchorOrphaned \/ Probe \/ FailWithReorgError \/ RewindToAncestor
    PROVE  StoredInv'
<1>0. /\ phase \in {"reconcile", "search"} /\ phase \in Unverified
      /\ StoreInv /\ PassInv /\ ResumeInv
    BY DEF StoredInv, Unverified, AnchorOrphaned, Probe, FailWithReorgError, RewindToAncestor
<1>1. PICK m \in 0..top : CommonHeight(m)
    BY <1>0 DEF StoredInv
<1>2. /\ m \in Nat /\ KeptBelowTip(m) /\ AgreeUpTo(m) /\ SoundUpTo(m) /\ DifferAbove(m)
      /\ ReorgsAreShallow => FinalizedHeight <= m
      /\ phase = "search" => SearchInv(m)
    BY <1>0, <1>1, Typed, AgreeIsSound DEF CommonHeight
<1>3. CASE AnchorOrphaned \/ Probe \/ FailWithReorgError
    <2>1. /\ UNCHANGED storeVars /\ tip' = tip /\ phase' \in {"search", "reorgError"}
          /\ PassInv' /\ (phase' = "search" => SearchInv(m)')
        BY <1>0, <1>2, <1>3, SearchKept
    <2>2. KeptBelowTip(m)'
        BY <1>0, <1>2, <2>1 DEF KeptBelowTip, storeVars
    <2>3. ~Resuming
        <3>1. anchor # None => anchor.height \in Nat /\ anchor.height >= 1
            BY Typed
        <3>2. CASE AnchorOrphaned
            BY <1>0, <3>1, <3>2 DEF ResumeInv, AnchorOrphaned, CanonicalHash
        <3>3. CASE Probe \/ FailWithReorgError
            BY <1>0, <3>3 DEF ResumeInv, Probe, FailWithReorgError
        <3> QED BY <1>3, <3>2, <3>3
    <2>4. ResumeInv'
        BY <2>3 DEF ResumeInv
    <2> QED BY <1>0, <1>1, <1>2, <2>1, <2>2, <2>4, UnverifiedStep DEF Unverified
<1>4. CASE RewindToAncestor
    <2>1. /\ phase = "search" /\ phase' = "setAnchor" /\ tip' = tip /\ anchor # None
          /\ \E height \in Nat :
                /\ RewindTo(height)
                /\ height <= m /\ height <= anchor.height /\ FinalizedHeight <= height
                /\ height > 0 => blocks[height] # None
        BY <1>0, <1>2, <1>4, SearchEnds DEF RewindToAncestor, SearchInv
    <2>2. PICK height \in Nat :
            /\ RewindTo(height)
            /\ height <= m /\ height <= anchor.height /\ FinalizedHeight <= height
            /\ height > 0 => blocks[height] # None
        BY <2>1
    <2>3. MinOf(anchor.height, m) <= tip.height /\ ~Resuming
        BY <1>0, <1>2, <2>1 DEF KeptBelowTip, ResumeInv
    <2> QED BY <1>0, <1>2, <2>1, <2>2, <2>3, RewindStored
<1> QED BY <1>3, <1>4

\* What is canonical, and progress that holds, stay so.
LEMMA CanonicalAlone ==
    ASSUME UNCHANGED <<chainVars, tip, blocks, progress, checkpoint, handled, events>>
    PROVE  /\ Canonical => Canonical'
           /\ ProgressHolds => ProgressHolds'
           /\ ProgressBelowTip => ProgressBelowTip'
<1>1. /\ Due(CheckpointHeight)' = Due(CheckpointHeight)
      /\ CheckpointHeight' = CheckpointHeight
    BY LogsUnmoved DEF CheckpointHeight
<1>2. \A c : DueOf(c, MinOf(progress[c].synced, tip.height))' =
             DueOf(c, MinOf(progress[c].synced, tip.height))
    BY LogsUnmoved
<1> QED BY <1>1, <1>2, LogsUnmoved DEF Canonical, ProgressHolds, ProgressBelowTip

\* A contract's part of the invariant outlives a step that only adds to the
\* events, and leaves its progress alone or at or below the tip until then.
LEMMA ContractAlone ==
    ASSUME UNCHANGED <<chainVars, tip>>, events \subseteq events', NEW c \in Contracts, NEW s,
           s.mode = "start" => \/ progress'[c] = progress[c]
                               \/ progress'[c] # None => progress'[c].synced <= tip.height,
           ContractInv(c, s)
    PROVE  ContractInv(c, s)'
<1>1. /\ tip' = tip /\ top' = top
    BY DEF chainVars
<1>2. \A p, q : NextFits(c, p, q) => NextFits(c, p, q)'
    BY <1>1, LogsUnmoved DEF NextFits
<1>3. \A p : Resumable(c, p) => Resumable(c, p)'
    BY <1>1, LogsUnmoved DEF Resumable
<1>4. Forward(c, s) => Forward(c, s)'
    BY <1>1, <1>2, <1>3, LogsUnmoved DEF Forward
<1>5. Backward(c, s) => Backward(c, s)'
    <2>1. PagesFit(c, s.pages) => PagesFit(c, s.pages)'
        BY <1>1, LogsUnmoved DEF PagesFit
    <2> QED BY <1>1, <2>1, LogsUnmoved DEF Backward
<1>6. Working(c, s) => Working(c, s)'
    BY <1>1, <1>4, <1>5, LogsUnmoved DEF Working
<1> QED BY <1>1, <1>6, LogsUnmoved DEF ContractInv

LEMMA NoPages == \A c : PagesFit(c, <<>>)
BY DEF PagesFit

\* A contract that has not been initialized is complete below its first block.
LEMMA FreshContract ==
    ASSUME TypeInv, NEW c \in Contracts, progress[c] # None => progress[c].synced <= tip.height,
           NEW s, s = FreshState(c)
    PROVE  ContractInv(c, s)
<1>1. /\ s.mode = "start" /\ s.cursor = None /\ s.walk = None /\ s.pages = <<>>
      /\ s.synced = MaxOf(StartBlock[c] - 1, 0) /\ s.done = FALSE
    BY DEF FreshState
<1>2. StartBlock[c] \in Nat
    BY RangeAssumption
<1>3. DueOf(c, s.synced) \subseteq events
    <2>1. \A e \in Wanted(c) : e.height \in Nat /\ e.height >= 1 /\ StartBlock[c] <= e.height
        BY Typed, WantedAre DEF InRange
    <2> QED BY <1>1, <1>2, <2>1 DEF DueOf, MaxOf
<1>4. s.synced <= MaxOf(top, StartBlock[c] - 1)
    BY <1>1, <1>2, Typed DEF MaxOf
<1>5. Backward(c, s)
    BY <1>1, NoPages DEF Backward
<1> QED BY <1>1, <1>3, <1>4, <1>5 DEF ContractInv, Working

LEMMA ReconcileStored ==
    ASSUME NothingInTheWay, TypeInv, TypeInv', StoredInv, ReconcileStep
    PROVE  StoredInv'
<1>u. /\ UNCHANGED <<chainVars, syncVars, batches>>
      /\ chain' = chain /\ top' = top /\ sync' = sync /\ queue' = queue /\ batches' = batches
    BY DEF ReconcileStep, chainVars, syncVars
<1>i. ForksRise /\ StoreInv /\ SavedCursors /\ PassInv /\ ResumeInv
    BY DEF StoredInv
<1>s. UNCHANGED storeVars =>
        /\ blocks' = blocks /\ anchor' = anchor /\ progress' = progress
        /\ events' = events /\ FinalizedHeight' = FinalizedHeight
        /\ checkpoint' = checkpoint /\ handled' = handled
    BY DEF storeVars, FinalizedHeight
<1>1. CASE ReadChainTip
    <2>1. /\ phase = "idle" /\ phase' = "reconcile" /\ UNCHANGED storeVars
          /\ tip' = [height |-> top, hash |-> chain[top].fork]
        BY <1>1 DEF ReadChainTip, NothingInTheWay, ReorgsBetweenPasses
    <2>2. PICK m \in 0..top : CommonHeight(m)
        BY <2>1 DEF StoredInv, Unverified
    <2>3. tip'.height = top /\ tip'.hash = chain[top].fork /\ m <= tip'.height /\ tip' # None
        <3>1. tip'.height = top /\ tip'.hash = chain[top].fork /\ m <= top
            BY <2>1, Typed
        <3>2. top \in 1..top /\ chain[top] \in Block
            BY Typed, NoneAssumption DEF ChainTypeOK
        <3>3. tip' \in Tip
            BY <2>1, <3>2, Typed DEF Tip, Block
        <3> QED BY <3>1, <3>3, TipAssumption
    <2>4. PassInv'
        BY <1>u, <1>i, <1>s, <2>1, <2>3, Typed DEF PassInv
    <2>5. KeptBelowTip(m)'
        BY <1>s, <1>i, <2>1, <2>2, <2>3, Typed DEF KeptBelowTip, MinOf, StoreInv
    <2>6. ResumeInv'
        BY <1>u, <1>i, <1>s, <2>1, <2>3 DEF ResumeInv
    <2> QED BY <1>u, <2>1, <2>2, <2>3, <2>4, <2>5, <2>6, UnverifiedStep DEF Unverified
<1>2. CASE NothingToReplay \/ ReplayUnfinalized
    <2>1. phase = "reconcile" /\ anchor = None /\ StoreInit /\ tip # None
        BY <1>2, <1>i DEF NothingToReplay, ReplayUnfinalized, StoreInv, PassInv
    <2>2. CheckpointHeight = 0 /\ FinalizedHeight = 0
        BY <2>1 DEF StoreInit, CheckpointHeight, FinalizedHeight
    <2>3. UNCHANGED storeVars /\ phase' = "setAnchor" /\ tip' = tip
        BY <1>2, <2>2 DEF NothingToReplay, ReplayUnfinalized
    <2>4. StoreInit' /\ tip' # None
        BY <1>s, <2>1, <2>3 DEF StoreInit
    <2>5. Canonical' /\ ProgressHolds' /\ ProgressBelowTip'
        BY <1>s, <1>u, <2>1, <2>3, NothingStored, StoreAlone, CanonicalAlone
    <2>6. StoreInv' /\ ForksRise'
        BY <1>u, <1>i, <2>3, ChainAlone, StoreAlone
    <2>7. SavedCursors'
        BY <2>4 DEF SavedCursors, StoreInit
    <2>8. PassInv'
        BY <1>u, <1>i, <1>s, <2>1, <2>3 DEF PassInv
    <2>9. ResumeInv'
        BY <1>u, <1>i, <1>s, <2>1, <2>3, ResumeAlone
    <2> QED BY <2>3, <2>5, <2>6, <2>7, <2>8, <2>9 DEF StoredInv, Unverified
<1>3. CASE AnchorCanonical
    <2>1. /\ phase = "reconcile" /\ anchor # None /\ RewindTo(anchor.height)
          /\ CanonicalHash(anchor.height) = anchor.hash
          /\ phase' = "setAnchor" /\ tip' = tip
        BY <1>3 DEF AnchorCanonical
    <2>2. PICK m \in 0..top : CommonHeight(m)
        BY <2>1 DEF StoredInv, Unverified
    <2>3. AgreeUpTo(m) /\ DifferAbove(m) /\ MinOf(anchor.height, m) <= tip.height /\ m \in Nat
        BY <2>1, <2>2, Typed DEF CommonHeight, KeptBelowTip
    <2>4. anchor.height <= m
        BY <2>1, <2>3, AnchorIsCommon
    <2>5. FinalizedHeight <= anchor.height /\ CheckpointHeight <= anchor.height
          /\ anchor.height \in Nat
        BY <1>i, <2>1, Typed DEF StoreInv
    <2>6. ~(anchor.height < CheckpointHeight)
        BY <2>5, Typed
    <2> QED BY <1>u, <2>1, <2>3, <2>4, <2>5, <2>6, RewindStored
<1>4. CASE AnchorOrphaned \/ Probe \/ FailWithReorgError \/ RewindToAncestor
    BY <1>u, <1>4, SearchStored
<1>5. CASE SetSyncAnchor
    <2>1. /\ phase = "setAnchor" /\ phase' = "sync" /\ tip' = tip
          /\ anchor' = IF tip # None /\ tip.hash # None THEN tip ELSE None
          /\ UNCHANGED <<blocks, events, progress, checkpoint, handled>>
        BY <1>5 DEF SetSyncAnchor
    <2>2. /\ tip # None /\ tip.height <= top /\ tip.hash = chain[tip.height].fork
          /\ tip.height \in Nat /\ tip.height \in 1..top /\ tip.hash \in Nat
        BY <1>i, <2>1, Typed DEF PassInv
    <2>3. anchor' = tip
        BY <2>1, <2>2, NoneAssumption
    <2>4. /\ Canonical /\ ProgressHolds /\ ProgressBelowTip /\ batches = None /\ queue = <<>>
          /\ sync = [c \in Contracts |-> FreshState(c)]
        BY <1>i, <2>1 DEF StoredInv, Unverified, PassInv
    <2>5. CheckpointHeight' = CheckpointHeight /\ FinalizedHeight' = FinalizedHeight
        BY <2>1 DEF CheckpointHeight, FinalizedHeight
    <2>6. StoreInv'
        <3>1. /\ CheckpointHeight' <= anchor'.height /\ anchor'.hash <= forks'
              /\ ~(anchor'.height > top')
            BY <1>u, <1>i, <2>2, <2>3, <2>4, <2>5, Typed DEF Canonical, ForksRise, chainVars
        <3>2. forks' = forks
            BY <1>u DEF chainVars
        <3> QED BY <1>i, <2>1, <2>2, <2>3, <2>5, <3>1, <3>2 DEF StoreInv
    <2>7. Canonical' /\ ProgressHolds'
        BY <1>u, <2>1, <2>4, <2>5, CanonicalAlone
    <2>8. SavedCursors'
        <3> SUFFICES ASSUME NEW c \in Contracts, progress'[c] # None, progress'[c].cursor # None
                     PROVE  /\ Resuming
                            /\ anchor' # None /\ progress'[c].cursor.height <= anchor'.height
                            /\ Resumable(c, progress[c].cursor)'
            BY <2>1 DEF SavedCursors
        <3>1. /\ Resuming /\ anchor # None /\ progress[c].cursor.height <= anchor.height
              /\ Resumable(c, progress[c].cursor)
            BY <1>i, <2>1 DEF SavedCursors
        <3>2. anchor.height <= tip.height
            BY <1>i, <2>1, <3>1 DEF ResumeInv
        <3>3. progress[c].cursor.height \in Nat
            BY <2>1, Typed, CursorHeights
        <3>4. Resumable(c, progress[c].cursor)'
            BY <1>u, <2>1, <3>1, LogsUnmoved DEF Resumable
        <3> QED BY <2>1, <2>2, <2>3, <3>1, <3>2, <3>3, <3>4, Typed
    <2>9. PassInv'
        BY <1>u, <1>i, <2>1, <2>2, <2>3 DEF PassInv
    <2>10. \A c \in Contracts : ContractInv(c, sync[c])
        BY <2>4, FreshContract DEF ProgressBelowTip
    <2>11. SyncingInv'
        <3>1. \A c \in Contracts : ContractInv(c, sync[c])'
            BY <1>u, <2>1, <2>10, ContractAlone
        <3>2. DOMAIN queue' = {}
            BY <1>u, <2>4
        <3> QED BY <1>u, <2>1, <2>4, <3>1, <3>2 DEF SyncingInv
    <2>12. ResumeInv'
        BY <1>u, <1>i, <2>1, <2>2, <2>3 DEF ResumeInv
    <2> QED BY <1>u, <1>i, <2>1, <2>6, <2>7, <2>8, <2>9, <2>11, <2>12, ChainAlone
            DEF StoredInv, Unverified
<1> QED BY <1>1, <1>2, <1>3, <1>4, <1>5 DEF ReconcileStep

-----------------------------------------------------------------------------
(* The producer. *)

\* What a pass that syncs knows.
LEMMA SyncFacts ==
    ASSUME TypeInv, StoredInv, phase = "sync"
    PROVE  /\ ForksRise /\ StoreInv /\ SavedCursors /\ PassInv /\ Canonical /\ ProgressHolds
           /\ SyncingInv
           /\ \A c \in Contracts : ContractInv(c, sync[c]) /\ sync[c] \in SyncState
           /\ \A c \in Contracts : StartBlock[c] \in Nat /\ (HasEnd(c) => EndBlock[c] \in Nat)
           /\ tip # None /\ tip.height \in Nat /\ tip.height \in 1..top /\ tip.height \in Heights
           /\ anchor = tip /\ (Resuming => tip.height = top)
<1>1. /\ ForksRise /\ StoreInv /\ SavedCursors /\ PassInv /\ Canonical /\ ProgressHolds
      /\ SyncingInv
    BY DEF StoredInv, Unverified
<1>2. \A c \in Contracts : ContractInv(c, sync[c]) /\ sync[c] \in SyncState
    BY <1>1, Typed DEF SyncingInv, SyncTypeOK
<1>3. tip # None /\ tip.height \in Nat /\ tip.height \in 1..top /\ tip.height \in Heights
      /\ anchor = tip /\ (Resuming => tip.height = top)
    BY <1>1, Typed DEF PassInv, StoredInv, ResumeInv
<1> QED BY <1>1, <1>2, <1>3, RangeAssumption DEF HasEnd

\* A saved row that holds, for a contract in state s.
RowFits(c, row, s) == row # None =>
    /\ DueOf(c, MinOf(row.synced, tip.height)) \subseteq events
    /\ row.cursor # None =>
         IF Resuming THEN row.cursor.height <= tip.height /\ Resumable(c, row.cursor)
         ELSE s.mode # "start" /\ ~s.done /\ s.cursor # None

\* Lower heights are due before higher ones.
LEMMA DueMonotone ==
    ASSUME ChainTypeOK, NEW c \in Contracts, NEW g \in Int, NEW h \in Int, g <= h
    PROVE  DueOf(c, g) \subseteq DueOf(c, h)
BY WantedAre DEF DueOf

\* What is offered is stored: unfinished contracts are complete up to their
\* synced height, finished ones up to the tip.
LEMMA OfferedIsStored ==
    ASSUME TypeInv, tip # None, NEW states \in [Contracts -> SyncState],
           \A c \in Contracts : ContractInv(c, states[c]),
           NEW h \in Nat, IsSafeHeight(h, states)
    PROVE  StoredThrough(MinOf(h, tip.height))
<1> SUFFICES ASSUME NEW c \in Contracts
             PROVE  DueOf(c, MinOf(h, tip.height)) \subseteq events
    BY DEF StoredThrough
<1>1. /\ states[c].synced \in Nat /\ tip.height \in Nat
      /\ MinOf(h, tip.height) \in Nat /\ MinOf(h, tip.height) <= h
      /\ MinOf(h, tip.height) <= tip.height
    BY Typed DEF SyncState, MinOf
<1>2. CASE states[c].done
    <2>1. DueOf(c, tip.height) \subseteq events
        BY <1>2 DEF ContractInv
    <2> QED BY <1>1, <2>1, Typed, DueMonotone
<1>3. CASE ~states[c].done
    <2>1. DueOf(c, states[c].synced) \subseteq events /\ h <= states[c].synced
        BY <1>3 DEF ContractInv, Working, IsSafeHeight
    <2>2. MinOf(h, tip.height) <= states[c].synced
        BY <1>1, <2>1
    <2> QED BY <1>1, <2>1, <2>2, Typed, DueMonotone
<1> QED BY <1>2, <1>3

\* The producer advances without storing an event.
Advances ==
    /\ phase = "sync"
    /\ UNCHANGED <<chainVars, passVars, batches>>
    /\ UNCHANGED <<blocks, events, checkpoint, anchor, handled>>
    /\ queue' = queue \/ OfferSafeHeight

\* A step of one contract that stores nothing keeps the invariant if it keeps
\* the contract's own part of it.
LEMMA ContractStep ==
    ASSUME TypeInv, TypeInv', StoredInv, Advances, NEW c \in Contracts, NEW s,
           sync' = [sync EXCEPT ![c] = s], s.mode # "start", ContractInv(c, s), RowFits(c, progress'[c], s),
           \A d \in Contracts : d # c => progress'[d] = progress[d]
    PROVE  StoredInv'
<1>1. /\ ForksRise /\ StoreInv /\ SavedCursors /\ PassInv /\ Canonical /\ ProgressHolds
      /\ SyncingInv
      /\ \A d \in Contracts : ContractInv(d, sync[d]) /\ sync[d] \in SyncState
      /\ tip # None /\ tip.height \in Nat /\ anchor = tip
    BY SyncFacts DEF Advances
<1>2. /\ chain' = chain /\ top' = top /\ forks' = forks
      /\ tip' = tip /\ phase' = phase /\ probing' = probing /\ ancestor' = ancestor
      /\ blocks' = blocks /\ events' = events /\ checkpoint' = checkpoint
      /\ anchor' = anchor /\ handled' = handled /\ batches' = batches
      /\ FinalizedHeight' = FinalizedHeight /\ CheckpointHeight' = CheckpointHeight
      /\ UNCHANGED chainVars /\ phase = "sync"
    BY DEF Advances, chainVars, passVars, FinalizedHeight, CheckpointHeight
<1>3. sync'[c] = s /\ \A d \in Contracts : d # c => sync'[d] = sync[d]
    BY Typed DEF SyncTypeOK
<1>4. \A d \in Contracts : ContractInv(d, sync'[d]) /\ ContractInv(d, sync[d])'
    <2>1. ContractInv(c, s)'
        BY <1>2, ContractAlone
    <2>2. \A d \in Contracts : d # c => ContractInv(d, sync[d])'
        BY <1>1, <1>2, <1>3, ContractAlone
    <2> QED BY <1>1, <1>3, <2>1, <2>2
<1>5. \A h : StoredThrough(h)' <=> StoredThrough(h)
    BY <1>2, LogsUnmoved DEF StoredThrough
<1>6. \A i \in DOMAIN queue' : StoredThrough(MinOf(queue[i], tip.height))'
    <2>1. \A i \in DOMAIN queue : StoredThrough(MinOf(queue[i], tip.height))
        BY <1>1, <1>2 DEF SyncingInv
    <2>2. CASE queue' = queue
        BY <1>2, <1>5, <2>1, <2>2
    <2>3. CASE \E h \in {sync'[d].synced : d \in Contracts} :
                  IsSafeHeight(h, sync') /\ queue' = Append(queue, h)
        <3>1. sync' \in [Contracts -> SyncState]
            BY DEF TypeInv, TypeOK, SyncTypeOK
        <3>2. PICK h \in {sync'[d].synced : d \in Contracts} :
                IsSafeHeight(h, sync') /\ queue' = Append(queue, h)
            BY <2>3
        <3>3. h \in Nat
            BY <3>1 DEF SyncState
        <3>4. StoredThrough(MinOf(h, tip.height))
            BY <1>1, <1>4, <3>1, <3>2, <3>3, OfferedIsStored
        <3>5. queue \in Seq(Nat)
            BY Typed DEF SyncTypeOK
        <3>6. \A i \in DOMAIN queue' : \/ i \in DOMAIN queue /\ queue'[i] = queue[i]
                                       \/ queue'[i] = h
            BY <3>2, <3>3, <3>5
        <3> QED BY <1>2, <1>5, <2>1, <3>4, <3>6
    <2> QED BY <2>2, <2>3 DEF Advances, OfferSafeHeight
<1>7. BatchesInv => BatchesInv'
    BY <1>2, <1>5, LogsUnmoved DEF BatchesInv
<1>8. SyncingInv'
    BY <1>1, <1>2, <1>4, <1>6, <1>7 DEF SyncingInv
<1>9. ProgressHolds'
    BY <1>1, <1>2, LogsUnmoved DEF ProgressHolds, RowFits
<1>10. SavedCursors'
    <2>1. \A d, p : Resumable(d, p)' <=> Resumable(d, p)
        BY <1>2, LogsUnmoved DEF Resumable
    <2> QED BY <1>1, <1>2, <1>3, <2>1 DEF SavedCursors, RowFits
<1>11. Canonical'
    BY <1>1, <1>2, LogsUnmoved DEF Canonical
<1>12. StoreInv'
    BY <1>1, <1>2 DEF StoreInv
<1>13. PassInv'
    BY <1>1, <1>2 DEF PassInv
<1>14. ForksRise'
    BY <1>1, <1>2, ChainAlone
<1>15. ResumeInv'
    BY <1>2, ResumeAlone DEF StoredInv
<1> QED BY <1>2, <1>8, <1>9, <1>10, <1>11, <1>12, <1>13, <1>14, <1>15 DEF StoredInv, Unverified

\* A contract is completed at its endBlock once nothing up to the tip is missing.
LEMMA EndReached ==
    ASSUME TypeInv, TypeInv', StoredInv, Advances, NEW c \in Contracts, HasEnd(c),
           NEW s \in SyncState, CompleteAtEndBlock(c, s), DueOf(c, tip.height) \subseteq events
    PROVE  StoredInv'
<1> DEFINE t == [s EXCEPT !.mode = "ready", !.cursor = None, !.pages = <<>>,
                          !.synced = EndBlock[c], !.done = TRUE]
           row == [cursor |-> None, synced |-> EndBlock[c], isComplete |-> TRUE]
<1>0. tip.height \in Nat /\ EndBlock[c] \in Nat
    BY SyncFacts DEF Advances
<1>1. t.mode = "ready" /\ t.done
    BY DEF SyncState
<1>2. sync' = [sync EXCEPT ![c] = t] /\ progress' = [progress EXCEPT ![c] = row]
    BY DEF CompleteAtEndBlock, UpsertSyncProgress
<1>3. progress'[c] = row /\ \A d \in Contracts : d # c => progress'[d] = progress[d]
    BY <1>2, Typed DEF StoreTypeOK
<1> HIDE DEF t
<1>4. ContractInv(c, t)
    BY <1>1 DEF ContractInv
<1>5. RowFits(c, row, t)
    <2>1. MinOf(EndBlock[c], tip.height) \in Nat /\ MinOf(EndBlock[c], tip.height) <= tip.height
        BY <1>0 DEF MinOf
    <2>2. DueOf(c, MinOf(EndBlock[c], tip.height)) \subseteq events
        BY <1>0, <2>1, Typed, DueMonotone
    <2> QED BY <2>2 DEF RowFits
<1> HIDE DEF row
<1> QED BY <1>1, <1>2, <1>3, <1>4, <1>5, ContractStep

\* Forward reading starts at a discovered cursor, or the contract is done.
LEMMA BackfillBegun ==
    ASSUME NothingInTheWay, TypeInv, TypeInv', StoredInv, Advances, NEW c \in Contracts,
           NEW s \in SyncState, s.cursor = None, s.walk = None, s.pages = <<>>, ~s.done,
           DueOf(c, s.synced) \subseteq events, s.synced <= MaxOf(top, StartBlock[c] - 1),
           NEW from \in Nat, \A e \in Wanted(c) : e.height < from => e \in events,
           BeginBackfill(c, s, FirstCursor(c, from))
    PROVE  StoredInv'
<1> DEFINE cursor == FirstCursor(c, from)
<1>0. /\ ChainTypeOK /\ Hidden = {} /\ top \in Nat /\ top >= 1 /\ StartBlock[c] \in Nat
      /\ tip.height \in Nat /\ s.synced \in Nat /\ (HasEnd(c) => EndBlock[c] \in Nat)
      /\ \A e \in Wanted(c) : e.height \in Nat /\ e.height >= 1 /\ InRange(c, e.height)
      /\ SavedCursors /\ ProgressHolds /\ anchor = tip /\ phase = "sync"
    BY Typed, SyncFacts, WantedAre DEF NothingInTheWay, Advances, SyncState
<1>1. /\ cursor \in Position \cup {None}
      /\ cursor = None => \A e \in Wanted(c) : e.height < from
      /\ cursor # None =>
           /\ cursor.height <= top
           /\ \A e \in Wanted(c) : e.height < from \/ cursor.height <= e.height
           /\ \A e \in UpTo(c, cursor) :
                e.height < from \/ e \in LogsPage(c, cursor).results
    BY <1>0, StartingPoint
<1>2. cursor # None => cursor.height \in Nat /\ cursor.height >= 1
    BY <1>1, CursorHeights
<1>3. BeginBackfill(c, s, cursor)
    OBVIOUS
<1> HIDE DEF cursor
<1>4. CASE /\ cursor = None
           /\ sync' = [sync EXCEPT ![c] = [s EXCEPT !.mode = "ready", !.done = TRUE]]
           /\ UpsertSyncProgress(c, s.cursor, s.synced, FALSE)
    <2> DEFINE t == [s EXCEPT !.mode = "ready", !.done = TRUE]
               row == [cursor |-> s.cursor, synced |-> s.synced, isComplete |-> FALSE]
    <2>1. t.mode = "ready" /\ t.done
        BY DEF SyncState
    <2>2. sync' = [sync EXCEPT ![c] = t] /\ progress' = [progress EXCEPT ![c] = row]
        BY <1>4 DEF UpsertSyncProgress
    <2>3. progress'[c] = row /\ \A d \in Contracts : d # c => progress'[d] = progress[d]
        BY <2>2, Typed DEF StoreTypeOK
    <2> HIDE DEF t
    <2>4. DueOf(c, tip.height) \subseteq events
        BY <1>1, <1>4 DEF DueOf
    <2>5. ContractInv(c, t)
        BY <2>1, <2>4 DEF ContractInv
    <2>6. RowFits(c, row, t)
        <3>1. DueOf(c, MinOf(s.synced, tip.height)) \subseteq events
            <4>1. MinOf(s.synced, tip.height) \in Nat /\ MinOf(s.synced, tip.height) <= s.synced
                BY <1>0 DEF MinOf
            <4> QED BY <1>0, <4>1, DueMonotone
        <3> QED BY <3>1 DEF RowFits
    <2> HIDE DEF row
    <2> QED BY <2>1, <2>2, <2>3, <2>5, <2>6, ContractStep
<1>5. CASE /\ HasEnd(c)
           /\ cursor # None => cursor.height > EndBlock[c]
           /\ CompleteAtEndBlock(c, s)
    <2>1. ASSUME NEW e \in Wanted(c) PROVE e \in events
        <3>1. e.height <= EndBlock[c] /\ e.height \in Nat
            BY <1>0, <1>5 DEF InRange
        <3> QED BY <1>0, <1>1, <1>2, <1>5, <3>1
    <2>2. DueOf(c, tip.height) \subseteq events
        BY <2>1 DEF DueOf
    <2> QED BY <1>5, <2>2, EndReached
<1>6. CASE /\ cursor # None
           /\ sync' = [sync EXCEPT ![c] =
                         [s EXCEPT !.mode = "ready", !.cursor = cursor,
                                   !.synced = MaxOf(s.synced, cursor.height - 1)]]
           /\ UNCHANGED progress
    <2> DEFINE t == [s EXCEPT !.mode = "ready", !.cursor = cursor,
                              !.synced = MaxOf(s.synced, cursor.height - 1)]
    <2>1. /\ t.mode = "ready" /\ t.cursor = cursor /\ t.pages = <<>> /\ t.walk = None
          /\ ~t.done /\ t.synced = MaxOf(s.synced, cursor.height - 1)
        BY DEF SyncState
    <2>2. sync' = [sync EXCEPT ![c] = t]
        BY <1>6
    <2> HIDE DEF t
    <2>3. DueOf(c, t.synced) \subseteq events
        <3> SUFFICES ASSUME NEW e \in Wanted(c), e.height <= t.synced PROVE e \in events
            BY DEF DueOf
        <3>1. e.height <= s.synced \/ e.height < cursor.height
            BY <1>0, <1>2, <1>6, <2>1 DEF MaxOf
        <3> QED BY <1>0, <1>1, <1>2, <1>6, <3>1 DEF DueOf
    <2>4. t.synced <= MaxOf(top, StartBlock[c] - 1)
        BY <1>0, <1>1, <1>2, <1>6, <2>1 DEF MaxOf
    <2>5. Resumable(c, cursor)
        BY <1>1, <1>6 DEF Resumable, UpTo
    <2>6. Forward(c, t)
        BY <1>1, <1>6, <2>1, <2>5 DEF Forward
    <2>7. ContractInv(c, t)
        BY <1>6, <2>1, <2>3, <2>4, <2>6 DEF ContractInv, Working
    <2>8. RowFits(c, progress'[c], t)
        BY <1>0, <1>6, <2>1 DEF RowFits, ProgressHolds, SavedCursors
    <2> QED BY <1>6, <2>1, <2>2, <2>7, <2>8, ContractStep
<1> QED BY <1>3, <1>4, <1>5, <1>6 DEF BeginBackfill

LEMMA ScratchStored ==
    ASSUME NothingInTheWay, TypeInv, TypeInv', StoredInv, ProducerStep,
           NEW c \in Contracts, InitFromScratch(c)
    PROVE  StoredInv'
<1>1. Advances
    BY DEF ProducerStep, InitFromScratch, BeginBackfill, CompleteAtEndBlock, Advances
<1>2. /\ ContractInv(c, sync[c]) /\ sync[c] \in SyncState /\ sync[c].mode = "start"
      /\ StartBlock[c] \in Nat
    BY <1>1, SyncFacts DEF InitFromScratch, Advances
<1>3. sync[c] = FreshState(c)
    BY <1>2 DEF ContractInv
<1>4. /\ sync[c].cursor = None /\ sync[c].walk = None /\ sync[c].pages = <<>> /\ ~sync[c].done
    BY <1>3 DEF FreshState
<1>5. DueOf(c, sync[c].synced) \subseteq events /\ sync[c].synced <= MaxOf(top, StartBlock[c] - 1)
    BY <1>2, <1>4 DEF ContractInv, Working
<1>6. \A e \in Wanted(c) : ~(e.height < StartBlock[c])
    BY <1>2, Typed, WantedAre DEF InRange
<1>7. BeginBackfill(c, sync[c], FirstCursor(c, StartBlock[c]))
    BY DEF InitFromScratch
<1> QED BY <1>1, <1>2, <1>4, <1>5, <1>6, <1>7, BackfillBegun

LEMMA SavedStored ==
    ASSUME TypeInv, TypeInv', StoredInv, ProducerStep,
           NEW c \in Contracts, InitFromSaved(c)
    PROVE  StoredInv'
<1>1. Advances /\ phase = "sync" /\ progress' = progress
    BY DEF ProducerStep, InitFromSaved, Advances, storeVars
<1>2. /\ ContractInv(c, sync[c]) /\ sync[c] \in SyncState /\ sync[c].mode = "start"
      /\ StartBlock[c] \in Nat /\ (HasEnd(c) => EndBlock[c] \in Nat)
      /\ ProgressHolds /\ SavedCursors /\ tip.height \in Nat /\ tip.height <= top
      /\ anchor = tip /\ top \in Nat /\ progress[c] # None /\ progress[c].synced \in Nat
      /\ \A e \in Wanted(c) : e.height \in Nat /\ InRange(c, e.height)
    BY <1>1, SyncFacts, Typed, WantedAre DEF InitFromSaved
<1>3. sync[c] = FreshState(c) /\ progress[c].synced <= tip.height
    BY <1>2 DEF ContractInv
<1> DEFINE s == [sync[c] EXCEPT !.synced = progress[c].synced, !.mode = "ready"]
<1>4. /\ s.cursor = None /\ s.walk = None /\ s.pages = <<>> /\ ~s.done
      /\ s.synced = progress[c].synced /\ s.mode = "ready" /\ s \in SyncState
    <2>1. sync[c].cursor = None /\ sync[c].walk = None /\ sync[c].pages = <<>> /\ ~sync[c].done
        BY <1>3 DEF FreshState
    <2>2. s \in SyncState
        BY <1>2 DEF SyncState, Modes
    <2> QED BY <1>2, <2>1, <2>2 DEF SyncState
<1>5. PICK t : /\ sync' = [sync EXCEPT ![c] = t]
               /\ \/ /\ HasEnd(c) /\ s.synced >= EndBlock[c]
                     /\ t = [s EXCEPT !.done = TRUE]
                  \/ /\ progress[c].cursor # None
                     /\ t = [s EXCEPT !.cursor = progress[c].cursor]
                  \/ /\ progress[c].cursor = None
                     /\ t = [s EXCEPT !.mode = "walk"]
    BY DEF InitFromSaved
<1> HIDE DEF s
<1>6. DueOf(c, s.synced) \subseteq events
    <2>1. MinOf(progress[c].synced, tip.height) = s.synced
        BY <1>2, <1>3, <1>4 DEF MinOf
    <2> QED BY <1>2, <2>1 DEF ProgressHolds
<1>7. s.synced <= MaxOf(top, StartBlock[c] - 1)
    BY <1>2, <1>3, <1>4 DEF MaxOf
<1>8. progress[c].cursor # None => /\ Resuming /\ progress[c].cursor.height <= tip.height
                                   /\ progress[c].cursor.height <= top
                                   /\ Resumable(c, progress[c].cursor)
    <2> SUFFICES ASSUME progress[c].cursor # None
                 PROVE  /\ Resuming /\ progress[c].cursor.height <= tip.height
                        /\ progress[c].cursor.height <= top
                        /\ Resumable(c, progress[c].cursor)
        OBVIOUS
    <2>1. Resuming /\ progress[c].cursor.height <= tip.height /\ Resumable(c, progress[c].cursor)
        BY <1>2 DEF SavedCursors
    <2>2. progress[c].cursor.height \in Nat
        BY <1>2, Typed, CursorHeights
    <2> QED BY <1>2, <2>1, <2>2
<1>9. ContractInv(c, t) /\ t.mode # "start"
    <2>1. CASE HasEnd(c) /\ s.synced >= EndBlock[c] /\ t = [s EXCEPT !.done = TRUE]
        <3>1. t.done /\ t.mode = "ready"
            BY <1>4, <2>1 DEF SyncState
        <3>2. DueOf(c, tip.height) \subseteq events
            <4> SUFFICES ASSUME NEW e \in Wanted(c) PROVE e \in events
                BY DEF DueOf
            <4>1. e.height <= EndBlock[c] /\ e.height \in Nat
                BY <1>2, <2>1 DEF InRange
            <4>2. e.height <= s.synced
                BY <1>2, <1>4, <2>1, <4>1
            <4> QED BY <1>6, <4>2 DEF DueOf
        <3> QED BY <3>1, <3>2 DEF ContractInv
    <2>2. CASE progress[c].cursor # None /\ t = [s EXCEPT !.cursor = progress[c].cursor]
        <3>1. /\ t.cursor = progress[c].cursor /\ t.mode = "ready" /\ t.walk = None
              /\ t.pages = <<>> /\ ~t.done /\ t.synced = s.synced
            BY <1>4, <2>2 DEF SyncState
        <3>2. Forward(c, t)
            BY <1>8, <2>2, <3>1 DEF Forward
        <3> QED BY <1>6, <1>7, <2>2, <3>1, <3>2 DEF ContractInv, Working
    <2>3. CASE progress[c].cursor = None /\ t = [s EXCEPT !.mode = "walk"]
        <3>1. /\ t.cursor = None /\ t.mode = "walk" /\ t.walk = None
              /\ t.pages = <<>> /\ ~t.done /\ t.synced = s.synced
            BY <1>4, <2>3 DEF SyncState
        <3>2. Backward(c, t)
            BY <3>1, NoPages DEF Backward
        <3> QED BY <1>6, <1>7, <3>1, <3>2 DEF ContractInv, Working
    <2> QED BY <1>5, <2>1, <2>2, <2>3
<1>10. RowFits(c, progress'[c], t)
    BY <1>1, <1>2, <1>8 DEF RowFits, ProgressHolds
<1> QED BY <1>1, <1>5, <1>9, <1>10, ContractStep

LEMMA CatchUpStarted ==
    ASSUME TypeInv, TypeInv', StoredInv, ProducerStep,
           NEW c \in Contracts, StartCatchUp(c)
    PROVE  StoredInv'
<1> DEFINE s == sync[c]
           t == [s EXCEPT !.mode = "walk"]
<1>1. Advances /\ phase = "sync" /\ progress' = progress
    BY DEF ProducerStep, StartCatchUp, Advances, storeVars
<1>2. /\ ContractInv(c, s) /\ s \in SyncState /\ ProgressHolds /\ SavedCursors /\ anchor = tip
    BY <1>1, SyncFacts
<1>3. s.mode = "ready" /\ ~s.done /\ s.pages = <<>> /\ s.cursor = None
    BY DEF StartCatchUp, Picked, AtLoopHead, Syncing
<1>4. sync' = [sync EXCEPT ![c] = t]
    BY DEF StartCatchUp
<1>5. /\ t.mode = "walk" /\ t.walk = s.walk /\ t.pages = <<>> /\ t.cursor = None /\ ~t.done
      /\ t.synced = s.synced
    BY <1>2, <1>3 DEF SyncState
<1> HIDE DEF s, t
<1>6. Working(c, s) /\ Backward(c, s)
    BY <1>2, <1>3 DEF ContractInv, Working
<1>7. s.walk = None
    BY <1>3, <1>6 DEF Backward
<1>8. Backward(c, t)
    BY <1>5, <1>7, NoPages DEF Backward
<1>9. ContractInv(c, t)
    BY <1>5, <1>6, <1>8 DEF ContractInv, Working
<1>10. RowFits(c, progress'[c], t)
    BY <1>1, <1>2, <1>3 DEF RowFits, ProgressHolds, SavedCursors, s
<1> QED BY <1>1, <1>4, <1>5, <1>9, <1>10, ContractStep

LEMMA PageFetched ==
    ASSUME TypeInv, TypeInv', StoredInv, ProducerStep,
           NEW c \in Contracts, FetchBackfillPage(c)
    PROVE  StoredInv'
<1> DEFINE s == sync[c]
           page == LogsPage(c, s.cursor)
           t == [s EXCEPT !.mode = "fetched", !.pages = <<page>>]
<1>1. Advances /\ phase = "sync" /\ progress' = progress
    BY DEF ProducerStep, FetchBackfillPage, Advances, storeVars
<1>2. /\ ContractInv(c, s) /\ s \in SyncState /\ ProgressHolds /\ SavedCursors /\ anchor = tip
    BY <1>1, SyncFacts
<1>3. s.mode = "ready" /\ ~s.done /\ s.pages = <<>> /\ s.cursor # None
    BY DEF FetchBackfillPage, Picked, AtLoopHead, Syncing
<1>4. sync' = [sync EXCEPT ![c] = t]
    BY Typed DEF FetchBackfillPage, SyncTypeOK
<1>5. s.cursor \in Position
    BY <1>2, <1>3 DEF SyncState
<1>6. /\ page \in Page /\ page.results \subseteq Logs(c)
      /\ NextFits(c, s.cursor, page.next)
    BY <1>5, Typed, ForwardPage
<1>7. Working(c, s) /\ Forward(c, s) /\ Resumable(c, s.cursor)
    BY <1>2, <1>3 DEF ContractInv, Working, Forward
<1>8. UpTo(c, s.cursor) \subseteq page.results \cup events
    BY <1>7 DEF Resumable
<1> HIDE DEF page
<1>9. /\ t.mode = "fetched" /\ t.walk = s.walk /\ t.pages = <<page>> /\ t.cursor = s.cursor
      /\ ~t.done /\ t.synced = s.synced
    BY <1>2, <1>3 DEF SyncState
<1>10. t.pages[1] = page
    BY <1>9
<1> HIDE DEF t
<1>11. Forward(c, t)
    BY <1>3, <1>6, <1>7, <1>8, <1>9, <1>10 DEF Forward
<1>12. ContractInv(c, t)
    BY <1>3, <1>7, <1>9, <1>11 DEF ContractInv, Working
<1>13. RowFits(c, progress'[c], t)
    BY <1>1, <1>2, <1>3, <1>9 DEF RowFits, ProgressHolds, SavedCursors
<1> QED BY <1>1, <1>4, <1>9, <1>12, <1>13, ContractStep

\* The sequence `new` is a page in front of the sequence `pages`.
Prepended(page, pages, new) ==
    /\ Len(new) = 1 + Len(pages)
    /\ new # <<>>
    /\ new[1] = page
    /\ \A i \in 2..Len(new) : new[i] = pages[i - 1] /\ i - 1 \in 1..Len(pages)

LEMMA PrependedIs ==
    ASSUME NEW page \in Page, NEW pages \in Seq(Page)
    PROVE  Prepended(page, pages, <<page>> \o pages)
<1> DEFINE new == <<page>> \o pages
<1>1. <<page>> \in Seq(Page) /\ Len(<<page>>) = 1 /\ <<page>>[1] = page
    OBVIOUS
<1>2. /\ Len(new) = 1 + Len(pages) /\ Len(pages) \in Nat
      /\ \A i \in 1..Len(new) : new[i] = IF i <= 1 THEN <<page>>[i] ELSE pages[i - 1]
    BY <1>1, ConcatProperties, LenProperties
<1>3. \A i \in 2..Len(new) : i \in 1..Len(new) /\ ~(i <= 1) /\ i - 1 \in 1..Len(pages)
    BY <1>2
<1>4. 1 \in 1..Len(new) /\ new # <<>>
    BY <1>2
<1> HIDE DEF new
<1>5. new[1] = page
    BY <1>1, <1>2, <1>4
<1>6. Prepended(page, pages, new)
    BY <1>2, <1>3, <1>4, <1>5 DEF Prepended
<1> QED BY <1>6 DEF new

\* What a page walked to adds in front of the pages held.
LEMMA WalkLonger ==
    ASSUME TypeInv, NEW c \in Contracts, NEW s \in SyncState, Backward(c, s), s.mode = "walk",
           NEW page, page = LogsPage(c, s.walk), page.cursor # None,
           NEW pages, Prepended(page, s.pages, pages)
    PROVE  /\ pages # <<>> /\ pages[1] = page
           /\ PagesFit(c, pages)
           /\ DueOf(c, tip.height) \subseteq UpTo(c, pages[Len(pages)].cursor)
<1> DEFINE left == IF s.walk = None THEN Wanted(c) ELSE UpTo(c, s.walk)
<1>1. ChainTypeOK /\ s.walk \in Position \cup {None} /\ s.pages \in Seq(Page)
    BY Typed DEF SyncState
<1>2. /\ page \in Page /\ page.results \subseteq Logs(c) /\ page.cursor.height <= top
      /\ left \subseteq UpTo(c, page.cursor)
    BY <1>1, WalkedPage
<1>3. /\ Len(pages) = 1 + Len(s.pages) /\ Len(s.pages) \in Nat
      /\ pages # <<>> /\ pages[1] = page
      /\ \A i \in 2..Len(pages) : pages[i] = s.pages[i - 1] /\ i - 1 \in 1..Len(s.pages)
    BY <1>1, LenProperties DEF Prepended
<1>4. s.walk = None <=> s.pages = <<>>
    BY DEF Backward
<1>5. \A i \in 1..Len(s.pages) :
         /\ s.pages[i].cursor # None
         /\ s.pages[i].cursor.height <= top
         /\ s.pages[i].results \subseteq Logs(c)
         /\ i > 1 => UpTo(c, s.pages[i].cursor) \subseteq
                       s.pages[i].results \cup UpTo(c, s.pages[i - 1].cursor)
    BY DEF Backward, PagesFit
<1>6. s.pages # <<>> =>
         /\ DueOf(c, tip.height) \subseteq UpTo(c, s.pages[Len(s.pages)].cursor)
         /\ UpTo(c, s.pages[1].cursor) \subseteq s.pages[1].results \cup left
    BY <1>4 DEF Backward
<1>7. s.pages = <<>> <=> Len(s.pages) = 0
    BY <1>1, EmptySeq, LenProperties
<1>8. DueOf(c, tip.height) \subseteq UpTo(c, pages[Len(pages)].cursor)
    <2>1. CASE s.pages = <<>>
        <3>1. DueOf(c, tip.height) \subseteq left
            BY <1>4, <2>1 DEF DueOf
        <3> QED BY <1>2, <1>3, <1>7, <2>1, <3>1
    <2>2. CASE s.pages # <<>>
        <3>1. pages[Len(pages)] = s.pages[Len(s.pages)]
            BY <1>3, <1>7, <2>2
        <3> QED BY <1>6, <2>2, <3>1
    <2> QED BY <2>1, <2>2
<1>9. ASSUME NEW i \in 1..Len(pages)
      PROVE  /\ pages[i].cursor # None
             /\ pages[i].cursor.height <= top
             /\ pages[i].results \subseteq Logs(c)
             /\ i > 1 => UpTo(c, pages[i].cursor) \subseteq
                           pages[i].results \cup UpTo(c, pages[i - 1].cursor)
    <2>1. CASE i = 1
        BY <1>2, <1>3, <2>1
    <2>2. CASE i = 2
        <3>1. pages[i] = s.pages[1] /\ pages[i - 1] = page /\ 1 \in 1..Len(s.pages)
            BY <1>3, <2>2
        <3>2. s.pages # <<>>
            BY <1>3, <1>7, <3>1
        <3> QED BY <1>2, <1>5, <1>6, <3>1, <3>2
    <2>3. CASE i > 2
        <3>1. i \in 2..Len(pages) /\ i - 1 \in 2..Len(pages) /\ i - 1 > 1
            BY <1>3, <2>3
        <3>2. PICK k \in 1..Len(s.pages) : k = i - 1
            BY <1>3, <3>1
        <3>3. pages[i] = s.pages[k] /\ pages[i - 1] = s.pages[k - 1] /\ k > 1
            <4>1. \A n \in 2..Len(pages) : pages[n] = s.pages[n - 1]
                BY <1>3
            <4>2. pages[k] = s.pages[k - 1]
                BY <3>1, <3>2, <4>1
            <4> QED BY <3>1, <3>2, <4>1, <4>2
        <3>4. /\ s.pages[k].cursor # None
              /\ s.pages[k].cursor.height <= top
              /\ s.pages[k].results \subseteq Logs(c)
              /\ UpTo(c, s.pages[k].cursor) \subseteq
                   s.pages[k].results \cup UpTo(c, s.pages[k - 1].cursor)
            BY <1>5, <3>3
        <3> QED BY <3>3, <3>4
    <2> QED BY <2>1, <2>2, <2>3
<1> QED BY <1>3, <1>8, <1>9 DEF PagesFit

LEMMA WalkStored ==
    ASSUME NothingInTheWay, TypeInv, TypeInv', StoredInv, ProducerStep,
           NEW c \in Contracts, WalkPage(c)
    PROVE  StoredInv'
<1> DEFINE s == sync[c]
           page == LogsPage(c, s.walk)
           old(p) == p # None => p.height <= s.synced
           longer == [s EXCEPT !.pages = <<page>> \o s.pages]
           reset == [s EXCEPT !.pages = <<>>, !.walk = None]
           left == IF s.walk = None THEN Wanted(c) ELSE UpTo(c, s.walk)
<1>1. Advances /\ phase = "sync"
    BY DEF ProducerStep, WalkPage, Advances, EndWalk, BeginBackfill, CompleteAtEndBlock
<1>2. /\ ContractInv(c, s) /\ s \in SyncState /\ ProgressHolds /\ SavedCursors /\ anchor = tip
      /\ s.mode = "walk" /\ ChainTypeOK /\ StartBlock[c] \in Nat
    BY <1>1, SyncFacts, Typed DEF WalkPage
<1>3. /\ ~s.done /\ DueOf(c, s.synced) \subseteq events /\ s.synced <= MaxOf(top, StartBlock[c] - 1)
      /\ s.cursor = None /\ Backward(c, s)
    BY <1>2 DEF ContractInv, Working, Forward
<1>4. s.walk \in Position \cup {None} /\ s.pages \in Seq(Page) /\ s.synced \in Nat
    BY <1>2 DEF SyncState
<1>5. /\ page \in Page
      /\ page.cursor = None => left = {}
      /\ page.cursor # None => left \subseteq UpTo(c, page.cursor)
      /\ page.prev # None => page.prev.height <= top
      /\ page.cursor # None => UpTo(c, page.cursor) \subseteq
           page.results \cup IF page.prev = None THEN {} ELSE UpTo(c, page.prev)
    BY <1>2, <1>4, WalkedPage
<1>6. ASSUME NEW p \in Position, p.height <= s.synced
      PROVE  UpTo(c, p) \subseteq events
    <2>1. ASSUME NEW e \in Wanted(c), AtOrBelow(e, p) PROVE e.height <= s.synced
        <3>1. e.height <= p.height /\ e.height \in Nat /\ p.height \in Nat
            BY <1>2, <2>1, WantedAre, LowerFirst, CursorHeights
        <3> QED BY <1>4, <1>6, <3>1
    <2> QED BY <1>3, <2>1 DEF UpTo, DueOf
<1>7. \/ old(page.cursor) /\ EndWalk(c, s)
      \/ page.cursor # None /\ old(page.prev) /\ EndWalk(c, longer)
      \/ /\ page.cursor # None /\ page.prev # None
         /\ sync' = [sync EXCEPT ![c] = [longer EXCEPT !.walk = page.prev]]
         /\ UNCHANGED progress
      \/ BeginBackfill(c, reset, FirstCursor(c, MaxOf(StartBlock[c], s.synced + 1)))
    BY DEF WalkPage
<1>8. s.walk = None <=> s.pages = <<>>
    BY <1>2, <1>3 DEF Backward
<1>9. page.cursor # None =>
        /\ longer.pages # <<>> /\ longer.pages[1] = page
        /\ PagesFit(c, longer.pages)
        /\ DueOf(c, tip.height) \subseteq UpTo(c, longer.pages[Len(longer.pages)].cursor)
        /\ longer.mode = "walk" /\ longer.cursor = None /\ ~longer.done
        /\ longer.synced = s.synced /\ longer \in SyncState
    <2> SUFFICES ASSUME page.cursor # None
                 PROVE  /\ longer.pages # <<>> /\ longer.pages[1] = page
                        /\ PagesFit(c, longer.pages)
                        /\ DueOf(c, tip.height) \subseteq
                             UpTo(c, longer.pages[Len(longer.pages)].cursor)
                        /\ longer.mode = "walk" /\ longer.cursor = None /\ ~longer.done
                        /\ longer.synced = s.synced /\ longer \in SyncState
        OBVIOUS
    <2>1. /\ longer.pages = <<page>> \o s.pages /\ longer.mode = "walk" /\ longer.cursor = None
          /\ ~longer.done /\ longer.synced = s.synced
        BY <1>2, <1>3 DEF SyncState
    <2>2. longer \in SyncState
        <3>1. HoldsPages(s)
            BY DEF TypeInv, PagesHeld
        <3> QED BY <1>2, <1>5, <3>1, LongerType
    <2> HIDE DEF longer, s, page
    <2>3. page = LogsPage(c, s.walk)
        BY DEF page
    <2> DEFINE pages == <<page>> \o s.pages
    <2>4. Prepended(page, s.pages, pages)
        BY <1>4, <1>5, PrependedIs
    <2>6. longer.pages = pages
        BY <2>1
    <2> HIDE DEF pages
    <2>5. /\ pages # <<>> /\ pages[1] = page /\ PagesFit(c, pages)
          /\ DueOf(c, tip.height) \subseteq UpTo(c, pages[Len(pages)].cursor)
        <3>1. s \in SyncState /\ Backward(c, s) /\ s.mode = "walk"
            BY <1>2, <1>3
        <3> HIDE DEF old, reset, left
        <3> QED BY <2>3, <2>4, <3>1, WalkLonger
    <2> QED BY <2>1, <2>2, <2>5, <2>6
<1> HIDE DEF longer, page, s, reset
<1>10. \A t : /\ t.mode # "start" /\ ContractInv(c, t)
                 /\ sync' = [sync EXCEPT ![c] = t] /\ progress' = progress
                 => StoredInv'
    <2> SUFFICES ASSUME NEW t, t.mode # "start", ContractInv(c, t),
                        sync' = [sync EXCEPT ![c] = t], progress' = progress
                 PROVE  StoredInv'
        OBVIOUS
    <2>1. RowFits(c, progress'[c], t)
        BY <1>1, <1>2, <1>3 DEF RowFits, ProgressHolds, SavedCursors, s
    <2> QED BY <1>1, <2>1, ContractStep
<1>11. CASE old(page.cursor) /\ EndWalk(c, s)
    <2> DEFINE t == [s EXCEPT !.mode = "ready", !.walk = None,
                              !.done = s.pages = <<>>, !.syncedToHead = s.pages = <<>>]
    <2>1. sync' = [sync EXCEPT ![c] = t] /\ progress' = progress
        BY <1>11 DEF EndWalk
    <2>2. /\ t.mode = "ready" /\ t.walk = None /\ t.pages = s.pages /\ t.cursor = None
          /\ t.synced = s.synced /\ (t.done <=> s.pages = <<>>)
        BY <1>2, <1>3 DEF SyncState
    <2> HIDE DEF t
    <2>3. left \subseteq events
        BY <1>5, <1>6, <1>11 DEF Page
    <2>4. CASE s.pages = <<>>
        <3>1. DueOf(c, tip.height) \subseteq events
            BY <1>8, <2>3, <2>4 DEF DueOf
        <3>2. ContractInv(c, t)
            BY <2>2, <2>4, <3>1 DEF ContractInv
        <3> QED BY <1>10, <2>1, <2>2, <3>2
    <2>5. CASE s.pages # <<>>
        <3>1. UpTo(c, s.pages[1].cursor) \subseteq s.pages[1].results \cup events
            BY <1>2, <1>3, <1>8, <2>3, <2>5 DEF Backward
        <3>2. Backward(c, t)
            BY <1>3, <2>2, <2>5, <3>1 DEF Backward
        <3>3. ContractInv(c, t)
            BY <1>3, <2>2, <2>5, <3>2 DEF ContractInv, Working
        <3> QED BY <1>10, <2>1, <2>2, <3>3
    <2> QED BY <2>4, <2>5
<1>12. CASE page.cursor # None /\ old(page.prev) /\ EndWalk(c, longer)
    <2> DEFINE t == [longer EXCEPT !.mode = "ready", !.walk = None,
                          !.done = longer.pages = <<>>, !.syncedToHead = longer.pages = <<>>]
    <2>1. sync' = [sync EXCEPT ![c] = t] /\ progress' = progress
        BY <1>12 DEF EndWalk
    <2>2. /\ t.mode = "ready" /\ t.walk = None /\ t.pages = longer.pages /\ t.cursor = None
          /\ t.synced = s.synced /\ ~t.done
        BY <1>9, <1>12 DEF SyncState
    <2> HIDE DEF t
    <2>3. UpTo(c, page.cursor) \subseteq page.results \cup events
        BY <1>5, <1>6, <1>12 DEF Page
    <2>4. Backward(c, t)
        BY <1>9, <1>12, <2>2, <2>3 DEF Backward
    <2>5. ContractInv(c, t)
        BY <1>3, <2>2, <2>4 DEF ContractInv, Working
    <2> QED BY <1>10, <2>1, <2>2, <2>5
<1>13. CASE /\ page.cursor # None /\ page.prev # None
            /\ sync' = [sync EXCEPT ![c] = [longer EXCEPT !.walk = page.prev]]
            /\ UNCHANGED progress
    <2> DEFINE t == [longer EXCEPT !.walk = page.prev]
    <2>1. sync' = [sync EXCEPT ![c] = t] /\ progress' = progress
        BY <1>13
    <2>2. /\ t.mode = "walk" /\ t.walk = page.prev /\ t.pages = longer.pages /\ t.cursor = None
          /\ t.synced = s.synced /\ ~t.done
        BY <1>9, <1>13 DEF SyncState
    <2> HIDE DEF t
    <2>3. Backward(c, t)
        BY <1>5, <1>9, <1>13, <2>2 DEF Backward
    <2>4. ContractInv(c, t)
        BY <1>3, <2>2, <2>3 DEF ContractInv, Working
    <2> QED BY <1>10, <2>1, <2>2, <2>4
<1>14. CASE BeginBackfill(c, reset, FirstCursor(c, MaxOf(StartBlock[c], s.synced + 1)))
    <2>1. reset \in SyncState /\ reset.pages = <<>> /\ reset.walk = None
          /\ reset.cursor = None /\ ~reset.done /\ reset.synced = s.synced
        BY <1>2, <1>3, EmptySeq DEF SyncState, reset
    <2>2. MaxOf(StartBlock[c], s.synced + 1) \in Nat
        BY <1>2, <1>4 DEF MaxOf
    <2>3. ASSUME NEW e \in Wanted(c), e.height < MaxOf(StartBlock[c], s.synced + 1)
          PROVE  e \in events
        <3>1. e.height \in Nat /\ StartBlock[c] <= e.height
            BY <1>2, WantedAre DEF InRange
        <3>2. e.height <= s.synced
            BY <1>2, <1>4, <2>3, <3>1 DEF MaxOf
        <3> QED BY <1>3, <3>2 DEF DueOf
    <2> QED BY <1>1, <1>3, <1>14, <2>1, <2>2, <2>3, BackfillBegun
<1> QED BY <1>7, <1>11, <1>12, <1>13, <1>14

LEMMA BackfillSaved ==
    ASSUME TypeInv, TypeInv', StoredInv, ProducerStep,
           NEW c \in Contracts, SaveBackfillPage(c)
    PROVE  StoredInv'
<1> DEFINE s == sync[c]
           page == Head(s.pages)
           t == [s EXCEPT !.mode = "ready", !.pages = <<>>, !.cursor = page.next,
                          !.synced = MaxOf(s.synced, s.cursor.height - 1)]
           row == [cursor |-> t.cursor, synced |-> t.synced, isComplete |-> FALSE]
<1>1. Advances /\ phase = "sync"
    BY DEF ProducerStep, SaveBackfillPage, Advances
<1>2. /\ ContractInv(c, s) /\ s \in SyncState /\ s.mode = "stored" /\ s.cursor # None
      /\ ChainTypeOK /\ StartBlock[c] \in Nat /\ (HasEnd(c) => EndBlock[c] \in Nat)
      /\ tip.height \in Nat /\ top \in Nat /\ (Resuming => tip.height = top)
      /\ \A e \in Wanted(c) : e \in Logs(c) /\ e.height \in Nat /\ InRange(c, e.height)
    BY <1>1, SyncFacts, Typed, WantedAre DEF SaveBackfillPage
<1>3. /\ ~s.done /\ DueOf(c, s.synced) \subseteq events /\ s.synced <= MaxOf(top, StartBlock[c] - 1)
      /\ Forward(c, s)
    BY <1>2 DEF ContractInv, Working
<1>4. s.cursor \in Position /\ s.cursor.height \in Nat /\ s.cursor.height >= 1
      /\ s.synced \in Nat /\ s.cursor.height <= top
    BY <1>2, <1>3, CursorHeights DEF SyncState, Forward
<1>5. page = s.pages[1] /\ page \in Page
    <2>1. s.pages \in Seq(Page) /\ s.pages # <<>>
        BY <1>2 DEF SyncState, TypeInv, PagesHeld, HoldsPages
    <2> QED BY <2>1, HeadTailProperties
<1>6. UpTo(c, s.cursor) \subseteq events /\ NextFits(c, s.cursor, page.next) /\ s.walk = None
    BY <1>2, <1>3, <1>5 DEF Forward
<1>7. \A e \in Wanted(c) : e.height < s.cursor.height => e \in events
    BY <1>2, <1>4, <1>6, LowerFirst DEF UpTo
<1>8. \/ HasEnd(c) /\ s.cursor.height > EndBlock[c] /\ CompleteAtEndBlock(c, s)
      \/ sync' = [sync EXCEPT ![c] = t] /\ progress' = [progress EXCEPT ![c] = row]
    BY DEF SaveBackfillPage, UpsertSyncProgress
<1>9. /\ t.mode = "ready" /\ t.cursor = page.next /\ t.pages = <<>> /\ t.walk = None
      /\ ~t.done /\ t.synced = MaxOf(s.synced, s.cursor.height - 1)
    BY <1>2, <1>3, <1>6 DEF SyncState
<1> HIDE DEF s, page, t
<1>10. CASE HasEnd(c) /\ s.cursor.height > EndBlock[c] /\ CompleteAtEndBlock(c, s)
    <2>1. \A e \in Wanted(c) : e.height < s.cursor.height
        BY <1>2, <1>4, <1>10 DEF InRange
    <2>2. DueOf(c, tip.height) \subseteq events
        BY <1>7, <2>1 DEF DueOf
    <2> QED BY <1>1, <1>2, <1>10, <2>2, EndReached
<1>11. CASE sync' = [sync EXCEPT ![c] = t] /\ progress' = [progress EXCEPT ![c] = row]
    <2>1. progress'[c] = row /\ \A d \in Contracts : d # c => progress'[d] = progress[d]
        BY <1>11, Typed DEF StoreTypeOK
    <2>2. t.synced \in Nat /\ t.synced <= MaxOf(top, StartBlock[c] - 1)
        BY <1>2, <1>3, <1>4, <1>9 DEF MaxOf
    <2>3. DueOf(c, t.synced) \subseteq events
        <3> SUFFICES ASSUME NEW e \in Wanted(c), e.height <= t.synced PROVE e \in events
            BY DEF DueOf
        <3>1. e.height <= s.synced \/ e.height < s.cursor.height
            BY <1>2, <1>4, <1>9 DEF MaxOf
        <3> QED BY <1>3, <1>7, <3>1 DEF DueOf
    <2>4. page.next # None => page.next.height <= top /\ Resumable(c, page.next)
        BY <1>6 DEF NextFits, Resumable
    <2>5. ContractInv(c, t)
        <3>1. t.cursor # None => Forward(c, t)
            BY <1>9, <2>4 DEF Forward
        <3>2. t.cursor = None => Backward(c, t)
            BY <1>9, NoPages DEF Backward
        <3> QED BY <1>9, <2>2, <2>3, <3>1, <3>2 DEF ContractInv, Working
    <2>6. RowFits(c, row, t)
        <3>1. /\ MinOf(t.synced, tip.height) \in Nat /\ MinOf(t.synced, tip.height) <= t.synced
            BY <1>2, <2>2 DEF MinOf
        <3>2. DueOf(c, MinOf(t.synced, tip.height)) \subseteq events
            BY <1>2, <2>2, <2>3, <3>1, DueMonotone
        <3> QED BY <1>2, <1>9, <2>4, <3>2 DEF RowFits
    <2> HIDE DEF row
    <2> QED BY <1>1, <1>9, <1>11, <2>1, <2>5, <2>6, ContractStep
<1> QED BY <1>8, <1>10, <1>11

LEMMA CatchUpSaved ==
    ASSUME TypeInv, TypeInv', StoredInv, ProducerStep,
           NEW c \in Contracts, SaveCatchUpPage(c)
    PROVE  StoredInv'
<1> DEFINE s == sync[c]
           rest == Tail(s.pages)
           height == Head(s.pages).cursor.height
           newest == Len(s.pages) = 1
           synced == MaxOf(s.synced, IF newest THEN height ELSE height - 1)
           t == [s EXCEPT !.mode = "ready", !.pages = rest, !.synced = synced,
                          !.done = newest, !.syncedToHead = newest]
           u == [s EXCEPT !.pages = rest]
           row == [cursor |-> None, synced |-> synced, isComplete |-> FALSE]
<1>1. Advances /\ phase = "sync"
    BY DEF ProducerStep, SaveCatchUpPage, Advances
<1>2. /\ ContractInv(c, s) /\ s \in SyncState /\ s.mode = "stored" /\ s.cursor = None
      /\ ChainTypeOK /\ StartBlock[c] \in Nat /\ (HasEnd(c) => EndBlock[c] \in Nat)
      /\ tip.height \in Nat /\ top \in Nat
      /\ \A e \in Wanted(c) : e \in Logs(c) /\ e.height \in Nat /\ InRange(c, e.height)
    BY <1>1, SyncFacts, Typed, WantedAre DEF SaveCatchUpPage
<1>3. /\ ~s.done /\ DueOf(c, s.synced) \subseteq events /\ s.synced <= MaxOf(top, StartBlock[c] - 1)
      /\ Backward(c, s)
    BY <1>2 DEF ContractInv, Working
<1>4. s.pages \in Seq(Page) /\ s.pages # <<>> /\ s.synced \in Nat
    BY <1>2 DEF SyncState, TypeInv, PagesHeld, HoldsPages
<1>5. /\ Head(s.pages) = s.pages[1] /\ s.pages[1] \in Page
      /\ rest \in Seq(Page)
      /\ Len(s.pages) \in Nat /\ Len(s.pages) >= 1
      /\ Len(rest) = Len(s.pages) - 1
      /\ \A i \in 1..Len(rest) : rest[i] = s.pages[i + 1]
    BY <1>4, HeadTailProperties, EmptySeq, LenProperties
<1> DEFINE first == s.pages[1].cursor
<1>6. /\ first \in Position /\ first.height \in Nat /\ first.height >= 1
      /\ first.height <= top /\ height = first.height
      /\ UpTo(c, first) \subseteq events
      /\ DueOf(c, tip.height) \subseteq UpTo(c, s.pages[Len(s.pages)].cursor)
      /\ PagesFit(c, s.pages) /\ s.walk = None
    <2>1. PagesFit(c, s.pages) /\ UpTo(c, first) \subseteq events /\ s.walk = None
          /\ DueOf(c, tip.height) \subseteq UpTo(c, s.pages[Len(s.pages)].cursor)
        BY <1>2, <1>3, <1>4 DEF Backward
    <2>2. 1 \in 1..Len(s.pages)
        BY <1>5
    <2>3. first # None /\ first.height <= top
        BY <2>1, <2>2 DEF PagesFit
    <2>4. first \in Position
        BY <1>5, <2>3 DEF Page
    <2> QED BY <1>5, <2>1, <2>3, <2>4, CursorHeights
<1>7. \/ /\ HasEnd(c) /\ synced >= EndBlock[c]
         /\ CompleteAtEndBlock(c, u)
      \/ sync' = [sync EXCEPT ![c] = t] /\ progress' = [progress EXCEPT ![c] = row]
    <2>1. t.synced = synced
        BY <1>2 DEF SyncState
    <2> QED BY <2>1 DEF SaveCatchUpPage, UpsertSyncProgress
<1>8. /\ t.mode = "ready" /\ t.cursor = None /\ t.pages = rest /\ t.walk = None
      /\ (t.done <=> newest) /\ t.synced = synced
    BY <1>2, <1>6 DEF SyncState
<1>9. u \in SyncState
    BY <1>2, <1>5 DEF SyncState
<1>10. synced \in Nat /\ synced = MaxOf(s.synced, IF newest THEN first.height ELSE first.height - 1)
    BY <1>4, <1>6 DEF MaxOf
<1> HIDE DEF s, rest, height, t, u, first, synced
<1>11. \A e \in Wanted(c) : e.height < first.height => e \in events
    BY <1>2, <1>6, LowerFirst DEF UpTo
<1>12. newest => DueOf(c, tip.height) \subseteq events
    BY <1>6 DEF first
<1>13. ~newest => DueOf(c, synced) \subseteq events
    <2> SUFFICES ASSUME ~newest, NEW e \in Wanted(c), e.height <= synced PROVE e \in events
        BY DEF DueOf
    <2>1. e.height <= s.synced \/ e.height < first.height
        BY <1>2, <1>4, <1>6, <1>10 DEF MaxOf
    <2> QED BY <1>3, <1>11, <2>1 DEF DueOf
<1>14. CASE HasEnd(c) /\ synced >= EndBlock[c] /\ CompleteAtEndBlock(c, u)
    <2>1. DueOf(c, tip.height) \subseteq events
        <3>1. CASE newest
            BY <1>12, <3>1
        <3>2. CASE ~newest
            <4>1. \A e \in Wanted(c) : e.height <= synced
                BY <1>2, <1>10, <1>14 DEF InRange
            <4> QED BY <1>13, <3>2, <4>1 DEF DueOf
        <3> QED BY <3>1, <3>2
    <2> QED BY <1>1, <1>9, <1>14, <2>1, EndReached
<1>15. CASE sync' = [sync EXCEPT ![c] = t] /\ progress' = [progress EXCEPT ![c] = row]
    <2>1. progress'[c] = row /\ \A d \in Contracts : d # c => progress'[d] = progress[d]
        BY <1>15, Typed DEF StoreTypeOK
    <2>2. DueOf(c, MinOf(synced, tip.height)) \subseteq events
        <3>1. /\ MinOf(synced, tip.height) \in Nat /\ MinOf(synced, tip.height) <= synced
              /\ MinOf(synced, tip.height) <= tip.height
            BY <1>2, <1>10 DEF MinOf
        <3> QED BY <1>2, <1>10, <1>12, <1>13, <3>1, DueMonotone
    <2>3. RowFits(c, row, t)
        BY <2>2 DEF RowFits
    <2>4. CASE newest
        <3>1. ContractInv(c, t)
            BY <1>8, <1>12, <2>4 DEF ContractInv
        <3> HIDE DEF row
        <3> QED BY <1>1, <1>8, <1>15, <2>1, <2>3, <3>1, ContractStep
    <2>5. CASE ~newest
        <3>1. synced <= MaxOf(top, StartBlock[c] - 1)
            BY <1>2, <1>3, <1>4, <1>6, <1>10, <2>5 DEF MaxOf
        <3>2. 1 \in 1..Len(rest) /\ rest[1] = s.pages[2] /\ 2 \in 1..Len(s.pages)
              /\ rest[Len(rest)] = s.pages[Len(s.pages)]
            <4>1. /\ 1 \in 1..Len(rest) /\ 2 \in 1..Len(s.pages) /\ Len(rest) \in 1..Len(rest)
                  /\ Len(rest) + 1 = Len(s.pages)
                <5>1. PICK n \in Nat : n = Len(s.pages)
                    BY <1>5
                <5>2. n # 1 /\ n >= 1
                    BY <1>5, <2>5, <5>1
                <5>3. PICK k \in Nat : k = n - 1
                    BY <5>2
                <5>4. Len(rest) = k
                    BY <1>5, <5>1, <5>3
                <5>5. 1 \in 1..k /\ 2 \in 1..n /\ k \in 1..k /\ k + 1 = n
                    BY <5>2, <5>3
                <5> QED BY <5>1, <5>4, <5>5
            <4>2. rest[1] = s.pages[1 + 1] /\ rest[Len(rest)] = s.pages[Len(rest) + 1]
                BY <1>5, <4>1
            <4> QED BY <4>1, <4>2
        <3>3. PagesFit(c, rest)
            <4> SUFFICES ASSUME NEW i \in 1..Len(rest)
                         PROVE  /\ rest[i].cursor # None
                                /\ rest[i].cursor.height <= top
                                /\ rest[i].results \subseteq Logs(c)
                                /\ i > 1 => UpTo(c, rest[i].cursor) \subseteq
                                             rest[i].results \cup UpTo(c, rest[i - 1].cursor)
                BY DEF PagesFit
            <4>1. PICK k \in 1..Len(s.pages) : k = i + 1
                BY <1>5
            <4>2. rest[i] = s.pages[k] /\ k > 1 /\ (i > 1 => rest[i - 1] = s.pages[k - 1])
                <5>1. i > 1 => i - 1 \in 1..Len(rest) /\ (i - 1) + 1 = k - 1
                    BY <1>5, <4>1
                <5>2. rest[i] = s.pages[k]
                    BY <1>5, <4>1
                <5>3. i > 1 => rest[i - 1] = s.pages[k - 1]
                    BY <1>5, <5>1
                <5> QED BY <4>1, <5>2, <5>3
            <4>3. /\ s.pages[k].cursor # None
                  /\ s.pages[k].cursor.height <= top
                  /\ s.pages[k].results \subseteq Logs(c)
                  /\ UpTo(c, s.pages[k].cursor) \subseteq
                       s.pages[k].results \cup UpTo(c, s.pages[k - 1].cursor)
                BY <1>6, <4>2 DEF PagesFit
            <4> QED BY <4>2, <4>3
        <3>4. UpTo(c, rest[1].cursor) \subseteq rest[1].results \cup events
            <4>1. UpTo(c, s.pages[2].cursor) \subseteq s.pages[2].results \cup UpTo(c, first)
                BY <1>6, <3>2 DEF PagesFit, first
            <4> QED BY <1>6, <3>2, <4>1
        <3>5. Backward(c, t)
            BY <1>6, <1>8, <3>2, <3>3, <3>4 DEF Backward
        <3>6. ContractInv(c, t)
            BY <1>8, <1>13, <2>5, <3>1, <3>5 DEF ContractInv, Working
        <3> HIDE DEF row
        <3> QED BY <1>1, <1>8, <1>15, <2>1, <2>3, <3>6, ContractStep
    <2> QED BY <2>4, <2>5
<1> QED BY <1>7, <1>14, <1>15

\* Once the events of its oldest page are stored, a contract accounts for all
\* up to there.
LEMMA PageKept ==
    ASSUME UNCHANGED <<chainVars, tip>>, events \subseteq events', NEW c \in Contracts,
           NEW s, ContractInv(c, s), s.mode \in {"fetched", "ready"}, ~s.done, s.pages # <<>>,
           \A e \in s.pages[1].results : e \in Wanted(c) => e \in events',
           NEW t, t.mode = "stored", t.walk = s.walk, t.pages = s.pages, t.cursor = s.cursor,
           t.done = s.done, t.synced = s.synced
    PROVE  ContractInv(c, t)'
<1>1. /\ tip' = tip /\ top' = top
      /\ \A p : UpTo(c, p)' = UpTo(c, p) /\ UpTo(c, p) \subseteq Wanted(c)
      /\ \A h : DueOf(c, h)' = DueOf(c, h)
    BY LogsUnmoved DEF chainVars, UpTo
<1>2. Working(c, s)
    BY DEF ContractInv
<1>3. ASSUME s.cursor # None PROVE Forward(c, t)'
    <2>1. Forward(c, s) /\ s.mode = "fetched"
        BY <1>2, <1>3 DEF Working, Forward
    <2>2. UpTo(c, s.cursor) \subseteq s.pages[1].results \cup events
          /\ NextFits(c, s.cursor, s.pages[1].next)
        BY <2>1 DEF Forward
    <2>3. UpTo(c, s.cursor) \subseteq events'
        BY <1>1, <2>2
    <2>4. NextFits(c, s.cursor, s.pages[1].next)'
        BY <1>1, <2>2, LogsUnmoved DEF NextFits
    <2> QED BY <1>1, <2>1, <2>3, <2>4 DEF Forward
<1>4. ASSUME s.cursor = None PROVE Backward(c, t)'
    <2>1. Backward(c, s) /\ s.mode = "ready"
        BY <1>2, <1>4 DEF Working, Backward
    <2>2. /\ UpTo(c, s.pages[1].cursor) \subseteq s.pages[1].results \cup events
          /\ DueOf(c, tip.height) \subseteq UpTo(c, s.pages[Len(s.pages)].cursor)
          /\ PagesFit(c, s.pages) /\ s.walk = None
        BY <2>1 DEF Backward
    <2>3. UpTo(c, s.pages[1].cursor) \subseteq events'
        BY <1>1, <2>2
    <2>4. PagesFit(c, s.pages)'
        BY <1>1, <2>2, LogsUnmoved DEF PagesFit
    <2> QED BY <1>1, <2>2, <2>3, <2>4 DEF Backward
<1>5. DueOf(c, t.synced)' \subseteq events' /\ t.synced <= MaxOf(top', StartBlock[c] - 1)
    BY <1>1, <1>2 DEF Working
<1> QED BY <1>1, <1>3, <1>4, <1>5 DEF ContractInv, Working

\* Storing a page adds canonical events of one contract and their blocks.
LEMMA PageStored ==
    ASSUME TypeInv, TypeInv', StoredInv, ProducerStep,
           NEW c \in Contracts, StorePage(c)
    PROVE  StoredInv'
<1> DEFINE s == sync[c]
           page == Head(s.pages)
           t == [s EXCEPT !.mode = "stored"]
<1>1. /\ UNCHANGED <<chainVars, passVars, batches>> /\ phase = "sync"
      /\ HasPage(c)
      /\ sync' = [sync EXCEPT ![c] = t]
      /\ UNCHANGED <<progress, checkpoint, anchor, handled, queue>>
    BY DEF ProducerStep, StorePage
<1>2. /\ ContractInv(c, s) /\ s \in SyncState /\ ChainTypeOK /\ ForksRise /\ StoreInv
      /\ SavedCursors /\ PassInv /\ Canonical /\ ProgressHolds /\ SyncingInv
      /\ \A d \in Contracts : ContractInv(d, sync[d])
      /\ tip # None /\ anchor = tip /\ anchor # None
      /\ \A e \in Wanted(c) : e \in Logs(c) /\ InRange(c, e.height)
    BY <1>1, SyncFacts, Typed, WantedAre
<1>3. s.mode \in {"fetched", "ready"} /\ ~s.done /\ s.pages # <<>>
    <2>1. s.mode = "fetched" \/ (s.mode = "ready" /\ ~s.done /\ s.pages # <<>>)
        BY <1>1 DEF HasPage, Picked, AtLoopHead, Syncing
    <2>2. s.mode = "fetched" => ~s.done /\ s.pages # <<>>
        BY <1>2 DEF ContractInv, TypeInv, PagesHeld, HoldsPages
    <2> QED BY <2>1, <2>2
<1>4. page = s.pages[1] /\ page \in Page
    <2>1. s.pages \in Seq(Page)
        BY <1>2 DEF SyncState
    <2> QED BY <1>3, <2>1, HeadTailProperties
<1>5. /\ events \subseteq events'
      /\ \A e \in events' : e \in events \/ e \in Logs(c)
      /\ \A e \in page.results : e \in Wanted(c) => e \in events'
      /\ \A h \in Heights : blocks[h] # None => blocks'[h] = blocks[h]
      /\ \A h \in Heights : blocks'[h] # None /\ blocks[h] = None =>
                              blocks'[h] = CanonicalHash(h)
      /\ StoreInv'
    BY <1>1, <1>2, PageIsCanonical
<1>6. /\ t.mode = "stored" /\ t.walk = s.walk /\ t.pages = s.pages /\ t.cursor = s.cursor
      /\ t.done = s.done /\ t.synced = s.synced
    BY <1>2 DEF SyncState
<1>7. sync'[c] = t /\ \A d \in Contracts : d # c => sync'[d] = sync[d]
    BY <1>1, Typed DEF SyncTypeOK
<1>8. /\ chain' = chain /\ top' = top /\ forks' = forks
      /\ tip' = tip /\ phase' = phase /\ probing' = probing /\ ancestor' = ancestor
      /\ checkpoint' = checkpoint /\ progress' = progress /\ queue' = queue
      /\ anchor' = anchor /\ handled' = handled /\ batches' = batches
      /\ FinalizedHeight' = FinalizedHeight /\ CheckpointHeight' = CheckpointHeight
      /\ UNCHANGED chainVars
    BY <1>1 DEF chainVars, passVars, FinalizedHeight, CheckpointHeight
<1> HIDE DEF s, page, t
<1>10. \A d \in Contracts : \A h : DueOf(d, h) \subseteq events => DueOf(d, h)' \subseteq events'
    BY <1>5, <1>8, LogsUnmoved
<1>11. \A h : StoredThrough(h) => StoredThrough(h)'
    BY <1>10 DEF StoredThrough
<1>12. ContractInv(c, sync[c])'
    <2>1. \A e \in s.pages[1].results : e \in Wanted(c) => e \in events'
        BY <1>4, <1>5
    <2> QED BY <1>2, <1>3, <1>5, <1>6, <1>7, <1>8, <2>1, PageKept
<1>13. \A d \in Contracts : ContractInv(d, sync[d])'
    <2>1. \A d \in Contracts : d # c => ContractInv(d, sync[d])'
        BY <1>2, <1>5, <1>7, <1>8, ContractAlone
    <2> QED BY <1>7, <1>12, <2>1
<1>14. BatchesInv => BatchesInv'
    <2> SUFFICES ASSUME BatchesInv PROVE BatchesInv'
        OBVIOUS
    <2>1. PICK to \in 0..tip.height :
         /\ StoredThrough(to)
         /\ \A e \in batches.rows :
              e \in events /\ CheckpointHeight < e.height /\ e.height <= to
         /\ \A d \in Contracts : \A e \in DueOf(d, to) :
              CheckpointHeight < e.height => e \in batches.rows
        BY DEF BatchesInv
    <2>2. StoredThrough(to)'
        BY <1>11, <2>1
    <2>3. \A d \in Contracts : \A e \in DueOf(d, to)' :
              CheckpointHeight < e.height => e \in batches.rows
        BY <1>8, <2>1, LogsUnmoved
    <2>4. /\ phase \in {"sync", "last"} /\ batches.finalized \in FinalizedHeight..CheckpointHeight
          /\ batches.finalized > 0 => blocks[batches.finalized] # None
        BY DEF BatchesInv
    <2>5. batches.finalized > 0 => blocks'[batches.finalized] # None
        <3>1. CheckpointHeight <= anchor.height /\ anchor.height \in Heights
              /\ CheckpointHeight \in Nat /\ FinalizedHeight \in Nat
            BY <1>2, Typed DEF StoreInv
        <3>2. batches.finalized > 0 => batches.finalized \in Heights
            BY <2>4, <3>1, ChainAssumption DEF Heights
        <3> QED BY <1>5, <2>4, <3>2
    <2> QED BY <1>5, <1>8, <2>1, <2>2, <2>3, <2>4, <2>5 DEF BatchesInv
<1>15. SyncingInv'
    BY <1>1, <1>2, <1>8, <1>11, <1>13, <1>14 DEF SyncingInv
<1>17. Canonical'
    <2>1. events' \subseteq CanonicalEvents
        BY <1>2, <1>5 DEF Canonical, CanonicalEvents
    <2>2. \A h \in Heights : blocks'[h] # None => blocks'[h] = CanonicalHash(h)
        BY <1>2, <1>5 DEF Canonical
    <2> QED BY <1>2, <1>8, <2>1, <2>2, LogsUnmoved DEF Canonical
<1>18. ProgressHolds'
    BY <1>2, <1>5, <1>8, LogsUnmoved DEF ProgressHolds
<1>19. SavedCursors'
    <2>1. \A d, p : Resumable(d, p) => Resumable(d, p)'
        BY <1>5, <1>8, LogsUnmoved DEF Resumable
    <2> QED BY <1>1, <1>2, <1>6, <1>7, <1>8, <2>1 DEF SavedCursors, s
<1>20. PassInv'
    BY <1>1, <1>2, <1>8 DEF PassInv
<1>21. ForksRise'
    BY <1>2, <1>8, ChainAlone
<1>22. ResumeInv'
    BY <1>1, <1>8, ResumeAlone DEF StoredInv
<1> QED BY <1>1, <1>8, <1>5, <1>15, <1>17, <1>18, <1>19, <1>20, <1>21, <1>22
        DEF StoredInv, Unverified

LEMMA ProducerStored ==
    ASSUME NothingInTheWay, TypeInv, TypeInv', StoredInv, ProducerStep
    PROVE  StoredInv'
<1>1. PICK c \in Contracts :
        \/ InitFromScratch(c) \/ InitFromSaved(c) \/ WalkPage(c)
        \/ StartCatchUp(c) \/ FetchBackfillPage(c) \/ StorePage(c)
        \/ SaveBackfillPage(c) \/ SaveCatchUpPage(c)
    BY DEF ProducerStep, SyncStep
<1> QED BY <1>1, ScratchStored, SavedStored, WalkStored, CatchUpStarted, PageFetched,
        PageStored, BackfillSaved, CatchUpSaved

-----------------------------------------------------------------------------
(* The consumer. *)

\* What a pass that indexes knows.
LEMMA IndexFacts ==
    ASSUME TypeInv, StoredInv, phase \in {"sync", "final", "last"}
    PROVE  /\ ForksRise /\ StoreInv /\ SavedCursors /\ PassInv /\ Canonical /\ ProgressHolds
           /\ SyncingInv
           /\ tip # None /\ tip.height \in Nat /\ tip.height \in 1..top /\ anchor = tip
           /\ IndexingCap = tip.height /\ TipHeight = tip.height
<1>1. /\ ForksRise /\ StoreInv /\ SavedCursors /\ PassInv /\ Canonical /\ ProgressHolds
      /\ SyncingInv
    BY DEF StoredInv, Unverified
<1>2. tip # None /\ tip.height \in Nat /\ tip.height \in 1..top /\ anchor = tip
    BY <1>1, Typed DEF PassInv
<1> QED BY <1>1, <1>2 DEF IndexingCap, TipHeight

\* A step that indexes, or ends the stream, keeps the invariant if the
\* checkpoint follows the canonical events.
LEMMA IndexStep ==
    ASSUME TypeInv, TypeInv', StoredInv,
           phase \in {"sync", "final", "last"}, phase' \in {"sync", "final", "last"},
           UNCHANGED <<chainVars, tip, probing, ancestor, sync, blocks, events, anchor>>,
           SavedCursors', ProgressHolds',
           phase' = "sync" => phase = "sync" /\ progress' = progress,
           CheckpointHeight' <= tip.height, FinalizedHeight' <= CheckpointHeight',
           FinalizedHeight' > 0 => blocks[FinalizedHeight'] # None,
           CheckpointHeight' > 0 => blocks[CheckpointHeight'] # None,
           handled' = Due(CheckpointHeight'),
           \A i \in DOMAIN queue' : StoredThrough(MinOf(queue'[i], tip.height)),
           phase' # "sync" => queue' = <<>> /\ StoredThrough(tip.height),
           batches' # None => BatchesInv'
    PROVE  StoredInv'
<1>1. /\ ForksRise /\ StoreInv /\ PassInv /\ Canonical /\ SyncingInv
      /\ tip # None /\ tip.height \in Nat /\ anchor = tip
    BY IndexFacts
<1>2. /\ chain' = chain /\ top' = top /\ forks' = forks
      /\ tip' = tip /\ probing' = probing /\ ancestor' = ancestor
      /\ blocks' = blocks /\ events' = events /\ anchor' = anchor /\ sync' = sync
      /\ UNCHANGED chainVars
    BY DEF chainVars
<1>3. \A h : StoredThrough(h)' <=> StoredThrough(h)
    BY <1>2, LogsUnmoved DEF StoredThrough
<1>4. phase' = "sync" => \A c \in Contracts : ContractInv(c, sync[c])'
    <2> SUFFICES ASSUME phase' = "sync", NEW c \in Contracts PROVE ContractInv(c, sync[c])'
        OBVIOUS
    <2>1. ContractInv(c, sync[c]) /\ progress' = progress
        BY <1>1 DEF SyncingInv
    <2> QED BY <1>2, <2>1, ContractAlone
<1>5. SyncingInv'
    BY <1>2, <1>3, <1>4 DEF SyncingInv
<1>6. Canonical'
    BY <1>1, <1>2, LogsUnmoved DEF Canonical
<1>7. StoreInv'
    BY <1>1, <1>2 DEF StoreInv
<1>8. PassInv'
    BY <1>1, <1>2 DEF PassInv
<1>9. ForksRise'
    BY <1>1, <1>2, ChainAlone
<1>10. ResumeInv'
    BY <1>2, ResumeAlone DEF StoredInv
<1> QED BY <1>5, <1>6, <1>7, <1>8, <1>9, <1>10 DEF StoredInv, Unverified

\* Saved rows are left alone by a step of a pass that indexes.
LEMMA SavedAlone ==
    ASSUME TypeInv, StoredInv, phase \in {"sync", "final", "last"},
           UNCHANGED <<chainVars, tip, sync, events, anchor, progress>>,
           phase' = phase \/ phase = "final"
    PROVE  SavedCursors' /\ ProgressHolds'
<1>1. /\ SavedCursors /\ ProgressHolds
    BY IndexFacts
<1>2. \A c, p : Resumable(c, p)' <=> Resumable(c, p)
    BY LogsUnmoved DEF Resumable
<1>3. SavedCursors'
    BY <1>1, <1>2 DEF SavedCursors
<1>4. ProgressHolds'
    BY <1>1, LogsUnmoved DEF ProgressHolds
<1> QED BY <1>3, <1>4

\* The call of the consumer: up to a height through which everything is stored.
LEMMA CallStored ==
    ASSUME TypeInv, TypeInv', StoredInv, phase \in {"sync", "final"}, batches = None,
           \/ phase' = phase /\ phase = "sync"
           \/ phase' = "last" /\ phase = "final",
           UNCHANGED <<chainVars, tip, probing, ancestor, sync>>,
           UNCHANGED <<blocks, events, progress, anchor, handled>>,
           \A i \in DOMAIN queue' : StoredThrough(MinOf(queue'[i], tip.height)),
           phase' # "sync" => queue' = <<>> /\ StoredThrough(tip.height),
           NEW to \in 0..tip.height, StoredThrough(to),
           IndexEventsUpTo(to, TipHeight)
    PROVE  StoredInv'
<1>1. /\ StoreInv /\ Canonical /\ tip # None /\ tip.height \in Nat /\ anchor = tip
      /\ CheckpointHeight \in Nat /\ FinalizedHeight \in Nat /\ to \in Nat /\ to \in Int
      /\ TypeOK
    BY IndexFacts, Typed DEF TypeInv
<1>2. SavedCursors' /\ ProgressHolds'
    BY SavedAlone
<1>3. /\ CheckpointHeight' = CheckpointHeight
      /\ FinalizedHeight' \in {FinalizedHeight, MaxOf(CheckpointHeight, FinalizedHeight)}
      /\ batches' # None => /\ FinalizedHeight' = FinalizedHeight
                            /\ batches'.rows = RowsUpTo(to)
                            /\ batches'.finalized \in {FinalizedHeight,
                                                       MaxOf(CheckpointHeight, FinalizedHeight)}
    BY CallIs
<1>4. \A f \in {FinalizedHeight, MaxOf(CheckpointHeight, FinalizedHeight)} :
         f \in FinalizedHeight..CheckpointHeight /\ (f > 0 => blocks[f] # None)
    BY <1>1 DEF MaxOf, StoreInv
<1>5. /\ \A h : StoredThrough(h)' <=> StoredThrough(h)
      /\ \A c, h : DueOf(c, h)' = DueOf(c, h)
    BY LogsUnmoved DEF StoredThrough
<1>6. /\ FinalizedHeight' \in FinalizedHeight..CheckpointHeight
      /\ FinalizedHeight' > 0 => blocks[FinalizedHeight'] # None
    BY <1>3, <1>4
<1>7. batches' # None => BatchesInv'
    <2> SUFFICES ASSUME batches' # None PROVE BatchesInv'
        OBVIOUS
    <2>1. \A e \in RowsUpTo(to) : e \in events /\ CheckpointHeight < e.height /\ e.height <= to
        BY DEF RowsUpTo
    <2>2. \A c \in Contracts : \A e \in DueOf(c, to) :
              CheckpointHeight < e.height => e \in RowsUpTo(to)
        BY DEF RowsUpTo, StoredThrough, DueOf
    <2>3. /\ batches'.finalized \in FinalizedHeight'..CheckpointHeight'
          /\ batches'.finalized > 0 => blocks[batches'.finalized] # None
        BY <1>3, <1>4
    <2> QED BY <1>1, <1>3, <1>5, <2>1, <2>2, <2>3 DEF BatchesInv
<1>8. handled' = Due(CheckpointHeight')
    BY <1>1, <1>3 DEF Canonical
<1>9. CheckpointHeight' <= tip.height /\ (CheckpointHeight' > 0 => blocks[CheckpointHeight'] # None)
    BY <1>1, <1>3 DEF Canonical, StoreInv
<1>10. FinalizedHeight' <= CheckpointHeight'
    BY <1>1, <1>3, <1>6
<1> QED BY <1>2, <1>6, <1>7, <1>8, <1>9, <1>10, IndexStep

LEMMA BatchStored ==
    ASSUME TypeInv, TypeInv', StoredInv, IndexBatch,
           UNCHANGED <<chainVars, passVars, syncVars>>
    PROVE  StoredInv'
<1>0. /\ batches # None /\ batches \in Indexing
      /\ UNCHANGED <<chainVars, tip, probing, ancestor, sync>>
      /\ UNCHANGED <<blocks, events, progress, anchor>>
      /\ queue' = queue /\ phase' = phase
    BY Typed DEF IndexBatch, IndexTypeOK, passVars, syncVars
<1>1. phase \in {"sync", "last"} /\ BatchesInv
    BY <1>0 DEF StoredInv, PassInv, SyncingInv, BatchesInv
<1>2. /\ StoreInv /\ Canonical /\ tip # None /\ tip.height \in Nat /\ anchor = tip /\ SyncingInv
      /\ CheckpointHeight \in Nat /\ FinalizedHeight \in Nat /\ ChainTypeOK
      /\ \A h : StoredThrough(h)' <=> StoredThrough(h)
      /\ \A c, h : DueOf(c, h)' = DueOf(c, h)
    BY <1>0, <1>1, IndexFacts, Typed, LogsUnmoved DEF StoredThrough
<1>3. SavedCursors' /\ ProgressHolds'
    BY <1>0, <1>1, SavedAlone
<1>4. PICK to \in 0..tip.height :
         /\ StoredThrough(to)
         /\ \A e \in batches.rows :
              e \in events /\ CheckpointHeight < e.height /\ e.height <= to
         /\ \A c \in Contracts : \A e \in DueOf(c, to) :
              CheckpointHeight < e.height => e \in batches.rows
    BY <1>1 DEF BatchesInv
<1>5. /\ batches.finalized \in FinalizedHeight..CheckpointHeight
      /\ batches.finalized > 0 => blocks[batches.finalized] # None
    BY <1>1 DEF BatchesInv
<1>6. PICK h \in {e.height : e \in batches.rows} :
        \E f \in {batches.finalized} \cup {e.height : e \in Prefix(batches.rows, h)} :
          /\ h \in Nat /\ f \in Nat /\ batches.finalized <= f
          /\ CheckpointHeight' = h /\ FinalizedHeight' = f
          /\ handled' = handled \cup InContractRange(Prefix(batches.rows, h))
          /\ batches' # None => /\ batches'.rows = batches.rows \ Prefix(batches.rows, h)
                                /\ batches'.finalized = f
    BY BatchIs
<1>7. PICK f \in {batches.finalized} \cup {e.height : e \in Prefix(batches.rows, h)} :
          /\ h \in Nat /\ f \in Nat /\ batches.finalized <= f
          /\ CheckpointHeight' = h /\ FinalizedHeight' = f
          /\ handled' = handled \cup InContractRange(Prefix(batches.rows, h))
          /\ batches' # None => /\ batches'.rows = batches.rows \ Prefix(batches.rows, h)
                                /\ batches'.finalized = f
    BY <1>6
<1>8. /\ \A e \in batches.rows : e.height \in Nat /\ blocks[e.height] # None
      /\ h \in Nat /\ CheckpointHeight < h /\ h <= to /\ blocks[h] # None
    <2>1. \A e \in batches.rows : e.height \in Nat /\ blocks[e.height] # None
        BY <1>2, <1>4, Typed DEF StoreInv
    <2> QED BY <1>4, <1>6, <2>1
<1>9. f <= h /\ (f > 0 => blocks[f] # None)
    <2>1. \A e \in Prefix(batches.rows, h) : e \in batches.rows /\ e.height <= h
        BY DEF Prefix
    <2> QED BY <1>2, <1>5, <1>7, <1>8, <2>1
<1>11. handled' = Due(h)
    <2>1. handled = Due(CheckpointHeight) /\ events \subseteq CanonicalEvents
        BY <1>2 DEF Canonical
    <2>2. ASSUME NEW e \in handled' PROVE e \in Due(h)
        <3>1. CASE e \in handled
            <4>1. e \in Due(CheckpointHeight) /\ e.height \in Nat
                BY <2>1, <3>1, Typed
            <4> QED BY <1>2, <1>8, <4>1 DEF Due
        <3>2. CASE e \in InContractRange(Prefix(batches.rows, h))
            BY <1>4, <2>1, <3>2 DEF InContractRange, Prefix, Due
        <3> QED BY <1>7, <2>2, <3>1, <3>2
    <2>3. ASSUME NEW e \in Due(h) PROVE e \in handled'
        <3>1. /\ e.contract \in Contracts /\ e \in DueOf(e.contract, h)
              /\ e \in CanonicalEvents /\ InRange(e.contract, e.height) /\ e.height <= h
            BY <1>2, DueIs DEF Due
        <3>2. e.height \in Nat
            BY <1>2, <3>1, WantedAre DEF DueOf
        <3>3. CASE e.height <= CheckpointHeight
            BY <1>7, <2>1, <3>1, <3>3 DEF Due
        <3>4. CASE CheckpointHeight < e.height
            <4>1. e \in DueOf(e.contract, to)
                BY <1>8, <3>1, <3>2 DEF DueOf
            <4>2. e \in Prefix(batches.rows, h)
                BY <1>4, <3>1, <3>4, <4>1 DEF Prefix
            <4> QED BY <1>7, <3>1, <4>2 DEF InContractRange
        <3> QED BY <1>2, <3>2, <3>3, <3>4
    <2> QED BY <2>2, <2>3
<1>12. batches' # None => BatchesInv'
    <2> SUFFICES ASSUME batches' # None PROVE BatchesInv'
        OBVIOUS
    <2>1. batches'.rows = batches.rows \ Prefix(batches.rows, h) /\ batches'.finalized = f
        BY <1>7
    <2>2. \A e \in batches'.rows : e \in events /\ h < e.height /\ e.height <= to
        BY <1>4, <1>8, <2>1 DEF Prefix
    <2>3. \A c \in Contracts : \A e \in DueOf(c, to) : h < e.height => e \in batches'.rows
        <3> SUFFICES ASSUME NEW c \in Contracts, NEW e \in DueOf(c, to), h < e.height
                     PROVE  e \in batches'.rows
            OBVIOUS
        <3>1. e.height \in Nat
            BY <1>2, WantedAre DEF DueOf
        <3>2. e \in batches.rows
            BY <1>2, <1>4, <1>8, <3>1
        <3> QED BY <1>8, <2>1, <3>1, <3>2 DEF Prefix
    <2>4. f \in f..h
        BY <1>7, <1>8, <1>9
    <2> QED BY <1>0, <1>1, <1>2, <1>4, <1>9, <1>7, <2>1, <2>2, <2>3, <2>4 DEF BatchesInv
<1>13. /\ \A i \in DOMAIN queue' : StoredThrough(MinOf(queue'[i], tip.height))
       /\ phase' # "sync" => queue' = <<>> /\ StoredThrough(tip.height)
    BY <1>0, <1>1, <1>2 DEF SyncingInv
<1>14. CheckpointHeight' <= tip.height /\ FinalizedHeight' <= CheckpointHeight'
    BY <1>2, <1>8, <1>9, <1>7
<1> QED BY <1>0, <1>1, <1>3, <1>8, <1>9, <1>7, <1>11, <1>12, <1>13, <1>14, IndexStep

\* The stream ends: every contract is done, so everything up to the tip is stored.
LEMMA RaiseStored ==
    ASSUME TypeInv, TypeInv', StoredInv, RaiseToTip, UNCHANGED chainVars
    PROVE  StoredInv'
<1>0. /\ phase = "sync" /\ phase' = "final" /\ batches' = None /\ queue = <<>> /\ queue' = queue
      /\ \A c \in Contracts : sync[c].done
      /\ UNCHANGED <<chainVars, tip, probing, ancestor, sync>>
      /\ UNCHANGED <<blocks, events, anchor, checkpoint, handled>>
      /\ FinalizedHeight' = FinalizedHeight /\ CheckpointHeight' = CheckpointHeight
    BY DEF RaiseToTip, StreamEnded, syncVars, FinalizedHeight, CheckpointHeight
<1>1. /\ StoreInv /\ Canonical /\ SavedCursors /\ tip # None /\ tip.height \in Nat /\ anchor = tip
      /\ SyncingInv
    BY <1>0, IndexFacts
<1>2. StoredThrough(tip.height)
    BY <1>0, <1>1 DEF SyncingInv, ContractInv, StoredThrough
<1>3. ASSUME NEW c \in Contracts
      PROVE  /\ progress'[c] # None => progress[c] # None /\ progress'[c].cursor = progress[c].cursor
    <2>1. \/ progress'[c] = progress[c]
          \/ progress[c] # None /\ progress'[c] = [progress[c] EXCEPT !.synced = tip.height]
        BY <1>1 DEF RaiseToTip, RaiseSyncedBlockHeight
    <2>2. progress[c] # None => progress[c] \in Progress
        BY Typed DEF StoreTypeOK
    <2> QED BY <2>1, <2>2 DEF Progress
<1>4. SavedCursors'
    <2>1. \A c, p : Resumable(c, p)' <=> Resumable(c, p)
        BY <1>0, LogsUnmoved DEF Resumable
    <2> QED BY <1>0, <1>1, <1>3, <2>1 DEF SavedCursors
<1>5. ProgressHolds'
    <2> SUFFICES ASSUME NEW c \in Contracts, progress'[c] # None
                 PROVE  DueOf(c, MinOf(progress'[c].synced, tip.height)) \subseteq events
        BY <1>0, LogsUnmoved DEF ProgressHolds
    <2>1. progress'[c].synced \in Nat
        BY DEF TypeInv, TypeOK, StoreTypeOK, Progress
    <2>2. /\ MinOf(progress'[c].synced, tip.height) \in Nat
          /\ MinOf(progress'[c].synced, tip.height) <= tip.height
        BY <1>1, <2>1 DEF MinOf
    <2> QED BY <1>1, <1>2, <2>2, Typed, DueMonotone DEF StoredThrough
<1>6. handled' = Due(CheckpointHeight') /\ CheckpointHeight' <= tip.height
    BY <1>0, <1>1 DEF Canonical
<1>7. /\ FinalizedHeight' <= CheckpointHeight'
      /\ FinalizedHeight' > 0 => blocks[FinalizedHeight'] # None
      /\ CheckpointHeight' > 0 => blocks[CheckpointHeight'] # None
    BY <1>0, <1>1 DEF StoreInv
<1> QED BY <1>0, <1>1, <1>2, <1>4, <1>5, <1>6, <1>7, IndexStep

LEMMA ConsumerStored ==
    ASSUME TypeInv, TypeInv', StoredInv, ConsumerStep
    PROVE  StoredInv'
<1>0. UNCHANGED chainVars
    BY DEF ConsumerStep
<1>1. CASE IndexSafeHeight
    <2>1. /\ phase = "sync" /\ phase' = phase /\ batches = None
          /\ UNCHANGED <<tip, probing, ancestor, sync>>
          /\ UNCHANGED <<blocks, events, progress, anchor, handled>>
          /\ queue \in Seq(Nat) /\ queue # <<>> /\ queue' = Tail(queue)
          /\ IndexEventsUpTo(MinOf(Head(queue), IndexingCap), TipHeight)
        BY <1>1, Typed DEF IndexSafeHeight, passVars, SyncTypeOK
    <2>2. IndexingCap = tip.height /\ tip.height \in Nat /\ SyncingInv
        BY <2>1, IndexFacts
    <2>3. \A i \in DOMAIN queue : StoredThrough(MinOf(queue[i], tip.height))
        BY <2>1, <2>2 DEF SyncingInv
    <2>4. /\ Head(queue) = queue[1] /\ 1 \in DOMAIN queue /\ queue[1] \in Nat
          /\ \A i \in DOMAIN queue' : i + 1 \in DOMAIN queue /\ queue'[i] = queue[i + 1]
        BY <2>1
    <2>5. /\ MinOf(Head(queue), IndexingCap) \in 0..tip.height
          /\ StoredThrough(MinOf(Head(queue), IndexingCap))
        BY <2>2, <2>3, <2>4 DEF MinOf
    <2>6. \A i \in DOMAIN queue' : StoredThrough(MinOf(queue'[i], tip.height))
        BY <2>3, <2>4
    <2> QED BY <1>0, <2>1, <2>5, <2>6, CallStored
<1>2. CASE IndexBatch /\ UNCHANGED <<passVars, syncVars>>
    BY <1>0, <1>2, BatchStored
<1>3. CASE RaiseToTip
    BY <1>0, <1>3, RaiseStored
<1>4. CASE IndexRemaining
    <2>1. /\ phase = "final" /\ phase' = "last"
          /\ UNCHANGED <<tip, probing, ancestor, sync>>
          /\ UNCHANGED <<blocks, events, progress, anchor, handled>>
          /\ queue' = queue
          /\ IndexEventsUpTo(IndexingCap, TipHeight)
        BY <1>4 DEF IndexRemaining, syncVars
    <2>2. IndexingCap = tip.height /\ tip.height \in Nat /\ SyncingInv
        BY <2>1, IndexFacts
    <2>3. queue = <<>> /\ StoredThrough(tip.height) /\ batches = None
        BY <2>1, <2>2 DEF SyncingInv, BatchesInv
    <2>4. DOMAIN queue' = {}
        BY <2>1, <2>3
    <2>5. tip.height \in 0..tip.height
        BY <2>2
    <2> QED BY <1>0, <2>1, <2>2, <2>3, <2>4, <2>5, CallStored
<1> QED BY <1>1, <1>2, <1>3, <1>4 DEF ConsumerStep

-----------------------------------------------------------------------------
(* The end of a pass, complete or not. *)

\* Every page at hand answers for canonical transactions: as long as no reorg
\* happens during a pass, no transaction batch lacks one of them.
LEMMA PagesAreFetchable ==
    ASSUME TypeInv, StoredInv, phase = "sync", NEW c \in Contracts, HasPage(c)
    PROVE  Fetchable(c)
<1>1. ContractInv(c, sync[c]) /\ sync[c] \in SyncState
    BY SyncFacts
<1>2. sync[c].mode \in {"fetched", "ready"} /\ ~sync[c].done /\ sync[c].pages # <<>>
    <2>1. \/ sync[c].mode = "fetched"
          \/ sync[c].mode = "ready" /\ ~sync[c].done /\ sync[c].pages # <<>>
        BY DEF HasPage, Picked, AtLoopHead, Syncing
    <2>2. sync[c].mode = "fetched" => ~sync[c].done /\ sync[c].pages # <<>>
        BY <1>1 DEF ContractInv, TypeInv, PagesHeld, HoldsPages
    <2> QED BY <2>1, <2>2
<1>3. Head(sync[c].pages) = sync[c].pages[1] /\ 1 \in 1..Len(sync[c].pages)
    <2>1. sync[c].pages \in Seq(Page)
        BY <1>1 DEF SyncState
    <2> QED BY <1>2, <2>1, HeadTailProperties, EmptySeq, LenProperties
<1>4. sync[c].pages[1].results \subseteq Logs(c)
    <2>1. CASE sync[c].cursor = None
        BY <1>1, <1>2, <1>3, <2>1 DEF ContractInv, Working, Backward, PagesFit
    <2>2. CASE sync[c].cursor # None
        BY <1>1, <1>2, <2>2 DEF ContractInv, Working, Forward
    <2> QED BY <2>1, <2>2
<1> QED BY <1>3, <1>4 DEF Fetchable, Missing

\* After a rewind the stored and the canonical chain agree up to the tip of the
\* chain.
LEMMA TopIsCommon ==
    ASSUME TypeInv, StoredInv, phase \notin Unverified
    PROVE  AgreeUpTo(top) /\ DifferAbove(top) /\ FinalizedHeight <= top
<1>1. /\ StoreInv /\ PassInv /\ Canonical /\ ProgressHolds
      /\ phase = "setAnchor" => ProgressBelowTip
      /\ phase # "setAnchor" => phase \in {"sync", "final", "last"}
    BY Typed DEF StoredInv, PassInv, PassTypeOK, Phases, Unverified
<1>2. /\ tip # None /\ tip.height \in Nat /\ tip.height <= top /\ top \in Nat /\ ChainTypeOK
      /\ CheckpointHeight \in Nat /\ FinalizedHeight \in Nat /\ CheckpointHeight <= tip.height
      /\ phase # "setAnchor" => anchor = tip
    BY <1>1, Typed DEF PassInv, Unverified, Canonical
<1>3. SoundUpTo(top) /\ DifferAbove(top) /\ FinalizedHeight <= top
    <2>1. SoundStore
        BY <1>1 DEF Canonical, SoundStore
    <2> QED BY <1>1, <2>1, TopIsSound
<1>5. {e \in handled : e.height <= top} = Due(MinOf(CheckpointHeight, top))
      /\ \A e \in handled : e.height <= CheckpointHeight
    <2>1. MinOf(CheckpointHeight, top) = CheckpointHeight /\ handled = Due(CheckpointHeight)
        BY <1>1, <1>2 DEF MinOf, Canonical
    <2>2. \A e \in handled : e.height <= CheckpointHeight /\ e.height \in Nat
        BY <2>1, Typed DEF Due
    <2> QED BY <1>2, <2>1, <2>2
<1>6. ASSUME NEW c \in Contracts, progress[c] # None
      PROVE  DueOf(c, MinOf(progress[c].synced, MinOf(anchor.height, top))) \subseteq events
    <2>1. anchor # None /\ anchor.height \in Nat /\ progress[c].synced \in Nat
        BY <1>1, <1>6, Typed DEF StoreInv, StoreInit
    <2>2. /\ MinOf(progress[c].synced, MinOf(anchor.height, top)) \in Nat
          /\ MinOf(progress[c].synced, tip.height) \in Nat
          /\ MinOf(progress[c].synced, MinOf(anchor.height, top)) <=
               MinOf(progress[c].synced, tip.height)
        BY <1>1, <1>2, <1>6, <2>1 DEF MinOf, ProgressBelowTip
    <2> QED BY <1>1, <1>2, <1>6, <2>2, DueMonotone DEF ProgressHolds
<1>7. AgreeUpTo(top)
    BY <1>3, <1>5, <1>6 DEF AgreeUpTo, SoundUpTo
<1> QED BY <1>3, <1>7

LEMMA ResetStored ==
    ASSUME NothingInTheWay, TypeInv, TypeInv', StoredInv, EndStep \/ StopStep
    PROVE  StoredInv'
<1>1. /\ Reset /\ UNCHANGED <<chainVars, storeVars>> /\ UNCHANGED chainVars
      /\ phase' = "idle" /\ tip' = None /\ queue' = <<>> /\ batches' = None
      /\ sync' = [c \in Contracts |-> FreshState(c)]
      /\ anchor' = anchor /\ progress' = progress /\ top' = top /\ chain' = chain
    BY DEF EndStep, EndPass, StopStep, Stop, Reset, storeVars, chainVars
<1>2. /\ ForksRise /\ StoreInv /\ SavedCursors /\ PassInv /\ ResumeInv
    BY DEF StoredInv
<1>3. PassInv' /\ ResumeInv' /\ (\A m : KeptBelowTip(m)')
    BY <1>1, <1>2 DEF PassInv, ResumeInv, KeptBelowTip
<1>4. CASE phase \in Unverified
    <2>1. PICK m \in 0..top : CommonHeight(m)
        BY <1>4 DEF StoredInv
    <2>2. UNCHANGED <<chainVars, storeVars, syncVars, batches>>
        BY <1>1, <1>2, <1>4 DEF PassInv, Unverified, syncVars
    <2> QED BY <1>1, <1>3, <1>4, <2>1, <2>2, UnverifiedStep DEF Unverified
<1>5. CASE phase \notin Unverified
    <2>1. AgreeUpTo(top) /\ DifferAbove(top) /\ FinalizedHeight <= top /\ top \in Nat
        BY <1>5, TopIsCommon, Typed
    <2>2. AgreeUpTo(top)' /\ DifferAbove(top)' /\ StoreInv' /\ ForksRise'
          /\ FinalizedHeight' = FinalizedHeight
          /\ \A c, p : Resumable(c, p) => Resumable(c, p)'
        BY <1>1, <1>2, <2>1, StoreAlone, AgreeAlone, ChainAlone
    <2>3. CommonHeight(top)'
        BY <1>1, <1>3, <2>1, <2>2 DEF CommonHeight
    <2>4. phase = "sync" => Resuming
        <3>1. CASE EndStep
            BY <3>1, PagesAreFetchable DEF EndStep, EndPass
        <3>2. CASE StopStep
            BY <3>2 DEF StopStep, Stop, NothingInTheWay, Resuming
        <3> QED BY <3>1, <3>2
    <2>5. SavedCursors'
        BY <1>1, <1>2, <2>2, <2>4 DEF SavedCursors
    <2>6. top' \in 0..top'
        BY <1>1, <2>1
    <2> QED BY <1>1, <1>3, <2>2, <2>3, <2>5, <2>6 DEF StoredInv, Unverified
<1> QED BY <1>4, <1>5

-----------------------------------------------------------------------------
(* The chain moves, or nothing does. *)

\* A contract's part of the invariant outlives new blocks: they are above the
\* tip of the pass and above every cursor it holds.
LEMMA ContractGrown ==
    ASSUME TypeInv, TypeInv', Mine \/ UNCHANGED chainVars,
           UNCHANGED <<tip, events, progress>>, tip # None, tip.height <= top,
           NEW c \in Contracts, NEW s \in SyncState, ContractInv(c, s), HoldsPages(s)
    PROVE  ContractInv(c, s)'
<1>1. /\ ChainTypeOK /\ ChainTypeOK' /\ tip.height \in Int /\ s.synced \in Nat
      /\ StartBlock[c] \in Nat
    BY Typed, RangeAssumption DEF TypeInv, TypeOK, SyncState
<1>2. /\ top \in Nat /\ top' \in Nat /\ top <= top'
      /\ Logs(c) \subseteq Logs(c)'
      /\ \A e \in Wanted(c)' : e \in Wanted(c) \/ top < e.height
      /\ \A p \in Position : p.height <= top =>
           /\ UpTo(c, p)' = UpTo(c, p)
           /\ LogsPage(c, p).results' = LogsPage(c, p).results
      /\ DueOf(c, tip.height)' = DueOf(c, tip.height)
    BY <1>1, AtLeastGrown
<1>3. s.pages \in Seq(Page) /\ (\A i \in 1..Len(s.pages) : s.pages[i] \in Page)
      /\ s.cursor \in Position \cup {None} /\ s.walk \in Position \cup {None}
    BY DEF SyncState
<1>4. ASSUME NEW p \in Position \cup {None}, p # None, p.height <= top
      PROVE  p.height <= top' /\ UpTo(c, p)' = UpTo(c, p)
             /\ LogsPage(c, p).results' = LogsPage(c, p).results
    BY <1>2, <1>4, CursorHeights
<1>5. ASSUME DueOf(c, s.synced) \subseteq events, s.synced <= MaxOf(top, StartBlock[c] - 1)
      PROVE  DueOf(c, s.synced)' \subseteq events' /\ s.synced <= MaxOf(top', StartBlock[c] - 1)
    <2>1. s.synced <= MaxOf(top', StartBlock[c] - 1)
        BY <1>1, <1>2, <1>5 DEF MaxOf
    <2>2. ASSUME NEW e \in Wanted(c)', e.height <= s.synced PROVE e \in events
        <3>1. e.height \in Nat /\ InRange(c, e.height)
            BY <1>1, WantedNext
        <3>2. ~(top < e.height)
            BY <1>1, <1>2, <1>5, <2>2, <3>1 DEF MaxOf, InRange
        <3> QED BY <1>2, <1>5, <2>2, <3>2 DEF DueOf
    <2> QED BY <2>1, <2>2 DEF DueOf
<1>6. ASSUME s.cursor # None, Forward(c, s), ~s.done PROVE Forward(c, s)'
    <2>1. s.cursor.height <= top /\ s.walk = None /\ s.mode \in {"ready", "fetched", "stored"}
        BY <1>6 DEF Forward
    <2>2. UpTo(c, s.cursor)' = UpTo(c, s.cursor) /\ s.cursor.height <= top'
          /\ (Resumable(c, s.cursor) => Resumable(c, s.cursor)')
        BY <1>3, <1>4, <1>6, <2>1 DEF Resumable
    <2>3. s.mode \in {"fetched", "stored"} => s.pages[1] \in Page
        <3>1. s.mode \in {"fetched", "stored"} => 1 \in 1..Len(s.pages)
            BY <1>3, EmptySeq, LenProperties DEF HoldsPages
        <3> QED BY <1>3, <3>1
    <2>4. ASSUME s.mode \in {"fetched", "stored"}, NextFits(c, s.cursor, s.pages[1].next)
          PROVE  NextFits(c, s.cursor, s.pages[1].next)'
        <3>1. s.pages[1].next \in Position \cup {None}
            BY <2>3, <2>4 DEF Page
        <3> QED BY <1>4, <2>2, <2>4, <3>1 DEF NextFits
    <2> QED BY <1>2, <1>6, <2>1, <2>2, <2>4 DEF Forward
<1>7. ASSUME s.cursor = None, Backward(c, s) PROVE Backward(c, s)'
    <2>1. \A i \in 1..Len(s.pages) :
            /\ s.pages[i].cursor # None
            /\ s.pages[i].cursor.height <= top
            /\ s.pages[i].cursor.height <= top'
            /\ UpTo(c, s.pages[i].cursor)' = UpTo(c, s.pages[i].cursor)
        <3> SUFFICES ASSUME NEW i \in 1..Len(s.pages)
                     PROVE  /\ s.pages[i].cursor # None
                            /\ s.pages[i].cursor.height <= top
                            /\ s.pages[i].cursor.height <= top'
                            /\ UpTo(c, s.pages[i].cursor)' = UpTo(c, s.pages[i].cursor)
            OBVIOUS
        <3>1. s.pages[i].cursor # None /\ s.pages[i].cursor.height <= top
            BY <1>7 DEF Backward, PagesFit
        <3>2. s.pages[i].cursor \in Position \cup {None}
            BY <1>3 DEF Page
        <3> QED BY <1>4, <3>1, <3>2
    <2>2. PagesFit(c, s.pages)'
        <3> SUFFICES ASSUME NEW i \in 1..Len(s.pages)
                     PROVE  /\ s.pages[i].cursor # None
                            /\ s.pages[i].cursor.height <= top'
                            /\ s.pages[i].results \subseteq Logs(c)'
                            /\ i > 1 => UpTo(c, s.pages[i].cursor)' \subseteq
                                 s.pages[i].results \cup UpTo(c, s.pages[i - 1].cursor)'
            BY DEF PagesFit
        <3>1. /\ s.pages[i].results \subseteq Logs(c)
              /\ i > 1 => UpTo(c, s.pages[i].cursor) \subseteq
                                 s.pages[i].results \cup UpTo(c, s.pages[i - 1].cursor)
            BY <1>7 DEF Backward, PagesFit
        <3>2. i > 1 => i - 1 \in 1..Len(s.pages)
            BY <1>3, LenProperties
        <3> QED BY <1>2, <2>1, <3>1, <3>2
    <2>3. s.walk # None => s.walk.height <= top' /\ UpTo(c, s.walk)' = UpTo(c, s.walk)
        BY <1>3, <1>4, <1>7 DEF Backward
    <2>4. s.pages # <<>> => 1 \in 1..Len(s.pages) /\ Len(s.pages) \in 1..Len(s.pages)
        BY <1>3, EmptySeq, LenProperties
    <2> QED BY <1>2, <1>7, <2>1, <2>2, <2>3, <2>4 DEF Backward
<1> QED BY <1>2, <1>5, <1>6, <1>7 DEF ContractInv, Working

\* The chain grows, or nothing changes.
LEMMA GrownStored ==
    ASSUME NothingInTheWay, TypeInv, TypeInv', StoredInv,
           (phase \in MinePhases /\ Mine) \/ UNCHANGED chainVars,
           UNCHANGED <<storeVars, passVars, syncVars, batches>>
    PROVE  StoredInv'
<1>1. /\ blocks' = blocks /\ events' = events /\ progress' = progress
      /\ checkpoint' = checkpoint /\ anchor' = anchor /\ handled' = handled
      /\ tip' = tip /\ phase' = phase /\ probing' = probing /\ ancestor' = ancestor
      /\ sync' = sync /\ queue' = queue /\ batches' = batches
      /\ FinalizedHeight' = FinalizedHeight /\ CheckpointHeight' = CheckpointHeight
      /\ top' = top \/ (phase \in MinePhases /\ (Quiet => phase = "idle"))
    BY DEF storeVars, passVars, syncVars, FinalizedHeight, CheckpointHeight, Quiet, chainVars
<1>2. /\ ForksRise /\ StoreInv /\ SavedCursors /\ PassInv /\ ResumeInv
      /\ ChainTypeOK /\ ChainTypeOK'
    BY Typed DEF StoredInv, TypeInv, TypeOK
<1>3. /\ top \in Nat /\ top' \in Nat /\ top <= top' /\ forks' = forks
      /\ \A h \in 1..top : chain'[h] = chain[h]
      /\ \A h \in (top + 1)..top' : chain'[h].fork = forks
      /\ \A c \in Contracts : Logs(c) \subseteq Logs(c)'
      /\ \A c \in Contracts : \A p \in Position : p.height <= top =>
           /\ UpTo(c, p)' = UpTo(c, p)
           /\ LogsPage(c, p).results' = LogsPage(c, p).results
      /\ \A h \in Int : h <= top => /\ \A c \in Contracts : DueOf(c, h)' = DueOf(c, h)
                                    /\ Due(h)' = Due(h)
    BY <1>2, AtLeastGrown
<1>4. /\ ForksRise' /\ StoreInv' /\ PassInv' /\ ResumeInv'
      /\ \A m \in 0..top : DifferAbove(m) => DifferAbove(m)'
    BY <1>2, GrownChain
<1>6. SavedCursors'
    <2> SUFFICES ASSUME Resuming, NEW c \in Contracts, progress[c] # None, progress[c].cursor # None
                 PROVE  /\ anchor # None /\ progress[c].cursor.height <= anchor.height
                        /\ Resumable(c, progress[c].cursor)'
        BY <1>1, <1>2 DEF SavedCursors
    <2>1. /\ anchor # None /\ progress[c].cursor.height <= anchor.height
          /\ Resumable(c, progress[c].cursor) /\ anchor.height <= top
        BY <1>2 DEF SavedCursors, ResumeInv
    <2>2. progress[c].cursor \in Position /\ progress[c].cursor.height <= top
        BY <1>3, <2>1, Typed, CursorHeights
    <2> QED BY <1>1, <1>3, <2>1, <2>2 DEF Resumable
<1>8. CASE phase \in Unverified
    <2>1. PICK m \in 0..top : CommonHeight(m)
        BY <1>8 DEF StoredInv
    <2>2. m \in 0..top' /\ m \in Nat /\ AgreeUpTo(m) /\ DifferAbove(m)
        BY <1>3, <2>1 DEF CommonHeight
    <2>3. AgreeUpTo(m)'
        <3>1. \A e \in events : e.height <= m => e \in Logs(e.contract)'
            BY <1>3, <2>2, Typed DEF AgreeUpTo, Event
        <3>2. \A h \in Heights : h <= m /\ blocks[h] # None => blocks[h] = chain'[h].fork
            <4>1. \A h \in Heights : h <= m => h \in 1..top
                BY <1>3, <2>1, Typed
            <4> QED BY <1>3, <2>2, <4>1 DEF AgreeUpTo
        <3>3. {e \in handled : e.height <= m} = Due(MinOf(CheckpointHeight, m))'
            <4>1. MinOf(CheckpointHeight, m) \in Int /\ MinOf(CheckpointHeight, m) <= top
                BY <1>3, <2>1, <2>2, Typed DEF MinOf
            <4>2. Due(MinOf(CheckpointHeight, m))' = Due(MinOf(CheckpointHeight, m))
                BY <1>1, <1>3, <4>1
            <4> QED BY <2>2, <4>2 DEF AgreeUpTo
        <3>4. ASSUME NEW c \in Contracts, progress[c] # None
              PROVE  DueOf(c, MinOf(progress[c].synced, MinOf(anchor.height, m)))' \subseteq events
            <4>1. anchor # None /\ progress[c].synced \in Nat /\ anchor.height \in Nat
                BY <1>2, <3>4, Typed DEF StoreInv, StoreInit
            <4>2. /\ MinOf(progress[c].synced, MinOf(anchor.height, m)) \in Int
                  /\ MinOf(progress[c].synced, MinOf(anchor.height, m)) <= top
                BY <1>3, <2>1, <2>2, <4>1 DEF MinOf
            <4>3. DueOf(c, MinOf(progress[c].synced, MinOf(anchor.height, m)))' =
                    DueOf(c, MinOf(progress[c].synced, MinOf(anchor.height, m)))
                BY <1>1, <1>3, <4>2
            <4> QED BY <2>2, <3>4, <4>3 DEF AgreeUpTo
        <3> QED BY <1>1, <2>2, <3>1, <3>2, <3>3, <3>4 DEF AgreeUpTo
    <2>4. DifferAbove(m)'
        BY <1>4, <2>2
    <2>5. CommonHeight(m)'
        BY <1>1, <2>1, <2>3, <2>4 DEF CommonHeight, SearchInv, KeptBelowTip
    <2> QED BY <1>1, <1>4, <1>6, <1>8, <2>2, <2>5 DEF StoredInv, Unverified
<1>9. CASE phase \notin Unverified
    <2>1. /\ Canonical /\ ProgressHolds /\ tip # None /\ tip.height \in Int
          /\ tip.height \in Nat /\ tip.height <= top
        BY <1>2, <1>9, Typed DEF StoredInv, PassInv, Unverified
    <2>2. Canonical'
        <3>1. \A h \in Heights : blocks[h] # None =>
                blocks[h] = CanonicalHash(h) /\ CanonicalHash(h)' = CanonicalHash(h)
            <4> SUFFICES ASSUME NEW h \in Heights, blocks[h] # None
                         PROVE blocks[h] = CanonicalHash(h) /\ CanonicalHash(h)' = CanonicalHash(h)
                OBVIOUS
            <4>1. blocks[h] = CanonicalHash(h) /\ h \in 1..top
                BY <2>1 DEF Canonical, CanonicalHash
            <4>2. h \in 1..top'
                BY <1>3, <4>1
            <4> QED BY <1>3, <4>1, <4>2 DEF CanonicalHash
        <3>2. CanonicalEvents \subseteq CanonicalEvents'
            BY <1>3 DEF CanonicalEvents
        <3>3. handled = Due(CheckpointHeight)'
            <4>1. Due(CheckpointHeight)' = Due(CheckpointHeight)
                BY <1>1, <1>3, <2>1, Typed DEF Canonical
            <4> QED BY <2>1, <4>1 DEF Canonical
        <3> QED BY <1>1, <2>1, <3>1, <3>2, <3>3 DEF Canonical
    <2>3. ProgressHolds'
        <3> SUFFICES ASSUME NEW c \in Contracts, progress[c] # None
                     PROVE  DueOf(c, MinOf(progress[c].synced, tip.height))' \subseteq events
            BY <1>1 DEF ProgressHolds
        <3>1. /\ MinOf(progress[c].synced, tip.height) \in Int
              /\ MinOf(progress[c].synced, tip.height) <= top
            BY <1>3, <2>1, Typed DEF MinOf
        <3>2. DueOf(c, MinOf(progress[c].synced, tip.height))' =
                DueOf(c, MinOf(progress[c].synced, tip.height))
            BY <1>1, <1>3, <3>1
        <3> QED BY <2>1, <3>2 DEF ProgressHolds
    <2>4. \A h \in Int : h <= tip.height => (StoredThrough(h) => StoredThrough(h)')
        BY <1>1, <1>3, <2>1 DEF StoredThrough
    <2>5. phase \in {"sync", "final", "last"} => SyncingInv'
        <3> SUFFICES ASSUME phase \in {"sync", "final", "last"} PROVE SyncingInv'
            OBVIOUS
        <3>1. SyncingInv
            BY DEF StoredInv
        <3>2. phase = "sync" => \A c \in Contracts : ContractInv(c, sync[c])'
            <4> SUFFICES ASSUME phase = "sync", NEW c \in Contracts
                         PROVE  ContractInv(c, sync[c])'
                OBVIOUS
            <4>1. ContractInv(c, sync[c]) /\ sync[c] \in SyncState /\ HoldsPages(sync[c])
                BY <3>1, Typed DEF SyncingInv, SyncTypeOK, TypeInv, PagesHeld
            <4> QED BY <1>1, <2>1, <4>1, ContractGrown
        <3>3. phase = "sync" =>
                \A i \in DOMAIN queue : StoredThrough(MinOf(queue[i], tip.height))'
            <4> SUFFICES ASSUME phase = "sync", NEW i \in DOMAIN queue
                         PROVE  StoredThrough(MinOf(queue[i], tip.height))'
                OBVIOUS
            <4>1. queue[i] \in Nat
                BY Typed DEF SyncTypeOK
            <4>2. /\ MinOf(queue[i], tip.height) \in Int
                  /\ MinOf(queue[i], tip.height) <= tip.height
                BY <2>1, <4>1 DEF MinOf
            <4>3. StoredThrough(MinOf(queue[i], tip.height))
                BY <3>1 DEF SyncingInv
            <4>4. MinOf(queue[i], tip.height)' = MinOf(queue[i], tip.height)
                BY <1>1
            <4> QED BY <2>4, <4>2, <4>3, <4>4
        <3>4. BatchesInv => BatchesInv'
            <4> SUFFICES ASSUME BatchesInv PROVE BatchesInv'
                OBVIOUS
            <4>1. PICK to \in 0..tip.height :
                 /\ StoredThrough(to)
                 /\ \A e \in batches.rows :
                      e \in events /\ CheckpointHeight < e.height /\ e.height <= to
                 /\ \A c \in Contracts : \A e \in DueOf(c, to) :
                      CheckpointHeight < e.height => e \in batches.rows
                BY DEF BatchesInv
            <4>2. to \in Int /\ to <= tip.height /\ to <= top
                BY <1>3, <2>1
            <4>3. StoredThrough(to)' /\ \A c \in Contracts : DueOf(c, to)' = DueOf(c, to)
                BY <1>3, <2>4, <4>1, <4>2
            <4> QED BY <1>1, <4>1, <4>3 DEF BatchesInv
        <3>5. StoredThrough(tip.height) => StoredThrough(tip.height)'
            BY <1>1, <2>1, <2>4
        <3> QED BY <1>1, <3>1, <3>2, <3>3, <3>4, <3>5 DEF SyncingInv
    <2>6. phase = "setAnchor" => ProgressBelowTip'
        BY <1>1 DEF StoredInv, ProgressBelowTip
    <2> QED BY <1>1, <1>4, <1>6, <1>9, <2>2, <2>3, <2>5, <2>6 DEF StoredInv, Unverified
<1> QED BY <1>8, <1>9

\* A reorg between two passes lowers the common height to the fork point: what
\* is stored above it is older than every block of the new fork.
LEMMA ReorgStored ==
    ASSUME NothingInTheWay, TypeInv, TypeInv', StoredInv, phase \in ReorgPhases, Reorg,
           UNCHANGED <<storeVars, passVars, syncVars, batches>>,
           ReorgsAreShallow => Deep(FinalizedHeight)
    PROVE  StoredInv'
<1>1. /\ blocks' = blocks /\ events' = events /\ progress' = progress
      /\ checkpoint' = checkpoint /\ anchor' = anchor /\ handled' = handled
      /\ tip' = tip /\ phase' = phase /\ probing' = probing /\ ancestor' = ancestor
      /\ sync' = sync /\ queue' = queue /\ batches' = batches
      /\ FinalizedHeight' = FinalizedHeight /\ CheckpointHeight' = CheckpointHeight
      /\ phase = "idle" /\ ~Resuming
    BY DEF storeVars, passVars, syncVars, FinalizedHeight, CheckpointHeight, Quiet, Resuming,
       NothingInTheWay, ReorgsBetweenPasses
<1>2. /\ ForksRise /\ StoreInv /\ SavedCursors /\ PassInv
      /\ ChainTypeOK /\ ChainTypeOK' /\ top \in Nat /\ top \in Heights /\ forks \in Nat
    BY Typed DEF StoredInv, TypeInv, TypeOK
<1>3. PICK m \in 0..top : CommonHeight(m)
    BY <1>1 DEF StoredInv, Unverified
<1>4. m \in Nat /\ AgreeUpTo(m) /\ DifferAbove(m) /\ (ReorgsAreShallow => FinalizedHeight <= m)
    BY <1>3, Typed DEF CommonHeight
<1>5. /\ ForksRise' /\ StoreInv' /\ PassInv'
      /\ \E n \in 0..top' :
           /\ n <= m /\ n <= top /\ \A h \in 1..n : chain'[h] = chain[h]
           /\ DifferAbove(n)'
           /\ ReorgsAreShallow => FinalizedHeight <= n
    BY <1>2, <1>4, ReorgedChain DEF NothingInTheWay
<1>6. PICK n \in 0..top' :
           /\ n <= m /\ n <= top /\ \A h \in 1..n : chain'[h] = chain[h]
           /\ DifferAbove(n)'
           /\ ReorgsAreShallow => FinalizedHeight <= n
    BY <1>5
<1>7. n \in Nat /\ n <= top'
    BY <1>6, Typed DEF TypeInv, TypeOK, ChainTypeOK
<1>8. SavedCursors'
    BY <1>1, <1>2 DEF SavedCursors
<1>9. /\ \A c \in Contracts : \A e : e.height <= n => (e \in Logs(c)' <=> e \in Logs(c))
      /\ \A h \in Int : h <= n => \A c \in Contracts : DueOf(c, h)' = DueOf(c, h)
      /\ \A h \in Int : h <= n => Due(h)' = Due(h)
    BY <1>2, <1>6, <1>7, SamePrefix
<1>10. AgreeUpTo(n)'
    <2>1. \A e \in events : e.height <= n => e \in Logs(e.contract)'
        <3>1. \A e \in events : e.height \in Nat /\ e.contract \in Contracts
            BY Typed DEF Event
        <3> QED BY <1>4, <1>6, <1>7, <1>9, <3>1 DEF AgreeUpTo
    <2>2. \A h \in Heights : h <= n /\ blocks[h] # None => blocks[h] = chain'[h].fork
        <3>1. \A h \in Heights : h <= n => h \in 1..n /\ h <= m
            BY <1>4, <1>6, <1>7, Typed
        <3> QED BY <1>4, <1>6, <3>1 DEF AgreeUpTo
    <2>3. {e \in handled : e.height <= n} = Due(MinOf(CheckpointHeight, n))'
        <3>1. MinOf(CheckpointHeight, n) \in Int /\ MinOf(CheckpointHeight, n) <= n
            BY <1>6, <1>7, Typed DEF MinOf
        <3>2. Due(MinOf(CheckpointHeight, n))' = Due(MinOf(CheckpointHeight, n))
            BY <1>1, <1>9, <3>1
        <3>3. {e \in handled : e.height <= m} = Due(MinOf(CheckpointHeight, m))
            BY <1>4 DEF AgreeUpTo
        <3>4. \A e \in handled : e.height \in Nat /\ e.height <= CheckpointHeight
            BY <1>4, Typed DEF AgreeUpTo
        <3>5. \A e \in Due(MinOf(CheckpointHeight, n)) : e.height \in Nat
            BY <1>2, DueIs, WantedAre DEF DueOf
        <3>6. ASSUME NEW e \in handled, e.height <= n PROVE e \in Due(MinOf(CheckpointHeight, n))
            <4>1. e \in Due(MinOf(CheckpointHeight, m)) /\ e.height \in Nat
                BY <1>6, <1>7, <3>3, <3>4, <3>6
            <4> QED BY <3>4, <3>6, <4>1 DEF Due, MinOf
        <3>7. ASSUME NEW e \in Due(MinOf(CheckpointHeight, n)) PROVE e \in handled /\ e.height <= n
            <4>1. e.height \in Nat /\ e.height <= MinOf(CheckpointHeight, n)
                BY <3>5 DEF Due
            <4>2. e.height <= n /\ e.height <= MinOf(CheckpointHeight, m)
                BY <1>6, <1>7, <4>1, Typed DEF MinOf
            <4>3. e \in Due(MinOf(CheckpointHeight, m))
                BY <4>2 DEF Due
            <4> QED BY <3>3, <4>2, <4>3
        <3>8. {e \in handled : e.height <= n} = Due(MinOf(CheckpointHeight, n))
            BY <3>6, <3>7
        <3> QED BY <3>2, <3>8
    <2>4. ASSUME NEW c \in Contracts, progress[c] # None
          PROVE  DueOf(c, MinOf(progress[c].synced, MinOf(anchor.height, n)))' \subseteq events
        <3>1. anchor # None /\ progress[c].synced \in Nat /\ anchor.height \in Nat
            BY <1>2, <2>4, Typed DEF StoreInv, StoreInit
        <3>2. /\ MinOf(progress[c].synced, MinOf(anchor.height, n)) \in Int
              /\ MinOf(progress[c].synced, MinOf(anchor.height, m)) \in Int
              /\ MinOf(progress[c].synced, MinOf(anchor.height, n)) <= n
              /\ MinOf(progress[c].synced, MinOf(anchor.height, n)) <=
                   MinOf(progress[c].synced, MinOf(anchor.height, m))
            BY <1>6, <1>7, <3>1 DEF MinOf
        <3>3. DueOf(c, MinOf(progress[c].synced, MinOf(anchor.height, n)))' =
                DueOf(c, MinOf(progress[c].synced, MinOf(anchor.height, n)))
            BY <1>1, <1>9, <3>2
        <3>4. DueOf(c, MinOf(progress[c].synced, MinOf(anchor.height, m))) \subseteq events
            BY <1>4, <2>4 DEF AgreeUpTo
        <3> QED BY <1>2, <3>2, <3>3, <3>4, DueMonotone
    <2>5. \A e \in handled : e.height <= CheckpointHeight
        BY <1>4 DEF AgreeUpTo
    <2> QED BY <1>1, <2>1, <2>2, <2>3, <2>4, <2>5 DEF AgreeUpTo
<1>11. CommonHeight(n)'
    BY <1>1, <1>6, <1>10 DEF CommonHeight, KeptBelowTip
<1>12. ResumeInv'
    BY <1>1 DEF ResumeInv
<1> QED BY <1>1, <1>5, <1>8, <1>11, <1>12 DEF StoredInv, Unverified

LEMMA ChainStored ==
    ASSUME NothingInTheWay, TypeInv, TypeInv', StoredInv, ChainStep \/ UNCHANGED vars,
           ReorgsAreShallow => Deep(FinalizedHeight)
    PROVE  StoredInv'
<1>1. \/ /\ (phase \in MinePhases /\ Mine) \/ UNCHANGED chainVars
         /\ UNCHANGED <<storeVars, passVars, syncVars, batches>>
      \/ /\ phase \in ReorgPhases /\ Reorg
         /\ UNCHANGED <<storeVars, passVars, syncVars, batches>>
    BY DEF ChainStep, vars
<1> QED BY <1>1, GrownStored, ReorgStored

-----------------------------------------------------------------------------
(* Every reachable state. *)

LEMMA StoredInit ==
    ASSUME Init, TypeInv
    PROVE  StoredInv
<1>1. /\ top = 1 /\ forks = 0 /\ chain[1].fork = 0 /\ StoreInit
      /\ phase = "idle" /\ tip = None /\ queue = <<>> /\ batches = None
      /\ sync = [c \in Contracts |-> FreshState(c)]
    <2>1. 1 \in Heights
        BY ChainAssumption DEF Heights
    <2> QED BY <2>1 DEF Init, ChainInit, PassInit, SyncInit, IndexInit
<1>2. /\ CheckpointHeight = 0 /\ FinalizedHeight = 0 /\ anchor = None /\ events = {}
      /\ handled = {}
      /\ \A h \in Heights : blocks[h] = None
      /\ \A c \in Contracts : progress[c] = None
    BY <1>1 DEF StoreInit, CheckpointHeight, FinalizedHeight
<1>3. ForksRise
    BY <1>1 DEF ForksRise
<1>4. StoreInv
    BY <1>1, <1>2 DEF StoreInv
<1>5. SavedCursors
    BY <1>2 DEF SavedCursors
<1>6. PassInv
    BY <1>1, <1>2 DEF PassInv
<1>7. Due(MinOf(CheckpointHeight, 1)) = {}
    <2>1. \A e \in CanonicalEvents : e.height \in Nat /\ e.height >= 1
        BY Typed, WantedAre DEF CanonicalEvents
    <2> QED BY <1>2, <2>1 DEF Due, MinOf
<1>8. CommonHeight(1)
    BY <1>1, <1>2, <1>7 DEF CommonHeight, AgreeUpTo, DifferAbove, KeptBelowTip
<1>9. ResumeInv
    BY <1>1, <1>2 DEF ResumeInv
<1> QED BY <1>1, <1>3, <1>4, <1>5, <1>6, <1>8, <1>9 DEF StoredInv, Unverified

LEMMA StoredStep ==
    ASSUME NothingInTheWay, TypeInv, TypeInv', StoredInv, [Next]_vars,
           ReorgsAreShallow => Deep(FinalizedHeight)
    PROVE  StoredInv'
BY ReconcileStored, ProducerStored, ConsumerStored, ResetStored, ChainStored DEF Next

\* What is stored is right, and what is missing is accounted for, in every
\* state of every run: between passes up to a common height with the canonical
\* chain, during a pass contract by contract.
THEOREM StoredInvariant ==
    ASSUME NothingInTheWay
    PROVE  Spec => [](TypeInv /\ StoredInv)
<1>1. Spec => []TypeInv
    BY TypeCorrect DEF TypeInv
<1>2. Init /\ TypeInv => StoredInv
    BY StoredInit
<1>3. CASE ReorgsAreShallow
    <2>1. Spec => []FinalityInv
        BY <1>3, FinalityInvariant, PTL
    <2>2. FinalityInv => Deep(FinalizedHeight)
        BY DEF FinalityInv, MayBeFinal
    <2>3. TypeInv /\ TypeInv' /\ FinalityInv /\ StoredInv /\ [Next]_vars => StoredInv'
        BY <2>2, StoredStep
    <2> QED BY <1>1, <1>2, <2>1, <2>3, PTL DEF Spec
<1>4. CASE ~ReorgsAreShallow
    <2>1. TypeInv /\ TypeInv' /\ StoredInv /\ [Next]_vars => StoredInv'
        BY <1>4, StoredStep
    <2> QED BY <1>1, <1>2, <2>1, PTL DEF Spec
<1> QED BY <1>3, <1>4

\* What a pass that reconciled knows of its tip.
LEMMA VerifiedFacts ==
    ASSUME TypeInv, StoredInv, Reconciled
    PROVE  /\ Canonical /\ ProgressHolds /\ tip # None /\ tip.height \in Nat
           /\ IndexingCap = tip.height
<1>1. Canonical /\ ProgressHolds /\ tip # None
    BY DEF StoredInv, PassInv, Reconciled, Unverified
<1> QED BY <1>1, Typed DEF IndexingCap

LEMMA SyncedRowsAreStored == TypeInv /\ StoredInv => SyncedMeansStored
<1> SUFFICES ASSUME TypeInv, StoredInv, Reconciled,
                    NEW c \in Contracts, progress[c] # None,
                    NEW e \in Logs(c), e \in Due(MinOf(progress[c].synced, IndexingCap))
             PROVE  e \in events
    BY DEF SyncedMeansStored
<1>1. e \in DueOf(c, MinOf(progress[c].synced, tip.height))
    BY VerifiedFacts, Typed, WantedAre DEF Due, DueOf
<1> QED BY <1>1, VerifiedFacts DEF ProgressHolds

LEMMA QueueIsStored == TypeInv /\ StoredInv => OfferedHeightsAreStored
<1> SUFFICES ASSUME TypeInv, StoredInv, NEW i \in DOMAIN queue
             PROVE  Due(MinOf(queue[i], IndexingCap)) \subseteq events
    BY DEF OfferedHeightsAreStored
<1>1. phase = "sync"
    <2>1. DOMAIN <<>> = {}
        OBVIOUS
    <2> QED BY <2>1 DEF StoredInv, PassInv, SyncingInv
<1>2. StoredThrough(MinOf(queue[i], tip.height))
    BY <1>1 DEF StoredInv, SyncingInv
<1> QED BY <1>1, <1>2, VerifiedFacts, Typed, DueIs DEF Reconciled

LEMMA TipIsStored == TypeInv /\ StoredInv => StoredThroughTip
BY Typed, DueIs DEF StoredInv, SyncingInv, StoredThroughTip

LEMMA CheckpointIsHandled == StoredInv => HandledThroughCheckpoint
BY DEF StoredInv, HandledThroughCheckpoint, Reconciled, Unverified, Canonical

\* syncedBlockHeight never promises more than is stored: every event of the
\* contract at or below it, whatever pages, catch-ups and restarts led to it.
THEOREM SyncedIsStored ==
    ASSUME NothingInTheWay
    PROVE  Spec => []SyncedMeansStored
BY SyncedRowsAreStored, StoredInvariant, PTL

\* A safe height still holds when the consumer takes it from the stream: every
\* event up to it and the tip is stored, those of finished contracts too.
THEOREM OfferedStaysStored ==
    ASSUME NothingInTheWay
    PROVE  Spec => []OfferedHeightsAreStored
BY QueueIsStored, StoredInvariant, PTL

\* Once the sync of a pass ended, every event up to its tip is stored.
THEOREM StoredToTheTip ==
    ASSUME NothingInTheWay
    PROVE  Spec => []StoredThroughTip
BY TipIsStored, StoredInvariant, PTL

\* The handlers ran for exactly the canonical events up to the checkpoint: none
\* was skipped, and none handled on an orphaned fork stands.
THEOREM HandledToTheCheckpoint ==
    ASSUME NothingInTheWay
    PROVE  Spec => []HandledThroughCheckpoint
BY CheckpointIsHandled, StoredInvariant, PTL

\* Every page at hand answers for canonical transactions: while no reorg
\* happens during a pass, no transaction batch lacks one of them and fails it.
THEOREM PagesStayFetchable ==
    ASSUME NothingInTheWay
    PROVE  Spec => [](phase = "sync" => \A c \in Contracts : HasPage(c) => Fetchable(c))
<1>1. TypeInv /\ StoredInv =>
        (phase = "sync" => \A c \in Contracts : HasPage(c) => Fetchable(c))
    BY PagesAreFetchable
<1> QED BY <1>1, StoredInvariant, PTL

-----------------------------------------------------------------------------
(* The projection promised to the handlers. *)

\* The chain of the projection is the chain of the indexer.
LEMMA ProjectedChain ==
    /\ \A h : Promised!Due(h) = Due(h)
    /\ Promised!ChainInit <=> ChainInit
    /\ Promised!Mine <=> Mine
    /\ Promised!Reorg <=> Reorg
<1>1. \A c : Promised!Logs(c) = Logs(c)
    BY DEF Promised!Logs, Logs
<1>2. \A h : Promised!Due(h) = Due(h)
    BY <1>1 DEF Promised!Due, Due, CanonicalEvents
<1>3. Promised!ChainInit <=> ChainInit
    BY DEF Promised!ChainInit, ChainInit, Promised!Heights, Heights
<1>4. Promised!Mine <=> Mine
    BY DEF Promised!Mine, Mine, Promised!MaxOf, MaxOf
<1>5. Promised!Reorg <=> Reorg
    BY DEF Promised!Reorg, Reorg, Promised!Heights, Heights
<1> QED BY <1>2, <1>3, <1>4, <1>5

\* A rewind cuts the projection back.
LEMMA RewindProjected ==
    ASSUME TypeInv, TypeInv', StoredInv, StoredInv', UNCHANGED chainVars,
           NEW height \in Nat, RewindTo(height), phase' = "setAnchor"
    PROVE  Promised!Cut
<1>1. handled' = Due(CheckpointHeight') /\ FinalizedHeight' <= CheckpointHeight'
    BY LogsUnmoved DEF StoredInv, Unverified, Canonical, StoreInv
<1>2. /\ FinalizedHeight' = FinalizedHeight
      /\ CheckpointHeight' <= CheckpointHeight /\ CheckpointHeight' <= height
      /\ CheckpointHeight' \in Nat /\ CheckpointHeight \in Nat /\ FinalizedHeight \in Nat
      /\ handled' = {e \in handled : e.height <= height}
    BY RewindMoves, Typed
<1>3. handled' = {e \in handled : e.height <= CheckpointHeight'}
    <2>1. \A e \in handled' : e.height <= CheckpointHeight'
        BY <1>1 DEF Due
    <2>2. \A e \in handled : e.height \in Nat
        BY Typed
    <2> QED BY <1>2, <2>1, <2>2
<1>4. CheckpointHeight' \in FinalizedHeight..CheckpointHeight
    BY <1>1, <1>2
<1> QED BY <1>1, <1>2, <1>3, <1>4, ProjectedChain
        DEF Promised!Cut, Promised!chainVars, chainVars

\* The reconciliation of a pass cuts the projection back or leaves it alone.
LEMMA ReconcileProjected ==
    ASSUME TypeInv, TypeInv', StoredInv, StoredInv', ReconcileStep
    PROVE  Promised!Cut \/ UNCHANGED <<chainVars, handled, CheckpointHeight, FinalizedHeight>>
<1>1. UNCHANGED chainVars
    BY DEF ReconcileStep
<1>2. CASE ReadChainTip \/ NothingToReplay \/ AnchorOrphaned \/ Probe \/ FailWithReorgError
           \/ SetSyncAnchor
    BY <1>1, <1>2 DEF ReadChainTip, NothingToReplay, AnchorOrphaned, Probe, FailWithReorgError,
       SetSyncAnchor, storeVars, FinalizedHeight, CheckpointHeight
<1>3. CASE ReplayUnfinalized \/ AnchorCanonical \/ RewindToAncestor
    <2>1. PICK height \in Nat : RewindTo(height)
        <3>1. CASE ReplayUnfinalized
            BY <3>1, Typed DEF ReplayUnfinalized
        <3>2. CASE AnchorCanonical
            BY <3>2, Typed DEF AnchorCanonical
        <3>3. CASE RewindToAncestor
            <4>1. (IF ancestor = None THEN FinalizedHeight ELSE ancestor) \in Nat
                BY Typed DEF PassTypeOK
            <4> QED BY <3>3, <4>1 DEF RewindToAncestor
        <3> QED BY <1>3, <3>1, <3>2, <3>3
    <2>2. phase' = "setAnchor"
        BY <1>3 DEF ReplayUnfinalized, AnchorCanonical, RewindToAncestor
    <2> QED BY <1>1, <2>1, <2>2, RewindProjected
<1> QED BY <1>2, <1>3 DEF ReconcileStep

\* A call of the consumer may confirm blocks; it leaves the checkpoint alone.
LEMMA CallMoves ==
    ASSUME TypeInv, NEW to, IndexEventsUpTo(to, TipHeight)
    PROVE  FinalizedHeight <= FinalizedHeight' /\ CheckpointHeight' = CheckpointHeight
<1>1. CheckpointHeight \in Nat /\ FinalizedHeight \in Nat
    BY Typed
<1>2. /\ CheckpointHeight' = CheckpointHeight
      /\ FinalizedHeight' \in {FinalizedHeight, MaxOf(CheckpointHeight, FinalizedHeight)}
    BY CallIs
<1> QED BY <1>1, <1>2 DEF MaxOf

\* A batch moves the checkpoint up, and the finalized marker never down.
LEMMA BatchMoves ==
    ASSUME TypeInv, StoredInv, IndexBatch
    PROVE  FinalizedHeight <= FinalizedHeight' /\ CheckpointHeight <= CheckpointHeight'
<1>1. batches # None /\ batches \in Indexing
    BY Typed DEF IndexBatch, IndexTypeOK
<1>2. BatchesInv
    BY <1>1 DEF StoredInv, PassInv, SyncingInv
<1>3. /\ \A e \in batches.rows : CheckpointHeight < e.height /\ e.height \in Nat
      /\ batches.finalized \in FinalizedHeight..CheckpointHeight
      /\ CheckpointHeight \in Nat /\ FinalizedHeight \in Nat
    BY <1>2, Typed DEF BatchesInv
<1>4. PICK h \in {e.height : e \in batches.rows} :
        \E f \in Nat : /\ h \in Nat /\ batches.finalized <= f
                      /\ CheckpointHeight' = h /\ FinalizedHeight' = f
    BY BatchIs
<1> QED BY <1>3, <1>4

\* The consumer extends the projection, confirms a part of it or leaves it alone.
LEMMA ConsumerProjected ==
    ASSUME TypeInv, TypeInv', StoredInv, StoredInv', ConsumerStep
    PROVE  Promised!Extend \/ Promised!Confirm
<1>1. UNCHANGED chainVars
    BY DEF ConsumerStep
<1>2. phase \in {"sync", "final", "last"} /\ phase' \in {"sync", "final", "last"}
    <2>1. batches # None => phase \in {"sync", "last"}
        BY DEF StoredInv, PassInv, SyncingInv, BatchesInv
    <2> QED BY <2>1 DEF ConsumerStep, IndexSafeHeight, IndexBatch, RaiseToTip, IndexRemaining,
               passVars, UpsertCheckpoint
<1>3. FinalizedHeight <= FinalizedHeight' /\ CheckpointHeight <= CheckpointHeight'
    <2>1. StoreInv /\ tip # None /\ IndexingCap \in Int /\ IndexingCap \in Nat
          /\ CheckpointHeight \in Nat /\ FinalizedHeight \in Nat
        BY <1>2, IndexFacts, Typed
    <2>2. CASE IndexSafeHeight
        <3>1. queue \in Seq(Nat) /\ queue # <<>>
            BY <2>2, Typed DEF IndexSafeHeight, SyncTypeOK
        <3>2. Head(queue) \in Nat
            BY <3>1, HeadTailProperties
        <3>3. MinOf(Head(queue), IndexingCap) \in Int
            BY <2>1, <3>2 DEF MinOf
        <3> QED BY <2>1, <2>2, <3>3, CallMoves DEF IndexSafeHeight
    <2>3. CASE IndexBatch
        BY <2>3, BatchMoves
    <2>4. CASE RaiseToTip
        BY <2>1, <2>4 DEF RaiseToTip, FinalizedHeight, CheckpointHeight
    <2>5. CASE IndexRemaining
        BY <2>1, <2>5, CallMoves DEF IndexRemaining
    <2> QED BY <2>2, <2>3, <2>4, <2>5 DEF ConsumerStep
<1>4. handled = Due(CheckpointHeight) /\ handled' = Due(CheckpointHeight')
    BY <1>1, <1>2, LogsUnmoved DEF StoredInv, Unverified, Canonical
<1>5. /\ CheckpointHeight \in Nat /\ FinalizedHeight \in Nat
      /\ CheckpointHeight' \in Nat /\ FinalizedHeight' \in Nat
      /\ FinalizedHeight' <= CheckpointHeight'
    <2>1. CheckpointHeight' \in Nat /\ FinalizedHeight' \in Nat
        BY DEF TypeInv, TypeOK, StoreTypeOK, Checkpoint, CheckpointHeight, FinalizedHeight
    <2> QED BY <2>1, Typed DEF StoredInv, StoreInv
<1>6. FinalizedHeight' \in FinalizedHeight..CheckpointHeight'
    BY <1>3, <1>5
<1>7. CASE CheckpointHeight' = CheckpointHeight
    BY <1>1, <1>4, <1>6, <1>7, ProjectedChain DEF Promised!Confirm, Promised!chainVars, chainVars
<1>8. CASE CheckpointHeight' > CheckpointHeight
    BY <1>1, <1>4, <1>6, <1>8, ProjectedChain DEF Promised!Extend, Promised!chainVars, chainVars
<1> QED BY <1>3, <1>5, <1>7, <1>8

LEMMA OtherProjected ==
    ASSUME ProducerStep \/ EndStep \/ StopStep \/ ChainStep \/ UNCHANGED vars
    PROVE  \/ Promised!ChainMoves
           \/ UNCHANGED <<chainVars, handled, CheckpointHeight, FinalizedHeight>>
<1>1. UNCHANGED <<handled, checkpoint>>
    BY DEF ProducerStep, SyncStep, InitFromScratch, InitFromSaved, WalkPage,
       StartCatchUp, FetchBackfillPage, StorePage, SaveBackfillPage, SaveCatchUpPage,
       EndStep, EndPass, StopStep, Stop, Reset, ChainStep, vars, storeVars
<1>2. FinalizedHeight' = FinalizedHeight /\ CheckpointHeight' = CheckpointHeight
    BY <1>1 DEF FinalizedHeight, CheckpointHeight
<1>3. (Mine \/ Reorg) \/ UNCHANGED chainVars
    BY DEF ProducerStep, EndStep, StopStep, ChainStep, vars
<1> QED BY <1>1, <1>2, <1>3, ProjectedChain DEF Promised!ChainMoves

LEMMA StepProjected ==
    ASSUME TypeInv, TypeInv', StoredInv, StoredInv', [Next]_vars
    PROVE  \/ Promised!Next
           \/ UNCHANGED <<chainVars, handled, CheckpointHeight, FinalizedHeight>>
BY ReconcileProjected, ConsumerProjected, OtherProjected DEF Next, Promised!Next

LEMMA InitProjected == Init => Promised!Init
BY ProjectedChain DEF Init, StoreInit, CheckpointHeight, FinalizedHeight, Promised!Init

\* Every step of a pass keeps what was promised to the handlers: their writes
\* are the projection of the canonical chain through the checkpoint, extended
\* by whole blocks, confirmed, or cut back to a canonical block, never below
\* the finalized one.
THEOREM KeepsProjection ==
    ASSUME NothingInTheWay
    PROVE  Spec => ImplementsProjection
<1>1. Init => Promised!Init
    BY InitProjected
<1>2. /\ TypeInv /\ TypeInv' /\ StoredInv /\ StoredInv' /\ [Next]_vars
      => [Promised!Next]_<<Promised!chainVars, handled, CheckpointHeight, FinalizedHeight>>
    BY StepProjected DEF Promised!chainVars, chainVars
<1> QED BY <1>1, <1>2, StoredInvariant, PTL DEF Spec, ImplementsProjection, Promised!Spec

=============================================================================

----------------------------- MODULE Reconcile -----------------------------
(***************************************************************************)
(* The start of a pass (runtime/reorg.ts and the head of syncAndIndexTo in *)
(* runtime/historical.ts): the chain tip is read, the stored chain is made *)
(* consistent with the canonical one, and the tip becomes the new anchor.  *)
(* Each request to the API is a step of its own: the chain may move        *)
(* between two of them.                                                    *)
(***************************************************************************)
EXTENDS SyncStore

CONSTANT TipReads   \* what the status request may answer: a subset of
                    \* {"full", "noHash", "none"}

ASSUME TipReadsAssumption == TipReads \subseteq {"full", "noHash", "none"}

VARIABLES
    phase,      \* where the pass stands
    tip,        \* the chain tip this pass is anchored at
    probing,    \* binary search: the stored heights low..high still span
    ancestor    \* binary search: the highest height found canonical

passVars == <<phase, tip, probing, ancestor>>

\* "plan" and "trusted" are only entered by the passes of live indexing.
Phases == {"idle", "plan", "trusted", "reconcile", "search", "setAnchor",
           "sync", "final", "last", "reorgError"}

Tip == [height: Heights, hash: Forks \cup {None}]

ASSUME TipAssumption == None \notin Tip

PassTypeOK ==
    /\ phase \in Phases
    /\ tip \in Tip \cup {None}
    /\ probing \subseteq Heights
    /\ ancestor \in Heights \cup {None}

PassInit ==
    /\ phase = "idle"
    /\ tip = None
    /\ probing = {}
    /\ ancestor = None

-----------------------------------------------------------------------------

\* readChainTip. A failed request leaves the tip undefined; a payload may lack
\* the hash.
ReadChainTip ==
    /\ phase = "idle"
    /\ \E read \in TipReads :
         tip' = CASE read = "full"   -> [height |-> top, hash |-> chain[top].fork]
                  [] read = "noHash" -> [height |-> top, hash |-> None]
                  [] read = "none"   -> None
    /\ phase' = "reconcile"
    /\ UNCHANGED <<probing, ancestor>>
    /\ UNCHANGED storeVars

\* No anchor, nothing indexed above the finalized block: nothing to replay.
NothingToReplay ==
    /\ phase = "reconcile"
    /\ anchor = None
    /\ CheckpointHeight <= FinalizedHeight
    /\ phase' = "setAnchor"
    /\ UNCHANGED <<tip, probing, ancestor>>
    /\ UNCHANGED storeVars

\* No anchor: the unfinalized indexed range is replayed.
ReplayUnfinalized ==
    /\ phase = "reconcile"
    /\ anchor = None
    /\ CheckpointHeight > FinalizedHeight
    /\ RewindTo(FinalizedHeight)
    /\ phase' = "setAnchor"
    /\ UNCHANGED <<tip, probing, ancestor>>

\* The anchor is canonical: only data fetched above it is dropped.
AnchorCanonical ==
    /\ phase = "reconcile"
    /\ anchor # None
    /\ CanonicalHash(anchor.height) = anchor.hash
    /\ RewindTo(anchor.height)
    /\ phase' = "setAnchor"
    /\ UNCHANGED <<tip, probing, ancestor>>

\* Mutant of AnchorOrphaned: the finalized block is left out of the search.
SearchAboveFinalized ==
    /\ phase = "reconcile"
    /\ anchor # None
    /\ CanonicalHash(anchor.height) # anchor.hash
    /\ probing' = StoredBlocks(FinalizedHeight + 1, anchor.height)
    /\ ancestor' = None
    /\ phase' = "search"
    /\ UNCHANGED tip
    /\ UNCHANGED storeVars

\* The anchor is orphaned: getStoredBlocks reads the heights to search.
AnchorOrphaned ==
    /\ phase = "reconcile"
    /\ anchor # None
    /\ CanonicalHash(anchor.height) # anchor.hash
    /\ probing' = StoredBlocks(FinalizedHeight, anchor.height)
    /\ ancestor' = None
    /\ phase' = "search"
    /\ UNCHANGED tip
    /\ UNCHANGED storeVars

\* The middle of blocks[low..high] in ascending order of height.
IsMiddle(h, S) ==
    Cardinality({x \in S : x < h}) = (Cardinality(S) - 1) \div 2

\* One round of the binary search: one canonical-hash request.
Probe ==
    /\ phase = "search"
    /\ \E middle \in probing :
         /\ IsMiddle(middle, probing)
         /\ IF CanonicalHash(middle) = blocks[middle]
            THEN /\ ancestor' = middle
                 /\ probing' = {h \in probing : h > middle}
            ELSE /\ probing' = {h \in probing : h < middle}
                 /\ UNCHANGED ancestor
    /\ UNCHANGED <<phase, tip>>
    /\ UNCHANGED storeVars

\* Mutant of FinalizedReplaced: a replaced finalized block goes unnoticed.
NeverReplaced == FALSE

\* No stored block is canonical, the finalized one included.
FinalizedReplaced ==
    /\ ancestor = None
    /\ FinalizedHeight \in 1..anchor.height
    /\ blocks[FinalizedHeight] # None

\* The run fails with a ReorgError and nothing is discarded.
FailWithReorgError ==
    /\ phase = "search"
    /\ probing = {}
    /\ FinalizedReplaced
    /\ phase' = "reorgError"
    /\ UNCHANGED <<tip, probing, ancestor>>
    /\ UNCHANGED storeVars

\* Mutant of RewindToAncestor: the ancestor itself is replayed.
RewindBelowAncestor ==
    /\ phase = "search"
    /\ probing = {}
    /\ ~FinalizedReplaced
    /\ RewindTo(IF ancestor = None THEN FinalizedHeight ELSE ancestor - 1)
    /\ phase' = "setAnchor"
    /\ ancestor' = None
    /\ UNCHANGED <<tip, probing>>

\* Mutant of RewindToAncestor: the search's last miss is kept.
RewindAboveAncestor ==
    /\ phase = "search"
    /\ probing = {}
    /\ ~FinalizedReplaced
    /\ RewindTo(IF ancestor = None THEN FinalizedHeight ELSE ancestor + 1)
    /\ phase' = "setAnchor"
    /\ ancestor' = None
    /\ UNCHANGED <<tip, probing>>

RewindToAncestor ==
    /\ phase = "search"
    /\ probing = {}
    /\ ~FinalizedReplaced
    /\ RewindTo(IF ancestor = None THEN FinalizedHeight ELSE ancestor)
    /\ phase' = "setAnchor"
    /\ ancestor' = None
    /\ UNCHANGED <<tip, probing>>

\* setSyncAnchor: a tip without a hash cannot anchor the next pass.
SetSyncAnchor ==
    /\ phase = "setAnchor"
    /\ anchor' = IF tip # None /\ tip.hash # None THEN tip ELSE None
    /\ phase' = "sync"
    /\ UNCHANGED <<tip, probing, ancestor>>
    /\ UNCHANGED <<blocks, events, progress, checkpoint, handled>>

=============================================================================

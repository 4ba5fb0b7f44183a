----------------------------- MODULE Projection -----------------------------
(***************************************************************************)
(* What the indexer promises its handlers: their writes are a projection   *)
(* of the canonical chain through a height.  A step extends the projection *)
(* by whole blocks, completely and from the canonical chain only, or cuts  *)
(* it back, never below the finalized height; it is never extended while a *)
(* part of it is orphaned.                                                 *)
(***************************************************************************)
EXTENDS Chain

CONSTANT InRange(_, _)  \* is a block in the range indexed for a contract

VARIABLES
    handled,    \* the events whose handler writes stand
    height,     \* the height the projection covers
    finalized   \* the height no replay goes below

Due(h) ==
    {e \in UNION {Logs(c) : c \in Contracts} :
        InRange(e.contract, e.height) /\ e.height <= h}

Init ==
    /\ ChainInit
    /\ handled = {}
    /\ height = 0
    /\ finalized = 0

\* The handlers run on every event of the blocks up to a higher one.
Extend ==
    /\ handled = Due(height)
    /\ height' > height
    /\ handled' = Due(height')
    /\ finalized' \in finalized..height'
    /\ UNCHANGED chainVars

\* The covered blocks may become final without a new event.
Confirm ==
    /\ handled = Due(height)
    /\ finalized' \in finalized..height
    /\ UNCHANGED <<chainVars, handled, height>>

\* A reorg (or an unknown past) is undone by cutting back to a height whose
\* blocks are canonical.
Cut ==
    /\ height' \in finalized..height
    /\ handled' = {e \in handled : e.height <= height'}
    /\ handled' = Due(height')
    /\ UNCHANGED <<chainVars, finalized>>

ChainMoves ==
    /\ Mine \/ Reorg
    /\ UNCHANGED <<handled, height, finalized>>

Next == Extend \/ Confirm \/ Cut \/ ChainMoves

Spec == Init /\ [][Next]_<<chainVars, handled, height, finalized>>

=============================================================================

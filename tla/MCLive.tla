------------------------------- MODULE MCLive -------------------------------
(***************************************************************************)
(* Values of LiveIndexer's constants for TLC, besides those of MCIndexer.  *)
(***************************************************************************)
EXTENDS LiveIndexer, MCIndexer

ThreeContracts == {1, 2, 3}
FourContracts == {1, 2, 3, 4}

\* Contract 2 prints only with contract 1; contracts 3 and 4 print nothing,
\* they only make fetching by block cheaper.
TwoPrint == {logs \in AnyContents : logs[2] <= logs[1] /\ logs[3] = 0 /\ logs[4] = 0}

\* All contracts print in a block, or none.
AllOrNothing == {logs \in AnyContents : \A c, d \in Contracts : logs[c] = logs[d]}

\* Contract 3 ends at block 2, the others go on.
LastEnds == [c \in Contracts |-> IF c = 3 THEN 2 ELSE None]

=============================================================================

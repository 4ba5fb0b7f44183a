----------------------------- MODULE MCIndexer -----------------------------
(***************************************************************************)
(* Values of Indexer's constants for TLC.                                  *)
(***************************************************************************)
EXTENDS Indexer

OneContract == {1}
TwoContracts == {1, 2}

\* Every contract prints freely in every block.
AnyContents == [Contracts -> 0..MaxLogs]

\* The whole history of every contract.
FromGenesis == [c \in Contracts |-> 0]
NoEnd == [c \in Contracts |-> None]

\* Contract 1 ends at block 2, contract 2 starts there.
Starts == [c \in Contracts |-> IF c = 1 THEN 0 ELSE 2]
Ends == [c \in Contracts |-> IF c = 1 THEN 2 ELSE None]

\* Which logs first-event discovery misses.
NothingHidden == {}

\* What the status request answers.
FullTip == {"full"}
AnyTip == {"full", "noHash", "none"}

\* When the chain grows, when it is reorganized, when a pass stops.
Always == Phases
BetweenPasses == {"idle"}
BetweenAndWhileSyncing == {"idle", "sync"}
Never == {}

=============================================================================

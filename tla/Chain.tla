------------------------------- MODULE Chain -------------------------------
(***************************************************************************)
(* The canonical Stacks chain and the API that serves it: the environment  *)
(* of the indexer.  The API's paging semantics are those the repository's  *)
(* tests encode in test-utils/fake-chain.ts.                               *)
(*                                                                         *)
(* A block is known by its height and by the fork that minted it, which    *)
(* together stand for its hash: every reorganization starts a new fork, so *)
(* no two blocks ever share a hash.  A block's content is the number of    *)
(* logs each contract printed in it.                                       *)
(***************************************************************************)
EXTENDS Integers, FiniteSets

CONSTANTS
    Contracts,      \* the indexed contracts, numbered in definition order
    None,           \* an absent value: null or undefined in the code
    MaxHeight,      \* bound: the chain never grows past this height
    MaxForks,       \* bound: the number of reorganizations
    MaxLogs,        \* bound: logs one contract prints in one block
    Contents,       \* bound: what a block may hold, logs of each contract
    MaxDepth,       \* bound: how far below the highest tip a reorg reaches
    PageLimit,      \* logs per page of the logs endpoint
    Hidden          \* <<contract, height>> pairs whose logs come from calls
                    \* made by other contracts: first-event discovery, which
                    \* lists the contract's own transactions, misses them

ASSUME ChainAssumption ==
    /\ Contracts \subseteq Nat
    /\ MaxHeight \in Nat \ {0}
    /\ MaxForks \in Nat
    /\ MaxLogs \in Nat
    /\ Contents \subseteq [Contracts -> 0..MaxLogs]
    /\ MaxDepth \in Nat
    /\ PageLimit \in Nat \ {0}
    /\ Hidden \subseteq Contracts \X Nat

Heights == 1..MaxHeight
Forks == 0..MaxForks
Block == [fork: Forks, logs: [Contracts -> 0..MaxLogs]]
Position == [height: Heights, index: 1..MaxLogs]
Event == [contract: Contracts, height: Heights, index: 1..MaxLogs, fork: Forks]

MaxOf(a, b) == IF a >= b THEN a ELSE b
MinOf(a, b) == IF a <= b THEN a ELSE b

\* None is none of the values it is mixed with.
ASSUME NoneAssumption ==
    /\ None \notin Int
    /\ None \notin Block
    /\ None \notin Position

VARIABLES
    chain,  \* the canonical block at each height, None above the tip
    top,    \* the height of the chain tip
    forks,  \* how many reorganizations happened; the fork minting blocks now
    peak    \* the highest tip so far

chainVars == <<chain, top, forks, peak>>

ChainTypeOK ==
    /\ chain \in [Heights -> Block \cup {None}]
    /\ top \in Heights
    /\ forks \in Forks
    /\ peak \in Heights
    /\ \A h \in Heights : chain[h] # None <=> h <= top
    /\ top <= peak

ChainInit ==
    /\ \E logs \in Contents :
         chain = [h \in Heights |->
                    IF h = 1 THEN [fork |-> 0, logs |-> logs] ELSE None]
    /\ top = 1
    /\ forks = 0
    /\ peak = 1

\* A block is mined on the tip.
Mine ==
    /\ top < MaxHeight
    /\ \E logs \in Contents :
         chain' = [chain EXCEPT ![top + 1] = [fork |-> forks, logs |-> logs]]
    /\ top' = top + 1
    /\ peak' = MaxOf(top + 1, peak)
    /\ UNCHANGED forks

\* The blocks above height k are orphaned and a new fork is minted there. No
\* reorg replaces a block MaxDepth or more below the highest tip.
Reorg ==
    /\ forks < MaxForks
    /\ \E k \in 0..(top - 1), logs \in Contents :
         /\ k >= peak - MaxDepth
         /\ chain' = [h \in Heights |->
                        IF h <= k THEN chain[h]
                        ELSE IF h = k + 1
                             THEN [fork |-> forks + 1, logs |-> logs]
                             ELSE None]
         /\ top' = k + 1
    /\ forks' = forks + 1
    /\ UNCHANGED peak

-----------------------------------------------------------------------------
(* What the API answers. *)

\* GET /extended/v2/blocks/{height}: the canonical hash, None for a 404.
CanonicalHash(h) == IF h \in 1..top THEN chain[h].fork ELSE None

\* The canonical logs of a contract.
Logs(c) ==
    UNION {{[contract |-> c, height |-> h, index |-> i, fork |-> chain[h].fork] :
              i \in 1..chain[h].logs[c]} : h \in 1..top}

\* The chain order of logs and cursors.
AtOrBelow(p, q) ==
    \/ p.height < q.height
    \/ p.height = q.height /\ p.index <= q.index

\* The logs endpoint's cursor of a log: its position, without a hash.
CursorOf(e) == [height |-> e.height, index |-> e.index]

\* The cursor of the one log of S, None for no log.
CursorIn(S) == IF S = {} THEN None ELSE CursorOf(CHOOSE e \in S : TRUE)

\* The n-th log of S from the newest, and from the oldest.
NthNewest(S, n) == {e \in S : Cardinality({f \in S : AtOrBelow(e, f)}) = n}
NthOldest(S, n) == {e \in S : Cardinality({f \in S : AtOrBelow(f, e)}) = n}

\* GET /extended/v2/smart-contracts/{id}/logs: the PageLimit newest logs at
\* or below the cursor (of all logs without one), the cursor of the newest of
\* them, the cursor one full page newer and the cursor of the next older page.
LogsPage(c, cursor) ==
    LET below == {e \in Logs(c) : cursor # None => AtOrBelow(e, cursor)}
    IN  [results |-> UNION {NthNewest(below, n) : n \in 1..PageLimit},
         cursor  |-> CursorIn(NthNewest(below, 1)),
         next    |-> CursorIn(NthOldest(Logs(c) \ below, PageLimit)),
         prev    |-> CursorIn(NthNewest(below, PageLimit + 1))]

\* checkTransactionForMatchingEvent: the contract's logs from `from` on in the
\* transactions listed for it; a transaction without one is passed over.
Discoverable(c, from) ==
    {e \in Logs(c) : e.height >= from /\ <<c, e.height>> \notin Hidden}

\* getContractEventsFirstCursor: the oldest of them.
FirstCursor(c, from) == CursorIn(NthOldest(Discoverable(c, from), 1))

=============================================================================

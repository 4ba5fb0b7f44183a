----------------------------- MODULE Definitions -----------------------------
(***************************************************************************)
(* The contract definitions change between processes.  Every call of `run` *)
(* or `live` compares them with the recorded ones, records them when no    *)
(* event is lost by the change (runtime/definition.ts), and resolves their *)
(* block ranges (runtime/contracts.ts).                                    *)
(*                                                                         *)
(* A pass is seen from afar: a contract is synced some heights at a time   *)
(* and all stored rows are indexed below one checkpoint.  Indexer models   *)
(* both step by step; the chain is never reorganized here.                 *)
(***************************************************************************)
EXTENDS Integers, Sequences

CONSTANTS
    Contracts,  \* the contract identifiers
    Starts,     \* the startBlocks a user writes; an unset one is 0
    Ends,       \* the endBlocks: heights, None, Latest
    Latest,     \* the endBlock "latest"
    None,       \* null or undefined
    MaxHeight   \* bound: the chain never grows past this height

ASSUME DefinitionsAssumption ==
    /\ Starts \subseteq Nat
    /\ Ends \subseteq Nat \cup {None, Latest}
    /\ None \notin Nat
    /\ Latest \notin Nat \cup {None}
    /\ MaxHeight \in Nat \ {0}

Heights == 1..MaxHeight
Event == [contract: Contracts, height: Heights]
Range == [start: Starts, end: Ends]

\* validateContractDefinitions
IsValidRange(range) == range.end \in Nat => range.start <= range.end
ContractDefinitions ==
    {definitions \in [Contracts -> Range \cup {None}] :
        /\ \E c \in Contracts : definitions[c] # None
        /\ \A c \in Contracts : definitions[c] # None => IsValidRange(definitions[c])}

ASSUME NoneAssumption == None \notin ContractDefinitions

VARIABLES
    chain,       \* the contracts that print in each block
    recorded,    \* meta.contracts: the definitions of the last accepted call
    progress,    \* sync_progress.syncedBlockHeight, None without a row
    events,      \* the stored events
    checkpoint,  \* the checkpoint's height, None before the first
    anchor,      \* the sync anchor's height, None before the first
    handled      \* what the handlers wrote, one mark per event

VARIABLES
    step,        \* where the call stands
    ends,        \* the resolved endBlocks
    position,    \* ContractSyncState.syncedBlockHeight
    unfinished,  \* the contracts that are not done
    newestRead   \* those that are done because their newest page was read

storeVars == <<recorded, progress, events, checkpoint, anchor, handled>>
syncVars == <<position, unfinished, newestRead>>
definitionsVars == <<chain, storeVars, step, ends, syncVars>>

Steps == {"stopped", "checked", "resolved", "syncing", "final", "passed"}

Defined == {c \in Contracts : recorded # None /\ recorded[c] # None}
Tip == Len(chain)
Printed == {e \in Event : e.height <= Tip /\ e.contract \in chain[e.height]}
PrintedBy(c) == {e \in Printed : e.contract = c}

MaxOf(a, b) == IF a >= b THEN a ELSE b
MinOf(a, b) == IF a <= b THEN a ELSE b
AtMost(height, bound) == bound # None => height <= bound

\* Every variable holds a value of its kind.
DefinitionsTypeOK ==
    /\ chain \in Seq(SUBSET Contracts)
    /\ recorded \in ContractDefinitions \cup {None}
    /\ progress \in [Contracts -> Nat \cup {None}]
    /\ events \subseteq Printed
    /\ checkpoint \in Heights \cup {None}
    /\ anchor \in Nat \cup {None}
    /\ handled \subseteq Printed
    /\ step \in Steps
    /\ ends \in [Contracts -> Nat \cup {None}]
    /\ position \in [Contracts -> Nat]
    /\ unfinished \subseteq Defined
    /\ newestRead \subseteq Defined

DefinitionsInit ==
    /\ \E printing \in SUBSET Contracts : chain = <<printing>>
    /\ recorded = None
    /\ progress = [c \in Contracts |-> None]
    /\ events = {}
    /\ checkpoint = None
    /\ anchor = None
    /\ handled = {}
    /\ step = "stopped"
    /\ ends = [c \in Contracts |-> None]
    /\ position = [c \in Contracts |-> 0]
    /\ unfinished = {}
    /\ newestRead = {}

-----------------------------------------------------------------------------
(* checkContractDefinitions *)

\* No block was processed for any contract, or for this one.
Unprocessed(c) == checkpoint = None /\ progress[c] = None

\* Mutant of AddedContractFits: only the checkpoint counts.
AddedAboveCheckpoint(c, range) ==
    checkpoint # None => range.start > checkpoint

\* addedContractProblem: what was synced when c was defined before counts.
AddedContractFits(c, range) ==
    \/ Unprocessed(c)
    \/ /\ checkpoint # None => range.start > checkpoint
       /\ progress[c] # None => range.start > progress[c]

\* Mutant of ChangedRangeFits: an endBlock may change after indexing.
ChangedEndFits(c, range) ==
    \/ range = recorded[c]
    \/ progress[c] # None => range.start >= recorded[c].start

\* changedRangeProblem
ChangedRangeFits(c, range) ==
    \/ range = recorded[c]
    \/ /\ checkpoint = None
       /\ progress[c] # None => range.start >= recorded[c].start

\* A change that loses no event; a database that recorded nothing adopts the
\* definitions it is given.
DefinitionsFit(definitions) ==
    \/ recorded = None
    \/ \A c \in Contracts : definitions[c] # None =>
         IF c \in Defined THEN ChangedRangeFits(c, definitions[c])
         ELSE AddedContractFits(c, definitions[c])

\* A process calls `run` or `live`. A change that does not fit fails it and
\* changes nothing.
Call ==
    /\ step = "stopped"
    /\ \E definitions \in ContractDefinitions :
         /\ DefinitionsFit(definitions)
         /\ recorded' = definitions
    /\ step' = "checked"
    /\ UNCHANGED <<chain, progress, events, checkpoint, anchor, handled, ends, syncVars>>

\* resolveContracts: "latest" is the height of the status read now. A range
\* that is empty by then fails the call.
Resolve ==
    /\ step = "checked"
    /\ ends' = [c \in Contracts |->
                  IF c \notin Defined THEN None
                  ELSE IF recorded[c].end = Latest THEN Tip ELSE recorded[c].end]
    /\ step' = IF \A c \in Defined : AtMost(recorded[c].start, ends'[c])
               THEN "resolved" ELSE "stopped"
    /\ UNCHANGED <<chain, storeVars, syncVars>>

-----------------------------------------------------------------------------
(* A pass *)

InRange(c, height) == recorded[c].start <= height /\ AtMost(height, ends[c])

\* Mutant of RewindToAnchor: only the events are dropped.
RewindEventsToAnchor ==
    /\ events' = {e \in events : AtMost(e.height, anchor)}
    /\ UNCHANGED progress

\* rewindTo, without a reorg: what was stored above the anchor is dropped.
RewindToAnchor ==
    /\ events' = {e \in events : AtMost(e.height, anchor)}
    /\ progress' = [c \in Contracts |->
                      IF progress[c] = None \/ anchor = None THEN progress[c]
                      ELSE MinOf(progress[c], anchor)]

\* A contract starts where it stopped, or at its start.
StartingPosition(c, saved) ==
    IF saved # None THEN saved
    ELSE IF c \in Defined THEN MaxOf(recorded[c].start - 1, 0) ELSE 0

\* Mutant of BeginPass: every contract the database knows is synced.
BeginPassOfAll ==
    /\ step \in {"resolved", "passed"}
    /\ RewindToAnchor
    /\ anchor' = Tip
    /\ position' = [c \in Contracts |-> StartingPosition(c, progress'[c])]
    /\ unfinished' = Defined \cup {c \in Contracts : progress'[c] # None}
    /\ newestRead' = {}
    /\ step' = "syncing"
    /\ UNCHANGED <<chain, recorded, checkpoint, handled, ends>>

\* The tip is read, a second time since the call began, and becomes the
\* anchor. `live` begins a pass for a new head with the ranges it resolved.
BeginPass ==
    /\ step \in {"resolved", "passed"}
    /\ RewindToAnchor
    /\ anchor' = Tip
    /\ position' = [c \in Contracts |-> StartingPosition(c, progress'[c])]
    /\ unfinished' =
         {c \in Defined : ends[c] # None /\ progress'[c] # None => progress'[c] < ends[c]}
    /\ newestRead' = {}
    /\ step' = "syncing"
    /\ UNCHANGED <<chain, recorded, checkpoint, handled, ends>>

\* getContractEventsFirstCursor finds an event in the contract's range.
HasFirstEvent(c) == \E e \in PrintedBy(c) : InRange(c, e.height)

\* First-event discovery found nothing in the contract's range: it is done,
\* through its end block when it has one.
FindNothing(c) ==
    /\ step = "syncing"
    /\ c \in unfinished
    /\ progress[c] = None
    /\ ~HasFirstEvent(c)
    /\ progress' = [progress EXCEPT ![c] = IF ends[c] = None THEN position[c] ELSE ends[c]]
    /\ unfinished' = unfinished \ {c}
    /\ UNCHANGED <<chain, recorded, events, checkpoint, anchor, handled, step, ends,
                   position, newestRead>>

\* Pages are stored through a height and the progress is saved. They may hold
\* events around the contract's range too.
StorePages(c) ==
    /\ step = "syncing"
    /\ c \in unfinished
    /\ progress[c] = None => HasFirstEvent(c)
    /\ \E height \in (position[c] + 1)..Tip :
         /\ AtMost(height, ends[c])
         /\ \E around \in {{}, PrintedBy(c)} :
              events' = events \cup around \cup
                {e \in PrintedBy(c) : position[c] < e.height /\ e.height <= height}
         /\ progress' = [progress EXCEPT ![c] = height]
         /\ position' = [position EXCEPT ![c] = height]
         /\ unfinished' = IF height = ends[c] THEN unfinished \ {c} ELSE unfinished
    /\ UNCHANGED <<chain, recorded, checkpoint, anchor, handled, step, ends, newestRead>>

\* Its newest page holds nothing new: the contract is done.
ReadNewest(c) ==
    /\ step = "syncing"
    /\ c \in unfinished
    /\ progress[c] # None
    /\ \A e \in PrintedBy(c) : e.height <= position[c]
    /\ unfinished' = unfinished \ {c}
    /\ newestRead' = newestRead \cup {c}
    /\ UNCHANGED <<chain, storeVars, step, ends, position>>

\* The rows up to some block at or below `to`, whatever contract they are of:
\* those of a defined contract's range run, and the checkpoint passes all.
IndexRows(to) ==
    /\ \E last \in {e \in events : AtMost(e.height, to)} :
         LET rows == {e \in events : /\ checkpoint = None \/ checkpoint < e.height
                                     /\ e.height <= last.height}
         IN  /\ last \in rows
             /\ handled' = handled \cup
                  {e \in rows : e.contract \in Defined /\ InRange(e.contract, e.height)}
             /\ checkpoint' = last.height
    /\ UNCHANGED <<chain, recorded, progress, events, anchor, ends, syncVars>>

IsSafeHeight(height) ==
    /\ \E c \in unfinished : position[c] = height
    /\ \A c \in unfinished : height <= position[c]

IndexSafeHeight ==
    /\ step = "syncing"
    /\ \E height \in {position[c] : c \in unfinished} :
         IsSafeHeight(height) /\ IndexRows(MinOf(height, anchor))
    /\ UNCHANGED step

\* Every contract is done: those that read their newest page, and whose range
\* the tip is in, are synced through the tip.
RaiseToTip ==
    /\ step = "syncing"
    /\ unfinished = {}
    /\ progress' = [c \in Contracts |->
                      IF c \in newestRead /\ AtMost(anchor, ends[c])
                      THEN MaxOf(progress[c], anchor) ELSE progress[c]]
    /\ step' = "final"
    /\ UNCHANGED <<chain, recorded, events, checkpoint, anchor, handled, ends, syncVars>>

IndexRemaining ==
    /\ step = "final"
    /\ IndexRows(anchor)
    /\ UNCHANGED step

EndPass ==
    /\ step = "final"
    /\ \A e \in events : e.height <= anchor => checkpoint # None /\ e.height <= checkpoint
    /\ step' = "passed"
    /\ UNCHANGED <<chain, storeVars, ends, syncVars>>

\* The call returned, failed or was interrupted, or the process stopped.
Stop ==
    /\ step # "stopped"
    /\ step' = "stopped"
    /\ ends' = [c \in Contracts |-> None]
    /\ position' = [c \in Contracts |-> 0]
    /\ unfinished' = {}
    /\ newestRead' = {}
    /\ UNCHANGED <<chain, storeVars>>

\* A block is mined.
Mine ==
    /\ Tip < MaxHeight
    /\ \E printing \in SUBSET Contracts : chain' = Append(chain, printing)
    /\ UNCHANGED <<storeVars, step, ends, syncVars>>

DefinitionsNext ==
    \/ Call
    \/ Resolve
    \/ BeginPass
    \/ \E c \in Contracts : FindNothing(c) \/ StorePages(c) \/ ReadNewest(c)
    \/ IndexSafeHeight
    \/ RaiseToTip
    \/ IndexRemaining
    \/ EndPass
    \/ Stop
    \/ Mine

DefinitionsSpec == DefinitionsInit /\ [][DefinitionsNext]_definitionsVars

-----------------------------------------------------------------------------
(* Properties. *)

\* What the user asked for: the events in the range of a defined contract.
Wanted ==
    {e \in Printed : /\ e.contract \in Defined
                     /\ recorded[e.contract].start <= e.height
                     /\ recorded[e.contract].end \in Nat =>
                          e.height <= recorded[e.contract].end}

\* definition.ts:13-18: an accepted change leaves no event unindexed. Whatever
\* was added, removed, added again or moved between calls that completed or
\* stopped anywhere, the checkpoint is past no wanted event that the handlers
\* did not get, and so will never get.
NoEventUnindexed ==
    \A e \in Wanted : checkpoint # None /\ e.height <= checkpoint => e \in handled

\* A contract's saved progress, which takes precedence over its startBlock,
\* never stands above an event from its start on that is not stored (up to
\* the anchor, to which the next pass rewinds it), whatever ranges it had.
SavedProgressHolds ==
    \A e \in Printed :
        /\ e.contract \in Defined
        /\ recorded[e.contract].start <= e.height
        /\ progress[e.contract] # None
        /\ e.height <= progress[e.contract]
        /\ AtMost(e.height, anchor)
        => e \in events

\* README.md:497: a call that cannot index its contracts without missing
\* events fails. So a pass that completes has handled every event in the
\* ranges its call resolved, up to the tip it read.
PassIsComplete ==
    step = "passed" =>
        \A e \in Printed :
            e.contract \in Defined /\ InRange(e.contract, e.height) /\ e.height <= anchor
            => e \in handled

-----------------------------------------------------------------------------
(* Why no event is lost: the inductive invariant behind NoEventUnindexed,  *)
(* SavedProgressHolds and PassIsComplete when no endBlock is Latest.       *)

\* The heights kept follow the chain: checkpoint, anchor, tip.
HeightsOrdered ==
    /\ anchor # None => anchor <= Tip
    /\ checkpoint # None => anchor # None /\ checkpoint <= anchor
    /\ \A c \in Contracts : progress[c] # None => anchor # None
    /\ recorded = None =>
         checkpoint = None /\ \A c \in Contracts : progress[c] = None

InPass == step \in {"syncing", "final", "passed"}

\* A pass works with the recorded ranges.
RangesResolved ==
    /\ step # "stopped" => recorded # None
    /\ step \in {"resolved", "syncing", "final", "passed"} =>
         \A c \in Defined : ends[c] = recorded[c].end

\* What is stored of a contract during a pass: all through its position, and
\* all through the anchor once it is done.
PositionsHold ==
    InPass =>
        /\ anchor # None
        /\ \A c \in newestRead : progress[c] # None
        /\ \A c \in unfinished : position[c] <= Tip \/ position[c] < recorded[c].start
        /\ \A e \in Wanted : e.contract \in unfinished /\ e.height <= position[e.contract]
             => e \in events
        /\ \A e \in Wanted : e.contract \notin unfinished /\ e.height <= anchor
             => e \in events

\* Contracts are open while a pass syncs only, and a pass that ended has left
\* no row to index.
PassEnds ==
    /\ step # "syncing" => unfinished = {}
    /\ ~InPass => newestRead = {}
    /\ step = "passed" =>
         \A e \in events : e.height <= anchor => checkpoint # None /\ e.height <= checkpoint

DefinitionsInv ==
    /\ DefinitionsTypeOK
    /\ HeightsOrdered
    /\ RangesResolved
    /\ PositionsHold
    /\ PassEnds
    /\ NoEventUnindexed
    /\ SavedProgressHolds

=============================================================================

-------------------------- MODULE DefinitionsProofs --------------------------
(***************************************************************************)
(* Changing the contract definitions loses no event, for any contracts,    *)
(* ranges and chain, as long as no endBlock is "latest": DefinitionsInv is *)
(* inductive.                                                              *)
(***************************************************************************)
EXTENDS Definitions, TLAPS

\* What a defined contract is defined by.
LEMMA DefinedRange ==
    ASSUME DefinitionsTypeOK, NEW c \in Defined
    PROVE  /\ c \in Contracts
           /\ recorded[c] \in Range
           /\ recorded[c].start \in Nat
           /\ recorded[c].end \in Ends
    BY DefinitionsAssumption
    DEF DefinitionsTypeOK, Defined, ContractDefinitions, Range

\* An accepted definition has a range of the kind.
LEMMA GivenRange ==
    ASSUME NEW definitions \in ContractDefinitions,
           NEW c \in Contracts, definitions[c] # None
    PROVE  /\ definitions[c] \in Range
           /\ definitions[c].start \in Nat
    BY DefinitionsAssumption DEF ContractDefinitions, Range

\* An event is printed at a height of the chain.
LEMMA PrintedHeight ==
    ASSUME NEW e \in Printed
    PROVE  /\ e \in Event
           /\ e.contract \in Contracts
           /\ e.height \in Nat
           /\ 1 <= e.height
           /\ e.height <= Tip
    BY DefinitionsAssumption DEF Printed, Event, Heights

\* The tip is a height.
LEMMA TipIsHeight ==
    ASSUME DefinitionsTypeOK
    PROVE  Tip \in Nat
    BY DEF DefinitionsTypeOK, Tip

\* An event in a resolved range is wanted, and a wanted one is in range.
LEMMA WantedInRange ==
    ASSUME DefinitionsTypeOK, Latest \notin Ends,
           NEW e \in Printed, e.contract \in Defined,
           ends[e.contract] = recorded[e.contract].end
    PROVE  e \in Wanted <=> InRange(e.contract, e.height)
<1>1. recorded[e.contract].end \in Nat \cup {None}
  BY DefinedRange, DefinitionsAssumption
<1> QED
  BY <1>1, DefinitionsAssumption DEF Wanted, InRange, AtMost

-----------------------------------------------------------------------------

THEOREM InitInv == DefinitionsInit => DefinitionsInv
<1> SUFFICES ASSUME DefinitionsInit PROVE DefinitionsInv
  OBVIOUS
<1>1. PICK printing \in SUBSET Contracts : chain = <<printing>>
  BY DEF DefinitionsInit
<1>2. Defined = {}
  BY DEF DefinitionsInit, Defined
<1>3. Tip = 1
  BY <1>1 DEF Tip
<1>4. DefinitionsTypeOK
  <2>1. chain \in Seq(SUBSET Contracts)
    BY <1>1
  <2> QED
    BY <2>1, DefinitionsAssumption DEF DefinitionsInit, DefinitionsTypeOK, Steps
<1> QED
  BY <1>2, <1>3, <1>4
  DEF DefinitionsInit, DefinitionsInv, HeightsOrdered, RangesResolved, PositionsHold,
      InPass, PassEnds, NoEventUnindexed, SavedProgressHolds, Wanted

\* checkContractDefinitions: a change that fits loses no event.
LEMMA CallInv ==
    ASSUME DefinitionsInv, Latest \notin Ends, Call
    PROVE  DefinitionsInv'
<1>1. PICK definitions \in ContractDefinitions :
        DefinitionsFit(definitions) /\ recorded' = definitions
  BY DEF Call
<1> USE DEF DefinitionsInv
<1>2. /\ Printed' = Printed
      /\ Tip' = Tip
  BY DEF Call, Printed, Tip
<1>3. definitions # None
  BY <1>1, NoneAssumption
<1>4. \A c \in Defined' : c \in Contracts /\ definitions[c] # None
  BY <1>1 DEF Defined
<1>5. DefinitionsTypeOK'
  BY <1>1, <1>2 DEF Call, syncVars, DefinitionsTypeOK, Steps, PassEnds, InPass
<1>6. HeightsOrdered'
  BY <1>1, <1>2, <1>3 DEF Call, HeightsOrdered
<1>7. RangesResolved' /\ PositionsHold' /\ PassEnds'
  BY <1>1, <1>3
  DEF Call, syncVars, RangesResolved, PositionsHold, InPass, PassEnds
<1>8. ASSUME NEW c \in Defined', checkpoint # None \/ progress[c] # None
      PROVE  IF c \in Defined THEN ChangedRangeFits(c, definitions[c])
             ELSE AddedContractFits(c, definitions[c])
  BY <1>1, <1>4, <1>8 DEF DefinitionsFit, HeightsOrdered
<1>9. NoEventUnindexed'
  <2> SUFFICES ASSUME NEW e \in Wanted', checkpoint # None, e.height <= checkpoint
               PROVE  e \in handled
    BY DEF NoEventUnindexed, Call
  <2>1. e \in Printed /\ e.contract \in Defined' /\ e.contract \in Contracts
    BY <1>2, <1>4 DEF Wanted
  <2>2. definitions[e.contract].start <= e.height
    BY <1>1 DEF Wanted
  <2>3. definitions[e.contract].start \in Nat /\ e.height \in Nat /\ checkpoint \in Nat
    BY <1>4, <2>1, GivenRange, PrintedHeight, DefinitionsAssumption
    DEF DefinitionsTypeOK, Heights
  <2>4. CASE e.contract \in Defined
    <3>1. definitions[e.contract] = recorded[e.contract]
      BY <1>8, <2>1, <2>4 DEF ChangedRangeFits
    <3>2. e \in Wanted
      BY <1>1, <2>1, <2>4, <3>1 DEF Wanted
    <3> QED
      BY <3>2 DEF NoEventUnindexed
  <2>5. CASE e.contract \notin Defined
    <3>1. AddedContractFits(e.contract, definitions[e.contract])
      BY <1>8, <2>1, <2>5
    <3> QED
      BY <3>1, <2>2, <2>3 DEF AddedContractFits, Unprocessed
  <2> QED
    BY <2>4, <2>5
<1>10. SavedProgressHolds'
  <2> SUFFICES ASSUME NEW e \in Printed, e.contract \in Defined',
                      definitions[e.contract].start <= e.height,
                      progress[e.contract] # None,
                      e.height <= progress[e.contract], AtMost(e.height, anchor)
               PROVE  e \in events
    BY <1>1, <1>2 DEF SavedProgressHolds, Call, AtMost
  <2>1. /\ definitions[e.contract].start \in Nat
        /\ e.height \in Nat
        /\ progress[e.contract] \in Nat
    BY <1>4, GivenRange, PrintedHeight DEF DefinitionsTypeOK
  <2>2. CASE e.contract \in Defined
    <3>1. recorded[e.contract].start \in Nat
      BY <2>2, DefinedRange
    <3>2. recorded[e.contract].start <= definitions[e.contract].start
      BY <1>8, <2>1, <2>2, <3>1 DEF ChangedRangeFits
    <3> QED
      BY <2>1, <2>2, <3>1, <3>2 DEF SavedProgressHolds
  <2>3. CASE e.contract \notin Defined
    <3>1. AddedContractFits(e.contract, definitions[e.contract])
      BY <1>8, <2>3
    <3> QED
      BY <3>1, <2>1 DEF AddedContractFits, Unprocessed
  <2> QED
    BY <2>2, <2>3
<1> QED
  BY <1>5, <1>6, <1>7, <1>9, <1>10

\* resolveContracts
LEMMA ResolveInv ==
    ASSUME DefinitionsInv, Latest \notin Ends, Resolve
    PROVE  DefinitionsInv'
<1> USE DEF DefinitionsInv
<1>1. /\ Printed' = Printed /\ Tip' = Tip /\ Defined' = Defined
      /\ Wanted' = Wanted
  BY DEF Resolve, storeVars, Printed, Tip, Defined, Wanted
<1>2. \A c \in Defined : c \in Contracts /\ recorded[c].end \in Nat \cup {None}
  BY DefinedRange, DefinitionsAssumption
<1>3. ends' = [c \in Contracts |-> IF c \in Defined THEN recorded[c].end ELSE None]
  BY <1>2, DefinitionsAssumption DEF Resolve
<1>4. DefinitionsTypeOK'
  <2>1. ends' \in [Contracts -> Nat \cup {None}]
    BY <1>2, <1>3
  <2> QED
    BY <1>1, <2>1 DEF Resolve, storeVars, syncVars, DefinitionsTypeOK, Steps
<1>5. HeightsOrdered' /\ NoEventUnindexed' /\ SavedProgressHolds'
  BY <1>1 DEF Resolve, storeVars, HeightsOrdered, NoEventUnindexed, SavedProgressHolds,
     AtMost
<1>6. RangesResolved'
  BY <1>1, <1>2, <1>3 DEF Resolve, storeVars, RangesResolved
<1>7. PositionsHold' /\ PassEnds'
  BY DEF Resolve, syncVars, PositionsHold, InPass, PassEnds
<1> QED
  BY <1>4, <1>5, <1>6, <1>7

\* The pass begins: the rewind drops what was stored above the old anchor, and
\* no progress stays above it.
LEMMA BeginPassInv ==
    ASSUME DefinitionsInv, Latest \notin Ends, BeginPass
    PROVE  DefinitionsInv'
<1> USE DEF DefinitionsInv
<1>1. /\ Printed' = Printed /\ Tip' = Tip /\ Defined' = Defined
      /\ Wanted' = Wanted
  BY DEF BeginPass, Printed, Tip, Defined, Wanted
<1>2. /\ anchor' = Tip /\ step' = "syncing"
      /\ Tip \in Nat
      /\ recorded # None
  BY TipIsHeight DEF BeginPass, RangesResolved
<1>3. \A c \in Contracts :
        /\ progress'[c] \in Nat \cup {None}
        /\ progress[c] = None => progress'[c] = None
        /\ progress[c] # None => /\ anchor \in Nat
                                 /\ progress[c] \in Nat
                                 /\ progress'[c] \in Nat
                                 /\ progress'[c] <= progress[c]
                                 /\ progress'[c] <= anchor
  BY DefinitionsAssumption
  DEF BeginPass, RewindToAnchor, DefinitionsTypeOK, HeightsOrdered, MinOf
<1>4. progress' \in [Contracts -> Nat \cup {None}]
  BY <1>3 DEF BeginPass, RewindToAnchor
<1>5. DefinitionsTypeOK'
  <2>1. \A c \in Contracts : StartingPosition(c, progress'[c]) \in Nat
    BY <1>3, DefinedRange DEF StartingPosition, MaxOf
  <2>2. position' \in [Contracts -> Nat]
    BY <2>1 DEF BeginPass
  <2>3. events' \subseteq Printed'
    BY <1>1 DEF BeginPass, RewindToAnchor, DefinitionsTypeOK
  <2> QED
    BY <1>1, <1>2, <1>4, <2>2, <2>3 DEF BeginPass, DefinitionsTypeOK, Steps
<1>6. HeightsOrdered'
  BY <1>1, <1>2, DefinitionsAssumption
  DEF BeginPass, HeightsOrdered, DefinitionsTypeOK, Heights
<1>7. RangesResolved'
  BY <1>1 DEF BeginPass, RangesResolved
\* What was stored below the progress is still there.
<1>8. ASSUME NEW e \in Printed, e.contract \in Defined,
             recorded[e.contract].start <= e.height,
             progress'[e.contract] # None, e.height <= progress'[e.contract]
      PROVE  e \in events'
  <2>1. /\ e.contract \in Contracts /\ e.height \in Nat
        /\ progress[e.contract] # None
        /\ e.height <= progress[e.contract] /\ e.height <= anchor
    BY <1>3, <1>8, PrintedHeight
  <2>2. e \in events
    BY <1>8, <2>1 DEF SavedProgressHolds, AtMost
  <2> QED
    BY <2>1, <2>2 DEF BeginPass, RewindToAnchor, AtMost
<1>9. SavedProgressHolds'
  BY <1>1, <1>8 DEF SavedProgressHolds, BeginPass
<1>10. NoEventUnindexed'
  BY <1>1 DEF NoEventUnindexed, BeginPass
<1>11. PositionsHold'
  <2>1. anchor' # None
    BY <1>2, DefinitionsAssumption
  <2>2. ASSUME NEW e \in Wanted, e.contract \in unfinished',
               e.height <= position'[e.contract]
        PROVE  e \in events'
    <3>1. /\ e \in Printed /\ e.contract \in Defined /\ e.contract \in Contracts
          /\ recorded[e.contract].start <= e.height
          /\ recorded[e.contract].start \in Nat
          /\ e.height \in Nat /\ 1 <= e.height
      BY DefinedRange, PrintedHeight DEF Wanted
    <3>2. position'[e.contract] = StartingPosition(e.contract, progress'[e.contract])
      BY <3>1 DEF BeginPass
    <3>3. CASE progress'[e.contract] # None
      BY <1>8, <2>2, <3>1, <3>2, <3>3 DEF StartingPosition
    <3>4. CASE progress'[e.contract] = None
      BY <2>2, <3>1, <3>2, <3>4 DEF StartingPosition, MaxOf
    <3> QED
      BY <3>3, <3>4
  <2>3. ASSUME NEW e \in Wanted, e.contract \notin unfinished'
        PROVE  e \in events'
    <3>1. /\ e \in Printed /\ e.contract \in Defined /\ e.contract \in Contracts
          /\ recorded[e.contract].start <= e.height
          /\ e.height \in Nat
      BY PrintedHeight DEF Wanted
    <3>2. /\ ends[e.contract] # None
          /\ progress'[e.contract] # None
          /\ ~(progress'[e.contract] < ends[e.contract])
      BY <2>3, <3>1 DEF BeginPass
    <3>3. ends[e.contract] = recorded[e.contract].end /\ ends[e.contract] \in Nat
      BY <3>1, <3>2 DEF BeginPass, RangesResolved, DefinitionsTypeOK
    <3>4. e.height <= ends[e.contract]
      BY <3>3 DEF Wanted
    <3>5. e.height <= progress'[e.contract]
      BY <1>3, <3>1, <3>2, <3>3, <3>4
    <3> QED
      BY <1>8, <3>1, <3>2, <3>5
  <2>4. ASSUME NEW c \in unfinished'
        PROVE  position'[c] <= Tip \/ position'[c] < recorded[c].start
    <3>1. /\ c \in Defined /\ c \in Contracts /\ recorded[c].start \in Nat
          /\ position'[c] = StartingPosition(c, progress'[c])
      BY <2>4, DefinedRange DEF BeginPass
    <3>2. progress'[c] # None => position'[c] <= Tip
      BY <1>2, <1>3, <3>1 DEF StartingPosition, HeightsOrdered
    <3>3. progress'[c] = None => position'[c] <= Tip \/ position'[c] < recorded[c].start
      BY <1>2, <3>1 DEF StartingPosition, MaxOf
    <3> QED
      BY <3>2, <3>3
  <2> QED
    BY <1>1, <2>1, <2>2, <2>3, <2>4 DEF PositionsHold, BeginPass
<1>12. PassEnds'
  BY DEF BeginPass, PassEnds, InPass
<1> QED
  BY <1>5, <1>6, <1>7, <1>9, <1>10, <1>11, <1>12

\* First-event discovery finds nothing: no event in range was printed so far.
LEMMA FindNothingInv ==
    ASSUME DefinitionsInv, Latest \notin Ends, NEW c \in Contracts, FindNothing(c)
    PROVE  DefinitionsInv'
<1> USE DEF DefinitionsInv
<1>1. /\ Printed' = Printed /\ Tip' = Tip /\ Defined' = Defined
      /\ Wanted' = Wanted
  BY DEF FindNothing, Printed, Tip, Defined, Wanted
<1>2. /\ step = "syncing" /\ step' = "syncing"
      /\ c \in Defined /\ recorded # None
      /\ ends[c] = recorded[c].end /\ ends[c] \in Nat \cup {None}
      /\ position[c] \in Nat
      /\ anchor # None
  BY DEF FindNothing, RangesResolved, DefinitionsTypeOK, PositionsHold, InPass
<1>3. \A e \in Printed : e.contract = c => ~InRange(c, e.height)
  BY DEF FindNothing, HasFirstEvent, PrintedBy
<1>4. \A e \in Wanted : e.contract # c
  BY <1>2, <1>3, WantedInRange DEF Wanted
<1>5. progress'[c] \in Nat /\ progress' = [progress EXCEPT ![c] = progress'[c]]
  BY <1>2 DEF FindNothing, DefinitionsTypeOK
<1>6. DefinitionsTypeOK'
  BY <1>1, <1>2, <1>5 DEF FindNothing, DefinitionsTypeOK
<1>7. HeightsOrdered' /\ RangesResolved' /\ NoEventUnindexed' /\ PassEnds'
  BY <1>1, <1>2, <1>5
  DEF FindNothing, HeightsOrdered, RangesResolved, NoEventUnindexed, PassEnds, InPass,
      DefinitionsTypeOK
<1>8. PositionsHold'
  <2>1. \A d \in newestRead : progress'[d] # None
    BY <1>2, <1>5, DefinitionsAssumption
    DEF PositionsHold, InPass, DefinitionsTypeOK, Defined
  <2> QED
    BY <1>1, <1>2, <1>4, <2>1 DEF FindNothing, PositionsHold, InPass
<1>9. SavedProgressHolds'
  <2> SUFFICES ASSUME NEW e \in Printed, e.contract \in Defined,
                      recorded[e.contract].start <= e.height,
                      progress'[e.contract] # None,
                      e.height <= progress'[e.contract], AtMost(e.height, anchor)
               PROVE  e \in events
    BY <1>1 DEF SavedProgressHolds, FindNothing, AtMost
  <2>1. e.contract \in Contracts
    BY DEF Defined
  <2>2. CASE e.contract = c
    <3>1. AtMost(e.height, ends[c])
      BY <2>2 DEF FindNothing, AtMost, DefinitionsTypeOK
    <3> QED
      BY <1>3, <2>2, <3>1 DEF InRange
  <2>3. CASE e.contract # c
    BY <1>5, <2>1, <2>3 DEF SavedProgressHolds, DefinitionsTypeOK
  <2> QED
    BY <2>2, <2>3
<1> QED
  BY <1>6, <1>7, <1>8, <1>9

\* Pages are stored from the position on.
LEMMA StorePagesInv ==
    ASSUME DefinitionsInv, Latest \notin Ends, NEW c \in Contracts, StorePages(c)
    PROVE  DefinitionsInv'
<1> USE DEF DefinitionsInv
<1>1. PICK height \in (position[c] + 1)..Tip :
        /\ AtMost(height, ends[c])
        /\ \E around \in {{}, PrintedBy(c)} :
             events' = events \cup around \cup
               {e \in PrintedBy(c) : position[c] < e.height /\ e.height <= height}
        /\ progress' = [progress EXCEPT ![c] = height]
        /\ position' = [position EXCEPT ![c] = height]
        /\ unfinished' = IF height = ends[c] THEN unfinished \ {c} ELSE unfinished
  BY DEF StorePages
<1>2. /\ Printed' = Printed /\ Tip' = Tip /\ Defined' = Defined
      /\ Wanted' = Wanted
  BY DEF StorePages, Printed, Tip, Defined, Wanted
<1>3. /\ step = "syncing" /\ step' = "syncing"
      /\ c \in unfinished /\ c \in Defined /\ recorded # None
      /\ ends[c] = recorded[c].end /\ ends[c] \in Nat \cup {None}
      /\ position[c] \in Nat /\ height \in Nat
      /\ anchor # None
  BY <1>1, TipIsHeight
  DEF StorePages, RangesResolved, DefinitionsTypeOK, PositionsHold, InPass
<1>4. /\ progress'[c] = height /\ position'[c] = height
      /\ \A d \in Contracts : d # c => /\ progress'[d] = progress[d]
                                      /\ position'[d] = position[d]
  BY <1>1 DEF DefinitionsTypeOK
<1>5. events \subseteq events' /\ events' \subseteq Printed
  BY <1>1 DEF PrintedBy, DefinitionsTypeOK
<1>6. DefinitionsTypeOK'
  BY <1>1, <1>2, <1>3, <1>5 DEF StorePages, DefinitionsTypeOK
<1>7. HeightsOrdered' /\ RangesResolved' /\ NoEventUnindexed' /\ PassEnds'
  BY <1>2, <1>3, <1>4
  DEF StorePages, HeightsOrdered, RangesResolved, NoEventUnindexed, PassEnds, InPass
\* Everything from the start through the stored height is there.
<1>8. ASSUME NEW e \in Printed, e.contract = c, recorded[c].start <= e.height,
             e.height <= height
      PROVE  e \in events'
  <2>1. e.height \in Nat
    BY PrintedHeight
  <2>2. AtMost(e.height, ends[c])
    BY <1>1, <1>3, <1>8, <2>1 DEF AtMost
  <2>3. e \in Wanted
    BY <1>3, <1>8, <2>2, WantedInRange DEF InRange
  <2>4. CASE e.height <= position[c]
    BY <1>3, <1>5, <1>8, <2>3, <2>4 DEF PositionsHold, InPass
  <2>5. CASE position[c] < e.height
    BY <1>1, <1>8, <2>5 DEF PrintedBy
  <2> QED
    BY <1>3, <2>1, <2>4, <2>5
<1>9. SavedProgressHolds'
  <2> SUFFICES ASSUME NEW e \in Printed, e.contract \in Defined,
                      recorded[e.contract].start <= e.height,
                      progress'[e.contract] # None,
                      e.height <= progress'[e.contract], AtMost(e.height, anchor)
               PROVE  e \in events'
    BY <1>2 DEF SavedProgressHolds, StorePages, AtMost
  <2>1. e.contract \in Contracts
    BY DEF Defined
  <2> QED
    BY <1>4, <1>5, <1>8, <2>1 DEF SavedProgressHolds
<1>10. PositionsHold'
  <2>1. \A d \in newestRead : progress'[d] # None
    BY <1>3, <1>4, DefinitionsAssumption
    DEF PositionsHold, InPass, DefinitionsTypeOK, Defined
  <2>2. ASSUME NEW e \in Wanted, e.contract \in unfinished',
               e.height <= position'[e.contract]
        PROVE  e \in events'
    <3>1. /\ e \in Printed /\ e.contract \in Contracts /\ e.contract \in unfinished
          /\ recorded[e.contract].start <= e.height
      BY <1>1, <2>2 DEF Wanted, Defined
    <3> QED
      BY <1>3, <1>4, <1>5, <1>8, <2>2, <3>1 DEF PositionsHold, InPass
  <2>3. ASSUME NEW e \in Wanted, e.contract \notin unfinished', e.height <= anchor
        PROVE  e \in events'
    <3>1. /\ e \in Printed /\ e.contract \in Contracts
          /\ recorded[e.contract].start <= e.height
      BY DEF Wanted, Defined
    <3>2. CASE e.contract = c
      <4>1. height = ends[c]
        BY <1>1, <1>3, <2>3, <3>2
      <4>2. e.height <= height
        BY <1>3, <3>2, <4>1 DEF Wanted
      <4> QED
        BY <1>8, <3>1, <3>2, <4>2
    <3>3. CASE e.contract # c
      BY <1>1, <1>3, <1>5, <2>3, <3>3 DEF PositionsHold, InPass
    <3> QED
      BY <3>2, <3>3
  <2>4. \A d \in unfinished' : position'[d] <= Tip \/ position'[d] < recorded[d].start
    BY <1>1, <1>3, <1>4 DEF PositionsHold, InPass, DefinitionsTypeOK, Defined
  <2> QED
    BY <1>2, <1>3, <2>1, <2>2, <2>3, <2>4 DEF StorePages, PositionsHold
<1> QED
  BY <1>6, <1>7, <1>9, <1>10

\* The newest page holds nothing above the position.
LEMMA ReadNewestInv ==
    ASSUME DefinitionsInv, Latest \notin Ends, NEW c \in Contracts, ReadNewest(c)
    PROVE  DefinitionsInv'
<1> USE DEF DefinitionsInv
<1>1. /\ Printed' = Printed /\ Tip' = Tip /\ Defined' = Defined
      /\ Wanted' = Wanted
  BY DEF ReadNewest, storeVars, Printed, Tip, Defined, Wanted
<1>2. DefinitionsTypeOK'
  BY <1>1 DEF ReadNewest, storeVars, DefinitionsTypeOK
<1>3. HeightsOrdered' /\ NoEventUnindexed' /\ SavedProgressHolds'
  BY <1>1
  DEF ReadNewest, storeVars, HeightsOrdered, NoEventUnindexed, SavedProgressHolds, AtMost
<1>4. RangesResolved' /\ PassEnds'
  BY <1>1 DEF ReadNewest, storeVars, RangesResolved, PassEnds, InPass
<1>5. PositionsHold'
  <2>1. \A e \in Wanted : e.contract = c => e \in events
    BY DEF ReadNewest, PositionsHold, InPass, Wanted, PrintedBy
  <2> QED
    BY <1>1, <2>1 DEF ReadNewest, storeVars, PositionsHold, InPass
<1> QED
  BY <1>2, <1>3, <1>4, <1>5

\* The rows up to a height are indexed: every wanted event up to it is stored.
LEMMA IndexRowsInv ==
    ASSUME DefinitionsInv, Latest \notin Ends,
           NEW to \in Nat, to <= anchor, step \in {"syncing", "final"}, step' = step,
           \A e \in Wanted : e.height <= to => e \in events,
           IndexRows(to)
    PROVE  DefinitionsInv'
<1> USE DEF DefinitionsInv
<1>1. PICK last \in events :
        /\ AtMost(last.height, to)
        /\ checkpoint = None \/ checkpoint < last.height
        /\ handled' = handled \cup
             {e \in {f \in events : /\ checkpoint = None \/ checkpoint < f.height
                                   /\ f.height <= last.height} :
                e.contract \in Defined /\ InRange(e.contract, e.height)}
        /\ checkpoint' = last.height
  BY DEF IndexRows
<1>2. /\ Printed' = Printed /\ Tip' = Tip /\ Defined' = Defined
      /\ Wanted' = Wanted
  BY DEF IndexRows, Printed, Tip, Defined, Wanted
<1>3. /\ anchor # None /\ anchor \in Nat
      /\ last \in Printed /\ last.height \in Heights /\ last.height \in Nat
      /\ last.height <= to
      /\ checkpoint \in Nat \cup {None}
  BY <1>1, DefinitionsAssumption
  DEF PositionsHold, InPass, DefinitionsTypeOK, Printed, Event, AtMost, Heights
<1>4. DefinitionsTypeOK'
  BY <1>1, <1>2, <1>3 DEF IndexRows, syncVars, DefinitionsTypeOK
<1>5. HeightsOrdered' /\ RangesResolved' /\ SavedProgressHolds'
  BY <1>1, <1>2, <1>3, DefinitionsAssumption
  DEF IndexRows, syncVars, HeightsOrdered, RangesResolved, SavedProgressHolds, AtMost
<1>6. PositionsHold' /\ PassEnds'
  BY <1>2 DEF IndexRows, syncVars, PositionsHold, PassEnds, InPass
<1>7. NoEventUnindexed'
  <2> SUFFICES ASSUME NEW e \in Wanted, e.height <= last.height
               PROVE  e \in handled'
    BY <1>1, <1>2 DEF NoEventUnindexed
  <2>1. e \in Printed /\ e.contract \in Defined /\ e.height \in Nat
    BY PrintedHeight DEF Wanted
  <2>2. e \in events
    BY <1>3, <2>1
  <2>3. InRange(e.contract, e.height)
    BY <2>1, WantedInRange DEF RangesResolved
  <2>4. CASE checkpoint # None /\ e.height <= checkpoint
    BY <1>1, <2>4 DEF NoEventUnindexed
  <2>5. CASE checkpoint = None \/ checkpoint < e.height
    BY <1>1, <2>1, <2>2, <2>3, <2>5
  <2> QED
    BY <1>3, <2>1, <2>4, <2>5
<1> QED
  BY <1>4, <1>5, <1>6, <1>7

\* A safe height: no unfinished contract is below it.
LEMMA IndexSafeHeightInv ==
    ASSUME DefinitionsInv, Latest \notin Ends, IndexSafeHeight
    PROVE  DefinitionsInv'
<1> USE DEF DefinitionsInv
<1>1. PICK height \in {position[c] : c \in unfinished} :
        IsSafeHeight(height) /\ IndexRows(MinOf(height, anchor))
  BY DEF IndexSafeHeight
<1>2. /\ step = "syncing" /\ step' = step
      /\ anchor \in Nat /\ height \in Nat
      /\ MinOf(height, anchor) \in Nat
      /\ MinOf(height, anchor) <= anchor /\ MinOf(height, anchor) <= height
  BY <1>1
  DEF IndexSafeHeight, PositionsHold, InPass, DefinitionsTypeOK, MinOf, Defined
<1>3. ASSUME NEW e \in Wanted, e.height <= MinOf(height, anchor)
      PROVE  e \in events
  <2>1. e.height \in Nat /\ e.height <= anchor /\ e.height <= height
    BY <1>2, <1>3, PrintedHeight DEF Wanted
  <2>2. CASE e.contract \in unfinished
    <3>1. height <= position[e.contract] /\ position[e.contract] \in Nat
      BY <1>1, <2>2 DEF IsSafeHeight, DefinitionsTypeOK, Defined
    <3> QED
      BY <1>2, <2>1, <2>2, <3>1 DEF PositionsHold, InPass
  <2>3. CASE e.contract \notin unfinished
    BY <1>2, <2>1, <2>3 DEF PositionsHold, InPass
  <2> QED
    BY <2>2, <2>3
<1> QED
  BY <1>1, <1>2, <1>3, IndexRowsInv

LEMMA IndexRemainingInv ==
    ASSUME DefinitionsInv, Latest \notin Ends, IndexRemaining
    PROVE  DefinitionsInv'
<1> USE DEF DefinitionsInv
<1>1. /\ step = "final" /\ step' = step /\ unfinished = {}
      /\ anchor \in Nat /\ anchor <= anchor
      /\ IndexRows(anchor)
  BY DEF IndexRemaining, PassEnds, PositionsHold, InPass, DefinitionsTypeOK
<1>2. \A e \in Wanted : e.height <= anchor => e \in events
  BY <1>1 DEF PositionsHold, InPass
<1> QED
  BY <1>1, <1>2, IndexRowsInv

\* Those that read their newest page hold every event through the anchor.
LEMMA RaiseToTipInv ==
    ASSUME DefinitionsInv, Latest \notin Ends, RaiseToTip
    PROVE  DefinitionsInv'
<1> USE DEF DefinitionsInv
<1>1. /\ Printed' = Printed /\ Tip' = Tip /\ Defined' = Defined
      /\ Wanted' = Wanted
  BY DEF RaiseToTip, Printed, Tip, Defined, Wanted
<1>2. /\ step = "syncing" /\ step' = "final" /\ unfinished = {}
      /\ recorded # None /\ anchor # None /\ anchor \in Nat
      /\ newestRead \subseteq Contracts
  BY DEF RaiseToTip, RangesResolved, PositionsHold, InPass, DefinitionsTypeOK, Defined
<1>3. \A c \in Contracts :
        /\ progress'[c] \in Nat \cup {None}
        /\ progress[c] = None <=> progress'[c] = None
        /\ \/ progress'[c] = progress[c]
           \/ /\ c \in newestRead /\ AtMost(anchor, ends[c])
              /\ progress'[c] = anchor
  BY <1>2, DefinitionsAssumption
  DEF RaiseToTip, MaxOf, DefinitionsTypeOK, PositionsHold, InPass
<1>4. progress' \in [Contracts -> Nat \cup {None}]
  BY <1>3 DEF RaiseToTip
<1>5. DefinitionsTypeOK'
  BY <1>1, <1>2, <1>4 DEF RaiseToTip, syncVars, DefinitionsTypeOK, Steps
<1>6. HeightsOrdered' /\ RangesResolved' /\ NoEventUnindexed' /\ PassEnds'
  BY <1>1, <1>2, <1>3
  DEF RaiseToTip, syncVars, HeightsOrdered, RangesResolved, NoEventUnindexed, PassEnds,
      InPass
<1>7. PositionsHold'
  BY <1>1, <1>2, <1>3 DEF RaiseToTip, syncVars, PositionsHold, InPass
<1>8. SavedProgressHolds'
  <2> SUFFICES ASSUME NEW e \in Printed, e.contract \in Defined,
                      recorded[e.contract].start <= e.height,
                      progress'[e.contract] # None,
                      e.height <= progress'[e.contract], AtMost(e.height, anchor)
               PROVE  e \in events
    BY <1>1 DEF SavedProgressHolds, RaiseToTip, AtMost
  <2>1. e.contract \in Contracts /\ e.height \in Nat
    BY PrintedHeight
  <2>2. CASE progress'[e.contract] = progress[e.contract]
    BY <2>2 DEF SavedProgressHolds
  <2>3. CASE AtMost(anchor, ends[e.contract])
    <3>1. e.height <= anchor
      BY <1>2 DEF AtMost
    <3>2. /\ ends[e.contract] = recorded[e.contract].end
          /\ ends[e.contract] \in Nat \cup {None}
      BY <1>2, <2>1 DEF RangesResolved, DefinitionsTypeOK
    <3>3. e \in Wanted
      BY <1>2, <2>1, <2>3, <3>1, <3>2, DefinitionsAssumption DEF Wanted, AtMost
    <3> QED
      BY <1>2, <3>1, <3>3 DEF PositionsHold, InPass
  <2> QED
    BY <1>3, <2>1, <2>2, <2>3
<1> QED
  BY <1>5, <1>6, <1>7, <1>8

LEMMA EndPassInv ==
    ASSUME DefinitionsInv, EndPass
    PROVE  DefinitionsInv'
<1> USE DEF DefinitionsInv
<1>1. /\ Printed' = Printed /\ Tip' = Tip /\ Defined' = Defined
      /\ Wanted' = Wanted
  BY DEF EndPass, storeVars, Printed, Tip, Defined, Wanted
<1> QED
  BY <1>1
  DEF EndPass, storeVars, syncVars, DefinitionsTypeOK, Steps, HeightsOrdered,
      RangesResolved, PositionsHold, InPass, PassEnds, NoEventUnindexed,
      SavedProgressHolds, AtMost

LEMMA StopInv ==
    ASSUME DefinitionsInv, Stop
    PROVE  DefinitionsInv'
<1> USE DEF DefinitionsInv
<1>1. /\ Printed' = Printed /\ Tip' = Tip /\ Defined' = Defined
      /\ Wanted' = Wanted
  BY DEF Stop, storeVars, Printed, Tip, Defined, Wanted
<1>2. DefinitionsTypeOK'
  BY <1>1 DEF Stop, storeVars, DefinitionsTypeOK, Steps
<1> QED
  BY <1>1, <1>2
  DEF Stop, storeVars, HeightsOrdered, RangesResolved, PositionsHold, InPass, PassEnds,
      NoEventUnindexed, SavedProgressHolds, AtMost

\* A new block is above the anchor, and so above all that is promised.
LEMMA MineInv ==
    ASSUME DefinitionsInv, Mine
    PROVE  DefinitionsInv'
<1> USE DEF DefinitionsInv
<1>1. PICK printing \in SUBSET Contracts : chain' = Append(chain, printing)
  BY DEF Mine
<1>2. /\ chain' \in Seq(SUBSET Contracts) /\ Tip' = Tip + 1 /\ Tip \in Nat
      /\ \A h \in 1..Tip : chain'[h] = chain[h]
  BY <1>1, TipIsHeight DEF DefinitionsTypeOK, Tip
<1>3. Printed \subseteq Printed'
  BY <1>2, DefinitionsAssumption DEF Printed, Event, Heights
<1>4. \A e \in Printed' : e.height \in Nat /\ (e.height <= Tip => e \in Printed)
  BY <1>2, DefinitionsAssumption DEF Printed, Event, Heights
<1>5. Defined' = Defined
  BY DEF Mine, storeVars, Defined
<1>6. \A e \in Wanted' : e.height \in Nat /\ (e.height <= Tip => e \in Wanted)
  BY <1>4, <1>5 DEF Wanted, Mine, storeVars
<1>7. DefinitionsTypeOK'
  BY <1>2, <1>3, <1>5 DEF Mine, storeVars, syncVars, DefinitionsTypeOK
<1>8. HeightsOrdered' /\ RangesResolved' /\ PassEnds'
  BY <1>2, <1>5
  DEF Mine, storeVars, syncVars, HeightsOrdered, RangesResolved, PassEnds, InPass,
      DefinitionsTypeOK
<1>9. anchor \in Nat \cup {None} /\ checkpoint \in Nat \cup {None}
  BY DEF DefinitionsTypeOK, Heights
<1>10. NoEventUnindexed'
  BY <1>2, <1>6, <1>9 DEF Mine, storeVars, NoEventUnindexed, HeightsOrdered
<1>11. SavedProgressHolds'
  BY <1>2, <1>4, <1>5, <1>9
  DEF Mine, storeVars, SavedProgressHolds, HeightsOrdered, AtMost, Defined
<1>12. PositionsHold'
  <2>1. ASSUME NEW e \in Wanted', InPass, e.contract \in unfinished,
               e.height <= position[e.contract]
        PROVE  e \in events
    <3>1. /\ e.contract \in Defined /\ e.contract \in Contracts
          /\ recorded[e.contract].start <= e.height
      BY <1>5 DEF Wanted, Mine, storeVars, Defined
    <3>2. /\ position[e.contract] \in Nat
          /\ recorded[e.contract].start \in Nat
      BY <3>1, DefinedRange DEF DefinitionsTypeOK
    <3>3. position[e.contract] <= Tip
      BY <1>6, <2>1, <3>1, <3>2 DEF PositionsHold
    <3>4. e \in Wanted
      BY <1>2, <1>6, <2>1, <3>2, <3>3
    <3> QED
      BY <2>1, <3>4 DEF PositionsHold
  <2>2. ASSUME NEW e \in Wanted', InPass, e.contract \notin unfinished,
               e.height <= anchor
        PROVE  e \in events
    BY <1>2, <1>6, <1>9, <2>2 DEF PositionsHold, HeightsOrdered
  <2>3. \A c \in unfinished : position[c] \in Nat
    BY DEF DefinitionsTypeOK, Defined
  <2> QED
    BY <1>2, <2>1, <2>2, <2>3 DEF Mine, storeVars, syncVars, PositionsHold, InPass
<1> QED
  BY <1>7, <1>8, <1>10, <1>11, <1>12

-----------------------------------------------------------------------------

THEOREM NextInv ==
    ASSUME DefinitionsInv, Latest \notin Ends, [DefinitionsNext]_definitionsVars
    PROVE  DefinitionsInv'
<1>1. CASE Call
  BY <1>1, CallInv
<1>2. CASE Resolve
  BY <1>2, ResolveInv
<1>3. CASE BeginPass
  BY <1>3, BeginPassInv
<1>4. ASSUME NEW c \in Contracts, FindNothing(c)
      PROVE  DefinitionsInv'
  BY <1>4, FindNothingInv
<1>5. ASSUME NEW c \in Contracts, StorePages(c)
      PROVE  DefinitionsInv'
  BY <1>5, StorePagesInv
<1>6. ASSUME NEW c \in Contracts, ReadNewest(c)
      PROVE  DefinitionsInv'
  BY <1>6, ReadNewestInv
<1>7. CASE IndexSafeHeight
  BY <1>7, IndexSafeHeightInv
<1>8. CASE RaiseToTip
  BY <1>8, RaiseToTipInv
<1>9. CASE IndexRemaining
  BY <1>9, IndexRemainingInv
<1>10. CASE EndPass
  BY <1>10, EndPassInv
<1>11. CASE Stop
  BY <1>11, StopInv
<1>12. CASE Mine
  BY <1>12, MineInv
<1>13. CASE UNCHANGED definitionsVars
  BY <1>13
  DEF DefinitionsInv, definitionsVars, storeVars, syncVars, DefinitionsTypeOK,
      HeightsOrdered, RangesResolved, PositionsHold, InPass, PassEnds, NoEventUnindexed,
      SavedProgressHolds, Wanted, Defined, Printed, Tip, AtMost
<1> QED
  BY <1>1, <1>2, <1>3, <1>4, <1>5, <1>6, <1>7, <1>8, <1>9, <1>10, <1>11, <1>12, <1>13
  DEF DefinitionsNext

\* A pass that ended handled every wanted event through the anchor.
LEMMA InvComplete ==
    ASSUME DefinitionsInv, Latest \notin Ends
    PROVE  PassIsComplete
<1> USE DEF DefinitionsInv
<1> SUFFICES ASSUME step = "passed", NEW e \in Printed, e.contract \in Defined,
                    InRange(e.contract, e.height), e.height <= anchor
             PROVE  e \in handled
  BY DEF PassIsComplete
<1>1. e \in Wanted
  BY WantedInRange DEF RangesResolved
<1>2. e \in events
  BY <1>1 DEF PositionsHold, InPass, PassEnds
<1>3. checkpoint # None /\ e.height <= checkpoint
  BY <1>2 DEF PassEnds
<1> QED
  BY <1>1, <1>3 DEF NoEventUnindexed

\* definition.ts:13-18: no accepted change of the definitions, in whatever
\* order, and no stop leaves a wanted event unindexed below the checkpoint.
THEOREM DefinitionsLoseNoEvent ==
    ASSUME Latest \notin Ends
    PROVE  DefinitionsSpec => []NoEventUnindexed
<1>1. DefinitionsInit => DefinitionsInv
  BY InitInv
<1>2. DefinitionsInv /\ [DefinitionsNext]_definitionsVars => DefinitionsInv'
  BY NextInv
<1>3. DefinitionsInv => NoEventUnindexed
  BY DEF DefinitionsInv
<1> QED
  BY <1>1, <1>2, <1>3, PTL DEF DefinitionsSpec

\* The saved progress of a defined contract stands above stored events only,
\* whatever ranges it had.
THEOREM ProgressIsStored ==
    ASSUME Latest \notin Ends
    PROVE  DefinitionsSpec => []SavedProgressHolds
<1>1. DefinitionsInit => DefinitionsInv
  BY InitInv
<1>2. DefinitionsInv /\ [DefinitionsNext]_definitionsVars => DefinitionsInv'
  BY NextInv
<1>3. DefinitionsInv => SavedProgressHolds
  BY DEF DefinitionsInv
<1> QED
  BY <1>1, <1>2, <1>3, PTL DEF DefinitionsSpec

\* Every pass that completes handled all that its contracts' ranges hold.
THEOREM PassesComplete ==
    ASSUME Latest \notin Ends
    PROVE  DefinitionsSpec => []PassIsComplete
<1>1. DefinitionsInit => DefinitionsInv
  BY InitInv
<1>2. DefinitionsInv /\ [DefinitionsNext]_definitionsVars => DefinitionsInv'
  BY NextInv
<1>3. DefinitionsInv => PassIsComplete
  BY InvComplete
<1> QED
  BY <1>1, <1>2, <1>3, PTL DEF DefinitionsSpec

\* Every variable keeps its kind.
THEOREM DefinitionsTypeCorrect ==
    ASSUME Latest \notin Ends
    PROVE  DefinitionsSpec => []DefinitionsTypeOK
<1>1. DefinitionsInit => DefinitionsInv
  BY InitInv
<1>2. DefinitionsInv /\ [DefinitionsNext]_definitionsVars => DefinitionsInv'
  BY NextInv
<1>3. DefinitionsInv => DefinitionsTypeOK
  BY DEF DefinitionsInv
<1> QED
  BY <1>1, <1>2, <1>3, PTL DEF DefinitionsSpec

=============================================================================

--------------------------- MODULE ServiceProofs ---------------------------
(***************************************************************************)
(* Proofs about the handle and its overlapping calls: the phase matches    *)
(* the calls, it says ready only after a pass, and no print whose writes   *)
(* stand is handled again unless calls overlapped, wherever a pass rewinds *)
(* to and whatever it finds stored.  For any number of calls, handles,     *)
(* blocks and crashes.                                                     *)
(***************************************************************************)
EXTENDS Service, FiniteSetTheorems, TLAPS

\* The variables hold values of their kinds.  (unreported, which a crash moves
\* by a sum over the calls, is left to the runs.)
Typed ==
    /\ handle \in Handle
    /\ phase \in IndexerPhase
    /\ active \in Nat
    /\ calls \in [Calls -> Call]
    /\ passed \in BOOLEAN
    /\ database \in Databases
    /\ tip \in Heights
    /\ checkpoint \in 0..MaxHeight
    /\ anchor \in 0..MaxHeight
    /\ handled \in SUBSET Heights
    /\ overlapped \in BOOLEAN

\* No call is active while a handle is built, and each of an open one is
\* counted; without overlap there is at most one.
CallsCounted ==
    /\ handle \in {"open", "closing", "closed"} => active = Cardinality(Active)
    /\ handle \notin {"open", "closing", "closed"} => Active = {}
    /\ ~overlapped => \A c, d \in Active : c = d

\* The phase follows the calls, and names a success only after a pass.
PhaseFollows ==
    handle \in {"open", "closing"} =>
        /\ Active = {} <=> phase \in {"idle", "done", "failed"}
        /\ (\E c \in Active : calls[c].following) => phase = "live"
        /\ phase = "live" /\ ~overlapped => \E c \in Active : calls[c].kind = "live"
        /\ phase \in {"live", "done"} => passed

\* A call holds rows while it indexes them, and its batch is taken from them.
CallSound(call) ==
    /\ call.at \notin {"batch", "tx"} => call.rows = {}
    /\ call.at # "tx" => call.todo = {} /\ call.written = {}
    /\ call.at = "tx" =>
         /\ call.upto \in call.rows
         /\ call.todo \cup call.written \subseteq {h \in call.rows : h <= call.upto}
         /\ call.todo \cap call.written = {}

\* What a call is to index lies above the checkpoint, and a checkpoint it may
\* save again is the one that is stored.
Above(height, call) ==
    /\ \A h \in call.rows : h > height
    /\ call.at = "batch" /\ call.rows = {} => call.read = height

\* Without overlap the writes that stand end at the checkpoint, and the rows of
\* the call start above it.
HandledBelow ==
    ~overlapped =>
        /\ \A h \in handled : h <= checkpoint
        /\ \A c \in Calls : Above(checkpoint, calls[c])

ServiceInv ==
    /\ Typed
    /\ CallsCounted
    /\ PhaseFollows
    /\ \A c \in Calls : CallSound(calls[c])
    /\ HandledBelow

-----------------------------------------------------------------------------
(* Counting the active calls. *)

LEMMA ActiveIsFinite ==
    /\ IsFiniteSet(Active)
    /\ Cardinality(Active) \in Nat
    /\ Cardinality(Active) = 0 <=> Active = {}
BY ServiceAssumption, FS_Subset, FS_CardinalityType, FS_EmptySet DEF Active

LEMMA OneActive ==
    ASSUME NEW c \in Active
    PROVE  Cardinality(Active) = 1 <=> Active = {c}
<1>1. /\ Cardinality(Active \ {c}) = Cardinality(Active) - 1
      /\ IsFiniteSet(Active \ {c})
  BY ActiveIsFinite, FS_RemoveElement
<1>2. Cardinality(Active \ {c}) = 0 <=> Active \ {c} = {}
  BY <1>1, FS_EmptySet
<1> QED
  BY <1>1, <1>2, ActiveIsFinite

-----------------------------------------------------------------------------
(* The steps of a call that stays active. *)

\* It changes nothing of the counts.
LEMMA ActiveStays ==
    ASSUME Typed, NEW c \in Active, NEW call \in Call,
           call.at \in Working,
           call.kind = calls[c].kind,
           calls' = [calls EXCEPT ![c] = call]
    PROVE  /\ Active' = Active
           /\ calls' \in [Calls -> Call]
           /\ calls'[c] = call
           /\ \A d \in Calls \ {c} : calls'[d] = calls[d]
           /\ \A d \in Calls : calls'[d].kind = calls[d].kind
BY DEF Typed, Active

\* Without overlap the other calls are not active and hold no rows.
LEMMA OthersHoldNothing ==
    ASSUME ServiceInv, ~overlapped, NEW c \in Active, NEW d \in Calls \ {c}, NEW height
    PROVE  Above(height, calls[d])
<1>1. d \notin Active
  BY DEF ServiceInv, CallsCounted
<1>2. calls[d].at \notin {"batch", "tx"}
  BY <1>1 DEF Active, Working
<1> QED
  BY <1>2 DEF ServiceInv, CallSound, Above

\* What the invariant says of one call.
LEMMA OfCall ==
    ASSUME ServiceInv, NEW c \in Calls
    PROVE  /\ calls[c] \in Call
           /\ CallSound(calls[c])
           /\ ~overlapped => Above(checkpoint, calls[c])
BY DEF ServiceInv, Typed, HandledBelow

\* The store after a step of a call.
StoreFits(call) ==
    /\ checkpoint' \in 0..MaxHeight
    /\ anchor' \in 0..MaxHeight
    /\ handled' \in SUBSET Heights
    /\ ~overlapped =>
         /\ \A h \in handled' : h <= checkpoint'
         /\ Above(checkpoint', call)

\* A step of a call keeps the invariant if the call stays sound and the store
\* fits it.
LEMMA CallSteps ==
    ASSUME ServiceInv, NEW c \in Active, NEW call \in Call,
           call.at \in Working,
           call.kind = calls[c].kind,
           call.following = calls[c].following,
           CallSound(call),
           calls' = [calls EXCEPT ![c] = call],
           UNCHANGED kept,
           StoreFits(call)
    PROVE  ServiceInv'
<1>1. c \in Calls /\ Active \subseteq Calls
  BY DEF Active
<1>2. /\ Active' = Active
      /\ calls' \in [Calls -> Call]
      /\ calls'[c] = call
      /\ \A d \in Calls \ {c} : calls'[d] = calls[d]
      /\ \A d \in Calls : calls'[d].kind = calls[d].kind
  BY ActiveStays DEF ServiceInv
<1>3. \A d \in Calls : calls'[d].following = calls[d].following
  BY <1>2
<1>4. UNCHANGED <<handle, phase, active, passed, overlapped, database, tip>>
  BY DEF kept, around, worldVars
<1>5. Typed'
  BY <1>2, <1>4 DEF ServiceInv, Typed, StoreFits
<1>6. CallsCounted'
  BY <1>2, <1>4 DEF ServiceInv, CallsCounted
<1>7. PhaseFollows'
  BY <1>1, <1>2, <1>3, <1>4 DEF ServiceInv, PhaseFollows
<1>8. (\A d \in Calls : CallSound(calls[d]))'
  BY <1>1, <1>2 DEF ServiceInv, CallSound
<1>9. HandledBelow'
  <2> SUFFICES ASSUME ~overlapped
               PROVE  /\ \A h \in handled' : h <= checkpoint'
                      /\ \A d \in Calls : Above(checkpoint', calls'[d])
    BY <1>4 DEF HandledBelow, Above
  <2>1. \A h \in handled' : h <= checkpoint'
    BY DEF StoreFits
  <2>2. ASSUME NEW d \in Calls
        PROVE  Above(checkpoint', calls'[d])
    <3>1. CASE d = c
      BY <1>2, <3>1 DEF StoreFits
    <3>2. CASE d # c
      BY <1>2, <3>2, OthersHoldNothing
    <3> QED
      BY <3>1, <3>2
  <2> QED
    BY <2>1, <2>2
<1> QED
  BY <1>5, <1>6, <1>7, <1>8, <1>9 DEF ServiceInv

\* A step that leaves the store alone.
LEMMA StoreStays ==
    ASSUME ServiceInv, NEW call, ~overlapped => Above(checkpoint, call), UNCHANGED storeVars
    PROVE  StoreFits(call)
<1>1. checkpoint' = checkpoint /\ anchor' = anchor /\ handled' = handled
  BY DEF storeVars
<1> QED
  BY <1>1 DEF ServiceInv, Typed, HandledBelow, StoreFits, Above

LEMMA Prepared ==
    ASSUME ServiceInv, NEW c \in Calls, Prepare(c) \/ TakeHead(c)
    PROVE  ServiceInv'
<1>1. /\ calls[c].at \in {"prepare", "follow"}
      /\ UNCHANGED kept /\ UNCHANGED storeVars
      /\ \/ calls' = [calls EXCEPT ![c].at = "reconcile", ![c].to = tip, ![c].news = FALSE]
         \/ calls' = [calls EXCEPT ![c].at = "reconcile", ![c].news = calls[c].kind = "live"]
  BY DEF Prepare, TakeHead
<1>2. PICK call :
          /\ \/ call = [calls[c] EXCEPT !.at = "reconcile", !.to = tip, !.news = FALSE]
             \/ call = [calls[c] EXCEPT !.at = "reconcile", !.news = calls[c].kind = "live"]
          /\ calls' = [calls EXCEPT ![c] = call]
  BY <1>1
<1>3. tip \in 0..MaxHeight /\ FALSE \in BOOLEAN /\ (calls[c].kind = "live") \in BOOLEAN
  BY ServiceAssumption DEF ServiceInv, Typed, Heights
<1>4. /\ call \in Call
      /\ call.at = "reconcile"
      /\ call.rows = calls[c].rows /\ call.todo = calls[c].todo
      /\ call.written = calls[c].written
      /\ call.kind = calls[c].kind /\ call.following = calls[c].following
  BY <1>2, <1>3, OfCall DEF Call, Stage, Working
<1>5. CallSound(call)
  BY <1>1, <1>4, OfCall DEF CallSound
<1>6. StoreFits(call)
  BY <1>1, <1>4, OfCall, StoreStays DEF Above
<1>7. c \in Active
  BY <1>1 DEF Active, Working
<1> QED
  BY <1>1, <1>2, <1>4, <1>5, <1>6, <1>7, CallSteps DEF Working

LEMMA Reconciled ==
    ASSUME ServiceInv, NEW c \in Calls, ReconcileWithCanonicalChain(c)
    PROVE  ServiceInv'
<1>1. /\ calls[c].at = "reconcile"
      /\ UNCHANGED kept
      /\ calls' = [calls EXCEPT ![c].at = "anchor"]
  BY DEF ReconcileWithCanonicalChain
<1>2. PICK height \in 0..MaxHeight : Rewind(height)
  BY DEF ReconcileWithCanonicalChain
<1>3. PICK call : call = [calls[c] EXCEPT !.at = "anchor"] /\ calls' = [calls EXCEPT ![c] = call]
  BY <1>1
<1>4. /\ call \in Call
      /\ call.at = "anchor"
      /\ call.rows = calls[c].rows /\ call.todo = calls[c].todo
      /\ call.written = calls[c].written
      /\ call.kind = calls[c].kind /\ call.following = calls[c].following
  BY <1>3, OfCall DEF Call, Stage, Working
<1>5. CallSound(call) /\ call.rows = {}
  BY <1>1, <1>4, OfCall DEF CallSound
<1>6. StoreFits(call)
  <2>1. /\ checkpoint \in 0..MaxHeight /\ anchor \in 0..MaxHeight /\ handled \subseteq Heights
        /\ ~overlapped => \A h \in handled : h <= checkpoint
    BY DEF ServiceInv, Typed, HandledBelow
  <2>2. /\ checkpoint' = IF checkpoint > height THEN height ELSE checkpoint
        /\ handled' = {h \in handled : h <= height}
        /\ anchor' = anchor
    BY <1>2 DEF Rewind
  <2>3. ~overlapped => \A h \in handled' : h <= checkpoint'
    BY <2>1, <2>2
  <2>4. checkpoint' \in 0..MaxHeight /\ handled' \in SUBSET Heights
    BY <2>1, <2>2
  <2> QED
    BY <1>4, <1>5, <2>1, <2>2, <2>3, <2>4 DEF StoreFits, Above
<1>7. c \in Active
  BY <1>1 DEF Active, Working
<1> QED
  BY <1>1, <1>3, <1>4, <1>5, <1>6, <1>7, CallSteps DEF Working

LEMMA AnchorSet ==
    ASSUME ServiceInv, NEW c \in Calls, SetAnchor(c)
    PROVE  ServiceInv'
<1>1. /\ calls[c].at = "anchor"
      /\ anchor' \in {calls[c].to, 0}
      /\ calls' = [calls EXCEPT ![c].at = "pass"]
      /\ UNCHANGED kept /\ checkpoint' = checkpoint /\ handled' = handled
  BY DEF SetAnchor
<1>2. PICK call : call = [calls[c] EXCEPT !.at = "pass"] /\ calls' = [calls EXCEPT ![c] = call]
  BY <1>1
<1>3. /\ call \in Call
      /\ call.at = "pass"
      /\ call.rows = calls[c].rows /\ call.todo = calls[c].todo
      /\ call.written = calls[c].written
      /\ call.kind = calls[c].kind /\ call.following = calls[c].following
  BY <1>2, OfCall DEF Call, Stage, Working
<1>4. CallSound(call)
  BY <1>1, <1>3, OfCall DEF CallSound
<1>5. StoreFits(call)
  <2>1. anchor' \in 0..MaxHeight
    BY <1>1, ServiceAssumption, OfCall DEF Call
  <2> QED
    BY <1>1, <1>3, <2>1, OfCall DEF ServiceInv, Typed, HandledBelow, StoreFits, Above
<1>6. c \in Active
  BY <1>1 DEF Active, Working
<1> QED
  BY <1>1, <1>2, <1>3, <1>4, <1>5, <1>6, CallSteps DEF Working

LEMMA RowsRead ==
    ASSUME ServiceInv, NEW c \in Calls, IndexSafeHeight(c) \/ IndexToTip(c)
    PROVE  ServiceInv'
<1>1. /\ calls[c].to \in 0..MaxHeight /\ calls[c].safe \in 0..MaxHeight /\ MaxHeight \in Nat
      /\ Cap(c) \in 0..MaxHeight
  BY ServiceAssumption, OfCall DEF Call, Cap
<1>2. PICK safe \in 0..MaxHeight, last \in BOOLEAN : ReadRows(c, safe, last)
  <2>1. CASE IndexSafeHeight(c)
    <3>1. PICK safe \in (calls[c].safe + 1)..Cap(c) : ReadRows(c, safe, FALSE)
      BY <2>1 DEF IndexSafeHeight
    <3>2. safe \in 0..MaxHeight
      BY <1>1
    <3> QED
      BY <3>1, <3>2
  <2>2. CASE IndexToTip(c)
    BY <1>1, <2>2 DEF IndexToTip
  <2> QED
    BY <2>1, <2>2
<1>3. calls[c].at = "pass" /\ UNCHANGED kept /\ UNCHANGED storeVars
  BY <1>2 DEF ReadRows
<1>4. PICK rows \in SUBSET {h \in Heights : checkpoint < h /\ h <= safe} :
          calls' = [calls EXCEPT ![c].at = "batch", ![c].safe = safe, ![c].last = last,
                                 ![c].read = checkpoint, ![c].rows = rows]
  BY <1>2 DEF ReadRows
<1>5. PICK call :
          /\ call = [calls[c] EXCEPT !.at = "batch", !.safe = safe, !.last = last,
                                     !.read = checkpoint, !.rows = rows]
          /\ calls' = [calls EXCEPT ![c] = call]
  BY <1>4
<1>6. /\ call \in Call
      /\ call.at = "batch" /\ call.read = checkpoint /\ call.rows = rows
      /\ call.todo = calls[c].todo /\ call.written = calls[c].written
      /\ call.kind = calls[c].kind /\ call.following = calls[c].following
  <2>1. rows \in SUBSET Heights /\ checkpoint \in 0..MaxHeight
    BY DEF ServiceInv, Typed
  <2> QED
    BY <1>5, <2>1, OfCall DEF Call, Stage, Working
<1>7. CallSound(call)
  BY <1>3, <1>6, OfCall DEF CallSound
<1>8. StoreFits(call)
  <2>1. \A h \in rows : h > checkpoint
    BY DEF ServiceInv, Typed, Heights
  <2>2. Above(checkpoint, call)
    BY <1>6, <2>1 DEF Above
  <2> QED
    BY <1>3, <2>2, StoreStays
<1>9. c \in Active
  BY <1>3 DEF Active, Working
<1> QED
  BY <1>3, <1>5, <1>6, <1>7, <1>8, <1>9, CallSteps DEF Working

\* Without a row, the checkpoint may be saved as it was read.
LEMMA NothingIndexed ==
    ASSUME ServiceInv, NEW c \in Calls, NothingToIndex(c) \/ Confirm(c)
    PROVE  ServiceInv'
<1>1. /\ calls[c].at = "batch" /\ calls[c].rows = {}
      /\ UNCHANGED kept
      /\ calls' = [calls EXCEPT ![c].at = "pass"]
      /\ checkpoint' = checkpoint \/ checkpoint' = calls[c].read
      /\ anchor' = anchor /\ handled' = handled
  BY DEF NothingToIndex, Confirm, storeVars
<1>2. PICK call : call = [calls[c] EXCEPT !.at = "pass"] /\ calls' = [calls EXCEPT ![c] = call]
  BY <1>1
<1>3. /\ call \in Call
      /\ call.at = "pass" /\ call.rows = {}
      /\ call.todo = calls[c].todo /\ call.written = calls[c].written
      /\ call.kind = calls[c].kind /\ call.following = calls[c].following
  BY <1>1, <1>2, OfCall DEF Call, Stage, Working
<1>4. CallSound(call)
  BY <1>1, <1>3, OfCall DEF CallSound
<1>5. StoreFits(call)
  <2>1. ~overlapped => checkpoint' = checkpoint
    BY <1>1, OfCall DEF Above
  <2>2. checkpoint' \in 0..MaxHeight
    BY <1>1, OfCall DEF ServiceInv, Typed, Call
  <2> QED
    BY <1>1, <1>3, <2>1, <2>2 DEF ServiceInv, Typed, HandledBelow, StoreFits, Above
<1>6. c \in Active
  BY <1>1 DEF Active, Working
<1> QED
  BY <1>1, <1>2, <1>3, <1>4, <1>5, <1>6, CallSteps DEF Working

LEMMA BatchBegun ==
    ASSUME ServiceInv, NEW c \in Calls, BeginBatch(c)
    PROVE  ServiceInv'
<1>1. calls[c].at = "batch" /\ UNCHANGED kept /\ UNCHANGED storeVars
  BY DEF BeginBatch
<1>2. PICK upto \in calls[c].rows :
          calls' = [calls EXCEPT ![c].at = "tx", ![c].upto = upto, ![c].todo = Batch(c, upto)]
  BY DEF BeginBatch
<1>3. PICK call :
          /\ call = [calls[c] EXCEPT !.at = "tx", !.upto = upto, !.todo = Batch(c, upto)]
          /\ calls' = [calls EXCEPT ![c] = call]
  BY <1>2
<1>4. /\ calls[c].rows \subseteq Heights
      /\ upto \in 0..MaxHeight
      /\ Batch(c, upto) = {h \in calls[c].rows : h <= upto}
  BY OfCall, ServiceAssumption DEF Call, Heights, Batch
<1>5. /\ call \in Call
      /\ call.at = "tx" /\ call.upto = upto /\ call.todo = {h \in calls[c].rows : h <= upto}
      /\ call.rows = calls[c].rows /\ call.written = calls[c].written
      /\ call.kind = calls[c].kind /\ call.following = calls[c].following
  <2>1. Batch(c, upto) \in SUBSET Heights
    BY <1>4
  <2> QED
    BY <1>3, <1>4, <2>1, OfCall DEF Call, Stage, Working
<1>6. CallSound(call)
  <2>1. call.written = {}
    BY <1>1, <1>5, OfCall DEF CallSound
  <2> QED
    BY <1>5, <2>1 DEF CallSound
<1>7. StoreFits(call)
  BY <1>1, <1>5, OfCall, StoreStays DEF Above
<1>8. c \in Active
  BY <1>1 DEF Active, Working
<1> QED
  BY <1>1, <1>3, <1>5, <1>6, <1>7, <1>8, CallSteps DEF Working

LEMMA RowExecuted ==
    ASSUME ServiceInv, NEW c \in Calls, SkipRow(c) \/ HandleRow(c)
    PROVE  ServiceInv'
<1>1. UNCHANGED kept /\ UNCHANGED storeVars
  BY DEF SkipRow, HandleRow
<1>2. PICK h \in Heights :
          /\ NextRow(c, h)
          /\ \/ calls' = [calls EXCEPT ![c].todo = @ \ {h}]
             \/ calls' = [calls EXCEPT ![c].todo = @ \ {h}, ![c].written = @ \cup {h}]
  BY DEF SkipRow, HandleRow
<1>3. calls[c].at = "tx" /\ h \in calls[c].todo
  BY <1>2 DEF NextRow
<1>4. PICK call :
          /\ \/ call = [calls[c] EXCEPT !.todo = calls[c].todo \ {h}]
             \/ call = [calls[c] EXCEPT !.todo = calls[c].todo \ {h},
                                        !.written = calls[c].written \cup {h}]
          /\ calls' = [calls EXCEPT ![c] = call]
  BY <1>2
<1>5. /\ call \in Call
      /\ call.at = "tx" /\ call.upto = calls[c].upto /\ call.rows = calls[c].rows
      /\ call.todo = calls[c].todo \ {h}
      /\ call.written = calls[c].written \/ call.written = calls[c].written \cup {h}
      /\ call.kind = calls[c].kind /\ call.following = calls[c].following
  <2>1. calls[c].todo \ {h} \in SUBSET Heights /\ calls[c].written \cup {h} \in SUBSET Heights
    BY OfCall DEF Call
  <2> QED
    BY <1>3, <1>4, <2>1, OfCall DEF Call
<1>6. CallSound(call)
  BY <1>3, <1>5, OfCall DEF CallSound
<1>7. StoreFits(call)
  BY <1>1, <1>3, <1>5, OfCall, StoreStays DEF Above
<1>8. c \in Active
  BY <1>3 DEF Active, Working
<1> QED
  BY <1>1, <1>4, <1>5, <1>6, <1>7, <1>8, CallSteps DEF Working

\* A batch that commits: the writes of its rows stand, the checkpoint is its
\* last row, and the rows that are left lie above it.
LEMMA BatchCommitted ==
    ASSUME ServiceInv, NEW c \in Calls, CommitBatch(c)
    PROVE  ServiceInv'
<1>1. /\ calls[c].at = "tx" /\ calls[c].todo = {}
      /\ UNCHANGED kept
      /\ checkpoint' = calls[c].upto
      /\ handled' = handled \cup calls[c].written
      /\ anchor' = anchor
  BY DEF CommitBatch, Commit, Apply
<1>2. PICK rest :
          /\ rest = {h \in calls[c].rows : h > calls[c].upto}
          /\ calls' = [calls EXCEPT
                 ![c].at = IF rest = {} THEN "pass" ELSE "batch", ![c].rows = rest,
                 ![c].upto = 0, ![c].written = {}, ![c].count = @ + Counted(c)]
  BY DEF CommitBatch
<1>3. PICK call :
          /\ call = [calls[c] EXCEPT
                 !.at = IF rest = {} THEN "pass" ELSE "batch", !.rows = rest,
                 !.upto = 0, !.written = {}, !.count = calls[c].count + Counted(c)]
          /\ calls' = [calls EXCEPT ![c] = call]
  BY <1>2
<1>4. /\ calls[c] \in Call
      /\ calls[c].rows \subseteq Heights /\ calls[c].written \subseteq Heights
      /\ calls[c].count \in Nat
      /\ calls[c].upto \in calls[c].rows
      /\ calls[c].written \subseteq {h \in calls[c].rows : h <= calls[c].upto}
  BY <1>1, OfCall DEF Call, CallSound
<1>5. Counted(c) \in Nat
  <2>1. IsFiniteSet(Heights)
    BY ServiceAssumption, FS_Interval DEF Heights
  <2> QED
    BY <1>4, <2>1, FS_Subset, FS_CardinalityType DEF Counted
<1>6. /\ call \in Call
      /\ call.at = IF rest = {} THEN "pass" ELSE "batch"
      /\ call.rows = rest /\ call.written = {} /\ call.todo = {}
      /\ call.kind = calls[c].kind /\ call.following = calls[c].following
  <2>1. /\ rest \in SUBSET Heights /\ {} \in SUBSET Heights /\ 0 \in 0..MaxHeight
        /\ calls[c].count + Counted(c) \in Nat
        /\ (IF rest = {} THEN "pass" ELSE "batch") \in Stage
    <3>1. rest \in SUBSET Heights
      BY <1>2, <1>4
    <3>2. 0 \in 0..MaxHeight
      BY ServiceAssumption
    <3>3. calls[c].count + Counted(c) \in Nat
      BY <1>4, <1>5
    <3>4. (IF rest = {} THEN "pass" ELSE "batch") \in Stage
      BY DEF Stage, Working
    <3> QED
      BY <3>1, <3>2, <3>3, <3>4
  <2>2. calls[c].todo = {}
    BY <1>1
  <2> QED
    BY <1>3, <1>4, <2>1, <2>2 DEF Call
<1>7. CallSound(call)
  BY <1>6 DEF CallSound
<1>8. StoreFits(call)
  <2>1. checkpoint' \in 0..MaxHeight /\ anchor' \in 0..MaxHeight /\ handled' \in SUBSET Heights
    <3>1. calls[c].upto \in Heights /\ handled \subseteq Heights /\ anchor \in 0..MaxHeight
      BY <1>4 DEF ServiceInv, Typed
    <3>2. calls[c].upto \in 0..MaxHeight
      BY <3>1, ServiceAssumption DEF Heights
    <3> QED
      BY <1>1, <1>4, <3>1, <3>2
  <2>2. ASSUME ~overlapped
        PROVE  /\ \A h \in handled' : h <= checkpoint'
               /\ Above(checkpoint', call)
    <3>1. /\ checkpoint < calls[c].upto
          /\ \A h \in handled : h <= checkpoint
      <4>1. Above(checkpoint, calls[c])
        BY <2>2, OfCall
      <4>2. \A h \in calls[c].rows : h > checkpoint
        BY <4>1 DEF Above
      <4> QED
        BY <1>4, <2>2, <4>2 DEF ServiceInv, HandledBelow
    <3>2. /\ checkpoint \in Int /\ calls[c].upto \in Int
          /\ \A h \in handled : h \in Int
      <4>1. checkpoint \in 0..MaxHeight /\ handled \subseteq Heights
        BY DEF ServiceInv, Typed
      <4>2. calls[c].upto \in Heights
        BY <1>4
      <4> QED
        BY <4>1, <4>2, ServiceAssumption DEF Heights
    <3>3. \A h \in handled : h <= calls[c].upto
      BY <3>1, <3>2
    <3>4. \A h \in handled' : h <= checkpoint'
      BY <1>1, <1>4, <3>3
    <3>5. Above(checkpoint', call)
      BY <1>1, <1>2, <1>6 DEF Above
    <3> QED
      BY <3>4, <3>5
  <2> QED
    BY <2>1, <2>2 DEF StoreFits
<1>9. c \in Active
  BY <1>1 DEF Active, Working
<1> QED
  BY <1>1, <1>3, <1>6, <1>7, <1>8, <1>9, CallSteps DEF Working

LEMMA HeadSkipped ==
    ASSUME ServiceInv, NEW c \in Calls, SkipHead(c)
    PROVE  ServiceInv'
<1>1. /\ calls[c].at \in {"reconcile", "pass"} /\ calls[c].following
      /\ UNCHANGED kept /\ UNCHANGED storeVars
      /\ calls' = [calls EXCEPT ![c].at = "follow", ![c].following = TRUE, ![c].safe = 0,
                                ![c].last = FALSE, ![c].read = 0, ![c].count = 0]
  BY DEF SkipHead, NoPass
<1>2. PICK call :
          /\ call = [calls[c] EXCEPT !.at = "follow", !.following = TRUE, !.safe = 0,
                                     !.last = FALSE, !.read = 0, !.count = 0]
          /\ calls' = [calls EXCEPT ![c] = call]
  BY <1>1
<1>3. /\ call \in Call
      /\ call.at = "follow" /\ call.following = TRUE
      /\ call.rows = calls[c].rows /\ call.todo = calls[c].todo
      /\ call.written = calls[c].written /\ call.kind = calls[c].kind
  <2>1. 0 \in 0..MaxHeight /\ 0 \in Nat
    BY ServiceAssumption
  <2> QED
    BY <1>2, <2>1, OfCall DEF Call, Stage, Working
<1>4. CallSound(call)
  BY <1>1, <1>3, OfCall DEF CallSound
<1>5. StoreFits(call)
  BY <1>1, <1>3, OfCall, StoreStays DEF Above
<1>6. c \in Active
  BY <1>1 DEF Active, Working
<1>7. call.following = calls[c].following
  BY <1>1, <1>3, OfCall DEF Call
<1> QED
  BY <1>1, <1>2, <1>3, <1>4, <1>5, <1>6, <1>7, CallSteps DEF Working

-----------------------------------------------------------------------------
(* The end of a pass, and of a call. *)

LEMMA NoCallIs ==
    /\ NoCall \in Call
    /\ NoCall.at = "none" /\ NoCall.following = FALSE
    /\ NoCall.rows = {} /\ NoCall.todo = {} /\ NoCall.written = {}
<1>1. 0 \in 0..MaxHeight /\ {} \in SUBSET Heights /\ 0 \in Nat
  BY ServiceAssumption
<1>2. "none" \in Stage /\ "run" \in {"run", "live"} /\ FALSE \in BOOLEAN
  BY DEF Stage
<1> QED
  BY <1>1, <1>2 DEF NoCall, Call

\* Nothing of a call that is over is left.
LEMMA OverIs ==
    /\ Over \in Call
    /\ Over.at = "ended"
    /\ CallSound(Over)
    /\ \A height : Above(height, Over)
<1>1. Over \in Call /\ Over.at = "ended"
  BY NoCallIs DEF Over, Call, Stage
<1>2. Over.rows = {} /\ Over.todo = {} /\ Over.written = {}
  BY NoCallIs DEF Over, Call
<1> QED
  BY <1>1, <1>2 DEF CallSound, Above

\* A call is active under a handle that was built.
LEMMA BuiltForActive ==
    ASSUME ServiceInv, NEW c \in Active
    PROVE  /\ c \in Calls
           /\ handle \in {"open", "closing", "closed"}
           /\ active = Cardinality(Active)
           /\ active \in Nat \ {0}
BY ActiveIsFinite DEF ServiceInv, CallsCounted, Active

\* The call that ends leaves the count, and with the last one the phase is its
\* outcome.
LEMMA CallExits ==
    ASSUME ServiceInv, NEW c \in Active,
           NEW exit \in {"success", "failure", "interrupt"},
           Exit(c, exit),
           UNCHANGED <<around, storeVars>>,
           passed' \in BOOLEAN,
           passed => passed',
           exit = "success" => passed'
    PROVE  ServiceInv'
<1>1. c \in Calls /\ handle \in {"open", "closing", "closed"}
      /\ active = Cardinality(Active) /\ active \in Nat \ {0}
  BY BuiltForActive
<1>2. UNCHANGED <<handle, overlapped, checkpoint, anchor, handled, database, tip>>
  BY DEF around, storeVars, worldVars
<1>3. /\ calls' \in [Calls -> Call]
      /\ calls'[c] = Over
      /\ \A d \in Calls \ {c} : calls'[d] = calls[d]
  BY <1>1, OverIs DEF Exit, ServiceInv, Typed
<1>4. Active' = Active \ {c}
  BY <1>1, <1>3, OverIs DEF Active, Working
<1>5. /\ Cardinality(Active') = active - 1
      /\ active' = active - 1
      /\ active = 1 <=> Active = {c}
  BY <1>1, <1>4, ActiveIsFinite, OneActive, FS_RemoveElement DEF Exit, Release
<1>6. phase' = IF active = 1 THEN Outcome(exit) ELSE phase
  BY DEF Exit, Release
<1>7. Outcome(exit) \in {"done", "idle", "failed"} /\ (Outcome(exit) = "done" => exit = "success")
  BY DEF Outcome
<1>8. Typed'
  <2>1. phase' \in IndexerPhase
    BY <1>6, <1>7 DEF IndexerPhase, ServiceInv, Typed
  <2>2. active' \in Nat
    BY <1>1, <1>5
  <2> QED
    BY <1>2, <1>3, <2>1, <2>2 DEF ServiceInv, Typed
<1>9. CallsCounted'
  BY <1>1, <1>2, <1>4, <1>5 DEF ServiceInv, CallsCounted
<1>10. PhaseFollows'
  <2> SUFFICES ASSUME handle \in {"open", "closing"}
               PROVE  /\ Active' = {} <=> phase' \in {"idle", "done", "failed"}
                      /\ (\E d \in Active' : calls'[d].following) => phase' = "live"
                      /\ phase' = "live" /\ ~overlapped => \E d \in Active' : calls'[d].kind = "live"
                      /\ phase' \in {"live", "done"} => passed'
    BY <1>2 DEF PhaseFollows
  <2>1. /\ Active = {} <=> phase \in {"idle", "done", "failed"}
        /\ (\E d \in Active : calls[d].following) => phase = "live"
        /\ phase = "live" /\ ~overlapped => \E d \in Active : calls[d].kind = "live"
        /\ phase \in {"live", "done"} => passed
    BY DEF ServiceInv, PhaseFollows
  <2>2. Active \subseteq Calls
    BY DEF Active
  <2>3. CASE active = 1
    BY <1>4, <1>5, <1>6, <1>7, <2>3
  <2>4. CASE active # 1
    <3>1. phase' = phase /\ Active # {c} /\ Active' # {} /\ Active # {}
      BY <1>4, <1>5, <1>6, <2>4
    <3>2. overlapped
      BY <1>1, <3>1 DEF ServiceInv, CallsCounted
    <3>3. \A d \in Active' : calls'[d] = calls[d] /\ d \in Active
      BY <1>3, <1>4, <2>2
    <3> QED
      BY <2>1, <3>1, <3>2, <3>3
  <2> QED
    BY <2>3, <2>4
<1>11. (\A d \in Calls : CallSound(calls[d]))'
  <2> SUFFICES ASSUME NEW d \in Calls
               PROVE  CallSound(calls'[d])
    BY DEF CallSound
  <2> QED
    BY <1>3, OverIs DEF ServiceInv
<1>12. HandledBelow'
  <2> SUFFICES ASSUME ~overlapped, NEW d \in Calls
               PROVE  Above(checkpoint, calls'[d])
    BY <1>2 DEF ServiceInv, HandledBelow, Above
  <2> QED
    BY <1>3, OverIs DEF ServiceInv, HandledBelow
<1> QED
  BY <1>8, <1>9, <1>10, <1>11, <1>12 DEF ServiceInv

LEMMA CallEnds ==
    ASSUME ServiceInv, NEW c \in Calls,
           Finish(c) \/ RowFails(c) \/ Fail(c) \/ InterruptLive(c) \/ LoseDatabase(c)
    PROVE  ServiceInv'
<1>1. passed \in BOOLEAN
  BY DEF ServiceInv, Typed
<1>2. CASE Finish(c)
  <2>1. /\ passed' = TRUE /\ Exit(c, "success") /\ UNCHANGED <<around, storeVars>>
        /\ c \in Active
    BY <1>2 DEF Finish, PassDone, Active, Working
  <2> QED
    BY <2>1, CallExits
<1>3. CASE RowFails(c) \/ Fail(c) \/ InterruptLive(c) \/ LoseDatabase(c)
  <2>1. /\ c \in Active
        /\ \E exit \in {"failure", "interrupt"} : Exit(c, exit)
        /\ UNCHANGED <<around, passed, storeVars>>
    BY <1>3 DEF RowFails, NextRow, Fail, InterruptLive, LoseDatabase, Live, Active, Working
  <2> QED
    BY <1>1, <2>1, CallExits
<1> QED
  BY <1>2, <1>3

\* The pass of a live call is done: it follows the heads, and after its first
\* pass the phase is live.
LEMMA CallFollows ==
    ASSUME ServiceInv, NEW c \in Calls, Follow(c)
    PROVE  ServiceInv'
<1>1. /\ calls[c].at = "pass" /\ calls[c].kind = "live" /\ passed' = TRUE
      /\ calls' = [calls EXCEPT ![c].at = "follow", ![c].following = TRUE, ![c].safe = 0,
                                ![c].last = FALSE, ![c].read = 0, ![c].count = 0]
      /\ active' = active
      /\ phase' = IF calls[c].following THEN phase ELSE "live"
      /\ UNCHANGED <<around, storeVars>>
  BY DEF Follow, PassDone, NoPass
<1>2. PICK call :
          /\ call = [calls[c] EXCEPT !.at = "follow", !.following = TRUE, !.safe = 0,
                                     !.last = FALSE, !.read = 0, !.count = 0]
          /\ calls' = [calls EXCEPT ![c] = call]
  BY <1>1
<1>3. /\ call \in Call
      /\ call.at = "follow" /\ call.following = TRUE
      /\ call.rows = calls[c].rows /\ call.todo = calls[c].todo
      /\ call.written = calls[c].written /\ call.kind = calls[c].kind
  <2>1. 0 \in 0..MaxHeight /\ 0 \in Nat
    BY ServiceAssumption
  <2> QED
    BY <1>2, <2>1, OfCall DEF Call, Stage, Working
<1>4. CallSound(call) /\ call.rows = {}
  BY <1>1, <1>3, OfCall DEF CallSound
<1>5. c \in Active
  BY <1>1 DEF Active, Working
<1>6. /\ Active' = Active
      /\ calls' \in [Calls -> Call]
      /\ calls'[c] = call
      /\ \A d \in Calls \ {c} : calls'[d] = calls[d]
      /\ \A d \in Calls : calls'[d].kind = calls[d].kind
  BY <1>2, <1>3, <1>5, ActiveStays DEF ServiceInv, Working
<1>7. UNCHANGED <<handle, overlapped, checkpoint, anchor, handled, database, tip>>
  BY <1>1 DEF around, storeVars, worldVars
<1>8. handle \in {"open", "closing"} => phase' = "live"
  BY <1>1, <1>5 DEF ServiceInv, PhaseFollows
<1>9. Typed'
  <2>1. phase' \in IndexerPhase /\ active' \in Nat /\ passed' \in BOOLEAN
    BY <1>1 DEF ServiceInv, Typed, IndexerPhase
  <2> QED
    BY <1>6, <1>7, <2>1 DEF ServiceInv, Typed
<1>10. CallsCounted'
  BY <1>1, <1>6, <1>7 DEF ServiceInv, CallsCounted
<1>11. PhaseFollows'
  BY <1>1, <1>5, <1>6, <1>7, <1>8 DEF PhaseFollows
<1>12. (\A d \in Calls : CallSound(calls[d]))'
  <2> SUFFICES ASSUME NEW d \in Calls
               PROVE  CallSound(calls'[d])
    BY DEF CallSound
  <2> QED
    BY <1>4, <1>6 DEF ServiceInv
<1>13. HandledBelow'
  <2> SUFFICES ASSUME ~overlapped, NEW d \in Calls
               PROVE  Above(checkpoint, calls'[d])
    BY <1>7 DEF ServiceInv, HandledBelow, Above
  <2>1. Above(checkpoint, call)
    BY <1>3, <1>4 DEF Above
  <2> QED
    BY <1>6, <2>1 DEF ServiceInv, HandledBelow
<1> QED
  BY <1>9, <1>10, <1>11, <1>12, <1>13 DEF ServiceInv

-----------------------------------------------------------------------------
(* The handle, and what happens around it. *)

LEMMA CallStarts ==
    ASSUME ServiceInv, NEW c \in Calls, NEW kind \in {"run", "live"}, StartCall(c, kind)
    PROVE  ServiceInv'
<1>1. /\ handle = "open" /\ calls[c].at = "none"
      /\ calls' = [calls EXCEPT ![c] = [NoCall EXCEPT !.kind = kind, !.at = "prepare"]]
      /\ active' = active + 1
      /\ phase' = IF active = 0 THEN "backfill" ELSE phase
      /\ overlapped' = (overlapped \/ active > 0)
      /\ UNCHANGED <<handle, passed, checkpoint, anchor, handled, database, tip>>
  BY DEF StartCall, Acquire, storeVars, worldVars
<1>2. PICK call :
          /\ call = [NoCall EXCEPT !.kind = kind, !.at = "prepare"]
          /\ calls' = [calls EXCEPT ![c] = call]
  BY <1>1
<1>3. /\ call \in Call
      /\ call.at = "prepare" /\ call.following = FALSE /\ call.kind = kind
      /\ call.rows = {} /\ call.todo = {} /\ call.written = {}
  BY <1>2, NoCallIs DEF Call, Stage, Working
<1>4. /\ calls' \in [Calls -> Call]
      /\ calls'[c] = call
      /\ \A d \in Calls \ {c} : calls'[d] = calls[d]
  BY <1>2, <1>3 DEF ServiceInv, Typed
<1>5. c \notin Active /\ Active' = Active \cup {c} /\ Active \subseteq Calls
  BY <1>1, <1>3, <1>4 DEF Active, Working
<1>6. /\ active = Cardinality(Active) /\ active \in Nat
      /\ active = 0 <=> Active = {}
      /\ Cardinality(Active') = active + 1
  <2>1. active = Cardinality(Active)
    BY <1>1 DEF ServiceInv, CallsCounted
  <2>2. Cardinality(Active \cup {c}) = Cardinality(Active) + 1
    BY <1>5, ActiveIsFinite, FS_AddElement
  <2> QED
    BY <1>5, <2>1, <2>2, ActiveIsFinite
<1>7. overlapped \in BOOLEAN
  BY DEF ServiceInv, Typed
<1>8. ~overlapped' => ~overlapped /\ Active = {} /\ active = 0
  <2>1. overlapped \/ active > 0 => overlapped'
    BY <1>1, Zenon
  <2>2. active > 0 \/ active = 0
    BY <1>6
  <2> QED
    BY <1>6, <2>1, <2>2, Zenon
<1>9. Typed'
  <2>1. phase' \in IndexerPhase /\ active' \in Nat /\ overlapped' \in BOOLEAN
    BY <1>1, <1>6, <1>7 DEF IndexerPhase, ServiceInv, Typed
  <2> QED
    BY <1>1, <1>4, <2>1 DEF ServiceInv, Typed
<1>10. CallsCounted'
  BY <1>1, <1>5, <1>6, <1>8 DEF CallsCounted
<1>11. PhaseFollows'
  <2>1. \A d \in Active : calls'[d] = calls[d]
    BY <1>4, <1>5
  <2>2. /\ Active = {} <=> phase \in {"idle", "done", "failed"}
        /\ (\E d \in Active : calls[d].following) => phase = "live"
        /\ phase \in {"live", "done"} => passed
    BY <1>1 DEF ServiceInv, PhaseFollows
  <2>3. c \in Active'
    BY <1>5
  <2>4. phase' \notin {"idle", "done", "failed"}
    BY <1>1, <1>6, <2>2
  <2>5. (\E d \in Active' : calls'[d].following) => phase' = "live"
    BY <1>1, <1>3, <1>4, <1>5, <1>6, <2>1, <2>2
  <2>6. phase' = "live" => overlapped'
    BY <1>1, <1>6, <1>8
  <2>7. phase' \in {"live", "done"} => passed'
    BY <1>1, <2>2
  <2> QED
    BY <2>3, <2>4, <2>5, <2>6, <2>7 DEF PhaseFollows
<1>12. (\A d \in Calls : CallSound(calls[d]))'
  <2> SUFFICES ASSUME NEW d \in Calls
               PROVE  CallSound(calls'[d])
    BY DEF CallSound
  <2>1. CallSound(call)
    BY <1>3 DEF CallSound
  <2> QED
    BY <1>4, <2>1 DEF ServiceInv
<1>13. HandledBelow'
  <2> SUFFICES ASSUME ~overlapped, NEW d \in Calls
               PROVE  Above(checkpoint, calls'[d])
    BY <1>1, <1>8 DEF ServiceInv, HandledBelow, Above
  <2>1. Above(checkpoint, call)
    BY <1>3 DEF Above
  <2> QED
    BY <1>4, <2>1 DEF ServiceInv, HandledBelow
<1> QED
  BY <1>9, <1>10, <1>11, <1>12, <1>13 DEF ServiceInv

\* A step that leaves the calls and the store alone.
LEMMA CallsStay ==
    ASSUME ServiceInv, UNCHANGED <<calls, overlapped, checkpoint, handled>>
    PROVE  /\ Active' = Active
           /\ (\A d \in Calls : CallSound(calls[d]))'
           /\ HandledBelow'
BY DEF ServiceInv, Active, CallSound, HandledBelow, Above

\* While a handle is built and disposed of no call is active.
LEMMA HandleBuilt ==
    ASSUME ServiceInv, Build
    PROVE  ServiceInv'
<1>1. UNCHANGED <<calls, overlapped, checkpoint, anchor, handled, database, tip>>
  BY DEF Build, Create, Connect, MigrateInternal, MigrateUser, StartTelemetry, Built, Configure,
         BuildFails, Reject, callVars, storeVars, worldVars
<1>2. Active = {} /\ Active' = {}
  <2>1. Active = {}
    BY DEF Build, Create, Connect, MigrateInternal, MigrateUser, StartTelemetry, Built, Configure,
           BuildFails, Reject, Building, ServiceInv, CallsCounted
  <2> QED
    BY <1>1, <2>1, CallsStay
<1>3. CASE Configure
  <2>1. handle' = "open" /\ phase' = "idle" /\ active' = 0 /\ passed' = FALSE
    BY <1>3 DEF Configure
  <2>2. Typed'
    BY <1>1, <2>1 DEF ServiceInv, Typed, Handle, IndexerPhase
  <2>3. CallsCounted'
    <3>1. Cardinality(Active') = 0
      BY <1>2, FS_EmptySet
    <3> QED
      BY <1>2, <2>1, <3>1 DEF CallsCounted
  <2>4. PhaseFollows'
    BY <1>2, <2>1 DEF PhaseFollows
  <2> QED
    BY <1>1, <2>2, <2>3, <2>4, CallsStay DEF ServiceInv
<1>4. CASE ~Configure
  <2>1. /\ handle' \in Handle \ {"open", "closing", "closed"}
        /\ UNCHANGED <<phase, active, passed>>
    BY <1>4 DEF Build, Create, Connect, MigrateInternal, MigrateUser, StartTelemetry, Built,
                BuildFails, Reject, callVars, Building, Handle
  <2>2. Typed'
    BY <1>1, <2>1 DEF ServiceInv, Typed
  <2>3. CallsCounted' /\ PhaseFollows'
    BY <1>2, <2>1 DEF CallsCounted, PhaseFollows
  <2> QED
    BY <1>1, <2>2, <2>3, CallsStay DEF ServiceInv
<1> QED
  BY <1>3, <1>4

\* A handle that closes leaves the calls and the store alone.
LEMMA HandleCloses ==
    ASSUME ServiceInv, Close \/ Dispose
    PROVE  ServiceInv'
<1>1. UNCHANGED <<phase, active, calls, passed, overlapped, checkpoint, anchor, handled, database,
                  tip>>
  BY DEF Close, Dispose, callVars, storeVars, worldVars
<1>2. Active' = Active
  BY <1>1, CallsStay
<1>3. /\ handle' \in Handle
      /\ handle' \in {"open", "closing"} => handle \in {"open", "closing"}
      /\ handle' \in {"open", "closing", "closed"} <=> handle \in {"open", "closing", "closed"}
  BY DEF Close, Dispose, ServiceInv, Typed, Handle
<1>4. Typed'
  BY <1>1, <1>3 DEF ServiceInv, Typed
<1>5. CallsCounted'
  BY <1>1, <1>2, <1>3 DEF ServiceInv, CallsCounted
<1>6. PhaseFollows'
  BY <1>1, <1>2, <1>3 DEF ServiceInv, PhaseFollows
<1> QED
  BY <1>1, <1>4, <1>5, <1>6, CallsStay DEF ServiceInv

\* A new block is news to live calls, and changes nothing else of them.
LEMMA BlockIsNews ==
    ASSUME ServiceInv, NewBlock
    PROVE  ServiceInv'
<1>1. /\ UNCHANGED <<handle, phase, active, passed, overlapped, checkpoint, anchor, handled, database>>
      /\ tip' \in Heights
      /\ calls' = [c \in Calls |-> [calls[c] EXCEPT !.news = @ \/ Live(c)]]
  BY DEF NewBlock, storeVars
<1>2. ASSUME NEW c \in Calls
      PROVE  /\ calls'[c] \in Call
             /\ calls'[c].at = calls[c].at /\ calls'[c].kind = calls[c].kind
             /\ calls'[c].following = calls[c].following /\ calls'[c].read = calls[c].read
             /\ calls'[c].rows = calls[c].rows /\ calls'[c].upto = calls[c].upto
             /\ calls'[c].todo = calls[c].todo /\ calls'[c].written = calls[c].written
  <2>1. PICK news \in BOOLEAN : calls'[c] = [calls[c] EXCEPT !.news = news]
    <3>1. (calls[c].news \/ Live(c)) \in BOOLEAN
      BY Zenon DEF Live
    <3> QED
      BY <1>1, <3>1, OfCall DEF Call
  <2> QED
    BY <2>1, OfCall DEF Call
<1>3. Active' = Active /\ calls' \in [Calls -> Call]
  BY <1>1, <1>2 DEF Active
<1>4. Active \subseteq Calls
  BY DEF Active
<1>5. Typed'
  BY <1>1, <1>3 DEF ServiceInv, Typed
<1>6. CallsCounted'
  BY <1>1, <1>3 DEF ServiceInv, CallsCounted
<1>7. PhaseFollows'
  BY <1>1, <1>2, <1>3, <1>4 DEF ServiceInv, PhaseFollows
<1>8. (\A d \in Calls : CallSound(calls[d]))'
  BY <1>2 DEF ServiceInv, CallSound
<1>9. HandledBelow'
  BY <1>1, <1>2 DEF ServiceInv, HandledBelow, Above
<1> QED
  BY <1>5, <1>6, <1>7, <1>8, <1>9 DEF ServiceInv

\* A crash takes the calls and what the handle knew; the store keeps what was
\* committed.
LEMMA ProcessCrashes ==
    ASSUME ServiceInv, Crash
    PROVE  ServiceInv'
<1>1. /\ handle' = "none" /\ phase' = "idle" /\ active' = 0 /\ passed' = FALSE
      /\ calls' = [c \in Calls |-> IF c \in Active THEN Over ELSE calls[c]]
      /\ UNCHANGED <<overlapped, checkpoint, anchor, handled, database, tip>>
  BY DEF Crash, storeVars, worldVars
<1>2. /\ calls' \in [Calls -> Call]
      /\ \A c \in Calls : calls'[c] = Over \/ (c \notin Active /\ calls'[c] = calls[c])
  BY <1>1, OverIs DEF ServiceInv, Typed
<1>3. Active' = {}
  BY <1>2, OverIs DEF Active, Working
<1>4. Typed'
  <2>1. handle' \in Handle /\ phase' \in IndexerPhase /\ active' \in Nat
    BY <1>1 DEF Handle, IndexerPhase
  <2> QED
    BY <1>1, <1>2, <2>1 DEF ServiceInv, Typed
<1>5. CallsCounted' /\ PhaseFollows'
  BY <1>1, <1>3 DEF CallsCounted, PhaseFollows
<1>6. (\A d \in Calls : CallSound(calls[d]))'
  <2> SUFFICES ASSUME NEW d \in Calls
               PROVE  CallSound(calls'[d])
    BY DEF CallSound
  <2> QED
    BY <1>2, OverIs DEF ServiceInv
<1>7. HandledBelow'
  <2> SUFFICES ASSUME ~overlapped, NEW d \in Calls
               PROVE  Above(checkpoint, calls'[d])
    BY <1>1 DEF ServiceInv, HandledBelow, Above
  <2> QED
    BY <1>2, OverIs DEF ServiceInv, HandledBelow
<1> QED
  BY <1>4, <1>5, <1>6, <1>7 DEF ServiceInv

-----------------------------------------------------------------------------

LEMMA ServiceInitially ==
    ASSUME ServiceInit
    PROVE  ServiceInv
<1>1. /\ calls = [c \in Calls |-> NoCall]
      /\ handle = "none" /\ phase = "idle" /\ active = 0 /\ passed = FALSE
      /\ tip = FirstTip /\ checkpoint = 0 /\ anchor = 0 /\ handled = {}
      /\ overlapped = FALSE /\ database \in Databases
  BY DEF ServiceInit
<1>2. Typed
  <2>1. calls \in [Calls -> Call]
    BY <1>1, NoCallIs
  <2>2. 0 \in 0..MaxHeight /\ FirstTip \in Heights
    BY ServiceAssumption DEF Heights
  <2> QED
    BY <1>1, <2>1, <2>2 DEF Typed, Handle, IndexerPhase
<1>3. Active = {}
  BY <1>1, NoCallIs DEF Active, Working
<1>4. CallsCounted /\ PhaseFollows
  BY <1>1, <1>3 DEF CallsCounted, PhaseFollows
<1>5. \A c \in Calls : CallSound(calls[c])
  BY <1>1, NoCallIs DEF CallSound
<1>6. HandledBelow
  BY <1>1, NoCallIs DEF HandledBelow, Above
<1> QED
  BY <1>2, <1>4, <1>5, <1>6 DEF ServiceInv

LEMMA ServiceStep ==
    ASSUME ServiceInv, [ServiceNext]_vars
    PROVE  ServiceInv'
<1>1. CASE UNCHANGED vars
  <2>1. UNCHANGED <<handle, phase, active, calls, passed, overlapped, checkpoint, anchor, handled,
                    database, tip>>
    BY <1>1 DEF vars, storeVars, worldVars
  <2>2. Typed' /\ CallsCounted' /\ PhaseFollows'
    BY <2>1, CallsStay DEF ServiceInv, Typed, CallsCounted, PhaseFollows
  <2> QED
    BY <2>1, <2>2, CallsStay DEF ServiceInv
<1>2. CASE Build
  BY <1>2, HandleBuilt
<1>3. ASSUME NEW c \in Calls, NEW kind \in {"run", "live"}, StartCall(c, kind)
      PROVE  ServiceInv'
  BY <1>3, CallStarts
<1>4. ASSUME NEW c \in Calls, Step(c) \/ TakeHead(c) \/ SkipHead(c) \/ Fail(c) \/ InterruptLive(c)
      PROVE  ServiceInv'
  <2>1. CASE Prepare(c) \/ TakeHead(c)
    BY <2>1, Prepared
  <2>2. CASE ReconcileWithCanonicalChain(c) \/ SetAnchor(c)
    BY <2>2, Reconciled, AnchorSet
  <2>3. CASE IndexSafeHeight(c) \/ IndexToTip(c)
    BY <2>3, RowsRead
  <2>4. CASE NothingToIndex(c) \/ Confirm(c)
    BY <2>4, NothingIndexed
  <2>5. CASE BeginBatch(c)
    BY <2>5, BatchBegun
  <2>6. CASE SkipRow(c) \/ HandleRow(c)
    BY <2>6, RowExecuted
  <2>7. CASE CommitBatch(c)
    BY <2>7, BatchCommitted
  <2>8. CASE Finish(c) \/ RowFails(c) \/ Fail(c) \/ InterruptLive(c) \/ LoseDatabase(c)
    BY <2>8, CallEnds
  <2>9. CASE Follow(c)
    BY <2>9, CallFollows
  <2>10. CASE SkipHead(c)
    BY <2>10, HeadSkipped
  <2> QED
    BY <1>4, <2>1, <2>2, <2>3, <2>4, <2>5, <2>6, <2>7, <2>8, <2>9, <2>10 DEF Step
<1>5. CASE Close \/ Dispose
  BY <1>5, HandleCloses
<1>6. CASE NewBlock
  BY <1>6, BlockIsNews
<1>7. CASE Crash
  BY <1>7, ProcessCrashes
<1> QED
  BY <1>1, <1>2, <1>3, <1>4, <1>5, <1>6, <1>7 DEF ServiceNext

\* However calls overlap, rewind, fail, are interrupted, closed or crash with
\* their process: each active call is counted and the phase follows the calls,
\* a batch is taken from the rows its call holds, and without overlap the writes
\* that stand end at the checkpoint and those rows start above it.
THEOREM ServiceInvariant == ServiceSpec => []ServiceInv
<1>1. ServiceInit => ServiceInv
  BY ServiceInitially
<1>2. ServiceInv /\ [ServiceNext]_vars => ServiceInv'
  BY ServiceStep
<1> QED
  BY <1>1, <1>2, PTL DEF ServiceSpec

\* trackRun: the run phase that calls share tells what they do together.
THEOREM PhaseStaysMatched == ServiceSpec => []PhaseMatchesCalls
<1>1. ServiceInv => PhaseMatchesCalls
  BY DEF ServiceInv, CallsCounted, PhaseFollows, PhaseMatchesCalls
<1> QED
  BY <1>1, ServiceInvariant, PTL

\* readIndexerStatus: a phase that says ready is read only after a pass.
THEOREM ReadyIsAfterPass == ServiceSpec => []ReadyAfterPass
<1>1. ServiceInv => ReadyAfterPass
  BY DEF ServiceInv, PhaseFollows, ReadyAfterPass
<1> QED
  BY <1>1, ServiceInvariant, PTL

\* indexBatch: no crash, failure, interrupt or close between its steps has a
\* handler write again for a print whose writes stand, wherever passes rewind
\* to, as long as calls did not overlap.
THEOREM PrintsAppliedOnce == ServiceSpec => []AppliedOnce
<1>1. ASSUME ServiceInv, ~overlapped, NEW c \in Calls
      PROVE  calls[c].written \cap handled = {}
  <2>1. \A h \in calls[c].written : h \in calls[c].rows
    BY <1>1, OfCall DEF CallSound
  <2>2. \A h \in calls[c].rows : h > checkpoint
    BY <1>1, OfCall DEF Above
  <2>3. \A h \in handled : h <= checkpoint /\ h \in Int
    BY <1>1 DEF ServiceInv, Typed, HandledBelow, Heights
  <2>4. checkpoint \in Int
    BY <1>1, ServiceAssumption DEF ServiceInv, Typed
  <2> QED
    BY <2>1, <2>2, <2>3, <2>4
<1>2. ServiceInv => AppliedOnce
  BY <1>1 DEF AppliedOnce
<1> QED
  BY <1>2, ServiceInvariant, PTL

=============================================================================

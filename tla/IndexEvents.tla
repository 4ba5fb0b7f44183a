---------------------------- MODULE IndexEvents ----------------------------
(***************************************************************************)
(* indexEventsUpTo, indexBatches and indexBatch (runtime/historical.ts):   *)
(* the stored events above the checkpoint are handed to the handlers in    *)
(* batches of whole blocks, each batch and its checkpoint in one           *)
(* transaction, and the finalized marker follows Finality blocks behind    *)
(* the confirmation height.                                                *)
(***************************************************************************)
EXTENDS SyncStore

CONSTANTS
    Finality,   \* blocks behind the confirmation height that are final
    BatchSize   \* MAX_BATCH_EVENTS

ASSUME IndexAssumption == Finality \in Nat /\ BatchSize \in Nat \ {0}

VARIABLE batches  \* the rows a call still has to index, None between calls

Indexing == [rows: SUBSET Event, threshold: Int, finalized: Nat]

ASSUME IndexingAssumption == None \notin Indexing

IndexTypeOK == batches \in Indexing \cup {None}

IndexInit == batches = None

\* Number.MAX_SAFE_INTEGER: above every block.
Unbounded == MaxHeight + 1

\* The confirmation height, None on an unbounded call without a tip.
Confirmation(to, tipHeight) ==
    IF tipHeight = None THEN (IF to = Unbounded THEN None ELSE to)
    ELSE MinOf(to, tipHeight)

\* Mutant of FinalityThreshold: every confirmed block is final.
NoFinality(confirmation) == confirmation

FinalityThreshold(confirmation) == confirmation - Finality

\* Mutant of RowsUpTo: the checkpoint's own block is read again.
RowsFrom(to) == {e \in events : CheckpointHeight <= e.height /\ e.height <= to}

RowsUpTo(to) == {e \in events : CheckpointHeight < e.height /\ e.height <= to}

\* The finalized height once the checkpoint's own block may be final.
FinalizeCheckpointBlock(threshold) ==
    IF CheckpointHeight <= threshold THEN MaxOf(CheckpointHeight, FinalizedHeight)
    ELSE FinalizedHeight

\* No stored row: only the checkpoint block may become final.
IndexNothing(to, tipHeight) ==
    /\ CheckpointHeight < to => RowsUpTo(to) = {}
    /\ IF /\ CheckpointHeight < to
          /\ checkpoint # None
          /\ Confirmation(to, tipHeight) # None
       THEN UpsertCheckpoint(CheckpointHeight, FinalizeCheckpointBlock(
                FinalityThreshold(Confirmation(to, tipHeight))))
       ELSE UNCHANGED checkpoint
    /\ UNCHANGED batches

\* The rows above the checkpoint are read once, to be indexed batch by batch.
\* Without a confirmation height the newest row stands for it.
IndexRows(to, tipHeight) ==
    /\ CheckpointHeight < to
    /\ \E last \in RowsUpTo(to) :
         /\ \A e \in RowsUpTo(to) : e.height <= last.height
         /\ LET confirmation == IF Confirmation(to, tipHeight) = None THEN last.height
                                ELSE Confirmation(to, tipHeight)
                threshold == FinalityThreshold(confirmation)
            IN  batches' = [rows      |-> RowsUpTo(to),
                            threshold |-> threshold,
                            finalized |-> FinalizeCheckpointBlock(threshold)]
    /\ UNCHANGED checkpoint

IndexEventsUpTo(to, tipHeight) == IndexNothing(to, tipHeight) \/ IndexRows(to, tipHeight)

\* chunkEventsByBlock: the next batch is the shortest run of whole blocks that
\* holds BatchSize rows, or all that is left.
Prefix(rows, h) == {e \in rows : e.height <= h}
IsBatchEnd(rows, h) ==
    /\ \/ Cardinality(Prefix(rows, h)) >= BatchSize
       \/ Prefix(rows, h) = rows
    /\ \A e \in rows : e.height < h => Cardinality(Prefix(rows, e.height)) < BatchSize

\* indexBatches: the finalized marker after a batch, the newest row of it at
\* or below the threshold unless the marker is already past it.
IsFinalizedAfter(f, batch) ==
    LET final == {batches.finalized} \cup
                   {e.height : e \in Prefix(batch, batches.threshold)}
    IN  f \in final /\ \A g \in final : g <= f

\* Mutant of InContractRange: the rows fetched around a contract's range run too.
EveryRow(batch) == batch

\* The rows in their contract's block range: pages also hold logs around it.
InContractRange(batch) == {e \in batch : InRange(e.contract, e.height)}

\* indexBatch: the handlers run on the rows in range and the checkpoint moves
\* to the batch's last block.
IndexBatch ==
    /\ batches # None
    /\ \E h \in {e.height : e \in batches.rows} :
         /\ IsBatchEnd(batches.rows, h)
         /\ LET batch == Prefix(batches.rows, h)
                rest  == batches.rows \ batch
            IN  \E f \in {batches.finalized} \cup {e.height : e \in batch} :
                  /\ IsFinalizedAfter(f, batch)
                  /\ handled' = handled \cup InContractRange(batch)
                  /\ UpsertCheckpoint(h, f)
                  /\ batches' = IF rest = {} THEN None
                                ELSE [batches EXCEPT !.rows = rest, !.finalized = f]
    /\ UNCHANGED <<blocks, events, progress, anchor>>

=============================================================================

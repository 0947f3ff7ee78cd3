-------------------------- MODULE OrderedBackfill --------------------------
(***************************************************************************)
(* What both backfill schedulers promise (indexer/backfill.ts,             *)
(* indexer/backfillScheduler.ts): batches are handled in any order, but    *)
(* the checkpoint only ever moves forward over batches that are handled.   *)
(***************************************************************************)
EXTENDS Naturals

CONSTANT NumBatches

VARIABLES handled, checkpoint

Init == handled = {} /\ checkpoint = 0

Progress ==
    /\ handled \subseteq handled' /\ handled' \subseteq 1..NumBatches
    /\ checkpoint' \in checkpoint..NumBatches
    /\ 1..checkpoint' \subseteq handled'

Spec == Init /\ [][Progress]_<<handled, checkpoint>>
============================================================================

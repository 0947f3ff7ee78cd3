--------------------------- MODULE BackfillWaves ---------------------------
(***************************************************************************)
(* OrderedBackfillScheduler (indexer/backfill.ts): waves of batches that   *)
(* run concurrently, each with its own retries; the next wave starts when  *)
(* all of this one have settled and none has failed.  A ledger is stood    *)
(* for by the number of its batch.                                         *)
(***************************************************************************)
EXTENDS Naturals

CONSTANTS
    NumBatches,
    WaveSize,         \* options.concurrency
    MaxAttempts       \* options.maxRetries + 1

VARIABLES
    start,            \* number of the wave's first batch
    result, tries,    \* per batch
    checkpoint,       \* checkpointLedger
    persisted,        \* the last argument of onCheckpoint
    over              \* run has returned

waveVars == <<start, result, tries, checkpoint, persisted, over>>

Batch == 1..NumBatches
Least(a, b) == IF a < b THEN a ELSE b
Wave == start..Least(start + WaveSize - 1, NumBatches)
handled == {b \in Batch : result[b] = "ok"}

WaveTypeOK ==
    /\ start \in 1..(NumBatches + WaveSize) /\ over \in BOOLEAN
    /\ result \in [Batch -> {"waiting", "ok", "failed"}] /\ tries \in [Batch -> 0..MaxAttempts]
    /\ checkpoint \in 0..NumBatches /\ persisted \in 0..NumBatches

Init ==
    /\ start = 1 /\ result = [b \in Batch |-> "waiting"] /\ tries = [b \in Batch |-> 0]
    /\ checkpoint = 0 /\ persisted = 0 /\ over = FALSE

\* processWithRetries: one attempt of a batch of the wave.
Attempt(b) ==
    /\ ~over /\ b \in Wave /\ result[b] = "waiting" /\ tries[b] < MaxAttempts
    /\ tries' = [tries EXCEPT ![b] = @ + 1]
    /\ \/ result' = [result EXCEPT ![b] = "ok"]
       \/ result' = [result EXCEPT ![b] = IF tries'[b] = MaxAttempts THEN "failed" ELSE "waiting"]
    /\ UNCHANGED <<start, checkpoint, persisted, over>>

\* mutant: a failure in the wave does not end the prefix
EndsAtLastSuccess(to) ==
    /\ to \in handled \cup {start - 1}
    /\ \A b \in Wave : result[b] = "ok" => b <= to
\* The batches of the wave up to its first failure.
PrefixEnds(to) ==
    /\ \A b \in start..to : b \in Wave /\ result[b] = "ok"
    /\ to + 1 \in Wave => result[to + 1] # "ok"

\* All of the wave have settled; onCheckpoint is called for a wave without failures,
\* and ends the run as a failure does when it rejects.
EndWave ==
    /\ ~over /\ \A b \in Wave : result[b] # "waiting"
    /\ \E to \in (start - 1)..NumBatches :
          /\ PrefixEnds(to)
          /\ checkpoint' = IF to >= start THEN to ELSE checkpoint
    /\ \/ /\ \A b \in Wave : result[b] = "ok"
          /\ persisted' = checkpoint' /\ start' = start + WaveSize
          /\ over' = (start' > NumBatches)
       \/ over' = TRUE /\ UNCHANGED <<persisted, start>>
    /\ UNCHANGED <<result, tries>>

Next == EndWave \/ \E b \in Batch : Attempt(b)

Spec == Init /\ [][Next]_waveVars

----------------------------------------------------------------------------
(* Properties                                                              *)

\* "A later batch's success never moves the checkpoint past an earlier failure":
\* the waves implement OrderedBackfill (and keep their types).
Ordered == INSTANCE OrderedBackfill
WavesKeepOrder == []WaveTypeOK /\ Ordered!Spec
============================================================================

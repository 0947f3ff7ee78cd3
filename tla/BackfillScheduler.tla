------------------------- MODULE BackfillScheduler -------------------------
(***************************************************************************)
(* runBackfill (indexer/backfillScheduler.ts): workers that claim batches  *)
(* in order, retry them, advance a common checkpoint, and pause together   *)
(* behind one gate while live indexing lags.  Batches are numbered from 1  *)
(* and the initial checkpoint is 0.                                        *)
(***************************************************************************)
EXTENDS Naturals, FiniteSets

CONSTANTS
    Worker, NumBatches,
    RetryLimit,
    MaxFlips          \* bound: changes of the live-indexing lag

ASSUME BackfillAssumption == NumBatches \in Nat /\ RetryLimit \in Nat \ {0}

VARIABLES
    pc, pos, attempt,       \* per worker
    status,                 \* per batch
    checkpoint, next,
    failed, aborted,        \* error is set; the signal is aborted
    gate,                   \* pausePromise is set
    lagging, flips,         \* the lag is at or above the threshold
    yields, resumes,        \* calls of onYield and onResume
    handled                 \* history: batches whose handler has resolved

backfillVars == <<pc, pos, attempt, status, checkpoint, next, failed, aborted, gate, lagging, flips,
                  yields, resumes, handled>>
gateVars == <<gate, yields, resumes>>

Batch == 1..NumBatches

BackfillTypeOK ==
    /\ pc \in [Worker -> {"top", "reading", "paused", "claim", "handle", "commit", "backoff", "out"}]
    /\ pos \in [Worker -> 0..NumBatches] /\ attempt \in [Worker -> 1..RetryLimit]
    /\ status \in [Batch -> {"pending", "done", "failed"}]
    /\ checkpoint \in 0..NumBatches /\ next \in 1..(NumBatches + Cardinality(Worker) + 1)
    /\ {failed, aborted, gate, lagging} \subseteq BOOLEAN
    /\ yields \in Nat /\ resumes \in Nat /\ handled \subseteq Batch

Init ==
    /\ pc = [w \in Worker |-> "top"] /\ pos = [w \in Worker |-> 0] /\ attempt = [w \in Worker |-> 1]
    /\ status = [b \in Batch |-> "pending"]
    /\ checkpoint = 0 /\ next = 1 /\ failed = FALSE /\ aborted = FALSE
    /\ gate = FALSE /\ lagging = FALSE /\ flips = 0 /\ yields = 0 /\ resumes = 0
    /\ handled = {}

Go(w, where) == pc' = [pc EXCEPT ![w] = where]
Stopping == failed \/ aborted

\* The head of the worker's loop, and waitForLiveIndexing up to readLag.
Loop(w) ==
    /\ pc[w] = "top"
    /\ Go(w, IF Stopping THEN "out" ELSE IF gate THEN "paused" ELSE "reading")
    /\ UNCHANGED <<pos, attempt, status, checkpoint, next, failed, aborted, lagging, flips, handled, gateVars>>

NoRecheck == FALSE      \* mutant: the gate is not looked at again after the await
GateTaken == gate

\* readLag answers: join the gate another worker has opened meanwhile, go on, or
\* open the gate.  A read that fails counts as no lag.
LagRead(w) ==
    /\ pc[w] = "reading"
    /\ \/ GateTaken /\ Go(w, "paused") /\ UNCHANGED gateVars
       \/ ~GateTaken /\ Go(w, "claim") /\ UNCHANGED gateVars
       \/ /\ ~GateTaken /\ lagging
          /\ gate' = TRUE /\ yields' = yields + 1 /\ Go(w, "paused")
          /\ UNCHANGED resumes
    /\ UNCHANGED <<pos, attempt, status, checkpoint, next, failed, aborted, lagging, flips, handled>>

LagOnly == ~lagging        \* mutant: the pause does not look at the signal
PauseOver == ~lagging \/ aborted

EndPause ==
    /\ gate /\ gate' = FALSE /\ resumes' = resumes + 1
    /\ pc' = [w \in Worker |-> IF pc[w] = "paused" THEN "claim" ELSE pc[w]]
    /\ UNCHANGED <<pos, attempt, status, checkpoint, next, failed, aborted, lagging, flips, yields, handled>>

\* The gate's loop: it polls until the lag is gone or the run is aborted.
Resume == PauseOver /\ EndPause

\* A poll that cannot read the lag counts as no lag.
LagUnread == lagging /\ EndPause

Claim(w) ==
    /\ pc[w] = "claim"
    /\ \/ Stopping /\ Go(w, "out") /\ UNCHANGED <<next, pos, attempt>>
       \/ /\ ~Stopping /\ next' = next + 1
          /\ \/ next > NumBatches /\ Go(w, "out") /\ UNCHANGED <<pos, attempt>>
             \/ /\ next <= NumBatches
                /\ pos' = [pos EXCEPT ![w] = next] /\ attempt' = [attempt EXCEPT ![w] = 1]
                /\ Go(w, "handle")
    /\ UNCHANGED <<status, checkpoint, failed, aborted, lagging, flips, handled, gateVars>>

\* mutant: the checkpoint is the batch that was handled last
AdvancesToLatest(from, stat, to) ==
    LET done == {b \in Batch : stat[b] = "done"} IN to \in done /\ \A b \in done : b <= to
\* commit's loop: over the batches that are done.
Advances(from, stat, to) ==
    /\ \A b \in (from + 1)..to : stat[b] = "done"
    /\ to < NumBatches => stat[to + 1] # "done"

\* The handler resolves; commit calls onCheckpoint once the checkpoint has moved.
Handled(w) ==
    /\ pc[w] = "handle"
    /\ handled' = handled \cup {pos[w]}
    /\ status' = [status EXCEPT ![pos[w]] = "done"]
    /\ checkpoint' \in checkpoint..NumBatches /\ Advances(checkpoint, status', checkpoint')
    /\ Go(w, IF checkpoint' > 0 THEN "commit" ELSE "top")
    /\ UNCHANGED <<pos, attempt, next, failed, aborted, lagging, flips, gateVars>>

Persisted(w) ==
    /\ pc[w] = "commit" /\ Go(w, "top")
    /\ UNCHANGED <<pos, attempt, status, checkpoint, next, failed, aborted, lagging, flips, handled, gateVars>>

OutOfTries(w) == attempt[w] = RetryLimit

\* The handler or onCheckpoint rejects: both are inside the try.
Rejected(w) ==
    /\ pc[w] \in {"handle", "commit"}
    /\ \/ /\ OutOfTries(w)
          /\ failed' = TRUE /\ status' = [status EXCEPT ![pos[w]] = "failed"]
          /\ Go(w, "top") /\ UNCHANGED attempt
       \/ /\ ~OutOfTries(w)
          /\ attempt' = [attempt EXCEPT ![w] = @ + 1]
          /\ Go(w, "backoff") /\ UNCHANGED <<failed, status>>
    /\ UNCHANGED <<pos, checkpoint, next, aborted, lagging, flips, handled, gateVars>>

BackoffOver(w) ==
    /\ pc[w] = "backoff"
    /\ Go(w, IF aborted THEN "out" ELSE "handle")
    /\ UNCHANGED <<pos, attempt, status, checkpoint, next, failed, aborted, lagging, flips, handled, gateVars>>

Abort ==
    /\ ~aborted /\ aborted' = TRUE
    /\ UNCHANGED <<pc, pos, attempt, status, checkpoint, next, failed, lagging, flips, handled, gateVars>>

LagChanges ==
    /\ flips < MaxFlips /\ flips' = flips + 1 /\ lagging' = ~lagging
    /\ UNCHANGED <<pc, pos, attempt, status, checkpoint, next, failed, aborted, handled, gateVars>>

WorkerStep(w) ==
    Loop(w) \/ LagRead(w) \/ Claim(w) \/ Handled(w) \/ Persisted(w) \/ Rejected(w) \/ BackoffOver(w)

Next == (\E w \in Worker : WorkerStep(w)) \/ Resume \/ LagUnread \/ Abort \/ LagChanges

Spec == Init /\ [][Next]_backfillVars

\* Promises settle, timers fire.
Fairness == WF_backfillVars(Resume) /\ \A w \in Worker : WF_backfillVars(WorkerStep(w))
FairSpec == Spec /\ Fairness

----------------------------------------------------------------------------
(* Properties                                                              *)

\* The scheduler implements OrderedBackfill: with several workers, retries and
\* failing callbacks the checkpoint never passes a batch that was not handled
\* and never goes back ("only advanced across a contiguous prefix").
Ordered == INSTANCE OrderedBackfill
KeepsOrder == Ordered!Spec

\* "One sustained lagging period produces exactly one paused -> resumed
\* transition": pauses and resumptions alternate, whichever workers meet them.
OneGate == yields = resumes + (IF gate THEN 1 ELSE 0)

\* Aborting ends the run, also from within a pause that would last for ever.
AbortEndsRun == aborted ~> \A w \in Worker : pc[w] = "out"
============================================================================

------------------------------- MODULE MCJobs -------------------------------
(***************************************************************************)
(* The process and its background work, in one run of TLC:                 *)
(* BackfillScheduler, BackfillWaves, RetentionPurge, JobQueue, WorkerPool  *)
(* and ServiceLifecycle.  As modelled, they share no state, so a behaviour *)
(* moves one of them only: `focus' names it.  The fairness is that of each *)
(* module's FairSpec, for the one in focus.                                *)
(***************************************************************************)
EXTENDS BackfillScheduler, TLC

CONSTANTS
    WaveBatches, WaveSize, MaxAttempts,
    NumRows, Purger, PurgeBatch, MaxRowsPerRun, MaxHeld, MaxRuns, MaxAborts,
    QueueObj, SentJob, CronJob, JobRetryLimit, MaxCrashes, MaxExpiries,
    Task, MaxWorkers, MaxQueueSize, MaxDeaths,
    Conn, Streams, NumHooks, MaxSignals,
    w1, w2, q1, q2, j1, j2, t1, t2, t3, t4, c1, c2, c3

\* What the configuration guarantees: sizes, limits and bounds are numbers, no
\* object is called "unset" or "free" as a field without an owner is, and there is
\* something to backfill.
ASSUME JobsAssumption ==
    /\ WaveBatches \in Nat \ {0} /\ WaveSize \in Nat \ {0} /\ MaxAttempts \in Nat \ {0}
    /\ NumRows \in Nat /\ PurgeBatch \in Nat \ {0} /\ MaxRowsPerRun \in Nat \ {0}
    /\ MaxRuns \in Nat /\ MaxAborts \in Nat /\ "free" \notin Purger
    /\ JobRetryLimit \in Nat /\ MaxCrashes \in Nat /\ MaxExpiries \in Nat
    /\ "unset" \notin QueueObj
    /\ MaxWorkers \in Nat \ {0} /\ MaxQueueSize \in Nat /\ MaxDeaths \in Nat
    /\ "none" \notin Task
    /\ NumHooks \in Nat /\ MaxSignals \in Nat /\ Streams \subseteq Conn

VARIABLES
    focus,
    start, result, attempts, waveCheckpoint, persisted, over,
    purgeAction, table, redacted, hold, rowLock, step, todo, purging, seen, rowsPurged,
    audited, runs, aborts,
    ref, stage, work, raced, jobState, tries, running, dlqState, deadRows, rowLost,
    crashed, expiries,
    hasFallback, slots, backlog, activeTasks, allWorkersFailed, ending, settled, called,
    deaths,
    startupPhase, resuming, link, request, shuttingDown, closing, forceTimer, finished,
    hook, loops, forced, lateReady, admitted, signals

waveVars == <<start, result, attempts, waveCheckpoint, persisted, over>>
purgeVars == <<purgeAction, table, redacted, hold, rowLock, step, todo, purging, seen,
               rowsPurged, audited, runs, aborts>>
queueVars == <<ref, stage, work, raced, jobState, tries, running, dlqState, deadRows,
               rowLost, crashed, expiries>>
poolVars == <<hasFallback, slots, backlog, activeTasks, allWorkersFailed, ending, settled,
              called, deaths>>
lifeVars == <<startupPhase, resuming, link, request, shuttingDown, closing, forceTimer,
              finished, hook, loops, forced, lateReady, admitted, signals>>

Waves == INSTANCE BackfillWaves
    WITH NumBatches <- WaveBatches, checkpoint <- waveCheckpoint, tries <- attempts
Purge == INSTANCE RetentionPurge
Queue == INSTANCE JobQueue WITH RetryLimit <- JobRetryLimit
Pool == INSTANCE WorkerPool
Life == INSTANCE ServiceLifecycle

MCInit ==
    /\ focus \in {"backfill", "waves", "purge", "queue", "pool", "life"}
    /\ Init /\ Waves!Init /\ Queue!Init /\ Life!Init
    /\ Purge!Init /\ (focus = "purge" \/ purgeAction = "delete")
    /\ Pool!Init /\ (focus = "pool" \/ hasFallback)

\* The queue objects are interchangeable: q1 is the first to be started.
InTurn == stage'[q2] # "unused" => stage'[q1] # "unused"

MCNext ==
    \/ /\ focus = "backfill" /\ Next
       /\ UNCHANGED <<focus, waveVars, purgeVars, queueVars, poolVars, lifeVars>>
    \/ /\ focus = "waves" /\ Waves!Next
       /\ UNCHANGED <<focus, backfillVars, purgeVars, queueVars, poolVars, lifeVars>>
    \/ /\ focus = "purge" /\ Purge!Next
       /\ UNCHANGED <<focus, backfillVars, waveVars, queueVars, poolVars, lifeVars>>
    \/ /\ focus = "queue" /\ Queue!Next /\ InTurn
       /\ UNCHANGED <<focus, backfillVars, waveVars, purgeVars, poolVars, lifeVars>>
    \/ /\ focus = "pool" /\ Pool!Next
       /\ UNCHANGED <<focus, backfillVars, waveVars, purgeVars, queueVars, lifeVars>>
    \/ /\ focus = "life" /\ Life!Next
       /\ UNCHANGED <<focus, backfillVars, waveVars, purgeVars, queueVars, poolVars>>

MCSpec ==
    /\ MCInit /\ [][MCNext]_<<focus, backfillVars, waveVars, purgeVars, queueVars, poolVars,
                          lifeVars>>
    /\ WF_backfillVars(focus = "backfill" /\ Resume)
    /\ \A w \in Worker : WF_backfillVars(focus = "backfill" /\ WorkerStep(w))
    /\ \A w \in Purger : WF_purgeVars(focus = "purge" /\ Purge!Work(w))
    /\ \A q \in QueueObj, j \in Queue!Job :
          /\ WF_queueVars(focus = "queue" /\ Queue!FetchJob(q, j))
          /\ WF_queueVars(focus = "queue" /\ Queue!FetchDeadLetter(q, j))
    /\ \A j \in Queue!Job : WF_queueVars(focus = "queue" /\ Queue!Finish(j))
    /\ \A i \in 1..MaxWorkers :
          WF_poolVars(focus = "pool" /\ i \in DOMAIN slots /\ Pool!Answer(i))
    /\ WF_lifeVars(focus = "life" /\ Life!Progress)

----------------------------------------------------------------------------
\* The properties of the other modules, as they state them.
WavesKeepOrder == Waves!WavesKeepOrder
PurgeAccounted == Purge!PurgeAccounted
HeldRowsSurvive == Purge!HeldRowsSurvive
NoJobLost == Queue!NoJobLost
QueueAccounted == Queue!QueueAccounted
PoolAccounted == Pool!PoolAccounted
LifecycleSafe == Life!LifecycleSafe

\* What was started comes to its end: a backfill that was aborted, from within a
\* pause too, every run of the retention purge, a task of the worker pool while
\* its threads live, and the shutdown; a process whose resume ended is ready.
RunsEnd ==
    /\ []BackfillTypeOK /\ AbortEndsRun /\ Purge!EveryRunEnds
    /\ Pool!TasksSettle
    /\ Life!ShutdownCompletes /\ Life!ReadyWhenResumed
============================================================================

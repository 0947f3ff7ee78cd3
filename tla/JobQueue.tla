------------------------------ MODULE JobQueue -----------------------------
(***************************************************************************)
(* The pg-boss job queue (jobs/queue.ts): startBackgroundJobs and          *)
(* stopBackgroundJobs around JobQueue.start/stop, and the life of the jobs *)
(* they send.  start() is not awaited: it boots pg-boss and registers one  *)
(* worker after the other while the process may already be stopped.        *)
(* pg-boss itself is external: it hands a due job to a worker, retries it  *)
(* up to retryLimit, routes it to the dead-letter queue, and takes a job   *)
(* back that stayed active for expireInSeconds.                            *)
(***************************************************************************)
EXTENDS Naturals, Sequences

CONSTANTS
    QueueObj,      \* JobQueue objects one after another in the deployment's life
    SentJob,       \* jobs of queue.send (with deadLetter)
    CronJob,       \* jobs a schedule creates (queue.schedule passes no deadLetter)
    RetryLimit,    \* DEFAULT_RETRY_LIMIT
    MaxCrashes,    \* bound: process crashes
    MaxExpiries    \* bound: jobs taken back after expireInSeconds

Job == SentJob \cup CronJob
\* The worker of the application's jobs, and the one of the dead-letter queue,
\* which is registered last.
Handler == <<"jobs", "dlq">>
Unset == "unset"

VARIABLES
    ref,           \* _jobQueue, the singleton
    stage,         \* how far each object's start() or stop() came
    work,          \* its registered workers: positions in Handler
    raced,         \* history: it was stopped before its start() was over
    jobState,      \* pg-boss: the state of each job
    tries,         \* how often it was handed to a worker
    running,       \* handler calls under way: <<object, job>>
    dlqState,      \* pg-boss: the job's entry in the dead-letter queue
    deadRows, rowLost,   \* rows in job_dead_letter; an INSERT failed
    crashed, expiries

jobVars == <<ref, stage, work, raced, jobState, tries, running, dlqState,
             deadRows, rowLost, crashed, expiries>>
lifeVars == <<ref, stage, work, raced>>

TypeOK ==
    /\ ref \in QueueObj \cup {Unset}
    /\ stage \in [QueueObj -> {"unused", "boot", "register", "started", "failed", "stopping", "stopped", "gone"}]
    /\ work \in [QueueObj -> SUBSET DOMAIN Handler]
    /\ raced \in [QueueObj -> BOOLEAN]
    /\ jobState \in [Job -> {"absent", "created", "active", "completed", "failed"}]
    /\ tries \in [Job -> Nat]
    /\ running \subseteq QueueObj \X Job
    /\ dlqState \in [Job -> {"none", "created", "active", "completed"}]
    /\ deadRows \in [Job -> Nat] /\ rowLost \in [Job -> BOOLEAN]
    /\ crashed \in 0..MaxCrashes /\ expiries \in 0..MaxExpiries

Init ==
    /\ ref = Unset
    /\ stage = [q \in QueueObj |-> "unused"]
    /\ work = [q \in QueueObj |-> {}]
    /\ raced = [q \in QueueObj |-> FALSE]
    /\ jobState = [j \in Job |-> "absent"]
    /\ tries = [j \in Job |-> 0]
    /\ running = {}
    /\ dlqState = [j \in Job |-> "none"]
    /\ deadRows = [j \in Job |-> 0] /\ rowLost = [j \in Job |-> FALSE]
    /\ crashed = 0 /\ expiries = 0

\* The object's pg-boss connection is up.
Booted(q) == stage[q] \in {"register", "started", "failed", "stopping"}
Works(q, h) == Booted(q) /\ h \in {Handler[i] : i \in work[q]}

----------------------------------------------------------------------------
(* startBackgroundJobs and JobQueue.start                                  *)

StartBackgroundJobs(q) ==
    /\ ref = Unset /\ stage[q] = "unused"
    /\ ref' = q
    /\ stage' = [stage EXCEPT ![q] = "boot"]
    /\ UNCHANGED <<work, raced, jobState, tries, running, dlqState, deadRows, rowLost, crashed, expiries>>

\* boss.start() resolves.
BossStarts(q) ==
    /\ stage[q] = "boot"
    /\ stage' = [stage EXCEPT ![q] = "register"]
    /\ UNCHANGED <<ref, work, raced, jobState, tries, running, dlqState, deadRows, rowLost, crashed, expiries>>

\* boss.work of the next handler; _started once all are registered.
RegisterWorker(q) ==
    /\ stage[q] = "register"
    /\ \E i \in DOMAIN Handler \ work[q] :
          /\ 1..(i - 1) \subseteq work[q]
          /\ work' = [work EXCEPT ![q] = @ \cup {i}]
    /\ stage' = [stage EXCEPT ![q] = IF work'[q] = DOMAIN Handler THEN "started" ELSE @]
    /\ UNCHANGED <<ref, raced, jobState, tries, running, dlqState, deadRows, rowLost, crashed, expiries>>

\* start() rejects: logged, and not tried again.
StartFails(q) ==
    /\ stage[q] \in {"boot", "register"}
    /\ stage' = [stage EXCEPT ![q] = IF @ = "boot" THEN "gone" ELSE "failed"]
    /\ UNCHANGED <<ref, work, raced, jobState, tries, running, dlqState, deadRows, rowLost, crashed, expiries>>

StopAlwaysLeaves(q) ==           \* mutant: the singleton is cleared and nothing is stopped
    /\ ref' = Unset /\ UNCHANGED <<stage, work, raced>>
\* stop() of an object that is not _started returns at once.
StopWhatStarted(q) ==
    \/ /\ stage[q] = "started"
       /\ stage' = [stage EXCEPT ![q] = "stopping"]
       /\ UNCHANGED <<ref, work, raced>>
    \/ /\ stage[q] # "started" /\ stage[q] # "stopping"
       /\ ref' = Unset
       /\ raced' = [raced EXCEPT ![q] = TRUE]
       /\ UNCHANGED <<stage, work>>

StopBackgroundJobs(q) ==
    /\ ref = q
    /\ StopWhatStarted(q)
    /\ UNCHANGED <<jobState, tries, running, dlqState, deadRows, rowLost, crashed, expiries>>

\* offWork of one worker after the other, in the order they were registered.
OffWork(q) ==
    /\ stage[q] = "stopping"
    /\ \E i \in work[q] :
          /\ 1..(i - 1) \cap work[q] = {}
          /\ work' = [work EXCEPT ![q] = @ \ {i}]
    /\ UNCHANGED <<ref, stage, raced, jobState, tries, running, dlqState, deadRows, rowLost, crashed, expiries>>

\* boss.stop resolves (or rejects: the singleton is cleared all the same).
BossStops(q) ==
    /\ stage[q] = "stopping" /\ work[q] = {}
    /\ stage' = [stage EXCEPT ![q] = "stopped"]
    /\ ref' = Unset
    /\ UNCHANGED <<work, raced, jobState, tries, running, dlqState, deadRows, rowLost, crashed, expiries>>

----------------------------------------------------------------------------
(* Jobs                                                                    *)

\* queue.send at start-up, or the cron schedule.
EnqueueJob(j) ==
    /\ jobState[j] = "absent" /\ \E q \in QueueObj : Booted(q)
    /\ jobState' = [jobState EXCEPT ![j] = "created"]
    /\ UNCHANGED <<tries, running, dlqState, deadRows, rowLost, crashed, expiries>> /\ UNCHANGED lifeVars

FetchJob(q, j) ==
    /\ Works(q, "jobs") /\ jobState[j] = "created"
    /\ jobState' = [jobState EXCEPT ![j] = "active"]
    /\ tries' = [tries EXCEPT ![j] = @ + 1]
    /\ running' = running \cup {<<q, j>>}
    /\ UNCHANGED <<dlqState, deadRows, rowLost, crashed, expiries>> /\ UNCHANGED lifeVars

MayRetry(j) == tries[j] <= RetryLimit

NeverDeadLetter(j) == FALSE       \* mutant: send drops the deadLetter option
\* The job carries the deadLetter option.
HasDeadLetter(j) == j \in SentJob

\* pg-boss after a failed or expired run of an active job.
FailOrRetry(j) ==
    \/ /\ MayRetry(j)
       /\ jobState' = [jobState EXCEPT ![j] = "created"]
       /\ UNCHANGED dlqState
    \/ /\ ~MayRetry(j)
       /\ jobState' = [jobState EXCEPT ![j] = "failed"]
       /\ dlqState' = IF HasDeadLetter(j) THEN [dlqState EXCEPT ![j] = "created"] ELSE dlqState

\* The handler returns; a job that is no longer active is left alone.
HandlerReturns(q, j) ==
    /\ <<q, j>> \in running
    /\ running' = running \ {<<q, j>>}
    /\ jobState' = [jobState EXCEPT ![j] = IF @ = "active" THEN "completed" ELSE @]
    /\ UNCHANGED <<tries, dlqState, deadRows, rowLost, crashed, expiries>> /\ UNCHANGED lifeVars

HandlerThrows(q, j) ==
    /\ <<q, j>> \in running
    /\ running' = running \ {<<q, j>>}
    /\ IF jobState[j] = "active" THEN FailOrRetry(j) ELSE UNCHANGED <<jobState, dlqState>>
    /\ UNCHANGED <<tries, deadRows, rowLost, crashed, expiries>> /\ UNCHANGED lifeVars

\* toSendOptions gives every job an expireInSeconds.
Expires(j) == TRUE

\* An active job is taken back; its handler may still be running.
ExpireJob(j) ==
    /\ jobState[j] = "active" /\ Expires(j)
    /\ \/ \A q \in QueueObj : <<q, j>> \notin running
       \/ expiries < MaxExpiries
    /\ expiries' = IF expiries < MaxExpiries THEN expiries + 1 ELSE expiries
    /\ FailOrRetry(j)
    /\ UNCHANGED <<tries, running, deadRows, rowLost, crashed>> /\ UNCHANGED lifeVars

\* The dead-letter worker: an INSERT that fails is logged, never retried.
FetchDeadLetter(q, j) ==
    /\ Works(q, "dlq") /\ dlqState[j] = "created"
    /\ dlqState' = [dlqState EXCEPT ![j] = "active"]
    /\ \/ deadRows' = [deadRows EXCEPT ![j] = @ + 1] /\ UNCHANGED rowLost
       \/ rowLost' = [rowLost EXCEPT ![j] = TRUE] /\ UNCHANGED deadRows
    /\ UNCHANGED <<jobState, tries, running, crashed, expiries>> /\ UNCHANGED lifeVars

DeadLetterDone(j) ==
    /\ dlqState[j] = "active"
    /\ dlqState' = [dlqState EXCEPT ![j] = "completed"]
    /\ UNCHANGED <<jobState, tries, running, deadRows, rowLost, crashed, expiries>> /\ UNCHANGED lifeVars

\* The process dies with its objects and handler calls; jobs stay active, and a
\* dead-letter entry at work is handed out again.
Crash ==
    /\ crashed < MaxCrashes /\ \E q \in QueueObj : stage[q] # "unused"
    /\ crashed' = crashed + 1
    /\ ref' = Unset
    /\ stage' = [q \in QueueObj |-> IF stage[q] = "unused" THEN "unused" ELSE "gone"]
    /\ work' = [q \in QueueObj |-> {}]
    /\ running' = {}
    /\ dlqState' = [j \in Job |-> IF dlqState[j] = "active" THEN "created" ELSE dlqState[j]]
    /\ UNCHANGED <<raced, jobState, tries, deadRows, rowLost, expiries>>

Serve(q) == \E j \in Job : FetchJob(q, j) \/ FetchDeadLetter(q, j)
Finish(j) ==
    \/ \E q \in QueueObj : HandlerReturns(q, j) \/ HandlerThrows(q, j)
    \/ ExpireJob(j) \/ DeadLetterDone(j)

Next ==
    \/ \E q \in QueueObj :
          \/ StartBackgroundJobs(q) \/ BossStarts(q) \/ RegisterWorker(q) \/ StartFails(q)
          \/ StopBackgroundJobs(q) \/ OffWork(q) \/ BossStops(q) \/ Serve(q)
    \/ \E j \in Job : EnqueueJob(j) \/ Finish(j)
    \/ Crash

Spec == Init /\ [][Next]_jobVars
\* pg-boss polls while a worker is registered and expires abandoned jobs; a
\* handler returns or throws in the end.
Fairness ==
    /\ \A q \in QueueObj, j \in Job : WF_jobVars(FetchJob(q, j)) /\ WF_jobVars(FetchDeadLetter(q, j))
    /\ \A j \in Job : WF_jobVars(Finish(j))
FairSpec == Spec /\ Fairness

----------------------------------------------------------------------------
(* Properties                                                              *)

Serving(q) == stage[q] = "started"

\* "Invariant: no-loss under worker crash": a job that was sent is completed or
\* ends failed, with a row in job_dead_letter (or a logged failure to write it)
\* if it was sent with a dead-letter queue, as long as some queue keeps serving.
NoJobLost ==
    \A j \in Job : (jobState[j] # "absent" /\ \E q \in QueueObj : Serving(q)) ~>
        \/ jobState[j] = "completed"
        \/ jobState[j] = "failed" /\ (j \in CronJob \/ deadRows[j] > 0 \/ rowLost[j])
        \/ \A q \in QueueObj : ~Serving(q)

\* An object that still has workers is the one stopBackgroundJobs would stop, so
\* that two objects of a process never serve side by side, on one condition: no
\* stop came before its start() was over, or after it had failed half-way
\* (queue.ts:321).  StopStops below drops the condition.
StoppedMeansIdle ==
    \A q \in QueueObj : work[q] # {} /\ ~raced[q] => ref = q

\* The dead-letter queue and its table hold only jobs that were sent with the
\* deadLetter option and are failed for good: no late return of an expired run
\* completes a job that has an entry there, and no crash between the worker's
\* INSERT and its acknowledgement leaves a row without an entry.
DeadLettersAreFinal ==
    \A j \in Job :
        /\ dlqState[j] # "none" => jobState[j] = "failed" /\ j \in SentJob
        /\ deadRows[j] > 0 \/ rowLost[j] => dlqState[j] # "none"

\* Across starts, stops, crashes and expiries: an object whose stop did not race
\* its start keeps no worker behind the singleton's back, and what is dead-lettered
\* is failed.
QueueAccounted == TypeOK /\ StoppedMeansIdle /\ DeadLettersAreFinal

----------------------------------------------------------------------------
(* A claim that TLC refutes                                                *)

\* "Stops the job queue, gracefully shutting down all workers and releasing
\* resources" (queue.ts:316): an object that is no longer the singleton has no
\* worker.  stop() returns at once while start() is still registering
\* (queue.ts:321), stopBackgroundJobs clears the singleton, and start() goes on
\* to register workers that nothing can stop.
StopStops == \A q \in QueueObj : work[q] # {} => ref = q
============================================================================

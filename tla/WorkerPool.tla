----------------------------- MODULE WorkerPool -----------------------------
(***************************************************************************)
(* The bounded pool of worker threads of src/pii/workerPool.ts: tasks are  *)
(* handed to idle workers, start new ones up to maxWorkers, or wait in a   *)
(* bounded queue; workers fail while starting, while they work or while    *)
(* they idle; shutdown() terminates them.                                  *)
(*                                                                         *)
(* A thread that emitted 'error' has ended: messages posted to it are      *)
(* never answered.  The model keeps that in `thread', which the code does  *)
(* not know; `busy' and `healthy' are the code's own view.  What a task    *)
(* computes, the validation of its message and its taskId are left out.    *)
(***************************************************************************)
EXTENDS Naturals, Sequences, FiniteSets

CONSTANTS
    Task,            \* calls of exec
    MaxWorkers,      \* maxWorkers
    MaxQueueSize,    \* maxQueueSize
    MaxDeaths        \* bound: threads that fail

VARIABLES
    hasFallback,     \* setFallback was called
    slots,           \* the workers: code's flags, the thread, and the task in hand
    backlog,         \* queue
    activeTasks,
    allWorkersFailed,
    ending,          \* "no", "terminating" (shutdownFlag is set), "over"
    settled,         \* per task: how often its promise was resolved or rejected
    called,          \* tasks whose exec was called
    deaths

poolVars == <<hasFallback, slots, backlog, activeTasks, allWorkersFailed, ending, settled,
              called, deaths>>

NoTask == "none"
Slot == [busy : BOOLEAN, healthy : BOOLEAN, thread : {"starting", "online", "dead"},
         task : Task \cup {NoTask}]

PoolTypeOK ==
    /\ hasFallback \in BOOLEAN /\ allWorkersFailed \in BOOLEAN
    /\ \A i \in DOMAIN slots : slots[i] \in Slot
    /\ Len(slots) <= MaxWorkers /\ Len(backlog) <= MaxQueueSize
    /\ activeTasks \in 0..MaxWorkers
    /\ ending \in {"no", "terminating", "over"}
    /\ settled \in [Task -> Nat] /\ called \subseteq Task /\ deaths \in 0..MaxDeaths

Init ==
    /\ hasFallback \in BOOLEAN
    /\ slots = <<>> /\ backlog = <<>> /\ activeTasks = 0 /\ allWorkersFailed = FALSE
    /\ ending = "no" /\ settled = [t \in Task |-> 0] /\ called = {} /\ deaths = 0

----------------------------------------------------------------------------
Idle == {i \in DOMAIN slots : ~slots[i].busy}
FirstIdle == CHOOSE i \in Idle : \A j \in Idle : i <= j
Settle(t) == settled' = [settled EXCEPT ![t] = @ + 1]
With(i, busy, thread, t) ==
    [slots EXCEPT ![i] = [@ EXCEPT !.busy = busy, !.thread = thread, !.task = t]]

DrainNever == FALSE       \* mutant: the next task waits for another call of exec
\* drainQueue: the slot takes the oldest waiting task, dead or alive.
DrainTakes == ending = "no" /\ backlog # <<>>
\* What handler and errorHandler leave behind of slot i (busy is FALSE, the task
\* settled), followed by drainQueue(slotIndex).
Release(i, thread, healthy) ==
    /\ slots' = [slots EXCEPT ![i] = [busy |-> DrainTakes, healthy |-> healthy, thread |-> thread,
                                      task |-> IF DrainTakes THEN Head(backlog) ELSE NoTask]]
    /\ backlog' = IF DrainTakes THEN Tail(backlog) ELSE backlog
    /\ activeTasks' = IF DrainTakes THEN activeTasks ELSE activeTasks - 1

\* exec, with dispatch and createWorkerAndDispatch.
Exec(t) ==
    /\ t \notin called /\ called' = called \cup {t}
    /\ IF ending # "no" \/ (allWorkersFailed /\ hasFallback)
       THEN Settle(t) /\ UNCHANGED <<slots, backlog, activeTasks, allWorkersFailed, deaths>>
       ELSE IF Idle # {}
       THEN /\ slots' = With(FirstIdle, TRUE, slots[FirstIdle].thread, t)
            /\ activeTasks' = activeTasks + 1
            /\ UNCHANGED <<backlog, allWorkersFailed, settled, deaths>>
       ELSE IF Len(slots) < MaxWorkers
       THEN \/ /\ slots' = Append(slots, [busy |-> TRUE, healthy |-> TRUE, thread |-> "starting", task |-> t])
               /\ UNCHANGED <<backlog, activeTasks, allWorkersFailed, settled, deaths>>
            \/ /\ deaths < MaxDeaths /\ deaths' = deaths + 1     \* new Worker throws
               /\ allWorkersFailed' = TRUE /\ Settle(t)
               /\ UNCHANGED <<slots, backlog, activeTasks>>
       ELSE IF Len(backlog) >= MaxQueueSize
       THEN Settle(t) /\ UNCHANGED <<slots, backlog, activeTasks, allWorkersFailed, deaths>>
       ELSE /\ backlog' = Append(backlog, t)
            /\ UNCHANGED <<slots, activeTasks, allWorkersFailed, settled, deaths>>
    /\ UNCHANGED <<hasFallback, ending>>

\* onOnline: the task that started the worker is dispatched to it.
Online(i) ==
    /\ ending # "over" /\ slots[i].thread = "starting"
    /\ slots' = With(i, TRUE, "online", slots[i].task)
    /\ activeTasks' = activeTasks + 1
    /\ UNCHANGED <<hasFallback, backlog, allWorkersFailed, ending, settled, called, deaths>>

\* onStartupError: the slot stays busy, the queue is not looked at.
StartupError(i) ==
    /\ ending # "over" /\ slots[i].thread = "starting"
    /\ deaths < MaxDeaths /\ deaths' = deaths + 1
    /\ slots' = [slots EXCEPT ![i] = [@ EXCEPT !.healthy = FALSE, !.thread = "dead", !.task = NoTask]]
    /\ allWorkersFailed' = (allWorkersFailed \/ \A j \in DOMAIN slots : ~slots'[j].healthy)
    /\ Settle(slots[i].task)
    /\ UNCHANGED <<hasFallback, backlog, activeTasks, ending, called>>

\* handler: the worker answered, with a result or with { type: 'error' }.
Message(i) ==
    /\ ending # "over" /\ slots[i].thread = "online" /\ slots[i].task # NoTask
    /\ Settle(slots[i].task)
    /\ Release(i, "online", slots[i].healthy)
    /\ UNCHANGED <<hasFallback, allWorkersFailed, ending, called, deaths>>

\* errorHandler: the thread died under its task, which falls back or is rejected.
TaskDies(i) ==
    /\ ending # "over" /\ slots[i].thread = "online" /\ slots[i].task # NoTask
    /\ deaths < MaxDeaths /\ deaths' = deaths + 1
    /\ Settle(slots[i].task)
    /\ Release(i, "dead", FALSE)
    /\ allWorkersFailed' = (allWorkersFailed \/ (hasFallback /\ \A j \in DOMAIN slots : j = i \/ ~slots[j].healthy))
    /\ UNCHANGED <<hasFallback, ending, called>>

\* The thread dies without a task: the only listener left is onStartupError,
\* which has settled and does nothing.
IdleDies(i) ==
    /\ ending # "over" /\ slots[i].thread = "online" /\ slots[i].task = NoTask
    /\ deaths < MaxDeaths /\ deaths' = deaths + 1
    /\ slots' = With(i, FALSE, "dead", NoTask)
    /\ UNCHANGED <<hasFallback, backlog, activeTasks, allWorkersFailed, ending, settled, called>>

InBacklog(t) == \E k \in DOMAIN backlog : backlog[k] = t

\* shutdown() up to its await: queued tasks are rejected, workers told to end.
Shutdown ==
    /\ ending = "no" /\ ending' = "terminating"
    /\ backlog' = <<>>
    /\ settled' = [t \in Task |-> settled[t] + IF InBacklog(t) THEN 1 ELSE 0]
    /\ UNCHANGED <<hasFallback, slots, activeTasks, allWorkersFailed, called, deaths>>

\* The threads have ended; nobody settles what they had in hand.
Terminated ==
    /\ ending = "terminating" /\ ending' = "over" /\ slots' = <<>>
    /\ UNCHANGED <<hasFallback, backlog, activeTasks, allWorkersFailed, settled, called, deaths>>

Answer(i) == Online(i) \/ Message(i)

Next ==
    \/ \E t \in Task : Exec(t)
    \/ \E i \in DOMAIN slots : \/ Answer(i) \/ StartupError(i) \/ TaskDies(i) \/ IdleDies(i)
    \/ Shutdown \/ Terminated

Spec == Init /\ [][Next]_poolVars

\* A thread that lives comes online and answers.
FairSpec ==
    /\ Spec
    /\ \A i \in 1..MaxWorkers : WF_poolVars(i \in DOMAIN slots /\ Answer(i))

----------------------------------------------------------------------------
(* Properties                                                              *)

Waiting(t) == t \in called /\ settled[t] = 0
Dispatched == {i \in DOMAIN slots : slots[i].thread # "starting" /\ slots[i].task # NoTask}

\* Until the shutdown ends, a call that waits is in the queue or with one worker,
\* and in one place only; no promise is settled twice.
EveryTaskPlaced ==
    /\ \A t \in Task : settled[t] <= 1
    /\ ending # "over" =>
          \A t \in Task : Waiting(t) =>
              Cardinality({i \in DOMAIN slots : slots[i].task = t}
                          \cup {MaxWorkers + k : k \in {j \in DOMAIN backlog : backlog[j] = t}}) = 1

\* No task waits while a worker could take it, and pendingCount counts the tasks
\* that were dispatched, whatever died in between.
NoIdleHands ==
    /\ backlog # <<>> => Len(slots) = MaxWorkers /\ Idle = {}
    /\ ending # "over" => activeTasks = Cardinality(Dispatched)

\* The pool's books are right, whichever workers fail and when.
PoolAccounted == PoolTypeOK /\ EveryTaskPlaced /\ NoIdleHands

\* As long as every thread lives and nobody shuts the pool down, each call is
\* answered: the queue moves on.
TasksSettle ==
    \A t \in Task : Waiting(t) ~> (settled[t] > 0 \/ deaths > 0 \/ ending # "no")

----------------------------------------------------------------------------
(* A claim that TLC refutes; see the README's list of disagreements.       *)

\* "so the caller's logic is never broken": with a fallback, every call is
\* answered although workers fail.
FallbackAnswers ==
    \A t \in Task : Waiting(t) ~> (settled[t] > 0 \/ ~hasFallback \/ ending # "no")
=============================================================================

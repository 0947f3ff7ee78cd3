-------------------------- MODULE DeadLetterReplay --------------------------
(***************************************************************************)
(* The dead-letter queue of one topic: routes/dlq.ts, dlqRepository.ts and *)
(* jobs/dlqPurge.ts.  Operators replay, delete and resume while workers    *)
(* enqueue and the retention job purges; a replay request is four          *)
(* statements that share no transaction, so requests interleave and a      *)
(* statement may fail between two of them.                                 *)
(*                                                                         *)
(* Of an entry the model keeps its status, its attempts and who            *)
(* contributed to its failure history; any entry may have passed the       *)
(* purge's cutoff.  Causes, payloads, tenants, permissions and the audit   *)
(* log are left out; `outcomes' is a history of what the topic was told.   *)
(***************************************************************************)
EXTENDS Naturals, Sequences, FiniteSets, FiniteSetsExt

CONSTANTS
    MaxLetters,      \* bound: entries, numbered in the order they are enqueued
    MaxReplays,      \* bound: calls of POST /admin/dlq/:id/replay, in order of arrival
    Threshold,       \* DLQ_SUSPENSION_THRESHOLD
    PurgeSize,       \* DLQ_PURGE_BATCH_SIZE
    EnqueuedWith,    \* bound: the attempts an entry is enqueued with
    MaxResumes,      \* bound: resumes
    MaxDbErrors      \* bound: statements that fail

VARIABLES
    entry,           \* dead_letter_queue, per id
    suspension,      \* the topic's row of dlq_consumer_suspension
    call,            \* per operator: where the request is, its entry, body.failed
    replays,         \* per id: accepted replays
    outcomes,        \* history: "failed", "ok" and "resume", in the order recorded
    dbErrors

dlqVars == <<entry, suspension, call, replays, outcomes, dbErrors>>

DeadLetter == 1..MaxLetters
Operator == 1..MaxReplays

Enqueued == 0       \* source 'enqueue' in a history; replays appear by their number
Absent == [status |-> "absent", attempts |-> 0, history |-> <<>>]
Fresh == [status |-> "dead", attempts |-> EnqueuedWith, history |-> <<Enqueued>>]
Present(e) == entry[e].status \in {"dead", "replayed"}
Idle == [at |-> "idle", of |-> 0, failed |-> FALSE]
Refused == [at |-> "refused", of |-> 0, failed |-> FALSE]    \* 404, 409, 400 or 500

DlqTypeOK ==
    /\ \A e \in DeadLetter :
          /\ entry[e].status \in {"unused", "absent", "dead", "replayed"}
          /\ entry[e].attempts \in Nat
          /\ Len(entry[e].history) <= 1 + Cardinality(Operator)
    /\ suspension.failures \in Nat /\ suspension.known \in BOOLEAN
    /\ suspension.suspended \in BOOLEAN
    /\ \A o \in Operator : call[o].at \in {"idle", "gate", "replay", "history", "topic", "200", "refused"}

\* Entries that are gone by now may have left failures behind.
Init ==
    /\ entry = [e \in DeadLetter |-> [Absent EXCEPT !.status = "unused"]]
    /\ \E n \in 0..(Threshold - 1) :
          /\ suspension = [known |-> n > 0, failures |-> n, suspended |-> FALSE]
          /\ outcomes = [k \in 1..n |-> "failed"]
    /\ call = [o \in Operator |-> Idle]
    /\ replays = [e \in DeadLetter |-> 0]
    /\ dbErrors = 0

----------------------------------------------------------------------------
(* The table                                                               *)

\* enqueueDeadLetter and insert: a fresh id, the history seeded with the cause.
EnqueueDeadLetter(e) ==
    /\ entry[e].status = "unused" /\ \A f \in 1..(e - 1) : entry[f].status # "unused"
    /\ entry' = [entry EXCEPT ![e] = Fresh]
    /\ UNCHANGED <<suspension, call, replays, outcomes, dbErrors>>

\* DELETE /admin/dlq/:id
DeleteById(e) ==
    /\ Present(e)
    /\ entry' = [entry EXCEPT ![e] = Absent]
    /\ UNCHANGED <<suspension, call, replays, outcomes, dbErrors>>

\* DELETE /admin/dlq
DeleteAll ==
    /\ \E e \in DeadLetter : Present(e)
    /\ entry' = [e \in DeadLetter |-> IF Present(e) THEN Absent ELSE entry[e]]
    /\ UNCHANGED <<suspension, call, replays, outcomes, dbErrors>>

\* runDlqPurge: one bounded DELETE of entries past the cutoff, replayed or dead.
RunDlqPurge ==
    /\ \E gone \in SUBSET {e \in DeadLetter : Present(e)} :
          /\ Cardinality(gone) \in 1..PurgeSize
          /\ entry' = [e \in DeadLetter |-> IF e \in gone THEN Absent ELSE entry[e]]
    /\ UNCHANGED <<suspension, call, replays, outcomes, dbErrors>>

----------------------------------------------------------------------------
(* POST /admin/dlq/:id/replay                                              *)

At(o, where) == call' = [call EXCEPT ![o].at = where]
Refuse(o) == call' = [call EXCEPT ![o] = Refused]

\* findById; an unknown id answers 404.
ReplayRequest(o, e, failed) ==
    /\ call[o].at = "idle" /\ \A p \in 1..(o - 1) : call[p].at # "idle"
    /\ \/ Present(e) /\ call' = [call EXCEPT ![o] = [at |-> "gate", of |-> e, failed |-> failed]]
       \/ ~Present(e) /\ Refuse(o)
    /\ UNCHANGED <<entry, suspension, replays, outcomes, dbErrors>>

\* getConsumerSuspension: 409 while the topic is suspended; a malformed cause is
\* refused here as well, before anything changes.
SuspensionGate(o) ==
    /\ call[o].at = "gate"
    /\ \/ ~suspension.suspended /\ At(o, "replay")
       \/ Refuse(o)
    /\ UNCHANGED <<entry, suspension, replays, outcomes, dbErrors>>

MayReplayAgain(e) == Present(e)       \* mutant: UPDATE without AND status = 'dead'
\* The WHERE clause of replayEntry.
StillDead(e) == entry[e].status = "dead"

\* replayEntry: attempts back to 0, and 409 for whoever comes second.
ReplayEntry(o) ==
    LET e == call[o].of IN
    /\ call[o].at = "replay"
    /\ IF StillDead(e)
       THEN /\ entry' = [entry EXCEPT ![e] = [@ EXCEPT !.status = "replayed", !.attempts = 0]]
            /\ replays' = [replays EXCEPT ![e] = @ + 1]
            /\ At(o, IF call[o].failed THEN "history" ELSE "topic")
       ELSE Refuse(o) /\ UNCHANGED <<entry, replays>>
    /\ UNCHANGED <<suspension, outcomes, dbErrors>>

\* recordFailure: append the cause; a row that is gone is only logged.
RecordFailure(o) ==
    LET e == call[o].of IN
    /\ call[o].at = "history" /\ At(o, "topic")
    /\ entry' = IF Present(e)
                THEN [entry EXCEPT ![e].attempts = @ + 1, ![e].history = Append(@, o)]
                ELSE entry
    /\ UNCHANGED <<suspension, replays, outcomes, dbErrors>>

SuspendsLate(n) == n >= Threshold       \* mutant: the count before the increment
\* consecutive_failures + 1 >= threshold
Suspends(n) == n + 1 >= Threshold

\* recordReplayFailure: the upsert of the topic's row, `suspended' recomputed.
RecordReplayFailure(o) ==
    /\ call[o].at = "topic" /\ call[o].failed /\ At(o, "200")
    /\ suspension' = [known |-> TRUE, failures |-> suspension.failures + 1,
                      suspended |-> Suspends(suspension.failures)]
    /\ outcomes' = Append(outcomes, "failed")
    /\ UNCHANGED <<entry, replays, dbErrors>>

AfterSuccessLifts ==       \* mutant: a success clears the flag of a suspended topic
    [suspension EXCEPT !.known = TRUE, !.failures = 0, !.suspended = FALSE]
\* recordReplaySuccess: the count goes back to 0, `suspended' is not touched.
AfterSuccess == [suspension EXCEPT !.known = TRUE, !.failures = 0]
RecordReplaySuccess(o) ==
    /\ call[o].at = "topic" /\ ~call[o].failed /\ At(o, "200")
    /\ suspension' = AfterSuccess
    /\ outcomes' = Append(outcomes, "ok")
    /\ UNCHANGED <<entry, replays, dbErrors>>

\* A statement of the request fails: 500, and what was done stays done.
StatementFails(o) ==
    /\ call[o].at \in {"gate", "replay", "history", "topic"}
    /\ dbErrors < MaxDbErrors /\ dbErrors' = dbErrors + 1
    /\ Refuse(o)
    /\ UNCHANGED <<entry, suspension, replays, outcomes>>

\* POST /admin/dlq/consumers/:topic/resume; a topic without a row has nothing to resume.
ResumeConsumer ==
    /\ Cardinality({k \in DOMAIN outcomes : outcomes[k] = "resume"}) < MaxResumes
    /\ suspension.known
    /\ suspension' = [suspension EXCEPT !.suspended = FALSE, !.failures = 0]
    /\ outcomes' = Append(outcomes, "resume")
    /\ UNCHANGED <<entry, call, replays, dbErrors>>

Next ==
    \/ \E e \in DeadLetter : EnqueueDeadLetter(e) \/ DeleteById(e)
    \/ DeleteAll \/ RunDlqPurge \/ ResumeConsumer
    \/ \E o \in Operator :
          \/ \E e \in DeadLetter, failed \in BOOLEAN : ReplayRequest(o, e, failed)
          \/ SuspensionGate(o) \/ ReplayEntry(o) \/ RecordFailure(o)
          \/ RecordReplayFailure(o) \/ RecordReplaySuccess(o) \/ StatementFails(o)

Spec == Init /\ [][Next]_dlqVars

----------------------------------------------------------------------------
(* Properties                                                              *)

\* Two operators never both replay an entry, and an entry that survives shows
\* every failure that was reported for it: its attempts count the failures since
\* the replay, its first cause is still the enqueue.
HistoryKept ==
    \A e \in DeadLetter :
        /\ replays[e] <= 1
        /\ Present(e) => entry[e].history[1] = Enqueued
        /\ StillDead(e) => entry[e].attempts = EnqueuedWith /\ Len(entry[e].history) = 1
        /\ entry[e].status = "replayed" =>
              /\ entry[e].attempts = Len(entry[e].history) - 1
              /\ \A o \in Operator :
                    call[o].at = "200" /\ call[o].failed /\ call[o].of = e =>
                        \E k \in DOMAIN entry[e].history : entry[e].history[k] = o

Resumes == {k \in DOMAIN outcomes : outcomes[k] = "resume"}
LastResume == IF Resumes = {} THEN 0 ELSE Max(Resumes)
\* Threshold failures in a row that end at k, all after the last resume.
FailureRun(k) ==
    /\ k - Threshold >= LastResume
    /\ \A j \in (k - Threshold + 1)..k : outcomes[j] = "failed"

\* A suspension was earned by Threshold consecutive failures since the last
\* resume, and lasts until the operator's resume unless the success of a replay
\* that was already under way was recorded after it.
SuspensionEarned ==
    /\ suspension.suspended => \E k \in DOMAIN outcomes : FailureRun(k)
    /\ (\E k \in DOMAIN outcomes :
           FailureRun(k) /\ \A j \in k..Len(outcomes) : outcomes[j] # "ok") => suspension.suspended

\* A success alone does not lift a suspension.
SuccessLiftsNothing ==
    Len(outcomes) > 1 /\ outcomes[Len(outcomes)] = "ok" /\ FailureRun(Len(outcomes) - 1)
        => suspension.suspended

\* Replays of dead letters are accounted for, whichever requests overlap and
\* whichever statement fails.
ReplaysAccounted == DlqTypeOK /\ HistoryKept /\ SuspensionEarned /\ SuccessLiftsNothing

----------------------------------------------------------------------------
(* Claims that TLC refutes; see the README's list of disagreements.        *)

\* "clears the suspended flag - operator-only action"
OnlyOperatorLifts ==
    [][suspension.suspended /\ ~suspension'.suspended
          => outcomes' # outcomes /\ outcomes'[Len(outcomes')] = "resume"]_dlqVars

\* Every replayed entry belongs to a request that was told so: not after a
\* statement failed behind replayEntry, which leaves the entry 'replayed'.
ReplayedWasAnswered ==
    \A e \in DeadLetter :
        replays[e] = 1 => \E o \in Operator : call[o].of = e /\ call[o].at \in {"history", "topic", "200"}
=============================================================================

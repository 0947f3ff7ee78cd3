-------------------------- MODULE RetentionPurge ---------------------------
(***************************************************************************)
(* runRetentionPurge (jobs/retentionPurge.ts) for one rule of the          *)
(* retention schedule, by several workers at once: a run whose job expired *)
(* goes on while the queue starts it again.  Operators set and lift legal  *)
(* holds meanwhile.  Rows are numbered by age, the oldest first, and all   *)
(* of them are past the cut-off.                                           *)
(***************************************************************************)
EXTENDS Naturals, FiniteSets, FiniteSetsExt

CONSTANTS
    NumRows,        \* rows of the table older than the cut-off
    Purger,         \* runs of the job that may be under way at once
    PurgeBatch,     \* batchSize
    MaxRowsPerRun,  \* the volume cap
    MaxHeld,        \* bound: rows under legal hold at once
    MaxRuns,        \* bound: runs started
    MaxAborts       \* bound: batches rolled back

Rows == 1..NumRows
Free == "free"

VARIABLES
    purgeAction,    \* the rule's: 'delete', or 'redact' (streams)
    table,          \* rows present
    redacted,       \* rows whose PII columns hold the tombstone
    hold,           \* rows with legal_hold = TRUE
    rowLock,        \* FOR UPDATE: the run whose transaction holds the row
    step,           \* each run: idle, loop (top of the while), rows (in a transaction)
    todo,           \* candidates of its batch not yet visited
    purging, seen,  \* rows it deleted or redacted, and skipped, in this transaction
    rowsPurged,     \* its running total
    audited,        \* sum of rowsPurged over the PURGE_INITIATED entries
    runs, aborts

purgeVars == <<purgeAction, table, redacted, hold, rowLock, step, todo, purging, seen,
               rowsPurged, audited, runs, aborts>>

TypeOK ==
    /\ purgeAction \in {"delete", "redact"}
    /\ table \subseteq Rows /\ redacted \subseteq Rows /\ hold \subseteq Rows
    /\ rowLock \in [Rows -> Purger \cup {Free}]
    /\ step \in [Purger -> {"idle", "loop", "rows"}]
    /\ {todo, purging, seen} \subseteq [Purger -> SUBSET Rows]
    /\ rowsPurged \in [Purger -> Nat] /\ audited \in Nat
    /\ runs \in 0..MaxRuns /\ aborts \in 0..MaxAborts

Init ==
    /\ purgeAction \in {"delete", "redact"}
    /\ table = Rows /\ redacted = {} /\ hold = {}
    /\ rowLock = [r \in Rows |-> Free]
    /\ step = [w \in Purger |-> "idle"]
    /\ todo = [w \in Purger |-> {}]
    /\ purging = [w \in Purger |-> {}] /\ seen = [w \in Purger |-> {}]
    /\ rowsPurged = [w \in Purger |-> 0]
    /\ audited = 0 /\ runs = 0 /\ aborts = 0

----------------------------------------------------------------------------
(* A run                                                                   *)

RunRetentionPurge(w) ==
    /\ step[w] = "idle" /\ runs < MaxRuns
    /\ step' = [step EXCEPT ![w] = "loop"]
    /\ rowsPurged' = [rowsPurged EXCEPT ![w] = 0]
    /\ runs' = runs + 1
    /\ UNCHANGED <<purgeAction, table, redacted, hold, rowLock, todo, purging, seen, audited, aborts>>

CapOffByBatch(n) == FALSE       \* mutant: the volume cap is not looked at
\* The volume-cap guard at the top of the loop.
CapReached(n) == n >= MaxRowsPerRun

\* The LIMIT oldest rows of S.
Oldest(S) == {r \in S : Cardinality({q \in S : q < r}) < PurgeBatch}

Unlocked == {r \in table : rowLock[r] = Free}

\* SELECT ... ORDER BY age LIMIT n FOR UPDATE SKIP LOCKED
Candidates == Oldest(Unlocked)

WithoutLock(w, S) == rowLock     \* mutant: the SELECT takes no row locks
ForUpdate(w, S) == [r \in Rows |-> IF r \in S THEN w ELSE rowLock[r]]

LoopTop(w) ==
    /\ step[w] = "loop"
    /\ \/ /\ CapReached(rowsPurged[w])
          /\ step' = [step EXCEPT ![w] = "idle"]
          /\ UNCHANGED <<rowLock, todo>>
       \/ /\ ~CapReached(rowsPurged[w])
          /\ todo' = [todo EXCEPT ![w] = Candidates]
          /\ rowLock' = ForUpdate(w, Candidates)
          /\ step' = [step EXCEPT ![w] = "rows"]
    /\ UNCHANGED <<purgeAction, table, redacted, hold, purging, seen, rowsPurged, audited, runs, aborts>>

\* legal_hold as the SELECT read it: the row lock keeps it from changing.
VisitRow(w) ==
    LET r == Min(todo[w]) IN
    /\ step[w] = "rows" /\ todo[w] # {}
    /\ todo' = [todo EXCEPT ![w] = @ \ {r}]
    /\ \/ /\ r \in hold
          /\ seen' = [seen EXCEPT ![w] = @ \cup {r}] /\ UNCHANGED purging
       \/ /\ r \notin hold
          /\ purging' = [purging EXCEPT ![w] = @ \cup {r}] /\ UNCHANGED seen
    /\ UNCHANGED <<purgeAction, table, redacted, hold, rowLock, step, rowsPurged, audited, runs, aborts>>

\* The transaction is over: its locks are gone and its lists forgotten.
EndTxn(w) ==
    /\ rowLock' = [r \in Rows |-> IF rowLock[r] = w THEN Free ELSE rowLock[r]]
    /\ purging' = [purging EXCEPT ![w] = {}]
    /\ seen' = [seen EXCEPT ![w] = {}]

OnlyEmptyEnds(w) == purging[w] \cup seen[w] = {}    \* mutant: the loop ends when a SELECT finds nothing
\* purged + skipped < batchSize
BatchNotFull(w) == Cardinality(purging[w]) + Cardinality(seen[w]) < PurgeBatch

\* COMMIT, with the PURGE_INITIATED entry of the batch; a batch that was not
\* full ends the loop.
CommitBatch(w) ==
    LET n == Cardinality(purging[w]) IN
    /\ step[w] = "rows" /\ todo[w] = {}
    /\ \/ purgeAction = "delete" /\ table' = table \ purging[w] /\ UNCHANGED redacted
       \/ purgeAction = "redact" /\ redacted' = redacted \cup purging[w] /\ UNCHANGED table
    /\ audited' = audited + n
    /\ rowsPurged' = [rowsPurged EXCEPT ![w] = @ + n]
    /\ step' = [step EXCEPT ![w] =
                  IF BatchNotFull(w) THEN "idle" ELSE "loop"]
    /\ EndTxn(w)
    /\ UNCHANGED <<purgeAction, hold, todo, runs, aborts>>

AuditOnAbort(w) == audited + Cardinality(purging[w])   \* mutant: the entry is written outside the transaction
\* The audit row is rolled back with the batch.
AuditAfterAbort(w) == audited

\* A statement fails or the process dies: ROLLBACK, and the run is over.
AbortBatch(w) ==
    /\ step[w] = "rows" /\ aborts < MaxAborts
    /\ todo' = [todo EXCEPT ![w] = {}]
    /\ step' = [step EXCEPT ![w] = "idle"]
    /\ audited' = AuditAfterAbort(w)
    /\ aborts' = aborts + 1
    /\ EndTxn(w)
    /\ UNCHANGED <<purgeAction, table, redacted, hold, rowsPurged, runs>>

----------------------------------------------------------------------------
(* Operators                                                               *)

\* An UPDATE of legal_hold waits for the row's lock.
SetLegalHold(r) ==
    /\ r \in table \ hold /\ rowLock[r] = Free /\ Cardinality(hold) < MaxHeld
    /\ hold' = hold \cup {r}
    /\ UNCHANGED <<purgeAction, table, redacted, rowLock, step, todo, purging, seen, rowsPurged, audited, runs, aborts>>

LiftLegalHold(r) ==
    /\ r \in hold /\ rowLock[r] = Free
    /\ hold' = hold \ {r}
    /\ UNCHANGED <<purgeAction, table, redacted, rowLock, step, todo, purging, seen, rowsPurged, audited, runs, aborts>>

Work(w) == LoopTop(w) \/ VisitRow(w) \/ CommitBatch(w)

Next ==
    \/ \E w \in Purger : RunRetentionPurge(w) \/ Work(w) \/ AbortBatch(w)
    \/ \E r \in Rows : SetLegalHold(r) \/ LiftLegalHold(r)

Spec == Init /\ [][Next]_purgeVars
\* A run under way goes on; it need not fail, and no operator need act.
Fairness == \A w \in Purger : WF_purgeVars(Work(w))
FairSpec == Spec /\ Fairness

----------------------------------------------------------------------------
(* Properties                                                              *)

\* "no TOCTOU window where a hold is set between the check and the delete": no
\* row is deleted or redacted in a state in which it is under legal hold.
HeldRowsSurvive ==
    [][\A r \in Rows : (r \in table /\ r \notin table') \/ (r \in redacted' /\ r \notin redacted)
          => r \notin hold]_purgeVars

\* The PURGE_INITIATED entries account for the rows that are gone, each once,
\* whichever runs overlapped, failed or were started again.
AuditAccountsForDeletes == purgeAction = "redact" \/ audited = NumRows - Cardinality(table)

\* How far a run goes beyond the volume cap: `rowsPurged >= maxRowsPerRun' is asked
\* at the top of the loop (retentionPurge.ts:364) and the batch is not cut to what
\* is left of it, so a run exceeds maxRowsPerRun by less than one batch, never by more.
\* CapIsCeiling below states what the comments promise.
CapOvershootBounded == \A w \in Purger : rowsPurged[w] < MaxRowsPerRun + PurgeBatch

\* "We stop when the batch was not full", and the cap bounds the rest: a run
\* that was started ends.
EveryRunEnds == \A w \in Purger : step[w] # "idle" ~> step[w] = "idle"

\* Overlapping, failing and aborted runs leave the table and the audit trail in
\* agreement, and no run exceeds the volume cap by a whole batch.
PurgeAccounted == TypeOK /\ AuditAccountsForDeletes /\ CapOvershootBounded

----------------------------------------------------------------------------
(* A claim that TLC refutes                                                *)

\* "Hard ceiling on the total number of rows deleted or redacted"
\* (retentionPurge.ts:131): no run purges more than maxRowsPerRun rows.  With
\* batches of 2 and a ceiling of 3, the second batch ends at 4.
CapIsCeiling == \A w \in Purger : rowsPurged[w] <= MaxRowsPerRun
============================================================================

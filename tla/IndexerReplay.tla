--------------------------- MODULE IndexerReplay ---------------------------
(***************************************************************************)
(* Replay of historical contract events: IndexerService.replayEvents and   *)
(* ReplayBatchRunner.processBatch (src/indexer), run by several backend    *)
(* replicas that share PostgreSQL (replay_cursors, indexer_replay_progress,*)
(* contract_events) and one Redis lease.                                   *)
(*                                                                         *)
(* All requests are for one (contract_id, ledger) pair; the source table   *)
(* historical_events is fixed and its matching rows, in replay order       *)
(* (block_height, event_id), are numbered 1..NumRows.  A request's block   *)
(* range selects `rows` consecutive rows starting at row `first`.          *)
(* A step is what one replica does between two awaits.                     *)
(***************************************************************************)
EXTENDS Integers, FiniteSets

CONSTANTS
    Proc,             \* backend replicas
    Slot,             \* concurrent replayEvents calls one replica can have open
    None,             \* no replica holds the lease
    NumRows,          \* source rows of the replayed (contract_id, ledger)
    Request,          \* requests that pass validateReplayRequest
    BatchSize,        \* rows fetched per transaction
    Heartbeats,       \* values of `timely' to consider
    MaxCursors,       \* bound: rows of replay_cursors
    MaxStarts,        \* bound: replayEvents calls from the API
    MaxFaults,        \* bound: crashes, stop requests and hung connections,
    MaxTimelyFaults,  \* and the same when the heartbeat is timely
    MaxHangs          \* bound: of these, hung connections

ASSUME NoneAssumption      == None \notin Proc
ASSUME NumRowsAssumption   == NumRows \in Nat
ASSUME BatchSizeAssumption == BatchSize \in Nat \ {0}
ASSUME BoundsAssumption    == MaxCursors \in Nat /\ MaxStarts \in Nat /\ MaxFaults \in Nat
                           /\ MaxTimelyFaults \in Nat /\ MaxHangs \in Nat
ASSUME ModeAssumption      == Heartbeats \subseteq BOOLEAN
ASSUME RequestAssumption   ==
    Request \subseteq {r \in [first : 1..(NumRows + 1), rows : 0..NumRows] :
                          r.first + r.rows <= NumRows + 1}

VARIABLES
    timely,    \* renewals and release round trips beat the lease's TTL; never changes
    up,        \* up[p]: replica p is running
    lock,      \* replayLock._isReplaying of each replica
    stop,      \* _stopRequested of each replica
    leader,    \* RedisIndexerLeaderElection._isLeader of each replica
    shown,     \* replayState of each replica, polled by /status
    lease,     \* holder of the Redis leader key, or None
    pc,        \* where each call is waiting
    req,       \* the call's request
    cur,       \* the call's cursor id (0 before it is resolved)
    off,       \* the call's local offset
    total,     \* the call's totalRows
    hung,      \* calls whose database connection has stopped answering
    nCursors,  \* rows in replay_cursors; ids are given in started_at order
    cursors,   \* replay_cursors joined with indexer_replay_progress.status
    inserted,  \* rows of the source present in contract_events
    inDoubt,   \* batches whose COMMIT was sent but not acknowledged
    starts,    \* API calls so far
    faults,    \* crashes and stop requests so far
    hangs      \* hung connections so far

procVars == <<up, lock, stop, leader, shown>>
callVars == <<pc, req, cur, off, total>>
dbVars   == <<nCursors, cursors, inserted, inDoubt>>
vars     == <<timely, procVars, lease, callVars, hung, dbVars, starts, faults, hangs>>

Call     == Proc \X Slot
CursorId == 1..MaxCursors
Waiting  == {"idle", "boot", "scan", "acquire", "resolve", "upsert", "create",
             "checkpoint", "loop", "begin", "fetch", "write", "commit",
             "rollback", "complete", "release", "delete"}
\* The call holds its replica's replayLock at these points.
Locked   == Waiting \ {"idle", "boot", "scan", "release", "delete"}
\* The call waits for an answer of PostgreSQL at these points.
InDB     == {"scan", "resolve", "upsert", "create", "checkpoint", "begin",
             "fetch", "write", "commit", "rollback", "complete"}
Batch    == {"begin", "fetch", "write", "commit"}

Cursor == [req : Request, total : 0..NumRows, offset : 0..NumRows,
           completed : BOOLEAN, status : {"absent", "in-progress", "completed"}]
Shown  == [active : BOOLEAN, cur : 0..MaxCursors, offset : 0..NumRows]
Doubt  == [cur : CursorId, upto : 0..NumRows, rows : SUBSET (1..NumRows)]

FaultLimit == IF timely THEN MaxTimelyFaults ELSE MaxFaults

TypeOK ==
    /\ timely \in BOOLEAN
    /\ up \in [Proc -> BOOLEAN] /\ lock \in [Proc -> BOOLEAN]
    /\ stop \in [Proc -> BOOLEAN] /\ leader \in [Proc -> BOOLEAN]
    /\ shown \in [Proc -> Shown]
    /\ lease \in Proc \cup {None}
    /\ pc \in [Call -> Waiting]
    /\ req \in [Call -> Request]
    /\ cur \in [Call -> 0..MaxCursors]
    /\ off \in [Call -> 0..NumRows] /\ total \in [Call -> 0..NumRows]
    /\ hung \subseteq Call
    /\ nCursors \in 0..MaxCursors
    /\ cursors \in [1..nCursors -> Cursor]
    /\ inserted \subseteq 1..NumRows
    /\ inDoubt \subseteq Doubt
    /\ starts \in 0..MaxStarts /\ faults \in 0..FaultLimit /\ hangs \in 0..MaxHangs

Smaller(a, b) == IF a <= b THEN a ELSE b
Larger(a, b)  == IF a >= b THEN a ELSE b

----------------------------------------------------------------------------
(* The queries of ReplayBatchRunner and ReplayCursorRepository.            *)

\* countEventsToReplay
CountEventsToReplay(r) == r.rows

\* fetchEventBatch: LIMIT BatchSize OFFSET o over the rows of the range.
FetchUpTo(r, o) == Larger(o, Smaller(o + BatchSize, r.rows))

FetchFromNextRow(r, o) ==                            \* mutant: OFFSET off by one
    (r.first + o + 1)..(r.first + FetchUpTo(r, o) - 1)
FetchEventBatch(r, o) == (r.first + o)..(r.first + FetchUpTo(r, o) - 1)

\* findActive: most recently started cursor that is not completed; the
\* request's block range takes no part in the query.
Active == {k \in 1..nCursors : ~cursors[k].completed}
IsMostRecent(k, S) == k \in S /\ \A j \in S : j <= k

\* findMostRecentInProgress
InProgress == {k \in 1..nCursors : cursors[k].status = "in-progress"}

AdvanceOffsetBlindly(k, upto) ==                     \* mutant: no GREATEST
    [cursors EXCEPT ![k].offset = upto]
AdvanceOffsetLost(k, upto) == cursors                \* mutant: no offset update

\* Cursors after a batch COMMIT: advanceOffset keeps the greatest offset.
AdvanceOffset(k, upto) ==
    [cursors EXCEPT ![k].offset = Larger(cursors[k].offset, upto)]

InsertIfAbsentSkipped(k) == cursors                  \* mutant: no checkpoint row

\* insertIfAbsent and upsertResuming on indexer_replay_progress
InsertIfAbsent(k) ==
    IF cursors[k].status = "absent"
    THEN [cursors EXCEPT ![k].status = "in-progress"] ELSE cursors
UpsertResuming(k) == [cursors EXCEPT ![k].status = "in-progress"]

\* completeCursor: both rows in one transaction; the progress row is updated
\* only if it exists.
MarkCompleted(k) ==
    [cursors EXCEPT ![k].completed = TRUE,
                    ![k].status = IF cursors[k].status = "absent"
                                  THEN "absent" ELSE "completed"]

----------------------------------------------------------------------------
Init ==
    /\ timely \in Heartbeats
    /\ up = [p \in Proc |-> FALSE]
    /\ lock = [p \in Proc |-> FALSE]
    /\ stop = [p \in Proc |-> FALSE]
    /\ leader = [p \in Proc |-> FALSE]
    /\ shown = [p \in Proc |-> [active |-> FALSE, cur |-> 0, offset |-> 0]]
    /\ lease = None
    /\ pc = [c \in Call |-> "idle"]
    /\ req \in {[c \in Call |-> r] : r \in Request}
    /\ cur = [c \in Call |-> 0]
    /\ off = [c \in Call |-> 0]
    /\ total = [c \in Call |-> 0]
    /\ hung = {}
    /\ nCursors = 0
    /\ cursors = [k \in 1..0 |-> 0]
    /\ inserted = {}
    /\ inDoubt = {}
    /\ starts = 0
    /\ faults = 0
    /\ hangs = 0

Goto(c, where) == pc' = [pc EXCEPT ![c] = where]

\* The `finally` block of replayEvents up to its await: the in-process lock
\* is released, then release() drops the flag before asking Redis.  Every
\* path into it has called replayState.endReplay() first.
Unwind(c) ==
    /\ lock' = [lock EXCEPT ![c[1]] = FALSE]
    /\ leader' = [leader EXCEPT ![c[1]] = FALSE]
    /\ shown' = [shown EXCEPT ![c[1]].active = FALSE]
    /\ Goto(c, "release")
    /\ UNCHANGED <<up, stop, req, cur, off, total>>

----------------------------------------------------------------------------
(* Entry of replayEvents, leader election, cursor resolution.              *)

EnterUnguarded(c, r) ==                              \* mutant: lock not tested
    /\ lock' = [lock EXCEPT ![c[1]] = TRUE]
    /\ req' = [req EXCEPT ![c] = r]
    /\ Goto(c, "acquire")
    /\ UNCHANGED stop

\* Synchronous entry up to `await tryAcquire()`; a pending stop request is
\* consumed and the call returns; a held lock makes the call throw.
Enter(c, r) ==
    \/ /\ stop[c[1]]
       /\ stop' = [stop EXCEPT ![c[1]] = FALSE]
       /\ Goto(c, "idle")
       /\ UNCHANGED <<lock, req>>
    \/ /\ ~stop[c[1]] /\ lock[c[1]]
       /\ Goto(c, "idle")
       /\ UNCHANGED <<lock, stop, req>>
    \/ /\ ~stop[c[1]] /\ ~lock[c[1]]
       /\ lock' = [lock EXCEPT ![c[1]] = TRUE]
       /\ req' = [req EXCEPT ![c] = r]
       /\ Goto(c, "acquire")
       /\ UNCHANGED stop

\* POST /events/replay or the gRPC gateway.
ReplayEvents(c, r) ==
    /\ up[c[1]] /\ pc[c] = "idle" /\ starts < MaxStarts
    /\ starts' = starts + 1
    /\ Enter(c, r)
    /\ UNCHANGED <<up, leader, shown, lease, cur, off, total, hung, dbVars, faults, hangs>>

\* tryAcquire() by a call of replica p: a free key is taken, an own key is
\* confirmed; any Redis error, before or after SET NX, counts as "no".
TryAcquireOk(p) ==
    /\ lease \in {None, p}
    /\ lease' = p
    /\ leader' = [leader EXCEPT ![p] = TRUE]
TryAcquireFails(p) ==
    /\ lease' \in IF lease = None THEN {None, p} ELSE {lease}
    /\ leader' = [leader EXCEPT ![p] = FALSE]

AcquireLease(c) ==
    /\ pc[c] = "acquire"
    /\ \/ /\ TryAcquireOk(c[1])
          /\ Goto(c, "resolve")
          /\ UNCHANGED lock
       \/ /\ TryAcquireFails(c[1])
          /\ lock' = [lock EXCEPT ![c[1]] = FALSE]
          /\ Goto(c, "idle")
    /\ UNCHANGED <<up, stop, shown, req, cur, off, total, hung, dbVars, starts, faults, hangs>>

\* resolveOrCreateCursor, first query: resume the active cursor, or count.
ResolveCursor(c) ==
    /\ pc[c] = "resolve" /\ c \notin hung
    /\ \/ \E k \in Active :
            /\ IsMostRecent(k, Active)
            /\ cur' = [cur EXCEPT ![c] = k]
            /\ off' = [off EXCEPT ![c] = cursors[k].offset]
            /\ total' = [total EXCEPT ![c] = cursors[k].total]
            /\ Goto(c, "upsert")
       \/ /\ Active = {}
          /\ cur' = [cur EXCEPT ![c] = 0]
          /\ off' = [off EXCEPT ![c] = 0]
          /\ total' = [total EXCEPT ![c] = CountEventsToReplay(req[c])]
          /\ Goto(c, "create")
    /\ UNCHANGED <<procVars, lease, req, hung, dbVars, starts, faults, hangs>>

\* INSERT INTO replay_cursors, a statement of its own after the count.
CreateCursor(c) ==
    /\ pc[c] = "create" /\ c \notin hung
    /\ nCursors < MaxCursors
    /\ nCursors' = nCursors + 1
    /\ cursors' = [k \in 1..(nCursors + 1) |->
                     IF k <= nCursors THEN cursors[k]
                     ELSE [req |-> req[c], total |-> total[c], offset |-> 0,
                           completed |-> FALSE, status |-> "absent"]]
    /\ cur' = [cur EXCEPT ![c] = nCursors + 1]
    /\ Goto(c, "checkpoint")
    /\ UNCHANGED <<procVars, lease, req, off, total, hung, inserted, inDoubt,
                   starts, faults, hangs>>

\* insertIfAbsent or upsertResuming, then, synchronously, either completion
\* of an empty replay or replayState.startReplay and the loop.
StartReplay(c) ==
    /\ pc[c] \in {"checkpoint", "upsert"} /\ c \notin hung
    /\ cursors' = IF pc[c] = "upsert" THEN UpsertResuming(cur[c])
                                      ELSE InsertIfAbsent(cur[c])
    /\ \/ /\ total[c] = 0
          /\ Goto(c, "complete")
          /\ UNCHANGED shown
       \/ /\ total[c] > 0
          /\ shown' = [shown EXCEPT ![c[1]] =
                         [active |-> TRUE, cur |-> cur[c], offset |-> off[c]]]
          /\ Goto(c, "loop")
    /\ UNCHANGED <<up, lock, stop, leader, lease, req, cur, off, total, hung,
                   nCursors, inserted, inDoubt, starts, faults, hangs>>

----------------------------------------------------------------------------
(* The batch loop.                                                         *)

LoopDoneEarly(c) == off[c] + BatchSize > total[c]    \* mutant: full batches only
LoopDone(c) == off[c] >= total[c]

\* The guards at the head of the loop.  Losing leadership leaves the loop by
\* `break` without setting stoppedByRequest, so the cursor is completed; an
\* exceeded budget throws.
LoopHead(c) ==
    /\ pc[c] = "loop"
    /\ \/ /\ LoopDone(c)
          /\ Goto(c, "complete")
          /\ UNCHANGED <<procVars, req, cur, off, total>>
       \/ /\ ~LoopDone(c) /\ stop[c[1]]
          /\ Unwind(c)
       \/ /\ ~LoopDone(c) /\ ~stop[c[1]] /\ ~leader[c[1]]
          /\ Goto(c, "complete")
          /\ UNCHANGED <<procVars, req, cur, off, total>>
       \/ /\ ~LoopDone(c) /\ ~stop[c[1]] /\ leader[c[1]]
          /\ \/ Unwind(c)                          \* ReplayBudgetExceededError
             \/ /\ Goto(c, "begin")
                /\ UNCHANGED <<procVars, req, cur, off, total>>
    /\ UNCHANGED <<lease, hung, dbVars, starts, faults, hangs>>

\* BEGIN answered; a stop request rolls the empty transaction back.
BeginBatch(c) ==
    /\ pc[c] = "begin" /\ c \notin hung
    /\ Goto(c, IF stop[c[1]] THEN "rollback" ELSE "fetch")
    /\ UNCHANGED <<procVars, lease, req, cur, off, total, hung, dbVars, starts, faults, hangs>>

\* fetchEventBatch answered.  No rows: the loop ends as if finished.
FetchBatch(c) ==
    /\ pc[c] = "fetch" /\ c \notin hung
    /\ Goto(c, CASE FetchEventBatch(req[c], off[c]) = {} -> "complete"
                 [] FetchEventBatch(req[c], off[c]) # {} /\ stop[c[1]] -> "rollback"
                 [] OTHER -> "write")
    /\ UNCHANGED <<procVars, lease, req, cur, off, total, hung, dbVars, starts, faults, hangs>>

\* batchInsertEvents, advanceOffset and touchUpdatedAt ran in the open
\* transaction: nothing is visible to others yet.
WriteBatch(c) ==
    /\ pc[c] = "write" /\ c \notin hung
    /\ Goto(c, IF stop[c[1]] THEN "rollback" ELSE "commit")
    /\ UNCHANGED <<procVars, lease, req, cur, off, total, hung, dbVars, starts, faults, hangs>>

\* The effect of a batch transaction: ON CONFLICT DO NOTHING and GREATEST.
BatchTxn(c) == [cur |-> cur[c], upto |-> FetchUpTo(req[c], off[c]),
                rows |-> FetchEventBatch(req[c], off[c])]
ApplyTxn(t) ==
    /\ inserted' = inserted \cup t.rows
    /\ cursors' = AdvanceOffset(t.cur, t.upto)
    /\ UNCHANGED nCursors

NewOffsetForgotten(c) == off[c]                      \* mutant: offset not moved
NewOffset(c) == FetchUpTo(req[c], off[c])

\* COMMIT acknowledged; the local offset and replayState move.
CommitBatch(c) ==
    /\ pc[c] = "commit" /\ c \notin hung
    /\ ApplyTxn(BatchTxn(c))
    /\ off' = [off EXCEPT ![c] = NewOffset(c)]
    /\ shown' = [shown EXCEPT ![c[1]].offset =
                                 Larger(shown[c[1]].offset, NewOffset(c))]
    /\ Goto(c, "loop")
    /\ UNCHANGED <<up, lock, stop, leader, lease, req, cur, total, hung, inDoubt,
                   starts, faults, hangs>>

\* A batch query fails, or withStopGuard gives up on a fetch or a COMMIT
\* after a stop request (ReplayForcedStopError), which is the only way out
\* of a hung connection.  processBatch's catch then awaits a ROLLBACK.
BatchError(c) ==
    /\ pc[c] \in Batch
    /\ c \notin hung \/ (stop[c[1]] /\ pc[c] \in {"fetch", "commit"})
    /\ inDoubt' = IF pc[c] = "commit" THEN inDoubt \cup {BatchTxn(c)} ELSE inDoubt
    /\ Goto(c, "rollback")
    /\ UNCHANGED <<procVars, lease, req, cur, off, total, hung, nCursors, cursors,
                   inserted, starts, faults, hangs>>

\* ROLLBACK answered (it queues behind the statement in flight on the same
\* connection); replayEvents unwinds as cancelled or with the error.
RollbackBatch(c) ==
    /\ pc[c] = "rollback" /\ c \notin hung
    /\ Unwind(c)
    /\ UNCHANGED <<lease, hung, dbVars, starts, faults, hangs>>

\* PostgreSQL settles an unacknowledged COMMIT one way or the other.
SettleInDoubt(t) ==
    /\ t \in inDoubt
    /\ inDoubt' = inDoubt \ {t}
    /\ ApplyTxn(t) \/ UNCHANGED <<nCursors, cursors, inserted>>
    /\ UNCHANGED <<procVars, lease, callVars, hung, starts, faults, hangs>>

----------------------------------------------------------------------------
(* Finalisation.                                                           *)

CompleteCursor(c) ==
    /\ pc[c] = "complete" /\ c \notin hung
    /\ cursors' = MarkCompleted(cur[c])
    /\ Unwind(c)
    /\ UNCHANGED <<lease, hung, nCursors, inserted, inDoubt, starts, faults, hangs>>

\* A query outside processBatch fails: replayEvents ends with the error.
QueryError(c) ==
    /\ pc[c] \in {"resolve", "upsert", "create", "checkpoint", "complete"}
    /\ c \notin hung
    /\ Unwind(c)
    /\ UNCHANGED <<lease, hung, dbVars, starts, faults, hangs>>

\* release(): GET the key, DEL it if it was ours, two round trips; an error
\* ends it early.  replayEvents then clears a pending stop request.
ReturnFrom(c) ==
    /\ Goto(c, "idle")
    /\ stop' = [stop EXCEPT ![c[1]] = FALSE]
    /\ UNCHANGED <<up, lock, leader, shown, req, cur, off, total, hung, dbVars,
                   starts, faults, hangs>>

ReleaseLease(c) ==
    \/ /\ pc[c] = "release" /\ lease = c[1]
       /\ Goto(c, "delete")
       /\ UNCHANGED <<procVars, lease, req, cur, off, total, hung, dbVars, starts, faults, hangs>>
    \/ /\ pc[c] \in {"release", "delete"}      \* not ours, or a Redis error
       /\ ReturnFrom(c)
       /\ UNCHANGED lease
    \/ /\ pc[c] = "delete"
       /\ lease' = None
       /\ ReturnFrom(c)

----------------------------------------------------------------------------
(* Start-up recovery: resumeIncompleteReplay.                              *)

Restart(p) ==
    /\ ~up[p]
    /\ up' = [up EXCEPT ![p] = TRUE]
    /\ \E s \in Slot : Goto(<<p, s>>, "boot")
    /\ UNCHANGED <<lock, stop, leader, shown, lease, req, cur, off, total, hung,
                   dbVars, starts, faults, hangs>>

ResumeIncompleteReplay(c) ==
    /\ pc[c] = "boot"
    /\ \/ TryAcquireOk(c[1]) /\ Goto(c, "scan")
       \/ TryAcquireFails(c[1]) /\ Goto(c, "idle")
    /\ UNCHANGED <<up, lock, stop, shown, req, cur, off, total, hung, dbVars,
                   starts, faults, hangs>>

\* findMostRecentInProgress, then replayEvents with the stored parameters.
\* When nothing is found, or the query fails, the lease is kept.
ScanProgress(c) ==
    /\ pc[c] = "scan" /\ c \notin hung
    /\ \/ \E k \in InProgress :
            /\ IsMostRecent(k, InProgress)
            /\ Enter(c, cursors[k].req)
       \/ /\ Goto(c, "idle")
          /\ UNCHANGED <<lock, stop, req>>
    /\ UNCHANGED <<up, leader, shown, lease, cur, off, total, hung, dbVars, starts,
                   faults, hangs>>

----------------------------------------------------------------------------
(* Environment.                                                            *)

\* The shutdown hook (app.ts) calls requestStopReplay.
RequestStopReplay(p) ==
    /\ up[p] /\ ~stop[p] /\ faults + hangs < FaultLimit
    /\ stop' = [stop EXCEPT ![p] = TRUE]
    /\ faults' = faults + 1
    /\ UNCHANGED <<up, lock, leader, shown, lease, callVars, hung, dbVars, starts, hangs>>

\* The next shutdown hook releases the lease at once, without waiting for the
\* replay that was just told to stop (GET and DEL as one step here).
ReleaseOnShutdown(p) ==
    /\ up[p] /\ stop[p] /\ leader[p]
    /\ leader' = [leader EXCEPT ![p] = FALSE]
    /\ lease' = IF lease = p THEN None ELSE lease
    /\ UNCHANGED <<up, lock, stop, shown, callVars, hung, dbVars, starts, faults, hangs>>

\* The key's TTL runs out.
LeaseExpires ==
    /\ lease # None
    /\ timely => /\ ~leader[lease]
                 /\ \A s \in Slot : pc[<<lease, s>>] # "delete"
    /\ lease' = None
    /\ UNCHANGED <<procVars, callVars, hung, dbVars, starts, faults, hangs>>

\* renew() finds the key gone or foreign, or finds itself too late.
HeartbeatDrops(p) ==
    /\ leader[p]
    /\ timely => lease # p
    /\ leader' = [leader EXCEPT ![p] = FALSE]
    /\ UNCHANGED <<up, lock, stop, shown, lease, callVars, hung, dbVars, starts, faults, hangs>>

\* A replica dies: its memory is lost and PostgreSQL rolls its open
\* transaction back, except that a COMMIT under way may still take effect.
Crash(p) ==
    /\ up[p] /\ faults + hangs < FaultLimit
    /\ faults' = faults + 1
    /\ up' = [up EXCEPT ![p] = FALSE]
    /\ lock' = [lock EXCEPT ![p] = FALSE]
    /\ stop' = [stop EXCEPT ![p] = FALSE]
    /\ leader' = [leader EXCEPT ![p] = FALSE]
    /\ shown' = [shown EXCEPT ![p] = [active |-> FALSE, cur |-> 0, offset |-> 0]]
    /\ pc' = [c \in Call |-> IF c[1] = p THEN "idle" ELSE pc[c]]
    /\ hung' = {c \in hung : c[1] # p}
    /\ inDoubt' = inDoubt \cup
                    {BatchTxn(c) : c \in {d \in Call : d[1] = p /\ pc[d] = "commit"}}
    /\ UNCHANGED <<lease, req, cur, off, total, nCursors, cursors, inserted, starts, hangs>>

\* A call's database connection stops answering, or comes back.
ConnectionHangs(c) ==
    /\ pc[c] \in InDB /\ c \notin hung
    /\ hangs < MaxHangs /\ faults + hangs < FaultLimit
    /\ hangs' = hangs + 1
    /\ hung' = hung \cup {c}
    /\ UNCHANGED <<procVars, lease, callVars, dbVars, starts, faults>>

ConnectionRecovers(c) ==
    /\ c \in hung
    /\ hung' = hung \ {c}
    /\ UNCHANGED <<procVars, lease, callVars, dbVars, starts, faults, hangs>>

----------------------------------------------------------------------------
\* What the replica itself does next, as opposed to what happens to it.
CallStep(c) ==
    \/ AcquireLease(c) \/ ResolveCursor(c) \/ CreateCursor(c) \/ StartReplay(c)
    \/ LoopHead(c) \/ BeginBatch(c) \/ FetchBatch(c) \/ WriteBatch(c)
    \/ CommitBatch(c) \/ BatchError(c) \/ RollbackBatch(c)
    \/ CompleteCursor(c) \/ QueryError(c) \/ ReleaseLease(c)
    \/ ResumeIncompleteReplay(c) \/ ScanProgress(c)

Next ==
    /\ UNCHANGED timely
    /\ \/ \E c \in Call : CallStep(c) \/ ConnectionHangs(c) \/ ConnectionRecovers(c)
       \/ \E c \in Call, r \in Request : ReplayEvents(c, r)
       \/ \E t \in inDoubt : SettleInDoubt(t)
       \/ \E p \in Proc : Restart(p) \/ RequestStopReplay(p) \/ ReleaseOnShutdown(p)
                          \/ HeartbeatDrops(p) \/ Crash(p)
       \/ LeaseExpires

\* A replica whose connection answers keeps taking its steps.  Nothing is
\* assumed of hung connections, new requests, crashes or the lease.
Fairness == \A c \in Call : WF_vars(CallStep(c) /\ UNCHANGED timely)

Spec     == Init /\ [][Next]_vars
FairSpec == Spec /\ Fairness

----------------------------------------------------------------------------
(* Properties.                                                             *)

\* The replayLock is held exactly while one call of the replica is between
\* its acquisition and its `finally`: no path leaks it, no two calls share it.
LockGuardsRun ==
    /\ \A c \in Call : pc[c] \in Locked => lock[c[1]]
    /\ \A p \in Proc : lock[p] => \E c \in Call : c[1] = p /\ pc[c] \in Locked
    /\ \A c, d \in Call : c[1] = d[1] /\ pc[c] \in Locked /\ pc[d] \in Locked => c = d

\* A cursor's durable offset never runs ahead of contract_events: the first
\* `offset` rows of its range are there, whatever crashed, was cut off or ran
\* twice.  So a resume from last_committed_offset skips no row.
CursorCoversRows ==
    \A k \in 1..nCursors :
        LET c == cursors[k] IN
            c.req.first..(c.req.first + c.offset - 1) \subseteq inserted

\* The progress /status polls from memory is never ahead of the durable offset.
ShownNotAhead ==
    \A p \in Proc : shown[p].active =>
        shown[p].offset <= cursors[shown[p].cur].offset

\* Committed work of an unfinished cursor is found by start-up recovery: its
\* checkpoint row says in-progress.
CommittedWorkIsDiscoverable ==
    \A k \in 1..nCursors :
        cursors[k].offset > 0 /\ ~cursors[k].completed => cursors[k].status = "in-progress"

\* A cursor marked completed has every row it counted in contract_events.
CompletedMeansReplayed ==
    \A k \in 1..nCursors :
        LET c == cursors[k] IN
            c.completed => c.req.first..(c.req.first + c.total - 1) \subseteq inserted

\* When the leader's heartbeat keeps its lease alive, a cursor is marked
\* completed only with all its rows replayed.
TimelyCompletedMeansReplayed == timely => CompletedMeansReplayed

\* No step lowers an offset, reopens a completed cursor, forgets a cursor or
\* removes a replayed row.
NoRegress ==
    /\ nCursors' >= nCursors
    /\ \A k \in 1..nCursors :
          /\ cursors'[k].offset >= cursors[k].offset
          /\ cursors[k].completed => cursors'[k].completed
    /\ inserted \subseteq inserted'
NothingRegresses == [][NoRegress]_vars

\* A call of replayEvents always ends, and with it lock and lease are given up,
\* unless its database connection stops answering; a call beside a stuck one,
\* and one whose connection comes back, end too.
EveryCallEnds == \A c \in Call : pc[c] # "idle" ~> (pc[c] = "idle" \/ c \in hung)

----------------------------------------------------------------------------
(* Claims of comments and documents that TLC refutes; the README's list of *)
(* disagreements gives the constants and the behaviour.                    *)

\* "Every write here happens in lockstep with a replay_cursors write": a
\* completed cursor's checkpoint row is not in-progress.
ProgressInLockstep ==
    \A k \in 1..nCursors : cursors[k].completed => cursors[k].status # "in-progress"

\* A stop request gets a replay off a stuck fetch or COMMIT and makes it
\* release the lock (withStopGuard's forced timeout).
StopUnwinds ==
    \A c \in Call :
        (c \in hung /\ stop[c[1]] /\ pc[c] \in {"fetch", "commit"}) ~> pc[c] \notin Locked
============================================================================

--------------------------- MODULE WebhookOutbox ---------------------------
(***************************************************************************)
(* The transactional webhook outbox: WebhookOutboxDispatcher               *)
(* (webhooks/outbox-dispatcher.ts), deliverOutboxRow (outbox-row.ts) and   *)
(* the retry decisions of retry.ts.  Dispatchers of several processes poll *)
(* webhook_outbox; each batch is one Postgres transaction that locks its   *)
(* rows with FOR UPDATE SKIP LOCKED, posts them one by one and commits.    *)
(* A retry is a new row; the old one is marked processed.                  *)
(* The rate limiter and the circuit breaker appear by their answers:       *)
(* deferred or admitted, and whether the failure threshold is reached.     *)
(***************************************************************************)
EXTENDS Integers, Sequences, FiniteSets, FiniteSetsExt, SequencesExt

CONSTANTS
    Worker,       \* dispatchers, one per process
    Event,        \* events with an outbox row
    BadUrl,       \* events whose payload names an endpoint assertSafe... rejects
    Poison,       \* events whose payload fails validateWebhookPayload
    Outcome,      \* how the consumer's endpoint may answer
    Breaker,      \* TRUE: the breaker's failure count may reach its threshold
    MaxAttempts,  \* policy.maxAttempts
    BatchSize,    \* rows per poll
    MaxFaults,    \* bound: crashes, database errors and stops
    MaxDefers,    \* bound: deferrals by the rate limiter or the breaker
    MaxPosts      \* bound: requests counted per event

ASSUME SetsAssumption ==
    /\ IsFiniteSet(Worker) /\ IsFiniteSet(Event)
    /\ BadUrl \subseteq Event /\ Poison \subseteq Event
    /\ Outcome \subseteq {"ok", "retryable", "timeout", "rejected", "other"}
ASSUME BoundsAssumption ==
    /\ MaxAttempts \in Nat \ {0} /\ BatchSize \in Nat \ {0} /\ Breaker \in BOOLEAN
    /\ MaxFaults \in Nat /\ MaxDefers \in Nat /\ MaxPosts \in Nat

VARIABLES
    rows,    \* webhook_outbox, indexed by id
    dlq,     \* ids of the rows handed to the dead-letter queue (addToDeadLetterQueue)
    run,     \* ~stopped: the poll timer is armed
    slow,    \* currentBatchBackoffMs > 0
    pc,      \* where processBatch of each dispatcher is
    lock,    \* ids locked by its transaction
    todo,    \* ids of the batch not yet handled
    cur,     \* id of the row being posted
    res,     \* how the consumer answered
    new,     \* rows its transaction has inserted
    seen,    \* requests the consumer acted on: event and delivery id
    acked,   \* events for which a 2xx came back
    posts,   \* requests sent per event
    cutShort,  \* history: events handled in a batch that a bad endpoint rolled back
    faults, defers

dbVars   == <<rows, dlq>>
txnVars  == <<lock, todo, cur, res, new>>
httpVars == <<seen, acked, posts, cutShort>>
vars     == <<dbVars, run, slow, pc, txnVars, httpVars, faults, defers>>

Row == [ev : Event, attempt : 1..MaxAttempts, due : BOOLEAN, done : BOOLEAN]
Id  == DOMAIN rows

TypeOK ==
    /\ rows \in Seq(Row)
    /\ dlq \subseteq Id
    /\ run \in [Worker -> BOOLEAN] /\ slow \in [Worker -> BOOLEAN]
    /\ pc \in [Worker -> {"idle", "backoff", "row", "settle"}]
    /\ \A w \in Worker :
          /\ todo[w] \subseteq lock[w] /\ lock[w] \subseteq Id
          /\ pc[w] = "settle" => cur[w] \in lock[w] \ todo[w]
          /\ res[w] \in Outcome \cup {"none"}
          /\ \A n \in new[w] : n.ev \in Event /\ n.attempt \in 1..MaxAttempts
          /\ pc[w] \in {"idle", "backoff"} => lock[w] = {} /\ new[w] = {}
    /\ acked \subseteq Event /\ cutShort \subseteq Event
    /\ posts \in [Event -> 0..MaxPosts]
    /\ faults \in 0..MaxFaults /\ defers \in 0..MaxDefers

\* A producer's transaction has inserted one row for each event.
Init ==
    /\ rows = [i \in 1..Cardinality(Event) |->
                 [ev |-> SetToSeq(Event)[i], attempt |-> 1, due |-> TRUE, done |-> FALSE]]
    /\ dlq = {}
    /\ run = [w \in Worker |-> TRUE]
    /\ slow = [w \in Worker |-> FALSE]
    /\ pc = [w \in Worker |-> "idle"]
    /\ lock = [w \in Worker |-> {}]
    /\ todo = [w \in Worker |-> {}]
    /\ cur = [w \in Worker |-> 0]
    /\ res = [w \in Worker |-> "none"]
    /\ new = [w \in Worker |-> {}]
    /\ seen = {} /\ acked = {} /\ cutShort = {}
    /\ posts = [e \in Event |-> 0]
    /\ faults = 0 /\ defers = 0

----------------------------------------------------------------------------
(* Decisions of retry.ts and delivery-support.ts                           *)

RetryOneMore(attempt, tripped) ==                 \* mutant: > for >=
    attempt <= MaxAttempts /\ ~tripped
\* shouldRetry, for an answer that is retryable.
ShouldRetry(attempt, tripped) == attempt < MaxAttempts /\ ~tripped

SameAttempt(attempt) == attempt                   \* mutant: counter not advanced
\* augmentPayloadWithRetry: the number carried by the retry row.
NextAttempt(attempt) == attempt + 1

\* classifyPoisonFailure: a timeout and a non-retryable 4xx go to the queue.
DeadLettered(answer) == answer \in {"timeout", "rejected"}

----------------------------------------------------------------------------
(* One poll                                                                *)

AvailableUnlocked == {r \in Id : rows[r].due /\ ~rows[r].done}  \* mutant: no SKIP LOCKED
\* WHERE processed = false AND created_at <= NOW() ... FOR UPDATE SKIP LOCKED
Available == {r \in Id : rows[r].due /\ ~rows[r].done /\ \A w \in Worker : r \notin lock[w]}

\* The SELECT of up to BatchSize rows; an empty batch commits at once.
ClaimBatch(w) ==
    \/ /\ Available = {}
       /\ pc' = [pc EXCEPT ![w] = "idle"]
       /\ slow' = [slow EXCEPT ![w] = FALSE]
       /\ UNCHANGED <<lock, todo>>
    \/ /\ Available # {}
       /\ \E S \in kSubset(Min({BatchSize, Cardinality(Available)}), Available) :
             lock' = [lock EXCEPT ![w] = S] /\ todo' = [todo EXCEPT ![w] = S]
       /\ pc' = [pc EXCEPT ![w] = "row"]
       /\ UNCHANGED slow

\* pollOnce from the timer; it joins a batch already in flight.
PollOnce(w) ==
    /\ run[w] /\ pc[w] = "idle"
    /\ IF slow[w]
       THEN pc' = [pc EXCEPT ![w] = "backoff"] /\ UNCHANGED <<slow, lock, todo>>
       ELSE ClaimBatch(w)
    /\ UNCHANGED <<dbVars, run, cur, res, new, httpVars, faults, defers>>

\* The back-off has passed; a dispatcher stopped meanwhile gives up.
BackoffOver(w) ==
    /\ pc[w] = "backoff"
    /\ IF run[w]
       THEN ClaimBatch(w)
       ELSE pc' = [pc EXCEPT ![w] = "idle"] /\ UNCHANGED <<slow, lock, todo>>
    /\ UNCHANGED <<dbVars, run, cur, res, new, httpVars, faults, defers>>

FailBatchKeepingLocks(w) ==                        \* mutant: the client is not released
    /\ pc' = [pc EXCEPT ![w] = "idle"]
    /\ todo' = [todo EXCEPT ![w] = {}]
    /\ cur' = [cur EXCEPT ![w] = 0]
    /\ res' = [res EXCEPT ![w] = "none"]
    /\ new' = [new EXCEPT ![w] = {}]
    /\ slow' = [slow EXCEPT ![w] = TRUE]
    /\ UNCHANGED lock
\* The transaction is over without effect; currentBatchBackoffMs grows.
FailBatch(w) ==
    /\ pc' = [pc EXCEPT ![w] = "idle"]
    /\ lock' = [lock EXCEPT ![w] = {}]
    /\ todo' = [todo EXCEPT ![w] = {}]
    /\ cur' = [cur EXCEPT ![w] = 0]
    /\ res' = [res EXCEPT ![w] = "none"]
    /\ new' = [new EXCEPT ![w] = {}]
    /\ slow' = [slow EXCEPT ![w] = TRUE]

----------------------------------------------------------------------------
(* deliverOutboxRow                                                        *)

Handled(w, r) == todo' = [todo EXCEPT ![w] = @ \ {r}]

\* resolveEndpoint throws, outside every try of deliverOutboxRow.
EndpointRejected(w) ==
    /\ pc[w] = "row"
    /\ \E r \in todo[w] : rows[r].ev \in BadUrl
    /\ cutShort' = cutShort \cup {rows[r].ev : r \in lock[w] \ todo[w]}
    /\ FailBatch(w)
    /\ UNCHANGED <<dbVars, run, seen, acked, posts, faults, defers>>

\* A payload that fails validation goes to the dead-letter queue.
DeadLetterPoison(w) ==
    /\ pc[w] = "row"
    /\ \E r \in todo[w] :
          /\ rows[r].ev \in Poison \ BadUrl
          /\ dlq' = dlq \cup {r}
          /\ Handled(w, r)
    /\ UNCHANGED <<rows, run, slow, pc, lock, cur, res, new, httpVars, faults, defers>>

DeferralDropped(w, r) == UNCHANGED new             \* mutant: retryAt missing
\* Denied by the rate limiter or the breaker: the same payload, later.
Reinsert(w, r) ==
    new' = [new EXCEPT ![w] = @ \cup {[ev |-> rows[r].ev, attempt |-> rows[r].attempt]}]

Defer(w) ==
    /\ pc[w] = "row" /\ defers < MaxDefers
    /\ defers' = defers + 1
    /\ \E r \in todo[w] :
          /\ rows[r].ev \notin BadUrl \cup Poison
          /\ Reinsert(w, r)
          /\ Handled(w, r)
    /\ UNCHANGED <<dbVars, run, slow, pc, lock, cur, res, httpVars, faults>>

\* The consumer may have acted on a request whose answer never arrived.
ActsOn(answer) == CASE answer = "ok" -> {TRUE}
                    [] answer \in {"retryable", "timeout"} -> BOOLEAN
                    [] OTHER -> {FALSE}

\* runDeliveryAttempt: x-fluxora-delivery-id is derived from the row's id.
Post(w) ==
    /\ pc[w] = "row"
    /\ \E r \in todo[w], answer \in Outcome :
          /\ rows[r].ev \notin BadUrl \cup Poison
          /\ cur' = [cur EXCEPT ![w] = r]
          /\ res' = [res EXCEPT ![w] = answer]
          /\ posts' = [posts EXCEPT ![rows[r].ev] = Min({@ + 1, MaxPosts})]
          /\ acked' = IF answer = "ok" THEN acked \cup {rows[r].ev} ELSE acked
          /\ \E acted \in ActsOn(answer) :
                seen' = IF acted THEN seen \cup {[ev |-> rows[r].ev, id |-> r]} ELSE seen
          /\ Handled(w, r)
    /\ pc' = [pc EXCEPT ![w] = "settle"]
    /\ UNCHANGED <<dbVars, run, slow, lock, new, cutShort, faults, defers>>

\* UPDATE processed, then the queue, a retry row, or nothing at all.
Settle(w) ==
    /\ pc[w] = "settle"
    /\ LET r == cur[w] IN
          /\ dlq' = IF DeadLettered(res[w]) THEN dlq \cup {r} ELSE dlq
          /\ \E tripped \in IF Breaker THEN BOOLEAN ELSE {FALSE} :
                new' = IF res[w] = "retryable" /\ ShouldRetry(rows[r].attempt, tripped)
                       THEN [new EXCEPT ![w] = @ \cup
                                {[ev |-> rows[r].ev, attempt |-> NextAttempt(rows[r].attempt)]}]
                       ELSE new
    /\ pc' = [pc EXCEPT ![w] = "row"]
    /\ cur' = [cur EXCEPT ![w] = 0]
    /\ res' = [res EXCEPT ![w] = "none"]
    /\ UNCHANGED <<rows, run, slow, lock, todo, httpVars, faults, defers>>

----------------------------------------------------------------------------
(* The end of the transaction, and what can go wrong                       *)

CommittedUnprocessed(w) ==                          \* mutant: the UPDATE is left out
    rows \o [i \in 1..Cardinality(new[w]) |->
               LET n == SetToSeq(new[w])[i]
               IN [ev |-> n.ev, attempt |-> n.attempt, due |-> FALSE, done |-> FALSE]]
\* Every handled row is processed and the inserted ones wait for retryAt.
Committed(w) ==
    [r \in Id |-> IF r \in lock[w] THEN [rows[r] EXCEPT !.done = TRUE] ELSE rows[r]]
    \o [i \in 1..Cardinality(new[w]) |->
          LET n == SetToSeq(new[w])[i]
          IN [ev |-> n.ev, attempt |-> n.attempt, due |-> FALSE, done |-> FALSE]]

BatchDone(w) == pc[w] = "row" /\ todo[w] = {}

Commit(w) ==
    /\ BatchDone(w)
    /\ rows' = Committed(w)
    /\ pc' = [pc EXCEPT ![w] = "idle"]
    /\ lock' = [lock EXCEPT ![w] = {}]
    /\ new' = [new EXCEPT ![w] = {}]
    /\ slow' = [slow EXCEPT ![w] = FALSE]
    /\ UNCHANGED <<dlq, run, todo, cur, res, httpVars, faults, defers>>

\* COMMIT fails at the client: Postgres may have applied it or not.
CommitFails(w) ==
    /\ BatchDone(w) /\ faults < MaxFaults
    /\ faults' = faults + 1
    /\ rows' \in {rows, Committed(w)}
    /\ FailBatch(w)
    /\ UNCHANGED <<dlq, run, httpVars, defers>>

\* Another statement fails: ROLLBACK.
StatementFails(w) ==
    /\ pc[w] \in {"row", "settle"} /\ faults < MaxFaults
    /\ faults' = faults + 1
    /\ FailBatch(w)
    /\ UNCHANGED <<dbVars, run, httpVars, defers>>

\* The process dies and a new one takes its place, with no back-off.
Crash(w) ==
    /\ pc[w] # "idle" /\ faults < MaxFaults
    /\ faults' = faults + 1
    /\ pc' = [pc EXCEPT ![w] = "idle"]
    /\ lock' = [lock EXCEPT ![w] = {}]
    /\ todo' = [todo EXCEPT ![w] = {}]
    /\ cur' = [cur EXCEPT ![w] = 0]
    /\ res' = [res EXCEPT ![w] = "none"]
    /\ new' = [new EXCEPT ![w] = {}]
    /\ slow' = [slow EXCEPT ![w] = FALSE]
    /\ run' = [run EXCEPT ![w] = TRUE]
    /\ UNCHANGED <<dbVars, httpVars, defers>>

Stop(w) ==
    /\ run[w] /\ faults < MaxFaults
    /\ faults' = faults + 1
    /\ run' = [run EXCEPT ![w] = FALSE]
    /\ UNCHANGED <<dbVars, slow, pc, txnVars, httpVars, defers>>

Start(w) ==
    /\ ~run[w]
    /\ run' = [run EXCEPT ![w] = TRUE]
    /\ UNCHANGED <<dbVars, slow, pc, txnVars, httpVars, faults, defers>>

\* NOW() passes the created_at of a scheduled row.
RowDue ==
    /\ \E r \in Id : ~rows[r].due /\ rows' = [rows EXCEPT ![r].due = TRUE]
    /\ UNCHANGED <<dlq, run, slow, pc, txnVars, httpVars, faults, defers>>

DeliverRow(w) ==
    EndpointRejected(w) \/ DeadLetterPoison(w) \/ Defer(w) \/ Post(w) \/ Settle(w)

Next ==
    \/ RowDue
    \/ \E w \in Worker :
          \/ PollOnce(w) \/ BackoffOver(w) \/ DeliverRow(w) \/ Commit(w)
          \/ CommitFails(w) \/ StatementFails(w) \/ Crash(w) \/ Stop(w) \/ Start(w)

Spec == Init /\ [][Next]_vars

\* The poll timer keeps firing, a back-off ends, requests are answered or time
\* out, and a dispatcher that was stopped is started again.
Fairness ==
    /\ WF_vars(RowDue)
    /\ \A w \in Worker : /\ WF_vars(PollOnce(w)) /\ WF_vars(BackoffOver(w))
                         /\ WF_vars(DeliverRow(w)) /\ WF_vars(Commit(w))
                         /\ WF_vars(Start(w))
FairSpec == Spec /\ Fairness

----------------------------------------------------------------------------
(* Properties                                                              *)

Live(e)   == {r \in Id : rows[r].ev = e /\ ~rows[r].done}
Queued(e) == \E r \in dlq : rows[r].ev = e

\* Marking a row processed and inserting its retry are one transaction, and
\* nobody else may handle the row meanwhile: an event never has two
\* unprocessed rows, whatever crashes or fails in between.
OneLiveRow == \A e \in Event : Cardinality(Live(e)) <= 1

\* "Concurrent workers use FOR UPDATE SKIP LOCKED without sending the same row
\* at the same time" (delivery.ts): two dispatchers never work on one event.
NoConcurrentSend ==
    \A v, w \in Worker : v # w =>
        {rows[r].ev : r \in lock[v]} \cap {rows[r].ev : r \in lock[w]} = {}

\* An event leaves the outbox only delivered, dead-lettered or after its last
\* attempt: deferrals, rollbacks and crashes in between lose nothing.
LostOnlyWhenExhausted ==
    \A e \in Event : \/ Live(e) # {} \/ e \in acked \/ Queued(e)
                     \/ \E r \in Id : rows[r].ev = e /\ rows[r].attempt = MaxAttempts

\* maxAttempts bounds the requests a consumer sees for an event, up to one
\* repetition for each batch that was cut short by a fault (a bad endpoint in the
\* same batch repeats them without end), and the rows of the table.
BoundedPosts ==
    /\ \A e \in Event \ cutShort : posts[e] <= MaxAttempts + faults
    /\ Len(rows) <= Cardinality(Event) * MaxAttempts + MaxDefers

\* Deferrals, retries, rollbacks and crashes leave every event in exactly one
\* place, one live row or the end that its answers and attempts call for, and
\* neither requests nor rows multiply.
EventAccounted == TypeOK /\ OneLiveRow /\ LostOnlyWhenExhausted /\ BoundedPosts

\* Every event is settled in the end: no row stays unprocessed for ever.
EventuallySettled == <>[](\A e \in Event : Live(e) = {})

----------------------------------------------------------------------------
(* Claims of comments and documents that TLC refutes; the README's list of *)
(* disagreements gives the constants and the behaviour.                    *)

\* "no delivery is silently lost" (retry.ts) and "row moves to dead-letter
\* queue" when maxAttempts is reached (docs/webhooks.md).
NoSilentLoss == \A e \in Event : Live(e) # {} \/ e \in acked \/ Queued(e)

\* "Stable delivery ID for deduplication" (docs/ABI_STABILITY.md): whatever
\* the consumer acts on for one event carries one delivery id.
StableDeliveryId == \A s, t \in seen : s.ev = t.ev => s.id = t.id

\* "Fast-track poison to DLQ without retrying" (outbox-row.ts): an event with an
\* invalid payload or an unusable endpoint URL reaches the dead-letter queue.
PoisonReachesDlq == \A e \in BadUrl \cup Poison : <>Queued(e)
============================================================================

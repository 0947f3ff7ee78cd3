------------------------- MODULE WebhookDeliveries -------------------------
(***************************************************************************)
(* WebhookService (webhooks/delivery.ts) over the delivery map of one      *)
(* process (webhooks/store.ts): queueDelivery, the retry route that calls  *)
(* processPendingRetries, and the clean-up route.  The calls interleave at *)
(* their awaits: the delivery gate, the HTTP request and the breaker's     *)
(* bookkeeping.  All of them share one object per delivery.                *)
(*                                                                         *)
(* An attempt is kept as what its nextRetryAt says: "none" (unset),        *)
(* "later" or "due".                                                       *)
(***************************************************************************)
EXTENDS Naturals, Sequences, FiniteSets

CONSTANTS
    Delivery,      \* deliveries handed to queueDelivery, once each
    Caller,        \* POST /retry requests that may be under way at once
    MaxAttempts,   \* policy.maxAttempts
    Outcome,       \* answers of the consumer: ok, retryable, rejected, error
    MaxDenials     \* bound: refusals of the delivery gate

ASSUME DeliveryAssumption ==
    /\ Delivery # {} /\ Delivery \cap Caller = {}
    /\ MaxAttempts \in Nat \ {0} /\ MaxDenials \in Nat

VARIABLES
    status,        \* delivery.status; "new" before it is queued
    attempts,      \* delivery.attempts
    stored,        \* deliveries in the store's map
    dlq,           \* "no", "queued", or "handled": what the dead-letter queue did with it
    pc, list, cur, \* each call: its step, the deliveries left to it, the one in hand
    number, mine,  \* attemptNumber, and the position of the attempt it pushed
    answer,        \* what the consumer answered to it
    denials,
    posts, acks,   \* history: requests sent, and acknowledged, per delivery
    overlapped     \* history: two retry requests have been under way at once

deliveryVars == <<status, attempts, stored, dlq, pc, list, cur, number, mine, answer,
          denials, posts, acks, overlapped>>
calls == <<pc, list, cur, number, mine, answer>>

\* queueDelivery runs under the name of its delivery.
Task == Delivery \cup Caller

TypeOK ==
    /\ status \in [Delivery -> {"new", "pending", "delivered", "permanent_failure"}]
    /\ attempts \in [Delivery -> Seq({"none", "later", "due"})]
    /\ stored \subseteq Delivery
    /\ dlq \in [Delivery -> {"no", "queued", "handled"}]
    /\ pc \in [Task -> {"idle", "gate", "http", "record"}]
    /\ list \in [Task -> SUBSET Delivery]
    /\ cur \in [Task -> Delivery]
    /\ \A t \in Task : number[t] \in Nat /\ mine[t] \in 0..Len(attempts[cur[t]])
    /\ answer \in [Task -> Outcome \cup {"none"}]
    /\ denials \in 0..MaxDenials
    /\ posts \in [Delivery -> Nat] /\ acks \in [Delivery -> Nat]
    /\ overlapped \in BOOLEAN

Init ==
    /\ status = [d \in Delivery |-> "new"]
    /\ attempts = [d \in Delivery |-> <<>>]
    /\ stored = {}
    /\ dlq = [d \in Delivery |-> "no"]
    /\ pc = [t \in Task |-> "idle"]
    /\ list = [t \in Task |-> {}]
    /\ cur = [t \in Task |-> CHOOSE d \in Delivery : TRUE]
    /\ number = [t \in Task |-> 0] /\ mine = [t \in Task |-> 0]
    /\ answer = [t \in Task |-> "none"]
    /\ denials = 0
    /\ posts = [d \in Delivery |-> 0] /\ acks = [d \in Delivery |-> 0]
    /\ overlapped = FALSE

Last(s) == s[Len(s)]

----------------------------------------------------------------------------
(* The calls                                                               *)

\* queueDelivery: stored as pending, then the gate is awaited.
QueueDelivery(d) ==
    /\ status[d] = "new"
    /\ status' = [status EXCEPT ![d] = "pending"]
    /\ stored' = stored \cup {d}
    /\ pc' = [pc EXCEPT ![d] = "gate"]
    /\ list' = [list EXCEPT ![d] = {d}]
    /\ UNCHANGED <<attempts, dlq, cur, number, mine, answer, denials, posts, acks, overlapped>>

PendingFirstRetry ==       \* mutant: only the first retry is looked for
    {d \in stored : status[d] = "pending" /\ Len(attempts[d]) = 1 /\ Last(attempts[d]) = "due"}
\* getPendingRetries
PendingRetries ==
    {d \in stored : status[d] = "pending" /\ attempts[d] # <<>> /\ Last(attempts[d]) = "due"}

\* processPendingRetries: the snapshot is walked without looking again.
ProcessPendingRetries(c) ==
    /\ pc[c] = "idle" /\ PendingRetries # {}
    /\ list' = [list EXCEPT ![c] = PendingRetries]
    /\ pc' = [pc EXCEPT ![c] = "gate"]
    /\ overlapped' = (overlapped \/ \E o \in Caller \ {c} : pc[o] # "idle")
    /\ UNCHANGED <<status, attempts, stored, dlq, cur, number, mine, answer, denials, posts, acks>>

\* The call is done with d: the next one of its list, or the end.
Done(t, d) ==
    /\ list' = [list EXCEPT ![t] = @ \ {d}]
    /\ pc' = [pc EXCEPT ![t] = IF list[t] = {d} THEN "idle" ELSE "gate"]
    /\ number' = [number EXCEPT ![t] = 0]
    /\ mine' = [mine EXCEPT ![t] = 0]
    /\ answer' = [answer EXCEPT ![t] = "none"]
    /\ UNCHANGED cur

\* The gate defers: queueDelivery records an attempt that was never made, a
\* retry moves the time of the last attempt.
GateDenied(t, d) ==
    /\ pc[t] = "gate" /\ d \in list[t] /\ denials < MaxDenials
    /\ attempts' = [attempts EXCEPT ![d] = IF t = d THEN Append(@, "later")
                                                    ELSE [@ EXCEPT ![Len(@)] = "later"]]
    /\ stored' = stored \cup {d}
    /\ denials' = denials + 1
    /\ Done(t, d)
    /\ UNCHANGED <<status, dlq, posts, acks, overlapped>>

\* attemptDelivery up to the request: the number is taken before it.
GateAllowed(t, d) ==
    /\ pc[t] = "gate" /\ d \in list[t]
    /\ number' = [number EXCEPT ![t] = Len(attempts[d]) + 1]
    /\ cur' = [cur EXCEPT ![t] = d]
    /\ posts' = [posts EXCEPT ![d] = @ + 1]
    /\ pc' = [pc EXCEPT ![t] = "http"]
    /\ UNCHANGED <<status, attempts, stored, dlq, list, mine, answer, denials, acks, overlapped>>

RetryOffByOne(o, n, tripped) == n <= MaxAttempts /\ ~tripped /\ o \in {"retryable", "error"}
\* shouldRetry; tripped: the breaker counts circuitBreakerThreshold failures.
ShouldRetry(o, n, tripped) == n < MaxAttempts /\ ~tripped /\ o \in {"retryable", "error"}

\* runDeliveryAttempt once the consumer answered (or the request failed).
Answer(t, o) ==
    LET d == cur[t] IN
    /\ pc[t] = "http"
    /\ status' = [status EXCEPT ![d] = IF o = "ok" THEN "delivered" ELSE "pending"]
    /\ attempts' = [attempts EXCEPT ![d] =
            Append(@, IF ShouldRetry(o, number[t], FALSE) THEN "later" ELSE "none")]
    /\ mine' = [mine EXCEPT ![t] = Len(attempts[d]) + 1]
    /\ stored' = stored \cup {d}
    /\ answer' = [answer EXCEPT ![t] = o]
    /\ acks' = [acks EXCEPT ![d] = IF o = "ok" THEN @ + 1 ELSE @]
    /\ pc' = [pc EXCEPT ![t] = "record"]
    /\ UNCHANGED <<dlq, list, cur, number, denials, posts, overlapped>>

\* enqueuePermanentFailureToDlq
Enqueued(d) == [dlq EXCEPT ![d] = "queued"]

ConcludeUnlessDead(t, tripped) ==   \* mutant: no entry when the breaker decides
    LET d == cur[t] IN
    /\ pc[t] = "record" /\ ~(tripped /\ answer[t] = "ok")
    /\ status' = [status EXCEPT ![d] = IF @ = "delivered" THEN @ ELSE "permanent_failure"]
    /\ dlq' = IF tripped \/ status[d] = "delivered" THEN dlq ELSE Enqueued(d)
    /\ Done(t, d)
    /\ UNCHANGED <<attempts, stored, denials, posts, acks, overlapped>>
\* attemptDelivery after recordBreakerOutcome; the status consulted may be
\* another call's.
Conclude(t, tripped) ==
    LET d == cur[t]
        retry == ShouldRetry(answer[t], number[t], tripped)
    IN
    /\ pc[t] = "record" /\ ~(tripped /\ answer[t] = "ok")
    /\ \/ status[d] = "delivered" /\ UNCHANGED <<status, attempts, stored, dlq>>
       \/ /\ status[d] # "delivered" /\ retry
          /\ status' = [status EXCEPT ![d] = "pending"]
          /\ attempts' = [attempts EXCEPT ![d][mine[t]] = "later"]
          /\ stored' = stored \cup {d}
          /\ UNCHANGED dlq
       \/ /\ status[d] # "delivered" /\ ~retry
          /\ status' = [status EXCEPT ![d] = "permanent_failure"]
          /\ stored' = stored \cup {d}
          /\ dlq' = Enqueued(d)
          /\ UNCHANGED attempts
    /\ Done(t, d)
    /\ UNCHANGED <<denials, posts, acks, overlapped>>

----------------------------------------------------------------------------
(* Clean-up, the dead-letter route and time                                *)

\* cleanup: delivered records and dead-letter entries older than the cutoff.
Cleanup(old, entries) ==
    /\ old \subseteq {d \in stored : status[d] = "delivered"}
    /\ entries \subseteq {d \in Delivery : dlq[d] = "queued"}
    /\ old \cup entries # {}
    /\ stored' = stored \ old
    /\ dlq' = [d \in Delivery |-> IF d \in entries THEN "handled" ELSE dlq[d]]
    /\ UNCHANGED <<status, attempts, denials, posts, acks, overlapped>> /\ UNCHANGED calls

\* POST /dlq/:id/retry: the entry goes; its event is queued under a new id.
RetryDeadLetter(d) ==
    /\ dlq[d] = "queued"
    /\ dlq' = [dlq EXCEPT ![d] = "handled"]
    /\ UNCHANGED <<status, attempts, stored, denials, posts, acks, overlapped>> /\ UNCHANGED calls

\* Time reaches a nextRetryAt.
RetryDue(d) ==
    /\ attempts[d] # <<>> /\ Last(attempts[d]) = "later"
    /\ attempts' = [attempts EXCEPT ![d][Len(attempts[d])] = "due"]
    /\ UNCHANGED <<status, stored, dlq, denials, posts, acks, overlapped>> /\ UNCHANGED calls

Progress(t) ==
    \/ \E d \in Delivery : GateDenied(t, d) \/ GateAllowed(t, d)
    \/ \E o \in Outcome : Answer(t, o)
    \/ \E tripped \in BOOLEAN : Conclude(t, tripped)

Next ==
    \/ \E d \in Delivery : QueueDelivery(d) \/ RetryDeadLetter(d) \/ RetryDue(d)
    \/ \E c \in Caller : ProcessPendingRetries(c)
    \/ \E t \in Task : Progress(t)
    \/ \E old, entries \in SUBSET Delivery : Cleanup(old, entries)

Spec == Init /\ [][Next]_deliveryVars

\* Time passes, a call under way goes on, and the retry route keeps being
\* called ("Should be called periodically").
Fairness ==
    /\ \A d \in Delivery : WF_deliveryVars(RetryDue(d))
    /\ \A t \in Task : WF_deliveryVars(Progress(t))
    /\ \A c \in Caller : WF_deliveryVars(ProcessPendingRetries(c))
FairSpec == Spec /\ Fairness

----------------------------------------------------------------------------
(* Properties                                                              *)

Held(d) == \E t \in Task : d \in list[t]

\* A delivery that no call has in hand is delivered, waits for a retry, or was
\* dead-lettered, however the calls interleaved: none is forgotten.
NothingForgotten ==
    \A d \in Delivery : status[d] \in {"pending", "permanent_failure"} /\ ~Held(d) =>
        \/ status[d] = "pending" /\ attempts[d] # <<>> /\ Last(attempts[d]) # "none"
        \/ dlq[d] # "no"

\* While retry requests do not overlap, the consumer acknowledges a delivery at
\* most once and is asked at most maxAttempts times, whatever queueDelivery,
\* the gate, the breaker and the clean-up do in between.
SerialRetriesSendOnce ==
    overlapped \/ \A d \in Delivery : acks[d] <= 1 /\ posts[d] <= MaxAttempts

\* A queued delivery ends delivered or in the dead-letter queue.
EveryDeliveryEnds ==
    \A d \in Delivery : status[d] = "pending" ~> (status[d] = "delivered" \/ dlq[d] # "no")
============================================================================

-------------------------- MODULE MCWebhookService --------------------------
(***************************************************************************)
(* WebhookDeliveries, WebhookStore and WebhookOutbox in one run of TLC:    *)
(* `focus' names the one that moves.  The fairness is that of each         *)
(* module's FairSpec, for the one in focus.                                *)
(***************************************************************************)
EXTENDS WebhookDeliveries, TLC

CONSTANTS
    Item, Worker, Letter, MaxIds, MaxCrashes, MaxWrites,
    BadUrl, Poison, OutboxOutcome, OutboxAttempts, Breaker, BatchSize, MaxFaults,
    MaxDefers, MaxPosts,
    d1, c1, c2, i1, w1, w2, l1, e1, e2

ASSUME StoreAssumption == MaxIds \in Nat /\ MaxCrashes \in Nat

VARIABLES
    focus,
    phase, queue, map, row, entries, dlqRows, ids, writes, crashes, accepted, handled,
    lost, dead, resolved, lostDead, early,
    rows, letters, run, slow, oPc, lock, todo, oCur, res, new, seen, acked, oPosts,
    cutShort, faults, defers

storeVars == <<phase, queue, map, row, entries, dlqRows, ids, writes, crashes, accepted,
               handled, lost, dead, resolved, lostDead, early>>
outboxVars == <<rows, letters, run, slow, oPc, lock, todo, oCur, res, new, seen, acked,
                oPosts, cutShort, faults, defers>>

Store == INSTANCE WebhookStore
Outbox == INSTANCE WebhookOutbox
            WITH Worker <- {w1, w2}, Event <- {e1, e2}, Outcome <- OutboxOutcome,
                 MaxAttempts <- OutboxAttempts, dlq <- letters, pc <- oPc, cur <- oCur,
                 posts <- oPosts

MCInit == focus \in {"deliveries", "store", "outbox"} /\ Init /\ Store!Init /\ Outbox!Init

MCNext ==
    \/ focus = "deliveries" /\ Next /\ UNCHANGED <<focus, storeVars, outboxVars>>
    \/ focus = "store" /\ Store!Next /\ UNCHANGED <<focus, deliveryVars, outboxVars>>
    \/ focus = "outbox" /\ Outbox!Next /\ UNCHANGED <<focus, deliveryVars, storeVars>>

MCSpec ==
    /\ MCInit /\ [][MCNext]_<<focus, deliveryVars, storeVars, outboxVars>>
    /\ \A d \in Delivery : WF_deliveryVars(focus = "deliveries" /\ RetryDue(d))
    /\ \A t \in Task : WF_deliveryVars(focus = "deliveries" /\ Progress(t))
    /\ \A c \in Caller : WF_deliveryVars(focus = "deliveries" /\ ProcessPendingRetries(c))
    /\ WF_outboxVars(focus = "outbox" /\ Outbox!RowDue)
    /\ \A w \in {w1, w2} : /\ WF_outboxVars(focus = "outbox" /\ Outbox!PollOnce(w))
                           /\ WF_outboxVars(focus = "outbox" /\ Outbox!BackoffOver(w))
                           /\ WF_outboxVars(focus = "outbox" /\ Outbox!DeliverRow(w))
                           /\ WF_outboxVars(focus = "outbox" /\ Outbox!Commit(w))
                           /\ WF_outboxVars(focus = "outbox" /\ Outbox!Start(w))

----------------------------------------------------------------------------
\* The mirror of the delivery store, as WebhookStore states it.
MirrorLosesNothing == Store!MirrorLosesNothing

\* No delivery of the service is forgotten, and a consumer is asked at most
\* MaxAttempts times for it unless retry requests overlapped.
DeliveriesAccounted == TypeOK /\ NothingForgotten /\ SerialRetriesSendOnce

\* Nothing stays under way for ever: a queued delivery ends delivered or in the
\* dead-letter queue, and an outbox event ends in no live row.
EverythingSettles == EveryDeliveryEnds /\ (focus = "outbox" => Outbox!EventuallySettled)
============================================================================

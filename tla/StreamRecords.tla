---------------------------- MODULE StreamRecords ---------------------------
(***************************************************************************)
(* The row of one stream under everything that writes it: chain events     *)
(* (services/streamEventService.ts, behind the cache of redis/dedup.ts),   *)
(* PATCH and DELETE of the API (routes/streams/write.ts) and the bulk      *)
(* actions of an operator (routes/admin.ts).  All of them go through       *)
(* db/repositories/streamRepository.ts: read, validate, then an UPDATE     *)
(* guarded by the status that was read.  Reads may come from a replica     *)
(* that lags.  Events are delivered at least once, in any order.           *)
(***************************************************************************)
EXTENDS Naturals, Sequences

CONSTANTS
    Actor,          \* handler calls under way at once
    Server,         \* server processes
    ServerOf,       \* [Actor -> Server]
    Event,          \* chain events of the stream
    EventType,      \* [Event -> {"created", "updated", "cancelled"}]
    EventStatus,    \* [Event -> status of an update, "none" if it only has amounts]
    MaxDelivered,   \* bound: deliveries of each event
    MaxRequests,    \* bound: API and admin requests
    MaxTrouble,     \* bound: failed Redis commands, ended dedup windows and crashes
    MaxWal          \* bound: how far the replica may lag

Life == INSTANCE StreamLifecycle WITH status <- "absent"    \* for the transition table

VARIABLES
    row,            \* the primary's row: its status, or absent
    wal, replica,   \* writes the replica has not replayed; its row
    redisSeen, memSeen,   \* dedup keys in Redis, and in each process
    call,           \* each handler call
    delivered, requests, trouble,
    applied, acked, failed, broadcasts,   \* history, by event
    degraded        \* history: a dedup key may have been missed

streamVars == <<row, wal, replica, redisSeen, memSeen, call, delivered, requests, trouble,
                applied, acked, failed, broadcasts, degraded>>
dbVars == <<row, wal, replica>>
dedupVars == <<redisSeen, memSeen, degraded>>
outcome == <<applied, acked, failed, broadcasts>>
bounds == <<delivered, requests, trouble>>

None == "none"
Free == [at |-> "free", event |-> None, to |-> None, base |-> None]
RowStatus == {"absent", "active", "paused", "completed", "cancelled"}

ASSUME EventAssumption ==
    /\ EventType \in [Event -> {"created", "updated", "cancelled"}]
    /\ EventStatus \in [Event -> Life!StreamStatus \cup {None}]
    /\ None \notin Event
ASSUME ServerAssumption == ServerOf \in [Actor -> Server]
ASSUME BoundsAssumption == {MaxDelivered, MaxRequests, MaxTrouble, MaxWal} \subseteq Nat

TypeOK ==
    /\ row \in RowStatus /\ replica \in RowStatus /\ wal \in Seq(RowStatus)
    /\ redisSeen \subseteq Event /\ memSeen \in [Server -> SUBSET Event]
    /\ call \in [Actor -> [at : {"free", "dedup", "insert", "conflict", "byEvent", "find", "current", "write"},
                           event : Event \cup {None}, to : RowStatus \cup {None}, base : RowStatus \cup {None}]]
    /\ delivered \in [Event -> 0..MaxDelivered] /\ requests \in 0..MaxRequests
    /\ trouble \in 0..MaxTrouble
    /\ {applied, acked, failed} \subseteq [Event -> BOOLEAN]
    /\ broadcasts \in [Event -> Nat] /\ degraded \in BOOLEAN

Init ==
    /\ row = "absent" /\ replica = "absent" /\ wal = <<>>
    /\ redisSeen = {} /\ memSeen = [p \in Server |-> {}]
    /\ call = [a \in Actor |-> Free]
    /\ delivered = [e \in Event |-> 0] /\ requests = 0
    /\ trouble = 0
    /\ applied = [e \in Event |-> FALSE] /\ acked = [e \in Event |-> FALSE]
    /\ failed = [e \in Event |-> FALSE] /\ broadcasts = [e \in Event |-> 0]
    /\ degraded = FALSE

----------------------------------------------------------------------------
(* Database                                                                *)

\* getReadPool: the replica, or the primary when there is none, it is unhealthy
\* or its measured lag is too large.
ReadPool == {row, replica}

Commit(status) ==
    /\ Len(wal) < MaxWal
    /\ row' = status /\ wal' = Append(wal, status) /\ UNCHANGED replica

Replay ==
    /\ wal # <<>>
    /\ replica' = Head(wal) /\ wal' = Tail(wal)
    /\ UNCHANGED row /\ UNCHANGED <<dedupVars, call, outcome, bounds>>

----------------------------------------------------------------------------
(* Calls                                                                   *)

Goto(a, at) == call' = [call EXCEPT ![a].at = at]
IsEvent(a) == call[a].event # None
Ev(a) == call[a].event

\* The call returns.  An event's result says success or not.
Succeed(a) ==
    /\ call' = [call EXCEPT ![a] = Free]
    /\ acked' = IF IsEvent(a) THEN [acked EXCEPT ![Ev(a)] = TRUE] ELSE acked
    /\ UNCHANGED failed
Fail(a) ==
    /\ call' = [call EXCEPT ![a] = Free]
    /\ failed' = IF IsEvent(a) THEN [failed EXCEPT ![Ev(a)] = TRUE] ELSE failed
    /\ UNCHANGED acked

\* processEvent
DeliverEvent(a, e) ==
    /\ call[a].at = "free" /\ delivered[e] < MaxDelivered
    /\ delivered' = [delivered EXCEPT ![e] = @ + 1]
    /\ call' = [call EXCEPT ![a] = [at |-> "dedup", event |-> e, base |-> None,
                                    to |-> CASE EventType[e] = "created" -> "active"
                                             [] EventType[e] = "updated" -> EventStatus[e]
                                             [] EventType[e] = "cancelled" -> "cancelled"]]
    /\ UNCHANGED <<requests, trouble>> /\ UNCHANGED <<dbVars, dedupVars, outcome>>

\* The first step of each handler once the event is new.
Begin(e) == CASE EventType[e] = "created" -> "insert"
              [] EventType[e] = "updated" -> "find"
              [] EventType[e] = "cancelled" -> "current"

\* HybridDedupCache.add with Redis at hand, taken as one step: setNx decides.
IsNew(a, e) == e \notin memSeen[ServerOf[a]] /\ e \notin redisSeen

Dedup(a) ==
    LET e == Ev(a)  p == ServerOf[a] IN
    /\ call[a].at = "dedup"
    /\ redisSeen' = redisSeen \cup {e}
    /\ \/ /\ IsNew(a, e)
          /\ memSeen' = [memSeen EXCEPT ![p] = @ \cup {e}]
          /\ Goto(a, Begin(e)) /\ UNCHANGED <<acked, failed>>
       \/ ~IsNew(a, e) /\ Succeed(a) /\ UNCHANGED memSeen          \* ignored
    /\ UNCHANGED <<degraded, applied, broadcasts>> /\ UNCHANGED <<dbVars, bounds>>

\* Redis throws (whether or not the key was set): the process's own map answers.
DedupFallback(a) ==
    LET e == Ev(a)  p == ServerOf[a] IN
    /\ call[a].at = "dedup" /\ trouble < MaxTrouble
    /\ trouble' = trouble + 1 /\ degraded' = TRUE
    /\ redisSeen' \in {redisSeen, redisSeen \cup {e}}
    /\ memSeen' = [memSeen EXCEPT ![p] = @ \cup {e}]
    /\ \/ e \notin memSeen[p] /\ Goto(a, Begin(e)) /\ UNCHANGED <<acked, failed>>
       \/ e \in memSeen[p] /\ Succeed(a)
    /\ UNCHANGED <<applied, broadcasts, delivered, requests>> /\ UNCHANGED dbVars

BroadcastAlways(a) == TRUE       \* mutant: broadcast whether or not the row was created
\* hub.broadcast follows only an INSERT that returned a row.
Created(a) == row = "absent"

\* INSERT ... ON CONFLICT DO NOTHING of upsertStream
InsertStream(a) ==
    /\ call[a].at = "insert"
    /\ broadcasts' = IF Created(a) THEN [broadcasts EXCEPT ![Ev(a)] = @ + 1] ELSE broadcasts
    /\ \/ row = "absent" /\ Commit("active") /\ Succeed(a) /\ applied' = [applied EXCEPT ![Ev(a)] = TRUE]
       \/ row # "absent" /\ Goto(a, "conflict") /\ UNCHANGED dbVars /\ UNCHANGED <<applied, acked, failed>>
    /\ UNCHANGED <<dedupVars, bounds>>

\* getById and getByEvent after the conflict, both from the read pool: the error
\* "stream not found after insert conflict" if the replica has neither.
AfterConflict(a) ==
    /\ call[a].at \in {"conflict", "byEvent"}
    /\ \E seen \in ReadPool :
          \/ seen # "absent" /\ Succeed(a)
          \/ seen = "absent" /\ call[a].at = "conflict" /\ Goto(a, "byEvent") /\ UNCHANGED <<acked, failed>>
          \/ seen = "absent" /\ call[a].at = "byEvent" /\ Fail(a)
    /\ UNCHANGED <<applied, broadcasts>> /\ UNCHANGED <<dbVars, dedupVars, bounds>>

\* PATCH /api/streams/:id/status and DELETE start with a read; a bulk action
\* goes to updateStream at once.
Request(a, to, at) ==
    /\ call[a].at = "free" /\ requests < MaxRequests
    /\ requests' = requests + 1
    /\ call' = [call EXCEPT ![a] = [at |-> at, event |-> None, to |-> to, base |-> None]]
    /\ UNCHANGED <<delivered, trouble>> /\ UNCHANGED <<dbVars, dedupVars, outcome>>
ApiRequest(a, to) == Request(a, to, "find")
BulkAction(a, to) == to \in {"paused", "cancelled"} /\ Request(a, to, "current")

\* assertApiTransition, which only the API's handlers call.
Refused(a, seen) == ~IsEvent(a) /\ call[a].to \notin Life!Allowed(seen)

\* The handler's own getById: not found is an answer.
Find(a) ==
    /\ call[a].at = "find"
    /\ \E seen \in ReadPool :
          IF seen = "absent" \/ Refused(a, seen)
          THEN Fail(a)
          ELSE Goto(a, "current") /\ UNCHANGED <<acked, failed>>
    /\ UNCHANGED <<applied, broadcasts>> /\ UNCHANGED <<dbVars, dedupVars, bounds>>

\* updateStream: the primary's row, and isValidStatusTransition if the update
\* has a status.
ReadCurrent(a) ==
    /\ call[a].at = "current"
    /\ IF row = "absent" \/ (call[a].to # None /\ call[a].to \notin Life!Allowed(row))
       THEN Fail(a)
       ELSE /\ call' = [call EXCEPT ![a].at = "write", ![a].base = row]
            /\ UNCHANGED <<acked, failed>>
    /\ UNCHANGED <<applied, broadcasts>> /\ UNCHANGED <<dbVars, dedupVars, bounds>>

UpdateById(a) == row # "absent"      \* mutant: no status in the UPDATE's WHERE
\* WHERE id = $1 AND status = <the status that was validated>
StatusMatches(a) == row = call[a].base

\* An event's handler broadcasts what updateStream returned.
Broadcast(a) ==
    IF IsEvent(a)
    THEN /\ applied' = [applied EXCEPT ![Ev(a)] = TRUE]
         /\ broadcasts' = [broadcasts EXCEPT ![Ev(a)] = @ + 1]
    ELSE UNCHANGED <<applied, broadcasts>>

UpdateStream(a) ==
    LET status == IF call[a].to = None THEN row ELSE call[a].to IN
    /\ call[a].at = "write" /\ StatusMatches(a)
    /\ Commit(status) /\ Succeed(a) /\ Broadcast(a)
    /\ UNCHANGED <<dedupVars, bounds>>

SwallowConflict(a) == Succeed(a)     \* mutant: a lost race is reported as done
\* StatusConflictError
LostRace(a) == Fail(a)

StatusConflict(a) ==
    /\ call[a].at = "write" /\ row # call[a].base
    /\ LostRace(a)
    /\ UNCHANGED <<applied, broadcasts>> /\ UNCHANGED <<dbVars, dedupVars, bounds>>

----------------------------------------------------------------------------
(* Environment                                                             *)

\* A process dies: its calls and its dedup map are gone.
Restart(p) ==
    LET lost == {a \in Actor : ServerOf[a] = p /\ call[a].at # "free"} IN
    /\ trouble < MaxTrouble /\ lost # {}
    /\ trouble' = trouble + 1
    /\ memSeen' = [memSeen EXCEPT ![p] = {}]
    /\ call' = [a \in Actor |-> IF a \in lost THEN Free ELSE call[a]]
    /\ failed' = [e \in Event |-> failed[e] \/ \E a \in lost : call[a].event = e]
    /\ UNCHANGED <<redisSeen, degraded, applied, acked, broadcasts, delivered, requests>>
    /\ UNCHANGED dbVars

\* The dedup window of an event ends everywhere.
WindowEnds(e) ==
    /\ trouble < MaxTrouble /\ e \in redisSeen
    /\ trouble' = trouble + 1 /\ degraded' = TRUE
    /\ redisSeen' = redisSeen \ {e}
    /\ memSeen' = [p \in Server |-> memSeen[p] \ {e}]
    /\ UNCHANGED <<delivered, requests>> /\ UNCHANGED <<dbVars, call, outcome>>

Handle(a) ==
    \/ Dedup(a) \/ DedupFallback(a) \/ InsertStream(a) \/ AfterConflict(a)
    \/ Find(a) \/ ReadCurrent(a) \/ UpdateStream(a) \/ StatusConflict(a)

Next ==
    \/ \E a \in Actor :
          \/ \E e \in Event : DeliverEvent(a, e)
          \/ \E to \in Life!StreamStatus : ApiRequest(a, to) \/ BulkAction(a, to)
          \/ Handle(a)
    \/ Replay
    \/ \E p \in Server : Restart(p)
    \/ \E e \in Event : WindowEnds(e)

Spec == Init /\ [][Next]_streamVars

----------------------------------------------------------------------------
(* Properties                                                              *)

\* Whatever races, is retried or reads a stale replica, the row moves only along
\* the transition table and a terminal stream never changes: the row implements
\* StreamLifecycle.
Lifecycle == INSTANCE StreamLifecycle WITH status <- row
FollowsLifecycle == Lifecycle!Spec

\* An event that was reported as processed, and of which no delivery failed or
\* died with its process, has taken effect; a created event has a row.  Deliveries
\* that failed are excluded: RedeliveryTakesEffect below is what they would need.
AckedMeansApplied ==
    \A e \in Event : acked[e] /\ ~failed[e] =>
        \/ applied[e]
        \/ EventType[e] = "created" /\ row # "absent"
        \/ \E a \in Actor : call[a].event = e

\* Events that crossed each other or requests, found a stale replica or were
\* delivered again, to another server or beside a delivery under way, have taken
\* effect once one is acknowledged and none failed.
EventsTakeEffect == TypeOK /\ AckedMeansApplied

\* Subscribers hear of a creation once even when the dedup cache forgot it, and
\* of every other event once as long as it did not.
BroadcastOnce ==
    \A e \in Event : EventType[e] = "created" \/ ~degraded => broadcasts[e] <= 1

----------------------------------------------------------------------------
(* A claim that TLC refutes                                                *)

\* "Implements idempotent processing, handles out-of-order events, and ensures
\* eventual consistency" and "Duplicate events are safely ignored"
\* (streamEventService.ts:6-7, 105): an event that was reported as processed has
\* taken effect.  The dedup cache records the event before it is handled
\* (streamEventService.ts:143): when a delivery then fails or its process
\* dies, the next one is a duplicate and reports success without applying it.
RedeliveryTakesEffect ==
    \A e \in Event : acked[e] =>
        \/ applied[e]
        \/ EventType[e] = "created" /\ row # "absent"
        \/ \E a \in Actor : call[a].event = e
============================================================================

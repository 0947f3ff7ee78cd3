---------------------------- MODULE RateLimiting ----------------------------
(***************************************************************************)
(* The request rate limiter (middleware/rateLimiter.ts) of several         *)
(* processes for one client and one route: the sliding window in Redis,    *)
(* each process's in-memory fallback, and the in-memory placeholder it     *)
(* uses until Redis is connected (redis/rateLimitStore.ts).  The client's  *)
(* aggregate counter, which only the status endpoint reads, is left out.   *)
(***************************************************************************)
EXTENDS Integers, Sequences, FiniteSets

CONSTANTS
    Server,
    MaxHits,         \* bound: requests, numbered as they arrive
    Limit,           \* effectiveLimit
    Window,          \* windowMs
    Latency,         \* assumption: a MULTI is executed within this time
    MaxClock         \* bound

Hit == 1..MaxHits
Redis == <<"redis">>
Store == {Redis} \cup ({"placeholder", "fallback"} \X Server)

VARIABLES
    clock,
    connected,       \* processes with the Redis store in place
    entries,         \* per store: [at, hit], the timestamps of the key
    touched,         \* when PEXPIRE was last set
    hit,             \* the requests so far: stage, process, its Date.now()
    seen,            \* history: per store, the entries ever made
    verdicts         \* history: decisions: store, request, its time, time of the decision

limitVars == <<clock, connected, entries, touched, hit, seen, verdicts>>

RateTypeOK ==
    /\ clock \in 0..MaxClock /\ touched \in 0..MaxClock
    /\ connected \subseteq Server
    /\ \A s \in Store : entries[s] \subseteq seen[s] /\ seen[s] \subseteq [at : 0..MaxClock, hit : Hit]
    /\ hit \in Seq([stage : {"sent", "lost", "done"}, server : Server, at : 0..MaxClock])

Init ==
    /\ clock = 0 /\ touched = 0 /\ connected = {}
    /\ entries = [s \in Store |-> {}] /\ seen = entries
    /\ hit = <<>>
    /\ verdicts = {}

\* mutant: the entry at the window's edge is still counted
PruneOffByOne(set, now) == {e \in set : e.at >= now - Window}
Prune(set, now) == {e \in set : e.at > now - Window}

AllowOneMore(count) == count <= Limit + 1     \* mutant
Allowed(count) == count <= Limit

\* increment of a store, and the handler's decision unless the answer is lost.
Increment(s, h, at, answered) ==
    LET now == Prune(entries[s], at) \cup {[at |-> at, hit |-> h]} IN
    /\ entries' = [entries EXCEPT ![s] = now]
    /\ seen' = [seen EXCEPT ![s] = @ \cup now]
    /\ verdicts' = IF answered
                   THEN verdicts \cup {[store |-> s, hit |-> h, at |-> at, on |-> clock,
                                        ok |-> Allowed(Cardinality(now))]}
                   ELSE verdicts

----------------------------------------------------------------------------

Arrives(p, stage) ==
    Len(hit) < MaxHits /\ hit' = Append(hit, [stage |-> stage, server |-> p, at |-> clock])

\* A request reaches a process that has no Redis store yet.
Local(p) ==
    /\ p \notin connected /\ Arrives(p, "done")
    /\ Increment(<<"placeholder", p>>, Len(hit'), clock, TRUE)
    /\ UNCHANGED <<clock, connected, touched>>

Send(p) ==
    /\ p \in connected /\ Arrives(p, "sent")
    /\ UNCHANGED <<clock, connected, entries, touched, seen, verdicts>>

\* SlidingWindowStore.increment: ZADD, ZREMRANGEBYSCORE, ZCARD and PEXPIRE at once;
\* the answer may be lost, and the request goes on as after any other error.
Exec(h) ==
    /\ hit[h].stage = "sent"
    /\ \/ Increment(Redis, h, hit[h].at, TRUE) /\ hit' = [hit EXCEPT ![h].stage = "done"]
       \/ Increment(Redis, h, hit[h].at, FALSE) /\ hit' = [hit EXCEPT ![h].stage = "lost"]
    /\ touched' = clock
    /\ UNCHANGED <<clock, connected>>

\* Redis fails: HybridStore turns to the process's own store.
FallBack(h) ==
    /\ hit[h].stage \in {"sent", "lost"}
    /\ Increment(<<"fallback", hit[h].server>>, h, clock, TRUE)
    /\ hit' = [hit EXCEPT ![h].stage = "done"]
    /\ UNCHANGED <<clock, connected, touched>>

Connect(p) ==
    /\ p \notin connected /\ connected' = connected \cup {p}
    /\ UNCHANGED <<clock, entries, touched, hit, seen, verdicts>>

\* The key is gone when its PEXPIRE is over.
Tick ==
    /\ clock < MaxClock /\ clock' = clock + 1
    /\ \A h \in DOMAIN hit : hit[h].stage = "sent" => clock - hit[h].at < Latency
    /\ entries' = [entries EXCEPT ![Redis] = IF clock' >= touched + Window THEN {} ELSE @]
    /\ UNCHANGED <<connected, touched, hit, seen, verdicts>>

Next ==
    \/ \E p \in Server : Local(p) \/ Send(p) \/ Connect(p)
    \/ \E h \in DOMAIN hit : Exec(h) \/ FallBack(h)
    \/ Tick

Spec == Init /\ [][Next]_limitVars

----------------------------------------------------------------------------
(* Properties                                                              *)

\* A store admits at most the limit within a window, also when requests of
\* several processes reach Redis in another order than their timestamps: the
\* window of Redis is shorter by the time a command may be under way.  (A client
\* gets the limit once from every store that answers it.)
LimitHolds ==
    \A v \in verdicts :
        Cardinality({u \in verdicts :
            /\ u.store = v.store /\ u.ok
            /\ u.on <= v.on
            /\ u.on > v.on - (IF v.store = Redis THEN Window - Latency ELSE Window)}) <= Limit

\* A request is rejected only if its store has seen the limit within the window
\* before it; requests that were rejected themselves count.
RejectedWithCause ==
    \A v \in verdicts : ~v.ok =>
        Cardinality({e \in seen[v.store] : e.hit # v.hit /\ e.at > v.at - Window}) >= Limit

\* The limiter admits no more than it may and rejects nobody without cause.
LimitExact == RateTypeOK /\ LimitHolds /\ RejectedWithCause
============================================================================

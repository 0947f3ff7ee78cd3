----------------------------- MODULE StellarRpc -----------------------------
(***************************************************************************)
(* StellarRpcService (services/stellar-rpc.ts) for one operation: its own  *)
(* circuit breaker, whose calls overlap, and the fallback cache in Redis   *)
(* (redis/rpcFallbackCache.ts) with its early refresh.  Times are kept as  *)
(* ages, and ages beyond the point where they matter are not told apart.   *)
(***************************************************************************)
EXTENDS Naturals, Sequences, FiniteSets

CONSTANTS
    Caller,            \* concurrent callers, each calling again and again
    FailureThreshold,
    WindowMs,
    ResetTimeoutMs,
    TtlMs,             \* fallbackCacheTtlSeconds
    MaxAgeMs,          \* fallbackCacheMaxAgeMs
    RedisMs            \* assumption: a SET reaches Redis or fails within this time

Refresh == "refresh"               \* stands for the call of an early refresh
Absent == [age |-> 0, left |-> 0]  \* no entry in Redis

VARIABLES
    circuit, failures, openFor,   \* state, ages of failures, age of openedAt
    cache,         \* the entry: age of writtenAt, time left until Redis drops it
    sets,          \* SETs on their way, in order: who waits, age of writtenAt
    stage,         \* of each caller and of the early refresh
    outdated,      \* history: a caller was given an entry that is too old
    recovered,     \* the provider answers every call from now on
    earned         \* history: failures since the last success

rpcVars == <<circuit, failures, openFor, cache, sets, stage, outdated, recovered, earned>>

RpcTypeOK ==
    /\ circuit \in {"CLOSED", "OPEN", "HALF_OPEN"}
    /\ \A i \in DOMAIN failures : failures[i] \in 0..(WindowMs + 1)
    /\ openFor \in 0..ResetTimeoutMs
    /\ cache = Absent \/ (cache.age \in 0..(TtlMs + RedisMs) /\ cache.left \in 1..TtlMs)
    /\ \A i \in DOMAIN sets : sets[i].by \in Caller \cup {Refresh} /\ sets[i].age \in 0..RedisMs
    /\ stage \in [Caller \cup {Refresh} -> {"idle", "reading", "running", "sure", "writing", "refused"}]
    /\ {outdated, recovered} \subseteq BOOLEAN /\ earned \in 0..FailureThreshold

Init ==
    /\ circuit = "CLOSED" /\ failures = <<>> /\ openFor = 0
    /\ cache = Absent /\ sets = <<>>
    /\ stage = [c \in Caller \cup {Refresh} |-> "idle"]
    /\ outdated = FALSE /\ recovered = FALSE /\ earned = 0

At(c, where) == [stage EXCEPT ![c] = where]
To(c, where) == stage' = At(c, where)
Given(limit) == outdated' = (outdated \/ cache.age > limit)

----------------------------------------------------------------------------
(* CircuitBreaker                                                          *)

\* filter: onFailure appends, so those before the cutoff are a prefix.
evictOldFailures ==
    LET old == {i \in DOMAIN failures : failures[i] > WindowMs}
    IN SubSeq(failures, Cardinality(old) + 1, Len(failures))

ForeverOpen == circuit = "OPEN"      \* mutant: nobody looks at the time
Suspended == circuit = "OPEN" /\ openFor < ResetTimeoutMs

\* The head of call: every caller is let through once the time is over.  c runs
\* if it is; `waiting' is what becomes of the stages if it is not.
Enter(c, before, waiting) ==
    /\ failures' = evictOldFailures
    /\ \/ Suspended /\ stage' = waiting /\ UNCHANGED circuit
       \/ /\ ~Suspended
          /\ circuit' = IF circuit = "OPEN" THEN "HALF_OPEN" ELSE circuit
          /\ stage' = [before EXCEPT ![c] = IF recovered THEN "sure" ELSE "running"]

KeepFailures == failures        \* mutant: a success leaves the failures in the window
AfterSuccess == <<>>

\* onSuccess, whatever the state; then the SET of writeFallbackCache.
Succeed(c) ==
    /\ stage[c] \in {"running", "sure"}
    /\ failures' = AfterSuccess /\ circuit' = "CLOSED" /\ earned' = 0
    /\ sets' = Append(sets, [by |-> c, age |-> 0]) /\ To(c, "writing")
    /\ UNCHANGED <<openFor, cache, outdated, recovered>>

Trips == Len(failures) + 1 >= FailureThreshold

\* onFailure; a timeout is one of them, and the call may be older than the trip.
Fail(c) ==
    /\ stage[c] = "running"
    /\ failures' = Append(failures, 0)
    /\ earned' = IF earned < FailureThreshold THEN earned + 1 ELSE earned
    /\ \/ Trips /\ circuit' = "OPEN" /\ openFor' = 0
       \/ ~Trips /\ UNCHANGED <<circuit, openFor>>
    /\ To(c, "idle")
    /\ UNCHANGED <<cache, sets, outdated, recovered>>

----------------------------------------------------------------------------
(* callWithFallbackCache                                                   *)

\* The cache is read first while the circuit is closed (with early expiry on).
CallWithFallbackCache(c) ==
    /\ stage[c] = "idle"
    /\ \/ circuit = "CLOSED" /\ To(c, "reading") /\ UNCHANGED <<circuit, failures>>
       \/ circuit # "CLOSED" /\ Enter(c, stage, At(c, "refused"))
    /\ UNCHANGED <<openFor, cache, sets, outdated, recovered, earned>>

\* A miss, or a read that fails.
Miss(c) ==
    /\ stage[c] = "reading" /\ Enter(c, stage, At(c, "refused"))
    /\ UNCHANGED <<openFor, cache, sets, outdated, recovered, earned>>

\* A hit, whatever has become of the circuit; it may start the one refresh.
Hit(c) ==
    /\ stage[c] = "reading" /\ cache # Absent
    /\ Given(TtlMs + RedisMs - 1)
    /\ \/ To(c, "idle") /\ UNCHANGED <<circuit, failures>>
       \/ stage[Refresh] = "idle" /\ Enter(Refresh, At(c, "idle"), At(c, "idle"))
    /\ UNCHANGED <<openFor, cache, sets, recovered, earned>>

ExpiresIn == TtlMs

\* The first SET on its way arrives, or fails; its caller has its result.
Written ==
    /\ sets # <<>> /\ sets' = Tail(sets)
    /\ cache' \in {cache, [age |-> Head(sets).age, left |-> ExpiresIn]}
    /\ To(Head(sets).by, "idle")
    /\ UNCHANGED <<circuit, failures, openFor, outdated, recovered, earned>>

AnyAge == TRUE        \* mutant: no limit on the age
YoungEnough == cache.age <= MaxAgeMs

\* The circuit was open: a stale entry, or an error.
FallBack(c) ==
    /\ stage[c] = "refused" /\ To(c, "idle")
    /\ \/ cache # Absent /\ YoungEnough /\ Given(MaxAgeMs)
       \/ ~(cache # Absent /\ YoungEnough) /\ UNCHANGED outdated
    /\ UNCHANGED <<circuit, failures, openFor, cache, sets, recovered, earned>>

----------------------------------------------------------------------------

Older(age, limit) == IF age < limit THEN age + 1 ELSE age

Tick ==
    /\ \A i \in DOMAIN sets : sets[i].age < RedisMs
    /\ failures' = [i \in DOMAIN failures |-> Older(failures[i], WindowMs + 1)]
    /\ openFor' = Older(openFor, ResetTimeoutMs)
    /\ sets' = [i \in DOMAIN sets |-> [sets[i] EXCEPT !.age = @ + 1]]
    /\ cache' = IF cache.left <= 1 THEN Absent ELSE [age |-> cache.age + 1, left |-> cache.left - 1]
    /\ UNCHANGED <<circuit, stage, outdated, recovered, earned>>

Recover ==
    /\ ~recovered /\ recovered' = TRUE
    /\ UNCHANGED <<circuit, failures, openFor, cache, sets, stage, outdated, earned>>

Proceed(c) == Succeed(c) \/ Fail(c)

Next ==
    \/ \E c \in Caller : CallWithFallbackCache(c) \/ Miss(c) \/ Hit(c) \/ FallBack(c)
    \/ \E c \in Caller \cup {Refresh} : Proceed(c)
    \/ Written \/ Tick \/ Recover

Spec == Init /\ [][Next]_rpcVars

\* Time passes, callWithTimeout settles every call, Redis answers, and callers
\* keep calling: nothing but a call ends the suspension.
Fairness ==
    /\ WF_rpcVars(Tick) /\ WF_rpcVars(Written)
    /\ \A c \in Caller : /\ WF_rpcVars(CallWithFallbackCache(c)) /\ WF_rpcVars(Miss(c) \/ Hit(c))
                         /\ WF_rpcVars(FallBack(c))
    /\ \A c \in Caller \cup {Refresh} : WF_rpcVars(Proceed(c))
FairSpec == Spec /\ Fairness

----------------------------------------------------------------------------
(* Properties                                                              *)

\* The circuit opens after failureThreshold failures without a success among
\* them, although calls overlap and results arrive late.
OpenWasEarned == circuit = "OPEN" => earned = FailureThreshold

\* What a caller gets from the cache is recent: within fallbackCacheMaxAgeMs when
\* the circuit is open, and within the entry's life on the closed path, which
\* knows no maximum age and may end after the circuit has opened.
AnswersRecent == ~outdated

\* Once the provider answers again, the circuit closes: late failures of earlier
\* calls may open it once more but not keep it open.
RecoveryCloses == recovered ~> circuit = "CLOSED"

\* Callers are sent to the cache only by a circuit that had cause to open, and
\* get from it only what is recent enough.
FallbackJustified == RpcTypeOK /\ OpenWasEarned /\ AnswersRecent
============================================================================

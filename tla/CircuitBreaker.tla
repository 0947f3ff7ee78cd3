-------------------------- MODULE CircuitBreaker ---------------------------
(***************************************************************************)
(* RedisWebhookCircuitBreakerStore (redis/webhookCircuitBreakerStore.ts)   *)
(* as attemptWebhookDeliveryWithRateLimit (webhooks/retry.ts) uses it, for *)
(* one consumer URL.  Every Redis command is a step of its own: the state  *)
(* record is read and written by separate commands, and the probe lock is  *)
(* a second key.  Times are in ticks and relative: the record stores       *)
(* resetAt - now, a call stores how long ago it took its `now`.            *)
(***************************************************************************)
EXTENDS Integers, FiniteSets

CONSTANTS
    Call,         \* deliveries to the consumer that may be under way at once
    Threshold,    \* circuitBreakerThreshold (the breaker is enabled)
    ResetMs,      \* circuitBreakerResetMs
    ProbeMs,      \* TTL of the probe lock: min(circuitBreakerResetMs, 60 s)
    RecordMs,     \* TTL of the state record: max(2 * circuitBreakerResetMs, 5 min)
    MaxAge,       \* ticks one call takes at most, from its `now` to its last command
    RedisErrors,  \* TRUE: Redis commands may fail
    MaxFailures   \* bound: consecutiveFailures

ASSUME PolicyAssumption ==
    /\ Threshold \in Nat \ {0} /\ MaxFailures \in Nat /\ Threshold <= MaxFailures
    /\ ResetMs \in Nat \ {0} /\ ProbeMs \in Nat \ {0} /\ RecordMs \in Nat \ {0}
    /\ MaxAge \in Nat /\ RedisErrors \in BOOLEAN

VARIABLES
    rec,      \* the state record; an absent one reads as closed()
    probe,    \* ticks until the probe lock expires, 0 when it is free
    pc,       \* the step each call is at
    age,      \* ticks since it took its `now`
    read,     \* state and consecutiveFailures its last GET returned
    probing   \* it was admitted as the half-open probe and is not over

vars == <<rec, probe, pc, age, read, probing>>

Phase == {"closed", "open", "half-open"}
Closed == [state |-> "closed", failures |-> 0]
Record(state, failures, wait) ==
    [state |-> state, failures |-> failures, wait |-> wait, ttl |-> RecordMs]
Absent == [state |-> "closed", failures |-> 0, wait |-> 0, ttl |-> 0]

TypeOK ==
    /\ rec \in [state : Phase, failures : 0..MaxFailures, wait : (-MaxAge)..ResetMs, ttl : 0..RecordMs]
    /\ probe \in 0..ProbeMs
    /\ pc \in [Call -> {"idle", "check", "claim", "half", "gate", "http",
                        "success", "failure", "reopen", "unlock"}]
    /\ age \in [Call -> 0..MaxAge]
    /\ read \in [Call -> [state : Phase, failures : 0..MaxFailures]]
    /\ probing \in [Call -> BOOLEAN]

Init ==
    /\ rec = Absent /\ probe = 0
    /\ pc = [c \in Call |-> "idle"]
    /\ age = [c \in Call |-> 0]
    /\ read = [c \in Call |-> Closed]
    /\ probing = [c \in Call |-> FALSE]

Goto(c, step) == pc' = [pc EXCEPT ![c] = step]

\* The call is over; what it knew is forgotten.
Leave(c) ==
    /\ Goto(c, "idle")
    /\ age' = [age EXCEPT ![c] = 0]
    /\ read' = [read EXCEPT ![c] = Closed]
    /\ probing' = [probing EXCEPT ![c] = FALSE]

----------------------------------------------------------------------------
(* checkWebhookDeliveryGate and checkAndClaimAttempt                       *)

\* `now` is taken once, before the first command.
Begin(c) ==
    /\ pc[c] = "idle"
    /\ Goto(c, "check")
    /\ UNCHANGED <<rec, probe, age, read, probing>>

\* now < resetAt, with the call's own `now`.
BeforeReset(c) == rec.wait > -age[c]

\* GET of the state record.
Check(c) ==
    /\ pc[c] = "check"
    /\ \/ /\ rec.state = "closed"
          /\ Goto(c, "gate") /\ UNCHANGED <<age, read, probing>>
       \/ /\ rec.state = "open" /\ ~BeforeReset(c)
          /\ Goto(c, "claim")
          /\ read' = [read EXCEPT ![c] = [state |-> rec.state, failures |-> rec.failures]]
          /\ UNCHANGED <<age, probing>>
       \/ /\ rec.state = "half-open" \/ (rec.state = "open" /\ BeforeReset(c))
          /\ Leave(c)
    /\ UNCHANGED <<rec, probe>>

\* SET NX of the probe lock.
Claim(c) ==
    /\ pc[c] = "claim"
    /\ \/ /\ probe = 0
          /\ probe' = ProbeMs
          /\ Goto(c, "half") /\ UNCHANGED <<age, read, probing>>
       \/ /\ probe # 0
          /\ Leave(c) /\ UNCHANGED probe
    /\ UNCHANGED rec

HalfOpenForgetful(c) == Record("half-open", 0, 0)   \* mutant: failures not carried over
HalfOpenForever(c) ==                               \* mutant: record written without EX
    [Record("half-open", read[c].failures, 0) EXCEPT !.ttl = 0]
\* The record the winner of the lock writes.
HalfOpen(c) == Record("half-open", read[c].failures, 0)

SetHalfOpen(c) ==
    /\ pc[c] = "half"
    /\ rec' = HalfOpen(c)
    /\ probing' = [probing EXCEPT ![c] = TRUE]
    /\ Goto(c, "gate")
    /\ UNCHANGED <<probe, age, read>>

\* The rate limiter comes second: a claimed probe may go unused.
RateLimited(c) == pc[c] = "gate" /\ Leave(c) /\ UNCHANGED <<rec, probe>>

Deliver(c) ==
    /\ pc[c] = "gate"
    /\ Goto(c, "http")
    /\ UNCHANGED <<rec, probe, age, read, probing>>

----------------------------------------------------------------------------
(* The outcome of the request                                              *)

Succeeds(c) ==
    pc[c] = "http" /\ Goto(c, "success") /\ UNCHANGED <<rec, probe, age, read, probing>>
Fails(c) ==
    pc[c] = "http" /\ Goto(c, "failure") /\ UNCHANGED <<rec, probe, age, read, probing>>
\* A non-retryable status is neither a success nor a counted failure.
NotCounted(c) == pc[c] = "http" /\ Leave(c) /\ UNCHANGED <<rec, probe>>

\* recordSuccess: SET closed (its GET serves the metric only).
SetClosed(c) ==
    /\ pc[c] = "success"
    /\ rec' = Record("closed", 0, 0)
    /\ Goto(c, "unlock")
    /\ UNCHANGED <<probe, age, read, probing>>

\* recordFailure: GET of the previous record ...
ReadPrevious(c) ==
    /\ pc[c] = "failure"
    /\ read' = [read EXCEPT ![c] = [state |-> rec.state, failures |-> rec.failures]]
    /\ Goto(c, "reopen")
    /\ UNCHANGED <<rec, probe, age, probing>>

ResetAtOnce(elapsed) == -elapsed                    \* mutant: resetMs not added
\* resetAt = now + resetMs, with the `now` taken before the request.
ResetAfter(elapsed) == ResetMs - elapsed

\* ... and the record that follows from it, timed from the call's `now`.
AfterFailure(previous, elapsed) ==
    LET failures == IF previous.state = "half-open" THEN previous.failures
                                                    ELSE previous.failures + 1
    IN IF previous.state = "half-open" \/ failures >= Threshold
       THEN Record("open", failures, ResetAfter(elapsed))
       ELSE Record("closed", failures, 0)

SetFailure(c) ==
    /\ pc[c] = "reopen"
    /\ rec' = AfterFailure(read[c], age[c])
    /\ rec'.failures <= MaxFailures
    /\ Goto(c, "unlock")
    /\ UNCHANGED <<probe, age, read, probing>>

\* DEL of the probe lock, whoever took it.
Unlock(c) == pc[c] = "unlock" /\ probe' = 0 /\ Leave(c) /\ UNCHANGED rec

----------------------------------------------------------------------------
(* Redis errors, crashes and time                                          *)

\* A failed command fails open; Redis may have carried it out or not.
CheckError(c) ==
    /\ RedisErrors /\ pc[c] \in {"check", "claim", "half"}
    /\ rec' \in IF pc[c] = "half" THEN {rec, HalfOpen(c)} ELSE {rec}
    /\ probe' \in IF pc[c] = "claim" /\ probe = 0 THEN {0, ProbeMs} ELSE {probe}
    /\ Goto(c, "gate")
    /\ UNCHANGED <<age, read, probing>>

RecordError(c) ==
    /\ RedisErrors /\ pc[c] \in {"success", "failure", "reopen", "unlock"}
    /\ rec' \in CASE pc[c] = "success" -> {rec, Record("closed", 0, 0)}
                  [] pc[c] = "reopen"  -> {rec, AfterFailure(read[c], age[c])}
                  [] OTHER -> {rec}
    /\ rec'.failures <= MaxFailures
    /\ probe' \in IF pc[c] = "unlock" THEN {probe, 0} ELSE {probe}
    /\ Leave(c)

Crash(c) == pc[c] # "idle" /\ Leave(c) /\ UNCHANGED <<rec, probe>>

\* A call ends within MaxAge ticks; keys expire on Redis's clock.
Tick ==
    /\ \A c \in Call : pc[c] # "idle" => age[c] < MaxAge
    /\ rec' = IF rec.ttl = 1 THEN Absent
              ELSE [rec EXCEPT !.ttl = IF @ > 0 THEN @ - 1 ELSE @,
                               !.wait = IF rec.state = "open" /\ @ > -MaxAge THEN @ - 1 ELSE @]
    /\ probe' = IF probe > 0 THEN probe - 1 ELSE 0
    /\ age' = [c \in Call |-> IF pc[c] # "idle" THEN age[c] + 1 ELSE 0]
    /\ UNCHANGED <<pc, read, probing>>

Progress(c) ==
    \/ Check(c) \/ Claim(c) \/ SetHalfOpen(c) \/ Deliver(c) \/ RateLimited(c)
    \/ Succeeds(c) \/ Fails(c) \/ NotCounted(c)
    \/ SetClosed(c) \/ ReadPrevious(c) \/ SetFailure(c) \/ Unlock(c)

Next == Tick \/ \E c \in Call : Begin(c) \/ Progress(c) \/ CheckError(c) \/ RecordError(c) \/ Crash(c)

Spec == Init /\ [][Next]_vars

\* Time passes, and a call under way is answered, times out or fails.
Fairness ==
    WF_vars(Tick) /\ \A c \in Call : WF_vars(Progress(c) \/ CheckError(c) \/ RecordError(c) \/ Crash(c))
FairSpec == Spec /\ Fairness

----------------------------------------------------------------------------
(* Properties                                                              *)

\* A receiver is paused only after Threshold consecutive failures were
\* counted; the count survives stale reads, probes and late answers.
PausedWasEarned == rec.state # "closed" => rec.failures >= Threshold

\* "replicas sharing a circuit do not each fire one": no two half-open probes
\* are under way at once.
AtMostOneProbe == Cardinality({c \in Call : probing[c] /\ pc[c] \in {"gate", "http"}}) <= 1

\* "the hard upper bound on how long a half-open circuit can stay paused": a
\* half-open circuit leaves that state even when its probe never reports.
PauseEnds == rec.state = "half-open" ~> rec.state # "half-open"
============================================================================

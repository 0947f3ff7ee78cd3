-------------------------- MODULE LeaderElection --------------------------
(***************************************************************************)
(* RedisIndexerLeaderElection (src/indexer/leaderElection.ts): a Redis     *)
(* lease with heartbeat renewal and a fencing counter, one step per Redis  *)
(* round trip.  Time advances in ticks; Redis counts the key's TTL down.   *)
(* An instance can have a tryAcquire, a release and a renew in flight at   *)
(* the same time: replayEvents frees its in-process lock before it awaits  *)
(* release(), and the shutdown hook calls release() on its own.            *)
(***************************************************************************)
EXTENDS Integers, FiniteSets

CONSTANTS
    Inst,         \* backend instances
    None,         \* the leader key does not exist
    LeaseMs,      \* TTL of the leader key, in ticks
    RenewMs,      \* heartbeat interval, in ticks
    MaxLatency,   \* ticks one Redis round trip takes at most when Timely
    Timely,       \* TRUE: heartbeats fire on time and round trips are short
    RedisErrors,  \* the operations whose Redis commands may fail
    Overlap,      \* TRUE: tryAcquire may start while a release is in flight
    MaxFence      \* bound: fencing counter

ASSUME InstAssumption == None \notin Inst
ASSUME TimesAssumption ==
    /\ LeaseMs \in Nat \ {0} /\ RenewMs \in Nat \ {0} /\ MaxLatency \in Nat /\ MaxFence \in Nat
ASSUME ModesAssumption == /\ {Timely, Overlap} \subseteq BOOLEAN
                          /\ RedisErrors \subseteq {"acquire", "release", "renew"}

VARIABLES
    holder,   \* value of LEADER_KEY, or None
    ttl,      \* ticks until LEADER_KEY expires
    fence,    \* value of FENCE_KEY
    leader,   \* _isLeader
    token,    \* _fencingToken
    beat,     \* the heartbeat timer is armed
    due,      \* ticks until it fires
    since,    \* clockNowMs() - _lastRenewAttemptMs
    acq,      \* step of the tryAcquire in flight
    rel,      \* step of the release in flight
    ren,      \* steps of the renews in flight: ticks do not wait for each other
    lat,      \* ticks the oldest round trip of each kind has been in flight
    unsure    \* ticks since Redis last confirmed the lease (counted when Timely)

redisVars == <<holder, ttl, fence>>
instVars  == <<leader, token, beat, due, since>>
vars      == <<redisVars, instVars, acq, rel, ren, lat, unsure>>

Kind == {"acq", "rel", "get", "expire"}

TypeOK ==
    /\ holder \in Inst \cup {None} /\ ttl \in 0..LeaseMs
    /\ (holder = None) <=> (ttl = 0)
    /\ fence \in 0..MaxFence /\ token \in [Inst -> 0..MaxFence]
    /\ leader \in [Inst -> BOOLEAN] /\ beat \in [Inst -> BOOLEAN]
    /\ due \in [Inst -> 0..RenewMs] /\ since \in [Inst -> 0..(LeaseMs + 1)]
    /\ acq \in [Inst -> {"none", "incr", "get", "read"}]
    /\ rel \in [Inst -> {"none", "get", "del"}]
    /\ ren \in [Inst -> SUBSET {"get", "expire"}]
    /\ lat \in [Inst -> [Kind -> 0..MaxLatency]]
    /\ unsure \in [Inst -> 0..(LeaseMs + RenewMs + 1)]

Init ==
    /\ holder = None /\ ttl = 0 /\ fence = 0
    /\ leader = [i \in Inst |-> FALSE]
    /\ token = [i \in Inst |-> 0]
    /\ beat = [i \in Inst |-> FALSE]
    /\ due = [i \in Inst |-> 0]
    /\ since = [i \in Inst |-> 0]
    /\ acq = [i \in Inst |-> "none"]
    /\ rel = [i \in Inst |-> "none"]
    /\ ren = [i \in Inst |-> {}]
    /\ lat = [i \in Inst |-> [k \in Kind |-> 0]]
    /\ unsure = [i \in Inst |-> 0]

Set(f, i, v)  == [f EXCEPT ![i] = v]
Answered(i, k) == lat' = [lat EXCEPT ![i][k] = 0]
Confirmed(i)  == unsure' = Set(unsure, i, 0)

ForgetHeartbeat(i) == UNCHANGED <<beat, due>>            \* mutant: timer not armed

\* startHeartbeat does nothing when the timer is already armed.
StartHeartbeat(i) ==
    /\ beat' = Set(beat, i, TRUE)
    /\ due' = IF beat[i] THEN due ELSE Set(due, i, RenewMs)

StopHeartbeat(i) == beat' = Set(beat, i, FALSE) /\ UNCHANGED due

StepDownNever(i) == UNCHANGED <<leader, beat, due>>       \* mutant: lost lease ignored

\* Losing the lease, found out by renew.
StepDown(i) == leader' = Set(leader, i, FALSE) /\ StopHeartbeat(i)

----------------------------------------------------------------------------
(* tryAcquire                                                              *)

\* SET NX PX: a free key is taken.
TryAcquire(i) ==
    /\ acq[i] = "none"
    /\ Overlap \/ rel[i] = "none"
    /\ fence < MaxFence
    /\ \/ /\ holder = None
          /\ holder' = i /\ ttl' = LeaseMs
          /\ acq' = Set(acq, i, "incr")
          /\ Confirmed(i)
       \/ /\ holder # None
          /\ acq' = Set(acq, i, "get")
          /\ UNCHANGED <<holder, ttl, unsure>>
    /\ UNCHANGED <<fence, instVars, rel, ren, lat>>

\* INCR of the fencing counter, then the synchronous end of tryAcquire.
AcquireIncr(i) ==
    /\ acq[i] = "incr" /\ fence < MaxFence
    /\ fence' = fence + 1
    /\ token' = Set(token, i, fence + 1)
    /\ leader' = Set(leader, i, TRUE)
    /\ since' = Set(since, i, 0)
    /\ StartHeartbeat(i)
    /\ acq' = Set(acq, i, "none")
    /\ Answered(i, "acq")
    /\ UNCHANGED <<holder, ttl, rel, ren, unsure>>

\* GET after a refused SET NX: ours already, or someone else's.
AcquireGet(i) ==
    /\ acq[i] = "get"
    /\ \/ /\ holder = i
          /\ acq' = Set(acq, i, "read")
          /\ Confirmed(i)
          /\ UNCHANGED leader
       \/ /\ holder # i
          /\ leader' = Set(leader, i, FALSE)
          /\ acq' = Set(acq, i, "none")
          /\ UNCHANGED unsure
    /\ Answered(i, "acq")
    /\ UNCHANGED <<redisVars, token, beat, due, since, rel, ren>>

\* readFencingToken, then the end of an idempotent re-confirmation.
AcquireRead(i) ==
    /\ acq[i] = "read"
    /\ token' = Set(token, i, fence)
    /\ leader' = Set(leader, i, TRUE)
    /\ since' = IF beat[i] THEN since ELSE Set(since, i, 0)
    /\ StartHeartbeat(i)
    /\ acq' = Set(acq, i, "none")
    /\ Answered(i, "acq")
    /\ UNCHANGED <<redisVars, rel, ren, unsure>>

\* A Redis error counts as "not leader"; the key may stay behind.
AcquireError(i) ==
    /\ "acquire" \in RedisErrors /\ acq[i] # "none"
    /\ leader' = Set(leader, i, FALSE)
    /\ acq' = Set(acq, i, "none")
    /\ Answered(i, "acq")
    /\ UNCHANGED <<redisVars, token, beat, due, since, rel, ren, unsure>>

----------------------------------------------------------------------------
(* release                                                                 *)

Release(i) ==
    /\ rel[i] = "none"
    /\ Overlap \/ acq[i] = "none"
    /\ StopHeartbeat(i)
    /\ leader' = Set(leader, i, FALSE)
    /\ rel' = Set(rel, i, "get")
    /\ UNCHANGED <<redisVars, token, since, acq, ren, lat, unsure>>

ReleaseGet(i) ==
    /\ rel[i] = "get"
    /\ rel' = Set(rel, i, IF holder = i THEN "del" ELSE "none")
    /\ Answered(i, "rel")
    /\ UNCHANGED <<redisVars, instVars, acq, ren, unsure>>

\* DEL removes the key whoever holds it by now.
ReleaseDel(i) ==
    /\ rel[i] = "del"
    /\ holder' = None /\ ttl' = 0
    /\ rel' = Set(rel, i, "none")
    /\ Answered(i, "rel")
    /\ UNCHANGED <<fence, instVars, acq, ren, unsure>>

ReleaseError(i) ==
    /\ "release" \in RedisErrors /\ rel[i] # "none"
    /\ rel' = Set(rel, i, "none")
    /\ Answered(i, "rel")
    /\ UNCHANGED <<redisVars, instVars, acq, ren, unsure>>

----------------------------------------------------------------------------
(* renew, called by the heartbeat timer                                    *)

\* More than a lease since the last attempt: revoke without asking Redis.
TooLate(i) == since[i] > LeaseMs

Renew(i) ==
    /\ beat[i] /\ due[i] = 0
    /\ \/ /\ TooLate(i)
          /\ StepDown(i)
          /\ UNCHANGED <<since, ren>>
       \/ /\ ~TooLate(i)
          /\ since' = Set(since, i, 0)
          /\ due' = Set(due, i, RenewMs)
          /\ ren' = Set(ren, i, ren[i] \cup {"get"})
          /\ UNCHANGED <<leader, beat>>
    /\ UNCHANGED <<redisVars, token, acq, rel, lat, unsure>>

RenewGet(i) ==
    /\ "get" \in ren[i]
    /\ \/ /\ holder = i
          /\ ren' = Set(ren, i, (ren[i] \ {"get"}) \cup {"expire"})
          /\ UNCHANGED <<leader, beat, due>>
       \/ /\ holder # i
          /\ StepDown(i)
          /\ ren' = Set(ren, i, ren[i] \ {"get"})
    /\ Answered(i, "get")
    /\ UNCHANGED <<redisVars, token, since, acq, rel, unsure>>

RenewWithoutExpire(i) ==                                 \* mutant: TTL not extended
    /\ "expire" \in ren[i]
    /\ ren' = Set(ren, i, ren[i] \ {"expire"})
    /\ Answered(i, "expire")
    /\ UNCHANGED <<redisVars, instVars, acq, rel, unsure>>

\* PEXPIRE extends whatever lease the key holds.
RenewExpire(i) ==
    /\ "expire" \in ren[i]
    /\ ren' = Set(ren, i, ren[i] \ {"expire"})
    /\ \/ /\ holder # None
          /\ ttl' = LeaseMs
          /\ IF holder = i THEN Confirmed(i) ELSE UNCHANGED unsure
          /\ UNCHANGED <<leader, beat, due>>
       \/ /\ holder = None
          /\ StepDown(i)
          /\ UNCHANGED <<ttl, unsure>>
    /\ Answered(i, "expire")
    /\ UNCHANGED <<holder, fence, token, since, acq, rel>>

\* A Redis error keeps the flag; the next tick tries again.
RenewError(i) ==
    /\ "renew" \in RedisErrors
    /\ \E step \in ren[i] : ren' = Set(ren, i, ren[i] \ {step}) /\ Answered(i, step)
    /\ UNCHANGED <<redisVars, instVars, acq, rel, unsure>>

----------------------------------------------------------------------------
(* Time                                                                    *)

InFlight(i) == {k \in Kind : \/ k = "acq" /\ acq[i] # "none"
                             \/ k = "rel" /\ rel[i] # "none"
                             \/ k \in ren[i]}
Up(n, max) == IF n < max THEN n + 1 ELSE n

\* When Timely, time waits for due heartbeats and for old round trips.
Tick ==
    /\ Timely => \A i \in Inst :
                    /\ beat[i] => due[i] > 0
                    /\ \A k \in InFlight(i) : lat[i][k] < MaxLatency
    /\ ttl' = IF ttl > 0 THEN ttl - 1 ELSE 0
    /\ holder' = IF ttl > 1 THEN holder ELSE None
    /\ due' = [i \in Inst |-> IF beat[i] /\ due[i] > 0 THEN due[i] - 1 ELSE due[i]]
    /\ since' = [i \in Inst |-> IF beat[i] THEN Up(since[i], LeaseMs + 1) ELSE since[i]]
    /\ unsure' = [i \in Inst |-> IF Timely /\ leader[i]
                                 THEN Up(unsure[i], LeaseMs + RenewMs + 1)
                                 ELSE unsure[i]]
    /\ lat' = [i \in Inst |-> [k \in Kind |-> IF Timely /\ k \in InFlight(i)
                                              THEN Up(lat[i][k], MaxLatency) ELSE lat[i][k]]]
    /\ UNCHANGED <<fence, leader, token, beat, acq, rel, ren>>

RenewStep(i)   == Renew(i) \/ RenewGet(i) \/ RenewExpire(i)
AcquireStep(i) == AcquireIncr(i) \/ AcquireGet(i) \/ AcquireRead(i) \/ AcquireError(i)

Next ==
    \/ Tick
    \/ \E i \in Inst : \/ TryAcquire(i) \/ AcquireStep(i)
                       \/ Release(i) \/ ReleaseGet(i) \/ ReleaseDel(i) \/ ReleaseError(i)
                       \/ RenewStep(i) \/ RenewError(i)

Spec == Init /\ [][Next]_vars

\* Time passes, an armed timer fires, and Redis answers a renewal again and
\* again; a renewal may fail any number of times in between.
Fairness ==
    /\ WF_vars(Tick)
    /\ \A i \in Inst : WF_vars(Renew(i)) /\ SF_vars(RenewGet(i)) /\ SF_vars(RenewExpire(i))
FairSpec == Spec /\ Fairness

----------------------------------------------------------------------------
(* Properties                                                              *)

\* When renewals and round trips keep their times, only the holder of the key
\* believes it leads: isLeader() is TRUE on at most one instance.
LeaderHoldsLease == \A i \in Inst : leader[i] => holder = i

\* A believed leader always has its heartbeat armed, or it would never find
\* out that the lease is gone.
LeaderHasHeartbeat == \A i \in Inst : leader[i] => beat[i]

\* An instance whose lease went to someone else stops believing that it leads.
StaleLeaderStepsDown == \A i \in Inst : leader[i] /\ holder # i ~> ~leader[i] \/ holder = i

----------------------------------------------------------------------------
(* Claims of comments and documents that TLC refutes; the README's list of *)
(* disagreements gives the constants and the behaviour.                    *)

\* At most one instance believes it leads.
AtMostOneLeader == \A i, j \in Inst : leader[i] /\ leader[j] => i = j

\* "A stale leader retains its old, lower token": beside the leader that holds
\* the key, every other believed leader has a smaller token.
FencingOrdersLeaders ==
    \A i, j \in Inst : holder = i /\ leader[i] /\ leader[j] /\ i # j => token[j] < token[i]

\* "The stale-clock guard above will self-revoke if the outage lasts a full
\* lease period": no leader goes unconfirmed longer than that.
OutageRevokes == \A i \in Inst : leader[i] => unsure[i] <= LeaseMs + RenewMs
============================================================================

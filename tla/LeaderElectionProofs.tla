----------------------- MODULE LeaderElectionProofs ------------------------
(***************************************************************************)
(* Proofs about the replay lease, for every number of instances and every  *)
(* lease and heartbeat length: that a believed leader keeps asking Redis,  *)
(* whatever fails, and that it holds the key when the times are kept.      *)
(***************************************************************************)
EXTENDS MCLease, TLAPS

\* The part of the state that the heartbeat invariant speaks of.
FlagsOK ==
    /\ leader \in [Inst -> BOOLEAN] /\ beat \in [Inst -> BOOLEAN]
    /\ LeaderHasHeartbeat

\* Clearing a flag.
LEMMA ClearFlag ==
    ASSUME NEW f \in [Inst -> BOOLEAN], NEW i \in Inst
    PROVE  /\ Set(f, i, FALSE) \in [Inst -> BOOLEAN]
           /\ Set(f, i, FALSE)[i] = FALSE
           /\ \A j \in Inst \ {i} : Set(f, i, FALSE)[j] = f[j]
  BY DEF Set

\* A step that neither sets a flag nor disarms a timer keeps the invariant.
LEMMA FlagsFewer ==
    ASSUME FlagsOK, leader' \in [Inst -> BOOLEAN], UNCHANGED beat,
           \A j \in Inst : leader'[j] => leader[j]
    PROVE  FlagsOK'
  BY DEF FlagsOK, LeaderHasHeartbeat

\* Dropping the flag together with its timer.
LEMMA FlagDropped ==
    ASSUME FlagsOK, NEW i \in Inst, leader' = Set(leader, i, FALSE), StopHeartbeat(i)
    PROVE  FlagsOK'
  <1>1. /\ leader' \in [Inst -> BOOLEAN] /\ leader'[i] = FALSE
        /\ \A j \in Inst \ {i} : leader'[j] = leader[j]
    BY ClearFlag DEF FlagsOK
  <1>2. beat' = Set(beat, i, FALSE)
    BY DEF StopHeartbeat
  <1>3. /\ beat' \in [Inst -> BOOLEAN]
        /\ \A j \in Inst \ {i} : beat'[j] = beat[j]
    BY <1>2, ClearFlag DEF FlagsOK
  <1> QED BY <1>1, <1>3 DEF FlagsOK, LeaderHasHeartbeat

\* Raising the flag together with its timer.
LEMMA FlagRaised ==
    ASSUME FlagsOK, NEW i \in Inst, leader' = Set(leader, i, TRUE), StartHeartbeat(i)
    PROVE  FlagsOK'
  <1>0. leader \in [Inst -> BOOLEAN] /\ beat \in [Inst -> BOOLEAN]
    BY DEF FlagsOK
  <1>1. /\ leader' \in [Inst -> BOOLEAN]
        /\ \A j \in Inst \ {i} : leader'[j] = leader[j]
    BY <1>0 DEF Set
  <1>2. beat' = Set(beat, i, TRUE)
    BY DEF StartHeartbeat
  <1>3. /\ beat' \in [Inst -> BOOLEAN] /\ beat'[i] = TRUE
        /\ \A j \in Inst \ {i} : beat'[j] = beat[j]
    BY <1>0, <1>2 DEF Set
  <1> QED BY <1>1, <1>3 DEF FlagsOK, LeaderHasHeartbeat

LEMMA FlagsInit == Init => FlagsOK
  BY DEF Init, FlagsOK, LeaderHasHeartbeat

LEMMA FlagsStep == FlagsOK /\ [Next]_vars => FlagsOK'
  <1> SUFFICES ASSUME FlagsOK, [Next]_vars PROVE FlagsOK'
    OBVIOUS
  <1>same. ASSUME UNCHANGED <<leader, beat>> PROVE FlagsOK'
    BY <1>same DEF FlagsOK, LeaderHasHeartbeat
  <1>drop. ASSUME NEW i \in Inst, leader' = Set(leader, i, FALSE), UNCHANGED beat PROVE FlagsOK'
    <2>1. /\ leader' \in [Inst -> BOOLEAN] /\ leader'[i] = FALSE
          /\ \A j \in Inst \ {i} : leader'[j] = leader[j]
      BY <1>drop, ClearFlag DEF FlagsOK
    <2>2. \A j \in Inst : leader'[j] => leader[j]
      BY <2>1
    <2> QED BY <2>1, <2>2, <1>drop, FlagsFewer
  <1>1. CASE UNCHANGED vars
    BY <1>1, <1>same DEF vars, instVars
  <1>2. CASE Tick
    BY <1>2, <1>same DEF Tick
  <1>3. ASSUME NEW i \in Inst, TryAcquire(i) PROVE FlagsOK'
    BY <1>3, <1>same DEF TryAcquire, instVars
  <1>4. ASSUME NEW i \in Inst, AcquireIncr(i) PROVE FlagsOK'
    BY <1>4, FlagRaised DEF AcquireIncr
  <1>5. ASSUME NEW i \in Inst, AcquireGet(i) PROVE FlagsOK'
    BY <1>5, <1>same, <1>drop DEF AcquireGet
  <1>6. ASSUME NEW i \in Inst, AcquireRead(i) PROVE FlagsOK'
    BY <1>6, FlagRaised DEF AcquireRead
  <1>7. ASSUME NEW i \in Inst, AcquireError(i) PROVE FlagsOK'
    BY <1>7, <1>drop DEF AcquireError
  <1>8. ASSUME NEW i \in Inst, Release(i) PROVE FlagsOK'
    BY <1>8, FlagDropped DEF Release
  <1>9. ASSUME NEW i \in Inst, ReleaseGet(i) \/ ReleaseDel(i) \/ ReleaseError(i) PROVE FlagsOK'
    BY <1>9, <1>same DEF ReleaseGet, ReleaseDel, ReleaseError, instVars
  <1>10. ASSUME NEW i \in Inst, Renew(i) PROVE FlagsOK'
    BY <1>10, <1>same, FlagDropped DEF Renew, StepDown
  <1>11. ASSUME NEW i \in Inst, RenewGet(i) PROVE FlagsOK'
    BY <1>11, <1>same, FlagDropped DEF RenewGet, StepDown
  <1>12. ASSUME NEW i \in Inst, RenewExpire(i) PROVE FlagsOK'
    BY <1>12, <1>same, FlagDropped DEF RenewExpire, StepDown
  <1>13. ASSUME NEW i \in Inst, RenewError(i) PROVE FlagsOK'
    BY <1>13, <1>same DEF RenewError, instVars
  <1> QED
    BY <1>1, <1>2, <1>3, <1>4, <1>5, <1>6, <1>7, <1>8, <1>9, <1>10, <1>11, <1>12, <1>13
    DEF Next, AcquireStep, RenewStep

\* Whatever Redis answers and however the calls of an instance overlap, an
\* instance that believes it leads has its heartbeat armed, so it will ask.
THEOREM LeadersKeepAsking == Spec => []LeaderHasHeartbeat
  <1>1. FlagsOK => LeaderHasHeartbeat
    BY DEF FlagsOK
  <1> QED BY <1>1, FlagsInit, FlagsStep, PTL DEF Spec

----------------------------------------------------------------------------
(* The lease when times are kept.  Between two PEXPIREs of a leader lie at *)
(* most a heartbeat interval and the round trips of a renewal, GET and     *)
(* PEXPIRE; the first lease has also spent the round trip of INCR.  With   *)
(* the defaults (15s, 5s) a round trip may take up to 3.3s.                *)
Prompt ==
    /\ Timely /\ RedisErrors = {} /\ ~Overlap
    /\ LeaseMs > RenewMs + 3 * MaxLatency

\* A renewal is under way and will extend the TTL before it runs out.
Renewing(i) ==
    \/ "expire" \in ren[i] /\ ttl > MaxLatency - lat[i]["expire"]
    \/ "get" \in ren[i] /\ ttl > 2 * MaxLatency - lat[i]["get"]

\* The round trips that a release still needs are over before the TTL is.
Parting(i) ==
    \/ Renewing(i)
    \/ rel[i] = "get" /\ ttl > 2 * MaxLatency - lat[i]["rel"]
    \/ rel[i] = "del" /\ ttl > MaxLatency - lat[i]["rel"]

\* No time is counted for a round trip that is not under way.
Idle(i) == \A k \in Kind : k \notin InFlight(i) => lat[i][k] = 0
\* The timer fires, and renew() runs, before the stale-clock guard could.
OnTime(i) == beat[i] => since[i] + due[i] <= RenewMs

\* A believed leader holds the key, and the next PEXPIRE comes before it lapses.
Leads(i) ==
    leader[i] => /\ holder = i /\ beat[i] /\ rel[i] = "none"
                 /\ Renewing(i) \/ ttl > due[i] + 2 * MaxLatency

\* The key belongs to a leader, or to a call that is about to lead or to give up.
Holds(i) == holder = i => leader[i] \/ acq[i] = "incr" \/ rel[i] # "none"

\* A tryAcquire that took the key still has it, with most of the lease left; one
\* that found its own key was the leader already.
Acquires(i) ==
    /\ acq[i] = "incr" => holder = i /\ ttl + lat[i]["acq"] >= LeaseMs
    /\ acq[i] = "read" => leader[i]
    /\ acq[i] # "none" => rel[i] = "none"

\* A release that decided to DEL deletes its own key, never a successor's.
Releases(i) ==
    /\ rel[i] = "del" => holder = i
    /\ rel[i] # "none" /\ holder = i => Parting(i)

One(i) == Idle(i) /\ OnTime(i) /\ Leads(i) /\ Holds(i) /\ Acquires(i) /\ Releases(i)
LeaseInv == TypeOK /\ \A i \in Inst : One(i)

\* The answer of one round trip.
LEMMA AnsweredOne ==
    ASSUME lat \in [Inst -> [Kind -> 0..MaxLatency]], MaxLatency \in Nat,
           NEW i \in Inst, NEW k \in Kind, Answered(i, k)
    PROVE  /\ lat' \in [Inst -> [Kind -> 0..MaxLatency]]
           /\ lat'[i][k] = 0
           /\ \A m \in Kind \ {k} : lat'[i][m] = lat[i][m]
           /\ \A j \in Inst \ {i} : lat'[j] = lat[j]
  <1> DEFINE row == [lat[i] EXCEPT ![k] = 0]
  <1>1. row \in [Kind -> 0..MaxLatency] /\ row[k] = 0 /\ \A m \in Kind \ {k} : row[m] = lat[i][m]
    OBVIOUS
  <1>2. lat' = [lat EXCEPT ![i] = row]
    BY DEF Answered
  <1> HIDE DEF row
  <1> QED BY <1>1, <1>2

\* Giving instance i the value v.
LEMMA SetOne ==
    ASSUME NEW S, NEW f \in [Inst -> S], NEW i \in Inst, NEW v \in S
    PROVE  /\ Set(f, i, v) \in [Inst -> S] /\ Set(f, i, v)[i] = v
           /\ \A j \in Inst \ {i} : Set(f, i, v)[j] = f[j]
  BY DEF Set

\* The keys of Redis.
RedisType ==
    /\ holder \in Inst \cup {None} /\ ttl \in 0..LeaseMs
    /\ (holder = None) <=> (ttl = 0)
    /\ fence \in 0..MaxFence

\* What a step of instance i may assign: each of its fields keeps its value or
\* gets one of a few.
Assigns(i) ==
    /\ leader' \in {leader} \cup {Set(leader, i, b) : b \in BOOLEAN}
    /\ beat' \in {beat} \cup {Set(beat, i, b) : b \in BOOLEAN}
    /\ token' \in {token, Set(token, i, fence), Set(token, i, fence')}
    /\ due' \in {due, Set(due, i, RenewMs)}
    /\ since' \in {since, Set(since, i, 0)}
    /\ unsure' \in {unsure, Set(unsure, i, 0)}
    /\ acq' \in {acq} \cup {Set(acq, i, s) : s \in {"none", "incr", "get", "read"}}
    /\ rel' \in {rel} \cup {Set(rel, i, s) : s \in {"none", "get", "del"}}
    /\ ren' \in {ren} \cup {Set(ren, i, s) : s \in SUBSET {"get", "expire"}}
    /\ UNCHANGED lat \/ \E k \in Kind : Answered(i, k)

LEMMA AssignsTyped ==
    ASSUME TypeOK, NEW i \in Inst, Assigns(i), RedisType'
    PROVE  TypeOK'
  <1> USE TimesAssumption
  <1>1. leader' \in [Inst -> BOOLEAN] /\ beat' \in [Inst -> BOOLEAN]
    <2>1. leader' = leader \/ \E b \in BOOLEAN : leader' = Set(leader, i, b)
      BY DEF Assigns
    <2>2. beat' = beat \/ \E b \in BOOLEAN : beat' = Set(beat, i, b)
      BY DEF Assigns
    <2>3. leader \in [Inst -> BOOLEAN] /\ beat \in [Inst -> BOOLEAN]
      BY DEF TypeOK
    <2> QED BY <2>1, <2>2, <2>3, SetOne
  <1>2. token' \in [Inst -> 0..MaxFence]
    <2>1. fence \in 0..MaxFence /\ fence' \in 0..MaxFence /\ token \in [Inst -> 0..MaxFence]
      BY DEF TypeOK, RedisType
    <2>2. token' \in {token, Set(token, i, fence), Set(token, i, fence')}
      BY DEF Assigns
    <2> QED BY <2>1, <2>2 DEF Set
  <1>3. due' \in [Inst -> 0..RenewMs]
    <2>1. RenewMs \in 0..RenewMs /\ due \in [Inst -> 0..RenewMs]
      BY DEF TypeOK
    <2>2. due' \in {due, Set(due, i, RenewMs)}
      BY DEF Assigns
    <2> QED BY <2>1, <2>2 DEF Set
  <1>4. since' \in [Inst -> 0..(LeaseMs + 1)]
    <2>1. 0 \in 0..(LeaseMs + 1) /\ since \in [Inst -> 0..(LeaseMs + 1)]
      BY DEF TypeOK
    <2>2. since' \in {since, Set(since, i, 0)}
      BY DEF Assigns
    <2> QED BY <2>1, <2>2 DEF Set
  <1>5. unsure' \in [Inst -> 0..(LeaseMs + RenewMs + 1)]
    <2>1. 0 \in 0..(LeaseMs + RenewMs + 1) /\ unsure \in [Inst -> 0..(LeaseMs + RenewMs + 1)]
      BY DEF TypeOK
    <2>2. unsure' \in {unsure, Set(unsure, i, 0)}
      BY DEF Assigns
    <2> QED BY <2>1, <2>2 DEF Set
  <1>6. acq' \in [Inst -> {"none", "incr", "get", "read"}]
    <2>1. acq' = acq \/ \E s \in {"none", "incr", "get", "read"} : acq' = Set(acq, i, s)
      BY DEF Assigns
    <2>2. acq \in [Inst -> {"none", "incr", "get", "read"}]
      BY DEF TypeOK
    <2> QED BY <2>1, <2>2 DEF Set
  <1>7. rel' \in [Inst -> {"none", "get", "del"}]
    <2>1. rel' = rel \/ \E s \in {"none", "get", "del"} : rel' = Set(rel, i, s)
      BY DEF Assigns
    <2>2. rel \in [Inst -> {"none", "get", "del"}]
      BY DEF TypeOK
    <2> QED BY <2>1, <2>2 DEF Set
  <1>8. ren' \in [Inst -> SUBSET {"get", "expire"}]
    <2>1. ren' = ren \/ \E s \in SUBSET {"get", "expire"} : ren' = Set(ren, i, s)
      BY DEF Assigns
    <2>2. ren \in [Inst -> SUBSET {"get", "expire"}]
      BY DEF TypeOK
    <2>3. ASSUME NEW s \in SUBSET {"get", "expire"}, ren' = Set(ren, i, s)
          PROVE  ren' \in [Inst -> SUBSET {"get", "expire"}]
      BY <2>2, <2>3 DEF Set
    <2> QED BY <2>1, <2>2, <2>3
  <1>9. lat' \in [Inst -> [Kind -> 0..MaxLatency]]
    BY AnsweredOne DEF Assigns, TypeOK
  <1> QED BY <1>1, <1>2, <1>3, <1>4, <1>5, <1>6, <1>7, <1>8, <1>9 DEF TypeOK, RedisType

\* The steps of one instance.
InstStep(i) ==
    \/ TryAcquire(i) \/ AcquireIncr(i) \/ AcquireGet(i) \/ AcquireRead(i) \/ AcquireError(i)
    \/ Release(i) \/ ReleaseGet(i) \/ ReleaseDel(i) \/ ReleaseError(i)
    \/ Renew(i) \/ RenewGet(i) \/ RenewExpire(i) \/ RenewError(i)

LEMMA NextSteps == Next <=> Tick \/ \E i \in Inst : InstStep(i)
  BY DEF Next, InstStep, AcquireStep, RenewStep

LEMMA StepAssigns == ASSUME TypeOK, NEW i \in Inst, InstStep(i) PROVE Assigns(i)
  <1>1. CASE TryAcquire(i)
    BY <1>1 DEF TryAcquire, Confirmed, instVars, Assigns, Kind
  <1>2. CASE AcquireIncr(i)
    BY <1>2 DEF AcquireIncr, StartHeartbeat, Assigns, Kind
  <1>3. CASE AcquireGet(i)
    BY <1>3 DEF AcquireGet, Confirmed, redisVars, Assigns, Kind
  <1>4. CASE AcquireRead(i)
    BY <1>4 DEF AcquireRead, StartHeartbeat, redisVars, Assigns, Kind
  <1>5. CASE AcquireError(i)
    BY <1>5 DEF AcquireError, redisVars, Assigns, Kind
  <1>6. CASE Release(i)
    BY <1>6 DEF Release, StopHeartbeat, redisVars, Assigns, Kind
  <1>7. CASE ReleaseGet(i)
    BY <1>7 DEF ReleaseGet, redisVars, instVars, Assigns, Kind
  <1>8. CASE ReleaseDel(i)
    BY <1>8 DEF ReleaseDel, instVars, Assigns, Kind
  <1>9. CASE ReleaseError(i)
    BY <1>9 DEF ReleaseError, redisVars, instVars, Assigns, Kind
  <1>10. CASE Renew(i)
    BY <1>10 DEF Renew, StepDown, StopHeartbeat, redisVars, Assigns, Kind, TypeOK
  <1>11. CASE RenewGet(i)
    BY <1>11 DEF RenewGet, StepDown, StopHeartbeat, redisVars, Assigns, Kind, TypeOK
  <1>12. CASE RenewExpire(i)
    BY <1>12 DEF RenewExpire, StepDown, StopHeartbeat, Confirmed, Assigns, Kind, TypeOK
  <1>13. CASE RenewError(i)
    BY <1>13 DEF RenewError, redisVars, instVars, Assigns, Kind, TypeOK
  <1> QED BY <1>1, <1>2, <1>3, <1>4, <1>5, <1>6, <1>7, <1>8, <1>9, <1>10, <1>11, <1>12, <1>13 DEF InstStep

\* A step of instance i leaves the fields of every other instance alone.
LEMMA AssignsOthers ==
    ASSUME TypeOK, NEW i \in Inst, Assigns(i), NEW j \in Inst, i # j
    PROVE  /\ leader'[j] = leader[j] /\ beat'[j] = beat[j] /\ due'[j] = due[j]
           /\ since'[j] = since[j] /\ acq'[j] = acq[j] /\ rel'[j] = rel[j]
           /\ ren'[j] = ren[j] /\ lat'[j] = lat[j]
  <1>1. /\ leader \in [Inst -> BOOLEAN] /\ beat \in [Inst -> BOOLEAN]
        /\ leader' = leader \/ \E b \in BOOLEAN : leader' = Set(leader, i, b)
        /\ beat' = beat \/ \E b \in BOOLEAN : beat' = Set(beat, i, b)
    BY DEF Assigns, TypeOK
  <1>2. leader'[j] = leader[j] /\ beat'[j] = beat[j]
    BY <1>1 DEF Set
  <1>3. due'[j] = due[j] /\ since'[j] = since[j]
    BY DEF Assigns, TypeOK, Set
  <1>4. /\ acq' = acq \/ \E s \in {"none", "incr", "get", "read"} : acq' = Set(acq, i, s)
        /\ rel' = rel \/ \E s \in {"none", "get", "del"} : rel' = Set(rel, i, s)
        /\ ren' = ren \/ \E s \in SUBSET {"get", "expire"} : ren' = Set(ren, i, s)
    BY DEF Assigns
  <1>a. acq'[j] = acq[j] /\ rel'[j] = rel[j] /\ ren'[j] = ren[j]
    BY <1>4 DEF TypeOK, Set
  <1>5. lat'[j] = lat[j]
    BY AnsweredOne, TimesAssumption DEF Assigns, TypeOK
  <1> QED BY <1>2, <1>3, <1>a, <1>5

LEMMA TypeInit == Init => TypeOK
  BY TimesAssumption DEF Init, TypeOK, Kind

LEMMA TypeStep == TypeOK /\ [Next]_vars => TypeOK'
  <1> SUFFICES ASSUME TypeOK, [Next]_vars PROVE TypeOK'
    OBVIOUS
  <1> USE TimesAssumption, InstAssumption
  <1>redis. RedisType
    BY DEF TypeOK, RedisType
  <1>1. CASE UNCHANGED vars
    BY <1>1 DEF vars, redisVars, instVars, TypeOK
  <1>2. CASE Tick
    <2>1. RedisType'
      BY <1>2, <1>redis DEF Tick, RedisType
    <2>2. due' \in [Inst -> 0..RenewMs] /\ since' \in [Inst -> 0..(LeaseMs + 1)]
      BY <1>2 DEF Tick, TypeOK, Up
    <2>3. unsure' \in [Inst -> 0..(LeaseMs + RenewMs + 1)]
      BY <1>2 DEF Tick, TypeOK, Up
    <2>4. lat' \in [Inst -> [Kind -> 0..MaxLatency]]
      <3>1. \A j \in Inst, k \in Kind : Up(lat[j][k], MaxLatency) \in 0..MaxLatency /\ lat[j][k] \in 0..MaxLatency
        BY DEF TypeOK, Up
      <3> QED BY <3>1, <1>2 DEF Tick, TypeOK
    <2> QED BY <2>1, <2>2, <2>3, <2>4, <1>2 DEF Tick, TypeOK, RedisType
  <1>3. ASSUME NEW i \in Inst, InstStep(i) PROVE TypeOK'
    <2>1. CASE TryAcquire(i)
      BY <2>1, <1>redis, <1>3, StepAssigns, AssignsTyped DEF TryAcquire, RedisType
    <2>2. CASE AcquireIncr(i)
      BY <2>2, <1>redis, <1>3, StepAssigns, AssignsTyped DEF AcquireIncr, RedisType
    <2>3. CASE ReleaseDel(i)
      BY <2>3, <1>redis, <1>3, StepAssigns, AssignsTyped DEF ReleaseDel, RedisType
    <2>4. CASE RenewExpire(i)
      <3>1. holder' = holder /\ fence' = fence /\ ttl' = IF holder # None THEN LeaseMs ELSE ttl
        BY <2>4 DEF RenewExpire
      <3> QED BY <3>1, <1>redis, <1>3, StepAssigns, AssignsTyped DEF RedisType
    <2>5. CASE UNCHANGED redisVars
      BY <2>5, <1>redis, <1>3, StepAssigns, AssignsTyped DEF redisVars, RedisType
    <2> QED
      BY <1>3, <2>1, <2>2, <2>3, <2>4, <2>5
      DEF InstStep, AcquireGet, AcquireRead, AcquireError, Release, ReleaseGet, ReleaseError, Renew,
          RenewGet, RenewError
  <1> QED BY <1>1, <1>2, <1>3, NextSteps

\* Another instance keeps its facts when its own fields keep their values and
\* its key is not taken, shortened or given to it.
LEMMA Bystander ==
    ASSUME NEW j \in Inst, TypeOK, TypeOK', One(j), 
           leader'[j] = leader[j], beat'[j] = beat[j], due'[j] = due[j],
           since'[j] = since[j], acq'[j] = acq[j], rel'[j] = rel[j], ren'[j] = ren[j],
           lat'[j] = lat[j],
           holder = j => holder' = j /\ ttl' >= ttl,
           holder' = j => holder = j
    PROVE  One(j)'
  <1> USE TimesAssumption
  <1>t. /\ ttl \in Nat /\ ttl' \in Nat /\ due[j] \in Nat
        /\ \A k \in Kind : lat[j][k] \in Nat
    BY DEF TypeOK, Kind
  <1>1. Idle(j)'
    BY DEF One, Idle, InFlight
  <1>2. OnTime(j)'
    BY DEF One, OnTime
  <1>r. holder = j /\ Renewing(j) => Renewing(j)'
    BY <1>t DEF Renewing, Kind
  <1>3. Leads(j)'
    BY <1>t, <1>r DEF One, Leads
  <1>4. Holds(j)'
    BY DEF One, Holds
  <1>5. Acquires(j)'
    BY <1>t DEF One, Acquires, Kind
  <1>p. holder = j /\ Parting(j) => Parting(j)'
    BY <1>t, <1>r DEF Parting, Kind
  <1>6. Releases(j)'
    BY <1>p DEF One, Releases
  <1> QED BY <1>1, <1>2, <1>3, <1>4, <1>5, <1>6 DEF One

LEMMA LeaseInit == Init => LeaseInv
  <1> SUFFICES ASSUME Init PROVE LeaseInv
    OBVIOUS
  <1>1. TypeOK
    BY TypeInit
  <1>2. ASSUME NEW i \in Inst PROVE One(i)
    <2>1. Idle(i)
      BY DEF Init, Idle, Kind
    <2>2. /\ ~leader[i] /\ ~beat[i] /\ holder # i /\ acq[i] = "none" /\ rel[i] = "none"
      BY InstAssumption DEF Init
    <2> QED BY <2>1, <2>2 DEF One, OnTime, Leads, Holds, Acquires, Releases
  <1> QED BY <1>1, <1>2 DEF LeaseInv

\* A tick: the times that are left of the renewals and releases under way
\* shrink with the TTL.
LEMMA LeaseTick ==
    ASSUME Prompt, LeaseInv, TypeOK', Tick, NEW i \in Inst
    PROVE  One(i)'
  <1> USE TimesAssumption, InstAssumption
  <1>t. /\ ttl \in Nat /\ ttl' \in Nat /\ due[i] \in Nat /\ since[i] \in 0..(LeaseMs + 1)
        /\ (holder = None) <=> (ttl = 0)
        /\ \A k \in Kind : lat[i][k] \in 0..MaxLatency
        /\ acq[i] \in {"none", "incr", "get", "read"} /\ rel[i] \in {"none", "get", "del"}
        /\ ren[i] \in SUBSET {"get", "expire"}
    BY DEF LeaseInv, TypeOK, Kind
  <1>one. One(i)
    BY DEF LeaseInv
  <1>f. /\ UNCHANGED <<leader, beat, acq, rel, ren>>
        /\ due'[i] = IF beat[i] /\ due[i] > 0 THEN due[i] - 1 ELSE due[i]
        /\ since'[i] = IF beat[i] THEN Up(since[i], LeaseMs + 1) ELSE since[i]
        /\ ttl' = IF ttl > 0 THEN ttl - 1 ELSE 0
        /\ holder' = IF ttl > 1 THEN holder ELSE None
        /\ beat[i] => due[i] > 0
    BY DEF Tick, Prompt
  <1>l. \A k \in Kind : /\ k \in InFlight(i) => lat[i][k] < MaxLatency /\ lat'[i][k] = lat[i][k] + 1
                        /\ k \notin InFlight(i) => lat'[i][k] = lat[i][k]
    BY <1>t DEF Tick, Prompt, Up
  <1>s. InFlight(i)' = InFlight(i)
    BY <1>f DEF InFlight
  <1>1. Idle(i)'
    BY <1>l, <1>s, <1>one DEF One, Idle
  <1>2. OnTime(i)'
    BY <1>t, <1>f, <1>one DEF One, OnTime, Up
  <1>r. Renewing(i) => ttl > 1 /\ Renewing(i)'
    <2>1. CASE "expire" \in ren[i] /\ ttl > MaxLatency - lat[i]["expire"]
      <3>1. "expire" \in InFlight(i) /\ "expire" \in Kind
        BY <2>1 DEF InFlight, Kind
      <3>2. lat[i]["expire"] < MaxLatency /\ lat'[i]["expire"] = lat[i]["expire"] + 1 /\ lat[i]["expire"] \in Nat
        BY <3>1, <1>l, <1>t
      <3> QED BY <2>1, <3>2, <1>t, <1>f DEF Renewing
    <2>2. CASE "get" \in ren[i] /\ ttl > 2 * MaxLatency - lat[i]["get"]
      <3>1. "get" \in InFlight(i) /\ "get" \in Kind
        BY <2>2 DEF InFlight, Kind
      <3>2. lat[i]["get"] < MaxLatency /\ lat'[i]["get"] = lat[i]["get"] + 1 /\ lat[i]["get"] \in Nat
        BY <3>1, <1>l, <1>t
      <3> QED BY <2>2, <3>2, <1>t, <1>f DEF Renewing
    <2> QED BY <2>1, <2>2 DEF Renewing
  <1>3. leader[i] => ttl > 1 /\ Leads(i)'
    BY <1>t, <1>f, <1>r, <1>one DEF One, Leads
  <1>4. acq[i] = "incr" => ttl > 1 /\ ttl' + lat'[i]["acq"] >= LeaseMs
    <2>1. acq[i] = "incr" => "acq" \in InFlight(i)
      BY DEF InFlight, Kind
    <2> QED BY <2>1, <1>t, <1>f, <1>l, <1>one DEF One, Acquires, Prompt, Kind
  <1>5. rel[i] # "none" /\ holder = i => ttl > 1 /\ Parting(i)'
    <2> SUFFICES ASSUME rel[i] # "none", holder = i PROVE ttl > 1 /\ Parting(i)'
      OBVIOUS
    <2>1. "rel" \in InFlight(i) /\ "rel" \in Kind
      BY DEF InFlight, Kind
    <2>2. lat[i]["rel"] < MaxLatency /\ lat'[i]["rel"] = lat[i]["rel"] + 1 /\ lat[i]["rel"] \in Nat
      BY <2>1, <1>l, <1>t
    <2>3. Parting(i)
      BY <1>one DEF One, Releases
    <2> QED BY <2>2, <2>3, <1>t, <1>f, <1>r DEF Parting
  <1>6. holder' = i => holder = i
    BY <1>f
  <1>7. Leads(i)' /\ Holds(i)'
    BY <1>3, <1>6, <1>f, <1>one DEF One, Leads, Holds
  <1>8. Acquires(i)' /\ Releases(i)'
    BY <1>4, <1>5, <1>6, <1>f, <1>one DEF One, Acquires, Releases
  <1> QED BY <1>1, <1>2, <1>7, <1>8 DEF One

\* What a step of instance i owes: its own facts, and no harm to another's key.
KeySafe(i) ==
    \A j \in Inst \ {i} : /\ holder = j => holder' = j /\ ttl' >= ttl
                          /\ holder' = j => holder = j

LEMMA LeaseMoves ==
    ASSUME LeaseInv, TypeOK', NEW i \in Inst, Assigns(i), One(i)', KeySafe(i)
    PROVE  LeaseInv'
  <1>1. ASSUME NEW j \in Inst PROVE One(j)'
    <2>1. CASE j = i
      BY <2>1
    <2>2. CASE j # i
      <3>1. TypeOK /\ One(j)
        BY DEF LeaseInv
      <3>2. /\ leader'[j] = leader[j] /\ beat'[j] = beat[j] /\ due'[j] = due[j]
            /\ since'[j] = since[j] /\ acq'[j] = acq[j] /\ rel'[j] = rel[j]
            /\ ren'[j] = ren[j] /\ lat'[j] = lat[j]
        BY <2>2, <3>1, AssignsOthers
      <3>3. (holder = j => holder' = j /\ ttl' >= ttl) /\ (holder' = j => holder = j)
        BY <2>2 DEF KeySafe
      <3> QED BY <3>1, <3>2, <3>3, Bystander
    <2> QED BY <2>1, <2>2
  <1> QED BY <1>1 DEF LeaseInv

\* Raising a flag.
LEMMA RaiseFlag ==
    ASSUME NEW f \in [Inst -> BOOLEAN], NEW i \in Inst
    PROVE  Set(f, i, TRUE)[i] = TRUE
  BY DEF Set

LEMMA LeaseAcquire ==
    ASSUME Prompt, LeaseInv, TypeOK', NEW i \in Inst,
           TryAcquire(i) \/ AcquireIncr(i) \/ AcquireGet(i) \/ AcquireRead(i)
    PROVE  One(i)' /\ KeySafe(i)
  <1> USE TimesAssumption, InstAssumption
  <1>t. /\ ttl \in 0..LeaseMs /\ due[i] \in 0..RenewMs /\ since[i] \in Nat
        /\ (holder = None) <=> (ttl = 0)
        /\ \A k \in Kind : lat[i][k] \in 0..MaxLatency
        /\ leader \in [Inst -> BOOLEAN] /\ beat \in [Inst -> BOOLEAN]
        /\ acq \in [Inst -> {"none", "incr", "get", "read"}]
        /\ due \in [Inst -> 0..RenewMs] /\ since \in [Inst -> 0..(LeaseMs + 1)]
        /\ lat \in [Inst -> [Kind -> 0..MaxLatency]]
        /\ ren[i] \subseteq {"get", "expire"}
    BY DEF LeaseInv, TypeOK, Kind
  <1>one. Idle(i) /\ OnTime(i) /\ Leads(i) /\ Holds(i) /\ Acquires(i) /\ Releases(i)
    BY DEF LeaseInv, One
  <1>1. CASE TryAcquire(i)
    <2>1. /\ acq[i] = "none" /\ rel[i] = "none"
          /\ UNCHANGED <<leader, beat, due, since, rel, ren, lat>>
      BY <1>1 DEF TryAcquire, Prompt, instVars
    <2>2. CASE holder = None
      <3>1. holder' = i /\ ttl' = LeaseMs /\ acq'[i] = "incr"
        BY <2>2, <1>1, <1>t DEF TryAcquire, Set
      <3>2. lat[i]["acq"] = 0 /\ ~leader[i]
        BY <2>1, <2>2, <1>t, <1>one DEF Idle, InFlight, Kind, Leads
      <3>3. Idle(i)'
        BY <2>1, <3>1, <1>one DEF Idle, InFlight
      <3>4. OnTime(i)' /\ Leads(i)' /\ Holds(i)'
        BY <2>1, <3>1, <3>2, <1>one DEF OnTime, Leads, Holds
      <3>5. Acquires(i)' /\ Releases(i)'
        BY <2>1, <3>1, <3>2 DEF Acquires, Releases
      <3> QED BY <3>1, <3>3, <3>4, <3>5, <2>2 DEF One, KeySafe
    <2>3. CASE holder # None
      <3>1. UNCHANGED <<holder, ttl>> /\ acq'[i] = "get"
        BY <2>3, <1>1, <1>t DEF TryAcquire, Set
      <3>3. Idle(i)'
        BY <2>1, <3>1, <1>one DEF Idle, InFlight
      <3>4. OnTime(i)' /\ Leads(i)' /\ Holds(i)' /\ Acquires(i)' /\ Releases(i)'
        BY <2>1, <3>1, <1>one DEF OnTime, Leads, Holds, Acquires, Releases, Renewing
      <3> QED BY <3>1, <3>3, <3>4, <1>t DEF One, KeySafe
    <2> QED BY <2>2, <2>3
  <1>l. ~TryAcquire(i) => Answered(i, "acq")
    BY DEF AcquireIncr, AcquireGet, AcquireRead
  <1>a. ~TryAcquire(i) => /\ lat'[i]["acq"] = 0
                          /\ \A m \in Kind \ {"acq"} : lat'[i][m] = lat[i][m]
    BY <1>l, <1>t, AnsweredOne DEF Kind
  <1>2. CASE AcquireIncr(i) /\ ~TryAcquire(i)
    <2>1. /\ acq[i] = "incr" /\ UNCHANGED <<holder, ttl, rel, ren>>
          /\ leader' = Set(leader, i, TRUE) /\ beat' = Set(beat, i, TRUE)
          /\ acq' = Set(acq, i, "none") /\ since' = Set(since, i, 0)
          /\ due' = IF beat[i] THEN due ELSE Set(due, i, RenewMs)
      BY <1>2 DEF AcquireIncr, StartHeartbeat
    <2>2. leader'[i] = TRUE /\ beat'[i] = TRUE
      BY <2>1, <1>t, RaiseFlag
    <2>3. acq'[i] = "none" /\ since'[i] = 0 /\ due'[i] \in 0..RenewMs
      BY <2>1, <1>t DEF Set
    <2>4. holder = i /\ ttl + lat[i]["acq"] >= LeaseMs /\ rel[i] = "none" /\ lat[i]["acq"] \in 0..MaxLatency
      BY <2>1, <1>t, <1>one DEF Acquires, Kind
    <2>5. ttl > due'[i] + 2 * MaxLatency
      BY <2>3, <2>4, <1>t DEF Prompt
    <2>6. Idle(i)'
      BY <1>2, <1>a, <2>1, <2>3, <1>one DEF Idle, InFlight, Kind
    <2>7. OnTime(i)'
      BY <2>3 DEF OnTime
    <2>8. Leads(i)'
      BY <2>1, <2>2, <2>4, <2>5 DEF Leads
    <2>9. Holds(i)' /\ Acquires(i)' /\ Releases(i)'
      BY <2>1, <2>2, <2>3, <2>4 DEF Holds, Acquires, Releases
    <2> QED BY <2>1, <2>6, <2>7, <2>8, <2>9, <1>t DEF One, KeySafe
  <1>3. CASE AcquireGet(i) /\ ~TryAcquire(i)
    <2>1. /\ acq[i] = "get" /\ UNCHANGED <<holder, ttl, beat, due, since, rel, ren>>
          /\ rel[i] = "none"
      BY <1>3, <1>one DEF AcquireGet, Acquires, redisVars
    <2>2. \/ holder = i /\ leader[i] /\ UNCHANGED leader /\ acq'[i] = "read"
          \/ holder # i /\ ~leader[i] /\ leader'[i] = leader[i] /\ acq'[i] = "none"
      <3>1. CASE holder = i
        <4>1. leader[i]
          BY <2>1, <3>1, <1>one DEF Holds
        <4>2. UNCHANGED leader /\ acq'[i] = "read"
          BY <1>3, <3>1, <1>t DEF AcquireGet, Set
        <4> QED BY <4>1, <4>2, <3>1
      <3>2. CASE holder # i
        <4>1. ~leader[i]
          BY <3>2, <1>one DEF Leads
        <4>2. leader'[i] = FALSE /\ acq'[i] = "none"
          BY <1>3, <3>2, <1>t DEF AcquireGet, Set
        <4>3. leader[i] = FALSE
          BY <4>1, <1>t
        <4> QED BY <4>1, <4>2, <4>3, <3>2
      <3> QED BY <3>1, <3>2
    <2>3. Idle(i)'
      BY <1>3, <1>a, <2>1, <2>2, <1>one DEF Idle, InFlight, Kind
    <2>4. Renewing(i) => Renewing(i)'
      BY <1>3, <1>a, <2>1 DEF Renewing, Kind
    <2>5. OnTime(i)' /\ Holds(i)' /\ Acquires(i)' /\ Releases(i)'
      BY <2>1, <2>2, <1>one DEF OnTime, Holds, Acquires, Releases
    <2>6. Leads(i)'
      BY <2>1, <2>2, <2>4, <1>one DEF Leads
    <2> QED BY <2>1, <2>3, <2>5, <2>6, <1>t DEF One, KeySafe
  <1>4. CASE AcquireRead(i) /\ ~TryAcquire(i)
    <2>1. /\ acq[i] = "read" /\ leader[i] /\ beat[i]
      BY <1>4, <1>one DEF AcquireRead, Acquires, Leads
    <2>2. /\ UNCHANGED <<holder, ttl, due, since, rel, ren>>
          /\ leader' = Set(leader, i, TRUE) /\ beat' = Set(beat, i, TRUE) /\ acq' = Set(acq, i, "none")
      BY <1>4, <2>1 DEF AcquireRead, StartHeartbeat, redisVars
    <2>3. leader'[i] = TRUE /\ beat'[i] = TRUE
      BY <2>2, <1>t, RaiseFlag
    <2>4. acq'[i] = "none"
      BY <2>2, <1>t DEF Set
    <2>5. Idle(i)'
      BY <1>4, <1>a, <2>2, <2>4, <1>one DEF Idle, InFlight, Kind
    <2>6. Renewing(i) => Renewing(i)'
      BY <1>4, <1>a, <2>2 DEF Renewing, Kind
    <2>7. OnTime(i)' /\ Leads(i)' /\ Holds(i)' /\ Acquires(i)' /\ Releases(i)'
      BY <2>1, <2>2, <2>3, <2>4, <2>6, <1>one DEF OnTime, Leads, Holds, Acquires, Releases
    <2> QED BY <2>2, <2>5, <2>7, <1>t DEF One, KeySafe
  <1> QED BY <1>1, <1>2, <1>3, <1>4

LEMMA LeaseRelease ==
    ASSUME Prompt, LeaseInv, TypeOK', NEW i \in Inst,
           Release(i) \/ ReleaseGet(i) \/ ReleaseDel(i)
    PROVE  One(i)' /\ KeySafe(i)
  <1> USE TimesAssumption, InstAssumption
  <1>t. /\ ttl \in 0..LeaseMs /\ due[i] \in 0..RenewMs /\ since[i] \in Nat
        /\ (holder = None) <=> (ttl = 0)
        /\ \A k \in Kind : lat[i][k] \in 0..MaxLatency
        /\ leader \in [Inst -> BOOLEAN] /\ beat \in [Inst -> BOOLEAN]
        /\ rel \in [Inst -> {"none", "get", "del"}]
        /\ lat \in [Inst -> [Kind -> 0..MaxLatency]]
        /\ ren[i] \subseteq {"get", "expire"}
    BY DEF LeaseInv, TypeOK, Kind
  <1>one. Idle(i) /\ OnTime(i) /\ Leads(i) /\ Holds(i) /\ Acquires(i) /\ Releases(i)
    BY DEF LeaseInv, One
  <1>1. CASE Release(i)
    <2>1. /\ rel[i] = "none" /\ acq[i] = "none"
          /\ UNCHANGED <<holder, ttl, due, since, acq, ren, lat>>
          /\ leader' = Set(leader, i, FALSE) /\ beat' = Set(beat, i, FALSE) /\ rel' = Set(rel, i, "get")
      BY <1>1 DEF Release, StopHeartbeat, Prompt, redisVars
    <2>2. leader'[i] = FALSE /\ beat'[i] = FALSE
      BY <2>1, <1>t, ClearFlag
    <2>3. rel'[i] = "get"
      BY <2>1, <1>t DEF Set
    <2>4. lat[i]["rel"] = 0
      BY <2>1, <1>t, <1>one DEF Idle, InFlight, Kind
    <2>5. Idle(i)'
      BY <2>1, <2>3, <1>one DEF Idle, InFlight
    <2>6. holder = i => Renewing(i) \/ ttl > 2 * MaxLatency
      BY <2>1, <1>t, <1>one DEF Holds, Leads
    <2>7. Renewing(i) => Renewing(i)'
      BY <2>1 DEF Renewing
    <2>8. holder' = i => Parting(i)'
      BY <2>1, <2>3, <2>4, <2>6, <2>7, <1>t DEF Parting
    <2>9. OnTime(i)' /\ Leads(i)' /\ Holds(i)' /\ Acquires(i)' /\ Releases(i)'
      BY <2>1, <2>2, <2>3, <2>8 DEF OnTime, Leads, Holds, Acquires, Releases
    <2> QED BY <2>1, <2>5, <2>9, <1>t DEF One, KeySafe
  <1>l. ~Release(i) => Answered(i, "rel")
    BY DEF ReleaseGet, ReleaseDel
  <1>a. ~Release(i) => /\ lat'[i]["rel"] = 0
                       /\ \A m \in Kind \ {"rel"} : lat'[i][m] = lat[i][m]
    BY <1>l, <1>t, AnsweredOne DEF Kind
  <1>2. CASE ReleaseGet(i) /\ ~Release(i)
    <2>1. /\ rel[i] = "get" /\ UNCHANGED <<holder, ttl, leader, beat, due, since, acq, ren>>
      BY <1>2 DEF ReleaseGet, redisVars, instVars
    <2>2. rel'[i] = IF holder = i THEN "del" ELSE "none"
      BY <1>2, <1>t DEF ReleaseGet, Set
    <2>3. Idle(i)'
      BY <1>2, <1>a, <2>1, <2>2, <1>one DEF Idle, InFlight, Kind
    <2>4. Renewing(i) => Renewing(i)'
      BY <1>2, <1>a, <2>1 DEF Renewing, Kind
    <2>5. holder = i => Parting(i)'
      <3>1. lat[i]["rel"] \in 0..MaxLatency
        BY <1>t DEF Kind
      <3> QED BY <3>1, <2>1, <2>2, <2>4, <1>2, <1>a, <1>t, <1>one DEF Releases, Parting
    <2>6. ~leader[i] /\ acq[i] = "none"
      BY <2>1, <1>one DEF Leads, Acquires
    <2>7. OnTime(i)' /\ Leads(i)' /\ Holds(i)' /\ Acquires(i)' /\ Releases(i)'
      BY <2>1, <2>2, <2>5, <2>6, <1>one DEF OnTime, Leads, Holds, Acquires, Releases
    <2> QED BY <2>1, <2>3, <2>7, <1>t DEF One, KeySafe
  <1>3. CASE ReleaseDel(i) /\ ~Release(i)
    <2>1. /\ rel[i] = "del" /\ UNCHANGED <<leader, beat, due, since, acq, ren>>
          /\ holder' = None
      BY <1>3 DEF ReleaseDel, instVars
    <2>2. rel'[i] = "none"
      BY <1>3, <1>t DEF ReleaseDel, Set
    <2>3. Idle(i)'
      BY <1>3, <1>a, <2>1, <2>2, <1>one DEF Idle, InFlight, Kind
    <2>4. ~leader[i] /\ acq[i] = "none" /\ holder = i
      BY <2>1, <1>one DEF Leads, Acquires, Releases
    <2>5. OnTime(i)' /\ Leads(i)' /\ Holds(i)' /\ Acquires(i)' /\ Releases(i)'
      BY <2>1, <2>2, <2>4, <1>one DEF OnTime, Leads, Holds, Acquires, Releases
    <2> QED BY <2>1, <2>3, <2>4, <2>5 DEF One, KeySafe
  <1> QED BY <1>1, <1>2, <1>3

LEMMA LeaseRenew ==
    ASSUME Prompt, LeaseInv, TypeOK', NEW i \in Inst,
           Renew(i) \/ RenewGet(i) \/ RenewExpire(i)
    PROVE  One(i)' /\ KeySafe(i)
  <1> USE TimesAssumption, InstAssumption
  <1>t. /\ ttl \in 0..LeaseMs /\ due[i] \in 0..RenewMs /\ since[i] \in Nat
        /\ (holder = None) <=> (ttl = 0)
        /\ \A k \in Kind : lat[i][k] \in 0..MaxLatency
        /\ leader \in [Inst -> BOOLEAN] /\ beat \in [Inst -> BOOLEAN]
        /\ ren \in [Inst -> SUBSET {"get", "expire"}]
        /\ due \in [Inst -> 0..RenewMs] /\ since \in [Inst -> 0..(LeaseMs + 1)]
        /\ lat \in [Inst -> [Kind -> 0..MaxLatency]]
    BY DEF LeaseInv, TypeOK, Kind
  <1>k. "get" \in Kind /\ "expire" \in Kind /\ "rel" \in Kind /\ "acq" \in Kind
    BY DEF Kind
  <1>n. /\ lat[i]["get"] \in 0..MaxLatency /\ lat[i]["expire"] \in 0..MaxLatency
    BY <1>t, <1>k
  <1>one. Idle(i) /\ OnTime(i) /\ Leads(i) /\ Holds(i) /\ Acquires(i) /\ Releases(i)
    BY DEF LeaseInv, One
  <1>1. CASE Renew(i)
    <2>1. beat[i] /\ due[i] = 0 /\ UNCHANGED <<holder, ttl, acq, rel, lat>>
      BY <1>1 DEF Renew, redisVars
    <2>2. ~TooLate(i)
      BY <2>1, <1>t, <1>one DEF OnTime, TooLate, Prompt
    <2>3. /\ UNCHANGED <<leader, beat>> /\ since' = Set(since, i, 0) /\ due' = Set(due, i, RenewMs)
          /\ ren' = Set(ren, i, ren[i] \cup {"get"})
      BY <1>1, <2>2 DEF Renew
    <2>4. since'[i] = 0 /\ due'[i] = RenewMs
      BY <2>3, <1>t DEF Set
    <2>5. ren'[i] = ren[i] \cup {"get"}
      BY <2>3, <1>t DEF Set
    <2>6. Idle(i)'
      BY <2>1, <2>5, <1>one DEF Idle, InFlight
    <2>7. Renewing(i) \/ ttl > 2 * MaxLatency => Renewing(i)'
      BY <2>1, <2>5, <1>n, <1>t DEF Renewing
    <2>8. OnTime(i)' /\ Leads(i)' /\ Holds(i)' /\ Acquires(i)'
      BY <2>1, <2>3, <2>4, <2>7, <1>t, <1>one DEF OnTime, Leads, Holds, Acquires
    <2>9. Releases(i)'
      BY <2>1, <2>7, <1>one DEF Releases, Parting
    <2> QED BY <2>1, <2>6, <2>8, <2>9, <1>t DEF One, KeySafe
  <1>2. CASE RenewGet(i)
    <2>0. /\ "get" \in ren[i] /\ UNCHANGED <<holder, ttl, since, acq, rel>>
          /\ lat'[i]["get"] = 0 /\ \A m \in Kind \ {"get"} : lat'[i][m] = lat[i][m]
      BY <1>2, <1>t, <1>k, AnsweredOne DEF RenewGet, redisVars
    <2>1. CASE holder = i
      <3>1. UNCHANGED <<leader, beat, due>> /\ ren' = Set(ren, i, (ren[i] \ {"get"}) \cup {"expire"})
        BY <1>2, <2>1 DEF RenewGet
      <3>2. ren'[i] = (ren[i] \ {"get"}) \cup {"expire"}
        BY <3>1, <1>t DEF Set
      <3>3. Idle(i)'
        BY <2>0, <3>2, <1>one DEF Idle, InFlight, Kind
      <3>4. "expire" \notin ren[i] => lat[i]["expire"] = 0
        BY <1>one DEF Idle, InFlight, Kind
      <3>5. "expire" # "get" /\ lat'[i]["expire"] = lat[i]["expire"]
        BY <2>0, <1>k
      <3>6. Renewing(i) => Renewing(i)'
        BY <2>0, <3>2, <3>4, <3>5, <1>n, <1>t DEF Renewing
      <3>7. OnTime(i)' /\ Leads(i)' /\ Holds(i)'
        BY <2>0, <3>1, <3>6, <1>one DEF OnTime, Leads, Holds
      <3>8. Acquires(i)' /\ Releases(i)'
        BY <2>0, <3>1, <3>6, <1>k, <1>one DEF Acquires, Releases, Parting
      <3> QED BY <2>0, <3>3, <3>7, <3>8, <1>t DEF One, KeySafe
    <2>2. CASE holder # i
      <3>1. leader' = Set(leader, i, FALSE) /\ beat' = Set(beat, i, FALSE) /\ ren' = Set(ren, i, ren[i] \ {"get"})
        BY <1>2, <2>2 DEF RenewGet, StepDown, StopHeartbeat
      <3>2. leader'[i] = FALSE /\ beat'[i] = FALSE
        BY <3>1, <1>t, ClearFlag
      <3>3. ren'[i] = ren[i] \ {"get"}
        BY <3>1, <1>t DEF Set
      <3>4. ~leader[i] /\ acq[i] \notin {"incr", "read"}
        BY <2>2, <1>one DEF Leads, Acquires
      <3>5. Idle(i)'
        BY <2>0, <3>3, <1>one DEF Idle, InFlight, Kind
      <3>6. OnTime(i)' /\ Leads(i)' /\ Holds(i)' /\ Acquires(i)' /\ Releases(i)'
        BY <2>0, <2>2, <3>2, <3>4, <1>one DEF OnTime, Leads, Holds, Acquires, Releases
      <3> QED BY <2>0, <3>5, <3>6, <1>t DEF One, KeySafe
    <2> QED BY <2>1, <2>2
  <1>3. CASE RenewExpire(i)
    <2>0. /\ "expire" \in ren[i] /\ UNCHANGED <<holder, since, acq, rel>>
          /\ lat'[i]["expire"] = 0 /\ \A m \in Kind \ {"expire"} : lat'[i][m] = lat[i][m]
          /\ ren' = Set(ren, i, ren[i] \ {"expire"})
      BY <1>3, <1>t, <1>k, AnsweredOne DEF RenewExpire
    <2>1. ren'[i] = ren[i] \ {"expire"}
      BY <2>0, <1>t DEF Set
    <2>2. Idle(i)'
      BY <2>0, <2>1, <1>one DEF Idle, InFlight, Kind
    <2>3. CASE holder # None
      <3>1. ttl' = LeaseMs /\ UNCHANGED <<leader, beat, due>>
        BY <1>3, <2>3 DEF RenewExpire
      <3>2. ttl' > due'[i] + 2 * MaxLatency /\ lat'[i]["rel"] \in 0..MaxLatency /\ lat'[i]["rel"] = lat[i]["rel"]
        BY <3>1, <2>0, <1>k, <1>t DEF Prompt
      <3>3. OnTime(i)' /\ Leads(i)' /\ Holds(i)'
        BY <2>0, <3>1, <3>2, <1>one DEF OnTime, Leads, Holds
      <3>4. Acquires(i)'
        <4>1. lat'[i]["acq"] = lat[i]["acq"] /\ lat[i]["acq"] \in Nat
          BY <2>0, <1>k, <1>t
        <4> QED BY <4>1, <2>0, <3>1, <1>one, <1>t DEF Acquires
      <3>5. rel[i] # "none" => Parting(i)'
        <4>1. rel[i] \in {"none", "get", "del"}
          BY DEF LeaseInv, TypeOK
        <4>2. ttl' > 2 * MaxLatency - lat'[i]["rel"] /\ ttl' > MaxLatency - lat'[i]["rel"]
          BY <3>1, <3>2, <1>t DEF Prompt
        <4> QED BY <4>1, <4>2, <2>0 DEF Parting
      <3>6. Releases(i)'
        BY <2>0, <3>5, <1>one DEF Releases
      <3> QED BY <2>0, <2>2, <3>1, <3>3, <3>4, <3>6, <1>t DEF One, KeySafe
    <2>4. CASE holder = None
      <3>1. leader' = Set(leader, i, FALSE) /\ beat' = Set(beat, i, FALSE) /\ UNCHANGED ttl
        BY <1>3, <2>4 DEF RenewExpire, StepDown, StopHeartbeat
      <3>2. leader'[i] = FALSE /\ beat'[i] = FALSE
        BY <3>1, <1>t, ClearFlag
      <3>3. ~leader[i] /\ acq[i] \notin {"incr", "read"}
        BY <2>4, <1>one DEF Leads, Acquires
      <3>4. OnTime(i)' /\ Leads(i)' /\ Holds(i)' /\ Acquires(i)' /\ Releases(i)'
        BY <2>0, <2>4, <3>2, <3>3, <1>one DEF OnTime, Leads, Holds, Acquires, Releases
      <3> QED BY <2>0, <2>2, <3>1, <3>4, <1>t DEF One, KeySafe
    <2> QED BY <2>3, <2>4
  <1> QED BY <1>1, <1>2, <1>3

LEMMA LeaseStep == Prompt /\ LeaseInv /\ [Next]_vars => LeaseInv'
  <1> SUFFICES ASSUME Prompt, LeaseInv, [Next]_vars PROVE LeaseInv'
    OBVIOUS
  <1>1. TypeOK /\ TypeOK'
    BY TypeStep DEF LeaseInv
  <1>2. CASE UNCHANGED vars
    BY <1>2 DEF LeaseInv, TypeOK, One, Idle, InFlight, OnTime, Leads, Holds, Acquires, Releases,
                Parting, Renewing, vars, redisVars, instVars
  <1>3. CASE Tick
    BY <1>1, <1>3, LeaseTick DEF LeaseInv
  <1>4. ASSUME NEW i \in Inst, InstStep(i) PROVE LeaseInv'
    <2>1. One(i)' /\ KeySafe(i)
      BY <1>1, <1>4, LeaseAcquire, LeaseRelease, LeaseRenew
      DEF InstStep, AcquireError, ReleaseError, RenewError, Prompt
    <2> QED BY <1>1, <1>4, <2>1, StepAssigns, LeaseMoves
  <1> QED BY <1>2, <1>3, <1>4, NextSteps

\* When heartbeats fire on time, Redis answers without errors, the calls of one
\* instance do not overlap and the lease outlasts a heartbeat interval and three
\* round trips, isLeader() is TRUE only on the instance that holds LEADER_KEY, for
\* any number of instances, any times and any order of their Redis commands.
THEOREM LeaseHolds == ASSUME Prompt PROVE Spec => []LeaderHoldsTimelyLease
  <1>1. LeaseInv => LeaderHoldsTimelyLease
    BY DEF LeaseInv, One, Leads, LeaderHoldsLease, LeaderHoldsTimelyLease
  <1> QED BY <1>1, LeaseInit, LeaseStep, PTL DEF Spec
============================================================================

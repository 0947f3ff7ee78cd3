----------------------- MODULE CircuitBreakerProofs ------------------------
(***************************************************************************)
(* Proofs about the circuit breakers, for every number of concurrent calls *)
(* and every policy: of webhook consumers, with the Redis store and with   *)
(* the in-memory store, and of the Stellar RPC client.                     *)
(***************************************************************************)
EXTENDS MCCircuitBreaker, Sequences, FiniteSetTheorems, SequenceTheorems, TLAPS

RecType == [state : Phase, failures : 0..MaxFailures, wait : (-MaxAge)..ResetMs, ttl : 0..RecordMs]
Step == {"idle", "check", "claim", "half", "gate", "http",
         "success", "failure", "reopen", "unlock"}

\* What a call read is worth as much as the record it came from: a call on its
\* way to the probe has read an open record, and no call remembers a paused
\* record with too few failures.
ReadEarned(c) ==
    /\ read[c].state # "closed" => read[c].failures >= Threshold
    /\ pc[c] \in {"claim", "half"} => read[c].state = "open"

\* PausedWasEarned is not inductive: SET half-open and SET open are computed
\* from an earlier GET.
Earned == TypeOK /\ PausedWasEarned /\ \A c \in Call : ReadEarned(c)

\* The records the store writes are well-formed.
LEMMA RecordTyped ==
    ASSUME NEW s \in Phase, NEW n \in 0..MaxFailures, NEW t \in (-MaxAge)..ResetMs
    PROVE  Record(s, n, t) \in RecType
  BY PolicyAssumption DEF Record, RecType

LEMMA AbsentTyped == Absent \in RecType
  BY PolicyAssumption DEF Absent, RecType, Phase

LEMMA ClosedTyped == Closed \in [state : Phase, failures : 0..MaxFailures]
  BY PolicyAssumption DEF Closed, Phase

\* recordFailure's next record is well-formed up to the bound on its counter,
\* and a paused one has reached the threshold.
LEMMA AfterFailureFacts ==
    ASSUME NEW p \in [state : Phase, failures : 0..MaxFailures], NEW t \in 0..MaxAge,
           AfterFailure(p, t).failures <= MaxFailures,
           p.state # "closed" => p.failures >= Threshold
    PROVE  /\ AfterFailure(p, t) \in RecType
           /\ AfterFailure(p, t).state # "closed" => AfterFailure(p, t).failures >= Threshold
  <1> DEFINE f == IF p.state = "half-open" THEN p.failures ELSE p.failures + 1
  <1>1. f \in Nat
    BY PolicyAssumption
  <1>2. ResetMs - t \in (-MaxAge)..ResetMs
    BY PolicyAssumption
  <1>3. CASE p.state = "half-open" \/ f >= Threshold
    <2>1. AfterFailure(p, t) = Record("open", f, ResetMs - t)
      BY <1>3 DEF AfterFailure, ResetAfter
    <2>2. f <= MaxFailures
      BY <2>1 DEF Record
    <2>3. f >= Threshold
      BY <1>3
    <2>4. Record("open", f, ResetMs - t) \in RecType
      BY <1>1, <1>2, <2>2, RecordTyped DEF Phase
    <2> QED BY <2>1, <2>3, <2>4 DEF Record
  <1>4. CASE ~(p.state = "half-open" \/ f >= Threshold)
    <2>1. AfterFailure(p, t) = Record("closed", f, 0)
      BY <1>4 DEF AfterFailure
    <2>2. f <= MaxFailures
      BY <2>1 DEF Record
    <2>3. 0 \in (-MaxAge)..ResetMs
      BY PolicyAssumption
    <2>4. Record("closed", f, 0) \in RecType
      BY <1>1, <2>2, <2>3, RecordTyped DEF Phase
    <2> QED BY <2>1, <2>4 DEF Record
  <1> QED BY <1>3, <1>4

LEMMA EarnedInit == Init => Earned
  <1> SUFFICES ASSUME Init PROVE Earned
    OBVIOUS
  <1>1. TypeOK
    BY AbsentTyped, ClosedTyped, PolicyAssumption DEF Init, TypeOK, RecType
  <1>2. PausedWasEarned
    BY DEF Init, PausedWasEarned, Absent
  <1>3. \A c \in Call : ReadEarned(c)
    BY DEF Init, ReadEarned, Closed
  <1> QED BY <1>1, <1>2, <1>3 DEF Earned

\* Leaving forgets what was read.
LEMMA LeaveKeeps ==
    ASSUME Earned, NEW c \in Call, Leave(c), rec' \in RecType, probe' \in 0..ProbeMs,
           PausedWasEarned'
    PROVE  Earned'
  <1>1. TypeOK'
    BY ClosedTyped, PolicyAssumption DEF Earned, TypeOK, RecType, Leave, Goto
  <1>2. ASSUME NEW d \in Call PROVE ReadEarned(d)'
    BY ClosedTyped DEF Earned, TypeOK, ReadEarned, Leave, Goto, Closed
  <1> QED BY <1>1, <1>2 DEF Earned

\* A call that moves on without reading, to any step but the two that rest on
\* an open record, keeps the invariant.
LEMMA MoveKeeps ==
    ASSUME Earned, NEW c \in Call, NEW s \in Step \ {"claim", "half"}, Goto(c, s),
           UNCHANGED <<age, read>>, probing' \in [Call -> BOOLEAN],
           rec' \in RecType, probe' \in 0..ProbeMs, PausedWasEarned'
    PROVE  Earned'
  <1>1. TypeOK'
    BY DEF Earned, TypeOK, RecType, Goto, Step
  <1>2. ASSUME NEW d \in Call PROVE ReadEarned(d)'
    BY DEF Earned, TypeOK, ReadEarned, Goto
  <1> QED BY <1>1, <1>2 DEF Earned

LEMMA EarnedStep == Earned /\ [Next]_vars => Earned'
  <1> SUFFICES ASSUME Earned, [Next]_vars PROVE Earned'
    OBVIOUS
  <1> USE PolicyAssumption
  <1>t. /\ rec \in RecType /\ probe \in 0..ProbeMs /\ PausedWasEarned
        /\ pc \in [Call -> Step] /\ probing \in [Call -> BOOLEAN]
        /\ age \in [Call -> 0..MaxAge]
        /\ read \in [Call -> [state : Phase, failures : 0..MaxFailures]]
        /\ \A c \in Call : ReadEarned(c)
    BY DEF Earned, TypeOK, RecType, Step
  <1>p. ASSUME UNCHANGED rec PROVE rec' \in RecType /\ PausedWasEarned'
    BY <1>t, <1>p DEF PausedWasEarned
  <1>z. 0 \in (-MaxAge)..ResetMs /\ 0 \in 0..MaxFailures /\ 0 \in 0..ProbeMs /\ ProbeMs \in 0..ProbeMs
    OBVIOUS
  <1>h. ASSUME NEW c \in Call, pc[c] = "half", rec' = HalfOpen(c)
        PROVE  rec' \in RecType /\ PausedWasEarned'
    <2>1. read[c].state = "open" /\ read[c].failures >= Threshold /\ read[c].failures \in 0..MaxFailures
      BY <1>t, <1>h DEF ReadEarned
    <2>2. rec' = Record("half-open", read[c].failures, 0)
      BY <1>h DEF HalfOpen
    <2>3. rec' \in RecType
      BY <2>1, <2>2, <1>z, RecordTyped DEF Phase
    <2> QED BY <2>1, <2>2, <2>3 DEF PausedWasEarned, Record
  <1>c. ASSUME rec' = Record("closed", 0, 0) PROVE rec' \in RecType /\ PausedWasEarned'
    <2>1. rec' \in RecType
      BY <1>c, <1>z, RecordTyped DEF Phase
    <2> QED BY <2>1, <1>c DEF PausedWasEarned, Record
  <1>f. ASSUME NEW c \in Call, rec' = AfterFailure(read[c], age[c]), rec'.failures <= MaxFailures
        PROVE  rec' \in RecType /\ PausedWasEarned'
    <2>1. /\ read[c] \in [state : Phase, failures : 0..MaxFailures] /\ age[c] \in 0..MaxAge
          /\ read[c].state # "closed" => read[c].failures >= Threshold
      BY <1>t DEF ReadEarned
    <2>2. /\ AfterFailure(read[c], age[c]) \in RecType
          /\ AfterFailure(read[c], age[c]).state # "closed"
                => AfterFailure(read[c], age[c]).failures >= Threshold
      BY <2>1, <1>f, AfterFailureFacts
    <2> QED BY <2>2, <1>f DEF PausedWasEarned
  <1>1. CASE UNCHANGED vars
    BY <1>1 DEF Earned, TypeOK, PausedWasEarned, ReadEarned, vars
  <1>2. CASE Tick
    <2>1. rec' \in RecType
      <3>1. CASE rec.ttl = 1
        BY <3>1, <1>2, AbsentTyped DEF Tick
      <3>2. CASE rec.ttl # 1
        <4> DEFINE t == IF rec.ttl > 0 THEN rec.ttl - 1 ELSE rec.ttl
                   w == IF rec.state = "open" /\ rec.wait > -MaxAge THEN rec.wait - 1 ELSE rec.wait
        <4>1. rec' = [rec EXCEPT !.ttl = t, !.wait = w]
          BY <3>2, <1>2 DEF Tick
        <4>2. /\ rec.state \in Phase /\ rec.failures \in 0..MaxFailures
              /\ rec.wait \in (-MaxAge)..ResetMs /\ rec.ttl \in 0..RecordMs
          BY <1>t DEF RecType
        <4>3. t \in 0..RecordMs
          BY <4>2
        <4>4. w \in (-MaxAge)..ResetMs
          BY <4>2
        <4> HIDE DEF t, w
        <4> QED BY <4>1, <4>3, <4>4, <1>t DEF RecType
      <3> QED BY <3>1, <3>2
    <2>2. PausedWasEarned'
      BY <1>2, <1>t DEF Tick, PausedWasEarned, Absent, RecType
    <2>3. age' \in [Call -> 0..MaxAge]
      BY <1>2, <1>t DEF Tick
    <2>4. probe' \in 0..ProbeMs
      BY <1>2, <1>t DEF Tick
    <2>5. \A c \in Call : ReadEarned(c)'
      BY <1>2, <1>t DEF Tick, ReadEarned
    <2>6. UNCHANGED <<pc, read, probing>>
      BY <1>2 DEF Tick
    <2>7. TypeOK'
      BY <2>1, <2>3, <2>4, <2>6, <1>t DEF TypeOK, RecType, Step
    <2> QED BY <2>2, <2>5, <2>7 DEF Earned
  <1>3. ASSUME NEW c \in Call, Begin(c) \/ Deliver(c) \/ Succeeds(c) \/ Fails(c) PROVE Earned'
    <2>1. UNCHANGED <<rec, probe, age, read, probing>>
      BY <1>3 DEF Begin, Deliver, Succeeds, Fails
    <2>2. PICK s \in {"check", "http", "success", "failure"} : Goto(c, s)
      BY <1>3 DEF Begin, Deliver, Succeeds, Fails
    <2> QED BY <2>1, <2>2, <1>p, <1>t, MoveKeeps DEF Step
  <1>4. ASSUME NEW c \in Call, Check(c) PROVE Earned'
    <2>1. CASE rec.state = "closed"
      BY <2>1, <1>4, <1>p, <1>t, MoveKeeps DEF Check, Step
    <2>2. CASE rec.state # "closed" /\ Leave(c)
      BY <2>2, <1>4, <1>p, <1>t, LeaveKeeps DEF Check
    <2>3. CASE rec.state = "open" /\ ~BeforeReset(c)
      <3>1. /\ read' = [read EXCEPT ![c] = [state |-> rec.state, failures |-> rec.failures]]
            /\ pc' = [pc EXCEPT ![c] = "claim"] /\ UNCHANGED <<rec, probe, age, probing>>
        BY <2>3, <1>4 DEF Check, Goto
      <3>2. [state |-> rec.state, failures |-> rec.failures] \in [state : Phase, failures : 0..MaxFailures]
        BY <1>t DEF RecType
      <3>3. TypeOK'
        BY <3>1, <3>2, <1>t DEF TypeOK, RecType, Step
      <3>4. ASSUME NEW d \in Call PROVE ReadEarned(d)'
        BY <3>1, <3>2, <2>3, <1>t DEF ReadEarned, PausedWasEarned
      <3> QED BY <3>1, <3>3, <3>4, <1>p DEF Earned
    <2> QED BY <2>1, <2>2, <2>3, <1>4, <1>t DEF Check, RecType, Phase
  <1>5. ASSUME NEW c \in Call, Claim(c) PROVE Earned'
    <2>1. CASE probe # 0
      BY <2>1, <1>5, <1>p, <1>t, LeaveKeeps DEF Claim
    <2>2. CASE probe = 0
      <3>1. /\ probe' = ProbeMs /\ pc[c] = "claim" /\ pc' = [pc EXCEPT ![c] = "half"]
            /\ UNCHANGED <<rec, age, read, probing>>
        BY <2>2, <1>5 DEF Claim, Goto
      <3>2. TypeOK'
        BY <3>1, <1>t, <1>z DEF TypeOK, RecType, Step
      <3>3. ASSUME NEW d \in Call PROVE ReadEarned(d)'
        BY <3>1, <1>t DEF ReadEarned
      <3> QED BY <3>1, <3>2, <3>3, <1>p DEF Earned
    <2> QED BY <2>1, <2>2
  <1>6. ASSUME NEW c \in Call, SetHalfOpen(c) PROVE Earned'
    <2>1. probing' \in [Call -> BOOLEAN]
      BY <1>6, <1>t DEF SetHalfOpen
    <2> QED BY <2>1, <1>6, <1>h, <1>t, MoveKeeps DEF SetHalfOpen, Step
  <1>7. ASSUME NEW c \in Call, RateLimited(c) \/ NotCounted(c) \/ Crash(c) PROVE Earned'
    BY <1>7, <1>p, <1>t, LeaveKeeps DEF RateLimited, NotCounted, Crash
  <1>8. ASSUME NEW c \in Call, SetClosed(c) PROVE Earned'
    BY <1>8, <1>c, <1>t, MoveKeeps DEF SetClosed, Step
  <1>9. ASSUME NEW c \in Call, ReadPrevious(c) PROVE Earned'
    <2>1. /\ read' = [read EXCEPT ![c] = [state |-> rec.state, failures |-> rec.failures]]
          /\ pc' = [pc EXCEPT ![c] = "reopen"] /\ UNCHANGED <<rec, probe, age, probing>>
      BY <1>9 DEF ReadPrevious, Goto
    <2>2. [state |-> rec.state, failures |-> rec.failures] \in [state : Phase, failures : 0..MaxFailures]
      BY <1>t DEF RecType
    <2>3. TypeOK'
      BY <2>1, <2>2, <1>t DEF TypeOK, RecType, Step
    <2>4. ASSUME NEW d \in Call PROVE ReadEarned(d)'
      BY <2>1, <2>2, <1>t DEF ReadEarned, PausedWasEarned
    <2> QED BY <2>1, <2>3, <2>4, <1>p DEF Earned
  <1>10. ASSUME NEW c \in Call, SetFailure(c) PROVE Earned'
    BY <1>10, <1>f, <1>t, MoveKeeps DEF SetFailure, Step
  <1>11. ASSUME NEW c \in Call, Unlock(c) PROVE Earned'
    BY <1>11, <1>p, <1>z, LeaveKeeps DEF Unlock
  <1>12. ASSUME NEW c \in Call, CheckError(c) PROVE Earned'
    <2>1. probe' \in 0..ProbeMs
      BY <1>12, <1>t, <1>z DEF CheckError
    <2>2. rec' \in RecType /\ PausedWasEarned'
      <3>1. CASE UNCHANGED rec
        BY <3>1, <1>p
      <3>2. CASE pc[c] = "half" /\ rec' = HalfOpen(c)
        BY <3>2, <1>h
      <3> QED BY <3>1, <3>2, <1>12 DEF CheckError
    <2> QED BY <2>1, <2>2, <1>12, <1>t, MoveKeeps DEF CheckError, Step
  <1>13. ASSUME NEW c \in Call, RecordError(c) PROVE Earned'
    <2>1. probe' \in 0..ProbeMs
      BY <1>13, <1>t, <1>z DEF RecordError
    <2>2. rec' \in RecType /\ PausedWasEarned'
      <3>1. \/ UNCHANGED rec
            \/ rec' = Record("closed", 0, 0)
            \/ rec' = AfterFailure(read[c], age[c])
        BY <1>13 DEF RecordError
      <3>2. rec'.failures <= MaxFailures
        BY <1>13 DEF RecordError
      <3> QED BY <3>1, <3>2, <1>p, <1>c, <1>f
    <2> QED BY <2>1, <2>2, <1>13, LeaveKeeps DEF RecordError
  <1> QED
    BY <1>1, <1>2, <1>3, <1>4, <1>5, <1>6, <1>7, <1>8, <1>9, <1>10, <1>11, <1>12, <1>13
    DEF Next, Progress

\* The store's record and the calls under way always have their types.
THEOREM BreakerTypeCorrect == Spec => []TypeOK
  <1>1. Earned => TypeOK
    BY DEF Earned
  <1> QED BY <1>1, EarnedInit, EarnedStep, PTL DEF Spec

\* A circuit is open or half-open only with at least Threshold counted
\* failures, however the GETs and SETs of concurrent deliveries interleave.
THEOREM PausesAreEarned == Spec => []PausedWasEarned
  <1>1. Earned => PausedWasEarned
    BY DEF Earned
  <1> QED BY <1>1, EarnedInit, EarnedStep, PTL DEF Spec

----------------------------------------------------------------------------
(* The in-memory store                                                     *)

\* The policy leaves a call less than half of circuitBreakerResetMs.
Quick == MemoryMs > 2 * MaxAge

MemType ==
    /\ memRec \in [state : Phase, failures : Nat, wait : Int, ttl : Nat]
    /\ memPc \in [MemoryCall -> Step] /\ memAge \in [MemoryCall -> 0..MaxAge]
MemFlags == memProbing \in [MemoryCall -> BOOLEAN]

\* A call that is not under way is no probe and has just taken its time.
Over == \A c \in MemoryCall : memPc[c] = "idle" => memAge[c] = 0 /\ memProbing[c] = FALSE

OneProbe == \A c, d \in MemoryCall : memProbing[c] = TRUE /\ memProbing[d] = TRUE => c = d

\* A circuit that opens again while a probe is under way stays so beyond the
\* probe's life.
Outlasts ==
    \A c \in MemoryCall : memProbing[c] = TRUE /\ memRec.state = "open"
        => memRec.wait + memAge[c] > MaxAge

MemInv == MemType /\ MemFlags /\ Over /\ OneProbe /\ Outlasts

\* What recordFailure writes; an open record waits for more than MaxAge.
LEMMA MemAfterFailure ==
    ASSUME Quick, NEW p \in [state : Phase, failures : Nat, wait : Int, ttl : Nat],
           NEW t \in 0..MaxAge
    PROVE  LET r == Memory!AfterFailure(p, t) IN
           /\ r \in [state : Phase, failures : Nat, wait : Int, ttl : Nat]
           /\ r.state = "open" => r.wait > MaxAge
  <1> USE PolicyAssumption, MemoryAssumption
  <1> DEFINE f == IF p.state = "half-open" THEN p.failures ELSE p.failures + 1
  <1>1. f \in Nat /\ MemoryMs - t \in Int /\ MemoryMs - t > MaxAge /\ 2 * MemoryMs \in Nat
    BY DEF Quick
  <1>2. CASE p.state = "half-open" \/ f >= Threshold
    <2>1. Memory!AfterFailure(p, t) = Memory!Record("open", f, MemoryMs - t)
      BY <1>2 DEF Memory!AfterFailure, Memory!ResetAfter
    <2> HIDE DEF f
    <2> QED BY <1>1, <2>1 DEF Memory!Record, Phase
  <1>3. CASE ~(p.state = "half-open" \/ f >= Threshold)
    <2>1. Memory!AfterFailure(p, t) = Memory!Record("closed", f, 0)
      BY <1>3 DEF Memory!AfterFailure
    <2> HIDE DEF f
    <2> QED BY <1>1, <2>1 DEF Memory!Record, Phase
  <1> QED BY <1>2, <1>3

LEMMA MemRecord ==
    ASSUME NEW s \in Phase, NEW n \in Nat
    PROVE  /\ Memory!Record(s, n, 0) \in [state : Phase, failures : Nat, wait : Int, ttl : Nat]
           /\ Memory!Record(s, n, 0).state = s
  BY MemoryAssumption DEF Memory!Record

LEMMA FlagOff ==
    ASSUME NEW S, NEW f \in [S -> BOOLEAN], NEW c \in S, NEW g, g = [f EXCEPT ![c] = FALSE]
    PROVE  /\ g \in [S -> BOOLEAN] /\ g[c] = FALSE
           /\ \A d \in S : g[d] = TRUE => f[d] = TRUE /\ d # c
           /\ \A d \in S : f[d] = FALSE => g[d] = FALSE
  OBVIOUS

LEMMA FlagOn ==
    ASSUME NEW S, NEW f \in [S -> BOOLEAN], NEW c \in S, NEW g, g = [f EXCEPT ![c] = TRUE]
    PROVE  /\ g \in [S -> BOOLEAN] /\ g[c] = TRUE
           /\ \A d \in S \ {c} : g[d] = f[d]
  OBVIOUS

\* A call leaves: the record it wrote, if open, outlasts the probe.
LEMMA MemLeave ==
    ASSUME MemInv, NEW c \in MemoryCall, Memory!Leave(c),
           memRec' \in [state : Phase, failures : Nat, wait : Int, ttl : Nat],
           memRec' = memRec \/ (memRec'.state = "open" => memRec'.wait > MaxAge)
    PROVE  MemInv'
  <1> USE PolicyAssumption DEF MemInv, MemType, MemFlags
  <1>1. /\ memPc' = [memPc EXCEPT ![c] = "idle"] /\ memAge' = [memAge EXCEPT ![c] = 0]
        /\ memProbing' = [memProbing EXCEPT ![c] = FALSE]
    BY DEF Memory!Leave, Memory!Goto
  <1>2. MemType'
    BY <1>1 DEF Step
  <1>3. /\ MemFlags' /\ memProbing'[c] = FALSE
        /\ \A d \in MemoryCall : memProbing'[d] = TRUE => memProbing[d] = TRUE /\ d # c
        /\ \A d \in MemoryCall : memProbing[d] = FALSE => memProbing'[d] = FALSE
    BY <1>1, FlagOff
  <1>4. Over'
    BY <1>1, <1>3 DEF Over
  <1>5. OneProbe'
    BY <1>3 DEF OneProbe
  <1>6. Outlasts'
    BY <1>1, <1>3 DEF Outlasts
  <1> QED BY <1>2, <1>3, <1>4, <1>5, <1>6

LEMMA MemMove ==
    ASSUME MemInv, NEW c \in MemoryCall, NEW s \in Step \ {"idle"}, Memory!Goto(c, s),
           UNCHANGED <<memRec, memAge, memProbing>>
    PROVE  MemInv'
  <1> USE DEF MemInv, MemType, MemFlags
  <1>1. memPc' \in [MemoryCall -> Step] /\ \A d \in MemoryCall : memPc'[d] = "idle" => memPc[d] = "idle"
    BY DEF Memory!Goto
  <1>2. Over'
    BY <1>1 DEF Over
  <1> QED BY <1>1, <1>2 DEF OneProbe, Outlasts

LEMMA MemTickKeeps == MemInv /\ Memory!MemTick => MemInv'
  <1> SUFFICES ASSUME MemInv, Memory!MemTick PROVE MemInv'
    OBVIOUS
  <1> USE PolicyAssumption DEF MemInv, MemType, MemFlags, Memory!MemTick
  <1>1. UNCHANGED <<memPc, memProbing>>
    OBVIOUS
  <1>2. /\ memAge' \in [MemoryCall -> 0..MaxAge]
        /\ \A c \in MemoryCall : /\ memPc[c] = "idle" => memAge'[c] = 0
                                 /\ memPc[c] # "idle" => memAge'[c] = memAge[c] + 1
    OBVIOUS
  <1>3. /\ memRec' \in [state : Phase, failures : Nat, wait : Int, ttl : Nat]
        /\ memRec'.state = memRec.state /\ memRec'.wait >= memRec.wait - 1
    OBVIOUS
  <1>4. Over'
    BY <1>1, <1>2 DEF Over
  <1>5. Outlasts'
    <2> SUFFICES ASSUME NEW c \in MemoryCall, memProbing'[c] = TRUE, memRec'.state = "open"
                 PROVE  memRec'.wait + memAge'[c] > MaxAge
      BY DEF Outlasts
    <2>1. memProbing[c] = TRUE /\ memPc[c] # "idle"
      BY <1>1 DEF Over
    <2>2. memRec.wait + memAge[c] > MaxAge
      BY <1>3, <2>1 DEF Outlasts
    <2> QED BY <1>2, <1>3, <2>1, <2>2
  <1> QED BY <1>1, <1>2, <1>3, <1>4, <1>5 DEF OneProbe

LEMMA MemCheckKeeps == ASSUME MemInv, NEW c \in MemoryCall, Memory!MemCheck(c) PROVE MemInv'
  <1> USE PolicyAssumption DEF MemInv, MemType, MemFlags
  <1>1. CASE memRec.state = "closed" /\ UNCHANGED memRec /\ UNCHANGED memProbing
    BY <1>1, MemMove DEF Memory!MemCheck, Step
  <1>2. CASE /\ Memory!MayProbe(c) /\ memRec' = Memory!Record("half-open", memRec.failures, 0)
             /\ memProbing' = [memProbing EXCEPT ![c] = TRUE]
    <2>1. memPc[c] = "idle" /\ memPc' = [memPc EXCEPT ![c] = "gate"] /\ UNCHANGED memAge
      BY DEF Memory!MemCheck, Memory!Goto
    <2>2. memAge[c] = 0 /\ memProbing[c] = FALSE
      BY <2>1 DEF Over
    <2>3. memRec.state = "open" /\ memRec.wait <= 0
      BY <1>2, <2>2 DEF Memory!MayProbe, Memory!BeforeReset
    <2>4. ASSUME NEW d \in MemoryCall, memProbing[d] = TRUE PROVE FALSE
      <3>1. memRec.wait + memAge[d] > MaxAge
        BY <2>3, <2>4 DEF Outlasts
      <3>2. memAge[d] \in 0..MaxAge /\ memRec.wait \in Int
        OBVIOUS
      <3> QED BY <2>3, <3>1, <3>2
    <2>5. /\ memRec' \in [state : Phase, failures : Nat, wait : Int, ttl : Nat]
          /\ memRec'.state = "half-open"
      BY <1>2, MemRecord DEF Phase
    <2>6. MemFlags' /\ \A d \in MemoryCall \ {c} : memProbing'[d] = memProbing[d]
      BY <1>2, FlagOn
    <2>7. MemType'
      BY <2>1, <2>5 DEF Step
    <2>8. Over'
      BY <2>1, <2>6 DEF Over
    <2>9. OneProbe'
      BY <2>4, <2>6 DEF OneProbe
    <2>10. Outlasts'
      BY <2>5 DEF Outlasts
    <2> QED BY <2>6, <2>7, <2>8, <2>9, <2>10
  <1>3. \/ memRec.state = "closed" /\ UNCHANGED memRec /\ UNCHANGED memProbing
        \/ /\ Memory!MayProbe(c) /\ memRec' = Memory!Record("half-open", memRec.failures, 0)
           /\ memProbing' = [memProbing EXCEPT ![c] = TRUE]
    BY Zenon DEF Memory!MemCheck
  <1> QED BY <1>1, <1>2, <1>3

LEMMA MemStep == ASSUME Quick PROVE MemInv /\ [Memory!MemNext]_memVars => MemInv'
  <1> SUFFICES ASSUME MemInv, [Memory!MemNext]_memVars PROVE MemInv'
    OBVIOUS
  <1>1. ASSUME NEW c \in MemoryCall, Memory!MemProgress(c) PROVE MemInv'
    <2>1. CASE Memory!Deliver(c)
      BY <2>1, MemMove DEF Memory!Deliver, Step
    <2>2. CASE Memory!Succeeds(c)
      BY <2>2, MemMove DEF Memory!Succeeds, Step
    <2>3. CASE Memory!Fails(c)
      BY <2>3, MemMove DEF Memory!Fails, Step
    <2>4. CASE Memory!RateLimited(c) \/ Memory!NotCounted(c)
      BY <2>4, MemLeave DEF Memory!RateLimited, Memory!NotCounted, MemInv, MemType
    <2>5. CASE Memory!MemSuccess(c)
      <3>1. /\ Memory!Record("closed", 0, 0) \in [state : Phase, failures : Nat, wait : Int, ttl : Nat]
            /\ Memory!Record("closed", 0, 0).state = "closed"
        BY MemRecord DEF Phase
      <3> QED BY <2>5, <3>1, MemLeave DEF Memory!MemSuccess
    <2>6. CASE Memory!MemFailure(c)
      <3>1. memRec' = Memory!AfterFailure(memRec, memAge[c]) /\ Memory!Leave(c)
        BY <2>6 DEF Memory!MemFailure
      <3>2. /\ memRec \in [state : Phase, failures : Nat, wait : Int, ttl : Nat]
            /\ memAge[c] \in 0..MaxAge
        BY DEF MemInv, MemType
      <3>3. /\ memRec' \in [state : Phase, failures : Nat, wait : Int, ttl : Nat]
            /\ memRec'.state = "open" => memRec'.wait > MaxAge
        BY <3>1, <3>2, MemAfterFailure
      <3> QED BY <3>1, <3>3, MemLeave
    <2> QED BY <1>1, <2>1, <2>2, <2>3, <2>4, <2>5, <2>6 DEF Memory!MemProgress
  <1>2. CASE UNCHANGED memVars
    BY <1>2 DEF memVars, MemInv, MemType, MemFlags, Over, OneProbe, Outlasts
  <1>3. CASE Memory!MemNext
    BY <1>1, <1>3, MemTickKeeps, MemCheckKeeps DEF Memory!MemNext
  <1> QED BY <1>2, <1>3

LEMMA SameCardinality == ASSUME NEW S PROVE Memory!Cardinality(S) = Cardinality(S)
  BY DEF Memory!Cardinality, Cardinality

\* InMemoryWebhookCircuitBreakerStore admits one half-open probe at a time, however
\* many deliveries it is asked for and however late earlier ones report, provided a
\* delivery takes less than half of circuitBreakerResetMs: a late success or failure
\* deletes the reservation of a probe that is still under way.
THEOREM OneMemoryProbe == ASSUME Quick PROVE Memory!MemSpec => []MemoryAtMostOneProbe
  <1>1. Memory!Init => MemInv
    BY PolicyAssumption DEF Memory!Init, Memory!Absent, MemInv, MemType, MemFlags, Over,
       OneProbe, Outlasts, Step, Phase
  <1>2. MemInv /\ [Memory!MemNext]_memVars => MemInv'
    BY MemStep
  <1>3. MemInv => MemoryAtMostOneProbe
    <2> SUFFICES ASSUME MemInv PROVE MemoryAtMostOneProbe
      OBVIOUS
    <2> DEFINE P == {c \in MemoryCall : memProbing[c] /\ memPc[c] \in {"gate", "http"}}
    <2>1. \A c \in P : c \in MemoryCall /\ memProbing[c] = TRUE
      BY DEF MemInv, MemFlags
    <2>2. \A c, d \in P : c = d
      BY <2>1 DEF MemInv, OneProbe
    <2>3. P = {} \/ \E c : P = {c}
      BY <2>2
    <2>4. Cardinality(P) <= 1
      <3> HIDE DEF P
      <3>1. Cardinality(P) = 0 \/ Cardinality(P) = 1
        BY <2>3, FS_EmptySet, FS_Singleton
      <3> QED BY <3>1
    <2> QED BY <2>4, SameCardinality DEF MemoryAtMostOneProbe, Memory!AtMostOneProbe
  <1> QED BY <1>1, <1>2, <1>3, PTL DEF Memory!MemSpec, memVars, Memory!vars

----------------------------------------------------------------------------
(* The Stellar RPC client                                                  *)

Stage == {"idle", "reading", "running", "sure", "writing", "refused"}
Entry == [age : 0..(TtlMs + RedisMs), left : 1..TtlMs]
Order == [by : Caller \cup {Rpc!Refresh}, age : 0..RedisMs]

RpcType ==
    /\ circuit \in {"CLOSED", "OPEN", "HALF_OPEN"}
    /\ failures \in Seq(0..(WindowMs + 1)) /\ openFor \in 0..ResetTimeoutMs
    /\ cache = Rpc!Absent \/ cache \in Entry
    /\ sets \in Seq(Order) /\ stage \in [Caller \cup {Rpc!Refresh} -> Stage]
    /\ earned \in 0..FailureThreshold

\* The failures in the window are among those since the last success.
WindowEarned == Len(failures) <= earned \/ earned = FailureThreshold

\* The SET took at most RedisMs, and Redis drops the entry after TtlMs.
Lifetime == cache # Rpc!Absent => cache.age + cache.left <= TtlMs + RedisMs

RpcInv == RpcType /\ WindowEarned /\ Rpc!OpenWasEarned /\ Lifetime
Fresh == outdated = FALSE
Recovers == recovered \in BOOLEAN

LEMMA RpcConstants ==
    /\ WindowMs \in Nat /\ ResetTimeoutMs \in Nat /\ MaxAgeMs \in Nat /\ RedisMs \in Nat
    /\ FailureThreshold \in Nat \ {0} /\ TtlMs \in Nat \ {0} /\ Rpc!Refresh \notin Caller
  BY RpcAssumption DEF Rpc!Refresh

LEMMA SameCount == ASSUME NEW S PROVE Rpc!Cardinality(S) = Cardinality(S)
  BY DEF Rpc!Cardinality, Cardinality

\* evictOldFailures drops failures and changes none.
LEMMA EvictFacts ==
    ASSUME RpcType
    PROVE  /\ Rpc!evictOldFailures \in Seq(0..(WindowMs + 1))
           /\ Len(Rpc!evictOldFailures) <= Len(failures)
  <1> DEFINE old == {i \in DOMAIN failures : failures[i] > WindowMs}
  <1>1. failures \in Seq(0..(WindowMs + 1)) /\ DOMAIN failures = 1..Len(failures) /\ Len(failures) \in Nat
    BY DEF RpcType
  <1>2. Cardinality(old) \in Nat
    <2>1. IsFiniteSet(1..Len(failures))
      BY <1>1, FS_Interval
    <2>2. IsFiniteSet(old)
      BY <1>1, <2>1, FS_Subset
    <2> QED BY <2>2, FS_CardinalityType
  <1>3. Rpc!evictOldFailures = SubSeq(failures, Cardinality(old) + 1, Len(failures))
    BY SameCount DEF Rpc!evictOldFailures
  <1> HIDE DEF old
  <1>4. ASSUME NEW m \in Nat
        PROVE  /\ SubSeq(failures, m + 1, Len(failures)) \in Seq(0..(WindowMs + 1))
               /\ Len(SubSeq(failures, m + 1, Len(failures))) <= Len(failures)
    <2>1. \A i \in (m + 1)..Len(failures) : failures[i] \in 0..(WindowMs + 1)
      <3> TAKE i \in (m + 1)..Len(failures)
      <3>1. i \in 1..Len(failures)
        BY <1>1
      <3> QED BY <1>1, <3>1, ElementOfSeq
    <2> QED BY <1>1, <2>1, SubSeqProperties
  <1> QED BY <1>2, <1>3, <1>4

\* The head of a call: stage' is `waiting', or `before' with the call under way.
LEMMA EnterKeeps ==
    ASSUME RpcInv, NEW c \in Caller \cup {Rpc!Refresh},
           NEW before \in [Caller \cup {Rpc!Refresh} -> Stage],
           NEW waiting \in [Caller \cup {Rpc!Refresh} -> Stage],
           Rpc!Enter(c, before, waiting), UNCHANGED <<openFor, cache, sets, earned>>
    PROVE  RpcInv'
  <1> USE DEF RpcInv, RpcType
  <1>1. failures' = Rpc!evictOldFailures
    BY DEF Rpc!Enter
  <1>2. failures' \in Seq(0..(WindowMs + 1)) /\ Len(failures') <= Len(failures)
    BY <1>1, EvictFacts
  <1>3. /\ circuit' \in {"CLOSED", "OPEN", "HALF_OPEN"}
        /\ circuit' = "OPEN" => circuit = "OPEN"
    BY DEF Rpc!Enter
  <1>4. stage' \in [Caller \cup {Rpc!Refresh} -> Stage]
    <2>1. \/ stage' = waiting
          \/ \E s \in {"sure", "running"} : stage' = [before EXCEPT ![c] = s]
      BY DEF Rpc!Enter
    <2> QED BY <2>1 DEF Stage
  <1>5. WindowEarned' /\ Rpc!OpenWasEarned'
    BY <1>2, <1>3, RpcConstants DEF WindowEarned, Rpc!OpenWasEarned
  <1> QED BY <1>2, <1>3, <1>4, <1>5 DEF Lifetime

LEMMA ToTyped ==
    ASSUME RpcType, NEW c \in Caller \cup {Rpc!Refresh}, NEW s \in Stage
    PROVE  Rpc!At(c, s) \in [Caller \cup {Rpc!Refresh} -> Stage]
  BY DEF RpcType, Rpc!At

LEMMA CallKeeps ==
    ASSUME RpcInv, NEW c \in Caller,
           Rpc!CallWithFallbackCache(c) \/ Rpc!Miss(c) \/ Rpc!Hit(c) \/ Rpc!FallBack(c)
    PROVE  RpcInv'
  <1> USE DEF RpcInv, RpcType
  <1>1. UNCHANGED <<openFor, cache, sets, earned>>
    BY DEF Rpc!CallWithFallbackCache, Rpc!Miss, Rpc!Hit, Rpc!FallBack
  <1>2. /\ Rpc!At(c, "idle") \in [Caller \cup {Rpc!Refresh} -> Stage]
        /\ Rpc!At(c, "reading") \in [Caller \cup {Rpc!Refresh} -> Stage]
        /\ Rpc!At(c, "refused") \in [Caller \cup {Rpc!Refresh} -> Stage]
    BY ToTyped DEF Stage
  <1>3. \/ /\ stage' \in {Rpc!At(c, "idle"), Rpc!At(c, "reading")}
           /\ UNCHANGED <<circuit, failures>>
        \/ Rpc!Enter(c, stage, Rpc!At(c, "refused"))
        \/ Rpc!Enter(Rpc!Refresh, Rpc!At(c, "idle"), Rpc!At(c, "idle"))
    BY Zenon DEF Rpc!CallWithFallbackCache, Rpc!Miss, Rpc!Hit, Rpc!FallBack, Rpc!To
  <1>4. CASE /\ stage' \in {Rpc!At(c, "idle"), Rpc!At(c, "reading")}
             /\ UNCHANGED <<circuit, failures>>
    BY <1>1, <1>2, <1>4 DEF WindowEarned, Rpc!OpenWasEarned, Lifetime
  <1>5. CASE Rpc!Enter(c, stage, Rpc!At(c, "refused"))
    BY <1>1, <1>2, <1>5, EnterKeeps
  <1>6. CASE Rpc!Enter(Rpc!Refresh, Rpc!At(c, "idle"), Rpc!At(c, "idle"))
    BY <1>1, <1>2, <1>6, EnterKeeps
  <1> QED BY <1>3, <1>4, <1>5, <1>6

LEMMA ProceedKeeps ==
    ASSUME RpcInv, NEW c \in Caller \cup {Rpc!Refresh}, Rpc!Proceed(c)
    PROVE  RpcInv'
  <1> USE RpcConstants DEF RpcInv, RpcType
  <1>1. CASE Rpc!Succeed(c)
    <2>1. /\ failures' = <<>> /\ circuit' = "CLOSED" /\ earned' = 0
          /\ sets' = Append(sets, [by |-> c, age |-> 0]) /\ stage' = Rpc!At(c, "writing")
          /\ UNCHANGED <<openFor, cache>>
      BY <1>1 DEF Rpc!Succeed, Rpc!AfterSuccess, Rpc!To
    <2>2. sets' \in Seq(Order)
      BY <2>1 DEF Order
    <2>3. stage' \in [Caller \cup {Rpc!Refresh} -> Stage]
      BY <2>1, ToTyped DEF Stage
    <2> QED BY <2>1, <2>2, <2>3 DEF WindowEarned, Rpc!OpenWasEarned, Lifetime
  <1>2. CASE Rpc!Fail(c)
    <2>1. /\ failures' = Append(failures, 0) /\ stage' = Rpc!At(c, "idle")
          /\ earned' = IF earned < FailureThreshold THEN earned + 1 ELSE earned
          /\ UNCHANGED <<cache, sets>>
      BY <1>2 DEF Rpc!Fail, Rpc!To
    <2>2. failures' \in Seq(0..(WindowMs + 1)) /\ Len(failures') = Len(failures) + 1 /\ Len(failures) \in Nat
      BY <2>1
    <2>3. stage' \in [Caller \cup {Rpc!Refresh} -> Stage]
      BY <2>1, ToTyped DEF Stage
    <2>4. WindowEarned' /\ earned' \in 0..FailureThreshold
      BY <2>1, <2>2 DEF WindowEarned
    <2>5. /\ circuit' \in {"CLOSED", "OPEN", "HALF_OPEN"} /\ openFor' \in 0..ResetTimeoutMs
          /\ Rpc!OpenWasEarned'
      <3>1. CASE Rpc!Trips
        <4>1. circuit' = "OPEN" /\ openFor' = 0
          BY <1>2, <3>1 DEF Rpc!Fail
        <4>2. earned' = FailureThreshold
          BY <2>1, <2>2, <3>1 DEF WindowEarned, Rpc!Trips
        <4> QED BY <4>1, <4>2 DEF Rpc!OpenWasEarned
      <3>2. CASE ~Rpc!Trips
        <4>1. UNCHANGED <<circuit, openFor>>
          BY <1>2, <3>2 DEF Rpc!Fail
        <4> QED BY <2>1, <4>1 DEF Rpc!OpenWasEarned
      <3> QED BY <3>1, <3>2
    <2> QED BY <2>1, <2>2, <2>3, <2>4, <2>5 DEF Lifetime
  <1> QED BY <1>1, <1>2 DEF Rpc!Proceed

LEMMA WrittenKeeps == RpcInv /\ Rpc!Written => RpcInv'
  <1> SUFFICES ASSUME RpcInv, Rpc!Written PROVE RpcInv'
    OBVIOUS
  <1> USE RpcConstants DEF RpcInv, RpcType
  <1>1. /\ sets # <<>> /\ sets' = Tail(sets) /\ UNCHANGED <<circuit, failures, openFor, earned>>
        /\ stage' = Rpc!At(Head(sets).by, "idle")
        /\ cache' = cache \/ cache' = [age |-> Head(sets).age, left |-> TtlMs]
    BY DEF Rpc!Written, Rpc!To, Rpc!ExpiresIn
  <1>2. Head(sets) \in Order /\ sets' \in Seq(Order)
    BY <1>1, HeadTailProperties
  <1>3. Head(sets).by \in Caller \cup {Rpc!Refresh} /\ Head(sets).age \in 0..RedisMs
    BY <1>2 DEF Order
  <1>4. stage' \in [Caller \cup {Rpc!Refresh} -> Stage]
    BY <1>1, <1>3, ToTyped DEF Stage
  <1>5. (cache = Rpc!Absent \/ cache \in Entry)' /\ Lifetime'
    <2>1. ASSUME NEW a \in 0..RedisMs, cache' = [age |-> a, left |-> TtlMs]
          PROVE  cache' \in Entry /\ Lifetime'
      BY <2>1 DEF Entry, Lifetime
    <2>2. CASE cache' = cache
      BY <2>2 DEF Lifetime
    <2> QED BY <1>1, <1>3, <2>1, <2>2
  <1> QED BY <1>1, <1>2, <1>4, <1>5 DEF WindowEarned, Rpc!OpenWasEarned

LEMMA RpcTickKeeps == RpcInv /\ Rpc!Tick => RpcInv'
  <1> SUFFICES ASSUME RpcInv, Rpc!Tick PROVE RpcInv'
    OBVIOUS
  <1> USE RpcConstants DEF RpcInv, RpcType
  <1>1. UNCHANGED <<circuit, stage, earned>> /\ openFor' = Rpc!Older(openFor, ResetTimeoutMs)
    BY DEF Rpc!Tick
  <1>2. openFor' \in 0..ResetTimeoutMs
    BY <1>1 DEF Rpc!Older
  <1>3. failures' \in Seq(0..(WindowMs + 1)) /\ Len(failures') = Len(failures)
    <2>1. failures' = [i \in 1..Len(failures) |-> Rpc!Older(failures[i], WindowMs + 1)]
      BY DEF Rpc!Tick
    <2>2. \A i \in 1..Len(failures) : Rpc!Older(failures[i], WindowMs + 1) \in 0..(WindowMs + 1)
      BY DEF Rpc!Older
    <2>3. Len(failures) \in Nat
      OBVIOUS
    <2> QED BY <2>1, <2>2, <2>3
  <1>4. sets' \in Seq(Order)
    <2>1. sets' = [i \in 1..Len(sets) |-> [sets[i] EXCEPT !.age = @ + 1]]
      BY DEF Rpc!Tick
    <2>2. \A i \in 1..Len(sets) : [sets[i] EXCEPT !.age = @ + 1] \in Order
      <3> TAKE i \in 1..Len(sets)
      <3>1. sets[i] \in Order /\ sets[i].age < RedisMs
        BY DEF Rpc!Tick
      <3>2. sets[i].age + 1 \in 0..RedisMs
        BY <3>1 DEF Order
      <3> QED BY <3>1, <3>2 DEF Order
    <2>3. Len(sets) \in Nat
      OBVIOUS
    <2>4. sets' \in [1..Len(sets) -> Order]
      BY <2>1, <2>2
    <2>5. sets' \in UNION {[1..n -> Order] : n \in Nat}
      BY <2>3, <2>4, Zenon
    <2> QED BY <2>5, SeqDef, Zenon
  <1>5. (cache = Rpc!Absent \/ cache \in Entry)' /\ Lifetime'
    <2>1. CASE cache.left <= 1
      BY <2>1 DEF Rpc!Tick, Lifetime, Rpc!Absent
    <2>2. CASE ~(cache.left <= 1)
      <3>1. cache \in Entry /\ cache # Rpc!Absent
        BY <2>2 DEF Rpc!Absent
      <3>2. /\ cache.age \in 0..(TtlMs + RedisMs) /\ cache.left \in 2..TtlMs
            /\ cache.age + cache.left <= TtlMs + RedisMs
        BY <2>2, <3>1 DEF Entry, Lifetime
      <3>3. cache' = [age |-> cache.age + 1, left |-> cache.left - 1]
        BY <2>2 DEF Rpc!Tick
      <3> QED BY <3>2, <3>3, SMTT(30) DEF Entry, Lifetime
    <2> QED BY <2>1, <2>2
  <1> QED BY <1>1, <1>2, <1>3, <1>4, <1>5 DEF WindowEarned, Rpc!OpenWasEarned

LEMMA RpcStep == RpcInv /\ [Rpc!Next]_rpcVars => RpcInv'
  <1> SUFFICES ASSUME RpcInv, [Rpc!Next]_rpcVars PROVE RpcInv'
    OBVIOUS
  <1>1. CASE UNCHANGED rpcVars \/ Rpc!Recover
    <2>1. UNCHANGED <<circuit, failures, openFor, cache, sets, stage, earned>>
      BY <1>1, Zenon DEF rpcVars, Rpc!Recover
    <2> QED BY <2>1 DEF RpcInv, RpcType, WindowEarned, Rpc!OpenWasEarned, Lifetime
  <1>2. CASE Rpc!Next
    BY <1>1, <1>2, CallKeeps, ProceedKeeps, WrittenKeeps, RpcTickKeeps DEF Rpc!Next
  <1> QED BY <1>1, <1>2

\* No step hands out an entry that is too old.
LEMMA FreshStep == RpcInv /\ Fresh /\ [Rpc!Next]_rpcVars => Fresh'
  <1> SUFFICES ASSUME RpcInv, Fresh, [Rpc!Next]_rpcVars PROVE Fresh'
    OBVIOUS
  <1>1. \/ UNCHANGED outdated
        \/ cache # Rpc!Absent /\ Rpc!Given(TtlMs + RedisMs - 1)
        \/ cache # Rpc!Absent /\ Rpc!YoungEnough /\ Rpc!Given(MaxAgeMs)
    BY Zenon DEF rpcVars, Rpc!Next, Rpc!CallWithFallbackCache, Rpc!Miss, Rpc!Hit, Rpc!FallBack,
       Rpc!Proceed, Rpc!Succeed, Rpc!Fail, Rpc!Written, Rpc!Tick, Rpc!Recover
  <1>2. CASE cache # Rpc!Absent /\ Rpc!Given(TtlMs + RedisMs - 1)
    <2>1. ~(cache.age > TtlMs + RedisMs - 1)
      BY <1>2, RpcConstants DEF RpcInv, RpcType, Lifetime, Entry
    <2> QED BY <1>2, <2>1 DEF Rpc!Given, Fresh
  <1>3. CASE cache # Rpc!Absent /\ Rpc!YoungEnough /\ Rpc!Given(MaxAgeMs)
    <2>1. ~(cache.age > MaxAgeMs)
      BY <1>3, RpcConstants DEF RpcInv, RpcType, Entry, Rpc!YoungEnough
    <2> QED BY <1>3, <2>1 DEF Rpc!Given, Fresh
  <1> QED BY <1>1, <1>2, <1>3 DEF Fresh

LEMMA RecoveredStep == Recovers /\ [Rpc!Next]_rpcVars => Recovers'
  <1> SUFFICES ASSUME Recovers, [Rpc!Next]_rpcVars PROVE Recovers'
    OBVIOUS
  <1>1. recovered' = recovered \/ recovered' = TRUE
    BY Zenon DEF rpcVars, Rpc!Next, Rpc!CallWithFallbackCache, Rpc!Miss, Rpc!Hit, Rpc!FallBack,
       Rpc!Proceed, Rpc!Succeed, Rpc!Fail, Rpc!Written, Rpc!Tick, Rpc!Recover
  <1> QED BY <1>1, Zenon DEF Recovers

\* The Stellar RPC client's breaker is open only after failureThreshold failures
\* without a success among them, although calls overlap and report late, and no
\* caller is given a cached answer older than the limit of its path, for every
\* number of callers and every setting of the thresholds and lifetimes.
THEOREM FallbacksAreJustified == Rpc!Spec => []FallbackJustified
  <1>1. Rpc!Init => RpcInv /\ Fresh /\ Recovers
    <2> SUFFICES ASSUME Rpc!Init PROVE RpcInv /\ Fresh /\ Recovers
      OBVIOUS
    <2>1. Fresh /\ Recovers
      BY DEF Rpc!Init, Fresh, Recovers
    <2>2. RpcInv
      BY RpcConstants DEF Rpc!Init, RpcInv, RpcType, Stage, WindowEarned, Rpc!OpenWasEarned, Lifetime
    <2> QED BY <2>1, <2>2
  <1>2. RpcInv /\ Fresh /\ Recovers /\ [Rpc!Next]_rpcVars
            => RpcInv' /\ Fresh' /\ Recovers'
    BY RpcStep, FreshStep, RecoveredStep
  <1>3. RpcInv /\ Fresh /\ Recovers => FallbackJustified
    <2> SUFFICES ASSUME RpcInv, Fresh, Recovers PROVE FallbackJustified
      OBVIOUS
    <2>1. Rpc!AnswersRecent /\ {outdated, recovered} \subseteq BOOLEAN
      BY DEF Fresh, Recovers, Rpc!AnswersRecent
    <2>2. \A i \in DOMAIN failures : failures[i] \in 0..(WindowMs + 1)
      <3>1. failures \in Seq(0..(WindowMs + 1))
        BY DEF RpcInv, RpcType
      <3>2. DOMAIN failures = 1..Len(failures)
        BY <3>1
      <3>3. \A i \in 1..Len(failures) : failures[i] \in 0..(WindowMs + 1)
        BY <3>1, ElementOfSeq
      <3> QED BY <3>2, <3>3, Zenon
    <2>3. \A i \in DOMAIN sets : sets[i].by \in Caller \cup {Rpc!Refresh} /\ sets[i].age \in 0..RedisMs
      <3>1. \A i \in DOMAIN sets : sets[i] \in Order
        BY DEF RpcInv, RpcType
      <3> QED BY <3>1 DEF Order
    <2>4. cache = Rpc!Absent \/ (cache.age \in 0..(TtlMs + RedisMs) /\ cache.left \in 1..TtlMs)
      BY DEF RpcInv, RpcType, Entry
    <2>5. Rpc!RpcTypeOK
      BY <2>1, <2>2, <2>3, <2>4 DEF RpcInv, RpcType, Stage, Rpc!RpcTypeOK
    <2> QED BY <2>1, <2>5 DEF RpcInv, FallbackJustified, Rpc!FallbackJustified
  <1> QED BY <1>1, <1>2, <1>3, PTL DEF Rpc!Spec, rpcVars, Rpc!rpcVars
============================================================================

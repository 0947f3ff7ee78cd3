----------------------------- MODULE JobsProofs ----------------------------
(***************************************************************************)
(* Proofs about the process and its background work, for any number of     *)
(* workers, batches, rows, jobs, connections and failures.                 *)
(***************************************************************************)
EXTENDS MCJobs, FiniteSetTheorems, SequenceTheorems, WellFoundedInduction, TLAPS

----------------------------------------------------------------------------
(* runBackfill                                                             *)

Working == {"handle", "commit", "backoff"}

\* The checkpoint covers only handled batches: so does status, and a worker that
\* is busy with a batch has claimed one.
OrderInv ==
    /\ NumBatches \in Nat
    /\ pc \in [Worker -> {"top", "reading", "paused", "claim", "handle", "commit", "backoff", "out"}]
    /\ pos \in [Worker -> 0..NumBatches]
    /\ status \in [Batch -> {"pending", "done", "failed"}]
    /\ checkpoint \in 0..NumBatches /\ next \in Nat \ {0}
    /\ handled \subseteq Batch
    /\ \A w \in Worker : pc[w] \in Working => pos[w] \in Batch
    /\ \A b \in Batch : status[b] = "done" => b \in handled
    /\ 1..checkpoint \subseteq handled

LEMMA OrderInit == Init => OrderInv
  BY BackfillAssumption DEF Init, OrderInv, Batch, Working

\* A step of one worker, or of the gate, that leaves batches and checkpoint alone
\* and gives no worker a batch.
LEMMA MoveKeepsOrder ==
    ASSUME OrderInv, UNCHANGED <<pos, status, checkpoint, next, handled>>,
           pc' \in [Worker -> {"top", "reading", "paused", "claim", "handle", "commit", "backoff", "out"}],
           \A w \in Worker : pc'[w] \in Working => pc[w] \in Working
    PROVE  OrderInv'
  BY DEF OrderInv, Batch

\* What the loop of commit reaches is handled.
LEMMA AdvanceOverHandled ==
    ASSUME OrderInv, NEW b \in Batch, handled' = handled \cup {b},
           status' = [status EXCEPT ![b] = "done"],
           checkpoint' \in checkpoint..NumBatches, Advances(checkpoint, status', checkpoint')
    PROVE  /\ checkpoint' \in 0..NumBatches
           /\ handled' \subseteq Batch
           /\ \A c \in Batch : status'[c] = "done" => c \in handled'
           /\ 1..checkpoint' \subseteq handled'
  <1>1. checkpoint' \in 0..NumBatches /\ handled' \subseteq Batch
    BY DEF OrderInv, Batch
  <1>2. \A c \in Batch : status'[c] = "done" => c \in handled'
    BY DEF OrderInv
  <1>3. ASSUME NEW c \in 1..checkpoint' PROVE c \in handled'
    <2>1. CASE c \in 1..checkpoint
      BY <2>1 DEF OrderInv
    <2>2. CASE c \notin 1..checkpoint
      <3>1. c \in (checkpoint + 1)..checkpoint' /\ c \in Batch
        BY <1>1, <2>2 DEF OrderInv, Batch
      <3>2. status'[c] = "done"
        BY <3>1 DEF Advances
      <3> QED BY <1>2, <3>1, <3>2
    <2> QED BY <2>1, <2>2
  <1> QED BY <1>1, <1>2, <1>3

LEMMA HandledKeepsOrder ==
    ASSUME OrderInv, NEW w \in Worker, Handled(w)
    PROVE  OrderInv'
  <1>1. pos[w] \in Batch
    BY DEF OrderInv, Handled, Working
  <1>2. /\ checkpoint' \in 0..NumBatches
        /\ handled' \subseteq Batch
        /\ \A c \in Batch : status'[c] = "done" => c \in handled'
        /\ 1..checkpoint' \subseteq handled'
    BY <1>1, AdvanceOverHandled DEF Handled
  <1>3. /\ status' \in [Batch -> {"pending", "done", "failed"}]
        /\ UNCHANGED <<pos, next>>
    BY <1>1 DEF OrderInv, Handled
  <1>4. /\ pc' \in [Worker -> {"top", "reading", "paused", "claim", "handle", "commit", "backoff", "out"}]
        /\ \A v \in Worker : pc'[v] \in Working => pc[v] \in Working
    BY DEF OrderInv, Handled, Go, Working
  <1> QED BY <1>2, <1>3, <1>4 DEF OrderInv, Batch

LEMMA OrderStep == OrderInv /\ [Next]_backfillVars => OrderInv'
  <1> SUFFICES ASSUME OrderInv, [Next]_backfillVars PROVE OrderInv'
    OBVIOUS
  <1>1. ASSUME NEW w \in Worker, Loop(w) PROVE OrderInv'
    <2>1. UNCHANGED <<pos, status, checkpoint, next, handled>>
      BY <1>1 DEF Loop
    <2>2. /\ pc' \in [Worker -> {"top", "reading", "paused", "claim", "handle", "commit", "backoff", "out"}]
          /\ \A v \in Worker : pc'[v] \in Working => pc[v] \in Working
      BY <1>1 DEF OrderInv, Loop, Go, Working
    <2> QED BY <2>1, <2>2, MoveKeepsOrder
  <1>2. ASSUME NEW w \in Worker, LagRead(w) PROVE OrderInv'
    <2>1. UNCHANGED <<pos, status, checkpoint, next, handled>>
      BY <1>2 DEF LagRead
    <2>2. /\ pc' \in [Worker -> {"top", "reading", "paused", "claim", "handle", "commit", "backoff", "out"}]
          /\ \A v \in Worker : pc'[v] \in Working => pc[v] \in Working
      BY <1>2 DEF OrderInv, LagRead, Go, Working
    <2> QED BY <2>1, <2>2, MoveKeepsOrder
  <1>3. ASSUME NEW w \in Worker, Claim(w) PROVE OrderInv'
    <2>1. CASE pos' = pos
      <3>1. UNCHANGED <<status, checkpoint, handled>> /\ next' \in Nat \ {0}
        BY <1>3 DEF Claim, OrderInv
      <3>2. CASE pc' = [pc EXCEPT ![w] = "out"]
        BY <2>1, <3>1, <3>2 DEF OrderInv, Batch, Working
      <3>3. CASE pc' = [pc EXCEPT ![w] = "handle"]
        <4>1. pos' = [pos EXCEPT ![w] = next] /\ next \in Batch
          BY <1>3, <3>3 DEF Claim, OrderInv, Go, Batch
        <4>2. pos[w] \in Batch
          BY <2>1, <4>1 DEF OrderInv
        <4> QED BY <2>1, <3>1, <3>3, <4>2 DEF OrderInv, Batch, Working
      <3> QED BY <1>3, <3>2, <3>3 DEF Claim, Go
    <2>2. CASE pos' # pos
      <3>1. /\ pos' = [pos EXCEPT ![w] = next] /\ next \in Batch
            /\ pc' = [pc EXCEPT ![w] = "handle"]
        BY <1>3, <2>2 DEF Claim, OrderInv, Go, Batch
      <3>2. UNCHANGED <<status, checkpoint, handled>> /\ next' \in Nat \ {0}
        BY <1>3 DEF Claim, OrderInv
      <3>3. pos' \in [Worker -> 0..NumBatches] /\ \A v \in Worker : pc'[v] \in Working => pos'[v] \in Batch
        BY <3>1 DEF OrderInv, Batch, Working
      <3> QED BY <3>1, <3>2, <3>3 DEF OrderInv, Batch
    <2> QED BY <2>1, <2>2
  <1>4. ASSUME NEW w \in Worker, Handled(w) PROVE OrderInv'
    BY <1>4, HandledKeepsOrder
  <1>5. ASSUME NEW w \in Worker, Persisted(w) PROVE OrderInv'
    <2>1. UNCHANGED <<pos, status, checkpoint, next, handled>>
      BY <1>5 DEF Persisted
    <2>2. /\ pc' \in [Worker -> {"top", "reading", "paused", "claim", "handle", "commit", "backoff", "out"}]
          /\ \A v \in Worker : pc'[v] \in Working => pc[v] \in Working
      BY <1>5 DEF OrderInv, Persisted, Go, Working
    <2> QED BY <2>1, <2>2, MoveKeepsOrder
  <1>6. ASSUME NEW w \in Worker, Rejected(w) PROVE OrderInv'
    <2>1. UNCHANGED <<pos, checkpoint, next, handled>> /\ pc[w] \in Working
      BY <1>6 DEF Rejected, Working
    <2>2. /\ pc' \in [Worker -> {"top", "reading", "paused", "claim", "handle", "commit", "backoff", "out"}]
          /\ \A v \in Worker : pc'[v] \in Working => pc[v] \in Working
      BY <1>6, <2>1 DEF OrderInv, Rejected, Go, Working
    <2>3. status' = status \/ status' = [status EXCEPT ![pos[w]] = "failed"]
      BY <1>6 DEF Rejected
    <2>4. /\ status' \in [Batch -> {"pending", "done", "failed"}]
          /\ \A b \in Batch : status'[b] = "done" => b \in handled'
      BY <2>1, <2>3 DEF OrderInv
    <2> QED BY <2>1, <2>2, <2>4 DEF OrderInv, Batch
  <1>7. ASSUME NEW w \in Worker, BackoffOver(w) PROVE OrderInv'
    <2>1. UNCHANGED <<pos, status, checkpoint, next, handled>>
      BY <1>7 DEF BackoffOver
    <2>2. /\ pc' \in [Worker -> {"top", "reading", "paused", "claim", "handle", "commit", "backoff", "out"}]
          /\ \A v \in Worker : pc'[v] \in Working => pc[v] \in Working
      BY <1>7 DEF OrderInv, BackoffOver, Go, Working
    <2> QED BY <2>1, <2>2, MoveKeepsOrder
  <1>8. CASE Resume \/ LagUnread
    <2>1. UNCHANGED <<pos, status, checkpoint, next, handled>>
      BY <1>8 DEF Resume, LagUnread, EndPause
    <2>2. /\ pc' \in [Worker -> {"top", "reading", "paused", "claim", "handle", "commit", "backoff", "out"}]
          /\ \A v \in Worker : pc'[v] \in Working => pc[v] \in Working
      BY <1>8 DEF OrderInv, Resume, LagUnread, EndPause, Working
    <2> QED BY <2>1, <2>2, MoveKeepsOrder
  <1>9. CASE Abort \/ LagChanges \/ UNCHANGED backfillVars
    <2>1. UNCHANGED <<pc, pos, status, checkpoint, next, handled>>
      BY <1>9 DEF Abort, LagChanges, backfillVars
    <2> QED BY <2>1 DEF OrderInv, Batch
  <1> QED
    BY <1>1, <1>2, <1>3, <1>4, <1>5, <1>6, <1>7, <1>8, <1>9 DEF Next, WorkerStep

----------------------------------------------------------------------------
(* Refinement                                                              *)

LEMMA OrderProgress ==
    OrderInv /\ OrderInv' /\ [Next]_backfillVars => [Ordered!Progress]_<<handled, checkpoint>>
  <1> SUFFICES ASSUME OrderInv, OrderInv', [Next]_backfillVars
               PROVE  [Ordered!Progress]_<<handled, checkpoint>>
    OBVIOUS
  <1>1. ASSUME NEW w \in Worker, Handled(w) PROVE Ordered!Progress
    <2>1. handled \subseteq handled' /\ checkpoint' \in checkpoint..NumBatches
      BY <1>1 DEF Handled
    <2>2. handled' \subseteq 1..NumBatches /\ 1..checkpoint' \subseteq handled'
      BY DEF OrderInv, Batch
    <2> QED BY <2>1, <2>2 DEF Ordered!Progress
  <1>2. ASSUME NEW w \in Worker,
               Loop(w) \/ LagRead(w) \/ Claim(w) \/ Persisted(w) \/ Rejected(w) \/ BackoffOver(w)
        PROVE  UNCHANGED <<handled, checkpoint>>
    BY <1>2 DEF Loop, LagRead, Claim, Persisted, Rejected, BackoffOver
  <1>3. CASE Resume \/ LagUnread \/ Abort \/ LagChanges \/ UNCHANGED backfillVars
    BY <1>3 DEF Resume, LagUnread, EndPause, Abort, LagChanges, backfillVars
  <1> QED
    BY <1>1, <1>2, <1>3 DEF Next, WorkerStep

\* runBackfill implements OrderedBackfill for every number of workers, batches
\* and attempts: the checkpoint moves forward only, over handled batches only.
THEOREM BackfillKeepsOrder == Spec => KeepsOrder
  <1>1. Init => Ordered!Init
    BY DEF Init, Ordered!Init
  <1> QED
    BY <1>1, OrderInit, OrderStep, OrderProgress, PTL DEF Spec, KeepsOrder, Ordered!Spec

----------------------------------------------------------------------------
(* The gate                                                                *)

\* OneGate by cases.
GateInv ==
    /\ gate \in BOOLEAN /\ yields \in Nat /\ resumes \in Nat
    /\ gate => yields = resumes + 1
    /\ ~gate => yields = resumes

LEMMA GateStep == GateInv /\ [Next]_backfillVars => GateInv'
  <1> SUFFICES ASSUME GateInv, [Next]_backfillVars PROVE GateInv'
    OBVIOUS
  <1>1. CASE UNCHANGED <<gate, yields, resumes>>
    BY <1>1 DEF GateInv
  <1>2. ASSUME NEW w \in Worker, LagRead(w) PROVE GateInv'
    <2>1. CASE ~gate /\ gate' = TRUE /\ yields' = yields + 1 /\ UNCHANGED resumes
      BY <2>1 DEF GateInv
    <2> QED BY <1>1, <1>2, <2>1 DEF LagRead, GateTaken, gateVars
  <1>3. CASE Resume \/ LagUnread
    <2>1. gate /\ ~gate' /\ gate' \in BOOLEAN
      BY <1>3, Zenon DEF Resume, LagUnread, EndPause
    <2>2. resumes' = resumes + 1 /\ yields' = yields
      BY <1>3 DEF Resume, LagUnread, EndPause
    <2> QED BY <2>1, <2>2 DEF GateInv
  <1>4. ASSUME NEW w \in Worker,
               Loop(w) \/ Claim(w) \/ Handled(w) \/ Persisted(w) \/ Rejected(w) \/ BackoffOver(w)
        PROVE  GateInv'
    BY <1>1, <1>4 DEF Loop, Claim, Handled, Persisted, Rejected, BackoffOver, gateVars
  <1>5. CASE Abort \/ LagChanges \/ UNCHANGED backfillVars
    BY <1>1, <1>5 DEF Abort, LagChanges, backfillVars, gateVars
  <1> QED
    BY <1>2, <1>3, <1>4, <1>5 DEF Next, WorkerStep

\* However many workers meet a lagging indexer at once, pauses and resumptions
\* alternate: onYield and onResume are called once per pause.
THEOREM PausesAlternate == Spec => []OneGate
  <1>1. ASSUME Init PROVE GateInv
    <2>1. ~gate /\ gate \in BOOLEAN
      BY <1>1, Zenon DEF Init
    <2>2. yields = 0 /\ resumes = 0
      BY <1>1 DEF Init
    <2> QED BY <2>1, <2>2 DEF GateInv
  <1>2. ASSUME GateInv PROVE OneGate
    <2>1. CASE gate
      BY <1>2, <2>1 DEF GateInv, OneGate
    <2>2. CASE ~gate
      BY <1>2, <2>2 DEF GateInv, OneGate
    <2> QED BY <2>1, <2>2
  <1> QED
    BY <1>1, <1>2, GateStep, PTL DEF Spec

----------------------------------------------------------------------------
(* Startup, readiness and shutdown                                         *)


\* Nothing of the shutdown happens before the first signal.
BeforeSignal ==
    ~shuttingDown => /\ ~closing /\ ~forceTimer /\ ~finished /\ loops = 0
                     /\ admitted = {} /\ ~lateReady

\* The hooks are started exactly by the finish() that sets `settled', and the
\* service is ready only after the resume, late if a shutdown was first.
OnceAndLate ==
    /\ finished => loops = 1
    /\ ~finished => loops = 0
    /\ startupPhase = "INITIALIZING" => ~shuttingDown /\ resuming = "no"
    /\ resuming = "no" => startupPhase = "INITIALIZING"
    /\ shuttingDown /\ startupPhase = "READY" => lateReady
    /\ admitted # {} => lateReady

\* A request needs its connection, but for ordinary handlers.
Linked(c) ==
    /\ finished => link[c] # "open"
    /\ link[c] = "none" => request[c] = "none"
    /\ request[c] = "none" \/ link[c] = "open" \/ (request[c] = "handled" /\ c \notin Streams)

LifeInv == Life!LifeTypeOK /\ BeforeSignal /\ OnceAndLate /\ \A c \in Conn : Linked(c)

LEMMA LifeInvInit ==
    ASSUME Life!Init
    PROVE  LifeInv
<1>1. Life!LifeTypeOK
  <2>1. /\ shuttingDown \in BOOLEAN /\ closing \in BOOLEAN /\ forceTimer \in BOOLEAN
        /\ finished \in BOOLEAN /\ forced \in BOOLEAN /\ lateReady \in BOOLEAN
    BY Zenon DEF Life!Init
  <2> QED
    BY <2>1, JobsAssumption DEF Life!Init, Life!LifeTypeOK, Life!Phase
<1>2. ~shuttingDown /\ ~closing /\ ~forceTimer /\ ~finished /\ ~lateReady
  BY Zenon DEF Life!Init
<1>3. /\ startupPhase = "INITIALIZING" /\ resuming = "no" /\ loops = 0 /\ admitted = {}
      /\ \A c \in Conn : link[c] = "none" /\ request[c] = "none"
  BY DEF Life!Init
<1> QED
  BY <1>1, <1>2, <1>3 DEF LifeInv, BeforeSignal, OnceAndLate, Linked

LEMMA LifeInvNext ==
    ASSUME LifeInv, [Life!Next]_Life!lifeVars
    PROVE  LifeInv'
<1> USE JobsAssumption DEF LifeInv, Life!LifeTypeOK, Life!Phase, BeforeSignal, OnceAndLate, Linked, Life!stopVars
<1>1. CASE Life!Listen
  BY <1>1 DEF Life!Listen
<1>2. CASE Life!ResumeEnds
  BY <1>2 DEF Life!ResumeEnds, Life!PhaseAfterResume
<1>3. CASE Life!Signal
  <2>1. CASE Life!FirstSignal
    <3>1. /\ shuttingDown' /\ closing' /\ forceTimer' /\ ~finished' /\ ~finished
          /\ shuttingDown' \in BOOLEAN /\ closing' \in BOOLEAN /\ forceTimer' \in BOOLEAN
          /\ finished' \in BOOLEAN /\ forced' = forced /\ lateReady' = lateReady
      BY <1>3, <2>1, Zenon DEF Life!Signal, Life!FirstSignal
    <3> QED
      BY <1>3, <2>1, <3>1 DEF Life!Signal, Life!FirstSignal
  <2>2. CASE ~Life!FirstSignal
    BY <1>3, <2>2 DEF Life!Signal
  <2> QED BY <2>1, <2>2
<1>4. CASE Life!ServerClosed
  <2>1. CASE finished
    BY <1>4, <2>1 DEF Life!ServerClosed, Life!Finish
  <2>2. CASE ~finished
    <3>1. /\ finished' /\ ~closing' /\ ~forceTimer' /\ closing' \in BOOLEAN
          /\ forceTimer' \in BOOLEAN /\ finished' \in BOOLEAN /\ shuttingDown /\ shuttingDown'
      BY <1>4, Zenon DEF Life!ServerClosed, Life!Finish
    <3> QED
      BY <1>4, <2>2, <3>1 DEF Life!ServerClosed, Life!Finish
  <2> QED BY <2>1, <2>2
<1>5. CASE Life!ForceClose
  <2>1. CASE finished
    BY <1>5, <2>1 DEF Life!ForceClose, Life!Finish, Life!Without
  <2>2. CASE ~finished
    <3>1. /\ finished' /\ forced' /\ ~forceTimer' /\ forced' \in BOOLEAN
          /\ forceTimer' \in BOOLEAN /\ finished' \in BOOLEAN /\ shuttingDown /\ shuttingDown'
      BY <1>5, Zenon DEF Life!ForceClose, Life!Finish
    <3> QED
      BY <1>5, <2>2, <3>1 DEF Life!ForceClose, Life!Finish, Life!Without
  <2> QED BY <2>1, <2>2
<1>6. CASE Life!RunHook
  BY <1>6 DEF Life!RunHook
<1>7. ASSUME NEW c \in Conn, Life!Connect(c) PROVE LifeInv'
  BY <1>7 DEF Life!Connect
<1>8. ASSUME NEW c \in Conn, Life!Ask(c) PROVE LifeInv'
  BY <1>8 DEF Life!Ask
<1>9. ASSUME NEW c \in Conn, Life!Arrive(c) PROVE LifeInv'
  <2>1. CASE Life!Guard
    BY <1>9, <2>1 DEF Life!Arrive, Life!Guard, Life!Ready
  <2>2. CASE ~Life!Guard
    BY <1>9, <2>2 DEF Life!Arrive
  <2> QED BY <2>1, <2>2
<1>10. ASSUME NEW c \in Conn, Life!Respond(c) PROVE LifeInv'
  BY <1>10 DEF Life!Respond
<1>11. ASSUME NEW c \in Conn, Life!Disconnect(c) PROVE LifeInv'
  BY <1>11 DEF Life!Disconnect, Life!Without
<1>12. CASE UNCHANGED Life!lifeVars
  BY <1>12 DEF Life!lifeVars
<1> QED
  BY <1>1, <1>2, <1>3, <1>4, <1>5, <1>6, <1>7, <1>8, <1>9, <1>10, <1>11, <1>12 DEF Life!Next, Life!Progress

LEMMA LifeInvSafe ==
    ASSUME LifeInv
    PROVE  Life!LifecycleSafe
<1>1. Life!HandlersBeforeHooks
  BY DEF LifeInv, Life!LifeTypeOK, OnceAndLate, Linked, Life!HandlersBeforeHooks
<1>2. Life!ReadyOnlyWhenLate
  BY DEF LifeInv, OnceAndLate, Life!ReadyOnlyWhenLate, Life!Ready
<1> QED
  BY <1>1, <1>2 DEF LifeInv, Life!LifecycleSafe

\* For any number of connections, hooks and signals: the hooks are started once
\* and, unless forced, after the last handler whose client is still there; only a
\* resume that ends late makes a process that shuts down ready.
THEOREM LifecycleHolds ==
    Life!Spec => []LifecycleSafe
<1>1. Life!Init => LifeInv
  BY LifeInvInit
<1>2. LifeInv /\ [Life!Next]_Life!lifeVars => LifeInv'
  BY LifeInvNext
<1>3. LifeInv => LifecycleSafe
  BY LifeInvSafe DEF LifecycleSafe
<1> QED
  BY <1>1, <1>2, <1>3, PTL DEF Life!Spec

----------------------------------------------------------------------------
(* The job queue                                                           *)

\* What an object's stage says: which workers are registered, and that the
\* singleton still names it unless a stop raced its start; it does while stop()
\* runs.
StageInv ==
    \A q \in QueueObj :
        /\ stage[q] \in {"unused", "boot", "stopped", "gone"} => work[q] = {}
        /\ raced[q] \/ stage[q] \in {"unused", "stopped", "gone"} \/ ref = q
        /\ stage[q] = "stopping" => ref = q

QueueInv == Queue!TypeOK /\ Queue!DeadLettersAreFinal /\ StageInv

LEMMA QueueInit == Queue!Init => QueueInv
  <1> SUFFICES ASSUME Queue!Init PROVE QueueInv
    OBVIOUS
  <1>1. raced \in [QueueObj -> BOOLEAN] /\ rowLost \in [Queue!Job -> BOOLEAN]
    BY Zenon DEF Queue!Init
  <1>2. Queue!TypeOK
    BY <1>1, JobsAssumption DEF Queue!Init, Queue!TypeOK, Queue!Unset
  <1>3. Queue!DeadLettersAreFinal /\ StageInv
    BY JobsAssumption DEF Queue!Init, Queue!DeadLettersAreFinal, StageInv
  <1> QED BY <1>2, <1>3 DEF QueueInv

\* start, stop and what comes between them leave the jobs alone.
LEMMA StageMoves ==
    ASSUME QueueInv, NEW q \in QueueObj,
           UNCHANGED <<jobState, tries, running, dlqState, deadRows, rowLost, crashed, expiries>>,
           ref' \in QueueObj \cup {Queue!Unset},
           stage' \in [QueueObj -> {"unused", "boot", "register", "started", "failed", "stopping", "stopped", "gone"}],
           work' \in [QueueObj -> SUBSET DOMAIN Queue!Handler], raced' \in [QueueObj -> BOOLEAN],
           StageInv'
    PROVE  QueueInv'
  BY DEF QueueInv, Queue!TypeOK, Queue!DeadLettersAreFinal

LEMMA QueueStarts ==
    ASSUME QueueInv, NEW q \in QueueObj,
           Queue!StartBackgroundJobs(q) \/ Queue!BossStarts(q) \/ Queue!StartFails(q)
    PROVE  QueueInv'
  <1>1. UNCHANGED <<jobState, tries, running, dlqState, deadRows, rowLost, crashed, expiries, work, raced>>
    BY Zenon DEF Queue!StartBackgroundJobs, Queue!BossStarts, Queue!StartFails
  <1>2. /\ ref' \in QueueObj \cup {Queue!Unset}
        /\ stage' \in [QueueObj -> {"unused", "boot", "register", "started", "failed", "stopping", "stopped", "gone"}]
    BY DEF Queue!StartBackgroundJobs, Queue!BossStarts, Queue!StartFails, QueueInv, Queue!TypeOK
  <1>3. work' \in [QueueObj -> SUBSET DOMAIN Queue!Handler] /\ raced' \in [QueueObj -> BOOLEAN]
    BY <1>1 DEF QueueInv, Queue!TypeOK
  <1>4. StageInv'
    <2>1. CASE Queue!StartBackgroundJobs(q)
      <3>1. \A p \in QueueObj : ref # p
        BY <2>1, JobsAssumption DEF Queue!StartBackgroundJobs, Queue!Unset
      <3> QED BY <1>1, <2>1, <3>1 DEF Queue!StartBackgroundJobs, QueueInv, Queue!TypeOK, StageInv
    <2>2. CASE Queue!BossStarts(q)
      BY <1>1, <2>2 DEF Queue!BossStarts, QueueInv, Queue!TypeOK, StageInv
    <2>3. CASE Queue!StartFails(q)
      BY <1>1, <2>3 DEF Queue!StartFails, QueueInv, Queue!TypeOK, StageInv
    <2> QED BY <2>1, <2>2, <2>3
  <1> QED BY <1>1, <1>2, <1>3, <1>4, StageMoves

LEMMA QueueRegisters ==
    ASSUME QueueInv, NEW q \in QueueObj, Queue!RegisterWorker(q) \/ Queue!OffWork(q) \/ Queue!BossStops(q)
    PROVE  QueueInv'
  <1>1. UNCHANGED <<jobState, tries, running, dlqState, deadRows, rowLost, crashed, expiries, raced>>
    BY Zenon DEF Queue!RegisterWorker, Queue!OffWork, Queue!BossStops
  <1>3. raced' \in [QueueObj -> BOOLEAN]
    BY <1>1 DEF QueueInv, Queue!TypeOK
  <1>4. CASE Queue!RegisterWorker(q)
    <2>1. stage[q] = "register" /\ ref' = ref
      BY <1>4 DEF Queue!RegisterWorker
    <2>2. PICK i \in DOMAIN Queue!Handler : work' = [work EXCEPT ![q] = work[q] \cup {i}]
      BY <1>4 DEF Queue!RegisterWorker
    <2>3. work' \in [QueueObj -> SUBSET DOMAIN Queue!Handler] /\ \A p \in QueueObj : p # q => work'[p] = work[p]
      BY <2>2 DEF QueueInv, Queue!TypeOK
    <2>4. \/ stage' = [stage EXCEPT ![q] = "started"]
          \/ stage' = [stage EXCEPT ![q] = stage[q]]
      BY <1>4 DEF Queue!RegisterWorker
    <2>5. stage' \in [QueueObj -> {"unused", "boot", "register", "started", "failed", "stopping", "stopped", "gone"}]
      BY <2>4 DEF QueueInv, Queue!TypeOK
    <2>6. StageInv'
      BY <1>1, <2>1, <2>3, <2>4 DEF QueueInv, Queue!TypeOK, StageInv
    <2> QED BY <1>1, <1>3, <2>1, <2>3, <2>5, <2>6, StageMoves DEF QueueInv, Queue!TypeOK
  <1>5. CASE Queue!OffWork(q)
    <2>1. /\ work' \in [QueueObj -> SUBSET DOMAIN Queue!Handler] /\ ref' = ref /\ stage' = stage
          /\ StageInv'
      BY <1>1, <1>5 DEF Queue!OffWork, QueueInv, Queue!TypeOK, StageInv
    <2> QED BY <1>1, <1>3, <2>1, StageMoves DEF QueueInv, Queue!TypeOK
  <1>6. CASE Queue!BossStops(q)
    <2>1. /\ work' \in [QueueObj -> SUBSET DOMAIN Queue!Handler] /\ ref' = Queue!Unset
          /\ stage' \in [QueueObj -> {"unused", "boot", "register", "started", "failed", "stopping", "stopped", "gone"}]
          /\ StageInv'
      BY <1>1, <1>6 DEF Queue!BossStops, QueueInv, Queue!TypeOK, StageInv
    <2> QED BY <1>1, <1>3, <2>1, StageMoves
  <1> QED BY <1>4, <1>5, <1>6

LEMMA QueueStops ==
    ASSUME QueueInv, NEW q \in QueueObj, Queue!StopBackgroundJobs(q)
    PROVE  QueueInv'
  <1>1. UNCHANGED <<jobState, tries, running, dlqState, deadRows, rowLost, crashed, expiries>>
    BY Zenon DEF Queue!StopBackgroundJobs
  <1>2. ref = q /\ work' = work
    BY DEF Queue!StopBackgroundJobs, Queue!StopWhatStarted
  <1>3. CASE stage' = [stage EXCEPT ![q] = "stopping"] /\ UNCHANGED <<ref, raced>> /\ stage[q] = "started"
    <2>1. raced' \in [QueueObj -> BOOLEAN] /\ work' \in [QueueObj -> SUBSET DOMAIN Queue!Handler] /\ ref' \in QueueObj \cup {Queue!Unset}
      BY <1>2, <1>3 DEF QueueInv, Queue!TypeOK
    <2>2. /\ stage' \in [QueueObj -> {"unused", "boot", "register", "started", "failed", "stopping", "stopped", "gone"}]
          /\ StageInv'
      BY <1>2, <1>3 DEF QueueInv, Queue!TypeOK, StageInv
    <2> QED BY <1>1, <2>1, <2>2, StageMoves
  <1>4. CASE ref' = Queue!Unset /\ raced' = [raced EXCEPT ![q] = TRUE] /\ stage' = stage /\ stage[q] # "stopping"
    <2>1. raced' \in [QueueObj -> BOOLEAN] /\ raced'[q] /\ \A p \in QueueObj : p # q => raced'[p] = raced[p]
      BY <1>4, Zenon DEF QueueInv, Queue!TypeOK
    <2>2. stage' \in [QueueObj -> {"unused", "boot", "register", "started", "failed", "stopping", "stopped", "gone"}]
      BY <1>4 DEF QueueInv, Queue!TypeOK
    <2>3. StageInv'
      BY <1>2, <1>4, <2>1 DEF QueueInv, StageInv
    <2> QED BY <1>1, <1>2, <1>4, <2>1, <2>2, <2>3, StageMoves DEF QueueInv, Queue!TypeOK
  <1> QED BY <1>3, <1>4, Zenon DEF Queue!StopBackgroundJobs, Queue!StopWhatStarted

\* A step of the jobs leaves the objects alone.
LEMMA JobsMove ==
    ASSUME QueueInv, UNCHANGED Queue!lifeVars,
           jobState' \in [Queue!Job -> {"absent", "created", "active", "completed", "failed"}],
           tries' \in [Queue!Job -> Nat], running' \subseteq QueueObj \X Queue!Job,
           dlqState' \in [Queue!Job -> {"none", "created", "active", "completed"}],
           deadRows' \in [Queue!Job -> Nat], rowLost' \in [Queue!Job -> BOOLEAN],
           crashed' \in 0..MaxCrashes, expiries' \in 0..MaxExpiries,
           Queue!DeadLettersAreFinal'
    PROVE  QueueInv'
  <1>1. UNCHANGED <<ref, stage, work, raced>>
    BY DEF Queue!lifeVars
  <1> QED BY <1>1 DEF QueueInv, Queue!TypeOK, StageInv

LEMMA JobsEnqueue ==
    ASSUME QueueInv, NEW j \in Queue!Job, Queue!EnqueueJob(j)
    PROVE  QueueInv'
  <1>1. UNCHANGED <<tries, running, dlqState, deadRows, rowLost, crashed, expiries>> /\ UNCHANGED Queue!lifeVars
    BY Zenon DEF Queue!EnqueueJob
  <1>2. jobState' \in [Queue!Job -> {"absent", "created", "active", "completed", "failed"}] /\ Queue!DeadLettersAreFinal'
    BY <1>1 DEF Queue!EnqueueJob, QueueInv, Queue!TypeOK, Queue!DeadLettersAreFinal
  <1> QED BY <1>1, <1>2, JobsMove DEF QueueInv, Queue!TypeOK

LEMMA JobsFetch ==
    ASSUME QueueInv, NEW q \in QueueObj, NEW j \in Queue!Job, Queue!FetchJob(q, j)
    PROVE  QueueInv'
  <1>1. UNCHANGED <<dlqState, deadRows, rowLost, crashed, expiries>> /\ UNCHANGED Queue!lifeVars
    BY Zenon DEF Queue!FetchJob
  <1>2. /\ jobState' \in [Queue!Job -> {"absent", "created", "active", "completed", "failed"}]
        /\ tries' \in [Queue!Job -> Nat] /\ running' \subseteq QueueObj \X Queue!Job
        /\ Queue!DeadLettersAreFinal'
    BY JobsAssumption DEF Queue!FetchJob, QueueInv, Queue!TypeOK, Queue!DeadLettersAreFinal
  <1> QED BY <1>1, <1>2, JobsMove DEF QueueInv, Queue!TypeOK

\* A run of an active job fails or is taken back.
LEMMA FailureDeadLetters ==
    ASSUME QueueInv, NEW j \in Queue!Job, jobState[j] = "active",
           UNCHANGED <<deadRows, rowLost>>, Queue!FailOrRetry(j)
    PROVE  /\ jobState' \in [Queue!Job -> {"absent", "created", "active", "completed", "failed"}]
           /\ dlqState' \in [Queue!Job -> {"none", "created", "active", "completed"}]
           /\ Queue!DeadLettersAreFinal'
  <1>1. CASE jobState' = [jobState EXCEPT ![j] = "created"] /\ dlqState' = dlqState
    BY <1>1 DEF QueueInv, Queue!TypeOK, Queue!DeadLettersAreFinal
  <1>2. CASE /\ jobState' = [jobState EXCEPT ![j] = "failed"]
             /\ \/ dlqState' = [dlqState EXCEPT ![j] = "created"] /\ j \in SentJob
                \/ dlqState' = dlqState
    BY <1>2 DEF QueueInv, Queue!TypeOK, Queue!DeadLettersAreFinal
  <1> QED BY <1>1, <1>2 DEF Queue!FailOrRetry, Queue!HasDeadLetter

LEMMA JobsReturn ==
    ASSUME QueueInv, NEW q \in QueueObj, NEW j \in Queue!Job,
           Queue!HandlerReturns(q, j) \/ Queue!HandlerThrows(q, j)
    PROVE  QueueInv'
  <1>1. UNCHANGED <<tries, deadRows, rowLost, crashed, expiries>> /\ UNCHANGED Queue!lifeVars
    BY Zenon DEF Queue!HandlerReturns, Queue!HandlerThrows
  <1>2. running' \subseteq QueueObj \X Queue!Job
    BY DEF Queue!HandlerReturns, Queue!HandlerThrows, QueueInv, Queue!TypeOK
  <1>3. /\ jobState' \in [Queue!Job -> {"absent", "created", "active", "completed", "failed"}]
        /\ dlqState' \in [Queue!Job -> {"none", "created", "active", "completed"}]
        /\ Queue!DeadLettersAreFinal'
    <2>1. CASE Queue!HandlerReturns(q, j)
      BY <1>1, <2>1 DEF Queue!HandlerReturns, QueueInv, Queue!TypeOK, Queue!DeadLettersAreFinal
    <2>2. CASE Queue!HandlerThrows(q, j) /\ jobState[j] = "active"
      BY <1>1, <2>2, FailureDeadLetters DEF Queue!HandlerThrows
    <2>3. CASE Queue!HandlerThrows(q, j) /\ jobState[j] # "active"
      BY <1>1, <2>3 DEF Queue!HandlerThrows, QueueInv, Queue!TypeOK, Queue!DeadLettersAreFinal
    <2> QED BY <2>1, <2>2, <2>3
  <1> QED BY <1>1, <1>2, <1>3, JobsMove DEF QueueInv, Queue!TypeOK

LEMMA JobsExpire ==
    ASSUME QueueInv, NEW j \in Queue!Job, Queue!ExpireJob(j)
    PROVE  QueueInv'
  <1>1. UNCHANGED <<tries, running, deadRows, rowLost, crashed>> /\ UNCHANGED Queue!lifeVars
    BY Zenon DEF Queue!ExpireJob
  <1>2. expiries' \in 0..MaxExpiries
    BY JobsAssumption DEF Queue!ExpireJob, QueueInv, Queue!TypeOK
  <1>3. /\ jobState' \in [Queue!Job -> {"absent", "created", "active", "completed", "failed"}]
        /\ dlqState' \in [Queue!Job -> {"none", "created", "active", "completed"}]
        /\ Queue!DeadLettersAreFinal'
    BY <1>1, FailureDeadLetters DEF Queue!ExpireJob
  <1> QED BY <1>1, <1>2, <1>3, JobsMove DEF QueueInv, Queue!TypeOK

LEMMA JobsDeadLetter ==
    ASSUME QueueInv, NEW j \in Queue!Job,
           Queue!DeadLetterDone(j) \/ \E q \in QueueObj : Queue!FetchDeadLetter(q, j)
    PROVE  QueueInv'
  <1>1. UNCHANGED <<jobState, tries, running, crashed, expiries>> /\ UNCHANGED Queue!lifeVars
    BY Zenon DEF Queue!FetchDeadLetter, Queue!DeadLetterDone
  <1>2. dlqState' \in [Queue!Job -> {"none", "created", "active", "completed"}]
    BY DEF Queue!FetchDeadLetter, Queue!DeadLetterDone, QueueInv, Queue!TypeOK
  <1>3. \/ deadRows' = deadRows
        \/ deadRows' = [deadRows EXCEPT ![j] = @ + 1]
    BY DEF Queue!FetchDeadLetter, Queue!DeadLetterDone
  <1>4. deadRows' \in [Queue!Job -> Nat]
    BY <1>3 DEF QueueInv, Queue!TypeOK
  <1>5. rowLost' = rowLost \/ rowLost' = [rowLost EXCEPT ![j] = TRUE]
    BY Zenon DEF Queue!FetchDeadLetter, Queue!DeadLetterDone
  <1>6. rowLost' \in [Queue!Job -> BOOLEAN]
    BY <1>5, Zenon DEF QueueInv, Queue!TypeOK
  <1>7. Queue!DeadLettersAreFinal'
    <2>1. /\ dlqState[j] # "none"
          /\ \/ dlqState' = [dlqState EXCEPT ![j] = "active"]
             \/ dlqState' = [dlqState EXCEPT ![j] = "completed"]
      BY DEF Queue!FetchDeadLetter, Queue!DeadLetterDone
    <2>2. dlqState'[j] # "none" /\ \A k \in Queue!Job : k # j => dlqState'[k] = dlqState[k]
      BY <2>1 DEF QueueInv, Queue!TypeOK
    <2>3. \A k \in Queue!Job : k # j => deadRows'[k] = deadRows[k] /\ (rowLost'[k] <=> rowLost[k])
      BY <1>3, <1>5, Zenon DEF QueueInv, Queue!TypeOK
    <2> QED BY <1>1, <2>1, <2>2, <2>3 DEF QueueInv, Queue!DeadLettersAreFinal
  <1> QED BY <1>1, <1>2, <1>4, <1>6, <1>7, JobsMove DEF QueueInv, Queue!TypeOK

LEMMA QueueCrash ==
    ASSUME QueueInv, Queue!Crash
    PROVE  QueueInv'
  <1>1. UNCHANGED <<raced, jobState, tries, deadRows, rowLost, expiries>>
    BY Zenon DEF Queue!Crash
  <1>2. raced' \in [QueueObj -> BOOLEAN] /\ rowLost' \in [Queue!Job -> BOOLEAN]
    BY <1>1 DEF QueueInv, Queue!TypeOK
  <1>3. Queue!TypeOK'
    BY <1>1, <1>2, JobsAssumption DEF Queue!Crash, QueueInv, Queue!TypeOK
  <1>4. Queue!DeadLettersAreFinal'
    BY <1>1 DEF Queue!Crash, QueueInv, Queue!TypeOK, Queue!DeadLettersAreFinal
  <1>5. StageInv'
    BY <1>1 DEF Queue!Crash, QueueInv, Queue!TypeOK, StageInv
  <1> QED BY <1>3, <1>4, <1>5 DEF QueueInv

LEMMA QueueStep == QueueInv /\ [Queue!Next]_Queue!jobVars => QueueInv'
  <1> SUFFICES ASSUME QueueInv, [Queue!Next]_Queue!jobVars PROVE QueueInv'
    OBVIOUS
  <1>1. CASE UNCHANGED Queue!jobVars
    <2>1. UNCHANGED <<ref, stage, work, raced, jobState, tries, running, dlqState, deadRows, rowLost, crashed, expiries>>
      BY <1>1 DEF Queue!jobVars
    <2> QED BY <2>1 DEF QueueInv, Queue!TypeOK, Queue!DeadLettersAreFinal, StageInv
  <1>2. ASSUME NEW q \in QueueObj, NEW j \in Queue!Job, Queue!FetchJob(q, j) \/ Queue!FetchDeadLetter(q, j)
        PROVE QueueInv'
    BY <1>2, JobsFetch, JobsDeadLetter
  <1>3. ASSUME NEW j \in Queue!Job, Queue!Finish(j) PROVE QueueInv'
    BY <1>3, JobsReturn, JobsExpire, JobsDeadLetter DEF Queue!Finish
  <1> QED
    BY <1>1, <1>2, <1>3, QueueStarts, QueueRegisters, QueueStops, JobsEnqueue, QueueCrash DEF Queue!Next, Queue!Serve

\* Whatever crashes, expires or is stopped: the workers of an object belong to the
\* one stopBackgroundJobs would stop, unless a stop had raced its start(), and a
\* dead letter stands for a job that was sent with one and is failed for good.
THEOREM QueueIsAccounted == Queue!Spec => []QueueAccounted
  <1>1. ASSUME QueueInv PROVE QueueAccounted
    <2>1. Queue!StoppedMeansIdle
      BY <1>1 DEF QueueInv, Queue!TypeOK, StageInv, Queue!StoppedMeansIdle
    <2> QED BY <1>1, <2>1 DEF QueueInv, QueueAccounted, Queue!QueueAccounted
  <1> QED
    BY <1>1, QueueInit, QueueStep, PTL DEF Queue!Spec

----------------------------------------------------------------------------
(* OrderedBackfillScheduler                                                *)

\* Everything before the wave is handled, and so is all the checkpoint covers;
\* while the run goes on, the checkpoint is where the wave begins.
WaveInv ==
    /\ Waves!WaveTypeOK
    /\ \A b \in Waves!Batch : b < start \/ b <= waveCheckpoint => result[b] = "ok"
    /\ ~over => start <= WaveBatches /\ waveCheckpoint = start - 1

LEMMA WaveInit == Waves!Init => WaveInv
  <1> SUFFICES ASSUME Waves!Init PROVE WaveInv
    OBVIOUS
  <1>1. ~over /\ over \in BOOLEAN
    BY Zenon DEF Waves!Init
  <1> QED BY <1>1, JobsAssumption DEF Waves!Init, Waves!WaveTypeOK, WaveInv, Waves!Batch

\* The loop over the settled wave stops at its last batch or before a failure.
LEMMA PrefixInWave ==
    ASSUME WaveInv, ~over, NEW to \in (start - 1)..WaveBatches, Waves!PrefixEnds(to)
    PROVE  /\ \A b \in Waves!Batch : b <= to => result[b] = "ok"
           /\ (\A b \in Waves!Wave : result[b] = "ok") =>
                 to >= start /\ to <= start + WaveSize - 1 /\ (to = start + WaveSize - 1 \/ to = WaveBatches)
  <1>1. start \in 1..WaveBatches /\ WaveSize \in Nat \ {0} /\ WaveBatches \in Nat
    BY JobsAssumption DEF WaveInv, Waves!WaveTypeOK
  <1>2. ASSUME NEW b \in Waves!Batch, b <= to PROVE result[b] = "ok"
    <2>1. CASE b < start
      BY <2>1 DEF WaveInv
    <2>2. CASE b >= start
      BY <1>1, <1>2, <2>2 DEF Waves!PrefixEnds, Waves!Batch
    <2> QED BY <1>1, <2>1, <2>2 DEF Waves!Batch
  <1>3. ASSUME \A b \in Waves!Wave : result[b] = "ok"
        PROVE  to >= start /\ to <= start + WaveSize - 1 /\ (to = start + WaveSize - 1 \/ to = WaveBatches)
    <2>1. to + 1 \notin Waves!Wave
      BY <1>3 DEF Waves!PrefixEnds
    <2>2. start \in Waves!Wave
      BY <1>1 DEF Waves!Wave, Waves!Least
    <2>3. to >= start
      BY <1>1, <2>1, <2>2
    <2>4. to \in Waves!Wave
      BY <1>1, <2>3 DEF Waves!PrefixEnds
    <2> QED BY <1>1, <2>1, <2>3, <2>4 DEF Waves!Wave, Waves!Least
  <1> QED BY <1>2, <1>3

LEMMA AttemptKeepsWaves ==
    ASSUME WaveInv, NEW b \in Waves!Batch, Waves!Attempt(b)
    PROVE  WaveInv' /\ \A c \in Waves!Batch : result[c] = "ok" => result'[c] = "ok"
  <1>1. UNCHANGED <<start, waveCheckpoint, persisted, over>>
    BY DEF Waves!Attempt
  <1>2. /\ result' \in [Waves!Batch -> {"waiting", "ok", "failed"}]
        /\ attempts' \in [Waves!Batch -> 0..MaxAttempts]
    BY JobsAssumption DEF Waves!Attempt, WaveInv, Waves!WaveTypeOK
  <1>3. \A c \in Waves!Batch : result[c] = "ok" => result'[c] = "ok"
    BY DEF Waves!Attempt, WaveInv, Waves!WaveTypeOK
  <1> QED BY <1>1, <1>2, <1>3 DEF WaveInv, Waves!WaveTypeOK, Waves!Batch

LEMMA EndKeepsWaves ==
    ASSUME WaveInv, Waves!EndWave
    PROVE  WaveInv' /\ result' = result /\ waveCheckpoint' >= waveCheckpoint
  <1>1. /\ ~over /\ result' = result /\ attempts' = attempts
        /\ start \in 1..WaveBatches /\ WaveSize \in Nat \ {0} /\ WaveBatches \in Nat
        /\ waveCheckpoint = start - 1
    BY JobsAssumption DEF WaveInv, Waves!WaveTypeOK, Waves!EndWave
  <1>2. PICK to \in (start - 1)..WaveBatches :
           /\ Waves!PrefixEnds(to)
           /\ waveCheckpoint' = IF to >= start THEN to ELSE waveCheckpoint
    BY DEF Waves!EndWave
  <1>3. /\ \A b \in Waves!Batch : b <= to => result[b] = "ok"
        /\ (\A b \in Waves!Wave : result[b] = "ok") =>
              to >= start /\ to <= start + WaveSize - 1 /\ (to = start + WaveSize - 1 \/ to = WaveBatches)
    BY <1>1, <1>2, PrefixInWave
  <1>4. waveCheckpoint' = to
    BY <1>1, <1>2
  <1>5. CASE /\ \A b \in Waves!Wave : result[b] = "ok"
             /\ persisted' = waveCheckpoint' /\ start' = start + WaveSize
             /\ over' = (start' > WaveBatches)
    <2>1. over' \in BOOLEAN /\ (~over' => ~(start' > WaveBatches))
      <3>1. (start' > WaveBatches) \in BOOLEAN
        BY <1>1, <1>5
      <3> QED BY <1>5, <3>1, Zenon
    <2>2. start' <= WaveBatches => to = start' - 1
      BY <1>1, <1>3, <1>5
    <2>3. \A b \in Waves!Batch : b < start' => result[b] = "ok"
      BY <1>1, <1>3, <1>5 DEF Waves!Batch
    <2>4. Waves!WaveTypeOK'
      BY <1>1, <1>4, <1>5, <2>1 DEF WaveInv, Waves!WaveTypeOK, Waves!Batch
    <2>5. ~over' => start' <= WaveBatches /\ waveCheckpoint' = start' - 1
      BY <1>1, <1>4, <1>5, <2>1, <2>2
    <2> QED BY <1>1, <1>3, <1>4, <2>3, <2>4, <2>5 DEF WaveInv, Waves!Batch
  <1>6. CASE over' = TRUE /\ persisted' = persisted /\ start' = start
    <2>1. over' /\ over' \in BOOLEAN
      BY <1>6, Zenon
    <2> QED BY <1>1, <1>3, <1>4, <1>6, <2>1 DEF WaveInv, Waves!WaveTypeOK, Waves!Batch
  <1> QED BY <1>5, <1>6 DEF Waves!EndWave

LEMMA WaveStep ==
    ASSUME WaveInv, [Waves!Next]_Waves!waveVars
    PROVE  WaveInv' /\ [Waves!Ordered!Progress]_<<Waves!handled, waveCheckpoint>>
  <1>1. CASE UNCHANGED Waves!waveVars
    BY <1>1 DEF Waves!waveVars, WaveInv, Waves!WaveTypeOK, Waves!Batch, Waves!handled
  <1>2. ASSUME WaveInv', waveCheckpoint' >= waveCheckpoint,
               \A c \in Waves!Batch : result[c] = "ok" => result'[c] = "ok"
        PROVE  Waves!Ordered!Progress
    BY <1>2, JobsAssumption DEF WaveInv, Waves!WaveTypeOK, Waves!Batch, Waves!handled, Waves!Ordered!Progress
  <1>3. ASSUME NEW b \in Waves!Batch, Waves!Attempt(b)
        PROVE  WaveInv' /\ Waves!Ordered!Progress
    <2>1. waveCheckpoint' >= waveCheckpoint
      BY <1>3 DEF Waves!Attempt, WaveInv, Waves!WaveTypeOK
    <2> QED BY <1>2, <1>3, <2>1, AttemptKeepsWaves
  <1>4. CASE Waves!EndWave
    BY <1>2, <1>4, EndKeepsWaves
  <1> QED BY <1>1, <1>3, <1>4 DEF Waves!Next

\* However many batches run at once and whichever fail, the waves implement
\* OrderedBackfill: a later batch's success never moves the checkpoint past an
\* earlier failure, and the checkpoint never moves back.
THEOREM WavesImplementOrder == Waves!Spec => WavesKeepOrder
  <1>1. Waves!Init => Waves!Ordered!Init
    BY JobsAssumption DEF Waves!Init, Waves!Ordered!Init, Waves!handled, Waves!Batch
  <1>2. WaveInv /\ [Waves!Next]_Waves!waveVars => WaveInv'
    BY WaveStep
  <1>3. WaveInv /\ [Waves!Next]_Waves!waveVars => [Waves!Ordered!Progress]_<<Waves!handled, waveCheckpoint>>
    BY WaveStep
  <1>4. WaveInv => Waves!WaveTypeOK
    BY DEF WaveInv
  <1> QED
    BY <1>1, <1>2, <1>3, <1>4, WaveInit, PTL DEF Waves!Spec, WavesKeepOrder, Waves!WavesKeepOrder, Waves!Ordered!Spec

----------------------------------------------------------------------------
(* The retention purge                                                     *)

\* Cardinality is the same operator in RetentionPurge.
LEMMA SameSize == ASSUME NEW S PROVE Purge!Cardinality(S) = Cardinality(S)
  BY DEF Purge!Cardinality, Cardinality

\* A set of numbers that is not empty has a least one.
LEMMA LeastOne == ASSUME NEW S, S \subseteq Nat, S # {} PROVE \E x \in S : \A y \in S : x <= y
  <1> DEFINE R == OpToRel(<, Nat)
  <1>1. PICK x \in S : \A y \in S : ~(<<y, x>> \in R)
    <2>1. IsWellFoundedOn(R, Nat)
      BY NatLessThanWellFounded
    <2> HIDE DEF R
    <2> QED BY <2>1, WFMin
  <1>2. \A y \in S : ~(y < x)
    BY <1>1 DEF OpToRel
  <1>3. \A y \in S : x <= y
    BY <1>2
  <1> QED BY <1>3

LEMMA FiniteRows ==
    ASSUME NEW S, S \subseteq Purge!Rows
    PROVE  S \subseteq Nat /\ IsFiniteSet(S) /\ Cardinality(S) \in Nat
  <1>1. NumRows \in Int /\ 1 \in Int
    BY JobsAssumption
  <1>2. IsFiniteSet(1..NumRows)
    BY <1>1, FS_Interval
  <1>3. S \in SUBSET (1..NumRows)
    BY DEF Purge!Rows
  <1>4. IsFiniteSet(S)
    BY <1>2, <1>3, FS_Subset
  <1>5. S \subseteq Nat
    BY <1>3, JobsAssumption
  <1> QED BY <1>4, <1>5, FS_CardinalityType

\* VisitRow takes one of the rows left.
LEMMA MinIsOne == ASSUME NEW S, S \subseteq Nat, S # {} PROVE Purge!Min(S) \in S
  BY LeastOne DEF Purge!Min

\* LIMIT: no batch has more than batchSize rows.
LEMMA BatchIsLimited ==
    ASSUME NEW S, S \subseteq Purge!Rows
    PROVE  /\ IsFiniteSet(Purge!Oldest(S))
           /\ Cardinality(Purge!Oldest(S)) <= PurgeBatch
  <1> DEFINE older(r) == {q \in S : q < r}
             O == Purge!Oldest(S)
             rank == [r \in O |-> Cardinality(older(r))]
  <1>1. S \subseteq Nat /\ IsFiniteSet(S)
    BY FiniteRows DEF Purge!Rows
  <1>2. ASSUME NEW r \in S PROVE IsFiniteSet(older(r)) /\ Cardinality(older(r)) \in Nat
    BY <1>1, FS_Subset, FS_CardinalityType
  <1>3. O = {r \in S : Cardinality(older(r)) < PurgeBatch}
    BY SameSize DEF Purge!Oldest
  <1>4. rank \in [O -> 0..(PurgeBatch - 1)]
    BY <1>2, <1>3, JobsAssumption, SMTT(30)
  <1>5. ASSUME NEW a \in S, NEW b \in S, a < b PROVE Cardinality(older(a)) # Cardinality(older(b))
    <2>0. \A q \in S : q < a => q < b
      BY <1>1, <1>5
    <2>1. older(a) \in SUBSET older(b)
      BY <2>0
    <2>2. a \in older(b) /\ a \notin older(a)
      BY <1>1, <1>5
    <2> QED BY <1>2, <2>1, <2>2, FS_Subset
  <1>6. IsInjective(rank)
    <2>1. ASSUME NEW a \in O, NEW b \in O, rank[a] = rank[b] PROVE a = b
      <3>1. a \in S /\ b \in S /\ Cardinality(older(a)) = Cardinality(older(b))
        BY <1>3, <2>1
      <3>2. ~(a < b) /\ ~(b < a)
        BY <1>5, <3>1
      <3> QED BY <1>1, <3>1, <3>2
    <2> QED BY <2>1 DEF IsInjective
  <1>7. IsFiniteSet(0..(PurgeBatch - 1)) /\ Cardinality(0..(PurgeBatch - 1)) = PurgeBatch
    BY FS_Interval, JobsAssumption
  <1>8. rank \in Injection(O, 0..(PurgeBatch - 1))
    BY <1>4, <1>6 DEF Injection
  <1> HIDE DEF rank, O
  <1> QED BY <1>7, <1>8, FS_Injection DEF O

\* The rows of a run's transaction.
Txn(w) == todo[w] \cup purging[w] \cup seen[w]

\* A transaction's rows are in the table and locked by it, what it is about to
\* purge is under no hold, and there are at most batchSize of them; a run that
\* is in a transaction was below the cap when it began.
TxnInv(w) ==
    /\ \A r \in Txn(w) : r \in table /\ rowLock[r] = w
    /\ purging[w] \cap hold = {}
    /\ Cardinality(Txn(w)) <= PurgeBatch
    /\ step[w] # "rows" => Txn(w) = {}
    /\ step[w] = "rows" => rowsPurged[w] < MaxRowsPerRun
    /\ rowsPurged[w] < MaxRowsPerRun + PurgeBatch

Booked == purgeAction = "delete" => audited = NumRows - Cardinality(table)

PurgeType ==
    /\ purgeAction \in {"delete", "redact"}
    /\ table \subseteq Purge!Rows /\ redacted \subseteq Purge!Rows /\ hold \subseteq Purge!Rows
    /\ rowLock \in [Purge!Rows -> Purger \cup {"free"}]
    /\ step \in [Purger -> {"idle", "loop", "rows"}]
    /\ todo \in [Purger -> SUBSET Purge!Rows]
    /\ purging \in [Purger -> SUBSET Purge!Rows]
    /\ seen \in [Purger -> SUBSET Purge!Rows]
    /\ rowsPurged \in [Purger -> Nat] /\ audited \in Nat
    /\ runs \in 0..MaxRuns /\ aborts \in 0..MaxAborts

PurgeInv == PurgeType /\ (\A w \in Purger : TxnInv(w)) /\ Booked

LEMMA PurgeInit == Purge!Init => PurgeInv
  <1> SUFFICES ASSUME Purge!Init PROVE PurgeInv
    OBVIOUS
  <1>1. PurgeType
    BY JobsAssumption DEF Purge!Init, PurgeType, Purge!Free
  <1>2. ASSUME NEW w \in Purger PROVE TxnInv(w)
    <2>1. Txn(w) = {} /\ purging[w] = {} /\ step[w] = "idle" /\ rowsPurged[w] = 0
      BY DEF Purge!Init, Txn
    <2>2. Cardinality(Txn(w)) = 0
      BY <2>1, FS_EmptySet
    <2> QED BY <2>1, <2>2, JobsAssumption DEF TxnInv
  <1>3. Booked
    <2>1. Cardinality(1..NumRows) = NumRows
      BY FS_Interval, JobsAssumption
    <2> QED BY <2>1, JobsAssumption DEF Purge!Init, Booked, Purge!Rows
  <1> QED BY <1>1, <1>2, <1>3 DEF PurgeInv

LEMMA TxnRows == ASSUME PurgeType, NEW w \in Purger PROVE Txn(w) \subseteq Purge!Rows
  BY DEF PurgeType, Txn

LEMMA RunStarts ==
    ASSUME PurgeInv, NEW w \in Purger, Purge!RunRetentionPurge(w)
    PROVE  PurgeInv'
  <1>1. UNCHANGED <<purgeAction, table, redacted, hold, rowLock, todo, purging, seen, audited, aborts>>
    BY DEF Purge!RunRetentionPurge
  <1>2. PurgeType'
    BY <1>1, JobsAssumption DEF Purge!RunRetentionPurge, PurgeInv, PurgeType
  <1>3. \A v \in Purger : Txn(v)' = Txn(v)
    BY <1>1 DEF Txn
  <1>4. ASSUME NEW v \in Purger PROVE TxnInv(v)'
    BY <1>1, <1>3, JobsAssumption DEF Purge!RunRetentionPurge, PurgeInv, PurgeType, TxnInv
  <1> QED BY <1>1, <1>2, <1>4 DEF PurgeInv, Booked

LEMMA BatchSelected ==
    ASSUME PurgeInv, NEW w \in Purger, Purge!LoopTop(w)
    PROVE  PurgeInv'
  <1>1. UNCHANGED <<purgeAction, table, redacted, hold, purging, seen, rowsPurged, audited, runs, aborts>>
    BY DEF Purge!LoopTop
  <1>2. step[w] = "loop" /\ Txn(w) = {}
    BY DEF Purge!LoopTop, PurgeInv, TxnInv
  <1>3. CASE step' = [step EXCEPT ![w] = "idle"] /\ UNCHANGED <<rowLock, todo>>
    <2>1. PurgeType'
      BY <1>1, <1>3 DEF PurgeInv, PurgeType
    <2>2. \A v \in Purger : Txn(v)' = Txn(v)
      BY <1>1, <1>3 DEF Txn
    <2>3. ASSUME NEW v \in Purger PROVE TxnInv(v)'
      BY <1>1, <1>2, <1>3, <2>2 DEF PurgeInv, PurgeType, TxnInv
    <2> QED BY <1>1, <2>1, <2>3 DEF PurgeInv, Booked
  <1>4. CASE /\ ~Purge!CapReached(rowsPurged[w])
             /\ todo' = [todo EXCEPT ![w] = Purge!Candidates]
             /\ rowLock' = Purge!ForUpdate(w, Purge!Candidates)
             /\ step' = [step EXCEPT ![w] = "rows"]
    <2>1. /\ Purge!Candidates \subseteq table /\ Purge!Candidates \subseteq Purge!Rows
          /\ \A r \in Purge!Candidates : rowLock[r] = "free"
      BY DEF Purge!Candidates, Purge!Oldest, Purge!Unlocked, Purge!Free, PurgeInv, PurgeType
    <2>2. Cardinality(Purge!Candidates) <= PurgeBatch
      <3>1. Purge!Unlocked \subseteq Purge!Rows
        BY DEF Purge!Unlocked, PurgeInv, PurgeType
      <3> QED BY <3>1, BatchIsLimited DEF Purge!Candidates
    <2>3. PurgeType'
      BY <1>1, <1>4, <2>1 DEF PurgeInv, PurgeType, Purge!ForUpdate
    <2>4. Txn(w)' = Purge!Candidates /\ purging[w] = {}
      BY <1>1, <1>2, <1>4 DEF Txn, PurgeInv, PurgeType
    <2>5. TxnInv(w)'
      <3>1. \A r \in Purge!Candidates : r \in table' /\ rowLock'[r] = w
        BY <1>1, <1>4, <2>1 DEF Purge!ForUpdate
      <3>2. step'[w] = "rows" /\ rowsPurged' = rowsPurged /\ rowsPurged[w] < MaxRowsPerRun
        BY <1>1, <1>4, JobsAssumption DEF PurgeInv, PurgeType, Purge!CapReached
      <3>3. rowsPurged[w] < MaxRowsPerRun + PurgeBatch
        BY DEF PurgeInv, TxnInv
      <3> QED BY <1>1, <2>2, <2>4, <3>1, <3>2, <3>3 DEF TxnInv
    <2>6. ASSUME NEW v \in Purger, v # w PROVE TxnInv(v)'
      <3>1. Txn(v)' = Txn(v) /\ step'[v] = step[v]
        BY <1>1, <1>4, <2>6 DEF Txn, PurgeInv, PurgeType
      <3>2. ASSUME NEW r \in Txn(v) PROVE rowLock'[r] = v
        <4>1. rowLock[r] = v /\ r \in Purge!Rows /\ v # "free"
          BY <3>2, JobsAssumption DEF PurgeInv, TxnInv, PurgeType
        <4> QED BY <1>4, <2>1, <4>1 DEF Purge!ForUpdate
      <3> QED BY <1>1, <3>1, <3>2 DEF TxnInv, PurgeInv
    <2> QED BY <1>1, <2>3, <2>5, <2>6 DEF PurgeInv, Booked
  <1> QED BY <1>3, <1>4 DEF Purge!LoopTop

LEMMA RowVisited ==
    ASSUME PurgeInv, NEW w \in Purger, Purge!VisitRow(w)
    PROVE  PurgeInv'
  <1>1. UNCHANGED <<purgeAction, table, redacted, hold, rowLock, step, rowsPurged, audited, runs, aborts>>
    BY DEF Purge!VisitRow
  <1>2. PICK r \in todo[w] :
           /\ todo' = [todo EXCEPT ![w] = @ \ {r}]
           /\ \/ r \in hold /\ seen' = [seen EXCEPT ![w] = @ \cup {r}] /\ purging' = purging
              \/ r \notin hold /\ purging' = [purging EXCEPT ![w] = @ \cup {r}] /\ seen' = seen
    <2>1. todo[w] \subseteq Nat /\ todo[w] # {}
      BY FiniteRows DEF Purge!VisitRow, PurgeInv, PurgeType
    <2>2. Purge!Min(todo[w]) \in todo[w]
      BY <2>1, MinIsOne
    <2> QED BY <2>2 DEF Purge!VisitRow
  <1>3. r \in Purge!Rows
    BY DEF PurgeInv, PurgeType
  <1>4. PurgeType'
    BY <1>1, <1>2, <1>3 DEF PurgeInv, PurgeType
  <1>5. \A v \in Purger : Txn(v)' = Txn(v)
    BY <1>2 DEF Txn, PurgeInv, PurgeType
  <1>6. \A v \in Purger : (purging[v] \cap hold)' = {}
    BY <1>1, <1>2 DEF TxnInv, PurgeInv, PurgeType
  <1>7. ASSUME NEW v \in Purger PROVE TxnInv(v)'
    BY <1>1, <1>5, <1>6 DEF TxnInv, PurgeInv
  <1> QED BY <1>1, <1>4, <1>7 DEF PurgeInv, Booked

\* COMMIT or ROLLBACK: the locks of w are gone, those of the others are not.
LEMMA TxnEnds ==
    ASSUME PurgeInv, NEW w \in Purger, Purge!EndTxn(w), todo' = [todo EXCEPT ![w] = {}]
    PROVE  /\ rowLock' \in [Purge!Rows -> Purger \cup {"free"}]
           /\ todo' \in [Purger -> SUBSET Purge!Rows]
           /\ purging' \in [Purger -> SUBSET Purge!Rows]
           /\ seen' \in [Purger -> SUBSET Purge!Rows]
           /\ Txn(w)' = {} /\ purging'[w] = {}
           /\ \A v \in Purger \ {w} : /\ Txn(v)' = Txn(v) /\ purging'[v] = purging[v]
                                      /\ \A r \in Txn(v) : rowLock'[r] = v /\ r \notin Txn(w)
  <1>1. /\ rowLock' \in [Purge!Rows -> Purger \cup {"free"}]
        /\ todo' \in [Purger -> SUBSET Purge!Rows]
        /\ purging' \in [Purger -> SUBSET Purge!Rows]
        /\ seen' \in [Purger -> SUBSET Purge!Rows]
    BY DEF Purge!EndTxn, Purge!Free, PurgeInv, PurgeType
  <1>2. Txn(w)' = {} /\ purging'[w] = {}
    BY DEF Purge!EndTxn, Txn, PurgeInv, PurgeType
  <1>3. ASSUME NEW v \in Purger \ {w}
        PROVE  /\ Txn(v)' = Txn(v) /\ purging'[v] = purging[v]
               /\ \A r \in Txn(v) : rowLock'[r] = v /\ r \notin Txn(w)
    <2>1. Txn(v)' = Txn(v) /\ purging'[v] = purging[v]
      BY DEF Purge!EndTxn, Txn, PurgeInv, PurgeType
    <2>2. ASSUME NEW r \in Txn(v) PROVE rowLock'[r] = v /\ r \notin Txn(w)
      <3>1. rowLock[r] = v /\ r \in Purge!Rows
        BY TxnRows DEF PurgeInv, TxnInv
      <3> QED BY <3>1 DEF Purge!EndTxn, PurgeInv, TxnInv
    <2> QED BY <2>1, <2>2
  <1> QED BY <1>1, <1>2, <1>3

LEMMA BatchCommitted ==
    ASSUME PurgeInv, NEW w \in Purger, Purge!CommitBatch(w)
    PROVE  /\ PurgeInv'
           /\ table \ table' \subseteq purging[w] /\ redacted' \ redacted \subseteq purging[w]
  <1> DEFINE n == Cardinality(purging[w])
  <1>1. /\ UNCHANGED <<purgeAction, hold, todo, runs, aborts>> /\ step[w] = "rows" /\ todo[w] = {}
        /\ audited' = audited + n /\ rowsPurged' = [rowsPurged EXCEPT ![w] = @ + n]
        /\ step' \in [Purger -> {"idle", "loop", "rows"}] /\ step'[w] \in {"idle", "loop"}
        /\ \A v \in Purger \ {w} : step'[v] = step[v]
    BY SameSize DEF Purge!CommitBatch, PurgeInv, PurgeType
  <1>2. todo' = [todo EXCEPT ![w] = {}]
    BY <1>1 DEF PurgeInv, PurgeType
  <1>3. Purge!EndTxn(w)
    BY DEF Purge!CommitBatch
  <1>4. /\ rowLock' \in [Purge!Rows -> Purger \cup {"free"}]
        /\ todo' \in [Purger -> SUBSET Purge!Rows]
        /\ purging' \in [Purger -> SUBSET Purge!Rows]
        /\ seen' \in [Purger -> SUBSET Purge!Rows]
        /\ Txn(w)' = {} /\ purging'[w] = {}
        /\ \A v \in Purger \ {w} : /\ Txn(v)' = Txn(v) /\ purging'[v] = purging[v]
                                   /\ \A r \in Txn(v) : rowLock'[r] = v /\ r \notin Txn(w)
    BY <1>2, <1>3, TxnEnds
  <1>5. /\ purging[w] \subseteq Txn(w) /\ Txn(w) \subseteq Purge!Rows
        /\ purging[w] \subseteq table /\ table \subseteq Purge!Rows
    BY TxnRows DEF Txn, PurgeInv, TxnInv, PurgeType
  <1>6. n \in Nat /\ n <= PurgeBatch
    <2>1. IsFiniteSet(Txn(w)) /\ purging[w] \in SUBSET Txn(w) /\ Cardinality(Txn(w)) \in Nat /\ n \in Nat
      BY <1>5, FiniteRows
    <2>2. n <= Cardinality(Txn(w))
      BY <2>1, FS_Subset
    <2>3. Cardinality(Txn(w)) <= PurgeBatch
      BY DEF PurgeInv, TxnInv
    <2> QED BY <2>1, <2>2, <2>3, JobsAssumption
  <1>7. \/ purgeAction = "delete" /\ table' = table \ purging[w] /\ redacted' = redacted
        \/ purgeAction = "redact" /\ redacted' = redacted \cup purging[w] /\ table' = table
    BY DEF Purge!CommitBatch
  <1>8. Booked'
    <2>1. CASE purgeAction = "delete" /\ table' = table \ purging[w]
      <3>1. IsFiniteSet(table \ purging[w]) /\ IsFiniteSet(purging[w])
            /\ Cardinality(table \ purging[w]) \in Nat /\ Cardinality(table) \in Nat
        BY <1>5, FiniteRows
      <3>2. (table \ purging[w]) \cup purging[w] = table /\ (table \ purging[w]) \cap purging[w] = {}
        BY <1>5
      <3>3. Cardinality(table) = Cardinality(table \ purging[w]) + n
        BY <1>6, <3>1, <3>2, FS_Union, FS_EmptySet
      <3> QED BY <1>1, <1>6, <2>1, <3>1, <3>3, JobsAssumption DEF Booked, PurgeInv, PurgeType
    <2> QED BY <1>1, <1>7, <2>1 DEF Booked
  <1>9. PurgeType'
    <2> HIDE DEF n
    <2>1. rowsPurged' \in [Purger -> Nat] /\ audited' \in Nat
      BY <1>1, <1>6 DEF PurgeInv, PurgeType
    <2>2. table' \subseteq Purge!Rows /\ redacted' \subseteq Purge!Rows
      BY <1>5, <1>7 DEF PurgeInv, PurgeType
    <2> QED BY <1>1, <1>4, <2>1, <2>2 DEF PurgeInv, PurgeType
  <1>10. TxnInv(w)'
    <2>1. Cardinality(Txn(w)') <= PurgeBatch
      BY <1>4, FS_EmptySet, JobsAssumption
    <2>2. rowsPurged[w] < MaxRowsPerRun /\ rowsPurged'[w] = rowsPurged[w] + n /\ rowsPurged[w] \in Nat
      BY <1>1 DEF PurgeInv, TxnInv, PurgeType
    <2>3. rowsPurged'[w] < MaxRowsPerRun + PurgeBatch
      BY <1>6, <2>2, JobsAssumption
    <2> QED BY <1>1, <1>4, <2>1, <2>3 DEF TxnInv
  <1>11. ASSUME NEW v \in Purger, v # w PROVE TxnInv(v)'
    <2>1. v \in Purger \ {w} /\ TxnInv(v) /\ rowsPurged'[v] = rowsPurged[v] /\ step'[v] = step[v]
      BY <1>1, <1>11 DEF PurgeInv, PurgeType
    <2>2. \A r \in Txn(v) : r \in table'
      BY <1>4, <1>5, <1>7, <2>1 DEF TxnInv
    <2> QED BY <1>1, <1>4, <2>1, <2>2 DEF TxnInv
  <1> QED BY <1>7, <1>8, <1>9, <1>10, <1>11 DEF PurgeInv

LEMMA BatchAborted ==
    ASSUME PurgeInv, NEW w \in Purger, Purge!AbortBatch(w)
    PROVE  PurgeInv'
  <1>1. /\ UNCHANGED <<purgeAction, table, redacted, hold, rowsPurged, runs, audited>>
        /\ todo' = [todo EXCEPT ![w] = {}] /\ step' = [step EXCEPT ![w] = "idle"]
        /\ aborts' = aborts + 1 /\ aborts < MaxAborts /\ Purge!EndTxn(w)
    BY DEF Purge!AbortBatch, Purge!AuditAfterAbort
  <1>2. /\ rowLock' \in [Purge!Rows -> Purger \cup {"free"}]
        /\ todo' \in [Purger -> SUBSET Purge!Rows]
        /\ purging' \in [Purger -> SUBSET Purge!Rows]
        /\ seen' \in [Purger -> SUBSET Purge!Rows]
        /\ Txn(w)' = {} /\ purging'[w] = {}
        /\ \A v \in Purger \ {w} : /\ Txn(v)' = Txn(v) /\ purging'[v] = purging[v]
                                   /\ \A r \in Txn(v) : rowLock'[r] = v /\ r \notin Txn(w)
    BY <1>1, TxnEnds
  <1>3. PurgeType'
    BY <1>1, <1>2, JobsAssumption DEF PurgeInv, PurgeType
  <1>4. TxnInv(w)'
    <2>1. Cardinality(Txn(w)') <= PurgeBatch
      BY <1>2, FS_EmptySet, JobsAssumption
    <2>2. rowsPurged'[w] < MaxRowsPerRun + PurgeBatch /\ step'[w] = "idle"
      BY <1>1 DEF PurgeInv, TxnInv, PurgeType
    <2> QED BY <1>1, <1>2, <2>1, <2>2 DEF TxnInv
  <1>5. ASSUME NEW v \in Purger, v # w PROVE TxnInv(v)'
    <2>1. v \in Purger \ {w} /\ TxnInv(v) /\ step'[v] = step[v]
      BY <1>1, <1>5 DEF PurgeInv, PurgeType
    <2> QED BY <1>1, <1>2, <2>1 DEF TxnInv
  <1> QED BY <1>1, <1>3, <1>4, <1>5 DEF PurgeInv, Booked

LEMMA HoldChanges ==
    ASSUME PurgeInv, NEW r \in Purge!Rows, Purge!SetLegalHold(r) \/ Purge!LiftLegalHold(r)
    PROVE  PurgeInv'
  <1>1. /\ UNCHANGED <<purgeAction, table, redacted, rowLock, step, todo, purging, seen, rowsPurged, audited, runs, aborts>>
        /\ rowLock[r] = "free" /\ hold' \subseteq hold \cup {r}
    BY DEF Purge!SetLegalHold, Purge!LiftLegalHold, Purge!Free
  <1>2. PurgeType'
    BY <1>1 DEF PurgeInv, PurgeType
  <1>3. ASSUME NEW v \in Purger PROVE TxnInv(v)'
    <2>1. TxnInv(v) /\ Txn(v)' = Txn(v) /\ v # "free" /\ purging[v] \subseteq Txn(v)
      BY <1>1, JobsAssumption DEF PurgeInv, Txn
    <2>2. r \notin purging[v]
      BY <1>1, <2>1 DEF TxnInv
    <2> QED BY <1>1, <2>1, <2>2 DEF TxnInv
  <1> QED BY <1>1, <1>2, <1>3 DEF PurgeInv, Booked

LEMMA PurgeStep == PurgeInv /\ [Purge!Next]_Purge!purgeVars => PurgeInv'
  <1> SUFFICES ASSUME PurgeInv, [Purge!Next]_Purge!purgeVars PROVE PurgeInv'
    OBVIOUS
  <1>1. CASE UNCHANGED Purge!purgeVars
    BY <1>1 DEF Purge!purgeVars, PurgeInv, PurgeType, TxnInv, Txn, Booked
  <1> QED
    BY <1>1, RunStarts, BatchSelected, RowVisited, BatchCommitted, BatchAborted, HoldChanges
       DEF Purge!Next, Purge!Work

\* Runs that overlap, fail and are started again leave table, audit trail and cap
\* in agreement: the PURGE_INITIATED entries count every deleted row once, and no
\* run exceeds maxRowsPerRun by a whole batch.
THEOREM PurgeIsAccounted == Purge!Spec => []PurgeAccounted
  <1>1. ASSUME PurgeInv PROVE PurgeAccounted
    <2>1. Purge!TypeOK
      <3>1. {todo, purging, seen} \subseteq [Purger -> SUBSET Purge!Rows]
        BY <1>1 DEF PurgeInv, PurgeType
      <3> QED BY <1>1, <3>1 DEF PurgeInv, PurgeType, Purge!TypeOK, Purge!Free
    <2>2. Purge!AuditAccountsForDeletes
      BY <1>1, SameSize DEF PurgeInv, PurgeType, Booked, Purge!AuditAccountsForDeletes
    <2>3. Purge!CapOvershootBounded
      BY <1>1 DEF PurgeInv, TxnInv, Purge!CapOvershootBounded
    <2> QED BY <2>1, <2>2, <2>3 DEF PurgeAccounted, Purge!PurgeAccounted
  <1> QED
    BY <1>1, PurgeInit, PurgeStep, PTL DEF Purge!Spec

\* "no TOCTOU window where a hold is set between the check and the delete": no
\* step deletes or redacts a row that is under legal hold, however many runs and
\* operators are at work.
THEOREM HeldRowsAreKept == Purge!Spec => HeldRowsSurvive
  <1> DEFINE Kept == \A r \in Purge!Rows :
                (r \in table /\ r \notin table') \/ (r \in redacted' /\ r \notin redacted) => r \notin hold
  <1>1. ASSUME PurgeInv, [Purge!Next]_Purge!purgeVars PROVE [Kept]_Purge!purgeVars
    <2>1. CASE UNCHANGED <<table, redacted>>
      BY <2>1
    <2>2. ASSUME NEW w \in Purger, Purge!CommitBatch(w) PROVE Kept
      <3>1. table \ table' \subseteq purging[w] /\ redacted' \ redacted \subseteq purging[w]
        BY <1>1, <2>2, BatchCommitted
      <3>2. purging[w] \cap hold = {}
        BY <1>1 DEF PurgeInv, TxnInv
      <3> QED BY <3>1, <3>2
    <2>3. ASSUME NEW w \in Purger,
                 Purge!RunRetentionPurge(w) \/ Purge!LoopTop(w) \/ Purge!VisitRow(w) \/ Purge!AbortBatch(w)
          PROVE  UNCHANGED <<table, redacted>>
      BY <2>3 DEF Purge!RunRetentionPurge, Purge!LoopTop, Purge!VisitRow, Purge!AbortBatch
    <2>4. ASSUME NEW r \in Purge!Rows, Purge!SetLegalHold(r) \/ Purge!LiftLegalHold(r)
          PROVE  UNCHANGED <<table, redacted>>
      BY <2>4 DEF Purge!SetLegalHold, Purge!LiftLegalHold
    <2>5. CASE UNCHANGED Purge!purgeVars
      BY <2>5
    <2> QED BY <1>1, <2>1, <2>2, <2>3, <2>4, <2>5 DEF Purge!Next, Purge!Work
  <1> QED
    BY <1>1, PurgeInit, PurgeStep, PTL DEF Purge!Spec, HeldRowsSurvive, Purge!HeldRowsSurvive

----------------------------------------------------------------------------
(* The worker pool                                                         *)

LEMMA SameCount == ASSUME NEW S PROVE Pool!Cardinality(S) = Cardinality(S)
  BY DEF Pool!Cardinality, Cardinality

PoolType ==
    /\ hasFallback \in BOOLEAN /\ allWorkersFailed \in BOOLEAN
    /\ slots \in Seq(Pool!Slot) /\ Len(slots) <= MaxWorkers
    /\ backlog \in Seq(Task) /\ Len(backlog) <= MaxQueueSize
    /\ activeTasks \in 0..MaxWorkers
    /\ ending \in {"no", "terminating", "over"}
    /\ settled \in [Task -> 0..1] /\ called \subseteq Task /\ deaths \in 0..MaxDeaths

\* What the code's flags say of a slot: one that starts has its task, one that is
\* not busy has none, and neither does one that answered and took no other.
SlotOK(s) ==
    /\ s.thread = "starting" => s.busy /\ s.task # "none"
    /\ ~s.busy => s.task = "none"
    /\ s.thread = "online" /\ s.task = "none" => ~s.busy

InSlot(t) == \E i \in DOMAIN slots : slots[i].task = t
Queued(t) == \E k \in DOMAIN backlog : backlog[k] = t

\* Every call is in one place at most, and waits for its answer there; until the
\* shutdown is over, a call that waits is in a place.
Placed ==
    /\ \A t \in Task : t \notin called => settled[t] = 0
    /\ \A i, j \in DOMAIN slots : slots[i].task = slots[j].task /\ slots[i].task # "none" => i = j
    /\ \A k, l \in DOMAIN backlog : backlog[k] = backlog[l] => k = l
    /\ \A t \in Task : InSlot(t) => Pool!Waiting(t) /\ ~Queued(t)
    /\ \A t \in Task : Queued(t) => Pool!Waiting(t)
    /\ ending # "over" => \A t \in Task : Pool!Waiting(t) => InSlot(t) \/ Queued(t)

\* Only a pool that is full and busy has a queue.
HandsFull ==
    backlog # <<>> => ending = "no" /\ Len(slots) = MaxWorkers /\ \A i \in DOMAIN slots : slots[i].busy

Counting == ending # "over" => activeTasks = Cardinality(Pool!Dispatched)

PoolInv ==
    /\ PoolType /\ (\A i \in DOMAIN slots : SlotOK(slots[i]))
    /\ Placed /\ HandsFull /\ Counting

IsDispatched(s) == s.thread # "starting" /\ s.task # "none"

LEMMA SlotsAre ==
    ASSUME PoolType
    PROVE  /\ Len(slots) \in Nat /\ DOMAIN slots = 1..Len(slots)
           /\ \A i \in DOMAIN slots : slots[i] \in Pool!Slot
           /\ Len(backlog) \in Nat /\ DOMAIN backlog = 1..Len(backlog)
           /\ \A k \in DOMAIN backlog : backlog[k] \in Task /\ backlog[k] # "none"
           /\ Pool!Dispatched = {i \in DOMAIN slots : IsDispatched(slots[i])}
           /\ IsFiniteSet(Pool!Dispatched) /\ Cardinality(Pool!Dispatched) \in 0..Len(slots)
  <1>1. /\ Len(slots) \in Nat /\ DOMAIN slots = 1..Len(slots)
        /\ Len(backlog) \in Nat /\ DOMAIN backlog = 1..Len(backlog)
    BY LenProperties DEF PoolType
  <1>2. \A i \in DOMAIN slots : slots[i] \in Pool!Slot
    BY <1>1, ElementOfSeq DEF PoolType
  <1>3. \A k \in DOMAIN backlog : backlog[k] \in Task /\ backlog[k] # "none"
    BY <1>1, ElementOfSeq, JobsAssumption DEF PoolType
  <1>4. Pool!Dispatched = {i \in DOMAIN slots : IsDispatched(slots[i])}
    BY DEF Pool!Dispatched, IsDispatched, Pool!NoTask
  <1>5. IsFiniteSet(1..Len(slots)) /\ Cardinality(1..Len(slots)) = Len(slots)
    <2>1. \A n \in Nat : IsFiniteSet(1..n) /\ Cardinality(1..n) = n
      BY FS_Interval
    <2> QED BY <1>1, <2>1
  <1>6. Pool!Dispatched \in SUBSET (1..Len(slots))
    BY <1>1, <1>4
  <1>7. IsFiniteSet(Pool!Dispatched) /\ Cardinality(Pool!Dispatched) <= Len(slots)
    BY <1>5, <1>6, FS_Subset
  <1>8. Cardinality(Pool!Dispatched) \in Nat
    BY <1>7, FS_CardinalityType
  <1> QED BY <1>1, <1>2, <1>3, <1>4, <1>7, <1>8

\* One slot changes.
LEMMA SlotWritten ==
    ASSUME PoolType, NEW i \in DOMAIN slots, NEW R \in Pool!Slot, slots' = [slots EXCEPT ![i] = R]
    PROVE  /\ slots' \in Seq(Pool!Slot) /\ Len(slots') = Len(slots) /\ DOMAIN slots' = DOMAIN slots
           /\ slots'[i] = R /\ \A j \in DOMAIN slots : j # i => slots'[j] = slots[j]
           /\ Cardinality(Pool!Dispatched') \in 0..MaxWorkers
           /\ (IsDispatched(R) <=> IsDispatched(slots[i])) =>
                 Cardinality(Pool!Dispatched') = Cardinality(Pool!Dispatched)
           /\ IsDispatched(R) /\ ~IsDispatched(slots[i]) =>
                 Cardinality(Pool!Dispatched') = Cardinality(Pool!Dispatched) + 1
           /\ ~IsDispatched(R) /\ IsDispatched(slots[i]) =>
                 Cardinality(Pool!Dispatched') = Cardinality(Pool!Dispatched) - 1
  <1>1. /\ slots' \in Seq(Pool!Slot) /\ Len(slots') = Len(slots) /\ DOMAIN slots' = DOMAIN slots
        /\ slots'[i] = R /\ \A j \in DOMAIN slots : j # i => slots'[j] = slots[j]
    BY SlotsAre, ExceptSeq DEF PoolType
  <1>2. Pool!Dispatched' = {j \in DOMAIN slots : IsDispatched(slots'[j])}
    BY <1>1 DEF Pool!Dispatched, IsDispatched, Pool!NoTask
  <1>3. Pool!Dispatched = {j \in DOMAIN slots : IsDispatched(slots[j])} /\ IsFiniteSet(Pool!Dispatched)
    BY SlotsAre
  <1>3a. Cardinality(Pool!Dispatched') \in 0..MaxWorkers
    <2>1. \A n \in Nat : IsFiniteSet(1..n) /\ Cardinality(1..n) = n
      BY FS_Interval
    <2>2. Len(slots) \in Nat /\ Pool!Dispatched' \in SUBSET (1..Len(slots))
      BY <1>2, SlotsAre
    <2>3. IsFiniteSet(Pool!Dispatched') /\ Cardinality(Pool!Dispatched') <= Len(slots)
      BY <2>1, <2>2, FS_Subset
    <2>4. Cardinality(Pool!Dispatched') \in Nat
      BY <2>3, FS_CardinalityType
    <2>5. Len(slots) <= MaxWorkers /\ MaxWorkers \in Nat
      BY JobsAssumption DEF PoolType
    <2> QED BY <2>2, <2>3, <2>4, <2>5
  <1>4. CASE IsDispatched(R) <=> IsDispatched(slots[i])
    <2>1. Pool!Dispatched' = Pool!Dispatched
      BY <1>1, <1>2, <1>3, <1>4
    <2> QED BY <1>1, <1>3a, <1>4, <2>1
  <1>5. CASE IsDispatched(R) /\ ~IsDispatched(slots[i])
    <2>1. Pool!Dispatched' = Pool!Dispatched \cup {i} /\ i \notin Pool!Dispatched
      BY <1>1, <1>2, <1>3, <1>5
    <2> QED BY <1>1, <1>3, <1>3a, <1>5, <2>1, FS_AddElement
  <1>6. CASE ~IsDispatched(R) /\ IsDispatched(slots[i])
    <2>1. Pool!Dispatched' = Pool!Dispatched \ {i} /\ i \in Pool!Dispatched
      BY <1>1, <1>2, <1>3, <1>6
    <2> QED BY <1>1, <1>3, <1>3a, <1>6, <2>1, FS_RemoveElement
  <1> QED BY <1>4, <1>5, <1>6

LEMMA PoolInit == Pool!Init => PoolInv
  <1> SUFFICES ASSUME Pool!Init PROVE PoolInv
    OBVIOUS
  <1>1. hasFallback \in BOOLEAN /\ allWorkersFailed \in BOOLEAN
    BY Zenon DEF Pool!Init
  <1>2. PoolType
    BY <1>1, JobsAssumption DEF Pool!Init, PoolType
  <1>3. DOMAIN slots = {} /\ DOMAIN backlog = {} /\ backlog = <<>> /\ called = {} /\ \A t \in Task : settled[t] = 0
    BY DEF Pool!Init
  <1>4. Placed
    BY <1>3 DEF Placed, InSlot, Queued, Pool!Waiting
  <1>5. Counting
    <2>1. Pool!Dispatched = {}
      BY <1>3 DEF Pool!Dispatched
    <2> QED BY <2>1, FS_EmptySet DEF Counting, Pool!Init
  <1> QED BY <1>2, <1>3, <1>4, <1>5 DEF PoolInv, HandsFull

\* The slot of a step and the record it writes.
Writes(i, R) ==
    /\ i \in DOMAIN slots /\ R \in Pool!Slot /\ SlotOK(R)
    /\ slots' = [slots EXCEPT ![i] = R]

\* A write to a slot is booked.
Books(i, R) ==
    \/ activeTasks' = activeTasks /\ (IsDispatched(R) <=> IsDispatched(slots[i]))
    \/ activeTasks' = activeTasks + 1 /\ IsDispatched(R) /\ ~IsDispatched(slots[i])
    \/ activeTasks' = activeTasks - 1 /\ ~IsDispatched(R) /\ IsDispatched(slots[i])

LEMMA WriteKeeps ==
    ASSUME PoolInv, NEW i, NEW R, Writes(i, R), Books(i, R),
           UNCHANGED <<hasFallback, ending>>, ending # "over",
           allWorkersFailed' \in BOOLEAN, deaths' \in 0..MaxDeaths,
           backlog' \in Seq(Task), Len(backlog') <= MaxQueueSize,
           backlog' # <<>> => backlog # <<>> /\ R.busy,
           settled' \in [Task -> 0..1], called' \subseteq Task,
           Placed'
    PROVE  PoolInv'
  <1>1. /\ slots' \in Seq(Pool!Slot) /\ Len(slots') = Len(slots) /\ DOMAIN slots' = DOMAIN slots
        /\ slots'[i] = R /\ \A j \in DOMAIN slots : j # i => slots'[j] = slots[j]
        /\ Cardinality(Pool!Dispatched') \in 0..MaxWorkers
    BY SlotWritten DEF PoolInv, Writes
  <1>2. activeTasks' = Cardinality(Pool!Dispatched')
    <2>1. activeTasks = Cardinality(Pool!Dispatched)
      BY DEF PoolInv, Counting
    <2>2. i \in DOMAIN slots /\ R \in Pool!Slot /\ slots' = [slots EXCEPT ![i] = R] /\ PoolType
      BY DEF Writes, PoolInv
    <2>3. /\ (IsDispatched(R) <=> IsDispatched(slots[i])) =>
                Cardinality(Pool!Dispatched') = Cardinality(Pool!Dispatched)
          /\ IsDispatched(R) /\ ~IsDispatched(slots[i]) =>
                Cardinality(Pool!Dispatched') = Cardinality(Pool!Dispatched) + 1
          /\ ~IsDispatched(R) /\ IsDispatched(slots[i]) =>
                Cardinality(Pool!Dispatched') = Cardinality(Pool!Dispatched) - 1
      BY <2>2, SlotWritten
    <2> QED BY <2>1, <2>3 DEF Books
  <1>3. PoolType'
    BY <1>1, <1>2 DEF PoolInv, PoolType
  <1>4. \A j \in DOMAIN slots' : SlotOK(slots'[j])
    BY <1>1 DEF PoolInv, Writes
  <1>5. HandsFull'
    <2>1. ASSUME backlog' # <<>> PROVE ending' = "no" /\ Len(slots') = MaxWorkers
      BY <1>1, <2>1 DEF PoolInv, HandsFull
    <2>2. ASSUME backlog' # <<>>, NEW j \in DOMAIN slots' PROVE slots'[j].busy
      <3>1. CASE j = i
        BY <1>1, <2>2, <3>1
      <3>2. CASE j # i
        BY <1>1, <2>2, <3>2 DEF PoolInv, HandsFull
      <3> QED BY <3>1, <3>2
    <2> QED BY <2>1, <2>2 DEF HandsFull
  <1> QED BY <1>2, <1>3, <1>4, <1>5 DEF PoolInv, Counting

LEMMA OnlineKeeps ==
    ASSUME PoolInv, NEW i \in DOMAIN slots, Pool!Online(i)
    PROVE  PoolInv'
  <1>1. /\ UNCHANGED <<hasFallback, backlog, allWorkersFailed, ending, settled, called, deaths>>
        /\ ending # "over" /\ slots[i].thread = "starting" /\ activeTasks' = activeTasks + 1
    BY DEF Pool!Online
  <1>2. slots[i] \in Pool!Slot /\ SlotOK(slots[i])
    BY SlotsAre DEF PoolInv
  <1>3. PICK R \in Pool!Slot : /\ R.busy /\ R.thread = "online" /\ R.task = slots[i].task
                               /\ slots' = [slots EXCEPT ![i] = R]
    <2> DEFINE R == [slots[i] EXCEPT !.busy = TRUE, !.thread = "online", !.task = slots[i].task]
    <2>1. R \in Pool!Slot /\ R.thread = "online" /\ R.task = slots[i].task
      BY <1>2 DEF Pool!Slot
    <2>2. R.busy
      BY <1>2, Zenon DEF Pool!Slot
    <2>3. slots' = [slots EXCEPT ![i] = R]
      BY DEF Pool!Online, Pool!With
    <2> HIDE DEF R
    <2> QED BY <2>1, <2>2, <2>3
  <1>4. Writes(i, R) /\ Books(i, R)
    BY <1>1, <1>2, <1>3 DEF Writes, Books, IsDispatched, SlotOK
  <1>5. DOMAIN slots' = DOMAIN slots /\ \A j \in DOMAIN slots : slots'[j].task = slots[j].task
    BY <1>3, SlotWritten DEF PoolInv
  <1>6. Placed'
    BY <1>1, <1>5 DEF PoolInv, Placed, InSlot, Queued, Pool!Waiting
  <1>7. /\ allWorkersFailed' \in BOOLEAN /\ deaths' \in 0..MaxDeaths
        /\ backlog' \in Seq(Task) /\ Len(backlog') <= MaxQueueSize
        /\ settled' \in [Task -> 0..1] /\ called' \subseteq Task
    BY <1>1 DEF PoolInv, PoolType
  <1> QED BY <1>1, <1>3, <1>4, <1>6, <1>7, WriteKeeps

LEMMA IdleDiesKeeps ==
    ASSUME PoolInv, NEW i \in DOMAIN slots, Pool!IdleDies(i)
    PROVE  PoolInv'
  <1>1. /\ UNCHANGED <<hasFallback, backlog, activeTasks, allWorkersFailed, ending, settled, called>>
        /\ ending # "over" /\ slots[i].thread = "online" /\ slots[i].task = "none"
        /\ deaths < MaxDeaths /\ deaths' = deaths + 1
    BY DEF Pool!IdleDies, Pool!NoTask
  <1>2. slots[i] \in Pool!Slot /\ SlotOK(slots[i])
    BY SlotsAre DEF PoolInv
  <1>3. PICK R \in Pool!Slot : /\ ~R.busy /\ R.thread = "dead" /\ R.task = "none"
                               /\ slots' = [slots EXCEPT ![i] = R]
    <2> DEFINE R == [slots[i] EXCEPT !.busy = FALSE, !.thread = "dead", !.task = "none"]
    <2>1. R \in Pool!Slot /\ R.thread = "dead" /\ R.task = "none"
      BY <1>2 DEF Pool!Slot, Pool!NoTask
    <2>2. ~R.busy
      BY <1>2, Zenon DEF Pool!Slot
    <2>3. slots' = [slots EXCEPT ![i] = R]
      BY DEF Pool!IdleDies, Pool!With, Pool!NoTask
    <2> HIDE DEF R
    <2> QED BY <2>1, <2>2, <2>3
  <1>4. Writes(i, R) /\ Books(i, R)
    BY <1>1, <1>2, <1>3 DEF Writes, Books, IsDispatched, SlotOK
  <1>5. DOMAIN slots' = DOMAIN slots /\ \A j \in DOMAIN slots : slots'[j].task = slots[j].task
    BY <1>1, <1>3, SlotWritten DEF PoolInv
  <1>6. Placed'
    BY <1>1, <1>5 DEF PoolInv, Placed, InSlot, Queued, Pool!Waiting
  <1>7a. deaths' \in 0..MaxDeaths
    <2>1. MaxDeaths \in Nat /\ deaths \in 0..MaxDeaths
      BY JobsAssumption DEF PoolInv, PoolType
    <2> QED BY <1>1, <2>1
  <1>7. /\ allWorkersFailed' \in BOOLEAN /\ deaths' \in 0..MaxDeaths
        /\ backlog' \in Seq(Task) /\ Len(backlog') <= MaxQueueSize
        /\ settled' \in [Task -> 0..1] /\ called' \subseteq Task
    BY <1>1, <1>7a DEF PoolInv, PoolType
  <1>8. backlog' = <<>>
    BY <1>1, <1>2 DEF SlotOK, PoolInv, HandsFull
  <1> QED BY <1>1, <1>3, <1>4, <1>6, <1>7, <1>8, WriteKeeps

\* What drainQueue takes from the queue.
LEMMA QueueDrains ==
    ASSUME PoolInv, backlog # <<>>, backlog' = Tail(backlog)
    PROVE  /\ Head(backlog) \in Task /\ Queued(Head(backlog)) /\ Head(backlog) # "none"
           /\ backlog' \in Seq(Task) /\ Len(backlog') <= MaxQueueSize
           /\ \A k, l \in DOMAIN backlog' : backlog'[k] = backlog'[l] => k = l
           /\ \A u : Queued(u)' <=> Queued(u) /\ u # Head(backlog)
  <1>1. backlog \in Seq(Task) /\ Len(backlog) \in Nat /\ DOMAIN backlog = 1..Len(backlog) /\ Len(backlog) <= MaxQueueSize
    BY SlotsAre DEF PoolInv, PoolType
  <1>2. /\ Head(backlog) = backlog[1] /\ backlog' \in Seq(Task) /\ Len(backlog) > 0
        /\ Len(backlog') = Len(backlog) - 1 /\ DOMAIN backlog' = 1..(Len(backlog) - 1)
        /\ \A k \in 1..(Len(backlog) - 1) : backlog'[k] = backlog[k + 1]
    <2>1. Len(backlog) > 0
      BY <1>1, EmptySeq
    <2>2. Head(backlog) = backlog[1]
      BY <1>1, <2>1
    <2>3. /\ backlog' \in Seq(Task) /\ Len(backlog') = Len(backlog) - 1
          /\ \A k \in 1..(Len(backlog) - 1) : backlog'[k] = backlog[k + 1]
      BY <1>1, <2>1, HeadTailProperties
    <2> QED BY <2>1, <2>2, <2>3, LenProperties
  <1>3. Head(backlog) \in Task /\ Queued(Head(backlog)) /\ Head(backlog) # "none"
    BY <1>1, <1>2, SlotsAre DEF Queued, PoolInv
  <1>4. MaxQueueSize \in Nat
    BY JobsAssumption
  <1>5. Len(backlog') <= MaxQueueSize
    BY <1>1, <1>2, <1>4
  <1>6. \A k, l \in DOMAIN backlog : backlog[k] = backlog[l] => k = l
    BY DEF PoolInv, Placed
  <1>7. \A k, l \in DOMAIN backlog' : backlog'[k] = backlog'[l] => k = l
    <2>1. ASSUME NEW k \in DOMAIN backlog', NEW l \in DOMAIN backlog', backlog'[k] = backlog'[l] PROVE k = l
      <3>1. k + 1 \in DOMAIN backlog /\ l + 1 \in DOMAIN backlog /\ backlog[k + 1] = backlog[l + 1]
        BY <1>1, <1>2, <2>1
      <3>2. k + 1 = l + 1
        BY <1>6, <3>1
      <3> QED BY <1>1, <1>2, <3>2
    <2> QED BY <2>1
  <1>8. ASSUME NEW u PROVE Queued(u)' <=> Queued(u) /\ u # Head(backlog)
    <2>1. ASSUME NEW k \in DOMAIN backlog', backlog'[k] = u PROVE Queued(u) /\ u # Head(backlog)
      <3>1. k + 1 \in DOMAIN backlog /\ backlog[k + 1] = u /\ 1 \in DOMAIN backlog /\ k + 1 # 1
        BY <1>1, <1>2, <2>1
      <3> QED BY <1>2, <1>6, <3>1 DEF Queued
    <2>2. ASSUME NEW k \in DOMAIN backlog, backlog[k] = u, u # Head(backlog) PROVE \E l \in DOMAIN backlog' : backlog'[l] = u
      <3>1. k # 1 /\ k - 1 \in DOMAIN backlog' /\ backlog'[k - 1] = backlog[k]
        BY <1>1, <1>2, <2>2
      <3> QED BY <2>2, <3>1
    <2> QED BY <2>1, <2>2 DEF Queued
  <1> QED BY <1>2, <1>3, <1>5, <1>7, <1>8

\* The task of a slot is answered, and the slot takes none or the next of the queue.
LEMMA AnswerKeepsPlaces ==
    ASSUME PoolInv, NEW i, NEW R, Writes(i, R), slots[i].task \in Task,
           settled' = [settled EXCEPT ![slots[i].task] = @ + 1],
           UNCHANGED <<called, ending>>, ending # "over",
           \/ R.task = "none" /\ backlog' = backlog
           \/ R.task = Head(backlog) /\ backlog # <<>> /\ backlog' = Tail(backlog)
    PROVE  /\ Placed' /\ settled' \in [Task -> 0..1] /\ called' \subseteq Task
           /\ backlog' \in Seq(Task) /\ Len(backlog') <= MaxQueueSize
  <1>1. PICK t \in Task : t = slots[i].task /\ t # "none"
    BY JobsAssumption
  <1>2. /\ i \in DOMAIN slots /\ DOMAIN slots' = DOMAIN slots
        /\ slots'[i] = R /\ \A j \in DOMAIN slots : j # i => slots'[j] = slots[j]
    BY SlotWritten DEF PoolInv, Writes
  <1>3. InSlot(t) /\ Pool!Waiting(t) /\ settled[t] = 0 /\ t \in called /\ ~Queued(t)
    BY <1>1, <1>2 DEF InSlot, PoolInv, Placed, Pool!Waiting
  <1>4. settled' \in [Task -> 0..1] /\ settled'[t] = 1 /\ \A u \in Task : u # t => settled'[u] = settled[u]
    BY <1>1, <1>3 DEF PoolInv, PoolType
  <1>5. \A u \in Task : Pool!Waiting(u)' <=> Pool!Waiting(u) /\ u # t
    BY <1>3, <1>4 DEF Pool!Waiting
  <1>6. \A j \in DOMAIN slots : j # i => slots[j].task # t
    BY <1>1, <1>2 DEF PoolInv, Placed
  <1>7. \A u \in Task : u \notin called' => settled'[u] = 0
    BY <1>3, <1>4 DEF PoolInv, Placed
  <1>8. CASE R.task = "none" /\ backlog' = backlog
    <2>1. \A u \in Task : InSlot(u)' <=> InSlot(u) /\ u # t
      BY <1>1, <1>2, <1>6, <1>8, JobsAssumption DEF InSlot
    <2>2. \A u : Queued(u)' <=> Queued(u)
      BY <1>8 DEF Queued
    <2>3. \A j, k \in DOMAIN slots' : slots'[j].task = slots'[k].task /\ slots'[j].task # "none" => j = k
      BY <1>2, <1>8 DEF PoolInv, Placed
    <2>4. /\ \A k, l \in DOMAIN backlog' : backlog'[k] = backlog'[l] => k = l
          /\ backlog' \in Seq(Task) /\ Len(backlog') <= MaxQueueSize /\ called' \subseteq Task
      BY <1>8 DEF PoolInv, PoolType, Placed
    <2>5. /\ \A u \in Task : InSlot(u)' => Pool!Waiting(u)' /\ ~Queued(u)'
          /\ \A u \in Task : Queued(u)' => Pool!Waiting(u)'
          /\ \A u \in Task : Pool!Waiting(u)' => InSlot(u)' \/ Queued(u)'
      BY <1>3, <1>5, <2>1, <2>2 DEF PoolInv, Placed
    <2> QED BY <1>4, <1>7, <2>3, <2>4, <2>5 DEF Placed
  <1>9. CASE R.task = Head(backlog) /\ backlog # <<>> /\ backlog' = Tail(backlog)
    <2>1. PICK n \in Task : n = Head(backlog) /\ n # "none" /\ Queued(n)
      BY <1>9, QueueDrains
    <2>2. /\ backlog' \in Seq(Task) /\ Len(backlog') <= MaxQueueSize
          /\ \A k, l \in DOMAIN backlog' : backlog'[k] = backlog'[l] => k = l
          /\ \A u : Queued(u)' <=> Queued(u) /\ u # n
      BY <1>9, <2>1, QueueDrains
    <2>3. n # t /\ Pool!Waiting(n) /\ ~InSlot(n)
      BY <1>3, <2>1 DEF PoolInv, Placed
    <2>4. \A u \in Task : InSlot(u)' <=> (InSlot(u) /\ u # t) \/ u = n
      BY <1>1, <1>2, <1>6, <1>9, <2>1, <2>3 DEF InSlot
    <2>5. \A j, k \in DOMAIN slots' : slots'[j].task = slots'[k].task /\ slots'[j].task # "none" => j = k
      BY <1>2, <1>9, <2>1, <2>3 DEF PoolInv, Placed, InSlot
    <2>6. /\ \A u \in Task : InSlot(u)' => Pool!Waiting(u)' /\ ~Queued(u)'
          /\ \A u \in Task : Queued(u)' => Pool!Waiting(u)'
          /\ \A u \in Task : Pool!Waiting(u)' => InSlot(u)' \/ Queued(u)'
      BY <1>3, <1>5, <2>1, <2>2, <2>3, <2>4 DEF PoolInv, Placed
    <2>7. called' \subseteq Task
      BY DEF PoolInv, PoolType
    <2> QED BY <1>4, <1>7, <2>2, <2>5, <2>6, <2>7 DEF Placed
  <1> QED BY <1>8, <1>9

LEMMA StartupErrorKeeps ==
    ASSUME PoolInv, NEW i \in DOMAIN slots, Pool!StartupError(i)
    PROVE  PoolInv'
  <1>1. /\ UNCHANGED <<hasFallback, backlog, activeTasks, ending, called>>
        /\ ending # "over" /\ slots[i].thread = "starting"
        /\ deaths < MaxDeaths /\ deaths' = deaths + 1
        /\ settled' = [settled EXCEPT ![slots[i].task] = @ + 1]
    BY DEF Pool!StartupError, Pool!Settle
  <1>2. /\ slots[i] \in Pool!Slot /\ slots[i].busy /\ slots[i].task # "none"
        /\ slots[i].task \in Task
    BY <1>1, SlotsAre DEF PoolInv, SlotOK, Pool!Slot, Pool!NoTask
  <1>3. PICK R \in Pool!Slot : /\ R.busy /\ R.thread = "dead" /\ R.task = "none"
                               /\ slots' = [slots EXCEPT ![i] = R]
    <2> DEFINE R == [slots[i] EXCEPT !.healthy = FALSE, !.thread = "dead", !.task = "none"]
    <2>1. R \in Pool!Slot /\ R.thread = "dead" /\ R.task = "none"
      BY <1>2 DEF Pool!Slot, Pool!NoTask
    <2>2. R.busy
      <3>1. R.busy = slots[i].busy
        BY <1>2 DEF Pool!Slot
      <3> QED BY <1>2, <3>1
    <2>3. slots' = [slots EXCEPT ![i] = R]
      BY DEF Pool!StartupError, Pool!NoTask
    <2> HIDE DEF R
    <2> QED BY <2>1, <2>2, <2>3
  <1>4. Writes(i, R) /\ Books(i, R)
    BY <1>1, <1>2, <1>3 DEF Writes, Books, IsDispatched, SlotOK
  <1>5. /\ Placed' /\ settled' \in [Task -> 0..1] /\ called' \subseteq Task
        /\ backlog' \in Seq(Task) /\ Len(backlog') <= MaxQueueSize
    BY <1>1, <1>2, <1>3, <1>4, AnswerKeepsPlaces
  <1>6. deaths' \in 0..MaxDeaths
    <2>1. MaxDeaths \in Nat /\ deaths \in 0..MaxDeaths
      BY JobsAssumption DEF PoolInv, PoolType
    <2> QED BY <1>1, <2>1
  <1>7. allWorkersFailed' \in BOOLEAN
    <2>1. allWorkersFailed' = (allWorkersFailed \/ \A j \in DOMAIN slots : ~slots'[j].healthy)
      BY DEF Pool!StartupError
    <2> QED BY <2>1, Zenon
  <1> QED BY <1>1, <1>3, <1>4, <1>5, <1>6, <1>7, WriteKeeps

\* The end of handler and errorHandler: the task in hand is settled, the slot freed
\* or given the oldest waiting task.
LEMMA ReleaseKeeps ==
    ASSUME PoolInv, NEW i \in DOMAIN slots, NEW thread \in {"online", "dead"}, NEW healthy \in BOOLEAN,
           ending # "over", slots[i].thread = "online", slots[i].task # "none",
           settled' = [settled EXCEPT ![slots[i].task] = @ + 1],
           Pool!Release(i, thread, healthy), UNCHANGED <<hasFallback, ending, called>>,
           allWorkersFailed' \in BOOLEAN, deaths' \in 0..MaxDeaths
    PROVE  PoolInv'
  <1>1. slots[i] \in Pool!Slot /\ slots[i].task \in Task
    BY SlotsAre DEF PoolInv, Pool!Slot, Pool!NoTask
  <1>2. CASE backlog # <<>>
    <2>1. Pool!DrainTakes
      BY <1>2 DEF Pool!DrainTakes, PoolInv, HandsFull
    <2>2. Head(backlog) \in Task /\ Head(backlog) # "none" /\ backlog' = Tail(backlog) /\ activeTasks' = activeTasks
      BY <1>2, <2>1, QueueDrains DEF Pool!Release
    <2>3. PICK R \in Pool!Slot : /\ R.busy /\ R.thread = thread /\ R.task = Head(backlog)
                                 /\ slots' = [slots EXCEPT ![i] = R]
      <3> DEFINE R == [busy |-> TRUE, healthy |-> healthy, thread |-> thread, task |-> Head(backlog)]
      <3>1. R \in Pool!Slot /\ R.busy /\ R.thread = thread /\ R.task = Head(backlog)
        BY <2>2 DEF Pool!Slot
      <3>2. slots' = [slots EXCEPT ![i] = R]
        <4>1. Pool!DrainTakes = TRUE
          BY <2>1 DEF Pool!DrainTakes
        <4> QED BY <4>1 DEF Pool!Release
      <3> HIDE DEF R
      <3> QED BY <3>1, <3>2
    <2>4. Writes(i, R) /\ Books(i, R)
      BY <1>1, <2>2, <2>3 DEF Writes, Books, IsDispatched, SlotOK
    <2>5. /\ Placed' /\ settled' \in [Task -> 0..1] /\ called' \subseteq Task
          /\ backlog' \in Seq(Task) /\ Len(backlog') <= MaxQueueSize
      BY <1>1, <1>2, <2>2, <2>3, <2>4, AnswerKeepsPlaces
    <2> QED BY <1>2, <2>3, <2>4, <2>5, WriteKeeps
  <1>3. CASE backlog = <<>>
    <2>1. Pool!DrainTakes = FALSE
      BY <1>3 DEF Pool!DrainTakes
    <2>2. backlog' = backlog /\ activeTasks' = activeTasks - 1
      BY <2>1 DEF Pool!Release
    <2>3. PICK R \in Pool!Slot : /\ ~R.busy /\ R.thread = thread /\ R.task = "none"
                                 /\ slots' = [slots EXCEPT ![i] = R]
      <3> DEFINE R == [busy |-> FALSE, healthy |-> healthy, thread |-> thread, task |-> "none"]
      <3>1. R \in Pool!Slot /\ ~R.busy /\ R.thread = thread /\ R.task = "none"
        BY DEF Pool!Slot, Pool!NoTask
      <3>2. slots' = [slots EXCEPT ![i] = R]
        BY <2>1 DEF Pool!Release, Pool!NoTask
      <3> HIDE DEF R
      <3> QED BY <3>1, <3>2
    <2>4. Writes(i, R) /\ Books(i, R)
      BY <1>1, <2>2, <2>3 DEF Writes, Books, IsDispatched, SlotOK
    <2>5. /\ Placed' /\ settled' \in [Task -> 0..1] /\ called' \subseteq Task
          /\ backlog' \in Seq(Task) /\ Len(backlog') <= MaxQueueSize
      BY <1>1, <1>3, <2>2, <2>3, <2>4, AnswerKeepsPlaces
    <2> QED BY <1>3, <2>2, <2>3, <2>4, <2>5, WriteKeeps
  <1> QED BY <1>2, <1>3

LEMMA MessageKeeps ==
    ASSUME PoolInv, NEW i \in DOMAIN slots, Pool!Message(i) \/ Pool!TaskDies(i)
    PROVE  PoolInv'
  <1>1. /\ ending # "over" /\ slots[i].thread = "online" /\ slots[i].task # "none"
        /\ settled' = [settled EXCEPT ![slots[i].task] = @ + 1] /\ UNCHANGED <<hasFallback, ending, called>>
    BY DEF Pool!Message, Pool!TaskDies, Pool!Settle, Pool!NoTask
  <1>2. /\ slots[i] \in Pool!Slot /\ slots[i].healthy \in BOOLEAN
        /\ allWorkersFailed \in BOOLEAN /\ deaths \in 0..MaxDeaths /\ MaxDeaths \in Nat
    BY SlotsAre, JobsAssumption DEF PoolInv, PoolType, Pool!Slot
  <1>3. CASE Pool!Message(i)
    <2>1. Pool!Release(i, "online", slots[i].healthy) /\ UNCHANGED <<allWorkersFailed, deaths>>
      BY <1>3 DEF Pool!Message
    <2>2. PICK healthy \in BOOLEAN : healthy = slots[i].healthy
      BY <1>2
    <2>3. allWorkersFailed' \in BOOLEAN /\ deaths' \in 0..MaxDeaths
      BY <1>2, <2>1
    <2> QED BY <1>1, <2>1, <2>2, <2>3, ReleaseKeeps
  <1>4. CASE Pool!TaskDies(i)
    <2>1. Pool!Release(i, "dead", FALSE) /\ deaths' = deaths + 1 /\ deaths < MaxDeaths
      BY <1>4 DEF Pool!TaskDies
    <2>2. allWorkersFailed' \in BOOLEAN
      <3>1. allWorkersFailed' = (allWorkersFailed \/ (hasFallback /\ \A j \in DOMAIN slots : j = i \/ ~slots[j].healthy))
        BY <1>4 DEF Pool!TaskDies
      <3> QED BY <3>1, Zenon
    <2>3. deaths' \in 0..MaxDeaths
      BY <1>2, <2>1
    <2> QED BY <1>1, <2>1, <2>2, <2>3, ReleaseKeeps
  <1> QED BY <1>3, <1>4

\* A task of a new call is nowhere yet.
LEMMA NewCall ==
    ASSUME PoolInv, NEW t \in Task, t \notin called
    PROVE  settled[t] = 0 /\ ~Pool!Waiting(t) /\ ~InSlot(t) /\ ~Queued(t) /\ t # "none"
  BY JobsAssumption DEF PoolInv, Placed, Pool!Waiting

\* exec refuses the call, or answers it with the fallback.
LEMMA RefusalKeeps ==
    ASSUME PoolInv, NEW t \in Task, t \notin called, called' = called \cup {t},
           settled' = [settled EXCEPT ![t] = @ + 1],
           UNCHANGED <<hasFallback, ending, slots, backlog, activeTasks>>,
           allWorkersFailed' \in BOOLEAN, deaths' \in 0..MaxDeaths
    PROVE  PoolInv'
  <1>1. settled[t] = 0 /\ ~Pool!Waiting(t) /\ ~InSlot(t) /\ ~Queued(t)
    BY NewCall
  <1>2. settled' \in [Task -> 0..1] /\ settled'[t] = 1 /\ \A u \in Task : u # t => settled'[u] = settled[u]
    BY <1>1 DEF PoolInv, PoolType
  <1>3. \A u \in Task : Pool!Waiting(u)' <=> Pool!Waiting(u)
    BY <1>1, <1>2 DEF Pool!Waiting
  <1>4. (\A u \in Task : InSlot(u)' <=> InSlot(u)) /\ (\A u \in Task : Queued(u)' <=> Queued(u))
    BY DEF InSlot, Queued
  <1>5. Placed'
    BY <1>2, <1>3, <1>4 DEF PoolInv, Placed
  <1>6. PoolType'
    BY <1>2 DEF PoolInv, PoolType
  <1>7. Pool!Dispatched' = Pool!Dispatched
    BY DEF Pool!Dispatched
  <1> QED BY <1>5, <1>6, <1>7 DEF PoolInv, HandsFull, Counting

\* The call takes a place in the pool: what remains to say is where.
LEMMA NewPlace ==
    ASSUME PoolInv, NEW t \in Task, t \notin called, called' = called \cup {t}, UNCHANGED <<settled, ending>>,
           \/ /\ \A u \in Task : InSlot(u)' <=> InSlot(u) \/ u = t
              /\ \A u \in Task : Queued(u)' <=> Queued(u)
           \/ /\ \A u \in Task : InSlot(u)' <=> InSlot(u)
              /\ \A u \in Task : Queued(u)' <=> Queued(u) \/ u = t,
           \A i, j \in DOMAIN slots' : slots'[i].task = slots'[j].task /\ slots'[i].task # "none" => i = j,
           \A k, l \in DOMAIN backlog' : backlog'[k] = backlog'[l] => k = l
    PROVE  Placed' /\ called' \subseteq Task /\ settled' \in [Task -> 0..1]
  <1>1. settled[t] = 0 /\ ~Pool!Waiting(t) /\ ~InSlot(t) /\ ~Queued(t)
    BY NewCall
  <1>2. \A u \in Task : Pool!Waiting(u)' <=> Pool!Waiting(u) \/ u = t
    BY <1>1 DEF Pool!Waiting
  <1>3. called' \subseteq Task /\ settled' \in [Task -> 0..1]
    BY DEF PoolInv, PoolType
  <1>4. \A u \in Task : u \notin called' => settled'[u] = 0
    BY DEF PoolInv, Placed
  <1>5. /\ \A u \in Task : InSlot(u)' => Pool!Waiting(u)' /\ ~Queued(u)'
        /\ \A u \in Task : Queued(u)' => Pool!Waiting(u)'
        /\ ending' # "over" => \A u \in Task : Pool!Waiting(u)' => InSlot(u)' \/ Queued(u)'
    BY <1>1, <1>2 DEF PoolInv, Placed
  <1> QED BY <1>3, <1>4, <1>5 DEF Placed

\* exec finds an idle worker.
LEMMA IdleTakes ==
    ASSUME PoolInv, NEW t \in Task, t \notin called, called' = called \cup {t}, Pool!Idle # {}, ending = "no",
           slots' = Pool!With(Pool!FirstIdle, TRUE, slots[Pool!FirstIdle].thread, t),
           activeTasks' = activeTasks + 1,
           UNCHANGED <<hasFallback, ending, backlog, allWorkersFailed, settled, deaths>>
    PROVE  PoolInv'
  <1>1. PICK i \in DOMAIN slots : i = Pool!FirstIdle /\ ~slots[i].busy
    <2>1. DOMAIN slots \subseteq Nat
      BY SlotsAre DEF PoolInv
    <2>2. Pool!Idle \subseteq Nat
      BY <2>1 DEF Pool!Idle
    <2>3. \E x \in Pool!Idle : \A y \in Pool!Idle : x <= y
      BY <2>2, LeastOne
    <2>4. Pool!FirstIdle \in Pool!Idle
      BY <2>3 DEF Pool!FirstIdle
    <2> QED BY <2>4 DEF Pool!Idle
  <1>2. slots[i] \in Pool!Slot /\ SlotOK(slots[i]) /\ slots[i].task = "none" /\ slots[i].thread # "starting" /\ t # "none"
    BY <1>1, SlotsAre, NewCall DEF PoolInv, SlotOK
  <1>3. PICK R \in Pool!Slot : /\ R.busy /\ R.thread = slots[i].thread /\ R.task = t
                               /\ slots' = [slots EXCEPT ![i] = R]
    <2> DEFINE R == [slots[i] EXCEPT !.busy = TRUE, !.thread = slots[i].thread, !.task = t]
    <2>1. R \in Pool!Slot /\ R.thread = slots[i].thread /\ R.task = t
      BY <1>2 DEF Pool!Slot, Pool!NoTask
    <2>2. R.busy
      BY <1>2, Zenon DEF Pool!Slot
    <2>3. slots' = [slots EXCEPT ![i] = R]
      BY <1>1 DEF Pool!With
    <2> HIDE DEF R
    <2> QED BY <2>1, <2>2, <2>3
  <1>4. Writes(i, R) /\ Books(i, R)
    BY <1>2, <1>3 DEF Writes, Books, IsDispatched, SlotOK
  <1>5. /\ DOMAIN slots' = DOMAIN slots /\ slots'[i] = R
        /\ \A j \in DOMAIN slots : j # i => slots'[j] = slots[j]
    BY <1>3, SlotWritten DEF PoolInv
  <1>6. ~InSlot(t)
    BY NewCall
  <1>7. \A u \in Task : InSlot(u)' <=> InSlot(u) \/ u = t
    BY <1>2, <1>3, <1>5, JobsAssumption DEF InSlot
  <1>8. \A j, k \in DOMAIN slots' : slots'[j].task = slots'[k].task /\ slots'[j].task # "none" => j = k
    <2>1. \A j, k \in DOMAIN slots : slots[j].task = slots[k].task /\ slots[j].task # "none" => j = k
      BY DEF PoolInv, Placed
    <2>2. \A j \in DOMAIN slots : slots[j].task # t
      BY <1>6 DEF InSlot
    <2>3. slots'[i].task = t /\ \A j \in DOMAIN slots : j # i => slots'[j].task = slots[j].task
      BY <1>3, <1>5
    <2>4. ASSUME NEW j \in DOMAIN slots, NEW k \in DOMAIN slots,
                 slots'[j].task = slots'[k].task, slots'[j].task # "none"
          PROVE  j = k
      <3>1. CASE j = i \/ k = i
        BY <2>2, <2>3, <2>4, <3>1
      <3>2. CASE j # i /\ k # i
        BY <2>1, <2>3, <2>4, <3>2
      <3> QED BY <3>1, <3>2
    <2> QED BY <1>5, <2>4
  <1>9. /\ \A u \in Task : Queued(u)' <=> Queued(u)
        /\ \A k, l \in DOMAIN backlog' : backlog'[k] = backlog'[l] => k = l
    BY DEF PoolInv, Placed, Queued
  <1>10. Placed' /\ called' \subseteq Task /\ settled' \in [Task -> 0..1]
    BY <1>7, <1>8, <1>9, NewPlace
  <1>11. /\ allWorkersFailed' \in BOOLEAN /\ deaths' \in 0..MaxDeaths
         /\ backlog' \in Seq(Task) /\ Len(backlog') <= MaxQueueSize
    BY DEF PoolInv, PoolType
  <1> QED BY <1>3, <1>4, <1>10, <1>11, WriteKeeps

\* exec starts another worker, which has the task before it is online.
LEMMA WorkerStarts ==
    ASSUME PoolInv, NEW t \in Task, t \notin called, called' = called \cup {t}, ending = "no",
           Len(slots) < MaxWorkers,
           slots' = Append(slots, [busy |-> TRUE, healthy |-> TRUE, thread |-> "starting", task |-> t]),
           UNCHANGED <<hasFallback, ending, backlog, activeTasks, allWorkersFailed, settled, deaths>>
    PROVE  PoolInv'
  <1>1. PICK R \in Pool!Slot : /\ R.busy /\ R.thread = "starting" /\ R.task = t /\ slots' = Append(slots, R)
    <2> DEFINE R == [busy |-> TRUE, healthy |-> TRUE, thread |-> "starting", task |-> t]
    <2>1. R \in Pool!Slot /\ R.busy /\ R.thread = "starting" /\ R.task = t
      BY DEF Pool!Slot
    <2> HIDE DEF R
    <2> QED BY <2>1 DEF R
  <1>2. Len(slots) \in Nat /\ DOMAIN slots = 1..Len(slots) /\ slots \in Seq(Pool!Slot) /\ MaxWorkers \in Nat
    BY SlotsAre, JobsAssumption DEF PoolInv, PoolType
  <1>3. PICK n \in Nat : n = Len(slots) + 1 /\ n \notin DOMAIN slots
    BY <1>2
  <1>4. /\ slots' \in Seq(Pool!Slot) /\ Len(slots') = n /\ DOMAIN slots' = DOMAIN slots \cup {n}
        /\ slots'[n] = R /\ \A j \in DOMAIN slots : slots'[j] = slots[j]
    <2>1. /\ slots' \in Seq(Pool!Slot) /\ Len(slots') = n /\ slots'[n] = R
          /\ \A j \in DOMAIN slots : slots'[j] = slots[j]
      BY <1>1, <1>2, <1>3, AppendProperties
    <2>2. DOMAIN slots' = 1..n
      BY <2>1, LenProperties
    <2> QED BY <1>2, <1>3, <2>1, <2>2
  <1>5. ~InSlot(t) /\ t # "none"
    BY NewCall
  <1>6. \A u \in Task : InSlot(u)' <=> InSlot(u) \/ u = t
    BY <1>1, <1>4 DEF InSlot
  <1>7. \A j, k \in DOMAIN slots' : slots'[j].task = slots'[k].task /\ slots'[j].task # "none" => j = k
    <2>1. \A j, k \in DOMAIN slots : slots[j].task = slots[k].task /\ slots[j].task # "none" => j = k
      BY DEF PoolInv, Placed
    <2>2. \A j \in DOMAIN slots : slots[j].task # t
      BY <1>5 DEF InSlot
    <2> QED BY <1>1, <1>4, <2>1, <2>2
  <1>8. /\ \A u \in Task : Queued(u)' <=> Queued(u)
        /\ \A k, l \in DOMAIN backlog' : backlog'[k] = backlog'[l] => k = l
    BY DEF PoolInv, Placed, Queued
  <1>9. Placed' /\ called' \subseteq Task /\ settled' \in [Task -> 0..1]
    BY <1>6, <1>7, <1>8, NewPlace
  <1>10. PoolType'
    <2>1. Len(slots') <= MaxWorkers
      BY <1>2, <1>3, <1>4
    <2> QED BY <1>4, <1>9, <2>1 DEF PoolInv, PoolType
  <1>11. \A j \in DOMAIN slots' : SlotOK(slots'[j])
    <2>1. SlotOK(R)
      BY <1>1, <1>5 DEF SlotOK
    <2>2. \A j \in DOMAIN slots : SlotOK(slots[j])
      BY DEF PoolInv
    <2> QED BY <1>4, <2>1, <2>2
  <1>12. HandsFull'
    BY <1>2 DEF PoolInv, HandsFull
  <1>13. Pool!Dispatched' = Pool!Dispatched
    BY <1>1, <1>3, <1>4 DEF Pool!Dispatched
  <1> QED BY <1>9, <1>10, <1>11, <1>12, <1>13 DEF PoolInv, Counting

\* exec queues the task: every worker is there and busy.
LEMMA TaskQueued ==
    ASSUME PoolInv, NEW t \in Task, t \notin called, called' = called \cup {t}, ending = "no",
           Pool!Idle = {}, ~(Len(slots) < MaxWorkers), ~(Len(backlog) >= MaxQueueSize),
           backlog' = Append(backlog, t),
           UNCHANGED <<hasFallback, ending, slots, activeTasks, allWorkersFailed, settled, deaths>>
    PROVE  PoolInv'
  <1>1. /\ backlog \in Seq(Task) /\ Len(backlog) \in Nat /\ DOMAIN backlog = 1..Len(backlog)
        /\ Len(slots) \in Nat /\ Len(slots) <= MaxWorkers /\ MaxWorkers \in Nat /\ MaxQueueSize \in Nat
    BY SlotsAre, JobsAssumption DEF PoolInv, PoolType
  <1>2. PICK n \in Nat : n = Len(backlog) + 1 /\ n \notin DOMAIN backlog
    BY <1>1
  <1>3. /\ backlog' \in Seq(Task) /\ Len(backlog') = n /\ DOMAIN backlog' = DOMAIN backlog \cup {n}
        /\ backlog'[n] = t /\ \A k \in DOMAIN backlog : backlog'[k] = backlog[k]
    <2>1. /\ backlog' \in Seq(Task) /\ Len(backlog') = n /\ backlog'[n] = t
          /\ \A k \in DOMAIN backlog : backlog'[k] = backlog[k]
      BY <1>1, <1>2, AppendProperties
    <2>2. DOMAIN backlog' = 1..n
      BY <2>1, LenProperties
    <2> QED BY <1>1, <1>2, <2>1, <2>2
  <1>4. ~Queued(t)
    BY NewCall
  <1>5. \A u \in Task : Queued(u)' <=> Queued(u) \/ u = t
    BY <1>3 DEF Queued
  <1>6. \A k, l \in DOMAIN backlog' : backlog'[k] = backlog'[l] => k = l
    <2>1. \A k, l \in DOMAIN backlog : backlog[k] = backlog[l] => k = l
      BY DEF PoolInv, Placed
    <2>2. \A k \in DOMAIN backlog : backlog[k] # t
      BY <1>4 DEF Queued
    <2> QED BY <1>3, <2>1, <2>2
  <1>7. /\ \A u \in Task : InSlot(u)' <=> InSlot(u)
        /\ \A j, k \in DOMAIN slots' : slots'[j].task = slots'[k].task /\ slots'[j].task # "none" => j = k
    BY DEF PoolInv, Placed, InSlot
  <1>8. Placed' /\ called' \subseteq Task /\ settled' \in [Task -> 0..1]
    BY <1>5, <1>6, <1>7, NewPlace
  <1>9. PoolType'
    <2>1. Len(backlog') <= MaxQueueSize
      BY <1>1, <1>2, <1>3
    <2> QED BY <1>3, <1>8, <2>1 DEF PoolInv, PoolType
  <1>10. HandsFull'
    <2>1. Len(slots) = MaxWorkers
      BY <1>1
    <2>2. \A i \in DOMAIN slots : slots[i].busy
      BY DEF Pool!Idle
    <2> QED BY <2>1, <2>2 DEF HandsFull
  <1>11. Pool!Dispatched' = Pool!Dispatched
    BY DEF Pool!Dispatched
  <1> QED BY <1>8, <1>9, <1>10, <1>11 DEF PoolInv, Counting

LEMMA ExecKeeps ==
    ASSUME PoolInv, NEW t \in Task, Pool!Exec(t)
    PROVE  PoolInv'
  <1>1. t \notin called /\ called' = called \cup {t} /\ UNCHANGED <<hasFallback, ending>>
    BY DEF Pool!Exec
  <1>2. allWorkersFailed \in BOOLEAN /\ deaths \in 0..MaxDeaths /\ MaxDeaths \in Nat
    BY JobsAssumption DEF PoolInv, PoolType
  <1>3. CASE Pool!Settle(t) /\ UNCHANGED <<slots, backlog, activeTasks, allWorkersFailed, deaths>>
    <2>1. settled' = [settled EXCEPT ![t] = @ + 1]
      BY <1>3 DEF Pool!Settle
    <2> QED BY <1>1, <1>2, <1>3, <2>1, RefusalKeeps
  <1>4. CASE /\ deaths < MaxDeaths /\ deaths' = deaths + 1
             /\ allWorkersFailed' = TRUE /\ Pool!Settle(t) /\ UNCHANGED <<slots, backlog, activeTasks>>
    <2>1. settled' = [settled EXCEPT ![t] = @ + 1]
      BY <1>4 DEF Pool!Settle
    <2>2. allWorkersFailed' \in BOOLEAN /\ deaths' \in 0..MaxDeaths
      BY <1>2, <1>4
    <2> QED BY <1>1, <1>4, <2>1, <2>2, RefusalKeeps
  <1>5. CASE /\ ending = "no" /\ Pool!Idle # {}
             /\ slots' = Pool!With(Pool!FirstIdle, TRUE, slots[Pool!FirstIdle].thread, t)
             /\ activeTasks' = activeTasks + 1
             /\ UNCHANGED <<backlog, allWorkersFailed, settled, deaths>>
    BY <1>1, <1>5, IdleTakes
  <1>6. CASE /\ ending = "no" /\ Len(slots) < MaxWorkers
             /\ slots' = Append(slots, [busy |-> TRUE, healthy |-> TRUE, thread |-> "starting", task |-> t])
             /\ UNCHANGED <<backlog, activeTasks, allWorkersFailed, settled, deaths>>
    BY <1>1, <1>6, WorkerStarts
  <1>7. CASE /\ ending = "no" /\ Pool!Idle = {} /\ ~(Len(slots) < MaxWorkers) /\ ~(Len(backlog) >= MaxQueueSize)
             /\ backlog' = Append(backlog, t)
             /\ UNCHANGED <<slots, activeTasks, allWorkersFailed, settled, deaths>>
    BY <1>1, <1>7, TaskQueued
  <1> QED BY <1>3, <1>4, <1>5, <1>6, <1>7, Zenon DEF Pool!Exec

LEMMA ShutdownKeeps ==
    ASSUME PoolInv, Pool!Shutdown
    PROVE  PoolInv'
  <1>1. /\ UNCHANGED <<hasFallback, slots, activeTasks, allWorkersFailed, called, deaths>>
        /\ ending = "no" /\ ending' = "terminating" /\ backlog' = <<>>
        /\ settled' = [t \in Task |-> settled[t] + IF Queued(t) THEN 1 ELSE 0]
    BY DEF Pool!Shutdown, Pool!InBacklog, Queued
  <1>2. \A t \in Task : Queued(t) => settled[t] = 0 /\ t \in called
    BY DEF PoolInv, Placed, Pool!Waiting
  <1>3. /\ settled' \in [Task -> 0..1] /\ \A t \in Task : settled'[t] = IF Queued(t) THEN 1 ELSE settled[t]
    BY <1>1, <1>2 DEF PoolInv, PoolType
  <1>4. \A t \in Task : Pool!Waiting(t)' <=> Pool!Waiting(t) /\ ~Queued(t)
    BY <1>1, <1>3 DEF Pool!Waiting
  <1>5. (\A t \in Task : ~Queued(t)') /\ \A t \in Task : InSlot(t)' <=> InSlot(t)
    BY <1>1 DEF Queued, InSlot
  <1>6. PoolType'
    <2>1. backlog' \in Seq(Task) /\ Len(backlog') <= MaxQueueSize
      BY <1>1, JobsAssumption
    <2> QED BY <1>1, <1>3, <2>1 DEF PoolInv, PoolType
  <1>7. Placed'
    <2>1. \A t \in Task : t \notin called' => settled'[t] = 0
      BY <1>1, <1>2, <1>3 DEF PoolInv, Placed
    <2>2. /\ \A i, j \in DOMAIN slots' : slots'[i].task = slots'[j].task /\ slots'[i].task # "none" => i = j
          /\ \A k, l \in DOMAIN backlog' : backlog'[k] = backlog'[l] => k = l
      BY <1>1 DEF PoolInv, Placed
    <2>3. /\ \A t \in Task : InSlot(t)' => Pool!Waiting(t)' /\ ~Queued(t)'
          /\ \A t \in Task : Pool!Waiting(t)' => InSlot(t)' \/ Queued(t)'
      BY <1>1, <1>4, <1>5 DEF PoolInv, Placed
    <2> QED BY <1>5, <2>1, <2>2, <2>3 DEF Placed
  <1>8. Pool!Dispatched' = Pool!Dispatched
    BY <1>1 DEF Pool!Dispatched
  <1>9. Counting' /\ HandsFull' /\ \A i \in DOMAIN slots' : SlotOK(slots'[i])
    BY <1>1, <1>8 DEF PoolInv, Counting, HandsFull
  <1> QED BY <1>6, <1>7, <1>9 DEF PoolInv

LEMMA TerminatedKeeps ==
    ASSUME PoolInv, Pool!Terminated
    PROVE  PoolInv'
  <1>1. /\ UNCHANGED <<hasFallback, backlog, activeTasks, allWorkersFailed, settled, called, deaths>>
        /\ ending = "terminating" /\ ending' = "over" /\ slots' = <<>>
    BY DEF Pool!Terminated
  <1>2. backlog' = <<>> /\ DOMAIN slots' = {}
    BY <1>1 DEF PoolInv, HandsFull
  <1>3. PoolType'
    <2>1. slots' \in Seq(Pool!Slot) /\ Len(slots') <= MaxWorkers
      BY <1>1, JobsAssumption
    <2> QED BY <1>1, <2>1 DEF PoolInv, PoolType
  <1>4. Placed'
    BY <1>1, <1>2 DEF PoolInv, Placed, InSlot, Queued, Pool!Waiting
  <1> QED BY <1>1, <1>2, <1>3, <1>4 DEF PoolInv, Counting, HandsFull

LEMMA PoolStep == PoolInv /\ [Pool!Next]_Pool!poolVars => PoolInv'
  <1> SUFFICES ASSUME PoolInv, [Pool!Next]_Pool!poolVars PROVE PoolInv'
    OBVIOUS
  <1>1. CASE UNCHANGED Pool!poolVars
    BY <1>1 DEF Pool!poolVars, PoolInv, PoolType, Placed, HandsFull, Counting, InSlot, Queued, Pool!Waiting, Pool!Dispatched
  <1> QED
    BY <1>1, ExecKeeps, OnlineKeeps, MessageKeeps, StartupErrorKeeps, IdleDiesKeeps, ShutdownKeeps, TerminatedKeeps
    DEF Pool!Next, Pool!Answer

\* A waiting task is in one slot, or at one position of the queue.
LEMMA OnePlace ==
    ASSUME PoolInv, ending # "over", NEW t \in Task, Pool!Waiting(t)
    PROVE  Cardinality({i \in DOMAIN slots : slots[i].task = t}
                       \cup {MaxWorkers + k : k \in {j \in DOMAIN backlog : backlog[j] = t}}) = 1
  <1> DEFINE inSlots == {i \in DOMAIN slots : slots[i].task = t}
             inQueue == {j \in DOMAIN backlog : backlog[j] = t}
  <1>1. t # "none"
    BY JobsAssumption
  <1>2. PICK x : inSlots \cup {MaxWorkers + k : k \in inQueue} = {x}
    <2>1. CASE InSlot(t)
      <3>1. PICK i \in DOMAIN slots : slots[i].task = t
        BY <2>1 DEF InSlot
      <3>2. inSlots = {i}
        BY <1>1, <3>1 DEF PoolInv, Placed
      <3>3. inQueue = {}
        BY <2>1 DEF PoolInv, Placed, Queued
      <3>4. {MaxWorkers + k : k \in inQueue} = {}
        BY <3>3
      <3>5. inSlots \cup {MaxWorkers + k : k \in inQueue} = {i}
        BY <3>2, <3>4
      <3> QED BY <3>5
    <2>2. CASE ~InSlot(t)
      <3>1. PICK k \in DOMAIN backlog : backlog[k] = t
        BY <2>2 DEF PoolInv, Placed, Queued
      <3>2. inQueue = {k}
        BY <3>1 DEF PoolInv, Placed
      <3>3. inSlots = {}
        BY <2>2 DEF InSlot
      <3>4. {MaxWorkers + l : l \in inQueue} = {MaxWorkers + k}
        BY <3>2
      <3>5. inSlots \cup {MaxWorkers + l : l \in inQueue} = {MaxWorkers + k}
        BY <3>3, <3>4
      <3> QED BY <3>5
    <2> QED BY <2>1, <2>2
  <1> HIDE DEF inSlots, inQueue
  <1>3. Cardinality(inSlots \cup {MaxWorkers + k : k \in inQueue}) = 1
    BY <1>2, FS_Singleton
  <1> QED BY <1>3 DEF inSlots, inQueue

\* WorkerPool.exec and its handlers keep their books whichever threads fail, when,
\* and however many there are: a call that waits is with one worker or once in the
\* queue, no promise is settled twice, nothing is queued while a worker is idle or
\* could be started, and activeTasks counts the dispatched tasks.
THEOREM PoolIsAccounted == Pool!Spec => []PoolAccounted
  <1>1. ASSUME PoolInv PROVE PoolAccounted
    <2>1. Pool!PoolTypeOK
      <3>1. \A i \in DOMAIN slots : slots[i] \in Pool!Slot
        BY <1>1, SlotsAre DEF PoolInv
      <3>2. settled \in [Task -> Nat]
        BY <1>1 DEF PoolInv, PoolType
      <3> QED BY <1>1, <3>1, <3>2 DEF PoolInv, PoolType, Pool!PoolTypeOK
    <2>2. Pool!EveryTaskPlaced
      <3>1. \A t \in Task : settled[t] <= 1
        BY <1>1 DEF PoolInv, PoolType
      <3>2. ASSUME ending # "over", NEW t \in Task, Pool!Waiting(t)
            PROVE  Pool!Cardinality({i \in DOMAIN slots : slots[i].task = t}
                       \cup {MaxWorkers + k : k \in {j \in DOMAIN backlog : backlog[j] = t}}) = 1
        BY <1>1, <3>2, OnePlace, SameCount
      <3> QED BY <3>1, <3>2 DEF Pool!EveryTaskPlaced
    <2>3. Pool!NoIdleHands
      <3>1. ASSUME ending # "over" PROVE activeTasks = Pool!Cardinality(Pool!Dispatched)
        BY <1>1, <3>1, SameCount DEF PoolInv, Counting
      <3>2. ASSUME backlog # <<>> PROVE Len(slots) = MaxWorkers /\ Pool!Idle = {}
        BY <1>1, <3>2 DEF PoolInv, HandsFull, Pool!Idle
      <3> QED BY <3>1, <3>2 DEF Pool!NoIdleHands
    <2> QED BY <2>1, <2>2, <2>3 DEF PoolAccounted, Pool!PoolAccounted
  <1> QED
    BY <1>1, PoolInit, PoolStep, PTL DEF Pool!Spec
============================================================================

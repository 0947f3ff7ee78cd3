------------------------ MODULE StreamRecordsProofs ------------------------
(***************************************************************************)
(* Proofs about what the API does to its state, for every number of        *)
(* servers, calls and chain events: the row of a stream implements         *)
(* StreamLifecycle, subscribers hear of an event once and an acknowledged  *)
(* one has taken effect; an idempotency key means one stream; the admin    *)
(* state; the request rate limiter.                                        *)
(***************************************************************************)
EXTENDS MCApi, FiniteSetTheorems, SequenceTheorems, TLAPS

At == {"free", "dedup", "insert", "conflict", "byEvent", "find", "current", "write"}
Call == [at : At, event : Event \cup {None}, to : RowStatus \cup {None}, base : RowStatus \cup {None}]

\* A call about to write has read a status from which its own may be reached;
\* only creations insert, and they do nothing else.
CallOK(c) ==
    /\ c.at \in {"dedup", "insert", "conflict", "byEvent"} => c.event \in Event
    /\ c.at \in {"find", "current", "write"} /\ c.event \in Event => EventType[c.event] # "created"
    /\ c.at = "write" =>
          c.base \in Life!StreamStatus /\ (c.to = None \/ c.to \in Life!Allowed(c.base))

CallInv == call \in [Actor -> Call] /\ \A a \in Actor : CallOK(call[a])

LEMMA FreeOK == Free \in Call /\ CallOK(Free)
  BY EventAssumption DEF Free, Call, At, CallOK, None

\* A call that ends, and one that goes on.
LEMMA EndKeepsCalls ==
    ASSUME CallInv, NEW a \in Actor, call' = [call EXCEPT ![a] = Free]
    PROVE  CallInv'
  BY FreeOK DEF CallInv

LEMMA MoveKeepsCalls ==
    ASSUME CallInv, NEW a \in Actor, NEW c \in Call, CallOK(c), call' = [call EXCEPT ![a] = c]
    PROVE  CallInv'
  BY DEF CallInv

LEMMA GotoKeepsCalls ==
    ASSUME CallInv, NEW a \in Actor, NEW where \in At \ {"write"}, Goto(a, where),
           CallOK([call[a] EXCEPT !.at = where])
    PROVE  CallInv'
  <1>1. [call[a] EXCEPT !.at = where] \in Call
    BY DEF CallInv, Call
  <1>2. call' = [call EXCEPT ![a] = [call[a] EXCEPT !.at = where]]
    BY DEF Goto, CallInv
  <1> QED BY <1>1, <1>2, MoveKeepsCalls

LEMMA BeginOK ==
    ASSUME NEW c \in Call, c.event \in Event, c.at = "dedup"
    PROVE  /\ Begin(c.event) \in {"insert", "find", "current"}
           /\ CallOK([c EXCEPT !.at = Begin(c.event)])
  BY EventAssumption DEF Begin, Call, CallOK

LEMMA CallStep == CallInv /\ row \in RowStatus /\ [Next]_streamVars => CallInv'
  <1> SUFFICES ASSUME CallInv, row \in RowStatus, [Next]_streamVars PROVE CallInv'
    OBVIOUS
  <1>1. ASSUME NEW a \in Actor, NEW e \in Event, DeliverEvent(a, e) PROVE CallInv'
    <2> DEFINE new == [at |-> "dedup", event |-> e, base |-> None,
                       to |-> CASE EventType[e] = "created" -> "active"
                                [] EventType[e] = "updated" -> EventStatus[e]
                                [] EventType[e] = "cancelled" -> "cancelled"]
    <2>1. new \in Call /\ CallOK(new)
      BY EventAssumption DEF Call, CallOK, At, RowStatus, Life!StreamStatus, None
    <2>2. call' = [call EXCEPT ![a] = new]
      BY <1>1 DEF DeliverEvent
    <2> QED BY <2>1, <2>2 DEF CallInv
  <1>2. ASSUME NEW a \in Actor, NEW to \in Life!StreamStatus, ApiRequest(a, to) \/ BulkAction(a, to)
        PROVE  CallInv'
    <2>1. PICK at \in {"find", "current"} :
             call' = [call EXCEPT ![a] = [at |-> at, event |-> None, to |-> to, base |-> None]]
      BY <1>2 DEF ApiRequest, BulkAction, Request
    <2>2. /\ [at |-> at, event |-> None, to |-> to, base |-> None] \in Call
          /\ CallOK([at |-> at, event |-> None, to |-> to, base |-> None])
      BY EventAssumption DEF Call, CallOK, At, RowStatus, Life!StreamStatus
    <2> QED BY <2>1, <2>2, MoveKeepsCalls
  <1>3. ASSUME NEW a \in Actor, Dedup(a) \/ DedupFallback(a) PROVE CallInv'
    <2>1. call[a].at = "dedup" /\ (Goto(a, Begin(Ev(a))) \/ Succeed(a))
      BY <1>3 DEF Dedup, DedupFallback
    <2>2. call[a] \in Call /\ Ev(a) \in Event /\ Ev(a) = call[a].event
      BY <2>1 DEF CallInv, CallOK, Ev
    <2>3. CASE Goto(a, Begin(Ev(a)))
      <3>1. Begin(Ev(a)) \in At \ {"write"} /\ CallOK([call[a] EXCEPT !.at = Begin(Ev(a))])
        BY <2>1, <2>2, BeginOK DEF At
      <3> QED BY <2>3, <3>1, GotoKeepsCalls
    <2> QED BY <2>1, <2>3, EndKeepsCalls DEF Succeed
  <1>4. ASSUME NEW a \in Actor, InsertStream(a) \/ AfterConflict(a) PROVE CallInv'
    <2>1. call[a] \in Call /\ call[a].event \in Event
      BY <1>4 DEF InsertStream, AfterConflict, CallInv, CallOK
    <2>2. ASSUME NEW where \in {"conflict", "byEvent"}, Goto(a, where) PROVE CallInv'
      <3>1. where \in At \ {"write"} /\ CallOK([call[a] EXCEPT !.at = where])
        BY <2>1 DEF At, Call, CallOK
      <3> QED BY <2>2, <3>1, GotoKeepsCalls
    <2>3. Goto(a, "conflict") \/ Goto(a, "byEvent") \/ call' = [call EXCEPT ![a] = Free]
      BY <1>4 DEF InsertStream, AfterConflict, Succeed, Fail
    <2> QED BY <2>2, <2>3, EndKeepsCalls
  <1>5. ASSUME NEW a \in Actor, Find(a) PROVE CallInv'
    <2>1. call[a] \in Call /\ CallOK(call[a]) /\ call[a].at = "find"
      BY <1>5 DEF Find, CallInv
    <2>2. CASE Goto(a, "current")
      <3>1. "current" \in At \ {"write"} /\ CallOK([call[a] EXCEPT !.at = "current"])
        BY <2>1 DEF At, Call, CallOK
      <3> QED BY <2>2, <3>1, GotoKeepsCalls
    <2>3. Goto(a, "current") \/ call' = [call EXCEPT ![a] = Free]
      BY <1>5 DEF Find, Fail
    <2> QED BY <2>2, <2>3, EndKeepsCalls
  <1>6. ASSUME NEW a \in Actor, ReadCurrent(a) PROVE CallInv'
    <2>1. call[a] \in Call /\ CallOK(call[a]) /\ call[a].at = "current"
      BY <1>6 DEF ReadCurrent, CallInv
    <2>2. CASE row = "absent" \/ (call[a].to # None /\ call[a].to \notin Life!Allowed(row))
      BY <1>6, <2>2, EndKeepsCalls DEF ReadCurrent, Fail
    <2>3. CASE ~(row = "absent" \/ (call[a].to # None /\ call[a].to \notin Life!Allowed(row)))
      <3> DEFINE c == [call[a] EXCEPT !.at = "write", !.base = row]
      <3>1. call' = [call EXCEPT ![a] = c]
        BY <1>6, <2>3 DEF ReadCurrent, CallInv
      <3>2. row \in Life!StreamStatus
        BY <2>3 DEF RowStatus, Life!StreamStatus
      <3>3. c \in Call
        BY <2>1 DEF Call, At
      <3>4. c.at = "write" /\ c.base = row /\ c.to = call[a].to /\ c.event = call[a].event
        BY <2>1 DEF Call
      <3>5. CallOK(c)
        BY <2>1, <2>3, <3>2, <3>4 DEF CallOK
      <3> QED BY <3>1, <3>3, <3>5, MoveKeepsCalls
    <2> QED BY <2>2, <2>3
  <1>7. ASSUME NEW a \in Actor, UpdateStream(a) \/ StatusConflict(a) PROVE CallInv'
    BY <1>7, EndKeepsCalls DEF UpdateStream, StatusConflict, LostRace, Succeed, Fail
  <1>8. ASSUME NEW p \in Server, Restart(p) PROVE CallInv'
    <2>1. /\ call' = [a \in Actor |-> call'[a]]
          /\ \A a \in Actor : call'[a] = Free \/ call'[a] = call[a]
      BY <1>8 DEF Restart
    <2> QED BY <2>1, FreeOK DEF CallInv
  <1>9. CASE Replay \/ (\E e \in Event : WindowEnds(e)) \/ UNCHANGED streamVars
    BY <1>9 DEF Replay, WindowEnds, streamVars, CallInv
  <1> QED
    BY <1>1, <1>2, <1>3, <1>4, <1>5, <1>6, <1>7, <1>8, <1>9 DEF Next, Handle

----------------------------------------------------------------------------
(* Refinement                                                              *)

RowInv == row \in RowStatus /\ CallInv

\* Every step creates the row, moves it along the table or leaves it alone.
LEMMA RowStep == RowInv /\ [Next]_streamVars => [Lifecycle!Next]_row
  <1> SUFFICES ASSUME RowInv, [Next]_streamVars PROVE [Lifecycle!Next]_row
    OBVIOUS
  <1>1. ASSUME NEW a \in Actor, InsertStream(a) PROVE [Lifecycle!Next]_row
    BY <1>1 DEF InsertStream, Commit, dbVars, Lifecycle!Next, Lifecycle!Create
  <1>2. ASSUME NEW a \in Actor, UpdateStream(a) PROVE [Lifecycle!Next]_row
    <2>1. CallOK(call[a]) /\ call[a].at = "write" /\ row = call[a].base
      BY <1>2 DEF RowInv, CallInv, UpdateStream, StatusMatches
    <2>2. row' = (IF call[a].to = None THEN row ELSE call[a].to)
      BY <1>2 DEF UpdateStream, Commit
    <2>3. row \in Lifecycle!StreamStatus /\ (call[a].to = None \/ call[a].to \in Lifecycle!Allowed(row))
      BY <2>1 DEF CallOK, Life!StreamStatus, Life!Allowed, Lifecycle!StreamStatus, Lifecycle!Allowed
    <2> QED BY <2>2, <2>3 DEF Lifecycle!Next, Lifecycle!Transition
  <1>3. ASSUME NEW a \in Actor,
               \/ Dedup(a) \/ DedupFallback(a) \/ AfterConflict(a) \/ Find(a) \/ ReadCurrent(a)
               \/ StatusConflict(a)
        PROVE  UNCHANGED row
    BY <1>3 DEF Dedup, DedupFallback, AfterConflict, Find, ReadCurrent, StatusConflict, dbVars
  <1>4. ASSUME NEW a \in Actor, NEW e \in Event, DeliverEvent(a, e) PROVE UNCHANGED row
    BY <1>4 DEF DeliverEvent, dbVars
  <1>5. ASSUME NEW a \in Actor, NEW to \in Life!StreamStatus, ApiRequest(a, to) \/ BulkAction(a, to)
        PROVE  UNCHANGED row
    BY <1>5 DEF ApiRequest, BulkAction, Request, dbVars
  <1>6. ASSUME NEW p \in Server, Restart(p) PROVE UNCHANGED row
    BY <1>6 DEF Restart, dbVars
  <1>7. CASE Replay \/ (\E e \in Event : WindowEnds(e)) \/ UNCHANGED streamVars
    BY <1>7 DEF Replay, WindowEnds, dbVars, streamVars
  <1> QED
    BY <1>1, <1>2, <1>3, <1>4, <1>5, <1>6, <1>7 DEF Next, Handle

LEMMA RowTyped == row \in RowStatus /\ [Lifecycle!Next]_row => row' \in RowStatus
  BY DEF RowStatus, Lifecycle!Next, Lifecycle!Create, Lifecycle!Transition, Lifecycle!Allowed

LEMMA RowInvInductive == Spec => []RowInv
  <1>1. Init => RowInv
    BY FreeOK DEF Init, RowInv, RowStatus, CallInv
  <1>2. RowInv /\ [Next]_streamVars => RowInv'
    BY CallStep, RowStep, RowTyped DEF RowInv
  <1> QED BY <1>1, <1>2, PTL DEF Spec

\* The streams table implements StreamLifecycle whatever the number of events,
\* requests and servers, however far the replica lags and whatever the dedup
\* cache forgets: the status moves only along the transition table.
THEOREM RowFollowsLifecycle == Spec => FollowsLifecycle
  <1>1. Init => Lifecycle!Init
    BY DEF Init, Lifecycle!Init
  <1> QED BY <1>1, RowInvInductive, RowStep, PTL DEF Spec, FollowsLifecycle, Lifecycle!Spec

----------------------------------------------------------------------------
(* One broadcast per event                                                 *)

\* Call a has passed the dedup cache with event e.
Passed(a, e) == call[a].event = e /\ call[a].at \notin {"free", "dedup"}

CreationsOnce ==
    \A e \in Event : EventType[e] = "created" =>
        broadcasts[e] <= 1 /\ (row = "absent" => broadcasts[e] = 0)

\* As long as the dedup cache forgot nothing, whoever passed it with an event is
\* the only one, and the event has not been broadcast.
DedupHolds ==
    \A e \in Event :
        /\ broadcasts[e] <= 1
        /\ e \notin redisSeen => broadcasts[e] = 0
        /\ \A a \in Actor : Passed(a, e) =>
              e \in redisSeen /\ broadcasts[e] = 0 /\ \A b \in Actor : Passed(b, e) => b = a

OnceInv ==
    /\ broadcasts \in [Event -> Nat]
    /\ CreationsOnce
    /\ degraded \/ DedupHolds

\* A step that broadcasts nothing and lets nobody pass.
LEMMA QuietKeepsOnce ==
    ASSUME OnceInv, UNCHANGED <<broadcasts, redisSeen, degraded>>,
           row' = "absent" => row = "absent",
           \A a \in Actor : \A e \in Event : Passed(a, e)' => Passed(a, e)
    PROVE  OnceInv'
  <1>1. CreationsOnce'
    BY DEF OnceInv, CreationsOnce
  <1>2. DedupHolds => DedupHolds'
    BY DEF DedupHolds
  <1> QED BY <1>1, <1>2 DEF OnceInv

\* A call ends after it broadcast its event.
LEMMA BroadcastKeepsOnce ==
    ASSUME OnceInv, CallInv, NEW a \in Actor, call[a].event \in Event,
           call[a].at \notin {"free", "dedup"}, call' = [call EXCEPT ![a] = Free],
           broadcasts' = [broadcasts EXCEPT ![call[a].event] = @ + 1],
           UNCHANGED <<redisSeen, degraded>>,
           EventType[call[a].event] = "created" => row = "absent",
           row' # "absent"
    PROVE  OnceInv'
  <1> DEFINE e == call[a].event
  <1>1. broadcasts' \in [Event -> Nat] /\ broadcasts'[e] = broadcasts[e] + 1
        /\ \A f \in Event \ {e} : broadcasts'[f] = broadcasts[f]
    BY DEF OnceInv
  <1>2. CreationsOnce'
    BY <1>1 DEF OnceInv, CreationsOnce
  <1>3. ASSUME NEW b \in Actor, NEW f \in Event, Passed(b, f)' PROVE Passed(b, f) /\ b # a
    BY <1>3 DEF Passed, CallInv, Free, None
  <1>4. ASSUME DedupHolds PROVE DedupHolds'
    <2>1. Passed(a, e)
      BY DEF Passed
    <2>2. e \in redisSeen /\ broadcasts[e] = 0 /\ \A b \in Actor : Passed(b, e) => b = a
      BY <1>4, <2>1 DEF DedupHolds
    <2>3. ASSUME NEW f \in Event
          PROVE  /\ broadcasts'[f] <= 1
                 /\ f \notin redisSeen' => broadcasts'[f] = 0
                 /\ \A b \in Actor : Passed(b, f)' =>
                       f \in redisSeen' /\ broadcasts'[f] = 0 /\ \A c \in Actor : Passed(c, f)' => c = b
      <3>1. CASE f = e
        BY <1>1, <1>3, <2>2, <3>1
      <3>2. CASE f # e
        BY <1>1, <1>3, <1>4, <3>2 DEF DedupHolds
      <3> QED BY <3>1, <3>2
    <2> QED BY <2>3 DEF DedupHolds
  <1> QED BY <1>1, <1>2, <1>4 DEF OnceInv

\* Nothing is broadcast and the dedup cache may have forgotten something.
LEMMA DegradedKeepsOnce ==
    ASSUME OnceInv, UNCHANGED <<broadcasts, row>>, degraded' = TRUE
    PROVE  OnceInv'
  <1>1. degraded'
    BY Zenon
  <1>2. CreationsOnce'
    BY DEF OnceInv, CreationsOnce
  <1> QED BY <1>1, <1>2 DEF OnceInv

LEMMA OnceStep == RowInv /\ OnceInv /\ [Next]_streamVars => OnceInv'
  <1> SUFFICES ASSUME RowInv, OnceInv, [Next]_streamVars PROVE OnceInv'
    OBVIOUS
  <1> USE DEF RowInv
  <1>1. ASSUME NEW a \in Actor, NEW e \in Event, DeliverEvent(a, e) PROVE OnceInv'
    <2>1. /\ UNCHANGED <<broadcasts, redisSeen, degraded, row>>
          /\ call'[a].at = "dedup" /\ \A b \in Actor \ {a} : call'[b] = call[b]
      BY <1>1 DEF DeliverEvent, dbVars, dedupVars, outcome, CallInv
    <2> QED BY <2>1, QuietKeepsOnce DEF Passed
  <1>2. ASSUME NEW a \in Actor, NEW to \in Life!StreamStatus, ApiRequest(a, to) \/ BulkAction(a, to)
        PROVE  OnceInv'
    <2>1. /\ UNCHANGED <<broadcasts, redisSeen, degraded, row>>
          /\ call'[a].event = None /\ \A b \in Actor \ {a} : call'[b] = call[b]
      BY <1>2 DEF ApiRequest, BulkAction, Request, dbVars, dedupVars, outcome, CallInv
    <2> QED BY <2>1, QuietKeepsOnce, EventAssumption DEF Passed
  <1>3. ASSUME NEW a \in Actor, Dedup(a) PROVE OnceInv'
    <2> DEFINE e == Ev(a)
    <2>1. /\ e \in Event /\ call[a].at = "dedup" /\ UNCHANGED <<broadcasts, degraded, row>>
          /\ redisSeen' = redisSeen \cup {e}
      BY <1>3 DEF Dedup, CallInv, CallOK, Ev, dbVars
    <2>2. \A b \in Actor \ {a} : call'[b] = call[b]
      BY <1>3 DEF Dedup, Goto, Succeed, CallInv
    <2>3. CASE IsNew(a, e)
      <3>1. e \notin redisSeen
        BY <2>3 DEF IsNew
      <3>2. call'[a].event = e
        BY <1>3, <2>3 DEF Dedup, Goto, CallInv, Ev, Call
      <3>3. DedupHolds => DedupHolds'
        BY <2>1, <2>2, <3>1, <3>2 DEF DedupHolds, Passed
      <3>4. CreationsOnce'
        BY <2>1 DEF OnceInv, CreationsOnce
      <3> QED BY <2>1, <3>3, <3>4 DEF OnceInv
    <2>4. CASE ~IsNew(a, e)
      <3>1. call'[a].at = "free"
        BY <1>3, <2>4 DEF Dedup, Succeed, CallInv, Free
      <3>2. \A b \in Actor : \A f \in Event : Passed(b, f)' => Passed(b, f)
        BY <2>2, <3>1 DEF Passed
      <3>3. DedupHolds => DedupHolds'
        BY <2>1, <3>2 DEF DedupHolds
      <3>4. CreationsOnce'
        BY <2>1 DEF OnceInv, CreationsOnce
      <3> QED BY <2>1, <3>3, <3>4 DEF OnceInv
    <2> QED BY <2>3, <2>4
  <1>4. ASSUME NEW a \in Actor, DedupFallback(a) PROVE OnceInv'
    BY <1>4, DegradedKeepsOnce DEF DedupFallback, dbVars
  <1>5. ASSUME NEW a \in Actor, InsertStream(a) PROVE OnceInv'
    <2>1. call[a].event \in Event /\ call[a].at = "insert" /\ UNCHANGED <<redisSeen, degraded>>
      BY <1>5 DEF InsertStream, CallInv, CallOK, dedupVars
    <2>2. CASE row = "absent"
      <3>1. /\ broadcasts' = [broadcasts EXCEPT ![call[a].event] = @ + 1]
            /\ call' = [call EXCEPT ![a] = Free] /\ row' = "active"
        BY <1>5, <2>2 DEF InsertStream, Created, Commit, Succeed, Ev
      <3> QED BY <2>1, <2>2, <3>1, BroadcastKeepsOnce
    <2>3. CASE row # "absent"
      <3>1. UNCHANGED <<broadcasts, row>> /\ Goto(a, "conflict")
        BY <1>5, <2>3 DEF InsertStream, Created, dbVars
      <3>2. \A b \in Actor : \A f \in Event : Passed(b, f)' => Passed(b, f)
        BY <2>1, <3>1 DEF Goto, Passed, CallInv, Call
      <3> QED BY <2>1, <3>1, <3>2, QuietKeepsOnce
    <2> QED BY <2>2, <2>3
  <1>6. ASSUME NEW a \in Actor, AfterConflict(a) \/ Find(a) \/ ReadCurrent(a) \/ StatusConflict(a)
        PROVE  OnceInv'
    <2>1. UNCHANGED <<broadcasts, redisSeen, degraded, row>> /\ call[a].at \notin {"free", "dedup"}
      BY <1>6 DEF AfterConflict, Find, ReadCurrent, StatusConflict, dbVars, dedupVars
    <2>2. \/ call' = [call EXCEPT ![a] = Free]
          \/ Goto(a, "byEvent") \/ Goto(a, "current")
          \/ call' = [call EXCEPT ![a].at = "write", ![a].base = row]
      BY <1>6 DEF AfterConflict, Find, ReadCurrent, StatusConflict, LostRace, Succeed, Fail
    <2>3. ASSUME NEW b \in Actor, NEW f \in Event, Passed(b, f)' PROVE Passed(b, f)
      BY <2>1, <2>2, <2>3 DEF Goto, Passed, CallInv, Call, Free
    <2> QED BY <2>1, <2>3, QuietKeepsOnce
  <1>7. ASSUME NEW a \in Actor, UpdateStream(a) PROVE OnceInv'
    <2>1. /\ CallOK(call[a]) /\ call[a].at = "write" /\ call[a] \in Call
          /\ call' = [call EXCEPT ![a] = Free] /\ UNCHANGED <<redisSeen, degraded>>
      BY <1>7 DEF UpdateStream, Succeed, CallInv, dedupVars
    <2>2. row' # "absent"
      <3>1. row \in Life!StreamStatus /\ (call[a].to = None \/ call[a].to \in Life!Allowed(row))
        BY <1>7, <2>1 DEF UpdateStream, StatusMatches, CallOK
      <3>2. row' = (IF call[a].to = None THEN row ELSE call[a].to)
        BY <1>7 DEF UpdateStream, Commit
      <3> QED BY <3>1, <3>2 DEF Life!StreamStatus, Life!Allowed
    <2>3. CASE call[a].event # None
      <3>1. call[a].event \in Event /\ EventType[call[a].event] # "created"
        BY <2>1, <2>3 DEF CallOK, Call
      <3>2. broadcasts' = [broadcasts EXCEPT ![call[a].event] = @ + 1]
        BY <1>7, <2>3 DEF UpdateStream, Broadcast, IsEvent, Ev
      <3> QED BY <2>1, <2>2, <3>1, <3>2, BroadcastKeepsOnce
    <2>4. CASE call[a].event = None
      <3>1. UNCHANGED broadcasts
        BY <1>7, <2>4 DEF UpdateStream, Broadcast, IsEvent
      <3>2. \A b \in Actor : \A f \in Event : Passed(b, f)' => Passed(b, f)
        BY <2>1 DEF Passed, CallInv, Free
      <3> QED BY <2>1, <2>2, <3>1, <3>2, QuietKeepsOnce
    <2> QED BY <2>3, <2>4
  <1>8. ASSUME NEW p \in Server, Restart(p) PROVE OnceInv'
    <2>1. /\ UNCHANGED <<broadcasts, redisSeen, degraded, row>>
          /\ \A b \in Actor : call'[b] = Free \/ call'[b] = call[b]
      BY <1>8 DEF Restart, dbVars
    <2>2. \A b \in Actor : \A f \in Event : Passed(b, f)' => Passed(b, f)
      BY <2>1 DEF Passed, Free
    <2> QED BY <2>1, <2>2, QuietKeepsOnce
  <1>9. ASSUME NEW e \in Event, WindowEnds(e) PROVE OnceInv'
    BY <1>9, DegradedKeepsOnce DEF WindowEnds, dbVars, outcome
  <1>10. CASE Replay \/ UNCHANGED streamVars
    <2>1. UNCHANGED <<broadcasts, redisSeen, degraded, row, call>>
      BY <1>10 DEF Replay, streamVars, dedupVars, outcome
    <2> QED BY <2>1, QuietKeepsOnce DEF Passed
  <1> QED
    BY <1>1, <1>2, <1>3, <1>4, <1>5, <1>6, <1>7, <1>8, <1>9, <1>10 DEF Next, Handle

\* Subscribers hear of a creation once, and of any other event once as long as
\* the dedup cache lost nothing, for every number of deliveries of each event,
\* of handler calls and of servers.
THEOREM EventsBroadcastOnce == Spec => []BroadcastOnce
  <1>1. Init => OnceInv
    BY DEF Init, OnceInv, CreationsOnce, DedupHolds, Passed, Free
  <1>2. OnceInv => BroadcastOnce
    BY DEF OnceInv, CreationsOnce, DedupHolds, BroadcastOnce
  <1> QED BY <1>1, <1>2, OnceStep, RowInvInductive, PTL DEF Spec

----------------------------------------------------------------------------
(* Acknowledged events have taken effect                                   *)

\* A dedup key of the event is somewhere.
Seen(e) == e \in redisSeen \/ \E p \in Server : e \in memSeen[p]

\* A delivery of the event failed, or it took effect.
Settled(e) == failed[e] \/ applied[e] \/ (EventType[e] = "created" /\ row # "absent")

\* An event that is ignored as a duplicate, or was acknowledged, is settled or
\* in the hands of a call that passed the dedup cache with it.
SeenIsSettled ==
    \A e \in Event : Seen(e) \/ acked[e] => Settled(e) \/ \E a \in Actor : Passed(a, e)

\* Only a creation inserts, and its conflict was with a row.
CreationOK(a) ==
    /\ call[a].at \in {"insert", "conflict", "byEvent"} => EventType[call[a].event] = "created"
    /\ call[a].at \in {"conflict", "byEvent"} => row # "absent"

EffectInv == SeenIsSettled /\ \A a \in Actor : CreationOK(a)

\* What a step owes: what was settled stays so, a new key or acknowledgement is
\* accounted for, and whoever lets go of an event settles it.
LEMMA EffectMoves ==
    ASSUME EffectInv,
           \A e \in Event : Settled(e) => Settled(e)',
           \A e \in Event : (Seen(e) \/ acked[e])' =>
               Seen(e) \/ acked[e] \/ Settled(e)' \/ \E a \in Actor : Passed(a, e)',
           \A a \in Actor, e \in Event : Passed(a, e) => Passed(a, e)' \/ Settled(e)',
           \A a \in Actor : CreationOK(a)'
    PROVE  EffectInv'
  <1>1. ASSUME NEW e \in Event, (Seen(e) \/ acked[e])'
        PROVE  Settled(e)' \/ \E a \in Actor : Passed(a, e)'
    <2>1. CASE Seen(e) \/ acked[e]
      <3>1. Settled(e) \/ \E a \in Actor : Passed(a, e)
        BY <2>1 DEF EffectInv, SeenIsSettled
      <3> QED BY <3>1
    <2> QED BY <1>1, <2>1
  <1> QED BY <1>1, Zenon DEF EffectInv, SeenIsSettled

\* The types of what neither RowInv nor OnceInv speaks of.
FlagsType ==
    /\ applied \in [Event -> BOOLEAN] /\ acked \in [Event -> BOOLEAN] /\ failed \in [Event -> BOOLEAN]
DataType ==
    /\ replica \in RowStatus /\ wal \in Seq(RowStatus)
    /\ redisSeen \subseteq Event /\ memSeen \in [Server -> SUBSET Event]
CountType ==
    /\ delivered \in [Event -> 0..MaxDelivered] /\ requests \in 0..MaxRequests
    /\ trouble \in 0..MaxTrouble /\ degraded \in BOOLEAN

\* One more event in a history.
LEMMA MarkOne ==
    ASSUME NEW f \in [Event -> BOOLEAN], NEW e \in Event
    PROVE  /\ [f EXCEPT ![e] = TRUE] \in [Event -> BOOLEAN]
           /\ [f EXCEPT ![e] = TRUE][e] = TRUE
           /\ \A d \in Event \ {e} : [f EXCEPT ![e] = TRUE][d] = f[d]
  OBVIOUS

\* What the end of a call does to the histories.
LEMMA EndMarks ==
    ASSUME FlagsType, CallInv, NEW a \in Actor, Succeed(a) \/ Fail(a)
    PROVE  /\ acked' \in [Event -> BOOLEAN] /\ failed' \in [Event -> BOOLEAN]
           /\ \A e \in Event : (acked[e] => acked'[e]) /\ (failed[e] => failed'[e])
           /\ \A e \in Event : acked'[e] => acked[e] \/ (Succeed(a) /\ e = call[a].event)
           /\ call[a].event \in Event /\ Fail(a) => failed'[call[a].event]
  <1>1. call[a].event \in Event \cup {None}
    BY DEF CallInv, Call
  <1>2. CASE call[a].event = None
    BY <1>2, EventAssumption DEF Succeed, Fail, IsEvent, FlagsType
  <1>3. CASE call[a].event \in Event
    <2>1. call[a].event # None
      BY <1>3, EventAssumption
    <2>2. CASE Succeed(a)
      <3>1. acked' = [acked EXCEPT ![call[a].event] = TRUE] /\ failed' = failed
        BY <2>1, <2>2 DEF Succeed, IsEvent, Ev
      <3>2. Fail(a) => failed'[call[a].event]
        <4>1. Fail(a) => failed' = [failed EXCEPT ![call[a].event] = TRUE]
          BY <2>1 DEF Fail, IsEvent, Ev
        <4> QED BY <4>1, <1>3, MarkOne DEF FlagsType
      <3> QED BY <3>1, <3>2, <2>2, <1>3, MarkOne DEF FlagsType
    <2>3. CASE Fail(a)
      <3>1. failed' = [failed EXCEPT ![call[a].event] = TRUE] /\ acked' = acked
        BY <2>1, <2>3 DEF Fail, IsEvent, Ev
      <3> QED BY <3>1, <1>3, MarkOne DEF FlagsType
    <2> QED BY <2>2, <2>3
  <1> QED BY <1>1, <1>2, <1>3

LEMMA FlagsStep == RowInv /\ FlagsType /\ [Next]_streamVars => FlagsType'
  <1> SUFFICES ASSUME RowInv, FlagsType, [Next]_streamVars PROVE FlagsType'
    OBVIOUS
  <1> USE DEF RowInv
  <1>1. ASSUME NEW a \in Actor, Succeed(a) \/ Fail(a), UNCHANGED applied PROVE FlagsType'
    BY <1>1, EndMarks DEF FlagsType
  <1>2. ASSUME UNCHANGED <<applied, acked, failed>> PROVE FlagsType'
    BY <1>2 DEF FlagsType
  <1>3. ASSUME NEW a \in Actor, NEW e \in Event, DeliverEvent(a, e) PROVE FlagsType'
    BY <1>2, <1>3 DEF DeliverEvent, outcome
  <1>4. ASSUME NEW a \in Actor, NEW to \in Life!StreamStatus, ApiRequest(a, to) \/ BulkAction(a, to)
        PROVE  FlagsType'
    BY <1>2, <1>4 DEF ApiRequest, BulkAction, Request, outcome
  <1>5. ASSUME NEW a \in Actor, Dedup(a) \/ DedupFallback(a) \/ AfterConflict(a) \/ Find(a)
                                \/ ReadCurrent(a) \/ StatusConflict(a)
        PROVE  FlagsType'
    BY <1>1, <1>2, <1>5 DEF Dedup, DedupFallback, AfterConflict, Find, ReadCurrent, StatusConflict,
                            LostRace
  <1>6. ASSUME NEW a \in Actor, InsertStream(a) PROVE FlagsType'
    <2>1. call[a].event \in Event
      BY <1>6 DEF InsertStream, CallInv, CallOK
    <2>2. CASE row = "absent"
      <3>1. Succeed(a) /\ applied' = [applied EXCEPT ![call[a].event] = TRUE]
        BY <1>6, <2>2 DEF InsertStream, Ev
      <3> QED BY <2>1, <3>1, EndMarks, MarkOne DEF FlagsType
    <2>3. CASE row # "absent"
      BY <1>2, <1>6, <2>3 DEF InsertStream
    <2> QED BY <2>2, <2>3
  <1>7. ASSUME NEW a \in Actor, UpdateStream(a) PROVE FlagsType'
    <2>1. Succeed(a) /\ call[a].event \in Event \cup {None}
      BY <1>7 DEF UpdateStream, CallInv, Call
    <2>2. applied' \in [Event -> BOOLEAN]
      <3>1. CASE call[a].event = None
        BY <1>7, <3>1 DEF UpdateStream, Broadcast, IsEvent, FlagsType
      <3>2. CASE call[a].event # None
        <4>1. applied' = [applied EXCEPT ![call[a].event] = TRUE]
          BY <1>7, <3>2 DEF UpdateStream, Broadcast, IsEvent, Ev
        <4> QED BY <4>1, <2>1, <3>2, MarkOne DEF FlagsType
      <3> QED BY <3>1, <3>2
    <2> QED BY <2>1, <2>2, EndMarks DEF FlagsType
  <1>8. ASSUME NEW p \in Server, Restart(p) PROVE FlagsType'
    BY <1>8 DEF Restart, FlagsType
  <1>9. CASE Replay \/ (\E e \in Event : WindowEnds(e)) \/ UNCHANGED streamVars
    BY <1>2, <1>9 DEF Replay, WindowEnds, outcome, streamVars
  <1> QED
    BY <1>3, <1>4, <1>5, <1>6, <1>7, <1>8, <1>9 DEF Next, Handle

LEMMA DataStep == RowInv /\ DataType /\ [Next]_streamVars => DataType'
  <1> SUFFICES ASSUME RowInv, DataType, [Next]_streamVars PROVE DataType'
    OBVIOUS
  <1> USE DEF RowInv
  <1>1. ASSUME NEW status \in RowStatus, Commit(status), UNCHANGED <<redisSeen, memSeen>> PROVE DataType'
    BY <1>1 DEF Commit, DataType
  <1>2. ASSUME UNCHANGED <<wal, replica>>, redisSeen' \subseteq Event, memSeen' \in [Server -> SUBSET Event]
        PROVE  DataType'
    BY <1>2 DEF DataType
  <1>3. CASE UNCHANGED <<wal, replica, redisSeen, memSeen>>
    BY <1>3 DEF DataType
  <1>4. ASSUME NEW a \in Actor, Dedup(a) \/ DedupFallback(a) PROVE DataType'
    <2>1. Ev(a) \in Event /\ UNCHANGED <<wal, replica>> /\ redisSeen' \in {redisSeen, redisSeen \cup {Ev(a)}}
      BY <1>4 DEF Dedup, DedupFallback, CallInv, CallOK, Ev, dbVars
    <2>2. \/ UNCHANGED memSeen
          \/ memSeen' = [memSeen EXCEPT ![ServerOf[a]] = @ \cup {Ev(a)}]
      BY <1>4 DEF Dedup, DedupFallback
    <2>3. memSeen' \in [Server -> SUBSET Event]
      BY <2>1, <2>2 DEF DataType
    <2> QED BY <1>2, <2>1, <2>3 DEF DataType
  <1>5. ASSUME NEW a \in Actor, InsertStream(a) PROVE DataType'
    <2>1. "active" \in RowStatus
      BY DEF RowStatus
    <2> QED BY <2>1, <1>1, <1>3, <1>5 DEF InsertStream, dedupVars, dbVars
  <1>6. ASSUME NEW a \in Actor, UpdateStream(a) PROVE DataType'
    <2>1. call[a].to \in RowStatus \cup {None}
      BY DEF CallInv, Call
    <2>2. (IF call[a].to = None THEN row ELSE call[a].to) \in RowStatus
      BY <2>1
    <2> QED BY <2>2, <1>1, <1>6 DEF UpdateStream, dedupVars
  <1>7. ASSUME NEW p \in Server, Restart(p) PROVE DataType'
    <2>1. memSeen' \in [Server -> SUBSET Event]
      BY <1>7 DEF Restart, DataType
    <2> QED BY <1>2, <1>7, <2>1 DEF Restart, dbVars, DataType
  <1>8. ASSUME NEW e \in Event, WindowEnds(e) PROVE DataType'
    <2>1. memSeen' \in [Server -> SUBSET Event] /\ redisSeen' \subseteq Event
      BY <1>8 DEF WindowEnds, DataType
    <2> QED BY <1>2, <1>8, <2>1 DEF WindowEnds, dbVars
  <1>9. CASE Replay
    <2>1. replica' \in RowStatus /\ wal' \in Seq(RowStatus)
      BY <1>9 DEF Replay, DataType
    <2> QED BY <1>9, <2>1 DEF Replay, DataType, dedupVars
  <1>10. ASSUME NEW a \in Actor, AfterConflict(a) \/ Find(a) \/ ReadCurrent(a) \/ StatusConflict(a)
         PROVE  DataType'
    BY <1>3, <1>10 DEF AfterConflict, Find, ReadCurrent, StatusConflict, dbVars, dedupVars
  <1>11. ASSUME NEW a \in Actor, NEW e \in Event, DeliverEvent(a, e) PROVE DataType'
    BY <1>3, <1>11 DEF DeliverEvent, dbVars, dedupVars
  <1>12. ASSUME NEW a \in Actor, NEW to \in Life!StreamStatus, ApiRequest(a, to) \/ BulkAction(a, to)
         PROVE  DataType'
    BY <1>3, <1>12 DEF ApiRequest, BulkAction, Request, dbVars, dedupVars
  <1>13. CASE UNCHANGED streamVars
    BY <1>3, <1>13 DEF streamVars
  <1> QED
    BY <1>4, <1>5, <1>6, <1>7, <1>8, <1>9, <1>10, <1>11, <1>12, <1>13 DEF Next, Handle

LEMMA CountStep == CountType /\ [Next]_streamVars => CountType'
  <1> SUFFICES ASSUME CountType, [Next]_streamVars PROVE CountType'
    OBVIOUS
  <1> USE BoundsAssumption
  <1>1. ASSUME NEW a \in Actor, NEW e \in Event, DeliverEvent(a, e) PROVE CountType'
    <2>1. delivered' = [delivered EXCEPT ![e] = @ + 1] /\ delivered[e] < MaxDelivered
          /\ UNCHANGED <<requests, trouble, degraded>>
      BY <1>1 DEF DeliverEvent, dedupVars
    <2> QED BY <2>1 DEF CountType
  <1>2. ASSUME NEW a \in Actor, NEW to \in Life!StreamStatus, ApiRequest(a, to) \/ BulkAction(a, to)
        PROVE  CountType'
    <2>1. requests < MaxRequests /\ requests' = requests + 1 /\ UNCHANGED <<delivered, trouble, degraded>>
      BY <1>2 DEF ApiRequest, BulkAction, Request, dedupVars
    <2> QED BY <2>1 DEF CountType
  <1>3. ASSUME trouble < MaxTrouble, trouble' = trouble + 1, UNCHANGED <<delivered, requests>>,
               degraded' \in {degraded, TRUE}
        PROVE  CountType'
    <2>1. trouble' \in 0..MaxTrouble
      BY <1>3 DEF CountType
    <2>2. degraded' \in BOOLEAN
      BY <1>3, Zenon DEF CountType
    <2> QED BY <1>3, <2>1, <2>2 DEF CountType
  <1>4. ASSUME NEW a \in Actor, DedupFallback(a) PROVE CountType'
    BY <1>3, <1>4 DEF DedupFallback
  <1>5. ASSUME NEW p \in Server, Restart(p) PROVE CountType'
    BY <1>3, <1>5 DEF Restart
  <1>6. ASSUME NEW e \in Event, WindowEnds(e) PROVE CountType'
    BY <1>3, <1>6 DEF WindowEnds
  <1>7. ASSUME UNCHANGED <<bounds, degraded>> PROVE CountType'
    BY <1>7 DEF CountType, bounds
  <1>8. ASSUME NEW a \in Actor, Dedup(a) \/ InsertStream(a) \/ AfterConflict(a) \/ Find(a)
                                \/ ReadCurrent(a) \/ UpdateStream(a) \/ StatusConflict(a)
        PROVE  CountType'
    BY <1>7, <1>8 DEF Dedup, InsertStream, AfterConflict, Find, ReadCurrent, UpdateStream,
                      StatusConflict, dedupVars
  <1>9. CASE Replay \/ UNCHANGED streamVars
    BY <1>7, <1>9 DEF Replay, streamVars, bounds, dedupVars
  <1> QED
    BY <1>1, <1>2, <1>4, <1>5, <1>6, <1>8, <1>9 DEF Next, Handle

\* A row that exists stays.
LEMMA RowStays == RowInv /\ [Next]_streamVars /\ row # "absent" => row' # "absent"
  BY RowStep DEF Lifecycle!Next, Lifecycle!Create, Lifecycle!Transition, Lifecycle!Allowed

\* A step of call a that touches no dedup key.
LEMMA HandlerEffect ==
    ASSUME EffectInv, FlagsType, FlagsType', NEW a \in Actor, UNCHANGED <<redisSeen, memSeen>>,
           \A b \in Actor \ {a} : call'[b] = call[b],
           row # "absent" => row' # "absent",
           \A e \in Event : (failed[e] => failed'[e]) /\ (applied[e] => applied'[e]),
           \A e \in Event : acked'[e] => acked[e] \/ Settled(e)',
           \A e \in Event : Passed(a, e) => Passed(a, e)' \/ Settled(e)',
           CreationOK(a)'
    PROVE  EffectInv'
  <1>1. ASSUME NEW e \in Event, Settled(e) PROVE Settled(e)'
    BY <1>1 DEF Settled
  <1>2. ASSUME NEW e \in Event, (Seen(e) \/ acked[e])' PROVE Seen(e) \/ acked[e] \/ Settled(e)'
    BY <1>2 DEF Seen
  <1>3. ASSUME NEW b \in Actor, NEW e \in Event, Passed(b, e) PROVE Passed(b, e)' \/ Settled(e)'
    <2>1. CASE b = a
      BY <1>3, <2>1
    <2>2. CASE b # a
      BY <1>3, <2>2 DEF Passed
    <2> QED BY <2>1, <2>2
  <1>4. ASSUME NEW b \in Actor PROVE CreationOK(b)'
    <2>1. CASE b = a
      BY <2>1
    <2>2. CASE b # a
      <3>1. CreationOK(b)
        BY DEF EffectInv
      <3> QED BY <2>2, <3>1 DEF CreationOK
    <2> QED BY <2>1, <2>2
  <1> QED BY <1>1, <1>2, <1>3, <1>4, EffectMoves

LEMMA EffectStep == RowInv /\ FlagsType /\ DataType /\ EffectInv /\ [Next]_streamVars => EffectInv'
  <1> SUFFICES ASSUME RowInv, FlagsType, DataType, EffectInv, [Next]_streamVars PROVE EffectInv'
    OBVIOUS
  <1> USE DEF RowInv
  <1>t. FlagsType' /\ (row # "absent" => row' # "absent") /\ CallInv
    BY FlagsStep, RowStays
  <1>1. ASSUME NEW a \in Actor, NEW e \in Event, DeliverEvent(a, e) PROVE EffectInv'
    <2>1. /\ UNCHANGED <<redisSeen, memSeen, acked, failed, applied>>
          /\ call[a].at = "free" /\ call'[a].at = "dedup" /\ \A b \in Actor \ {a} : call'[b] = call[b]
      BY <1>1 DEF DeliverEvent, dedupVars, outcome, CallInv
    <2>2. CreationOK(a)'
      BY <2>1 DEF CreationOK
    <2>3. \A d \in Event : ~Passed(a, d)
      BY <2>1 DEF Passed
    <2> QED BY <1>t, <2>1, <2>2, <2>3, HandlerEffect
  <1>2. ASSUME NEW a \in Actor, NEW to \in Life!StreamStatus, ApiRequest(a, to) \/ BulkAction(a, to)
        PROVE  EffectInv'
    <2>1. /\ UNCHANGED <<redisSeen, memSeen, acked, failed, applied>>
          /\ call[a].at = "free" /\ call'[a].at \in {"find", "current"}
          /\ \A b \in Actor \ {a} : call'[b] = call[b]
      BY <1>2 DEF ApiRequest, BulkAction, Request, dedupVars, outcome, CallInv
    <2>2. CreationOK(a)'
      BY <2>1 DEF CreationOK
    <2>3. \A d \in Event : ~Passed(a, d)
      BY <2>1 DEF Passed
    <2> QED BY <1>t, <2>1, <2>2, <2>3, HandlerEffect
  <1>f. ASSUME NEW a \in Actor, Fail(a), UNCHANGED <<redisSeen, memSeen, applied>> PROVE EffectInv'
    <2>1. /\ call'[a] = Free /\ UNCHANGED acked /\ \A b \in Actor \ {a} : call'[b] = call[b]
      BY <1>f DEF Fail, CallInv
    <2>2. CreationOK(a)'
      BY <2>1 DEF CreationOK, Free
    <2>3. ASSUME NEW e \in Event, Passed(a, e) PROVE Settled(e)'
      BY <1>f, <1>t, <2>3, EndMarks DEF Passed, Settled
    <2>4. \A e \in Event : failed[e] => failed'[e]
      BY <1>f, <1>t, EndMarks
    <2> QED BY <1>f, <1>t, <2>1, <2>2, <2>3, <2>4, HandlerEffect
  <1>s. ASSUME NEW a \in Actor, Succeed(a), UNCHANGED <<redisSeen, memSeen>>,
               \A e \in Event : applied[e] => applied'[e],
               \A e \in Event : e = call[a].event => Settled(e)'
        PROVE  EffectInv'
    <2>1. /\ call'[a] = Free /\ UNCHANGED failed /\ \A b \in Actor \ {a} : call'[b] = call[b]
      BY <1>s DEF Succeed, CallInv
    <2>2. CreationOK(a)'
      BY <2>1 DEF CreationOK, Free
    <2>3. ASSUME NEW e \in Event, Passed(a, e) PROVE Settled(e)'
      BY <1>s, <2>3 DEF Passed
    <2>4. \A e \in Event : acked'[e] => acked[e] \/ Settled(e)'
      BY <1>s, <1>t, EndMarks
    <2> QED BY <1>s, <1>t, <2>1, <2>2, <2>3, <2>4, HandlerEffect
  <1>g. ASSUME NEW a \in Actor, UNCHANGED <<redisSeen, memSeen, acked, failed, applied>>,
               \A b \in Actor \ {a} : call'[b] = call[b],
               call'[a].event = call[a].event, call'[a].at \notin {"free", "dedup"}, CreationOK(a)'
        PROVE  EffectInv'
    <2>1. \A e \in Event : Passed(a, e) => Passed(a, e)'
      BY <1>g DEF Passed
    <2> QED BY <1>g, <1>t, <2>1, HandlerEffect
  <1>3. ASSUME NEW a \in Actor, Dedup(a) \/ DedupFallback(a) PROVE EffectInv'
    <2>1. PICK e \in Event : e = call[a].event
      BY <1>3 DEF Dedup, DedupFallback, CallInv, CallOK
    <2>2. PICK p \in Server : p = ServerOf[a]
      BY ServerAssumption
    <2>3. /\ UNCHANGED <<applied, failed, row>> /\ call[a].at = "dedup" /\ call[a] \in Call
          /\ redisSeen' \subseteq redisSeen \cup {e}
          /\ \A b \in Actor \ {a} : call'[b] = call[b]
      BY <1>3, <2>1 DEF Dedup, DedupFallback, Goto, Succeed, CallInv, Ev, dbVars
    <2>4. \A q \in Server : memSeen'[q] \subseteq memSeen[q] \cup {e}
      BY <1>3, <2>1 DEF Dedup, DedupFallback, Ev, DataType
    <2>5. \A d \in Event : Settled(d) => Settled(d)'
      BY <2>3 DEF Settled
    <2>6. \A b \in Actor, d \in Event : Passed(b, d) => Passed(b, d)'
      <3>1. \A d \in Event : ~Passed(a, d)
        BY <2>3 DEF Passed
      <3> QED BY <2>3, <3>1 DEF Passed
    <2>7. CASE Goto(a, Begin(e)) /\ UNCHANGED acked
      <3>1. call'[a].event = e /\ call'[a].at = Begin(e)
        BY <2>1, <2>3, <2>7 DEF Goto, CallInv, Call
      <3>2. /\ Begin(e) \in {"insert", "find", "current"}
            /\ Begin(e) = "insert" => EventType[e] = "created"
        BY EventAssumption DEF Begin
      <3>3. Passed(a, e)'
        BY <3>1, <3>2 DEF Passed
      <3>4. ASSUME NEW d \in Event, (Seen(d) \/ acked[d])'
            PROVE  Seen(d) \/ acked[d] \/ d = e
        BY <2>3, <2>4, <2>7, <3>4 DEF Seen
      <3>5. CreationOK(a)'
        BY <3>1, <3>2 DEF CreationOK
      <3>6. ASSUME NEW b \in Actor PROVE CreationOK(b)'
        <4>1. CASE b # a
          BY <2>3, <4>1 DEF EffectInv, CreationOK
        <4> QED BY <3>5, <4>1
      <3>7. \A d \in Event : (Seen(d) \/ acked[d])' =>
               Seen(d) \/ acked[d] \/ Settled(d)' \/ \E b \in Actor : Passed(b, d)'
        BY <3>3, <3>4
      <3> QED BY <2>5, <2>6, <3>6, <3>7, EffectMoves
    <2>8. CASE Succeed(a) /\ Seen(e)
      <3>1. call'[a] = Free
        BY <2>8 DEF Succeed, CallInv
      <3>2. ASSUME NEW d \in Event, (Seen(d) \/ acked[d])'
            PROVE  Seen(d) \/ acked[d]
        <4>1. acked'[d] => acked[d] \/ d = e
          BY <1>t, <2>1, <2>8, EndMarks
        <4> QED BY <2>3, <2>4, <2>8, <3>2, <4>1 DEF Seen
      <3>3. ASSUME NEW b \in Actor PROVE CreationOK(b)'
        <4>1. CASE b # a
          BY <2>3, <4>1 DEF EffectInv, CreationOK
        <4>2. CASE b = a
          BY <3>1, <4>2 DEF CreationOK, Free
        <4> QED BY <4>1, <4>2
      <3> QED BY <2>5, <2>6, <3>2, <3>3, EffectMoves
    <2>9. (Goto(a, Begin(e)) /\ UNCHANGED acked) \/ (Succeed(a) /\ Seen(e))
      BY <1>3, <2>1, <2>2 DEF Dedup, DedupFallback, IsNew, Ev, Seen
    <2> QED BY <2>7, <2>8, <2>9
  <1>4. ASSUME NEW a \in Actor, InsertStream(a) PROVE EffectInv'
    <2>1. PICK e \in Event : e = call[a].event
      BY <1>4 DEF InsertStream, CallInv, CallOK
    <2>2. UNCHANGED <<redisSeen, memSeen>> /\ call[a].at = "insert" /\ EventType[e] = "created"
      BY <1>4, <2>1 DEF InsertStream, dedupVars, EffectInv, CreationOK
    <2>3. CASE row = "absent"
      <3>1. Succeed(a) /\ applied' = [applied EXCEPT ![e] = TRUE]
        BY <1>4, <2>1, <2>3 DEF InsertStream, Ev
      <3>2. applied'[e] /\ \A d \in Event : applied[d] => applied'[d]
        BY <3>1, MarkOne DEF FlagsType
      <3> QED BY <2>1, <2>2, <3>1, <3>2, <1>s DEF Settled
    <2>4. CASE row # "absent"
      <3>1. Goto(a, "conflict") /\ UNCHANGED <<applied, acked, failed>> /\ call[a] \in Call
        BY <1>4, <2>4 DEF InsertStream, CallInv
      <3>2. /\ call'[a].at = "conflict" /\ call'[a].event = e
            /\ \A b \in Actor \ {a} : call'[b] = call[b]
        BY <3>1, <2>1 DEF Goto, CallInv, Call
      <3>3. CreationOK(a)'
        BY <1>t, <2>2, <2>4, <3>2 DEF CreationOK
      <3> QED BY <2>1, <2>2, <3>1, <3>2, <3>3, <1>g
    <2> QED BY <2>3, <2>4
  <1>5. ASSUME NEW a \in Actor, AfterConflict(a) PROVE EffectInv'
    <2>1. PICK e \in Event : e = call[a].event
      BY <1>5 DEF AfterConflict, CallInv, CallOK
    <2>2. /\ UNCHANGED <<redisSeen, memSeen, applied>> /\ call[a].at \in {"conflict", "byEvent"}
          /\ EventType[e] = "created" /\ row # "absent" /\ call[a] \in Call
      BY <1>5, <2>1 DEF AfterConflict, dedupVars, EffectInv, CreationOK, CallInv
    <2>3. CASE Succeed(a)
      BY <1>s, <1>t, <2>1, <2>2, <2>3 DEF Settled
    <2>4. CASE Fail(a)
      BY <1>f, <2>2, <2>4
    <2>5. CASE Goto(a, "byEvent") /\ UNCHANGED <<acked, failed>>
      <3>1. /\ call'[a].at = "byEvent" /\ call'[a].event = e
            /\ \A b \in Actor \ {a} : call'[b] = call[b]
        BY <2>1, <2>2, <2>5 DEF Goto, CallInv, Call
      <3>2. CreationOK(a)'
        BY <1>t, <2>2, <3>1 DEF CreationOK
      <3> QED BY <2>1, <2>2, <2>5, <3>1, <3>2, <1>g
    <2> QED BY <1>5, <2>3, <2>4, <2>5 DEF AfterConflict
  <1>6. ASSUME NEW a \in Actor, Find(a) \/ ReadCurrent(a) \/ StatusConflict(a) PROVE EffectInv'
    <2>1. UNCHANGED <<redisSeen, memSeen, applied>> /\ call[a] \in Call
      BY <1>6 DEF Find, ReadCurrent, StatusConflict, dedupVars, CallInv
    <2>2. CASE Fail(a)
      BY <1>f, <2>1, <2>2
    <2>3. CASE /\ UNCHANGED <<acked, failed>>
               /\ Goto(a, "current") \/ call' = [call EXCEPT ![a].at = "write", ![a].base = row]
      <3>1. /\ call'[a].at \in {"current", "write"} /\ call'[a].event = call[a].event
            /\ \A b \in Actor \ {a} : call'[b] = call[b]
        BY <2>1, <2>3 DEF Goto, CallInv, Call
      <3>2. CreationOK(a)'
        BY <3>1 DEF CreationOK
      <3> QED BY <2>1, <2>3, <3>1, <3>2, <1>g
    <2> QED BY <1>6, <2>2, <2>3 DEF Find, ReadCurrent, StatusConflict, LostRace
  <1>7. ASSUME NEW a \in Actor, UpdateStream(a) PROVE EffectInv'
    <2>1. Succeed(a) /\ UNCHANGED <<redisSeen, memSeen>> /\ call[a].event \in Event \cup {None}
      BY <1>7 DEF UpdateStream, dedupVars, CallInv, Call
    <2>2. CASE call[a].event = None
      BY <1>7, <1>s, <2>1, <2>2, EventAssumption DEF UpdateStream, Broadcast, IsEvent
    <2>3. CASE call[a].event # None
      <3>1. PICK e \in Event : e = call[a].event
        BY <2>1, <2>3
      <3>2. applied' = [applied EXCEPT ![e] = TRUE]
        BY <1>7, <2>3, <3>1 DEF UpdateStream, Broadcast, IsEvent, Ev
      <3>3. applied'[e] /\ \A d \in Event : applied[d] => applied'[d]
        BY <3>2, MarkOne DEF FlagsType
      <3> QED BY <1>s, <2>1, <3>1, <3>3 DEF Settled
    <2> QED BY <2>2, <2>3
  <1>8. ASSUME NEW p \in Server, Restart(p) PROVE EffectInv'
    <2> DEFINE lost == {a \in Actor : ServerOf[a] = p /\ call[a].at # "free"}
    <2>1. /\ UNCHANGED <<redisSeen, acked, applied, row>>
          /\ \A a \in Actor : call'[a] = IF a \in lost THEN Free ELSE call[a]
          /\ \A e \in Event : failed'[e] = (failed[e] \/ \E a \in lost : call[a].event = e)
          /\ \A q \in Server : memSeen'[q] \subseteq memSeen[q]
      BY <1>8 DEF Restart, dbVars, DataType
    <2>2. \A e \in Event : Settled(e) => Settled(e)'
      BY <2>1 DEF Settled
    <2>3. \A e \in Event : (Seen(e) \/ acked[e])' => Seen(e) \/ acked[e]
      BY <2>1 DEF Seen
    <2>4. ASSUME NEW a \in Actor, NEW e \in Event, Passed(a, e) PROVE Passed(a, e)' \/ Settled(e)'
      <3>1. CASE a \in lost
        BY <2>1, <2>4, <3>1 DEF Passed, Settled
      <3>2. CASE a \notin lost
        BY <2>1, <2>4, <3>2 DEF Passed
      <3> QED BY <3>1, <3>2
    <2>5. ASSUME NEW a \in Actor PROVE CreationOK(a)'
      BY <2>1 DEF EffectInv, CreationOK, Free
    <2> HIDE DEF lost
    <2> QED BY <2>2, <2>3, <2>4, <2>5, EffectMoves
  <1>9. ASSUME NEW e \in Event, WindowEnds(e) PROVE EffectInv'
    <2>1. /\ UNCHANGED <<row, call, acked, applied, failed>> /\ redisSeen' \subseteq redisSeen
          /\ \A q \in Server : memSeen'[q] \subseteq memSeen[q]
      BY <1>9 DEF WindowEnds, dbVars, outcome
    <2>2. \A d \in Event : (Settled(d) => Settled(d)') /\ ((Seen(d) \/ acked[d])' => Seen(d) \/ acked[d])
      BY <2>1 DEF Settled, Seen
    <2>3. \A a \in Actor, d \in Event : Passed(a, d) => Passed(a, d)'
      BY <2>1 DEF Passed
    <2>4. \A a \in Actor : CreationOK(a)'
      BY <2>1 DEF EffectInv, CreationOK
    <2> QED BY <2>2, <2>3, <2>4, EffectMoves
  <1>10. CASE Replay \/ UNCHANGED streamVars
    <2>1. UNCHANGED <<row, call, acked, applied, failed, redisSeen, memSeen>>
      BY <1>10 DEF Replay, streamVars, dedupVars, outcome
    <2> QED BY <2>1 DEF EffectInv, SeenIsSettled, Seen, Settled, Passed, CreationOK
  <1> QED
    BY <1>1, <1>2, <1>3, <1>4, <1>5, <1>6, <1>7, <1>8, <1>9, <1>10 DEF Next, Handle

\* An event that was acknowledged, and of which no delivery failed or died with
\* its process, has taken effect or is in the hands of a call: for every number
\* of events, deliveries, handler calls and servers, with a replica that lags
\* and a dedup cache that forgets or falls back.
THEOREM AcknowledgedTakeEffect == Spec => []EventsTakeEffect
  <1>1. Init => FlagsType /\ DataType /\ CountType /\ EffectInv /\ OnceInv
    <2> SUFFICES ASSUME Init PROVE FlagsType /\ DataType /\ CountType /\ EffectInv /\ OnceInv
      OBVIOUS
    <2>1. FlagsType /\ DataType
      BY DEF Init, FlagsType, DataType, RowStatus
    <2>2. CountType
      <3>1. degraded \in BOOLEAN
        BY Zenon DEF Init
      <3> QED BY <3>1, BoundsAssumption DEF Init, CountType
    <2>3. EffectInv
      BY DEF Init, EffectInv, SeenIsSettled, Seen, CreationOK, Free
    <2>4. OnceInv
      BY DEF Init, OnceInv, CreationsOnce, DedupHolds, Passed, Free
    <2> QED BY <2>1, <2>2, <2>3, <2>4
  <1>2. RowInv /\ FlagsType /\ DataType /\ CountType /\ EffectInv /\ OnceInv => EventsTakeEffect
    <2>1. ASSUME EffectInv PROVE AckedMeansApplied
      BY <2>1 DEF EffectInv, SeenIsSettled, AckedMeansApplied, Settled, Passed
    <2>2. ASSUME RowInv, FlagsType, DataType, CountType, OnceInv PROVE TypeOK
      BY <2>2 DEF RowInv, CallInv, Call, At, FlagsType, DataType, CountType, OnceInv, TypeOK
    <2> QED BY <2>1, <2>2 DEF EventsTakeEffect
  <1> QED
    BY <1>1, <1>2, RowInvInductive, FlagsStep, DataStep, CountStep, EffectStep, OnceStep, PTL DEF Spec

----------------------------------------------------------------------------
(* Idempotency keys                                                        *)

Posting == [at : {"get", "insert", "conflict", "byEvent", "set"}, key : IdemKey,
            input : Creation!Inputs]
Posted == [key : IdemKey, body : Creation!Body, stream : Creation!Inputs]

\* The types that the key's promise needs, with the domains of the functions.
CreationType ==
    /\ time \in 0..MaxTime /\ outages \in 0..MaxOutages /\ ends \in 0..MaxEnds
    /\ streams \subseteq Creation!Inputs /\ lagging \subseteq streams
    /\ store \in [IdemKey -> {Creation!NoEntry} \cup Creation!Inputs]
    /\ post \in [Poster -> {Creation!Idle} \cup Posting]
    /\ answers \subseteq Posted /\ loose \subseteq IdemKey

\* Requests with the same key that overlap have made the key loose.
Overlaps ==
    \A r, q \in Poster :
        post[r] \in Posting /\ post[q] \in Posting /\ post[r].key = post[q].key /\ r # q
            => post[r].key \in loose

\* What a key that is not loose stands for: every answer is the stored one, and a
\* request on its way past the lookup found nothing stored.
KeyInv ==
    \A k \in IdemKey \ loose :
        /\ \A x \in answers : x.key = k => store[k] # Creation!NoEntry /\ x.stream = store[k]
        /\ \A r \in Poster : post[r] \in Posting /\ post[r].key = k /\ post[r].at # "get"
              => store[k] = Creation!NoEntry

CreationInv == CreationType /\ Overlaps /\ KeyInv /\ Creation!AnswerMatchesRequest

LEMMA NothingStored == Creation!NoEntry \notin Creation!Inputs
  BY CreationAssumption DEF Creation!NoEntry, Creation!Inputs, Creation!Body

LEMMA NotPosting == Creation!Idle \notin Posting
  BY DEF Creation!Idle, Posting

LEMMA InputsOK ==
    ASSUME time \in 0..MaxTime, NEW b \in Creation!Body
    PROVE  Creation!Input(b) \in Creation!Inputs /\ Creation!Input(b).body = b
  BY CreationAssumption DEF Creation!Input, Creation!Inputs

\* A request that ends, and one that goes on, leave the others where they are.
LEMMA ReturnKeepsPosts ==
    ASSUME CreationInv, NEW r \in Poster, Creation!Return(r), loose \subseteq loose',
           loose' \subseteq IdemKey
    PROVE  /\ post' \in [Poster -> {Creation!Idle} \cup Posting] /\ Overlaps'
           /\ \A q \in Poster : post'[q] \in Posting => q # r /\ post'[q] = post[q]
  <1> USE DEF CreationInv, CreationType, Creation!Return
  <1>1. post' \in [Poster -> {Creation!Idle} \cup Posting]
    OBVIOUS
  <1>2. \A q \in Poster : post'[q] \in Posting => q # r /\ post'[q] = post[q]
    BY NotPosting
  <1>3. Overlaps'
    BY <1>2 DEF Overlaps
  <1> QED BY <1>1, <1>2, <1>3

LEMMA GotoKeepsPosts ==
    ASSUME CreationInv, NEW r \in Poster, post[r] \in Posting,
           NEW where \in {"insert", "conflict", "byEvent", "set"}, Creation!Goto(r, where),
           loose \subseteq loose', loose' \subseteq IdemKey
    PROVE  /\ post' \in [Poster -> {Creation!Idle} \cup Posting] /\ Overlaps'
           /\ \A q \in Poster : q # r => post'[q] = post[q]
           /\ post'[r] \in Posting /\ post'[r].key = post[r].key
  <1> USE DEF CreationInv, CreationType
  <1> DEFINE p == [post[r] EXCEPT !.at = where]
  <1>1. p \in Posting /\ p.key = post[r].key
    BY DEF Posting
  <1>2. post' = [post EXCEPT ![r] = p]
    BY DEF Creation!Goto
  <1> HIDE DEF p
  <1>3. post' \in [Poster -> {Creation!Idle} \cup Posting]
    BY <1>1, <1>2
  <1>4. /\ \A q \in Poster : q # r => post'[q] = post[q]
        /\ post'[r] = p
    BY <1>2
  <1>5. Overlaps'
    BY <1>1, <1>4 DEF Overlaps
  <1> QED BY <1>1, <1>3, <1>4, <1>5

LEMMA AcceptKeepsKeys ==
    ASSUME CreationInv, NEW r \in Poster, Creation!Arrive(r)
    PROVE  CreationInv'
  <1> PICK k \in IdemKey, b \in Creation!Body : Creation!Accept(r, k, b)
    BY DEF Creation!Arrive
  <1> USE DEF CreationInv, CreationType
  <1> DEFINE p == [at |-> "get", key |-> k, input |-> Creation!Input(b)]
  <1>1. p \in Posting /\ p.key = k /\ p.at = "get"
    BY InputsOK DEF Posting
  <1>2. post[r] = Creation!Idle /\ post' = [post EXCEPT ![r] = p]
    BY DEF Creation!Accept
  <1>3. /\ loose \subseteq loose' /\ loose' \subseteq IdemKey
        /\ \A q \in Poster : post[q] \in Posting /\ post[q].key = k => k \in loose'
    BY NotPosting DEF Creation!Accept
  <1>4. UNCHANGED <<time, store, streams, lagging, outages, ends, answers>>
    BY DEF Creation!Accept
  <1> HIDE DEF p
  <1>5. /\ \A q \in Poster : q # r => post'[q] = post[q]
        /\ post'[r] = p
    BY <1>2
  <1>6. CreationType'
    BY <1>1, <1>2, <1>3, <1>4
  <1>7. Overlaps'
    BY <1>1, <1>3, <1>5 DEF Overlaps
  <1>8. KeyInv'
    BY <1>1, <1>3, <1>4, <1>5 DEF KeyInv
  <1>9. Creation!AnswerMatchesRequest'
    BY <1>4 DEF Creation!AnswerMatchesRequest
  <1> QED BY <1>6, <1>7, <1>8, <1>9

LEMMA AbandonKeepsKeys ==
    ASSUME CreationInv, NEW r \in Poster, Creation!Abandon(r)
    PROVE  CreationInv'
  <1> USE DEF CreationInv, CreationType
  <1>1. post[r] \in Posting /\ post[r].key \in IdemKey
    BY DEF Creation!Abandon, Posting
  <1>2. /\ Creation!Return(r) /\ loose' = loose \cup {post[r].key}
        /\ UNCHANGED <<time, store, streams, lagging, outages, ends, answers>>
    BY DEF Creation!Abandon
  <1>3. /\ post' \in [Poster -> {Creation!Idle} \cup Posting] /\ Overlaps'
        /\ \A q \in Poster : post'[q] \in Posting => q # r /\ post'[q] = post[q]
    BY <1>1, <1>2, ReturnKeepsPosts
  <1>4. KeyInv'
    BY <1>2, <1>3 DEF KeyInv
  <1>5. Creation!AnswerMatchesRequest'
    BY <1>2 DEF Creation!AnswerMatchesRequest
  <1> QED BY <1>1, <1>2, <1>3, <1>4, <1>5

\* Nothing stored, a replay of the stored answer, or a 409.
LEMMA GetKeepsKeys ==
    ASSUME CreationInv, NEW r \in Poster, Creation!Get(r)
    PROVE  CreationInv'
  <1> USE DEF CreationInv, CreationType
  <1> DEFINE k == post[r].key
             entry == store[k]
  <1>1. post[r] \in Posting /\ k \in IdemKey
    BY DEF Creation!Get, Posting, Creation!Idle
  <1>2. UNCHANGED <<time, store, streams, lagging, outages, ends, loose>>
    BY DEF Creation!Get
  <1>3. CASE entry = Creation!NoEntry /\ Creation!Goto(r, "insert") /\ UNCHANGED answers
    <2>1. /\ post' \in [Poster -> {Creation!Idle} \cup Posting] /\ Overlaps'
          /\ \A q \in Poster : q # r => post'[q] = post[q]
          /\ post'[r] \in Posting /\ post'[r].key = post[r].key
      BY <1>1, <1>2, <1>3, GotoKeepsPosts
    <2>2. KeyInv'
      BY <1>1, <1>2, <1>3, <2>1 DEF KeyInv
    <2>3. Creation!AnswerMatchesRequest'
      BY <1>3 DEF Creation!AnswerMatchesRequest
    <2> QED BY <1>2, <1>3, <2>1, <2>2, <2>3
  <1>4. CASE entry # Creation!NoEntry /\ Creation!SamePayload(r, entry)
                /\ Creation!Answer201(r, entry)
    <2>1. /\ post' \in [Poster -> {Creation!Idle} \cup Posting] /\ Overlaps'
          /\ \A q \in Poster : post'[q] \in Posting => q # r /\ post'[q] = post[q]
      BY <1>1, <1>2, <1>4, ReturnKeepsPosts DEF Creation!Answer201
    <2> DEFINE x == [key |-> k, body |-> post[r].input.body, stream |-> entry]
    <2>2. entry = post[r].input /\ answers' = answers \cup {x}
      BY <1>4 DEF Creation!SamePayload, Creation!Answer201
    <2>3. /\ x \in Posted /\ x.key = k /\ x.stream = entry /\ x.stream.body = x.body
      BY <1>1, <2>2 DEF Posted, Posting, Creation!Inputs
    <2> HIDE DEF x
    <2>4. KeyInv'
      BY <1>1, <1>2, <1>4, <2>1, <2>2, <2>3 DEF KeyInv
    <2>5. Creation!AnswerMatchesRequest'
      BY <2>2, <2>3 DEF Creation!AnswerMatchesRequest
    <2> QED BY <1>2, <2>1, <2>2, <2>3, <2>4, <2>5
  <1>5. CASE Creation!Return(r) /\ UNCHANGED answers
    <2>1. /\ post' \in [Poster -> {Creation!Idle} \cup Posting] /\ Overlaps'
          /\ \A q \in Poster : post'[q] \in Posting => q # r /\ post'[q] = post[q]
      BY <1>1, <1>2, <1>5, ReturnKeepsPosts
    <2>2. KeyInv'
      BY <1>2, <1>5, <2>1 DEF KeyInv
    <2>3. Creation!AnswerMatchesRequest'
      BY <1>5 DEF Creation!AnswerMatchesRequest
    <2> QED BY <1>2, <1>5, <2>1, <2>2, <2>3
  <1> QED BY <1>3, <1>4, <1>5 DEF Creation!Get

LEMMA GetFailsKeepsKeys ==
    ASSUME CreationInv, NEW r \in Poster, Creation!GetFails(r)
    PROVE  CreationInv'
  <1> USE DEF CreationInv, CreationType
  <1>1. post[r] \in Posting /\ post[r].key \in IdemKey
    BY DEF Creation!GetFails, Posting, Creation!Idle
  <1>2. /\ Creation!Goto(r, "insert") /\ loose' = loose \cup {post[r].key}
        /\ UNCHANGED <<time, store, streams, lagging, outages, ends, answers>>
    BY DEF Creation!GetFails
  <1>3. /\ post' \in [Poster -> {Creation!Idle} \cup Posting] /\ Overlaps'
        /\ \A q \in Poster : q # r => post'[q] = post[q]
        /\ post'[r] \in Posting /\ post'[r].key = post[r].key
    BY <1>1, <1>2, GotoKeepsPosts
  <1>4. KeyInv'
    BY <1>1, <1>2, <1>3 DEF KeyInv
  <1>5. Creation!AnswerMatchesRequest'
    BY <1>2 DEF Creation!AnswerMatchesRequest
  <1> QED BY <1>1, <1>2, <1>3, <1>4, <1>5

\* A request past the lookup that goes on, or gives up, without an answer.
LEMMA PassKeepsKeys ==
    ASSUME CreationInv, NEW r \in Poster, post[r] \in Posting, post[r].at # "get",
           UNCHANGED <<store, answers, loose>>,
           (\E where \in {"conflict", "byEvent", "set"} : Creation!Goto(r, where))
               \/ Creation!Return(r)
    PROVE  /\ post' \in [Poster -> {Creation!Idle} \cup Posting] /\ Overlaps' /\ KeyInv'
           /\ Creation!AnswerMatchesRequest'
  <1> USE DEF CreationInv, CreationType
  <1>1. post[r].key \in IdemKey
    BY DEF Posting
  <1>2. Creation!AnswerMatchesRequest'
    BY DEF Creation!AnswerMatchesRequest
  <1>3. CASE Creation!Return(r)
    <2>1. /\ post' \in [Poster -> {Creation!Idle} \cup Posting] /\ Overlaps'
          /\ \A q \in Poster : post'[q] \in Posting => q # r /\ post'[q] = post[q]
      BY <1>3, ReturnKeepsPosts
    <2>2. KeyInv'
      BY <2>1 DEF KeyInv
    <2> QED BY <1>2, <2>1, <2>2
  <1>4. ASSUME NEW where \in {"conflict", "byEvent", "set"}, Creation!Goto(r, where)
        PROVE  /\ post' \in [Poster -> {Creation!Idle} \cup Posting] /\ Overlaps' /\ KeyInv'
    <2>1. /\ post' \in [Poster -> {Creation!Idle} \cup Posting] /\ Overlaps'
          /\ \A q \in Poster : q # r => post'[q] = post[q]
          /\ post'[r] \in Posting /\ post'[r].key = post[r].key
      BY <1>4, GotoKeepsPosts
    <2>2. KeyInv'
      BY <1>1, <2>1 DEF KeyInv
    <2> QED BY <2>1, <2>2
  <1> QED BY <1>2, <1>3, <1>4

LEMMA InsertKeepsKeys ==
    ASSUME CreationInv, NEW r \in Poster, Creation!Insert(r)
    PROVE  CreationInv'
  <1> USE DEF CreationInv, CreationType
  <1>1. post[r] \in Posting /\ post[r].at # "get"
    BY DEF Creation!Insert, Posting, Creation!Idle
  <1>2. UNCHANGED <<time, store, outages, ends, answers, loose>>
    BY DEF Creation!Insert
  <1>3. streams' \subseteq Creation!Inputs /\ lagging' \subseteq streams'
    BY <1>1 DEF Creation!Insert, Posting
  <1>4. \E where \in {"conflict", "byEvent", "set"} : Creation!Goto(r, where)
    BY DEF Creation!Insert
  <1>5. /\ post' \in [Poster -> {Creation!Idle} \cup Posting] /\ Overlaps' /\ KeyInv'
        /\ Creation!AnswerMatchesRequest'
    BY <1>1, <1>2, <1>4, PassKeepsKeys
  <1> QED BY <1>2, <1>3, <1>5

LEMMA LookupKeepsKeys ==
    ASSUME CreationInv, NEW r \in Poster, Creation!Lookup(r)
    PROVE  CreationInv'
  <1> USE DEF CreationInv, CreationType
  <1>1. post[r] \in Posting /\ post[r].at # "get"
    BY DEF Creation!Lookup, Posting, Creation!Idle
  <1>2. UNCHANGED <<time, store, streams, lagging, outages, ends, answers, loose>>
    BY DEF Creation!Lookup
  <1>3. (\E where \in {"conflict", "byEvent", "set"} : Creation!Goto(r, where))
            \/ Creation!Return(r)
    BY DEF Creation!Lookup
  <1>4. /\ post' \in [Poster -> {Creation!Idle} \cup Posting] /\ Overlaps' /\ KeyInv'
        /\ Creation!AnswerMatchesRequest'
    BY <1>1, <1>2, <1>3, PassKeepsKeys
  <1> QED BY <1>2, <1>4

\* The answer is stored under the key before it is given, unless Redis is down.
LEMMA SetKeepsKeys ==
    ASSUME CreationInv, NEW r \in Poster, Creation!Set(r)
    PROVE  CreationInv'
  <1> USE DEF CreationInv, CreationType
  <1> DEFINE k == post[r].key
             x == [key |-> k, body |-> post[r].input.body, stream |-> post[r].input]
  <1>1. /\ post[r] \in Posting /\ post[r].at = "set"
        /\ k \in IdemKey /\ post[r].input \in Creation!Inputs
    BY DEF Creation!Set, Posting, Creation!Idle
  <1>2. /\ UNCHANGED <<time, streams, lagging, outages, ends>>
        /\ answers' = answers \cup {x} /\ Creation!Return(r)
    BY DEF Creation!Set, Creation!Answer201
  <1>3. x \in Posted /\ x.key = k /\ x.stream = post[r].input /\ x.stream.body = x.body
    BY <1>1 DEF Posted, Creation!Inputs
  <1>4. \/ store' = [store EXCEPT ![k] = post[r].input] /\ loose' = loose
        \/ store' = store /\ loose' = loose \cup {k}
    BY DEF Creation!Set, Creation!Stored
  <1>5. loose \subseteq loose' /\ loose' \subseteq IdemKey
    BY <1>1, <1>4
  <1>6. /\ post' \in [Poster -> {Creation!Idle} \cup Posting] /\ Overlaps'
        /\ \A q \in Poster : post'[q] \in Posting => q # r /\ post'[q] = post[q]
    BY <1>2, <1>5, ReturnKeepsPosts
  <1>7. store' \in [IdemKey -> {Creation!NoEntry} \cup Creation!Inputs]
    BY <1>1, <1>4
  <1>8. Creation!AnswerMatchesRequest'
    BY <1>2, <1>3 DEF Creation!AnswerMatchesRequest
  <1> HIDE DEF x
  <1>9. ASSUME NEW j \in IdemKey, j \notin loose'
        PROVE  /\ \A y \in answers' : y.key = j
                     => store'[j] # Creation!NoEntry /\ y.stream = store'[j]
               /\ \A q \in Poster : post'[q] \in Posting /\ post'[q].key = j
                                        /\ post'[q].at # "get"
                     => store'[j] = Creation!NoEntry
    <2>1. CASE j # k
      <3>1. store'[j] = store[j] /\ j \notin loose
        BY <1>1, <1>4, <1>5, <1>9, <2>1
      <3> QED BY <1>2, <1>3, <1>6, <2>1, <3>1 DEF KeyInv
    <2>2. CASE j = k
      <3>1. store'[k] = post[r].input /\ k \notin loose
        BY <1>1, <1>4, <1>9, <2>2
      <3>2. store[k] = Creation!NoEntry /\ \A y \in answers : y.key # k
        BY <1>1, <3>1 DEF KeyInv
      <3>3. \A q \in Poster : post'[q] \in Posting => post'[q].key # k
        BY <1>1, <1>6, <3>1 DEF Overlaps
      <3> QED BY <1>1, <1>2, <1>3, <2>2, <3>1, <3>2, <3>3, NothingStored
    <2> QED BY <2>1, <2>2
  <1>10. KeyInv'
    BY <1>9 DEF KeyInv
  <1> QED BY <1>2, <1>3, <1>5, <1>6, <1>7, <1>8, <1>10

LEMMA CreationEnvironment ==
    ASSUME CreationInv,
           \/ Creation!Tick \/ Creation!Replicate \/ Creation!RedisDown \/ Creation!RedisBack
           \/ UNCHANGED createVars
    PROVE  CreationInv'
  <1> USE DEF CreationInv, CreationType
  <1>1. /\ UNCHANGED <<store, streams, post, ends, answers, loose>>
        /\ time' \in 0..MaxTime /\ outages' \in 0..MaxOutages /\ lagging' \subseteq lagging
    BY CreationAssumption DEF Creation!Tick, Creation!Replicate, Creation!RedisDown,
          Creation!RedisBack, createVars
  <1> QED BY <1>1 DEF Overlaps, KeyInv, Creation!AnswerMatchesRequest

LEMMA TtlKeepsKeys ==
    ASSUME CreationInv, NEW k \in IdemKey, Creation!TtlEnds(k)
    PROVE  CreationInv'
  <1> USE DEF CreationInv, CreationType
  <1>1. /\ UNCHANGED <<time, streams, lagging, post, outages, answers>>
        /\ store' = [store EXCEPT ![k] = Creation!NoEntry] /\ loose' = loose \cup {k}
        /\ ends' \in 0..MaxEnds
    BY CreationAssumption DEF Creation!TtlEnds
  <1>2. KeyInv'
    BY <1>1 DEF KeyInv
  <1> QED BY <1>1, <1>2 DEF Overlaps, Creation!AnswerMatchesRequest

LEMMA CreationStep == CreationInv /\ [Creation!Next]_createVars => CreationInv'
  <1> SUFFICES ASSUME CreationInv, [Creation!Next]_createVars PROVE CreationInv'
    OBVIOUS
  <1>1. ASSUME NEW r \in Poster,
               Creation!Arrive(r) \/ Creation!Step(r) \/ Creation!Abandon(r)
        PROVE  CreationInv'
    BY <1>1, AcceptKeepsKeys, GetKeepsKeys, GetFailsKeepsKeys, InsertKeepsKeys,
       LookupKeepsKeys, SetKeepsKeys, AbandonKeepsKeys DEF Creation!Step
  <1>2. ASSUME NEW k \in IdemKey, Creation!TtlEnds(k) PROVE CreationInv'
    BY <1>2, TtlKeepsKeys
  <1>3. CASE Creation!Next
    BY <1>1, <1>2, <1>3, CreationEnvironment DEF Creation!Next
  <1> QED BY <1>3, CreationEnvironment

\* The two Boolean flags, apart.
RedisFlags == healthy \in BOOLEAN /\ redisUp \in BOOLEAN

LEMMA RedisFlagsStep == RedisFlags /\ [Creation!Next]_createVars => RedisFlags'
  <1> SUFFICES ASSUME RedisFlags, [Creation!Next]_createVars PROVE RedisFlags'
    OBVIOUS
  <1>1. /\ healthy' = healthy \/ healthy' = TRUE \/ healthy' = FALSE
        /\ redisUp' = redisUp \/ redisUp' = TRUE \/ redisUp' = FALSE
    BY Zenon DEF createVars, Creation!Next, Creation!Step, Creation!Arrive, Creation!Accept,
       Creation!Get, Creation!GetFails, Creation!Insert, Creation!Lookup, Creation!Set,
       Creation!Abandon, Creation!Tick, Creation!Replicate, Creation!RedisDown,
       Creation!RedisBack, Creation!TtlEnds
  <1> QED BY <1>1, Zenon DEF RedisFlags

\* POST /api/streams with an Idempotency-Key: two 201 answers under one key name
\* the same stream, and each names the stream of the body it answers, whatever
\* the number of requests and keys, with outages, timeouts and lagging replicas;
\* a key is excused if its requests overlapped, one was cut off, Redis failed
\* under it or its TTL ended.
THEOREM KeysKeepTheirPromise == Creation!Spec => []KeyMeansOneStream
  <1>1. Creation!Init => CreationInv /\ RedisFlags
    <2> SUFFICES ASSUME Creation!Init PROVE CreationInv /\ RedisFlags
      OBVIOUS
    <2>1. CreationType /\ RedisFlags
      BY CreationAssumption DEF Creation!Init, CreationType, RedisFlags
    <2>2. Overlaps /\ KeyInv /\ Creation!AnswerMatchesRequest
      BY NotPosting DEF Creation!Init, Overlaps, KeyInv, Creation!AnswerMatchesRequest
    <2> QED BY <2>1, <2>2 DEF CreationInv
  <1>2. CreationInv /\ RedisFlags /\ [Creation!Next]_createVars => CreationInv' /\ RedisFlags'
    BY CreationStep, RedisFlagsStep
  <1>3. CreationInv /\ RedisFlags => KeyMeansOneStream
    <2> SUFFICES ASSUME CreationInv, RedisFlags PROVE KeyMeansOneStream
      OBVIOUS
    <2>1. Creation!OneStreamPerKey
      BY DEF CreationInv, CreationType, KeyInv, Posted, Creation!OneStreamPerKey
    <2>2. Creation!TypeOK
      BY DEF CreationInv, CreationType, Posted, Posting, RedisFlags, Creation!TypeOK
    <2> QED BY <2>1, <2>2 DEF CreationInv, KeyMeansOneStream, Creation!KeyMeansOneStream
  <1> QED BY <1>1, <1>2, <1>3, PTL DEF Creation!Spec, createVars, Creation!createVars

----------------------------------------------------------------------------
(* Admin state                                                             *)

AdminRequest == [at : {"idle", "acquire", "acquireFile", "steal", "hold", "job", "written", "done",
                       "apply"},
                 ns : Admin!Namespace, next : Admin!Flags, via : {"none", "redis", "file"}]

AdminType ==
    /\ memory \in [Proc -> Admin!Flags] /\ file \in Admin!Flags /\ intended \in Admin!Flags
    /\ reindex \in [Proc -> {"idle", "running", "completed", "failed"}]
    /\ lockKey \in [Admin!Namespace -> AdminCall \cup {Admin!Nobody, Admin!Dead}]
    /\ lockFile \in [Admin!Namespace -> AdminCall \cup {Admin!Nobody, Admin!Dead}]
    /\ request \in [AdminCall -> AdminRequest]
    /\ calls \in 0..MaxAdminCalls /\ faults \in 0..MaxFaults /\ kills \in 0..MaxKills
    /\ lapsed \subseteq AdminCall /\ writer \in Proc \cup {Admin!Nobody}

Held == {"hold", "job", "written", "done"}
Sound == wired /\ faults = 0         \* Redis is enabled and no command failed

\* Where a request can stand with which lock.
RequestOK(r) ==
    /\ r.at = "idle" => r = Admin!Idle
    /\ r.at = "job" => r.ns = "reindex"
    /\ r.at \in {"written", "apply"} => r.ns = "pauseFlags"
    /\ r.via = "redis" => r.at \in Held
    /\ Sound => r.at \notin {"acquireFile", "steal"} /\ (r.at \in Held => r.via = "redis")
RequestsOK == \A c \in AdminCall : RequestOK(request[c])

\* A process's status is "running" as long as its only job is.
JobInv ==
    \A c \in AdminCall : request[c].at = "job" =>
        /\ reindex[Home[c]] = "running"
        /\ \A d \in AdminCall \ {c} : request[d].at = "job" => Home[d] # Home[c]

Pausing(c) == request[c].at # "idle" /\ request[c].ns = "pauseFlags"
Stored(c) == request[c].at \in {"written", "apply"}

\* Pause calls one after the other, all of one process: the process's memory lags
\* behind the file only between the write and the assignment.
SerialPauses ==
    /\ file = intended
    /\ \A c \in AdminCall : Pausing(c) => Home[c] = writer /\ \A d \in AdminCall \ {c} : ~Pausing(d)
    /\ \A c \in AdminCall : Stored(c) => request[c].next = intended
    /\ \A p \in Proc : writer \in {p, Admin!Nobody} /\ (\A c \in AdminCall : ~Stored(c))
          => memory[p] = intended
PauseInv == ~overlapped => SerialPauses

AdminInv == AdminType /\ RequestsOK /\ JobInv /\ Admin!HolderKeepsKey /\ PauseInv

LEMMA AdminConstants ==
    /\ Home \in [AdminCall -> Proc] /\ Admin!Nobody \notin AdminCall \cup Proc
    /\ Admin!Dead \notin AdminCall /\ Admin!Dead # Admin!Nobody
    /\ MaxAdminCalls \in Nat /\ MaxFaults \in Nat /\ MaxKills \in Nat
    /\ "pauseFlags" \in Admin!Namespace /\ "reindex" \in Admin!Namespace
    /\ Admin!Idle \in AdminRequest /\ Admin!Idle.at = "idle" /\ Admin!Idle.via = "none"
    /\ Admin!Idle.ns = "pauseFlags"
  BY AdminAssumption DEF Admin!Nobody, Admin!Dead, Admin!Namespace, Admin!Idle, AdminRequest,
     Admin!Flags

\* One request moves to R: what the others keep.
LEMMA MoveRequest ==
    ASSUME AdminInv, NEW c \in AdminCall, NEW R \in AdminRequest,
           request' = [request EXCEPT ![c] = R], RequestOK(R)',
           UNCHANGED wired, faults' \in 0..MaxFaults, faults <= faults'
    PROVE  /\ request' \in [AdminCall -> AdminRequest] /\ RequestsOK' /\ request'[c] = R
           /\ \A d \in AdminCall \ {c} : request'[d] = request[d]
  <1> USE DEF AdminInv, AdminType
  <1>1. /\ request' \in [AdminCall -> AdminRequest] /\ request'[c] = R
        /\ \A d \in AdminCall \ {c} : request'[d] = request[d]
    OBVIOUS
  <1>2. Sound' => Sound
    BY AdminConstants DEF Sound
  <1>3. \A d \in AdminCall : RequestOK(request[d])
    BY DEF RequestsOK
  <1>4. \A d \in AdminCall : RequestOK(request[d])'
    <2> TAKE d \in AdminCall
    <2>1. CASE d = c
      BY <1>1, <2>1 DEF RequestOK
    <2>2. CASE d # c
      BY <1>1, <1>2, <1>3, <2>2 DEF RequestOK
    <2> QED BY <2>1, <2>2
  <1> QED BY <1>1, <1>4 DEF RequestsOK

\* A move that starts no job and takes no Redis lock.
LEMMA QuietMove ==
    ASSUME AdminInv, NEW c \in AdminCall, NEW R \in AdminRequest, request'[c] = R,
           \A d \in AdminCall \ {c} : request'[d] = request[d]
    PROVE  /\ R.at # "job" /\ UNCHANGED reindex => JobInv'
           /\ (R.via = "redis" => request[c].via = "redis" /\ R.ns = request[c].ns)
                  /\ UNCHANGED <<lockKey, lapsed>> => Admin!HolderKeepsKey'
           /\ /\ R.at # "idle" /\ R.ns = "pauseFlags" => Pausing(c)
              /\ R.at \in {"written", "apply"} <=> Stored(c)
              /\ R.at \in {"written", "apply"} => R.next = request[c].next
              /\ UNCHANGED <<memory, file, overlapped, writer, intended>>
              => PauseInv'
  <1> USE DEF AdminInv
  <1>1. ASSUME R.at # "job", UNCHANGED reindex PROVE JobInv'
    BY <1>1 DEF JobInv
  <1>2. ASSUME R.via = "redis" => request[c].via = "redis" /\ R.ns = request[c].ns,
               UNCHANGED <<lockKey, lapsed>>
        PROVE  Admin!HolderKeepsKey'
    BY <1>2 DEF Admin!HolderKeepsKey
  <1>3. ASSUME R.at # "idle" /\ R.ns = "pauseFlags" => Pausing(c),
               R.at \in {"written", "apply"} <=> Stored(c),
               R.at \in {"written", "apply"} => R.next = request[c].next,
               UNCHANGED <<memory, file, overlapped, writer, intended>>,
               ~overlapped'
        PROVE  SerialPauses'
    <2>1. SerialPauses
      BY <1>3 DEF PauseInv
    <2>2. \A d \in AdminCall : (Pausing(d)' => Pausing(d)) /\ (Stored(d)' <=> Stored(d))
      BY <1>3 DEF Pausing, Stored
    <2>3. \A d \in AdminCall : Stored(d)' => request'[d].next = request[d].next
      BY <1>3 DEF Stored
    <2>4. (file = intended)'
      BY <1>3, <2>1 DEF SerialPauses
    <2>5. \A d \in AdminCall : Pausing(d)' => Home[d] = writer'
              /\ \A e \in AdminCall \ {d} : ~Pausing(e)'
      BY <1>3, <2>1, <2>2 DEF SerialPauses
    <2>6. \A d \in AdminCall : Stored(d)' => request'[d].next = intended'
      BY <1>3, <2>1, <2>2, <2>3 DEF SerialPauses
    <2>7. \A p \in Proc : writer' \in {p, Admin!Nobody} /\ (\A d \in AdminCall : ~Stored(d)')
              => memory'[p] = intended'
      BY <1>3, <2>1, <2>2 DEF SerialPauses
    <2> QED BY <2>4, <2>5, <2>6, <2>7 DEF SerialPauses
  <1>4. ASSUME R.at # "idle" /\ R.ns = "pauseFlags" => Pausing(c),
               R.at \in {"written", "apply"} <=> Stored(c),
               R.at \in {"written", "apply"} => R.next = request[c].next,
               UNCHANGED <<memory, file, overlapped, writer, intended>>
        PROVE  PauseInv'
    BY <1>3, <1>4 DEF PauseInv
  <1> QED BY <1>1, <1>2, <1>4

\* Steps that move one request and touch neither its job, nor a Redis key, nor the
\* flags: waiting for the lock, the file lock, and giving up.
LEMMA WaitingKeepsAdmin ==
    ASSUME AdminInv, NEW c \in AdminCall,
           \/ Admin!SetNxNoOp(c) \/ Admin!CreateLockFile(c) \/ Admin!StatStale(c)
           \/ Admin!StealLockFile(c) \/ Admin!AcquireTimesOut(c) \/ Admin!WriteFails(c)
    PROVE  AdminInv'
  <1> USE AdminConstants DEF AdminInv, AdminType
  <1> DEFINE r == request[c]
  <1>0. r \in AdminRequest /\ RequestOK(r)
    BY DEF RequestsOK
  <1>1. PICK R \in AdminRequest :
          /\ request' = [request EXCEPT ![c] = R] /\ R.at \notin {"job", "written", "apply"}
          /\ r.at \notin {"job", "written", "apply", "idle"}
          /\ (R.at = "idle" => R = Admin!Idle) /\ (R.at # "idle" => R.ns = r.ns)
          /\ (R.via = "redis" => r.via = "redis" /\ R.at \in Held)
          /\ \/ faults' > 0
             \/ ~wired
             \/ r.at \in {"acquireFile", "steal"}
             \/ R.at = "idle"
    <2> USE DEF AdminRequest
    <2>1. CASE Admin!SetNxNoOp(c)
      <3> WITNESS [r EXCEPT !.at = "hold"] \in AdminRequest
      <3> QED BY <1>0, <2>1 DEF Admin!SetNxNoOp, AdminRequest, Held, RequestOK
    <2>2. CASE Admin!CreateLockFile(c)
      <3> WITNESS [r EXCEPT !.at = "hold", !.via = "file"] \in AdminRequest
      <3> QED BY <1>0, <2>2 DEF Admin!CreateLockFile, AdminRequest, Held, RequestOK
    <2>3. CASE Admin!StatStale(c)
      <3> WITNESS [r EXCEPT !.at = "steal"] \in AdminRequest
      <3> QED BY <1>0, <2>3 DEF Admin!StatStale, AdminRequest, Held, RequestOK
    <2>4. CASE Admin!StealLockFile(c)
      <3> WITNESS [r EXCEPT !.at = "acquireFile"] \in AdminRequest
      <3> QED BY <1>0, <2>4 DEF Admin!StealLockFile, AdminRequest, Held, RequestOK
    <2>5. CASE Admin!AcquireTimesOut(c)
      <3> WITNESS Admin!Idle \in AdminRequest
      <3> QED BY <1>0, <2>5 DEF Admin!AcquireTimesOut
    <2>6. CASE Admin!WriteFails(c)
      <3> WITNESS [r EXCEPT !.at = "done"] \in AdminRequest
      <3> QED BY <1>0, <2>6 DEF Admin!WriteFails, AdminRequest, Held, RequestOK
    <2> QED BY <2>1, <2>2, <2>3, <2>4, <2>5, <2>6
  <1>2. /\ UNCHANGED <<wired, memory, file, reindex, lockKey, calls, lapsed, kills, overlapped,
                       writer, intended>>
        /\ faults' \in 0..MaxFaults /\ faults <= faults'
        /\ lockFile' \in [Admin!Namespace -> AdminCall \cup {Admin!Nobody, Admin!Dead}]
    <2> USE DEF Admin!SetNxNoOp, Admin!CreateLockFile, Admin!StatStale, Admin!StealLockFile,
          Admin!AcquireTimesOut, Admin!WriteFails, Admin!lockVars, Admin!history
    <2>1. UNCHANGED <<wired, memory, file, reindex, lockKey, calls, lapsed, kills, overlapped,
                      writer, intended>>
      BY Zenon
    <2>2. faults' \in 0..MaxFaults /\ faults <= faults'
      <3>1. ASSUME UNCHANGED faults PROVE faults' \in 0..MaxFaults /\ faults <= faults'
        BY <3>1
      <3>2. CASE Admin!WriteFails(c)
        BY <3>2
      <3> QED BY <3>1, <3>2, Zenon
    <2>3. \/ lockFile' = lockFile
          \/ lockFile' = [lockFile EXCEPT ![r.ns] = c]
          \/ lockFile' = [lockFile EXCEPT ![r.ns] = Admin!Nobody]
      BY Zenon
    <2> QED BY <1>0, <2>1, <2>2, <2>3 DEF AdminRequest
  <1>3. RequestOK(R)'
    BY <1>0, <1>1, <1>2 DEF RequestOK, Sound, Held
  <1>4. /\ request' \in [AdminCall -> AdminRequest] /\ RequestsOK' /\ request'[c] = R
        /\ \A d \in AdminCall \ {c} : request'[d] = request[d]
    BY <1>1, <1>2, <1>3, MoveRequest
  <1>5. JobInv'
    BY <1>1, <1>2, <1>4, QuietMove
  <1>6. Admin!HolderKeepsKey'
    BY <1>0, <1>1, <1>2, <1>4, QuietMove
  <1>7. PauseInv'
    BY <1>0, <1>1, <1>2, <1>4, QuietMove DEF Pausing, Stored
  <1> QED BY <1>2, <1>4, <1>5, <1>6, <1>7

\* The key is set only where there was none, so no holder loses its own.
LEMMA KeyTaken ==
    ASSUME AdminInv, NEW c \in AdminCall, NEW n \in Admin!Namespace,
           lockKey[n] = Admin!Nobody, lockKey' = [lockKey EXCEPT ![n] = c], UNCHANGED lapsed,
           \A d \in AdminCall \ {c} : request'[d] = request[d],
           request'[c].via = "redis" => request'[c].ns = n
    PROVE  Admin!HolderKeepsKey'
  <1> USE AdminConstants DEF AdminInv, AdminType
  <1>1. \A d \in AdminCall : request[d].ns \in Admin!Namespace
    BY DEF AdminRequest
  <1> QED BY <1>1 DEF Admin!HolderKeepsKey

LEMMA SetNxKeepsAdmin ==
    ASSUME AdminInv, NEW c \in AdminCall, Admin!SetNx(c)
    PROVE  AdminInv'
  <1> USE AdminConstants DEF AdminInv, AdminType
  <1> DEFINE r == request[c]
  <1>0. r \in AdminRequest /\ r.at = "acquire" /\ r.ns \in Admin!Namespace
    BY DEF Admin!SetNx, AdminRequest
  <1>1. PICK R \in AdminRequest :
          /\ request' = [request EXCEPT ![c] = R]
          /\ R.at = "hold" /\ R.via = "redis" /\ R.ns = r.ns
    <2>1. [r EXCEPT !.at = "hold", !.via = "redis"] \in AdminRequest
      BY <1>0 DEF AdminRequest
    <2> QED BY <1>0, <2>1 DEF Admin!SetNx, AdminRequest
  <1>3. /\ UNCHANGED <<wired, memory, file, reindex, calls, faults, lapsed, kills, overlapped,
                       writer, intended, lockFile>>
        /\ lockKey[r.ns] = Admin!Nobody /\ lockKey' = [lockKey EXCEPT ![r.ns] = c]
    BY Zenon DEF Admin!SetNx, Admin!history
  <1>4. RequestOK(R)'
    BY <1>1 DEF RequestOK, Held
  <1>f. UNCHANGED wired /\ faults' \in 0..MaxFaults /\ faults <= faults'
    BY <1>3
  <1>5. /\ request' \in [AdminCall -> AdminRequest] /\ RequestsOK' /\ request'[c] = R
        /\ \A d \in AdminCall \ {c} : request'[d] = request[d]
    BY <1>1, <1>f, <1>4, MoveRequest
  <1>6. JobInv' /\ PauseInv'
    BY <1>0, <1>1, <1>3, <1>5, QuietMove DEF Pausing, Stored
  <1>7. Admin!HolderKeepsKey'
    BY <1>0, <1>1, <1>3, <1>5, KeyTaken
  <1>8. AdminType'
    BY <1>0, <1>3, <1>5
  <1> QED BY <1>5, <1>6, <1>7, <1>8

LEMMA SetNxFailsKeepsAdmin ==
    ASSUME AdminInv, NEW c \in AdminCall, Admin!SetNxFails(c)
    PROVE  AdminInv'
  <1> USE AdminConstants DEF AdminInv, AdminType
  <1> DEFINE r == request[c]
  <1>0. r \in AdminRequest /\ r.at = "acquire" /\ r.ns \in Admin!Namespace /\ r.via # "redis"
    BY DEF Admin!SetNxFails, AdminRequest, RequestsOK, RequestOK, Held
  <1>1. PICK R \in AdminRequest :
          /\ request' = [request EXCEPT ![c] = R]
          /\ R.at = "acquireFile" /\ R.via # "redis" /\ R.ns = r.ns
    <2>1. [r EXCEPT !.at = "acquireFile"] \in AdminRequest
      BY <1>0 DEF AdminRequest
    <2> QED BY <1>0, <2>1 DEF Admin!SetNxFails, AdminRequest
  <1>3. /\ UNCHANGED <<wired, memory, file, reindex, calls, lapsed, kills, overlapped,
                       writer, intended, lockFile>>
        /\ faults < MaxFaults /\ faults' = faults + 1
    BY Zenon DEF Admin!SetNxFails, Admin!history
  <1>4. \/ lockKey' = lockKey
        \/ lockKey[r.ns] = Admin!Nobody /\ lockKey' = [lockKey EXCEPT ![r.ns] = c]
    BY DEF Admin!SetNxFails
  <1>5. RequestOK(R)'
    BY <1>1, <1>3 DEF RequestOK, Sound
  <1>f. UNCHANGED wired /\ faults' \in 0..MaxFaults /\ faults <= faults'
    BY <1>3
  <1>6. /\ request' \in [AdminCall -> AdminRequest] /\ RequestsOK' /\ request'[c] = R
        /\ \A d \in AdminCall \ {c} : request'[d] = request[d]
    BY <1>1, <1>f, <1>5, MoveRequest
  <1>7. JobInv' /\ PauseInv'
    BY <1>0, <1>1, <1>3, <1>6, QuietMove DEF Pausing, Stored
  <1>8. Admin!HolderKeepsKey'
    BY <1>0, <1>1, <1>3, <1>4, <1>6, KeyTaken, QuietMove
  <1>9. AdminType'
    BY <1>0, <1>3, <1>4, <1>6
  <1> QED BY <1>6, <1>7, <1>8, <1>9

LEMMA ReleaseKeepsAdmin ==
    ASSUME AdminInv, NEW c \in AdminCall, Admin!Release(c)
    PROVE  AdminInv'
  <1> USE AdminConstants DEF AdminInv, AdminType
  <1> DEFINE r == request[c]
  <1>0. r \in AdminRequest /\ r.ns \in Admin!Namespace /\ r.at \in {"written", "done", "hold"}
    BY DEF Admin!Release, AdminRequest
  <1>1. PICK R \in AdminRequest :
          /\ request' = [request EXCEPT ![c] = R] /\ R.via = "none"
          /\ \/ r.at = "written" /\ R.at = "apply" /\ R.ns = r.ns /\ R.next = r.next
             \/ r.at # "written" /\ R = Admin!Idle
    <2>1. CASE r.at = "written"
      <3>1. [r EXCEPT !.at = "apply", !.via = "none"] \in AdminRequest
        BY <1>0 DEF AdminRequest
      <3> QED BY <1>0, <2>1, <3>1 DEF Admin!Release, AdminRequest
    <2>2. CASE r.at # "written"
      BY <2>2 DEF Admin!Release
    <2> QED BY <2>1, <2>2
  <1>2. UNCHANGED <<wired, memory, file, reindex, calls, lapsed, kills, overlapped, writer, intended>>
    BY Zenon DEF Admin!Release, Admin!history
  <1>3. /\ \/ UNCHANGED faults
           \/ faults < MaxFaults /\ faults' = faults + 1
        /\ \/ lockKey' = lockKey
           \/ lockKey[r.ns] = c /\ lockKey' = [lockKey EXCEPT ![r.ns] = Admin!Nobody]
        /\ \/ lockFile' = lockFile
           \/ lockFile' = [lockFile EXCEPT ![r.ns] = Admin!Nobody]
    BY Zenon DEF Admin!Release, Admin!DelIfValue
  <1>a. RequestOK(r)
    BY DEF RequestsOK
  <1>4. RequestOK(R)'
    BY <1>0, <1>1, <1>a DEF RequestOK, Held
  <1>f. UNCHANGED wired /\ faults' \in 0..MaxFaults /\ faults <= faults'
    BY <1>2, <1>3
  <1>5. /\ request' \in [AdminCall -> AdminRequest] /\ RequestsOK' /\ request'[c] = R
        /\ \A d \in AdminCall \ {c} : request'[d] = request[d]
    BY <1>1, <1>f, <1>4, MoveRequest
  <1>6. JobInv' /\ PauseInv'
    BY <1>0, <1>1, <1>2, <1>4, <1>5, QuietMove DEF Pausing, Stored
  <1>7. Admin!HolderKeepsKey'
    <2>1. \A d \in AdminCall : request[d].ns \in Admin!Namespace
      BY DEF AdminRequest
    <2> QED BY <1>0, <1>1, <1>2, <1>3, <1>5, <2>1 DEF Admin!HolderKeepsKey
  <1>8. AdminType'
    BY <1>0, <1>2, <1>3, <1>5
  <1> QED BY <1>5, <1>6, <1>7, <1>8

\* A lapsing lease is recorded against its holder.
LEMMA LeaseEndsKeepsAdmin ==
    ASSUME AdminInv, NEW n \in Admin!Namespace, Admin!LeaseEnds(n)
    PROVE  AdminInv'
  <1> USE AdminConstants DEF AdminInv, AdminType
  <1>1. UNCHANGED <<wired, memory, file, reindex, lockFile, request, calls, faults, kills,
                    overlapped, writer, intended>>
    BY Zenon DEF Admin!LeaseEnds, Admin!history
  <1>2. /\ lapsed \subseteq lapsed' /\ lapsed' \subseteq AdminCall
        /\ \/ UNCHANGED lockKey
           \/ /\ lockKey' = [lockKey EXCEPT ![n] = Admin!Nobody]
              /\ \A c \in AdminCall : lockKey[n] = c /\ Admin!Holding(c, n) /\ request[c].via = "redis"
                     => c \in lapsed'
    BY DEF Admin!LeaseEnds
  <1>3. RequestsOK'
    BY <1>1 DEF RequestsOK, RequestOK, Sound
  <1>4. JobInv' /\ PauseInv'
    BY <1>1 DEF JobInv, PauseInv, SerialPauses, Pausing, Stored
  <1>5. \A c \in AdminCall : request[c].ns \in Admin!Namespace
    BY DEF AdminRequest
  <1>6. \A c \in AdminCall : request[c].via = "redis" => Admin!Holding(c, request[c].ns)
    BY DEF RequestsOK, RequestOK, Held, Admin!Holding
  <1>7. Admin!HolderKeepsKey'
    BY <1>1, <1>2, <1>5, <1>6 DEF Admin!HolderKeepsKey
  <1> QED BY <1>1, <1>2, <1>3, <1>4, <1>7

\* The flags are written: the file runs ahead of the memory until they are applied.
LEMMA WriteFlagsKeepsAdmin ==
    ASSUME AdminInv, NEW c \in AdminCall, Admin!WriteFlags(c)
    PROVE  AdminInv'
  <1> USE AdminConstants DEF AdminInv, AdminType
  <1> DEFINE r == request[c]
  <1>0. r \in AdminRequest /\ r.at = "hold" /\ r.ns = "pauseFlags" /\ r.next \in Admin!Flags
    BY DEF Admin!WriteFlags, AdminRequest
  <1>1. PICK R \in AdminRequest :
          /\ request' = [request EXCEPT ![c] = R]
          /\ R.at = "written" /\ R.via = r.via /\ R.ns = r.ns /\ R.next = r.next
    <2>1. [r EXCEPT !.at = "written"] \in AdminRequest
      BY <1>0 DEF AdminRequest
    <2> QED BY <1>0, <2>1 DEF Admin!WriteFlags, AdminRequest
  <1>2. /\ UNCHANGED <<wired, memory, reindex, calls, faults, lapsed, kills, overlapped, writer,
                       lockKey, lockFile>>
        /\ file' = r.next /\ intended' = r.next
    BY Zenon DEF Admin!WriteFlags, Admin!lockVars
  <1>a. RequestOK(r)
    BY DEF RequestsOK
  <1>3. RequestOK(R)'
    BY <1>0, <1>1, <1>2, <1>a DEF RequestOK, Held, Sound
  <1>f. UNCHANGED wired /\ faults' \in 0..MaxFaults /\ faults <= faults'
    BY <1>2
  <1>4. /\ request' \in [AdminCall -> AdminRequest] /\ RequestsOK' /\ request'[c] = R
        /\ \A d \in AdminCall \ {c} : request'[d] = request[d]
    BY <1>1, <1>f, <1>3, MoveRequest
  <1>5. JobInv' /\ Admin!HolderKeepsKey'
    BY <1>1, <1>2, <1>4, QuietMove
  <1>6. ASSUME ~overlapped' PROVE SerialPauses'
    <2>1. SerialPauses /\ Pausing(c)
      BY <1>0, <1>2, <1>6 DEF PauseInv, Pausing
    <2>2. Home[c] = writer /\ \A d \in AdminCall \ {c} : ~Pausing(d)
      BY <2>1 DEF SerialPauses
    <2>3. \A d \in AdminCall \ {c} : ~Pausing(d)' /\ ~Stored(d)'
      BY <1>4, <2>2 DEF Pausing, Stored, RequestsOK, RequestOK
    <2>4. Stored(c)'
      BY <1>1, <1>4 DEF Stored
    <2> QED BY <1>1, <1>2, <1>4, <2>2, <2>3, <2>4 DEF SerialPauses
  <1> QED BY <1>0, <1>2, <1>4, <1>5, <1>6 DEF PauseInv

LEMMA ApplyFlagsKeepsAdmin ==
    ASSUME AdminInv, NEW c \in AdminCall, Admin!ApplyFlags(c)
    PROVE  AdminInv'
  <1> USE AdminConstants DEF AdminInv, AdminType
  <1> DEFINE r == request[c]
  <1>0. r \in AdminRequest /\ r.at = "apply" /\ r.next \in Admin!Flags
    BY DEF Admin!ApplyFlags, AdminRequest
  <1>1. /\ request' = [request EXCEPT ![c] = Admin!Idle]
        /\ UNCHANGED <<wired, reindex, calls, faults, lapsed, kills, overlapped, writer,
                       lockKey, lockFile, file, intended>>
        /\ memory' = [memory EXCEPT ![Home[c]] = r.next]
    BY Zenon DEF Admin!ApplyFlags, Admin!Applied, Admin!lockVars, Admin!history
  <1>2. PICK R \in AdminRequest : R = Admin!Idle
    OBVIOUS
  <1>3. RequestOK(R)'
    BY <1>2 DEF RequestOK, Held
  <1>f. UNCHANGED wired /\ faults' \in 0..MaxFaults /\ faults <= faults'
    BY <1>1
  <1>4. /\ request' \in [AdminCall -> AdminRequest] /\ RequestsOK' /\ request'[c] = R
        /\ \A d \in AdminCall \ {c} : request'[d] = request[d]
    BY <1>1, <1>2, <1>f, <1>3, MoveRequest
  <1>5. JobInv' /\ Admin!HolderKeepsKey'
    BY <1>1, <1>2, <1>4, QuietMove
  <1>6. ASSUME ~overlapped' PROVE SerialPauses'
    <2>1. SerialPauses /\ Pausing(c) /\ Stored(c)
      BY <1>0, <1>1, <1>6 DEF PauseInv, Pausing, Stored, RequestsOK, RequestOK
    <2>2. Home[c] = writer /\ (\A d \in AdminCall \ {c} : ~Pausing(d)) /\ r.next = intended
      BY <2>1 DEF SerialPauses
    <2>3. \A d \in AdminCall : ~Pausing(d)' /\ ~Stored(d)'
      BY <1>2, <1>4, <2>2 DEF Pausing, Stored, RequestsOK, RequestOK
    <2>4. memory'[Home[c]] = intended
      BY <1>1, <2>2
    <2>5. file' = intended'
      BY <1>1, <2>1 DEF SerialPauses
    <2> QED BY <1>1, <2>2, <2>3, <2>4, <2>5 DEF SerialPauses
  <1> QED BY <1>0, <1>1, <1>4, <1>5, <1>6 DEF PauseInv

\* A new pause call: the first, or the next of the same process with none under way.
LEMMA SetPauseFlagsKeepsAdmin ==
    ASSUME AdminInv, NEW c \in AdminCall, NEW on \in Admin!Flags, NEW off \in SUBSET (Flag \ on),
           Admin!SetPauseFlags(c, on, off)
    PROVE  AdminInv'
  <1> USE AdminConstants DEF AdminInv, AdminType
  <1> DEFINE r == request[c]
             p == Home[c]
             new == (memory[p] \cup on) \ off
  <1>0. r \in AdminRequest /\ r = Admin!Idle /\ p \in Proc /\ new \in Admin!Flags
    BY DEF Admin!SetPauseFlags, RequestsOK, RequestOK, Admin!Flags
  <1>1. PICK R \in AdminRequest :
          /\ request' = [request EXCEPT ![c] = R]
          /\ R.at = "acquire" /\ R.via = "none" /\ R.ns = "pauseFlags" /\ R.next = new
    <2>1. [r EXCEPT !.at = "acquire", !.next = new] \in AdminRequest
      BY <1>0 DEF AdminRequest
    <2> QED BY <1>0, <2>1 DEF Admin!SetPauseFlags, AdminRequest
  <1>2. /\ UNCHANGED <<wired, memory, file, reindex, faults, lapsed, kills, intended, lockKey,
                       lockFile>>
        /\ calls < MaxAdminCalls /\ calls' = calls + 1 /\ writer' = p
    BY Zenon DEF Admin!SetPauseFlags, Admin!lockVars
  <1>3. ~overlapped' =>
           /\ ~overlapped /\ writer \in {p, Admin!Nobody}
           /\ \A d \in AdminCall \ {c} : ~Pausing(d)
    BY DEF Admin!SetPauseFlags, Pausing
  <1>4. RequestOK(R)'
    BY <1>1 DEF RequestOK, Held
  <1>f. UNCHANGED wired /\ faults' \in 0..MaxFaults /\ faults <= faults'
    BY <1>2
  <1>5. /\ request' \in [AdminCall -> AdminRequest] /\ RequestsOK' /\ request'[c] = R
        /\ \A d \in AdminCall \ {c} : request'[d] = request[d]
    BY <1>1, <1>f, <1>4, MoveRequest
  <1>6. JobInv' /\ Admin!HolderKeepsKey'
    BY <1>1, <1>2, <1>5, QuietMove
  <1>7. ASSUME ~overlapped' PROVE SerialPauses'
    <2>1. SerialPauses
      BY <1>3, <1>7 DEF PauseInv
    <2>2. \A d \in AdminCall \ {c} : ~Pausing(d)' /\ ~Stored(d)' /\ ~Stored(d)
      BY <1>3, <1>5, <1>7 DEF Pausing, Stored, RequestsOK, RequestOK
    <2>3. ~Stored(c)' /\ ~Stored(c)
      BY <1>0, <1>1, <1>5 DEF Stored
    <2>4. memory[p] = intended /\ file = intended
      BY <1>0, <1>3, <1>7, <2>1, <2>2, <2>3 DEF SerialPauses
    <2> QED BY <1>0, <1>2, <2>2, <2>3, <2>4 DEF SerialPauses
  <1>8. AdminType'
    BY <1>0, <1>2, <1>5
  <1> QED BY <1>5, <1>6, <1>7, <1>8 DEF PauseInv

\* A job starts in a process whose status is not "running", that is, without a job.
LEMMA JobStarts ==
    ASSUME AdminInv, NEW c \in AdminCall, NEW R \in AdminRequest, request'[c] = R,
           reindex[Home[c]] # "running", reindex' = [reindex EXCEPT ![Home[c]] = "running"],
           \A d \in AdminCall \ {c} : request'[d] = request[d]
    PROVE  JobInv'
  <1> USE AdminConstants DEF AdminInv, AdminType
  <1>1. \A d \in AdminCall : request[d].at = "job" => Home[d] # Home[c]
    BY DEF JobInv
  <1> QED BY <1>1 DEF JobInv

LEMMA TriggerKeepsAdmin ==
    ASSUME AdminInv, NEW c \in AdminCall, Admin!TriggerReindex(c)
    PROVE  AdminInv'
  <1> USE AdminConstants DEF AdminInv, AdminType
  <1> DEFINE r == request[c]
  <1>0. r \in AdminRequest /\ r = Admin!Idle /\ reindex[Home[c]] # "running"
    BY DEF Admin!TriggerReindex, RequestsOK, RequestOK
  <1>1. PICK R \in AdminRequest :
          /\ request' = [request EXCEPT ![c] = R]
          /\ R.via = "none" /\ R.ns = "reindex" /\ R.next = r.next
          /\ \/ wired /\ R.at = "acquire" /\ reindex' = reindex
             \/ ~wired /\ R.at = "job" /\ reindex' = [reindex EXCEPT ![Home[c]] = "running"]
    <2>1. /\ [r EXCEPT !.ns = "reindex", !.at = "acquire"] \in AdminRequest
          /\ [r EXCEPT !.ns = "reindex", !.at = "job"] \in AdminRequest
      BY <1>0 DEF AdminRequest
    <2>2. CASE wired
      BY <1>0, <2>1, <2>2 DEF Admin!TriggerReindex, AdminRequest
    <2>3. CASE ~wired
      BY <1>0, <2>1, <2>3, ZenonT(60) DEF Admin!TriggerReindex, AdminRequest
    <2> QED BY <2>2, <2>3
  <1>2. /\ UNCHANGED <<wired, memory, file, faults, lapsed, kills, intended, lockKey,
                       lockFile, overlapped, writer>>
        /\ calls < MaxAdminCalls /\ calls' = calls + 1
    BY Zenon DEF Admin!TriggerReindex, Admin!lockVars, Admin!history
  <1>3. RequestOK(R)'
    BY <1>1, <1>2 DEF RequestOK, Held, Sound
  <1>f. UNCHANGED wired /\ faults' \in 0..MaxFaults /\ faults <= faults'
    BY <1>2
  <1>4. /\ request' \in [AdminCall -> AdminRequest] /\ RequestsOK' /\ request'[c] = R
        /\ \A d \in AdminCall \ {c} : request'[d] = request[d]
    BY <1>1, <1>f, <1>3, MoveRequest
  <1>5. JobInv'
    BY <1>0, <1>1, <1>4, QuietMove, JobStarts
  <1>6. Admin!HolderKeepsKey' /\ PauseInv'
    BY <1>0, <1>1, <1>2, <1>4, QuietMove DEF Stored
  <1>7. AdminType'
    BY <1>1, <1>2, <1>4
  <1> QED BY <1>4, <1>5, <1>6, <1>7

LEMMA JobKeepsAdmin ==
    ASSUME AdminInv, NEW c \in AdminCall, Admin!StartReindexJob(c) \/ Admin!RunReindexJob(c)
    PROVE  AdminInv'
  <1> USE AdminConstants DEF AdminInv, AdminType
  <1> DEFINE r == request[c]
  <1>0. r \in AdminRequest /\ RequestOK(r) /\ r.at \in {"hold", "job"} /\ r.ns = "reindex"
    BY DEF Admin!StartReindexJob, Admin!RunReindexJob, RequestsOK, RequestOK
  <1>1. PICK R \in AdminRequest :
          /\ request' = [request EXCEPT ![c] = R]
          /\ R.via = r.via /\ R.ns = "reindex" /\ R.next = r.next
          /\ \/ /\ R.at = "job" /\ reindex[Home[c]] # "running"
                /\ reindex' = [reindex EXCEPT ![Home[c]] = "running"]
             \/ /\ r.at = "job" /\ R.at = "done"
                /\ \E ended \in {"completed", "failed"} :
                      reindex' = [reindex EXCEPT ![Home[c]] = ended]
    <2>1. [r EXCEPT !.at = "job"] \in AdminRequest /\ [r EXCEPT !.at = "done"] \in AdminRequest
      BY <1>0 DEF AdminRequest
    <2>2. CASE Admin!StartReindexJob(c)
      BY <1>0, <2>1, <2>2 DEF Admin!StartReindexJob, Admin!StillIdle, AdminRequest
    <2>3. CASE Admin!RunReindexJob(c)
      BY <1>0, <2>1, <2>3 DEF Admin!RunReindexJob, AdminRequest
    <2> QED BY <2>2, <2>3
  <1>2. UNCHANGED <<wired, memory, file, calls, faults, lapsed, kills, intended, lockKey,
                    lockFile, overlapped, writer>>
    BY Zenon DEF Admin!StartReindexJob, Admin!RunReindexJob, Admin!lockVars, Admin!history
  <1>3. RequestOK(R)'
    BY <1>0, <1>1, <1>2 DEF RequestOK, Held, Sound
  <1>f. UNCHANGED wired /\ faults' \in 0..MaxFaults /\ faults <= faults'
    BY <1>2
  <1>4. /\ request' \in [AdminCall -> AdminRequest] /\ RequestsOK' /\ request'[c] = R
        /\ \A d \in AdminCall \ {c} : request'[d] = request[d]
    BY <1>1, <1>f, <1>3, MoveRequest
  <1>5. JobInv'
    <2>1. CASE r.at = "job" /\ R.at = "done"
      <3>1. \A d \in AdminCall \ {c} : request[d].at = "job" => Home[d] # Home[c]
        BY <2>1 DEF JobInv
      <3> QED BY <1>1, <1>4, <2>1, <3>1 DEF JobInv
    <2> QED BY <1>1, <1>4, <2>1, JobStarts
  <1>6. Admin!HolderKeepsKey' /\ PauseInv'
    BY <1>0, <1>1, <1>2, <1>4, QuietMove DEF Stored
  <1>7. AdminType'
    BY <1>1, <1>2, <1>4
  <1> QED BY <1>4, <1>5, <1>6, <1>7

\* A crash ends the process's calls and reloads its memory from the file.
LEMMA CrashKeepsAdmin ==
    ASSUME AdminInv, NEW p \in Proc, Admin!Crash(p)
    PROVE  AdminInv'
  <1> USE AdminConstants DEF AdminInv, AdminType
  <1>1. /\ UNCHANGED <<wired, file, calls, faults, lapsed, intended, overlapped, writer>>
        /\ kills < MaxKills /\ kills' = kills + 1
        /\ memory' = [memory EXCEPT ![p] = file] /\ reindex' = [reindex EXCEPT ![p] = "idle"]
    BY Zenon DEF Admin!Crash, Admin!history
  <1>2. /\ request' \in [AdminCall -> AdminRequest]
        /\ \A c \in AdminCall : request'[c] = IF Home[c] = p THEN Admin!Idle ELSE request[c]
    BY DEF Admin!Crash
  <1>3. /\ lockKey' \in [Admin!Namespace -> AdminCall \cup {Admin!Nobody, Admin!Dead}]
        /\ lockFile' \in [Admin!Namespace -> AdminCall \cup {Admin!Nobody, Admin!Dead}]
        /\ \A n \in Admin!Namespace : \A c \in AdminCall : lockKey[n] = c /\ Home[c] # p
               => lockKey'[n] = c
    BY DEF Admin!Crash
  <1>4. AdminType'
    BY <1>1, <1>2, <1>3
  <1>5. RequestsOK'
    BY <1>1, <1>2 DEF RequestsOK, RequestOK, Sound, Held
  <1>6. JobInv'
    BY <1>1, <1>2 DEF JobInv
  <1>7. Admin!HolderKeepsKey'
    <2>1. \A c \in AdminCall : request[c].ns \in Admin!Namespace
      BY DEF AdminRequest
    <2> QED BY <1>1, <1>2, <1>3, <2>1 DEF Admin!HolderKeepsKey
  <1>8. ASSUME ~overlapped' PROVE SerialPauses'
    <2>1. SerialPauses
      BY <1>1, <1>8 DEF PauseInv
    <2>2. \A c \in AdminCall : /\ Pausing(c)' => Pausing(c)
                               /\ Stored(c)' => Stored(c) /\ request'[c] = request[c]
                               /\ Stored(c) /\ ~Stored(c)' => Home[c] = p
      BY <1>2 DEF Pausing, Stored
    <2>3. \A c \in AdminCall : Stored(c) => Pausing(c)
      BY DEF Stored, Pausing, RequestsOK, RequestOK
    <2>4. file' = intended'
      BY <1>1, <2>1 DEF SerialPauses
    <2>5. \A c \in AdminCall : Pausing(c)' => Home[c] = writer'
              /\ \A d \in AdminCall \ {c} : ~Pausing(d)'
      BY <1>1, <2>1, <2>2 DEF SerialPauses
    <2>6. \A c \in AdminCall : Stored(c)' => request'[c].next = intended'
      BY <1>1, <2>1, <2>2 DEF SerialPauses
    <2>7. ASSUME NEW q \in Proc, writer' \in {q, Admin!Nobody}, \A c \in AdminCall : ~Stored(c)'
          PROVE  memory'[q] = intended'
      <3>1. CASE q = p
        BY <1>1, <2>4, <3>1
      <3>2. CASE q # p
        BY <1>1, <2>1, <2>2, <2>3, <2>7, <3>2 DEF SerialPauses
      <3> QED BY <3>1, <3>2
    <2> QED BY <2>4, <2>5, <2>6, <2>7 DEF SerialPauses
  <1> QED BY <1>4, <1>5, <1>6, <1>7, <1>8 DEF PauseInv

LEMMA AdminStep == AdminInv /\ [Admin!Next]_adminVars => AdminInv'
  <1> SUFFICES ASSUME AdminInv, [Admin!Next]_adminVars PROVE AdminInv'
    OBVIOUS
  <1>1. ASSUME NEW c \in AdminCall, Admin!Advance(c) PROVE AdminInv'
    BY <1>1, WaitingKeepsAdmin, SetNxKeepsAdmin, SetNxFailsKeepsAdmin, ReleaseKeepsAdmin,
       WriteFlagsKeepsAdmin, ApplyFlagsKeepsAdmin, JobKeepsAdmin DEF Admin!Advance
  <1>2. CASE UNCHANGED adminVars
    BY <1>2 DEF adminVars, AdminInv, AdminType, RequestsOK, RequestOK, Sound, JobInv,
       Admin!HolderKeepsKey, PauseInv, SerialPauses, Pausing, Stored
  <1>3. CASE Admin!Next
    BY <1>1, <1>3, SetPauseFlagsKeepsAdmin, TriggerKeepsAdmin, LeaseEndsKeepsAdmin,
       CrashKeepsAdmin DEF Admin!Next
  <1> QED BY <1>2, <1>3

\* The Boolean variables, apart.
AdminFlags ==
    wired \in BOOLEAN /\ overlapped \in BOOLEAN /\ staleFile \in [Admin!Namespace -> BOOLEAN]

LEMMA FlagSet ==
    ASSUME NEW S, NEW f \in [S -> BOOLEAN], NEW i, NEW b \in BOOLEAN
    PROVE  [f EXCEPT ![i] = b] \in [S -> BOOLEAN]
  OBVIOUS

LEMMA AdminFlagsStep == AdminFlags /\ [Admin!Next]_adminVars => AdminFlags'
  <1> SUFFICES ASSUME AdminFlags, [Admin!Next]_adminVars PROVE AdminFlags'
    OBVIOUS
  <1> USE DEF AdminFlags, Admin!lockVars, Admin!history
  <1>1. \/ Admin!Next
        \/ UNCHANGED <<wired, overlapped, staleFile>>
    BY Zenon DEF adminVars
  <1>2. wired' = wired
    BY <1>1, ZenonT(60) DEF Admin!Next, Admin!Advance, Admin!SetPauseFlags, Admin!TriggerReindex,
       Admin!SetNxNoOp, Admin!SetNx, Admin!SetNxFails, Admin!CreateLockFile, Admin!StatStale,
       Admin!StealLockFile, Admin!AcquireTimesOut, Admin!Release, Admin!WriteFlags,
       Admin!WriteFails, Admin!ApplyFlags, Admin!StartReindexJob, Admin!RunReindexJob,
       Admin!LeaseEnds, Admin!Crash
  <1>3. overlapped' \in BOOLEAN
    BY <1>1, ZenonT(60) DEF Admin!Next, Admin!Advance, Admin!SetPauseFlags, Admin!TriggerReindex,
       Admin!SetNxNoOp, Admin!SetNx, Admin!SetNxFails, Admin!CreateLockFile, Admin!StatStale,
       Admin!StealLockFile, Admin!AcquireTimesOut, Admin!Release, Admin!WriteFlags,
       Admin!WriteFails, Admin!ApplyFlags, Admin!StartReindexJob, Admin!RunReindexJob,
       Admin!LeaseEnds, Admin!Crash
  <1>4. \/ staleFile' = staleFile
        \/ \E n : staleFile' = [staleFile EXCEPT ![n] = FALSE]
        \/ \E n : staleFile' = [staleFile EXCEPT ![n] = TRUE]
    BY <1>1, ZenonT(60) DEF Admin!Next, Admin!Advance, Admin!SetPauseFlags, Admin!TriggerReindex,
       Admin!SetNxNoOp, Admin!SetNx, Admin!SetNxFails, Admin!CreateLockFile, Admin!StatStale,
       Admin!StealLockFile, Admin!AcquireTimesOut, Admin!Release, Admin!WriteFlags,
       Admin!WriteFails, Admin!ApplyFlags, Admin!StartReindexJob, Admin!RunReindexJob,
       Admin!LeaseEnds, Admin!Crash
  <1>5. staleFile' \in [Admin!Namespace -> BOOLEAN]
    BY <1>4, FlagSet
  <1>6. wired' \in BOOLEAN
    BY <1>2, Zenon
  <1> QED BY <1>3, <1>5, <1>6, Zenon

\* The operator controls, for every number of processes and requests, with lost
\* leases, failed Redis commands and crashes: one process never runs two reindex
\* jobs (triggerReindex checks the status again after the lock), two processes do
\* so only if a lease lapsed, a command failed or Redis is off; a release never
\* deletes the key of a holder whose lease still runs; and as long as the pause
\* calls come one after the other from one process, the file, and between calls its
\* memory, hold what the last successful one stored.
THEOREM AdminStateIsSafe == Admin!Spec => []AdminStateSafe
  <1>1. Admin!Init => AdminInv /\ AdminFlags
    <2> SUFFICES ASSUME Admin!Init PROVE AdminInv /\ AdminFlags
      OBVIOUS
    <2> USE AdminConstants DEF Admin!Init
    <2>1. AdminType
      BY DEF AdminType, Admin!Flags
    <2>2. RequestsOK /\ JobInv /\ Admin!HolderKeepsKey
      BY DEF RequestsOK, RequestOK, JobInv, Admin!HolderKeepsKey, Held
    <2>3. PauseInv
      BY DEF PauseInv, SerialPauses, Pausing, Stored
    <2>4. AdminFlags
      BY DEF AdminFlags
    <2> QED BY <2>1, <2>2, <2>3, <2>4 DEF AdminInv
  <1>2. AdminInv /\ AdminFlags /\ [Admin!Next]_adminVars => AdminInv' /\ AdminFlags'
    BY AdminStep, AdminFlagsStep
  <1>3. AdminInv /\ AdminFlags => AdminStateSafe
    <2> SUFFICES ASSUME AdminInv, AdminFlags PROVE AdminStateSafe
      OBVIOUS
    <2> USE AdminConstants DEF AdminInv
    <2>1. Admin!TypeOK
      BY DEF AdminType, AdminFlags, AdminRequest, Admin!TypeOK
    <2>2. ASSUME NEW c \in AdminCall, NEW d \in AdminCall, c # d,
                 request[c].at = "job", request[d].at = "job"
          PROVE  Home[c] # Home[d] /\ (lapsed # {} \/ faults > 0 \/ ~wired)
      <3>1. Home[c] # Home[d]
        BY <2>2 DEF JobInv
      <3>2. ASSUME lapsed = {}, Sound PROVE FALSE
        <4>1. /\ request[c].via = "redis" /\ request[c].ns = "reindex"
              /\ request[d].via = "redis" /\ request[d].ns = "reindex"
          BY <2>2, <3>2 DEF RequestsOK, RequestOK, Held
        <4> QED BY <2>2, <3>2, <4>1 DEF Admin!HolderKeepsKey
      <3>3. faults > 0 \/ faults = 0
        BY DEF AdminType
      <3> QED BY <3>1, <3>2, <3>3 DEF Sound
    <2>3. Admin!OneReindexAtATime
      BY <2>2 DEF Admin!OneReindexAtATime
    <2>4. Admin!SerialPausesPersist
      <3>1. (\A c \in AdminCall : request[c].at = "idle" \/ request[c].ns # "pauseFlags")
                => \A c \in AdminCall : ~Stored(c)
        BY DEF Stored, RequestsOK, RequestOK
      <3> QED BY <3>1 DEF PauseInv, SerialPauses, Admin!SerialPausesPersist
    <2> QED BY <2>1, <2>3, <2>4 DEF AdminStateSafe, Admin!AdminStateSafe
  <1> QED BY <1>1, <1>2, <1>3, PTL DEF Admin!Spec, adminVars, Admin!adminVars

----------------------------------------------------------------------------
(* The request rate limiter                                                *)

LEMMA SameNumber == ASSUME NEW S PROVE Limiter!Cardinality(S) = Cardinality(S)
  BY DEF Limiter!Cardinality, Cardinality

Entry == [at : 0..MaxClock, hit : Limiter!Hit]
Arrival == [stage : {"sent", "lost", "done"}, server : Server, at : 0..MaxClock]
Verdict == [store : Limiter!Store, hit : Limiter!Hit, at : 0..MaxClock, on : 0..MaxClock, ok : BOOLEAN]

\* The entry a verdict was decided with, and how long a store keeps one for sure.
EntryOf(v) == [at |-> v.at, hit |-> v.hit]
Kept(s) == IF s = Limiter!Redis THEN Window - Latency ELSE Window
Admitted(s, t) == {u \in verdicts : u.store = s /\ u.ok /\ u.on <= t /\ u.on > t - Kept(s)}
Causes(v) == {e \in seen[v.store] : e.hit # v.hit /\ e.at > v.at - Window}

LimitType ==
    /\ clock \in 0..MaxClock /\ touched \in 0..clock /\ connected \subseteq Server
    /\ entries \in [Limiter!Store -> SUBSET Entry] /\ seen \in [Limiter!Store -> SUBSET Entry]
    /\ verdicts \subseteq Verdict

HitsType == hit \in Seq(Arrival) /\ Len(hit) <= MaxHits

\* A command is under way for Latency at most; what Redis holds is older than its
\* last PEXPIRE.
OnTime ==
    /\ \A h \in DOMAIN hit : hit[h].at <= clock /\ (hit[h].stage = "sent" => clock - hit[h].at <= Latency)
    /\ \A e \in entries[Limiter!Redis] : e.at <= touched

\* A request is counted by a store once: one that is still to be counted is not there.
CountedOnce ==
    \A s \in Limiter!Store : \A e \in seen[s] :
        /\ e.hit \in DOMAIN hit
        /\ s = Limiter!Redis => hit[e.hit].stage # "sent"
        /\ s # Limiter!Redis => hit[e.hit].stage = "done"

\* A verdict was passed with an entry, soon after the request came.
Founded(v) ==
    /\ EntryOf(v) \in seen[v.store] /\ v.at <= v.on /\ v.on <= clock
    /\ v.store = Limiter!Redis => v.on - v.at <= Latency
    /\ v.store # Limiter!Redis => v.on = v.at

\* A verdict that could matter to the next one is still among the store's entries.
Remembered(v) == v.on > clock - Kept(v.store) => EntryOf(v) \in entries[v.store]

VerdictInv ==
    /\ \A s \in Limiter!Store : entries[s] \subseteq seen[s]
    /\ \A v \in verdicts : Founded(v) /\ Remembered(v)
    /\ \A u, v \in verdicts : u.store = v.store /\ u.hit = v.hit => u = v
    /\ \A s \in Limiter!Store, t \in 0..clock : Cardinality(Admitted(s, t)) <= Limit
    /\ \A v \in verdicts : ~v.ok => Cardinality(Causes(v)) >= Limit

LimitInv == LimitType /\ HitsType /\ OnTime /\ CountedOnce /\ VerdictInv

LEMMA EntriesFinite == IsFiniteSet(Entry)
  <1>1. IsFiniteSet(0..MaxClock) /\ IsFiniteSet(1..MaxHits)
    <2>1. 0 \in Int /\ 1 \in Int /\ MaxClock \in Int /\ MaxHits \in Int
      BY LimitAssumption
    <2> QED BY <2>1, FS_Interval
  <1>2. IsFiniteSet((0..MaxClock) \X (1..MaxHits))
    BY <1>1, FS_Product
  <1> DEFINE f == [p \in (0..MaxClock) \X (1..MaxHits) |-> [at |-> p[1], hit |-> p[2]]]
  <1>3. f \in [(0..MaxClock) \X (1..MaxHits) -> Entry]
    BY DEF Entry, Limiter!Hit
  <1>4. ASSUME NEW e \in Entry PROVE \E p \in (0..MaxClock) \X (1..MaxHits) : f[p] = e
    <2>1. <<e.at, e.hit>> \in (0..MaxClock) \X (1..MaxHits) /\ e = [at |-> e.at, hit |-> e.hit]
      BY DEF Entry, Limiter!Hit
    <2> QED BY <2>1
  <1>5. f \in Surjection((0..MaxClock) \X (1..MaxHits), Entry)
    BY <1>3, <1>4 DEF Surjection
  <1> HIDE DEF f
  <1> QED BY <1>2, <1>5, FS_Surjection

LEMMA EntrySets == ASSUME NEW S, S \subseteq Entry PROVE IsFiniteSet(S) /\ Cardinality(S) \in Nat
  BY EntriesFinite, FS_Subset, FS_CardinalityType

LEMMA LimitInit == Limiter!Init => LimitInv
  <1> SUFFICES ASSUME Limiter!Init PROVE LimitInv
    OBVIOUS
  <1>1. LimitType /\ HitsType
    BY LimitAssumption DEF Limiter!Init, LimitType, HitsType
  <1>2. /\ verdicts = {} /\ hit = <<>> /\ \A s \in Limiter!Store : seen[s] = {} /\ entries[s] = {}
        /\ Limiter!Redis \in Limiter!Store
    BY DEF Limiter!Init, Limiter!Store
  <1>3. \A s, t : Admitted(s, t) = {}
    BY <1>2 DEF Admitted
  <1>4. OnTime /\ CountedOnce
    BY <1>2 DEF OnTime, CountedOnce
  <1>5. VerdictInv
    <2>1. \A s, t : Cardinality(Admitted(s, t)) <= Limit
      BY <1>3, FS_EmptySet, LimitAssumption
    <2> QED BY <1>2, <2>1 DEF VerdictInv
  <1> QED BY <1>1, <1>4, <1>5 DEF LimitInv

\* What `increment' leaves in a store: the entries of the window and its own.
Counted(s, h, at) == Limiter!Prune(entries[s], at) \cup {[at |-> at, hit |-> h]}

\* A request that the store has not counted yet is counted.
LEMMA IncrementKeeps ==
    ASSUME LimitType, VerdictInv, NEW s \in Limiter!Store, NEW h \in Limiter!Hit, NEW at \in 0..clock,
           \A e \in seen[s] : e.hit # h,
           s = Limiter!Redis => clock - at <= Latency,
           s # Limiter!Redis => at = clock,
           entries' = [entries EXCEPT ![s] = Counted(s, h, at)],
           seen' = [seen EXCEPT ![s] = @ \cup Counted(s, h, at)],
           clock' = clock, touched' \in 0..clock, connected' = connected,
           \/ verdicts' = verdicts
           \/ \E v \in Verdict :
                 /\ v.store = s /\ v.hit = h /\ v.at = at /\ v.on = clock
                 /\ v.ok => Cardinality(Counted(s, h, at)) <= Limit
                 /\ ~v.ok => Cardinality(Counted(s, h, at)) > Limit
                 /\ verdicts' = verdicts \cup {v}
    PROVE  LimitType' /\ VerdictInv'
  <1> DEFINE now == Counted(s, h, at)
             own == [at |-> at, hit |-> h]
  <1>1. /\ clock \in Nat /\ Window \in Nat /\ Latency \in Nat /\ Limit \in Nat /\ MaxClock \in Nat
        /\ at \in Nat /\ at <= clock /\ clock <= MaxClock
    BY LimitAssumption DEF LimitType
  <1>2. /\ own \in Entry /\ own \in now /\ now \subseteq Entry
        /\ \A e \in entries[s] : e.at > at - Window => e \in now
        /\ \A e \in now : e = own \/ (e \in entries[s] /\ e.at > at - Window)
    BY <1>1 DEF Counted, Limiter!Prune, LimitType, Entry
  <1> HIDE DEF own
  <1>3. /\ entries'[s] = now /\ seen'[s] = seen[s] \cup now
        /\ \A r \in Limiter!Store : r # s => entries'[r] = entries[r] /\ seen'[r] = seen[r]
        /\ \A r \in Limiter!Store : seen[r] \subseteq seen'[r]
    BY DEF LimitType
  <1>4. LimitType'
    <2>1. verdicts' \subseteq Verdict
      BY DEF LimitType
    <2>2. /\ entries' \in [Limiter!Store -> SUBSET Entry]
          /\ seen' \in [Limiter!Store -> SUBSET Entry]
      BY <1>2 DEF LimitType
    <2> QED BY <1>1, <2>1, <2>2 DEF LimitType
  <1>5. \A r \in Limiter!Store : entries'[r] \subseteq seen'[r]
    BY <1>3 DEF VerdictInv
  <1>6. ASSUME NEW v \in verdicts PROVE Founded(v)' /\ Remembered(v)'
    <2>1. v \in Verdict /\ v.store \in Limiter!Store /\ v.at \in Nat /\ v.on \in Nat
      BY DEF LimitType, Verdict
    <2>2. Founded(v)'
      BY <1>3, <2>1 DEF VerdictInv, Founded, EntryOf
    <2>3. ASSUME v.store = s, v.on > clock - Kept(v.store) PROVE EntryOf(v) \in now
      <3>1. EntryOf(v) \in entries[s] /\ EntryOf(v).at = v.at
        BY <2>3 DEF VerdictInv, Remembered, EntryOf
      <3>2. v.at > at - Window
        <4>1. CASE s = Limiter!Redis
          BY <1>1, <2>1, <2>3, <4>1 DEF VerdictInv, Founded, Kept
        <4>2. CASE s # Limiter!Redis
          BY <1>1, <2>1, <2>3, <4>2 DEF VerdictInv, Founded, Kept
        <4> QED BY <4>1, <4>2
      <3> QED BY <1>2, <3>1, <3>2
    <2>4. Remembered(v)'
      <3>1. CASE v.store = s
        BY <1>3, <2>3, <3>1 DEF Remembered, Kept, EntryOf
      <3>2. CASE v.store # s
        BY <1>3, <2>1, <3>2 DEF VerdictInv, Remembered, Kept, EntryOf
      <3> QED BY <3>1, <3>2
    <2> QED BY <2>2, <2>4
  <1>7. ASSUME NEW v \in verdicts, ~v.ok PROVE Cardinality(Causes(v)') >= Limit
    <2>1. v.store \in Limiter!Store
      BY DEF LimitType, Verdict
    <2>2. Causes(v) \subseteq Causes(v)' /\ Causes(v)' \subseteq Entry
      BY <1>3, <1>4, <2>1 DEF Causes, LimitType
    <2>3. Cardinality(Causes(v)) <= Cardinality(Causes(v)') /\ Cardinality(Causes(v)) \in Nat /\ Cardinality(Causes(v)') \in Nat
      BY <2>2, EntrySets, FS_Subset
    <2> QED BY <1>1, <1>7, <2>3 DEF VerdictInv
  <1>8. CASE verdicts' = verdicts
    <2>1. \A r \in Limiter!Store, t \in 0..clock : Admitted(r, t)' = Admitted(r, t)
      BY <1>8 DEF Admitted, Kept
    <2> QED BY <1>4, <1>5, <1>6, <1>7, <1>8, <2>1 DEF VerdictInv
  <1>9. ASSUME NEW v \in Verdict, v.store = s, v.hit = h, v.at = at, v.on = clock,
               v.ok => Cardinality(now) <= Limit, ~v.ok => Cardinality(now) > Limit,
               verdicts' = verdicts \cup {v}
        PROVE  VerdictInv'
    <2>1. EntryOf(v) = own
      BY <1>9 DEF EntryOf, own
    <2>2. Founded(v)' /\ Remembered(v)'
      BY <1>1, <1>2, <1>3, <1>9, <2>1 DEF Founded, Remembered, EntryOf, own
    <2>3. ASSUME NEW u \in verdicts, u.store = s PROVE u.hit # h
      BY <2>3 DEF VerdictInv, Founded, EntryOf
    <2>4. \A u, w \in verdicts' : u.store = w.store /\ u.hit = w.hit => u = w
      BY <1>9, <2>3 DEF VerdictInv
    <2>5. ASSUME ~v.ok PROVE Cardinality(Causes(v)') >= Limit
      <3>1. now \ {own} \subseteq Causes(v)'
        <4>1. ASSUME NEW e \in now, e # own PROVE e.hit # h /\ e.at > at - Window /\ e \in seen'[s]
          BY <1>2, <1>3, <4>1 DEF VerdictInv
        <4> QED BY <1>9, <4>1 DEF Causes
      <3>2. Causes(v)' \subseteq Entry
        BY <1>4, <1>9 DEF Causes, LimitType
      <3>3. Cardinality(now \ {own}) = Cardinality(now) - 1 /\ Cardinality(now) \in Nat
        BY <1>2, EntrySets, FS_RemoveElement
      <3>4. Cardinality(now \ {own}) <= Cardinality(Causes(v)') /\ Cardinality(Causes(v)') \in Nat
        BY <3>1, <3>2, EntrySets, FS_Subset
      <3> QED BY <1>1, <1>9, <2>5, <3>3, <3>4
    <2>6. ASSUME NEW r \in Limiter!Store, NEW t \in 0..clock, r # s \/ t # clock \/ ~v.ok
          PROVE  Admitted(r, t)' = Admitted(r, t)
      BY <1>1, <1>9, <2>6 DEF Admitted, Kept
    <2>7. ASSUME v.ok PROVE Cardinality(Admitted(s, clock)') <= Limit
      <3> DEFINE A == Admitted(s, clock)'
                 f == [u \in A |-> EntryOf(u)]
      <3>1. ASSUME NEW u \in A PROVE u \in verdicts' /\ u.store = s /\ EntryOf(u) \in now
        <4>1. u \in verdicts' /\ u.store = s /\ u.on > clock - Kept(u.store)
          BY DEF Admitted, Kept
        <4>2. Remembered(u)'
          BY <1>6, <1>9, <2>2, <4>1
        <4> QED BY <1>3, <4>1, <4>2 DEF Remembered, Kept, EntryOf
      <3>2. f \in [A -> now]
        BY <3>1
      <3>3. ASSUME NEW u \in A, NEW w \in A, f[u] = f[w] PROVE u = w
        <4>1. u.hit = w.hit
          BY <3>3 DEF EntryOf
        <4> QED BY <2>4, <3>1, <4>1
      <3>4. f \in Injection(A, now)
        BY <3>2, <3>3 DEF Injection, IsInjective
      <3>5. IsFiniteSet(now) /\ Cardinality(now) \in Nat
        BY <1>2, EntrySets
      <3> HIDE DEF f, A, now
      <3>6. Cardinality(A) <= Cardinality(now) /\ IsFiniteSet(A)
        BY <3>4, <3>5, FS_Injection
      <3>7. Cardinality(A) \in Nat
        BY <3>6, FS_CardinalityType
      <3> QED BY <1>1, <1>9, <2>7, <3>5, <3>6, <3>7 DEF A
    <2>8. \A r \in Limiter!Store, t \in 0..clock : Cardinality(Admitted(r, t)') <= Limit
      BY <2>6, <2>7 DEF VerdictInv
    <2>9. \A u \in verdicts' : Founded(u)' /\ Remembered(u)'
      BY <1>6, <1>9, <2>2
    <2>10. \A u \in verdicts' : ~u.ok => Cardinality(Causes(u)') >= Limit
      BY <1>7, <1>9, <2>5
    <2> QED BY <1>5, <2>4, <2>8, <2>9, <2>10 DEF VerdictInv
  <1> QED BY <1>4, <1>8, <1>9

LEMMA IncrementMeans ==
    ASSUME LimitType, NEW s \in Limiter!Store, NEW h \in Limiter!Hit, NEW at \in 0..clock,
           NEW answered \in BOOLEAN, Limiter!Increment(s, h, at, answered)
    PROVE  /\ entries' = [entries EXCEPT ![s] = Counted(s, h, at)]
           /\ seen' = [seen EXCEPT ![s] = @ \cup Counted(s, h, at)]
           /\ \/ verdicts' = verdicts
              \/ \E v \in Verdict :
                    /\ v.store = s /\ v.hit = h /\ v.at = at /\ v.on = clock
                    /\ v.ok => Cardinality(Counted(s, h, at)) <= Limit
                    /\ ~v.ok => Cardinality(Counted(s, h, at)) > Limit
                    /\ verdicts' = verdicts \cup {v}
  <1> DEFINE now == Counted(s, h, at)
  <1>1. at \in 0..MaxClock /\ clock \in 0..MaxClock /\ [at |-> at, hit |-> h] \in Entry
    BY LimitAssumption DEF LimitType, Entry
  <1>2. Cardinality(now) \in Nat
    <2>1. now \subseteq Entry
      BY <1>1 DEF Counted, Limiter!Prune, LimitType
    <2> QED BY <2>1, EntrySets
  <1>3. /\ entries' = [entries EXCEPT ![s] = now]
        /\ seen' = [seen EXCEPT ![s] = @ \cup now]
        /\ verdicts' = IF answered
                       THEN verdicts \cup {[store |-> s, hit |-> h, at |-> at, on |-> clock,
                                            ok |-> Limiter!Allowed(Limiter!Cardinality(now))]}
                       ELSE verdicts
    BY DEF Limiter!Increment, Counted
  <1>4. CASE answered
    <2>1. Limiter!Cardinality(now) = Cardinality(now)
      BY SameNumber
    <2>2. Limiter!Allowed(Limiter!Cardinality(now)) \in BOOLEAN
      BY DEF Limiter!Allowed
    <2>3. PICK b \in BOOLEAN : b = Limiter!Allowed(Limiter!Cardinality(now))
      BY <2>2
    <2> DEFINE v == [store |-> s, hit |-> h, at |-> at, on |-> clock, ok |-> b]
    <2>4. v \in Verdict /\ v.store = s /\ v.hit = h /\ v.at = at /\ v.on = clock
      BY <1>1 DEF Verdict
    <2>5. v.ok = b
      BY Zenon
    <2>6. verdicts' = verdicts \cup {v}
      BY <1>3, <1>4, <2>3, Zenon
    <2>7. (b => Cardinality(now) <= Limit) /\ (~b => Cardinality(now) > Limit)
      <3>1. CASE b
        <4>1. Limiter!Allowed(Limiter!Cardinality(now))
          BY <2>3, <3>1, Zenon
        <4> QED BY <2>1, <3>1, <4>1 DEF Limiter!Allowed
      <3>2. CASE ~b
        <4>1. ~Limiter!Allowed(Limiter!Cardinality(now))
          BY <2>3, <3>2, Zenon
        <4> QED BY <1>2, <2>1, <3>2, <4>1, LimitAssumption DEF Limiter!Allowed
      <3> QED BY <3>1, <3>2
    <2>8. (v.ok => Cardinality(now) <= Limit) /\ (~v.ok => Cardinality(now) > Limit)
      BY <2>5, <2>7, Zenon
    <2> HIDE DEF v
    <2> QED BY <1>3, <2>4, <2>6, <2>8
  <1>5. CASE ~answered
    BY <1>3, <1>5
  <1> QED BY <1>4, <1>5

LEMMA Stores ==
    /\ Limiter!Redis \in Limiter!Store
    /\ \A p \in Server, k \in {"placeholder", "fallback"} : <<k, p>> \in Limiter!Store /\ <<k, p>> # Limiter!Redis
  <1>1. Limiter!Redis \in Limiter!Store
    BY DEF Limiter!Store
  <1>2. ASSUME NEW p \in Server, NEW k \in {"placeholder", "fallback"}
        PROVE  <<k, p>> \in Limiter!Store /\ <<k, p>> # Limiter!Redis
    <2>1. Len(<<k, p>>) = 2 /\ Len(Limiter!Redis) = 1
      BY DEF Limiter!Redis
    <2>2. <<k, p>> \in {"placeholder", "fallback"} \X Server
      OBVIOUS
    <2> QED BY <2>1, <2>2 DEF Limiter!Store
  <1> QED BY <1>1, <1>2

\* A request arrives: nobody has counted it.
LEMMA ArrivesFresh ==
    ASSUME LimitInv, NEW p \in Server, NEW st \in {"sent", "done"}, Limiter!Arrives(p, st)
    PROVE  /\ HitsType' /\ Len(hit') \in Limiter!Hit /\ DOMAIN hit' = 1..Len(hit')
           /\ \A s \in Limiter!Store : \A e \in seen[s] : e.hit # Len(hit')
           /\ \A h \in DOMAIN hit : h \in DOMAIN hit' /\ hit'[h] = hit[h]
           /\ \A h \in DOMAIN hit' : h \in DOMAIN hit \/ h = Len(hit')
           /\ hit'[Len(hit')].stage = st /\ hit'[Len(hit')].at = clock
  <1> DEFINE a == [stage |-> st, server |-> p, at |-> clock]
  <1>1. a \in Arrival /\ a.stage = st /\ a.at = clock
    BY DEF Arrival, LimitInv, LimitType
  <1> HIDE DEF a
  <1>2. hit \in Seq(Arrival) /\ Len(hit) < MaxHits /\ hit' = Append(hit, a) /\ Len(hit) \in Nat
    BY DEF Limiter!Arrives, LimitInv, HitsType, a
  <1>3. /\ hit' \in Seq(Arrival) /\ Len(hit') = Len(hit) + 1 /\ hit'[Len(hit')] = a
        /\ \A h \in 1..Len(hit) : hit'[h] = hit[h]
    BY <1>1, <1>2, AppendProperties
  <1>4. DOMAIN hit = 1..Len(hit) /\ DOMAIN hit' = 1..Len(hit')
    BY <1>2, <1>3, LenProperties
  <1> QED BY <1>1, <1>2, <1>3, <1>4, LimitAssumption DEF HitsType, Limiter!Hit, LimitInv, CountedOnce

\* A request that is under way ends up somewhere else.
LEMMA StageChanges ==
    ASSUME LimitInv, NEW h \in DOMAIN hit, NEW st \in {"lost", "done"}, hit' = [hit EXCEPT ![h].stage = st]
    PROVE  /\ HitsType' /\ h \in Limiter!Hit /\ DOMAIN hit' = DOMAIN hit
           /\ hit[h] \in Arrival
           /\ hit'[h].stage = st /\ hit'[h].at = hit[h].at
           /\ \A g \in DOMAIN hit : g # h => hit'[g] = hit[g]
  <1>1. hit \in Seq(Arrival) /\ Len(hit) \in Nat /\ DOMAIN hit = 1..Len(hit) /\ Len(hit) <= MaxHits
    BY LenProperties DEF LimitInv, HitsType
  <1>2. hit[h] \in Arrival
    BY <1>1, ElementOfSeq
  <1>3. PICK a \in Arrival : /\ a.stage = st /\ a.at = hit[h].at
                             /\ hit' = [hit EXCEPT ![h] = a]
    <2>1. [hit[h] EXCEPT !.stage = st] \in Arrival
      BY <1>2 DEF Arrival
    <2>2. [hit[h] EXCEPT !.stage = st].stage = st /\ [hit[h] EXCEPT !.stage = st].at = hit[h].at
      BY <1>2 DEF Arrival
    <2> QED BY <2>1, <2>2
  <1>4. hit' \in Seq(Arrival) /\ Len(hit') = Len(hit) /\ DOMAIN hit' = DOMAIN hit
    BY <1>1, <1>3, ExceptSeq
  <1> QED BY <1>1, <1>2, <1>3, <1>4, LimitAssumption DEF HitsType, Limiter!Hit

LEMMA LocalCounts ==
    ASSUME LimitInv, NEW p \in Server, Limiter!Local(p)
    PROVE  LimitInv'
  <1>0. PICK s \in Limiter!Store : s = <<"placeholder", p>> /\ s # Limiter!Redis
    BY Stores
  <1>1. UNCHANGED <<clock, connected, touched>> /\ Limiter!Increment(s, Len(hit'), clock, TRUE)
    BY <1>0 DEF Limiter!Local
  <1>2. PICK h \in Limiter!Hit :
        /\ h = Len(hit') /\ HitsType' /\ DOMAIN hit' = 1..h
        /\ \A r \in Limiter!Store : \A e \in seen[r] : e.hit # h
        /\ \A g \in DOMAIN hit : g \in DOMAIN hit' /\ hit'[g] = hit[g]
        /\ \A g \in DOMAIN hit' : g \in DOMAIN hit \/ g = h
        /\ hit'[h].stage = "done" /\ hit'[h].at = clock
    BY ArrivesFresh DEF Limiter!Local
  <1>3. s # Limiter!Redis
    BY <1>0
  <1>4. /\ clock' = clock /\ connected' = connected /\ touched' \in 0..clock
        /\ clock \in 0..clock /\ LimitType /\ VerdictInv
    BY <1>1 DEF LimitInv, LimitType
  <1>4a. PICK answered \in BOOLEAN : Limiter!Increment(s, h, clock, answered)
    BY <1>1, <1>2, Zenon
  <1>5. /\ entries' = [entries EXCEPT ![s] = Counted(s, h, clock)]
        /\ seen' = [seen EXCEPT ![s] = @ \cup Counted(s, h, clock)]
        /\ \/ verdicts' = verdicts
           \/ \E v \in Verdict :
                 /\ v.store = s /\ v.hit = h /\ v.at = clock /\ v.on = clock
                 /\ v.ok => Cardinality(Counted(s, h, clock)) <= Limit
                 /\ ~v.ok => Cardinality(Counted(s, h, clock)) > Limit
                 /\ verdicts' = verdicts \cup {v}
    BY <1>4, <1>4a, IncrementMeans
  <1>6. LimitType' /\ VerdictInv'
    <2>1. \A e \in seen[s] : e.hit # h
      BY <1>2
    <2> QED BY <1>3, <1>4, <1>5, <2>1, IncrementKeeps
  <1>7. OnTime'
    <2>1. entries'[Limiter!Redis] = entries[Limiter!Redis]
      BY <1>3, <1>4, <1>5 DEF LimitType
    <2>2. \A g \in DOMAIN hit' : hit'[g].at <= clock /\ (hit'[g].stage = "sent" => clock - hit'[g].at <= Latency)
      BY <1>2, <1>4 DEF LimitInv, OnTime, LimitType
    <2> QED BY <1>1, <2>1, <2>2 DEF LimitInv, OnTime
  <1>8. CountedOnce'
    <2>1. ASSUME NEW e \in Counted(s, h, clock) PROVE e \in seen[s] \/ e.hit = h
      BY <1>3 DEF Counted, Limiter!Prune, LimitInv, VerdictInv
    <2>2. ASSUME NEW r \in Limiter!Store, NEW e \in seen'[r] PROVE e \in seen[r] \/ (r = s /\ e.hit = h)
      BY <1>3, <1>4, <1>5, <2>1 DEF LimitType
    <2>3. h \in DOMAIN hit'
      BY <1>2 DEF Limiter!Hit
    <2> QED BY <1>2, <1>3, <2>2, <2>3 DEF LimitInv, CountedOnce
  <1> QED BY <1>2, <1>6, <1>7, <1>8 DEF LimitInv

\* A step that neither counts nor forgets.
LEMMA QuietLimit ==
    ASSUME LimitInv, UNCHANGED <<clock, entries, touched, seen, verdicts>>, connected' \subseteq Server,
           HitsType',
           \A g \in DOMAIN hit' : hit'[g].at <= clock /\ (hit'[g].stage = "sent" => clock - hit'[g].at <= Latency),
           \A g \in DOMAIN hit : g \in DOMAIN hit' /\ hit'[g] = hit[g]
    PROVE  LimitInv'
  <1>1. LimitType'
    BY DEF LimitInv, LimitType
  <1>2. OnTime' /\ CountedOnce'
    BY DEF LimitInv, OnTime, CountedOnce
  <1>3. VerdictInv'
    BY DEF LimitInv, VerdictInv, Founded, Remembered, Admitted, Causes, Kept
  <1> QED BY <1>1, <1>2, <1>3 DEF LimitInv

LEMMA SendOrConnect ==
    ASSUME LimitInv, NEW p \in Server, Limiter!Send(p) \/ Limiter!Connect(p)
    PROVE  LimitInv'
  <1>1. CASE Limiter!Send(p)
    <2>1. UNCHANGED <<clock, connected, entries, touched, seen, verdicts>> /\ Limiter!Arrives(p, "sent")
      BY <1>1 DEF Limiter!Send
    <2>2. /\ HitsType'
          /\ \A g \in DOMAIN hit : g \in DOMAIN hit' /\ hit'[g] = hit[g]
          /\ \A g \in DOMAIN hit' : g \in DOMAIN hit \/ g = Len(hit')
          /\ hit'[Len(hit')].at = clock
      BY <2>1, ArrivesFresh
    <2>3. \A g \in DOMAIN hit' : hit'[g].at <= clock /\ (hit'[g].stage = "sent" => clock - hit'[g].at <= Latency)
      BY <2>2, LimitAssumption DEF LimitInv, OnTime, LimitType
    <2> QED BY <2>1, <2>2, <2>3, QuietLimit DEF LimitInv, LimitType
  <1>2. CASE Limiter!Connect(p)
    <2>1. UNCHANGED <<clock, entries, touched, hit, seen, verdicts>> /\ connected' \subseteq Server
      BY <1>2 DEF Limiter!Connect, LimitInv, LimitType
    <2> QED BY <2>1, QuietLimit DEF LimitInv, OnTime, HitsType
  <1> QED BY <1>1, <1>2

\* A request under way is counted, by Redis or by the process's own store.
LEMMA CountedElsewhere ==
    ASSUME LimitInv, NEW h \in DOMAIN hit, NEW s \in Limiter!Store, NEW at \in 0..clock,
           NEW answered \in BOOLEAN, NEW st \in {"lost", "done"},
           Limiter!Increment(s, h, at, answered), hit' = [hit EXCEPT ![h].stage = st],
           UNCHANGED <<clock, connected>>, touched' \in touched..clock,
           s = Limiter!Redis => hit[h].stage = "sent" /\ at = hit[h].at /\ touched' = clock,
           s # Limiter!Redis => hit[h].stage \in {"sent", "lost"} /\ at = clock /\ st = "done"
    PROVE  LimitInv'
  <1>1. /\ HitsType' /\ h \in Limiter!Hit /\ DOMAIN hit' = DOMAIN hit
        /\ hit'[h].stage = st /\ hit'[h].at = hit[h].at
        /\ \A g \in DOMAIN hit : g # h => hit'[g] = hit[g]
    BY StageChanges
  <1>2. \A e \in seen[s] : e.hit # h
    BY DEF LimitInv, CountedOnce
  <1>3. touched' \in 0..clock /\ LimitType /\ VerdictInv /\ clock \in Nat
    BY DEF LimitInv, LimitType
  <1>4. /\ entries' = [entries EXCEPT ![s] = Counted(s, h, at)]
        /\ seen' = [seen EXCEPT ![s] = @ \cup Counted(s, h, at)]
        /\ \/ verdicts' = verdicts
           \/ \E v \in Verdict :
                 /\ v.store = s /\ v.hit = h /\ v.at = at /\ v.on = clock
                 /\ v.ok => Cardinality(Counted(s, h, at)) <= Limit
                 /\ ~v.ok => Cardinality(Counted(s, h, at)) > Limit
                 /\ verdicts' = verdicts \cup {v}
    BY <1>1, <1>3, IncrementMeans
  <1>5. s = Limiter!Redis => clock - at <= Latency
    BY DEF LimitInv, OnTime
  <1>6. LimitType' /\ VerdictInv'
    BY <1>1, <1>2, <1>3, <1>4, <1>5, IncrementKeeps
  <1>7. OnTime'
    <2>1. ASSUME NEW e \in entries'[Limiter!Redis] PROVE e.at <= touched'
      <3>1. CASE s = Limiter!Redis
        <4>1. e \in Counted(s, h, at)
          BY <1>3, <1>4, <3>1, <2>1 DEF LimitType
        <4>2. e \in entries[s] \/ e.at = at
          BY <4>1 DEF Counted, Limiter!Prune
        <4>3. e \in entries[s] => e.at <= touched /\ e.at \in Nat
          BY <3>1 DEF LimitInv, OnTime, LimitType, Entry
        <4> QED BY <1>3, <3>1, <4>2, <4>3 DEF LimitType
      <3>2. CASE s # Limiter!Redis
        <4>1. e \in entries[Limiter!Redis]
          BY <1>3, <1>4, <3>2, <2>1, Stores DEF LimitType
        <4>2. e.at <= touched /\ e.at \in Nat
          BY <4>1, Stores DEF LimitInv, OnTime, LimitType, Entry
        <4> QED BY <1>3, <4>2 DEF LimitType
      <3> QED BY <3>1, <3>2
    <2>2. \A g \in DOMAIN hit' : hit'[g].at <= clock /\ (hit'[g].stage = "sent" => clock - hit'[g].at <= Latency)
      BY <1>1 DEF LimitInv, OnTime
    <2> QED BY <2>1, <2>2 DEF OnTime
  <1>8. CountedOnce'
    <2>1. ASSUME NEW e \in Counted(s, h, at) PROVE e \in seen[s] \/ e.hit = h
      BY DEF Counted, Limiter!Prune, LimitInv, VerdictInv
    <2>2. ASSUME NEW r \in Limiter!Store, NEW e \in seen'[r] PROVE e \in seen[r] \/ (r = s /\ e.hit = h)
      BY <1>3, <1>4, <2>1 DEF LimitType
    <2> QED BY <1>1, <2>2 DEF LimitInv, CountedOnce
  <1> QED BY <1>1, <1>6, <1>7, <1>8 DEF LimitInv

LEMMA ExecOrFallBack ==
    ASSUME LimitInv, NEW h \in DOMAIN hit, Limiter!Exec(h) \/ Limiter!FallBack(h)
    PROVE  LimitInv'
  <1>1. clock \in Nat /\ clock \in 0..clock /\ touched \in 0..clock
    BY DEF LimitInv, LimitType
  <1>2. hit[h] \in Arrival /\ hit[h].server \in Server /\ hit[h].at \in 0..clock
    <2>1. hit \in Seq(Arrival) /\ DOMAIN hit = 1..Len(hit)
      BY LenProperties DEF LimitInv, HitsType
    <2>2. hit[h] \in Arrival
      BY <2>1, ElementOfSeq
    <2> QED BY <1>1, <2>2 DEF Arrival, LimitInv, OnTime
  <1>3. CASE Limiter!Exec(h)
    <2>1. /\ hit[h].stage = "sent" /\ touched' = clock /\ UNCHANGED <<clock, connected>>
          /\ Limiter!Redis \in Limiter!Store /\ touched' \in touched..clock
      BY <1>1, <1>3, Stores DEF Limiter!Exec
    <2>2. CASE Limiter!Increment(Limiter!Redis, h, hit[h].at, TRUE) /\ hit' = [hit EXCEPT ![h].stage = "done"]
      BY <1>2, <2>1, <2>2, CountedElsewhere
    <2>3. CASE Limiter!Increment(Limiter!Redis, h, hit[h].at, FALSE) /\ hit' = [hit EXCEPT ![h].stage = "lost"]
      BY <1>2, <2>1, <2>3, CountedElsewhere
    <2> QED BY <1>3, <2>2, <2>3 DEF Limiter!Exec
  <1>4. CASE Limiter!FallBack(h)
    <2> DEFINE s == <<"fallback", hit[h].server>>
    <2>1. s \in Limiter!Store /\ s # Limiter!Redis
      BY <1>2, Stores
    <2>2. /\ hit[h].stage \in {"sent", "lost"} /\ UNCHANGED <<clock, connected, touched>>
          /\ Limiter!Increment(s, h, clock, TRUE) /\ hit' = [hit EXCEPT ![h].stage = "done"]
      BY <1>4, Zenon DEF Limiter!FallBack
    <2>3. touched' \in touched..clock
      BY <1>1, <2>2
    <2> HIDE DEF s
    <2> QED BY <1>1, <2>1, <2>2, <2>3, CountedElsewhere
  <1> QED BY <1>3, <1>4

LEMMA TimePasses ==
    ASSUME LimitInv, Limiter!Tick
    PROVE  LimitInv'
  <1>1. /\ clock' = clock + 1 /\ clock < MaxClock /\ UNCHANGED <<connected, touched, hit, seen, verdicts>>
        /\ \A h \in DOMAIN hit : hit[h].stage = "sent" => clock - hit[h].at < Latency
        /\ clock \in Nat /\ MaxClock \in Nat /\ Window \in Nat /\ Latency \in Nat /\ Limit \in Nat
    BY LimitAssumption DEF Limiter!Tick, LimitInv, LimitType
  <1>2. \/ entries' = entries
        \/ clock' >= touched + Window /\ entries' = [entries EXCEPT ![Limiter!Redis] = {}]
    BY DEF Limiter!Tick, LimitInv, LimitType
  <1>3. LimitType'
    BY <1>1, <1>2 DEF LimitInv, LimitType
  <1>4. HitsType' /\ CountedOnce'
    BY <1>1 DEF LimitInv, HitsType, CountedOnce
  <1>5. \A h \in DOMAIN hit : hit[h].at \in Nat
    <2>1. hit \in Seq(Arrival) /\ DOMAIN hit = 1..Len(hit)
      BY LenProperties DEF LimitInv, HitsType
    <2>2. \A h \in DOMAIN hit : hit[h] \in Arrival
      BY <2>1, ElementOfSeq
    <2> QED BY <2>2 DEF Arrival
  <1>6. OnTime'
    BY <1>1, <1>2, <1>5, Stores DEF LimitInv, OnTime, LimitType
  <1>7. \A s \in Limiter!Store : entries'[s] \subseteq entries[s]
    BY <1>2 DEF LimitInv, LimitType
  <1>8. ASSUME NEW v \in verdicts PROVE Founded(v)' /\ Remembered(v)'
    <2>1. v.store \in Limiter!Store /\ v.at \in Nat /\ v.on \in Nat /\ Founded(v) /\ Remembered(v)
      BY DEF LimitInv, VerdictInv, LimitType, Verdict
    <2>2. Founded(v)'
      BY <1>1, <2>1 DEF Founded
    <2>3. ASSUME v.on > clock' - Kept(v.store) PROVE EntryOf(v) \in entries'[v.store]
      <3>1. EntryOf(v) \in entries[v.store]
        BY <1>1, <2>1, <2>3 DEF Remembered, Kept
      <3>2. CASE entries' = entries
        BY <3>1, <3>2
      <3>3. CASE clock' >= touched + Window /\ entries' = [entries EXCEPT ![Limiter!Redis] = {}]
        <4>1. v.store # Limiter!Redis
          <5>1. v.store = Limiter!Redis => v.at <= touched
            BY <3>1 DEF LimitInv, OnTime, EntryOf
          <5> QED BY <1>1, <2>1, <2>3, <3>3, <5>1 DEF Founded, Kept, LimitInv, LimitType
        <4> QED BY <2>1, <3>1, <3>3, <4>1 DEF LimitInv, LimitType
      <3> QED BY <1>2, <3>2, <3>3
    <2> QED BY <2>2, <2>3 DEF Remembered, Kept
  <1>9. ASSUME NEW s \in Limiter!Store, NEW t \in 0..clock' PROVE Cardinality(Admitted(s, t)') <= Limit
    <2>1. Admitted(s, t)' = Admitted(s, t)
      BY <1>1 DEF Admitted, Kept
    <2>2. CASE t <= clock
      BY <1>1, <2>1, <2>2 DEF LimitInv, VerdictInv
    <2>3. CASE t = clock + 1
      <3>1. Admitted(s, t) \subseteq Admitted(s, clock)
        <4>1. ASSUME NEW u \in verdicts, u.on > t - Kept(s) PROVE u.on <= clock /\ u.on > clock - Kept(s)
          <5>1. u.on \in Nat /\ u.on <= clock
            BY DEF LimitInv, LimitType, Verdict, VerdictInv, Founded
          <5> QED BY <1>1, <2>3, <4>1, <5>1 DEF Kept
        <4> QED BY <4>1 DEF Admitted
      <3>2. IsFiniteSet(Admitted(s, clock))
        <4> DEFINE f == [u \in Admitted(s, clock) |-> EntryOf(u)]
        <4>1. \A u \in Admitted(s, clock) : u \in verdicts /\ u.store = s /\ EntryOf(u) \in Entry
          BY DEF Admitted, LimitInv, LimitType, Verdict, EntryOf, Entry
        <4>2. f \in [Admitted(s, clock) -> Entry]
          BY <4>1
        <4>3. ASSUME NEW u \in Admitted(s, clock), NEW w \in Admitted(s, clock), f[u] = f[w] PROVE u = w
          <5>1. u.hit = w.hit
            BY <4>3 DEF EntryOf
          <5> QED BY <4>1, <5>1 DEF LimitInv, VerdictInv
        <4>4. f \in Injection(Admitted(s, clock), Entry)
          BY <4>2, <4>3 DEF Injection, IsInjective
        <4> HIDE DEF f
        <4> QED BY <4>4, EntriesFinite, FS_Injection
      <3>3. Cardinality(Admitted(s, t)) <= Cardinality(Admitted(s, clock)) /\ IsFiniteSet(Admitted(s, t))
        BY <3>1, <3>2, FS_Subset
      <3>4. Cardinality(Admitted(s, clock)) <= Limit
        BY <1>1 DEF LimitInv, VerdictInv
      <3>5. Cardinality(Admitted(s, t)) \in Nat /\ Cardinality(Admitted(s, clock)) \in Nat
        BY <3>2, <3>3, FS_CardinalityType
      <3> QED BY <1>1, <2>1, <3>3, <3>4, <3>5
    <2> QED BY <1>1, <2>2, <2>3
  <1>10. \A v \in verdicts : Causes(v)' = Causes(v)
    BY <1>1 DEF Causes
  <1>11. VerdictInv'
    BY <1>1, <1>7, <1>8, <1>9, <1>10 DEF LimitInv, VerdictInv
  <1> QED BY <1>3, <1>4, <1>6, <1>11 DEF LimitInv

LEMMA LimitStep == LimitInv /\ [Limiter!Next]_Limiter!limitVars => LimitInv'
  <1> SUFFICES ASSUME LimitInv, [Limiter!Next]_Limiter!limitVars PROVE LimitInv'
    OBVIOUS
  <1>1. CASE UNCHANGED Limiter!limitVars
    <2>1. UNCHANGED <<clock, connected, entries, touched, hit, seen, verdicts>>
      BY <1>1 DEF Limiter!limitVars
    <2> QED BY <2>1, QuietLimit DEF LimitInv, LimitType, HitsType, OnTime
  <1> QED
    BY <1>1, LocalCounts, SendOrConnect, ExecOrFallBack, TimePasses DEF Limiter!Next

\* In whatever order the requests of several processes reach Redis, and whichever
\* answers are lost: a store admits at most the limit within a window, shorter for
\* Redis by the time a command may be under way, and rejects a request only if it
\* has counted the limit within the window before it.
THEOREM LimitIsExact == Limiter!Spec => []LimitExact
  <1>1. ASSUME LimitInv PROVE LimitExact
    <2>1. Limiter!RateTypeOK
      BY <1>1, LimitAssumption DEF LimitInv, LimitType, HitsType, VerdictInv, Limiter!RateTypeOK, Entry, Arrival
    <2>2. ASSUME NEW v \in verdicts
          PROVE  Limiter!Cardinality({u \in verdicts :
                    /\ u.store = v.store /\ u.ok
                    /\ u.on <= v.on
                    /\ u.on > v.on - (IF v.store = Limiter!Redis THEN Window - Latency ELSE Window)}) <= Limit
      <3>1. v.store \in Limiter!Store /\ v.on \in 0..clock
        BY <1>1 DEF LimitInv, LimitType, Verdict, VerdictInv, Founded
      <3>2. Cardinality(Admitted(v.store, v.on)) <= Limit
        BY <1>1, <3>1 DEF LimitInv, VerdictInv
      <3> QED BY <3>2, SameNumber DEF Admitted, Kept
    <2>3. ASSUME NEW v \in verdicts, ~v.ok
          PROVE  Limiter!Cardinality({e \in seen[v.store] : e.hit # v.hit /\ e.at > v.at - Window}) >= Limit
      BY <1>1, <2>3, SameNumber DEF LimitInv, VerdictInv, Causes
    <2> QED BY <2>1, <2>2, <2>3 DEF LimitExact, Limiter!LimitExact, Limiter!LimitHolds, Limiter!RejectedWithCause
  <1> QED
    BY <1>1, LimitInit, LimitStep, PTL DEF Limiter!Spec
============================================================================

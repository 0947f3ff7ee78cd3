------------------------ MODULE WebhookOutboxProofs ------------------------
(***************************************************************************)
(* The webhook outbox, for any number of dispatchers, events, attempts and *)
(* faults: an event has at most one live row, two dispatchers never work   *)
(* on one event, and no event leaves the outbox undecided.  And the        *)
(* operators' dead-letter queue, for any number of entries, replay         *)
(* requests and failed statements.                                         *)
(***************************************************************************)
EXTENDS MCOutboxDlq, FiniteSetTheorems, FunctionTheorems, SequenceTheorems, TLAPS

Note == [ev : Event, attempt : 1..MaxAttempts]

OutboxType ==
    /\ rows \in Seq(Row) /\ dlq \subseteq Id
    /\ run \in [Worker -> BOOLEAN] /\ slow \in [Worker -> BOOLEAN]
    /\ pc \in [Worker -> {"idle", "backoff", "row", "settle"}]
    /\ lock \in [Worker -> SUBSET Id] /\ todo \in [Worker -> SUBSET Id]
    /\ cur \in [Worker -> Nat] /\ res \in [Worker -> Outcome \cup {"none"}]
    /\ new \in [Worker -> SUBSET Note]
    /\ acked \subseteq Event /\ cutShort \subseteq Event
    /\ posts \in [Event -> 0..MaxPosts]
    /\ faults \in 0..MaxFaults /\ defers \in 0..MaxDefers

\* Rows of the open transaction whose fate is settled.
Decided(w) == {r \in lock[w] \ todo[w] : pc[w] = "settle" => r # cur[w]}

\* What the open transaction of w holds: live rows, and a note only for a row
\* that it will mark processed, one note per event.
TxnOK(w) ==
    /\ todo[w] \subseteq lock[w]
    /\ pc[w] = "settle" => cur[w] \in lock[w] \ todo[w] /\ res[w] \in Outcome
    /\ pc[w] \in {"idle", "backoff"} => lock[w] = {} /\ new[w] = {}
    /\ \A r \in lock[w] : ~rows[r].done
    /\ IsFiniteSet(new[w])
    /\ \A n \in new[w] : \E r \in Decided(w) : rows[r].ev = n.ev
    /\ \A m, n \in new[w] : m.ev = n.ev => m = n

LocksApart == \A v, w \in Worker : v # w => lock[v] \cap lock[w] = {}

LiveUnique ==
    \A r, s \in Id : ~rows[r].done /\ ~rows[s].done /\ rows[r].ev = rows[s].ev => r = s

OutboxInv == OutboxType /\ LocksApart /\ LiveUnique /\ \A w \in Worker : TxnOK(w)

\* The event was delivered, dead-lettered, or has used its last attempt.
Over(e) == \/ e \in acked \/ Queued(e)
           \/ \E r \in Id : rows[r].ev = e /\ rows[r].attempt = MaxAttempts

\* What a transaction has decided is over, or will live on in a new row.
Resolved(w) ==
    /\ \A r \in Decided(w) : Over(rows[r].ev) \/ \E n \in new[w] : n.ev = rows[r].ev
    /\ pc[w] = "settle" /\ res[w] = "ok" => rows[cur[w]].ev \in acked

LossInv == /\ \A e \in Event : Live(e) # {} \/ Over(e)
           /\ \A w \in Worker : Resolved(w)

\* Without a breaker that trips, and answers that are retried, rejected or time out.
Plain == ~Breaker /\ "other" \notin Outcome

----------------------------------------------------------------------------
(* Operators of the library                                                *)

LEMMA MinOfTwo ==
    ASSUME NEW a \in Nat, NEW b \in Nat
    PROVE  Min({a, b}) = IF a <= b THEN a ELSE b
  BY DEF Min

\* SetToSeq lists every element of a finite set once.
LEMMA ListsOnce ==
    ASSUME NEW S, IsFiniteSet(S)
    PROVE  /\ Cardinality(S) \in Nat
           /\ SetToSeq(S) \in [1..Cardinality(S) -> S]
           /\ \A i, j \in 1..Cardinality(S) : SetToSeq(S)[i] = SetToSeq(S)[j] => i = j
           /\ \A x \in S : \E i \in 1..Cardinality(S) : SetToSeq(S)[i] = x
  <1> DEFINE n == Cardinality(S)
  <1>1. n \in Nat /\ ExistsBijection(1..n, S)
    BY FS_CardinalityType
  <1>2. PICK g \in Bijection(1..n, S) : TRUE
    BY <1>1, Fun_ExistsBij
  <1>3. g \in [1..n -> S] /\ IsInjective(g)
    BY <1>2, Fun_BijectionProperties DEF Bijection, Injection
  <1>4. SetToSeq(S) \in [1..n -> S] /\ IsInjective(SetToSeq(S))
    BY <1>3 DEF SetToSeq
  <1>5. SetToSeq(S) \in Injection(1..n, S)
    BY <1>4 DEF Injection
  <1>6. IsFiniteSet(1..n) /\ Cardinality(1..n) = n
    BY <1>1, FS_Interval
  <1>7. SetToSeq(S) \in Surjection(1..n, S)
    BY <1>5, <1>6, FS_Injection
  <1>8. \A x \in S : \E i \in 1..n : SetToSeq(S)[i] = x
    BY <1>7 DEF Surjection
  <1> QED
    BY <1>1, <1>4, <1>8 DEF IsInjective

LEMMA FunctionIsSeq ==
    ASSUME NEW S, NEW n \in Nat, NEW f \in [1..n -> S]
    PROVE  f \in Seq(S) /\ Len(f) = n
  <1>1. f \in Seq(S)
    BY SeqDef
  <1> QED
    BY <1>1, LenProperties

----------------------------------------------------------------------------
(* The table after a COMMIT                                                *)

LEMMA CommitRows ==
    ASSUME OutboxType, NEW w \in Worker, IsFiniteSet(new[w]),
           NEW R, R = Committed(w)
    PROVE  /\ R \in Seq(Row) /\ Len(rows) \in Nat /\ Id = 1..Len(rows)
           /\ Len(R) \in Nat /\ Len(rows) <= Len(R)
           /\ \A r \in Id : /\ R[r].ev = rows[r].ev /\ R[r].attempt = rows[r].attempt
                            /\ R[r].done <=> (rows[r].done \/ r \in lock[w])
           /\ \A i \in 1..Len(R) : i \notin Id =>
                 /\ ~R[i].done
                 /\ \E n \in new[w] : R[i].ev = n.ev /\ R[i].attempt = n.attempt
           /\ \A n \in new[w] : \E i \in 1..Len(R) :
                 i \notin Id /\ R[i].ev = n.ev /\ R[i].attempt = n.attempt
           /\ \A i, j \in 1..Len(R) : 
                 i \notin Id /\ j \notin Id /\ R[i].ev = R[j].ev /\ R[i].attempt = R[j].attempt => i = j
  <1> DEFINE k == Cardinality(new[w])
             L == Len(rows)
             q == SetToSeq(new[w])
             old == [r \in Id |-> IF r \in lock[w] THEN [rows[r] EXCEPT !.done = TRUE] ELSE rows[r]]
             add == [i \in 1..k |-> LET n == q[i]
                                    IN [ev |-> n.ev, attempt |-> n.attempt, due |-> FALSE, done |-> FALSE]]
  <1>1. R = old \o add
    BY DEF Committed
  <1>2. L \in Nat /\ Id = 1..L /\ \A r \in Id : rows[r] \in Row
    BY DEF OutboxType, Id
  <1>3. /\ k \in Nat /\ q \in [1..k -> new[w]]
        /\ \A i, j \in 1..k : q[i] = q[j] => i = j
        /\ \A n \in new[w] : \E i \in 1..k : q[i] = n
    BY ListsOnce
  <1>4. new[w] \subseteq Note
    BY DEF OutboxType
  <1>51. ASSUME NEW r \in Id
         PROVE  /\ old[r] \in Row
                /\ old[r].ev = rows[r].ev /\ old[r].attempt = rows[r].attempt
                /\ old[r].done = (rows[r].done \/ r \in lock[w])
    <2>1. CASE r \in lock[w]
      <3>1. old[r] = [rows[r] EXCEPT !.done = TRUE]
        BY <2>1
      <3> QED BY <3>1, <2>1, <1>2 DEF Row
    <2>2. CASE r \notin lock[w]
      <3>1. old[r] = rows[r]
        BY <2>2
      <3> QED BY <3>1, <2>2, <1>2 DEF Row
    <2> QED BY <2>1, <2>2
  <1>5. old \in Seq(Row) /\ Len(old) = L
    BY <1>2, <1>51, FunctionIsSeq
  <1>6. \A i \in 1..k : add[i] \in Row /\ add[i].ev = q[i].ev /\ add[i].attempt = q[i].attempt /\ ~add[i].done
    BY <1>3, <1>4 DEF Row, Note
  <1>7. add \in Seq(Row) /\ Len(add) = k
    BY <1>6, <1>3, FunctionIsSeq, SMTT(30)
  <1> HIDE DEF old, add, q, k, L
  <1>8. /\ R \in Seq(Row) /\ Len(R) = L + k
        /\ \A i \in 1..L + k : R[i] = IF i <= L THEN old[i] ELSE add[i - L]
    <2>1. /\ old \o add \in Seq(Row) /\ Len(old \o add) = Len(old) + Len(add)
          /\ \A i \in 1..Len(old) + Len(add) :
                (old \o add)[i] = IF i <= Len(old) THEN old[i] ELSE add[i - Len(old)]
      BY <1>5, <1>7, ConcatProperties, Zenon
    <2> QED BY <2>1, <1>1, <1>5, <1>7, Zenon
  <1>90. \A r \in Id : R[r] = old[r]
    BY <1>2, <1>3, <1>8
  <1>9. \A r \in Id : /\ R[r].ev = rows[r].ev /\ R[r].attempt = rows[r].attempt
                      /\ R[r].done <=> (rows[r].done \/ r \in lock[w])
    BY <1>51, <1>90, Zenon
  <1>10. \A i \in 1..Len(R) : i \notin Id =>
            i - L \in 1..k /\ R[i] = add[i - L]
    BY <1>2, <1>3, <1>8
  <1>11. \A i \in 1..k : L + i \in 1..Len(R) /\ L + i \notin Id /\ R[L + i] = add[i]
    BY <1>2, <1>3, <1>8
  <1>12. \A i \in 1..Len(R) : i \notin Id =>
            ~R[i].done /\ \E n \in new[w] : R[i].ev = n.ev /\ R[i].attempt = n.attempt
    BY <1>3, <1>6, <1>10
  <1>13. \A n \in new[w] : \E i \in 1..Len(R) :
            i \notin Id /\ R[i].ev = n.ev /\ R[i].attempt = n.attempt
    BY <1>3, <1>6, <1>11, SMTT(40)
  <1>14. ASSUME NEW i \in 1..Len(R), NEW j \in 1..Len(R), i \notin Id, j \notin Id,
                R[i].ev = R[j].ev, R[i].attempt = R[j].attempt
         PROVE  i = j
    <2>1. i - L \in 1..k /\ j - L \in 1..k
      BY <1>10, <1>14
    <2>2. q[i - L].ev = q[j - L].ev /\ q[i - L].attempt = q[j - L].attempt
      BY <1>6, <1>10, <1>14, <2>1
    <2>3. q[i - L] = q[j - L]
      BY <2>1, <2>2, <1>3, <1>4 DEF Note
    <2> QED BY <2>1, <2>3, <1>2, <1>3, <1>8
  <1> QED
    BY <1>2, <1>3, <1>8, <1>9, <1>12, <1>13, <1>14 DEF L

----------------------------------------------------------------------------
(* OutboxInv is inductive                                                  *)

LEMMA OutboxInit == Init => OutboxInv
  <1> SUFFICES ASSUME Init PROVE OutboxInv
    OBVIOUS
  <1> DEFINE k == Cardinality(Event)
             q == SetToSeq(Event)
  <1>1. /\ k \in Nat /\ q \in [1..k -> Event]
        /\ \A i, j \in 1..k : q[i] = q[j] => i = j
    BY SetsAssumption, ListsOnce
  <1>2. rows = [i \in 1..k |-> [ev |-> q[i], attempt |-> 1, due |-> TRUE, done |-> FALSE]]
    BY DEF Init
  <1> HIDE DEF k, q
  <1>3. \A i \in 1..k : rows[i] \in Row /\ rows[i].ev = q[i]
    BY <1>1, <1>2, BoundsAssumption DEF Row
  <1>4. rows \in Seq(Row) /\ Len(rows) = k
    BY <1>1, <1>2, <1>3, FunctionIsSeq
  <1>5. Id = 1..k
    BY <1>1, <1>2 DEF Id
  <1>6. LiveUnique
    BY <1>1, <1>3, <1>5 DEF LiveUnique
  <1>7. OutboxType
    BY <1>4, BoundsAssumption DEF OutboxType, Init
  <1>8. LocksApart
    BY DEF LocksApart, Init
  <1>9. ASSUME NEW w \in Worker PROVE TxnOK(w)
    BY FS_EmptySet DEF TxnOK, Init
  <1> QED BY <1>6, <1>7, <1>8, <1>9 DEF OutboxInv

\* What an action owes to OutboxInv when it moves dispatcher w only.
LEMMA OneMoves ==
    ASSUME OutboxInv, OutboxType', LiveUnique', NEW w \in Worker, TxnOK(w)',
           \A v \in Worker \ {w} :
              /\ lock'[v] = lock[v] /\ todo'[v] = todo[v] /\ pc'[v] = pc[v]
              /\ cur'[v] = cur[v] /\ res'[v] = res[v] /\ new'[v] = new[v]
              /\ lock'[w] \cap lock[v] = {}
              /\ \A r \in lock[v] : rows'[r].ev = rows[r].ev /\ ~rows'[r].done
    PROVE  OutboxInv'
  <1>1. LocksApart'
    BY DEF OutboxInv, LocksApart
  <1>2. ASSUME NEW v \in Worker, v # w PROVE TxnOK(v)'
    <2>1. TxnOK(v)
      BY DEF OutboxInv
    <2>2. Decided(v)' = Decided(v)
      BY <1>2 DEF Decided
    <2>3. Decided(v) \subseteq lock[v]
      BY DEF Decided
    <2>4. \A n \in new[v] : \E r \in Decided(v) : rows'[r].ev = n.ev
      BY <2>1, <2>3, <1>2 DEF TxnOK
    <2> QED BY <1>2, <2>1, <2>2, <2>4 DEF TxnOK
  <1> QED BY <1>1, <1>2 DEF OutboxInv

\* A transaction without effect leaves nothing behind.
LEMMA ResetKeeps ==
    ASSUME OutboxInv, OutboxType', NEW w \in Worker, UNCHANGED rows,
           pc' = [pc EXCEPT ![w] = "idle"], lock' = [lock EXCEPT ![w] = {}],
           todo' = [todo EXCEPT ![w] = {}], cur' = [cur EXCEPT ![w] = 0],
           res' = [res EXCEPT ![w] = "none"], new' = [new EXCEPT ![w] = {}]
    PROVE  OutboxInv'
  <1>1. LiveUnique'
    BY DEF OutboxInv, LiveUnique, Id
  <1>2. TxnOK(w)'
    BY FS_EmptySet DEF OutboxInv, OutboxType, TxnOK
  <1>3. \A v \in Worker \ {w} :
              /\ lock'[v] = lock[v] /\ todo'[v] = todo[v] /\ pc'[v] = pc[v]
              /\ cur'[v] = cur[v] /\ res'[v] = res[v] /\ new'[v] = new[v]
              /\ lock'[w] \cap lock[v] = {}
              /\ \A r \in lock[v] : rows'[r].ev = rows[r].ev /\ ~rows'[r].done
    BY DEF OutboxInv, OutboxType, TxnOK
  <1> QED BY <1>1, <1>2, <1>3, OneMoves

\* FOR UPDATE SKIP LOCKED: the batch is live and in nobody else's hands.
LEMMA ClaimKeeps ==
    ASSUME OutboxInv, NEW w \in Worker, pc[w] \in {"idle", "backoff"}, ClaimBatch(w),
           UNCHANGED <<dbVars, run, cur, res, new, httpVars, faults, defers>>
    PROVE  OutboxInv'
  <1>0. OutboxType /\ TxnOK(w) /\ lock[w] = {} /\ new[w] = {}
    BY DEF OutboxInv, TxnOK
  <1>1. LiveUnique'
    BY DEF OutboxInv, LiveUnique, Id, dbVars
  <1>2. CASE Available = {}
    <2>1. /\ pc' = [pc EXCEPT ![w] = "idle"] /\ slow' = [slow EXCEPT ![w] = FALSE]
          /\ UNCHANGED <<lock, todo>>
      BY <1>2 DEF ClaimBatch
    <2>2. OutboxType'
      BY <2>1, <1>0 DEF OutboxType, dbVars, httpVars, Id
    <2>3. TxnOK(w)'
      BY <2>1, <1>0 DEF OutboxType, TxnOK, dbVars
    <2>4. \A v \in Worker \ {w} :
              /\ lock'[v] = lock[v] /\ todo'[v] = todo[v] /\ pc'[v] = pc[v]
              /\ cur'[v] = cur[v] /\ res'[v] = res[v] /\ new'[v] = new[v]
              /\ lock'[w] \cap lock[v] = {}
              /\ \A r \in lock[v] : rows'[r].ev = rows[r].ev /\ ~rows'[r].done
      BY <2>1, <1>0 DEF OutboxInv, OutboxType, TxnOK, dbVars
    <2> QED BY <1>1, <2>2, <2>3, <2>4, OneMoves
  <1>3. CASE Available # {}
    <2>1. PICK S \in SUBSET Available : /\ lock' = [lock EXCEPT ![w] = S] /\ todo' = [todo EXCEPT ![w] = S]
                            /\ pc' = [pc EXCEPT ![w] = "row"] /\ slow' = slow
      BY <1>3 DEF ClaimBatch, kSubset
    <2>10. Available \subseteq Id
      BY DEF Available
    <2>2. OutboxType'
      BY <2>1, <2>10, <1>0 DEF OutboxType, dbVars, httpVars, Id
    <2>3. TxnOK(w)'
      BY <2>1, <1>0, FS_EmptySet DEF OutboxType, TxnOK, dbVars, Available
    <2>4. \A v \in Worker \ {w} :
              /\ lock'[v] = lock[v] /\ todo'[v] = todo[v] /\ pc'[v] = pc[v]
              /\ cur'[v] = cur[v] /\ res'[v] = res[v] /\ new'[v] = new[v]
              /\ lock'[w] \cap lock[v] = {}
              /\ \A r \in lock[v] : rows'[r].ev = rows[r].ev /\ ~rows'[r].done
      BY <2>1, <1>0 DEF OutboxInv, OutboxType, TxnOK, dbVars, Available
    <2> QED BY <1>1, <2>2, <2>3, <2>4, OneMoves
  <1> QED BY <1>2, <1>3

\* Steps of dispatcher w that leave its transaction as it is.
LEMMA RestKeeps ==
    ASSUME OutboxInv, OutboxType', NEW w \in Worker,
           UNCHANGED <<rows, txnVars>>,
           \A v \in Worker : \/ pc'[v] = pc[v]
                             \/ pc[v] \in {"idle", "backoff"} /\ pc'[v] \in {"idle", "backoff"}
    PROVE  OutboxInv'
  <1>1. LiveUnique' /\ LocksApart'
    BY DEF OutboxInv, LiveUnique, Id, LocksApart, txnVars
  <1>2. ASSUME NEW v \in Worker PROVE TxnOK(v)'
    <2>1. TxnOK(v)
      BY DEF OutboxInv
    <2>2. CASE pc'[v] = pc[v]
      BY <2>1, <2>2 DEF TxnOK, Decided, txnVars
    <2>3. CASE pc[v] \in {"idle", "backoff"} /\ pc'[v] \in {"idle", "backoff"}
      BY <2>1, <2>3, FS_EmptySet DEF TxnOK, txnVars
    <2> QED BY <2>2, <2>3
  <1> QED BY <1>1, <1>2 DEF OutboxInv

LEMMA PollKeeps ==
    ASSUME OutboxInv, NEW w \in Worker, PollOnce(w) \/ BackoffOver(w)
    PROVE  OutboxInv'
  <1>1. ASSUME pc[w] \in {"idle", "backoff"}, NEW to \in {"idle", "backoff"},
               pc' = [pc EXCEPT ![w] = to],
               UNCHANGED <<slow, lock, todo, dbVars, run, cur, res, new, httpVars, faults, defers>>
        PROVE  OutboxInv'
    <2>1. OutboxType'
      BY <1>1 DEF OutboxInv, OutboxType, dbVars, httpVars, Id
    <2> QED BY <2>1, <1>1, RestKeeps DEF dbVars, txnVars, OutboxInv, OutboxType
  <1> QED BY <1>1, ClaimKeeps DEF PollOnce, BackoffOver

LEMMA RowAt ==
    ASSUME OutboxType, NEW r \in Id
    PROVE  /\ r \in Nat /\ rows[r] \in Row /\ rows[r].ev \in Event
           /\ rows[r].attempt \in 1..MaxAttempts
  <1>1. rows \in Seq(Row) /\ Id = 1..Len(rows) /\ Len(rows) \in Nat
    BY DEF OutboxType, Id
  <1>2. r \in Nat /\ rows[r] \in Row
    BY <1>1
  <1> QED BY <1>2 DEF Row

LEMMA FailureKeeps ==
    ASSUME OutboxInv, NEW w \in Worker,
           EndpointRejected(w) \/ StatementFails(w) \/ Crash(w) \/ (CommitFails(w) /\ UNCHANGED rows)
    PROVE  OutboxInv'
  <1>1. /\ pc' = [pc EXCEPT ![w] = "idle"] /\ lock' = [lock EXCEPT ![w] = {}]
        /\ todo' = [todo EXCEPT ![w] = {}] /\ cur' = [cur EXCEPT ![w] = 0]
        /\ res' = [res EXCEPT ![w] = "none"] /\ new' = [new EXCEPT ![w] = {}]
        /\ UNCHANGED <<rows, dlq, acked, posts, defers>>
    BY DEF EndpointRejected, StatementFails, Crash, CommitFails, FailBatch, dbVars, httpVars
  <1>2. run' \in [Worker -> BOOLEAN] /\ slow' \in [Worker -> BOOLEAN]
    BY DEF OutboxInv, OutboxType, EndpointRejected, StatementFails, Crash, CommitFails, FailBatch
  <1>3. faults' \in 0..MaxFaults
    BY BoundsAssumption
       DEF OutboxInv, OutboxType, EndpointRejected, StatementFails, Crash, CommitFails
  <1>4. cutShort' \subseteq Event
    <2>1. CASE EndpointRejected(w)
      <3>1. \A r \in lock[w] : rows[r].ev \in Event
        BY RowAt DEF OutboxInv, OutboxType
      <3> QED BY <2>1, <3>1 DEF EndpointRejected, OutboxInv, OutboxType
    <2> QED BY <2>1 DEF StatementFails, Crash, CommitFails, httpVars, OutboxInv, OutboxType
  <1>5. OutboxType'
    BY <1>1, <1>2, <1>3, <1>4 DEF OutboxInv, OutboxType, Id
  <1> QED BY <1>1, <1>5, ResetKeeps

\* A step inside the transaction of w: the table's rows and the locks stay.
LEMMA InsideKeeps ==
    ASSUME OutboxInv, OutboxType', NEW w \in Worker, TxnOK(w)', UNCHANGED <<rows, lock>>,
           \A v \in Worker \ {w} :
              /\ todo'[v] = todo[v] /\ pc'[v] = pc[v]
              /\ cur'[v] = cur[v] /\ res'[v] = res[v] /\ new'[v] = new[v]
    PROVE  OutboxInv'
  <1>1. LiveUnique'
    BY DEF OutboxInv, LiveUnique, Id
  <1>2. \A v \in Worker \ {w} :
              /\ lock'[v] = lock[v] /\ todo'[v] = todo[v] /\ pc'[v] = pc[v]
              /\ cur'[v] = cur[v] /\ res'[v] = res[v] /\ new'[v] = new[v]
              /\ lock'[w] \cap lock[v] = {}
              /\ \A r \in lock[v] : rows'[r].ev = rows[r].ev /\ ~rows'[r].done
    BY DEF OutboxInv, LocksApart, TxnOK
  <1> QED BY <1>1, <1>2, OneMoves

\* A note for a row that was not decided yet is about an event without one.
LEMMA NoteAdded ==
    ASSUME OutboxInv, NEW w \in Worker, NEW r \in lock[w], r \notin Decided(w),
           NEW n \in Note, n.ev = rows[r].ev
    PROVE  /\ IsFiniteSet(new[w] \cup {n})
           /\ \A m, o \in new[w] \cup {n} : m.ev = o.ev => m = o
  <1>0. OutboxType /\ LiveUnique /\ TxnOK(w)
    BY DEF OutboxInv
  <1>1. IsFiniteSet(new[w] \cup {n})
    BY <1>0, FS_AddElement DEF TxnOK
  <1>2. ASSUME NEW m \in new[w] PROVE m.ev # n.ev
    <2>1. PICK s \in Decided(w) : rows[s].ev = m.ev
      BY <1>0 DEF TxnOK
    <2>2. s \in Id /\ r \in Id /\ ~rows[s].done /\ ~rows[r].done
      BY <1>0 DEF TxnOK, OutboxType, Decided
    <2> QED BY <2>1, <2>2, <1>0 DEF LiveUnique
  <1> QED BY <1>0, <1>1, <1>2 DEF TxnOK

LEMMA PoisonKeeps ==
    ASSUME OutboxInv, NEW w \in Worker, DeadLetterPoison(w)
    PROVE  OutboxInv'
  <1>0. OutboxType /\ TxnOK(w)
    BY DEF OutboxInv
  <1>1. PICK r \in todo[w] : /\ dlq' = dlq \cup {r} /\ todo' = [todo EXCEPT ![w] = @ \ {r}]
                             /\ pc[w] = "row"
                             /\ UNCHANGED <<rows, run, slow, pc, lock, cur, res, new, httpVars, faults, defers>>
    BY DEF DeadLetterPoison, Handled
  <1>2. OutboxType'
    BY <1>0, <1>1 DEF OutboxType, httpVars, Id
  <1>3. Decided(w) \subseteq Decided(w)'
    BY <1>0, <1>1 DEF Decided, OutboxType
  <1>4. TxnOK(w)'
    BY <1>0, <1>1, <1>3 DEF TxnOK, OutboxType
  <1> QED BY <1>0, <1>1, <1>2, <1>4, InsideKeeps DEF OutboxType

LEMMA DeferKeeps ==
    ASSUME OutboxInv, NEW w \in Worker, Defer(w)
    PROVE  OutboxInv'
  <1>0. OutboxType /\ TxnOK(w)
    BY DEF OutboxInv
  <1>1. PICK r \in todo[w] :
           /\ pc[w] = "row" /\ defers < MaxDefers /\ defers' = defers + 1
           /\ new' = [new EXCEPT ![w] = @ \cup {[ev |-> rows[r].ev, attempt |-> rows[r].attempt]}]
           /\ todo' = [todo EXCEPT ![w] = @ \ {r}]
           /\ UNCHANGED <<dbVars, run, slow, pc, lock, cur, res, httpVars, faults>>
    BY DEF Defer, Handled, Reinsert
  <1> DEFINE n == [ev |-> rows[r].ev, attempt |-> rows[r].attempt]
  <1>2. r \in lock[w] /\ r \in Id /\ r \notin Decided(w)
    BY <1>0 DEF TxnOK, OutboxType, Decided
  <1>3. n \in Note /\ n.ev = rows[r].ev
    BY <1>0, <1>2, RowAt DEF Note
  <1>4. new'[w] = new[w] \cup {n} /\ todo'[w] = todo[w] \ {r}
    BY <1>0, <1>1 DEF OutboxType
  <1> HIDE DEF n
  <1>5. OutboxType'
    <2>1. new' \in [Worker -> SUBSET Note]
      BY <1>0, <1>1, <1>3 DEF OutboxType, n
    <2>2. defers' \in 0..MaxDefers
      BY <1>0, <1>1, BoundsAssumption DEF OutboxType
    <2> QED BY <1>0, <1>1, <2>1, <2>2 DEF OutboxType, dbVars, httpVars, Id
  <1>6. Decided(w) \cup {r} \subseteq Decided(w)'
    BY <1>1, <1>2, <1>4 DEF Decided
  <1>7. \A m \in new'[w] : \E s \in Decided(w)' : rows'[s].ev = m.ev
    BY <1>0, <1>1, <1>3, <1>4, <1>6 DEF TxnOK, dbVars
  <1>8. IsFiniteSet(new[w] \cup {n}) /\ \A m, o \in new[w] \cup {n} : m.ev = o.ev => m = o
    BY <1>2, <1>3, NoteAdded
  <1>9. TxnOK(w)'
    BY <1>0, <1>1, <1>4, <1>7, <1>8 DEF TxnOK, dbVars
  <1> QED BY <1>0, <1>1, <1>5, <1>9, InsideKeeps DEF OutboxType, dbVars

LEMMA PostKeeps ==
    ASSUME OutboxInv, NEW w \in Worker, Post(w)
    PROVE  OutboxInv'
  <1>0. OutboxType /\ TxnOK(w)
    BY DEF OutboxInv
  <1>1. PICK r \in todo[w], answer \in Outcome :
           /\ pc[w] = "row" /\ pc' = [pc EXCEPT ![w] = "settle"]
           /\ cur' = [cur EXCEPT ![w] = r] /\ res' = [res EXCEPT ![w] = answer]
           /\ posts' = [posts EXCEPT ![rows[r].ev] = Min({@ + 1, MaxPosts})]
           /\ acked' = IF answer = "ok" THEN acked \cup {rows[r].ev} ELSE acked
           /\ todo' = [todo EXCEPT ![w] = @ \ {r}]
           /\ UNCHANGED <<dbVars, run, slow, lock, new, cutShort, faults, defers>>
    BY DEF Post, Handled
  <1>2. r \in lock[w] /\ r \in Id /\ r \notin Decided(w)
    BY <1>0 DEF TxnOK, OutboxType, Decided
  <1>3. r \in Nat /\ rows[r].ev \in Event
    BY <1>0, <1>2, RowAt
  <1>4. posts' \in [Event -> 0..MaxPosts]
    <2>1. posts[rows[r].ev] + 1 \in Nat /\ MaxPosts \in Nat
      BY <1>0, <1>3, BoundsAssumption DEF OutboxType
    <2>2. Min({posts[rows[r].ev] + 1, MaxPosts}) \in 0..MaxPosts
      BY <2>1, MinOfTwo
    <2> QED BY <2>2, <1>0, <1>1, <1>3 DEF OutboxType
  <1>5. OutboxType'
    BY <1>0, <1>1, <1>2, <1>3, <1>4 DEF OutboxType, dbVars, Id
  <1>6. Decided(w)' = Decided(w)
    BY <1>0, <1>1, <1>2 DEF Decided, OutboxType
  <1>7. TxnOK(w)'
    BY <1>0, <1>1, <1>2, <1>6 DEF TxnOK, OutboxType, dbVars
  <1> QED BY <1>0, <1>1, <1>5, <1>7, InsideKeeps DEF OutboxType, dbVars

LEMMA SettleKeeps ==
    ASSUME OutboxInv, NEW w \in Worker, Settle(w)
    PROVE  OutboxInv'
  <1>0. OutboxType /\ TxnOK(w) /\ pc[w] = "settle"
    BY DEF OutboxInv, Settle
  <1> DEFINE r == cur[w]
             n == [ev |-> rows[r].ev, attempt |-> NextAttempt(rows[r].attempt)]
  <1>1. /\ dlq' \in {dlq, dlq \cup {r}} /\ pc' = [pc EXCEPT ![w] = "row"]
        /\ cur' = [cur EXCEPT ![w] = 0] /\ res' = [res EXCEPT ![w] = "none"]
        /\ UNCHANGED <<rows, run, slow, lock, todo, httpVars, faults, defers>>
    BY DEF Settle
  <1>2. r \in lock[w] /\ r \in Id /\ r \notin Decided(w) /\ r \notin todo[w]
    BY <1>0 DEF TxnOK, OutboxType, Decided
  <1>3. rows[r].ev \in Event /\ rows[r].attempt \in 1..MaxAttempts
    BY <1>0, <1>2, RowAt
  <1>4. Decided(w) \cup {r} \subseteq Decided(w)'
    BY <1>0, <1>1, <1>2 DEF Decided, OutboxType
  <1>5. \/ new' = new
        \/ n \in Note /\ n.ev = rows[r].ev /\ new' = [new EXCEPT ![w] = @ \cup {n}]
    <2>1. PICK tripped \in BOOLEAN :
             new' = IF res[w] = "retryable" /\ ShouldRetry(rows[r].attempt, tripped)
                    THEN [new EXCEPT ![w] = @ \cup {n}] ELSE new
      BY BoundsAssumption DEF Settle
    <2>2. CASE ShouldRetry(rows[r].attempt, tripped)
      <3>1. n \in Note /\ n.ev = rows[r].ev
        BY <2>2, <1>3, BoundsAssumption DEF ShouldRetry, NextAttempt, Note
      <3> QED BY <2>1, <3>1
    <2> QED BY <2>1, <2>2
  <1> HIDE DEF n, r
  <1>6. OutboxType'
    <2>1. new' \in [Worker -> SUBSET Note]
      <3>1. new \in [Worker -> SUBSET Note]
        BY <1>0 DEF OutboxType
      <3>2. ASSUME n \in Note PROVE [new EXCEPT ![w] = @ \cup {n}] \in [Worker -> SUBSET Note]
        BY <3>1, <3>2
      <3> QED BY <3>1, <3>2, <1>5
    <2> QED BY <1>0, <1>1, <1>2, <2>1 DEF OutboxType, httpVars, Id
  <1>7. TxnOK(w)'
    <2>1. CASE new' = new
      BY <2>1, <1>0, <1>1, <1>4 DEF TxnOK, OutboxType
    <2>2. CASE n \in Note /\ n.ev = rows[r].ev /\ new' = [new EXCEPT ![w] = @ \cup {n}]
      <3>1. new'[w] = new[w] \cup {n}
        BY <2>2, <1>0 DEF OutboxType
      <3>2. IsFiniteSet(new[w] \cup {n}) /\ \A m, o \in new[w] \cup {n} : m.ev = o.ev => m = o
        BY <2>2, <1>2, NoteAdded
      <3>3. \A m \in new'[w] : \E s \in Decided(w)' : rows'[s].ev = m.ev
        BY <2>2, <3>1, <1>0, <1>1, <1>4 DEF TxnOK
      <3> QED BY <3>1, <3>2, <3>3, <1>0, <1>1 DEF TxnOK, OutboxType
    <2> QED BY <1>5, <2>1, <2>2
  <1>8. \A v \in Worker \ {w} : new'[v] = new[v]
    BY <1>0, <1>5 DEF OutboxType
  <1> QED BY <1>0, <1>1, <1>6, <1>7, <1>8, InsideKeeps DEF OutboxType

\* COMMIT replaces each decided row by its note, in one step.
LEMMA CommittedKeeps ==
    ASSUME OutboxInv, NEW w \in Worker, BatchDone(w), rows' = Committed(w),
           pc' = [pc EXCEPT ![w] = "idle"], lock' = [lock EXCEPT ![w] = {}],
           new' = [new EXCEPT ![w] = {}],
           \/ UNCHANGED <<todo, cur, res>>
           \/ /\ todo' = [todo EXCEPT ![w] = {}] /\ cur' = [cur EXCEPT ![w] = 0]
              /\ res' = [res EXCEPT ![w] = "none"],
           run' \in [Worker -> BOOLEAN], slow' \in [Worker -> BOOLEAN],
           faults' \in 0..MaxFaults, UNCHANGED <<dlq, acked, posts, cutShort, defers>>
    PROVE  OutboxInv'
  <1>0. OutboxType /\ TxnOK(w) /\ LiveUnique /\ LocksApart /\ IsFiniteSet(new[w])
    BY DEF OutboxInv, TxnOK
  <1>1. /\ rows' \in Seq(Row) /\ Len(rows) \in Nat /\ Id = 1..Len(rows)
        /\ Len(rows') \in Nat /\ Len(rows) <= Len(rows')
        /\ \A r \in Id : /\ rows'[r].ev = rows[r].ev
                         /\ rows'[r].done <=> (rows[r].done \/ r \in lock[w])
        /\ \A i \in 1..Len(rows') : i \notin Id =>
              \E n \in new[w] : rows'[i].ev = n.ev /\ rows'[i].attempt = n.attempt
        /\ \A i, j \in 1..Len(rows') : 
              i \notin Id /\ j \notin Id /\ rows'[i].ev = rows'[j].ev /\ rows'[i].attempt = rows'[j].attempt
              => i = j
    BY <1>0, CommitRows, SMTT(40)
  <1>2. Id' = 1..Len(rows') /\ Id \subseteq Id'
    BY <1>1 DEF Id
  <1>3. OutboxType'
    <2>1. lock' \in [Worker -> SUBSET Id'] /\ dlq' \subseteq Id'
      BY <1>0, <1>2 DEF OutboxType
    <2>2. todo' \in [Worker -> SUBSET Id']
      BY <1>0, <1>2 DEF OutboxType
    <2>3. new' \in [Worker -> SUBSET Note] /\ cur' \in [Worker -> Nat]
      BY <1>0 DEF OutboxType
    <2> QED BY <1>0, <1>1, <2>1, <2>2, <2>3 DEF OutboxType
  <1>4. LiveUnique'
    <2> SUFFICES ASSUME NEW r \in Id', NEW s \in Id', ~rows'[r].done, ~rows'[s].done,
                        rows'[r].ev = rows'[s].ev
                 PROVE  r = s
      BY DEF LiveUnique
    <2>1. CASE r \in Id /\ s \in Id
      BY <2>1, <1>0, <1>1 DEF LiveUnique
    <2>2. ASSUME NEW o \in Id, NEW i \in Id', i \notin Id, ~rows'[o].done, rows'[o].ev = rows'[i].ev
          PROVE  FALSE
      <3>1. PICK n \in new[w] : rows'[i].ev = n.ev
        BY <2>2, <1>1, <1>2
      <3>2. PICK d \in lock[w] : rows[d].ev = n.ev
        BY <1>0 DEF TxnOK, Decided
      <3>3. d \in Id /\ ~rows[d].done
        BY <1>0 DEF TxnOK, OutboxType
      <3>4. ~rows[o].done /\ o \notin lock[w] /\ rows[o].ev = rows[d].ev
        BY <2>2, <3>1, <3>2, <1>1
      <3> QED BY <3>3, <3>4, <1>0 DEF LiveUnique
    <2>3. CASE r \notin Id /\ s \notin Id
      <3>1. PICK m \in new[w] : rows'[r].ev = m.ev /\ rows'[r].attempt = m.attempt
        BY <2>3, <1>1, <1>2
      <3>2. PICK n \in new[w] : rows'[s].ev = n.ev /\ rows'[s].attempt = n.attempt
        BY <2>3, <1>1, <1>2
      <3>3. m = n
        BY <3>1, <3>2, <1>0 DEF TxnOK
      <3> QED BY <2>3, <3>1, <3>2, <3>3, <1>1, <1>2
    <2> QED BY <2>1, <2>2, <2>3
  <1>5. TxnOK(w)'
    <2>1. lock'[w] = {} /\ new'[w] = {} /\ pc'[w] = "idle" /\ todo'[w] = {}
      BY <1>0 DEF OutboxType, BatchDone
    <2> QED BY <2>1, FS_EmptySet DEF TxnOK
  <1>6. \A v \in Worker \ {w} :
              /\ lock'[v] = lock[v] /\ todo'[v] = todo[v] /\ pc'[v] = pc[v]
              /\ cur'[v] = cur[v] /\ res'[v] = res[v] /\ new'[v] = new[v]
              /\ lock'[w] \cap lock[v] = {}
    BY <1>0 DEF OutboxType
  <1>7. ASSUME NEW v \in Worker, v # w, NEW r \in lock[v]
        PROVE  rows'[r].ev = rows[r].ev /\ ~rows'[r].done
    <2>1. r \in Id /\ r \notin lock[w] /\ ~rows[r].done
      BY <1>0, <1>7 DEF OutboxInv, OutboxType, LocksApart, TxnOK
    <2> QED BY <2>1, <1>1
  <1> QED BY <1>3, <1>4, <1>5, <1>6, <1>7, OneMoves

LEMMA CommitKeeps ==
    ASSUME OutboxInv, NEW w \in Worker, Commit(w) \/ (CommitFails(w) /\ rows' = Committed(w))
    PROVE  OutboxInv'
  <1>1. CASE Commit(w)
    BY <1>1, CommittedKeeps DEF Commit, httpVars, OutboxInv, OutboxType
  <1>2. CASE CommitFails(w) /\ rows' = Committed(w)
    <2>1. faults' \in 0..MaxFaults
      BY <1>2, BoundsAssumption DEF CommitFails, OutboxInv, OutboxType
    <2> QED BY <2>1, <1>2, CommittedKeeps DEF CommitFails, FailBatch, httpVars, OutboxInv, OutboxType
  <1> QED BY <1>1, <1>2

LEMMA SwitchKeeps ==
    ASSUME OutboxInv, NEW w \in Worker, Stop(w) \/ Start(w)
    PROVE  OutboxInv'
  <1>0. OutboxType
    BY DEF OutboxInv
  <1>1. run' \in [Worker -> BOOLEAN] /\ faults' \in 0..MaxFaults
    <2>1. CASE Stop(w)
      BY <2>1, <1>0, BoundsAssumption DEF Stop, OutboxType
    <2>2. CASE Start(w)
      BY <2>2, <1>0 DEF Start, OutboxType
    <2> QED BY <2>1, <2>2
  <1>2. UNCHANGED <<dbVars, slow, pc, txnVars, httpVars, defers>>
    BY DEF Stop, Start
  <1>3. OutboxType'
    BY <1>1, <1>2 DEF OutboxInv, OutboxType, dbVars, txnVars, httpVars, Id
  <1> QED BY <1>2, <1>3, RestKeeps DEF dbVars

LEMMA RowDueKeeps ==
    ASSUME OutboxInv, RowDue
    PROVE  OutboxInv'
  <1>0. OutboxType
    BY DEF OutboxInv
  <1>1. PICK r \in Id : rows' = [rows EXCEPT ![r].due = TRUE]
    BY DEF RowDue
  <1>2. rows \in Seq(Row) /\ rows[r] \in Row /\ Id = 1..Len(rows)
    BY <1>0, RowAt DEF OutboxType, Id
  <1>3. /\ rows' \in Seq(Row) /\ Id' = Id
        /\ \A s \in Id : rows'[s].ev = rows[s].ev /\ rows'[s].done = rows[s].done
    <2>1. [rows[r] EXCEPT !.due = TRUE] \in Row
      BY <1>2 DEF Row
    <2>2. rows' = [rows EXCEPT ![r] = [rows[r] EXCEPT !.due = TRUE]]
      BY <1>1
    <2>3. rows' \in Seq(Row) /\ Id' = Id
      BY <2>1, <2>2, <1>2 DEF Id
    <2>4. ASSUME NEW s \in Id PROVE rows'[s].ev = rows[s].ev /\ rows'[s].done = rows[s].done
      <3>1. CASE s = r
        <4>1. rows'[s] = [rows[r] EXCEPT !.due = TRUE]
          BY <3>1, <2>2, <1>2 DEF Id
        <4>2. [rows[r] EXCEPT !.due = TRUE].ev = rows[r].ev
          BY <1>2 DEF Row
        <4>3. [rows[r] EXCEPT !.due = TRUE].done = rows[r].done
          BY <1>2 DEF Row
        <4> QED BY <3>1, <4>1, <4>2, <4>3
      <3>2. CASE s # r
        BY <3>2, <2>2, <1>2
      <3> QED BY <3>1, <3>2
    <2> QED BY <2>3, <2>4
  <1>4. UNCHANGED <<dlq, run, slow, pc, txnVars, httpVars, faults, defers>>
    BY DEF RowDue
  <1>5. OutboxType' /\ LocksApart'
    BY <1>0, <1>3, <1>4 DEF OutboxType, OutboxInv, LocksApart, txnVars, httpVars
  <1>6. LiveUnique'
    BY <1>3 DEF OutboxInv, LiveUnique
  <1>7. ASSUME NEW w \in Worker PROVE TxnOK(w)'
    <2>1. TxnOK(w) /\ lock[w] \subseteq Id
      BY <1>0 DEF OutboxInv, OutboxType
    <2>2. Decided(w)' = Decided(w) /\ Decided(w) \subseteq Id
      BY <1>4, <2>1 DEF Decided, txnVars
    <2>3. \A n \in new[w] : \E s \in Decided(w) : rows'[s].ev = n.ev
      BY <2>1, <2>2, <1>3 DEF TxnOK
    <2>4. \A s \in lock[w] : ~rows'[s].done
      BY <2>1, <1>3 DEF TxnOK
    <2> QED BY <2>1, <2>2, <2>3, <2>4, <1>4 DEF TxnOK, txnVars
  <1> QED BY <1>5, <1>6, <1>7 DEF OutboxInv

LEMMA OutboxStep == OutboxInv /\ [Next]_vars => OutboxInv'
  <1> SUFFICES ASSUME OutboxInv, [Next]_vars PROVE OutboxInv'
    OBVIOUS
  <1>1. CASE RowDue
    BY <1>1, RowDueKeeps
  <1>2. ASSUME NEW w \in Worker, PollOnce(w) \/ BackoffOver(w) PROVE OutboxInv'
    BY <1>2, PollKeeps
  <1>3. ASSUME NEW w \in Worker, DeliverRow(w) PROVE OutboxInv'
    BY <1>3, FailureKeeps, PoisonKeeps, DeferKeeps, PostKeeps, SettleKeeps DEF DeliverRow
  <1>4. ASSUME NEW w \in Worker, Commit(w) \/ CommitFails(w) PROVE OutboxInv'
    BY <1>4, CommitKeeps, FailureKeeps DEF CommitFails
  <1>5. ASSUME NEW w \in Worker, StatementFails(w) \/ Crash(w) \/ Stop(w) \/ Start(w) PROVE OutboxInv'
    BY <1>5, FailureKeeps, SwitchKeeps
  <1>6. CASE UNCHANGED vars
    <2>1. LocksApart' /\ LiveUnique' /\ OutboxType'
      BY <1>6 DEF OutboxInv, LocksApart, LiveUnique, OutboxType, Id, vars, dbVars, txnVars, httpVars
    <2>2. ASSUME NEW w \in Worker PROVE TxnOK(w)'
      BY <1>6 DEF OutboxInv, TxnOK, Decided, vars, dbVars, txnVars
    <2> QED BY <2>1, <2>2 DEF OutboxInv
  <1> QED BY <1>1, <1>2, <1>3, <1>4, <1>5, <1>6 DEF Next

----------------------------------------------------------------------------
(* No event is lost undecided                                              *)

\* The table only grows, and a row keeps its event and attempt number.
TableGrows ==
    /\ Id \subseteq Id' /\ dlq \subseteq dlq' /\ acked \subseteq acked'
    /\ \A r \in Id : rows'[r].ev = rows[r].ev /\ rows'[r].attempt = rows[r].attempt

LEMMA RowDueGrows ==
    ASSUME OutboxInv, RowDue
    PROVE  /\ TableGrows /\ Id' = Id
           /\ \A r \in Id : rows'[r].done = rows[r].done
  <1>0. OutboxType
    BY DEF OutboxInv
  <1>1. PICK r \in Id : rows' = [rows EXCEPT ![r].due = TRUE]
    BY DEF RowDue
  <1>2. rows \in Seq(Row) /\ rows[r] \in Row /\ Id = 1..Len(rows)
    BY <1>0, RowAt DEF OutboxType, Id
  <1>3. rows' = [rows EXCEPT ![r] = [rows[r] EXCEPT !.due = TRUE]] /\ Id' = Id
    BY <1>1, <1>2 DEF Id
  <1>4. ASSUME NEW s \in Id
        PROVE  /\ rows'[s].ev = rows[s].ev /\ rows'[s].attempt = rows[s].attempt
               /\ rows'[s].done = rows[s].done
    <2>1. CASE s = r
      <3>1. rows'[s] = [rows[r] EXCEPT !.due = TRUE]
        BY <2>1, <1>2, <1>3 DEF Id
      <3>2. /\ [rows[r] EXCEPT !.due = TRUE].ev = rows[r].ev
            /\ [rows[r] EXCEPT !.due = TRUE].attempt = rows[r].attempt
        BY <1>2 DEF Row
      <3>3. [rows[r] EXCEPT !.due = TRUE].done = rows[r].done
        BY <1>2 DEF Row
      <3> QED BY <2>1, <3>1, <3>2, <3>3
    <2>2. CASE s # r
      BY <2>2, <1>2, <1>3
    <2> QED BY <2>1, <2>2
  <1> QED BY <1>3, <1>4 DEF RowDue, TableGrows, httpVars

LEMMA SameTableGrows ==
    ASSUME UNCHANGED rows, dlq \subseteq dlq', acked \subseteq acked'
    PROVE  TableGrows
  BY DEF TableGrows, Id

LEMMA CommittedGrows ==
    ASSUME OutboxInv, NEW w \in Worker, rows' = Committed(w), UNCHANGED <<dlq, acked>>
    PROVE  TableGrows
  <1>1. OutboxType /\ IsFiniteSet(new[w])
    BY DEF OutboxInv, TxnOK
  <1>2. /\ rows' \in Seq(Row) /\ Id = 1..Len(rows) /\ Len(rows) \in Nat /\ Len(rows') \in Nat
        /\ Len(rows) <= Len(rows')
        /\ \A r \in Id : rows'[r].ev = rows[r].ev /\ rows'[r].attempt = rows[r].attempt
    BY <1>1, CommitRows
  <1>3. Id \subseteq Id'
    BY <1>2 DEF Id
  <1> QED BY <1>2, <1>3 DEF TableGrows

LEMMA OverStays ==
    ASSUME OutboxInv, TableGrows, NEW e \in Event, Over(e)
    PROVE  Over(e)'
  <1>1. CASE e \in acked
    BY <1>1 DEF Over, TableGrows
  <1>2. CASE Queued(e)
    <2>1. PICK r \in dlq : rows[r].ev = e
      BY <1>2 DEF Queued
    <2>2. r \in Id
      BY DEF OutboxInv, OutboxType
    <2> QED BY <2>1, <2>2 DEF Over, Queued, TableGrows
  <1>3. ASSUME NEW r \in Id, rows[r].ev = e, rows[r].attempt = MaxAttempts PROVE Over(e)'
    BY <1>3 DEF Over, TableGrows
  <1> QED BY <1>1, <1>2, <1>3 DEF Over

\* What an action of dispatcher w owes to LossInv.
LEMMA LossMoves ==
    ASSUME OutboxInv, LossInv, TableGrows, NEW w \in Worker, Resolved(w)',
           \A e \in Event : Live(e) # {} => Live(e)' # {} \/ Over(e)',
           \A v \in Worker \ {w} :
              /\ lock'[v] = lock[v] /\ todo'[v] = todo[v] /\ pc'[v] = pc[v]
              /\ cur'[v] = cur[v] /\ res'[v] = res[v] /\ new'[v] = new[v]
    PROVE  LossInv'
  <1>0. OutboxType
    BY DEF OutboxInv
  <1>1. ASSUME NEW e \in Event PROVE Live(e)' # {} \/ Over(e)'
    BY OverStays DEF LossInv
  <1>2. ASSUME NEW v \in Worker, v # w PROVE Resolved(v)'
    <2>1. Resolved(v) /\ TxnOK(v)
      BY DEF LossInv, OutboxInv
    <2>2. Decided(v)' = Decided(v) /\ Decided(v) \subseteq Id
      BY <1>0, <1>2 DEF Decided, OutboxType
    <2>3. ASSUME NEW r \in Decided(v)
          PROVE  (Over(rows[r].ev) \/ \E n \in new[v] : n.ev = rows[r].ev)'
      <3>1. PICK e \in Event : e = rows[r].ev /\ e = rows'[r].ev
        BY <1>0, <2>2, RowAt DEF TableGrows
      <3>2. Over(e) \/ \E n \in new[v] : n.ev = e
        BY <2>1, <3>1 DEF Resolved
      <3>3. Over(e)' \/ \E n \in new'[v] : n.ev = e
        BY <3>2, <1>2, OverStays
      <3> QED BY <3>1, <3>3
    <2>4. (pc[v] = "settle" /\ res[v] = "ok" => rows[cur[v]].ev \in acked)'
      BY <1>0, <1>2, <2>1 DEF Resolved, TxnOK, OutboxType, TableGrows
    <2> QED BY <2>2, <2>3, <2>4 DEF Resolved
  <1> QED BY <1>1, <1>2 DEF LossInv

\* The transaction of w is over, or has decided nothing yet.
LEMMA LossFresh ==
    ASSUME OutboxInv, LossInv, NEW w \in Worker,
           PollOnce(w) \/ BackoffOver(w) \/ EndpointRejected(w) \/ StatementFails(w) \/ Crash(w)
              \/ (CommitFails(w) /\ UNCHANGED rows)
    PROVE  LossInv'
  <1>0. OutboxType /\ TxnOK(w)
    BY DEF OutboxInv
  <1>1. UNCHANGED <<rows, dlq, acked>>
    BY DEF PollOnce, BackoffOver, EndpointRejected, StatementFails, Crash, CommitFails, dbVars, httpVars
  <1>2. TableGrows /\ \A e \in Event : Live(e)' = Live(e)
    BY <1>1, SameTableGrows DEF Live, Id
  <1>3. CASE PollOnce(w) \/ BackoffOver(w)
    <2>1. pc[w] \in {"idle", "backoff"} /\ lock[w] = {} /\ UNCHANGED <<cur, res, new>>
      BY <1>0, <1>3 DEF PollOnce, BackoffOver, TxnOK
    <2>2. PICK S \in SUBSET Id, at \in {"idle", "backoff", "row"} :
             /\ pc' = [pc EXCEPT ![w] = at]
             /\ \/ UNCHANGED <<lock, todo>>
                \/ lock' = [lock EXCEPT ![w] = S] /\ todo' = [todo EXCEPT ![w] = S]
      <3>1. ASSUME ClaimBatch(w), Available # {}
            PROVE  \E S \in SUBSET Id :
                     /\ pc' = [pc EXCEPT ![w] = "row"]
                     /\ lock' = [lock EXCEPT ![w] = S] /\ todo' = [todo EXCEPT ![w] = S]
        BY <3>1 DEF ClaimBatch, kSubset, Available
      <3> QED BY <1>3, <3>1 DEF PollOnce, BackoffOver, ClaimBatch
    <2>3. Decided(w)' = {} /\ pc'[w] # "settle"
      BY <1>0, <2>1, <2>2 DEF Decided, OutboxType
    <2>4. Resolved(w)'
      BY <2>3 DEF Resolved
    <2> QED BY <1>0, <1>2, <2>1, <2>2, <2>4, LossMoves DEF OutboxType
  <1>4. CASE ~(PollOnce(w) \/ BackoffOver(w))
    <2>1. /\ pc' = [pc EXCEPT ![w] = "idle"] /\ lock' = [lock EXCEPT ![w] = {}]
          /\ todo' = [todo EXCEPT ![w] = {}] /\ cur' = [cur EXCEPT ![w] = 0]
          /\ res' = [res EXCEPT ![w] = "none"] /\ new' = [new EXCEPT ![w] = {}]
      BY <1>4 DEF EndpointRejected, StatementFails, Crash, CommitFails, FailBatch
    <2>2. Decided(w)' = {} /\ pc'[w] # "settle"
      BY <1>0, <2>1 DEF Decided, OutboxType
    <2>3. Resolved(w)'
      BY <2>2 DEF Resolved
    <2> QED BY <1>0, <1>2, <2>1, <2>3, LossMoves DEF OutboxType
  <1> QED BY <1>3, <1>4

\* A row of the batch is decided: its event is over or has a note.
LEMMA LossDecides ==
    ASSUME OutboxInv, LossInv, NEW w \in Worker, NEW x \in lock[w],
           UNCHANGED <<rows, lock>>, dlq \subseteq dlq', acked \subseteq acked',
           pc'[w] # "settle", Decided(w)' \subseteq Decided(w) \cup {x}, new[w] \subseteq new'[w],
           (Over(rows[x].ev) \/ \E n \in new[w] : n.ev = rows[x].ev)',
           \A v \in Worker \ {w} :
              /\ todo'[v] = todo[v] /\ pc'[v] = pc[v]
              /\ cur'[v] = cur[v] /\ res'[v] = res[v] /\ new'[v] = new[v]
    PROVE  LossInv'
  <1>0. OutboxType /\ TxnOK(w)
    BY DEF OutboxInv
  <1>1. TableGrows /\ \A e \in Event : Live(e)' = Live(e)
    BY SameTableGrows DEF Live, Id
  <1>2. ASSUME NEW r \in Decided(w)'
        PROVE  (Over(rows[r].ev) \/ \E n \in new[w] : n.ev = rows[r].ev)'
    <2>1. CASE r = x
      BY <2>1
    <2>2. CASE r \in Decided(w)
      <3>1. r \in Id
        BY <2>2, <1>0 DEF Decided, OutboxType
      <3>2. PICK e \in Event : e = rows[r].ev /\ e = rows'[r].ev
        BY <1>0, <3>1, RowAt
      <3>3. Over(e) \/ \E n \in new[w] : n.ev = e
        BY <2>2, <3>2 DEF Resolved, LossInv
      <3>4. Over(e)' \/ \E n \in new'[w] : n.ev = e
        BY <3>3, <1>1, OverStays
      <3> QED BY <3>2, <3>4
    <2> QED BY <2>1, <2>2
  <1>3. Resolved(w)'
    BY <1>2 DEF Resolved
  <1> QED BY <1>1, <1>3, LossMoves

LEMMA LossPoison ==
    ASSUME OutboxInv, LossInv, NEW w \in Worker, DeadLetterPoison(w)
    PROVE  LossInv'
  <1>0. OutboxType /\ TxnOK(w)
    BY DEF OutboxInv
  <1>1. PICK r \in todo[w] : /\ dlq' = dlq \cup {r} /\ todo' = [todo EXCEPT ![w] = @ \ {r}]
                             /\ pc[w] = "row"
                             /\ UNCHANGED <<rows, pc, lock, cur, res, new, acked>>
    BY DEF DeadLetterPoison, Handled, httpVars
  <1>2. r \in lock[w]
    BY <1>0 DEF TxnOK
  <1>3. Decided(w)' \subseteq Decided(w) \cup {r}
    BY <1>0, <1>1 DEF Decided, OutboxType
  <1>4. Over(rows[r].ev)'
    BY <1>1 DEF Over, Queued
  <1> QED BY <1>0, <1>1, <1>2, <1>3, <1>4, LossDecides DEF OutboxType

LEMMA LossDefer ==
    ASSUME OutboxInv, LossInv, NEW w \in Worker, Defer(w)
    PROVE  LossInv'
  <1>0. OutboxType /\ TxnOK(w)
    BY DEF OutboxInv
  <1>1. PICK r \in todo[w] :
           /\ pc[w] = "row"
           /\ new' = [new EXCEPT ![w] = @ \cup {[ev |-> rows[r].ev, attempt |-> rows[r].attempt]}]
           /\ todo' = [todo EXCEPT ![w] = @ \ {r}]
           /\ UNCHANGED <<rows, dlq, pc, lock, cur, res, acked>>
    BY DEF Defer, Handled, Reinsert, httpVars, dbVars
  <1>2. r \in lock[w]
    BY <1>0 DEF TxnOK
  <1>3. Decided(w)' \subseteq Decided(w) \cup {r}
    BY <1>0, <1>1 DEF Decided, OutboxType
  <1>4. new'[w] = new[w] \cup {[ev |-> rows[r].ev, attempt |-> rows[r].attempt]}
    BY <1>0, <1>1 DEF OutboxType
  <1>5. \E n \in new'[w] : n.ev = rows'[r].ev
    BY <1>1, <1>4
  <1> QED BY <1>0, <1>1, <1>2, <1>3, <1>4, <1>5, LossDecides DEF OutboxType

LEMMA LossPost ==
    ASSUME OutboxInv, LossInv, NEW w \in Worker, Post(w)
    PROVE  LossInv'
  <1>0. OutboxType /\ TxnOK(w)
    BY DEF OutboxInv
  <1>1. PICK r \in todo[w], answer \in Outcome :
           /\ pc[w] = "row" /\ pc' = [pc EXCEPT ![w] = "settle"]
           /\ cur' = [cur EXCEPT ![w] = r] /\ res' = [res EXCEPT ![w] = answer]
           /\ acked' = IF answer = "ok" THEN acked \cup {rows[r].ev} ELSE acked
           /\ todo' = [todo EXCEPT ![w] = @ \ {r}]
           /\ UNCHANGED <<rows, dlq, lock, new>>
    BY DEF Post, Handled, dbVars
  <1>2. TableGrows /\ \A e \in Event : Live(e)' = Live(e)
    BY <1>1, SameTableGrows DEF Live, Id
  <1>3. Decided(w)' = Decided(w)
    BY <1>0, <1>1 DEF Decided, OutboxType, TxnOK
  <1>4. ASSUME NEW s \in Decided(w)'
        PROVE  (Over(rows[s].ev) \/ \E n \in new[w] : n.ev = rows[s].ev)'
    <2>1. s \in Id
      BY <1>0, <1>3 DEF Decided, OutboxType
    <2>2. PICK e \in Event : e = rows[s].ev /\ e = rows'[s].ev
      BY <1>0, <1>1, <2>1, RowAt
    <2>3. Over(e) \/ \E n \in new[w] : n.ev = e
      BY <1>3, <2>2 DEF Resolved, LossInv
    <2>4. Over(e)' \/ \E n \in new'[w] : n.ev = e
      BY <2>3, <1>1, <1>2, OverStays
    <2> QED BY <2>2, <2>4
  <1>5. (pc[w] = "settle" /\ res[w] = "ok" => rows[cur[w]].ev \in acked)'
    BY <1>0, <1>1 DEF OutboxType
  <1>6. Resolved(w)'
    BY <1>4, <1>5 DEF Resolved
  <1> QED BY <1>0, <1>1, <1>2, <1>6, LossMoves DEF OutboxType

LEMMA LossSettle ==
    ASSUME Plain, OutboxInv, LossInv, NEW w \in Worker, Settle(w)
    PROVE  LossInv'
  <1>0. OutboxType /\ TxnOK(w) /\ Resolved(w) /\ pc[w] = "settle" /\ res[w] \in Outcome
    BY DEF OutboxInv, LossInv, Settle, TxnOK
  <1>1. PICK r \in lock[w] : r = cur[w] /\ r \in Id
    BY <1>0 DEF TxnOK, OutboxType
  <1> DEFINE n == [ev |-> rows[r].ev, attempt |-> NextAttempt(rows[r].attempt)]
  <1>2. /\ pc' = [pc EXCEPT ![w] = "row"]
        /\ cur' = [cur EXCEPT ![w] = 0] /\ res' = [res EXCEPT ![w] = "none"]
        /\ UNCHANGED <<rows, lock, todo, acked>>
    BY DEF Settle, httpVars
  <1>3. /\ dlq' = IF DeadLettered(res[w]) THEN dlq \cup {r} ELSE dlq
        /\ new' = IF res[w] = "retryable" /\ rows[r].attempt < MaxAttempts
                  THEN [new EXCEPT ![w] = @ \cup {n}] ELSE new
    BY <1>1 DEF Settle, Plain, ShouldRetry
  <1>4. rows[r].attempt \in 1..MaxAttempts
    BY <1>0, <1>1, RowAt
  <1>5. Decided(w)' \subseteq Decided(w) \cup {r}
    BY <1>0, <1>2, <1>1 DEF Decided, OutboxType
  <1>6. (Over(rows[r].ev) \/ \E m \in new[w] : m.ev = rows[r].ev)'
    <2>1. CASE res[w] = "ok"
      BY <2>1, <1>1, <1>0, <1>2 DEF Over, Resolved
    <2>2. CASE DeadLettered(res[w])
      BY <2>2, <1>1, <1>2, <1>3 DEF Over, Queued
    <2>3. CASE res[w] = "retryable" /\ rows[r].attempt < MaxAttempts
      <3>1. new'[w] = new[w] \cup {n}
        BY <2>3, <1>0, <1>3 DEF OutboxType
      <3>2. n.ev = rows'[r].ev
        BY <1>2
      <3>3. \E m \in new'[w] : m.ev = rows'[r].ev
        BY <3>1, <3>2
      <3> QED BY <3>3
    <2>4. CASE res[w] = "retryable" /\ ~(rows[r].attempt < MaxAttempts)
      <3>1. rows[r].attempt = MaxAttempts
        BY <2>4, <1>4, BoundsAssumption
      <3> QED BY <3>1, <1>2, <1>1 DEF Over, Id
    <2>5. res[w] \in {"ok", "retryable", "timeout", "rejected"}
      BY <1>0, SetsAssumption DEF Plain
    <2> QED BY <2>1, <2>2, <2>3, <2>4, <2>5 DEF DeadLettered
  <1>7. dlq \subseteq dlq' /\ new[w] \subseteq new'[w] /\ \A v \in Worker \ {w} : new'[v] = new[v]
    BY <1>0, <1>3 DEF OutboxType
  <1> HIDE DEF n
  <1> QED BY <1>0, <1>2, <1>1, <1>5, <1>6, <1>7, LossDecides DEF OutboxType

\* COMMIT: the batch is decided to the last row, so each of its events is over
\* or starts again as a new row.
LEMMA LossCommit ==
    ASSUME OutboxInv, LossInv, NEW w \in Worker,
           Commit(w) \/ (CommitFails(w) /\ rows' = Committed(w))
    PROVE  LossInv'
  <1>0. OutboxType /\ TxnOK(w) /\ Resolved(w) /\ IsFiniteSet(new[w])
    BY DEF OutboxInv, LossInv, TxnOK
  <1>1. /\ rows' = Committed(w) /\ pc[w] = "row" /\ todo[w] = {}
        /\ pc' = [pc EXCEPT ![w] = "idle"] /\ lock' = [lock EXCEPT ![w] = {}]
        /\ new' = [new EXCEPT ![w] = {}] /\ UNCHANGED <<dlq, acked>>
        /\ \/ UNCHANGED <<todo, cur, res>>
           \/ /\ todo' = [todo EXCEPT ![w] = {}] /\ cur' = [cur EXCEPT ![w] = 0]
              /\ res' = [res EXCEPT ![w] = "none"]
    BY DEF Commit, CommitFails, FailBatch, BatchDone, httpVars
  <1>2. TableGrows
    BY <1>1, CommittedGrows
  <1>3. /\ rows' \in Seq(Row) /\ Id' = 1..Len(rows')
        /\ \A r \in Id : rows'[r].done <=> (rows[r].done \/ r \in lock[w])
        /\ \A i \in 1..Len(rows') : i \notin Id => ~rows'[i].done
        /\ \A n \in new[w] : \E i \in 1..Len(rows') : i \notin Id /\ rows'[i].ev = n.ev
    <2>1. rows' \in Seq(Row)
      BY <1>0, <1>1, CommitRows
    <2>2. Id' = 1..Len(rows')
      BY <2>1 DEF Id
    <2> QED BY <1>0, <1>1, <2>1, <2>2, CommitRows
  <1>4. ASSUME NEW e \in Event, Live(e) # {} PROVE Live(e)' # {} \/ Over(e)'
    <2>1. PICK r \in Id : rows[r].ev = e /\ ~rows[r].done
      BY <1>4 DEF Live
    <2>2. CASE r \notin lock[w]
      <3>1. r \in Id' /\ rows'[r].ev = e /\ ~rows'[r].done
        BY <2>1, <2>2, <1>2, <1>3 DEF TableGrows
      <3> QED BY <3>1 DEF Live
    <2>3. CASE r \in lock[w]
      <3>1. r \in Decided(w)
        BY <2>3, <1>1 DEF Decided
      <3>2. CASE Over(e)
        BY <3>2, <1>2, OverStays
      <3>3. ASSUME NEW n \in new[w], n.ev = e PROVE Live(e)' # {}
        <4>1. PICK i \in Id' : ~rows'[i].done /\ rows'[i].ev = e
          BY <3>3, <1>3
        <4> QED BY <4>1 DEF Live
      <3> QED BY <2>1, <3>1, <3>2, <3>3, <1>0 DEF Resolved
    <2> QED BY <2>2, <2>3
  <1>5. Decided(w)' = {} /\ pc'[w] # "settle"
    BY <1>0, <1>1 DEF Decided, OutboxType
  <1>6. Resolved(w)'
    BY <1>5 DEF Resolved
  <1> QED BY <1>0, <1>1, <1>2, <1>4, <1>6, LossMoves DEF OutboxType

\* Steps that change neither a transaction nor the end of an event.
LEMMA LossRest ==
    ASSUME OutboxInv, LossInv, TableGrows, Id' = Id,
           \A r \in Id : rows'[r].done = rows[r].done,
           UNCHANGED <<pc, txnVars>>
    PROVE  LossInv'
  <1>1. \A e \in Event : Live(e) # {} => Live(e)' # {}
    BY DEF Live, TableGrows
  <1>2. ASSUME NEW w \in Worker PROVE Resolved(w)'
    <2>0. OutboxType /\ TxnOK(w) /\ Resolved(w)
      BY DEF OutboxInv, LossInv
    <2>1. Decided(w)' = Decided(w) /\ Decided(w) \subseteq Id
      BY <2>0 DEF Decided, txnVars, OutboxType
    <2>2. ASSUME NEW r \in Decided(w)
          PROVE  (Over(rows[r].ev) \/ \E n \in new[w] : n.ev = rows[r].ev)'
      <3>1. PICK e \in Event : e = rows[r].ev /\ e = rows'[r].ev
        BY <2>0, <2>1, RowAt DEF TableGrows
      <3>2. Over(e) \/ \E n \in new[w] : n.ev = e
        BY <2>0, <3>1 DEF Resolved
      <3>3. Over(e)' \/ \E n \in new'[w] : n.ev = e
        BY <3>2, OverStays DEF txnVars
      <3> QED BY <3>1, <3>3
    <2>3. (pc[w] = "settle" /\ res[w] = "ok" => rows[cur[w]].ev \in acked)'
      BY <2>0 DEF Resolved, TxnOK, OutboxType, TableGrows, txnVars
    <2> QED BY <2>1, <2>2, <2>3 DEF Resolved
  <1>3. ASSUME NEW e \in Event PROVE Live(e)' # {} \/ Over(e)'
    BY <1>1, OverStays DEF LossInv
  <1> QED BY <1>2, <1>3 DEF LossInv

LEMMA LossStep == Plain /\ OutboxInv /\ LossInv /\ [Next]_vars => LossInv'
  <1> SUFFICES ASSUME Plain, OutboxInv, LossInv, [Next]_vars PROVE LossInv'
    OBVIOUS
  <1>1. CASE RowDue
    <2>1. UNCHANGED <<pc, txnVars>>
      BY <1>1 DEF RowDue
    <2> QED BY <1>1, <2>1, RowDueGrows, LossRest
  <1>2. ASSUME UNCHANGED <<dbVars, pc, txnVars, acked>> PROVE LossInv'
    BY <1>2, SameTableGrows, LossRest DEF dbVars, Id
  <1>3. ASSUME NEW w \in Worker, DeliverRow(w) PROVE LossInv'
    BY <1>3, LossFresh, LossPoison, LossDefer, LossPost, LossSettle DEF DeliverRow
  <1>4. ASSUME NEW w \in Worker, Commit(w) \/ CommitFails(w) PROVE LossInv'
    BY <1>4, LossCommit, LossFresh DEF CommitFails
  <1>5. ASSUME NEW w \in Worker, PollOnce(w) \/ BackoffOver(w) \/ StatementFails(w) \/ Crash(w)
        PROVE  LossInv'
    BY <1>5, LossFresh
  <1>6. ASSUME NEW w \in Worker, Stop(w) \/ Start(w) PROVE LossInv'
    BY <1>6, <1>2 DEF Stop, Start, httpVars
  <1>7. CASE UNCHANGED vars
    BY <1>7, <1>2 DEF vars, httpVars
  <1> QED BY <1>1, <1>3, <1>4, <1>5, <1>6, <1>7 DEF Next

LEMMA LossInit == Init => LossInv
  <1> SUFFICES ASSUME Init PROVE LossInv
    OBVIOUS
  <1> DEFINE k == Cardinality(Event)
             q == SetToSeq(Event)
  <1>1. k \in Nat /\ \A e \in Event : \E i \in 1..k : q[i] = e
    BY SetsAssumption, ListsOnce
  <1>2. rows = [i \in 1..k |-> [ev |-> q[i], attempt |-> 1, due |-> TRUE, done |-> FALSE]]
    BY DEF Init
  <1> HIDE DEF k, q
  <1>3. Id = 1..k /\ \A i \in 1..k : rows[i].ev = q[i] /\ ~rows[i].done
    BY <1>1, <1>2 DEF Id
  <1>4. \A e \in Event : Live(e) # {}
    BY <1>1, <1>3 DEF Live
  <1>5. ASSUME NEW w \in Worker PROVE Resolved(w)
    BY DEF Init, Resolved, Decided
  <1> QED BY <1>4, <1>5 DEF LossInv

----------------------------------------------------------------------------
(* Neither requests nor rows multiply                                      *)

\* At most k requests were sent for e, and one for each fault.
Sent(e, k) == e \in cutShort \/ posts[e] <= k + faults

Untouched(r) == \A w \in Worker : r \notin lock[w] \ todo[w]

\* A live row has not been sent in its own attempt, unless it is being handled.
PostsInv ==
    /\ \A e \in Event : Sent(e, MaxAttempts)
    /\ \A r \in Id : ~rows[r].done => /\ Sent(rows[r].ev, rows[r].attempt)
                                      /\ Untouched(r) => Sent(rows[r].ev, rows[r].attempt - 1)
    /\ \A w \in Worker : \A n \in new[w] : Sent(n.ev, n.attempt - 1)

LEMMA SentStays ==
    ASSUME OutboxType, OutboxType', NEW e \in Event, NEW k \in Int, Sent(e, k),
           posts'[e] = posts[e], cutShort \subseteq cutShort', faults <= faults'
    PROVE  Sent(e, k)'
  BY BoundsAssumption DEF Sent, OutboxType

\* A fault pays for the request that a rollback forgets.
LEMMA FaultPays ==
    ASSUME OutboxType, OutboxType', NEW e \in Event, NEW k \in Int, Sent(e, k),
           posts'[e] = posts[e], cutShort \subseteq cutShort', faults' = faults + 1
    PROVE  Sent(e, k - 1)'
  BY BoundsAssumption DEF Sent, OutboxType

\* Steps that send nothing and leave the rows as they are.
LEMMA PostsRest ==
    ASSUME OutboxInv, OutboxInv', PostsInv, TableGrows, Id' = Id,
           \A r \in Id : rows'[r].done = rows[r].done,
           UNCHANGED posts, cutShort \subseteq cutShort', faults <= faults',
           \A r \in Id : ~rows[r].done /\ Untouched(r)' =>
                            Untouched(r) \/ Sent(rows[r].ev, rows[r].attempt - 1)',
           \A w \in Worker : \A n \in new'[w] : n \in new[w] \/ Sent(n.ev, n.attempt - 1)'
    PROVE  PostsInv'
  <1>0. OutboxType /\ OutboxType' /\ MaxAttempts \in Int
    BY BoundsAssumption DEF OutboxInv
  <1>1. ASSUME NEW e \in Event PROVE Sent(e, MaxAttempts)'
    BY <1>0, SentStays DEF PostsInv
  <1>2. ASSUME NEW r \in Id', ~rows'[r].done
        PROVE  /\ Sent(rows[r].ev, rows[r].attempt)'
               /\ Untouched(r)' => Sent(rows[r].ev, rows[r].attempt - 1)'
    <2>1. r \in Id /\ ~rows[r].done
      BY <1>2
    <2>2. PICK e \in Event, k \in Int : /\ e = rows[r].ev /\ e = rows'[r].ev
                                        /\ k = rows[r].attempt /\ k = rows'[r].attempt
      BY <2>1, <1>0, RowAt DEF TableGrows
    <2>3. Sent(e, k) /\ (Untouched(r) => Sent(e, k - 1))
      BY <2>1, <2>2 DEF PostsInv
    <2>4. Sent(e, k)'
      BY <2>3, <1>0, SentStays
    <2>5. ASSUME Untouched(r)' PROVE Sent(e, k - 1)'
      <3>1. CASE Untouched(r)
        BY <3>1, <2>3, <1>0, SentStays
      <3>2. CASE Sent(rows[r].ev, rows[r].attempt - 1)'
        BY <3>2, <2>2 DEF Sent
      <3> QED BY <3>1, <3>2, <2>1, <2>5
    <2> QED BY <2>2, <2>4, <2>5 DEF Sent
  <1>3. ASSUME NEW w \in Worker, NEW n \in new'[w] PROVE Sent(n.ev, n.attempt - 1)'
    <2>1. CASE n \in new[w]
      <3>1. n.ev \in Event /\ n.attempt - 1 \in Int
        BY <2>1, <1>0 DEF OutboxType, Note
      <3>2. Sent(n.ev, n.attempt - 1)
        BY <2>1 DEF PostsInv
      <3> QED BY <3>1, <3>2, <1>0, SentStays
    <2> QED BY <2>1
  <1> QED BY <1>1, <1>2, <1>3 DEF PostsInv

LEMMA PostsClaim ==
    ASSUME OutboxInv, OutboxInv', PostsInv, NEW w \in Worker, PollOnce(w) \/ BackoffOver(w)
    PROVE  PostsInv'
  <1>0. OutboxType /\ OutboxType' /\ lock[w] = {}
    BY DEF OutboxInv, TxnOK, PollOnce, BackoffOver
  <1>1. UNCHANGED <<rows, dlq, acked, posts, cutShort, new, faults>>
    BY DEF PollOnce, BackoffOver, dbVars, httpVars
  <1>2. \/ UNCHANGED <<lock, todo>>
        \/ \E S : lock' = [lock EXCEPT ![w] = S] /\ todo' = [todo EXCEPT ![w] = S]
    BY DEF PollOnce, BackoffOver, ClaimBatch
  <1>3. ASSUME NEW v \in Worker PROVE lock'[v] \ todo'[v] = lock[v] \ todo[v]
    <2>1. CASE UNCHANGED <<lock, todo>>
      BY <2>1
    <2>2. ASSUME NEW S, lock' = [lock EXCEPT ![w] = S], todo' = [todo EXCEPT ![w] = S]
          PROVE  lock'[v] \ todo'[v] = lock[v] \ todo[v]
      <3>1. CASE v = w
        <4>1. lock'[w] = S /\ todo'[w] = S
          BY <2>2, <1>0 DEF OutboxType
        <4> QED BY <3>1, <4>1, <1>0
      <3>2. CASE v # w
        BY <3>2, <2>2, <1>0 DEF OutboxType
      <3> QED BY <3>1, <3>2
    <2> QED BY <2>1, <2>2, <1>2
  <1>4. \A r \in Id : Untouched(r)' = Untouched(r)
    BY <1>3 DEF Untouched
  <1>5. TableGrows /\ Id' = Id /\ \A r \in Id : rows'[r].done = rows[r].done
    BY <1>1, SameTableGrows DEF Id
  <1>6. faults <= faults'
    BY <1>0, <1>1, BoundsAssumption DEF OutboxType
  <1> QED BY <1>1, <1>4, <1>5, <1>6, PostsRest

LEMMA PostsRollback ==
    ASSUME OutboxInv, OutboxInv', PostsInv, NEW w \in Worker,
           EndpointRejected(w) \/ StatementFails(w) \/ Crash(w) \/ (CommitFails(w) /\ UNCHANGED rows)
    PROVE  PostsInv'
  <1>0. OutboxType /\ OutboxType'
    BY DEF OutboxInv
  <1>1. /\ lock' = [lock EXCEPT ![w] = {}] /\ todo' = [todo EXCEPT ![w] = {}]
        /\ new' = [new EXCEPT ![w] = {}] /\ UNCHANGED <<rows, dlq, acked, posts>>
        /\ \/ /\ faults' = faults
              /\ cutShort' = cutShort \cup {rows[r].ev : r \in lock[w] \ todo[w]}
           \/ faults' = faults + 1 /\ cutShort' = cutShort
    BY DEF EndpointRejected, StatementFails, Crash, CommitFails, FailBatch, dbVars, httpVars
  <1>2. TableGrows /\ Id' = Id /\ \A r \in Id : rows'[r].done = rows[r].done
    BY <1>1, SameTableGrows DEF Id
  <1>3. cutShort \subseteq cutShort' /\ faults <= faults'
    BY <1>0, <1>1, BoundsAssumption DEF OutboxType
  <1>4. ASSUME NEW r \in Id, ~rows[r].done, Untouched(r)'
        PROVE  Untouched(r) \/ Sent(rows[r].ev, rows[r].attempt - 1)'
    <2> SUFFICES ASSUME ~Untouched(r) PROVE Sent(rows[r].ev, rows[r].attempt - 1)'
      OBVIOUS
    <2>1. r \in lock[w] \ todo[w]
      BY <1>0, <1>1, <1>4 DEF Untouched, OutboxType
    <2>2. PICK e \in Event, k \in Int : e = rows[r].ev /\ k = rows[r].attempt
      BY <1>0, RowAt
    <2>3. Sent(e, k - 1)'
      <3>1. CASE e \in cutShort'
        BY <3>1 DEF Sent
      <3>2. CASE faults' = faults + 1
        <4>1. Sent(e, k)
          BY <1>4, <2>2 DEF PostsInv
        <4> QED BY <4>1, <3>2, <1>0, <1>1, <1>3, FaultPays
      <3> QED BY <3>1, <3>2, <1>1, <2>1, <2>2
    <2> QED BY <2>2, <2>3, <1>1
  <1>5. ASSUME NEW v \in Worker, NEW n \in new'[v] PROVE n \in new[v]
    BY <1>0, <1>1, <1>5 DEF OutboxType
  <1> QED BY <1>1, <1>2, <1>3, <1>4, <1>5, PostsRest

LEMMA PostsDecides ==
    ASSUME OutboxInv, OutboxInv', PostsInv, NEW w \in Worker,
           DeadLetterPoison(w) \/ Defer(w) \/ Settle(w)
    PROVE  PostsInv'
  <1>0. OutboxType /\ OutboxType' /\ TxnOK(w)
    BY DEF OutboxInv
  <1>1. /\ UNCHANGED <<rows, lock, acked, posts, cutShort, faults>> /\ dlq \subseteq dlq'
        /\ \A v \in Worker : todo'[v] \subseteq todo[v]
    <2>1. CASE DeadLetterPoison(w)
      BY <2>1, <1>0 DEF DeadLetterPoison, Handled, httpVars, OutboxType
    <2>2. CASE Defer(w)
      BY <2>2, <1>0 DEF Defer, Handled, httpVars, dbVars, OutboxType
    <2>3. CASE Settle(w)
      BY <2>3, <1>0 DEF Settle, httpVars, OutboxType
    <2> QED BY <2>1, <2>2, <2>3
  <1>2. TableGrows /\ Id' = Id /\ \A r \in Id : rows'[r].done = rows[r].done
    BY <1>1, SameTableGrows DEF Id
  <1>3. cutShort \subseteq cutShort' /\ faults <= faults'
    BY <1>0, <1>1, BoundsAssumption DEF OutboxType
  <1>4. \A r \in Id : Untouched(r)' => Untouched(r)
    BY <1>1 DEF Untouched
  <1>5. ASSUME NEW v \in Worker, NEW n \in new'[v], n \notin new[v]
        PROVE  Sent(n.ev, n.attempt - 1)'
    <2>1. CASE DeadLetterPoison(w)
      BY <2>1, <1>5 DEF DeadLetterPoison
    <2>2. CASE Defer(w)
      <3>1. PICK r \in todo[w] :
              new' = [new EXCEPT ![w] = @ \cup {[ev |-> rows[r].ev, attempt |-> rows[r].attempt]}]
        BY <2>2 DEF Defer, Reinsert
      <3>2. n = [ev |-> rows[r].ev, attempt |-> rows[r].attempt]
        BY <3>1, <1>5, <1>0 DEF OutboxType
      <3>3. r \in lock[w] /\ r \in Id /\ ~rows[r].done
        BY <1>0 DEF TxnOK, OutboxType
      <3>4. Untouched(r)
        BY <3>3, <1>0 DEF Untouched, OutboxInv, LocksApart
      <3>5. Sent(rows[r].ev, rows[r].attempt - 1)
        BY <3>3, <3>4 DEF PostsInv
      <3> QED BY <3>2, <3>5, <1>1 DEF Sent
    <2>3. CASE Settle(w)
      <3>0. cur[w] \in lock[w] /\ cur[w] \in Id /\ ~rows[cur[w]].done
        BY <2>3, <1>0 DEF TxnOK, OutboxType, Settle
      <3>1. new' \in {new, [new EXCEPT ![w] = @ \cup
                {[ev |-> rows[cur[w]].ev, attempt |-> NextAttempt(rows[cur[w]].attempt)]}]}
        BY <2>3 DEF Settle
      <3>2. n = [ev |-> rows[cur[w]].ev, attempt |-> NextAttempt(rows[cur[w]].attempt)]
        <4> DEFINE m == [ev |-> rows[cur[w]].ev, attempt |-> NextAttempt(rows[cur[w]].attempt)]
        <4>1. new' \in {new, [new EXCEPT ![w] = @ \cup {m}]}
          BY <3>1
        <4> HIDE DEF m
        <4>2. new' = [new EXCEPT ![w] = new[w] \cup {m}]
          BY <4>1, <1>5
        <4>3. v = w /\ n = m
          BY <4>2, <1>5, <1>0 DEF OutboxType
        <4> QED BY <4>3 DEF m
      <3>3. Sent(rows[cur[w]].ev, rows[cur[w]].attempt)
        BY <3>0 DEF PostsInv
      <3>4. rows[cur[w]].attempt \in Int
        BY <3>0, <1>0, RowAt
      <3>5. n.ev = rows[cur[w]].ev /\ n.attempt - 1 = rows[cur[w]].attempt
        BY <3>2, <3>4 DEF NextAttempt
      <3> QED BY <3>3, <3>5, <1>1 DEF Sent
    <2> QED BY <2>1, <2>2, <2>3
  <1> QED BY <1>1, <1>2, <1>3, <1>4, <1>5, PostsRest

\* A request for a row that nobody has handled: its event is in no other hands.
LEMMA PostsPost ==
    ASSUME OutboxInv, OutboxInv', PostsInv, NEW w \in Worker, Post(w)
    PROVE  PostsInv'
  <1>0. OutboxType /\ OutboxType' /\ TxnOK(w) /\ LiveUnique /\ LocksApart
    BY DEF OutboxInv
  <1>1. PICK r \in todo[w] :
           /\ posts' = [posts EXCEPT ![rows[r].ev] = Min({@ + 1, MaxPosts})]
           /\ todo' = [todo EXCEPT ![w] = @ \ {r}]
           /\ UNCHANGED <<rows, lock, new, cutShort, faults>>
    BY DEF Post, Handled, dbVars
  <1>2. r \in lock[w] /\ r \in Id /\ ~rows[r].done /\ r \notin Decided(w)
    BY <1>0 DEF TxnOK, OutboxType, Decided
  <1>3. PICK e \in Event, k \in 1..MaxAttempts : e = rows[r].ev /\ k = rows[r].attempt
    BY <1>0, <1>2, RowAt
  <1>4. Untouched(r)
    BY <1>2, <1>0 DEF Untouched, LocksApart
  <1>5. Sent(e, k - 1)
    BY <1>2, <1>3, <1>4 DEF PostsInv
  <1>6. /\ posts'[e] <= posts[e] + 1 /\ posts'[e] \in Nat /\ posts[e] \in Nat
        /\ \A f \in Event \ {e} : posts'[f] = posts[f]
    <2>1. posts[e] \in Nat /\ MaxPosts \in Nat
      BY <1>0, BoundsAssumption DEF OutboxType
    <2>2. posts'[e] = Min({posts[e] + 1, MaxPosts}) /\ \A f \in Event \ {e} : posts'[f] = posts[f]
      BY <1>0, <1>1, <1>3 DEF OutboxType
    <2> QED BY <2>1, <2>2, MinOfTwo
  <1>7. Sent(e, k)'
    BY <1>0, <1>1, <1>5, <1>6, BoundsAssumption DEF Sent, OutboxType
  <1>8. ASSUME NEW f \in Event, f # e, NEW j PROVE Sent(f, j)' <=> Sent(f, j)
    BY <1>1, <1>6, <1>8 DEF Sent
  <1>9. ASSUME NEW f \in Event PROVE Sent(f, MaxAttempts)'
    <2>1. CASE f = e
      BY <2>1, <1>7, <1>0, <1>6, BoundsAssumption DEF Sent, OutboxType
    <2>2. CASE f # e
      BY <2>2, <1>8 DEF PostsInv
    <2> QED BY <2>1, <2>2
  <1>10. ASSUME NEW s \in Id, ~rows[s].done
         PROVE  /\ Sent(rows[s].ev, rows[s].attempt)'
                /\ Untouched(s)' => Sent(rows[s].ev, rows[s].attempt - 1)'
    <2>1. CASE s = r
      <3>1. ~Untouched(s)'
        BY <2>1, <1>0, <1>1, <1>2 DEF Untouched, OutboxType
      <3>2. Sent(rows[s].ev, rows[s].attempt)'
        BY <2>1, <1>1, <1>3, <1>7
      <3> QED BY <3>1, <3>2
    <2>2. CASE s # r
      <3>1. PICK f \in Event, j \in Int : f = rows[s].ev /\ j = rows[s].attempt
        BY <1>0, <1>10, RowAt
      <3>2. f # e
        BY <2>2, <3>1, <1>0, <1>2, <1>3, <1>10 DEF LiveUnique
      <3>3. Sent(f, j) /\ (Untouched(s) => Sent(f, j - 1))
        BY <3>1, <1>10 DEF PostsInv
      <3>4. Untouched(s)' => Untouched(s)
        BY <2>2, <1>0, <1>1 DEF Untouched, OutboxType
      <3>5. Sent(f, j)' /\ (Untouched(s)' => Sent(f, j - 1)')
        BY <3>2, <3>3, <3>4, <1>8
      <3> QED BY <3>1, <3>5, <1>1
    <2> QED BY <2>1, <2>2
  <1>11. ASSUME NEW v \in Worker, NEW n \in new[v] PROVE Sent(n.ev, n.attempt - 1)'
    <2>0. TxnOK(v) /\ n.ev \in Event
      BY <1>0 DEF OutboxInv, OutboxType, Note
    <2>1. PICK d \in Decided(v) : rows[d].ev = n.ev
      BY <2>0 DEF TxnOK
    <2>2. d \in lock[v] /\ d \in Id /\ ~rows[d].done
      BY <2>0, <1>0 DEF TxnOK, OutboxType, Decided
    <2>3. n.ev # e
      BY <2>1, <2>2, <1>0, <1>2, <1>3 DEF LiveUnique, LocksApart
    <2> QED BY <2>0, <2>3, <1>8 DEF PostsInv
  <1> QED BY <1>1, <1>9, <1>10, <1>11 DEF PostsInv, Id

LEMMA PostsCommit ==
    ASSUME OutboxInv, OutboxInv', PostsInv, NEW w \in Worker,
           Commit(w) \/ (CommitFails(w) /\ rows' = Committed(w))
    PROVE  PostsInv'
  <1>0. OutboxType /\ OutboxType' /\ IsFiniteSet(new[w])
    BY DEF OutboxInv, TxnOK
  <1>1. /\ rows' = Committed(w) /\ todo[w] = {} /\ todo'[w] = {}
        /\ lock' = [lock EXCEPT ![w] = {}] /\ new' = [new EXCEPT ![w] = {}]
        /\ UNCHANGED <<posts, cutShort>> /\ faults' \in {faults, faults + 1}
        /\ \A v \in Worker \ {w} : todo'[v] = todo[v]
    BY <1>0 DEF Commit, CommitFails, FailBatch, BatchDone, httpVars, OutboxType
  <1>2. cutShort \subseteq cutShort' /\ faults <= faults' /\ MaxAttempts \in Int
    BY <1>0, <1>1, BoundsAssumption DEF OutboxType
  <1>3. /\ rows' \in Seq(Row) /\ Id' = 1..Len(rows')
        /\ \A r \in Id : /\ rows'[r].ev = rows[r].ev /\ rows'[r].attempt = rows[r].attempt
                         /\ rows'[r].done <=> (rows[r].done \/ r \in lock[w])
        /\ \A i \in 1..Len(rows') : i \notin Id =>
              \E n \in new[w] : rows'[i].ev = n.ev /\ rows'[i].attempt = n.attempt
    <2>1. rows' \in Seq(Row)
      BY <1>0, <1>1, CommitRows
    <2>2. Id' = 1..Len(rows')
      BY <2>1 DEF Id
    <2> QED BY <1>0, <1>1, <2>1, <2>2, CommitRows
  <1>4. ASSUME NEW e \in Event PROVE Sent(e, MaxAttempts)'
    BY <1>0, <1>1, <1>2, SentStays DEF PostsInv
  <1>5. ASSUME NEW r \in Id', ~rows'[r].done
        PROVE  /\ Sent(rows[r].ev, rows[r].attempt)'
               /\ Untouched(r)' => Sent(rows[r].ev, rows[r].attempt - 1)'
    <2>0. rows'[r] \in Row
      BY <1>3, <1>5
    <2>1. PICK e \in Event, k \in Int : e = rows'[r].ev /\ k = rows'[r].attempt
      BY <2>0 DEF Row
    <2>2. CASE r \in Id
      <3>1. ~rows[r].done /\ r \notin lock[w]
        BY <2>2, <1>3, <1>5
      <3>2. Sent(e, k) /\ (Untouched(r) => Sent(e, k - 1))
        BY <2>1, <2>2, <3>1, <1>3 DEF PostsInv
      <3>3. Untouched(r)' => Untouched(r)
        BY <3>1, <1>0, <1>1 DEF Untouched, OutboxType
      <3>4. Sent(e, k)' /\ (Untouched(r)' => Sent(e, k - 1)')
        BY <3>2, <3>3, <1>0, <1>1, <1>2, SentStays
      <3> QED BY <2>1, <3>4 DEF Sent
    <2>3. CASE r \notin Id
      <3>1. PICK n \in new[w] : e = n.ev /\ k = n.attempt
        BY <2>1, <2>3, <1>3, <1>5
      <3>2. Sent(e, k - 1)
        BY <3>1 DEF PostsInv
      <3>3. Sent(e, k - 1)'
        BY <3>2, <1>0, <1>1, <1>2, SentStays
      <3>4. Sent(e, k)'
        BY <3>3, <1>0, BoundsAssumption DEF Sent, OutboxType
      <3> QED BY <2>1, <3>3, <3>4 DEF Sent
    <2> QED BY <2>2, <2>3
  <1>6. ASSUME NEW v \in Worker, NEW n \in new'[v] PROVE Sent(n.ev, n.attempt - 1)'
    <2>1. n \in new[v]
      BY <1>0, <1>1, <1>6 DEF OutboxType
    <2>2. n.ev \in Event /\ n.attempt - 1 \in Int
      BY <2>1, <1>0, SMTT(40) DEF OutboxType, Note
    <2>3. Sent(n.ev, n.attempt - 1)
      BY <2>1 DEF PostsInv
    <2> QED BY <2>2, <2>3, <1>0, <1>1, <1>2, SentStays
  <1> QED BY <1>4, <1>5, <1>6 DEF PostsInv

LEMMA PostsStep == OutboxInv /\ PostsInv /\ [Next]_vars => PostsInv'
  <1> SUFFICES ASSUME OutboxInv, PostsInv, [Next]_vars PROVE PostsInv'
    OBVIOUS
  <1>0. OutboxInv' /\ OutboxType /\ OutboxType'
    BY OutboxStep DEF OutboxInv
  <1>1. ASSUME UNCHANGED <<txnVars, httpVars>>, TableGrows, Id' = Id,
               \A r \in Id : rows'[r].done = rows[r].done,
               faults' \in {faults, faults + 1}
        PROVE  PostsInv'
    <2>1. \A r \in Id : Untouched(r)' = Untouched(r)
      BY <1>1 DEF Untouched, txnVars
    <2>2. faults <= faults' /\ UNCHANGED <<posts, cutShort, new>>
      BY <1>0, <1>1, BoundsAssumption DEF httpVars, txnVars, OutboxType
    <2> QED BY <1>0, <1>1, <2>1, <2>2, PostsRest
  <1>2. CASE RowDue
    <2>1. UNCHANGED <<txnVars, httpVars, faults>>
      BY <1>2 DEF RowDue
    <2> QED BY <1>1, <1>2, <2>1, RowDueGrows
  <1>3. ASSUME NEW w \in Worker, DeliverRow(w) PROVE PostsInv'
    BY <1>0, <1>3, PostsRollback, PostsDecides, PostsPost DEF DeliverRow
  <1>4. ASSUME NEW w \in Worker, Commit(w) \/ CommitFails(w) PROVE PostsInv'
    BY <1>0, <1>4, PostsCommit, PostsRollback DEF CommitFails
  <1>5. ASSUME NEW w \in Worker, PollOnce(w) \/ BackoffOver(w) \/ StatementFails(w) \/ Crash(w)
        PROVE  PostsInv'
    BY <1>0, <1>5, PostsClaim, PostsRollback
  <1>6. ASSUME UNCHANGED <<dbVars, txnVars, httpVars>>, faults' \in {faults, faults + 1} PROVE PostsInv'
    BY <1>1, <1>6, SameTableGrows DEF dbVars, httpVars, Id
  <1>7. ASSUME NEW w \in Worker, Stop(w) \/ Start(w) PROVE PostsInv'
    BY <1>6, <1>7 DEF Stop, Start
  <1>8. CASE UNCHANGED vars
    BY <1>6, <1>8 DEF vars
  <1> QED BY <1>2, <1>3, <1>4, <1>5, <1>7, <1>8 DEF Next

LEMMA PostsInit == Init => PostsInv
  <1> SUFFICES ASSUME Init PROVE PostsInv
    OBVIOUS
  <1>1. OutboxType
    BY OutboxInit DEF OutboxInv
  <1>2. faults = 0 /\ \A e \in Event : posts[e] = 0
    BY DEF Init
  <1>3. ASSUME NEW r \in Id PROVE rows[r].ev \in Event /\ rows[r].attempt \in Nat /\ rows[r].attempt >= 1
    BY <1>1, RowAt
  <1>4. \A w \in Worker : new[w] = {}
    BY DEF Init
  <1> QED BY <1>2, <1>3, <1>4, BoundsAssumption DEF PostsInv, Sent

\* Row r repeats an earlier one, as the row of a deferral does; or a deferral has
\* noted that it will be repeated.
Repeats(r) == \E s \in Id : s < r /\ rows[s].ev = rows[r].ev /\ rows[s].attempt = rows[r].attempt
PutBack(r) == \E w \in Worker : /\ r \in lock[w]
                                /\ \E n \in new[w] : n.ev = rows[r].ev /\ n.attempt = rows[r].attempt
Extra == {p \in Id \X {"row", "note"} : IF p[2] = "row" THEN Repeats(p[1]) ELSE PutBack(p[1])}

NotesFollow(w) ==
    \A n \in new[w] : \E r \in lock[w] : rows[r].ev = n.ev /\ n.attempt \in {rows[r].attempt, rows[r].attempt + 1}

LiveIsLatest ==
    \A r, s \in Id : ~rows[r].done /\ rows[s].ev = rows[r].ev => rows[s].attempt <= rows[r].attempt

RowsInv == (\A w \in Worker : NotesFollow(w)) /\ LiveIsLatest /\ Cardinality(Extra) <= defers

LEMMA ExtraFinite ==
    ASSUME OutboxType
    PROVE  IsFiniteSet(Extra) /\ Cardinality(Extra) \in Nat
  <1>1. Id = 1..Len(rows) /\ Len(rows) \in Nat
    BY DEF OutboxType, Id
  <1>2. IsFiniteSet(Id)
    BY <1>1, FS_Interval
  <1>3. IsFiniteSet({"row", "note"})
    <2>1. IsFiniteSet({"row"})
      BY FS_Singleton
    <2>2. IsFiniteSet({"row"} \cup {"note"})
      BY <2>1, FS_AddElement
    <2>3. {"row"} \cup {"note"} = {"row", "note"}
      OBVIOUS
    <2> QED BY <2>2, <2>3
  <1>4. IsFiniteSet(Id \X {"row", "note"})
    BY <1>2, <1>3, FS_Product
  <1>5. Extra \subseteq Id \X {"row", "note"}
    BY DEF Extra
  <1> QED BY <1>4, <1>5, FS_Subset, FS_CardinalityType

\* Steps that insert and note nothing.
LEMMA RowsRest ==
    ASSUME OutboxInv, OutboxInv', RowsInv, TableGrows, Id' = Id,
           \A r \in Id : rows'[r].done = rows[r].done, UNCHANGED defers,
           \A w \in Worker : new'[w] = {} \/ (new'[w] = new[w] /\ lock'[w] = lock[w])
    PROVE  RowsInv'
  <1>0. OutboxType /\ OutboxType'
    BY DEF OutboxInv
  <1>1. ASSUME NEW w \in Worker PROVE NotesFollow(w)'
    <2>1. \A r \in lock[w] : r \in Id
      BY <1>0 DEF OutboxType
    <2>2. NotesFollow(w)
      BY DEF RowsInv
    <2> QED BY <2>1, <2>2 DEF NotesFollow, TableGrows
  <1>2. LiveIsLatest'
    BY DEF RowsInv, LiveIsLatest, TableGrows
  <1>3. Extra' \subseteq Extra
    <2>1. ASSUME NEW r \in Id, Repeats(r)' PROVE Repeats(r)
      BY <2>1 DEF Repeats, TableGrows
    <2>2. ASSUME NEW r \in Id, PutBack(r)' PROVE PutBack(r)
      BY <2>2 DEF PutBack, TableGrows
    <2> QED BY <2>1, <2>2 DEF Extra
  <1>4. Cardinality(Extra') <= Cardinality(Extra) /\ Cardinality(Extra) \in Nat /\ Cardinality(Extra') \in Nat
    BY <1>0, <1>3, ExtraFinite, FS_Subset, FS_CardinalityType
  <1>5. Cardinality(Extra') <= defers'
    BY <1>0, <1>4 DEF RowsInv, OutboxType
  <1> QED BY <1>1, <1>2, <1>5 DEF RowsInv

LEMMA RowsDefer ==
    ASSUME OutboxInv, OutboxInv', RowsInv, NEW w \in Worker, Defer(w)
    PROVE  RowsInv'
  <1>0. OutboxType /\ OutboxType' /\ TxnOK(w)
    BY DEF OutboxInv
  <1>1. PICK r \in todo[w] :
           /\ defers' = defers + 1 /\ UNCHANGED <<rows, lock>>
           /\ new' = [new EXCEPT ![w] = @ \cup {[ev |-> rows[r].ev, attempt |-> rows[r].attempt]}]
    BY DEF Defer, Reinsert, dbVars
  <1> DEFINE n == [ev |-> rows[r].ev, attempt |-> rows[r].attempt]
  <1>2. r \in lock[w] /\ r \in Id /\ ~rows[r].done
    BY <1>0 DEF TxnOK, OutboxType
  <1>3. new'[w] = new[w] \cup {n} /\ n.ev = rows[r].ev /\ n.attempt = rows[r].attempt
    BY <1>0, <1>1 DEF OutboxType
  <1>4. \A v \in Worker \ {w} : new'[v] = new[v]
    BY <1>0, <1>1 DEF OutboxType
  <1> HIDE DEF n
  <1>5. ASSUME NEW v \in Worker PROVE NotesFollow(v)'
    BY <1>1, <1>2, <1>3, <1>4 DEF RowsInv, NotesFollow
  <1>6. LiveIsLatest'
    BY <1>1 DEF RowsInv, LiveIsLatest, Id
  <1>7. Extra' \subseteq Extra \cup {<<r, "note">>}
    <2>1. \A s \in Id : Repeats(s)' <=> Repeats(s)
      BY <1>1 DEF Repeats, Id
    <2>2. ASSUME NEW s \in Id, PutBack(s)', s # r PROVE PutBack(s)
      <3>0. PICK v \in Worker : /\ s \in lock[v]
                                /\ \E m \in new'[v] : m.ev = rows[s].ev /\ m.attempt = rows[s].attempt
        BY <2>2, <1>1 DEF PutBack
      <3>1. PICK m \in new'[v] : s \in lock[v] /\ m.ev = rows[s].ev /\ m.attempt = rows[s].attempt
        BY <3>0
      <3>2. CASE m \in new[v]
        BY <3>1, <3>2 DEF PutBack
      <3>3. CASE m \notin new[v]
        <4>1. rows[s].ev = rows[r].ev
          BY <3>1, <3>3, <1>3, <1>4
        <4>2. ~rows[s].done
          BY <3>1 DEF OutboxInv, TxnOK
        <4> QED BY <4>1, <4>2, <1>2, <2>2 DEF OutboxInv, LiveUnique
      <3> QED BY <3>2, <3>3
    <2>3. Id' = Id
      BY <1>1 DEF Id
    <2> QED BY <2>1, <2>2, <2>3 DEF Extra
  <1>8. Cardinality(Extra') <= Cardinality(Extra) + 1 /\ Cardinality(Extra') \in Nat
    <2>1. IsFiniteSet(Extra \cup {<<r, "note">>})
          /\ Cardinality(Extra \cup {<<r, "note">>}) \in {Cardinality(Extra), Cardinality(Extra) + 1}
      BY <1>0, ExtraFinite, FS_AddElement
    <2>2. Cardinality(Extra') <= Cardinality(Extra \cup {<<r, "note">>}) /\ Cardinality(Extra') \in Nat
      BY <1>7, <2>1, FS_Subset, FS_CardinalityType
    <2> QED BY <2>1, <2>2, <1>0, ExtraFinite
  <1>9. Cardinality(Extra') <= defers'
    <2>1. Cardinality(Extra) \in Nat /\ defers \in Nat
      BY <1>0, ExtraFinite, BoundsAssumption DEF OutboxType
    <2> QED BY <2>1, <1>1, <1>8 DEF RowsInv
  <1> QED BY <1>5, <1>6, <1>9 DEF RowsInv

LEMMA RowsSettle ==
    ASSUME OutboxInv, OutboxInv', RowsInv, NEW w \in Worker, Settle(w)
    PROVE  RowsInv'
  <1>0. OutboxType /\ OutboxType' /\ TxnOK(w)
    BY DEF OutboxInv
  <1> DEFINE r == cur[w]
             n == [ev |-> rows[r].ev, attempt |-> NextAttempt(rows[r].attempt)]
  <1>1. UNCHANGED <<rows, lock, defers>>
    BY DEF Settle
  <1>2. r \in lock[w] /\ r \in Id /\ ~rows[r].done
    BY <1>0 DEF TxnOK, OutboxType, Settle
  <1>3. rows[r].attempt \in Nat
    BY <1>0, <1>2, RowAt
  <1>4. n.ev = rows[r].ev /\ n.attempt = rows[r].attempt + 1
    BY DEF NextAttempt
  <1>5. new' \in {new, [new EXCEPT ![w] = @ \cup {n}]}
    BY DEF Settle
  <1> HIDE DEF n, r
  <1>6. (\A v \in Worker \ {w} : new'[v] = new[v]) /\ new'[w] \subseteq new[w] \cup {n}
    BY <1>0, <1>5 DEF OutboxType
  <1>7. ASSUME NEW v \in Worker PROVE NotesFollow(v)'
    BY <1>1, <1>2, <1>4, <1>6 DEF RowsInv, NotesFollow
  <1>8. LiveIsLatest'
    BY <1>1 DEF RowsInv, LiveIsLatest, Id
  <1>9. Extra' \subseteq Extra
    <2>1. \A s \in Id : Repeats(s)' <=> Repeats(s)
      BY <1>1 DEF Repeats, Id
    <2>2. ASSUME NEW s \in Id, PutBack(s)' PROVE PutBack(s)
      <3>0. PICK v \in Worker : /\ s \in lock[v]
                                /\ \E m \in new'[v] : m.ev = rows[s].ev /\ m.attempt = rows[s].attempt
        BY <2>2, <1>1 DEF PutBack
      <3>1. PICK m \in new'[v] : s \in lock[v] /\ m.ev = rows[s].ev /\ m.attempt = rows[s].attempt
        BY <3>0
      <3>2. CASE m \in new[v]
        BY <3>1, <3>2 DEF PutBack
      <3>3. CASE m \notin new[v]
        <4>1. rows[s].ev = rows[r].ev /\ rows[s].attempt = rows[r].attempt + 1
          BY <3>1, <3>3, <1>4, <1>6
        <4>2. ~rows[s].done
          BY <3>1 DEF OutboxInv, TxnOK
        <4>3. s = r
          BY <4>1, <4>2, <1>2 DEF OutboxInv, LiveUnique
        <4> QED BY <4>1, <4>3, <1>3
      <3> QED BY <3>2, <3>3
    <2>3. Id' = Id
      BY <1>1 DEF Id
    <2> QED BY <2>1, <2>2, <2>3 DEF Extra
  <1>10. Cardinality(Extra') <= Cardinality(Extra) /\ Cardinality(Extra') \in Nat /\ Cardinality(Extra) \in Nat
    BY <1>0, <1>9, ExtraFinite, FS_Subset, FS_CardinalityType
  <1>11. Cardinality(Extra') <= defers'
    BY <1>0, <1>1, <1>10 DEF RowsInv, OutboxType
  <1> QED BY <1>7, <1>8, <1>11 DEF RowsInv

\* COMMIT turns the note of a deferral into a row: what was counted as a note is
\* now counted as a row.
LEMMA RowsCommit ==
    ASSUME OutboxInv, OutboxInv', RowsInv, NEW w \in Worker,
           Commit(w) \/ (CommitFails(w) /\ rows' = Committed(w))
    PROVE  RowsInv'
  <1>0. /\ OutboxType /\ OutboxType' /\ TxnOK(w) /\ IsFiniteSet(new[w])
        /\ LiveUnique /\ LocksApart /\ LiveIsLatest /\ NotesFollow(w)
    BY DEF OutboxInv, TxnOK, RowsInv
  <1>1. /\ rows' = Committed(w) /\ UNCHANGED defers
        /\ lock' = [lock EXCEPT ![w] = {}] /\ new' = [new EXCEPT ![w] = {}]
    BY DEF Commit, CommitFails, FailBatch
  <1>2. /\ lock'[w] = {} /\ new'[w] = {}
        /\ \A v \in Worker \ {w} : lock'[v] = lock[v] /\ new'[v] = new[v] /\ lock[v] \subseteq Id
    BY <1>0, <1>1 DEF OutboxType
  <1>3. /\ rows' \in Seq(Row) /\ Len(rows) \in Nat /\ Id = 1..Len(rows) /\ Id' = 1..Len(rows')
        /\ Len(rows') \in Nat /\ Len(rows) <= Len(rows')
        /\ \A r \in Id : /\ rows'[r].ev = rows[r].ev /\ rows'[r].attempt = rows[r].attempt
                         /\ rows'[r].done <=> (rows[r].done \/ r \in lock[w])
        /\ \A i \in Id' : i \notin Id =>
              \E n \in new[w] : rows'[i].ev = n.ev /\ rows'[i].attempt = n.attempt
        /\ \A i, j \in Id' : 
              i \notin Id /\ j \notin Id /\ rows'[i].ev = rows'[j].ev /\ rows'[i].attempt = rows'[j].attempt => i = j
    <2>1. rows' \in Seq(Row)
      BY <1>0, <1>1, CommitRows
    <2>2. Id' = 1..Len(rows')
      BY <2>1 DEF Id
    <2> DEFINE R == rows'
    <2>3. /\ Len(rows) \in Nat /\ Id = 1..Len(rows) /\ Len(R) \in Nat /\ Len(rows) <= Len(R)
          /\ \A r \in Id : /\ R[r].ev = rows[r].ev /\ R[r].attempt = rows[r].attempt
                           /\ R[r].done <=> (rows[r].done \/ r \in lock[w])
          /\ \A i \in 1..Len(R) : i \notin Id =>
                \E n \in new[w] : R[i].ev = n.ev /\ R[i].attempt = n.attempt
          /\ \A i, j \in 1..Len(R) :
                i \notin Id /\ j \notin Id /\ R[i].ev = R[j].ev /\ R[i].attempt = R[j].attempt => i = j
      <3>1. R = Committed(w)
        BY <1>1
      <3> HIDE DEF R
      <3> QED BY <1>0, <3>1, CommitRows
    <2> QED BY <2>1, <2>2, <2>3
  <1>4. ASSUME NEW v \in Worker PROVE NotesFollow(v)'
    <2>1. CASE v = w
      BY <2>1, <1>2 DEF NotesFollow
    <2>2. CASE v # w
      <3>1. NotesFollow(v)
        BY DEF RowsInv
      <3> QED BY <2>2, <3>1, <1>2, <1>3 DEF NotesFollow
    <2> QED BY <2>1, <2>2
  \* The row a new one replaces.
  <1> DEFINE From(i, d) == /\ d \in lock[w] /\ d \in Id /\ ~rows[d].done /\ rows[d].ev = rows'[i].ev
                           /\ rows[d].attempt \in Int
                           /\ rows'[i].attempt \in {rows[d].attempt, rows[d].attempt + 1}
  <1>5. ASSUME NEW i \in Id', i \notin Id PROVE \E d \in lock[w] : From(i, d)
    <2>1. PICK n \in new[w] : rows'[i].ev = n.ev /\ rows'[i].attempt = n.attempt
      BY <1>3, <1>5
    <2>2. PICK d \in lock[w] : rows[d].ev = n.ev /\ n.attempt \in {rows[d].attempt, rows[d].attempt + 1}
      BY <1>0 DEF NotesFollow
    <2>3. d \in Id /\ ~rows[d].done
      BY <1>0 DEF TxnOK, OutboxType
    <2>4. rows[d].attempt \in Int
      BY <2>3, <1>0, RowAt
    <2> QED BY <2>1, <2>2, <2>3, <2>4
  <1>6. LiveIsLatest'
    <2> SUFFICES ASSUME NEW r \in Id', NEW s \in Id', ~rows'[r].done, rows'[s].ev = rows'[r].ev
                 PROVE  rows'[s].attempt <= rows'[r].attempt
      BY DEF LiveIsLatest
    <2>0. rows'[r] \in Row /\ rows'[s] \in Row
      BY <1>3
    <2>00. rows'[r].attempt \in Int /\ rows'[s].attempt \in Int
      BY <2>0 DEF Row
    <2>1. CASE r \in Id /\ s \in Id
      BY <2>1, <1>0, <1>3 DEF LiveIsLatest
    <2>2. CASE r \in Id /\ s \notin Id
      <3>1. PICK d \in lock[w] : From(s, d)
        BY <2>2, <1>5
      <3>2. ~rows[r].done /\ r \notin lock[w] /\ rows[r].ev = rows[d].ev
        BY <2>2, <3>1, <1>3
      <3> QED BY <2>2, <3>1, <3>2, <1>0 DEF LiveUnique
    <2>3. CASE r \notin Id /\ s \in Id
      <3>1. PICK d \in lock[w] : From(r, d)
        BY <2>3, <1>5
      <3>2. rows[s].attempt <= rows[d].attempt /\ rows'[s].attempt = rows[s].attempt
        BY <2>3, <3>1, <1>0, <1>3 DEF LiveIsLatest
      <3> QED BY <3>1, <3>2, <2>00
    <2>4. CASE r \notin Id /\ s \notin Id
      <3>1. PICK m \in new[w] : rows'[r].ev = m.ev /\ rows'[r].attempt = m.attempt
        BY <2>4, <1>3
      <3>2. PICK n \in new[w] : rows'[s].ev = n.ev /\ rows'[s].attempt = n.attempt
        BY <2>4, <1>3
      <3>3. m = n
        BY <3>1, <3>2, <1>0 DEF TxnOK
      <3> QED BY <3>1, <3>2, <3>3, <2>00
    <2> QED BY <2>1, <2>2, <2>3, <2>4
  <1> DEFINE d(i) == CHOOSE x \in lock[w] : From(i, x)
             g == [p \in Extra' |-> IF p[1] \in Id THEN p ELSE <<d(p[1]), "note">>]
  <1>7. ASSUME NEW i \in Id', i \notin Id PROVE From(i, d(i))
    BY <1>5, <1>7
  <1> HIDE DEF d
  <1>8. ASSUME NEW p \in Extra'
        PROVE  /\ p \in Id' \X {"row", "note"}
               /\ p[1] \in Id => p \in Extra /\ (p[2] = "note" => p[1] \notin lock[w])
               /\ p[1] \notin Id => /\ p[2] = "row" /\ d(p[1]) \in lock[w]
                                    /\ <<d(p[1]), "note">> \in Extra
    <2>0. p \in Id' \X {"row", "note"}
      BY DEF Extra
    <2>1. PICK i \in Id' : p[1] = i
      BY <2>0
    <2>2. CASE p[2] = "note"
      <3>1. PutBack(i)'
        BY <2>1, <2>2, <1>8 DEF Extra
      <3>2. PICK v \in Worker : i \in lock'[v] /\ \E n \in new'[v] : n.ev = rows'[i].ev /\ n.attempt = rows'[i].attempt
        BY <3>1 DEF PutBack
      <3>3. v # w /\ i \in lock[v] /\ i \in Id
        BY <3>2, <1>2
      <3>4. PutBack(i) /\ i \notin lock[w]
        BY <3>2, <3>3, <1>0, <1>2, <1>3 DEF PutBack, LocksApart
      <3>5. p \in Extra
        BY <2>0, <2>1, <2>2, <3>3, <3>4 DEF Extra
      <3> QED BY <2>0, <2>1, <2>2, <3>3, <3>4, <3>5
    <2>3. CASE p[2] = "row"
      <3>1. Repeats(i)'
        BY <2>1, <2>3, <1>8 DEF Extra
      <3>2. PICK s \in Id' : s < i /\ rows'[s].ev = rows'[i].ev /\ rows'[s].attempt = rows'[i].attempt
        BY <3>1 DEF Repeats
      <3>3. CASE i \in Id
        <4>1. s \in Id
          BY <3>2, <3>3, <1>3
        <4>2. Repeats(i)
          BY <3>2, <3>3, <4>1, <1>3 DEF Repeats
        <4>3. p \in Extra
          BY <2>0, <2>1, <2>3, <3>3, <4>2 DEF Extra
        <4> QED BY <2>0, <2>1, <2>3, <3>3, <4>3
      <3>4. CASE i \notin Id
        <4>1. From(i, d(i))
          BY <3>4, <1>7
        <4>2. PICK x \in lock[w] : x = d(i) /\ From(i, x)
          BY <4>1
        <4>3. s \in Id
          BY <3>2, <3>4, <1>3
        <4>4. rows[s].attempt <= rows[x].attempt /\ rows[s].attempt = rows'[i].attempt
          BY <3>2, <4>2, <4>3, <1>0, <1>3 DEF LiveIsLatest
        <4>5. rows'[i].attempt = rows[x].attempt
          <5>1. /\ rows[x].attempt \in Int
                /\ rows'[i].attempt \in {rows[x].attempt, rows[x].attempt + 1}
                /\ rows'[i].attempt <= rows[x].attempt
            BY <4>2, <4>4
          <5> QED BY <5>1
        <4>6. PICK n \in new[w] : rows'[i].ev = n.ev /\ rows'[i].attempt = n.attempt
          BY <3>4, <1>3
        <4>7. PutBack(x)
          BY <4>2, <4>5, <4>6 DEF PutBack
        <4>8. <<x, "note">> \in Extra
          <5>1. x \in Id
            BY <4>2
          <5> QED BY <4>7, <5>1 DEF Extra
        <4> QED BY <2>0, <2>1, <2>3, <3>4, <4>2, <4>8
      <3> QED BY <3>3, <3>4
    <2> QED BY <2>0, <2>2, <2>3
  <1>9. g \in [Extra' -> Extra]
    <2>1. ASSUME NEW p \in Extra' PROVE (IF p[1] \in Id THEN p ELSE <<d(p[1]), "note">>) \in Extra
      <3>1. CASE p[1] \in Id
        <4>1. p \in Extra
          BY <1>8, <2>1, <3>1
        <4> QED BY <3>1, <4>1
      <3>2. CASE p[1] \notin Id
        <4>1. <<d(p[1]), "note">> \in Extra
          BY <1>8, <2>1, <3>2
        <4> QED BY <3>2, <4>1
      <3> QED BY <3>1, <3>2
    <2> QED BY <2>1
  <1>10. ASSUME NEW p \in Extra', NEW q \in Extra', g[p] = g[q] PROVE p = q
    <2>0. p = <<p[1], p[2]>> /\ q = <<q[1], q[2]>> /\ p[1] \in Id' /\ q[1] \in Id'
      <3>1. p \in Id' \X {"row", "note"} /\ q \in Id' \X {"row", "note"}
        BY DEF Extra
      <3> QED BY <3>1
    <2>1. CASE p[1] \in Id /\ q[1] \in Id
      BY <2>1, <1>10
    <2>2. ASSUME NEW x \in Extra', NEW y \in Extra', x[1] \in Id, y[1] \notin Id, g[x] = g[y] PROVE FALSE
      <3>1. x = <<d(y[1]), "note">>
        BY <2>2
      <3>2. d(y[1]) \in lock[w] /\ (x[2] = "note" => x[1] \notin lock[w])
        BY <2>2, <1>8
      <3> HIDE DEF d
      <3> QED BY <3>1, <3>2
    <2>3. CASE p[1] \notin Id /\ q[1] \notin Id
      <3>1. g[p] = <<d(p[1]), "note">> /\ g[q] = <<d(q[1]), "note">>
        BY <2>3
      <3>2. PICK x \in lock[w] : x = d(p[1]) /\ From(p[1], x)
        BY <2>0, <2>3, <1>7
      <3>3. PICK y \in lock[w] : y = d(q[1]) /\ From(q[1], y)
        BY <2>0, <2>3, <1>7
      <3>4. x = y
        <4>1. <<d(p[1]), "note">> = <<d(q[1]), "note">>
          BY <3>1, <1>10
        <4>2. d(p[1]) = d(q[1])
          BY <4>1
        <4> QED BY <4>2, <3>2, <3>3
      <3>5. rows'[p[1]].ev = rows'[q[1]].ev
        BY <3>2, <3>3, <3>4
      <3>6. PICK m \in new[w] : rows'[p[1]].ev = m.ev /\ rows'[p[1]].attempt = m.attempt
        BY <2>0, <2>3, <1>3
      <3>7. PICK n \in new[w] : rows'[q[1]].ev = n.ev /\ rows'[q[1]].attempt = n.attempt
        BY <2>0, <2>3, <1>3
      <3>8. m = n
        BY <3>5, <3>6, <3>7, <1>0 DEF TxnOK
      <3>9. p[1] = q[1]
        BY <2>0, <2>3, <3>6, <3>7, <3>8, <1>3
      <3> QED BY <2>0, <2>3, <3>9, <1>8
    <2> QED BY <2>1, <2>2, <2>3, <1>10
  <1>11. g \in Injection(Extra', Extra)
    <2> HIDE DEF g
    <2> QED BY <1>9, <1>10 DEF Injection, IsInjective
  <1>12. Cardinality(Extra') <= Cardinality(Extra) /\ Cardinality(Extra) \in Nat /\ Cardinality(Extra') \in Nat
    <2> HIDE DEF g
    <2> QED BY <1>0, <1>11, ExtraFinite, FS_Injection, FS_CardinalityType
  <1>13. Cardinality(Extra') <= defers'
    BY <1>0, <1>1, <1>12 DEF RowsInv, OutboxType
  <1> QED BY <1>4, <1>6, <1>13 DEF RowsInv

LEMMA RowsStep == OutboxInv /\ RowsInv /\ [Next]_vars => RowsInv'
  <1> SUFFICES ASSUME OutboxInv, RowsInv, [Next]_vars PROVE RowsInv'
    OBVIOUS
  <1>0. OutboxInv' /\ OutboxType
    BY OutboxStep DEF OutboxInv
  <1>1. CASE RowDue
    <2>1. UNCHANGED <<lock, new, defers>>
      BY <1>1 DEF RowDue, txnVars
    <2> QED BY <1>0, <1>1, <2>1, RowDueGrows, RowsRest
  <1>2. ASSUME UNCHANGED <<rows, defers>>, dlq \subseteq dlq', acked \subseteq acked',
               \A w \in Worker : new'[w] = {} \/ (new'[w] = new[w] /\ lock'[w] = lock[w])
        PROVE  RowsInv'
    BY <1>0, <1>2, SameTableGrows, RowsRest DEF Id
  <1>3. ASSUME NEW w \in Worker,
               EndpointRejected(w) \/ StatementFails(w) \/ Crash(w) \/ (CommitFails(w) /\ UNCHANGED rows)
        PROVE  RowsInv'
    <2>1. /\ lock' = [lock EXCEPT ![w] = {}] /\ new' = [new EXCEPT ![w] = {}]
          /\ UNCHANGED <<rows, dlq, acked, defers>>
      BY <1>3 DEF EndpointRejected, StatementFails, Crash, CommitFails, FailBatch, dbVars, httpVars
    <2>2. \A v \in Worker : new'[v] = {} \/ (new'[v] = new[v] /\ lock'[v] = lock[v])
      BY <2>1, <1>0 DEF OutboxType
    <2> QED BY <2>1, <2>2, <1>2
  <1>4. ASSUME NEW w \in Worker, PollOnce(w) \/ BackoffOver(w) PROVE RowsInv'
    <2>1. UNCHANGED <<rows, dlq, acked, new, defers>> /\ new[w] = {}
      BY <1>4 DEF PollOnce, BackoffOver, dbVars, httpVars, OutboxInv, TxnOK
    <2>2. UNCHANGED lock \/ \E S : lock' = [lock EXCEPT ![w] = S]
      BY <1>4 DEF PollOnce, BackoffOver, ClaimBatch
    <2>3. \A v \in Worker : new'[v] = {} \/ (new'[v] = new[v] /\ lock'[v] = lock[v])
      BY <2>1, <2>2, <1>0 DEF OutboxType
    <2> QED BY <2>1, <2>3, <1>2
  <1>5. ASSUME NEW w \in Worker, DeadLetterPoison(w) \/ Post(w) \/ Stop(w) \/ Start(w) PROVE RowsInv'
    <2>1. UNCHANGED <<rows, lock, new, defers>> /\ dlq \subseteq dlq' /\ acked \subseteq acked'
      BY <1>5 DEF DeadLetterPoison, Post, Stop, Start, dbVars, httpVars, txnVars
    <2> QED BY <2>1, <1>2
  <1>6. ASSUME NEW w \in Worker, DeliverRow(w) PROVE RowsInv'
    BY <1>0, <1>3, <1>5, <1>6, RowsDefer, RowsSettle DEF DeliverRow
  <1>7. ASSUME NEW w \in Worker, Commit(w) \/ CommitFails(w) PROVE RowsInv'
    BY <1>0, <1>3, <1>7, RowsCommit DEF CommitFails
  <1>8. CASE UNCHANGED vars
    BY <1>2, <1>8 DEF vars, dbVars, txnVars, httpVars
  <1> QED BY <1>1, <1>3, <1>4, <1>5, <1>6, <1>7, <1>8 DEF Next

LEMMA RowsInit == Init => RowsInv
  <1> SUFFICES ASSUME Init PROVE RowsInv
    OBVIOUS
  <1>1. OutboxType /\ LiveUnique
    BY OutboxInit DEF OutboxInv
  <1>2. \A w \in Worker : new[w] = {} /\ lock[w] = {}
    BY DEF Init
  <1>3. \A r \in Id : ~rows[r].done /\ rows[r].attempt = 1
    BY DEF Init, Id
  <1>4. LiveIsLatest
    BY <1>3 DEF LiveIsLatest
  <1>5. ASSUME NEW r \in Id PROVE ~Repeats(r) /\ ~PutBack(r)
    <2>1. ASSUME NEW s \in Id, s < r, rows[s].ev = rows[r].ev PROVE FALSE
      <3>1. s = r /\ r \in Nat
        BY <2>1, <1>1, <1>3, RowAt DEF LiveUnique
      <3> QED BY <2>1, <3>1
    <2> QED BY <2>1, <1>2 DEF Repeats, PutBack
  <1>6. Extra = {}
    BY <1>5 DEF Extra
  <1>7. Cardinality(Extra) = 0 /\ defers = 0
    BY <1>6, FS_EmptySet DEF Init
  <1> QED BY <1>2, <1>4, <1>7 DEF RowsInv, NotesFollow

\* Rows that repeat no earlier one differ in event or attempt; the others were deferred.
LEMMA RowsBounded ==
    ASSUME OutboxInv, RowsInv
    PROVE  Len(rows) <= Cardinality(Event) * MaxAttempts + MaxDefers
  <1>0. OutboxType /\ Id = 1..Len(rows) /\ Len(rows) \in Nat
    BY DEF OutboxInv, OutboxType, Id
  <1> DEFINE F == {r \in Id : ~Repeats(r)}
             G == {r \in Id : Repeats(r)}
             key == [r \in F |-> <<rows[r].ev, rows[r].attempt>>]
             tag == [r \in G |-> <<r, "row">>]
             Keys == Event \X (1..MaxAttempts)
  <1>1. IsFiniteSet(Id) /\ Cardinality(Id) = Len(rows)
    BY <1>0, FS_Interval, SMTT(40)
  <1>2. IsFiniteSet(F) /\ IsFiniteSet(G)
    <2>1. F \subseteq Id /\ G \subseteq Id
      OBVIOUS
    <2> QED BY <2>1, <1>1, FS_Subset
  <1>3. IsFiniteSet(Keys) /\ Cardinality(Keys) = Cardinality(Event) * MaxAttempts /\ Cardinality(Event) \in Nat
    <2>1. IsFiniteSet(1..MaxAttempts) /\ Cardinality(1..MaxAttempts) = MaxAttempts
      BY BoundsAssumption, FS_Interval
    <2> QED BY <2>1, SetsAssumption, FS_Product, FS_CardinalityType
  <1>4. key \in Injection(F, Keys)
    <2>1. \A r \in F : rows[r].ev \in Event /\ rows[r].attempt \in 1..MaxAttempts /\ r \in Nat
      BY <1>0, RowAt
    <2>2. key \in [F -> Keys]
      BY <2>1
    <2>3. ASSUME NEW r \in F, NEW s \in F, key[r] = key[s], r # s PROVE FALSE
      <3>1. rows[r].ev = rows[s].ev /\ rows[r].attempt = rows[s].attempt
        BY <2>3
      <3>2. r < s \/ s < r
        BY <2>1, <2>3
      <3> QED BY <3>1, <3>2 DEF Repeats
    <2> HIDE DEF key, F, Keys
    <2> QED BY <2>2, <2>3 DEF Injection, IsInjective
  <1>5. tag \in Injection(G, Extra)
    <2>1. tag \in [G -> Extra]
      BY DEF Extra
    <2>2. \A r, s \in G : tag[r] = tag[s] => r = s
      OBVIOUS
    <2> HIDE DEF tag, G
    <2> QED BY <2>1, <2>2 DEF Injection, IsInjective
  <1>6. F \cup G = Id
    OBVIOUS
  <1> HIDE DEF F, G, key, tag, Keys
  <1>7. Cardinality(F) <= Cardinality(Keys)
    BY <1>3, <1>4, FS_Injection
  <1>8. Cardinality(G) <= Cardinality(Extra)
    BY <1>0, <1>5, ExtraFinite, FS_Injection
  <1>9. Cardinality(Id) = Cardinality(F) + Cardinality(G) - Cardinality(F \cap G)
    BY <1>2, <1>6, FS_Union
  <1>10. /\ Cardinality(F) \in Nat /\ Cardinality(G) \in Nat /\ Cardinality(F \cap G) \in Nat
         /\ Cardinality(Extra) \in Nat /\ Cardinality(Keys) \in Nat
    <2>1. F \cap G \subseteq F
      OBVIOUS
    <2>2. IsFiniteSet(F \cap G)
      BY <2>1, <1>2, FS_Subset
    <2> QED BY <2>2, <1>0, <1>2, <1>3, ExtraFinite, FS_CardinalityType
  <1>11. Cardinality(Extra) <= MaxDefers
    BY <1>0, <1>10, BoundsAssumption DEF RowsInv, OutboxType
  <1>12. Len(rows) <= Cardinality(Keys) + MaxDefers
    BY <1>1, <1>7, <1>8, <1>9, <1>10, <1>11, BoundsAssumption
  <1> QED BY <1>3, <1>12

----------------------------------------------------------------------------
(* The theorems                                                            *)

LEMMA OneLive ==
    ASSUME OutboxInv
    PROVE  TypeOK /\ OneLiveRow
  <1>0. OutboxType /\ LiveUnique
    BY DEF OutboxInv
  <1>1. TypeOK
    <2>1. ASSUME NEW w \in Worker
          PROVE  /\ todo[w] \subseteq lock[w] /\ lock[w] \subseteq Id
                 /\ pc[w] = "settle" => cur[w] \in lock[w] \ todo[w]
                 /\ res[w] \in Outcome \cup {"none"}
                 /\ \A n \in new[w] : n.ev \in Event /\ n.attempt \in 1..MaxAttempts
                 /\ pc[w] \in {"idle", "backoff"} => lock[w] = {} /\ new[w] = {}
      <3>1. \A n \in new[w] : n \in Note
        BY <1>0 DEF OutboxType
      <3> QED BY <3>1, <1>0 DEF OutboxInv, OutboxType, TxnOK, Note
    <2> QED BY <2>1, <1>0 DEF TypeOK, OutboxType
  <1>2. ASSUME NEW e \in Event PROVE Cardinality(Live(e)) <= 1
    <2>1. CASE Live(e) = {}
      BY <2>1, FS_EmptySet
    <2>2. ASSUME NEW r \in Live(e) PROVE Live(e) = {r}
      BY <1>0, <2>2 DEF Live, LiveUnique
    <2>3. ASSUME NEW r PROVE Cardinality({r}) = 1
      BY FS_Singleton
    <2> QED BY <2>1, <2>2, <2>3
  <1> QED BY <1>1, <1>2 DEF OneLiveRow

\* Whatever crashes, fails or is deferred, an event never has two unprocessed
\* outbox rows: marking a row and inserting its retry are one transaction.
THEOREM AnEventHasOneLiveRow == Spec => [](TypeOK /\ OneLiveRow)
  <1>1. Init => OutboxInv
    BY OutboxInit
  <1>2. OutboxInv /\ [Next]_vars => OutboxInv'
    BY OutboxStep
  <1>3. OutboxInv => TypeOK /\ OneLiveRow
    BY OneLive
  <1> QED BY <1>1, <1>2, <1>3, PTL DEF Spec

\* FOR UPDATE SKIP LOCKED in processBatch: no two dispatchers, however many
\* there are, hold rows of one event at the same time.
THEOREM NoConcurrentSendHolds == Spec => []NoConcurrentSend
  <1>1. Init => OutboxInv
    BY OutboxInit
  <1>2. OutboxInv /\ [Next]_vars => OutboxInv'
    BY OutboxStep
  <1>3. OutboxInv => NoConcurrentSend
    <2> SUFFICES ASSUME OutboxInv, NEW v \in Worker, NEW w \in Worker, v # w,
                        NEW r \in lock[v], NEW s \in lock[w], rows[r].ev = rows[s].ev
                 PROVE  FALSE
      BY DEF NoConcurrentSend
    <2>1. r \in Id /\ s \in Id /\ ~rows[r].done /\ ~rows[s].done
      BY DEF OutboxInv, OutboxType, TxnOK
    <2>2. r = s
      BY <2>1 DEF OutboxInv, LiveUnique
    <2> QED BY <2>2 DEF OutboxInv, LocksApart
  <1> QED BY <1>1, <1>2, <1>3, PTL DEF Spec

LEMMA RequestsBounded ==
    ASSUME OutboxInv, PostsInv, RowsInv
    PROVE  BoundedPosts
  <1>1. \A e \in Event \ cutShort : posts[e] <= MaxAttempts + faults
    BY DEF PostsInv, Sent
  <1> QED BY <1>1, RowsBounded DEF BoundedPosts

\* Whatever the answers are and whether or not the breaker trips, shouldRetry and the
\* numbering of retry rows bound what a consumer sees: at most maxAttempts requests
\* for an event and one more for each fault, unless a bad endpoint rolled its batch
\* back; and the table has no rows but one per event and attempt and one per deferral.
THEOREM RequestsStayBounded == Spec => []BoundedPosts
  <1>1. Init => OutboxInv /\ PostsInv /\ RowsInv
    BY OutboxInit, PostsInit, RowsInit
  <1>2. OutboxInv /\ PostsInv /\ RowsInv /\ [Next]_vars => (OutboxInv /\ PostsInv /\ RowsInv)'
    BY OutboxStep, PostsStep, RowsStep
  <1>3. OutboxInv /\ PostsInv /\ RowsInv => BoundedPosts
    BY RequestsBounded
  <1> QED BY <1>1, <1>2, <1>3, PTL DEF Spec

\* Where the breaker does not trip and every answer is a success, a rejection,
\* a timeout or a retryable failure, an event leaves the outbox only delivered,
\* dead-lettered or after its last attempt, through any deferral, rollback or crash.
THEOREM EveryEventAccounted == ASSUME Plain PROVE Spec => []EventAccounted
  <1>1. Init => OutboxInv /\ LossInv /\ PostsInv /\ RowsInv
    BY OutboxInit, LossInit, PostsInit, RowsInit
  <1>2. OutboxInv /\ LossInv /\ PostsInv /\ RowsInv /\ [Next]_vars
        => (OutboxInv /\ LossInv /\ PostsInv /\ RowsInv)'
    BY OutboxStep, LossStep, PostsStep, RowsStep
  <1>3. OutboxInv /\ LossInv /\ PostsInv /\ RowsInv => EventAccounted
    BY OneLive, RequestsBounded DEF EventAccounted, LostOnlyWhenExhausted, LossInv, Over
  <1> QED BY <1>1, <1>2, <1>3, PTL DEF Spec

----------------------------------------------------------------------------
(* The dead-letter queue: suspensions                                      *)

Word == {"failed", "ok", "resume"}
SuspensionRow == [known : BOOLEAN, failures : Nat, suspended : BOOLEAN]

\* L is the place of the last resume.
LastIs(L) ==
    /\ L \in 0..Len(outcomes) /\ (L = 0 \/ outcomes[L] = "resume")
    /\ \A k \in 1..Len(outcomes) : outcomes[k] = "resume" => k <= L

\* The failures counted are the trailing run of failures since the last resume, and
\* Threshold of them suspend the topic.
TrailOK(L) ==
    /\ suspension.failures + L <= Len(outcomes)
    /\ \A j \in 1..Len(outcomes) : j + suspension.failures > Len(outcomes) => outcomes[j] = "failed"
    /\ suspension.failures + L = Len(outcomes) \/ outcomes[Len(outcomes) - suspension.failures] = "ok"
    /\ suspension.failures >= Threshold => suspension.suspended

RunEnds(L, k) ==
    /\ k >= L + Threshold
    /\ \A j \in 1..Len(outcomes) : j <= k /\ j + Threshold > k => outcomes[j] = "failed"

EarnedOK(L) ==
    /\ suspension.suspended => \E k \in 1..Len(outcomes) : RunEnds(L, k)
    /\ Len(outcomes) > 1 /\ outcomes[Len(outcomes)] = "ok" /\ RunEnds(L, Len(outcomes) - 1) => suspension.suspended

SuspensionInv ==
    /\ suspension \in SuspensionRow /\ outcomes \in Seq(Word)
    /\ \E L \in Nat : LastIs(L) /\ TrailOK(L) /\ EarnedOK(L)

LEMMA LettersNumbers == MaxLetters \in Nat /\ MaxReplays \in Nat /\ EnqueuedWith \in Nat /\ Threshold \in Nat /\ Threshold >= 1
  BY LettersAssumption

LEMMA GreatestIs ==
    ASSUME NEW S \in SUBSET Nat, NEW m \in S, \A y \in S : m >= y
    PROVE  Letters!Max(S) = m
  <1>1. PICK x : x = Letters!Max(S)
    OBVIOUS
  <1>2. x \in S /\ \A y \in S : x >= y
    BY <1>1 DEF Letters!Max
  <1>3. x \in Nat /\ m \in Nat /\ x >= m /\ m >= x
    BY <1>2
  <1> QED BY <1>1, <1>3

LEMMA LastResumeIs ==
    ASSUME outcomes \in Seq(Word), NEW L \in Nat, LastIs(L)
    PROVE  Letters!LastResume = L
  <1>1. Len(outcomes) \in Nat /\ DOMAIN outcomes = 1..Len(outcomes)
    BY LenProperties
  <1>2. Letters!Resumes \in SUBSET Nat /\ \A k : k \in Letters!Resumes <=> k \in 1..Len(outcomes) /\ outcomes[k] = "resume"
    BY <1>1 DEF Letters!Resumes
  <1>3. CASE L = 0
    <2>1. Letters!Resumes = {}
      BY <1>1, <1>2, <1>3 DEF LastIs
    <2> QED BY <1>3, <2>1 DEF Letters!LastResume
  <1>4. CASE L # 0
    <2>1. L \in Letters!Resumes /\ \A y \in Letters!Resumes : L >= y
      BY <1>1, <1>2, <1>4 DEF LastIs
    <2>2. Letters!Max(Letters!Resumes) = L /\ Letters!Resumes # {}
      BY <1>2, <2>1, GreatestIs
    <2> QED BY <2>2 DEF Letters!LastResume
  <1> QED BY <1>3, <1>4

LEMMA FailureRunIs ==
    ASSUME outcomes \in Seq(Word), NEW L \in Nat, LastIs(L), NEW k \in 1..Len(outcomes)
    PROVE  Letters!FailureRun(k) <=> RunEnds(L, k)
  <1>1. Len(outcomes) \in Nat /\ k \in Nat /\ k <= Len(outcomes) /\ Letters!LastResume = L
    BY LenProperties, LastResumeIs
  <1>2. k - Threshold >= L <=> k >= L + Threshold
    BY <1>1, LettersNumbers
  <1>3. ASSUME k >= L + Threshold
        PROVE  (\A j \in (k - Threshold + 1)..k : outcomes[j] = "failed") <=>
               (\A j \in 1..Len(outcomes) : j <= k /\ j + Threshold > k => outcomes[j] = "failed")
    <2>1. \A j : j \in (k - Threshold + 1)..k <=> j \in 1..Len(outcomes) /\ j <= k /\ j + Threshold > k
      BY <1>1, <1>3, LettersNumbers
    <2> QED BY <2>1
  <1> QED BY <1>1, <1>2, <1>3 DEF Letters!FailureRun, RunEnds

LEMMA OutcomeAdded ==
    ASSUME outcomes \in Seq(Word), NEW x \in Word, outcomes' = Append(outcomes, x)
    PROVE  /\ outcomes' \in Seq(Word) /\ Len(outcomes) \in Nat /\ Len(outcomes') = Len(outcomes) + 1
           /\ outcomes'[Len(outcomes) + 1] = x
           /\ \A j \in 1..Len(outcomes) : outcomes'[j] = outcomes[j]
  BY AppendProperties, LenProperties

\* A run that ended stays a run, as long as nobody resumes.
LEMMA RunStays ==
    ASSUME outcomes \in Seq(Word), NEW x \in Word, outcomes' = Append(outcomes, x), NEW L \in Nat, NEW k \in 1..Len(outcomes)
    PROVE  RunEnds(L, k)' <=> RunEnds(L, k)
  <1>1. /\ Len(outcomes) \in Nat /\ Len(outcomes') = Len(outcomes) + 1
        /\ \A j \in 1..Len(outcomes) : outcomes'[j] = outcomes[j]
    BY OutcomeAdded
  <1>2. \A j : j \in 1..Len(outcomes') /\ j <= k <=> j \in 1..Len(outcomes) /\ j <= k
    BY <1>1
  <1> QED BY <1>1, <1>2 DEF RunEnds

LEMMA SuspensionInit == Letters!Init => SuspensionInv
  <1> SUFFICES ASSUME Letters!Init PROVE SuspensionInv
    OBVIOUS
  <1>1. PICK n \in 0..(Threshold - 1) : /\ suspension = [known |-> n > 0, failures |-> n, suspended |-> FALSE]
                                         /\ outcomes = [k \in 1..n |-> "failed"]
    BY DEF Letters!Init
  <1>2. n \in Nat /\ n < Threshold
    BY <1>1, LettersNumbers
  <1>3. outcomes \in Seq(Word) /\ Len(outcomes) = n /\ \A k \in 1..n : outcomes[k] = "failed"
    <2>1. outcomes \in [1..n -> Word] /\ \A k \in 1..n : outcomes[k] = "failed"
      BY <1>1 DEF Word
    <2>2. outcomes \in Seq(Word)
      BY <1>2, <2>1, SeqDef
    <2>3. DOMAIN outcomes = 1..n /\ DOMAIN outcomes = 1..Len(outcomes) /\ Len(outcomes) \in Nat
      BY <2>1, <2>2, LenProperties
    <2> QED BY <1>2, <2>1, <2>2, <2>3
  <1>4. suspension \in SuspensionRow
    <2>1. PICK b \in BOOLEAN : b = (n > 0)
      <3>1. (n > 0) \in BOOLEAN
        OBVIOUS
      <3> QED BY <3>1
    <2>2. FALSE \in BOOLEAN
      OBVIOUS
    <2> QED BY <1>1, <1>2, <2>1, <2>2 DEF SuspensionRow
  <1>5. suspension.failures = n
    BY <1>1
  <1>6. ~suspension.suspended
    BY <1>1, Zenon
  <1>7. LastIs(0)
    BY <1>2, <1>3 DEF LastIs
  <1>8. TrailOK(0)
    BY <1>2, <1>3, <1>5, LettersNumbers DEF TrailOK
  <1>9. EarnedOK(0)
    BY <1>2, <1>3, <1>6 DEF EarnedOK
  <1> QED BY <1>3, <1>4, <1>7, <1>8, <1>9 DEF SuspensionInv

LEMMA FailureCounts ==
    ASSUME SuspensionInv, NEW o \in Letters!Operator, Letters!RecordReplayFailure(o)
    PROVE  SuspensionInv'
  <1>1. /\ suspension' = [known |-> TRUE, failures |-> suspension.failures + 1,
                          suspended |-> Letters!Suspends(suspension.failures)]
        /\ outcomes' = Append(outcomes, "failed")
    BY DEF Letters!RecordReplayFailure
  <1>2. PICK L \in Nat : LastIs(L) /\ TrailOK(L) /\ EarnedOK(L)
    BY DEF SuspensionInv
  <1>3. outcomes \in Seq(Word) /\ "failed" \in Word /\ suspension.failures \in Nat
    BY DEF SuspensionInv, SuspensionRow, Word
  <1>4. /\ outcomes' \in Seq(Word) /\ Len(outcomes) \in Nat /\ Len(outcomes') = Len(outcomes) + 1
        /\ outcomes'[Len(outcomes) + 1] = "failed"
        /\ \A j \in 1..Len(outcomes) : outcomes'[j] = outcomes[j]
    BY <1>1, <1>3, OutcomeAdded
  <1>5. PICK b \in BOOLEAN : b = Letters!Suspends(suspension.failures)
    <2>1. (suspension.failures + 1 >= Threshold) \in BOOLEAN
      OBVIOUS
    <2> QED BY <2>1, Zenon DEF Letters!Suspends
  <1>6. /\ suspension' = [known |-> TRUE, failures |-> suspension.failures + 1, suspended |-> b]
        /\ b <=> suspension.failures + 1 >= Threshold
    BY <1>1, <1>5, Zenon DEF Letters!Suspends
  <1>7. suspension' \in SuspensionRow /\ suspension.failures' = suspension.failures + 1
    <2>1. TRUE \in BOOLEAN
      OBVIOUS
    <2> QED BY <1>3, <1>5, <1>6, <2>1 DEF SuspensionRow
  <1>8. suspension.suspended' <=> suspension.failures + 1 >= Threshold
    <2>1. suspension.suspended' = b
      BY <1>6, Zenon
    <2> QED BY <1>6, <2>1, Zenon
  <1>9. LastIs(L)'
    BY <1>2, <1>4 DEF LastIs
  <1>10. TrailOK(L)'
    <2>1. suspension.failures' + L <= Len(outcomes')
      BY <1>2, <1>3, <1>4, <1>7 DEF TrailOK
    <2>2. ASSUME NEW j \in 1..Len(outcomes'), j + suspension.failures' > Len(outcomes') PROVE outcomes'[j] = "failed"
      BY <1>2, <1>3, <1>4, <1>7, <2>2, SMTT(30) DEF TrailOK
    <2>3. suspension.failures' + L = Len(outcomes') \/ outcomes'[Len(outcomes') - suspension.failures'] = "ok"
      <3>1. Len(outcomes') - suspension.failures' = Len(outcomes) - suspension.failures
        BY <1>3, <1>4, <1>7
      <3>2. CASE suspension.failures + L = Len(outcomes)
        BY <1>3, <1>4, <1>7, <3>2
      <3>3. CASE suspension.failures + L # Len(outcomes)
        <4>1. Len(outcomes) - suspension.failures \in 1..Len(outcomes) /\ outcomes[Len(outcomes) - suspension.failures] = "ok"
          BY <1>2, <1>3, <1>4, <3>3 DEF TrailOK
        <4> QED BY <1>4, <3>1, <4>1
      <3> QED BY <3>2, <3>3
    <2>4. suspension.failures' >= Threshold => suspension.suspended'
      BY <1>7, <1>8
    <2> QED BY <2>1, <2>2, <2>3, <2>4 DEF TrailOK
  <1>11. EarnedOK(L)'
    <2>0. PICK m \in 1..Len(outcomes') : m = Len(outcomes) + 1
      BY <1>4
    <2>1. ASSUME suspension.failures + 1 >= Threshold PROVE RunEnds(L, m)'
      <3>1. m >= L + Threshold
        BY <1>2, <1>3, <1>4, <2>0, <2>1, LettersNumbers DEF TrailOK
      <3>2. ASSUME NEW j \in 1..Len(outcomes'), j + Threshold > m PROVE outcomes'[j] = "failed"
        BY <1>3, <1>4, <1>7, <1>10, <2>0, <2>1, <3>2, LettersNumbers DEF TrailOK
      <3> QED BY <3>1, <3>2 DEF RunEnds
    <2>3. suspension.suspended' => \E k \in 1..Len(outcomes') : RunEnds(L, k)'
      BY <1>8, <2>0, <2>1
    <2>4. outcomes'[Len(outcomes')] # "ok"
      BY <1>4
    <2> QED BY <2>3, <2>4 DEF EarnedOK
  <1> QED BY <1>4, <1>7, <1>9, <1>10, <1>11 DEF SuspensionInv

\* A run of failures that nothing has broken since is the trailing run.
LEMMA UnbrokenRun ==
    ASSUME SuspensionInv, NEW L \in Nat, LastIs(L), TrailOK(L), NEW k \in 1..Len(outcomes), RunEnds(L, k),
           \A j \in 1..Len(outcomes) : j >= k => outcomes[j] # "ok"
    PROVE  suspension.suspended
  <1>1. outcomes \in Seq(Word) /\ Len(outcomes) \in Nat /\ k \in Nat /\ suspension.failures \in Nat
    BY LenProperties DEF SuspensionInv, SuspensionRow
  <1>2. ASSUME NEW j \in 1..Len(outcomes), j + Threshold > k PROVE outcomes[j] # "ok"
    BY <1>1, <1>2 DEF RunEnds
  <1>3. suspension.failures >= Threshold
    <2>1. CASE suspension.failures + L = Len(outcomes)
      BY <1>1, <2>1, LettersNumbers DEF RunEnds
    <2>2. CASE suspension.failures + L # Len(outcomes)
      <3>1. Len(outcomes) - suspension.failures \in 1..Len(outcomes) /\ outcomes[Len(outcomes) - suspension.failures] = "ok"
        BY <1>1, <2>2 DEF TrailOK
      <3>2. ~(Len(outcomes) - suspension.failures + Threshold > k)
        BY <1>2, <3>1
      <3> QED BY <1>1, <3>2, LettersNumbers
    <2> QED BY <2>1, <2>2
  <1> QED BY <1>3 DEF TrailOK

LEMMA SuccessCounts ==
    ASSUME SuspensionInv, NEW o \in Letters!Operator, Letters!RecordReplaySuccess(o)
    PROVE  SuspensionInv'
  <1>1. suspension' = [suspension EXCEPT !.known = TRUE, !.failures = 0] /\ outcomes' = Append(outcomes, "ok")
    BY DEF Letters!RecordReplaySuccess, Letters!AfterSuccess
  <1>2. PICK L \in Nat : LastIs(L) /\ TrailOK(L) /\ EarnedOK(L)
    BY DEF SuspensionInv
  <1>3. outcomes \in Seq(Word) /\ "ok" \in Word /\ suspension \in SuspensionRow
    BY DEF SuspensionInv, Word
  <1>4. /\ outcomes' \in Seq(Word) /\ Len(outcomes) \in Nat /\ Len(outcomes') = Len(outcomes) + 1
        /\ outcomes'[Len(outcomes) + 1] = "ok"
        /\ \A j \in 1..Len(outcomes) : outcomes'[j] = outcomes[j]
    BY <1>1, <1>3, OutcomeAdded
  <1>5. suspension' \in SuspensionRow /\ suspension.failures' = 0
    <2>1. TRUE \in BOOLEAN
      OBVIOUS
    <2> QED BY <1>1, <1>3, <2>1 DEF SuspensionRow
  <1>6. suspension.suspended' <=> suspension.suspended
    <2>1. suspension.suspended' = suspension.suspended
      BY <1>1, <1>3 DEF SuspensionRow
    <2> QED BY <2>1, Zenon
  <1>7. LastIs(L)'
    BY <1>2, <1>4 DEF LastIs
  <1>8. TrailOK(L)'
    <2>1. L <= Len(outcomes)
      BY <1>2, <1>4 DEF LastIs
    <2> QED BY <1>4, <1>5, <2>1, LettersNumbers DEF TrailOK
  <1>9. \A k \in 1..Len(outcomes) : RunEnds(L, k)' <=> RunEnds(L, k)
    BY <1>1, <1>3, RunStays
  <1>10. EarnedOK(L)'
    <2>1. suspension.suspended' => \E k \in 1..Len(outcomes') : RunEnds(L, k)'
      <3>1. \A k \in 1..Len(outcomes) : k \in 1..Len(outcomes')
        BY <1>4
      <3> QED BY <1>2, <1>6, <1>9, <3>1 DEF EarnedOK
    <2>2. ASSUME NEW m \in 1..Len(outcomes), m = Len(outcomes), RunEnds(L, m)' PROVE suspension.suspended
      <3>1. RunEnds(L, m)
        BY <1>9, <2>2
      <3>2. \A j \in 1..Len(outcomes) : j >= m => outcomes[j] # "ok"
        BY <1>4, <2>2, <3>1, LettersNumbers DEF RunEnds
      <3> QED BY <1>2, <2>2, <3>1, <3>2, UnbrokenRun
    <2>3. ASSUME Len(outcomes') > 1 PROVE Len(outcomes') - 1 = Len(outcomes) /\ Len(outcomes) \in 1..Len(outcomes)
      BY <1>4, <2>3
    <2>4. (Len(outcomes) > 1 /\ RunEnds(L, Len(outcomes) - 1))' => suspension.suspended
      BY <2>2, <2>3 DEF RunEnds
    <2> QED BY <1>6, <2>1, <2>4 DEF EarnedOK
  <1> QED BY <1>4, <1>5, <1>7, <1>8, <1>10 DEF SuspensionInv

LEMMA ResumeCounts ==
    ASSUME SuspensionInv, Letters!ResumeConsumer
    PROVE  SuspensionInv'
  <1>1. /\ suspension' = [suspension EXCEPT !.suspended = FALSE, !.failures = 0]
        /\ outcomes' = Append(outcomes, "resume")
    BY DEF Letters!ResumeConsumer
  <1>2. outcomes \in Seq(Word) /\ "resume" \in Word /\ suspension \in SuspensionRow
    BY DEF SuspensionInv, Word
  <1>3. /\ outcomes' \in Seq(Word) /\ Len(outcomes) \in Nat /\ Len(outcomes') = Len(outcomes) + 1
        /\ outcomes'[Len(outcomes) + 1] = "resume"
    BY <1>1, <1>2, OutcomeAdded
  <1>4. suspension' \in SuspensionRow /\ suspension.failures' = 0
    <2>1. FALSE \in BOOLEAN
      OBVIOUS
    <2> QED BY <1>1, <1>2, <2>1 DEF SuspensionRow
  <1>5. ~suspension.suspended'
    <2>1. suspension.suspended' = FALSE
      BY <1>1, <1>2 DEF SuspensionRow
    <2> QED BY <2>1, Zenon
  <1>6. PICK L \in Nat : L = Len(outcomes')
    BY <1>3
  <1>7. LastIs(L)'
    BY <1>3, <1>6 DEF LastIs
  <1>8. TrailOK(L)'
    BY <1>3, <1>4, <1>6, LettersNumbers DEF TrailOK
  <1>9. EarnedOK(L)'
    BY <1>3, <1>5 DEF EarnedOK
  <1> QED BY <1>3, <1>4, <1>7, <1>8, <1>9 DEF SuspensionInv

----------------------------------------------------------------------------
(* The dead-letter queue: entries and their replays                        *)

Place == {"idle", "gate", "replay", "history", "topic", "200", "refused"}
Request == [at : Place, of : Nat, failed : BOOLEAN]
Entry == [status : {"unused", "absent", "dead", "replayed"}, attempts : Nat, history : Seq(Nat)]

\* The request that replayed e, until it is refused.
Replayed(o, e) == call[o].at \in {"history", "topic", "200"} /\ call[o].of = e

\* One request replays an entry.  Its failure, once reported, is the second of the
\* history and the only attempt counted.
EntryOK(e) ==
    /\ replays[e] = 0 \/ replays[e] = 1
    /\ replays[e] = 0 => \A o \in Letters!Operator : ~Replayed(o, e)
    /\ \A o, p \in Letters!Operator : Replayed(o, e) /\ Replayed(p, e) => o = p
    /\ entry[e].status \in {"unused", "dead"} => replays[e] = 0
    /\ entry[e].status \in {"unused", "absent"} => Len(entry[e].history) = 0
    /\ entry[e].status \in {"dead", "replayed"} => entry[e].history[1] = 0
    /\ entry[e].status = "dead" => entry[e].attempts = EnqueuedWith /\ Len(entry[e].history) = 1
    /\ entry[e].status = "replayed" =>
          /\ \/ Len(entry[e].history) = 1 /\ entry[e].attempts = 0
             \/ Len(entry[e].history) = 2 /\ entry[e].attempts = 1 /\ MaxReplays >= 1
          /\ \A o \in Letters!Operator : Replayed(o, e) =>
                /\ call[o].at = "history" => Len(entry[e].history) = 1
                /\ call[o].failed /\ call[o].at # "history" => Len(entry[e].history) = 2 /\ entry[e].history[2] = o

RequestOK(o) == call[o].at \in {"gate", "replay", "history", "topic", "200"} => call[o].of \in Letters!DeadLetter

ReplayType == /\ entry \in [Letters!DeadLetter -> Entry] /\ call \in [Letters!Operator -> Request]
              /\ replays \in [Letters!DeadLetter -> Nat]
ReplayInv == /\ ReplayType /\ \A o \in Letters!Operator : RequestOK(o)
             /\ \A e \in Letters!DeadLetter : EntryOK(e)

LEMMA Moved ==
    ASSUME call \in [Letters!Operator -> Request], NEW o \in Letters!Operator, NEW where \in Place, Letters!At(o, where)
    PROVE  /\ call' \in [Letters!Operator -> Request] /\ call'[o].at = where /\ call'[o].of = call[o].of
           /\ call'[o].failed = call[o].failed /\ \A p \in Letters!Operator : p # o => call'[p] = call[p]
  BY DEF Letters!At, Request

LEMMA MovedOut ==
    ASSUME call \in [Letters!Operator -> Request], NEW o \in Letters!Operator, Letters!Refuse(o)
    PROVE  /\ call' \in [Letters!Operator -> Request] /\ call'[o].at = "refused"
           /\ \A p \in Letters!Operator : p # o => call'[p] = call[p]
  <1>1. Letters!Refused \in Request /\ Letters!Refused.at = "refused"
    <2>1. FALSE \in BOOLEAN
      OBVIOUS
    <2> QED BY <2>1 DEF Letters!Refused, Request, Place
  <1> QED BY <1>1 DEF Letters!Refuse

LEMMA ReplayInit == Letters!Init => ReplayInv
  <1> SUFFICES ASSUME Letters!Init PROVE ReplayInv
    OBVIOUS
  <1>1. /\ entry = [e \in Letters!DeadLetter |-> [Letters!Absent EXCEPT !.status = "unused"]]
        /\ call = [o \in Letters!Operator |-> Letters!Idle] /\ replays = [e \in Letters!DeadLetter |-> 0]
    BY DEF Letters!Init
  <1>2. <<>> \in Seq(Nat) /\ Len(<<>>) = 0
    OBVIOUS
  <1>3. PICK f : f = [Letters!Absent EXCEPT !.status = "unused"]
    OBVIOUS
  <1>4. f \in Entry /\ f.status = "unused" /\ Len(f.history) = 0
    BY <1>2, <1>3 DEF Letters!Absent, Entry
  <1>5. Letters!Idle \in Request /\ Letters!Idle.at = "idle"
    <2>1. FALSE \in BOOLEAN
      OBVIOUS
    <2> QED BY <2>1 DEF Letters!Idle, Request, Place
  <1>6. entry = [e \in Letters!DeadLetter |-> f]
    BY <1>1, <1>3
  <1>7. ReplayType
    BY <1>1, <1>4, <1>5, <1>6 DEF ReplayType
  <1>8. \A o \in Letters!Operator : RequestOK(o)
    BY <1>1, <1>5 DEF RequestOK
  <1>9. ASSUME NEW e \in Letters!DeadLetter PROVE EntryOK(e)
    BY <1>1, <1>4, <1>5, <1>6 DEF EntryOK, Replayed
  <1> QED BY <1>7, <1>8, <1>9 DEF ReplayInv

LEMMA EnqueueCounted ==
    ASSUME ReplayInv, NEW e \in Letters!DeadLetter, Letters!EnqueueDeadLetter(e)
    PROVE  ReplayInv'
  <1>1. /\ entry[e].status = "unused" /\ entry' = [entry EXCEPT ![e] = Letters!Fresh]
        /\ UNCHANGED <<call, replays>>
    BY DEF Letters!EnqueueDeadLetter
  <1>2. /\ Letters!Fresh.status = "dead" /\ Letters!Fresh.attempts = EnqueuedWith
        /\ Letters!Fresh.history = <<0>>
    BY DEF Letters!Fresh, Letters!Enqueued
  <1>3. <<0>> \in Seq(Nat) /\ Len(<<0>>) = 1 /\ <<0>>[1] = 0
    OBVIOUS
  <1>4. Letters!Fresh \in Entry
    BY <1>3, LettersNumbers DEF Letters!Fresh, Letters!Enqueued, Entry
  <1>5. ReplayType'
    BY <1>1, <1>4 DEF ReplayInv, ReplayType
  <1>6. ASSUME NEW f \in Letters!DeadLetter PROVE EntryOK(f)'
    <2>1. EntryOK(f) /\ entry'[f] = IF f = e THEN Letters!Fresh ELSE entry[f]
      BY <1>1 DEF ReplayInv, ReplayType
    <2>2. CASE f = e
      BY <1>1, <1>2, <1>3, <2>1, <2>2 DEF EntryOK, Replayed
    <2>3. CASE f # e
      BY <1>1, <2>1, <2>3 DEF EntryOK, Replayed
    <2> QED BY <2>2, <2>3
  <1>7. \A o \in Letters!Operator : RequestOK(o)'
    BY <1>1 DEF ReplayInv, RequestOK
  <1> QED BY <1>5, <1>6, <1>7 DEF ReplayInv

\* Entries are deleted, by an operator or by the purge.
LEMMA DeletionCounted ==
    ASSUME ReplayInv, UNCHANGED <<call, replays>>,
           NEW gone \in SUBSET {e \in Letters!DeadLetter : Letters!Present(e)},
           entry' = [e \in Letters!DeadLetter |-> IF e \in gone THEN Letters!Absent ELSE entry[e]]
    PROVE  ReplayInv'
  <1>1. <<>> \in Seq(Nat) /\ Len(<<>>) = 0
    OBVIOUS
  <1>2. Letters!Absent \in Entry /\ Letters!Absent.status = "absent" /\ Len(Letters!Absent.history) = 0
    BY <1>1 DEF Letters!Absent, Entry
  <1>3. ReplayType'
    BY <1>2 DEF ReplayInv, ReplayType
  <1>4. ASSUME NEW f \in Letters!DeadLetter PROVE EntryOK(f)'
    <2>1. EntryOK(f) /\ entry'[f] = IF f \in gone THEN Letters!Absent ELSE entry[f]
      BY DEF ReplayInv
    <2>2. CASE f \in gone
      BY <1>2, <2>1, <2>2 DEF EntryOK, Replayed
    <2>3. CASE f \notin gone
      BY <2>1, <2>3 DEF EntryOK, Replayed
    <2> QED BY <2>2, <2>3
  <1>5. \A o \in Letters!Operator : RequestOK(o)'
    BY DEF ReplayInv, RequestOK
  <1> QED BY <1>3, <1>4, <1>5 DEF ReplayInv

LEMMA DeletionsCounted ==
    ASSUME ReplayInv, (\E e \in Letters!DeadLetter : Letters!DeleteById(e)) \/ Letters!DeleteAll \/ Letters!RunDlqPurge
    PROVE  ReplayInv'
  <1>0. entry \in [Letters!DeadLetter -> Entry]
    BY DEF ReplayInv, ReplayType
  <1>1. ASSUME NEW e \in Letters!DeadLetter, Letters!DeleteById(e) PROVE ReplayInv'
    <2>1. PICK gone \in SUBSET {f \in Letters!DeadLetter : Letters!Present(f)} : gone = {e}
      BY <1>1 DEF Letters!DeleteById
    <2>2. entry' = [f \in Letters!DeadLetter |-> IF f \in gone THEN Letters!Absent ELSE entry[f]]
      BY <1>0, <1>1, <2>1 DEF Letters!DeleteById
    <2> QED BY <1>1, <2>2, DeletionCounted DEF Letters!DeleteById
  <1>2. ASSUME Letters!DeleteAll PROVE ReplayInv'
    <2>1. PICK gone \in SUBSET {f \in Letters!DeadLetter : Letters!Present(f)} :
             gone = {f \in Letters!DeadLetter : Letters!Present(f)}
      OBVIOUS
    <2>2. entry' = [f \in Letters!DeadLetter |-> IF f \in gone THEN Letters!Absent ELSE entry[f]]
      BY <1>2, <2>1 DEF Letters!DeleteAll
    <2> QED BY <1>2, <2>2, DeletionCounted DEF Letters!DeleteAll
  <1>3. ASSUME Letters!RunDlqPurge PROVE ReplayInv'
    BY <1>3, DeletionCounted DEF Letters!RunDlqPurge
  <1> QED BY <1>1, <1>2, <1>3

\* A request that moves without having replayed anything, or that gives up.
LEMMA MoveCounted ==
    ASSUME ReplayInv, UNCHANGED <<entry, replays>>, call' \in [Letters!Operator -> Request],
           NEW o \in Letters!Operator, \A p \in Letters!Operator : p # o => call'[p] = call[p],
           \/ call'[o].at = "refused"
           \/ call'[o].at \in {"gate", "replay"} /\ call'[o].of \in Letters!DeadLetter
    PROVE  ReplayInv'
  <1>1. \A p \in Letters!Operator, e \in Letters!DeadLetter : Replayed(p, e)' => Replayed(p, e) /\ call'[p] = call[p]
    BY DEF Replayed
  <1>2. ReplayType'
    BY DEF ReplayInv, ReplayType
  <1>3. ASSUME NEW p \in Letters!Operator PROVE RequestOK(p)'
    BY DEF ReplayInv, RequestOK
  <1>4. ASSUME NEW e \in Letters!DeadLetter PROVE EntryOK(e)'
    <2>1. EntryOK(e)
      BY DEF ReplayInv
    <2> QED BY <1>1, <2>1 DEF EntryOK
  <1> QED BY <1>2, <1>3, <1>4 DEF ReplayInv

LEMMA RequestsCounted ==
    ASSUME ReplayInv, NEW o \in Letters!Operator,
           \/ \E e \in Letters!DeadLetter, failed \in BOOLEAN : Letters!ReplayRequest(o, e, failed)
           \/ Letters!SuspensionGate(o) \/ Letters!StatementFails(o)
    PROVE  ReplayInv'
  <1>0. call \in [Letters!Operator -> Request] /\ RequestOK(o)
    BY DEF ReplayInv, ReplayType
  <1>1. ASSUME Letters!Refuse(o), UNCHANGED <<entry, replays>> PROVE ReplayInv'
    BY <1>0, <1>1, MovedOut, MoveCounted
  <1>2. ASSUME NEW e \in Letters!DeadLetter, NEW failed \in BOOLEAN,
               call' = [call EXCEPT ![o] = [at |-> "gate", of |-> e, failed |-> failed]], UNCHANGED <<entry, replays>>
        PROVE  ReplayInv'
    <2>1. PICK c \in Request : c = [at |-> "gate", of |-> e, failed |-> failed]
      <3>1. e \in Nat
        BY LettersNumbers DEF Letters!DeadLetter
      <3>2. [at |-> "gate", of |-> e, failed |-> failed] \in Request
        BY <3>1 DEF Request, Place
      <3> QED BY <3>2, Zenon
    <2>2. call' = [call EXCEPT ![o] = c] /\ c.at = "gate" /\ c.of = e
      BY <1>2, <2>1
    <2>3. /\ call' \in [Letters!Operator -> Request] /\ call'[o] = c
          /\ \A p \in Letters!Operator : p # o => call'[p] = call[p]
      BY <1>0, <2>2
    <2> QED BY <1>2, <2>2, <2>3, MoveCounted
  <1>3. ASSUME call[o].at = "gate", Letters!At(o, "replay"), UNCHANGED <<entry, replays>> PROVE ReplayInv'
    <2>1. "replay" \in Place
      BY DEF Place
    <2>2. /\ call' \in [Letters!Operator -> Request] /\ call'[o].at = "replay" /\ call'[o].of = call[o].of
          /\ \A p \in Letters!Operator : p # o => call'[p] = call[p]
      BY <1>0, <1>3, <2>1, Moved
    <2>3. call'[o].of \in Letters!DeadLetter
      BY <1>0, <1>3, <2>2 DEF RequestOK
    <2> QED BY <1>3, <2>2, <2>3, MoveCounted
  <1>4. ASSUME NEW e \in Letters!DeadLetter, NEW failed \in BOOLEAN, Letters!ReplayRequest(o, e, failed)
        PROVE  ReplayInv'
    BY <1>1, <1>2, <1>4 DEF Letters!ReplayRequest
  <1>5. ASSUME Letters!SuspensionGate(o) PROVE ReplayInv'
    BY <1>1, <1>3, <1>5 DEF Letters!SuspensionGate
  <1>6. ASSUME Letters!StatementFails(o) PROVE ReplayInv'
    BY <1>1, <1>6 DEF Letters!StatementFails
  <1> QED BY <1>4, <1>5, <1>6

LEMMA ReplayCounted ==
    ASSUME ReplayInv, NEW o \in Letters!Operator, Letters!ReplayEntry(o)
    PROVE  ReplayInv'
  <1>0. call \in [Letters!Operator -> Request] /\ call[o].at = "replay" /\ RequestOK(o)
    BY DEF ReplayInv, ReplayType, Letters!ReplayEntry
  <1>1. PICK e \in Letters!DeadLetter : e = call[o].of
    BY <1>0 DEF RequestOK
  <1>2. CASE ~Letters!StillDead(e)
    <2>1. Letters!Refuse(o) /\ UNCHANGED <<entry, replays>>
      BY <1>1, <1>2 DEF Letters!ReplayEntry
    <2> QED BY <1>0, <2>1, MovedOut, MoveCounted
  <1>3. CASE Letters!StillDead(e)
    <2>1. /\ entry' = [entry EXCEPT ![e] = [entry[e] EXCEPT !.status = "replayed", !.attempts = 0]]
          /\ replays' = [replays EXCEPT ![e] = replays[e] + 1]
          /\ Letters!At(o, IF call[o].failed THEN "history" ELSE "topic")
      BY <1>1, <1>3 DEF Letters!ReplayEntry
    <2>2. PICK where \in {"history", "topic"} : Letters!At(o, where) /\ (call[o].failed => where = "history")
      <3>1. CASE call[o].failed
        BY <2>1, <3>1
      <3>2. CASE ~call[o].failed
        BY <2>1, <3>2
      <3> QED BY <3>1, <3>2
    <2>3. /\ call' \in [Letters!Operator -> Request] /\ call'[o].at = where /\ call'[o].of = e
          /\ call'[o].failed = call[o].failed /\ \A p \in Letters!Operator : p # o => call'[p] = call[p]
      <3>1. where \in Place
        BY DEF Place
      <3> QED BY <1>0, <1>1, <2>2, <3>1, Moved
    <2>4. call'[o].failed => where = "history"
      BY <2>2, <2>3, Zenon
    <2>5. PICK f : f = [entry[e] EXCEPT !.status = "replayed", !.attempts = 0]
      OBVIOUS
    <2>6. entry[e] \in Entry /\ entry \in [Letters!DeadLetter -> Entry] /\ EntryOK(e) /\ entry[e].status = "dead"
      BY <1>3 DEF ReplayInv, ReplayType, Letters!StillDead
    <2>7. f \in Entry /\ f.status = "replayed" /\ f.attempts = 0 /\ f.history = entry[e].history
      BY <2>5, <2>6 DEF Entry
    <2>8. entry' = [entry EXCEPT ![e] = f]
      BY <2>1, <2>5
    <2>9. replays[e] = 0 /\ Len(f.history) = 1 /\ f.history[1] = 0 /\ \A p \in Letters!Operator : ~Replayed(p, e)
      BY <2>6, <2>7 DEF EntryOK
    <2>10. entry'[e] = f /\ replays'[e] = 1 /\ ReplayType'
      BY <2>1, <2>3, <2>6, <2>7, <2>8, <2>9 DEF ReplayInv, ReplayType
    <2>11. ASSUME NEW p \in Letters!Operator, NEW g \in Letters!DeadLetter, Replayed(p, g)'
           PROVE  IF g = e THEN p = o ELSE p # o /\ Replayed(p, g) /\ call'[p] = call[p]
      BY <2>3, <2>9, <2>11 DEF Replayed
    <2>12. EntryOK(e)'
      BY <2>3, <2>4, <2>7, <2>9, <2>10, <2>11 DEF EntryOK
    <2>13. ASSUME NEW g \in Letters!DeadLetter, g # e PROVE EntryOK(g)'
      <3>1. EntryOK(g) /\ entry'[g] = entry[g] /\ replays'[g] = replays[g]
        BY <2>1, <2>6, <2>8, <2>13 DEF ReplayInv, ReplayType
      <3> QED BY <2>11, <2>13, <3>1 DEF EntryOK
    <2>14. ASSUME NEW p \in Letters!Operator PROVE RequestOK(p)'
      BY <2>3 DEF ReplayInv, RequestOK
    <2> QED BY <2>10, <2>12, <2>13, <2>14 DEF ReplayInv
  <1> QED BY <1>2, <1>3

LEMMA FailureRecorded ==
    ASSUME ReplayInv, NEW o \in Letters!Operator, Letters!RecordFailure(o)
    PROVE  ReplayInv'
  <1>0. call \in [Letters!Operator -> Request] /\ call[o].at = "history" /\ RequestOK(o) /\ "topic" \in Place
    BY DEF ReplayInv, ReplayType, Letters!RecordFailure, Place
  <1>1. PICK e \in Letters!DeadLetter : e = call[o].of
    BY <1>0 DEF RequestOK
  <1>2. /\ call' \in [Letters!Operator -> Request] /\ call'[o].at = "topic" /\ call'[o].of = e
        /\ call'[o].failed = call[o].failed /\ \A p \in Letters!Operator : p # o => call'[p] = call[p]
    <2>1. Letters!At(o, "topic")
      BY DEF Letters!RecordFailure
    <2> QED BY <1>0, <1>1, <2>1, Moved
  <1>3. \A p \in Letters!Operator, g \in Letters!DeadLetter :
           /\ Replayed(p, g)' <=> Replayed(p, g)
           /\ Replayed(p, g) /\ g # e => call'[p] = call[p]
    BY <1>0, <1>1, <1>2 DEF Replayed
  <1>4. Replayed(o, e) /\ replays' = replays
    BY <1>0, <1>1 DEF Replayed, Letters!RecordFailure
  <1>5. EntryOK(e) /\ entry[e] \in Entry /\ entry \in [Letters!DeadLetter -> Entry]
    BY DEF ReplayInv, ReplayType
  <1>6. \A p \in Letters!Operator : Replayed(p, e) => p = o
    BY <1>4, <1>5 DEF EntryOK
  <1>7. \A p \in Letters!Operator : RequestOK(p)'
    BY <1>2 DEF ReplayInv, RequestOK
  <1>8. CASE ~Letters!Present(e)
    <2>1. entry' = entry
      BY <1>1, <1>8 DEF Letters!RecordFailure
    <2>2. ReplayType'
      BY <1>2, <1>4, <2>1 DEF ReplayInv, ReplayType
    <2>3. ASSUME NEW g \in Letters!DeadLetter, g # e PROVE EntryOK(g)'
      <3>1. EntryOK(g)
        BY DEF ReplayInv
      <3> QED BY <1>3, <1>4, <2>1, <2>3, <3>1 DEF EntryOK
    <2>4. EntryOK(e)'
      BY <1>3, <1>4, <1>5, <1>8, <2>1 DEF EntryOK, Letters!Present
    <2> QED BY <1>7, <2>2, <2>3, <2>4 DEF ReplayInv
  <1>9. CASE Letters!Present(e)
    <2>1. entry' = [entry EXCEPT ![e] = [entry[e] EXCEPT !.attempts = entry[e].attempts + 1,
                                                         !.history = Append(entry[e].history, o)]]
      BY <1>1, <1>9 DEF Letters!RecordFailure
    <2>2. entry[e].status = "replayed" /\ Len(entry[e].history) = 1 /\ entry[e].attempts = 0 /\ entry[e].history[1] = 0
      BY <1>0, <1>4, <1>5, <1>9 DEF EntryOK, Letters!Present
    <2>3. PICK h : h = Append(entry[e].history, o)
      OBVIOUS
    <2>4. o \in Nat /\ MaxReplays >= 1
      BY LettersNumbers DEF Letters!Operator
    <2>5. h \in Seq(Nat) /\ Len(h) = 2 /\ h[1] = 0 /\ h[2] = o
      <3>1. entry[e].history \in Seq(Nat)
        BY <1>5 DEF Entry
      <3> QED BY <2>2, <2>3, <2>4, <3>1, AppendProperties, SMTT(40)
    <2>6. PICK f : f = [entry[e] EXCEPT !.attempts = entry[e].attempts + 1, !.history = h]
      OBVIOUS
    <2>7. f \in Entry /\ f.status = "replayed" /\ f.attempts = 1 /\ f.history = h
      <3>1. f = [entry[e] EXCEPT !.attempts = 1, !.history = h]
        BY <2>2, <2>6
      <3>2. 1 \in Nat
        OBVIOUS
      <3> QED BY <1>5, <2>2, <2>5, <3>1, <3>2 DEF Entry
    <2>8. entry' = [entry EXCEPT ![e] = f]
      BY <2>1, <2>3, <2>6
    <2>9. entry'[e] = f /\ ReplayType'
      BY <1>2, <1>4, <1>5, <2>7, <2>8 DEF ReplayInv, ReplayType
    <2>10. \A p \in Letters!Operator : Replayed(p, e)' => p = o
      BY <1>3, <1>6
    <2>11. EntryOK(e)'
      BY <2>10, <1>2, <1>3, <1>4, <1>5, <1>6, <2>4, <2>5, <2>7, <2>9 DEF EntryOK
    <2>12. ASSUME NEW g \in Letters!DeadLetter, g # e PROVE EntryOK(g)'
      <3>1. EntryOK(g) /\ entry'[g] = entry[g]
        BY <1>5, <2>8, <2>12 DEF ReplayInv
      <3> QED BY <1>3, <1>4, <2>12, <3>1 DEF EntryOK
    <2> QED BY <1>7, <2>9, <2>11, <2>12 DEF ReplayInv
  <1> QED BY <1>8, <1>9

LEMMA TopicToldCounted ==
    ASSUME ReplayInv, NEW o \in Letters!Operator, Letters!RecordReplayFailure(o) \/ Letters!RecordReplaySuccess(o)
    PROVE  ReplayInv'
  <1>0. /\ call \in [Letters!Operator -> Request] /\ call[o].at = "topic" /\ RequestOK(o) /\ "200" \in Place
        /\ UNCHANGED <<entry, replays>> /\ Letters!At(o, "200")
    BY DEF ReplayInv, ReplayType, Letters!RecordReplayFailure, Letters!RecordReplaySuccess, Place
  <1>1. /\ call' \in [Letters!Operator -> Request] /\ call'[o].at = "200" /\ call'[o].of = call[o].of
        /\ call'[o].failed = call[o].failed /\ \A p \in Letters!Operator : p # o => call'[p] = call[p]
    BY <1>0, Moved
  <1>2. \A p \in Letters!Operator, g \in Letters!DeadLetter : Replayed(p, g)' <=> Replayed(p, g)
    BY <1>0, <1>1 DEF Replayed
  <1>3. \A p \in Letters!Operator : /\ call'[p].failed <=> call[p].failed
                                    /\ call'[p].at = "history" <=> call[p].at = "history"
    BY <1>0, <1>1
  <1>4. ASSUME NEW g \in Letters!DeadLetter PROVE EntryOK(g)'
    <2>1. EntryOK(g)
      BY DEF ReplayInv
    <2> QED BY <1>0, <1>2, <1>3, <2>1 DEF EntryOK
  <1>5. \A p \in Letters!Operator : RequestOK(p)'
    BY <1>0, <1>1 DEF ReplayInv, RequestOK
  <1>6. ReplayType'
    BY <1>0, <1>1 DEF ReplayInv, ReplayType
  <1> QED BY <1>4, <1>5, <1>6 DEF ReplayInv

LEMMA LettersStep ==
    ReplayInv /\ SuspensionInv /\ [Letters!Next]_(Letters!dlqVars) => (ReplayInv /\ SuspensionInv)'
  <1> SUFFICES ASSUME ReplayInv, SuspensionInv, [Letters!Next]_(Letters!dlqVars) PROVE ReplayInv' /\ SuspensionInv'
    OBVIOUS
  <1>1. ASSUME UNCHANGED <<entry, call, replays>> PROVE ReplayInv'
    BY <1>1 DEF ReplayInv, ReplayType, RequestOK, EntryOK, Replayed
  <1>2. ReplayInv'
    BY <1>1, EnqueueCounted, DeletionsCounted, RequestsCounted, ReplayCounted, FailureRecorded, TopicToldCounted
       DEF Letters!Next, Letters!ResumeConsumer, Letters!dlqVars
  <1>3. ASSUME UNCHANGED <<suspension, outcomes>> PROVE SuspensionInv'
    BY <1>3 DEF SuspensionInv, LastIs, TrailOK, EarnedOK, RunEnds
  <1>4. SuspensionInv'
    BY <1>3, FailureCounts, SuccessCounts, ResumeCounts
       DEF Letters!Next, Letters!EnqueueDeadLetter, Letters!DeleteById, Letters!DeleteAll, Letters!RunDlqPurge,
           Letters!ReplayRequest, Letters!SuspensionGate, Letters!ReplayEntry, Letters!RecordFailure,
           Letters!StatementFails, Letters!dlqVars
  <1> QED BY <1>2, <1>4

LEMMA LettersCount == ASSUME NEW S PROVE Letters!Cardinality(S) = Cardinality(S)
  BY DEF Letters!Cardinality, Cardinality

\* However replay requests, deletions, purges and resumes overlap, and whichever
\* statement of a request fails: an entry is replayed by one request, one that
\* survives shows the failure reported for it, a suspension was earned by Threshold
\* failures in a row since the last resume, and a success alone lifts none.
THEOREM ReplaysAreAccounted == Letters!Spec => []ReplaysAccounted
  <1>1. ReplayInv /\ SuspensionInv => ReplaysAccounted
    <2> SUFFICES ASSUME ReplayInv, SuspensionInv PROVE ReplaysAccounted
      OBVIOUS
    <2>1. Letters!DlqTypeOK
      <3>1. ASSUME NEW e \in Letters!DeadLetter
            PROVE  /\ entry[e].status \in {"unused", "absent", "dead", "replayed"} /\ entry[e].attempts \in Nat
                   /\ Len(entry[e].history) <= 1 + Letters!Cardinality(Letters!Operator)
        <4>1. EntryOK(e) /\ entry[e] \in Entry
          BY DEF ReplayInv, ReplayType
        <4>2. Letters!Cardinality(Letters!Operator) = MaxReplays
          <5>1. Cardinality(1..MaxReplays) = MaxReplays
            BY LettersNumbers, FS_Interval
          <5> QED BY <5>1, LettersCount DEF Letters!Operator
        <4>3. /\ entry[e].status \in {"unused", "absent", "dead", "replayed"} /\ entry[e].attempts \in Nat
              /\ entry[e].history \in Seq(Nat)
          BY <4>1 DEF Entry
        <4>4. PICK n \in Nat : n = Len(entry[e].history)
          BY <4>3, LenProperties
        <4>5. n = 0 \/ n = 1 \/ (n = 2 /\ MaxReplays >= 1)
          <5>1. CASE entry[e].status \in {"unused", "absent"}
            BY <4>1, <4>4, <5>1 DEF EntryOK
          <5>2. CASE entry[e].status = "dead"
            BY <4>1, <4>4, <5>2 DEF EntryOK
          <5>3. CASE entry[e].status = "replayed"
            BY <4>1, <4>4, <5>3 DEF EntryOK
          <5> QED BY <4>3, <5>1, <5>2, <5>3
        <4>6. n <= 1 + MaxReplays
          BY <4>5, LettersNumbers
        <4> QED BY <4>2, <4>3, <4>4, <4>6
      <3>2. suspension \in SuspensionRow
        BY DEF SuspensionInv
      <3>3. ASSUME NEW o \in Letters!Operator
            PROVE  call[o].at \in {"idle", "gate", "replay", "history", "topic", "200", "refused"}
        BY DEF ReplayInv, ReplayType, Request, Place
      <3>4. suspension.failures \in Nat /\ suspension.known \in BOOLEAN /\ suspension.suspended \in BOOLEAN
        BY <3>2 DEF SuspensionRow
      <3> QED BY <3>1, <3>3, <3>4 DEF Letters!DlqTypeOK
    <2>2. Letters!HistoryKept
      <3> SUFFICES ASSUME NEW e \in Letters!DeadLetter
                   PROVE  /\ replays[e] <= 1
                          /\ Letters!Present(e) => entry[e].history[1] = Letters!Enqueued
                          /\ Letters!StillDead(e) => entry[e].attempts = EnqueuedWith /\ Len(entry[e].history) = 1
                          /\ entry[e].status = "replayed" =>
                                /\ entry[e].attempts = Len(entry[e].history) - 1
                                /\ \A o \in Letters!Operator :
                                      call[o].at = "200" /\ call[o].failed /\ call[o].of = e =>
                                          \E k \in DOMAIN entry[e].history : entry[e].history[k] = o
        BY DEF Letters!HistoryKept
      <3>1. EntryOK(e) /\ entry[e].history \in Seq(Nat)
        BY DEF ReplayInv, ReplayType, Entry
      <3>2. DOMAIN entry[e].history = 1..Len(entry[e].history)
        BY <3>1, LenProperties
      <3>3. /\ replays[e] <= 1
            /\ Letters!Present(e) => entry[e].history[1] = Letters!Enqueued
            /\ Letters!StillDead(e) => entry[e].attempts = EnqueuedWith /\ Len(entry[e].history) = 1
        BY <3>1 DEF EntryOK, Letters!Present, Letters!StillDead, Letters!Enqueued
      <3>4. ASSUME entry[e].status = "replayed" PROVE entry[e].attempts = Len(entry[e].history) - 1
        <4>1. PICK n, a : n = Len(entry[e].history) /\ a = entry[e].attempts
          OBVIOUS
        <4>2. (n = 1 /\ a = 0) \/ (n = 2 /\ a = 1)
          BY <3>1, <3>4, <4>1 DEF EntryOK
        <4>3. a = n - 1
          BY <4>2
        <4> QED BY <4>1, <4>3
      <3>5. ASSUME entry[e].status = "replayed", NEW o \in Letters!Operator, call[o].at = "200", call[o].failed, call[o].of = e
            PROVE  \E k \in DOMAIN entry[e].history : entry[e].history[k] = o
        <4>1. Len(entry[e].history) = 2 /\ entry[e].history[2] = o
          BY <3>1, <3>5 DEF EntryOK, Replayed
        <4>2. 2 \in DOMAIN entry[e].history
          BY <3>2, <4>1
        <4> QED BY <4>1, <4>2
      <3> QED BY <3>3, <3>4, <3>5
    <2>3. PICK L \in Nat : LastIs(L) /\ TrailOK(L) /\ EarnedOK(L)
      BY DEF SuspensionInv
    <2>4. outcomes \in Seq(Word) /\ DOMAIN outcomes = 1..Len(outcomes) /\ Len(outcomes) \in Nat
      BY LenProperties DEF SuspensionInv
    <2>5. \A k \in 1..Len(outcomes) : Letters!FailureRun(k) <=> RunEnds(L, k)
      BY <2>3, <2>4, FailureRunIs
    <2>6. Letters!SuspensionEarned
      <3>1. suspension.suspended => \E k \in DOMAIN outcomes : Letters!FailureRun(k)
        BY <2>3, <2>4, <2>5 DEF EarnedOK
      <3>2. ASSUME NEW k \in DOMAIN outcomes, Letters!FailureRun(k), \A j \in k..Len(outcomes) : outcomes[j] # "ok"
            PROVE  suspension.suspended
        <4>1. k \in 1..Len(outcomes) /\ RunEnds(L, k)
          BY <2>4, <2>5, <3>2
        <4>2. \A j \in 1..Len(outcomes) : j >= k => outcomes[j] # "ok"
          BY <2>4, <3>2, <4>1
        <4> QED BY <2>3, <4>1, <4>2, UnbrokenRun
      <3> QED BY <3>1, <3>2 DEF Letters!SuspensionEarned
    <2>7. Letters!SuccessLiftsNothing
      <3>1. ASSUME Len(outcomes) > 1 PROVE Len(outcomes) - 1 \in 1..Len(outcomes)
        BY <2>4, <3>1
      <3> QED BY <2>3, <2>5, <3>1 DEF Letters!SuccessLiftsNothing, EarnedOK
    <2> QED BY <2>1, <2>2, <2>6, <2>7 DEF ReplaysAccounted, Letters!ReplaysAccounted
  <1> QED BY <1>1, ReplayInit, SuspensionInit, LettersStep, PTL DEF Letters!Spec
============================================================================

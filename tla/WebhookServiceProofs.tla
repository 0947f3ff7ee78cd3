----------------------- MODULE WebhookServiceProofs ------------------------
(***************************************************************************)
(* The webhook service, for any number of deliveries, retry requests and   *)
(* attempts: no delivery is forgotten however its calls interleave, and    *)
(* serial retries send it once.  And the store behind it, for any number   *)
(* of items, dead letters and crashes: the mirror loses nothing.           *)
(***************************************************************************)
EXTENDS MCWebhookService, FiniteSetTheorems, SequenceTheorems, TLAPS

Mark == {"none", "later", "due"}

DeliveryType ==
    /\ status \in [Delivery -> {"new", "pending", "delivered", "permanent_failure"}]
    /\ attempts \in [Delivery -> Seq(Mark)] /\ stored \subseteq Delivery
    /\ dlq \in [Delivery -> {"no", "queued", "handled"}]
    /\ pc \in [Task -> {"idle", "gate", "http", "record"}]
    /\ list \in [Task -> SUBSET Delivery] /\ cur \in [Task -> Delivery]
    /\ number \in [Task -> Nat] /\ mine \in [Task -> Nat]
    /\ answer \in [Task -> Outcome \cup {"none"}]
    /\ denials \in 0..MaxDenials
    /\ posts \in [Delivery -> Nat] /\ acks \in [Delivery -> Nat]

\* A call has its delivery on its list from the gate to the breaker's verdict, and
\* the position it keeps is that of an attempt which was recorded.
CallOK(t) ==
    /\ pc[t] = "idle" <=> list[t] = {}
    /\ pc[t] \in {"http", "record"} => cur[t] \in list[t]
    /\ pc[t] # "record" => mine[t] = 0
    /\ pc[t] = "record" => mine[t] \in 1..Len(attempts[cur[t]])
    /\ t \in Delivery => list[t] \subseteq {t}

\* Until its first attempt is recorded, queueDelivery alone has a delivery in hand.
FirstOK(d) ==
    /\ status[d] = "new" => attempts[d] = <<>> /\ \A t \in Task : d \notin list[t]
    /\ pc[d] \in {"gate", "http"} => attempts[d] = <<>>
    /\ attempts[d] = <<>> =>
          /\ \A t \in Task : d \in list[t] => t = d /\ pc[t] # "record"
          /\ status[d] = "new" \/ (status[d] = "pending" /\ d \in list[d])

\* A last attempt without a retry is a success, is dead-lettered, or is still the
\* business of the call that recorded it.
LastOK(d) ==
    attempts[d] # <<>> /\ Last(attempts[d]) = "none" =>
        \/ status[d] = "delivered" \/ dlq[d] # "no"
        \/ \E t \in Task : pc[t] = "record" /\ cur[t] = d /\ mine[t] = Len(attempts[d])

DeadOK(d) == status[d] = "permanent_failure" => dlq[d] # "no"

DeliveryInv == /\ DeliveryType /\ overlapped \in BOOLEAN /\ \A t \in Task : CallOK(t)
               /\ \A d \in Delivery : FirstOK(d) /\ LastOK(d) /\ DeadOK(d)

----------------------------------------------------------------------------
(* Lists of attempts                                                       *)

LEMMA SeqFacts == ASSUME NEW s \in Seq(Mark) PROVE Len(s) \in Nat /\ (s = <<>> <=> Len(s) = 0)
  BY LenProperties, EmptySeq

LEMMA Pushed ==
    ASSUME NEW s \in Seq(Mark), NEW m \in Mark
    PROVE  /\ Append(s, m) \in Seq(Mark) /\ Len(Append(s, m)) = Len(s) + 1 /\ Append(s, m) # <<>>
           /\ Last(Append(s, m)) = m
  <1>1. /\ Append(s, m) \in Seq(Mark) /\ Len(Append(s, m)) = Len(s) + 1 /\ Len(s) \in Nat
        /\ Append(s, m)[Len(s) + 1] = m
    BY AppendProperties, LenProperties
  <1>2. Append(s, m) # <<>>
    BY <1>1, SeqFacts
  <1> QED BY <1>1, <1>2 DEF Last

LEMMA Overwritten ==
    ASSUME NEW s \in Seq(Mark), NEW k \in 1..Len(s), NEW m \in Mark, NEW q, q = [s EXCEPT ![k] = m]
    PROVE  /\ q \in Seq(Mark) /\ Len(q) = Len(s) /\ q # <<>>
           /\ Last(q) = IF k = Len(s) THEN m ELSE Last(s)
  <1>1. q \in Seq(Mark) /\ Len(q) = Len(s)
    BY ExceptSeq
  <1>2. Len(s) \in Nat /\ k \in Nat /\ k >= 1 /\ k <= Len(s) /\ Len(s) \in DOMAIN s
    BY LenProperties
  <1>3. q # <<>>
    BY <1>1, <1>2, SeqFacts
  <1> QED BY <1>1, <1>2, <1>3 DEF Last

LEMMA Calls ==
    ASSUME NEW d \in Delivery, NEW c \in Caller
    PROVE  d \in Task /\ c \in Task /\ c \notin Delivery /\ d \notin Caller
  BY DeliveryAssumption DEF Task

LEMMA DeliveryInit == Init => DeliveryInv
  <1> SUFFICES ASSUME Init PROVE DeliveryInv
    OBVIOUS
  <1>1. <<>> \in Seq(Mark) /\ (CHOOSE d \in Delivery : TRUE) \in Delivery /\ MaxDenials \in Nat
    BY DeliveryAssumption
  <1>2. DeliveryType
    BY <1>1 DEF Init, DeliveryType
  <1>3. overlapped \in BOOLEAN
    BY Zenon DEF Init
  <1>4. ASSUME NEW t \in Task PROVE CallOK(t)
    BY DEF Init, CallOK
  <1>5. ASSUME NEW d \in Delivery PROVE FirstOK(d) /\ LastOK(d) /\ DeadOK(d)
    BY DEF Init, FirstOK, LastOK, DeadOK, Task
  <1> QED BY <1>2, <1>3, <1>4, <1>5 DEF DeliveryInv

LEMMA QueueKeeps ==
    ASSUME DeliveryInv, NEW d \in Delivery, QueueDelivery(d)
    PROVE  DeliveryInv'
  <1>1. /\ status[d] = "new" /\ status' = [status EXCEPT ![d] = "pending"] /\ stored' = stored \cup {d}
        /\ pc' = [pc EXCEPT ![d] = "gate"] /\ list' = [list EXCEPT ![d] = {d}]
        /\ UNCHANGED <<attempts, dlq, cur, number, mine, answer, denials, posts, acks, overlapped>>
    BY DEF QueueDelivery
  <1>2. /\ d \in Task /\ attempts[d] = <<>> /\ \A t \in Task : d \notin list[t]
    BY <1>1 DEF DeliveryInv, FirstOK, Task
  <1>3. list[d] = {} /\ pc[d] = "idle" /\ mine[d] = 0
    BY <1>2 DEF DeliveryInv, CallOK
  <1>4. DeliveryType'
    BY <1>1, <1>2 DEF DeliveryInv, DeliveryType
  <1>5. ASSUME NEW t \in Task PROVE CallOK(t)'
    BY <1>1, <1>2, <1>3 DEF DeliveryInv, DeliveryType, CallOK
  <1>6. ASSUME NEW x \in Delivery PROVE FirstOK(x)' /\ DeadOK(x)'
    BY <1>1, <1>2, <1>3 DEF DeliveryInv, DeliveryType, FirstOK, DeadOK, Task
  <1>7. ASSUME NEW x \in Delivery PROVE LastOK(x)'
    <2>1. CASE x = d
      BY <1>1, <1>2, <2>1 DEF LastOK
    <2>2. CASE x # d
      <3>1. ASSUME NEW t \in Task, pc[t] = "record", cur[t] = x, mine[t] = Len(attempts[x])
            PROVE  pc'[t] = "record" /\ cur'[t] = x /\ mine'[t] = Len(attempts'[x])
        BY <1>1, <1>3, <3>1 DEF DeliveryInv, DeliveryType
      <3> QED BY <1>1, <2>2, <3>1 DEF DeliveryInv, DeliveryType, LastOK
    <2> QED BY <2>1, <2>2
  <1>8. overlapped' \in BOOLEAN
    BY <1>1, Zenon DEF DeliveryInv
  <1> QED BY <1>4, <1>5, <1>6, <1>7, <1>8 DEF DeliveryInv

LEMMA ProcessKeeps ==
    ASSUME DeliveryInv, NEW c \in Caller, ProcessPendingRetries(c)
    PROVE  DeliveryInv'
  <1>1. /\ pc[c] = "idle" /\ PendingRetries # {} /\ list' = [list EXCEPT ![c] = PendingRetries]
        /\ pc' = [pc EXCEPT ![c] = "gate"]
        /\ UNCHANGED <<status, attempts, stored, dlq, cur, number, mine, answer, denials, posts, acks>>
    BY DEF ProcessPendingRetries
  <1>2. /\ c \in Task /\ c \notin Delivery
        /\ \A x \in PendingRetries : x \in Delivery /\ status[x] = "pending" /\ attempts[x] # <<>>
    BY DeliveryAssumption DEF DeliveryInv, DeliveryType, PendingRetries, Task
  <1>3. DeliveryType'
    BY <1>1, <1>2 DEF DeliveryInv, DeliveryType
  <1>4. ASSUME NEW t \in Task PROVE CallOK(t)'
    BY <1>1, <1>2, SMTT(30) DEF DeliveryInv, DeliveryType, CallOK
  <1>5. ASSUME NEW x \in Delivery PROVE FirstOK(x)' /\ DeadOK(x)'
    BY <1>1, <1>2 DEF DeliveryInv, DeliveryType, FirstOK, DeadOK, Task
  <1>6. ASSUME NEW x \in Delivery PROVE LastOK(x)'
    <2>1. ASSUME NEW t \in Task, pc[t] = "record", cur[t] = x, mine[t] = Len(attempts[x])
          PROVE  pc'[t] = "record" /\ cur'[t] = x /\ mine'[t] = Len(attempts'[x])
      BY <1>1, <2>1 DEF DeliveryInv, DeliveryType
    <2> QED BY <1>1, <2>1 DEF DeliveryInv, LastOK
  <1>7. overlapped' \in BOOLEAN
    BY Zenon DEF ProcessPendingRetries
  <1> QED BY <1>3, <1>4, <1>5, <1>6, <1>7 DEF DeliveryInv

\* A call is done with a delivery whose attempts are not empty by now.
LEMMA DoneKeeps ==
    ASSUME DeliveryInv, NEW t \in Task, NEW d \in list[t], pc[t] = "gate" \/ (pc[t] = "record" /\ cur[t] = d),
           Done(t, d), UNCHANGED <<posts, acks, overlapped>>, denials' \in 0..MaxDenials,
           stored' \subseteq Delivery,
           status' \in [Delivery -> {"new", "pending", "delivered", "permanent_failure"}],
           attempts' \in [Delivery -> Seq(Mark)], dlq' \in [Delivery -> {"no", "queued", "handled"}],
           \A x \in Delivery : x # d => status'[x] = status[x] /\ attempts'[x] = attempts[x] /\ dlq'[x] = dlq[x],
           status'[d] # "new", attempts'[d] # <<>>, Len(attempts[d]) <= Len(attempts'[d]),
           LastOK(d)', DeadOK(d)'
    PROVE  DeliveryInv'
  <1>0. d \in Delivery /\ d \in Task
    BY DEF DeliveryInv, DeliveryType, Task
  <1>1. /\ pc' \in [Task -> {"idle", "gate", "http", "record"}] /\ list' \in [Task -> SUBSET Delivery]
        /\ number' \in [Task -> Nat] /\ mine' \in [Task -> Nat] /\ answer' \in [Task -> Outcome \cup {"none"}]
        /\ cur' = cur
    BY DEF Done, DeliveryInv, DeliveryType
  <1>2. /\ \A u \in Task : u # t => pc'[u] = pc[u] /\ list'[u] = list[u] /\ mine'[u] = mine[u]
        /\ list'[t] = list[t] \ {d} /\ mine'[t] = 0
        /\ pc'[t] \in {"idle", "gate"} /\ (pc'[t] = "idle" <=> list'[t] = {})
    BY SMTT(30) DEF Done, DeliveryInv, DeliveryType
  <1>3. DeliveryType'
    BY <1>1 DEF DeliveryInv, DeliveryType
  <1>4. ASSUME NEW u \in Task PROVE CallOK(u)'
    <2>0. CallOK(u) /\ cur[u] \in Delivery /\ Len(attempts[cur[u]]) \in Nat /\ Len(attempts'[cur[u]]) \in Nat
      BY SeqFacts DEF DeliveryInv, DeliveryType
    <2>1. Len(attempts[cur[u]]) <= Len(attempts'[cur[u]])
      BY <2>0, SMTT(30)
    <2>2. CASE u = t
      BY <1>2, <2>0, <2>2 DEF CallOK
    <2>3. CASE u # t
      <3>1. pc[u] = "record" => mine[u] \in 1..Len(attempts'[cur[u]])
        BY <2>0, <2>1 DEF CallOK
      <3> QED BY <1>1, <1>2, <2>0, <2>3, <3>1 DEF CallOK
    <2> QED BY <2>2, <2>3
  <1>5. ASSUME NEW x \in Delivery PROVE FirstOK(x)'
    <2>1. CASE x = d
      <3>1. pc'[d] \notin {"gate", "http"}
        <4>1. CASE t = d
          BY <1>0, <1>2, <4>1 DEF DeliveryInv, CallOK
        <4>2. CASE t # d
          BY <1>0, <1>2, <4>2 DEF DeliveryInv, FirstOK
        <4> QED BY <4>1, <4>2
      <3> QED BY <2>1, <3>1 DEF FirstOK
    <2>2. CASE x # d
      <3>1. x \in Task /\ FirstOK(x) /\ status'[x] = status[x] /\ attempts'[x] = attempts[x]
        BY <2>2 DEF DeliveryInv, Task
      <3>2. \A u \in Task : x \in list'[u] <=> x \in list[u]
        BY <1>2, <2>2
      <3>3. pc'[x] \in {"gate", "http"} => attempts[x] = <<>>
        <4>1. CASE x = t
          BY <1>0, <1>2, <2>2, <4>1 DEF DeliveryInv, CallOK
        <4>2. CASE x # t
          BY <1>2, <3>1, <4>2 DEF FirstOK
        <4> QED BY <4>1, <4>2
      <3>4. \A u \in Task : pc'[u] = "record" => pc[u] = "record"
        BY <1>2
      <3> QED BY <3>1, <3>2, <3>3, <3>4 DEF FirstOK
    <2> QED BY <2>1, <2>2
  <1>6. ASSUME NEW x \in Delivery PROVE LastOK(x)' /\ DeadOK(x)'
    <2>1. CASE x # d
      <3>1. ASSUME NEW u \in Task, pc[u] = "record", cur[u] = x, mine[u] = Len(attempts[x])
            PROVE  pc'[u] = "record" /\ cur'[u] = x /\ mine'[u] = Len(attempts'[x])
        BY <1>1, <1>2, <2>1, <3>1
      <3> QED BY <2>1, <3>1 DEF DeliveryInv, LastOK, DeadOK
    <2> QED BY <2>1
  <1>7. overlapped' \in BOOLEAN
    BY Zenon DEF DeliveryInv
  <1> QED BY <1>3, <1>4, <1>5, <1>6, <1>7 DEF DeliveryInv

LEMMA DeniedKeeps ==
    ASSUME DeliveryInv, NEW t \in Task, NEW d \in Delivery, GateDenied(t, d)
    PROVE  DeliveryInv'
  <1>1. /\ pc[t] = "gate" /\ d \in list[t] /\ denials < MaxDenials /\ denials' = denials + 1
        /\ attempts' = [attempts EXCEPT ![d] = IF t = d THEN Append(attempts[d], "later")
                                               ELSE [attempts[d] EXCEPT ![Len(attempts[d])] = "later"]]
        /\ stored' = stored \cup {d} /\ Done(t, d) /\ UNCHANGED <<status, dlq, posts, acks, overlapped>>
    BY DEF GateDenied
  <1>2. attempts[d] \in Seq(Mark) /\ "later" \in Mark /\ Len(attempts[d]) \in Nat
    BY SeqFacts DEF DeliveryInv, DeliveryType, Mark
  <1>3. PICK q \in Seq(Mark) : /\ attempts' = [attempts EXCEPT ![d] = q] /\ q # <<>> /\ Last(q) = "later"
                               /\ Len(attempts[d]) <= Len(q)
    <2>1. CASE t = d
      <3>1. attempts' = [attempts EXCEPT ![d] = Append(attempts[d], "later")]
        BY <1>1, <2>1
      <3>2. /\ Append(attempts[d], "later") \in Seq(Mark) /\ Append(attempts[d], "later") # <<>>
            /\ Last(Append(attempts[d], "later")) = "later"
            /\ Len(attempts[d]) <= Len(Append(attempts[d], "later"))
        BY <1>2, Pushed
      <3> QED BY <3>1, <3>2
    <2>2. CASE t # d
      <3>1. Len(attempts[d]) \in 1..Len(attempts[d])
        BY <1>1, <1>2, <2>2, SeqFacts DEF DeliveryInv, FirstOK
      <3>2. PICK r : r = [attempts[d] EXCEPT ![Len(attempts[d])] = "later"]
        OBVIOUS
      <3>3. attempts' = [attempts EXCEPT ![d] = r]
        BY <1>1, <2>2, <3>2
      <3>4. r \in Seq(Mark) /\ r # <<>> /\ Last(r) = "later" /\ Len(r) = Len(attempts[d])
        BY <1>2, <3>1, <3>2, Overwritten
      <3>5. Len(attempts[d]) <= Len(r)
        BY <1>2, <3>4
      <3> QED BY <3>3, <3>4, <3>5, Zenon
    <2> QED BY <2>1, <2>2
  <1>4. /\ attempts' \in [Delivery -> Seq(Mark)] /\ attempts'[d] = q
        /\ \A x \in Delivery : x # d => attempts'[x] = attempts[x]
    BY <1>3 DEF DeliveryInv, DeliveryType
  <1>5. denials' \in 0..MaxDenials
    <2>1. denials \in 0..MaxDenials /\ MaxDenials \in Nat
      BY DeliveryAssumption DEF DeliveryInv, DeliveryType
    <2> QED BY <1>1, <2>1
  <1>6. status[d] # "new"
    BY <1>1 DEF DeliveryInv, FirstOK
  <1>7. LastOK(d)' /\ DeadOK(d)'
    BY <1>1, <1>3, <1>4 DEF LastOK, DeliveryInv, DeadOK
  <1>8. /\ status' \in [Delivery -> {"new", "pending", "delivered", "permanent_failure"}]
        /\ dlq' \in [Delivery -> {"no", "queued", "handled"}] /\ stored' \subseteq Delivery
    BY <1>1 DEF DeliveryInv, DeliveryType
  <1> QED BY <1>1, <1>3, <1>4, <1>5, <1>6, <1>7, <1>8, DoneKeeps

LEMMA AllowedKeeps ==
    ASSUME DeliveryInv, NEW t \in Task, NEW d \in Delivery, GateAllowed(t, d)
    PROVE  DeliveryInv'
  <1>1. /\ pc[t] = "gate" /\ d \in list[t] /\ number' = [number EXCEPT ![t] = Len(attempts[d]) + 1]
        /\ cur' = [cur EXCEPT ![t] = d] /\ posts' = [posts EXCEPT ![d] = @ + 1] /\ pc' = [pc EXCEPT ![t] = "http"]
        /\ UNCHANGED <<status, attempts, stored, dlq, list, mine, answer, denials, acks, overlapped>>
    BY DEF GateAllowed
  <1>2. Len(attempts[d]) + 1 \in Nat
    BY SeqFacts DEF DeliveryInv, DeliveryType
  <1>3. DeliveryType'
    BY <1>1, <1>2, SMTT(30) DEF DeliveryInv, DeliveryType
  <1>4. ASSUME NEW u \in Task PROVE CallOK(u)'
    <2>1. CallOK(u) /\ list'[u] = list[u] /\ mine'[u] = mine[u]
      BY <1>1 DEF DeliveryInv
    <2>2. CASE u = t
      <3>1. pc'[u] = "http" /\ cur'[u] = d
        BY <1>1, <2>2 DEF DeliveryInv, DeliveryType
      <3> QED BY <1>1, <2>1, <2>2, <3>1 DEF CallOK
    <2>3. CASE u # t
      <3>1. pc'[u] = pc[u] /\ cur'[u] = cur[u]
        BY <1>1, <2>3 DEF DeliveryInv, DeliveryType
      <3> QED BY <1>1, <2>1, <3>1 DEF CallOK
    <2> QED BY <2>2, <2>3
  <1>5. ASSUME NEW x \in Delivery PROVE FirstOK(x)' /\ DeadOK(x)'
    BY <1>1 DEF DeliveryInv, DeliveryType, FirstOK, DeadOK, Task
  <1>6. ASSUME NEW x \in Delivery PROVE LastOK(x)'
    <2>1. ASSUME NEW u \in Task, pc[u] = "record", cur[u] = x, mine[u] = Len(attempts[x])
          PROVE  pc'[u] = "record" /\ cur'[u] = x /\ mine'[u] = Len(attempts'[x])
      BY <1>1, <2>1 DEF DeliveryInv, DeliveryType
    <2> QED BY <1>1, <2>1 DEF DeliveryInv, LastOK
  <1>7. overlapped' \in BOOLEAN
    BY <1>1, Zenon DEF DeliveryInv
  <1> QED BY <1>3, <1>4, <1>5, <1>6, <1>7 DEF DeliveryInv

\* What an answer does, whatever it is.
LEMMA AnswerDoes ==
    ASSUME DeliveryInv, NEW t \in Task, NEW o \in Outcome, Answer(t, o)
    PROVE  /\ pc[t] = "http" /\ cur[t] \in list[t] /\ cur[t] \in Delivery
           /\ attempts' \in [Delivery -> Seq(Mark)] /\ mine' \in [Task -> Nat]
           /\ Len(attempts'[cur[t]]) = Len(attempts[cur[t]]) + 1 /\ attempts'[cur[t]] # <<>>
           /\ mine'[t] = Len(attempts[cur[t]]) + 1
           /\ Last(attempts'[cur[t]]) = IF ShouldRetry(o, number[t], FALSE) THEN "later" ELSE "none"
           /\ \A x \in Delivery : x # cur[t] => attempts'[x] = attempts[x]
  <1>1. pc[t] = "http" /\ cur[t] \in list[t] /\ cur[t] \in Delivery
    BY DEF Answer, DeliveryInv, DeliveryType, CallOK
  <1>2. PICK m \in Mark : /\ attempts' = [attempts EXCEPT ![cur[t]] = Append(@, m)]
                          /\ m = IF ShouldRetry(o, number[t], FALSE) THEN "later" ELSE "none"
    BY DEF Answer, Mark
  <1>3. attempts[cur[t]] \in Seq(Mark) /\ Len(attempts[cur[t]]) \in Nat
    BY <1>1, SeqFacts DEF DeliveryInv, DeliveryType
  <1>4. /\ attempts' \in [Delivery -> Seq(Mark)] /\ attempts'[cur[t]] = Append(attempts[cur[t]], m)
        /\ \A x \in Delivery : x # cur[t] => attempts'[x] = attempts[x]
    BY <1>1, <1>2, <1>3, Pushed DEF DeliveryInv, DeliveryType
  <1>5. mine' \in [Task -> Nat] /\ mine'[t] = Len(attempts[cur[t]]) + 1
    BY <1>3 DEF Answer, DeliveryInv, DeliveryType
  <1> QED BY <1>1, <1>2, <1>3, <1>4, <1>5, Pushed

LEMMA AnswerKeeps ==
    ASSUME DeliveryInv, NEW t \in Task, NEW o \in Outcome, Answer(t, o)
    PROVE  DeliveryInv'
  <1>1. PICK d \in Delivery : d = cur[t]
    BY AnswerDoes
  <1>2. /\ pc[t] = "http" /\ d \in list[t] /\ attempts' \in [Delivery -> Seq(Mark)] /\ mine' \in [Task -> Nat]
        /\ Len(attempts'[d]) = Len(attempts[d]) + 1 /\ attempts'[d] # <<>> /\ mine'[t] = Len(attempts[d]) + 1
        /\ \A x \in Delivery : x # d => attempts'[x] = attempts[x]
    BY <1>1, AnswerDoes
  <1>3. /\ status' = [status EXCEPT ![d] = IF o = "ok" THEN "delivered" ELSE "pending"]
        /\ stored' = stored \cup {d} /\ answer' = [answer EXCEPT ![t] = o]
        /\ acks' = [acks EXCEPT ![d] = IF o = "ok" THEN @ + 1 ELSE @] /\ pc' = [pc EXCEPT ![t] = "record"]
        /\ mine' = [mine EXCEPT ![t] = Len(attempts[d]) + 1]
        /\ UNCHANGED <<dlq, list, cur, number, denials, posts, overlapped>>
    BY <1>1 DEF Answer
  <1>4. DeliveryType'
    BY <1>2, <1>3, SMTT(30) DEF DeliveryInv, DeliveryType
  <1>5. \A x \in Delivery : Len(attempts[x]) \in Nat /\ Len(attempts'[x]) \in Nat /\ Len(attempts[x]) <= Len(attempts'[x])
    <2>1. \A x \in Delivery : Len(attempts[x]) \in Nat
      BY SeqFacts DEF DeliveryInv, DeliveryType
    <2> QED BY <1>2, <2>1
  <1>6. ASSUME NEW u \in Task PROVE CallOK(u)'
    <2>1. CallOK(u) /\ cur[u] \in Delivery
      BY DEF DeliveryInv, DeliveryType
    <2>2. CASE u = t
      <3>1. pc'[t] = "record" /\ mine'[t] \in 1..Len(attempts'[d]) /\ cur'[t] = d /\ list'[t] = list[t]
        BY <1>1, <1>2, <1>3, <1>5 DEF DeliveryInv, DeliveryType
      <3> QED BY <1>2, <2>1, <2>2, <3>1 DEF CallOK
    <2>3. CASE u # t
      <3>1. pc'[u] = pc[u] /\ mine'[u] = mine[u] /\ cur'[u] = cur[u] /\ list'[u] = list[u]
        BY <1>3, <2>3 DEF DeliveryInv, DeliveryType
      <3>2. pc[u] = "record" => mine[u] \in 1..Len(attempts'[cur[u]])
        BY <1>5, <2>1 DEF CallOK
      <3> QED BY <2>1, <3>1, <3>2 DEF CallOK
    <2> QED BY <2>2, <2>3
  <1>7. ASSUME NEW x \in Delivery PROVE FirstOK(x)' /\ DeadOK(x)'
    <2>1. CASE x = d
      <3>1. pc'[d] \notin {"gate", "http"} /\ status'[d] \in {"delivered", "pending"}
        <4>1. pc'[d] \notin {"gate", "http"}
          BY <1>2, <1>3 DEF DeliveryInv, DeliveryType, FirstOK, Task
        <4> QED BY <1>3, <4>1 DEF DeliveryInv, DeliveryType
      <3> QED BY <1>2, <2>1, <3>1 DEF FirstOK, DeadOK
    <2>2. CASE x # d
      <3>1. /\ x \in Task /\ FirstOK(x) /\ DeadOK(x) /\ status'[x] = status[x] /\ attempts'[x] = attempts[x]
        BY <1>2, <1>3, <2>2 DEF DeliveryInv, DeliveryType, Task
      <3>2. \A u \in Task : pc'[u] = IF u = t THEN "record" ELSE pc[u]
        BY <1>3 DEF DeliveryInv, DeliveryType
      <3>3. attempts[x] = <<>> => x \notin list[t] \/ x = t
        BY <3>1 DEF FirstOK
      <3>4. x = t => x \notin list[t]
        BY <1>2, <2>2 DEF DeliveryInv, CallOK
      <3> QED BY <1>3, <3>1, <3>2, <3>3, <3>4 DEF FirstOK, DeadOK
    <2> QED BY <2>1, <2>2
  <1>8. ASSUME NEW x \in Delivery PROVE LastOK(x)'
    <2>1. CASE x = d
      <3>1. pc'[t] = "record" /\ cur'[t] = d /\ mine'[t] = Len(attempts'[d])
        BY <1>1, <1>2, <1>3 DEF DeliveryInv, DeliveryType
      <3> QED BY <2>1, <3>1 DEF LastOK
    <2>2. CASE x # d
      <3>1. ASSUME NEW u \in Task, pc[u] = "record", cur[u] = x, mine[u] = Len(attempts[x])
            PROVE  pc'[u] = "record" /\ cur'[u] = x /\ mine'[u] = Len(attempts'[x])
        BY <1>1, <1>2, <1>3, <2>2, <3>1 DEF DeliveryInv, DeliveryType
      <3>2. status'[x] = status[x] /\ attempts'[x] = attempts[x] /\ dlq'[x] = dlq[x]
        BY <1>2, <1>3, <2>2 DEF DeliveryInv, DeliveryType
      <3> QED BY <3>1, <3>2 DEF DeliveryInv, LastOK
    <2> QED BY <2>1, <2>2
  <1>9. overlapped' \in BOOLEAN
    BY <1>3, Zenon DEF DeliveryInv
  <1> QED BY <1>4, <1>6, <1>7, <1>8, <1>9 DEF DeliveryInv

\* What the verdict of the breaker does to the delivery in hand.
LEMMA ConcludeDoes ==
    ASSUME DeliveryInv, NEW t \in Task, NEW tripped \in BOOLEAN, Conclude(t, tripped)
    PROVE  /\ pc[t] = "record" /\ cur[t] \in list[t] /\ cur[t] \in Delivery /\ Done(t, cur[t])
           /\ UNCHANGED <<denials, posts, acks, overlapped>> /\ stored' \subseteq Delivery
           /\ status' \in [Delivery -> {"new", "pending", "delivered", "permanent_failure"}]
           /\ attempts' \in [Delivery -> Seq(Mark)] /\ dlq' \in [Delivery -> {"no", "queued", "handled"}]
           /\ \A x \in Delivery : x # cur[t] =>
                 status'[x] = status[x] /\ attempts'[x] = attempts[x] /\ dlq'[x] = dlq[x]
           /\ attempts[cur[t]] # <<>> /\ attempts'[cur[t]] # <<>>
           /\ Len(attempts'[cur[t]]) = Len(attempts[cur[t]])
           /\ \/ /\ status[cur[t]] = "delivered" /\ status'[cur[t]] = "delivered"
                 /\ attempts'[cur[t]] = attempts[cur[t]] /\ dlq'[cur[t]] = dlq[cur[t]]
              \/ /\ status[cur[t]] # "delivered" /\ status'[cur[t]] = "pending" /\ dlq'[cur[t]] = dlq[cur[t]]
                 /\ number[t] < MaxAttempts
                 /\ Last(attempts'[cur[t]]) = IF mine[t] = Len(attempts[cur[t]]) THEN "later" ELSE Last(attempts[cur[t]])
              \/ /\ status[cur[t]] # "delivered" /\ status'[cur[t]] = "permanent_failure" /\ dlq'[cur[t]] = "queued"
                 /\ attempts'[cur[t]] = attempts[cur[t]]
  <1>1. PICK d \in Delivery : d = cur[t] /\ d \in list[t] /\ pc[t] = "record" /\ mine[t] \in 1..Len(attempts[d])
    BY DEF Conclude, DeliveryInv, DeliveryType, CallOK
  <1>2. attempts[d] \in Seq(Mark) /\ Len(attempts[d]) \in Nat /\ attempts[d] # <<>> /\ "later" \in Mark
    <2>1. attempts[d] \in Seq(Mark) /\ "later" \in Mark
      BY DEF DeliveryInv, DeliveryType, Mark
    <2>2. Len(attempts[d]) \in Nat
      BY <2>1, SeqFacts
    <2>3. attempts[d] # <<>>
      BY <1>1, <2>1, <2>2, SeqFacts
    <2> QED BY <2>1, <2>2, <2>3
  <1>3. Done(t, d) /\ UNCHANGED <<denials, posts, acks, overlapped>>
    BY <1>1 DEF Conclude
  <1>4. CASE status[d] = "delivered" /\ UNCHANGED <<status, attempts, stored, dlq>>
    BY <1>1, <1>2, <1>3, <1>4 DEF DeliveryInv, DeliveryType
  <1>5. CASE /\ status[d] # "delivered" /\ ShouldRetry(answer[t], number[t], tripped)
             /\ status' = [status EXCEPT ![d] = "pending"] /\ attempts' = [attempts EXCEPT ![d][mine[t]] = "later"]
             /\ stored' = stored \cup {d} /\ UNCHANGED dlq
    <2>1. PICK q : q = [attempts[d] EXCEPT ![mine[t]] = "later"]
      OBVIOUS
    <2>2. /\ q \in Seq(Mark) /\ Len(q) = Len(attempts[d]) /\ q # <<>>
          /\ Last(q) = IF mine[t] = Len(attempts[d]) THEN "later" ELSE Last(attempts[d])
      BY <1>1, <1>2, <2>1, Overwritten
    <2>3. attempts' = [attempts EXCEPT ![d] = q]
      BY <1>5, <2>1
    <2>4. /\ attempts' \in [Delivery -> Seq(Mark)] /\ attempts'[d] = q
          /\ \A x \in Delivery : x # d => attempts'[x] = attempts[x]
      BY <2>2, <2>3 DEF DeliveryInv, DeliveryType
    <2>5. /\ status' \in [Delivery -> {"new", "pending", "delivered", "permanent_failure"}]
          /\ status'[d] = "pending" /\ \A x \in Delivery : x # d => status'[x] = status[x]
          /\ dlq' \in [Delivery -> {"no", "queued", "handled"}] /\ stored' \subseteq Delivery
      BY <1>5 DEF DeliveryInv, DeliveryType
    <2>6. number[t] < MaxAttempts
      BY <1>5 DEF ShouldRetry
    <2> QED BY <1>1, <1>2, <1>3, <1>5, <2>2, <2>4, <2>5, <2>6
  <1>6. CASE /\ status[d] # "delivered" /\ status' = [status EXCEPT ![d] = "permanent_failure"]
             /\ stored' = stored \cup {d} /\ dlq' = Enqueued(d) /\ UNCHANGED attempts
    <2>1. /\ status' \in [Delivery -> {"new", "pending", "delivered", "permanent_failure"}]
          /\ status'[d] = "permanent_failure" /\ \A x \in Delivery : x # d => status'[x] = status[x]
          /\ dlq' \in [Delivery -> {"no", "queued", "handled"}] /\ dlq'[d] = "queued"
          /\ \A x \in Delivery : x # d => dlq'[x] = dlq[x]
          /\ attempts' \in [Delivery -> Seq(Mark)] /\ stored' \subseteq Delivery
      BY <1>6 DEF DeliveryInv, DeliveryType, Enqueued
    <2> QED BY <1>1, <1>2, <1>3, <1>6, <2>1
  <1> QED BY <1>1, <1>4, <1>5, <1>6 DEF Conclude

LEMMA ConcludeKeeps ==
    ASSUME DeliveryInv, NEW t \in Task, NEW tripped \in BOOLEAN, Conclude(t, tripped)
    PROVE  DeliveryInv'
  <1>1. PICK d \in Delivery : d = cur[t] /\ d \in list[t] /\ pc[t] = "record"
    BY ConcludeDoes
  <1>2. /\ Done(t, d) /\ UNCHANGED <<denials, posts, acks, overlapped>> /\ stored' \subseteq Delivery
        /\ status' \in [Delivery -> {"new", "pending", "delivered", "permanent_failure"}]
        /\ attempts' \in [Delivery -> Seq(Mark)] /\ dlq' \in [Delivery -> {"no", "queued", "handled"}]
        /\ \A x \in Delivery : x # d => status'[x] = status[x] /\ attempts'[x] = attempts[x] /\ dlq'[x] = dlq[x]
        /\ attempts[d] # <<>> /\ attempts'[d] # <<>> /\ Len(attempts'[d]) = Len(attempts[d])
    BY <1>1, ConcludeDoes
  <1>3. Len(attempts[d]) \in Nat /\ denials' \in 0..MaxDenials
    BY <1>2, SeqFacts DEF DeliveryInv, DeliveryType
  <1>4. LastOK(d)' /\ DeadOK(d)' /\ status'[d] # "new"
    <2>1. CASE status'[d] = "delivered" \/ (status'[d] = "permanent_failure" /\ dlq'[d] = "queued")
      BY <2>1 DEF LastOK, DeadOK
    <2>2. CASE /\ status[d] # "delivered" /\ status'[d] = "pending" /\ dlq'[d] = dlq[d]
               /\ Last(attempts'[d]) = IF mine[t] = Len(attempts[d]) THEN "later" ELSE Last(attempts[d])
      <3>1. CASE Last(attempts'[d]) = "none"
        <4>1. mine[t] # Len(attempts[d]) /\ Last(attempts[d]) = "none"
          BY <2>2, <3>1
        <4>2. dlq[d] # "no" \/ \E u \in Task : pc[u] = "record" /\ cur[u] = d /\ mine[u] = Len(attempts[d])
          BY <1>2, <2>2, <4>1 DEF DeliveryInv, LastOK
        <4>3. ASSUME NEW u \in Task, pc[u] = "record", cur[u] = d, mine[u] = Len(attempts[d])
              PROVE  pc'[u] = "record" /\ cur'[u] = d /\ mine'[u] = Len(attempts'[d])
          BY <1>2, <4>1, <4>3 DEF Done, DeliveryInv, DeliveryType
        <4> QED BY <2>2, <4>2, <4>3 DEF LastOK, DeadOK
      <3>2. CASE Last(attempts'[d]) # "none"
        BY <2>2, <3>2 DEF LastOK, DeadOK
      <3> QED BY <3>1, <3>2
    <2> QED BY <1>1, <2>1, <2>2, ConcludeDoes
  <1> QED BY <1>1, <1>2, <1>3, <1>4, DoneKeeps

\* Clean-up, the dead-letter route and time move no call.
LEMMA RestKeeps ==
    ASSUME DeliveryInv,
           \/ \E d \in Delivery : RetryDeadLetter(d) \/ RetryDue(d)
           \/ \E old, gone \in SUBSET Delivery : Cleanup(old, gone)
           \/ UNCHANGED deliveryVars
    PROVE  DeliveryInv'
  <1>1. UNCHANGED <<status, pc, list, cur, number, mine, answer, denials, posts, acks, overlapped>>
    BY DEF RetryDeadLetter, RetryDue, Cleanup, calls, deliveryVars
  <1>2. /\ stored' \subseteq Delivery /\ dlq' \in [Delivery -> {"no", "queued", "handled"}]
        /\ \A x \in Delivery : dlq[x] # "no" => dlq'[x] # "no"
    <2>0. stored \subseteq Delivery /\ dlq \in [Delivery -> {"no", "queued", "handled"}]
      BY DEF DeliveryInv, DeliveryType
    <2>1. ASSUME NEW d \in Delivery, RetryDeadLetter(d)
          PROVE  /\ stored' \subseteq Delivery /\ dlq' \in [Delivery -> {"no", "queued", "handled"}]
                 /\ \A x \in Delivery : dlq[x] # "no" => dlq'[x] # "no"
      BY <2>0, <2>1 DEF RetryDeadLetter
    <2>2. ASSUME NEW old, NEW gone, Cleanup(old, gone)
          PROVE  /\ stored' \subseteq Delivery /\ dlq' \in [Delivery -> {"no", "queued", "handled"}]
                 /\ \A x \in Delivery : dlq[x] # "no" => dlq'[x] # "no"
      BY <2>0, <2>2 DEF Cleanup
    <2>3. CASE UNCHANGED <<stored, dlq>>
      BY <2>0, <2>3
    <2> QED BY <2>1, <2>2, <2>3 DEF RetryDue, deliveryVars
  <1>3. /\ attempts' \in [Delivery -> Seq(Mark)]
        /\ \A x \in Delivery : /\ Len(attempts'[x]) = Len(attempts[x]) /\ (attempts'[x] = <<>> <=> attempts[x] = <<>>)
                               /\ Last(attempts'[x]) = "none" => Last(attempts[x]) = "none"
    <2>1. CASE attempts' = attempts
      BY <2>1 DEF DeliveryInv, DeliveryType
    <2>2. ASSUME NEW d \in Delivery, RetryDue(d)
          PROVE  /\ attempts' \in [Delivery -> Seq(Mark)] /\ Len(attempts'[d]) = Len(attempts[d])
                 /\ attempts'[d] # <<>> /\ attempts[d] # <<>> /\ Last(attempts'[d]) = "due"
                 /\ \A x \in Delivery : x # d => attempts'[x] = attempts[x]
      <3>1. /\ attempts[d] \in Seq(Mark) /\ attempts[d] # <<>> /\ "due" \in Mark
            /\ attempts' = [attempts EXCEPT ![d][Len(attempts[d])] = "due"]
        BY <2>2 DEF RetryDue, DeliveryInv, DeliveryType, Mark
      <3>2. PICK q : q = [attempts[d] EXCEPT ![Len(attempts[d])] = "due"]
        OBVIOUS
      <3>3. Len(attempts[d]) \in 1..Len(attempts[d])
        BY <3>1, SeqFacts
      <3>4. q \in Seq(Mark) /\ Len(q) = Len(attempts[d]) /\ q # <<>> /\ Last(q) = "due"
        BY <3>1, <3>2, <3>3, Overwritten, SMTT(30)
      <3>5. attempts' = [attempts EXCEPT ![d] = q]
        BY <3>1, <3>2
      <3>6. attempts \in [Delivery -> Seq(Mark)]
        BY DEF DeliveryInv, DeliveryType
      <3>7. /\ attempts' \in [Delivery -> Seq(Mark)] /\ attempts'[d] = q
            /\ \A x \in Delivery : x # d => attempts'[x] = attempts[x]
        BY <3>4, <3>5, <3>6
      <3> QED BY <3>1, <3>4, <3>7, Zenon
    <2>3. CASE \E d \in Delivery : RetryDue(d)
      <3>1. PICK d \in Delivery : RetryDue(d)
        BY <2>3
      <3>2. /\ attempts' \in [Delivery -> Seq(Mark)] /\ Len(attempts'[d]) = Len(attempts[d])
            /\ attempts'[d] # <<>> /\ attempts[d] # <<>> /\ Last(attempts'[d]) = "due"
            /\ \A x \in Delivery : x # d => attempts'[x] = attempts[x]
        BY <2>2, <3>1
      <3> QED BY <3>2
    <2> QED BY <2>1, <2>3 DEF RetryDeadLetter, Cleanup, deliveryVars
  <1>4. DeliveryType'
    BY <1>1, <1>2, <1>3 DEF DeliveryInv, DeliveryType
  <1>5. ASSUME NEW t \in Task PROVE CallOK(t)'
    BY <1>1, <1>3 DEF DeliveryInv, DeliveryType, CallOK
  <1>6. ASSUME NEW x \in Delivery PROVE FirstOK(x)' /\ DeadOK(x)'
    BY <1>1, <1>2, <1>3 DEF DeliveryInv, FirstOK, DeadOK
  <1>7. ASSUME NEW x \in Delivery PROVE LastOK(x)'
    BY <1>1, <1>2, <1>3 DEF DeliveryInv, LastOK
  <1>8. overlapped' \in BOOLEAN
    BY <1>1, Zenon DEF DeliveryInv
  <1> QED BY <1>4, <1>5, <1>6, <1>7, <1>8 DEF DeliveryInv

LEMMA DeliveryStep == DeliveryInv /\ [Next]_deliveryVars => DeliveryInv'
  <1> SUFFICES ASSUME DeliveryInv, [Next]_deliveryVars PROVE DeliveryInv'
    OBVIOUS
  <1>1. ASSUME NEW t \in Task, Progress(t) PROVE DeliveryInv'
    BY <1>1, DeniedKeeps, AllowedKeeps, AnswerKeeps, ConcludeKeeps DEF Progress
  <1> QED BY <1>1, QueueKeeps, ProcessKeeps, RestKeeps DEF Next

----------------------------------------------------------------------------
(* Serial retries                                                          *)

\* The call may still send the delivery, or is sending it.
Open(t, d) == d \in list[t] /\ ~(pc[t] = "record" /\ cur[t] = d)
Sending(t, d) == pc[t] = "http" /\ cur[t] = d

OneRetrier == \A c, o \in Caller : pc[c] # "idle" /\ pc[o] # "idle" => c = o
NumberOK(t) ==
    /\ pc[t] = "http" => number[t] = Len(attempts[cur[t]]) + 1
    /\ pc[t] = "record" => number[t] = mine[t]

\* Every request is counted by an attempt or is being answered, and a delivery that
\* waits for a retry has attempts left, or was only deferred so far.
PostsOK(d) ==
    /\ posts[d] <= MaxAttempts
    /\ posts[d] <= Len(attempts[d]) \/ (posts[d] <= Len(attempts[d]) + 1 /\ \E t \in Task : Sending(t, d))
    /\ attempts[d] # <<>> /\ Last(attempts[d]) # "none" =>
          Len(attempts[d]) < MaxAttempts \/ posts[d] = 0 \/ \E t \in Task : Sending(t, d)
    /\ \A c \in Caller : Open(c, d) => Last(attempts[d]) # "none"

\* An acknowledged delivery stays delivered, and nobody will send it again.
AcksOK(d) ==
    acks[d] = 0 \/ /\ acks[d] = 1 /\ status[d] = "delivered"
                   /\ attempts[d] # <<>> /\ Last(attempts[d]) = "none" /\ \A t \in Task : ~Open(t, d)

Serial == /\ OneRetrier /\ \A t \in Task : NumberOK(t)
          /\ \A d \in Delivery : PostsOK(d) /\ AcksOK(d)

\* One call at a time can send a delivery.
LEMMA OneSender ==
    ASSUME DeliveryInv, OneRetrier, NEW d \in Delivery, NEW t \in Task, NEW u \in Task, Open(t, d), Open(u, d)
    PROVE  t = u
  <1>1. ASSUME NEW v \in Task, Open(v, d) PROVE v = d \/ v \in Caller
    BY <1>1 DEF Open, DeliveryInv, CallOK, Task
  <1>2. ASSUME Open(d, d), d \in Task, NEW v \in Task, Open(v, d) PROVE v = d
    <2>1. pc[d] \in {"gate", "http"}
      BY <1>2 DEF Open, DeliveryInv, DeliveryType, CallOK
    <2> QED BY <1>2, <2>1 DEF Open, DeliveryInv, FirstOK
  <1>3. ASSUME NEW v \in Task, Open(v, d) PROVE pc[v] # "idle"
    BY <1>3 DEF Open, DeliveryInv, CallOK
  <1> QED BY <1>1, <1>2, <1>3 DEF OneRetrier, Task

LEMMA SendingIsOpen ==
    ASSUME DeliveryInv, NEW d \in Delivery, NEW t \in Task, Sending(t, d)
    PROVE  Open(t, d)
  BY DEF Sending, Open, DeliveryInv, CallOK

LEMMA SerialInit == Init => Serial
  <1> SUFFICES ASSUME Init PROVE Serial
    OBVIOUS
  <1>1. MaxAttempts \in Nat
    BY DeliveryAssumption
  <1>2. ASSUME NEW d \in Delivery PROVE PostsOK(d) /\ AcksOK(d)
    <2>1. attempts[d] = <<>> /\ Len(attempts[d]) = 0 /\ posts[d] = 0 /\ acks[d] = 0 /\ \A t \in Task : list[t] = {}
      BY DEF Init
    <2> QED BY <1>1, <2>1, Calls DEF PostsOK, AcksOK, Open
  <1>3. OneRetrier /\ \A t \in Task : NumberOK(t)
    BY DEF Init, OneRetrier, NumberOK, Task
  <1> QED BY <1>2, <1>3 DEF Serial

LEMMA Untouched ==
    ASSUME NEW x \in Delivery, PostsOK(x), AcksOK(x), attempts'[x] = attempts[x], posts'[x] = posts[x],
           acks'[x] = acks[x], status'[x] = status[x],
           \A t \in Task : (Open(t, x)' => Open(t, x)) /\ (Sending(t, x) => Sending(t, x)')
    PROVE  PostsOK(x)' /\ AcksOK(x)'
  <1>1. \A c \in Caller : Open(c, x)' => Open(c, x)
    BY DEF Task
  <1> QED BY <1>1 DEF PostsOK, AcksOK

LEMMA Numbers ==
    ASSUME DeliveryInv, NEW d \in Delivery
    PROVE  Len(attempts[d]) \in Nat /\ posts[d] \in Nat /\ MaxAttempts \in Nat \ {0} /\ d \in Task
  BY SeqFacts, DeliveryAssumption DEF DeliveryInv, DeliveryType, Task

\* A call that is at the gate with d in hand: d was not acknowledged, all its
\* requests were answered, and it may be sent once more.
LEMMA AtTheGate ==
    ASSUME DeliveryInv, Serial, NEW t \in Task, NEW d \in Delivery, pc[t] = "gate", d \in list[t]
    PROVE  /\ acks[d] = 0 /\ posts[d] <= Len(attempts[d]) /\ \A u \in Task : ~Sending(u, d)
           /\ Len(attempts[d]) < MaxAttempts \/ posts[d] = 0
           /\ t = d => attempts[d] = <<>> /\ Len(attempts[d]) = 0
           /\ t # d => t \in Caller /\ attempts[d] # <<>> /\ Last(attempts[d]) # "none"
  <1>1. Open(t, d)
    BY DEF Open
  <1>2. acks[d] = 0
    BY <1>1 DEF Serial, AcksOK
  <1>3. ASSUME NEW u \in Task, Sending(u, d) PROVE FALSE
    <2>1. u = t
      BY <1>1, <1>3, SendingIsOpen, OneSender DEF Serial
    <2> QED BY <1>3, <2>1 DEF Sending
  <1>4. posts[d] <= Len(attempts[d])
    BY <1>3 DEF Serial, PostsOK
  <1>5. t = d => attempts[d] = <<>> /\ Len(attempts[d]) = 0
    BY DEF DeliveryInv, FirstOK
  <1>6. t # d => t \in Caller /\ attempts[d] # <<>> /\ Last(attempts[d]) # "none"
    <2>1. t # d => t \in Caller /\ attempts[d] # <<>>
      BY DEF DeliveryInv, FirstOK, CallOK, Task
    <2> QED BY <1>1, <2>1 DEF Serial, PostsOK
  <1>7. Len(attempts[d]) < MaxAttempts \/ posts[d] = 0
    <2>1. CASE t = d
      BY <1>4, <1>5, <2>1, Numbers
    <2>2. CASE t # d
      BY <1>3, <1>6, <2>2 DEF Serial, PostsOK
    <2> QED BY <2>1, <2>2
  <1> QED BY <1>2, <1>3, <1>4, <1>5, <1>6, <1>7

LEMMA QueueSerial ==
    ASSUME DeliveryInv, Serial, NEW d \in Delivery, QueueDelivery(d)
    PROVE  Serial'
  <1>1. /\ status[d] = "new" /\ status' = [status EXCEPT ![d] = "pending"]
        /\ pc' = [pc EXCEPT ![d] = "gate"] /\ list' = [list EXCEPT ![d] = {d}]
        /\ UNCHANGED <<attempts, cur, number, mine, posts, acks>> /\ d \in Task /\ d \notin Caller
    BY DeliveryAssumption DEF QueueDelivery, Task
  <1>2. /\ \A t \in Task : d \notin list[t] /\ attempts[d] = <<>>
        /\ list[d] = {} /\ pc[d] = "idle"
    BY <1>1 DEF DeliveryInv, FirstOK, CallOK
  <1>3. /\ \A t \in Task : t # d => pc'[t] = pc[t] /\ list'[t] = list[t]
        /\ pc'[d] = "gate" /\ list'[d] = {d}
    BY <1>1 DEF DeliveryInv, DeliveryType
  <1>4. OneRetrier' /\ \A t \in Task : NumberOK(t)'
    BY <1>1, <1>3 DEF Serial, OneRetrier, NumberOK, Task
  <1>5. ASSUME NEW x \in Delivery, NEW t \in Task PROVE Sending(t, x) => Sending(t, x)'
    BY <1>1, <1>2, <1>3 DEF Sending
  <1>6. ASSUME NEW x \in Delivery PROVE PostsOK(x)' /\ AcksOK(x)'
    <2>0. PostsOK(x) /\ AcksOK(x)
      BY DEF Serial
    <2>1. CASE x # d
      <3>1. \A t \in Task : Open(t, x)' => Open(t, x)
        BY <1>1, <1>3, <2>1 DEF Open
      <3>2. status'[x] = status[x]
        BY <1>1, <2>1 DEF DeliveryInv, DeliveryType
      <3> QED BY <1>1, <1>5, <2>0, <3>1, <3>2, Untouched
    <2>2. CASE x = d
      <3>1. acks[d] = 0
        BY <1>1, <2>0, <2>2 DEF AcksOK
      <3>2. \A c \in Caller : ~Open(c, d)'
        BY <1>1, <1>2, <1>3 DEF Open, Task
      <3> QED BY <1>1, <1>5, <2>0, <2>2, <3>1, <3>2 DEF PostsOK, AcksOK
    <2> QED BY <2>1, <2>2
  <1> QED BY <1>4, <1>6 DEF Serial

LEMMA ProcessSerial ==
    ASSUME DeliveryInv, Serial, NEW c \in Caller, ProcessPendingRetries(c), ~overlapped'
    PROVE  Serial'
  <1>1. /\ pc[c] = "idle" /\ list' = [list EXCEPT ![c] = PendingRetries]
        /\ pc' = [pc EXCEPT ![c] = "gate"]
        /\ UNCHANGED <<status, attempts, cur, number, mine, posts, acks>> /\ c \in Task
    BY DEF ProcessPendingRetries, Task
  <1>2. \A o \in Caller \ {c} : pc[o] = "idle"
    BY Zenon DEF ProcessPendingRetries
  <1>3. /\ \A t \in Task : t # c => pc'[t] = pc[t] /\ list'[t] = list[t]
        /\ pc'[c] = "gate" /\ list'[c] = PendingRetries /\ list[c] = {}
    BY <1>1 DEF DeliveryInv, DeliveryType, CallOK
  <1>4. OneRetrier' /\ \A t \in Task : NumberOK(t)'
    BY <1>1, <1>2, <1>3 DEF Serial, OneRetrier, NumberOK, Task
  <1>5. ASSUME NEW x \in Delivery, NEW t \in Task PROVE Sending(t, x) => Sending(t, x)'
    BY <1>1, <1>3 DEF Sending
  <1>6. ASSUME NEW x \in Delivery PROVE PostsOK(x)' /\ AcksOK(x)'
    <2>0. PostsOK(x) /\ AcksOK(x)
      BY DEF Serial
    <2>1. CASE x \notin PendingRetries
      <3>1. \A t \in Task : Open(t, x)' => Open(t, x)
        BY <1>1, <1>3, <2>1 DEF Open
      <3> QED BY <1>1, <1>5, <2>0, <3>1, Untouched
    <2>2. CASE x \in PendingRetries
      <3>1. status[x] = "pending" /\ Last(attempts[x]) = "due"
        BY <2>2 DEF PendingRetries
      <3>2. acks[x] = 0
        BY <2>0, <3>1 DEF AcksOK
      <3> QED BY <1>1, <1>5, <2>0, <3>1, <3>2 DEF PostsOK, AcksOK
    <2> QED BY <2>1, <2>2
  <1> QED BY <1>4, <1>6 DEF Serial

\* A call that is done with d moves nobody else and sends nothing.
LEMMA DoneSerial ==
    ASSUME DeliveryInv, Serial, NEW t \in Task, NEW d \in list[t],
           pc[t] = "gate" \/ (pc[t] = "record" /\ cur[t] = d),
           Done(t, d), UNCHANGED <<posts, acks>>,
           \A x \in Delivery : x # d => status'[x] = status[x] /\ attempts'[x] = attempts[x],
           \A u \in Task : u # t /\ pc[u] = "http" => Len(attempts'[cur[u]]) = Len(attempts[cur[u]])
    PROVE  /\ OneRetrier' /\ \A u \in Task : NumberOK(u)'
           /\ \A x \in Delivery : x # d => PostsOK(x)' /\ AcksOK(x)'
           /\ \A x \in Delivery, u \in Task : (Open(u, x)' => Open(u, x)) /\ (Sending(u, x) => Sending(u, x)')
           /\ ~Open(t, d)'
  <1>1. /\ \A u \in Task : u # t => /\ pc'[u] = pc[u] /\ list'[u] = list[u] /\ mine'[u] = mine[u]
                                    /\ number'[u] = number[u]
        /\ list'[t] = list[t] \ {d} /\ cur' = cur /\ pc'[t] \in {"idle", "gate"} /\ pc[t] # "idle"
    BY DEF Done, DeliveryInv, DeliveryType
  <1>2. OneRetrier' /\ \A u \in Task : NumberOK(u)'
    BY <1>1 DEF Serial, OneRetrier, NumberOK, Task
  <1>3. \A x \in Delivery, u \in Task : (Open(u, x)' => Open(u, x)) /\ (Sending(u, x) => Sending(u, x)')
    BY <1>1 DEF Open, Sending
  <1>4. ASSUME NEW x \in Delivery, x # d PROVE PostsOK(x)' /\ AcksOK(x)'
    <2>1. PostsOK(x) /\ AcksOK(x)
      BY DEF Serial
    <2> QED BY <1>3, <1>4, <2>1, Untouched
  <1> QED BY <1>1, <1>2, <1>3, <1>4 DEF Open

LEMMA DeniedSerial ==
    ASSUME DeliveryInv, Serial, NEW t \in Task, NEW d \in Delivery, GateDenied(t, d)
    PROVE  Serial'
  <1>1. /\ pc[t] = "gate" /\ d \in list[t]
        /\ attempts' = [attempts EXCEPT ![d] = IF t = d THEN Append(attempts[d], "later")
                                               ELSE [attempts[d] EXCEPT ![Len(attempts[d])] = "later"]]
        /\ Done(t, d) /\ UNCHANGED <<status, posts, acks>>
    BY DEF GateDenied
  <1>2. /\ acks[d] = 0 /\ posts[d] <= Len(attempts[d]) /\ \A u \in Task : ~Sending(u, d)
        /\ Len(attempts[d]) < MaxAttempts \/ posts[d] = 0
        /\ t = d => attempts[d] = <<>> /\ Len(attempts[d]) = 0
        /\ t # d => t \in Caller /\ attempts[d] # <<>> /\ Last(attempts[d]) # "none"
    BY <1>1, AtTheGate
  <1>3. /\ attempts[d] \in Seq(Mark) /\ "later" \in Mark /\ attempts \in [Delivery -> Seq(Mark)]
        /\ Len(attempts[d]) \in Nat /\ posts[d] \in Nat /\ MaxAttempts \in Nat \ {0}
    BY Numbers DEF DeliveryInv, DeliveryType, Mark
  <1>4. \A x \in Delivery : x # d => attempts'[x] = attempts[x]
    BY <1>1, <1>3
  <1>5. Last(attempts'[d]) = "later" /\ posts[d] <= Len(attempts'[d]) /\ (Len(attempts'[d]) < MaxAttempts \/ posts[d] = 0)
    <2>1. CASE t = d
      <3>1. attempts'[d] = Append(attempts[d], "later")
        BY <1>1, <1>3, <2>1
      <3>2. Last(attempts'[d]) = "later" /\ Len(attempts'[d]) = Len(attempts[d]) + 1
        BY <1>3, <3>1, Pushed
      <3> QED BY <1>2, <1>3, <2>1, <3>2
    <2>2. CASE t # d
      <3>1. PICK r : r = [attempts[d] EXCEPT ![Len(attempts[d])] = "later"]
        OBVIOUS
      <3>2. attempts'[d] = r
        BY <1>1, <1>3, <2>2, <3>1
      <3>3. Len(attempts[d]) \in 1..Len(attempts[d])
        BY <1>2, <1>3, <2>2, SeqFacts
      <3>4. r \in Seq(Mark) /\ r # <<>> /\ Last(r) = "later" /\ Len(r) = Len(attempts[d])
        <4>1. attempts[d] \in Seq(Mark) /\ "later" \in Mark
          BY <1>3
        <4> QED BY <3>1, <3>3, <4>1, Overwritten
      <3> QED BY <1>2, <3>2, <3>4
    <2> QED BY <2>1, <2>2
  <1>6. \A u \in Task : u # t /\ pc[u] = "http" => Len(attempts'[cur[u]]) = Len(attempts[cur[u]])
    BY <1>2, <1>4 DEF Sending, DeliveryInv, DeliveryType
  <1>7. /\ OneRetrier' /\ \A u \in Task : NumberOK(u)'
        /\ \A x \in Delivery : x # d => PostsOK(x)' /\ AcksOK(x)'
    BY <1>1, <1>4, <1>6, DoneSerial
  <1>8. PostsOK(d)' /\ AcksOK(d)'
    <2>1. posts[d] <= MaxAttempts
      BY DEF Serial, PostsOK
    <2> QED BY <1>1, <1>2, <1>5, <2>1 DEF PostsOK, AcksOK
  <1> QED BY <1>7, <1>8 DEF Serial

LEMMA AllowedSerial ==
    ASSUME DeliveryInv, Serial, NEW t \in Task, NEW d \in Delivery, GateAllowed(t, d)
    PROVE  Serial'
  <1>1. /\ pc[t] = "gate" /\ d \in list[t] /\ number' = [number EXCEPT ![t] = Len(attempts[d]) + 1]
        /\ cur' = [cur EXCEPT ![t] = d] /\ posts' = [posts EXCEPT ![d] = @ + 1] /\ pc' = [pc EXCEPT ![t] = "http"]
        /\ UNCHANGED <<status, attempts, list, mine, acks>>
    BY DEF GateAllowed
  <1>2. /\ acks[d] = 0 /\ posts[d] <= Len(attempts[d]) /\ \A u \in Task : ~Sending(u, d)
        /\ Len(attempts[d]) < MaxAttempts \/ posts[d] = 0
    BY <1>1, AtTheGate
  <1>3. /\ \A u \in Task : u # t => pc'[u] = pc[u] /\ cur'[u] = cur[u] /\ number'[u] = number[u]
        /\ pc'[t] = "http" /\ cur'[t] = d /\ number'[t] = Len(attempts[d]) + 1
        /\ \A x \in Delivery : posts'[x] = IF x = d THEN posts[x] + 1 ELSE posts[x]
    BY <1>1 DEF DeliveryInv, DeliveryType
  <1>4. OneRetrier' /\ \A u \in Task : NumberOK(u)'
    BY <1>1, <1>3 DEF Serial, OneRetrier, NumberOK, Task
  <1>5. \A x \in Delivery, u \in Task : (Open(u, x)' => Open(u, x)) /\ (Sending(u, x) => Sending(u, x)')
    BY <1>1, <1>3 DEF Open, Sending
  <1>6. ASSUME NEW x \in Delivery PROVE PostsOK(x)' /\ AcksOK(x)'
    <2>0. PostsOK(x) /\ AcksOK(x)
      BY DEF Serial
    <2>1. CASE x # d
      BY <1>1, <1>3, <1>5, <2>0, <2>1, Untouched
    <2>2. CASE x = d
      <3>1. posts'[d] <= MaxAttempts /\ posts'[d] <= Len(attempts[d]) + 1
        BY <1>2, <1>3, Numbers
      <3>2. Sending(t, d)'
        BY <1>3 DEF Sending
      <3>3. \A c \in Caller : Open(c, d)' => Open(c, d)
        BY <1>5 DEF Task
      <3> QED BY <1>1, <1>2, <2>0, <2>2, <3>1, <3>2, <3>3 DEF PostsOK, AcksOK
    <2> QED BY <2>1, <2>2
  <1> QED BY <1>4, <1>6 DEF Serial

LEMMA AnswerSerial ==
    ASSUME DeliveryInv, Serial, NEW t \in Task, NEW o \in Outcome, Answer(t, o)
    PROVE  Serial'
  <1>1. PICK d \in Delivery : d = cur[t]
    BY AnswerDoes
  <1>2. /\ pc[t] = "http" /\ d \in list[t]
        /\ Len(attempts'[d]) = Len(attempts[d]) + 1 /\ attempts'[d] # <<>> /\ mine'[t] = Len(attempts[d]) + 1
        /\ Last(attempts'[d]) = IF ShouldRetry(o, number[t], FALSE) THEN "later" ELSE "none"
        /\ \A x \in Delivery : x # d => attempts'[x] = attempts[x]
    BY <1>1, AnswerDoes
  <1>3. /\ status' = [status EXCEPT ![d] = IF o = "ok" THEN "delivered" ELSE "pending"]
        /\ acks' = [acks EXCEPT ![d] = IF o = "ok" THEN @ + 1 ELSE @] /\ pc' = [pc EXCEPT ![t] = "record"]
        /\ mine' = [mine EXCEPT ![t] = Len(attempts[d]) + 1]
        /\ UNCHANGED <<list, cur, number, posts>>
    BY <1>1 DEF Answer
  <1>4. /\ \A u \in Task : pc'[u] = (IF u = t THEN "record" ELSE pc[u]) /\ (u # t => mine'[u] = mine[u])
        /\ \A x \in Delivery : x # d => status'[x] = status[x] /\ acks'[x] = acks[x]
        /\ status'[d] = (IF o = "ok" THEN "delivered" ELSE "pending")
        /\ acks'[d] = IF o = "ok" THEN acks[d] + 1 ELSE acks[d]
    BY <1>3 DEF DeliveryInv, DeliveryType
  <1>5. Sending(t, d) /\ Open(t, d) /\ acks[d] = 0
    <2>1. Sending(t, d) /\ Open(t, d)
      BY <1>1, <1>2 DEF Sending, Open
    <2> QED BY <2>1 DEF Serial, AcksOK
  <1>6. \A u \in Task : Open(u, d) => u = t
    BY <1>5, OneSender DEF Serial
  <1>7. \A u \in Task : ~Open(u, d)'
    BY <1>1, <1>3, <1>4, <1>6 DEF Open
  <1>8. number[t] = Len(attempts[d]) + 1
    BY <1>1, <1>2 DEF Serial, NumberOK
  <1>9. OneRetrier' /\ \A u \in Task : NumberOK(u)'
    <2>1. OneRetrier'
      BY <1>2, <1>4 DEF Serial, OneRetrier, Task
    <2>2. ASSUME NEW u \in Task PROVE NumberOK(u)'
      <3>1. CASE u = t
        BY <1>2, <1>3, <1>4, <1>8, <3>1 DEF NumberOK
      <3>2. CASE u # t
        <4>1. NumberOK(u) /\ cur[u] \in Delivery
          BY DEF Serial, DeliveryInv, DeliveryType
        <4>2. pc[u] = "http" => cur[u] # d
          BY <1>6, <3>2, SendingIsOpen DEF Sending
        <4> QED BY <1>2, <1>3, <1>4, <3>2, <4>1, <4>2 DEF NumberOK
      <3> QED BY <3>1, <3>2
    <2> QED BY <2>1, <2>2
  <1>10. ASSUME NEW x \in Delivery PROVE PostsOK(x)' /\ AcksOK(x)'
    <2>0. PostsOK(x) /\ AcksOK(x)
      BY DEF Serial
    <2>1. CASE x # d
      <3>1. \A u \in Task : (Open(u, x)' => Open(u, x)) /\ (Sending(u, x) => Sending(u, x)')
        BY <1>1, <1>2, <1>3, <1>4, <2>1 DEF Open, Sending
      <3> QED BY <1>2, <1>3, <1>4, <2>0, <2>1, <3>1, Untouched
    <2>2. CASE x = d
      <3>1. posts[d] <= MaxAttempts /\ posts[d] <= Len(attempts'[d])
        BY <1>2, <2>0, <2>2, Numbers DEF PostsOK
      <3>2. Last(attempts'[d]) # "none" => Len(attempts'[d]) < MaxAttempts
        BY <1>2, <1>8 DEF ShouldRetry
      <3>3. o = "ok" => Last(attempts'[d]) = "none"
        BY <1>2 DEF ShouldRetry
      <3>4. PostsOK(d)'
        BY <1>3, <1>7, <3>1, <3>2 DEF PostsOK, Task
      <3>5. AcksOK(d)'
        <4>1. CASE o = "ok"
          <5>1. acks'[d] = 1 /\ status'[d] = "delivered"
            BY <1>4, <1>5, <4>1
          <5>2. attempts'[d] # <<>> /\ Last(attempts'[d]) = "none"
            BY <1>2, <3>3, <4>1
          <5> QED BY <1>7, <5>1, <5>2 DEF AcksOK
        <4>2. CASE o # "ok"
          <5>1. acks'[d] = 0
            BY <1>4, <1>5, <4>2
          <5> QED BY <5>1 DEF AcksOK
        <4> QED BY <4>1, <4>2
      <3> QED BY <2>2, <3>4, <3>5
    <2> QED BY <2>1, <2>2
  <1> QED BY <1>9, <1>10 DEF Serial

LEMMA ConcludeSerial ==
    ASSUME DeliveryInv, Serial, NEW t \in Task, NEW tripped \in BOOLEAN, Conclude(t, tripped)
    PROVE  Serial'
  <1>1. PICK d \in Delivery : d = cur[t] /\ d \in list[t] /\ pc[t] = "record"
    BY ConcludeDoes
  <1>2. /\ Done(t, d) /\ UNCHANGED <<posts, acks>>
        /\ \A x \in Delivery : x # d => status'[x] = status[x] /\ attempts'[x] = attempts[x]
        /\ attempts[d] # <<>> /\ attempts'[d] # <<>> /\ Len(attempts'[d]) = Len(attempts[d])
    BY <1>1, ConcludeDoes
  <1>3. \A u \in Task : u # t /\ pc[u] = "http" => Len(attempts'[cur[u]]) = Len(attempts[cur[u]])
    BY <1>2 DEF DeliveryInv, DeliveryType
  <1>4. /\ OneRetrier' /\ \A u \in Task : NumberOK(u)'
        /\ \A x \in Delivery : x # d => PostsOK(x)' /\ AcksOK(x)'
        /\ \A x \in Delivery, u \in Task : (Open(u, x)' => Open(u, x)) /\ (Sending(u, x) => Sending(u, x)')
    BY <1>1, <1>2, <1>3, DoneSerial
  <1>5. PostsOK(d) /\ AcksOK(d) /\ number[t] = mine[t]
    BY <1>1 DEF Serial, NumberOK
  <1>6. \A c \in Caller : Open(c, d)' => Open(c, d)
    BY <1>4 DEF Task
  <1>7. CASE attempts'[d] = attempts[d]
    <2>1. acks[d] = 0 \/ status'[d] = "delivered"
      BY <1>1, <1>5, ConcludeDoes DEF AcksOK
    <2> QED BY <1>2, <1>4, <1>5, <1>6, <1>7, <2>1 DEF PostsOK, AcksOK, Serial
  <1>8. CASE /\ status[d] # "delivered" /\ number[t] < MaxAttempts
             /\ Last(attempts'[d]) = IF mine[t] = Len(attempts[d]) THEN "later" ELSE Last(attempts[d])
    <2>1. acks[d] = 0
      BY <1>5, <1>8 DEF AcksOK
    <2>2. Last(attempts'[d]) # "none" =>
             Len(attempts'[d]) < MaxAttempts \/ posts[d] = 0 \/ \E u \in Task : Sending(u, d)'
      BY <1>2, <1>4, <1>5, <1>8 DEF PostsOK
    <2>3. \A c \in Caller : Open(c, d)' => Last(attempts'[d]) # "none"
      BY <1>5, <1>6, <1>8 DEF PostsOK
    <2>4. PostsOK(d)'
      BY <1>2, <1>4, <1>5, <2>2, <2>3 DEF PostsOK
    <2>5. AcksOK(d)'
      BY <1>2, <2>1 DEF AcksOK
    <2> QED BY <1>4, <2>4, <2>5 DEF Serial
  <1> QED BY <1>1, <1>7, <1>8, ConcludeDoes

\* Time, the clean-up and the dead-letter route send nothing.
LEMMA RestSerial ==
    ASSUME DeliveryInv, Serial,
           \/ \E d \in Delivery : RetryDeadLetter(d) \/ RetryDue(d)
           \/ \E old, gone \in SUBSET Delivery : Cleanup(old, gone)
           \/ UNCHANGED deliveryVars
    PROVE  Serial'
  <1>1. UNCHANGED <<status, pc, list, cur, number, mine, posts, acks>>
    BY DEF RetryDeadLetter, RetryDue, Cleanup, calls, deliveryVars
  <1>2. ASSUME NEW x \in Delivery
        PROVE  /\ Len(attempts'[x]) = Len(attempts[x]) /\ (attempts'[x] = <<>> <=> attempts[x] = <<>>)
               /\ (Last(attempts'[x]) = "none" <=> Last(attempts[x]) = "none")
    <2>1. CASE attempts' = attempts
      BY <2>1
    <2>2. CASE \E d \in Delivery : RetryDue(d)
      <3>1. PICK d \in Delivery : RetryDue(d)
        BY <2>2
      <3>2. /\ attempts[d] \in Seq(Mark) /\ "due" \in Mark /\ attempts \in [Delivery -> Seq(Mark)]
            /\ attempts[d] # <<>> /\ Last(attempts[d]) = "later"
            /\ attempts' = [attempts EXCEPT ![d][Len(attempts[d])] = "due"]
        BY <3>1 DEF RetryDue, DeliveryInv, DeliveryType, Mark
      <3>3. PICK q : q = [attempts[d] EXCEPT ![Len(attempts[d])] = "due"]
        OBVIOUS
      <3>4. Len(attempts[d]) \in 1..Len(attempts[d])
        BY <3>2, SeqFacts
      <3>5. q \in Seq(Mark) /\ Len(q) = Len(attempts[d]) /\ q # <<>> /\ Last(q) = "due"
        <4>1. attempts[d] \in Seq(Mark) /\ "due" \in Mark
          BY <3>2
        <4> QED BY <3>3, <3>4, <4>1, Overwritten
      <3>6. attempts' = [attempts EXCEPT ![d] = q]
        BY <3>2, <3>3
      <3>7. CASE x = d
        <4>1. attempts'[x] = q
          BY <3>2, <3>6, <3>7
        <4> QED BY <3>2, <3>5, <3>7, <4>1
      <3>8. CASE x # d
        BY <3>2, <3>6, <3>8
      <3> QED BY <3>7, <3>8
    <2> QED BY <2>1, <2>2 DEF RetryDeadLetter, Cleanup, deliveryVars
  <1>3. OneRetrier'
    BY <1>1 DEF Serial, OneRetrier
  <1>4. ASSUME NEW t \in Task PROVE NumberOK(t)'
    BY <1>1, <1>2 DEF Serial, NumberOK, DeliveryInv, DeliveryType
  <1>5. ASSUME NEW x \in Delivery PROVE PostsOK(x)' /\ AcksOK(x)'
    <2>1. PostsOK(x) /\ AcksOK(x) /\ \A t \in Task : (Open(t, x)' <=> Open(t, x)) /\ (Sending(t, x)' <=> Sending(t, x))
      BY <1>1 DEF Serial, Open, Sending
    <2>2. \A c \in Caller : Open(c, x)' <=> Open(c, x)
      BY <2>1 DEF Task
    <2> QED BY <1>1, <1>2, <2>1, <2>2 DEF PostsOK, AcksOK
  <1> QED BY <1>3, <1>4, <1>5 DEF Serial

LEMMA SerialStep ==
    DeliveryInv /\ (overlapped \/ Serial) /\ [Next]_deliveryVars => (overlapped \/ Serial)'
  <1> SUFFICES ASSUME DeliveryInv, overlapped \/ Serial, [Next]_deliveryVars, ~overlapped' PROVE Serial'
    BY Zenon
  <1>1. Serial
    <2>1. ASSUME NEW c \in Caller, ProcessPendingRetries(c) PROVE ~overlapped
      BY <2>1, Zenon DEF ProcessPendingRetries
    <2>2. ASSUME NEW t \in Task, Progress(t) PROVE overlapped' = overlapped
      BY <2>2 DEF Progress, GateDenied, GateAllowed, Answer, Conclude
    <2>3. CASE overlapped' = overlapped
      BY <2>3, Zenon
    <2>4. CASE \E c \in Caller : ProcessPendingRetries(c)
      BY <2>1, <2>4, Zenon
    <2> QED BY <2>2, <2>3, <2>4 DEF Next, QueueDelivery, RetryDeadLetter, RetryDue, Cleanup, deliveryVars
  <1>2. ASSUME NEW t \in Task, Progress(t) PROVE Serial'
    BY <1>1, <1>2, DeniedSerial, AllowedSerial, AnswerSerial, ConcludeSerial DEF Progress
  <1>3. ASSUME NEW c \in Caller, ProcessPendingRetries(c) PROVE Serial'
    BY <1>1, <1>3, ProcessSerial, Zenon
  <1> QED BY <1>1, <1>2, <1>3, QueueSerial, RestSerial DEF Next

\* Whatever queueDelivery, overlapping retry requests, the breaker, the clean-up and
\* the dead-letter route do in between: a delivery no call has in hand is delivered,
\* waits for a retry or was dead-lettered; and while retry requests do not overlap,
\* its consumer acknowledges it at most once and is asked at most maxAttempts times.
THEOREM NoDeliveryIsForgotten == Spec => []DeliveriesAccounted
  <1>1. Init => DeliveryInv /\ (overlapped \/ Serial)
    BY DeliveryInit, SerialInit, Zenon
  <1>2. DeliveryInv /\ (overlapped \/ Serial) /\ [Next]_deliveryVars => (DeliveryInv /\ (overlapped \/ Serial))'
    BY DeliveryStep, SerialStep, Zenon
  <1>3. DeliveryInv => TypeOK
    <2> SUFFICES ASSUME DeliveryInv PROVE TypeOK
      OBVIOUS
    <2>1. ASSUME NEW t \in Task PROVE number[t] \in Nat /\ mine[t] \in 0..Len(attempts[cur[t]])
      <3>1. number[t] \in Nat /\ Len(attempts[cur[t]]) \in Nat /\ CallOK(t)
        BY SeqFacts DEF DeliveryInv, DeliveryType
      <3> QED BY <3>1 DEF CallOK
    <2>2. overlapped \in BOOLEAN
      BY Zenon DEF DeliveryInv
    <2>3. DeliveryType
      BY DEF DeliveryInv
    <2> QED BY <2>1, <2>2, <2>3 DEF TypeOK, DeliveryType, Mark
  <1>4. DeliveryInv => NothingForgotten
    <2> SUFFICES ASSUME DeliveryInv, NEW d \in Delivery, status[d] \in {"pending", "permanent_failure"}, ~Held(d)
                 PROVE  \/ status[d] = "pending" /\ attempts[d] # <<>> /\ Last(attempts[d]) # "none"
                        \/ dlq[d] # "no"
      BY DEF NothingForgotten
    <2>1. \A t \in Task : d \notin list[t]
      BY DEF Held
    <2>2. d \in Task /\ FirstOK(d) /\ LastOK(d) /\ DeadOK(d)
      BY DEF DeliveryInv, Task
    <2>3. ~\E t \in Task : pc[t] = "record" /\ cur[t] = d
      BY <2>1 DEF DeliveryInv, CallOK
    <2> QED BY <2>1, <2>2, <2>3 DEF FirstOK, LastOK, DeadOK
  <1>5. DeliveryInv /\ (overlapped \/ Serial) => SerialRetriesSendOnce
    <2>1. Serial => \A d \in Delivery : acks[d] <= 1 /\ posts[d] <= MaxAttempts
      BY DEF Serial, PostsOK, AcksOK
    <2> QED BY <2>1, Zenon DEF SerialRetriesSendOnce
  <1> QED BY <1>1, <1>2, <1>3, <1>4, <1>5, PTL DEF Spec, DeliveriesAccounted

----------------------------------------------------------------------------
(* The delivery store                                                      *)

LetterName == [id : 1..MaxIds, of : Letter]
LetterRow == [id : 1..MaxIds, of : Letter, open : BOOLEAN]
LiveState == {Store!Pending} \cup {Store!Claimed(w) : w \in Worker}
RowState == Store!Object \cup {Store!NoRow, Store!Delivered}

\* The statements the store issues.
Statement ==
    {Store!InsertItem(i) : i \in Item}
    \cup {Store!SetItem(i, o) : i \in Item, o \in LiveState \cup {Store!Delivered}}
    \cup {Store!InsertLetter(e) : e \in LetterName} \cup {Store!CloseLetter(e) : e \in LetterName}
    \cup {Store!PurgeLetters}

ItemType ==
    /\ phase \in {"outbox", "letters", "ready", "failed"} /\ crashes \in 0..MaxCrashes
    /\ queue \in [Item -> Seq(Store!Object)] /\ map \in [Item -> Nat] /\ row \in [Item -> RowState]
    /\ accepted \subseteq Item /\ handled \subseteq Item /\ lost \subseteq Item

LetterType ==
    /\ entries \subseteq LetterName /\ dlqRows \subseteq LetterRow /\ IsFiniteSet(dlqRows) /\ ids \in 0..MaxIds
    /\ dead \subseteq Letter /\ resolved \subseteq Letter /\ lostDead \subseteq Letter

\* An item that was never accepted leaves no trace; the row of one not dealt with is
\* live, or its INSERT is still under way; and only a dealt-with one may be closed.
ItemOK(i) ==
    /\ i \notin accepted => row[i] = Store!NoRow /\ Store!InsertItem(i) \notin writes /\ queue[i] = <<>>
    /\ i \in accepted \ (handled \cup lost) => Store!Live(row[i]) \/ Store!InsertItem(i) \in writes
    /\ row[i] = Store!Delivered \/ Store!SetItem(i, Store!Delivered) \in writes => i \in handled

\* The map points into the list; used as documented, the list holds nothing else.
MirrorOK(i) ==
    /\ map[i] <= Len(queue[i])
    /\ ~early => Len(queue[i]) = (IF map[i] = 0 THEN 0 ELSE 1)
    /\ ~early /\ phase = "outbox" => Len(queue[i]) = 0

\* An id stands for one dead letter, whoever uses it.
Names(n, l) ==
    \/ \E e \in entries : e.id = n /\ e.of = l
    \/ \E r \in dlqRows : r.id = n /\ r.of = l
    \/ \E e \in LetterName : /\ e.id = n /\ e.of = l
                             /\ Store!InsertLetter(e) \in writes \/ Store!CloseLetter(e) \in writes
OneName == \A n \in 1..MaxIds, l, k \in Letter : Names(n, l) /\ Names(n, k) => n <= ids /\ l = k
ClosedIsResolved == \A e \in LetterName : Store!CloseLetter(e) \in writes => e.of \in resolved

LetterOK(l) ==
    l \in dead \ (resolved \cup lostDead) =>
        \/ \E r \in dlqRows : r.of = l /\ r.open
        \/ \E e \in LetterName : e.of = l /\ Store!InsertLetter(e) \in writes

ItemInv == ItemType /\ \A i \in Item : ItemOK(i) /\ MirrorOK(i)
LetterInv == LetterType /\ OneName /\ ClosedIsResolved /\ \A l \in Letter : LetterOK(l)
StoreInv == ItemInv /\ LetterInv /\ writes \subseteq Statement /\ early \in BOOLEAN

LEMMA StoreCount == ASSUME NEW S PROVE Store!Cardinality(S) = Cardinality(S)
  BY DEF Store!Cardinality, Cardinality

\* Different statements are different records.
LEMMA ItemStatements ==
    ASSUME NEW i, NEW j, NEW o, NEW p
    PROVE  /\ Store!InsertItem(i) = Store!InsertItem(j) => i = j
           /\ Store!SetItem(i, o) = Store!SetItem(j, p) => i = j /\ o = p
           /\ Store!InsertItem(i) # Store!SetItem(j, p)
           /\ Store!InsertItem(i) # Store!PurgeLetters /\ Store!SetItem(i, o) # Store!PurgeLetters
  BY DEF Store!InsertItem, Store!SetItem, Store!PurgeLetters

LEMMA LetterStatements ==
    ASSUME NEW e, NEW f, NEW i, NEW o
    PROVE  /\ Store!InsertLetter(e) = Store!InsertLetter(f) => e = f
           /\ Store!CloseLetter(e) = Store!CloseLetter(f) => e = f
           /\ Store!InsertLetter(e) # Store!CloseLetter(f)
           /\ Store!InsertLetter(e) # Store!PurgeLetters /\ Store!CloseLetter(e) # Store!PurgeLetters
           /\ Store!InsertItem(i) # Store!InsertLetter(e) /\ Store!InsertItem(i) # Store!CloseLetter(e)
           /\ Store!SetItem(i, o) # Store!InsertLetter(e) /\ Store!SetItem(i, o) # Store!CloseLetter(e)
  BY DEF Store!InsertLetter, Store!CloseLetter, Store!PurgeLetters, Store!InsertItem, Store!SetItem

LEMMA RowStates ==
    /\ \A o \in LiveState : o \in Store!Object
    /\ \A o \in Store!Object : Store!Live(o) /\ o # Store!NoRow /\ o # Store!Delivered
    /\ ~Store!Live(Store!NoRow) /\ ~Store!Live(Store!Delivered) /\ Store!NoRow # Store!Delivered
    /\ Store!Pending \in LiveState
  <1>1. ASSUME NEW o \in LiveState PROVE o \in Store!Object
    <2>1. FALSE \in BOOLEAN
      OBVIOUS
    <2>2. CASE o = Store!Pending
      BY <2>1, <2>2 DEF Store!Object, Store!Pending
    <2>3. CASE o # Store!Pending
      <3>1. PICK w \in Worker : o = Store!Claimed(w)
        BY <2>3 DEF LiveState
      <3> QED BY <2>1, <3>1 DEF Store!Object, Store!Claimed
    <2> QED BY <2>2, <2>3
  <1> QED BY <1>1 DEF Store!Object, Store!Live, Store!NoRow, Store!Delivered, LiveState

\* lockedAt falls behind the timeout: only the age of the lock changes.
LEMMA Aged ==
    ASSUME NEW o \in RowState, NEW a, a = Store!Expired(o)
    PROVE  (o \in Store!Object => a \in Store!Object) /\ (o \notin Store!Object => a = o)
  <1>0. a = [o EXCEPT !.old = (o.old \/ o.st = "in_flight")]
    BY DEF Store!Expired
  <1>1. CASE o \in Store!Object
    <2>1. (o.old \/ o.st = "in_flight") \in BOOLEAN
      OBVIOUS
    <2> QED BY <1>0, <1>1, <2>1 DEF Store!Object
  <1>2. CASE o \notin Store!Object
    <2>1. o = Store!NoRow \/ o = Store!Delivered
      BY <1>2 DEF RowState
    <2>2. (o.old \/ o.st = "in_flight") = FALSE /\ o.old = FALSE
      <3>1. CASE o = Store!NoRow
        BY <3>1, Zenon DEF Store!NoRow
      <3>2. CASE o = Store!Delivered
        BY <3>2, Zenon DEF Store!Delivered
      <3> QED BY <2>1, <3>1, <3>2, Zenon
    <2>3. PICK b : b = o.old /\ a = [o EXCEPT !.old = b]
      BY <1>0, <2>2, Zenon
    <2>4. a = o
      BY <2>1, <2>3 DEF Store!NoRow, Store!Delivered
    <2> QED BY <1>2, <2>4
  <1> QED BY <1>1, <1>2

LEMMA Rewritten ==
    ASSUME NEW S, NEW s \in Seq(S), NEW q, q = [k \in DOMAIN s |-> q[k]], \A k \in DOMAIN s : q[k] \in S
    PROVE  q \in Seq(S) /\ Len(q) = Len(s)
  <1>1. Len(s) \in Nat /\ DOMAIN s = 1..Len(s)
    BY LenProperties
  <1>2. q \in [1..Len(s) -> S]
    BY <1>1
  <1>3. q \in Seq(S)
    BY <1>1, <1>2, SeqDef
  <1>4. DOMAIN q = 1..Len(s) /\ DOMAIN q = 1..Len(q) /\ Len(q) \in Nat
    BY <1>1, <1>2, <1>3, LenProperties
  <1> QED BY <1>1, <1>3, <1>4

LEMMA StoreInit == Store!Init => StoreInv
  <1> SUFFICES ASSUME Store!Init PROVE StoreInv
    OBVIOUS
  <1>1. <<>> \in Seq(Store!Object) /\ Len(<<>>) = 0 /\ MaxIds \in Nat /\ MaxCrashes \in Nat /\ IsFiniteSet({})
    BY StoreAssumption, FS_EmptySet
  <1>2. ItemType
    BY <1>1 DEF Store!Init, ItemType, RowState
  <1>3. LetterType
    BY <1>1 DEF Store!Init, LetterType
  <1>4. ASSUME NEW i \in Item PROVE ItemOK(i) /\ MirrorOK(i)
    BY <1>1, RowStates DEF Store!Init, ItemOK, MirrorOK
  <1>5. OneName /\ ClosedIsResolved /\ \A l \in Letter : LetterOK(l)
    BY DEF Store!Init, OneName, Names, ClosedIsResolved, LetterOK
  <1>6. writes \subseteq Statement
    BY DEF Store!Init
  <1>7. early \in BOOLEAN
    BY Zenon DEF Store!Init
  <1> QED BY <1>2, <1>3, <1>4, <1>5, <1>6, <1>7 DEF StoreInv, ItemInv, LetterInv

LEMMA Persisted ==
    ASSUME StoreInv, NEW issued \in SUBSET Statement, Store!PersistAsync(issued)
    PROVE  /\ writes' = writes \cup issued /\ writes' \subseteq Statement
           /\ early' \in BOOLEAN /\ (~early' => ~early /\ phase \notin {"outbox", "letters"})
  <1>1. writes' = writes \cup issued
    BY DEF Store!PersistAsync
  <1>2. early' \in BOOLEAN /\ (~early' => ~early /\ phase \notin {"outbox", "letters"})
    BY Zenon DEF Store!PersistAsync
  <1> QED BY <1>1, <1>2 DEF StoreInv

\* A step on the outbox leaves what is known of dead letters alone.
LEMMA LettersKept ==
    ASSUME LetterInv, UNCHANGED <<entries, dlqRows, ids, dead, resolved, lostDead>>,
           \A e \in LetterName : /\ Store!InsertLetter(e) \in writes' <=> Store!InsertLetter(e) \in writes
                                 /\ Store!CloseLetter(e) \in writes' <=> Store!CloseLetter(e) \in writes
    PROVE  LetterInv'
  <1>1. LetterType'
    BY DEF LetterInv, LetterType
  <1>2. \A n, l : Names(n, l)' <=> Names(n, l)
    BY DEF Names
  <1>3. OneName'
    BY <1>2 DEF LetterInv, OneName
  <1>4. ClosedIsResolved'
    BY DEF LetterInv, ClosedIsResolved
  <1>5. ASSUME NEW l \in Letter PROVE LetterOK(l)'
    BY DEF LetterInv, LetterOK
  <1> QED BY <1>1, <1>3, <1>4, <1>5 DEF LetterInv

\* And the other way round.
LEMMA ItemsKept ==
    ASSUME ItemInv, UNCHANGED <<phase, queue, map, row, crashes, accepted, handled, lost>>, ~early' => ~early,
           \A i \in Item : /\ Store!InsertItem(i) \in writes' <=> Store!InsertItem(i) \in writes
                           /\ Store!SetItem(i, Store!Delivered) \in writes' <=>
                              Store!SetItem(i, Store!Delivered) \in writes
    PROVE  ItemInv'
  <1>1. ItemType'
    BY DEF ItemInv, ItemType
  <1>2. ASSUME NEW i \in Item PROVE ItemOK(i)'
    BY DEF ItemInv, ItemOK
  <1>3. ASSUME NEW i \in Item PROVE MirrorOK(i)'
    BY DEF ItemInv, MirrorOK
  <1> QED BY <1>1, <1>2, <1>3 DEF ItemInv

\* A lock is taken, renewed or given up: the item stays what it was.
LEMMA RelockKeeps ==
    ASSUME StoreInv, NEW S \in SUBSET Item, NEW o \in LiveState,
           Store!PersistAsync({Store!SetItem(i, o) : i \in S}),
           queue' \in [Item -> Seq(Store!Object)], \A i \in Item : Len(queue'[i]) = Len(queue[i]),
           UNCHANGED <<phase, map, row, dlqRows, crashes, accepted, handled, lost, lostDead>>,
           UNCHANGED <<entries, ids, dead, resolved>>
    PROVE  StoreInv'
  <1>1. {Store!SetItem(i, o) : i \in S} \in SUBSET Statement
    BY DEF Statement
  <1>2. /\ writes' = writes \cup {Store!SetItem(i, o) : i \in S} /\ writes' \subseteq Statement
        /\ early' \in BOOLEAN /\ (~early' => ~early)
    BY <1>1, Persisted
  <1>3. LetterInv'
    <2>1. \A e \in LetterName : /\ Store!InsertLetter(e) \in writes' <=> Store!InsertLetter(e) \in writes
                                /\ Store!CloseLetter(e) \in writes' <=> Store!CloseLetter(e) \in writes
      BY <1>2, LetterStatements
    <2> QED BY <2>1, LettersKept DEF StoreInv
  <1>4. ItemType'
    BY DEF StoreInv, ItemInv, ItemType
  <1>5. ASSUME NEW i \in Item PROVE ItemOK(i)' /\ MirrorOK(i)'
    <2>1. ItemOK(i) /\ MirrorOK(i) /\ o # Store!Delivered
      BY RowStates DEF StoreInv, ItemInv
    <2>2. /\ Store!InsertItem(i) \in writes' <=> Store!InsertItem(i) \in writes
          /\ Store!SetItem(i, Store!Delivered) \in writes' <=> Store!SetItem(i, Store!Delivered) \in writes
      BY <1>2, <2>1, ItemStatements
    <2>3. queue[i] = <<>> => queue'[i] = <<>>
      BY EmptySeq, LenProperties DEF StoreInv, ItemInv, ItemType
    <2> QED BY <1>2, <2>1, <2>2, <2>3 DEF ItemOK, MirrorOK
  <1> QED BY <1>2, <1>3, <1>4, <1>5 DEF StoreInv, ItemInv

\* Items are dealt with and taken out of the mirror.
LEMMA RemoveKeeps ==
    ASSUME StoreInv, NEW S \in SUBSET Item, \A i \in S : map[i] # 0, Store!Remove(S), handled' = handled \cup S,
           Store!PersistAsync({Store!SetItem(i, Store!Delivered) : i \in S}),
           UNCHANGED <<phase, row, dlqRows, crashes, accepted, lost, lostDead>>,
           UNCHANGED <<entries, ids, dead, resolved>>
    PROVE  StoreInv'
  <1>1. {Store!SetItem(i, Store!Delivered) : i \in S} \in SUBSET Statement
    BY DEF Statement
  <1>2. /\ writes' = writes \cup {Store!SetItem(i, Store!Delivered) : i \in S} /\ writes' \subseteq Statement
        /\ early' \in BOOLEAN /\ (~early' => ~early)
    BY <1>1, Persisted
  <1>3. LetterInv'
    <2>1. \A e \in LetterName : /\ Store!InsertLetter(e) \in writes' <=> Store!InsertLetter(e) \in writes
                                /\ Store!CloseLetter(e) \in writes' <=> Store!CloseLetter(e) \in writes
      BY <1>2, LetterStatements
    <2> QED BY <2>1, LettersKept DEF StoreInv
  <1>4. ASSUME NEW i \in Item
        PROVE  /\ queue'[i] \in Seq(Store!Object) /\ map'[i] \in Nat
               /\ i \in S => map'[i] = 0 /\ Len(queue'[i]) = Len(queue[i]) - 1 /\ Len(queue[i]) \in Nat \ {0}
               /\ i \notin S => map'[i] = map[i] /\ queue'[i] = queue[i]
    <2>1. queue[i] \in Seq(Store!Object) /\ map[i] \in Nat /\ map[i] <= Len(queue[i]) /\ Len(queue[i]) \in Nat
      BY LenProperties DEF StoreInv, ItemInv, ItemType, MirrorOK
    <2>2. CASE i \in S
      <3>1. queue[i] # <<>> /\ Len(queue[i]) # 0
        BY <2>1, <2>2, EmptySeq
      <3>2. queue'[i] = Tail(queue[i]) /\ map'[i] = 0
        BY <2>2 DEF Store!Remove
      <3> QED BY <2>1, <2>2, <3>1, <3>2, HeadTailProperties
    <2>3. CASE i \notin S
      BY <2>1, <2>3 DEF Store!Remove
    <2> QED BY <2>2, <2>3
  <1>5. ItemType'
    <2>1. queue' \in [Item -> Seq(Store!Object)] /\ map' \in [Item -> Nat]
      BY <1>4 DEF Store!Remove
    <2> QED BY <2>1 DEF StoreInv, ItemInv, ItemType
  <1>6. ASSUME NEW i \in Item PROVE ItemOK(i)' /\ MirrorOK(i)'
    <2>1. ItemOK(i) /\ MirrorOK(i)
      BY DEF StoreInv, ItemInv
    <2>2. /\ Store!InsertItem(i) \in writes' <=> Store!InsertItem(i) \in writes
          /\ Store!SetItem(i, Store!Delivered) \in writes' <=> Store!SetItem(i, Store!Delivered) \in writes \/ i \in S
      BY <1>2, ItemStatements
    <2>3. CASE i \in S
      <3>1. i \in accepted /\ i \in handled'
        BY <1>4, <2>1, <2>3, EmptySeq DEF ItemOK
      <3>2. MirrorOK(i)'
        BY <1>2, <1>4, <2>1, <2>3 DEF MirrorOK
      <3> QED BY <3>1, <3>2 DEF ItemOK
    <2>4. CASE i \notin S
      <3>1. MirrorOK(i)'
        BY <1>2, <1>4, <2>1, <2>4 DEF MirrorOK
      <3> QED BY <1>4, <2>1, <2>2, <2>4, <3>1 DEF ItemOK
    <2> QED BY <2>3, <2>4
  <1> QED BY <1>2, <1>3, <1>5, <1>6 DEF StoreInv, ItemInv

LEMMA LocksKeep ==
    ASSUME StoreInv,
           \/ \E w \in Worker : Store!ClaimReadyOutboxItems(w) \/ Store!ReclaimStuckItems(w)
           \/ Store!ReleaseExpiredLeases
           \/ \E i \in Item, w \in Worker : Store!ReleaseOutboxItem(i, w)
    PROVE  StoreInv'
  <1>0. /\ queue \in [Item -> Seq(Store!Object)] /\ \A i \in Item : map[i] \in Nat /\ map[i] <= Len(queue[i])
        /\ \A i \in Item : Len(queue[i]) \in Nat /\ DOMAIN queue[i] = 1..Len(queue[i])
    BY LenProperties DEF StoreInv, ItemInv, ItemType, MirrorOK
  <1>1. ASSUME NEW w \in Worker, Store!ClaimReadyOutboxItems(w) PROVE StoreInv'
    <2>1. Store!Claimed(w) \in LiveState /\ Store!Claimed(w) \in Store!Object
      BY RowStates DEF LiveState
    <2>2. PICK S \in SUBSET Item : Store!PersistAsync({Store!SetItem(i, Store!Claimed(w)) : i \in S})
      BY <1>1 DEF Store!ClaimReadyOutboxItems
    <2>3. queue' = [i \in Item |-> [k \in DOMAIN queue[i] |->
                     IF Store!Eligible(queue[i][k]) THEN Store!Claimed(w) ELSE queue[i][k]]]
      BY <1>1 DEF Store!ClaimReadyOutboxItems
    <2>4. ASSUME NEW i \in Item PROVE queue'[i] \in Seq(Store!Object) /\ Len(queue'[i]) = Len(queue[i])
      <3>1. queue[i] \in Seq(Store!Object) /\ \A k \in DOMAIN queue[i] : queue[i][k] \in Store!Object
        BY <1>0, ElementOfSeq
      <3>2. PICK q : q = [k \in DOMAIN queue[i] |->
                           IF Store!Eligible(queue[i][k]) THEN Store!Claimed(w) ELSE queue[i][k]]
        OBVIOUS
      <3>3. q = [k \in DOMAIN queue[i] |-> q[k]] /\ \A k \in DOMAIN queue[i] : q[k] \in Store!Object
        BY <2>1, <3>1, <3>2
      <3>4. q \in Seq(Store!Object) /\ Len(q) = Len(queue[i])
        BY <3>1, <3>3, Rewritten
      <3> QED BY <2>3, <3>2, <3>4
    <2>5. queue' \in [Item -> Seq(Store!Object)]
      BY <2>3, <2>4
    <2>6. /\ UNCHANGED <<phase, map, row, dlqRows, crashes, accepted, handled, lost, lostDead>>
          /\ UNCHANGED <<entries, ids, dead, resolved>>
      BY <1>1 DEF Store!ClaimReadyOutboxItems, Store!letterVars
    <2> QED BY <2>1, <2>2, <2>4, <2>5, <2>6, RelockKeeps
  <1>2. ASSUME NEW o \in LiveState, Store!Relock(o) PROVE StoreInv'
    <2>1. o \in Store!Object
      BY RowStates
    <2>2. PICK S \in SUBSET Item :
             /\ \A i \in S : map[i] # 0
             /\ queue' = [i \in Item |-> IF i \in S THEN [queue[i] EXCEPT ![map[i]] = o] ELSE queue[i]]
             /\ Store!PersistAsync({Store!SetItem(i, o) : i \in S})
      BY <1>2 DEF Store!Relock
    <2>3. ASSUME NEW i \in Item PROVE queue'[i] \in Seq(Store!Object) /\ Len(queue'[i]) = Len(queue[i])
      <3>1. CASE i \in S
        <4>1. queue[i] \in Seq(Store!Object) /\ map[i] \in 1..Len(queue[i])
          BY <1>0, <2>2, <3>1
        <4>2. queue'[i] = [queue[i] EXCEPT ![map[i]] = o]
          BY <2>2, <3>1
        <4> QED BY <2>1, <4>1, <4>2, ExceptSeq
      <3>2. CASE i \notin S
        BY <1>0, <2>2, <3>2
      <3> QED BY <3>1, <3>2
    <2>4. queue' \in [Item -> Seq(Store!Object)]
      BY <2>2, <2>3
    <2>5. /\ UNCHANGED <<phase, map, row, dlqRows, crashes, accepted, handled, lost, lostDead>>
          /\ UNCHANGED <<entries, ids, dead, resolved>>
      BY <1>2 DEF Store!Relock, Store!letterVars
    <2> QED BY <2>2, <2>3, <2>4, <2>5, RelockKeeps
  <1>3. ASSUME NEW i \in Item, NEW w \in Worker, Store!ReleaseOutboxItem(i, w) PROVE StoreInv'
    <2>1. Store!Pending \in LiveState /\ Store!Pending \in Store!Object
      BY RowStates
    <2>2. map[i] # 0 /\ queue' = [queue EXCEPT ![i][map[i]] = Store!Pending]
      BY <1>3 DEF Store!ReleaseOutboxItem, Store!Holds
    <2>3. PICK q : q = [queue[i] EXCEPT ![map[i]] = Store!Pending]
      OBVIOUS
    <2>4. queue' = [queue EXCEPT ![i] = q]
      BY <2>2, <2>3
    <2>5. q \in Seq(Store!Object) /\ Len(q) = Len(queue[i])
      <3>1. queue[i] \in Seq(Store!Object) /\ map[i] \in 1..Len(queue[i])
        BY <1>0, <2>2
      <3> QED BY <2>1, <2>3, <3>1, ExceptSeq
    <2>6. queue' \in [Item -> Seq(Store!Object)] /\ \A j \in Item : Len(queue'[j]) = Len(queue[j])
      BY <1>0, <2>4, <2>5
    <2>7. Store!PersistAsync({Store!SetItem(j, Store!Pending) : j \in {i}})
      <3>1. {Store!SetItem(j, Store!Pending) : j \in {i}} = {Store!SetItem(i, Store!Pending)}
        OBVIOUS
      <3> QED BY <1>3, <3>1 DEF Store!ReleaseOutboxItem
    <2>8. /\ UNCHANGED <<phase, map, row, dlqRows, crashes, accepted, handled, lost, lostDead>>
          /\ UNCHANGED <<entries, ids, dead, resolved>>
      BY <1>3 DEF Store!ReleaseOutboxItem, Store!letterVars
    <2> QED BY <2>1, <2>6, <2>7, <2>8, RelockKeeps
  <1>4. ASSUME NEW w \in Worker, Store!ReclaimStuckItems(w) PROVE StoreInv'
    BY <1>2, <1>4 DEF Store!ReclaimStuckItems, LiveState
  <1>5. ASSUME Store!ReleaseExpiredLeases PROVE StoreInv'
    BY <1>2, <1>5 DEF Store!ReleaseExpiredLeases, LiveState
  <1> QED BY <1>1, <1>3, <1>4, <1>5

LEMMA DeliveredKeeps ==
    ASSUME StoreInv, Store!ProcessOutbox \/ \E i \in Item, w \in Worker : Store!MarkOutboxItemDelivered(i, w)
    PROVE  StoreInv'
  <1>1. ASSUME Store!ProcessOutbox PROVE StoreInv'
    <2>1. PICK S \in SUBSET Item :
             /\ \A i \in S : map[i] # 0
             /\ Store!Remove(S) /\ handled' = handled \cup S
             /\ Store!PersistAsync({Store!SetItem(i, Store!Delivered) : i \in S})
      BY <1>1 DEF Store!ProcessOutbox
    <2>2. /\ UNCHANGED <<phase, row, dlqRows, crashes, accepted, lost, lostDead>>
          /\ UNCHANGED <<entries, ids, dead, resolved>>
      BY <1>1 DEF Store!ProcessOutbox, Store!letterVars
    <2> QED BY <2>1, <2>2, RemoveKeeps
  <1>2. ASSUME NEW i \in Item, NEW w \in Worker, Store!MarkOutboxItemDelivered(i, w) PROVE StoreInv'
    <2>1. PICK S \in SUBSET Item : S = {i}
      OBVIOUS
    <2>2. (\A j \in S : map[j] # 0) /\ Store!Remove(S) /\ handled' = handled \cup S
      BY <1>2, <2>1 DEF Store!MarkOutboxItemDelivered, Store!Holds
    <2>3. Store!PersistAsync({Store!SetItem(j, Store!Delivered) : j \in S})
      <3>1. {Store!SetItem(j, Store!Delivered) : j \in S} = {Store!SetItem(i, Store!Delivered)}
        BY <2>1
      <3> QED BY <1>2, <3>1 DEF Store!MarkOutboxItemDelivered
    <2>4. /\ UNCHANGED <<phase, row, dlqRows, crashes, accepted, lost, lostDead>>
          /\ UNCHANGED <<entries, ids, dead, resolved>>
      BY <1>2 DEF Store!MarkOutboxItemDelivered, Store!letterVars
    <2> QED BY <2>2, <2>3, <2>4, RemoveKeeps
  <1> QED BY <1>1, <1>2

\* A new item, and the statement that inserts it.
LEMMA AddItem ==
    ASSUME StoreInv, NEW i \in Item, Store!Add(i), UNCHANGED <<phase, row, crashes, lost>>,
           ~early' => ~early /\ phase \notin {"outbox", "letters"},
           \A j \in Item : /\ Store!InsertItem(j) \in writes' <=> Store!InsertItem(j) \in writes \/ j = i
                           /\ Store!SetItem(j, Store!Delivered) \in writes' <=>
                              Store!SetItem(j, Store!Delivered) \in writes
    PROVE  ItemInv'
  <1>1. /\ i \notin accepted /\ queue' = [queue EXCEPT ![i] = Append(queue[i], Store!Pending)]
        /\ map' = [map EXCEPT ![i] = Len(queue[i]) + 1] /\ accepted' = accepted \cup {i} /\ handled' = handled
    BY DEF Store!Add
  <1>2. queue[i] = <<>> /\ queue[i] \in Seq(Store!Object) /\ Store!Pending \in Store!Object
    BY <1>1, RowStates DEF StoreInv, ItemInv, ItemType, ItemOK
  <1>3. PICK q \in Seq(Store!Object) : q = Append(queue[i], Store!Pending) /\ Len(q) = 1
    <2>1. Len(queue[i]) = 0
      BY <1>2
    <2>2. /\ Append(queue[i], Store!Pending) \in Seq(Store!Object)
          /\ Len(Append(queue[i], Store!Pending)) = Len(queue[i]) + 1
      BY <1>2, AppendProperties
    <2>3. Len(Append(queue[i], Store!Pending)) = 1
      BY <2>1, <2>2
    <2> QED BY <2>2, <2>3, Zenon
  <1>4. Len(queue[i]) = 0
    BY <1>2
  <1>5. ItemType'
    BY <1>1, <1>3, <1>4 DEF StoreInv, ItemInv, ItemType
  <1>6. ASSUME NEW j \in Item PROVE ItemOK(j)' /\ MirrorOK(j)'
    <2>1. ItemOK(j) /\ MirrorOK(j)
      BY DEF StoreInv, ItemInv
    <2>2. CASE j = i
      <3>1. map'[i] = 1 /\ Len(queue'[i]) = 1
        BY <1>1, <1>3, <1>4 DEF StoreInv, ItemInv, ItemType
      <3>2. MirrorOK(j)'
        BY <2>2, <3>1 DEF MirrorOK
      <3> QED BY <1>1, <2>1, <2>2, <3>2 DEF ItemOK
    <2>3. CASE j # i
      <3>1. map'[j] = map[j] /\ queue'[j] = queue[j]
        BY <1>1, <2>3 DEF StoreInv, ItemInv, ItemType
      <3> QED BY <1>1, <2>1, <2>3, <3>1 DEF ItemOK, MirrorOK
    <2> QED BY <2>2, <2>3
  <1> QED BY <1>5, <1>6 DEF ItemInv

LEMMA AddKeeps ==
    ASSUME StoreInv, NEW i \in Item, Store!AddToOutbox(i)
    PROVE  StoreInv'
  <1>1. /\ Store!Add(i) /\ Store!PersistAsync({Store!InsertItem(i)})
        /\ UNCHANGED <<phase, row, dlqRows, crashes, lost, lostDead>> /\ UNCHANGED <<entries, ids, dead, resolved>>
    BY DEF Store!AddToOutbox, Store!letterVars
  <1>2. {Store!InsertItem(i)} \in SUBSET Statement
    BY DEF Statement
  <1>3. /\ writes' = writes \cup {Store!InsertItem(i)} /\ writes' \subseteq Statement
        /\ early' \in BOOLEAN /\ (~early' => ~early /\ phase \notin {"outbox", "letters"})
    BY <1>1, <1>2, Persisted
  <1>4. \A j \in Item : /\ Store!InsertItem(j) \in writes' <=> Store!InsertItem(j) \in writes \/ j = i
                        /\ Store!SetItem(j, Store!Delivered) \in writes' <=>
                           Store!SetItem(j, Store!Delivered) \in writes
    BY <1>3, ItemStatements
  <1>5. \A e \in LetterName : /\ Store!InsertLetter(e) \in writes' <=> Store!InsertLetter(e) \in writes
                              /\ Store!CloseLetter(e) \in writes' <=> Store!CloseLetter(e) \in writes
    BY <1>3, LetterStatements
  <1>6. ItemInv'
    BY <1>1, <1>3, <1>4, AddItem
  <1>7. LetterInv'
    BY <1>1, <1>5, LettersKept DEF StoreInv
  <1> QED BY <1>3, <1>6, <1>7 DEF StoreInv

LEMMA LockExpiresKeeps ==
    ASSUME StoreInv, NEW i \in Item, Store!LockExpires(i)
    PROVE  StoreInv'
  <1>1. /\ queue' = [queue EXCEPT ![i] = [k \in DOMAIN queue[i] |-> Store!Expired(queue[i][k])]]
        /\ row' = [row EXCEPT ![i] = Store!Expired(row[i])]
        /\ UNCHANGED <<phase, map, dlqRows, writes, crashes, accepted, handled, lost, lostDead, early>>
        /\ UNCHANGED <<entries, ids, dead, resolved>>
    BY DEF Store!LockExpires, Store!letterVars
  <1>2. row[i] \in RowState /\ queue[i] \in Seq(Store!Object) /\ queue \in [Item -> Seq(Store!Object)]
    BY DEF StoreInv, ItemInv, ItemType
  <1>3. PICK a : a = Store!Expired(row[i])
    OBVIOUS
  <1>4. row' = [row EXCEPT ![i] = a]
    BY <1>1, <1>3
  <1>5. (row[i] \in Store!Object => a \in Store!Object) /\ (row[i] \notin Store!Object => a = row[i])
    BY <1>2, <1>3, Aged
  <1>6. PICK q : q = [k \in DOMAIN queue[i] |-> Store!Expired(queue[i][k])]
    OBVIOUS
  <1>7. q \in Seq(Store!Object) /\ Len(q) = Len(queue[i])
    <2>1. ASSUME NEW k \in DOMAIN queue[i] PROVE q[k] \in Store!Object
      <3>1. queue[i][k] \in Store!Object
        BY <1>2, <2>1, ElementOfSeq, LenProperties
      <3>2. q[k] = Store!Expired(queue[i][k])
        BY <1>6, <2>1
      <3>3. queue[i][k] \in RowState
        BY <3>1 DEF RowState
      <3> QED BY <3>1, <3>2, <3>3, Aged
    <2>2. q = [k \in DOMAIN queue[i] |-> q[k]]
      BY <1>6
    <2> QED BY <1>2, <2>1, <2>2, Rewritten
  <1>8. queue' = [queue EXCEPT ![i] = q]
    BY <1>1, <1>6
  <1>9. ItemType'
    <2>1. a \in RowState
      BY <1>2, <1>5 DEF RowState
    <2> QED BY <1>1, <1>4, <1>7, <1>8, <2>1 DEF StoreInv, ItemInv, ItemType
  <1>10. ASSUME NEW j \in Item PROVE ItemOK(j)' /\ MirrorOK(j)'
    <2>1. ItemOK(j) /\ MirrorOK(j)
      BY DEF StoreInv, ItemInv
    <2>2. /\ Len(queue'[j]) = Len(queue[j]) /\ (queue[j] = <<>> => queue'[j] = <<>>)
      <3>1. CASE j = i
        BY <1>2, <1>7, <1>8, <3>1, EmptySeq
      <3>2. CASE j # i
        BY <1>2, <1>8, <3>2
      <3> QED BY <3>1, <3>2
    <2>3. /\ row'[j] = Store!NoRow <=> row[j] = Store!NoRow
          /\ row'[j] = Store!Delivered <=> row[j] = Store!Delivered
          /\ Store!Live(row[j]) => Store!Live(row'[j])
      <3>1. CASE j = i
        <4>1. row'[j] = a
          BY <1>4, <3>1 DEF StoreInv, ItemInv, ItemType
        <4> QED BY <1>5, <3>1, <4>1, RowStates
      <3>2. CASE j # i
        BY <1>4, <3>2 DEF StoreInv, ItemInv, ItemType
      <3> QED BY <3>1, <3>2
    <2>4. MirrorOK(j)'
      BY <1>1, <2>1, <2>2 DEF MirrorOK
    <2> QED BY <1>1, <2>1, <2>2, <2>3, <2>4 DEF ItemOK
  <1>11. LetterInv'
    BY <1>1, LettersKept DEF StoreInv
  <1>12. early' \in BOOLEAN
    BY <1>1, Zenon DEF StoreInv
  <1> QED BY <1>1, <1>9, <1>10, <1>11, <1>12 DEF StoreInv, ItemInv

----------------------------------------------------------------------------
(* Dead letters                                                            *)

LEMMA AddLetterKeeps ==
    ASSUME StoreInv, NEW l \in Letter, Store!AddToDeadLetterQueue(l)
    PROVE  StoreInv'
  <1>1. PICK e : e = [id |-> ids + 1, of |-> l]
    OBVIOUS
  <1>2. /\ ids < MaxIds /\ entries' = entries \cup {e} /\ ids' = ids + 1 /\ dead' = dead \cup {l}
        /\ Store!PersistAsync({Store!InsertLetter(e)})
        /\ UNCHANGED <<phase, row, dlqRows, crashes, lost, resolved, lostDead>>
        /\ UNCHANGED <<queue, map, accepted, handled>>
    BY <1>1 DEF Store!AddToDeadLetterQueue, Store!outboxVars
  <1>3. ids \in 0..MaxIds /\ MaxIds \in Nat
    BY StoreAssumption DEF StoreInv, LetterInv, LetterType
  <1>4. e \in LetterName /\ e.id = ids + 1 /\ e.of = l /\ ids' \in 0..MaxIds
    BY <1>1, <1>2, <1>3 DEF LetterName
  <1>5. {Store!InsertLetter(e)} \in SUBSET Statement
    BY <1>4 DEF Statement
  <1>6. /\ writes' = writes \cup {Store!InsertLetter(e)} /\ writes' \subseteq Statement
        /\ early' \in BOOLEAN /\ (~early' => ~early)
    BY <1>2, <1>5, Persisted
  <1>7. ItemInv'
    <2>1. \A i \in Item : /\ Store!InsertItem(i) \in writes' <=> Store!InsertItem(i) \in writes
                          /\ Store!SetItem(i, Store!Delivered) \in writes' <=>
                             Store!SetItem(i, Store!Delivered) \in writes
      BY <1>6, LetterStatements
    <2> QED BY <1>2, <1>6, <2>1, ItemsKept DEF StoreInv
  <1>8. \A f \in LetterName : /\ Store!InsertLetter(f) \in writes' <=> Store!InsertLetter(f) \in writes \/ f = e
                              /\ Store!CloseLetter(f) \in writes' <=> Store!CloseLetter(f) \in writes
    BY <1>6, LetterStatements
  <1>9. LetterType'
    BY <1>2, <1>4 DEF StoreInv, LetterInv, LetterType
  <1>10. OneName'
    <2>1. \A n, k : Names(n, k)' => Names(n, k) \/ (n = ids + 1 /\ k = l)
      BY <1>2, <1>4, <1>8 DEF Names
    <2>2. \A n \in 1..MaxIds, k \in Letter : Names(n, k) => n <= ids
      BY DEF StoreInv, LetterInv, OneName
    <2> QED BY <1>2, <1>3, <2>1, <2>2 DEF StoreInv, LetterInv, OneName
  <1>11. ClosedIsResolved'
    BY <1>2, <1>8 DEF StoreInv, LetterInv, ClosedIsResolved
  <1>12. ASSUME NEW k \in Letter PROVE LetterOK(k)'
    BY <1>2, <1>4, <1>8 DEF StoreInv, LetterInv, LetterOK
  <1> QED BY <1>6, <1>7, <1>9, <1>10, <1>11, <1>12 DEF StoreInv, LetterInv

LEMMA RetryLetterKeeps ==
    ASSUME StoreInv, NEW e \in entries, NEW i \in Item, Store!RetryDeadLetter(e, i)
    PROVE  StoreInv'
  <1>1. /\ entries' = entries \ {e} /\ resolved' = resolved \cup {e.of} /\ Store!Add(i)
        /\ Store!PersistAsync({Store!CloseLetter(e), Store!InsertItem(i)})
        /\ UNCHANGED <<phase, row, dlqRows, ids, crashes, lost, dead, lostDead>>
    BY DEF Store!RetryDeadLetter
  <1>2. e \in LetterName /\ e.of \in Letter
    BY DEF StoreInv, LetterInv, LetterType, LetterName
  <1>3. {Store!CloseLetter(e), Store!InsertItem(i)} \in SUBSET Statement
    BY <1>2 DEF Statement
  <1>4. /\ writes' = writes \cup {Store!CloseLetter(e), Store!InsertItem(i)} /\ writes' \subseteq Statement
        /\ early' \in BOOLEAN /\ (~early' => ~early /\ phase \notin {"outbox", "letters"})
    BY <1>1, <1>3, Persisted
  <1>5. \A j \in Item : /\ Store!InsertItem(j) \in writes' <=> Store!InsertItem(j) \in writes \/ j = i
                        /\ Store!SetItem(j, Store!Delivered) \in writes' <=>
                           Store!SetItem(j, Store!Delivered) \in writes
    BY <1>4, ItemStatements, LetterStatements
  <1>6. \A f \in LetterName : /\ Store!InsertLetter(f) \in writes' <=> Store!InsertLetter(f) \in writes
                              /\ Store!CloseLetter(f) \in writes' <=> Store!CloseLetter(f) \in writes \/ f = e
    BY <1>4, LetterStatements
  <1>7. ItemInv'
    BY <1>1, <1>4, <1>5, AddItem
  <1>8. LetterType'
    BY <1>1, <1>2 DEF StoreInv, LetterInv, LetterType
  <1>9. OneName'
    <2>1. \A n, k : Names(n, k)' => Names(n, k)
      BY <1>1, <1>6 DEF Names
    <2> QED BY <1>1, <2>1 DEF StoreInv, LetterInv, OneName
  <1>10. ClosedIsResolved'
    BY <1>1, <1>6 DEF StoreInv, LetterInv, ClosedIsResolved
  <1>11. ASSUME NEW k \in Letter PROVE LetterOK(k)'
    BY <1>1, <1>6 DEF StoreInv, LetterInv, LetterOK
  <1> QED BY <1>4, <1>7, <1>8, <1>9, <1>10, <1>11 DEF StoreInv, LetterInv

LEMMA CleanupKeeps ==
    ASSUME StoreInv, NEW old \in SUBSET entries, Store!CleanupDeadLetters(old)
    PROVE  StoreInv'
  <1>1. /\ entries' = entries \ old /\ Store!PersistAsync({Store!PurgeLetters})
        /\ UNCHANGED <<phase, row, dlqRows, ids, crashes, lost, dead, resolved, lostDead>>
        /\ UNCHANGED <<queue, map, accepted, handled>>
    BY DEF Store!CleanupDeadLetters, Store!outboxVars
  <1>2. {Store!PurgeLetters} \in SUBSET Statement
    BY DEF Statement
  <1>3. /\ writes' = writes \cup {Store!PurgeLetters} /\ writes' \subseteq Statement
        /\ early' \in BOOLEAN /\ (~early' => ~early)
    BY <1>1, <1>2, Persisted
  <1>4. ItemInv'
    <2>1. \A i \in Item : /\ Store!InsertItem(i) \in writes' <=> Store!InsertItem(i) \in writes
                          /\ Store!SetItem(i, Store!Delivered) \in writes' <=>
                             Store!SetItem(i, Store!Delivered) \in writes
      BY <1>3, ItemStatements
    <2> QED BY <1>1, <1>3, <2>1, ItemsKept DEF StoreInv
  <1>5. \A f \in LetterName : /\ Store!InsertLetter(f) \in writes' <=> Store!InsertLetter(f) \in writes
                              /\ Store!CloseLetter(f) \in writes' <=> Store!CloseLetter(f) \in writes
    BY <1>3, LetterStatements
  <1>6. LetterType'
    BY <1>1 DEF StoreInv, LetterInv, LetterType
  <1>7. OneName'
    <2>1. \A n, k : Names(n, k)' => Names(n, k)
      BY <1>1, <1>5 DEF Names
    <2> QED BY <1>1, <2>1 DEF StoreInv, LetterInv, OneName
  <1>8. ClosedIsResolved' /\ \A k \in Letter : LetterOK(k)'
    BY <1>1, <1>5 DEF StoreInv, LetterInv, ClosedIsResolved, LetterOK
  <1> QED BY <1>3, <1>4, <1>6, <1>7, <1>8 DEF StoreInv, LetterInv

----------------------------------------------------------------------------
(* Postgres, crashes and hydrate                                           *)

LEMMA StatementFields ==
    ASSUME NEW x \in Statement
    PROVE  \/ \E i \in Item : x = Store!InsertItem(i) /\ x.op = "insert" /\ x.item = i
           \/ \E i \in Item, o \in LiveState \cup {Store!Delivered} :
                 x = Store!SetItem(i, o) /\ x.op = "update" /\ x.item = i /\ x.to = o
           \/ \E e \in LetterName : x = Store!InsertLetter(e) /\ x.op = "letter" /\ x.entry = e
           \/ \E e \in LetterName : x = Store!CloseLetter(e) /\ x.op = "close" /\ x.entry = e
           \/ x = Store!PurgeLetters /\ x.op = "purge"
  BY DEF Statement, Store!InsertItem, Store!SetItem, Store!InsertLetter, Store!CloseLetter, Store!PurgeLetters

LEMMA InsertLands ==
    ASSUME StoreInv, NEW i \in Item, Store!InsertItem(i) \in writes,
           writes' = writes \ {Store!InsertItem(i)},
           row' = [row EXCEPT ![i] = IF row[i] = Store!NoRow THEN Store!Pending ELSE row[i]],
           UNCHANGED <<phase, queue, map, crashes, accepted, handled, lost, early>>
    PROVE  ItemInv'
  <1>1. row[i] \in RowState /\ i \in accepted
    BY DEF StoreInv, ItemInv, ItemType, ItemOK
  <1>2. PICK o \in RowState : /\ o = (IF row[i] = Store!NoRow THEN Store!Pending ELSE row[i])
                              /\ row' = [row EXCEPT ![i] = o]
    BY <1>1, RowStates DEF RowState
  <1>3. ItemType'
    BY <1>2 DEF StoreInv, ItemInv, ItemType
  <1>4. ASSUME NEW j \in Item PROVE ItemOK(j)'
    <2>1. ItemOK(j) /\ row \in [Item -> RowState]
      BY DEF StoreInv, ItemInv, ItemType
    <2>2. CASE j = i
      <3>1. row'[j] = o /\ o # Store!NoRow /\ (o = Store!Delivered => row[i] = Store!Delivered)
        BY <1>2, <2>1, <2>2, RowStates
      <3>2. Store!Live(o) \/ o = Store!Delivered
        BY <3>1, RowStates DEF RowState
      <3> QED BY <1>1, <2>1, <2>2, <3>1, <3>2 DEF ItemOK
    <2>3. CASE j # i
      <3>1. row'[j] = row[j] /\ (Store!InsertItem(j) \in writes' <=> Store!InsertItem(j) \in writes)
        BY <1>2, <2>1, <2>3, ItemStatements
      <3> QED BY <2>1, <3>1 DEF ItemOK
    <2> QED BY <2>2, <2>3
  <1>5. ASSUME NEW j \in Item PROVE MirrorOK(j)'
    BY DEF StoreInv, ItemInv, MirrorOK
  <1> QED BY <1>3, <1>4, <1>5 DEF ItemInv

LEMMA UpdateLands ==
    ASSUME StoreInv, NEW i \in Item, NEW o \in LiveState \cup {Store!Delivered}, Store!SetItem(i, o) \in writes,
           writes' = writes \ {Store!SetItem(i, o)},
           row' = [row EXCEPT ![i] = IF row[i] = Store!NoRow THEN row[i] ELSE o],
           UNCHANGED <<phase, queue, map, crashes, accepted, handled, lost, early>>
    PROVE  ItemInv'
  <1>1. row[i] \in RowState /\ o \in RowState
    BY RowStates DEF StoreInv, ItemInv, ItemType, RowState
  <1>2. PICK p \in RowState : /\ p = (IF row[i] = Store!NoRow THEN row[i] ELSE o)
                              /\ row' = [row EXCEPT ![i] = p]
    BY <1>1
  <1>3. ItemType'
    BY <1>2 DEF StoreInv, ItemInv, ItemType
  <1>4. ASSUME NEW j \in Item PROVE ItemOK(j)'
    <2>1. ItemOK(j) /\ row \in [Item -> RowState]
      BY DEF StoreInv, ItemInv, ItemType
    <2>2. Store!InsertItem(j) \in writes' <=> Store!InsertItem(j) \in writes
      BY ItemStatements
    <2>3. CASE j = i
      <3>1. row'[j] = p
        BY <1>2, <2>1, <2>3
      <3>2. CASE row[i] = Store!NoRow
        BY <1>2, <2>1, <2>2, <2>3, <3>1, <3>2 DEF ItemOK
      <3>3. CASE row[i] # Store!NoRow
        <4>1. p = o /\ ((Store!Live(o) /\ o # Store!Delivered) \/ (o = Store!Delivered /\ i \in handled))
          BY <1>2, <2>1, <2>3, <3>3, RowStates DEF ItemOK
        <4> QED BY <2>1, <2>2, <2>3, <3>1, <3>3, <4>1 DEF ItemOK
      <3> QED BY <3>2, <3>3
    <2>4. CASE j # i
      <3>1. row'[j] = row[j]
        BY <1>2, <2>1, <2>4
      <3> QED BY <2>1, <2>2, <3>1 DEF ItemOK
    <2> QED BY <2>3, <2>4
  <1>5. ASSUME NEW j \in Item PROVE MirrorOK(j)'
    BY DEF StoreInv, ItemInv, MirrorOK
  <1> QED BY <1>3, <1>4, <1>5 DEF ItemInv

LEMMA ClosedRow ==
    ASSUME NEW r \in LetterRow, NEW n, NEW q, q = [r EXCEPT !.open = (r.open /\ r.id # n)]
    PROVE  q \in LetterRow /\ q.id = r.id /\ q.of = r.of /\ (r.open /\ r.id # n => q.open)
  <1>1. PICK b \in BOOLEAN : b = (r.open /\ r.id # n)
    BY Zenon
  <1>2. q = [r EXCEPT !.open = b]
    BY <1>1
  <1>3. q \in LetterRow /\ q.id = r.id /\ q.of = r.of /\ q.open = b
    BY <1>2 DEF LetterRow
  <1> QED BY <1>1, <1>3, Zenon

\* The rows after a step that adds none but those of statements under way, and keeps
\* one open for each letter that is not resolved.
LEMMA LetterRowsKept ==
    ASSUME StoreInv, dlqRows' \subseteq LetterRow, IsFiniteSet(dlqRows'), writes' \subseteq writes,
           UNCHANGED <<entries, ids, dead, resolved>>, lostDead \subseteq lostDead', lostDead' \subseteq Letter,
           \A r \in dlqRows' : Names(r.id, r.of),
           \A l \in Letter \ (resolved \cup lostDead') :
               (\/ \E r \in dlqRows : r.of = l /\ r.open
                \/ \E e \in LetterName : e.of = l /\ Store!InsertLetter(e) \in writes)
               => (\/ \E r \in dlqRows' : r.of = l /\ r.open
                   \/ \E e \in LetterName : e.of = l /\ Store!InsertLetter(e) \in writes')
    PROVE  LetterInv'
  <1>1. LetterType'
    BY DEF StoreInv, LetterInv, LetterType
  <1>2. OneName'
    <2>1. \A n, l : Names(n, l)' => Names(n, l)
      BY DEF Names
    <2> QED BY <2>1 DEF StoreInv, LetterInv, OneName
  <1>3. ClosedIsResolved'
    BY DEF StoreInv, LetterInv, ClosedIsResolved
  <1>4. ASSUME NEW l \in Letter PROVE LetterOK(l)'
    BY DEF StoreInv, LetterInv, LetterOK
  <1> QED BY <1>1, <1>2, <1>3, <1>4 DEF LetterInv

LEMMA LetterLands ==
    ASSUME StoreInv, NEW e \in LetterName, Store!InsertLetter(e) \in writes,
           writes' = writes \ {Store!InsertLetter(e)},
           dlqRows' = dlqRows \cup {[id |-> e.id, of |-> e.of, open |-> TRUE]},
           UNCHANGED <<entries, ids, dead, resolved, lostDead>>
    PROVE  LetterInv'
  <1>1. PICK q : q = [id |-> e.id, of |-> e.of, open |-> TRUE]
    OBVIOUS
  <1>2. q \in LetterRow /\ q.id = e.id /\ q.of = e.of
    <2>1. TRUE \in BOOLEAN
      OBVIOUS
    <2> QED BY <1>1, <2>1 DEF LetterRow, LetterName
  <1>3. q.open
    BY <1>1, Zenon
  <1>4. dlqRows \subseteq LetterRow /\ IsFiniteSet(dlqRows) /\ dlqRows' = dlqRows \cup {q} /\ lostDead \subseteq Letter
    BY <1>1 DEF StoreInv, LetterInv, LetterType
  <1>5. dlqRows' \subseteq LetterRow /\ IsFiniteSet(dlqRows')
    BY <1>2, <1>4, FS_AddElement
  <1>6. \A r \in dlqRows' : Names(r.id, r.of)
    BY <1>2, <1>4 DEF Names
  <1>7. ASSUME NEW l \in Letter, \/ \E r \in dlqRows : r.of = l /\ r.open
                                 \/ \E f \in LetterName : f.of = l /\ Store!InsertLetter(f) \in writes
        PROVE  \/ \E r \in dlqRows' : r.of = l /\ r.open
               \/ \E f \in LetterName : f.of = l /\ Store!InsertLetter(f) \in writes'
    <2>1. CASE l = e.of
      BY <1>2, <1>3, <1>4, <2>1
    <2>2. CASE \E r \in dlqRows : r.of = l /\ r.open
      BY <1>4, <2>2
    <2>3. ASSUME NEW f \in LetterName, f.of = l, Store!InsertLetter(f) \in writes, l # e.of
          PROVE  Store!InsertLetter(f) \in writes'
      BY <2>3, LetterStatements
    <2> QED BY <1>7, <2>1, <2>2, <2>3
  <1> QED BY <1>4, <1>5, <1>6, <1>7, LetterRowsKept

LEMMA CloseLands ==
    ASSUME StoreInv, NEW e \in LetterName, Store!CloseLetter(e) \in writes,
           writes' = writes \ {Store!CloseLetter(e)},
           dlqRows' = {[r EXCEPT !.open = (r.open /\ r.id # e.id)] : r \in dlqRows},
           UNCHANGED <<entries, ids, dead, resolved, lostDead>>
    PROVE  LetterInv'
  <1>1. dlqRows \subseteq LetterRow /\ IsFiniteSet(dlqRows) /\ lostDead \subseteq Letter
    BY DEF StoreInv, LetterInv, LetterType
  <1>2. PICK g : g = [r \in dlqRows |-> [r EXCEPT !.open = (r.open /\ r.id # e.id)]]
    OBVIOUS
  <1>3. ASSUME NEW r \in dlqRows
        PROVE  /\ g[r] \in dlqRows' /\ g[r] \in LetterRow /\ g[r].id = r.id /\ g[r].of = r.of
               /\ r.open /\ r.id # e.id => g[r].open
    <2>1. g[r] = [r EXCEPT !.open = (r.open /\ r.id # e.id)] /\ r \in LetterRow
      BY <1>1, <1>2
    <2>2. g[r] \in LetterRow /\ g[r].id = r.id /\ g[r].of = r.of /\ (r.open /\ r.id # e.id => g[r].open)
      BY <2>1, ClosedRow, ZenonT(60)
    <2>3. g[r] \in dlqRows'
      BY <2>1
    <2> QED BY <2>2, <2>3
  <1>4. \A q \in dlqRows' : \E r \in dlqRows : q = g[r]
    BY <1>2
  <1>5. dlqRows' \subseteq LetterRow /\ IsFiniteSet(dlqRows')
    <2>1. g \in Surjection(dlqRows, dlqRows')
      BY <1>2, <1>3, <1>4 DEF Surjection
    <2> QED BY <1>1, <1>3, <1>4, <2>1, FS_Surjection
  <1>6. \A q \in dlqRows' : Names(q.id, q.of)
    BY <1>3, <1>4 DEF Names
  <1>7. ASSUME NEW l \in Letter, l \notin resolved, NEW r \in dlqRows, r.of = l, r.open
        PROVE  \E q \in dlqRows' : q.of = l /\ q.open
    <2>1. r.id # e.id
      <3>1. Names(r.id, l) /\ Names(e.id, e.of)
        BY <1>7 DEF Names
      <3>2. r.id \in 1..MaxIds /\ e.of \in Letter /\ e.of \in resolved
        BY <1>1 DEF LetterRow, LetterName, StoreInv, LetterInv, ClosedIsResolved
      <3> QED BY <1>7, <3>1, <3>2 DEF StoreInv, LetterInv, OneName
    <2>2. g[r] \in dlqRows' /\ g[r].of = l /\ g[r].open
      BY <1>3, <1>7, <2>1
    <2> QED BY <2>2
  <1>8. \A f \in LetterName : Store!InsertLetter(f) \in writes => Store!InsertLetter(f) \in writes'
    BY LetterStatements
  <1>9. ASSUME NEW l \in Letter \ (resolved \cup lostDead'),
               \/ \E r \in dlqRows : r.of = l /\ r.open
               \/ \E f \in LetterName : f.of = l /\ Store!InsertLetter(f) \in writes
        PROVE  \/ \E r \in dlqRows' : r.of = l /\ r.open
               \/ \E f \in LetterName : f.of = l /\ Store!InsertLetter(f) \in writes'
    BY <1>7, <1>8, <1>9
  <1> QED BY <1>1, <1>5, <1>6, <1>9, LetterRowsKept

LEMMA PurgeLands ==
    ASSUME StoreInv, writes' = writes \ {Store!PurgeLetters}, dlqRows' = {r \in dlqRows : r.open},
           UNCHANGED <<entries, ids, dead, resolved, lostDead>>
    PROVE  LetterInv'
  <1>1. dlqRows \subseteq LetterRow /\ IsFiniteSet(dlqRows) /\ lostDead \subseteq Letter
    BY DEF StoreInv, LetterInv, LetterType
  <1>2. dlqRows' \subseteq LetterRow /\ IsFiniteSet(dlqRows')
    BY <1>1, FS_Subset
  <1>3. \A r \in dlqRows' : Names(r.id, r.of)
    BY DEF Names
  <1>4. \A r \in dlqRows : r.open => r \in dlqRows'
    BY Zenon
  <1>5. \A f \in LetterName : Store!InsertLetter(f) \in writes => Store!InsertLetter(f) \in writes'
    BY LetterStatements
  <1>6. ASSUME NEW l \in Letter \ (resolved \cup lostDead'),
               \/ \E r \in dlqRows : r.of = l /\ r.open
               \/ \E f \in LetterName : f.of = l /\ Store!InsertLetter(f) \in writes
        PROVE  \/ \E r \in dlqRows' : r.of = l /\ r.open
               \/ \E f \in LetterName : f.of = l /\ Store!InsertLetter(f) \in writes'
    BY <1>4, <1>5, <1>6
  <1> QED BY <1>1, <1>2, <1>3, <1>6, LetterRowsKept

LEMMA LandsKeeps ==
    ASSUME StoreInv, NEW w \in writes, Store!WriteLands(w)
    PROVE  StoreInv'
  <1>1. /\ writes' = writes \ {w} /\ w \in Statement
        /\ UNCHANGED <<phase, crashes, lost, lostDead, early, queue, map, accepted, handled>>
        /\ UNCHANGED <<entries, ids, dead, resolved>>
    BY DEF Store!WriteLands, Store!outboxVars, Store!letterVars, StoreInv
  <1>2. writes' \subseteq Statement
    BY <1>1 DEF StoreInv
  <1>3. early' \in BOOLEAN
    BY <1>1, Zenon DEF StoreInv
  <1>4. ASSUME NEW i \in Item, w = Store!InsertItem(i), w.op = "insert", w.item = i PROVE ItemInv' /\ LetterInv'
    <2>1. /\ row' = [row EXCEPT ![i] = IF row[i] = Store!NoRow THEN Store!Pending ELSE row[i]]
          /\ dlqRows' = dlqRows
      BY <1>4 DEF Store!WriteLands, Store!InsertIfAbsent
    <2>2. \A e \in LetterName : /\ Store!InsertLetter(e) \in writes' <=> Store!InsertLetter(e) \in writes
                                /\ Store!CloseLetter(e) \in writes' <=> Store!CloseLetter(e) \in writes
      BY <1>1, <1>4, LetterStatements
    <2> QED BY <1>1, <1>4, <2>1, <2>2, InsertLands, LettersKept DEF StoreInv
  <1>5. ASSUME NEW i \in Item, NEW o \in LiveState \cup {Store!Delivered}, w = Store!SetItem(i, o),
               w.op = "update", w.item = i, w.to = o
        PROVE  ItemInv' /\ LetterInv'
    <2>1. row' = [row EXCEPT ![i] = IF row[i] = Store!NoRow THEN row[i] ELSE o] /\ dlqRows' = dlqRows
      BY <1>5 DEF Store!WriteLands
    <2>2. \A e \in LetterName : /\ Store!InsertLetter(e) \in writes' <=> Store!InsertLetter(e) \in writes
                                /\ Store!CloseLetter(e) \in writes' <=> Store!CloseLetter(e) \in writes
      BY <1>1, <1>5, LetterStatements
    <2> QED BY <1>1, <1>5, <2>1, <2>2, UpdateLands, LettersKept DEF StoreInv
  <1>6. ASSUME row' = row, \A i \in Item : w # Store!InsertItem(i) /\ \A o : w # Store!SetItem(i, o)
        PROVE  ItemInv'
    BY <1>1, <1>6, ItemsKept DEF StoreInv
  <1>7. ASSUME NEW e \in LetterName, w = Store!InsertLetter(e), w.op = "letter", w.entry = e
        PROVE  ItemInv' /\ LetterInv'
    <2>1. row' = row /\ dlqRows' = dlqRows \cup {[id |-> e.id, of |-> e.of, open |-> TRUE]}
      BY <1>7 DEF Store!WriteLands
    <2>2. ItemInv'
      BY <1>6, <1>7, <2>1, LetterStatements
    <2> QED BY <1>1, <1>7, <2>1, <2>2, LetterLands
  <1>8. ASSUME NEW e \in LetterName, w = Store!CloseLetter(e), w.op = "close", w.entry = e
        PROVE  ItemInv' /\ LetterInv'
    <2>1. row' = row /\ dlqRows' = {[r EXCEPT !.open = (r.open /\ r.id # e.id)] : r \in dlqRows}
      BY <1>8 DEF Store!WriteLands
    <2>2. ItemInv'
      BY <1>6, <1>8, <2>1, LetterStatements
    <2> QED BY <1>1, <1>8, <2>1, <2>2, CloseLands
  <1>9. ASSUME w = Store!PurgeLetters, w.op = "purge" PROVE ItemInv' /\ LetterInv'
    <2>1. row' = row /\ dlqRows' = {r \in dlqRows : r.open}
      BY <1>9 DEF Store!WriteLands, Store!Purged
    <2>2. ItemInv'
      BY <1>6, <1>9, <2>1, ItemStatements
    <2> QED BY <1>1, <1>9, <2>1, <2>2, PurgeLands
  <1>10. ItemInv' /\ LetterInv'
    BY <1>1, <1>4, <1>5, <1>7, <1>8, <1>9, StatementFields
  <1> QED BY <1>2, <1>3, <1>10 DEF StoreInv

\* What is lost with statements is what their history says.
LEMMA LoseDoes ==
    ASSUME StoreInv, NEW W \in SUBSET writes, Store!Lose(W)
    PROVE  /\ writes' \subseteq writes /\ lost \subseteq lost' /\ lost' \subseteq Item
           /\ lostDead \subseteq lostDead' /\ lostDead' \subseteq Letter
           /\ \A i \in Item : Store!InsertItem(i) \in writes => Store!InsertItem(i) \in writes' \/ i \in lost'
           /\ \A e \in LetterName :
                 Store!InsertLetter(e) \in writes => Store!InsertLetter(e) \in writes' \/ e.of \in lostDead'
  <1>1. /\ writes' = writes \ W
        /\ lost' = lost \cup {x.item : x \in {y \in W : y.op = "insert"}}
        /\ lostDead' = lostDead \cup {x.entry.of : x \in {y \in W : y.op = "letter"}}
    BY DEF Store!Lose
  <1>2. ASSUME NEW x \in W, x.op = "insert" PROVE x.item \in Item
    <2>1. x \in Statement
      BY DEF StoreInv
    <2> QED BY <1>2, <2>1, StatementFields
  <1>3. ASSUME NEW x \in W, x.op = "letter" PROVE x.entry.of \in Letter
    <2>1. x \in Statement
      BY DEF StoreInv
    <2>2. x.entry \in LetterName
      BY <1>3, <2>1, StatementFields
    <2> QED BY <2>2 DEF LetterName
  <1>4. lost \subseteq Item /\ lostDead \subseteq Letter
    BY DEF StoreInv, ItemInv, ItemType, LetterInv, LetterType
  <1>5. ASSUME NEW i \in Item, Store!InsertItem(i) \in W PROVE i \in lost'
    <2>1. Store!InsertItem(i).op = "insert" /\ Store!InsertItem(i).item = i
      BY DEF Store!InsertItem
    <2> QED BY <1>1, <1>5, <2>1
  <1>6. ASSUME NEW e \in LetterName, Store!InsertLetter(e) \in W PROVE e.of \in lostDead'
    <2>1. Store!InsertLetter(e).op = "letter" /\ Store!InsertLetter(e).entry = e
      BY DEF Store!InsertLetter
    <2> QED BY <1>1, <1>6, <2>1
  <1>7. lost' \subseteq Item
    BY <1>1, <1>2, <1>4
  <1>8. lostDead' \subseteq Letter
    BY <1>1, <1>3, <1>4
  <1> QED BY <1>1, <1>5, <1>6, <1>7, <1>8

\* Statements are lost; the mirror stays, or goes with its process.
LEMMA LossKeeps ==
    ASSUME StoreInv, NEW W \in SUBSET writes, Store!Lose(W),
           UNCHANGED <<row, dlqRows, ids, accepted, handled, dead, resolved, early>>,
           entries' \subseteq entries, crashes' \in 0..MaxCrashes,
           \/ UNCHANGED <<phase, queue, map>>
           \/ phase' = "outbox" /\ queue' = [i \in Item |-> <<>>] /\ map' = [i \in Item |-> 0]
    PROVE  StoreInv'
  <1>1. /\ writes' \subseteq writes /\ lost \subseteq lost' /\ lost' \subseteq Item
        /\ lostDead \subseteq lostDead' /\ lostDead' \subseteq Letter
        /\ \A i \in Item : Store!InsertItem(i) \in writes => Store!InsertItem(i) \in writes' \/ i \in lost'
        /\ \A e \in LetterName :
              Store!InsertLetter(e) \in writes => Store!InsertLetter(e) \in writes' \/ e.of \in lostDead'
    BY LoseDoes
  <1>2. <<>> \in Seq(Store!Object) /\ Len(<<>>) = 0
    OBVIOUS
  <1>3. ItemType'
    <2>1. queue' \in [Item -> Seq(Store!Object)] /\ map' \in [Item -> Nat]
      <3>1. CASE UNCHANGED <<queue, map>>
        BY <3>1 DEF StoreInv, ItemInv, ItemType
      <3>2. CASE queue' = [i \in Item |-> <<>>] /\ map' = [i \in Item |-> 0]
        <4>1. [i \in Item |-> <<>>] \in [Item -> Seq(Store!Object)]
          BY <1>2, Zenon
        <4> QED BY <3>2, <4>1
      <3> QED BY <3>1, <3>2
    <2>2. phase' \in {"outbox", "letters", "ready", "failed"}
      BY DEF StoreInv, ItemInv, ItemType
    <2> QED BY <1>1, <2>1, <2>2 DEF StoreInv, ItemInv, ItemType
  <1>4. ASSUME NEW i \in Item PROVE ItemOK(i)' /\ MirrorOK(i)'
    <2>1. ItemOK(i) /\ MirrorOK(i)
      BY DEF StoreInv, ItemInv
    <2>2. MirrorOK(i)'
      BY <1>2, <2>1 DEF MirrorOK
    <2>3. queue[i] = <<>> => queue'[i] = <<>>
      OBVIOUS
    <2> QED BY <1>1, <2>1, <2>2, <2>3 DEF ItemOK
  <1>5. LetterType'
    BY <1>1 DEF StoreInv, LetterInv, LetterType
  <1>6. OneName'
    <2>1. \A n, l : Names(n, l)' => Names(n, l)
      BY <1>1 DEF Names
    <2> QED BY <2>1 DEF StoreInv, LetterInv, OneName
  <1>7. ClosedIsResolved'
    BY <1>1 DEF StoreInv, LetterInv, ClosedIsResolved
  <1>8. ASSUME NEW l \in Letter PROVE LetterOK(l)'
    BY <1>1 DEF StoreInv, LetterInv, LetterOK
  <1>9. early' \in BOOLEAN
    BY Zenon DEF StoreInv
  <1>10. writes' \subseteq Statement
    BY <1>1 DEF StoreInv
  <1> QED BY <1>3, <1>4, <1>5, <1>6, <1>7, <1>8, <1>9, <1>10 DEF StoreInv, ItemInv, LetterInv

LEMMA FailuresKeep ==
    ASSUME StoreInv, (\E w \in writes : Store!WriteFails(w)) \/ (\E W \in SUBSET writes : Store!Restart(W))
    PROVE  StoreInv'
  <1>0. crashes \in 0..MaxCrashes /\ MaxCrashes \in Nat
    BY StoreAssumption DEF StoreInv, ItemInv, ItemType
  <1>1. ASSUME NEW w \in writes, Store!WriteFails(w) PROVE StoreInv'
    <2>1. PICK W \in SUBSET writes : W = {w}
      OBVIOUS
    <2>2. /\ Store!Lose(W) /\ UNCHANGED <<row, dlqRows, ids, accepted, handled, dead, resolved, early>>
          /\ entries' = entries /\ crashes' = crashes /\ UNCHANGED <<phase, queue, map>>
      BY <1>1, <2>1 DEF Store!WriteFails, Store!outboxVars, Store!letterVars
    <2> QED BY <1>0, <2>2, LossKeeps
  <1>2. ASSUME NEW W \in SUBSET writes, Store!Restart(W) PROVE StoreInv'
    <2>1. /\ Store!Lose(W) /\ UNCHANGED <<row, dlqRows, ids, accepted, handled, dead, resolved, early>>
          /\ entries' = {} /\ crashes' = crashes + 1 /\ crashes < MaxCrashes
          /\ phase' = "outbox" /\ queue' = [i \in Item |-> <<>>] /\ map' = [i \in Item |-> 0]
      BY <1>2 DEF Store!Restart
    <2>2. crashes' \in 0..MaxCrashes /\ entries' \subseteq entries
      BY <1>0, <2>1
    <2> QED BY <2>1, <2>2, LossKeeps
  <1> QED BY <1>1, <1>2

LEMMA HydrateOutboxKeeps ==
    ASSUME StoreInv, Store!HydrateOutbox
    PROVE  StoreInv'
  <1>1. /\ phase = "outbox" /\ phase' = "letters"
        /\ queue' = [i \in Item |-> IF Store!Live(row[i]) THEN Append(queue[i], row[i]) ELSE queue[i]]
        /\ map' = [i \in Item |-> IF Store!Live(row[i]) THEN Len(queue[i]) + 1 ELSE map[i]]
        /\ UNCHANGED <<row, dlqRows, writes, crashes, accepted, handled, lost, lostDead, early>>
        /\ UNCHANGED <<entries, ids, dead, resolved>>
    BY DEF Store!HydrateOutbox, Store!letterVars
  <1>2. ASSUME NEW i \in Item
        PROVE  /\ queue'[i] \in Seq(Store!Object) /\ map'[i] \in Nat /\ Len(queue[i]) \in Nat
               /\ Store!Live(row[i]) => Len(queue'[i]) = Len(queue[i]) + 1 /\ map'[i] = Len(queue[i]) + 1
               /\ ~Store!Live(row[i]) => queue'[i] = queue[i] /\ map'[i] = map[i]
    <2>1. queue[i] \in Seq(Store!Object) /\ Len(queue[i]) \in Nat /\ map[i] \in Nat /\ row[i] \in RowState
      BY LenProperties DEF StoreInv, ItemInv, ItemType
    <2>2. CASE Store!Live(row[i])
      <3>1. row[i] \in Store!Object
        BY <2>1, <2>2, RowStates DEF RowState
      <3>2. queue'[i] = Append(queue[i], row[i]) /\ map'[i] = Len(queue[i]) + 1
        BY <1>1, <2>2
      <3>3. Append(queue[i], row[i]) \in Seq(Store!Object) /\ Len(Append(queue[i], row[i])) = Len(queue[i]) + 1
        BY <2>1, <3>1, AppendProperties
      <3> QED BY <2>1, <2>2, <3>2, <3>3
    <2>3. CASE ~Store!Live(row[i])
      BY <1>1, <2>1, <2>3
    <2> QED BY <2>2, <2>3
  <1>3. ItemType'
    <2>1. queue' \in [Item -> Seq(Store!Object)] /\ map' \in [Item -> Nat]
      BY <1>1, <1>2
    <2> QED BY <1>1, <2>1 DEF StoreInv, ItemInv, ItemType
  <1>4. ASSUME NEW i \in Item PROVE ItemOK(i)' /\ MirrorOK(i)'
    <2>1. ItemOK(i) /\ MirrorOK(i) /\ map[i] \in Nat
      BY DEF StoreInv, ItemInv, ItemType
    <2>2. MirrorOK(i)'
      <3>1. CASE Store!Live(row[i])
        BY <1>1, <1>2, <2>1, <3>1 DEF MirrorOK
      <3>2. CASE ~Store!Live(row[i])
        BY <1>1, <1>2, <2>1, <3>2 DEF MirrorOK
      <3> QED BY <3>1, <3>2
    <2>3. i \notin accepted => queue'[i] = <<>>
      BY <1>2, <2>1, RowStates DEF ItemOK
    <2> QED BY <1>1, <2>1, <2>2, <2>3 DEF ItemOK
  <1>5. LetterInv'
    BY <1>1, LettersKept DEF StoreInv
  <1>6. early' \in BOOLEAN
    BY <1>1, Zenon DEF StoreInv
  <1> QED BY <1>1, <1>3, <1>4, <1>5, <1>6 DEF StoreInv, ItemInv

LEMMA HydrateLettersKeeps ==
    ASSUME StoreInv, Store!HydrateLetters
    PROVE  StoreInv'
  <1>1. PICK R : R = {r \in dlqRows : r.open}
    OBVIOUS
  <1>2. R \subseteq dlqRows /\ \A r \in R : r.open
    BY <1>1, Zenon
  <1>3. PICK n \in Nat : n = Cardinality(R)
    BY <1>2, FS_Subset, FS_CardinalityType DEF StoreInv, LetterInv, LetterType
  <1>4. Store!Cardinality({r \in dlqRows : r.open}) = n
    BY <1>1, <1>3, StoreCount
  <1>5. /\ phase = "letters" /\ ids + n <= MaxIds /\ phase' = "ready" /\ ids' = ids + n
        /\ \E f \in [R -> (ids + 1)..(ids + n)] :
              /\ \A r, q \in DOMAIN f : f[r] = f[q] => r = q
              /\ entries' = entries \cup {[id |-> f[r], of |-> r.of] : r \in DOMAIN f}
        /\ dead' = dead \cup {r.of : r \in R}
        /\ UNCHANGED <<row, dlqRows, writes, crashes, lost, resolved, lostDead, early>>
        /\ UNCHANGED <<queue, map, accepted, handled>>
    BY <1>1, <1>4 DEF Store!HydrateLetters, Store!outboxVars
  <1>6. PICK f \in [R -> (ids + 1)..(ids + n)] :
              /\ \A r, q \in R : f[r] = f[q] => r = q
              /\ entries' = entries \cup {[id |-> f[r], of |-> r.of] : r \in R}
    BY <1>5
  <1>7. ids \in 0..MaxIds /\ MaxIds \in Nat /\ dlqRows \subseteq LetterRow
    BY StoreAssumption DEF StoreInv, LetterInv, LetterType
  <1>8. ASSUME NEW r \in R PROVE f[r] \in 1..MaxIds /\ f[r] > ids /\ f[r] <= ids' /\ r.of \in Letter
    BY <1>2, <1>5, <1>6, <1>7 DEF LetterRow
  <1>9. ItemInv'
    <2>1. ItemType'
      BY <1>5 DEF StoreInv, ItemInv, ItemType
    <2>2. ASSUME NEW i \in Item PROVE ItemOK(i)' /\ MirrorOK(i)'
      BY <1>5 DEF StoreInv, ItemInv, ItemOK, MirrorOK
    <2> QED BY <2>1, <2>2 DEF ItemInv
  <1>10. LetterType'
    <2>1. ids' \in 0..MaxIds
      BY <1>3, <1>5, <1>7
    <2>2. {[id |-> f[r], of |-> r.of] : r \in R} \subseteq LetterName
      BY <1>8 DEF LetterName
    <2> QED BY <1>5, <1>6, <1>8, <2>1, <2>2 DEF StoreInv, LetterInv, LetterType
  <1>11. OneName'
    <2>1. ASSUME NEW m, NEW l, Names(m, l)' PROVE Names(m, l) \/ \E r \in R : f[r] = m /\ r.of = l
      BY <1>5, <1>6, <2>1 DEF Names
    <2>2. ASSUME NEW m \in 1..MaxIds, NEW l \in Letter, NEW k \in Letter, Names(m, l)', Names(m, k)'
          PROVE  m <= ids' /\ l = k
      <3>1. \A h \in Letter : Names(m, h) => m <= ids
        BY DEF StoreInv, LetterInv, OneName
      <3>2. CASE Names(m, l) /\ Names(m, k)
        BY <1>3, <1>5, <1>7, <3>2 DEF StoreInv, LetterInv, OneName
      <3>3. ASSUME NEW r \in R, f[r] = m PROVE m > ids /\ m <= ids' /\ ~(m <= ids)
        BY <1>7, <1>8, <3>3
      <3> QED BY <1>6, <2>1, <2>2, <3>1, <3>2, <3>3
    <2> QED BY <2>2 DEF OneName
  <1>12. ClosedIsResolved'
    BY <1>5 DEF StoreInv, LetterInv, ClosedIsResolved
  <1>13. ASSUME NEW l \in Letter PROVE LetterOK(l)'
    <2>1. CASE l \in dead
      BY <1>5, <2>1 DEF StoreInv, LetterInv, LetterOK
    <2>2. CASE \E r \in R : r.of = l
      BY <1>2, <1>5, <2>2 DEF LetterOK
    <2> QED BY <1>5, <2>1, <2>2 DEF LetterOK
  <1>14. early' \in BOOLEAN
    BY <1>5, Zenon DEF StoreInv
  <1> QED BY <1>5, <1>9, <1>10, <1>11, <1>12, <1>13, <1>14 DEF StoreInv, LetterInv

LEMMA HydrateFailsKeeps ==
    ASSUME StoreInv, Store!HydrateFails \/ UNCHANGED Store!storeVars
    PROVE  StoreInv'
  <1>1. /\ phase' = "failed" \/ phase' = phase
        /\ UNCHANGED <<row, dlqRows, writes, crashes, lost, lostDead, early, queue, map, accepted, handled>>
        /\ UNCHANGED <<entries, ids, dead, resolved>>
    BY DEF Store!HydrateFails, Store!outboxVars, Store!letterVars, Store!storeVars
  <1>2. LetterInv'
    BY <1>1, LettersKept DEF StoreInv
  <1>3. ItemType'
    BY <1>1 DEF StoreInv, ItemInv, ItemType
  <1>4. ASSUME NEW i \in Item PROVE ItemOK(i)' /\ MirrorOK(i)'
    BY <1>1 DEF StoreInv, ItemInv, ItemOK, MirrorOK
  <1>5. early' \in BOOLEAN
    BY <1>1, Zenon DEF StoreInv
  <1> QED BY <1>1, <1>2, <1>3, <1>4, <1>5 DEF StoreInv, ItemInv

LEMMA StoreStep == StoreInv /\ [Store!Next]_(Store!storeVars) => StoreInv'
  <1> SUFFICES ASSUME StoreInv, [Store!Next]_(Store!storeVars) PROVE StoreInv'
    OBVIOUS
  <1> QED BY AddKeeps, LockExpiresKeeps, LocksKeep, DeliveredKeeps, AddLetterKeeps, RetryLetterKeeps, CleanupKeeps,
             LandsKeeps, FailuresKeep, HydrateOutboxKeeps, HydrateLettersKeeps, HydrateFailsKeeps DEF Store!Next

\* The write-through mirror loses nothing but what a lost INSERT loses: whatever the
\* order in which Postgres carries out the statements nobody waits for, and wherever
\* the process dies between them and hydrate(), an accepted item and an unresolved
\* dead letter are still on record; and used after hydrate(), the mirror's priority
\* list and its map agree.
THEOREM TheMirrorLosesNothing == Store!Spec => []MirrorLosesNothing
  <1>1. StoreInv => MirrorLosesNothing
    <2> SUFFICES ASSUME StoreInv PROVE MirrorLosesNothing
      OBVIOUS
    <2>1. Store!TypeOK
      <3>1. \A i \in Item : queue[i] \in Seq(Store!Object) /\ map[i] \in 0..Len(queue[i])
        <4>1. ASSUME NEW i \in Item PROVE queue[i] \in Seq(Store!Object) /\ map[i] \in 0..Len(queue[i])
          <5>1. queue[i] \in Seq(Store!Object) /\ Len(queue[i]) \in Nat /\ map[i] \in Nat /\ map[i] <= Len(queue[i])
            BY LenProperties DEF StoreInv, ItemInv, ItemType, MirrorOK
          <5> QED BY <5>1
        <4> QED BY <4>1
      <3>2. early \in BOOLEAN
        BY Zenon DEF StoreInv
      <3>3. {accepted, handled, lost} \subseteq SUBSET Item /\ {dead, resolved, lostDead} \subseteq SUBSET Letter
        BY DEF StoreInv, ItemInv, ItemType, LetterInv, LetterType
      <3>4. row \in [Item -> Store!Object \cup {Store!NoRow, Store!Delivered}]
        BY DEF StoreInv, ItemInv, ItemType, RowState
      <3>5. /\ phase \in {"outbox", "letters", "ready", "failed"} /\ ids \in 0..MaxIds /\ crashes \in 0..MaxCrashes
            /\ entries \subseteq LetterName /\ dlqRows \subseteq LetterRow
        BY DEF StoreInv, ItemInv, ItemType, LetterInv, LetterType
      <3> QED BY <3>1, <3>2, <3>3, <3>4, <3>5 DEF Store!TypeOK, LetterName, LetterRow
    <2>2. Store!AcceptedItemKept
      BY DEF StoreInv, ItemInv, ItemType, ItemOK, Store!AcceptedItemKept
    <2>3. Store!DeadLetterKept
      <3> SUFFICES ASSUME NEW l \in dead \ (resolved \cup lostDead)
                   PROVE  \/ \E r \in dlqRows : r.of = l /\ r.open
                          \/ \E w \in writes : w.op = "letter" /\ w.entry.of = l
        BY DEF Store!DeadLetterKept
      <3>1. \/ \E r \in dlqRows : r.of = l /\ r.open
            \/ \E e \in LetterName : e.of = l /\ Store!InsertLetter(e) \in writes
        BY DEF StoreInv, LetterInv, LetterType, LetterOK
      <3>2. \A e \in LetterName : Store!InsertLetter(e).op = "letter" /\ Store!InsertLetter(e).entry = e
        BY DEF Store!InsertLetter
      <3> QED BY <3>1, <3>2
    <2>4. Store!ListMatchesMap
      <3>1. ~early => \A i \in Item : Len(queue[i]) = IF map[i] = 0 THEN 0 ELSE 1
        BY DEF StoreInv, ItemInv, MirrorOK
      <3> QED BY <3>1, Zenon DEF Store!ListMatchesMap
    <2> QED BY <2>1, <2>2, <2>3, <2>4 DEF MirrorLosesNothing, Store!MirrorLosesNothing
  <1> QED BY <1>1, StoreInit, StoreStep, PTL DEF Store!Spec
============================================================================

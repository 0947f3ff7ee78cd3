--------------------------- MODULE RealtimeProofs ---------------------------
(***************************************************************************)
(* What clients hold of the process, for any number of them: the slots,    *)
(* listeners and answers of event streams and polls, and the slots and     *)
(* subscriptions of WebSocket connections.  What the event store keeps,    *)
(* for any batches of events: one fork per ledger, and no gap in a replay. *)
(* What the hub sends, for any thresholds: events in order, and all of     *)
(* them accounted for.                                                     *)
(***************************************************************************)
EXTENDS MCRealtime, FiniteSetTheorems, SequenceTheorems, TLAPS

----------------------------------------------------------------------------
(* Induction over numbers                                                  *)

\* Induction, with the property as a set of numbers: an unbounded chain of
\* successors does not fit into an interval (pigeonhole).
LEMMA SetInduction ==
    ASSUME NEW S, 0 \in S, \A n \in Nat : n \in S => n + 1 \in S
    PROVE  \A n \in Nat : n \in S
  <1> SUFFICES ASSUME NEW m \in Nat, m \notin S PROVE FALSE
    OBVIOUS
  <1> DEFINE T == {n \in 0..m : \A k \in 0..n : k \in S}
             f == [n \in T |-> n + 1]
  <1>1. IsFiniteSet(T) /\ 0 \in T /\ m \notin T
    <2>1. IsFiniteSet(0..m)
      BY FS_Interval
    <2>2. IsFiniteSet(T)
      BY <2>1, FS_Subset
    <2> QED BY <2>2
  <1>2. \A n \in T : n + 1 \in T \ {0}
    BY <1>1
  <1>3. IsFiniteSet(T \ {0}) /\ Cardinality(T \ {0}) = Cardinality(T) - 1 /\ Cardinality(T) \in Nat
    BY <1>1, FS_RemoveElement, FS_CardinalityType
  <1>4. f \in [T -> T \ {0}]
    BY <1>2
  <1>5. \A a, b \in T : f[a] = f[b] => a = b
    OBVIOUS
  <1>6. \E a, b \in T : a # b /\ f[a] = f[b]
    <2> HIDE DEF T, f
    <2> QED BY <1>1, <1>3, <1>4, FS_PigeonHole
  <1> QED BY <1>5, <1>6

LEMMA Least ==
    ASSUME NEW T \in SUBSET Nat, NEW t \in T
    PROVE  \E m \in T : \A x \in T : m <= x
  <1> SUFFICES ASSUME \A m \in T : \E x \in T : x < m PROVE FALSE
    OBVIOUS
  <1> DEFINE S == {n \in Nat : \A x \in T : n <= x}
  <1>1. \A n \in Nat : n \in S => n + 1 \in S
    OBVIOUS
  <1>2. 0 \in S
    OBVIOUS
  <1>3. \A n \in Nat : n \in S
    <2> HIDE DEF S
    <2> QED BY <1>1, <1>2, SetInduction
  <1>4. t + 1 \in S
    BY <1>3
  <1> QED BY <1>4

----------------------------------------------------------------------------
(* What Picked computes                                                    *)

\* f is the recursive function of Picked(s, I), on the first m positions.
PickedOn(f, s, I, m) ==
    f = [n \in 0..m |-> IF n = 0 THEN <<>>
                        ELSE IF n \in I THEN Append(f[n - 1], s[n]) ELSE f[n - 1]]

LEMMA PickedAt ==
    ASSUME NEW f, NEW s, NEW I, NEW m \in Nat, PickedOn(f, s, I, m), NEW k \in 0..m
    PROVE  f[k] = IF k = 0 THEN <<>> ELSE IF k \in I THEN Append(f[k - 1], s[k]) ELSE f[k - 1]
  <1> DEFINE v(n) == IF n = 0 THEN <<>> ELSE IF n \in I THEN Append(f[n - 1], s[n]) ELSE f[n - 1]
  <1>1. f = [n \in 0..m |-> v(n)]
    BY Zenon DEF PickedOn
  <1> HIDE DEF v
  <1>2. f[k] = v(k)
    BY <1>1, Zenon
  <1> QED BY <1>2 DEF v

LEMMA PickedExists ==
    ASSUME NEW s, NEW I, NEW m \in Nat
    PROVE  \E f : PickedOn(f, s, I, m)
  <1> DEFINE S == {n \in Nat : \E f : PickedOn(f, s, I, n)}
  <1>1. 0 \in S
    <2>1. PickedOn([n \in 0..0 |-> <<>>], s, I, 0)
      BY DEF PickedOn
    <2> QED BY <2>1
  <1>2. ASSUME NEW n \in Nat, n \in S PROVE n + 1 \in S
    <2>1. PICK f : PickedOn(f, s, I, n)
      BY <1>2
    <2> DEFINE g == [k \in 0..(n + 1) |-> IF k = 0 THEN <<>>
                        ELSE IF k \in I THEN Append(f[k - 1], s[k]) ELSE f[k - 1]]
    <2>2. \A k \in 0..n : k \in 0..(n + 1) /\ g[k] = f[k]
      <3> SUFFICES ASSUME NEW k \in 0..n PROVE k \in 0..(n + 1) /\ g[k] = f[k]
        OBVIOUS
      <3>1. k \in 0..(n + 1)
        OBVIOUS
      <3>2. g[k] = IF k = 0 THEN <<>> ELSE IF k \in I THEN Append(f[k - 1], s[k]) ELSE f[k - 1]
        BY <3>1
      <3> HIDE DEF g
      <3> QED BY <3>1, <3>2, <2>1, PickedAt
    <2>3. \A k \in 0..(n + 1) : k = 0 \/ g[k - 1] = f[k - 1]
      <3> HIDE DEF g
      <3> QED BY <2>2
    <2> DEFINE v(k) == IF k = 0 THEN <<>> ELSE IF k \in I THEN Append(f[k - 1], s[k]) ELSE f[k - 1]
               u(k) == IF k = 0 THEN <<>> ELSE IF k \in I THEN Append(g[k - 1], s[k]) ELSE g[k - 1]
    <2>4. \A k \in 0..(n + 1) : v(k) = u(k)
      <3> HIDE DEF g
      <3> QED BY <2>3
    <2>5. g = [k \in 0..(n + 1) |-> v(k)]
      OBVIOUS
    <2>6. g = [k \in 0..(n + 1) |-> u(k)]
      <3> HIDE DEF g, u, v
      <3> QED BY <2>4, <2>5
    <2>7. PickedOn(g, s, I, n + 1)
      <3> HIDE DEF g
      <3> QED BY <2>6, Zenon DEF PickedOn
    <2> HIDE DEF g
    <2> QED BY <2>7
  <1>3. \A n \in Nat : n \in S
    <2> HIDE DEF S
    <2> QED BY <1>1, <1>2, SetInduction
  <1> QED BY <1>3

LEMMA PickedIs ==
    ASSUME NEW s, NEW I, Len(s) \in Nat
    PROVE  \E f : PickedOn(f, s, I, Len(s)) /\ Picked(s, I) = f[Len(s)]
  <1> DEFINE g == CHOOSE f : PickedOn(f, s, I, Len(s))
  <1>1. PickedOn(g, s, I, Len(s))
    BY PickedExists
  <1>2. Picked(s, I) = g[Len(s)]
    BY Zenon DEF Picked, PickedOn
  <1> QED BY <1>1, <1>2, Zenon

\* r consists of the elements of s at the positions I, in their order.
IsPart(r, s, I) ==
    \E p \in [1..Len(r) -> I] :
        /\ \A k \in 1..Len(r) : r[k] = s[p[k]]
        /\ \A j, k \in 1..Len(r) : j < k => p[j] < p[k]
        /\ \A i \in I : \E k \in 1..Len(r) : p[k] = i

LEMMA PartGrows ==
    ASSUME NEW T, NEW s \in Seq(T), NEW r \in Seq(T), NEW n \in Nat, n + 1 <= Len(s),
           NEW I \in SUBSET (1..n), IsPart(r, s, I)
    PROVE  IsPart(Append(r, s[n + 1]), s, I \cup {n + 1})
  <1>1. PICK p \in [1..Len(r) -> I] :
          /\ \A k \in 1..Len(r) : r[k] = s[p[k]]
          /\ \A j, k \in 1..Len(r) : j < k => p[j] < p[k]
          /\ \A i \in I : \E k \in 1..Len(r) : p[k] = i
    BY DEF IsPart
  <1> DEFINE R == Append(r, s[n + 1])
             m == Len(r) + 1
             q == [k \in 1..m |-> IF k = m THEN n + 1 ELSE p[k]]
  <1>2. Len(r) \in Nat /\ Len(R) = m /\ R[m] = s[n + 1] /\ \A k \in 1..Len(r) : R[k] = r[k]
    <2>1. Len(r) \in Nat /\ s[n + 1] \in T
      OBVIOUS
    <2> QED BY <2>1
  <1>3. /\ 1..Len(R) = 1..Len(r) \cup {m} /\ m \notin 1..Len(r)
        /\ q[m] = n + 1 /\ \A k \in 1..Len(r) : q[k] = p[k] /\ p[k] \in I /\ p[k] < n + 1
    <2>1. 1..Len(R) = 1..Len(r) \cup {m} /\ m \notin 1..Len(r)
      BY <1>2
    <2>2. m \in 1..m /\ q[m] = n + 1
      BY <1>2
    <2>3. ASSUME NEW k \in 1..Len(r) PROVE q[k] = p[k] /\ p[k] \in I /\ p[k] < n + 1
      <3>1. k \in 1..m /\ k # m
        BY <1>2
      <3>2. p[k] \in I
        OBVIOUS
      <3>3. p[k] < n + 1
        <4>1. p[k] \in 1..n
          BY <3>2, Zenon
        <4> HIDE DEF q, R
        <4> QED BY <4>1
      <3> QED BY <3>1, <3>2, <3>3
    <2> QED BY <2>1, <2>2, <2>3
  <1>4. q \in [1..Len(R) -> I \cup {n + 1}]
    BY <1>2, <1>3
  <1> HIDE DEF q, R
  <1>5. \A k \in 1..Len(R) : R[k] = s[q[k]]
    BY <1>1, <1>2, <1>3
  <1>6. \A j, k \in 1..Len(R) : j < k => q[j] < q[k]
    BY <1>1, <1>2, <1>3
  <1>7. \A i \in I \cup {n + 1} : \E k \in 1..Len(R) : q[k] = i
    BY <1>1, <1>3
  <1>8. IsPart(R, s, I \cup {n + 1})
    BY <1>4, <1>5, <1>6, <1>7 DEF IsPart
  <1> QED BY <1>8 DEF R

LEMMA PickedIsPart ==
    ASSUME NEW T, NEW s \in Seq(T), NEW I \in SUBSET DOMAIN s
    PROVE  Picked(s, I) \in Seq(T) /\ IsPart(Picked(s, I), s, I)
  <1>0. Len(s) \in Nat /\ DOMAIN s = 1..Len(s)
    OBVIOUS
  <1>1. PICK f : PickedOn(f, s, I, Len(s)) /\ Picked(s, I) = f[Len(s)]
    BY <1>0, PickedIs
  <1> DEFINE S == {n \in Nat : n <= Len(s) => f[n] \in Seq(T) /\ IsPart(f[n], s, I \cap 1..n)}
  <1>2. 0 \in S
    <2>1. f[0] = <<>>
      BY <1>0, <1>1, PickedAt
    <2>2. I \cap 1..0 = {}
      OBVIOUS
    <2>3. IsPart(<<>>, s, {})
      <3>1. 1..Len(<<>>) = {}
        OBVIOUS
      <3>2. [k \in {} |-> 0] \in [{} -> {}]
        OBVIOUS
      <3> QED BY <3>1, <3>2 DEF IsPart
    <2>4. f[0] \in Seq(T) /\ IsPart(f[0], s, I \cap 1..0)
      BY <2>1, <2>2, <2>3
    <2> QED BY <2>4
  <1>3. ASSUME NEW n \in Nat, n \in S PROVE n + 1 \in S
    <2> SUFFICES ASSUME n + 1 <= Len(s) PROVE f[n + 1] \in Seq(T) /\ IsPart(f[n + 1], s, I \cap 1..(n + 1))
      OBVIOUS
    <2>1. f[n] \in Seq(T) /\ IsPart(f[n], s, I \cap 1..n)
      BY <1>0, <1>3
    <2>2. f[n + 1] = IF n + 1 \in I THEN Append(f[n], s[n + 1]) ELSE f[n]
      <3>1. n + 1 \in 0..Len(s) /\ n + 1 # 0 /\ (n + 1) - 1 = n
        BY <1>0
      <3> QED BY <1>0, <1>1, <3>1, PickedAt
    <2>3. CASE n + 1 \in I
      <3>1. I \cap 1..(n + 1) = (I \cap 1..n) \cup {n + 1}
        BY <2>3
      <3>2. s[n + 1] \in T
        BY <1>0, <2>3
      <3> DEFINE J == I \cap 1..n
      <3>3. J \in SUBSET (1..n)
        OBVIOUS
      <3> HIDE DEF J
      <3>4. IsPart(f[n], s, J)
        BY <2>1 DEF J
      <3>5. IsPart(Append(f[n], s[n + 1]), s, J \cup {n + 1})
        BY <2>1, <3>3, <3>4, PartGrows
      <3>6. Append(f[n], s[n + 1]) \in Seq(T)
        BY <2>1, <3>2
      <3>7. IsPart(Append(f[n], s[n + 1]), s, I \cap 1..(n + 1))
        BY <3>1, <3>5 DEF J
      <3> QED BY <2>2, <2>3, <3>6, <3>7
    <2>4. CASE n + 1 \notin I
      <3>1. I \cap 1..(n + 1) = I \cap 1..n
        BY <2>4
      <3> QED BY <2>1, <2>2, <2>4, <3>1
    <2> QED BY <2>3, <2>4
  <1>4. \A n \in Nat : n \in S
    <2> HIDE DEF S
    <2> QED BY <1>2, <1>3, SetInduction
  <1>5. I \cap 1..Len(s) = I
    BY <1>0
  <1>6. Len(s) \in S
    BY <1>0, <1>4
  <1>7. f[Len(s)] \in Seq(T) /\ IsPart(f[Len(s)], s, I \cap 1..Len(s))
    BY <1>0, <1>6
  <1> QED BY <1>1, <1>5, <1>7

\* Where the elements of the part R are in s.
Places(p, R, s, I) ==
    /\ \A k \in DOMAIN R : p[k] \in I /\ R[k] = s[p[k]]
    /\ \A j, k \in DOMAIN R : j # k => p[j] # p[k]
    /\ \A j, k \in DOMAIN R : j < k => p[j] < p[k]

LEMMA PickedFacts ==
    ASSUME NEW T, NEW s \in Seq(T), NEW I \in SUBSET DOMAIN s, NEW R, R = Picked(s, I)
    PROVE  /\ R \in Seq(T) /\ Len(R) \in Nat /\ DOMAIN R = 1..Len(R)
           /\ \A i \in I : \E k \in DOMAIN R : R[k] = s[i]
           /\ \E p : Places(p, R, s, I)
  <1>1. R \in Seq(T) /\ IsPart(R, s, I)
    BY PickedIsPart
  <1>2. Len(R) \in Nat /\ DOMAIN R = 1..Len(R) /\ DOMAIN s = 1..Len(s) /\ Len(s) \in Nat
    BY <1>1
  <1>3. PICK p \in [1..Len(R) -> I] :
          /\ \A k \in 1..Len(R) : R[k] = s[p[k]]
          /\ \A j, k \in 1..Len(R) : j < k => p[j] < p[k]
          /\ \A i \in I : \E k \in 1..Len(R) : p[k] = i
    BY <1>1 DEF IsPart
  <1>4. \A k \in DOMAIN R : p[k] \in I /\ p[k] \in Nat
    BY <1>2, <1>3
  <1>5. \A j, k \in DOMAIN R : j # k => p[j] # p[k]
    BY <1>2, <1>3, <1>4
  <1>6. \A i \in I : \E k \in DOMAIN R : R[k] = s[i]
    BY <1>2, <1>3
  <1>7. Places(p, R, s, I)
    BY <1>2, <1>3, <1>4, <1>5 DEF Places
  <1> QED BY <1>1, <1>2, <1>6, <1>7

----------------------------------------------------------------------------
(* Cardinality, as the instances have it                                   *)

LEMMA SseCount == ASSUME NEW S PROVE Events!Cardinality(S) = Cardinality(S)
  BY DEF Events!Cardinality, Cardinality

LEMMA WsCount == ASSUME NEW S PROVE Connections!Cardinality(S) = Cardinality(S)
  BY DEF Connections!Cardinality, Cardinality

----------------------------------------------------------------------------
(* Server-sent events and long polls                                       *)

SseType ==
    /\ stage \in [Events!Client -> {"new", "lookup", "replay", "replayed", "live", "closed"}]
    /\ cursor \in [Events!Client -> 0..MaxStored] /\ held \subseteq Events!Client
    /\ subs \subseteq Events!Client /\ callbacks \subseteq Events!Client /\ entries \subseteq Events!Client
    /\ stored \in 0..MaxStored /\ cast \in 0..stored
    /\ answered \in [Events!Client -> 0..1]
    /\ drain \in {"no", "running", "over"}

Limited == Cardinality(held \cap Sse) <= MaxSse /\ Cardinality(held \cap Poll) <= MaxPoll

\* Slots that ran out were taken by a request; a request that was answered is closed.
PastRequests ==
    /\ expired \subseteq Sse /\ \A c \in expired : stage[c] # "new"
    /\ \A c \in Events!Client : stage[c] # "closed" => answered[c] = 0

SseInv == /\ SseType /\ attached \in BOOLEAN /\ Limited /\ PastRequests
          /\ Events!SlotsOfOpen /\ Events!NoListenersBehind

LEMMA ClientKinds == ASSUME NEW c \in Events!Client PROVE c \in Sse <=> c \notin Poll
  BY RealtimeAssumption DEF Events!Client

LEMMA FewerHeld ==
    ASSUME Limited, held' \subseteq held
    PROVE  Limited'
  <1>1. IsFiniteSet(held \cap Sse) /\ IsFiniteSet(held \cap Poll)
    BY RealtimeAssumption, FS_Subset
  <1>2. /\ held' \cap Sse \in SUBSET (held \cap Sse) /\ held' \cap Poll \in SUBSET (held \cap Poll)
    OBVIOUS
  <1>3. /\ Cardinality(held' \cap Sse) <= Cardinality(held \cap Sse) /\ Cardinality(held' \cap Sse) \in Nat
        /\ Cardinality(held' \cap Poll) <= Cardinality(held \cap Poll) /\ Cardinality(held' \cap Poll) \in Nat
    BY <1>1, <1>2, FS_Subset, FS_CardinalityType
  <1>4. Cardinality(held \cap Sse) \in Nat /\ Cardinality(held \cap Poll) \in Nat /\ MaxSse \in Nat /\ MaxPoll \in Nat
    BY <1>1, FS_CardinalityType, RealtimeAssumption
  <1>5. Cardinality(held \cap Sse) <= MaxSse /\ Cardinality(held \cap Poll) <= MaxPoll
    BY DEF Limited
  <1> QED BY <1>3, <1>4, <1>5 DEF Limited

LEMMA OneMoreHeld ==
    ASSUME Limited, NEW c \in Events!Client, c \notin held, ~Events!Full(c), held' = held \cup {c}
    PROVE  Limited'
  <1>1. IsFiniteSet(held \cap Sse) /\ IsFiniteSet(held \cap Poll)
    BY RealtimeAssumption, FS_Subset
  <1>2. Cardinality(held \cap Sse) \in Nat /\ Cardinality(held \cap Poll) \in Nat /\ MaxSse \in Nat /\ MaxPoll \in Nat
    BY <1>1, FS_CardinalityType, RealtimeAssumption
  <1>3. CASE c \in Sse
    <2>1. held' \cap Sse = (held \cap Sse) \cup {c} /\ held' \cap Poll = held \cap Poll /\ c \notin held \cap Sse
      BY <1>3, ClientKinds
    <2>2. Cardinality(held' \cap Sse) = Cardinality(held \cap Sse) + 1
      BY <1>1, <2>1, FS_AddElement
    <2>3. ~(Cardinality(held \cap Sse) >= MaxSse)
      BY <1>3, SseCount DEF Events!Full
    <2> QED BY <1>2, <2>1, <2>2, <2>3 DEF Limited
  <1>4. CASE c \notin Sse
    <2>1. held' \cap Poll = (held \cap Poll) \cup {c} /\ held' \cap Sse = held \cap Sse /\ c \notin held \cap Poll
      BY <1>4, ClientKinds
    <2>2. Cardinality(held' \cap Poll) = Cardinality(held \cap Poll) + 1
      BY <1>1, <2>1, FS_AddElement
    <2>3. ~(Cardinality(held \cap Poll) >= MaxPoll)
      BY <1>4, SseCount DEF Events!Full
    <2> QED BY <1>2, <2>1, <2>2, <2>3 DEF Limited
  <1> QED BY <1>3, <1>4

LEMMA SseInit == Events!Init => SseInv
  <1> SUFFICES ASSUME Events!Init PROVE SseInv
    OBVIOUS
  <1>1. MaxStored \in Nat /\ MaxSse \in Nat /\ MaxPoll \in Nat
    BY RealtimeAssumption
  <1>2. SseType /\ PastRequests
    BY <1>1 DEF Events!Init, SseType, PastRequests
  <1>3. Limited
    <2>1. held \cap Sse = {} /\ held \cap Poll = {}
      BY DEF Events!Init
    <2> QED BY <1>1, <2>1, FS_EmptySet DEF Limited
  <1>4. attached = FALSE /\ Events!SlotsOfOpen /\ Events!NoListenersBehind
    BY DEF Events!Init, Events!SlotsOfOpen, Events!Open, Events!NoListenersBehind
  <1>5. attached \in BOOLEAN
    BY <1>4, Zenon
  <1> QED BY <1>2, <1>3, <1>4, <1>5 DEF SseInv

\* cleanup of open connections, of which those in `told' are answered.
LEMMA CleanupKeeps ==
    ASSUME SseInv, NEW set, set \subseteq Events!Open, Events!Cleanup(set),
           NEW told, told \subseteq set, Events!Answer(told),
           UNCHANGED <<cursor, expired, stored>>, cast' \in 0..stored, drain' = drain, entries' \subseteq entries
    PROVE  SseInv'
  <1>1. /\ stage' \in [Events!Client -> {"new", "lookup", "replay", "replayed", "live", "closed"}]
        /\ \A c \in Events!Client : stage'[c] = IF c \in set THEN "closed" ELSE stage[c]
        /\ held' = held \ set /\ subs' = subs \ set /\ callbacks' = callbacks \ set
    BY DEF SseInv, SseType, Events!Cleanup, Events!Released, Events!Deregistered
  <1>2. \A c \in told : stage[c] # "closed" /\ c \in Events!Client
    BY DEF Events!Open
  <1>3. /\ answered' \in [Events!Client -> 0..1]
        /\ \A c \in Events!Client : c \notin told => answered'[c] = answered[c]
    BY <1>2 DEF Events!Answer, SseInv, SseType, PastRequests
  <1>4. SseType'
    BY <1>1, <1>3 DEF SseInv, SseType
  <1>5. Limited'
    BY <1>1, FewerHeld DEF SseInv
  <1>6. PastRequests'
    <2>1. \A c \in expired' : stage'[c] # "new"
      BY <1>1 DEF SseInv, PastRequests, Events!Client
    <2>2. \A c \in Events!Client : stage'[c] # "closed" => answered'[c] = 0
      BY <1>1, <1>3 DEF SseInv, PastRequests
    <2> QED BY <2>1, <2>2 DEF SseInv, PastRequests
  <1>7. Events!SlotsOfOpen'
    <2>1. Events!Open' = Events!Open \ set
      BY <1>1 DEF Events!Open
    <2> QED BY <1>1, <2>1 DEF SseInv, Events!SlotsOfOpen
  <1>8. attached' \in BOOLEAN /\ (attached' <=> subs' # {})
    <2>1. CASE set \cap subs # {}
      <3>1. attached' = (subs' # {})
        BY <2>1 DEF Events!Cleanup
      <3> QED BY <3>1, Zenon
    <2>2. CASE set \cap subs = {}
      <3>1. attached' = attached /\ subs' = subs
        BY <1>1, <2>2 DEF Events!Cleanup
      <3> QED BY <3>1, Zenon DEF SseInv, Events!NoListenersBehind
    <2> QED BY <2>1, <2>2
  <1>9. Events!NoListenersBehind'
    <2>1. subs' \cup callbacks' \subseteq {c \in Events!Client : stage'[c] = "live"}
      BY <1>1 DEF SseInv, Events!NoListenersBehind
    <2> QED BY <1>8, <2>1, Zenon DEF Events!NoListenersBehind
  <1> QED BY <1>4, <1>5, <1>6, <1>7, <1>8, <1>9 DEF SseInv

\* A handler subscribes: its client was admitted and not answered yet.
LEMMA GoLiveKeeps ==
    ASSUME SseInv, NEW c \in Events!Open, Events!GoLive(c), cursor' \in [Events!Client -> 0..MaxStored],
           UNCHANGED <<expired, stored, cast, drain, entries>>
    PROVE  SseInv'
  <1>1. /\ stage' \in [Events!Client -> {"new", "lookup", "replay", "replayed", "live", "closed"}]
        /\ \A d \in Events!Client : stage'[d] = IF d = c THEN "live" ELSE stage[d]
        /\ subs' = subs \cup {c} /\ callbacks' = callbacks \cup {c} /\ attached' = TRUE
        /\ UNCHANGED <<held, answered>> /\ c \in Events!Client /\ stage[c] # "closed"
    BY DEF SseInv, SseType, Events!GoLive, Events!Open
  <1>2. SseType'
    BY <1>1 DEF SseInv, SseType
  <1>3. Limited'
    BY <1>1, FewerHeld DEF SseInv
  <1>4. PastRequests'
    BY <1>1 DEF SseInv, PastRequests, Events!Client
  <1>5. Events!SlotsOfOpen'
    <2>1. Events!Open' = Events!Open
      BY <1>1 DEF Events!Open
    <2> QED BY <1>1, <2>1 DEF SseInv, Events!SlotsOfOpen
  <1>6. subs' \cup callbacks' \subseteq {d \in Events!Client : stage'[d] = "live"}
    BY <1>1 DEF SseInv, Events!NoListenersBehind
  <1>7. attached' \in BOOLEAN /\ (attached' <=> subs' # {})
    BY <1>1, Zenon
  <1> QED BY <1>2, <1>3, <1>4, <1>5, <1>6, <1>7 DEF SseInv, Events!NoListenersBehind

\* Steps that move no slot, listener or answer.
LEMMA QuietKeeps ==
    ASSUME SseInv, UNCHANGED <<expired, held, subs, attached, callbacks, answered>>,
           stage' \in [Events!Client -> {"new", "lookup", "replay", "replayed", "live", "closed"}],
           \A c \in Events!Client :
              stage'[c] = stage[c] \/ (stage[c] \in {"lookup", "replay"} /\ stage'[c] \in {"replay", "replayed"}),
           cursor' \in [Events!Client -> 0..MaxStored], entries' \subseteq Events!Client,
           drain' \in {"no", "running", "over"}, stored' \in 0..MaxStored, cast' \in 0..stored'
    PROVE  SseInv'
  <1>1. SseType' /\ attached' \in BOOLEAN
    BY DEF SseInv, SseType
  <1>2. Limited'
    BY FewerHeld DEF SseInv
  <1>3. PastRequests'
    BY DEF SseInv, PastRequests, Events!Client
  <1>4. Events!SlotsOfOpen'
    <2>1. Events!Open' = Events!Open
      BY DEF Events!Open
    <2> QED BY <2>1 DEF SseInv, Events!SlotsOfOpen
  <1>5. Events!NoListenersBehind'
    BY DEF SseInv, Events!NoListenersBehind
  <1> QED BY <1>1, <1>2, <1>3, <1>4, <1>5 DEF SseInv

LEMMA OpenRequestKeeps ==
    ASSUME SseInv, NEW c \in Events!Client, NEW since \in 0..stored, Events!OpenRequest(c, since)
    PROVE  SseInv'
  <1>1. /\ stage[c] = "new" /\ answered[c] = 0 /\ c \notin held /\ c \notin expired /\ c \notin subs \cup callbacks
        /\ UNCHANGED <<expired, subs, attached, callbacks, stored, cast, answered, drain, entries>>
    BY DEF Events!OpenRequest, Events!busVars, Events!drainVars, SseInv, PastRequests, Events!SlotsOfOpen,
       Events!NoListenersBehind, Events!Open
  <1>2. since \in 0..MaxStored
    BY RealtimeAssumption DEF SseInv, SseType
  <1>3. PICK to \in {"closed", "lookup"} : stage' = [stage EXCEPT ![c] = to]
    BY DEF Events!OpenRequest
  <1>4. /\ stage' \in [Events!Client -> {"new", "lookup", "replay", "replayed", "live", "closed"}]
        /\ \A d \in Events!Client : stage'[d] = IF d = c THEN to ELSE stage[d]
    BY <1>3 DEF SseInv, SseType
  <1>5. PastRequests'
    BY <1>1, <1>4 DEF SseInv, PastRequests, Events!Client
  <1>6. Events!NoListenersBehind' /\ attached' \in BOOLEAN
    BY <1>1, <1>4 DEF SseInv, Events!NoListenersBehind
  <1>7. CASE to = "closed"
    <2>1. UNCHANGED <<cursor, held>>
      BY <1>3, <1>4, <1>7 DEF Events!OpenRequest
    <2>2. Events!SlotsOfOpen'
      <3>1. Events!Open' = Events!Open
        BY <1>1, <1>4, <1>7 DEF Events!Open
      <3> QED BY <1>1, <2>1, <3>1 DEF SseInv, Events!SlotsOfOpen
    <2>3. Limited'
      BY <2>1, FewerHeld DEF SseInv
    <2>4. SseType'
      BY <1>1, <1>4, <2>1 DEF SseInv, SseType
    <2> QED BY <1>5, <1>6, <2>2, <2>3, <2>4 DEF SseInv
  <1>8. CASE to = "lookup"
    <2>1. ~Events!Full(c) /\ cursor' = [cursor EXCEPT ![c] = since] /\ held' = held \cup {c}
      BY <1>3, <1>4, <1>8 DEF Events!OpenRequest
    <2>2. Events!SlotsOfOpen'
      <3>1. Events!Open' = Events!Open \cup {c}
        BY <1>1, <1>4, <1>8 DEF Events!Open
      <3> QED BY <1>1, <2>1, <3>1 DEF SseInv, Events!SlotsOfOpen
    <2>3. Limited'
      BY <1>1, <2>1, OneMoreHeld DEF SseInv
    <2>4. SseType'
      BY <1>1, <1>2, <1>4, <2>1 DEF SseInv, SseType
    <2> QED BY <1>5, <1>6, <2>2, <2>3, <2>4 DEF SseInv
  <1> QED BY <1>7, <1>8

LEMMA HandlerKeeps ==
    ASSUME SseInv, NEW c \in Events!Client,
           \/ Events!Found(c) \/ Events!ReplayPage(c) \/ Events!Subscribe(c) \/ Events!StaleCursor(c)
           \/ Events!TimeOver(c) \/ Events!ClientGone(c)
    PROVE  SseInv'
  <1>1. /\ c \in Events!Open /\ UNCHANGED <<expired, stored, cast, drain, entries>>
    BY DEF Events!Found, Events!ReplayPage, Events!Subscribe, Events!StaleCursor, Events!TimeOver, Events!ClientGone,
       Events!Open, Events!busVars, Events!drainVars
  <1>2. cast \in 0..stored /\ stored \in 0..MaxStored /\ MaxStored \in Nat /\ PageSize \in Nat
    BY RealtimeAssumption DEF SseInv, SseType
  <1>3. CASE Events!Cleanup({c}) /\ Events!Answer({c}) /\ UNCHANGED cursor
    BY <1>1, <1>2, <1>3, CleanupKeeps
  <1>4. CASE Events!ClientGone(c)
    <2>1. Events!Answer({})
      BY <1>4 DEF Events!ClientGone, Events!Answer, SseInv, SseType
    <2> QED BY <1>1, <1>2, <1>4, <2>1, CleanupKeeps DEF Events!ClientGone
  <1>5. CASE Events!Found(c)
    <2>1. UNCHANGED cursor
      BY <1>5 DEF Events!Found
    <2>2. CASE Events!GoLive(c)
      BY <1>1, <2>1, <2>2, GoLiveKeeps DEF SseInv, SseType
    <2>3. CASE stage' = [stage EXCEPT ![c] = "replay"] /\ UNCHANGED <<held, subs, attached, callbacks, answered>>
      <3>1. /\ stage' \in [Events!Client -> {"new", "lookup", "replay", "replayed", "live", "closed"}]
            /\ \A d \in Events!Client :
                   stage'[d] = stage[d] \/ (stage[d] \in {"lookup", "replay"} /\ stage'[d] \in {"replay", "replayed"})
        BY <1>5, <2>3 DEF SseInv, SseType, Events!Found
      <3> QED BY <1>1, <1>2, <2>1, <2>3, <3>1, QuietKeeps DEF SseInv, SseType
    <2> QED BY <1>3, <1>5, <2>1, <2>2, <2>3 DEF Events!Found
  <1>6. CASE Events!ReplayPage(c)
    <2>1. cursor' \in [Events!Client -> 0..MaxStored]
      <3>1. cursor[c] \in 0..MaxStored /\ cursor \in [Events!Client -> 0..MaxStored]
        BY DEF SseInv, SseType
      <3>2. CASE cursor[c] + PageSize <= stored /\ cursor' = [cursor EXCEPT ![c] = @ + PageSize]
        <4>1. cursor[c] + PageSize \in 0..MaxStored
          BY <1>2, <3>1, <3>2
        <4> QED BY <3>1, <3>2, <4>1
      <3>3. CASE cursor' = [cursor EXCEPT ![c] = stored] \/ cursor' = cursor
        BY <1>2, <3>1, <3>3
      <3> QED BY <1>6, <3>2, <3>3 DEF Events!ReplayPage
    <2>2. CASE /\ stage' \in {stage, [stage EXCEPT ![c] = "replayed"]}
               /\ UNCHANGED <<held, subs, attached, callbacks, answered>>
      <3>1. /\ stage' \in [Events!Client -> {"new", "lookup", "replay", "replayed", "live", "closed"}]
            /\ \A d \in Events!Client :
                   stage'[d] = stage[d] \/ (stage[d] \in {"lookup", "replay"} /\ stage'[d] \in {"replay", "replayed"})
        BY <1>6, <2>2 DEF SseInv, SseType, Events!ReplayPage
      <3> QED BY <1>1, <1>2, <2>1, <2>2, <3>1, QuietKeeps DEF SseInv, SseType
    <2> QED BY <1>3, <1>6, <2>2 DEF Events!ReplayPage
  <1>7. CASE Events!Subscribe(c)
    BY <1>1, <1>7, GoLiveKeeps DEF Events!Subscribe, SseInv, SseType
  <1> QED BY <1>3, <1>4, <1>5, <1>6, <1>7 DEF Events!StaleCursor, Events!TimeOver

\* The limiter's own timer.
LEMMA SlotTimerKeeps ==
    ASSUME SseInv, NEW c \in Events!Client, Events!SlotTimer(c)
    PROVE  SseInv'
  <1>1. /\ c \in Sse /\ c \in held /\ held' = held \ {c} /\ expired' = expired \cup {c}
        /\ UNCHANGED <<stage, cursor, subs, attached, callbacks, stored, cast, answered, drain, entries>>
    BY DEF Events!SlotTimer, Events!busVars, Events!drainVars
  <1>2. stage[c] # "new"
    BY <1>1 DEF SseInv, Events!SlotsOfOpen, Events!Open
  <1>3. SseType' /\ PastRequests' /\ attached' \in BOOLEAN
    BY <1>1, <1>2 DEF SseInv, SseType, PastRequests
  <1>4. Limited'
    BY <1>1, FewerHeld DEF SseInv
  <1>5. Events!SlotsOfOpen' /\ Events!NoListenersBehind'
    BY <1>1 DEF SseInv, Events!SlotsOfOpen, Events!Open, Events!NoListenersBehind
  <1> QED BY <1>3, <1>4, <1>5 DEF SseInv

LEMMA EmitKeeps ==
    ASSUME SseInv, NEW failing \in SUBSET Sse, Events!Emit(failing)
    PROVE  SseInv'
  <1>1. /\ cast < stored /\ cast' = cast + 1 /\ failing \subseteq subs \cap Sse
        /\ UNCHANGED <<cursor, expired, stored, drain, entries>>
    BY DEF Events!Emit, Events!drainVars
  <1>2. stored \in 0..MaxStored /\ MaxStored \in Nat /\ cast' \in 0..stored
    <2>1. stored \in 0..MaxStored /\ MaxStored \in Nat /\ cast \in 0..stored
      BY RealtimeAssumption DEF SseInv, SseType
    <2> QED BY <1>1, <2>1
  <1>3. CASE Events!Cleanup((subs \cap Poll) \cup failing) /\ Events!Answer(subs \cap Poll)
    <2>1. (subs \cap Poll) \cup failing \subseteq Events!Open
      BY <1>1 DEF SseInv, Events!NoListenersBehind, Events!Open
    <2> QED BY <1>1, <1>2, <1>3, <2>1, CleanupKeeps
  <1>4. CASE UNCHANGED <<stage, held, subs, attached, callbacks, answered>>
    <2>1. stage' \in [Events!Client -> {"new", "lookup", "replay", "replayed", "live", "closed"}]
      BY <1>4 DEF SseInv, SseType
    <2> QED BY <1>1, <1>2, <1>4, <2>1, QuietKeeps DEF SseInv, SseType
  <1> QED BY <1>3, <1>4 DEF Events!Emit

LEMMA DrainKeeps ==
    ASSUME SseInv, NEW c \in Events!Client, Events!DrainOne(c)
    PROVE  SseInv'
  <1>1. /\ entries' = entries \ {c} /\ UNCHANGED <<cursor, expired, stored, cast, drain>>
        /\ Events!Answer({c} \cap Events!Open) /\ Events!Cleanup({c} \cap Events!Open)
    BY DEF Events!DrainOne, Events!busVars, Events!Unanswered
  <1>2. cast' \in 0..stored
    BY <1>1 DEF SseInv, SseType
  <1> QED BY <1>1, <1>2, CleanupKeeps

LEMMA BusKeeps ==
    ASSUME SseInv, Events!Insert \/ Events!StartDrain
    PROVE  SseInv'
  <1>1. /\ UNCHANGED <<stage, cursor, held, expired, subs, attached, callbacks, cast, answered>>
        /\ entries' \in {entries, callbacks} /\ drain' \in {drain, "running"}
        /\ stored' = stored \/ (stored < MaxStored /\ stored' = stored + 1)
    BY DEF Events!Insert, Events!StartDrain, Events!busVars, Events!drainVars
  <1>2. stored' \in 0..MaxStored /\ cast' \in 0..stored'
    <2>1. stored \in 0..MaxStored /\ MaxStored \in Nat /\ cast \in 0..stored
      BY RealtimeAssumption DEF SseInv, SseType
    <2> QED BY <1>1, <2>1
  <1>3. /\ stage' \in [Events!Client -> {"new", "lookup", "replay", "replayed", "live", "closed"}]
        /\ cursor' \in [Events!Client -> 0..MaxStored] /\ entries' \subseteq Events!Client
        /\ drain' \in {"no", "running", "over"}
    BY <1>1 DEF SseInv, SseType
  <1> QED BY <1>1, <1>2, <1>3, QuietKeeps

LEMMA EndDrainKeeps ==
    ASSUME SseInv, Events!EndDrain
    PROVE  SseInv'
  <1>1. /\ UNCHANGED <<stage, cursor, held, expired, stored, cast, answered, entries>>
        /\ drain' = "over" /\ callbacks' = {} /\ subs' = {} /\ attached' = FALSE
    BY DEF Events!EndDrain, Events!busVars
  <1>2. SseType' /\ PastRequests'
    BY <1>1 DEF SseInv, SseType, PastRequests
  <1>3. Limited'
    BY <1>1, FewerHeld DEF SseInv
  <1>4. Events!SlotsOfOpen'
    BY <1>1 DEF SseInv, Events!SlotsOfOpen, Events!Open
  <1>5. Events!NoListenersBehind' /\ attached' \in BOOLEAN
    BY <1>1, Zenon DEF Events!NoListenersBehind
  <1> QED BY <1>2, <1>3, <1>4, <1>5 DEF SseInv

LEMMA SseStep == SseInv /\ [Events!Next]_Events!sseVars => SseInv'
  <1> SUFFICES ASSUME SseInv, [Events!Next]_Events!sseVars PROVE SseInv'
    OBVIOUS
  <1>1. CASE UNCHANGED Events!sseVars
    BY <1>1 DEF Events!sseVars, SseInv, SseType, Limited, PastRequests, Events!SlotsOfOpen, Events!Open,
       Events!NoListenersBehind
  <1> QED
    BY <1>1, OpenRequestKeeps, HandlerKeeps, SlotTimerKeeps, DrainKeeps, EmitKeeps, BusKeeps, EndDrainKeeps
    DEF Events!Next

\* However many streams and polls there are and whichever of client, event, timer,
\* error and shutdown ends them: each gives back its slot, its listener on the bus
\* and its shutdown callback, the limits hold, and no response is ended twice.
THEOREM ResourcesAreReturned == Events!Spec => []ResourcesReturned
  <1>1. ASSUME SseInv PROVE ResourcesReturned
    <2>1. Events!SseTypeOK
      <3>1. /\ Events!Cardinality(held \cap Sse) <= MaxSse /\ Events!Cardinality(held \cap Poll) <= MaxPoll
        BY <1>1, SseCount DEF SseInv, Limited
      <3> QED BY <1>1, <3>1 DEF SseInv, SseType, PastRequests, Events!SseTypeOK
    <2>2. Events!AnsweredOnce
      BY <1>1 DEF SseInv, SseType, Events!AnsweredOnce
    <2> QED BY <1>1, <2>1, <2>2 DEF SseInv, ResourcesReturned, Events!ResourcesReturned
  <1> QED
    BY <1>1, SseInit, SseStep, PTL DEF Events!Spec

----------------------------------------------------------------------------
(* WebSocket connections                                                   *)

WsType ==
    /\ counts \in [Connections!Key -> Nat]
    /\ attempts \in [Connections!Key -> 0..ReconnectLimit]
    /\ rejections \in [Connections!Key -> 0..AbuseThreshold]
    /\ sock \in [Conn -> {"new", "checking", "aborted", "open", "closing", "closed"}]
    /\ hungUp \subseteq Conn /\ clients \subseteq Conn /\ leaked \subseteq Conn
    /\ subject \in [Conn -> Connections!Key]
    /\ filters \in [Conn -> SUBSET Stream] /\ index \in [Stream -> SUBSET Conn]
    /\ asked \subseteq Conn \X {"subscribe", "unsubscribe"} \X Stream
    /\ missed \in [Conn -> 0..MaxMissed]
    /\ wsFaults \in 0..MaxWsFaults
WsFlags == {banned, shuttingDown, drifted} \subseteq BOOLEAN

\* A registered socket is open or on its way out, an open one is registered, and
\* a leaked slot belongs to a socket that is closed.
Living ==
    /\ \A c \in clients : sock[c] \in {"open", "closing"}
    /\ \A c \in Conn : sock[c] = "open" => c \in clients
    /\ \A c \in leaked : sock[c] = "closed"

\* The connections that take a slot, and those of a key as long as no token
\* expired during its upgrade.
Taken == {c \in Conn : sock[c] \in {"checking", "aborted"} \/ c \in clients \/ c \in leaked}
TakenBy(k) == {c \in Taken : Identity[c] = k}

Counted == active = Cardinality(Taken)
CountedByKey ==
    ~drifted => /\ \A c \in Conn : subject[c] = Identity[c]
                /\ \A k \in Connections!Key : counts[k] = Cardinality(TakenBy(k)) /\ counts[k] <= MaxConnections

WsInv == /\ WsType /\ WsFlags /\ Living /\ Counted /\ CountedByKey
         /\ Connections!NoDeadSubscribers

LEMMA TakenFinite ==
    /\ IsFiniteSet(Taken) /\ Cardinality(Taken) \in Nat /\ Cardinality(Taken) <= Cardinality(Conn)
    /\ \A k : IsFiniteSet(TakenBy(k)) /\ Cardinality(TakenBy(k)) \in Nat
  <1>1. Taken \in SUBSET Conn /\ \A k : TakenBy(k) \in SUBSET Conn
    BY DEF Taken, TakenBy
  <1> QED BY <1>1, RealtimeAssumption, FS_Subset, FS_CardinalityType

LEMMA KeyOf == ASSUME NEW c \in Conn PROVE Identity[c] \in Connections!Key
  BY DEF Connections!Key

\* No slot is taken or given back.
LEMMA SameSlots ==
    ASSUME Counted, CountedByKey, Taken' = Taken, UNCHANGED <<counts, active>>,
           ~drifted' => ~drifted /\ subject' = subject
    PROVE  Counted' /\ CountedByKey'
  <1>1. \A k : TakenBy(k)' = TakenBy(k)
    BY DEF TakenBy
  <1> QED BY <1>1 DEF Counted, CountedByKey

\* A slot is reserved.
LEMMA SlotTaken ==
    ASSUME WsType, Counted, CountedByKey, NEW c \in Conn, c \notin Taken, Taken' = Taken \cup {c},
           counts[Identity[c]] < MaxConnections,
           counts' = [counts EXCEPT ![Identity[c]] = @ + 1], active' = active + 1,
           UNCHANGED <<drifted, subject>>
    PROVE  Counted' /\ CountedByKey'
  <1>1. Counted'
    BY TakenFinite, FS_AddElement DEF Counted
  <1>2. MaxConnections \in Nat /\ Identity[c] \in Connections!Key
    BY RealtimeAssumption, KeyOf
  <1>3. ASSUME ~drifted, NEW k \in Connections!Key
        PROVE  counts'[k] = Cardinality(TakenBy(k)') /\ counts'[k] <= MaxConnections
    <2>1. /\ counts[k] = Cardinality(TakenBy(k)) /\ counts[k] <= MaxConnections /\ counts[k] \in Nat
      BY <1>3 DEF CountedByKey, WsType
    <2>2. CASE k = Identity[c]
      <3>1. TakenBy(k)' = TakenBy(k) \cup {c} /\ c \notin TakenBy(k)
        BY <2>2 DEF TakenBy
      <3>2. Cardinality(TakenBy(k)') = Cardinality(TakenBy(k)) + 1
        BY <3>1, TakenFinite, FS_AddElement
      <3>3. counts'[k] = counts[k] + 1
        BY <1>2, <2>2 DEF WsType
      <3> QED BY <1>2, <2>1, <2>2, <3>2, <3>3
    <2>3. CASE k # Identity[c]
      <3>1. TakenBy(k)' = TakenBy(k)
        BY <2>3 DEF TakenBy
      <3>2. counts'[k] = counts[k]
        BY <1>2, <2>3 DEF WsType
      <3> QED BY <2>1, <3>1, <3>2
    <2> QED BY <2>2, <2>3
  <1>4. CountedByKey'
    <2>1. ASSUME ~drifted PROVE \A d \in Conn : subject'[d] = Identity[d]
      BY <2>1 DEF CountedByKey
    <2> QED BY <1>3, <2>1 DEF CountedByKey
  <1> QED BY <1>1, <1>4

\* A slot is given back, under the key it was counted for.
LEMMA SlotReturned ==
    ASSUME WsType, Counted, CountedByKey, NEW c \in Taken, Taken' = Taken \ {c},
           NEW k \in Connections!Key, ~drifted => k = Identity[c], Connections!Untrack(k),
           UNCHANGED <<drifted, subject>>
    PROVE  Counted' /\ CountedByKey'
  <1>0. c \in Conn
    BY DEF Taken
  <1>1. Counted'
    <2>1. Cardinality(Taken') = Cardinality(Taken) - 1 /\ Cardinality(Taken') \in Nat
      BY TakenFinite, FS_RemoveElement, FS_CardinalityType
    <2>2. active = Cardinality(Taken) /\ Cardinality(Taken) \in Nat
      BY TakenFinite DEF Counted
    <2>3. active > 0
      BY <2>1, <2>2
    <2>4. active' = active - 1
      BY <2>3 DEF Connections!Untrack
    <2> QED BY <2>1, <2>2, <2>4 DEF Counted
  <1>2. ASSUME ~drifted, NEW j \in Connections!Key
        PROVE  counts'[j] = Cardinality(TakenBy(j)') /\ counts'[j] <= MaxConnections
    <2>1. /\ counts[j] = Cardinality(TakenBy(j)) /\ counts[j] <= MaxConnections /\ counts[j] \in Nat
          /\ MaxConnections \in Nat /\ k = Identity[c]
      BY <1>2, RealtimeAssumption DEF CountedByKey, WsType
    <2>2. CASE j = k
      <3>1. TakenBy(j)' = TakenBy(j) \ {c} /\ c \in TakenBy(j)
        BY <2>1, <2>2 DEF TakenBy
      <3>2. Cardinality(TakenBy(j)') = Cardinality(TakenBy(j)) - 1 /\ Cardinality(TakenBy(j)') \in Nat
        BY <3>1, TakenFinite, FS_RemoveElement, FS_CardinalityType
      <3>3. counts[j] > 0
        BY <2>1, <3>2
      <3>4. counts'[j] = counts[j] - 1
        BY <2>2, <3>3 DEF WsType, Connections!Untrack
      <3> QED BY <2>1, <3>2, <3>4
    <2>3. CASE j # k
      <3>1. TakenBy(j)' = TakenBy(j)
        BY <2>1, <2>3 DEF TakenBy
      <3>2. counts'[j] = counts[j]
        BY <2>3 DEF WsType, Connections!Untrack
      <3> QED BY <2>1, <3>1, <3>2
    <2> QED BY <2>2, <2>3
  <1>3. CountedByKey'
    <2>1. ASSUME ~drifted PROVE \A d \in Conn : subject'[d] = Identity[d]
      BY <2>1 DEF CountedByKey
    <2> QED BY <1>2, <2>1 DEF CountedByKey
  <1> QED BY <1>1, <1>3

LEMMA UntrackTyped ==
    ASSUME WsType, NEW k \in Connections!Key, Connections!Untrack(k)
    PROVE  counts' \in [Connections!Key -> Nat]
  BY DEF WsType, Connections!Untrack

LEMMA WsInit == Connections!Init => WsInv
  <1> SUFFICES ASSUME Connections!Init PROVE WsInv
    OBVIOUS
  <1>1. /\ {ReconnectLimit, AbuseThreshold, MaxMissed, MaxWsFaults, MaxConnections} \subseteq Nat
        /\ Identity \in [Conn -> Connections!Key]
    BY RealtimeAssumption DEF Connections!Key
  <1>2. WsType
    BY <1>1 DEF Connections!Init, WsType
  <1>3. WsFlags
    BY Zenon DEF Connections!Init, WsFlags
  <1>4. Living /\ Connections!NoDeadSubscribers
    BY DEF Connections!Init, Living, Connections!NoDeadSubscribers
  <1>5. Taken = {} /\ \A k : TakenBy(k) = {}
    BY DEF Connections!Init, Taken, TakenBy
  <1>6. Counted /\ CountedByKey
    BY <1>1, <1>5, FS_EmptySet DEF Connections!Init, Counted, CountedByKey
  <1> QED BY <1>2, <1>3, <1>4, <1>6 DEF WsInv

\* A step of one socket that leaves registry, subscriptions and probes alone.
LEMMA SocketMoves ==
    ASSUME WsInv, NEW c \in Conn, NEW to \in {"checking", "aborted", "closed"}, Connections!Become(c, to),
           c \notin clients, c \notin leaked, leaked' \in SUBSET (leaked \cup {c}), c \in leaked' => to = "closed",
           leaked \subseteq leaked', UNCHANGED <<clients, filters, index>>
    PROVE  /\ sock' \in [Conn -> {"new", "checking", "aborted", "open", "closing", "closed"}]
           /\ Living' /\ Connections!NoDeadSubscribers' /\ leaked' \subseteq Conn
           /\ sock[c] \in {"checking", "aborted"} => c \in Taken
           /\ sock[c] \notin {"checking", "aborted"} => c \notin Taken
           /\ Taken' = IF to \in {"checking", "aborted"} \/ c \in leaked' THEN Taken \cup {c} ELSE Taken \ {c}
  <1>1. /\ sock' \in [Conn -> {"new", "checking", "aborted", "open", "closing", "closed"}]
        /\ \A d \in Conn : sock'[d] = IF d = c THEN to ELSE sock[d]
    BY DEF WsInv, WsType, Connections!Become
  <1>2. Living' /\ leaked' \subseteq Conn
    BY <1>1 DEF WsInv, WsType, Living
  <1>3. Connections!NoDeadSubscribers'
    BY DEF WsInv, Connections!NoDeadSubscribers
  <1>4. Taken' = IF to \in {"checking", "aborted"} \/ c \in leaked' THEN Taken \cup {c} ELSE Taken \ {c}
    BY <1>1 DEF Taken
  <1> QED BY <1>1, <1>2, <1>3, <1>4 DEF Taken

LEMMA UpgradeKeeps ==
    ASSUME WsInv, NEW c \in Conn, Connections!Upgrade(c)
    PROVE  WsInv'
  <1>1. /\ sock[c] = "new" /\ UNCHANGED <<shuttingDown, hungUp, clients, subject, wsFaults, leaked, drifted>>
        /\ UNCHANGED <<filters, index, asked, missed>>
    BY DEF Connections!Upgrade, Connections!subVars
  <1>2. c \notin clients /\ c \notin leaked
    BY <1>1 DEF WsInv, Living
  <1>3. Identity[c] \in Connections!Key /\ {ReconnectLimit, AbuseThreshold} \subseteq Nat
    BY KeyOf, RealtimeAssumption
  <1>4. attempts' \in [Connections!Key -> 0..ReconnectLimit]
    <2>1. CASE attempts' = attempts
      BY <2>1 DEF WsInv, WsType
    <2>2. CASE /\ attempts[Identity[c]] < ReconnectLimit
               /\ attempts' = [attempts EXCEPT ![Identity[c]] = @ + 1]
      <3>1. attempts[Identity[c]] + 1 \in 0..ReconnectLimit
        BY <1>3, <2>2 DEF WsInv, WsType
      <3> QED BY <2>2, <3>1 DEF WsInv, WsType
    <2> QED BY <2>1, <2>2 DEF Connections!Upgrade, Connections!limiterVars
  <1>5. CASE Connections!Reserve(c)
    <2>1. /\ counts[Identity[c]] < MaxConnections
          /\ counts' = [counts EXCEPT ![Identity[c]] = @ + 1] /\ active' = active + 1
          /\ Connections!Become(c, "checking") /\ UNCHANGED <<rejections, banned>>
      BY <1>5 DEF Connections!Reserve
    <2>2. /\ sock' \in [Conn -> {"new", "checking", "aborted", "open", "closing", "closed"}]
          /\ Living' /\ Connections!NoDeadSubscribers'
          /\ c \notin Taken /\ Taken' = Taken \cup {c}
      BY <1>1, <1>2, <2>1, SocketMoves
    <2>3. Counted' /\ CountedByKey'
      BY <1>1, <2>1, <2>2, SlotTaken DEF WsInv
    <2>4. counts' \in [Connections!Key -> Nat]
      BY <1>3, <2>1 DEF WsInv, WsType
    <2>5. WsType'
      BY <1>1, <1>4, <2>1, <2>2, <2>4 DEF WsInv, WsType
    <2>6. WsFlags'
      BY <1>1, <2>1, Zenon DEF WsInv, WsFlags
    <2> QED BY <2>2, <2>3, <2>5, <2>6 DEF WsInv
  <1>6. CASE Connections!Become(c, "closed") /\ UNCHANGED <<counts, active>> /\ (Connections!Reject(c) \/ UNCHANGED Connections!limiterVars)
    <2>1. /\ sock' \in [Conn -> {"new", "checking", "aborted", "open", "closing", "closed"}]
          /\ Living' /\ Connections!NoDeadSubscribers'
          /\ Taken' = Taken
      BY <1>1, <1>2, <1>6, SocketMoves
    <2>2. Counted' /\ CountedByKey'
      BY <1>1, <1>6, <2>1, SameSlots DEF WsInv
    <2>3. rejections' \in [Connections!Key -> 0..AbuseThreshold]
      <3>1. CASE rejections' = rejections \/ rejections' = [rejections EXCEPT ![Identity[c]] = 0]
        BY <1>3, <3>1 DEF WsInv, WsType
      <3>2. CASE /\ rejections[Identity[c]] < AbuseThreshold
                 /\ rejections' = [rejections EXCEPT ![Identity[c]] = @ + 1]
        <4>1. rejections[Identity[c]] + 1 \in 0..AbuseThreshold
          BY <1>3, <3>2 DEF WsInv, WsType
        <4> QED BY <3>2, <4>1 DEF WsInv, WsType
      <3> QED BY <1>6, <3>1, <3>2 DEF Connections!Reject, Connections!limiterVars
    <2>4. banned' = banned \/ banned' = TRUE
      BY <1>6, Zenon DEF Connections!Reject, Connections!limiterVars
    <2>5. WsType'
      BY <1>1, <1>4, <1>6, <2>1, <2>3 DEF WsInv, WsType
    <2>6. WsFlags'
      BY <1>1, <2>4, Zenon DEF WsInv, WsFlags
    <2> QED BY <2>1, <2>2, <2>5, <2>6 DEF WsInv
  <1> QED BY <1>5, <1>6 DEF Connections!Upgrade, Connections!Reject, Connections!limiterVars

\* The ban check ends without a connection.
LEMMA RefusalKeeps ==
    ASSUME WsInv, NEW c \in Conn,
           \/ Connections!BanRefuses(c) \/ Connections!AbortHandshake(c) \/ Connections!UpgradeTooLate(c)
    PROVE  WsInv'
  <1>1. /\ sock[c] = "checking" /\ UNCHANGED <<attempts, rejections, banned, shuttingDown, hungUp, clients, subject>>
        /\ UNCHANGED <<drifted, filters, index, asked, missed>>
    BY DEF Connections!BanRefuses, Connections!AbortHandshake, Connections!UpgradeTooLate,
       Connections!subVars, Connections!limiterVars
  <1>2. c \notin clients /\ c \notin leaked /\ Identity[c] \in Connections!Key
    BY <1>1, KeyOf DEF WsInv, Living
  <1>3. WsFlags'
    BY <1>1, Zenon DEF WsInv, WsFlags
  <1>4. wsFaults' \in 0..MaxWsFaults
    <2>1. MaxWsFaults \in Nat /\ wsFaults \in 0..MaxWsFaults
      BY RealtimeAssumption DEF WsInv, WsType
    <2>2. wsFaults' = wsFaults \/ (wsFaults < MaxWsFaults /\ wsFaults' = wsFaults + 1)
      BY DEF Connections!BanRefuses, Connections!AbortHandshake, Connections!UpgradeTooLate
    <2> QED BY <2>1, <2>2
  <1>5. CASE Connections!BanRefuses(c)
    <2>1. Connections!Become(c, "closed") /\ Connections!Untrack(Identity[c]) /\ UNCHANGED leaked
      BY <1>5 DEF Connections!BanRefuses
    <2>2. /\ sock' \in [Conn -> {"new", "checking", "aborted", "open", "closing", "closed"}]
          /\ Living' /\ Connections!NoDeadSubscribers'
          /\ c \in Taken /\ Taken' = Taken \ {c}
      BY <1>1, <1>2, <2>1, SocketMoves
    <2>3. Counted' /\ CountedByKey'
      BY <1>1, <1>2, <2>1, <2>2, SlotReturned DEF WsInv
    <2>4. counts' \in [Connections!Key -> Nat]
      BY <1>2, <2>1, UntrackTyped DEF WsInv
    <2>5. WsType'
      BY <1>1, <1>4, <2>1, <2>2, <2>4 DEF WsInv, WsType
    <2> QED BY <1>3, <2>2, <2>3, <2>5 DEF WsInv
  <1>6. CASE Connections!AbortHandshake(c) \/ Connections!UpgradeTooLate(c)
    <2>1. PICK to \in {"aborted", "closed"} :
             /\ Connections!Become(c, to) /\ UNCHANGED <<counts, active>>
             /\ leaked' = IF to = "closed" THEN leaked \cup {c} ELSE leaked
      BY <1>6 DEF Connections!AbortHandshake, Connections!UpgradeTooLate, Connections!limiterVars
    <2>2. /\ sock' \in [Conn -> {"new", "checking", "aborted", "open", "closing", "closed"}]
          /\ Living' /\ Connections!NoDeadSubscribers' /\ leaked' \subseteq Conn
          /\ Taken' = Taken
      BY <1>1, <1>2, <2>1, SocketMoves
    <2>3. Counted' /\ CountedByKey'
      BY <1>1, <2>1, <2>2, SameSlots DEF WsInv
    <2>4. WsType'
      BY <1>1, <1>4, <2>1, <2>2 DEF WsInv, WsType
    <2> QED BY <1>3, <2>2, <2>3, <2>4 DEF WsInv
  <1> QED BY <1>5, <1>6

LEMMA AcceptKeeps ==
    ASSUME WsInv, NEW c \in Conn, Connections!Accept(c)
    PROVE  WsInv'
  <1>1. /\ sock[c] = "checking" /\ clients' = clients \cup {c} /\ sock' = [sock EXCEPT ![c] = "open"]
        /\ UNCHANGED <<counts, active, attempts, rejections, banned, shuttingDown, hungUp, leaked>>
        /\ UNCHANGED <<filters, index, asked, missed>>
    BY DEF Connections!Accept, Connections!Become, Connections!limiterVars, Connections!subVars
  <1>2. \/ UNCHANGED <<subject, wsFaults, drifted>>
        \/ /\ wsFaults < MaxWsFaults /\ subject' = [subject EXCEPT ![c] = IpKey]
           /\ wsFaults' = wsFaults + 1 /\ drifted' = TRUE
    BY DEF Connections!Accept
  <1>3. /\ sock' \in [Conn -> {"new", "checking", "aborted", "open", "closing", "closed"}]
        /\ \A d \in Conn : sock'[d] = IF d = c THEN "open" ELSE sock[d]
    BY <1>1 DEF WsInv, WsType
  <1>4. Living'
    BY <1>1, <1>3 DEF WsInv, WsType, Living
  <1>5. Connections!NoDeadSubscribers'
    BY <1>1 DEF WsInv, Connections!NoDeadSubscribers
  <1>6. Counted' /\ CountedByKey'
    <2>1. Taken' = Taken
      BY <1>1, <1>3 DEF Taken
    <2>2. ~drifted' => ~drifted /\ subject' = subject
      BY <1>2, Zenon
    <2> QED BY <1>1, <2>1, <2>2, SameSlots DEF WsInv
  <1>7. wsFaults' \in 0..MaxWsFaults
    <2>1. MaxWsFaults \in Nat /\ wsFaults \in 0..MaxWsFaults
      BY RealtimeAssumption DEF WsInv, WsType
    <2> QED BY <1>2, <2>1
  <1>8. subject' \in [Conn -> Connections!Key]
    <2>1. IpKey \in Connections!Key
      BY DEF Connections!Key
    <2> QED BY <1>2, <2>1 DEF WsInv, WsType
  <1>9. WsType'
    BY <1>1, <1>3, <1>7, <1>8 DEF WsInv, WsType
  <1>10. WsFlags'
    <2>1. drifted' = drifted \/ drifted' = TRUE
      BY <1>2, Zenon
    <2> QED BY <1>1, <2>1, Zenon DEF WsInv, WsFlags
  <1> QED BY <1>4, <1>5, <1>6, <1>9, <1>10 DEF WsInv

LEMMA WindowEndsKeeps ==
    ASSUME WsInv, Connections!WindowEnds
    PROVE  WsInv'
  <1>1. /\ wsFaults < MaxWsFaults /\ wsFaults' = wsFaults + 1 /\ banned' \in {banned, FALSE}
        /\ UNCHANGED <<counts, active, shuttingDown, sock, hungUp, clients, subject, leaked, drifted>>
        /\ UNCHANGED <<filters, index, asked, missed>>
    BY DEF Connections!WindowEnds, Connections!subVars
  <1>2. PICK k \in Connections!Key : /\ attempts' = [attempts EXCEPT ![k] = 0]
                                     /\ rejections' = [rejections EXCEPT ![k] = 0]
    BY DEF Connections!WindowEnds
  <1>3. wsFaults' \in 0..MaxWsFaults /\ {ReconnectLimit, AbuseThreshold} \subseteq Nat
    <2>1. MaxWsFaults \in Nat /\ wsFaults \in 0..MaxWsFaults
      BY RealtimeAssumption DEF WsInv, WsType
    <2> QED BY <1>1, <2>1, RealtimeAssumption
  <1>4. /\ attempts' \in [Connections!Key -> 0..ReconnectLimit]
        /\ rejections' \in [Connections!Key -> 0..AbuseThreshold]
    BY <1>2, <1>3 DEF WsInv, WsType
  <1>5. WsType' /\ Living' /\ Connections!NoDeadSubscribers' /\ Taken' = Taken
    BY <1>1, <1>3, <1>4 DEF WsInv, WsType, Living, Connections!NoDeadSubscribers, Taken
  <1>6. Counted' /\ CountedByKey'
    BY <1>1, <1>5, SameSlots DEF WsInv
  <1>7. WsFlags'
    <2>1. banned' = banned \/ banned' = FALSE
      BY <1>1, Zenon
    <2> QED BY <1>1, <2>1, Zenon DEF WsInv, WsFlags
  <1> QED BY <1>5, <1>6, <1>7 DEF WsInv

\* onDisconnect, on the socket's 'close' or ahead of it.
LEMMA DisconnectKeeps ==
    ASSUME WsInv, NEW c \in Conn, sock[c] \in {"open", "closing"}, NEW to \in {"closing", "closed"},
           Connections!Become(c, to), Connections!OnDisconnect(c),
           UNCHANGED <<attempts, rejections, banned, shuttingDown, hungUp, subject, asked, wsFaults, leaked>>,
           UNCHANGED <<drifted, missed>>
    PROVE  WsInv'
  <1>1. /\ sock' \in [Conn -> {"new", "checking", "aborted", "open", "closing", "closed"}]
        /\ \A d \in Conn : sock'[d] = IF d = c THEN to ELSE sock[d]
    BY DEF WsInv, WsType, Connections!Become
  <1>2. clients' = clients \ {c} /\ c \notin leaked
    BY DEF Connections!OnDisconnect, WsInv, Living
  <1>3. /\ filters' \in [Conn -> SUBSET Stream]
        /\ \A d \in Conn : filters'[d] = IF d = c THEN {} ELSE filters[d]
    BY DEF WsInv, WsType, Connections!OnDisconnect
  <1>4. /\ index' \in [Stream -> SUBSET Conn]
        /\ \A s \in Stream : index'[s] = IF s \in filters[c] THEN index[s] \ {c} ELSE index[s]
    BY DEF WsInv, WsType, Connections!OnDisconnect
  <1>5. Living'
    BY <1>1, <1>2 DEF WsInv, WsType, Living
  <1>6. Connections!NoDeadSubscribers'
    BY <1>2, <1>3, <1>4 DEF WsInv, WsType, Connections!NoDeadSubscribers
  <1>7. Taken' = Taken \ {c}
    BY <1>1, <1>2 DEF Taken
  <1>8. counts' \in [Connections!Key -> Nat] /\ Counted' /\ CountedByKey'
    <2>1. CASE c \in clients
      <3>1. c \in Taken /\ Connections!Untrack(subject[c]) /\ subject[c] \in Connections!Key
        BY <2>1 DEF Taken, Connections!OnDisconnect, Connections!UntrackOnce, WsInv, WsType
      <3>2. ~drifted => subject[c] = Identity[c]
        BY DEF WsInv, CountedByKey
      <3>3. Counted' /\ CountedByKey'
        BY <1>7, <3>1, <3>2, SlotReturned DEF WsInv
      <3> QED BY <3>1, <3>3, UntrackTyped DEF WsInv
    <2>2. CASE c \notin clients
      <3>1. UNCHANGED <<counts, active>> /\ Taken' = Taken
        BY <1>2, <1>7, <2>2 DEF Taken, Connections!OnDisconnect, Connections!UntrackOnce
      <3>2. Counted' /\ CountedByKey'
        BY <3>1, SameSlots DEF WsInv
      <3> QED BY <3>1, <3>2 DEF WsInv, WsType
    <2> QED BY <2>1, <2>2
  <1>9. WsType'
    BY <1>1, <1>2, <1>3, <1>4, <1>8 DEF WsInv, WsType
  <1>10. WsFlags'
    BY Zenon DEF WsInv, WsFlags
  <1> QED BY <1>5, <1>6, <1>8, <1>9, <1>10 DEF WsInv

LEMMA SocketClosesKeeps ==
    ASSUME WsInv, NEW c \in Conn, Connections!SocketCloses(c)
    PROVE  WsInv'
  <1>1. UNCHANGED <<attempts, rejections, banned, shuttingDown, subject, asked, wsFaults, leaked, drifted, missed>>
    BY DEF Connections!SocketCloses
  <1>2. WsFlags'
    BY <1>1, Zenon DEF WsInv, WsFlags
  <1>3. CASE /\ hungUp' = hungUp \cup {c}
             /\ UNCHANGED <<sock, counts, active, clients, filters, index>>
    <2>1. WsType' /\ Living' /\ Connections!NoDeadSubscribers' /\ Taken' = Taken
      BY <1>1, <1>3 DEF WsInv, WsType, Living, Connections!NoDeadSubscribers, Taken
    <2>2. Counted' /\ CountedByKey'
      BY <1>1, <1>3, <2>1, SameSlots DEF WsInv
    <2> QED BY <1>2, <2>1, <2>2 DEF WsInv
  <1>4. CASE /\ sock[c] = "aborted" /\ Connections!Become(c, "closed") /\ Connections!Untrack(Identity[c])
             /\ UNCHANGED <<hungUp, clients, filters, index>>
    <2>1. c \notin clients /\ c \notin leaked /\ Identity[c] \in Connections!Key
      BY <1>4, KeyOf DEF WsInv, Living
    <2>2. /\ sock' \in [Conn -> {"new", "checking", "aborted", "open", "closing", "closed"}]
          /\ Living' /\ Connections!NoDeadSubscribers'
          /\ c \in Taken /\ Taken' = Taken \ {c}
      BY <1>1, <1>4, <2>1, SocketMoves
    <2>3. Counted' /\ CountedByKey'
      BY <1>1, <1>4, <2>1, <2>2, SlotReturned DEF WsInv
    <2>4. counts' \in [Connections!Key -> Nat]
      BY <1>4, <2>1, UntrackTyped DEF WsInv
    <2>5. WsType'
      BY <1>1, <1>4, <2>2, <2>4 DEF WsInv, WsType
    <2> QED BY <1>2, <2>2, <2>3, <2>5 DEF WsInv
  <1>5. CASE /\ sock[c] \in {"open", "closing"}
             /\ Connections!Become(c, "closed") /\ Connections!OnDisconnect(c) /\ UNCHANGED hungUp
    BY <1>1, <1>5, DisconnectKeeps
  <1> QED BY <1>3, <1>4, <1>5 DEF Connections!SocketCloses

LEMMA TerminateSlowKeeps ==
    ASSUME WsInv, NEW c \in Conn, Connections!TerminateSlow(c)
    PROVE  WsInv'
  BY DisconnectKeeps DEF Connections!TerminateSlow

\* Some open sockets start to close.
LEMMA ClosingKeeps ==
    ASSUME WsInv, sock' \in [Conn -> {"new", "checking", "aborted", "open", "closing", "closed"}],
           \A c \in Conn : sock'[c] = sock[c] \/ (sock[c] = "open" /\ sock'[c] = "closing"),
           missed' \in [Conn -> 0..MaxMissed], index' \in [Stream -> SUBSET Conn],
           \A s \in Stream : index'[s] \subseteq index[s],
           asked' \subseteq Conn \X {"subscribe", "unsubscribe"} \X Stream, shuttingDown' \in BOOLEAN,
           UNCHANGED <<counts, active, attempts, rejections, banned, hungUp, clients, subject, filters>>,
           UNCHANGED <<wsFaults, leaked, drifted>>
    PROVE  WsInv'
  <1>1. WsType' /\ Living' /\ Connections!NoDeadSubscribers'
    BY DEF WsInv, WsType, Living, Connections!NoDeadSubscribers
  <1>2. Taken' = Taken
    BY DEF Taken
  <1>3. Counted' /\ CountedByKey'
    BY <1>2, SameSlots DEF WsInv
  <1>4. WsFlags'
    BY Zenon DEF WsInv, WsFlags
  <1> QED BY <1>1, <1>3, <1>4 DEF WsInv

LEMMA ProbesKeep ==
    ASSUME WsInv, Connections!RunHealthProbes \/ \E c \in Conn : Connections!Pong(c)
    PROVE  WsInv'
  <1>1. /\ UNCHANGED <<counts, active, attempts, rejections, banned, shuttingDown, hungUp, clients, subject>>
        /\ UNCHANGED <<filters, index, asked, wsFaults, leaked, drifted>>
    BY DEF Connections!RunHealthProbes, Connections!Pong, Connections!limiterVars, Connections!subVars
  <1>2. MaxMissed \in Nat /\ shuttingDown' \in BOOLEAN
    <2>1. shuttingDown' \in BOOLEAN
      BY <1>1, Zenon DEF WsInv, WsFlags
    <2> QED BY <2>1, RealtimeAssumption
  <1>3. CASE Connections!RunHealthProbes
    <2>1. /\ sock' \in [Conn -> {"new", "checking", "aborted", "open", "closing", "closed"}]
          /\ \A c \in Conn : sock'[c] = sock[c] \/ (sock[c] = "open" /\ sock'[c] = "closing")
      BY <1>3 DEF Connections!RunHealthProbes, WsInv, WsType
    <2>2. missed' \in [Conn -> 0..MaxMissed]
      <3>1. \A c \in Conn : missed'[c] = missed[c] \/ (~(missed[c] >= MaxMissed) /\ missed'[c] = missed[c] + 1)
        BY <1>3 DEF Connections!RunHealthProbes
      <3>2. missed' = [c \in Conn |-> missed'[c]]
        BY <1>3 DEF Connections!RunHealthProbes
      <3>3. \A c \in Conn : missed'[c] \in 0..MaxMissed
        BY <1>2, <3>1 DEF WsInv, WsType
      <3> QED BY <3>2, <3>3
    <2> QED BY <1>1, <1>2, <2>1, <2>2, ClosingKeeps DEF WsInv, WsType
  <1>4. ASSUME NEW c \in Conn, Connections!Pong(c) PROVE WsInv'
    <2>1. missed' \in [Conn -> 0..MaxMissed] /\ UNCHANGED sock
      BY <1>2, <1>4 DEF Connections!Pong, WsInv, WsType
    <2> QED BY <1>1, <1>2, <2>1, ClosingKeeps DEF WsInv, WsType
  <1> QED BY <1>3, <1>4

LEMMA ForcedCloseKeeps ==
    ASSUME WsInv, Connections!GracefulDrain \/ \E s \in Stream : Connections!DisconnectByStreamId(s)
    PROVE  WsInv'
  <1>1. /\ UNCHANGED <<counts, active, attempts, rejections, banned, hungUp, clients, subject>>
        /\ UNCHANGED <<filters, asked, wsFaults, leaked, drifted, missed>>
    BY DEF Connections!GracefulDrain, Connections!DisconnectByStreamId, Connections!limiterVars, Connections!subVars
  <1>2. shuttingDown' = shuttingDown \/ shuttingDown' = TRUE
    BY Zenon DEF Connections!GracefulDrain, Connections!DisconnectByStreamId
  <1>3. shuttingDown' \in BOOLEAN
    BY <1>2, Zenon DEF WsInv, WsFlags
  <1>4. /\ sock' \in [Conn -> {"new", "checking", "aborted", "open", "closing", "closed"}]
        /\ \A c \in Conn : sock'[c] = sock[c] \/ (sock[c] = "open" /\ sock'[c] = "closing")
    BY DEF Connections!GracefulDrain, Connections!DisconnectByStreamId, WsInv, WsType
  <1>5. index' \in [Stream -> SUBSET Conn] /\ \A s \in Stream : index'[s] \subseteq index[s]
    BY DEF Connections!GracefulDrain, Connections!DisconnectByStreamId, Connections!subVars, WsInv, WsType
  <1> QED BY <1>1, <1>3, <1>4, <1>5, ClosingKeeps DEF WsInv, WsType

LEMMA MessageKeeps ==
    ASSUME WsInv, NEW c \in Conn, NEW op \in {"subscribe", "unsubscribe"}, NEW s \in Stream,
           Connections!HandleMessage(c, op, s) \/ Connections!Authorized(c, op, s)
    PROVE  WsInv'
  <1>1. /\ UNCHANGED <<counts, active, attempts, rejections, banned, shuttingDown, sock, hungUp, clients, subject>>
        /\ UNCHANGED <<wsFaults, leaked, drifted, missed>>
        /\ asked' \in {asked \cup {<<c, op, s>>}, asked \ {<<c, op, s>>}}
    BY DEF Connections!HandleMessage, Connections!Authorized, Connections!limiterVars
  <1>2. filters' \in [Conn -> SUBSET Stream] /\ index' \in [Stream -> SUBSET Conn] /\ Connections!NoDeadSubscribers'
    <2>1. CASE UNCHANGED <<filters, index>>
      BY <1>1, <2>1 DEF WsInv, WsType, Connections!NoDeadSubscribers
    <2>2. CASE /\ c \in clients /\ filters' = [filters EXCEPT ![c] = @ \cup {s}]
               /\ index' = [index EXCEPT ![s] = @ \cup {c}]
      <3>1. /\ filters' \in [Conn -> SUBSET Stream] /\ index' \in [Stream -> SUBSET Conn]
            /\ \A d \in Conn : filters[d] \subseteq filters'[d] /\ s \in filters'[c]
            /\ \A t \in Stream : index'[t] = IF t = s THEN index[t] \cup {c} ELSE index[t]
        BY <2>2 DEF WsInv, WsType
      <3> QED BY <1>1, <2>2, <3>1 DEF WsInv, WsType, Connections!NoDeadSubscribers
    <2>3. CASE /\ filters' = [filters EXCEPT ![c] = @ \ {s}] /\ index' = [index EXCEPT ![s] = @ \ {c}]
      <3>1. /\ filters' \in [Conn -> SUBSET Stream] /\ index' \in [Stream -> SUBSET Conn]
            /\ \A d \in Conn : filters'[d] = IF d = c THEN filters[d] \ {s} ELSE filters[d]
            /\ \A t \in Stream : index'[t] = IF t = s THEN index[t] \ {c} ELSE index[t]
        BY <2>3 DEF WsInv, WsType
      <3> QED BY <1>1, <3>1 DEF WsInv, WsType, Connections!NoDeadSubscribers
    <2> QED BY <2>1, <2>2, <2>3 DEF Connections!HandleMessage, Connections!Authorized, Connections!Admits
  <1>3. WsType'
    BY <1>1, <1>2 DEF WsInv, WsType
  <1>4. Living' /\ Taken' = Taken
    BY <1>1 DEF WsInv, Living, Taken
  <1>5. Counted' /\ CountedByKey'
    BY <1>1, <1>4, SameSlots DEF WsInv
  <1>6. WsFlags'
    BY <1>1, Zenon DEF WsInv, WsFlags
  <1> QED BY <1>2, <1>3, <1>4, <1>5, <1>6 DEF WsInv

LEMMA WsStep == WsInv /\ [Connections!Next]_Connections!wsVars => WsInv'
  <1> SUFFICES ASSUME WsInv, [Connections!Next]_Connections!wsVars PROVE WsInv'
    OBVIOUS
  <1>1. CASE UNCHANGED Connections!wsVars
    BY <1>1 DEF Connections!wsVars, WsInv, WsType, WsFlags, Living, Counted, CountedByKey, Taken, TakenBy,
       Connections!NoDeadSubscribers
  <1> QED
    BY <1>1, UpgradeKeeps, RefusalKeeps, AcceptKeeps, WindowEndsKeeps, SocketClosesKeeps, TerminateSlowKeeps,
       ProbesKeep, ForcedCloseKeeps, MessageKeeps
    DEF Connections!Next

\* For every number of clients, keys, streams and limits: the limiter's counters are
\* what the upgrades under way, the registered connections and the slots leaked by
\* peers that hung up during the ban check add up to, the cap holds for open
\* connections (both unless a token expired during its upgrade), and whoever is in a
\* stream's index is a registered connection that subscribed to it.
THEOREM ConnectionsAreAccounted == Connections!Spec => []ConnectionsAccounted
  <1>1. ASSUME WsInv PROVE ConnectionsAccounted
    <2>1. Connections!TypeOK
      <3>1. active \in 0..Cardinality(Conn)
        <4>1. Cardinality(Conn) \in Nat
          BY RealtimeAssumption, FS_CardinalityType
        <4> QED BY <1>1, <4>1, TakenFinite DEF WsInv, Counted
      <3> QED BY <1>1, <3>1, WsCount DEF WsInv, WsType, WsFlags, Connections!TypeOK
    <2>2. Connections!SlotsAccounted
      <3>1. ASSUME ~drifted, NEW k \in Connections!Key PROVE counts[k] = Connections!Cardinality(Connections!Slots(k))
        <4>1. Connections!Slots(k) = TakenBy(k)
          BY <1>1, <3>1 DEF Connections!Slots, TakenBy, Taken, WsInv, CountedByKey
        <4> QED BY <1>1, <3>1, <4>1, WsCount DEF WsInv, CountedByKey
      <3> QED BY <3>1 DEF Connections!SlotsAccounted
    <2>3. Connections!CapHolds
      <3>1. ASSUME ~drifted, NEW k \in Connections!Key
            PROVE  Connections!Cardinality({c \in clients : Identity[c] = k}) <= MaxConnections
        <4>1. {c \in clients : Identity[c] = k} \in SUBSET TakenBy(k)
          BY <1>1 DEF TakenBy, Taken, WsInv, WsType
        <4>2. /\ Cardinality({c \in clients : Identity[c] = k}) <= Cardinality(TakenBy(k))
              /\ Cardinality({c \in clients : Identity[c] = k}) \in Nat
          BY <4>1, TakenFinite, FS_Subset, FS_CardinalityType
        <4>3. Cardinality(TakenBy(k)) <= MaxConnections /\ MaxConnections \in Nat /\ Cardinality(TakenBy(k)) \in Nat
          BY <1>1, <3>1, RealtimeAssumption, TakenFinite DEF WsInv, CountedByKey
        <4>4. Cardinality({c \in clients : Identity[c] = k}) <= MaxConnections
          BY <4>2, <4>3
        <4> QED BY <4>4, WsCount
      <3> QED BY <3>1 DEF Connections!CapHolds
    <2> QED BY <1>1, <2>1, <2>2, <2>3 DEF WsInv, ConnectionsAccounted, Connections!ConnectionsAccounted
  <1> QED
    BY <1>1, WsInit, WsStep, PTL DEF Connections!Spec

----------------------------------------------------------------------------
(* Ingestion and replay                                                    *)

Known == UNION {EventOf(b) : b \in Batches}
Stages == {"new", "compare", "rollback", "acquire", "insert", "account", "done", "failed"}

\* A request on its way carries a batch, and is past the comparison when it waits for
\* a slot.
JobOK(r) ==
    /\ job[r].todo \subseteq DOMAIN job[r].batch
    /\ Active(r) => job[r].batch \in Batches
    /\ job[r].stage \in {"acquire", "insert", "account"} => job[r].todo = {}

Job == [stage : Stages, batch : Batches \cup {<<>>}, todo : SUBSET Nat]

Replays == [stage : {"off", "paging", "complete", "over"}, cursor : Nat, refused : SUBSET Nat]

IngestType ==
    /\ records \in Seq(Known)
    /\ job \in [Request -> Job]
    /\ \A r \in Request : JobOK(r)
    /\ writers \in Nat /\ waiters \in Seq(Request)
    /\ rolledBack \subseteq Ledgers /\ reorgHeight \in Ledgers \cup {None} /\ lastSafeLedger \in Nat
    /\ replay \in Replays
    /\ storeFaults \in 0..MaxStoreFaults

IngestFlags == dependency \in BOOLEAN /\ disputed \in BOOLEAN
IdsDistinct == \A i, j \in DOMAIN records : records[i].id = records[j].id => i = j

\* The semaphore.
Inserting == {r \in Request : job[r].stage = "insert"}
SlotsOK ==
    /\ IsFiniteSet(Inserting) /\ writers = Cardinality(Inserting) /\ writers <= MaxWriters
    /\ waiters # <<>> => writers = MaxWriters
    /\ \A i \in DOMAIN waiters : job[waiters[i]].stage = "acquire"
    /\ \A i, j \in DOMAIN waiters : waiters[i] = waiters[j] => i = j

\* Requests that overlap agree, and what a request has compared is stored, if at all,
\* with its hash.
BatchesAgree ==
    \A q, r \in Request : Active(q) /\ Active(r) =>
        \A e \in EventOf(job[q].batch), f \in EventOf(job[r].batch) : e.ledger = f.ledger => e.hash = f.hash
Compared(r, e) == \A j \in job[r].todo : job[r].batch[j].ledger # e.ledger
ComparedHolds ==
    \A r \in Request : Active(r) =>
        \A e \in EventOf(job[r].batch), k \in DOMAIN records :
            job[r].stage # "account" /\ Compared(r, e) /\ records[k].ledger = e.ledger => records[k].hash = e.hash
OneFork ==
    \A i, j \in DOMAIN records : records[i].ledger = records[j].ledger => records[i].hash = records[j].hash
ForksOK == disputed \/ (BatchesAgree /\ ComparedHolds /\ OneFork)

\* What a replay has not handed to the client's queue yet lies behind its cursor.
Behind(x) == \E c, e \in Range(records) : c.id = replay.cursor /\ e.id = x /\ Before(c, e)
ReplayOK ==
    /\ replay.stage = "paging" => \A x \in unsent : Behind(x)
    /\ replay.stage = "complete" => unsent = {}

IngestInv == IngestType /\ IngestFlags /\ IdsDistinct /\ SlotsOK /\ ForksOK /\ ReplayOK


LEMMA KnownFacts ==
    /\ \A e \in Known : e.id \in Nat /\ e.id # None /\ e.ledger \in Nat /\ e.ledger \in Ledgers
    /\ \A b \in Batches : b \in Seq(Known) /\ EventOf(b) \subseteq Known /\ b # <<>>
  <1>1. ASSUME NEW b \in Batches
        PROVE  /\ b \in Seq(Known) /\ EventOf(b) \subseteq Known /\ b # <<>>
               /\ \A e \in EventOf(b) : e.id \in Nat /\ e.id # None /\ e.ledger \in Nat
    <2> DEFINE All == [id : Nat \ {None}, ledger : Nat, hash : {e.hash : e \in EventOf(b)}]
    <2>1. b \in Seq(All) /\ b # <<>>
      BY BatchesAssumption
    <2>2. \A e \in All : e.id \in Nat /\ e.id # None /\ e.ledger \in Nat
      OBVIOUS
    <2>3. EventOf(b) \subseteq Known
      BY DEF Known
    <2>4. \A i \in DOMAIN b : b[i] \in EventOf(b)
      BY DEF EventOf, Range
    <2> HIDE DEF All
    <2>5. Len(b) \in Nat /\ DOMAIN b = 1..Len(b) /\ \A i \in DOMAIN b : b[i] \in All
      BY <2>1
    <2>6. b \in Seq(Known)
      BY <2>1, <2>3, <2>4, <2>5
    <2> QED BY <2>1, <2>2, <2>3, <2>5, <2>6 DEF EventOf, Range
  <1>2. \A e \in Known : e.ledger \in Ledgers
    BY DEF Known, Ledgers
  <1> QED BY <1>1, <1>2 DEF Known

LEMMA StoreFacts ==
    ASSUME IngestType
    PROVE  /\ Len(records) \in Nat /\ DOMAIN records = 1..Len(records)
           /\ \A k \in DOMAIN records : /\ records[k] \in Known /\ records[k].id \in Nat
                                        /\ records[k].ledger \in Nat
  BY KnownFacts DEF IngestType

LEMMA JobFacts ==
    ASSUME IngestType, NEW r \in Request
    PROVE  /\ job[r] \in Job /\ JobOK(r)
           /\ Active(r) => /\ job[r].batch \in Batches /\ job[r].batch \in Seq(Known)
                           /\ Len(job[r].batch) \in Nat /\ DOMAIN job[r].batch = 1..Len(job[r].batch)
                           /\ \A i \in DOMAIN job[r].batch : /\ job[r].batch[i] \in EventOf(job[r].batch)
                                                             /\ job[r].batch[i] \in Known
  <1>1. job[r] \in Job /\ JobOK(r)
    BY DEF IngestType
  <1>2. ASSUME Active(r)
        PROVE  job[r].batch \in Batches /\ job[r].batch \in Seq(Known)
    BY <1>1, <1>2, KnownFacts DEF JobOK
  <1>3. \A i \in DOMAIN job[r].batch : job[r].batch[i] \in EventOf(job[r].batch)
    BY DEF EventOf, Range
  <1> QED BY <1>1, <1>2, <1>3

\* Requests that only change their stage.
LEMMA StagesMove ==
    ASSUME IngestType, job' \in [Request -> Job],
           \A q \in Request : /\ job'[q].batch = job[q].batch
                              /\ job'[q].todo = job[q].todo \/ \E i : job'[q].todo = job[q].todo \ {i}
                              /\ Active(q)' => Active(q)
                              /\ job'[q].stage \in {"acquire", "insert", "account"} => job[q].todo = {}
    PROVE  \A q \in Request : JobOK(q)'
  BY DEF IngestType, JobOK

LEMMA BecomeMoves ==
    ASSUME IngestType, NEW r \in Request, NEW st \in Stages, Become(r, st)
    PROVE  /\ job' \in [Request -> Job] /\ job'[r].stage = st
           /\ job'[r].batch = job[r].batch /\ job'[r].todo = job[r].todo
           /\ \A q \in Request \ {r} : job'[q] = job[q]
  BY DEF Become, IngestType, Job

LEMMA ReleaseMoves ==
    ASSUME IngestType, NEW r \in Request, NEW st \in Stages, Release(r, st)
    PROVE  /\ job' \in [Request -> Job] /\ job'[r].stage = st
           /\ \A q \in Request : job'[q].batch = job[q].batch /\ job'[q].todo = job[q].todo
           /\ \A q \in Request \ {r} :
                 \/ job'[q] = job[q]
                 \/ waiters # <<>> /\ q = waiters[1] /\ job'[q].stage = "insert"
  BY ZenonT(40) DEF Release, IngestType, Job, Stages

\* The types --------------------------------------------------------------

LEMMA IngestTyped ==
    ASSUME IngestType, IngestFlags, NEW r \in Request, NEW batch \in Batches, Ingest(r, batch)
    PROVE  IngestType' /\ IngestFlags'
  <1>1. CASE ~dependency /\ Become(r, "failed") /\ UNCHANGED disputed
    <2>1. /\ job' \in [Request -> Job] /\ job'[r].stage = "failed"
          /\ job'[r].batch = job[r].batch /\ job'[r].todo = job[r].todo
          /\ \A q \in Request \ {r} : job'[q] = job[q]
      BY <1>1, BecomeMoves DEF Stages
    <2>2. \A q \in Request : JobOK(q)'
      BY <2>1, StagesMove DEF Active, IngestType, JobOK
    <2> QED BY <1>1, <2>1, <2>2 DEF IngestType, IngestFlags, Ingest
  <1>2. CASE job' = [job EXCEPT ![r] = [stage |-> "compare", batch |-> batch, todo |-> LedgersInBatch(batch)]]
             /\ disputed' \in BOOLEAN
    <2>1. LedgersInBatch(batch) \subseteq DOMAIN batch /\ DOMAIN batch \subseteq Nat
      BY KnownFacts DEF LedgersInBatch
    <2>2. job' \in [Request -> Job]
      BY <1>2, <2>1 DEF IngestType, Job, Stages
    <2>3. \A q \in Request : JobOK(q)'
      BY <1>2, <2>1 DEF IngestType, JobOK, Active
    <2> QED BY <1>2, <2>2, <2>3 DEF IngestType, IngestFlags, Ingest
  <1>3. disputed' \in BOOLEAN
    BY Zenon DEF Ingest, IngestFlags
  <1> QED BY <1>1, <1>2, <1>3 DEF Ingest

LEMMA CompareTyped ==
    ASSUME IngestType, IngestFlags, NEW r \in Request, Compare(r)
    PROVE  IngestType' /\ IngestFlags'
  <1>0. /\ UNCHANGED <<records, dependency, writers, waiters, lastSafeLedger, replay, unsent, storeFaults, disputed>>
        /\ job[r].stage = "compare" /\ Active(r)
    BY DEF Compare, Active
  <1>1. CASE job[r].todo = {} /\ Become(r, "acquire") /\ UNCHANGED <<rolledBack, reorgHeight>>
    <2>1. /\ job' \in [Request -> Job] /\ job'[r].stage = "acquire"
          /\ job'[r].batch = job[r].batch /\ job'[r].todo = job[r].todo
          /\ \A q \in Request \ {r} : job'[q] = job[q]
      BY <1>1, BecomeMoves DEF Stages
    <2>2. \A q \in Request : JobOK(q)'
      BY <1>0, <1>1, <2>1, StagesMove DEF Active, IngestType, JobOK
    <2> QED BY <1>0, <1>1, <2>1, <2>2 DEF IngestType, IngestFlags
  <1>2. ASSUME NEW i \in job[r].todo, job' = [job EXCEPT ![r].todo = @ \ {i}], UNCHANGED <<rolledBack, reorgHeight>>
        PROVE  IngestType' /\ IngestFlags'
    <2>1. job' \in [Request -> Job]
      BY <1>2 DEF IngestType, Job
    <2>2. \A q \in Request : JobOK(q)'
      BY <1>0, <1>2, <2>1 DEF Active, IngestType, JobOK, Job
    <2> QED BY <1>0, <1>2, <2>1, <2>2 DEF IngestType, IngestFlags
  <1>3. ASSUME NEW i \in job[r].todo, Become(r, "rollback"), reorgHeight' = job[r].batch[i].ledger,
               rolledBack' = rolledBack \cup {job[r].batch[i].ledger}
        PROVE  IngestType' /\ IngestFlags'
    <2>1. /\ job' \in [Request -> Job] /\ job'[r].stage = "rollback"
          /\ job'[r].batch = job[r].batch /\ job'[r].todo = job[r].todo
          /\ \A q \in Request \ {r} : job'[q] = job[q]
      BY <1>3, BecomeMoves DEF Stages
    <2>2. \A q \in Request : JobOK(q)'
      BY <1>0, <2>1, StagesMove DEF Active, IngestType, JobOK
    <2>3. job[r].batch[i].ledger \in Ledgers
      BY <1>0, <1>3, JobFacts, KnownFacts DEF JobOK
    <2> QED BY <1>0, <1>3, <2>1, <2>2, <2>3 DEF IngestType, IngestFlags
  <1> QED BY <1>1, <1>2, <1>3 DEF Compare

\* rollbackBeforeLedger keeps the records below the fork, and no other.
LEMMA RollbackKeeps ==
    ASSUME IngestType, NEW r \in Request, NEW i \in job[r].todo,
           records' = Picked(records, {k \in DOMAIN records : Survives(records[k], job[r].batch[i].ledger)})
    PROVE  /\ records' \in Seq(Known)
           /\ \A k \in DOMAIN records' : \E j \in DOMAIN records :
                 records'[k] = records[j] /\ records[j].ledger < job[r].batch[i].ledger
           /\ \A j \in DOMAIN records : records[j].ledger < job[r].batch[i].ledger =>
                 \E k \in DOMAIN records' : records'[k] = records[j]
           /\ IdsDistinct => IdsDistinct'
  <1> DEFINE I == {k \in DOMAIN records : Survives(records[k], job[r].batch[i].ledger)}
             R == records'
  <1>1. \A k \in DOMAIN records : k \in I <=> records[k].ledger < job[r].batch[i].ledger
    BY DEF Survives
  <1>2. I \in SUBSET DOMAIN records /\ records \in Seq(Known) /\ R = Picked(records, I)
    BY DEF IngestType
  <1> HIDE DEF I, R
  <1>3. /\ R \in Seq(Known)
        /\ \A j \in I : \E k \in DOMAIN R : R[k] = records[j]
        /\ \E p : Places(p, R, records, I)
    BY <1>2, PickedFacts
  <1>4. PICK p : Places(p, R, records, I)
    BY <1>3
  <1>5. IdsDistinct => \A j, k \in DOMAIN R : R[j].id = R[k].id => j = k
    BY <1>2, <1>4 DEF IdsDistinct, Places
  <1>6. \A k \in DOMAIN R : \E j \in DOMAIN records :
           R[k] = records[j] /\ records[j].ledger < job[r].batch[i].ledger
    BY <1>1, <1>2, <1>4 DEF Places
  <1> QED BY <1>1, <1>2, <1>3, <1>5, <1>6 DEF R, IdsDistinct

LEMMA RollbackTyped ==
    ASSUME IngestType, IngestFlags, NEW r \in Request, Rollback(r)
    PROVE  IngestType' /\ IngestFlags'
  <1>1. PICK i \in job[r].todo :
           /\ records' = Picked(records, {k \in DOMAIN records : Survives(records[k], job[r].batch[i].ledger)})
           /\ job' = [job EXCEPT ![r].stage = "compare", ![r].todo = @ \ {i}]
    BY DEF Rollback
  <1>2. records' \in Seq(Known)
    BY <1>1, RollbackKeeps
  <1>3. job' \in [Request -> Job]
    BY <1>1 DEF IngestType, Job, Stages
  <1>4. \A q \in Request : JobOK(q)'
    BY <1>1, <1>3 DEF Active, IngestType, JobOK, Job, Rollback
  <1> QED BY <1>2, <1>3, <1>4 DEF Rollback, IngestType, IngestFlags

LEMMA AcquireTyped ==
    ASSUME IngestType, IngestFlags, NEW r \in Request, Acquire(r)
    PROVE  IngestType' /\ IngestFlags'
  <1>0. job[r].stage = "acquire" /\ Active(r)
    BY DEF Acquire, Active
  <1>1. CASE Become(r, "insert") /\ writers' = writers + 1 /\ UNCHANGED waiters
    <2>1. /\ job' \in [Request -> Job] /\ job'[r].stage = "insert"
          /\ job'[r].batch = job[r].batch /\ job'[r].todo = job[r].todo
          /\ \A q \in Request \ {r} : job'[q] = job[q]
      BY <1>1, BecomeMoves DEF Stages
    <2>2. \A q \in Request : JobOK(q)'
      BY <1>0, <2>1, StagesMove DEF Active, IngestType, JobOK
    <2> QED BY <1>1, <2>1, <2>2 DEF IngestType, IngestFlags, Acquire
  <1>2. CASE waiters' = Append(waiters, r) /\ UNCHANGED <<writers, job>>
    <2>1. waiters' \in Seq(Request)
      BY <1>2 DEF IngestType
    <2>2. \A q \in Request : JobOK(q)'
      BY <1>2 DEF Active, IngestType, JobOK
    <2> QED BY <1>2, <2>1, <2>2 DEF IngestType, IngestFlags, Acquire
  <1> QED BY <1>1, <1>2 DEF Acquire

\* insertMany leaves the records where they are and appends events of the batch.
LEMMA InsertKeeps ==
    ASSUME IngestType, NEW r \in Request, InsertMany(r)
    PROVE  /\ records' \in Seq(Known) /\ DOMAIN records \subseteq DOMAIN records'
           /\ \A k \in DOMAIN records : records'[k] = records[k]
           /\ \A k \in DOMAIN records' : k \in DOMAIN records \/ records'[k] \in EventOf(job[r].batch)
           /\ IdsDistinct => IdsDistinct'
  <1> DEFINE batch == job[r].batch
             fresh == {i \in DOMAIN batch : /\ batch[i].id \notin Ids(records)
                                            /\ \A j \in 1..(i - 1) : batch[j].id # batch[i].id}
             P == Picked(batch, fresh)
             R == records'
  <1>1. R = records \o P
    BY DEF InsertMany
  <1>2. Active(r)
    BY DEF Active, InsertMany
  <1>3. /\ batch \in Seq(Known) /\ Len(batch) \in Nat /\ DOMAIN batch = 1..Len(batch)
        /\ \A i \in DOMAIN batch : batch[i] \in EventOf(batch)
        /\ records \in Seq(Known) /\ Len(records) \in Nat /\ DOMAIN records = 1..Len(records)
    BY <1>2, JobFacts, StoreFacts DEF IngestType
  <1>4. /\ \A i \in fresh : i \in DOMAIN batch /\ i \in Nat /\ \A k \in DOMAIN records : records[k].id # batch[i].id
        /\ \A i, j \in fresh : i # j => batch[i].id # batch[j].id
    <2> HIDE DEF batch, P, R
    <2>1. \A i \in fresh : i \in DOMAIN batch /\ i \in Nat /\ \A k \in DOMAIN records : records[k].id # batch[i].id
      BY <1>3 DEF Ids
    <2>2. ASSUME NEW i \in fresh, NEW j \in fresh, i < j PROVE batch[i].id # batch[j].id
      <3>1. i \in 1..(j - 1)
        BY <2>1, <2>2, <1>3
      <3> QED BY <3>1
    <2>3. \A i, j \in fresh : i # j => i < j \/ j < i
      BY <2>1
    <2> QED BY <2>1, <2>2, <2>3
  <1>5. fresh \in SUBSET DOMAIN batch
    OBVIOUS
  <1> HIDE DEF fresh, batch, P
  <1>6. /\ P \in Seq(Known) /\ Len(P) \in Nat /\ DOMAIN P = 1..Len(P)
        /\ \E p : Places(p, P, batch, fresh)
    BY <1>3, <1>5, PickedFacts DEF P
  <1>7. PICK p : Places(p, P, batch, fresh)
    BY <1>6
  <1>8. /\ R \in Seq(Known) /\ Len(R) = Len(records) + Len(P) /\ DOMAIN R = 1..Len(R)
        /\ \A k \in DOMAIN records : R[k] = records[k]
        /\ \A k \in DOMAIN R : k \notin DOMAIN records =>
              k - Len(records) \in DOMAIN P /\ R[k] = P[k - Len(records)]
    <2> HIDE DEF R
    <2> QED BY <1>1, <1>3, <1>6
  <1> HIDE DEF R
  <1>9. ASSUME NEW k \in DOMAIN R, k \notin DOMAIN records
        PROVE  R[k] \in EventOf(batch) /\ \E i \in fresh : i = p[k - Len(records)] /\ R[k] = batch[i]
    BY <1>3, <1>4, <1>7, <1>8, <1>9 DEF Places
  <1>10. ASSUME IdsDistinct, NEW j \in DOMAIN R, NEW k \in DOMAIN R, R[j].id = R[k].id
         PROVE  j = k
    <2>1. CASE j \in DOMAIN records /\ k \in DOMAIN records
      BY <1>8, <1>10, <2>1 DEF IdsDistinct
    <2>2. CASE j \notin DOMAIN records /\ k \in DOMAIN records
      BY <1>4, <1>8, <1>9, <1>10, <2>2
    <2>3. CASE j \in DOMAIN records /\ k \notin DOMAIN records
      BY <1>4, <1>8, <1>9, <1>10, <2>3
    <2>4. CASE j \notin DOMAIN records /\ k \notin DOMAIN records
      <3>1. p[j - Len(records)] = p[k - Len(records)]
        BY <1>4, <1>9, <1>10, <2>4
      <3>2. j - Len(records) = k - Len(records)
        BY <1>7, <1>8, <2>4, <3>1 DEF Places
      <3> QED BY <1>3, <1>8, <3>2
    <2> QED BY <2>1, <2>2, <2>3, <2>4
  <1>11. IdsDistinct => IdsDistinct'
    BY <1>10 DEF IdsDistinct, R
  <1>12. DOMAIN records \subseteq DOMAIN R
    BY <1>3, <1>6, <1>8
  <1> QED BY <1>8, <1>9, <1>11, <1>12 DEF R, batch

LEMMA InsertTyped ==
    ASSUME IngestType, IngestFlags, SlotsOK, NEW r \in Request,
           InsertMany(r) \/ StoreFails(r)
    PROVE  IngestType' /\ IngestFlags'
  <1>0. records' \in Seq(Known) /\ storeFaults' \in 0..MaxStoreFaults
    <2>1. CASE InsertMany(r)
      <3>1. UNCHANGED storeFaults
        BY <2>1 DEF InsertMany
      <3> QED BY <2>1, <3>1, InsertKeeps DEF IngestType
    <2>2. CASE StoreFails(r)
      BY <2>2, LimitsAssumption DEF StoreFails, IngestType
    <2> QED BY <2>1, <2>2
  <1>1. ASSUME NEW st \in {"account", "failed"}, Release(r, st), job[r].stage = "insert",
               UNCHANGED <<dependency, rolledBack, reorgHeight, lastSafeLedger, replay, unsent, disputed>>
        PROVE  IngestType' /\ IngestFlags'
    <2>1. /\ job' \in [Request -> Job] /\ job'[r].stage = st
          /\ \A q \in Request : job'[q].batch = job[q].batch /\ job'[q].todo = job[q].todo
          /\ \A q \in Request \ {r} :
                \/ job'[q] = job[q]
                \/ waiters # <<>> /\ q = waiters[1] /\ job'[q].stage = "insert"
      BY <1>1, ReleaseMoves DEF Stages
    <2>2. waiters # <<>> => 1 \in DOMAIN waiters /\ job[waiters[1]].stage = "acquire"
      BY DEF SlotsOK, IngestType
    <2>3. \A q \in Request : JobOK(q)'
      BY <1>1, <2>1, <2>2, StagesMove DEF Active, IngestType, JobOK
    <2>4. Cardinality(Inserting) \in Nat /\ Cardinality(Inserting) # 0
      BY <1>1, FS_CardinalityType, FS_EmptySet DEF SlotsOK, Inserting
    <2>5. writers' \in Nat
      BY <1>1, <2>4 DEF Release, SlotsOK
    <2>6. waiters' \in Seq(Request)
      BY <1>1 DEF Release, IngestType
    <2> QED BY <1>0, <1>1, <2>1, <2>3, <2>5, <2>6 DEF IngestType, IngestFlags
  <1>2. CASE /\ Become(r, "failed") /\ job[r].stage \in {"compare", "rollback"}
             /\ UNCHANGED <<writers, waiters, dependency, rolledBack, reorgHeight, lastSafeLedger, replay, unsent, disputed>>
    <2>1. /\ job' \in [Request -> Job] /\ job'[r].stage = "failed"
          /\ job'[r].batch = job[r].batch /\ job'[r].todo = job[r].todo
          /\ \A q \in Request \ {r} : job'[q] = job[q]
      BY <1>2, BecomeMoves DEF Stages
    <2>2. \A q \in Request : JobOK(q)'
      BY <2>1, StagesMove DEF Active, IngestType, JobOK
    <2> QED BY <1>0, <1>2, <2>1, <2>2 DEF IngestType, IngestFlags
  <1> QED BY <1>1, <1>2 DEF InsertMany, StoreFails, FailReleasing

LEMMA AccountTyped ==
    ASSUME IngestType, IngestFlags, NEW r \in Request, Account(r)
    PROVE  IngestType' /\ IngestFlags'
  <1>0. Active(r) /\ Become(r, "done")
    BY DEF Account, Active
  <1>1. PICK last \in EventOf(job[r].batch) :
            /\ lastSafeLedger' \in {last.ledger - 1, lastSafeLedger}
            /\ lastSafeLedger' = last.ledger - 1 => last.ledger - 1 > lastSafeLedger \/ lastSafeLedger' = lastSafeLedger
            /\ rolledBack' \in {rolledBack, rolledBack \ {reorgHeight}} /\ reorgHeight' \in {None, reorgHeight}
    BY DEF Account
  <1>2. last.ledger \in Nat
    BY <1>0, JobFacts, KnownFacts
  <1>3. lastSafeLedger' \in Nat
    BY <1>1, <1>2 DEF IngestType
  <1>4. /\ job' \in [Request -> Job] /\ job'[r].stage = "done"
        /\ job'[r].batch = job[r].batch /\ job'[r].todo = job[r].todo
        /\ \A q \in Request \ {r} : job'[q] = job[q]
    BY <1>0, BecomeMoves DEF Stages
  <1>5. \A q \in Request : JobOK(q)'
    BY <1>4, StagesMove DEF Active, IngestType, JobOK
  <1>6. rolledBack' \subseteq Ledgers /\ reorgHeight' \in Ledgers \cup {None}
    BY <1>1 DEF IngestType
  <1> QED BY <1>3, <1>4, <1>5, <1>6 DEF Account, IngestType, IngestFlags

\* Nothing but the replay, the flags or nothing at all.
LEMMA QuietTyped ==
    ASSUME IngestType, IngestFlags,
           UNCHANGED <<records, job, writers, waiters, rolledBack, reorgHeight, lastSafeLedger, disputed>>,
           dependency' \in BOOLEAN, storeFaults' \in 0..MaxStoreFaults,
           replay' \in Replays
    PROVE  IngestType' /\ IngestFlags'
  <1>1. \A q \in Request : JobOK(q)'
    BY DEF IngestType, JobOK, Active
  <1> QED BY <1>1 DEF IngestType, IngestFlags

LEMMA PageTyped ==
    ASSUME IngestType, NEW c \in Nat, NEW debt, ReadPage(debt, c)
    PROVE  replay' \in Replays
  <1>1. After(c) \subseteq Range(records) /\ Page(After(c)) \subseteq After(c)
    BY DEF After, Page
  <1>2. \A e \in Range(records) : e.id \in Nat
    BY StoreFacts DEF Range
  <1>3. PICK n \in Nat, t \in {"complete", "paging"}, page \in SUBSET Range(records) : SendPage(debt, page, t, n)
    BY <1>1, <1>2 DEF ReadPage, None
  <1>4. PICK lost \in SUBSET page :
            replay' = [stage |-> t, cursor |-> n, refused |-> replay.refused \cup {e.id : e \in lost}]
    BY <1>3 DEF SendPage
  <1>5. replay.refused \in SUBSET Nat
    BY DEF IngestType, Replays
  <1> QED BY <1>2, <1>4, <1>5 DEF Replays

\* The write semaphore ----------------------------------------------------

\* Whatever does not enter or leave the insertion.
LEMMA SlotsRest ==
    ASSUME SlotsOK, UNCHANGED <<writers, waiters>>,
           \A q \in Request : job'[q].stage = "insert" <=> job[q].stage = "insert",
           \A q \in Request : job[q].stage = "acquire" => job'[q].stage = "acquire",
           waiters \in Seq(Request)
    PROVE  SlotsOK'
  <1>1. Inserting' = Inserting
    BY DEF Inserting
  <1>2. \A i \in DOMAIN waiters : waiters[i] \in Request
    OBVIOUS
  <1> QED BY <1>1, <1>2 DEF SlotsOK

LEMMA AcquireSlots ==
    ASSUME IngestType, SlotsOK, NEW r \in Request, Acquire(r)
    PROVE  SlotsOK'
  <1>0. job[r].stage = "acquire" /\ waiters \in Seq(Request) /\ r \notin Inserting
    BY DEF Acquire, IngestType, Inserting
  <1>1. CASE writers < MaxWriters /\ writers' = writers + 1 /\ Become(r, "insert") /\ UNCHANGED waiters
    <2>1. waiters = <<>> /\ writers \in Nat /\ MaxWriters \in Nat
      BY <1>1, LimitsAssumption DEF SlotsOK, IngestType
    <2>2. Inserting' = Inserting \cup {r}
      BY <1>1, BecomeMoves DEF Inserting, Stages
    <2>3. IsFiniteSet(Inserting') /\ Cardinality(Inserting') = Cardinality(Inserting) + 1
      BY <1>0, <2>2, FS_AddElement DEF SlotsOK
    <2> QED BY <1>1, <2>1, <2>3 DEF SlotsOK
  <1>2. CASE writers >= MaxWriters /\ waiters' = Append(waiters, r) /\ UNCHANGED <<writers, job>>
    <2>1. writers = MaxWriters
      BY <1>2, LimitsAssumption DEF SlotsOK, IngestType
    <2>2. /\ Len(waiters) \in Nat /\ DOMAIN waiters = 1..Len(waiters)
          /\ DOMAIN waiters' = 1..(Len(waiters) + 1) /\ waiters'[Len(waiters) + 1] = r
          /\ \A i \in DOMAIN waiters : waiters'[i] = waiters[i]
      BY <1>0, <1>2
    <2>3. \A i \in DOMAIN waiters : waiters[i] # r
      BY <2>2 DEF Acquire, Contains
    <2>4. Inserting' = Inserting
      BY <1>2 DEF Inserting
    <2>5. \A i \in DOMAIN waiters' : i \in DOMAIN waiters \/ (i = Len(waiters) + 1 /\ i \notin DOMAIN waiters)
      BY <2>2
    <2>6. \A i \in DOMAIN waiters' : job[waiters'[i]].stage = "acquire"
      BY <1>0, <2>2, <2>5 DEF SlotsOK
    <2>7. \A i, j \in DOMAIN waiters' : waiters'[i] = waiters'[j] => i = j
      BY <2>2, <2>3, <2>5 DEF SlotsOK
    <2> QED BY <1>2, <2>1, <2>4, <2>6, <2>7 DEF SlotsOK
  <1> QED BY <1>1, <1>2 DEF Acquire

LEMMA ReleaseSlots ==
    ASSUME IngestType, SlotsOK, NEW r \in Request, NEW st \in {"account", "failed"},
           job[r].stage = "insert", Release(r, st)
    PROVE  SlotsOK'
  <1>0. r \in Inserting /\ waiters \in Seq(Request) /\ IsFiniteSet(Inserting) /\ writers = Cardinality(Inserting)
    BY DEF Inserting, IngestType, SlotsOK
  <1>1. IsFiniteSet(Inserting \ {r}) /\ Cardinality(Inserting \ {r}) = writers - 1 /\ writers \in Nat
    BY <1>0, FS_RemoveElement, FS_CardinalityType
  <1>2. CASE waiters = <<>>
    <2>1. writers' = writers - 1 /\ waiters' = <<>>
      BY <1>2 DEF Release
    <2>2. Inserting' = Inserting \ {r}
      BY <1>2 DEF Release, Inserting, IngestType, Job
    <2> QED BY <1>1, <2>1, <2>2, LimitsAssumption DEF SlotsOK
  <1>3. CASE waiters # <<>>
    <2> DEFINE w == waiters[1]
    <2>1. writers' = writers /\ waiters' = Tail(waiters)
      BY <1>3 DEF Release
    <2>2. /\ Len(waiters) \in Nat /\ DOMAIN waiters = 1..Len(waiters) /\ 1 \in DOMAIN waiters
          /\ DOMAIN waiters' = 1..(Len(waiters) - 1)
          /\ \A i \in DOMAIN waiters' : i + 1 \in DOMAIN waiters /\ waiters'[i] = waiters[i + 1]
      BY <1>0, <1>3, <2>1
    <2>3. w \in Request /\ job[w].stage = "acquire" /\ w # r /\ w \notin Inserting \ {r}
      BY <1>0, <2>2 DEF SlotsOK, Inserting
    <2>4. Inserting' = (Inserting \ {r}) \cup {w}
      BY <1>3, <2>3 DEF Release, Inserting, IngestType, Job
    <2>5. IsFiniteSet(Inserting') /\ Cardinality(Inserting') = writers
      <3> HIDE DEF w
      <3>1. IsFiniteSet(Inserting') /\ Cardinality(Inserting') = Cardinality(Inserting \ {r}) + 1
        BY <1>1, <2>3, <2>4, FS_AddElement
      <3> QED BY <1>1, <3>1
    <2>6. \A i \in DOMAIN waiters' : waiters'[i] \in Request /\ waiters'[i] # w /\ job[waiters'[i]].stage = "acquire"
      BY <1>0, <2>2 DEF SlotsOK
    <2>7. \A q \in Request : q # w /\ job[q].stage = "acquire" => job'[q].stage = "acquire"
      <3> SUFFICES ASSUME NEW q \in Request, q # w, job[q].stage = "acquire" PROVE job'[q].stage = "acquire"
        OBVIOUS
      <3>1. job'[q] = job[q]
        BY <1>3 DEF Release
      <3> QED BY <3>1
    <2>8. \A i, j \in DOMAIN waiters' : waiters'[i] = waiters'[j] => i = j
      BY <2>2 DEF SlotsOK
    <2> HIDE DEF w
    <2> QED BY <1>3, <2>1, <2>5, <2>6, <2>7, <2>8 DEF SlotsOK
  <1> QED BY <1>2, <1>3

\* One fork per ledger ----------------------------------------------------

\* Whatever compares and stores nothing new.
LEMMA ForksRest ==
    ASSUME ForksOK, UNCHANGED disputed,
           \A k \in DOMAIN records' : \E j \in DOMAIN records : records'[k] = records[j],
           \A q \in Request : Active(q)' => /\ Active(q) /\ job'[q].batch = job[q].batch
                                            /\ job'[q].todo = job[q].todo
                                            /\ job[q].stage = "account" => job'[q].stage = "account"
    PROVE  ForksOK'
  <1> SUFFICES ASSUME ~disputed PROVE (BatchesAgree /\ ComparedHolds /\ OneFork)'
    BY DEF ForksOK
  <1>1. BatchesAgree /\ ComparedHolds /\ OneFork
    BY DEF ForksOK
  <1>2. BatchesAgree'
    BY <1>1 DEF BatchesAgree
  <1>3. ComparedHolds'
    BY <1>1 DEF ComparedHolds, Compared
  <1>4. OneFork'
    BY <1>1 DEF OneFork
  <1> QED BY <1>2, <1>3, <1>4

\* A ledger leaves the list: nothing of it is stored, or only with the batch's hash.
LEMMA ForksCompared ==
    ASSUME IngestType, ForksOK, UNCHANGED disputed, NEW r \in Request, NEW i \in job[r].todo,
           Active(r), job[r].stage # "account",
           \A k \in DOMAIN records' : \E j \in DOMAIN records : records'[k] = records[j],
           \A q \in Request \ {r} : job'[q] = job[q],
           job'[r].batch = job[r].batch, job'[r].todo = job[r].todo \ {i},
           ~disputed => \A k \in DOMAIN records' :
               records'[k].ledger = job[r].batch[i].ledger => records'[k].hash = job[r].batch[i].hash
    PROVE  ForksOK'
  <1> SUFFICES ASSUME ~disputed PROVE (BatchesAgree /\ ComparedHolds /\ OneFork)'
    BY DEF ForksOK
  <1>1. BatchesAgree /\ ComparedHolds /\ OneFork
    BY DEF ForksOK
  <1>2. BatchesAgree'
    <2>1. \A q \in Request : (Active(q)' => Active(q)) /\ job'[q].batch = job[q].batch
      BY DEF Active
    <2> QED BY <1>1, <2>1 DEF BatchesAgree
  <1>3. OneFork'
    BY <1>1 DEF OneFork
  <1>4. ComparedHolds'
    <2> SUFFICES ASSUME NEW q \in Request, Active(q)', NEW e \in EventOf(job'[q].batch), NEW k \in DOMAIN records',
                        job'[q].stage # "account", Compared(q, e)', records'[k].ledger = e.ledger
                 PROVE  records'[k].hash = e.hash
      BY DEF ComparedHolds
    <2>1. PICK j \in DOMAIN records : records'[k] = records[j]
      OBVIOUS
    <2>2. CASE q # r
      BY <1>1, <2>1, <2>2 DEF ComparedHolds, Compared, Active
    <2>3. CASE q = r /\ e.ledger # job[r].batch[i].ledger
      <3>1. Compared(r, e)
        BY <2>3 DEF Compared
      <3> QED BY <1>1, <2>1, <2>3, <3>1 DEF ComparedHolds
    <2>4. CASE q = r /\ e.ledger = job[r].batch[i].ledger
      <3>1. i \in DOMAIN job[r].batch /\ job[r].batch[i] \in EventOf(job[r].batch)
        BY JobFacts DEF JobOK
      <3>2. e.hash = job[r].batch[i].hash
        BY <1>1, <2>4, <3>1 DEF BatchesAgree
      <3> QED BY <2>4, <3>2
    <2> QED BY <2>2, <2>3, <2>4
  <1> QED BY <1>2, <1>3, <1>4

LEMMA CompareForks ==
    ASSUME IngestType, ForksOK, NEW r \in Request, Compare(r)
    PROVE  ForksOK'
  <1>0. job[r].stage = "compare" /\ Active(r) /\ UNCHANGED <<records, disputed>>
    BY DEF Compare, Active
  <1>1. ASSUME NEW st \in {"acquire", "rollback"}, Become(r, st) PROVE ForksOK'
    <2>1. /\ job'[r].stage = st /\ job'[r].batch = job[r].batch /\ job'[r].todo = job[r].todo
          /\ \A q \in Request \ {r} : job'[q] = job[q]
      BY <1>1, BecomeMoves DEF Stages
    <2> QED BY <1>0, <2>1, ForksRest DEF Active
  <1>2. ASSUME NEW i \in job[r].todo, ~OtherForkStored(job[r].batch[i]), job' = [job EXCEPT ![r].todo = @ \ {i}]
        PROVE  ForksOK'
    <2> DEFINE e == job[r].batch[i]
    <2>1. /\ job'[r].batch = job[r].batch /\ job'[r].todo = job[r].todo \ {i}
          /\ \A q \in Request \ {r} : job'[q] = job[q]
      BY <1>2 DEF IngestType, Job
    <2>2. ASSUME ~disputed, NEW k \in DOMAIN records, records[k].ledger = e.ledger PROVE records[k].hash = e.hash
      <3> DEFINE at == {j \in DOMAIN records : records[j].ledger = e.ledger}
      <3>1. at \in SUBSET Nat /\ k \in at /\ DOMAIN records = 1..Len(records) /\ Len(records) \in Nat
        BY <2>2, StoreFacts
      <3>2. PICK m \in at : \A j \in at : m <= j
        BY <3>1, Least
      <3>3. m \in DOMAIN records /\ records[m].ledger = e.ledger /\ \A j \in 1..(m - 1) : records[j].ledger # e.ledger
        BY <3>1, <3>2
      <3>4. records[m].hash = e.hash
        BY <1>2, <3>3 DEF OtherForkStored
      <3> QED BY <2>2, <3>3, <3>4 DEF ForksOK, OneFork
    <2> QED BY <1>0, <1>2, <2>1, <2>2, ForksCompared
  <1> QED BY <1>1, <1>2 DEF Compare

LEMMA RollbackForks ==
    ASSUME IngestType, ForksOK, NEW r \in Request, Rollback(r)
    PROVE  ForksOK'
  <1>0. job[r].stage = "rollback" /\ Active(r) /\ UNCHANGED disputed
    BY DEF Rollback, Active
  <1>1. PICK i \in job[r].todo :
           /\ records' = Picked(records, {k \in DOMAIN records : Survives(records[k], job[r].batch[i].ledger)})
           /\ job' = [job EXCEPT ![r].stage = "compare", ![r].todo = @ \ {i}]
    BY DEF Rollback
  <1>2. \A k \in DOMAIN records' : \E j \in DOMAIN records :
           records'[k] = records[j] /\ records[j].ledger < job[r].batch[i].ledger
    BY <1>1, RollbackKeeps
  <1>3. /\ job'[r].batch = job[r].batch /\ job'[r].todo = job[r].todo \ {i}
        /\ \A q \in Request \ {r} : job'[q] = job[q]
    BY <1>1 DEF IngestType, Job
  <1>4. job[r].batch[i].ledger \in Nat
    BY <1>0, JobFacts, KnownFacts DEF JobOK
  <1>5. \A k \in DOMAIN records' : records'[k].ledger # job[r].batch[i].ledger
    BY <1>2, <1>4, StoreFacts
  <1> QED BY <1>0, <1>2, <1>3, <1>5, ForksCompared

LEMMA InsertForks ==
    ASSUME IngestType, SlotsOK, ForksOK, NEW r \in Request, InsertMany(r)
    PROVE  ForksOK'
  <1> SUFFICES ASSUME ~disputed PROVE (BatchesAgree /\ ComparedHolds /\ OneFork)'
    BY DEF ForksOK, InsertMany
  <1>0. /\ BatchesAgree /\ ComparedHolds /\ OneFork
        /\ Active(r) /\ job[r].stage = "insert" /\ job[r].todo = {}
    BY JobFacts DEF ForksOK, InsertMany, Active, JobOK
  <1>1. /\ DOMAIN records \subseteq DOMAIN records'
        /\ \A k \in DOMAIN records : records'[k] = records[k]
        /\ \A k \in DOMAIN records' : k \in DOMAIN records \/ records'[k] \in EventOf(job[r].batch)
    BY InsertKeeps
  <1>2. /\ job'[r].stage = "account"
        /\ \A q \in Request : job'[q].batch = job[q].batch /\ job'[q].todo = job[q].todo
        /\ \A q \in Request \ {r} :
              \/ job'[q] = job[q]
              \/ waiters # <<>> /\ q = waiters[1] /\ job'[q].stage = "insert"
    BY ReleaseMoves DEF InsertMany, Stages
  <1>3. waiters # <<>> => 1 \in DOMAIN waiters /\ job[waiters[1]].stage = "acquire"
    BY DEF SlotsOK, IngestType
  <1>4. \A q \in Request : /\ Active(q)' => Active(q)
                           /\ job'[q].stage # "account" => job[q].stage # "account"
    BY <1>0, <1>2, <1>3 DEF Active
  <1>5. BatchesAgree'
    BY <1>0, <1>2, <1>4 DEF BatchesAgree
  <1>6. OneFork'
    <2>1. \A e \in EventOf(job[r].batch), k \in DOMAIN records : records[k].ledger = e.ledger => records[k].hash = e.hash
      BY <1>0 DEF ComparedHolds, Compared
    <2>2. \A e, f \in EventOf(job[r].batch) : e.ledger = f.ledger => e.hash = f.hash
      BY <1>0 DEF BatchesAgree
    <2> QED BY <1>0, <1>1, <2>1, <2>2 DEF OneFork
  <1>7. ComparedHolds'
    <2> SUFFICES ASSUME NEW q \in Request, Active(q)', NEW e \in EventOf(job'[q].batch), NEW k \in DOMAIN records',
                        job'[q].stage # "account", Compared(q, e)', records'[k].ledger = e.ledger
                 PROVE  records'[k].hash = e.hash
      BY DEF ComparedHolds
    <2>1. Active(q) /\ job[q].stage # "account" /\ e \in EventOf(job[q].batch) /\ Compared(q, e)
      BY <1>2, <1>4 DEF Compared
    <2>2. CASE k \in DOMAIN records
      BY <1>0, <1>1, <2>1, <2>2 DEF ComparedHolds
    <2>3. CASE records'[k] \in EventOf(job[r].batch)
      BY <1>0, <2>1, <2>3 DEF BatchesAgree
    <2> QED BY <1>1, <2>2, <2>3
  <1> QED BY <1>5, <1>6, <1>7

\* A new request joins.  Unless it is disputed, it agrees with the others; and it
\* has compared nothing yet.
LEMMA IngestForks ==
    ASSUME IngestType, ForksOK, NEW r \in Request, NEW batch \in Batches, Ingest(r, batch)
    PROVE  ForksOK'
  <1>0. job[r].stage = "new" /\ ~Active(r) /\ UNCHANGED records
    BY DEF Ingest, Active
  <1>1. CASE Become(r, "failed") /\ UNCHANGED disputed
    <2>1. /\ job'[r].stage = "failed" /\ job'[r].batch = job[r].batch /\ job'[r].todo = job[r].todo
          /\ \A q \in Request \ {r} : job'[q] = job[q]
      BY <1>1, BecomeMoves DEF Stages
    <2> QED BY <1>0, <1>1, <2>1, ForksRest DEF Active
  <1>2. CASE /\ job' = [job EXCEPT ![r] = [stage |-> "compare", batch |-> batch, todo |-> LedgersInBatch(batch)]]
             /\ disputed' = (disputed \/ \E q \in Request :
                             /\ Active(q) \/ q = r
                             /\ \E e, f \in EventOf(batch) \cup EventOf(job[q].batch) :
                                   e.ledger = f.ledger /\ e.hash # f.hash)
    <2> SUFFICES ASSUME ~disputed' PROVE (BatchesAgree /\ ComparedHolds /\ OneFork)'
      BY DEF ForksOK
    <2>1. BatchesAgree /\ ComparedHolds /\ OneFork
      BY <1>2 DEF ForksOK
    <2>2. \A q \in Request : Active(q) \/ q = r =>
             \A e, f \in EventOf(batch) \cup EventOf(job[q].batch) : e.ledger = f.ledger => e.hash = f.hash
      BY <1>2
    <2>3. /\ job'[r].batch = batch /\ job'[r].todo = LedgersInBatch(batch) /\ job'[r].stage = "compare"
          /\ \A q \in Request \ {r} : job'[q] = job[q]
      BY <1>2 DEF IngestType
    <2>4. BatchesAgree'
      BY <2>1, <2>2, <2>3 DEF BatchesAgree, Active
    <2>5. ASSUME NEW e \in EventOf(batch) PROVE ~Compared(r, e)'
      <3>1. PICK n \in DOMAIN batch : e = batch[n]
        BY DEF EventOf, Range
      <3> DEFINE at == {j \in DOMAIN batch : batch[j].ledger = e.ledger}
      <3>2. at \in SUBSET Nat /\ n \in at /\ DOMAIN batch = 1..Len(batch) /\ Len(batch) \in Nat
        BY <3>1, KnownFacts
      <3>3. PICK m \in at : \A j \in at : m <= j
        BY <3>2, Least
      <3>4. m \in LedgersInBatch(batch) /\ batch[m].ledger = e.ledger
        BY <3>2, <3>3 DEF LedgersInBatch
      <3> QED BY <2>3, <3>4 DEF Compared
    <2>6. ComparedHolds'
      <3>1. \A q \in Request \ {r} : /\ Active(q)' = Active(q)
                                     /\ \A e : Compared(q, e)' = Compared(q, e)
        BY <2>3 DEF Active, Compared
      <3> QED BY <1>0, <2>1, <2>3, <2>5, <3>1 DEF ComparedHolds
    <2>7. OneFork'
      BY <1>0, <2>1 DEF OneFork
    <2> QED BY <2>4, <2>6, <2>7
  <1> QED BY <1>1, <1>2 DEF Ingest

\* Replays without gaps ---------------------------------------------------

\* Events that are there and behind the cursor stay so.
LEMMA ReplayRest ==
    ASSUME ReplayOK, UNCHANGED replay, unsent' \subseteq unsent,
           \A x \in unsent' : Behind(x) => Behind(x)'
    PROVE  ReplayOK'
  BY DEF ReplayOK

LEMMA InsertReplay ==
    ASSUME IngestType, ReplayOK, NEW r \in Request, InsertMany(r)
    PROVE  ReplayOK'
  <1>1. \A e \in Range(records) : e \in Range(records')
    BY InsertKeeps DEF Range
  <1>2. \A x : Behind(x) => Behind(x)'
    BY <1>1 DEF Behind, InsertMany
  <1> QED BY <1>2, ReplayRest DEF InsertMany

\* A rollback that takes the cursor takes all that is behind it.
LEMMA RollbackReplay ==
    ASSUME IngestType, IdsDistinct, ReplayOK, NEW r \in Request, Rollback(r)
    PROVE  ReplayOK'
  <1>0. UNCHANGED replay /\ unsent' = unsent \cap Ids(records')
    BY DEF Rollback
  <1>1. PICK i \in job[r].todo :
           records' = Picked(records, {k \in DOMAIN records : Survives(records[k], job[r].batch[i].ledger)})
    BY DEF Rollback
  <1> DEFINE fork == job[r].batch[i].ledger
  <1>2. /\ \A k \in DOMAIN records' : \E j \in DOMAIN records : records'[k] = records[j] /\ records[j].ledger < fork
        /\ \A j \in DOMAIN records : records[j].ledger < fork => \E k \in DOMAIN records' : records'[k] = records[j]
    BY <1>1, RollbackKeeps
  <1>3. fork \in Nat
    <2>1. Active(r)
      BY DEF Rollback, Active
    <2> QED BY <2>1, JobFacts, KnownFacts DEF JobOK
  <1> HIDE DEF fork
  <1>4. ASSUME NEW x \in unsent', Behind(x) PROVE Behind(x)'
    <2>1. PICK c \in Range(records), e \in Range(records) : c.id = replay.cursor /\ e.id = x /\ Before(c, e)
      BY <1>4 DEF Behind
    <2>2. PICK m \in DOMAIN records, n \in DOMAIN records : c = records[m] /\ e = records[n]
      BY DEF Range
    <2>3. PICK k \in DOMAIN records' : records'[k].id = x
      BY <1>0 DEF Ids
    <2>4. PICK j \in DOMAIN records : records'[k] = records[j] /\ records[j].ledger < fork
      BY <1>2
    <2>5. j = n
      BY <2>1, <2>2, <2>3, <2>4 DEF IdsDistinct
    <2>6. c.ledger <= e.ledger /\ c.ledger \in Nat /\ e.ledger \in Nat
      BY <2>1, <2>2, StoreFacts DEF Before
    <2>7. c \in Range(records') /\ e \in Range(records')
      BY <1>2, <1>3, <2>2, <2>4, <2>5, <2>6 DEF Range
    <2> QED BY <1>0, <2>1, <2>7 DEF Behind
  <1> QED BY <1>0, <1>4, ReplayRest

\* What is not on a page comes after all that is.
LEMMA PageFirst ==
    ASSUME IngestType, IdsDistinct, NEW rest, rest \subseteq Range(records),
           NEW e \in Page(rest), NEW d \in rest, d \notin Page(rest)
    PROVE  Before(e, d)
  <1> DEFINE Ahead(x) == {y \in rest : Before(y, x)}
  <1>0. Len(records) \in Nat /\ DOMAIN records = 1..Len(records) /\ PageSize \in Nat
    BY StoreFacts, LimitsAssumption
  <1>1. IsFiniteSet(Range(records))
    <2>1. IsFiniteSet(DOMAIN records)
      BY <1>0, FS_Interval
    <2> DEFINE f == [k \in DOMAIN records |-> records[k]]
    <2>2. f \in Surjection(DOMAIN records, Range(records))
      BY DEF Surjection, Range
    <2> QED BY <2>1, <2>2, FS_Surjection DEF ExistsSurjection
  <1>2. \A x : IsFiniteSet(Ahead(x)) /\ Cardinality(Ahead(x)) \in Nat
    BY <1>1, FS_Subset, FS_CardinalityType
  <1>3. e \in rest /\ Cardinality(Ahead(e)) < PageSize /\ ~(Cardinality(Ahead(d)) < PageSize)
    BY DEF Page
  <1>4. /\ e.ledger \in Nat /\ e.id \in Nat /\ d.ledger \in Nat /\ d.id \in Nat /\ (e.id = d.id => e = d)
        /\ \A x \in rest : x.ledger \in Nat /\ x.id \in Nat
    BY <1>3, StoreFacts DEF Range, IdsDistinct
  <1> SUFFICES ASSUME ~Before(e, d) PROVE FALSE
    OBVIOUS
  <1>5. e # d /\ Before(d, e)
    BY <1>3, <1>4 DEF Before
  <1>6. Ahead(d) \subseteq Ahead(e)
    BY <1>4, <1>5 DEF Before
  <1>7. Cardinality(Ahead(d)) <= Cardinality(Ahead(e))
    <2> HIDE DEF Ahead
    <2> QED BY <1>2, <1>6, FS_Subset
  <1> HIDE DEF Ahead
  <1> QED BY <1>0, <1>2, <1>3, <1>7

LEMMA PageReplay ==
    ASSUME IngestType, IdsDistinct, NEW c, NEW debt, ReadPage(debt, c), UNCHANGED records,
           \A x \in debt : \E e \in After(c) : e.id = x
    PROVE  ReplayOK'
  <1>1. CASE SendPage(debt, After(c), "complete", None)
    BY <1>1 DEF ReplayOK, SendPage
  <1>2. ASSUME NEW last \in Page(After(c)), \A e \in Page(After(c)) : e = last \/ Before(e, last),
               SendPage(debt, Page(After(c)), "paging", last.id)
        PROVE  ReplayOK'
    <2>0. /\ replay'.stage = "paging" /\ replay'.cursor = last.id
          /\ unsent' = debt \ {e.id : e \in Page(After(c))}
      BY <1>2 DEF SendPage
    <2>1. After(c) \subseteq Range(records) /\ Page(After(c)) \subseteq After(c)
      BY DEF After, Page
    <2>2. ASSUME NEW x \in unsent' PROVE Behind(x)'
      <3>1. PICK d \in After(c) : d.id = x /\ d \notin Page(After(c))
        BY <2>0, <2>2
      <3>2. Before(last, d)
        BY <1>2, <2>1, <3>1, PageFirst
      <3>3. last \in Range(records) /\ d \in Range(records)
        BY <2>1
      <3> QED BY <2>0, <3>1, <3>2, <3>3 DEF Behind
    <2> QED BY <2>0, <2>2 DEF ReplayOK
  <1> QED BY <1>1, <1>2 DEF ReadPage

LEMMA GiveUpOK ==
    ASSUME GiveUp
    PROVE  ReplayOK' /\ replay' \in Replays
  BY DEF GiveUp, ReplayOK, Replays, None

LEMMA StartReplayOK ==
    ASSUME IngestType, IdsDistinct, NEW c, ReplayFromCursor(c)
    PROVE  ReplayOK'
  <1>1. (GiveUp \/ ReadPage({e.id : e \in After(c)}, c)) /\ UNCHANGED records
    BY DEF ReplayFromCursor
  <1> QED BY <1>1, PageReplay, GiveUpOK

LEMMA NextPageOK ==
    ASSUME IngestType, IdsDistinct, ReplayOK, NextPage
    PROVE  ReplayOK'
  <1>1. (GiveUp \/ ReadPage(unsent, replay.cursor)) /\ UNCHANGED records /\ replay.stage = "paging"
    BY DEF NextPage
  <1>2. ASSUME NEW x \in unsent PROVE \E e \in After(replay.cursor) : e.id = x
    BY <1>1, <1>2 DEF ReplayOK, Behind, After
  <1> QED BY <1>1, <1>2, PageReplay, GiveUpOK

\* The theorem ------------------------------------------------------------

LEMMA IngestInit == Init => IngestInv
  <1> SUFFICES ASSUME Init PROVE IngestInv
    OBVIOUS
  <1>0. \A r \in Request : job[r] = [stage |-> "new", batch |-> <<>>, todo |-> {}]
    BY DEF Init
  <1>1. IngestType
    <2>1. job \in [Request -> Job]
      BY DEF Init, Job, Stages
    <2>2. \A r \in Request : JobOK(r)
      BY <1>0 DEF JobOK, Active
    <2>3. records \in Seq(Known) /\ waiters \in Seq(Request)
      BY DEF Init
    <2> QED BY <2>1, <2>2, <2>3, LimitsAssumption DEF IngestType, Init, None, Replays
  <1>2. IngestFlags
    BY DEF Init, IngestFlags
  <1>3. IdsDistinct /\ ReplayOK
    BY DEF Init, IdsDistinct, ReplayOK
  <1>4. SlotsOK
    <2>1. Inserting = {}
      BY <1>0 DEF Inserting
    <2> QED BY <2>1, FS_EmptySet, LimitsAssumption DEF Init, SlotsOK
  <1>5. ForksOK
    BY <1>0 DEF Init, ForksOK, BatchesAgree, ComparedHolds, OneFork, Active
  <1> QED BY <1>1, <1>2, <1>3, <1>4, <1>5 DEF IngestInv

LEMMA IngestStep == IngestInv /\ [Next]_ingestVars => IngestInv'
  <1> SUFFICES ASSUME IngestInv, [Next]_ingestVars PROVE IngestInv'
    OBVIOUS
  <1>0. IngestType /\ IngestFlags /\ IdsDistinct /\ SlotsOK /\ ForksOK /\ ReplayOK
        /\ waiters \in Seq(Request)
    BY DEF IngestInv, IngestType
  \* Steps that leave the store and the replay alone.
  <1>1. ASSUME UNCHANGED records PROVE IdsDistinct'
    BY <1>0, <1>1 DEF IdsDistinct
  <1>2. ASSUME UNCHANGED <<records, replay, unsent>> PROVE ReplayOK'
    BY <1>0, <1>2 DEF ReplayOK, Behind
  <1>3. ASSUME UNCHANGED <<records, job, writers, waiters, rolledBack, reorgHeight, lastSafeLedger, disputed>>
        PROVE  SlotsOK' /\ ForksOK' /\ IdsDistinct'
    <2>1. SlotsOK'
      BY <1>0, <1>3, SlotsRest
    <2>2. ForksOK'
      BY <1>0, <1>3, ForksRest DEF Active
    <2> QED BY <1>1, <1>3, <2>1, <2>2
  <1>4. ASSUME NEW r \in Request, NEW batch \in Batches, Ingest(r, batch) PROVE IngestInv'
    <2>1. /\ UNCHANGED <<records, writers, waiters, replay, unsent>> /\ job[r].stage = "new"
          /\ job'[r].stage \in {"failed", "compare"} /\ \A q \in Request \ {r} : job'[q] = job[q]
      BY <1>0, <1>4 DEF Ingest, Become, IngestType, Job
    <2>2. SlotsOK'
      BY <1>0, <2>1, SlotsRest
    <2> QED BY <1>0, <1>1, <1>2, <1>4, <2>1, <2>2, IngestTyped, IngestForks DEF IngestInv
  <1>5. ASSUME NEW r \in Request, Compare(r) PROVE IngestInv'
    <2>1. /\ UNCHANGED <<records, writers, waiters, replay, unsent>> /\ job[r].stage = "compare"
          /\ job'[r].stage \in {"acquire", "compare", "rollback"} /\ \A q \in Request \ {r} : job'[q] = job[q]
      BY <1>0, <1>5 DEF Compare, Become, IngestType, Job
    <2>2. SlotsOK'
      BY <1>0, <2>1, SlotsRest
    <2> QED BY <1>0, <1>1, <1>2, <1>5, <2>1, <2>2, CompareTyped, CompareForks DEF IngestInv
  <1>6. ASSUME NEW r \in Request, Rollback(r) PROVE IngestInv'
    <2>1. /\ UNCHANGED <<writers, waiters>> /\ job[r].stage = "rollback"
          /\ job'[r].stage = "compare" /\ \A q \in Request \ {r} : job'[q] = job[q]
      BY <1>0, <1>6 DEF Rollback, IngestType, Job
    <2>2. SlotsOK'
      BY <1>0, <2>1, SlotsRest
    <2>3. IdsDistinct'
      BY <1>0, <1>6, RollbackKeeps DEF Rollback
    <2> QED BY <1>0, <1>6, <2>2, <2>3, RollbackTyped, RollbackForks, RollbackReplay DEF IngestInv
  <1>7. ASSUME NEW r \in Request, Acquire(r) PROVE IngestInv'
    <2>1. /\ UNCHANGED <<records, replay, unsent, disputed>> /\ job[r].stage = "acquire"
          /\ job'[r].stage \in {"acquire", "insert"} /\ \A q \in Request \ {r} : job'[q] = job[q]
          /\ job'[r].batch = job[r].batch /\ job'[r].todo = job[r].todo
      BY <1>0, <1>7 DEF Acquire, Become, IngestType, Job
    <2>2. ForksOK'
      BY <1>0, <2>1, ForksRest DEF Active
    <2> QED BY <1>0, <1>1, <1>2, <1>7, <2>1, <2>2, AcquireTyped, AcquireSlots DEF IngestInv
  <1>8. ASSUME NEW r \in Request, InsertMany(r) PROVE IngestInv'
    <2>1. SlotsOK'
      BY <1>0, <1>8, ReleaseSlots DEF InsertMany
    <2>2. IdsDistinct'
      BY <1>0, <1>8, InsertKeeps
    <2> QED BY <1>0, <1>8, <2>1, <2>2, InsertTyped, InsertForks, InsertReplay DEF IngestInv
  <1>9. ASSUME NEW r \in Request, StoreFails(r) PROVE IngestInv'
    <2>0. UNCHANGED <<records, replay, unsent, disputed>>
      BY <1>9 DEF StoreFails
    <2>1. ASSUME job[r].stage = "insert", Release(r, "failed") PROVE SlotsOK' /\ ForksOK'
      <3>1. SlotsOK'
        BY <1>0, <2>1, ReleaseSlots
      <3>2. /\ job'[r].stage = "failed"
            /\ \A q \in Request : job'[q].batch = job[q].batch /\ job'[q].todo = job[q].todo
            /\ \A q \in Request \ {r} :
                  \/ job'[q] = job[q]
                  \/ waiters # <<>> /\ q = waiters[1] /\ job'[q].stage = "insert"
        BY <1>0, <2>1, ReleaseMoves DEF Stages
      <3>3. waiters # <<>> => 1 \in DOMAIN waiters /\ job[waiters[1]].stage = "acquire"
        BY <1>0 DEF SlotsOK
      <3>4. ForksOK'
        BY <1>0, <2>0, <3>2, <3>3, ForksRest DEF Active
      <3> QED BY <3>1, <3>4
    <2>2. ASSUME job[r].stage \in {"compare", "rollback"}, Become(r, "failed"), UNCHANGED <<writers, waiters>>
          PROVE  SlotsOK' /\ ForksOK'
      <3>1. /\ job'[r].stage = "failed" /\ \A q \in Request \ {r} : job'[q] = job[q]
        BY <1>0, <2>2, BecomeMoves DEF Stages
      <3>2. SlotsOK'
        BY <1>0, <2>2, <3>1, SlotsRest
      <3>3. ForksOK'
        BY <1>0, <2>0, <3>1, ForksRest DEF Active
      <3> QED BY <3>2, <3>3
    <2>3. SlotsOK' /\ ForksOK'
      BY <1>9, <2>1, <2>2 DEF StoreFails, FailReleasing
    <2> QED BY <1>0, <1>1, <1>2, <1>9, <2>0, <2>3, InsertTyped DEF IngestInv
  <1>10. ASSUME NEW r \in Request, Account(r) PROVE IngestInv'
    <2>1. /\ UNCHANGED <<records, writers, waiters, replay, unsent, disputed>> /\ job[r].stage = "account"
          /\ job'[r].stage = "done" /\ \A q \in Request \ {r} : job'[q] = job[q]
      BY <1>0, <1>10, BecomeMoves DEF Account, Stages
    <2>2. SlotsOK'
      BY <1>0, <2>1, SlotsRest
    <2>3. ForksOK'
      BY <1>0, <2>1, ForksRest DEF Active
    <2> QED BY <1>0, <1>1, <1>2, <1>10, <2>1, <2>2, <2>3, AccountTyped DEF IngestInv
  <1>11. CASE SetDependency
    <2>1. /\ UNCHANGED <<records, job, writers, waiters, rolledBack, reorgHeight, lastSafeLedger, replay, unsent, disputed>>
          /\ dependency' \in BOOLEAN /\ storeFaults' \in 0..MaxStoreFaults
      BY <1>0, <1>11, LimitsAssumption DEF SetDependency, IngestType, IngestFlags
    <2>2. IngestType' /\ IngestFlags'
      BY <1>0, <2>1, QuietTyped DEF IngestType
    <2> QED BY <1>2, <1>3, <2>1, <2>2 DEF IngestInv
  <1>12. ASSUME replay' \in Replays, ReplayOK',
                UNCHANGED <<records, dependency, job, writers, waiters, rolledBack, reorgHeight, lastSafeLedger, storeFaults, disputed>>
         PROVE  IngestInv'
    <2>2. dependency' \in BOOLEAN /\ storeFaults' \in 0..MaxStoreFaults
      BY <1>0, <1>12 DEF IngestType, IngestFlags
    <2>3. IngestType' /\ IngestFlags'
      BY <1>0, <1>12, <2>2, QuietTyped
    <2> QED BY <1>3, <1>12, <2>3 DEF IngestInv
  <1>13. ASSUME NEW c \in Ids(records) \cup {None}, ReplayFromCursor(c) PROVE IngestInv'
    <2>1. c \in Nat
      BY <1>0, StoreFacts DEF Ids, None
    <2>2. ReplayOK'
      BY <1>0, <1>13, StartReplayOK
    <2>3. replay' \in Replays
      BY <1>0, <1>13, <2>1, PageTyped, GiveUpOK DEF ReplayFromCursor
    <2> QED BY <1>12, <1>13, <2>2, <2>3 DEF ReplayFromCursor
  <1>14. CASE NextPage
    <2>1. ReplayOK'
      BY <1>0, <1>14, NextPageOK
    <2>2. replay.cursor \in Nat
      BY <1>0 DEF IngestType, Replays
    <2>3. replay' \in Replays
      BY <1>0, <1>14, <2>2, PageTyped, GiveUpOK DEF NextPage
    <2> QED BY <1>12, <1>14, <2>1, <2>3 DEF NextPage
  <1>15. CASE UNCHANGED ingestVars
    <2>1. UNCHANGED <<records, dependency, job, writers, waiters, rolledBack, reorgHeight, lastSafeLedger,
                      replay, unsent, storeFaults, disputed>>
      BY <1>15 DEF ingestVars
    <2>2. IngestType' /\ IngestFlags'
      BY <1>0, <2>1, QuietTyped DEF IngestType, IngestFlags
    <2> QED BY <1>2, <1>3, <2>1, <2>2 DEF IngestInv
  <1> QED BY <1>4, <1>5, <1>6, <1>7, <1>8, <1>9, <1>10, <1>11, <1>13, <1>14, <1>15 DEF Next

LEMMA OneIdPerRecord ==
    ASSUME IngestType, IdsDistinct
    PROVE  Len(records) = Cardinality(Ids(records))
  <1> DEFINE f == [i \in 1..Len(records) |-> records[i].id]
  <1>0. Len(records) \in Nat /\ DOMAIN records = 1..Len(records)
    BY StoreFacts
  <1>1. f \in Bijection(1..Len(records), Ids(records))
    BY <1>0 DEF Bijection, Injection, Surjection, IsInjective, Ids, IdsDistinct
  <1>2. IsFiniteSet(1..Len(records)) /\ Cardinality(1..Len(records)) = Len(records)
    <2>1. \A n \in Nat : IsFiniteSet(1..n) /\ Cardinality(1..n) = n
      BY FS_Interval
    <2> QED BY <1>0, <2>1
  <1> HIDE DEF f
  <1> QED BY <1>1, <1>2, FS_Bijection DEF ExistsBijection

\* For any number of requests, batches, forks and writers, whatever the store
\* rejects: while no batch and no two overlapping requests disagree about a
\* ledger, the store holds one fork of it; a replay that completes has handed what
\* was stored behind its cursor throughout to the client's queue, whichever frames
\* that queue refused; and the write semaphore loses neither a slot nor a wake-up.
THEOREM EventsAreKept == Spec => []EventsKept
  <1>1. IngestInv => EventsKept
    <2> SUFFICES ASSUME IngestInv PROVE EventsKept
      OBVIOUS
    <2>0. IngestType /\ IngestFlags /\ IdsDistinct /\ SlotsOK /\ ForksOK /\ ReplayOK
      BY DEF IngestInv
    <2>1. TypeOK
      <3>1. Len(records) = Cardinality(Ids(records))
        BY <2>0, OneIdPerRecord
      <3>2. \A r \in Request : job[r].stage \in Stages
        BY <2>0, JobFacts DEF Job
      <3>3. writers \in 0..MaxWriters /\ Range(waiters) \subseteq Request
        BY <2>0, LimitsAssumption DEF IngestType, SlotsOK, Range
      <3>4. {dependency, disputed} \subseteq BOOLEAN
        BY <2>0, Zenon DEF IngestFlags
      <3>5. replay.stage \in {"off", "paging", "complete", "over"}
        BY <2>0 DEF IngestType, Replays
      <3> QED BY <2>0, <3>1, <3>2, <3>3, <3>4, <3>5 DEF TypeOK, IngestType, Stages
    <2>2. OneForkPerLedger
      BY <2>0 DEF OneForkPerLedger, ForksOK, OneFork
    <2>3. ReplayGapFree
      BY <2>0 DEF ReplayGapFree, ReplayOK
    <2>4. NoSlotLost
      BY <2>0 DEF NoSlotLost, SlotsOK, Inserting
    <2> QED BY <2>1, <2>2, <2>3, <2>4 DEF EventsKept
  <1> QED BY <1>1, IngestInit, IngestStep, PTL DEF Spec

----------------------------------------------------------------------------
(* What the hub sends to the subscribers of a stream                       *)

Event == Outbound!Event
Frame == {f \in Seq(Event) : Len(f) <= BatchMaxSize}
Wire == [socket : {"open", "closing", "gone"}, buffered : Nat, queue : Seq(Frame), batch : Seq(Event),
         received : Seq(Frame), dropped : SUBSET Event, cut : SUBSET Event]
Fanout == [event : Event, to : Seq(Peer), from : Nat]

\* What is on its way or arrived, and everything that became of an event.
Out(w) == Outbound!EventsOf(w.received) \cup Outbound!EventsOf(w.queue)
Fates(w) == Out(w) \cup Outbound!Range(w.batch) \cup w.dropped \cup w.cut

Largest == IF BatchMaxSize < ControlSize THEN ControlSize ELSE BatchMaxSize
Bounded(w) == /\ w.buffered <= DropAt + Largest /\ Len(w.queue) <= MaxQueue
              /\ Len(w.batch) < BatchMaxSize

Ascending(s) == \A i, j \in DOMAIN s : i < j => s[i] < s[j]
Sorted(w) ==
    /\ Outbound!Increasing(w.received) /\ Outbound!Increasing(w.queue) /\ Ascending(w.batch)
    /\ \A x \in Outbound!EventsOf(w.received), y \in Outbound!EventsOf(w.queue) : x < y
    /\ \A x \in Out(w), y \in Outbound!Range(w.batch) : x < y

OutType ==
    /\ subscribers \in Seq(Peer) /\ Outbound!IsInjective(subscribers)
    /\ asks \in [Peer -> SUBSET Outbound!Filter] /\ shifted \subseteq Peer
    /\ wire \in [Peer -> Wire] /\ chunks \in Seq(Fanout)
    /\ seen \in Seq(Event) /\ Len(seen) <= DedupMax /\ published \in 0..MaxEvents
    /\ owed \in [Peer -> SUBSET Event] /\ evicted \subseteq Event
OutFlags == again \in BOOLEAN

\* Only events that were broadcast are underway, and each of them is remembered.
Past ==
    /\ \A e \in Event : e <= published => e \in Outbound!Range(seen) \/ e \in evicted
    /\ \A i \in DOMAIN chunks : chunks[i].event <= published
    /\ \A c \in Peer : \A e \in owed[c] : e <= published

Waiting(c) == {chunks[i].event : i \in Outbound!Owing(c)}
\* A connection that gets its events at once has no accumulator pending, unless
\* its preference changed under one.
WireOK(c) ==
    /\ Bounded(wire[c]) /\ Fates(wire[c]) \cup Waiting(c) \subseteq owed[c]
    /\ wire[c].socket = "open" => owed[c] \subseteq Fates(wire[c]) \cup Waiting(c)
    /\ c \notin shifted /\ asks[c] = {} => wire[c].batch = <<>>
    /\ ~again /\ c \notin shifted => Sorted(wire[c])

\* A waiting fan-out has sent whole chunks.
JobsOK ==
    \A i \in DOMAIN chunks :
        /\ chunks[i].from < Len(chunks[i].to) /\ YieldBatch <= chunks[i].from
        /\ \E n \in Nat : chunks[i].from = n * YieldBatch

\* The fan-out j has not reached c yet.
Owes(j, c) == \E k \in DOMAIN j.to : j.from < k /\ j.to[k] = c
\* j goes along the list `to', or the first part of it.
Along(j, to) == Len(j.to) <= Len(to) /\ \A k \in DOMAIN j.to : j.to[k] = to[k]
\* The fan-out i, which waits before j, is of an older event and not behind, or of
\* a younger one and behind.
Order(i, j) == \/ i.event < j.event /\ j.from <= i.from
               \/ j.event < i.event /\ i.from < j.from

\* The waiting fan-outs that owe c an event go along the list of the next event, an
\* older one is never behind a younger one, and c has received nothing younger.
Lined(c) ==
    /\ \A i \in DOMAIN chunks : Owes(chunks[i], c) =>
        Along(chunks[i], Outbound!Immediate) /\ \A x \in Out(wire[c]) : x < chunks[i].event
    /\ \A i, j \in DOMAIN chunks :
        i < j /\ Owes(chunks[i], c) /\ Owes(chunks[j], c) => Order(chunks[i], chunks[j])
LinedOK == \A c \in Peer : ~again /\ c \notin shifted => Lined(c)

OutInv == OutType /\ OutFlags /\ Past /\ JobsOK /\ LinedOK /\ \A c \in Peer : WireOK(c)

LEMMA OutConstants ==
    /\ YieldBatch \in Nat /\ YieldBatch >= 1 /\ BatchMaxSize \in Nat /\ BatchMaxSize >= 1
    /\ FrameFits \in Nat /\ FrameFits >= 1 /\ DedupMax \in Nat /\ DedupMax >= 1
    /\ MaxQueue \in Nat /\ MaxQueueBytes \in Nat /\ DropAt \in Nat /\ TerminateAt \in Nat
    /\ ControlSize \in Nat /\ MaxEvents \in Nat /\ Event = 1..MaxEvents /\ Largest \in Nat
  BY OutboundAssumption DEF Event, Outbound!Event, Largest

LEMMA InRange == ASSUME NEW f, NEW x PROVE x \in Outbound!Range(f) <=> \E a \in DOMAIN f : f[a] = x
  BY DEF Outbound!Range

LEMMA InEvents ==
    ASSUME NEW fs, NEW x
    PROVE  x \in Outbound!EventsOf(fs) <=> \E i \in DOMAIN fs : \E a \in DOMAIN fs[i] : fs[i][a] = x
  BY DEF Outbound!EventsOf, Outbound!Range

LEMMA EventIn ==
    ASSUME NEW fs, NEW i \in DOMAIN fs, NEW f, f = fs[i], NEW a \in DOMAIN f
    PROVE  f[a] \in Outbound!EventsOf(fs)
  BY InEvents

LEMMA FrameIn ==
    ASSUME NEW fs, NEW i \in DOMAIN fs
    PROVE  Outbound!Range(fs[i]) \subseteq Outbound!EventsOf(fs)
  BY DEF Outbound!EventsOf

LEMMA EventAt ==
    ASSUME NEW fs, NEW x \in Outbound!EventsOf(fs)
    PROVE  \E i \in DOMAIN fs : x \in Outbound!Range(fs[i])
  BY DEF Outbound!EventsOf

LEMMA Nothing ==
    /\ Outbound!EventsOf(<<>>) = {} /\ Outbound!Range(<<>>) = {}
    /\ Outbound!Increasing(<<>>) /\ Ascending(<<>>) /\ <<>> \in Frame /\ <<>> \in Seq(Frame) /\ <<>> \in Seq(Event)
  <1>1. DOMAIN <<>> = {} /\ Len(<<>>) = 0 /\ <<>> \in Seq(Event) /\ <<>> \in Seq(Frame)
    OBVIOUS
  <1> QED BY <1>1, OutConstants DEF Outbound!EventsOf, Outbound!Range, Outbound!Increasing, Ascending, Frame

Below(A, B) == \A x \in A, y \in B : x < y

LEMMA FrameAppended ==
    ASSUME NEW q \in Seq(Frame), NEW f \in Frame, NEW r, r = Append(q, f)
    PROVE  /\ r \in Seq(Frame) /\ Len(r) = Len(q) + 1
           /\ Outbound!EventsOf(r) = Outbound!EventsOf(q) \cup Outbound!Range(f)
           /\ Outbound!Increasing(q) /\ Ascending(f) /\ Below(Outbound!EventsOf(q), Outbound!Range(f))
              => Outbound!Increasing(r)
  <1>1. /\ r \in Seq(Frame) /\ Len(r) = Len(q) + 1 /\ Len(q) \in Nat
        /\ DOMAIN q = 1..Len(q) /\ DOMAIN r = 1..(Len(q) + 1) /\ r[Len(q) + 1] = f
        /\ \A i \in 1..Len(q) : r[i] = q[i]
    OBVIOUS
  <1>2. DOMAIN r = DOMAIN q \cup {Len(q) + 1} /\ \A i \in DOMAIN q : i < Len(q) + 1 /\ r[i] = q[i] /\ i \in Nat
    BY <1>1
  <1>3. Outbound!EventsOf(r) = Outbound!EventsOf(q) \cup Outbound!Range(f)
    <2>1. ASSUME NEW x \in Outbound!EventsOf(r) PROVE x \in Outbound!EventsOf(q) \/ x \in Outbound!Range(f)
      <3>1. PICK i \in DOMAIN r : x \in Outbound!Range(r[i])
        BY EventAt
      <3>2. CASE i \in DOMAIN q
        BY <1>2, <3>1, <3>2, FrameIn
      <3> QED BY <1>1, <1>2, <3>1, <3>2
    <2>2. ASSUME NEW x \in Outbound!EventsOf(q) PROVE x \in Outbound!EventsOf(r)
      <3>1. PICK i \in DOMAIN q : x \in Outbound!Range(q[i])
        BY EventAt
      <3> QED BY <1>2, <3>1, FrameIn
    <2>3. Outbound!Range(f) \subseteq Outbound!EventsOf(r)
      <3>1. Len(q) + 1 \in DOMAIN r /\ r[Len(q) + 1] = f
        BY <1>1
      <3> QED BY <3>1, FrameIn
    <2> QED BY <2>1, <2>2, <2>3
  <1>4. ASSUME Outbound!Increasing(q), Ascending(f), Below(Outbound!EventsOf(q), Outbound!Range(f))
        PROVE  Outbound!Increasing(r)
    <2> SUFFICES ASSUME NEW i \in DOMAIN r, NEW j \in DOMAIN r, NEW a \in DOMAIN r[i], NEW b \in DOMAIN r[j],
                        i < j \/ (i = j /\ a < b)
                 PROVE  r[i][a] < r[j][b]
      BY DEF Outbound!Increasing
    <2>1. CASE i \in DOMAIN q /\ j \in DOMAIN q
      <3>1. r[i] = q[i] /\ r[j] = q[j]
        BY <1>2, <2>1
      <3> QED BY <1>4, <2>1, <3>1 DEF Outbound!Increasing
    <2>2. CASE i \in DOMAIN q /\ j = Len(q) + 1
      <3>1. r[i][a] \in Outbound!EventsOf(q)
        BY <1>2, <2>2, InEvents
      <3>2. r[j][b] \in Outbound!Range(f)
        BY <1>1, <2>2, InRange
      <3> QED BY <1>4, <3>1, <3>2 DEF Below
    <2>3. CASE i = Len(q) + 1
      <3>1. j = Len(q) + 1 /\ a < b
        BY <1>1, <1>2, <2>3
      <3> QED BY <1>1, <1>4, <2>3, <3>1 DEF Ascending
    <2> QED BY <1>2, <2>1, <2>2, <2>3
  <1> QED BY <1>1, <1>3, <1>4

LEMMA SuffixOf ==
    ASSUME NEW S, NEW q \in Seq(S), NEW k \in 0..Len(q), NEW t, t = SubSeq(q, k + 1, Len(q))
    PROVE  /\ t \in Seq(S) /\ Len(t) = Len(q) - k /\ Len(t) <= Len(q) /\ DOMAIN t = 1..(Len(q) - k)
           /\ \A i \in 1..(Len(q) - k) : t[i] = q[k + i]
  <1> DEFINE m == k + 1
             n == Len(q)
             u == SubSeq(q, m, n)
  <1>1. n \in Int /\ m \in Int /\ m >= 1 /\ m <= n + 1 /\ n - m + 1 = n - k
    OBVIOUS
  <1>2. \A i \in m..n : q[i] \in S
    BY <1>1
  <1>3. u = t
    OBVIOUS
  <1> HIDE DEF m, n, u
  <1>4. /\ u \in Seq(S) /\ Len(u) = (IF m <= n THEN n - m + 1 ELSE 0)
        /\ \A i \in 1..(n - m + 1) : u[i] = q[m + i - 1]
    BY <1>1, <1>2, SubSeqProperties DEF u
  <1>5. Len(u) = n - k /\ Len(u) <= n
    <2> SUFFICES ASSUME NEW l, l = (IF m <= n THEN n - m + 1 ELSE 0) PROVE l = n - k /\ l <= n
      BY <1>4
    <2>1. k >= 0 /\ k \in Int /\ m = k + 1
      BY DEF m
    <2> QED BY <1>1, <2>1
  <1>6. u \in Seq(S) /\ DOMAIN u = 1..(n - k)
    BY <1>4, <1>5
  <1>7. ASSUME NEW i \in 1..(n - k) PROVE u[i] = q[k + i]
    <2>1. m + i - 1 = k + i /\ i \in 1..(n - m + 1)
      BY <1>1 DEF m, n
    <2> QED BY <1>4, <2>1
  <1> QED BY <1>3, <1>5, <1>6, <1>7 DEF n

\* The queue q consists of out and left.
SplitInto(q, out, left) ==
    /\ out \in Seq(Frame) /\ left \in Seq(Frame) /\ Len(left) <= Len(q)
    /\ Outbound!EventsOf(q) = Outbound!EventsOf(out) \cup Outbound!EventsOf(left)
    /\ Outbound!Increasing(q) => /\ Outbound!Increasing(out) /\ Outbound!Increasing(left)
                                 /\ Below(Outbound!EventsOf(out), Outbound!EventsOf(left))

LEMMA QueueSplit ==
    ASSUME NEW q \in Seq(Frame), NEW k \in 0..Len(q)
    PROVE  SplitInto(q, SubSeq(q, 1, k), SubSeq(q, k + 1, Len(q)))
  <1> SUFFICES ASSUME NEW out, NEW left, out = SubSeq(q, 1, k), left = SubSeq(q, k + 1, Len(q))
               PROVE  SplitInto(q, out, left)
    OBVIOUS
  <1>1. Len(q) \in Nat /\ DOMAIN q = 1..Len(q) /\ k \in Nat /\ k <= Len(q)
    OBVIOUS
  <1>2. /\ out \in Seq(Frame) /\ Len(out) = k /\ DOMAIN out = 1..k /\ \A i \in 1..k : out[i] = q[i]
    BY <1>1
  <1>3. /\ left \in Seq(Frame) /\ Len(left) <= Len(q) /\ DOMAIN left = 1..(Len(q) - k)
        /\ \A i \in 1..(Len(q) - k) : left[i] = q[k + i]
    BY SuffixOf
  <1>4. /\ \A i \in DOMAIN out : i \in DOMAIN q /\ i <= k /\ out[i] = q[i] /\ i \in Nat
        /\ \A i \in DOMAIN left : k + i \in DOMAIN q /\ k < k + i /\ left[i] = q[k + i] /\ i \in Nat
        /\ \A i \in DOMAIN q : i \in DOMAIN out \/ (i - k \in DOMAIN left /\ k + (i - k) = i)
    <2>1. \A i \in DOMAIN out : i \in DOMAIN q /\ i <= k /\ out[i] = q[i] /\ i \in Nat
      BY <1>1, <1>2
    <2>2. ASSUME NEW i \in DOMAIN left PROVE k + i \in DOMAIN q /\ k < k + i /\ left[i] = q[k + i] /\ i \in Nat
      <3>1. i \in 1..(Len(q) - k)
        BY <1>3
      <3>2. left[i] = q[k + i]
        BY <1>3, <3>1
      <3>3. k + i \in DOMAIN q /\ k < k + i /\ i \in Nat
        BY <1>1, <3>1
      <3> QED BY <3>2, <3>3
    <2>3. \A i \in DOMAIN q : i \in DOMAIN out \/ (i - k \in DOMAIN left /\ k + (i - k) = i)
      <3> SUFFICES ASSUME NEW i \in 1..Len(q), i \notin 1..k PROVE i - k \in 1..(Len(q) - k) /\ k + (i - k) = i
        BY <1>1, <1>2, <1>3
      <3> QED BY <1>1
    <2> QED BY <2>1, <2>2, <2>3
  <1>5. Outbound!EventsOf(q) = Outbound!EventsOf(out) \cup Outbound!EventsOf(left)
    <2>1. ASSUME NEW x \in Outbound!EventsOf(q) PROVE x \in Outbound!EventsOf(out) \/ x \in Outbound!EventsOf(left)
      <3>1. PICK i \in DOMAIN q : x \in Outbound!Range(q[i])
        BY EventAt
      <3>2. CASE i \in DOMAIN out
        BY <1>4, <3>1, <3>2, FrameIn
      <3>3. CASE i - k \in DOMAIN left /\ k + (i - k) = i
        <4>1. left[i - k] = q[i]
          BY <1>4, <3>3
        <4> QED BY <3>1, <3>3, <4>1, FrameIn
      <3> QED BY <1>4, <3>2, <3>3
    <2>2. ASSUME NEW x \in Outbound!EventsOf(out) PROVE x \in Outbound!EventsOf(q)
      <3>1. PICK i \in DOMAIN out : x \in Outbound!Range(out[i])
        BY EventAt
      <3> QED BY <1>4, <3>1, FrameIn
    <2>3. ASSUME NEW x \in Outbound!EventsOf(left) PROVE x \in Outbound!EventsOf(q)
      <3>1. PICK i \in DOMAIN left : x \in Outbound!Range(left[i])
        BY EventAt
      <3> QED BY <1>4, <3>1, FrameIn
    <2> QED BY <2>1, <2>2, <2>3
  <1>6. ASSUME Outbound!Increasing(q) PROVE Outbound!Increasing(out)
    BY <1>4, <1>6 DEF Outbound!Increasing
  <1>7. ASSUME Outbound!Increasing(q) PROVE Outbound!Increasing(left)
    <2> SUFFICES ASSUME NEW i \in DOMAIN left, NEW j \in DOMAIN left, NEW a \in DOMAIN left[i], NEW b \in DOMAIN left[j],
                        i < j \/ (i = j /\ a < b)
                 PROVE  left[i][a] < left[j][b]
      BY DEF Outbound!Increasing
    <2>1. /\ k + i \in DOMAIN q /\ k + j \in DOMAIN q /\ left[i] = q[k + i] /\ left[j] = q[k + j]
          /\ i \in Nat /\ j \in Nat
      BY <1>4
    <2>2. k + i < k + j \/ (k + i = k + j /\ a < b)
      BY <1>1, <2>1
    <2> QED BY <1>7, <2>1, <2>2 DEF Outbound!Increasing
  <1>8. ASSUME Outbound!Increasing(q), NEW x \in Outbound!EventsOf(out), NEW y \in Outbound!EventsOf(left) PROVE x < y
    <2>1. PICK i \in DOMAIN out : \E a \in DOMAIN out[i] : out[i][a] = x
      BY InEvents, ZenonT(40)
    <2>2. PICK j \in DOMAIN left : \E b \in DOMAIN left[j] : left[j][b] = y
      BY InEvents, ZenonT(40)
    <2>3. i \in DOMAIN q /\ k + j \in DOMAIN q /\ i < k + j /\ out[i] = q[i] /\ left[j] = q[k + j]
      BY <1>1, <1>4
    <2> QED BY <1>8, <2>1, <2>2, <2>3 DEF Outbound!Increasing
  <1> QED BY <1>2, <1>3, <1>5, <1>6, <1>7, <1>8 DEF Below, SplitInto

LEMMA FramesJoined ==
    ASSUME NEW r \in Seq(Frame), NEW out \in Seq(Frame), NEW s, s = r \o out
    PROVE  /\ s \in Seq(Frame)
           /\ Outbound!EventsOf(s) = Outbound!EventsOf(r) \cup Outbound!EventsOf(out)
           /\ Outbound!Increasing(r) /\ Outbound!Increasing(out) /\ Below(Outbound!EventsOf(r), Outbound!EventsOf(out))
              => Outbound!Increasing(s)
  <1> DEFINE m == Len(r)
  <1>1. m \in Nat /\ Len(out) \in Nat /\ DOMAIN r = 1..m /\ DOMAIN out = 1..Len(out)
    OBVIOUS
  <1>2. /\ s \in Seq(Frame) /\ DOMAIN s = 1..(m + Len(out)) /\ \A i \in 1..m : s[i] = r[i]
        /\ \A i \in 1..Len(out) : s[m + i] = out[i]
    <2>1. s \in Seq(Frame) /\ Len(s) = m + Len(out)
      OBVIOUS
    <2>2. DOMAIN s = 1..(m + Len(out))
      BY <2>1
    <2>3. \A i \in 1..m : s[i] = r[i]
      BY <1>1
    <2>4. \A i \in 1..Len(out) : s[m + i] = out[i]
      BY <1>1
    <2> QED BY <2>1, <2>2, <2>3, <2>4
  <1> HIDE DEF m
  <1>3. /\ \A i \in DOMAIN r : i \in DOMAIN s /\ i <= m /\ s[i] = r[i] /\ i \in Nat
        /\ \A i \in DOMAIN out : m + i \in DOMAIN s /\ s[m + i] = out[i] /\ i \in Nat
        /\ \A i \in DOMAIN s : i \in Nat /\ (i \in DOMAIN r \/ (i > m /\ i - m \in DOMAIN out /\ s[i] = out[i - m]))
    <2>1. \A i \in DOMAIN s : i \in DOMAIN r \/ (i > m /\ i - m \in DOMAIN out /\ m + (i - m) = i)
      BY <1>1, <1>2
    <2> QED BY <1>1, <1>2, <2>1
  <1>4. Outbound!EventsOf(s) = Outbound!EventsOf(r) \cup Outbound!EventsOf(out)
    <2>1. ASSUME NEW x \in Outbound!EventsOf(s) PROVE x \in Outbound!EventsOf(r) \/ x \in Outbound!EventsOf(out)
      <3>1. PICK i \in DOMAIN s : x \in Outbound!Range(s[i])
        BY EventAt
      <3>2. CASE i \in DOMAIN r
        BY <1>3, <3>1, <3>2, FrameIn
      <3>3. CASE i \notin DOMAIN r
        BY <1>3, <3>1, <3>3, FrameIn
      <3> QED BY <3>2, <3>3
    <2>2. ASSUME NEW x \in Outbound!EventsOf(r) PROVE x \in Outbound!EventsOf(s)
      <3>1. PICK i \in DOMAIN r : x \in Outbound!Range(r[i])
        BY EventAt
      <3> QED BY <1>3, <3>1, FrameIn
    <2>3. ASSUME NEW x \in Outbound!EventsOf(out) PROVE x \in Outbound!EventsOf(s)
      <3>1. PICK i \in DOMAIN out : x \in Outbound!Range(out[i])
        BY EventAt
      <3> QED BY <1>3, <3>1, FrameIn
    <2> QED BY <2>1, <2>2, <2>3
  <1>5. ASSUME Outbound!Increasing(r), Outbound!Increasing(out), Below(Outbound!EventsOf(r), Outbound!EventsOf(out))
        PROVE  Outbound!Increasing(s)
    <2> SUFFICES ASSUME NEW i \in DOMAIN s, NEW j \in DOMAIN s, NEW a \in DOMAIN s[i], NEW b \in DOMAIN s[j],
                        i < j \/ (i = j /\ a < b)
                 PROVE  s[i][a] < s[j][b]
      BY DEF Outbound!Increasing
    <2>1. CASE i \in DOMAIN r /\ j \in DOMAIN r
      <3>1. s[i] = r[i] /\ s[j] = r[j]
        BY <1>3, <2>1
      <3> QED BY <1>5, <2>1, <3>1 DEF Outbound!Increasing
    <2>2. CASE i \in DOMAIN r /\ j \notin DOMAIN r
      <3>1. s[i][a] \in Outbound!EventsOf(r)
        BY <1>3, <2>2, InEvents
      <3>2. s[j][b] \in Outbound!EventsOf(out)
        BY <1>3, <2>2, InEvents
      <3> QED BY <1>5, <3>1, <3>2 DEF Below
    <2>3. CASE i \notin DOMAIN r /\ j \notin DOMAIN r
      <3>1. i - m \in DOMAIN out /\ j - m \in DOMAIN out /\ s[i] = out[i - m] /\ s[j] = out[j - m]
        BY <1>3, <2>3
      <3>2. i - m < j - m \/ (i - m = j - m /\ a < b)
        BY <1>1, <1>3
      <3> QED BY <1>5, <3>1, <3>2 DEF Outbound!Increasing
    <2>4. CASE i \notin DOMAIN r /\ j \in DOMAIN r
      BY <1>1, <1>3, <2>4
    <2> QED BY <2>1, <2>2, <2>3, <2>4
  <1> QED BY <1>2, <1>4, <1>5

\* f is the recursive function of Bytes(q), on the first m frames.
BytesOn(f, q, m) == f = [n \in 0..m |-> IF n = 0 THEN 0 ELSE f[n - 1] + Outbound!Size(q[n])]

LEMMA BytesAt ==
    ASSUME NEW f, NEW q, NEW m \in Nat, BytesOn(f, q, m), NEW k \in 0..m
    PROVE  f[k] = IF k = 0 THEN 0 ELSE f[k - 1] + Outbound!Size(q[k])
  <1> DEFINE v(n) == IF n = 0 THEN 0 ELSE f[n - 1] + Outbound!Size(q[n])
  <1>1. f = [n \in 0..m |-> v(n)]
    BY Zenon DEF BytesOn
  <1> HIDE DEF v
  <1>2. f[k] = v(k)
    BY <1>1, Zenon
  <1> QED BY <1>2 DEF v

LEMMA BytesExists ==
    ASSUME NEW q, NEW m \in Nat
    PROVE  \E f : BytesOn(f, q, m)
  <1> DEFINE S == {n \in Nat : \E f : BytesOn(f, q, n)}
  <1>1. 0 \in S
    <2>1. BytesOn([n \in 0..0 |-> 0], q, 0)
      BY DEF BytesOn
    <2> QED BY <2>1
  <1>2. ASSUME NEW n \in Nat, n \in S PROVE n + 1 \in S
    <2>1. PICK f : BytesOn(f, q, n)
      BY <1>2
    <2> DEFINE v(k) == IF k = 0 THEN 0 ELSE f[k - 1] + Outbound!Size(q[k])
               g == [k \in 0..(n + 1) |-> v(k)]
               u(k) == IF k = 0 THEN 0 ELSE g[k - 1] + Outbound!Size(q[k])
    <2>2. \A k \in 0..n : k \in 0..(n + 1) /\ g[k] = f[k]
      <3> SUFFICES ASSUME NEW k \in 0..n PROVE k \in 0..(n + 1) /\ g[k] = f[k]
        OBVIOUS
      <3>1. k \in 0..(n + 1)
        OBVIOUS
      <3>2. g[k] = v(k)
        BY <3>1, Zenon
      <3>3. f[k] = v(k)
        BY <2>1, BytesAt
      <3> HIDE DEF g, v
      <3> QED BY <3>1, <3>2, <3>3
    <2>3. \A k \in 0..(n + 1) : k = 0 \/ g[k - 1] = f[k - 1]
      <3> HIDE DEF g, v
      <3> QED BY <2>2
    <2>4. \A k \in 0..(n + 1) : v(k) = u(k)
      <3> HIDE DEF g
      <3> QED BY <2>3
    <2>5. g = [k \in 0..(n + 1) |-> v(k)]
      OBVIOUS
    <2>6. g = [k \in 0..(n + 1) |-> u(k)]
      <3> HIDE DEF g, u, v
      <3> QED BY <2>4, <2>5
    <2>7. BytesOn(g, q, n + 1)
      <3> HIDE DEF g
      <3> QED BY <2>6, Zenon DEF BytesOn
    <2> HIDE DEF g
    <2> QED BY <2>7
  <1>3. \A n \in Nat : n \in S
    <2> HIDE DEF S
    <2> QED BY <1>1, <1>2, SetInduction
  <1> QED BY <1>3

LEMMA SizeBound ==
    ASSUME NEW f \in Frame
    PROVE  Outbound!Size(f) \in Nat /\ Outbound!Size(f) <= Largest
  <1>1. Len(f) \in Nat /\ Len(f) <= BatchMaxSize
    BY DEF Frame
  <1> QED BY <1>1, OutConstants DEF Outbound!Size, Largest

LEMMA BytesFacts ==
    ASSUME NEW q \in Seq(Frame), NEW B, B = Outbound!Bytes(q)
    PROVE  /\ \A n \in 0..Len(q) : B[n] \in Nat
           /\ B[0] = 0 /\ \A n \in 1..Len(q) : B[n] <= B[n - 1] + Largest
  <1>0. Len(q) \in Nat
    OBVIOUS
  <1>1. BytesOn(B, q, Len(q))
    <2> DEFINE g == CHOOSE f : BytesOn(f, q, Len(q))
    <2>1. BytesOn(g, q, Len(q))
      BY <1>0, BytesExists
    <2>2. B = g
      BY Zenon DEF Outbound!Bytes, BytesOn
    <2> QED BY <2>1, <2>2, Zenon
  <1>2. B[0] = 0
    BY <1>0, <1>1, BytesAt
  <1>3. \A n \in 1..Len(q) : B[n] = B[n - 1] + Outbound!Size(q[n])
    <2> SUFFICES ASSUME NEW n \in 1..Len(q) PROVE B[n] = B[n - 1] + Outbound!Size(q[n])
      OBVIOUS
    <2>1. n \in 0..Len(q) /\ n # 0
      OBVIOUS
    <2> QED BY <1>0, <1>1, <2>1, BytesAt
  <1>4. \A n \in 1..Len(q) : Outbound!Size(q[n]) \in Nat /\ Outbound!Size(q[n]) <= Largest
    BY SizeBound
  <1> DEFINE S == {n \in Nat : n <= Len(q) => B[n] \in Nat}
  <1>5. 0 \in S
    BY <1>2
  <1>6. ASSUME NEW n \in Nat, n \in S PROVE n + 1 \in S
    <2> SUFFICES ASSUME n + 1 <= Len(q) PROVE B[n + 1] \in Nat
      OBVIOUS
    <2>1. n + 1 \in 1..Len(q) /\ (n + 1) - 1 = n /\ B[n] \in Nat
      BY <1>0, <1>6
    <2>2. B[n + 1] = B[n] + Outbound!Size(q[n + 1]) /\ Outbound!Size(q[n + 1]) \in Nat
      BY <1>3, <1>4, <2>1
    <2> QED BY <2>1, <2>2
  <1>7. \A n \in Nat : n \in S
    <2> HIDE DEF S
    <2> QED BY <1>5, <1>6, SetInduction
  <1>8. \A n \in 0..Len(q) : B[n] \in Nat
    BY <1>0, <1>7
  <1>9. ASSUME NEW n \in 1..Len(q) PROVE B[n] <= B[n - 1] + Largest
    <2>1. n - 1 \in 0..Len(q) /\ B[n - 1] \in Nat /\ B[n] = B[n - 1] + Outbound!Size(q[n])
          /\ Outbound!Size(q[n]) \in Nat /\ Outbound!Size(q[n]) <= Largest
      BY <1>0, <1>3, <1>4, <1>8
    <2> QED BY <2>1, OutConstants
  <1> QED BY <1>2, <1>8, <1>9

\* The parts of flushOutboundQueue: how many frames it sends, and what is left.
BufferedAfter(w, n) == w.buffered + Outbound!Bytes(w.queue)[n]
Stops(w, n) == n = Len(w.queue) \/ BufferedAfter(w, n) > DropAt \/ BufferedAfter(w, n) > TerminateAt
SentFrames(w) == CHOOSE n \in 0..Len(w.queue) : Stops(w, n) /\ \A j \in 0..(n - 1) : ~Stops(w, j)
Flushed(w, k) ==
    [w EXCEPT !.buffered = BufferedAfter(w, k), !.queue = SubSeq(w.queue, k + 1, Len(w.queue)),
              !.received = @ \o SubSeq(w.queue, 1, k)]

Left(w, k) == SubSeq(w.queue, k + 1, Len(w.queue))
FlushResult(w, k) ==
    IF Left(w, k) # <<>> /\ BufferedAfter(w, k) > TerminateAt
    THEN Outbound!Forget([Flushed(w, k) EXCEPT !.dropped = @ \cup Outbound!EventsOf(Left(w, k))])
    ELSE Flushed(w, k)

LEMMA FlushIs == ASSUME NEW w PROVE Outbound!FlushQueue(w) = FlushResult(w, SentFrames(w))
  BY Zenon DEF Outbound!FlushQueue, SentFrames, Stops, BufferedAfter, Flushed, Left, FlushResult

LEMMA SentFacts ==
    ASSUME NEW w, w.queue \in Seq(Frame), w.buffered \in Nat, w.buffered <= DropAt + Largest,
           NEW k, k = SentFrames(w)
    PROVE  k \in 0..Len(w.queue) /\ BufferedAfter(w, k) \in Nat /\ BufferedAfter(w, k) <= DropAt + Largest
  <1>0. Len(w.queue) \in Nat
    OBVIOUS
  <1> DEFINE T == {n \in 0..Len(w.queue) : Stops(w, n)}
  <1>1. PICK m \in T : \A x \in T : m <= x
    <2>1. T \in SUBSET Nat
      BY <1>0
    <2>2. Len(w.queue) \in T
      BY <1>0 DEF Stops
    <2> HIDE DEF T
    <2> QED BY <2>1, <2>2, Least
  <1>2. m \in 0..Len(w.queue) /\ Stops(w, m) /\ \A j \in 0..(m - 1) : ~Stops(w, j)
    BY <1>0, <1>1
  <1>3. k \in 0..Len(w.queue) /\ \A j \in 0..(k - 1) : ~Stops(w, j)
    BY <1>2, Zenon DEF SentFrames
  <1> DEFINE B == Outbound!Bytes(w.queue)
  <1>4. \A n \in 0..Len(w.queue) : B[n] \in Nat
    BY BytesFacts
  <1>5. B[0] = 0 /\ \A n \in 1..Len(w.queue) : B[n] <= B[n - 1] + Largest
    BY BytesFacts
  <1>6. CASE k = 0
    BY <1>5, <1>6, <1>3 DEF BufferedAfter
  <1>7. CASE k # 0
    <2>1. k - 1 \in 0..(k - 1) /\ k - 1 \in 0..Len(w.queue) /\ k \in 1..Len(w.queue)
      BY <1>0, <1>3, <1>7
    <2>2. ~Stops(w, k - 1)
      BY <1>3, <2>1
    <2>3. ~(BufferedAfter(w, k - 1) > DropAt)
      BY <2>2 DEF Stops
    <2>4. B[k - 1] \in Nat /\ B[k] \in Nat /\ B[k] <= B[k - 1] + Largest
      BY <1>4, <1>5, <2>1
    <2>5. BufferedAfter(w, k - 1) = w.buffered + B[k - 1] /\ BufferedAfter(w, k) = w.buffered + B[k]
      BY DEF BufferedAfter
    <2> HIDE DEF B
    <2> QED BY <1>3, <2>3, <2>4, <2>5, OutConstants, SMTT(40)
  <1> QED BY <1>6, <1>7

\* What became of an open connection's record w when its queue was flushed.
FlushedTo(w, v) ==
    \E k \in 0..Len(w.queue) :
        /\ v.received = w.received \o SubSeq(w.queue, 1, k) /\ v.cut = w.cut
        /\ \/ /\ v.socket = w.socket /\ v.queue = SubSeq(w.queue, k + 1, Len(w.queue))
              /\ v.batch = w.batch /\ v.dropped = w.dropped
           \/ /\ v.socket = "gone" /\ v.queue = <<>> /\ v.batch = <<>>
              /\ v.dropped = w.dropped \cup Outbound!EventsOf(SubSeq(w.queue, k + 1, Len(w.queue)))

LEMMA EventsTyped == ASSUME NEW q \in Seq(Frame) PROVE Outbound!EventsOf(q) \subseteq Event
  <1> SUFFICES ASSUME NEW x \in Outbound!EventsOf(q) PROVE x \in Event
    OBVIOUS
  <1>1. PICK i \in DOMAIN q : x \in Outbound!Range(q[i])
    BY EventAt
  <1>2. q[i] \in Seq(Event)
    BY DEF Frame
  <1> QED BY <1>1, <1>2 DEF Outbound!Range

LEMMA FlushWorks ==
    ASSUME NEW w \in Wire, w.buffered <= DropAt + Largest, NEW v, v = Outbound!FlushQueue(w)
    PROVE  v \in Wire /\ v.buffered <= DropAt + Largest /\ FlushedTo(w, v)
  <1> DEFINE k == SentFrames(w)
             left == SubSeq(w.queue, k + 1, Len(w.queue))
             out == SubSeq(w.queue, 1, k)
             s == Flushed(w, k)
             d == [s EXCEPT !.dropped = @ \cup Outbound!EventsOf(left)]
  <1>0. w.queue \in Seq(Frame) /\ w.received \in Seq(Frame) /\ w.buffered \in Nat
    BY DEF Wire
  <1>1. k \in 0..Len(w.queue) /\ BufferedAfter(w, k) \in Nat /\ BufferedAfter(w, k) <= DropAt + Largest
    BY <1>0, SentFacts
  <1>2. v = IF left # <<>> /\ BufferedAfter(w, k) > TerminateAt THEN Outbound!Forget(d) ELSE s
    BY FlushIs, Zenon DEF FlushResult, Left
  <1> HIDE DEF k
  <1>3. out \in Seq(Frame) /\ left \in Seq(Frame)
    BY <1>0, <1>1, QueueSplit DEF SplitInto
  <1>4. Outbound!EventsOf(left) \subseteq Event
    BY <1>3, EventsTyped
  <1>5. w.received \o out \in Seq(Frame)
    BY <1>0, <1>3, FramesJoined
  <1> DEFINE b == BufferedAfter(w, k)
             r == w.received \o out
             e == Outbound!EventsOf(left)
  <1>6. s = [w EXCEPT !.buffered = b, !.queue = left, !.received = r]
    BY DEF Flushed
  <1> HIDE DEF b, r, e, s, left, out
  <1>7. b \in Nat /\ b <= DropAt + Largest /\ r \in Seq(Frame) /\ e \subseteq Event /\ left \in Seq(Frame)
    BY <1>1, <1>3, <1>4, <1>5 DEF b, r, e
  <1>8. /\ s \in Wire /\ s.buffered = b /\ s.queue = left /\ s.received = r /\ s.socket = w.socket
        /\ s.batch = w.batch /\ s.dropped = w.dropped /\ s.cut = w.cut
    BY <1>6, <1>7 DEF Wire
  <1>9. CASE v = s
    <2>1. FlushedTo(w, v)
      BY <1>1, <1>8, <1>9 DEF FlushedTo, r, left, out
    <2> QED BY <1>7, <1>8, <1>9, <2>1
  <1>10. CASE v = Outbound!Forget(d)
    <2>1. v = [d EXCEPT !.socket = "gone", !.queue = <<>>, !.batch = <<>>]
      BY <1>10, Zenon DEF Outbound!Forget
    <2>2. d = [s EXCEPT !.dropped = s.dropped \cup e]
      BY DEF e
    <2> HIDE DEF d
    <2>3. d \in Wire /\ d.buffered = b /\ d.received = r /\ d.dropped = s.dropped \cup e /\ d.cut = s.cut
      <3>1. s.dropped \cup e \in SUBSET Event
        BY <1>7, <1>8 DEF Wire
      <3> QED BY <1>8, <2>2, <3>1 DEF Wire
    <2>5. /\ v \in Wire /\ v.buffered = b /\ v.queue = <<>> /\ v.received = r /\ v.socket = "gone"
          /\ v.batch = <<>> /\ v.dropped = s.dropped \cup e /\ v.cut = s.cut
      BY <2>1, <2>3, Nothing DEF Wire
    <2>4. FlushedTo(w, v)
      BY <1>1, <1>8, <2>5 DEF FlushedTo, r, e, left, out
    <2> QED BY <1>7, <2>5, <2>4
  <1> QED BY <1>2, <1>9, <1>10

\* The record w of a connection became v, by a step that gave it the events F.
Handled(w, v, F) ==
    /\ v \in Wire /\ Bounded(v) /\ (v.socket = "open" => w.socket = "open")
    /\ Out(v) \subseteq Out(w) \cup Outbound!Range(w.batch) \cup F /\ Fates(v) \subseteq Fates(w) \cup F
    /\ v.socket = "open" => Fates(w) \cup F \subseteq Fates(v)

LEMMA WireFields ==
    ASSUME NEW w \in Wire
    PROVE  /\ w.queue \in Seq(Frame) /\ w.received \in Seq(Frame) /\ w.batch \in Seq(Event) /\ w.buffered \in Nat
           /\ w.dropped \subseteq Event /\ w.cut \subseteq Event /\ w.socket \in {"open", "closing", "gone"}
           /\ Len(w.queue) \in Nat /\ Len(w.batch) \in Nat
  BY DEF Wire

LEMMA FlushHandled ==
    ASSUME NEW w \in Wire, Bounded(w), NEW v, v = Outbound!FlushQueue(w)
    PROVE  Handled(w, v, {}) /\ (v.batch = w.batch \/ v.batch = <<>>) /\ (Sorted(w) => Sorted(v))
  <1>1. v \in Wire /\ v.buffered <= DropAt + Largest /\ FlushedTo(w, v)
    BY FlushWorks DEF Bounded
  <1>2. PICK k \in 0..Len(w.queue) :
        /\ v.received = w.received \o SubSeq(w.queue, 1, k) /\ v.cut = w.cut
        /\ \/ /\ v.socket = w.socket /\ v.queue = SubSeq(w.queue, k + 1, Len(w.queue))
              /\ v.batch = w.batch /\ v.dropped = w.dropped
           \/ /\ v.socket = "gone" /\ v.queue = <<>> /\ v.batch = <<>>
              /\ v.dropped = w.dropped \cup Outbound!EventsOf(SubSeq(w.queue, k + 1, Len(w.queue)))
    BY <1>1 DEF FlushedTo
  <1> DEFINE out == SubSeq(w.queue, 1, k)
             left == SubSeq(w.queue, k + 1, Len(w.queue))
  <1>3. SplitInto(w.queue, out, left)
    BY WireFields, QueueSplit
  <1>5. /\ v.received = w.received \o out /\ v.cut = w.cut
        /\ \/ v.socket = w.socket /\ v.queue = left /\ v.batch = w.batch /\ v.dropped = w.dropped
           \/ /\ v.socket = "gone" /\ v.queue = <<>> /\ v.batch = <<>>
              /\ v.dropped = w.dropped \cup Outbound!EventsOf(left)
    BY <1>2
  <1> HIDE DEF out, left
  <1>9. /\ out \in Seq(Frame) /\ left \in Seq(Frame) /\ Len(left) <= Len(w.queue)
        /\ Outbound!EventsOf(w.queue) = Outbound!EventsOf(out) \cup Outbound!EventsOf(left)
        /\ Outbound!Increasing(w.queue) =>
                /\ Outbound!Increasing(out) /\ Outbound!Increasing(left)
                /\ Below(Outbound!EventsOf(out), Outbound!EventsOf(left))
    BY <1>3 DEF SplitInto
  <1>4. /\ Outbound!EventsOf(v.received) = Outbound!EventsOf(w.received) \cup Outbound!EventsOf(out)
        /\ Outbound!Increasing(w.received) /\ Outbound!Increasing(out) /\ Below(Outbound!EventsOf(w.received), Outbound!EventsOf(out))
              => Outbound!Increasing(v.received)
    BY <1>5, <1>9, WireFields, FramesJoined
  <1>6. Bounded(v)
    <2>1. Len(v.queue) <= Len(w.queue) /\ Len(v.batch) <= Len(w.batch) /\ Len(v.queue) \in Nat /\ Len(v.batch) \in Nat
      <3>1. Len(<<>>) = 0
        OBVIOUS
      <3>2. CASE v.queue = left /\ v.batch = w.batch
        BY <1>9, <3>2, WireFields
      <3>3. CASE v.queue = <<>> /\ v.batch = <<>>
        BY <3>1, <3>3, WireFields
      <3> QED BY <1>5, <3>2, <3>3
    <2>2. Len(w.queue) \in Nat /\ Len(w.batch) \in Nat
      BY WireFields
    <2>3. Len(w.queue) <= MaxQueue /\ Len(w.batch) < BatchMaxSize
      BY DEF Bounded
    <2>4. Len(v.queue) <= MaxQueue /\ Len(v.batch) < BatchMaxSize
      BY <2>1, <2>2, <2>3, OutConstants
    <2> QED BY <1>1, <2>4 DEF Bounded
  <1>7. /\ Out(v) \subseteq Out(w) /\ Fates(v) \subseteq Fates(w)
        /\ v.socket = "open" => Fates(w) \subseteq Fates(v)
    <2>1. CASE v.socket = w.socket /\ v.queue = left /\ v.batch = w.batch /\ v.dropped = w.dropped
      BY <1>9, <1>4, <1>5, <2>1 DEF Out, Fates
    <2>2. CASE /\ v.socket = "gone" /\ v.queue = <<>> /\ v.batch = <<>>
               /\ v.dropped = w.dropped \cup Outbound!EventsOf(left)
      BY <1>9, <1>4, <1>5, <2>2, Nothing DEF Out, Fates
    <2> QED BY <1>5, <2>1, <2>2
  <1>8. ASSUME Sorted(w) PROVE Sorted(v)
    <2>1. /\ Outbound!Increasing(w.received) /\ Outbound!Increasing(w.queue) /\ Ascending(w.batch)
          /\ Below(Outbound!EventsOf(w.received), Outbound!EventsOf(w.queue))
          /\ Below(Out(w), Outbound!Range(w.batch))
      BY <1>8 DEF Sorted, Below
    <2>2. Outbound!Increasing(v.received) /\ Outbound!Increasing(left) /\ Below(Outbound!EventsOf(out), Outbound!EventsOf(left))
      BY <1>9, <1>4, <2>1 DEF Below
    <2>3. CASE v.queue = left /\ v.batch = w.batch
      <3>1. Below(Outbound!EventsOf(v.received), Outbound!EventsOf(left))
        BY <1>9, <1>4, <2>1, <2>2 DEF Below
      <3>2. Below(Out(v), Outbound!Range(v.batch))
        BY <1>7, <2>1, <2>3 DEF Below
      <3> QED BY <2>1, <2>2, <2>3, <3>1, <3>2 DEF Sorted, Below
    <2>4. CASE v.queue = <<>> /\ v.batch = <<>>
      BY <2>2, <2>4, Nothing DEF Sorted
    <2> QED BY <1>5, <2>3, <2>4
  <1> QED BY <1>1, <1>5, <1>6, <1>7, <1>8 DEF Handled

\* The frame may follow what is out, and precede what is batched.
Fits(w, frame) == Ascending(frame) /\ Below(Out(w), Outbound!Range(frame)) /\ Below(Outbound!Range(frame), Outbound!Range(w.batch))

LEMMA QueueHandled ==
    ASSUME NEW w \in Wire, Bounded(w), NEW frame \in Frame, NEW v, v = Outbound!QueueOutbound(w, frame)
    PROVE  /\ w.socket = "open" => Handled(w, v, Outbound!Range(frame))
           /\ w.socket # "open" => v = w
           /\ v.batch = w.batch \/ v.batch = <<>>
           /\ Sorted(w) /\ Fits(w, frame) => Sorted(v)
  <1>0. Outbound!Range(frame) \subseteq Event
    BY DEF Frame, Outbound!Range
  <1>1. CASE Outbound!Refused(w, frame) /\ w.socket # "open"
    <2>1. v = [w EXCEPT !.dropped = w.dropped]
      BY <1>1, Zenon DEF Outbound!QueueOutbound
    <2>2. v = w
      BY <2>1 DEF Wire
    <2> QED BY <1>1, <2>2
  <1>2. CASE Outbound!Refused(w, frame) /\ w.socket = "open"
    <2>1. v = [w EXCEPT !.dropped = w.dropped \cup Outbound!Range(frame)]
      BY <1>2, Zenon DEF Outbound!QueueOutbound
    <2>2. /\ v \in Wire /\ v.socket = w.socket /\ v.queue = w.queue /\ v.received = w.received /\ v.batch = w.batch
          /\ v.cut = w.cut /\ v.dropped = w.dropped \cup Outbound!Range(frame) /\ v.buffered = w.buffered
      <3>1. w.dropped \cup Outbound!Range(frame) \in SUBSET Event
        BY <1>0, WireFields
      <3> QED BY <2>1, <3>1 DEF Wire
    <2>3. Bounded(v)
      BY <2>2 DEF Bounded
    <2>4. Out(v) = Out(w) /\ Fates(v) = Fates(w) \cup Outbound!Range(frame)
      BY <2>2 DEF Out, Fates
    <2>5. Sorted(w) => Sorted(v)
      BY <2>2, <2>4 DEF Sorted
    <2> QED BY <1>2, <2>2, <2>3, <2>4, <2>5 DEF Handled
  <1>3. CASE ~Outbound!Refused(w, frame)
    <2> DEFINE u == [w EXCEPT !.queue = Append(w.queue, frame)]
    <2>1. v = Outbound!FlushQueue(u)
      BY <1>3, Zenon DEF Outbound!QueueOutbound
    <2>2. w.socket = "open" /\ ~(Len(w.queue) >= MaxQueue)
      BY <1>3 DEF Outbound!Refused
    <2> DEFINE q == Append(w.queue, frame)
    <2>3. /\ q \in Seq(Frame) /\ Len(q) = Len(w.queue) + 1
          /\ Outbound!EventsOf(q) = Outbound!EventsOf(w.queue) \cup Outbound!Range(frame)
          /\ Outbound!Increasing(w.queue) /\ Ascending(frame) /\ Below(Outbound!EventsOf(w.queue), Outbound!Range(frame))
              => Outbound!Increasing(q)
      BY WireFields, FrameAppended
    <2>4. u = [w EXCEPT !.queue = q]
      OBVIOUS
    <2> HIDE DEF u, q
    <2>5. /\ u \in Wire /\ u.socket = w.socket /\ u.queue = q /\ u.received = w.received /\ u.batch = w.batch
          /\ u.cut = w.cut /\ u.dropped = w.dropped /\ u.buffered = w.buffered
      BY <2>3, <2>4 DEF Wire
    <2>6. Bounded(u)
      BY <2>2, <2>3, <2>5, WireFields, OutConstants DEF Bounded
    <2>7. Out(u) = Out(w) \cup Outbound!Range(frame) /\ Fates(u) = Fates(w) \cup Outbound!Range(frame)
      BY <2>3, <2>5 DEF Out, Fates
    <2>8. Handled(u, v, {}) /\ (v.batch = u.batch \/ v.batch = <<>>) /\ (Sorted(u) => Sorted(v))
      BY <2>1, <2>5, <2>6, FlushHandled
    <2>9. ASSUME Sorted(w), Fits(w, frame) PROVE Sorted(u)
      <3>1. Below(Outbound!EventsOf(w.received), Outbound!EventsOf(q)) /\ Outbound!Increasing(q)
        BY <2>3, <2>9 DEF Sorted, Fits, Below, Out
      <3>2. Below(Out(u), Outbound!Range(w.batch))
        BY <2>7, <2>9 DEF Sorted, Fits, Below
      <3> QED BY <2>5, <2>9, <3>1, <3>2 DEF Sorted, Below
    <2>10. Handled(w, v, Outbound!Range(frame))
      BY <2>5, <2>7, <2>8 DEF Handled
    <2> QED BY <2>2, <2>5, <2>8, <2>9, <2>10
  <1> QED BY <1>1, <1>2, <1>3

LEMMA ForgetHandled ==
    ASSUME NEW w \in Wire, Bounded(w), NEW v, v = Outbound!Forget(w)
    PROVE  Handled(w, v, {}) /\ v.socket = "gone" /\ v.batch = <<>> /\ (Sorted(w) => Sorted(v))
  <1>1. v = [w EXCEPT !.socket = "gone", !.queue = <<>>, !.batch = <<>>]
    BY DEF Outbound!Forget
  <1>2. /\ v \in Wire /\ v.socket = "gone" /\ v.queue = <<>> /\ v.batch = <<>> /\ v.received = w.received
        /\ v.cut = w.cut /\ v.dropped = w.dropped /\ v.buffered = w.buffered
    BY <1>1, Nothing DEF Wire
  <1>3. Bounded(v)
    <2>1. Len(<<>>) = 0
      OBVIOUS
    <2> QED BY <1>2, <2>1, OutConstants DEF Bounded
  <1>4. Out(v) \subseteq Out(w) /\ Fates(v) \subseteq Fates(w)
    BY <1>2, Nothing DEF Out, Fates
  <1>5. Sorted(w) => Sorted(v)
    BY <1>2, Nothing DEF Sorted
  <1> QED BY <1>2, <1>3, <1>4, <1>5 DEF Handled

\* One event can follow what is out and batched.
LaterThan(w, event) == \A x \in Out(w) \cup Outbound!Range(w.batch) : x < event

LEMMA OneEvent ==
    ASSUME NEW event \in Event
    PROVE  <<event>> \in Frame /\ Outbound!Range(<<event>>) = {event} /\ Ascending(<<event>>)
  <1>1. <<event>> \in Seq(Event) /\ Len(<<event>>) = 1 /\ DOMAIN <<event>> = {1} /\ <<event>>[1] = event
    OBVIOUS
  <1> QED BY <1>1, OutConstants DEF Frame, Outbound!Range, Ascending

LEMMA DeliverHandled ==
    ASSUME NEW w \in Wire, Bounded(w), NEW event \in Event, NEW v, v = Outbound!Deliver(w, event)
    PROVE  /\ w.socket = "open" => Handled(w, v, {event})
           /\ w.socket # "open" => v = w
           /\ Sorted(w) /\ LaterThan(w, event) /\ w.batch = <<>> => Sorted(v)
  <1> DEFINE d == [w EXCEPT !.dropped = w.dropped \cup {event}]
  <1>1. /\ d \in Wire /\ d.socket = w.socket /\ d.queue = w.queue /\ d.received = w.received /\ d.batch = w.batch
        /\ d.cut = w.cut /\ d.dropped = w.dropped \cup {event} /\ d.buffered = w.buffered
    <2>1. w.dropped \cup {event} \in SUBSET Event
      BY WireFields
    <2> QED BY <2>1 DEF Wire
  <1>2. \/ w.socket # "open" /\ v = w
        \/ w.socket = "open" /\ v = Outbound!Forget(d)
        \/ w.socket = "open" /\ v = d
        \/ w.socket = "open" /\ v = Outbound!QueueOutbound(w, <<event>>)
    BY DEF Outbound!Deliver
  <1> HIDE DEF d
  <1>3. Bounded(d) /\ Out(d) = Out(w) /\ Fates(d) = Fates(w) \cup {event} /\ (Sorted(w) => Sorted(d))
    <2>1. Bounded(d)
      BY <1>1 DEF Bounded
    <2>2. Out(d) = Out(w)
      BY <1>1 DEF Out
    <2>3. Fates(d) = Fates(w) \cup {event}
      BY <1>1, <2>2 DEF Fates
    <2>4. Sorted(w) => Sorted(d)
      BY <1>1, <2>2 DEF Sorted
    <2> QED BY <2>1, <2>2, <2>3, <2>4
  <1>4. CASE w.socket # "open" /\ v = w
    BY <1>4
  <1>5. CASE w.socket = "open" /\ v = Outbound!Forget(d)
    <2>1. Handled(d, v, {}) /\ v.socket = "gone" /\ v.batch = <<>> /\ (Sorted(d) => Sorted(v))
      BY <1>1, <1>3, <1>5, ForgetHandled
    <2>2. Handled(w, v, {event})
      BY <1>1, <1>3, <2>1 DEF Handled
    <2> QED BY <1>3, <1>5, <2>1, <2>2
  <1>6. CASE w.socket = "open" /\ v = d
    <2>1. Handled(w, v, {event})
      BY <1>1, <1>3, <1>6 DEF Handled
    <2> QED BY <1>1, <1>3, <1>6, <2>1
  <1>7. CASE w.socket = "open" /\ v = Outbound!QueueOutbound(w, <<event>>)
    <2>1. <<event>> \in Frame /\ Outbound!Range(<<event>>) = {event} /\ Ascending(<<event>>)
      BY OneEvent
    <2>2. /\ w.socket = "open" => Handled(w, v, Outbound!Range(<<event>>))
          /\ v.batch = w.batch \/ v.batch = <<>>
          /\ Sorted(w) /\ Fits(w, <<event>>) => Sorted(v)
      BY <1>7, <2>1, QueueHandled
    <2>3. LaterThan(w, event) /\ w.batch = <<>> => Fits(w, <<event>>)
      BY <2>1, Nothing DEF LaterThan, Fits, Below
    <2> QED BY <1>7, <2>1, <2>2, <2>3
  <1> QED BY <1>2, <1>4, <1>5, <1>6, <1>7

LEMMA Lesser ==
    ASSUME NEW a \in Nat, NEW b \in Nat
    PROVE  Outbound!Min({a, b}) \in Nat /\ Outbound!Min({a, b}) <= a /\ Outbound!Min({a, b}) <= b
           /\ (Outbound!Min({a, b}) = a \/ Outbound!Min({a, b}) = b)
  <1>1. \E x \in {a, b} : \A y \in {a, b} : x <= y
    <2>1. CASE a <= b
      BY <2>1
    <2>2. CASE b <= a
      BY <2>2
    <2> QED BY <2>1, <2>2
  <1>2. Outbound!Min({a, b}) \in {a, b} /\ \A y \in {a, b} : Outbound!Min({a, b}) <= y
    BY <1>1, Zenon DEF Outbound!Min
  <1> QED BY <1>2

\* The batch b consists of head, which is sent, and tail, which is cut off.
CutInto(b, head, tail) ==
    /\ head \in Seq(Event) /\ tail \in Seq(Event) /\ Len(head) <= Len(b)
    /\ Outbound!Range(b) = Outbound!Range(head) \cup Outbound!Range(tail)
    /\ Ascending(b) => Ascending(head)

LEMMA BatchSplit ==
    ASSUME NEW b \in Seq(Event), NEW k \in 0..Len(b)
    PROVE  CutInto(b, SubSeq(b, 1, k), SubSeq(b, k + 1, Len(b)))
  <1> SUFFICES ASSUME NEW head, NEW tail, head = SubSeq(b, 1, k), tail = SubSeq(b, k + 1, Len(b))
               PROVE  CutInto(b, head, tail)
    OBVIOUS
  <1>1. Len(b) \in Nat /\ DOMAIN b = 1..Len(b) /\ k \in Nat /\ k <= Len(b)
    OBVIOUS
  <1>2. head \in Seq(Event) /\ Len(head) = k /\ DOMAIN head = 1..k /\ \A i \in 1..k : head[i] = b[i]
    BY <1>1
  <1>3. /\ tail \in Seq(Event) /\ DOMAIN tail = 1..(Len(b) - k) /\ \A i \in 1..(Len(b) - k) : tail[i] = b[k + i]
    BY SuffixOf
  <1>4. /\ \A i \in DOMAIN head : i \in DOMAIN b /\ head[i] = b[i] /\ i \in Nat
        /\ \A i \in DOMAIN tail : k + i \in DOMAIN b /\ tail[i] = b[k + i]
    <2>1. \A i \in DOMAIN head : i \in DOMAIN b /\ head[i] = b[i] /\ i \in Nat
      BY <1>1, <1>2
    <2>2. \A i \in 1..(Len(b) - k) : k + i \in 1..Len(b)
      BY <1>1
    <2> QED BY <1>1, <1>3, <2>1, <2>2
  <1>5. \A i \in DOMAIN b : i \in DOMAIN head \/ (i - k \in DOMAIN tail /\ k + (i - k) = i)
    <2> SUFFICES ASSUME NEW i \in 1..Len(b), i \notin 1..k PROVE i - k \in 1..(Len(b) - k) /\ k + (i - k) = i
      BY <1>1, <1>2, <1>3
    <2> QED BY <1>1
  <1>6. Outbound!Range(b) \subseteq Outbound!Range(head) \cup Outbound!Range(tail)
    <2> SUFFICES ASSUME NEW i \in DOMAIN b PROVE b[i] \in Outbound!Range(head) \cup Outbound!Range(tail)
      BY DEF Outbound!Range
    <2>1. CASE i \in DOMAIN head
      BY <1>4, <2>1, InRange
    <2>2. CASE i - k \in DOMAIN tail /\ k + (i - k) = i
      <3>1. tail[i - k] = b[i]
        BY <1>4, <2>2
      <3> QED BY <2>2, <3>1, InRange
    <2> QED BY <1>5, <2>1, <2>2
  <1>7. Outbound!Range(head) \cup Outbound!Range(tail) \subseteq Outbound!Range(b)
    <2>1. ASSUME NEW i \in DOMAIN head PROVE head[i] \in Outbound!Range(b)
      BY <1>4, InRange
    <2>2. ASSUME NEW i \in DOMAIN tail PROVE tail[i] \in Outbound!Range(b)
      BY <1>4, InRange
    <2> QED BY <2>1, <2>2 DEF Outbound!Range
  <1>8. Ascending(b) => Ascending(head)
    BY <1>4 DEF Ascending
  <1> QED BY <1>1, <1>2, <1>3, <1>6, <1>7, <1>8 DEF CutInto

\* Bounded, but for a batch that is full.
Brim(w) == w.buffered <= DropAt + Largest /\ Len(w.queue) <= MaxQueue /\ Len(w.batch) <= BatchMaxSize

LEMMA SendHandled ==
    ASSUME NEW w \in Wire, Brim(w), NEW v, v = Outbound!SendBatch(w)
    PROVE  Handled(w, v, {}) /\ v.batch = <<>> /\ (Sorted(w) => Sorted(v))
  <1> DEFINE k == Outbound!Min({Len(w.batch), FrameFits})
             head == SubSeq(w.batch, 1, k)
             tail == SubSeq(w.batch, k + 1, Len(w.batch))
             cleared == [w EXCEPT !.batch = <<>>]
             u == [w EXCEPT !.batch = <<>>, !.cut = @ \cup Outbound!Range(tail)]
  <1>1. v = IF w.socket # "open" THEN cleared ELSE Outbound!QueueOutbound(u, head)
    BY Zenon DEF Outbound!SendBatch
  <1>2. k \in 0..Len(w.batch)
    <2> HIDE DEF k
    <2>1. k \in Nat /\ k <= Len(w.batch)
      BY WireFields, OutConstants, Lesser DEF k
    <2> QED BY <2>1, WireFields
  <1> HIDE DEF k
  <1>4. u = [w EXCEPT !.batch = <<>>, !.cut = w.cut \cup Outbound!Range(tail)]
    OBVIOUS
  <1>10. CutInto(w.batch, head, tail)
    BY <1>2, WireFields, BatchSplit
  <1> HIDE DEF head, tail, u
  <1>3. /\ head \in Seq(Event) /\ tail \in Seq(Event) /\ Len(head) <= Len(w.batch)
        /\ Outbound!Range(w.batch) = Outbound!Range(head) \cup Outbound!Range(tail)
        /\ Ascending(w.batch) => Ascending(head)
    BY <1>10 DEF CutInto
  <1>5. head \in Frame
    BY <1>2, <1>3, WireFields, OutConstants DEF Frame, Brim
  <1>6. Outbound!Range(tail) \subseteq Event /\ Outbound!Range(w.batch) \subseteq Event
    BY <1>3, WireFields DEF Outbound!Range
  <1>7. Len(<<>>) = 0
    OBVIOUS
  <1>8. CASE w.socket # "open"
    <2>1. /\ v \in Wire /\ v.socket = w.socket /\ v.queue = w.queue /\ v.received = w.received /\ v.batch = <<>>
          /\ v.cut = w.cut /\ v.dropped = w.dropped /\ v.buffered = w.buffered
      BY <1>1, <1>8, Nothing DEF Wire
    <2>2. Bounded(v)
      BY <1>7, <2>1, OutConstants DEF Bounded, Brim
    <2>3. Out(v) = Out(w) /\ Fates(v) \subseteq Fates(w)
      BY <2>1, Nothing DEF Out, Fates
    <2>4. Sorted(w) => Sorted(v)
      BY <2>1, <2>3, Nothing DEF Sorted
    <2> QED BY <1>8, <2>1, <2>2, <2>3, <2>4 DEF Handled
  <1>9. CASE w.socket = "open"
    <2>0. v = Outbound!QueueOutbound(u, head)
      BY <1>1, <1>9
    <2>1. /\ u \in Wire /\ u.socket = w.socket /\ u.queue = w.queue /\ u.received = w.received /\ u.batch = <<>>
          /\ u.cut = w.cut \cup Outbound!Range(tail) /\ u.dropped = w.dropped /\ u.buffered = w.buffered
      <3>1. w.cut \cup Outbound!Range(tail) \in SUBSET Event
        BY <1>6, WireFields
      <3> QED BY <1>4, <3>1, Nothing DEF Wire
    <2>2. Bounded(u)
      BY <1>7, <2>1, OutConstants DEF Bounded, Brim
    <2>3. /\ u.socket = "open" => Handled(u, v, Outbound!Range(head))
          /\ v.batch = u.batch \/ v.batch = <<>>
          /\ Sorted(u) /\ Fits(u, head) => Sorted(v)
      BY <1>5, <2>0, <2>1, <2>2, QueueHandled
    <2>4. Out(u) = Out(w)
      BY <2>1 DEF Out
    <2>5. Fates(u) \cup Outbound!Range(head) = Fates(w)
      BY <1>3, <2>1, <2>4, Nothing DEF Fates
    <2>6. Outbound!Range(head) \subseteq Fates(w)
      BY <2>5
    <2>7. Sorted(w) => Sorted(u) /\ Fits(u, head)
      BY <1>3, <2>1, <2>4, Nothing DEF Sorted, Fits, Below
    <2>8. Handled(u, v, Outbound!Range(head))
      BY <1>9, <2>1, <2>3
    <2>9. Out(v) \subseteq Out(w) \cup Outbound!Range(w.batch)
      BY <1>3, <2>1, <2>4, <2>8, Nothing DEF Handled
    <2>10. Handled(w, v, {})
      BY <1>9, <2>1, <2>5, <2>8, <2>9 DEF Handled
    <2> QED BY <2>1, <2>3, <2>7, <2>10
  <1> QED BY <1>8, <1>9

LEMMA EventAppended ==
    ASSUME NEW b \in Seq(Event), NEW event \in Event, NEW r, r = Append(b, event)
    PROVE  /\ r \in Seq(Event) /\ Len(r) = Len(b) + 1 /\ Len(b) \in Nat
           /\ Outbound!Range(r) = Outbound!Range(b) \cup {event}
           /\ Ascending(b) /\ (\A x \in Outbound!Range(b) : x < event) => Ascending(r)
  <1>1. /\ r \in Seq(Event) /\ Len(r) = Len(b) + 1 /\ Len(b) \in Nat
        /\ DOMAIN b = 1..Len(b) /\ DOMAIN r = 1..(Len(b) + 1) /\ r[Len(b) + 1] = event
        /\ \A i \in 1..Len(b) : r[i] = b[i]
    OBVIOUS
  <1>2. DOMAIN r = DOMAIN b \cup {Len(b) + 1} /\ \A i \in DOMAIN b : i < Len(b) + 1 /\ r[i] = b[i] /\ i \in Nat
    BY <1>1
  <1>3. Outbound!Range(r) = Outbound!Range(b) \cup {event}
    <2>1. ASSUME NEW i \in DOMAIN r PROVE r[i] \in Outbound!Range(b) \cup {event}
      BY <1>1, <1>2, InRange
    <2>2. ASSUME NEW i \in DOMAIN b PROVE b[i] \in Outbound!Range(r)
      BY <1>2, InRange
    <2>3. event \in Outbound!Range(r)
      BY <1>1, <1>2, InRange
    <2> QED BY <2>1, <2>2, <2>3 DEF Outbound!Range
  <1>4. ASSUME Ascending(b), \A x \in Outbound!Range(b) : x < event PROVE Ascending(r)
    <2> SUFFICES ASSUME NEW i \in DOMAIN r, NEW j \in DOMAIN r, i < j PROVE r[i] < r[j]
      BY DEF Ascending
    <2>1. i \in DOMAIN b
      BY <1>1, <1>2
    <2>2. CASE j \in DOMAIN b
      BY <1>2, <1>4, <2>1, <2>2 DEF Ascending
    <2>3. CASE j = Len(b) + 1
      BY <1>1, <1>2, <1>4, <2>1, <2>3, InRange
    <2> QED BY <1>2, <2>2, <2>3
  <1> QED BY <1>1, <1>3, <1>4

LEMMA EnqueueHandled ==
    ASSUME NEW w \in Wire, Bounded(w), NEW event \in Event, NEW v, v = Outbound!Enqueue(w, event)
    PROVE  Handled(w, v, {event}) /\ (Sorted(w) /\ LaterThan(w, event) => Sorted(v))
  <1> DEFINE b == Append(w.batch, event)
             u == [w EXCEPT !.batch = b]
  <1>1. v = IF Len(u.batch) >= BatchMaxSize THEN Outbound!SendBatch(u) ELSE u
    BY Zenon DEF Outbound!Enqueue
  <1>2. w.batch \in Seq(Event) /\ b = Append(w.batch, event)
    BY WireFields
  <1>3. u = [w EXCEPT !.batch = b]
    OBVIOUS
  <1> HIDE DEF b, u
  <1>4. /\ b \in Seq(Event) /\ Len(b) = Len(w.batch) + 1 /\ Len(w.batch) \in Nat
        /\ Outbound!Range(b) = Outbound!Range(w.batch) \cup {event}
        /\ Ascending(w.batch) /\ (\A x \in Outbound!Range(w.batch) : x < event) => Ascending(b)
    BY <1>2, EventAppended
  <1>5. /\ u \in Wire /\ u.socket = w.socket /\ u.queue = w.queue /\ u.received = w.received /\ u.batch = b
        /\ u.cut = w.cut /\ u.dropped = w.dropped /\ u.buffered = w.buffered
    BY <1>3, <1>4 DEF Wire
  <1>6. Brim(u)
    BY <1>4, <1>5, OutConstants DEF Brim, Bounded
  <1>7. Out(u) = Out(w) /\ Fates(u) = Fates(w) \cup {event}
    BY <1>4, <1>5 DEF Out, Fates
  <1>8. Sorted(w) /\ LaterThan(w, event) => Sorted(u)
    <2> SUFFICES ASSUME Sorted(w), LaterThan(w, event) PROVE Sorted(u)
      OBVIOUS
    <2>1. Ascending(b)
      BY <1>4 DEF Sorted, LaterThan
    <2>2. \A x \in Out(u), y \in Outbound!Range(b) : x < y
      BY <1>4, <1>7 DEF Sorted, LaterThan
    <2> QED BY <1>5, <2>1, <2>2 DEF Sorted
  <1>9. CASE v = u /\ ~(Len(u.batch) >= BatchMaxSize)
    <2>1. Bounded(u)
      BY <1>4, <1>5, <1>6, <1>9, OutConstants DEF Brim, Bounded
    <2>2. Handled(w, v, {event})
      BY <1>5, <1>7, <1>9, <2>1 DEF Handled
    <2> QED BY <1>8, <1>9, <2>2
  <1>10. CASE v = Outbound!SendBatch(u)
    <2>1. Handled(u, v, {}) /\ (Sorted(u) => Sorted(v))
      BY <1>5, <1>6, <1>10, SendHandled
    <2>2. Handled(w, v, {event})
      BY <1>4, <1>5, <1>7, <2>1 DEF Handled
    <2> QED BY <1>8, <2>1, <2>2
  <1> QED BY <1>1, <1>9, <1>10

----------------------------------------------------------------------------
(* Who subscribes                                                          *)

LEMMA SamePicked == ASSUME NEW s, NEW I PROVE Outbound!Picked(s, I) = Picked(s, I)
  BY Zenon DEF Outbound!Picked, Picked

LEMMA ImmediateFacts ==
    ASSUME NEW list \in Seq(Peer), Outbound!IsInjective(list), NEW prefs, NEW to, to = Outbound!ImmediateOf(list, prefs)
    PROVE  /\ to \in Seq(Peer) /\ Len(to) \in Nat /\ DOMAIN to = 1..Len(to)
           /\ \A k \in DOMAIN to : prefs[to[k]] = {} /\ to[k] \in Outbound!Range(list)
           /\ \A c \in Outbound!Range(list) : prefs[c] = {} => \E k \in DOMAIN to : to[k] = c
           /\ \A j, k \in DOMAIN to : to[j] = to[k] => j = k
  <1> DEFINE I == {i \in DOMAIN list : prefs[list[i]] = {}}
  <1>1. to = Picked(list, I)
    BY SamePicked DEF Outbound!ImmediateOf
  <1>2. I \in SUBSET DOMAIN list
    OBVIOUS
  <1> HIDE DEF I
  <1>3. /\ to \in Seq(Peer) /\ Len(to) \in Nat /\ DOMAIN to = 1..Len(to)
        /\ \A i \in I : \E k \in DOMAIN to : to[k] = list[i]
        /\ \E p : Places(p, to, list, I)
    BY <1>1, <1>2, PickedFacts
  <1>4. PICK p : Places(p, to, list, I)
    BY <1>3
  <1>5. ASSUME NEW k \in DOMAIN to PROVE prefs[to[k]] = {} /\ to[k] \in Outbound!Range(list)
    <2>1. p[k] \in I /\ to[k] = list[p[k]]
      BY <1>4 DEF Places
    <2> QED BY <2>1, InRange DEF I
  <1>6. ASSUME NEW c \in Outbound!Range(list), prefs[c] = {} PROVE \E k \in DOMAIN to : to[k] = c
    <2>1. PICK i \in DOMAIN list : list[i] = c
      BY InRange
    <2>2. i \in I
      BY <1>6, <2>1 DEF I
    <2> QED BY <1>3, <2>1, <2>2
  <1>7. ASSUME NEW j \in DOMAIN to, NEW k \in DOMAIN to, to[j] = to[k] PROVE j = k
    <2>1. p[j] \in I /\ p[k] \in I /\ to[j] = list[p[j]] /\ to[k] = list[p[k]] /\ (j # k => p[j] # p[k])
      BY <1>4 DEF Places
    <2>2. p[j] \in DOMAIN list /\ p[k] \in DOMAIN list
      BY <2>1 DEF I
    <2>3. p[j] = p[k]
      BY <1>7, <2>1, <2>2, Zenon DEF Outbound!IsInjective
    <2> QED BY <2>1, <2>3
  <1> QED BY <1>3, <1>5, <1>6, <1>7

LEMMA ImmediateNow ==
    ASSUME OutType, NEW to, to = Outbound!Immediate
    PROVE  /\ to \in Seq(Peer) /\ Len(to) \in Nat /\ DOMAIN to = 1..Len(to)
           /\ \A k \in DOMAIN to : asks[to[k]] = {} /\ to[k] \in Outbound!Range(subscribers)
           /\ \A c \in Outbound!Range(subscribers) : asks[c] = {} => \E k \in DOMAIN to : to[k] = c
           /\ \A j, k \in DOMAIN to : to[j] = to[k] => j = k
  BY ImmediateFacts DEF OutType, Outbound!Immediate

\* The list b begins with a.
Continues(a, b) == Len(a) <= Len(b) /\ \A k \in DOMAIN a : b[k] = a[k]

\* What a step does to the subscribers and to their preferences while the fan-outs
\* `waiting' wait.
Kept(waiting) ==
    /\ subscribers' \in Seq(Peer) /\ Outbound!IsInjective(subscribers)'
    /\ asks' \in [Peer -> SUBSET Outbound!Filter]
    /\ shifted \subseteq shifted' /\ shifted' \subseteq Peer
    /\ \A c \in Peer : c \notin shifted' =>
        /\ (\E i \in DOMAIN waiting : Owes(waiting[i], c)) => Continues(Outbound!Immediate, Outbound!Immediate')
        /\ asks'[c] = {} => wire'[c].batch = <<>>

LEMMA PrefixContinues ==
    ASSUME NEW a \in Seq(Peer), NEW b \in Seq(Peer), Outbound!IsPrefix(a, b)
    PROVE  Continues(a, b)
  <1>1. Len(a) \in Nat /\ Len(b) \in Nat /\ Len(a) <= Len(b) /\ DOMAIN a = 1..Len(a) /\ DOMAIN b = 1..Len(b)
    BY DEF Outbound!IsPrefix
  <1>2. SubSeq(a, 1, Len(a)) = SubSeq(b, 1, Len(a))
    BY DEF Outbound!IsPrefix
  <1>3. ASSUME NEW k \in 1..Len(a) PROVE b[k] = a[k]
    <2>1. SubSeq(a, 1, Len(a))[k] = a[k] /\ SubSeq(b, 1, Len(a))[k] = b[k]
      BY <1>1
    <2> QED BY <1>2, <2>1
  <1> QED BY <1>1, <1>3 DEF Continues

LEMMA ResubscribeKeeps ==
    ASSUME OutType, NEW list \in Seq(Peer), Outbound!IsInjective(list), NEW prefs \in [Peer -> SUBSET Outbound!Filter],
           NEW new, new = wire', NEW waiting, Outbound!Resubscribe(list, prefs, new, waiting)
    PROVE  Kept(waiting)
  <1> DEFINE a == Outbound!Immediate
             b == Outbound!ImmediateOf(list, prefs)
  <1>1. /\ subscribers' = list /\ asks' = prefs
        /\ shifted' = shifted \cup {c \in Peer : Outbound!OwingIn(waiting, c) # {} /\ ~Outbound!IsPrefix(a, b)}
                              \cup {c \in Peer : new[c].batch # <<>> /\ prefs[c] = {}}
    BY DEF Outbound!Resubscribe
  <1>2. Outbound!Immediate' = b
    BY <1>1 DEF Outbound!Immediate, Outbound!ImmediateOf
  <1>3. a \in Seq(Peer) /\ b \in Seq(Peer)
    BY ImmediateNow, ImmediateFacts
  <1> HIDE DEF a, b
  <1>4. ASSUME NEW c \in Peer, c \notin shifted', NEW i \in DOMAIN waiting, Owes(waiting[i], c)
        PROVE  Continues(a, b)
    <2>1. i \in Outbound!OwingIn(waiting, c)
      BY <1>4 DEF Owes, Outbound!OwingIn
    <2>2. Outbound!IsPrefix(a, b)
      BY <1>1, <1>4, <2>1
    <2> QED BY <1>3, <2>2, PrefixContinues
  <1>5. ASSUME NEW c \in Peer, c \notin shifted', asks'[c] = {} PROVE wire'[c].batch = <<>>
    BY <1>1, <1>5
  <1>6. Outbound!IsInjective(subscribers)'
    BY <1>1 DEF Outbound!IsInjective
  <1>7. shifted \subseteq shifted' /\ shifted' \subseteq Peer
    BY <1>1 DEF OutType
  <1> QED BY <1>1, <1>2, <1>4, <1>5, <1>6, <1>7 DEF Kept, a

LEMMA LeaveKeeps ==
    ASSUME OutType, NEW gone, NEW flags, NEW new, new = wire', NEW waiting, Outbound!Leave(gone, flags, new, waiting)
    PROVE  Kept(waiting)
  <1> DEFINE I == {i \in DOMAIN subscribers : subscribers[i] \notin gone}
             list == Picked(subscribers, I)
             prefs == [c \in Peer |-> IF c \in gone THEN asks[c] \ flags ELSE asks[c]]
  <1>1. Outbound!Resubscribe(list, prefs, new, waiting)
    BY SamePicked DEF Outbound!Leave
  <1>2. subscribers \in Seq(Peer) /\ I \in SUBSET DOMAIN subscribers
    BY DEF OutType
  <1>3. prefs \in [Peer -> SUBSET Outbound!Filter]
    BY DEF OutType
  <1>4. list \in Seq(Peer) /\ \E p : Places(p, list, subscribers, I)
    <2> HIDE DEF I
    <2> QED BY <1>2, PickedFacts
  <1>5. Outbound!IsInjective(list)
    <2>1. PICK p : Places(p, list, subscribers, I)
      BY <1>4
    <2> HIDE DEF list
    <2> SUFFICES ASSUME NEW j \in DOMAIN list, NEW k \in DOMAIN list, list[j] = list[k] PROVE j = k
      BY DEF Outbound!IsInjective
    <2>2. p[j] \in I /\ p[k] \in I /\ list[j] = subscribers[p[j]] /\ list[k] = subscribers[p[k]] /\ (j # k => p[j] # p[k])
      BY <2>1 DEF Places
    <2>3. p[j] \in DOMAIN subscribers /\ p[k] \in DOMAIN subscribers
      BY <2>2
    <2>4. p[j] = p[k]
      BY <2>2, <2>3, Zenon DEF OutType, Outbound!IsInjective
    <2> QED BY <2>2, <2>4
  <1> HIDE DEF list, prefs
  <1> QED BY <1>1, <1>3, <1>4, <1>5, ResubscribeKeeps

WaitingIn(q, c) == {q[i].event : i \in {j \in DOMAIN q : Owes(q[j], c)}}

LEMMA WaitingIs == ASSUME NEW c PROVE Waiting(c) = WaitingIn(chunks, c) /\ Waiting(c)' = WaitingIn(chunks', c)
  BY DEF Waiting, WaitingIn, Owes, Outbound!Owing, Outbound!OwingIn

LEMMA WaitingHas ==
    ASSUME NEW q, NEW c, NEW x
    PROVE  x \in WaitingIn(q, c) <=> \E i \in DOMAIN q : Owes(q[i], c) /\ x = q[i].event
  BY DEF WaitingIn

LEMMA WireMoves ==
    ASSUME NEW c \in Peer, WireOK(c), NEW F, Handled(wire[c], wire'[c], F),
           owed[c] \subseteq owed'[c], F \subseteq owed'[c], Waiting(c)' \subseteq owed'[c],
           wire[c].socket = "open" => owed'[c] \subseteq owed[c] \cup F \cup Waiting(c)' /\ Waiting(c) \subseteq Waiting(c)' \cup F,
           NEW waiting, Kept(waiting), ~again' /\ c \notin shifted' => Sorted(wire'[c])
    PROVE  WireOK(c)'
  <1> DEFINE w == wire[c]
             v == wire'[c]
             A == Waiting(c)
             B == Waiting(c)'
  <1>1. /\ Bounded(w) /\ Fates(w) \cup A \subseteq owed[c]
        /\ w.socket = "open" => owed[c] \subseteq Fates(w) \cup A
    BY DEF WireOK
  <1>2. /\ Bounded(v) /\ (v.socket = "open" => w.socket = "open") /\ Fates(v) \subseteq Fates(w) \cup F
        /\ v.socket = "open" => Fates(w) \cup F \subseteq Fates(v)
    BY DEF Handled
  <1>3. B \subseteq owed'[c] /\ (w.socket = "open" => owed'[c] \subseteq owed[c] \cup F \cup B /\ A \subseteq B \cup F)
    OBVIOUS
  <1>4. Fates(v) \cup B \subseteq owed'[c] /\ (v.socket = "open" => owed'[c] \subseteq Fates(v) \cup B)
    <2> HIDE DEF v, w, A, B
    <2> QED BY <1>1, <1>2, <1>3
  <1>5. /\ Bounded(wire'[c]) /\ Fates(wire'[c]) \cup Waiting(c)' \subseteq owed'[c]
        /\ wire'[c].socket = "open" => owed'[c] \subseteq Fates(wire'[c]) \cup Waiting(c)'
    BY <1>2, <1>4
  <1>6. c \notin shifted' /\ asks'[c] = {} => wire'[c].batch = <<>>
    BY DEF Kept
  <1> QED BY <1>5, <1>6 DEF WireOK, Bounded, Sorted, Fates, Out, Ascending, Outbound!EventsOf, Outbound!Range, Outbound!Increasing

LEMMA SameHandled == ASSUME NEW w \in Wire, Bounded(w) PROVE Handled(w, w, {})
  BY DEF Handled

LEMMA WireTyped == ASSUME OutInv, NEW c \in Peer PROVE wire[c] \in Wire /\ Bounded(wire[c]) /\ WireOK(c)
  BY DEF OutInv, OutType, WireOK

LEMMA FanoutFields ==
    ASSUME NEW j \in Fanout
    PROVE  j.to \in Seq(Peer) /\ Len(j.to) \in Nat /\ DOMAIN j.to = 1..Len(j.to) /\ j.from \in Nat /\ j.event \in Event
  <1>1. j.to \in Seq(Peer) /\ j.from \in Nat /\ j.event \in Event
    BY DEF Fanout
  <1> QED BY <1>1

LEMMA AlongOn ==
    ASSUME NEW j \in Fanout, NEW a \in Seq(Peer), NEW b, Len(b) \in Nat, Along(j, a), Continues(a, b)
    PROVE  Along(j, b)
  <1>1. Len(j.to) \in Nat /\ DOMAIN j.to = 1..Len(j.to) /\ Len(a) \in Nat /\ DOMAIN a = 1..Len(a)
    BY FanoutFields
  <1>2. Len(j.to) <= Len(a) /\ Len(a) <= Len(b) /\ (\A k \in DOMAIN j.to : j.to[k] = a[k]) /\ \A k \in DOMAIN a : b[k] = a[k]
    BY DEF Along, Continues
  <1>3. \A k \in DOMAIN j.to : k \in DOMAIN a
    BY <1>1, <1>2
  <1>4. Len(j.to) <= Len(b)
    BY <1>1, <1>2
  <1> QED BY <1>2, <1>3, <1>4 DEF Along

\* The list of the next event still begins with the old one, for those who wait.
LEMMA StillAlong ==
    ASSUME OutType, NEW waiting, Kept(waiting), NEW c \in Peer, c \notin shifted', NEW i \in DOMAIN waiting, Owes(waiting[i], c),
           NEW j \in Fanout, Along(j, Outbound!Immediate)
    PROVE  Along(j, Outbound!Immediate')
  <1> DEFINE a == Outbound!Immediate
             b == Outbound!Immediate'
  <1>1. Continues(a, b)
    BY DEF Kept
  <1>2. a \in Seq(Peer)
    BY ImmediateNow
  <1>3. Len(b) \in Nat
    <2>1. subscribers' \in Seq(Peer) /\ Outbound!IsInjective(subscribers')
      BY DEF Kept, Outbound!IsInjective
    <2>2. b = Outbound!ImmediateOf(subscribers', asks')
      BY DEF Outbound!Immediate, Outbound!ImmediateOf
    <2> HIDE DEF b
    <2> QED BY <2>1, <2>2, ImmediateFacts
  <1>4. Along(j, a)
    OBVIOUS
  <1> HIDE DEF a, b
  <1>5. Along(j, b)
    BY <1>1, <1>2, <1>3, <1>4, AlongOn
  <1> QED BY <1>5 DEF b

\* Whom a fan-out still owes an event has no accumulator pending.
LEMMA OwedAtOnce ==
    ASSUME OutInv, NEW c \in Peer, ~again, c \notin shifted, NEW i \in DOMAIN chunks, Owes(chunks[i], c)
    PROVE  asks[c] = {} /\ wire[c].batch = <<>>
  <1> DEFINE to == Outbound!Immediate
  <1>1. Along(chunks[i], to) /\ chunks[i] \in Fanout
    BY DEF OutInv, OutType, LinedOK, Lined
  <1>2. Len(to) \in Nat /\ DOMAIN to = 1..Len(to) /\ \A k \in DOMAIN to : asks[to[k]] = {}
    BY ImmediateNow DEF OutInv
  <1> HIDE DEF to
  <1>3. PICK k \in DOMAIN chunks[i].to : chunks[i].to[k] = c
    BY DEF Owes
  <1>4. k \in 1..Len(chunks[i].to) /\ Len(chunks[i].to) \in Nat
    BY <1>1, <1>3, FanoutFields
  <1>5. k \in DOMAIN to /\ to[k] = c
    BY <1>1, <1>2, <1>3, <1>4 DEF Along
  <1>6. asks[c] = {}
    BY <1>2, <1>5
  <1> QED BY <1>6, WireTyped DEF WireOK

LEMMA LinedIs ==
    ASSUME NEW c
    PROVE  Lined(c)' <=>
             /\ \A i \in DOMAIN chunks' : Owes(chunks'[i], c) =>
                  Along(chunks'[i], Outbound!Immediate') /\ \A x \in Out(wire'[c]) : x < chunks'[i].event
             /\ \A i, k \in DOMAIN chunks' :
                  i < k /\ Owes(chunks'[i], c) /\ Owes(chunks'[k], c) => Order(chunks'[i], chunks'[k])
  BY DEF Lined, Along, Order, Owes, Out, Outbound!EventsOf, Outbound!Range

\* No new event goes out, and the fan-outs that wait stay as they are.
LEMMA LinedQuiet ==
    ASSUME OutInv, Kept(chunks), chunks' = chunks, again' = again,
           \A c \in Peer : Out(wire'[c]) \subseteq Out(wire[c]) \cup Outbound!Range(wire[c].batch)
    PROVE  LinedOK'
  <1> SUFFICES ASSUME ~again', NEW c \in Peer, c \notin shifted' PROVE Lined(c)'
    BY DEF LinedOK
  <1>1. ~again /\ c \notin shifted /\ Lined(c) /\ OutType
    BY DEF OutInv, LinedOK, Kept
  <1>2. ASSUME NEW i \in DOMAIN chunks, Owes(chunks[i], c)
        PROVE  Along(chunks[i], Outbound!Immediate') /\ \A x \in Out(wire'[c]) : x < chunks[i].event
    <2>1. /\ Along(chunks[i], Outbound!Immediate) /\ (\A x \in Out(wire[c]) : x < chunks[i].event)
          /\ chunks[i] \in Fanout
      BY <1>1, <1>2 DEF Lined, OutType
    <2>2. Along(chunks[i], Outbound!Immediate')
      BY <1>1, <1>2, <2>1, StillAlong
    <2>3. wire[c].batch = <<>>
      BY <1>1, <1>2, OwedAtOnce
    <2>4. Out(wire'[c]) \subseteq Out(wire[c])
      BY <2>3, Nothing
    <2> QED BY <2>1, <2>2, <2>4
  <1>3. \A i, k \in DOMAIN chunks : i < k /\ Owes(chunks[i], c) /\ Owes(chunks[k], c) => Order(chunks[i], chunks[k])
    BY <1>1 DEF Lined
  <1> QED BY <1>2, <1>3, LinedIs

LEMMA OneWire ==
    ASSUME OutInv, NEW c \in Peer, NEW v, Handled(wire[c], v, {}), Sorted(wire[c]) => Sorted(v),
           wire' = [wire EXCEPT ![c] = v], Kept(chunks),
           UNCHANGED <<chunks, owed, seen, published, evicted, again>>
    PROVE  OutInv'
  <1>0. wire \in [Peer -> Wire] /\ v \in Wire /\ again' = again /\ chunks' = chunks /\ owed' = owed
    BY DEF OutInv, OutType, Handled
  <1>1. \A d \in Peer : wire'[d] = IF d = c THEN v ELSE wire[d]
    BY <1>0
  <1>2. OutType'
    BY <1>0 DEF OutInv, OutType, Kept
  <1>3. OutFlags' /\ Past' /\ JobsOK'
    BY <1>0 DEF OutInv, OutFlags, Past, JobsOK
  <1>4. ASSUME NEW d \in Peer PROVE Handled(wire[d], wire'[d], {}) /\ (Sorted(wire[d]) => Sorted(wire'[d]))
    BY <1>1, SameHandled, WireTyped
  <1>5. LinedOK'
    <2>1. \A d \in Peer : Out(wire'[d]) \subseteq Out(wire[d]) \cup Outbound!Range(wire[d].batch)
      BY <1>4 DEF Handled
    <2> QED BY <1>0, <2>1, LinedQuiet
  <1>6. ASSUME NEW d \in Peer PROVE WireOK(d)'
    <2>1. Waiting(d)' = Waiting(d)
      BY <1>0, WaitingIs
    <2>2. WireOK(d)
      BY WireTyped
    <2>3. Waiting(d) \subseteq owed[d]
      BY <2>2 DEF WireOK
    <2>4. ~again' /\ d \notin shifted' => Sorted(wire'[d])
      BY <1>0, <1>4, <2>2 DEF WireOK, Kept
    <2> QED BY <1>0, <1>4, <2>1, <2>2, <2>3, <2>4, WireMoves
  <1> QED BY <1>2, <1>3, <1>5, <1>6 DEF OutInv

\* The same, when only the subscribers or their preferences change.
LEMMA SameWire ==
    ASSUME OutInv, NEW c \in Peer, Kept(chunks), UNCHANGED <<wire, chunks, owed, seen, published, evicted, again>>
    PROVE  OutInv'
  <1>1. wire' = [wire EXCEPT ![c] = wire[c]]
    BY DEF OutInv, OutType
  <1>2. Handled(wire[c], wire[c], {})
    BY WireTyped, SameHandled
  <1> QED BY <1>1, <1>2, OneWire

LEMMA SameKept ==
    ASSUME OutInv, subscribers' = subscribers, asks' = asks, shifted' = shifted, NEW waiting,
           \A c \in Peer : wire'[c].batch = wire[c].batch
    PROVE  Kept(waiting)
  <1>1. Outbound!Immediate' = Outbound!Immediate
    BY DEF Outbound!Immediate, Outbound!ImmediateOf
  <1>2. Continues(Outbound!Immediate, Outbound!Immediate)
    <2>1. Len(Outbound!Immediate) \in Nat
      BY ImmediateNow DEF OutInv
    <2> QED BY <2>1 DEF Continues
  <1>3. \A c \in Peer : c \notin shifted /\ asks[c] = {} => wire'[c].batch = <<>>
    BY WireTyped DEF WireOK
  <1> QED BY <1>1, <1>2, <1>3 DEF OutInv, OutType, Kept, Outbound!IsInjective

LEMMA LeftKept ==
    ASSUME OutInv, NEW gone, NEW flags, NEW new, new = wire', Outbound!Leave(gone, flags, new, chunks)
    PROVE  Kept(chunks)
  BY LeaveKeeps DEF OutInv

LEMMA FlushTimerKeeps ==
    ASSUME OutInv, NEW c \in Peer, Outbound!FlushTimer(c)
    PROVE  OutInv'
  <1> DEFINE v == Outbound!SendBatch(wire[c])
             new == [wire EXCEPT ![c] = v]
  <1>1. /\ wire' = new /\ Outbound!Leave(Outbound!Terminated(new), Outbound!Filter, new, chunks)
        /\ UNCHANGED <<chunks, owed, seen, published, evicted, again>>
    BY DEF Outbound!FlushTimer
  <1>2. Brim(wire[c]) /\ wire[c] \in Wire
    BY WireTyped, WireFields, OutConstants DEF Bounded, Brim
  <1>3. Handled(wire[c], v, {}) /\ v.batch = <<>> /\ (Sorted(wire[c]) => Sorted(v))
    BY <1>2, SendHandled
  <1>4. Kept(chunks)
    BY <1>1, LeftKept
  <1> HIDE DEF v
  <1> QED BY <1>1, <1>3, <1>4, OneWire

LEMMA SendControlKeeps ==
    ASSUME OutInv, NEW c \in Peer, Outbound!SendControl(c)
    PROVE  OutInv'
  <1> DEFINE v == Outbound!QueueOutbound(wire[c], <<>>)
             new == [wire EXCEPT ![c] = v]
  <1>1. /\ wire' = new /\ Outbound!Leave(Outbound!Terminated(new), Outbound!Filter, new, chunks) /\ wire[c].socket = "open"
        /\ UNCHANGED <<chunks, owed, seen, published, evicted, again>>
    BY DEF Outbound!SendControl
  <1>2. /\ wire[c].socket = "open" => Handled(wire[c], v, Outbound!Range(<<>>))
        /\ v.batch = wire[c].batch \/ v.batch = <<>>
        /\ Sorted(wire[c]) /\ Fits(wire[c], <<>>) => Sorted(v)
    BY WireTyped, Nothing, QueueHandled
  <1>3. Fits(wire[c], <<>>) /\ Outbound!Range(<<>>) = {}
    BY Nothing DEF Fits, Below
  <1>4. Kept(chunks)
    BY <1>1, LeftKept
  <1> HIDE DEF v
  <1> QED BY <1>1, <1>2, <1>3, <1>4, OneWire

LEMMA UnsubscribeKeeps ==
    ASSUME OutInv, NEW c \in Peer, Outbound!Unsubscribe(c)
    PROVE  OutInv'
  <1>1. /\ wire' = wire /\ Outbound!Leave({c}, {"this"}, wire, chunks)
        /\ UNCHANGED <<chunks, owed, seen, published, evicted, again>>
    BY DEF Outbound!Unsubscribe
  <1>2. Kept(chunks)
    BY <1>1, LeftKept
  <1> QED BY <1>1, <1>2, SameWire

LEMMA ElsewhereKeeps ==
    ASSUME OutInv, NEW c \in Peer, Outbound!SubscribeElsewhere(c)
    PROVE  OutInv'
  <1>1. PICK flags \in SUBSET Outbound!Filter :
          /\ Outbound!Resubscribe(subscribers, [asks EXCEPT ![c] = flags], wire, chunks)
          /\ UNCHANGED <<wire, chunks, owed, seen, published, evicted, again>>
    BY DEF Outbound!SubscribeElsewhere
  <1>2. OutType
    BY DEF OutInv
  <1>3. [asks EXCEPT ![c] = flags] \in [Peer -> SUBSET Outbound!Filter]
    BY <1>2 DEF OutType
  <1>4. Kept(chunks)
    BY <1>1, <1>2, <1>3, ResubscribeKeeps DEF OutType
  <1> QED BY <1>1, <1>4, SameWire

LEMMA SocketKeeps ==
    ASSUME OutInv, NEW c \in Peer, Outbound!Closing(c) \/ Outbound!PeerReads(c)
    PROVE  OutInv'
  <1>1. PICK v \in {[wire[c] EXCEPT !.socket = "closing"], [wire[c] EXCEPT !.buffered = 0]} :
          wire' = [wire EXCEPT ![c] = v] /\ UNCHANGED <<subscribers, asks, shifted, chunks, owed, seen, published, evicted, again>>
    <2>1. wire \in [Peer -> Wire]
      BY DEF OutInv, OutType
    <2>2. CASE Outbound!Closing(c)
      BY <2>2 DEF Outbound!Closing
    <2>3. CASE Outbound!PeerReads(c)
      BY <2>3 DEF Outbound!PeerReads
    <2> QED BY <2>2, <2>3
  <1> DEFINE w == wire[c]
  <1>2. w \in Wire /\ Bounded(w) /\ WireOK(c)
    BY WireTyped
  <1> HIDE DEF w
  <1>3. v = [w EXCEPT !.socket = "closing"] \/ v = [w EXCEPT !.buffered = 0]
    BY <1>1 DEF w
  <1>4. /\ v \in Wire /\ v.queue = w.queue /\ v.received = w.received /\ v.batch = w.batch
        /\ v.dropped = w.dropped /\ v.cut = w.cut /\ v.buffered <= w.buffered /\ (v.socket = "open" => w.socket = "open")
    <2>1. w \in Wire /\ w.buffered \in Nat
      BY <1>2, WireFields
    <2>2. CASE v = [w EXCEPT !.socket = "closing"]
      <3>1. v \in Wire
        BY <2>1, <2>2 DEF Wire
      <3>2. /\ v.queue = w.queue /\ v.received = w.received /\ v.batch = w.batch /\ v.dropped = w.dropped
            /\ v.cut = w.cut /\ v.socket = "closing" /\ v.buffered = w.buffered
        BY <2>1, <2>2 DEF Wire
      <3> QED BY <2>1, <3>1, <3>2
    <2>3. CASE v = [w EXCEPT !.buffered = 0]
      <3>1. v \in Wire
        BY <2>1, <2>3 DEF Wire
      <3>2. /\ v.queue = w.queue /\ v.received = w.received /\ v.batch = w.batch /\ v.dropped = w.dropped
            /\ v.cut = w.cut /\ v.socket = w.socket /\ v.buffered = 0
        BY <2>1, <2>3 DEF Wire
      <3> QED BY <2>1, <3>1, <3>2
    <2> QED BY <1>3, <2>2, <2>3
  <1>5. Out(v) = Out(w) /\ Fates(v) = Fates(w) /\ (Sorted(w) => Sorted(v))
    BY <1>4 DEF Out, Fates, Sorted
  <1>6. Bounded(v)
    BY <1>2, <1>4, WireFields, OutConstants, SMTT(40) DEF Bounded
  <1>7. Handled(w, v, {})
    BY <1>4, <1>5, <1>6 DEF Handled
  <1>8. \A d \in Peer : wire'[d].batch = wire[d].batch
    BY <1>1, <1>4 DEF OutInv, OutType, w
  <1>9. Kept(chunks)
    BY <1>1, <1>8, SameKept
  <1>10. Handled(wire[c], v, {}) /\ (Sorted(wire[c]) => Sorted(v))
    BY <1>5, <1>7 DEF w
  <1> QED BY <1>1, <1>9, <1>10, OneWire

LEMMA OnCloseKeeps ==
    ASSUME OutInv, NEW c \in Peer, Outbound!OnClose(c)
    PROVE  OutInv'
  <1> DEFINE v == Outbound!Forget(wire[c])
  <1>1. /\ wire' = [wire EXCEPT ![c] = v] /\ Outbound!Leave({c}, Outbound!Filter, wire', chunks)
        /\ UNCHANGED <<chunks, owed, seen, published, evicted, again>>
    BY DEF Outbound!OnClose
  <1>2. Handled(wire[c], v, {}) /\ v.batch = <<>> /\ (Sorted(wire[c]) => Sorted(v))
    BY WireTyped, ForgetHandled
  <1>3. Kept(chunks)
    BY <1>1, LeftKept
  <1> HIDE DEF v
  <1> QED BY <1>1, <1>2, <1>3, OneWire

LEMMA SubscribeKeeps ==
    ASSUME OutInv, NEW c \in Peer, NEW flags \in SUBSET {"this"}, Outbound!Subscribe(c, flags)
    PROVE  OutInv'
  <1> DEFINE list == Append(subscribers, c)
             prefs == [asks EXCEPT ![c] = @ \cup flags]
  <1>1. /\ ~Outbound!Contains(subscribers, c) /\ Outbound!Resubscribe(list, prefs, wire, chunks)
        /\ UNCHANGED <<wire, chunks, owed, seen, published, evicted, again>>
    BY DEF Outbound!Subscribe
  <1>2. OutType
    BY DEF OutInv
  <1>3. subscribers \in Seq(Peer) /\ Len(subscribers) \in Nat /\ DOMAIN subscribers = 1..Len(subscribers)
    BY <1>2 DEF OutType
  <1>4. /\ list \in Seq(Peer) /\ DOMAIN list = 1..(Len(subscribers) + 1)
        /\ list[Len(subscribers) + 1] = c /\ \A i \in DOMAIN subscribers : list[i] = subscribers[i]
    BY <1>3
  <1>5. prefs \in [Peer -> SUBSET Outbound!Filter]
    BY <1>2 DEF OutType, Outbound!Filter
  <1> HIDE DEF list, prefs
  <1>6. Outbound!IsInjective(list)
    <2> SUFFICES ASSUME NEW j \in DOMAIN list, NEW k \in DOMAIN list, list[j] = list[k] PROVE j = k
      BY DEF Outbound!IsInjective
    <2>1. /\ j \in DOMAIN subscribers \/ j = Len(subscribers) + 1
          /\ k \in DOMAIN subscribers \/ k = Len(subscribers) + 1
      BY <1>3, <1>4
    <2>2. \A i \in DOMAIN subscribers : subscribers[i] # c
      BY <1>1, <1>3 DEF Outbound!Contains
    <2>3. CASE j \in DOMAIN subscribers /\ k \in DOMAIN subscribers
      BY <1>2, <1>4, <2>3 DEF OutType, Outbound!IsInjective
    <2> QED BY <1>4, <2>1, <2>2, <2>3
  <1>7. Kept(chunks)
    BY <1>1, <1>2, <1>4, <1>5, <1>6, ResubscribeKeeps
  <1> QED BY <1>1, <1>7, SameWire

\* A fan-out after its next chunk.
Advanced(j) == [j EXCEPT !.from = @ + YieldBatch]

LEMMA LaterFacts ==
    ASSUME NEW j \in Fanout, NEW q \in Seq(Fanout), NEW r, r = Outbound!Later(j, q)
    PROVE  /\ r \in Seq(Fanout) /\ DOMAIN q = 1..Len(q) /\ Len(q) \in Nat /\ DOMAIN r \subseteq Nat
           /\ \A i \in DOMAIN q : i \in DOMAIN r /\ r[i] = q[i]
           /\ \A i \in DOMAIN r : i \in DOMAIN q \/ (i = Len(q) + 1 /\ r[i] = Advanced(j) /\ j.from + YieldBatch < Len(j.to))
           /\ j.from + YieldBatch < Len(j.to) => Len(q) + 1 \in DOMAIN r /\ r[Len(q) + 1] = Advanced(j)
  <1>0. Len(q) \in Nat /\ DOMAIN q = 1..Len(q)
    OBVIOUS
  <1>1. Advanced(j) \in Fanout
    <2>1. j.from + YieldBatch \in Nat
      BY OutConstants DEF Fanout
    <2> QED BY <2>1 DEF Advanced, Fanout
  <1>2. r = IF j.from + YieldBatch < Len(j.to) THEN Append(q, Advanced(j)) ELSE q
    BY DEF Outbound!Later, Advanced
  <1> DEFINE a == Advanced(j)
  <1> HIDE DEF a
  <1>3. CASE j.from + YieldBatch < Len(j.to)
    <2>1. r = Append(q, a) /\ a \in Fanout
      BY <1>1, <1>2, <1>3 DEF a
    <2>2. r \in Seq(Fanout) /\ DOMAIN r = 1..(Len(q) + 1) /\ r[Len(q) + 1] = a /\ \A i \in 1..Len(q) : r[i] = q[i]
      BY <1>0, <2>1
    <2> QED BY <1>0, <1>3, <2>2 DEF a
  <1>4. CASE ~(j.from + YieldBatch < Len(j.to))
    BY <1>0, <1>2, <1>4
  <1> QED BY <1>3, <1>4

LEMMA AdvancedFacts ==
    ASSUME NEW j \in Fanout
    PROVE  /\ Advanced(j) \in Fanout /\ Advanced(j).event = j.event /\ Advanced(j).to = j.to
           /\ Advanced(j).from = j.from + YieldBatch
           /\ j.to \in Seq(Peer) /\ Len(j.to) \in Nat /\ DOMAIN j.to = 1..Len(j.to) /\ j.from \in Nat /\ j.event \in Event
           /\ \A c : Owes(Advanced(j), c) => Owes(j, c)
           /\ \A c : Owes(j, c) => c \in Outbound!Chunk(j.to, j.from) \/ Owes(Advanced(j), c)
           /\ \A c \in Outbound!Chunk(j.to, j.from) : Owes(j, c)
  <1>1. /\ Advanced(j) \in Fanout /\ Advanced(j).event = j.event /\ Advanced(j).to = j.to
        /\ Advanced(j).from = j.from + YieldBatch
    BY OutConstants, SMTT(40) DEF Advanced, Fanout
  <1>2. j.to \in Seq(Peer) /\ j.from \in Nat /\ j.event \in Event
    BY DEF Fanout
  <1>3. Len(j.to) \in Nat /\ DOMAIN j.to = 1..Len(j.to)
    BY <1>2
  <1>4. ASSUME NEW c, Owes(Advanced(j), c) PROVE Owes(j, c)
    BY <1>1, <1>2, <1>3, <1>4, OutConstants DEF Owes
  <1>5. ASSUME NEW c, Owes(j, c), c \notin Outbound!Chunk(j.to, j.from) PROVE Owes(Advanced(j), c)
    <2>1. PICK k \in DOMAIN j.to : j.from < k /\ j.to[k] = c
      BY <1>5 DEF Owes
    <2>2. ~(k <= j.from + YieldBatch)
      BY <1>5, <2>1 DEF Outbound!Chunk
    <2> QED BY <1>1, <1>2, <1>3, <2>1, <2>2, OutConstants DEF Owes
  <1>6. ASSUME NEW c \in Outbound!Chunk(j.to, j.from) PROVE Owes(j, c)
    BY DEF Outbound!Chunk, Owes
  <1> QED BY <1>1, <1>2, <1>3, <1>4, <1>5, <1>6

LEMMA RoundsApart ==
    ASSUME NEW a \in Nat, NEW b \in Nat, \E n \in Nat : a = n * YieldBatch, \E n \in Nat : b = n * YieldBatch, a < b
    PROVE  a + YieldBatch <= b
  <1>1. PICK n \in Nat : a = n * YieldBatch
    OBVIOUS
  <1>2. PICK m \in Nat : b = m * YieldBatch
    OBVIOUS
  <1>3. n + 1 <= m
    <2> SUFFICES ASSUME m <= n PROVE FALSE
      OBVIOUS
    <2>1. n = m + (n - m) /\ n - m \in Nat
      OBVIOUS
    <2>2. n * YieldBatch = m * YieldBatch + (n - m) * YieldBatch /\ (n - m) * YieldBatch >= 0
      BY <2>1, OutConstants
    <2>3. (n - m) * YieldBatch \in Nat /\ m * YieldBatch \in Nat
      BY <2>1, OutConstants
    <2> QED BY <1>1, <1>2, <2>2, <2>3
  <1> DEFINE d == m - (n + 1)
  <1>4. d \in Nat /\ m = n + 1 + d
    BY <1>3
  <1> HIDE DEF d
  <1>5. m * YieldBatch = n * YieldBatch + YieldBatch + d * YieldBatch /\ d * YieldBatch \in Nat
    <2> SUFFICES ASSUME NEW y \in Nat, y = YieldBatch PROVE m * y = n * y + y + d * y /\ d * y \in Nat
      BY OutConstants
    <2>1. (n + 1 + d) * y = n * y + y + d * y
      BY <1>4
    <2> QED BY <1>4, <2>1
  <1> QED BY <1>1, <1>2, <1>5, OutConstants

InRounds(n) == \E m \in Nat : n = m * YieldBatch
FanoutOK(j) == j.from < Len(j.to) /\ YieldBatch <= j.from /\ InRounds(j.from)

LEMMA LaterJobs ==
    ASSUME NEW j \in Fanout, InRounds(j.from), NEW q \in Seq(Fanout), \A i \in DOMAIN q : FanoutOK(q[i]),
           chunks' = Outbound!Later(j, q)
    PROVE  chunks' \in Seq(Fanout) /\ JobsOK'
  <1>1. /\ chunks' \in Seq(Fanout)
        /\ \A i \in DOMAIN q : chunks'[i] = q[i]
        /\ \A i \in DOMAIN chunks' : i \in DOMAIN q \/ (i = Len(q) + 1 /\ chunks'[i] = Advanced(j) /\ j.from + YieldBatch < Len(j.to))
    BY LaterFacts
  <1>2. ASSUME j.from + YieldBatch < Len(j.to) PROVE FanoutOK(Advanced(j))
    <2>1. /\ Advanced(j).to = j.to /\ Advanced(j).from = j.from + YieldBatch /\ j.from \in Nat
      BY AdvancedFacts
    <2>2. PICK n \in Nat : j.from = n * YieldBatch
      BY DEF InRounds
    <2>3. (n + 1) * YieldBatch = n * YieldBatch + YieldBatch /\ n + 1 \in Nat
      BY OutConstants
    <2>4. j.from + YieldBatch = (n + 1) * YieldBatch
      BY <2>2, <2>3
    <2>5. InRounds(j.from + YieldBatch)
      BY <2>3, <2>4 DEF InRounds
    <2>6. YieldBatch <= j.from + YieldBatch
      BY <2>1, OutConstants
    <2> QED BY <1>2, <2>1, <2>5, <2>6 DEF FanoutOK
  <1>3. ASSUME NEW i \in DOMAIN chunks' PROVE FanoutOK(chunks'[i])
    BY <1>1, <1>2
  <1> QED BY <1>1, <1>3 DEF JobsOK, FanoutOK, InRounds

LEMMA LaterWaits ==
    ASSUME NEW j \in Fanout, NEW q \in Seq(Fanout), NEW r, r = Outbound!Later(j, q), NEW c
    PROVE  /\ WaitingIn(q, c) \subseteq WaitingIn(r, c)
           /\ Owes(Advanced(j), c) => WaitingIn(r, c) = WaitingIn(q, c) \cup {j.event}
           /\ ~Owes(Advanced(j), c) => WaitingIn(r, c) = WaitingIn(q, c)
  <1>1. /\ \A i \in DOMAIN q : i \in DOMAIN r /\ r[i] = q[i]
        /\ \A i \in DOMAIN r : i \in DOMAIN q \/ (i = Len(q) + 1 /\ r[i] = Advanced(j) /\ j.from + YieldBatch < Len(j.to))
        /\ j.from + YieldBatch < Len(j.to) => Len(q) + 1 \in DOMAIN r /\ r[Len(q) + 1] = Advanced(j)
    BY LaterFacts
  <1>2. WaitingIn(q, c) \subseteq WaitingIn(r, c)
    BY <1>1, WaitingHas
  <1>3. ASSUME NEW x \in WaitingIn(r, c) PROVE x \in WaitingIn(q, c) \/ (Owes(Advanced(j), c) /\ x = j.event)
    <2>1. PICK i \in DOMAIN r : Owes(r[i], c) /\ x = r[i].event
      BY WaitingHas
    <2>2. CASE i \in DOMAIN q
      BY <1>1, <2>1, <2>2, WaitingHas
    <2>3. CASE r[i] = Advanced(j)
      BY <2>1, <2>3, AdvancedFacts
    <2> QED BY <1>1, <2>2, <2>3
  <1>4. ASSUME Owes(Advanced(j), c) PROVE j.event \in WaitingIn(r, c)
    <2>1. /\ Advanced(j).event = j.event /\ Advanced(j).to = j.to /\ Advanced(j).from = j.from + YieldBatch
          /\ Len(j.to) \in Nat /\ DOMAIN j.to = 1..Len(j.to) /\ j.from \in Nat
      BY AdvancedFacts
    <2>2. j.from + YieldBatch < Len(j.to)
      BY <1>4, <2>1, OutConstants DEF Owes
    <2>3. Len(q) + 1 \in DOMAIN r /\ r[Len(q) + 1] = Advanced(j)
      BY <1>1, <2>2
    <2> QED BY <1>4, <2>1, <2>3, WaitingHas
  <1> QED BY <1>2, <1>3, <1>4

LEMMA PickedShorter ==
    ASSUME NEW T, NEW s \in Seq(T), NEW I \in SUBSET DOMAIN s, NEW R, R = Picked(s, I)
    PROVE  Len(R) <= Len(s) /\ (I # DOMAIN s => Len(R) < Len(s))
  <1>1. Len(s) \in Nat /\ DOMAIN s = 1..Len(s) /\ Len(R) \in Nat /\ DOMAIN R = 1..Len(R)
    BY PickedFacts
  <1>2. PICK p : Places(p, R, s, I)
    BY PickedFacts
  <1>3. /\ IsFiniteSet(DOMAIN s) /\ Cardinality(DOMAIN s) = Len(s)
        /\ IsFiniteSet(DOMAIN R) /\ Cardinality(DOMAIN R) = Len(R)
    <2>1. ASSUME NEW n \in Nat PROVE IsFiniteSet(1..n) /\ Cardinality(1..n) = n
      <3>1. 1 \in Int /\ n \in Int
        OBVIOUS
      <3>2. IsFiniteSet(1..n) /\ Cardinality(1..n) = (IF 1 > n THEN 0 ELSE n - 1 + 1)
        BY <3>1, FS_Interval
      <3> QED BY <3>2
    <2> QED BY <1>1, <2>1
  <1>4. /\ IsFiniteSet(I) /\ Cardinality(I) \in Nat /\ Cardinality(I) <= Cardinality(DOMAIN s)
        /\ Cardinality(DOMAIN s) = Cardinality(I) => DOMAIN s = I
    BY <1>3, FS_Subset, FS_CardinalityType
  <1>5. ~(Cardinality(I) < Cardinality(DOMAIN R))
    <2> SUFFICES ASSUME Cardinality(I) < Cardinality(DOMAIN R) PROVE FALSE
      OBVIOUS
    <2> DEFINE D == DOMAIN R
               f == [k \in D |-> p[k]]
    <2>1. f \in [D -> I]
      BY <1>2 DEF Places
    <2>2. \A x, y \in D : x # y => f[x] # f[y]
      BY <1>2 DEF Places
    <2>3. IsFiniteSet(D) /\ Cardinality(I) < Cardinality(D)
      BY <1>3
    <2> HIDE DEF f, D
    <2>4. \E x, y \in D : x # y /\ f[x] = f[y]
      BY <1>4, <2>1, <2>3, FS_PigeonHole
    <2> QED BY <2>2, <2>4
  <1> QED BY <1>1, <1>3, <1>4, <1>5

LEMMA FreshEvent ==
    ASSUME OutInv, NEW event \in Event, Outbound!AddSeen(event),
           \/ event = published + 1 /\ published' = event
           \/ event <= published /\ published' = published
    PROVE  /\ seen' \in Seq(Event) /\ Len(seen') <= DedupMax /\ evicted' \subseteq Event /\ again' \in BOOLEAN
           /\ published' \in 0..MaxEvents /\ published <= published' /\ event <= published' /\ published \in Nat
           /\ \A e \in Event : e <= published' => e \in Outbound!Range(seen') \/ e \in evicted'
           /\ ~again' => ~again /\ published < event
  <1>0. /\ seen \in Seq(Event) /\ Len(seen) <= DedupMax /\ published \in 0..MaxEvents /\ evicted \subseteq Event
        /\ again \in BOOLEAN /\ \A e \in Event : e <= published => e \in Outbound!Range(seen) \/ e \in evicted
    BY DEF OutInv, OutType, OutFlags, Past
  <1>1. event \in Nat /\ MaxEvents \in Nat /\ event \in 1..MaxEvents /\ published \in Nat /\ published <= MaxEvents
    BY <1>0, OutConstants
  <1>2. Len(seen) \in Nat /\ DOMAIN seen = 1..Len(seen)
    BY <1>0
  <1> DEFINE I == {i \in DOMAIN seen : seen[i] # event}
  <1>3. /\ \/ /\ Outbound!Contains(seen, event) \/ Len(seen) < DedupMax
              /\ seen' = Append(Picked(seen, I), event) /\ evicted' = evicted
           \/ Len(seen) >= DedupMax /\ seen' = Append(Tail(seen), event) /\ evicted' = evicted \cup {Head(seen)}
        /\ again' = (again \/ event \in evicted \cup Outbound!Range(seen))
    BY SamePicked DEF Outbound!AddSeen
  <1>5. again' \in BOOLEAN /\ (~again' => ~again /\ event \notin evicted /\ event \notin Outbound!Range(seen))
    BY <1>0, <1>3, Zenon
  <1>6. ~again' => published < event
    <2> SUFFICES ASSUME ~again', event <= published PROVE FALSE
      BY <1>1
    <2> QED BY <1>0, <1>5
  <1>7. /\ seen' \in Seq(Event) /\ Len(seen') <= DedupMax /\ evicted' \subseteq Event
        /\ event \in Outbound!Range(seen') /\ evicted \subseteq evicted'
        /\ Outbound!Range(seen) \subseteq Outbound!Range(seen') \cup evicted'
    <2>1. CASE /\ Outbound!Contains(seen, event) \/ Len(seen) < DedupMax
               /\ seen' = Append(Picked(seen, I), event) /\ evicted' = evicted
      <3> DEFINE t == Picked(seen, I)
      <3>1. I \in SUBSET DOMAIN seen /\ (Outbound!Contains(seen, event) => I # DOMAIN seen)
        BY <1>2 DEF Outbound!Contains
      <3>2. \A i \in DOMAIN seen : seen[i] = event \/ i \in I
        OBVIOUS
      <3>3. seen' = Append(t, event)
        BY <2>1
      <3> HIDE DEF I
      <3>4. /\ t \in Seq(Event) /\ Len(t) \in Nat /\ (\A i \in I : \E k \in DOMAIN t : t[k] = seen[i])
        BY <1>0, <3>1, PickedFacts
      <3>5. Len(t) <= Len(seen) /\ (I # DOMAIN seen => Len(t) < Len(seen))
        BY <1>0, <3>1, PickedShorter
      <3> HIDE DEF t
      <3>6. Len(t) < DedupMax
        BY <1>0, <1>2, <2>1, <3>1, <3>4, <3>5, OutConstants
      <3>7. /\ seen' \in Seq(Event) /\ Len(seen') = Len(t) + 1
            /\ Outbound!Range(seen') = Outbound!Range(t) \cup {event}
        BY <3>3, <3>4, EventAppended
      <3>8. Len(seen') <= DedupMax
        BY <3>4, <3>6, <3>7, OutConstants
      <3>9. ASSUME NEW x \in Outbound!Range(seen) PROVE x \in Outbound!Range(seen')
        <4>1. PICK i \in DOMAIN seen : seen[i] = x
          BY InRange
        <4> QED BY <3>2, <3>4, <3>7, <4>1, InRange
      <3> QED BY <1>0, <2>1, <3>7, <3>8, <3>9
    <2>2. CASE Len(seen) >= DedupMax /\ seen' = Append(Tail(seen), event) /\ evicted' = evicted \cup {Head(seen)}
      <3>1. seen # <<>> /\ Len(seen) >= 1
        BY <1>2, <2>2, OutConstants
      <3> DEFINE t == Tail(seen)
      <3>2. /\ Head(seen) \in Event /\ t \in Seq(Event) /\ Len(t) = Len(seen) - 1
            /\ \A i \in 1..Len(t) : t[i] = seen[i + 1]
        BY <1>0, <3>1, HeadTailProperties
      <3>3. Head(seen) = seen[1]
        BY <1>0, <3>1
      <3>4. Outbound!Range(seen) \subseteq Outbound!Range(t) \cup {Head(seen)}
        <4> SUFFICES ASSUME NEW i \in DOMAIN seen PROVE seen[i] \in Outbound!Range(t) \cup {Head(seen)}
          BY DEF Outbound!Range
        <4>1. CASE i = 1
          BY <3>3, <4>1
        <4>2. CASE i # 1
          <5> HIDE DEF t
          <5>1. i - 1 \in 1..Len(t) /\ (i - 1) + 1 = i
            BY <1>2, <3>2, <4>2
          <5>2. i - 1 \in DOMAIN t /\ t[i - 1] = seen[i]
            BY <3>2, <5>1
          <5> QED BY <5>2, InRange
        <4> QED BY <4>1, <4>2
      <3>5. seen' = Append(t, event)
        BY <2>2
      <3> HIDE DEF t
      <3>6. /\ seen' \in Seq(Event) /\ Len(seen') = Len(t) + 1
            /\ Outbound!Range(seen') = Outbound!Range(t) \cup {event}
        BY <3>2, <3>5, EventAppended
      <3>7. Len(seen') <= DedupMax
        BY <1>0, <1>2, <3>2, <3>6, OutConstants
      <3> QED BY <1>0, <2>2, <3>2, <3>4, <3>6, <3>7
    <2> QED BY <1>3, <2>1, <2>2
  <1>8. published' \in 0..MaxEvents /\ published <= published' /\ event <= published' /\ published' \in {published, event}
    BY <1>1
  <1>9. ASSUME NEW e \in Event, e <= published' PROVE e \in Outbound!Range(seen') \/ e \in evicted'
    <2>1. e \in Nat
      BY OutConstants
    <2>2. e = event \/ e <= published
      BY <1>1, <1>9, <2>1
    <2> QED BY <1>0, <1>7, <2>2
  <1> QED BY <1>1, <1>5, <1>6, <1>7, <1>8, <1>9

LEMMA LinedLater ==
    ASSUME OutType, NEW c \in Peer, c \notin shifted', NEW j \in Fanout, NEW q \in Seq(Fanout),
           chunks' = Outbound!Later(j, q), Kept(chunks'),
           \A i \in DOMAIN q : Owes(q[i], c) =>
             Along(q[i], Outbound!Immediate) /\ \A x \in Out(wire'[c]) : x < q[i].event,
           \A i, k \in DOMAIN q : i < k /\ Owes(q[i], c) /\ Owes(q[k], c) => Order(q[i], q[k]),
           Owes(Advanced(j), c) =>
             /\ Along(j, Outbound!Immediate) /\ \A x \in Out(wire'[c]) : x < j.event
             /\ \A i \in DOMAIN q : Owes(q[i], c) => Order(q[i], Advanced(j))
    PROVE  Lined(c)'
  <1>1. /\ DOMAIN q = 1..Len(q) /\ Len(q) \in Nat /\ DOMAIN chunks' \subseteq Nat
        /\ \A i \in DOMAIN q : i \in DOMAIN chunks' /\ chunks'[i] = q[i]
        /\ \A i \in DOMAIN chunks' : i \in DOMAIN q \/ (i = Len(q) + 1 /\ chunks'[i] = Advanced(j))
    BY LaterFacts
  <1>2. Advanced(j).event = j.event /\ Advanced(j).to = j.to /\ Advanced(j) \in Fanout
    BY AdvancedFacts
  <1>3. ASSUME NEW i \in DOMAIN chunks', Owes(chunks'[i], c)
        PROVE  Along(chunks'[i], Outbound!Immediate') /\ \A x \in Out(wire'[c]) : x < chunks'[i].event
    <2>1. CASE i \in DOMAIN q
      <3>1. chunks'[i] = q[i] /\ q[i] \in Fanout
        BY <1>1, <2>1
      <3>2. Along(q[i], Outbound!Immediate) /\ \A x \in Out(wire'[c]) : x < q[i].event
        BY <1>3, <2>1, <3>1
      <3>3. Along(q[i], Outbound!Immediate')
        BY <1>3, <3>1, <3>2, StillAlong
      <3> QED BY <3>1, <3>2, <3>3
    <2>2. CASE chunks'[i] = Advanced(j)
      <3>1. Along(j, Outbound!Immediate) /\ \A x \in Out(wire'[c]) : x < j.event
        BY <1>3, <2>2
      <3>2. Along(j, Outbound!Immediate')
        BY <1>3, <3>1, StillAlong
      <3> QED BY <1>2, <2>2, <3>1, <3>2 DEF Along
    <2> QED BY <1>1, <2>1, <2>2
  <1>4. ASSUME NEW i \in DOMAIN chunks', NEW k \in DOMAIN chunks', i < k, Owes(chunks'[i], c), Owes(chunks'[k], c)
        PROVE  Order(chunks'[i], chunks'[k])
    <2>1. i \in DOMAIN q
      BY <1>1, <1>4
    <2>2. CASE k \in DOMAIN q
      BY <1>1, <1>4, <2>1, <2>2
    <2>3. CASE chunks'[k] = Advanced(j)
      BY <1>1, <1>4, <2>1, <2>3
    <2> QED BY <1>1, <2>2, <2>3
  <1> QED BY <1>3, <1>4, LinedIs

LEMMA FanoutFacts ==
    ASSUME OutInv, NEW i \in DOMAIN chunks
    PROVE  /\ chunks[i] \in Fanout /\ FanoutOK(chunks[i]) /\ chunks[i].event <= published
           /\ chunks[i].from \in Nat /\ chunks[i].event \in Nat /\ chunks[i].to \in Seq(Peer)
           /\ DOMAIN chunks[i].to \subseteq Nat /\ Len(chunks[i].to) \in Nat
  <1>1. chunks[i] \in Fanout
    BY DEF OutInv, OutType
  <1>2. FanoutOK(chunks[i]) /\ chunks[i].event <= published
    BY DEF OutInv, JobsOK, Past, FanoutOK, InRounds
  <1>3. chunks[i].from \in Nat /\ chunks[i].event \in Event /\ chunks[i].to \in Seq(Peer)
    BY <1>1 DEF Fanout
  <1> QED BY <1>1, <1>2, <1>3, OutConstants

\* The steps of a dispatch, one connection at a time.
LEMMA DispatchedWire ==
    ASSUME OutInv, NEW event \in Event, Outbound!Dispatch(event), NEW c \in Peer
    PROVE  \/ /\ c \in Outbound!Range(subscribers) /\ asks[c] # {} /\ wire'[c] = Outbound!Enqueue(wire[c], event)
           \/ c \in Outbound!Chunk(Outbound!Immediate, 0) /\ asks[c] = {} /\ wire'[c] = Outbound!Deliver(wire[c], event)
           \/ /\ ~(c \in Outbound!Range(subscribers) /\ asks[c] # {}) /\ c \notin Outbound!Chunk(Outbound!Immediate, 0)
              /\ wire'[c] = wire[c]
  <1>1. wire'[c] = CASE c \in Outbound!Range(subscribers) /\ asks[c] # {} -> Outbound!Enqueue(wire[c], event)
                     [] c \in Outbound!Chunk(Outbound!Immediate, 0) -> Outbound!Deliver(wire[c], event)
                     [] OTHER -> wire[c]
    BY Zenon DEF Outbound!Dispatch
  <1>2. c \in Outbound!Chunk(Outbound!Immediate, 0) => asks[c] = {}
    <2>1. OutType
      BY DEF OutInv
    <2>2. \A k \in DOMAIN Outbound!Immediate : asks[Outbound!Immediate[k]] = {}
      BY <2>1, ImmediateNow
    <2> QED BY <2>2 DEF Outbound!Chunk
  <1> QED BY <1>1, <1>2

LEMMA DispatchKeeps ==
    ASSUME OutInv, NEW event \in Event, Outbound!AddSeen(event), Outbound!Dispatch(event),
           \/ event = published + 1 /\ published' = event
           \/ event <= published /\ published' = published
    PROVE  OutInv'
  <1> DEFINE to == Outbound!Immediate
             j == [event |-> event, to |-> to, from |-> 0]
  <1>0. OutType /\ OutFlags
    BY DEF OutInv
  <1>1. /\ chunks' = Outbound!Later(j, chunks)
        /\ owed' = [c \in Peer |-> IF c \in Outbound!Range(subscribers) THEN owed[c] \cup {event} ELSE owed[c]]
        /\ \E gone : Outbound!Leave(gone, Outbound!Filter, wire', chunks')
    BY Zenon DEF Outbound!Dispatch
  <1>2. /\ to \in Seq(Peer) /\ Len(to) \in Nat /\ DOMAIN to = 1..Len(to)
        /\ \A k \in DOMAIN to : asks[to[k]] = {} /\ to[k] \in Outbound!Range(subscribers)
        /\ \A c \in Outbound!Range(subscribers) : asks[c] = {} => \E k \in DOMAIN to : to[k] = c
        /\ \A i, k \in DOMAIN to : to[i] = to[k] => i = k
    BY <1>0, ImmediateNow
  <1>3. Kept(chunks')
    BY <1>0, <1>1, LeaveKeeps
  <1>4. /\ seen' \in Seq(Event) /\ Len(seen') <= DedupMax /\ evicted' \subseteq Event /\ again' \in BOOLEAN
        /\ published' \in 0..MaxEvents /\ published <= published' /\ event <= published' /\ published \in Nat
        /\ \A e \in Event : e <= published' => e \in Outbound!Range(seen') \/ e \in evicted'
        /\ ~again' => ~again /\ published < event
    BY FreshEvent
  <1>5. chunks \in Seq(Fanout) /\ DOMAIN chunks \subseteq Nat
    BY <1>0 DEF OutType
  <1> HIDE DEF to
  <1>6. j \in Fanout /\ j.event = event /\ j.to = to /\ j.from = 0
    BY <1>2 DEF Fanout
  <1> HIDE DEF j
  <1>7. \A c \in Peer : /\ owed'[c] = IF c \in Outbound!Range(subscribers) THEN owed[c] \cup {event} ELSE owed[c]
                        /\ owed[c] \subseteq Event /\ \A e \in owed[c] : e <= published
    BY <1>0, <1>1 DEF OutInv, OutType, Past
  <1>8. chunks' \in Seq(Fanout) /\ JobsOK'
    <2>1. InRounds(j.from)
      BY <1>6, OutConstants DEF InRounds
    <2>3. \A i \in DOMAIN chunks : FanoutOK(chunks[i])
      BY FanoutFacts
    <2> QED BY <1>1, <1>5, <1>6, <2>1, <2>3, LaterJobs
  <1>9. ASSUME NEW c \in Peer
        PROVE  /\ wire[c] \in Wire /\ Bounded(wire[c]) /\ WireOK(c)
               /\ Out(wire[c]) \cup Outbound!Range(wire[c].batch) \subseteq owed[c]
               /\ ~again' => LaterThan(wire[c], event)
    <2>1. wire[c] \in Wire /\ Bounded(wire[c]) /\ WireOK(c)
      BY WireTyped
    <2>2. Out(wire[c]) \cup Outbound!Range(wire[c].batch) \subseteq owed[c]
      BY <2>1 DEF WireOK, Fates
    <2>3. ASSUME ~again', NEW x \in owed[c] PROVE x < event
      <3>0. x \in Event /\ x <= published
        BY <1>7, <2>3
      <3>1. x \in Nat /\ event \in Nat /\ x <= published
        BY <3>0, OutConstants
      <3> QED BY <1>4, <2>3, <3>1
    <2> QED BY <2>1, <2>2, <2>3 DEF LaterThan
  <1>10. ASSUME NEW c \in Peer
         PROVE  \E F \in {{}, {event}} :
                  /\ Handled(wire[c], wire'[c], F)
                  /\ F = {event} => c \in Outbound!Range(subscribers)
                  /\ wire[c].socket = "open" => F = {event} \/ c \notin Outbound!Range(subscribers) \/ Owes(Advanced(j), c)
                  /\ ~again' /\ c \notin shifted /\ Sorted(wire[c]) => Sorted(wire'[c])
    <2>1. CASE c \in Outbound!Range(subscribers) /\ asks[c] # {} /\ wire'[c] = Outbound!Enqueue(wire[c], event)
      BY <1>9, <2>1, EnqueueHandled
    <2>2. CASE c \in Outbound!Chunk(to, 0) /\ asks[c] = {} /\ wire'[c] = Outbound!Deliver(wire[c], event)
      <3>1. c \in Outbound!Range(subscribers)
        BY <1>2, <2>2 DEF Outbound!Chunk
      <3>2. /\ wire[c].socket = "open" => Handled(wire[c], wire'[c], {event})
            /\ wire[c].socket # "open" => wire'[c] = wire[c]
            /\ Sorted(wire[c]) /\ LaterThan(wire[c], event) /\ wire[c].batch = <<>> => Sorted(wire'[c])
        BY <1>9, <2>2, DeliverHandled
      <3>5. c \notin shifted => wire[c].batch = <<>>
        BY <1>9, <2>2 DEF WireOK
      <3>3. CASE wire[c].socket = "open"
        BY <1>9, <3>1, <3>2, <3>3, <3>5
      <3>4. CASE wire[c].socket # "open"
        BY <1>9, <3>2, <3>4, SameHandled
      <3> QED BY <3>3, <3>4
    <2>3. CASE /\ ~(c \in Outbound!Range(subscribers) /\ asks[c] # {}) /\ c \notin Outbound!Chunk(to, 0)
               /\ wire'[c] = wire[c]
      <3>1. ASSUME c \in Outbound!Range(subscribers) PROVE Owes(Advanced(j), c)
        <4>1. PICK k \in DOMAIN to : to[k] = c
          BY <1>2, <2>3, <3>1
        <4>2. Owes(j, c)
          BY <1>2, <1>6, <4>1 DEF Owes
        <4> QED BY <1>6, <2>3, <4>2, AdvancedFacts
      <3>2. Handled(wire[c], wire'[c], {})
        BY <1>9, <2>3, SameHandled
      <3> QED BY <1>9, <2>3, <3>1, <3>2
    <2> QED BY <2>1, <2>2, <2>3, DispatchedWire DEF to
  <1>11. ASSUME NEW c \in Peer PROVE WireOK(c)'
    <2>1. PICK F \in {{}, {event}} :
                  /\ Handled(wire[c], wire'[c], F)
                  /\ F = {event} => c \in Outbound!Range(subscribers)
                  /\ wire[c].socket = "open" => F = {event} \/ c \notin Outbound!Range(subscribers) \/ Owes(Advanced(j), c)
                  /\ ~again' /\ c \notin shifted /\ Sorted(wire[c]) => Sorted(wire'[c])
      BY <1>10
    <2>2. Waiting(c) = WaitingIn(chunks, c) /\ Waiting(c)' = WaitingIn(chunks', c)
      BY WaitingIs
    <2>3. /\ Waiting(c) \subseteq Waiting(c)'
          /\ Owes(Advanced(j), c) => Waiting(c)' = Waiting(c) \cup {event}
          /\ ~Owes(Advanced(j), c) => Waiting(c)' = Waiting(c)
      BY <1>1, <1>5, <1>6, <2>2, LaterWaits
    <2>4. Owes(Advanced(j), c) => c \in Outbound!Range(subscribers)
      <3>1. Owes(Advanced(j), c) => Owes(j, c)
        BY <1>6, AdvancedFacts
      <3> QED BY <1>2, <1>6, <3>1 DEF Owes
    <2>5. Waiting(c) \subseteq owed[c]
      BY <1>9 DEF WireOK
    <2>6. /\ owed[c] \subseteq owed'[c] /\ F \subseteq owed'[c] /\ Waiting(c)' \subseteq owed'[c]
          /\ wire[c].socket = "open" => owed'[c] \subseteq owed[c] \cup F \cup Waiting(c)' /\ Waiting(c) \subseteq Waiting(c)' \cup F
      BY <1>7, <2>1, <2>3, <2>4, <2>5
    <2>7. ~again' /\ c \notin shifted' => Sorted(wire'[c])
      BY <1>3, <1>4, <1>9, <2>1 DEF WireOK, Kept
    <2>8. WireOK(c)
      BY <1>9
    <2> QED BY <1>3, <2>1, <2>6, <2>7, <2>8, WireMoves
  <1>12. OutType'
    <2>1. \A c \in Peer : wire'[c] \in Wire /\ owed'[c] \in SUBSET Event
      <3> SUFFICES ASSUME NEW c \in Peer PROVE wire'[c] \in Wire /\ owed'[c] \in SUBSET Event
        OBVIOUS
      <3>1. wire'[c] \in Wire
        BY <1>10 DEF Handled
      <3>2. owed'[c] \in SUBSET Event
        BY <1>7
      <3> QED BY <3>1, <3>2
    <2>2. wire' \in [Peer -> Wire]
      <3>1. \E f : wire' = [c \in Peer |-> f[c]]
        BY DEF Outbound!Dispatch
      <3> QED BY <2>1, <3>1
    <2>3. owed' \in [Peer -> SUBSET Event]
      BY <1>1, <2>1
    <2> QED BY <1>0, <1>3, <1>4, <1>8, <2>2, <2>3 DEF OutType, Kept
  <1>13. OutFlags'
    BY <1>4 DEF OutFlags
  <1>14. Past'
    <2>1. ASSUME NEW i \in DOMAIN chunks' PROVE chunks'[i].event <= published'
      <3>1. (i \in DOMAIN chunks /\ chunks'[i] = chunks[i]) \/ chunks'[i] = Advanced(j)
        BY <1>1, <1>5, <1>6, LaterFacts
      <3>2. CASE i \in DOMAIN chunks /\ chunks'[i] = chunks[i]
        <4>1. chunks[i].event <= published /\ chunks[i].event \in Nat
          BY <3>2, FanoutFacts
        <4> QED BY <1>4, <3>2, <4>1
      <3>3. CASE chunks'[i] = Advanced(j)
        BY <1>4, <1>6, <3>3, AdvancedFacts
      <3> QED BY <3>1, <3>2, <3>3
    <2>2. ASSUME NEW c \in Peer, NEW e \in owed'[c] PROVE e <= published'
      <3>1. e = event \/ (e \in owed[c] /\ e <= published)
        BY <1>7
      <3>2. CASE e \in owed[c] /\ e <= published
        <4>0. e \in Event
          BY <1>7, <3>2
        <4>1. e \in Nat
          BY <4>0, OutConstants
        <4> QED BY <1>4, <3>2, <4>1
      <3> QED BY <1>4, <3>1, <3>2
    <2> QED BY <1>4, <2>1, <2>2 DEF Past
  <1>15. ASSUME NEW c \in Peer, ~again', c \notin shifted' PROVE Lined(c)'
    <2>1. ~again /\ c \notin shifted /\ published < event
      BY <1>3, <1>4, <1>15 DEF Kept
    <2>2. /\ \A i \in DOMAIN chunks : Owes(chunks[i], c) => Along(chunks[i], to) /\ \A x \in Out(wire[c]) : x < chunks[i].event
          /\ \A i, k \in DOMAIN chunks : i < k /\ Owes(chunks[i], c) /\ Owes(chunks[k], c) => Order(chunks[i], chunks[k])
      BY <2>1 DEF OutInv, LinedOK, Lined, to
    <2>3. Along(j, to)
      BY <1>2, <1>6 DEF Along
    <2>4. ASSUME NEW i \in DOMAIN chunks PROVE Order(chunks[i], Advanced(j))
      <3>1. /\ chunks[i].event <= published /\ YieldBatch <= chunks[i].from /\ chunks[i].event \in Nat
        BY FanoutFacts DEF FanoutOK
      <3>2. Advanced(j).event = event /\ Advanced(j).from = YieldBatch
        BY <1>6, AdvancedFacts, OutConstants
      <3>3. chunks[i].event < event
        BY <1>4, <2>1, <3>1, OutConstants
      <3> QED BY <3>1, <3>2, <3>3 DEF Order
    <2>5. ASSUME NEW k \in DOMAIN to, to[k] = c, YieldBatch < k PROVE wire'[c] = wire[c]
      <3>1. c \notin Outbound!Chunk(to, 0)
        <4> SUFFICES ASSUME NEW n \in DOMAIN to, n <= 0 + YieldBatch, to[n] = c PROVE FALSE
          BY DEF Outbound!Chunk
        <4>1. n = k
          BY <1>2, <2>5
        <4> QED BY <1>2, <2>5, <4>1, OutConstants
      <3>2. asks[c] = {}
        BY <1>2, <2>5
      <3> QED BY <3>1, <3>2, DispatchedWire DEF to
    <2>6. ASSUME NEW i \in DOMAIN chunks, Owes(chunks[i], c), NEW x \in Out(wire'[c])
          PROVE  x < chunks[i].event
      <3>1. PICK k \in DOMAIN chunks[i].to : chunks[i].from < k /\ chunks[i].to[k] = c
        BY <2>6 DEF Owes
      <3>2. /\ YieldBatch <= chunks[i].from /\ chunks[i].from \in Nat /\ Along(chunks[i], to)
            /\ chunks[i].to \in Seq(Peer) /\ Len(chunks[i].to) \in Nat
        BY <2>2, <2>6, FanoutFacts DEF FanoutOK
      <3>3. k \in 1..Len(chunks[i].to) /\ Len(chunks[i].to) <= Len(to) /\ chunks[i].to[k] = to[k]
        BY <3>1, <3>2 DEF Along
      <3>4. k \in DOMAIN to /\ YieldBatch < k /\ to[k] = c
        BY <1>2, <3>1, <3>2, <3>3, OutConstants
      <3>5. wire'[c] = wire[c]
        BY <2>5, <3>4
      <3> QED BY <2>2, <2>6, <3>5
    <2>7. ASSUME Owes(Advanced(j), c), NEW x \in Out(wire'[c]) PROVE x < j.event
      <3>1. PICK k \in DOMAIN to : YieldBatch < k /\ to[k] = c
        <4>1. Advanced(j).to = to /\ Advanced(j).from = YieldBatch
          BY <1>6, AdvancedFacts, OutConstants
        <4> QED BY <2>7, <4>1 DEF Owes
      <3>2. wire'[c] = wire[c]
        BY <2>5, <3>1
      <3>3. x < event
        BY <1>9, <1>15, <2>7, <3>2 DEF LaterThan
      <3> QED BY <1>6, <3>3
    <2>8. to = Outbound!Immediate
      BY DEF to
    <2> QED BY <1>0, <1>1, <1>3, <1>5, <1>6, <1>15, <2>2, <2>3, <2>4, <2>6, <2>7, <2>8, LinedLater
  <1>16. LinedOK'
    BY <1>15 DEF LinedOK
  <1> QED BY <1>8, <1>11, <1>12, <1>13, <1>14, <1>16 DEF OutInv

LEMMA OldestWaiting ==
    ASSUME OutType, chunks # <<>>, NEW q, q = Tail(chunks)
    PROVE  /\ q \in Seq(Fanout) /\ 1 \in DOMAIN chunks /\ Head(chunks) = chunks[1]
           /\ \A i \in DOMAIN q : i \in Nat /\ 1 < i + 1 /\ i + 1 \in DOMAIN chunks /\ q[i] = chunks[i + 1]
           /\ \A i \in DOMAIN chunks : i = 1 \/ (i - 1 \in DOMAIN q /\ q[i - 1] = chunks[i])
  <1>1. chunks \in Seq(Fanout) /\ Len(chunks) \in Nat /\ Len(chunks) >= 1 /\ DOMAIN chunks = 1..Len(chunks)
    BY DEF OutType
  <1>2. Head(chunks) = chunks[1] /\ q \in Seq(Fanout) /\ Len(q) = Len(chunks) - 1 /\ DOMAIN q = 1..(Len(chunks) - 1)
    BY <1>1, HeadTailProperties
  <1>3. \A i \in 1..Len(q) : q[i] = chunks[i + 1]
    BY <1>1, HeadTailProperties
  <1>4. ASSUME NEW i \in DOMAIN q PROVE i \in Nat /\ 1 < i + 1 /\ i + 1 \in DOMAIN chunks /\ q[i] = chunks[i + 1]
    BY <1>1, <1>2, <1>3
  <1>5. ASSUME NEW i \in DOMAIN chunks, i # 1 PROVE i - 1 \in DOMAIN q /\ q[i - 1] = chunks[i]
    <2>1. i - 1 \in DOMAIN q /\ (i - 1) + 1 = i
      BY <1>1, <1>2, <1>5
    <2> QED BY <1>4, <2>1
  <1> QED BY <1>1, <1>2, <1>4, <1>5

\* What is left of the fan-outs when the oldest one is taken.
LEMMA OldestWaits ==
    ASSUME OutType, chunks # <<>>, NEW j, j = chunks[1], NEW q, q = Tail(chunks), NEW c
    PROVE  /\ WaitingIn(q, c) \subseteq WaitingIn(chunks, c)
           /\ Owes(j, c) => WaitingIn(chunks, c) = WaitingIn(q, c) \cup {j.event}
           /\ ~Owes(j, c) => WaitingIn(chunks, c) = WaitingIn(q, c)
  <1>1. /\ 1 \in DOMAIN chunks
        /\ \A i \in DOMAIN q : i + 1 \in DOMAIN chunks /\ q[i] = chunks[i + 1]
        /\ \A i \in DOMAIN chunks : i = 1 \/ (i - 1 \in DOMAIN q /\ q[i - 1] = chunks[i])
    BY OldestWaiting
  <1>2. ASSUME NEW x \in WaitingIn(q, c) PROVE x \in WaitingIn(chunks, c)
    <2>1. PICK i \in DOMAIN q : Owes(q[i], c) /\ x = q[i].event
      BY Zenon DEF WaitingIn
    <2> QED BY <1>1, <2>1, WaitingHas
  <1>3. ASSUME NEW x \in WaitingIn(chunks, c) PROVE x \in WaitingIn(q, c) \/ (x = j.event /\ Owes(j, c))
    <2>1. PICK i \in DOMAIN chunks : Owes(chunks[i], c) /\ x = chunks[i].event
      BY WaitingHas
    <2>2. CASE i = 1
      BY <2>1, <2>2
    <2>3. CASE i - 1 \in DOMAIN q /\ q[i - 1] = chunks[i]
      BY <2>1, <2>3, WaitingHas
    <2> QED BY <1>1, <2>2, <2>3
  <1>4. Owes(j, c) => j.event \in WaitingIn(chunks, c)
    BY <1>1, WaitingHas
  <1> QED BY <1>2, <1>3, <1>4

LEMMA NextChunkKeeps ==
    ASSUME OutInv, Outbound!NextChunk
    PROVE  OutInv'
  <1> DEFINE j == chunks[1]
             q == Tail(chunks)
             now == Outbound!Chunk(j.to, j.from)
  <1>0. OutType /\ OutFlags /\ chunks # <<>>
    BY DEF OutInv, Outbound!NextChunk
  <1>1. /\ q \in Seq(Fanout) /\ 1 \in DOMAIN chunks /\ Head(chunks) = j
        /\ \A i \in DOMAIN q : i \in Nat /\ 1 < i + 1 /\ i + 1 \in DOMAIN chunks /\ q[i] = chunks[i + 1]
    BY <1>0, OldestWaiting
  <1>2. /\ chunks' = Outbound!Later(j, q)
        /\ wire' = [c \in Peer |-> IF c \in now THEN Outbound!Deliver(wire[c], j.event) ELSE wire[c]]
        /\ \E gone : Outbound!Leave(gone, Outbound!Filter, wire', chunks')
        /\ seen' = seen /\ published' = published /\ owed' = owed /\ evicted' = evicted /\ again' = again
    <2>1. Head(chunks) = j
      BY <1>1
    <2> QED BY <2>1, Zenon DEF Outbound!NextChunk
  <1>3. /\ j \in Fanout /\ FanoutOK(j) /\ j.event <= published
        /\ j.from \in Nat /\ j.event \in Nat /\ j.to \in Seq(Peer) /\ DOMAIN j.to \subseteq Nat /\ j.event \in Event
    BY <1>1, FanoutFacts, AdvancedFacts
  <1>4. ASSUME NEW c PROVE /\ WaitingIn(q, c) \subseteq WaitingIn(chunks, c)
                           /\ Owes(j, c) => WaitingIn(chunks, c) = WaitingIn(q, c) \cup {j.event}
                           /\ ~Owes(j, c) => WaitingIn(chunks, c) = WaitingIn(q, c)
    BY <1>0, OldestWaits
  <1>5. Kept(chunks')
    BY <1>0, <1>2, LeaveKeeps
  <1>6. ASSUME NEW i \in DOMAIN q
        PROVE  /\ q[i] \in Fanout /\ FanoutOK(q[i]) /\ q[i].event <= published
               /\ q[i].from \in Nat /\ q[i].event \in Nat /\ DOMAIN q[i].to \subseteq Nat
    BY <1>1, FanoutFacts
  <1>7. \A c \in now : Owes(j, c)
    BY <1>3, AdvancedFacts
  <1> HIDE DEF j, q, now
  <1>8. chunks' \in Seq(Fanout) /\ JobsOK'
    BY <1>1, <1>2, <1>3, <1>6, LaterJobs DEF FanoutOK
  <1>9. ASSUME NEW c \in Peer
        PROVE  /\ wire[c] \in Wire /\ Bounded(wire[c]) /\ WireOK(c)
               /\ Waiting(c) \subseteq owed[c]
    <2>1. wire[c] \in Wire /\ Bounded(wire[c]) /\ WireOK(c)
      BY WireTyped
    <2> QED BY <2>1 DEF WireOK
  <1>10. ASSUME NEW c \in Peer, ~again, c \notin shifted
         PROVE  /\ \A i \in DOMAIN q : Owes(q[i], c) =>
                     /\ Along(q[i], Outbound!Immediate) /\ (Owes(j, c) => Order(j, q[i])) /\ wire[c].batch = <<>>
                     /\ \A x \in Out(wire[c]) : x < q[i].event
                /\ \A i, k \in DOMAIN q : i < k /\ Owes(q[i], c) /\ Owes(q[k], c) => Order(q[i], q[k])
                /\ Owes(j, c) => /\ Along(j, Outbound!Immediate) /\ wire[c].batch = <<>>
                                 /\ \A x \in Out(wire[c]) : x < j.event
    <2>1. Lined(c)
      BY <1>10 DEF OutInv, LinedOK
    <2>2. /\ \A i \in DOMAIN chunks : Owes(chunks[i], c) =>
               Along(chunks[i], Outbound!Immediate) /\ \A x \in Out(wire[c]) : x < chunks[i].event
          /\ \A i, k \in DOMAIN chunks : i < k /\ Owes(chunks[i], c) /\ Owes(chunks[k], c) => Order(chunks[i], chunks[k])
      BY <2>1 DEF Lined
    <2>3. \A i \in DOMAIN chunks : Owes(chunks[i], c) => wire[c].batch = <<>>
      BY <1>10, OwedAtOnce
    <2>4. ASSUME NEW i \in DOMAIN q, NEW k \in DOMAIN q, i < k, Owes(q[i], c), Owes(q[k], c) PROVE Order(q[i], q[k])
      <3>1. i + 1 < k + 1
        BY <1>1, <2>4
      <3> QED BY <1>1, <2>2, <2>4, <3>1
    <2>5. ASSUME NEW i \in DOMAIN q, Owes(q[i], c)
          PROVE  /\ Along(q[i], Outbound!Immediate) /\ (Owes(j, c) => Order(j, q[i])) /\ wire[c].batch = <<>>
                 /\ \A x \in Out(wire[c]) : x < q[i].event
      BY <1>1, <2>2, <2>3, <2>5 DEF j
    <2>6. ASSUME Owes(j, c)
          PROVE  Along(j, Outbound!Immediate) /\ wire[c].batch = <<>> /\ \A x \in Out(wire[c]) : x < j.event
      BY <1>1, <2>2, <2>3, <2>6 DEF j
    <2> QED BY <2>4, <2>5, <2>6
  <1>11. ASSUME NEW c \in Peer
         PROVE  \E F \in {{}, {j.event}} :
                  /\ Handled(wire[c], wire'[c], F)
                  /\ F = {j.event} => c \in now
                  /\ wire[c].socket = "open" /\ c \in now => F = {j.event}
                  /\ ~again /\ c \notin shifted /\ Sorted(wire[c]) => Sorted(wire'[c])
    <2>1. CASE c \in now
      <3>1. Owes(j, c) /\ wire'[c] = Outbound!Deliver(wire[c], j.event)
        BY <1>2, <1>7, <2>1
      <3>2. /\ wire[c].socket = "open" => Handled(wire[c], wire'[c], {j.event})
            /\ wire[c].socket # "open" => wire'[c] = wire[c]
            /\ Sorted(wire[c]) /\ LaterThan(wire[c], j.event) /\ wire[c].batch = <<>> => Sorted(wire'[c])
        BY <1>3, <1>9, <3>1, DeliverHandled
      <3>3. ~again /\ c \notin shifted => LaterThan(wire[c], j.event) /\ wire[c].batch = <<>>
        BY <1>10, <3>1, Nothing DEF LaterThan
      <3>4. CASE wire[c].socket = "open"
        BY <2>1, <3>1, <3>2, <3>3, <3>4
      <3>5. CASE wire[c].socket # "open"
        <4>1. Handled(wire[c], wire'[c], {}) /\ wire'[c] = wire[c]
          BY <1>9, <3>2, <3>5, SameHandled
        <4> QED BY <3>1, <3>2, <3>5, <4>1
      <3> QED BY <3>4, <3>5
    <2>2. CASE c \notin now
      <3>1. wire'[c] = wire[c]
        BY <1>2, <2>2
      <3>2. Handled(wire[c], wire'[c], {})
        BY <1>9, <3>1, SameHandled
      <3> QED BY <1>9, <2>2, <3>1, <3>2
    <2> QED BY <2>1, <2>2
  <1>12. ASSUME NEW c \in Peer PROVE WireOK(c)'
    <2>1. PICK F \in {{}, {j.event}} :
                  /\ Handled(wire[c], wire'[c], F)
                  /\ F = {j.event} => c \in now
                  /\ wire[c].socket = "open" /\ c \in now => F = {j.event}
                  /\ ~again /\ c \notin shifted /\ Sorted(wire[c]) => Sorted(wire'[c])
      BY <1>11
    <2>2. Waiting(c) = WaitingIn(chunks, c) /\ Waiting(c)' = WaitingIn(chunks', c)
      BY WaitingIs
    <2>3. /\ WaitingIn(q, c) \subseteq Waiting(c)'
          /\ Owes(Advanced(j), c) => Waiting(c)' = WaitingIn(q, c) \cup {j.event}
          /\ ~Owes(Advanced(j), c) => Waiting(c)' = WaitingIn(q, c)
      BY <1>1, <1>2, <1>3, <2>2, LaterWaits
    <2>4. /\ Owes(Advanced(j), c) => Owes(j, c)
          /\ Owes(j, c) => c \in now \/ Owes(Advanced(j), c)
      BY <1>3, AdvancedFacts DEF now
    <2>5. Waiting(c)' \subseteq Waiting(c) /\ (c \in now => j.event \in Waiting(c))
      BY <1>4, <1>7, <2>2, <2>3, <2>4
    <2>6. Waiting(c) \subseteq Waiting(c)' \cup {j.event} /\ (c \notin now => Waiting(c) \subseteq Waiting(c)')
      BY <1>4, <2>2, <2>3, <2>4
    <2>7. /\ owed[c] \subseteq owed'[c] /\ F \subseteq owed'[c] /\ Waiting(c)' \subseteq owed'[c]
          /\ wire[c].socket = "open" => owed'[c] \subseteq owed[c] \cup F \cup Waiting(c)' /\ Waiting(c) \subseteq Waiting(c)' \cup F
      BY <1>2, <1>9, <2>1, <2>5, <2>6
    <2>8. ~again' /\ c \notin shifted' => Sorted(wire'[c])
      BY <1>2, <1>5, <1>9, <2>1 DEF WireOK, Kept
    <2>9. WireOK(c)
      BY <1>9
    <2> QED BY <1>5, <2>1, <2>7, <2>8, <2>9, WireMoves
  <1>13. OutType'
    <2>1. \A c \in Peer : wire'[c] \in Wire
      BY <1>11 DEF Handled
    <2>2. wire' \in [Peer -> Wire]
      BY <1>2, <2>1
    <2> QED BY <1>0, <1>2, <1>5, <1>8, <2>2 DEF OutType, Kept
  <1>14. OutFlags'
    BY <1>0, <1>2 DEF OutFlags
  <1>15. Past'
    <2>1. ASSUME NEW i \in DOMAIN chunks' PROVE chunks'[i].event <= published
      <3>1. (i \in DOMAIN q /\ chunks'[i] = q[i]) \/ chunks'[i] = Advanced(j)
        BY <1>1, <1>2, <1>3, LaterFacts
      <3>2. CASE i \in DOMAIN q /\ chunks'[i] = q[i]
        BY <1>6, <3>2
      <3>3. CASE chunks'[i] = Advanced(j)
        BY <1>3, <3>3, AdvancedFacts
      <3> QED BY <3>1, <3>2, <3>3
    <2> QED BY <1>2, <2>1 DEF OutInv, Past
  <1>16. ASSUME NEW c \in Peer, ~again', c \notin shifted' PROVE Lined(c)'
    <2> DEFINE to == Outbound!Immediate
    <2>0. ~again /\ c \notin shifted
      BY <1>2, <1>5, <1>16 DEF Kept
    <2>1. /\ \A i \in DOMAIN q : Owes(q[i], c) =>
               /\ Along(q[i], to) /\ (Owes(j, c) => Order(j, q[i])) /\ wire[c].batch = <<>>
               /\ \A x \in Out(wire[c]) : x < q[i].event
          /\ \A i, k \in DOMAIN q : i < k /\ Owes(q[i], c) /\ Owes(q[k], c) => Order(q[i], q[k])
          /\ Owes(j, c) => Along(j, to) /\ wire[c].batch = <<>> /\ \A x \in Out(wire[c]) : x < j.event
      BY <1>10, <2>0
    <2>2. Len(to) \in Nat /\ DOMAIN to = 1..Len(to) /\ \A i, k \in DOMAIN to : to[i] = to[k] => i = k
      BY <1>0, ImmediateNow
    <2>3. to = Outbound!Immediate
      OBVIOUS
    <2> HIDE DEF to
    <2>4. ASSUME NEW f \in Fanout, Along(f, to), NEW n \in DOMAIN f.to, f.to[n] = c, c \in now
          PROVE  n \in Nat /\ n <= j.from + YieldBatch
      <3>0. Along(j, to)
        BY <1>7, <2>1, <2>4
      <3>1. PICK k \in DOMAIN j.to : k <= j.from + YieldBatch /\ j.to[k] = c
        BY <2>4 DEF now, Outbound!Chunk
      <3>2. f.to \in Seq(Peer) /\ Len(f.to) \in Nat /\ DOMAIN f.to = 1..Len(f.to)
        BY AdvancedFacts
      <3>3. j.to \in Seq(Peer) /\ Len(j.to) \in Nat /\ DOMAIN j.to = 1..Len(j.to)
        BY <1>3, AdvancedFacts
      <3>4. n \in DOMAIN to /\ k \in DOMAIN to
        BY <2>2, <2>4, <3>0, <3>2, <3>3 DEF Along
      <3>5. to[n] = c /\ to[k] = c
        BY <2>4, <3>0, <3>1 DEF Along
      <3>6. n = k
        BY <2>2, <3>4, <3>5
      <3> QED BY <3>1, <3>2, <3>6
    <2>5. ASSUME NEW i \in DOMAIN q, Owes(q[i], c), Owes(j, c) PROVE q[i].event < j.event => j.from + YieldBatch <= q[i].from
      <3>1. q[i].from \in Nat /\ InRounds(q[i].from) /\ InRounds(j.from) /\ q[i].event \in Nat
        BY <1>3, <1>6 DEF FanoutOK
      <3>2. Order(j, q[i])
        BY <2>1, <2>5
      <3>3. q[i].event < j.event => j.from < q[i].from
        BY <1>3, <3>1, <3>2 DEF Order
      <3> QED BY <1>3, <3>1, <3>3, RoundsApart DEF InRounds
    <2>6. ASSUME NEW i \in DOMAIN q, Owes(q[i], c), Owes(j, c) PROVE Order(q[i], Advanced(j))
      <3>1. Advanced(j).event = j.event /\ Advanced(j).from = j.from + YieldBatch
        BY <1>3, AdvancedFacts
      <3>2. q[i].from \in Nat /\ q[i].event \in Nat /\ Order(j, q[i])
        BY <1>6, <2>1, <2>6
      <3> QED BY <1>3, <2>5, <2>6, <3>1, <3>2, OutConstants DEF Order
    <2>7. ASSUME wire[c].batch = <<>>, NEW x \in Out(wire'[c]) PROVE x \in Out(wire[c]) \/ (x = j.event /\ c \in now)
      <3>1. PICK F \in {{}, {j.event}} : Handled(wire[c], wire'[c], F) /\ (F = {j.event} => c \in now)
        BY <1>11
      <3> QED BY <2>7, <3>1, Nothing DEF Handled
    <2>8. ASSUME NEW i \in DOMAIN q, Owes(q[i], c), NEW x \in Out(wire'[c]) PROVE x < q[i].event
      <3>1. PICK n \in DOMAIN q[i].to : q[i].from < n /\ q[i].to[n] = c
        BY <2>8 DEF Owes
      <3>2. CASE x \in Out(wire[c])
        BY <2>1, <2>8, <3>2
      <3>3. CASE x = j.event /\ c \in now
        <4>0. Owes(j, c)
          BY <1>7, <3>3
        <4>1. q[i] \in Fanout /\ Along(q[i], to)
          BY <1>6, <2>1, <2>8
        <4>2. n \in Nat /\ n <= j.from + YieldBatch
          BY <2>4, <3>1, <3>3, <4>1
        <4>3. ~(q[i].event < j.event)
          BY <1>3, <1>6, <2>5, <2>8, <3>1, <4>0, <4>2, OutConstants
        <4>4. Order(j, q[i])
          BY <2>1, <2>8, <4>0
        <4> QED BY <3>3, <4>3, <4>4 DEF Order
      <3> QED BY <2>1, <2>7, <2>8, <3>2, <3>3
    <2>9. ASSUME Owes(Advanced(j), c)
          PROVE  Owes(j, c) /\ \A x \in Out(wire'[c]) : x < j.event
      <3>1. /\ Owes(j, c) /\ Advanced(j).to = j.to /\ Advanced(j).from = j.from + YieldBatch
        BY <1>3, <2>9, AdvancedFacts
      <3>2. PICK n \in DOMAIN j.to : j.from + YieldBatch < n /\ j.to[n] = c
        BY <2>9, <3>1 DEF Owes
      <3>3. c \notin now
        <4> SUFFICES ASSUME c \in now PROVE FALSE
          OBVIOUS
        <4>1. n \in Nat /\ n <= j.from + YieldBatch
          BY <1>3, <2>1, <2>4, <3>1, <3>2
        <4> QED BY <1>3, <3>2, <4>1, OutConstants
      <3>4. wire'[c] = wire[c]
        BY <1>2, <3>3
      <3> QED BY <2>1, <3>1, <3>4
    <2> QED BY <1>0, <1>1, <1>2, <1>3, <1>5, <1>16, <2>1, <2>3, <2>6, <2>8, <2>9, LinedLater
  <1>17. LinedOK'
    BY <1>16 DEF LinedOK
  <1> QED BY <1>8, <1>12, <1>13, <1>14, <1>15, <1>17 DEF OutInv

\* A broadcast of an event that is in the cache, or no step at all.
LEMMA NothingMoves ==
    ASSUME OutInv, UNCHANGED <<subscribers, asks, wire, chunks, seen, owed, evicted, again, shifted>>,
           published' \in 0..MaxEvents, published <= published',
           \A e \in Event : e <= published' => e <= published \/ e \in Outbound!Range(seen)
    PROVE  OutInv'
  <1>0. OutType /\ OutFlags /\ Past /\ JobsOK /\ LinedOK
    BY DEF OutInv
  <1>1. published \in Nat /\ published' \in Nat
    BY <1>0, OutConstants DEF OutType
  <1>2. OutType' /\ OutFlags'
    BY <1>0 DEF OutType, OutFlags, Outbound!IsInjective
  <1>3. ASSUME NEW x \in Event, x <= published PROVE x <= published'
    BY <1>1, <1>3, OutConstants
  <1>4. Past'
    <2>1. ASSUME NEW i \in DOMAIN chunks PROVE chunks[i].event \in Event /\ chunks[i].event <= published
      BY FanoutFacts DEF Fanout
    <2>2. \A c \in Peer : \A e \in owed[c] : e \in Event /\ e <= published
      BY <1>0 DEF OutType, Past
    <2>3. Outbound!Range(seen)' = Outbound!Range(seen)
      BY DEF Outbound!Range
    <2> QED BY <1>0, <1>3, <2>1, <2>2, <2>3 DEF Past
  <1>5. JobsOK'
    BY <1>0 DEF JobsOK
  <1>6. Kept(chunks)
    BY SameKept
  <1>7. LinedOK'
    BY <1>6, LinedQuiet
  <1>8. ASSUME NEW c \in Peer PROVE WireOK(c)'
    <2>1. WireOK(c) /\ wire[c] \in Wire /\ Bounded(wire[c])
      BY WireTyped
    <2>2. Waiting(c)' = Waiting(c)
      BY WaitingIs
    <2>3. Handled(wire[c], wire'[c], {}) /\ wire'[c] = wire[c] /\ owed' = owed /\ again' = again /\ shifted' = shifted
      BY <2>1, SameHandled
    <2>4. /\ Waiting(c) \subseteq owed[c] 
          /\ ~again /\ c \notin shifted => Sorted(wire[c])
      BY <2>1 DEF WireOK
    <2>5. /\ owed[c] \subseteq owed'[c] /\ {} \subseteq owed'[c] /\ Waiting(c)' \subseteq owed'[c]
          /\ owed'[c] \subseteq owed[c] \cup {} \cup Waiting(c)' /\ Waiting(c) \subseteq Waiting(c)' \cup {}
          /\ ~again' /\ c \notin shifted' => Sorted(wire'[c])
      BY <2>2, <2>3, <2>4
    <2> QED BY <1>6, <2>1, <2>3, <2>5, WireMoves
  <1> QED BY <1>2, <1>4, <1>5, <1>7, <1>8 DEF OutInv

LEMMA BroadcastKeeps ==
    ASSUME OutInv, NEW event \in Event, Outbound!BroadcastEvent(event)
    PROVE  OutInv'
  <1>1. \/ event = published + 1 /\ published' = event
        \/ event <= published /\ published' = published
    BY DEF Outbound!BroadcastEvent
  <1>2. CASE Outbound!AddSeen(event) /\ Outbound!Dispatch(event)
    BY <1>1, <1>2, DispatchKeeps
  <1>3. CASE /\ Outbound!Contains(seen, event)
             /\ UNCHANGED <<subscribers, asks, wire, chunks, seen, owed, evicted, again, shifted>>
    <2>1. published \in 0..MaxEvents
      BY DEF OutInv, OutType
    <2>2. published \in Nat /\ published' \in 0..MaxEvents /\ published <= published'
      BY <1>1, <2>1, OutConstants
    <2>3. event \in Outbound!Range(seen)
      BY <1>3 DEF Outbound!Contains, Outbound!Range
    <2>4. ASSUME NEW e \in Event, e <= published' PROVE e <= published \/ e \in Outbound!Range(seen)
      <3>1. e = event \/ e <= published
        BY <1>1, <2>2, <2>4, OutConstants
      <3> QED BY <2>3, <3>1
    <2> QED BY <1>3, <2>2, <2>4, NothingMoves
  <1> QED BY <1>2, <1>3 DEF Outbound!BroadcastEvent

LEMMA OutStart ==
    ASSUME Outbound!Init
    PROVE  OutInv
  <1>0. /\ asks \in [Peer -> SUBSET Outbound!Filter] /\ chunks = <<>> /\ seen = <<>> /\ published = 0
        /\ evicted = {} /\ again = FALSE /\ shifted = {} /\ owed = [c \in Peer |-> {}]
        /\ wire = [c \in Peer |-> [socket |-> "open", buffered |-> 0, queue |-> <<>>, batch |-> <<>>,
                                   received |-> <<>>, dropped |-> {}, cut |-> {}]]
    BY DEF Outbound!Init
  <1>1. DOMAIN chunks = {} /\ Len(seen) = 0
    BY <1>0
  <1>2. ASSUME NEW c \in Peer
        PROVE  /\ wire[c].socket = "open" /\ wire[c].buffered = 0 /\ wire[c].queue = <<>> /\ wire[c].batch = <<>>
               /\ wire[c].received = <<>> /\ wire[c].dropped = {} /\ wire[c].cut = {} /\ wire[c] \in Wire /\ owed[c] = {}
    BY <1>0, Nothing DEF Wire
  <1>3. OutType
    <2>1. wire \in [Peer -> Wire] /\ owed \in [Peer -> SUBSET Event]
      BY <1>0, <1>2
    <2>2. chunks \in Seq(Fanout) /\ seen \in Seq(Event)
      BY <1>0
    <2>4. subscribers \in Seq(Peer) /\ Outbound!IsInjective(subscribers)
      <3>1. PICK n \in 0..Outbound!Cardinality(Peer) : subscribers \in [1..n -> Peer]
        BY DEF Outbound!Init
      <3>2. n \in Nat
        OBVIOUS
      <3>3. subscribers \in Seq(Peer)
        BY <3>1, <3>2
      <3> QED BY <3>3 DEF Outbound!Init
    <2>3. Len(seen) <= DedupMax /\ published \in 0..MaxEvents
      BY <1>0, <1>1, OutConstants
    <2> QED BY <1>0, <1>1, <2>1, <2>2, <2>3, <2>4 DEF OutType
  <1>4. Past
    BY <1>0, <1>1, <1>2, OutConstants DEF Past
  <1>5. JobsOK /\ OutFlags
    BY <1>0, <1>1 DEF JobsOK, OutFlags
  <1>6. \A c \in Peer : Outbound!Owing(c) = {}
    BY <1>1 DEF Outbound!Owing, Outbound!OwingIn
  <1>7. LinedOK
    BY <1>1 DEF LinedOK, Lined
  <1>8. ASSUME NEW c \in Peer PROVE WireOK(c)
    <2> DEFINE w == wire[c]
    <2>1. /\ w.buffered = 0 /\ w.queue = <<>> /\ w.batch = <<>> /\ w.received = <<>> /\ w.dropped = {} /\ w.cut = {}
      BY <1>2
    <2> HIDE DEF w
    <2>2. Out(w) = {} /\ Fates(w) = {} /\ Sorted(w)
      BY <2>1, Nothing DEF Out, Fates, Sorted
    <2>3. Len(w.queue) = 0 /\ Len(w.batch) = 0
      BY <2>1
    <2>4. Bounded(w)
      BY <2>1, <2>3, OutConstants DEF Bounded
    <2>5. Waiting(c) = {}
      BY <1>6 DEF Waiting
    <2> QED BY <1>2, <2>1, <2>2, <2>4, <2>5 DEF WireOK, w
  <1> QED BY <1>3, <1>4, <1>5, <1>7, <1>8 DEF OutInv

LEMMA OutStep ==
    ASSUME OutInv, [Outbound!Next]_Outbound!outVars
    PROVE  OutInv'
  <1>1. CASE Outbound!Next
    <2>1. ASSUME NEW event \in Event, Outbound!BroadcastEvent(event) PROVE OutInv'
      BY <2>1, BroadcastKeeps
    <2>2. CASE Outbound!NextChunk
      BY <2>2, NextChunkKeeps
    <2>3. ASSUME NEW c \in Peer, Outbound!FlushTimer(c) PROVE OutInv'
      BY <2>3, FlushTimerKeeps
    <2>4. ASSUME NEW c \in Peer, Outbound!SendControl(c) PROVE OutInv'
      BY <2>4, SendControlKeeps
    <2>5. ASSUME NEW c \in Peer, NEW flags \in SUBSET {"this"}, Outbound!Subscribe(c, flags) PROVE OutInv'
      BY <2>5, SubscribeKeeps
    <2>6. ASSUME NEW c \in Peer, Outbound!Unsubscribe(c) PROVE OutInv'
      BY <2>6, UnsubscribeKeeps
    <2>7. ASSUME NEW c \in Peer, Outbound!Closing(c) \/ Outbound!PeerReads(c) PROVE OutInv'
      BY <2>7, SocketKeeps
    <2>8. ASSUME NEW c \in Peer, Outbound!OnClose(c) PROVE OutInv'
      BY <2>8, OnCloseKeeps
    <2>9. ASSUME NEW c \in Peer, Outbound!SubscribeElsewhere(c) PROVE OutInv'
      BY <2>9, ElsewhereKeeps
    <2> QED BY <1>1, <2>1, <2>2, <2>3, <2>4, <2>5, <2>6, <2>7, <2>8, <2>9 DEF Outbound!Next, Event
  <1>2. CASE UNCHANGED Outbound!outVars
    <2>0. UNCHANGED <<subscribers, asks, wire, chunks, seen, owed, evicted, again, shifted>> /\ published' = published
      BY <1>2 DEF Outbound!outVars
    <2>1. published \in 0..MaxEvents
      BY DEF OutInv, OutType
    <2>2. published <= published'
      BY <2>0, <2>1, OutConstants
    <2> QED BY <2>0, <2>1, <2>2, NothingMoves
  <1> QED BY <1>1, <1>2

LEMMA Greatest ==
    ASSUME NEW a \in Nat, NEW b \in Nat
    PROVE  Outbound!Max({a, b}) = IF a < b THEN b ELSE a
  <1> DEFINE m == IF a < b THEN b ELSE a
  <1>1. m \in {a, b} /\ \A y \in {a, b} : m >= y
    OBVIOUS
  <1>2. \A x \in {a, b} : (\A y \in {a, b} : x >= y) => x = m
    OBVIOUS
  <1> HIDE DEF m
  <1>3. Outbound!Max({a, b}) \in {a, b} /\ \A y \in {a, b} : Outbound!Max({a, b}) >= y
    BY <1>1 DEF Outbound!Max
  <1> QED BY <1>2, <1>3 DEF m

LEMMA OutProperties ==
    ASSUME OutInv
    PROVE  DeliveredInOrder
  <1>0. OutType
    BY DEF OutInv
  <1>1. ASSUME NEW c \in Peer
        PROVE  /\ wire[c].socket \in {"open", "closing", "gone"}
               /\ wire[c].buffered \in 0..(DropAt + Outbound!Max({BatchMaxSize, ControlSize}))
               /\ Len(wire[c].queue) <= MaxQueue /\ Outbound!Range(wire[c].queue) \subseteq Outbound!Frames
               /\ Len(wire[c].batch) < BatchMaxSize
               /\ wire[c].dropped \cup wire[c].cut \subseteq owed[c] /\ owed[c] \subseteq Outbound!Event
    <2>1. wire[c] \in Wire /\ Bounded(wire[c]) /\ WireOK(c)
      BY WireTyped
    <2>2. Outbound!Max({BatchMaxSize, ControlSize}) = Largest
      BY Greatest, OutConstants DEF Largest
    <2>3. wire[c].buffered \in 0..(DropAt + Largest)
      BY <2>1, WireFields, OutConstants DEF Bounded
    <2>4. ASSUME NEW f \in Frame PROVE f \in Outbound!Frames
      <3>1. f \in Seq(Event) /\ Len(f) \in 0..BatchMaxSize
        BY OutConstants DEF Frame
      <3>2. f \in [1..Len(f) -> Event]
        BY <3>1
      <3> QED BY <3>1, <3>2 DEF Outbound!Frames, Event
    <2>5. Outbound!Range(wire[c].queue) \subseteq Frame
      <3>1. wire[c].queue \in Seq(Frame)
        BY <2>1, WireFields
      <3> QED BY <3>1 DEF Outbound!Range
    <2>6. wire[c].dropped \cup wire[c].cut \subseteq owed[c] /\ owed[c] \subseteq Outbound!Event
      BY <1>0, <2>1 DEF WireOK, Fates, OutType, Event
    <2>7. wire[c].socket \in {"open", "closing", "gone"}
      BY <2>1, WireFields
    <2> QED BY <2>1, <2>2, <2>3, <2>4, <2>5, <2>6, <2>7 DEF Bounded
  <1>2. \A i \in DOMAIN chunks : chunks[i].event \in Outbound!Event /\ chunks[i].from < Len(chunks[i].to)
    BY <1>0, FanoutFacts DEF OutType, Fanout, FanoutOK, Event
  <1>3. Outbound!TypeOK
    <2>1. Outbound!Range(subscribers) \subseteq Peer
      BY <1>0 DEF OutType, Outbound!Range
    <2> QED BY <1>0, <1>1, <1>2, <2>1 DEF Outbound!TypeOK, OutType
  <1>4. Outbound!InOrder
    BY DEF OutInv, WireOK, Sorted, Outbound!InOrder
  <1>5. Outbound!NothingVanishes
    <2> SUFFICES ASSUME NEW c \in Peer, wire[c].socket = "open"
                 PROVE  owed[c] = Outbound!EventsOf(wire[c].received) \cup Outbound!Underway(c)
                                  \cup wire[c].dropped \cup wire[c].cut
      BY DEF Outbound!NothingVanishes
    <2>1. owed[c] = Fates(wire[c]) \cup Waiting(c)
      BY WireTyped DEF WireOK
    <2> QED BY <2>1 DEF Fates, Out, Waiting, Outbound!Underway
  <1> QED BY <1>3, <1>4, <1>5 DEF DeliveredInOrder, Outbound!DeliveredInOrder

\* Events reach every connection in order and none twice, within the three limits
\* that DeliveredInOrder states (an event forgotten and broadcast again, a recipient
\* list that changes under a chunk, a batching filter dropped under an accumulator),
\* and each one that was broadcast to a connection which is still open was received,
\* is on its way, was counted as dropped or was cut off: through the deduplication
\* cache, chunked fan-outs, batches and queues, while preferences and subscriptions
\* change, for any number of connections and any thresholds.
THEOREM EventsDeliveredInOrder == Outbound!Spec => []DeliveredInOrder
  <1>1. Outbound!Init => OutInv
    BY OutStart
  <1>2. OutInv /\ [Outbound!Next]_Outbound!outVars => OutInv'
    BY OutStep
  <1>3. OutInv => DeliveredInOrder
    BY OutProperties
  <1> QED BY <1>1, <1>2, <1>3, PTL DEF Outbound!Spec
=============================================================================

--------------------------- MODULE StreamCreation --------------------------
(***************************************************************************)
(* POST /api/streams (routes/streams/write.ts) with its Idempotency-Key:   *)
(* look the key up (redis/idempotencyStore.ts), insert the row, store the  *)
(* answer under the key.  The store's state changes drive the dependency   *)
(* flag that is checked first (app.ts, routes/streams/state.ts).  The row  *)
(* and the fingerprint come from the normalised body, in which a missing   *)
(* startTime is the current time.                                          *)
(***************************************************************************)
EXTENDS Naturals

CONSTANTS
    Poster,         \* requests under way at once
    IdemKey,        \* Idempotency-Keys
    Timed, Untimed, \* bodies with and without a startTime
    MaxTime,        \* bound: the clock
    MaxOutages,     \* bound: Redis outages
    MaxEnds         \* bound: keys whose TTL ends

Body == Timed \cup Untimed
NoEntry == [body |-> "none", start |-> 0]

VARIABLES
    time,           \* the server's clock
    healthy,        \* idempotencyDependency
    redisUp,        \* Redis answers
    store,          \* Redis: the stored answer of each key
    streams, lagging,   \* rows of the primary; those the replica lacks
    post,           \* each request
    outages, ends,
    answers,        \* history: 201 answers, as key, body and stream
    loose           \* history: keys with overlapping requests, an error or an end of TTL

createVars == <<time, healthy, redisUp, store, streams, lagging, post, outages, ends,
                answers, loose>>

\* normalizeCreateInput; the row's id is a hash of it.
Input(b) == [body |-> b, start |-> IF b \in Untimed THEN time ELSE 0]
Inputs == [body : Body, start : 0..MaxTime]

Idle == [at |-> "idle"]
TypeOK ==
    /\ time \in 0..MaxTime /\ healthy \in BOOLEAN /\ redisUp \in BOOLEAN
    /\ \A k \in IdemKey : store[k] = NoEntry \/ store[k] \in Inputs
    /\ streams \subseteq Inputs /\ lagging \subseteq streams
    /\ \A r \in Poster : post[r] = Idle \/ post[r] \in
          [at : {"get", "insert", "conflict", "byEvent", "set"}, key : IdemKey, input : Inputs]
    /\ outages \in 0..MaxOutages /\ ends \in 0..MaxEnds
    /\ answers \subseteq [key : IdemKey, body : Body, stream : Inputs]
    /\ loose \subseteq IdemKey

Init ==
    /\ time = 0 /\ healthy = TRUE /\ redisUp = TRUE
    /\ store = [k \in IdemKey |-> NoEntry]
    /\ streams = {} /\ lagging = {}
    /\ post = [r \in Poster |-> Idle]
    /\ outages = 0 /\ ends = 0
    /\ answers = {} /\ loose = {}

Goto(r, at) == post' = [post EXCEPT ![r].at = at]
Return(r) == post' = [post EXCEPT ![r] = Idle]
Answer201(r, stream) ==
    /\ Return(r)
    /\ answers' = answers \cup {[key |-> post[r].key, body |-> post[r].input.body, stream |-> stream]}

----------------------------------------------------------------------------
(* createStreamHandler                                                     *)

\* A 503 while the dependency is marked unavailable: the store is not asked.
Accept(r, k, b) ==
    /\ post[r] = Idle /\ healthy
    /\ post' = [post EXCEPT ![r] = [at |-> "get", key |-> k, input |-> Input(b)]]
    /\ loose' = IF \E q \in Poster : post[q] # Idle /\ post[q].key = k THEN loose \cup {k} ELSE loose
    /\ UNCHANGED <<time, healthy, redisUp, store, streams, lagging, outages, ends, answers>>

SameKey(r, entry) == TRUE          \* mutant: the fingerprint is not compared
SamePayload(r, entry) == entry = post[r].input

\* store.get: replay, 409, or nothing stored yet.
Get(r) ==
    LET entry == store[post[r].key] IN
    /\ post[r].at = "get" /\ redisUp
    /\ healthy' = TRUE
    /\ \/ entry = NoEntry /\ Goto(r, "insert") /\ UNCHANGED answers
       \/ entry # NoEntry /\ SamePayload(r, entry) /\ Answer201(r, entry)
       \/ entry # NoEntry /\ ~SamePayload(r, entry) /\ Return(r) /\ UNCHANGED answers
    /\ UNCHANGED <<time, redisUp, store, streams, lagging, outages, ends, loose>>

\* The get throws: treated as absent, and the dependency is marked unavailable.
GetFails(r) ==
    /\ post[r].at = "get" /\ ~redisUp
    /\ healthy' = FALSE
    /\ Goto(r, "insert")
    /\ loose' = loose \cup {post[r].key}
    /\ UNCHANGED <<time, redisUp, store, streams, lagging, outages, ends, answers>>

\* INSERT ... ON CONFLICT DO NOTHING
Insert(r) ==
    /\ post[r].at = "insert"
    /\ \/ /\ post[r].input \notin streams
          /\ streams' = streams \cup {post[r].input}
          /\ lagging' = lagging \cup {post[r].input}
          /\ Goto(r, "set")
       \/ /\ post[r].input \in streams
          /\ Goto(r, "conflict") /\ UNCHANGED <<streams, lagging>>
    /\ UNCHANGED <<time, healthy, redisUp, store, outages, ends, answers, loose>>

\* getById, then getByEvent, from the read pool; a 500 if the replica has neither.
Lookup(r) ==
    /\ post[r].at \in {"conflict", "byEvent"}
    /\ \/ Goto(r, "set")
       \/ post[r].input \in lagging /\ post[r].at = "conflict" /\ Goto(r, "byEvent")
       \/ post[r].input \in lagging /\ post[r].at = "byEvent" /\ Return(r)
    /\ UNCHANGED <<time, healthy, redisUp, store, streams, lagging, outages, ends, answers, loose>>

NotStored(r) == store              \* mutant: the answer is not stored
Stored(r) == [store EXCEPT ![post[r].key] = post[r].input]

\* store.set, then the 201.
Set(r) ==
    /\ post[r].at = "set"
    /\ \/ redisUp /\ store' = Stored(r) /\ healthy' = TRUE /\ UNCHANGED loose
       \/ /\ ~redisUp /\ healthy' = FALSE
          /\ loose' = loose \cup {post[r].key} /\ UNCHANGED store
    /\ Answer201(r, post[r].input)
    /\ UNCHANGED <<time, redisUp, streams, lagging, outages, ends>>

----------------------------------------------------------------------------
(* Environment                                                             *)

\* The client gives up or the process dies between two steps.
Abandon(r) ==
    /\ post[r] # Idle
    /\ Return(r)
    /\ loose' = loose \cup {post[r].key}
    /\ UNCHANGED <<time, healthy, redisUp, store, streams, lagging, outages, ends, answers>>

Tick ==
    /\ time < MaxTime /\ time' = time + 1
    /\ UNCHANGED <<healthy, redisUp, store, streams, lagging, post, outages, ends, answers, loose>>

Replicate ==
    /\ lagging # {} /\ lagging' = {}
    /\ UNCHANGED <<time, healthy, redisUp, store, streams, post, outages, ends, answers, loose>>

RedisDown ==
    /\ redisUp /\ outages < MaxOutages
    /\ redisUp' = FALSE /\ outages' = outages + 1
    /\ UNCHANGED <<time, healthy, store, streams, lagging, post, ends, answers, loose>>

RedisBack ==
    /\ ~redisUp /\ redisUp' = TRUE
    /\ UNCHANGED <<time, healthy, store, streams, lagging, post, outages, ends, answers, loose>>

TtlEnds(k) ==
    /\ store[k] # NoEntry /\ ends < MaxEnds
    /\ ends' = ends + 1
    /\ store' = [store EXCEPT ![k] = NoEntry]
    /\ loose' = loose \cup {k}
    /\ UNCHANGED <<time, healthy, redisUp, streams, lagging, post, outages, answers>>

Arrive(r) == \E k \in IdemKey, b \in Body : Accept(r, k, b)
Step(r) == Get(r) \/ GetFails(r) \/ Insert(r) \/ Lookup(r) \/ Set(r)

Next ==
    \/ \E r \in Poster :
          \/ Arrive(r) \/ Step(r) \/ Abandon(r)
    \/ Tick \/ Replicate \/ RedisDown \/ RedisBack
    \/ \E k \in IdemKey : TtlEnds(k)

Spec == Init /\ [][Next]_createVars
\* Requests keep coming, one that was accepted is served to the end, and Redis
\* comes back.
Fairness ==
    /\ \A r \in Poster : WF_createVars(Arrive(r)) /\ WF_createVars(Step(r))
    /\ WF_createVars(RedisBack)
FairSpec == Spec /\ Fairness

----------------------------------------------------------------------------
(* Properties                                                              *)

\* "same key + different body is a 409": a 201, replayed or not, names a stream
\* made from the body it answers.
AnswerMatchesRequest == \A x \in answers : x.stream.body = x.body

\* One key creates one stream, as long as requests with the key did not overlap,
\* none was cut off, Redis answered and the key's TTL did not end.
OneStreamPerKey ==
    \A x, y \in answers : x.key = y.key /\ x.key \notin loose => x.stream = y.stream

\* "POST /api/streams will return 503 until Redis is restored": once Redis is
\* back for good, requests are accepted again.
CreateRecovers == [](outages = MaxOutages /\ redisUp => <>healthy)

\* What a key promises to the client: one stream, and that of its own body.
KeyMeansOneStream == TypeOK /\ OneStreamPerKey /\ AnswerMatchesRequest
============================================================================

---------------------------- MODULE WsOutbound ----------------------------
(***************************************************************************)
(* What the WebSocket hub sends to the subscribers of one stream:          *)
(* deduplication and chunked fan-out (ws/fanout.ts, redis/dedup.ts),       *)
(* micro-batches (ws/batching.ts) and the outbound queue with its two      *)
(* thresholds (ws/backpressure.ts).  A frame is the sequence of the events *)
(* it carries; a frame without events is an error or a replayed event.     *)
(* Bytes are counted in events.                                            *)
(***************************************************************************)
EXTENDS Naturals, Sequences, SequencesExt, FiniteSetsExt, Subsequences

CONSTANTS
    Conn,
    YieldBatch,       \* FANOUT_YIELD_BATCH
    BatchMaxSize,     \* WS_BATCH_MAX_SIZE
    FrameFits,        \* events that fit into MAX_MESSAGE_BYTES
    MaxQueue,         \* maxQueuePerConnection
    MaxQueueBytes,    \* maxQueueBytesPerConnection
    DropAt,           \* dropBytes
    TerminateAt,      \* terminateBytes
    ControlSize,      \* bytes of a frame without events
    DedupMax,         \* DEDUP_CACHE_MAX
    MaxEvents,        \* bound: distinct events
    MaxMoves          \* bound: broadcasts of an earlier event, frames without events,
                      \* subscriptions, unsubscriptions and closes

\* The filters of a connection: the one for this stream, and those for others.
Filter == {"this", "other"}

VARIABLES
    subscribers,   \* the stream's index, in the order of subscription
    asks,          \* per connection: its filters that ask for batching
    wire,          \* per connection: its socket, queue and accumulator, and what became of its events
    chunks,        \* fan-outs that wait for setImmediate, in order
    seen,          \* the deduplication cache, oldest first
    published, moves,
    owed,          \* history: events broadcast to each connection
    evicted,       \* history: events that left the deduplication cache
    again,         \* history: one of them was broadcast once more
    shifted        \* history: connections whose place in the fan-out changed under an event on its way

outVars == <<subscribers, asks, wire, chunks, seen, published, moves, owed, evicted, again, shifted>>

Event == 1..MaxEvents
Frames == UNION {[1..n -> Event] : n \in 0..BatchMaxSize}

TypeOK ==
    /\ Range(subscribers) \subseteq Conn /\ IsInjective(subscribers)
    /\ \A c \in Conn :
        /\ wire[c].socket \in {"open", "closing", "gone"}
        /\ wire[c].buffered \in 0..(DropAt + Max({BatchMaxSize, ControlSize}))
        /\ Len(wire[c].queue) <= MaxQueue /\ Range(wire[c].queue) \subseteq Frames
        /\ Len(wire[c].batch) < BatchMaxSize
        /\ wire[c].dropped \cup wire[c].cut \subseteq owed[c] /\ owed[c] \subseteq Event
    /\ \A i \in DOMAIN chunks : chunks[i].event \in Event /\ chunks[i].from < Len(chunks[i].to)
    /\ asks \in [Conn -> SUBSET Filter] /\ shifted \subseteq Conn
    /\ Len(seen) <= DedupMax /\ published \in 0..MaxEvents

\* Some connections may have subscribed already.
Init ==
    /\ subscribers \in UNION {[1..n -> Conn] : n \in 0..Cardinality(Conn)} /\ IsInjective(subscribers)
    /\ asks \in [Conn -> SUBSET Filter] /\ \A c \in Conn : "this" \in asks[c] => Contains(subscribers, c)
    /\ wire = [c \in Conn |-> [socket |-> "open", buffered |-> 0, queue |-> <<>>, batch |-> <<>>,
                               received |-> <<>>, dropped |-> {}, cut |-> {}]]
    /\ chunks = <<>> /\ seen = <<>>
    /\ published = 0 /\ moves = 0
    /\ owed = [c \in Conn |-> {}] /\ evicted = {} /\ again = FALSE /\ shifted = {}

----------------------------------------------------------------------------
(* One connection.  w is its record.                                       *)

EventsOf(frames) == UNION {Range(frames[i]) : i \in DOMAIN frames}
Size(frame) == IF frame = <<>> THEN ControlSize ELSE Len(frame)
\* Bytes(q)[n] is the size of the first n frames of q.
Bytes(q) ==
    LET bytes[n \in 0..Len(q)] == IF n = 0 THEN 0 ELSE bytes[n - 1] + Size(q[n]) IN bytes

\* onDisconnect, as far as it concerns what is to be sent.
Forget(w) == [w EXCEPT !.socket = "gone", !.queue = <<>>, !.batch = <<>>]

\* flushOutboundQueue: frames go out until the socket is saturated; beyond the
\* second threshold the socket is terminated and its queue is counted as dropped.
FlushQueue(w) ==
    LET after(n) == w.buffered + Bytes(w.queue)[n]
        stops(n) == n = Len(w.queue) \/ after(n) > DropAt \/ after(n) > TerminateAt
        k == CHOOSE n \in 0..Len(w.queue) : stops(n) /\ \A j \in 0..(n - 1) : ~stops(j)
        left == SubSeq(w.queue, k + 1, Len(w.queue))
        sent == [w EXCEPT !.buffered = after(k), !.queue = left,
                          !.received = @ \o SubSeq(w.queue, 1, k)] IN
    IF left # <<>> /\ after(k) > TerminateAt
    THEN Forget([sent EXCEPT !.dropped = @ \cup EventsOf(left)])
    ELSE sent

Refused(w, frame) ==
    \/ w.socket # "open" \/ Len(w.queue) >= MaxQueue
    \/ Bytes(w.queue)[Len(w.queue)] + Size(frame) > MaxQueueBytes

\* mutant: the new frame goes before the queued ones
QueueInFront(w, frame) ==
    IF Refused(w, frame) THEN [w EXCEPT !.dropped = IF w.socket = "open" THEN @ \cup Range(frame) ELSE @]
    ELSE FlushQueue([w EXCEPT !.queue = <<frame>> \o @])

\* queueOutboundMessage; the caller counts the events of a refused frame.
QueueOutbound(w, frame) ==
    IF Refused(w, frame) THEN [w EXCEPT !.dropped = IF w.socket = "open" THEN @ \cup Range(frame) ELSE @]
    ELSE FlushQueue([w EXCEPT !.queue = Append(@, frame)])

\* deliverBatch, for one recipient.
Deliver(w, event) ==
    CASE w.socket # "open" -> w
      [] w.socket = "open" /\ w.buffered > TerminateAt -> Forget([w EXCEPT !.dropped = @ \cup {event}])
      [] w.socket = "open" /\ w.buffered \in (DropAt + 1)..TerminateAt -> [w EXCEPT !.dropped = @ \cup {event}]
      [] OTHER -> QueueOutbound(w, <<event>>)

\* BatchAccumulator.send: what does not fit is cut off.
SendBatch(w) ==
    LET keep == Min({Len(w.batch), FrameFits})
        cut == [w EXCEPT !.batch = <<>>,
                         !.cut = @ \cup Range(SubSeq(w.batch, keep + 1, Len(w.batch)))] IN
    IF w.socket # "open" THEN [w EXCEPT !.batch = <<>>]
    ELSE QueueOutbound(cut, SubSeq(w.batch, 1, keep))

EnqueueFresh(w, event) ==      \* mutant: every event opens a window of its own
    [w EXCEPT !.batch = <<event>>]
\* BatchAccumulator.enqueue
Enqueue(w, event) ==
    LET more == [w EXCEPT !.batch = Append(@, event)] IN
    IF Len(more.batch) >= BatchMaxSize THEN SendBatch(more) ELSE more

----------------------------------------------------------------------------
(* The hub                                                                 *)

\* resolveTargets: the subscribers none of whose filters, for whatever stream, asks
\* for batching.  It is asked anew for every event.
ImmediateOf(subs, prefs) == Picked(subs, {i \in DOMAIN subs : prefs[subs[i]] = {}})
Immediate == ImmediateOf(subscribers, asks)

\* The fan-outs among `waiting' that have not reached c yet.
OwingIn(waiting, c) ==
    {i \in DOMAIN waiting : \E k \in DOMAIN waiting[i].to : waiting[i].from < k /\ waiting[i].to[k] = c}

\* The index and the preferences become subs and prefs.  The places of the next
\* event change for those whom waiting fan-outs still owe this one, unless the new
\* list only continues the old one; and an accumulator stays pending although its
\* connection gets the next event at once.
Resubscribe(subs, prefs, new, waiting) ==
    /\ subscribers' = subs /\ asks' = prefs
    /\ shifted' = shifted
         \cup {c \in Conn : OwingIn(waiting, c) # {} /\ ~IsPrefix(Immediate, ImmediateOf(subs, prefs))}
         \cup {c \in Conn : new[c].batch # <<>> /\ prefs[c] = {}}

\* removeSubscription for the stream; `filters' are those of gone that go with it.
Leave(gone, filters, new, waiting) ==
    Resubscribe(Picked(subscribers, {i \in DOMAIN subscribers : subscribers[i] \notin gone}),
                [c \in Conn |-> IF c \in gone THEN asks[c] \ filters ELSE asks[c]], new, waiting)

\* The chunk that begins behind the first `from' recipients.
Chunk(to, from) == {to[i] : i \in {j \in DOMAIN to : from < j /\ j <= from + YieldBatch}}
Terminated(new) == {c \in Conn : wire[c].socket # "gone" /\ new[c].socket = "gone"}

\* The rest of a fan-out is left to setImmediate.
Later(job, waiting) ==
    IF job.from + YieldBatch < Len(job.to)
    THEN Append(waiting, [job EXCEPT !.from = @ + YieldBatch]) ELSE waiting

\* dispatchEvent: batching subscribers accumulate, the first chunk of the others
\* gets the event now.
Dispatch(event) ==
    LET new == [c \in Conn |->
                  CASE c \in Range(subscribers) /\ asks[c] # {} -> Enqueue(wire[c], event)
                    [] c \in Chunk(Immediate, 0) -> Deliver(wire[c], event)
                    [] OTHER -> wire[c]] IN
    /\ wire' = new
    /\ chunks' = Later([event |-> event, to |-> Immediate, from |-> 0], chunks)
    /\ owed' = [c \in Conn |-> IF c \in Range(subscribers) THEN owed[c] \cup {event} ELSE owed[c]]
    /\ Leave(Terminated(new), Filter, new, chunks')

\* InMemoryDedupCache.add, of an event that is not in the cache or has been there
\* for longer than the window.
AddSeen(event) ==
    /\ \/ /\ Contains(seen, event) \/ Len(seen) < DedupMax
          /\ seen' = Append(Picked(seen, {i \in DOMAIN seen : seen[i] # event}), event)
          /\ UNCHANGED evicted
       \/ /\ ~Contains(seen, event) /\ Len(seen) >= DedupMax
          /\ seen' = Append(Tail(seen), event) /\ evicted' = evicted \cup {Head(seen)}
    /\ again' = (again \/ event \in evicted \cup Range(seen))

\* broadcastEvent, of the next event or, once more, of an earlier one.
BroadcastEvent(event) ==
    /\ \/ event = published + 1 /\ published' = event /\ UNCHANGED moves
       \/ /\ event <= published /\ moves < MaxMoves
          /\ moves' = moves + 1 /\ UNCHANGED published
    /\ \/ AddSeen(event) /\ Dispatch(event)
       \/ /\ Contains(seen, event)
          /\ UNCHANGED <<subscribers, asks, wire, chunks, seen, owed, evicted, again, shifted>>

\* setImmediate: the oldest waiting fan-out delivers its next chunk.
NextChunk ==
    /\ chunks # <<>>
    /\ LET job == Head(chunks)
           new == [c \in Conn |-> IF c \in Chunk(job.to, job.from) THEN Deliver(wire[c], job.event)
                                  ELSE wire[c]] IN
       /\ wire' = new
       /\ chunks' = Later(job, Tail(chunks))
       /\ Leave(Terminated(new), Filter, new, chunks')
    /\ UNCHANGED <<seen, published, moves, owed, evicted, again>>

\* The timer of an accumulator.
FlushTimer(c) ==
    /\ wire[c].batch # <<>>
    /\ LET new == [wire EXCEPT ![c] = SendBatch(wire[c])] IN
       wire' = new /\ Leave(Terminated(new), Filter, new, chunks)
    /\ UNCHANGED <<chunks, seen, published, moves, owed, evicted, again>>

\* sendError, or a frame of a replay.
SendControl(c) ==
    /\ wire[c].socket = "open" /\ moves < MaxMoves /\ moves' = moves + 1
    /\ LET new == [wire EXCEPT ![c] = QueueOutbound(wire[c], <<>>)] IN
       wire' = new /\ Leave(Terminated(new), Filter, new, chunks)
    /\ UNCHANGED <<chunks, seen, published, owed, evicted, again>>

\* addSubscription for the stream, with or without batching.
Subscribe(c, filters) ==
    /\ moves < MaxMoves /\ moves' = moves + 1
    /\ wire[c].socket # "gone" /\ ~Contains(subscribers, c)
    /\ Resubscribe(Append(subscribers, c), [asks EXCEPT ![c] = @ \cup filters], wire, chunks)
    /\ UNCHANGED <<wire, chunks, seen, published, owed, evicted, again>>

Unsubscribe(c) ==
    /\ moves < MaxMoves /\ moves' = moves + 1
    /\ Contains(subscribers, c)
    /\ Leave({c}, {"this"}, wire, chunks)
    /\ UNCHANGED <<wire, chunks, seen, published, owed, evicted, again>>

\* The first filter for another stream that asks for batching is added, or the
\* last one is removed.
SubscribeElsewhere(c) ==
    /\ moves < MaxMoves /\ moves' = moves + 1
    /\ wire[c].socket # "gone"
    /\ \E filters \in SUBSET Filter :
          /\ "this" \in filters <=> "this" \in asks[c]
          /\ "other" \in filters <=> "other" \notin asks[c]
          /\ Resubscribe(subscribers, [asks EXCEPT ![c] = filters], wire, chunks)
    /\ UNCHANGED <<wire, chunks, seen, published, owed, evicted, again>>

\* The socket is being closed, by either side; onDisconnect follows.
Closing(c) ==
    /\ moves < MaxMoves /\ moves' = moves + 1
    /\ wire[c].socket = "open"
    /\ wire' = [wire EXCEPT ![c].socket = "closing"]
    /\ UNCHANGED <<subscribers, asks, chunks, seen, published, owed, evicted, again, shifted>>

OnClose(c) ==
    /\ wire[c].socket = "closing"
    /\ LET new == [wire EXCEPT ![c] = Forget(wire[c])] IN
       wire' = new /\ Leave({c}, Filter, new, chunks)
    /\ UNCHANGED <<chunks, seen, published, moves, owed, evicted, again>>

\* The peer reads what is buffered.
PeerReads(c) ==
    /\ wire[c].socket = "open" /\ wire[c].buffered > 0
    /\ wire' = [wire EXCEPT ![c].buffered = 0]
    /\ UNCHANGED <<subscribers, asks, chunks, seen, published, moves, owed, evicted, again, shifted>>

Next ==
    \/ \E event \in Event : BroadcastEvent(event)
    \/ NextChunk
    \/ \E c \in Conn : \/ FlushTimer(c) \/ SendControl(c) \/ Unsubscribe(c) \/ SubscribeElsewhere(c)
                       \/ \E filters \in SUBSET {"this"} : Subscribe(c, filters)
                       \/ Closing(c) \/ OnClose(c) \/ PeerReads(c)

Spec == Init /\ [][Next]_outVars

----------------------------------------------------------------------------
(* Properties                                                              *)

\* Frame after frame, and event after event within a frame.
Increasing(frames) ==
    \A i, j \in DOMAIN frames : \A a \in DOMAIN frames[i], b \in DOMAIN frames[j] :
        i < j \/ (i = j /\ a < b) => frames[i][a] < frames[j][b]

\* A connection receives the stream's events in the order in which they were
\* broadcast and none twice, through chunks, batches and a saturated queue, whoever
\* subscribes, batches or is saturated elsewhere.  Three limits of the code are
\* stated.  `again': an event is broadcast again after the deduplication cache has
\* forgotten it.  `shifted': the list of immediate recipients changes other than at
\* its end while a chunk still owes c an event, so that the next event may reach c
\* in an earlier chunk; or a filter of c, for whatever stream, that asked for
\* batching is dropped while c's accumulator is pending, so that the next event
\* overtakes it (subscriptionRouter.ts:247-253).
InOrder ==
    \A c \in Conn : ~again /\ c \notin shifted => Increasing(wire[c].received)

Owing(c) == OwingIn(chunks, c)
Underway(c) ==
    EventsOf(wire[c].queue) \cup Range(wire[c].batch) \cup {chunks[i].event : i \in Owing(c)}

\* An event that was broadcast to a connection which is still open was received,
\* is on its way, was counted as dropped, or was cut off an oversized batch.
NothingVanishes ==
    \A c \in Conn : wire[c].socket = "open" =>
        owed[c] = EventsOf(wire[c].received) \cup Underway(c) \cup wire[c].dropped \cup wire[c].cut

\* Events reach a connection in order, and each one is accounted for.
DeliveredInOrder == TypeOK /\ InOrder /\ NothingVanishes
============================================================================

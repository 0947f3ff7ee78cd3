----------------------------- MODULE SseStreams -----------------------------
(***************************************************************************)
(* Server-sent events and long polls of one stream in one process: the     *)
(* handlers (routes/streams/sse.ts, longPoll.ts), what they share          *)
(* (routes/streams/realtime.ts), their connection limiters                 *)
(* (streams/sseConnectionLimiter.ts, streams/longPoll.ts; the limit stands *)
(* for the one per address, per key or per process that is met first), the *)
(* event bus and its shutdown (streams/sseEmitter.ts).                     *)
(***************************************************************************)
EXTENDS Naturals, FiniteSets, Sequences

CONSTANTS
    Sse, Poll,        \* requests of the two kinds, each made once
    MaxSse, MaxPoll,  \* the limits
    PageSize,         \* REPLAY_PAGE_SIZE
    MaxStored         \* bound: events

Client == Sse \cup Poll

VARIABLES
    stage,            \* of each handler
    cursor,           \* Last-Event-ID or `since', then the replay's cursor; 0: none given
    held,             \* slots taken
    expired,          \* slots that the limiter's own timer gave back
    subs, attached,   \* liveSubscribersByStreamId; the dispatcher listens to the bus
    callbacks,        \* sseShutdownCallbacks
    stored, cast,     \* events in the store; events emitted on the bus
    answered,         \* history: responses ended, per client
    drain, entries    \* drainSseEventBus, and the callbacks it has not called

sseVars == <<stage, cursor, held, expired, subs, attached, callbacks, stored, cast, answered, drain, entries>>
busVars == <<stored, cast>>
drainVars == <<drain, entries>>

Open == {c \in Client : stage[c] \in {"lookup", "replay", "replayed", "live"}}

SseTypeOK ==
    /\ stage \in [Client -> {"new", "lookup", "replay", "replayed", "live", "closed"}]
    /\ cursor \in [Client -> 0..MaxStored] /\ held \subseteq Client /\ expired \subseteq Sse
    /\ subs \subseteq Client /\ callbacks \subseteq Client /\ entries \subseteq Client
    /\ stored \in 0..MaxStored /\ cast \in 0..stored
    /\ Cardinality(held \cap Sse) <= MaxSse /\ Cardinality(held \cap Poll) <= MaxPoll
    /\ attached \in BOOLEAN /\ drain \in {"no", "running", "over"}

Init ==
    /\ stage = [c \in Client |-> "new"] /\ cursor = [c \in Client |-> 0]
    /\ held = {} /\ expired = {} /\ subs = {} /\ attached = FALSE /\ callbacks = {}
    /\ stored = 0 /\ cast = 0 /\ answered = [c \in Client |-> 0]
    /\ drain = "no" /\ entries = {}

Answer(set) == answered' = [c \in Client |-> IF c \in set THEN answered[c] + 1 ELSE answered[c]]

KeepsCallback(set) == callbacks      \* mutant: the shutdown callback stays registered
Deregistered(set) == callbacks \ set

KeptOnShutdown(set) == held \ (set \ entries)  \* mutant: the shutdown's callback keeps the slot
Released(set) == held \ set

\* cleanup of the connections in set, each of them open: listeners, shutdown
\* callback and slot go; the bus is left when nobody listens any more.
Cleanup(set) ==
    /\ stage' = [c \in Client |-> IF c \in set THEN "closed" ELSE stage[c]]
    /\ held' = Released(set)
    /\ subs' = subs \ set /\ callbacks' = Deregistered(set)
    /\ attached' = IF set \cap subs # {} THEN subs' # {} ELSE attached

Full(c) == IF c \in Sse THEN Cardinality(held \cap Sse) >= MaxSse
                        ELSE Cardinality(held \cap Poll) >= MaxPoll

----------------------------------------------------------------------------
(* The handlers                                                            *)

\* The slot is taken before the first await.
OpenRequest(c, since) ==
    /\ stage[c] = "new"
    /\ \/ Full(c) /\ stage' = [stage EXCEPT ![c] = "closed"] /\ UNCHANGED <<cursor, held>>
       \/ /\ ~Full(c) /\ stage' = [stage EXCEPT ![c] = "lookup"]
          /\ cursor' = [cursor EXCEPT ![c] = since] /\ held' = held \cup {c}
    /\ UNCHANGED <<expired, subs, attached, callbacks, busVars, answered, drainVars>>

\* Live from now on: events and the shutdown reach the connection.
GoLive(c) ==
    /\ stage' = [stage EXCEPT ![c] = "live"]
    /\ subs' = subs \cup {c} /\ attached' = TRUE /\ callbacks' = callbacks \cup {c}
    /\ UNCHANGED <<held, answered>>

\* The stream was looked up: an error, or the replay, if one is asked for.
Found(c) ==
    /\ stage[c] = "lookup"
    /\ \/ Cleanup({c}) /\ Answer({c})
       \/ cursor[c] = 0 /\ GoLive(c)
       \/ /\ cursor[c] > 0 /\ stage' = [stage EXCEPT ![c] = "replay"]
          /\ UNCHANGED <<held, subs, attached, callbacks, answered>>
    /\ UNCHANGED <<cursor, expired, busVars, drainVars>>

\* The store reads a page of the replay; a poll ends with the first event, a page
\* that is not full is the last.  Its answer is still on its way.
ReplayPage(c) ==
    /\ stage[c] = "replay"
    /\ \/ /\ c \in Poll /\ cursor[c] < stored
          /\ Cleanup({c}) /\ Answer({c}) /\ UNCHANGED cursor
       \/ /\ c \in Sse /\ cursor[c] + PageSize <= stored
          /\ cursor' = [cursor EXCEPT ![c] = @ + PageSize]
          /\ UNCHANGED <<stage, held, subs, attached, callbacks, answered>>
       \/ /\ cursor[c] + PageSize > stored
          /\ c \in Sse \/ cursor[c] >= stored
          /\ cursor' = [cursor EXCEPT ![c] = stored]
          /\ stage' = [stage EXCEPT ![c] = "replayed"]
          /\ UNCHANGED <<held, subs, attached, callbacks, answered>>
    /\ UNCHANGED <<expired, busVars, drainVars>>

\* The last page has arrived and been written, or a read has failed or the pages
\* were too many (REPLAY_MAX_PAGES): the handler subscribes.
Subscribe(c) ==
    /\ stage[c] \in {"replay", "replayed"} /\ GoLive(c)
    /\ UNCHANGED <<cursor, expired, busVars, drainVars>>

\* A cursor that does not exist any more.
StaleCursor(c) ==
    /\ stage[c] = "replay" /\ Cleanup({c}) /\ Answer({c})
    /\ UNCHANGED <<cursor, expired, busVars, drainVars>>

\* maxDurationTimer of an SSE connection; pollTimer of a poll.
TimeOver(c) ==
    /\ stage[c] \in (IF c \in Sse THEN {"replay", "replayed", "live"} ELSE {"live"})
    /\ Cleanup({c}) /\ Answer({c})
    /\ UNCHANGED <<cursor, expired, busVars, drainVars>>

\* 'close', 'aborted' or 'error' of the response.
ClientGone(c) ==
    /\ c \in Open /\ Cleanup({c})
    /\ UNCHANGED <<cursor, expired, busVars, answered, drainVars>>

\* The limiter's own timer, which runs from the admission on.
SlotTimer(c) ==
    /\ c \in Sse \cap held /\ held' = held \ {c} /\ expired' = expired \cup {c}
    /\ UNCHANGED <<stage, cursor, subs, attached, callbacks, busVars, answered, drainVars>>

----------------------------------------------------------------------------
(* The bus                                                                 *)

Insert ==
    /\ stored < MaxStored /\ stored' = stored + 1
    /\ UNCHANGED <<stage, cursor, held, expired, subs, attached, callbacks, cast, answered, drainVars>>

\* dispatchLiveSseEvent: polls are answered, SSE frames are written; a write that
\* fails ends its connection and no other.
Emit(failing) ==
    LET polls == subs \cap Poll IN
    /\ cast < stored /\ cast' = cast + 1
    /\ failing \subseteq subs \cap Sse
    /\ \/ attached /\ Cleanup(polls \cup failing) /\ Answer(polls)
       \/ ~attached /\ failing = {} /\ UNCHANGED <<stage, held, subs, attached, callbacks, answered>>
    /\ UNCHANGED <<cursor, expired, stored, drainVars>>

StartDrain ==
    /\ drain = "no" /\ drain' = "running" /\ entries' = callbacks
    /\ UNCHANGED <<stage, cursor, held, expired, subs, attached, callbacks, busVars, answered>>

Twice(c) == {c}                      \* mutant: the response is not looked at
Unanswered(c) == {c} \cap Open

\* One callback after another, also those of connections closed meanwhile.
DrainOne(c) ==
    /\ drain = "running" /\ c \in entries /\ entries' = entries \ {c}
    /\ Answer(Unanswered(c)) /\ Cleanup({c} \cap Open)
    /\ UNCHANGED <<cursor, expired, busVars, drain>>

\* What subscribed meanwhile is forgotten, not closed.
EndDrain ==
    /\ drain = "running" /\ entries = {} /\ drain' = "over"
    /\ callbacks' = {} /\ subs' = {} /\ attached' = FALSE
    /\ UNCHANGED <<stage, cursor, held, expired, busVars, answered, entries>>

Next ==
    \/ \E c \in Client : \/ \E since \in 0..stored : OpenRequest(c, since)
                         \/ Found(c) \/ ReplayPage(c) \/ Subscribe(c) \/ StaleCursor(c) \/ TimeOver(c)
                         \/ ClientGone(c) \/ SlotTimer(c) \/ DrainOne(c)
    \/ \E failing \in SUBSET Sse : Emit(failing)
    \/ Insert \/ StartDrain \/ EndDrain

Spec == Init /\ [][Next]_sseVars

----------------------------------------------------------------------------
(* Properties                                                              *)

\* "releases the slot exactly once": whichever of the client, the timers, an
\* error and the shutdown ends a connection, the slots taken are those of the
\* connections that are open and whose slot has not run out.
SlotsOfOpen == held = Open \ expired

\* "leaves no EventEmitter listeners behind": subscriptions and shutdown callbacks
\* belong to live connections, and the bus is listened to while there are any.
NoListenersBehind ==
    /\ subs \cup callbacks \subseteq {c \in Client : stage[c] = "live"}
    /\ attached <=> subs # {}

\* Every request is answered at most once, although an event, the timer, the
\* client and the shutdown all end a poll.
AnsweredOnce == \A c \in Client : answered[c] <= 1

\* However a stream or a poll ends, its slot, its listener, its shutdown hook and
\* its answer go exactly once.
ResourcesReturned == SseTypeOK /\ SlotsOfOpen /\ NoListenersBehind /\ AnsweredOnce

----------------------------------------------------------------------------
(* A claim that TLC refutes                                                *)

\* "To resume without missing events, send the `Last-Event-ID` header"
\* (docs/api/sse-streams.md:49): a stream that goes live after its last page was
\* replayed has been sent everything that was emitted before.  An event stored after
\* the page was read (realtime.ts:175) and emitted before the subscription
\* (sse.ts:164) is in neither.
ResumesWithoutGap ==
    [][\A c \in Sse : stage[c] = "replayed" /\ stage'[c] = "live" => cast <= cursor[c]]_sseVars
============================================================================

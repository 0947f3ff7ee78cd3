---------------------------- MODULE MCRealtime -----------------------------
(***************************************************************************)
(* Chain events on their way in and out: EventIngestion, WsConnections,    *)
(* WsOutbound and SseStreams in one run of TLC.  As modelled, they share   *)
(* no state, so a behaviour moves one of them only: `focus' names it.      *)
(***************************************************************************)
EXTENDS EventIngestion, TLC

CONSTANTS
    Conn, Identity, IpKey, Stream, MaxConnections, ReconnectLimit, AbuseThreshold,
    MaxSubscriptions, MaxMissed, MaxAsked, MaxWsFaults,
    Peer, YieldBatch, BatchMaxSize, FrameFits, MaxQueue, MaxQueueBytes, DropAt, TerminateAt, ControlSize,
    DedupMax, MaxEvents, MaxMoves,
    Sse, Poll, MaxSse, MaxPoll, MaxStored,
    r1, r2, r3, forkA, forkB, n1, n2, n3, s1, address, alice

ASSUME RealtimeAssumption ==
    /\ IsFiniteSet(Conn) /\ Identity \in [Conn -> {Identity[c] : c \in Conn}]
    /\ {MaxConnections, ReconnectLimit, AbuseThreshold, MaxMissed, MaxWsFaults} \subseteq Nat
    /\ IsFiniteSet(Sse) /\ IsFiniteSet(Poll) /\ Sse \cap Poll = {}
    /\ {MaxSse, MaxPoll, MaxStored, PageSize} \subseteq Nat

\* hubConfig.ts clamps WS_BATCH_MAX_SIZE to at least 1; the least prefix that
\* batching.ts sends is one event.
ASSUME OutboundAssumption ==
    /\ {YieldBatch, BatchMaxSize, FrameFits, DedupMax} \subseteq Nat \ {0}
    /\ {MaxQueue, MaxQueueBytes, DropAt, TerminateAt, ControlSize, MaxEvents} \subseteq Nat

VARIABLES
    focus,
    counts, active, attempts, rejections, banned, shuttingDown, sock, hungUp, clients,
    subject, filters, index, asked, missed, wsFaults, leaked, drifted,
    subscribers, asks, wire, chunks, seen, published, moves, owed,
    evicted, again, shifted,
    stage, cursor, held, expired, subs, attached, callbacks, stored, cast, answered, drain, entries

wsVars == <<counts, active, attempts, rejections, banned, shuttingDown, sock, hungUp,
            clients, subject, filters, index, asked, missed, wsFaults, leaked, drifted>>
outVars == <<subscribers, asks, wire, chunks, seen, published, moves,
             owed, evicted, again, shifted>>
sseVars == <<stage, cursor, held, expired, subs, attached, callbacks, stored, cast, answered,
             drain, entries>>

Connections == INSTANCE WsConnections
Outbound == INSTANCE WsOutbound WITH Conn <- Peer
Events == INSTANCE SseStreams

\* Two clients without a token and one with.
MCIdentity == [c \in Conn |-> IF c = n3 THEN alice ELSE address]

\* Two forks, whose ledgers are ingested in parts and out of order.
E(id, ledger, fork) == [id |-> id, ledger |-> ledger, hash |-> fork]
MCBatches == {<<E(1, 1, forkA), E(3, 2, forkA)>>, <<E(2, 1, forkA)>>,
              <<E(3, 1, forkB)>>, <<E(4, 3, forkB), E(1, 2, forkB)>>}

\* The clients without a token are alike, and so are the requests.
Symmetric == Permutations({n1, n2}) \cup Permutations({r1, r2, r3})

\* All peers have subscribed when the outbound part begins, and a filter for another
\* stream makes one of them batch, or none.
MCInit ==
    /\ focus \in {"ingestion", "connections", "outbound", "sse"}
    /\ Init /\ Connections!Init /\ Events!Init /\ Outbound!Init
    /\ Len(subscribers) = IF focus = "outbound" THEN Cardinality(Peer) ELSE 0
    /\ \E c \in Peer : asks[c] \subseteq {"other"} /\ \A d \in Peer \ {c} : asks[d] = {}
    /\ focus = "outbound" \/ \A c \in Peer : asks[c] = {}

\* The outbound part is followed up to the first broadcast of a forgotten event.
MCNext ==
    \/ focus = "ingestion" /\ Next /\ UNCHANGED <<focus, wsVars, outVars, sseVars>>
    \/ focus = "connections" /\ Connections!Next /\ UNCHANGED <<focus, ingestVars, outVars, sseVars>>
    \/ focus = "outbound" /\ ~again /\ Outbound!Next /\ UNCHANGED <<focus, ingestVars, wsVars, sseVars>>
    \/ focus = "sse" /\ Events!Next /\ UNCHANGED <<focus, ingestVars, wsVars, outVars>>

MCSpec == MCInit /\ [][MCNext]_<<focus, ingestVars, wsVars, outVars, sseVars>>

----------------------------------------------------------------------------
\* The properties of the other modules, as they state them.
ConnectionsAccounted == Connections!ConnectionsAccounted
DeliveredInOrder == Outbound!DeliveredInOrder
ResourcesReturned == Events!ResourcesReturned
============================================================================

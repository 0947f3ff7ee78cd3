--------------------------- MODULE WsConnections ---------------------------
(***************************************************************************)
(* WebSocket connections of one process, for clients behind one address:   *)
(* the upgrade (ws/upgradeHandler.ts) with its reserved slot               *)
(* (ws/connectionLimiter.ts) and ban check (redis/banStore.ts), the        *)
(* registry with its subscription index (ws/connectionRegistry.ts), the    *)
(* connection's life (ws/connectionLifecycle.ts), subscriptions that are   *)
(* authorised by a query (ws/subscriptionRouter.ts, ws/hub.ts), health     *)
(* probes (ws/healthProbe.ts), forced disconnects and the drain.           *)
(***************************************************************************)
EXTENDS Naturals, FiniteSets

CONSTANTS
    Conn,             \* upgrade requests, each made once
    Identity,         \* [Conn -> limiter key]: its token's subject, or IpKey
    IpKey,            \* the key of clients without a token
    Stream,
    MaxConnections,   \* WS_MAX_CONNECTIONS_PER_IP
    ReconnectLimit,   \* WS_RECONNECT_LIMIT
    AbuseThreshold,   \* WS_ABUSE_THRESHOLD
    MaxSubscriptions, \* maxSubscriptionsPerConnection
    MaxMissed,        \* healthProbeMaxMissed
    MaxAsked,         \* bound: messages whose authorisation is awaited at once
    MaxWsFaults       \* bound: failed ban checks, ended windows and expired tokens

Key == {Identity[c] : c \in Conn} \cup {IpKey}

VARIABLES
    counts, active,        \* connectionCounts, activeConnections
    attempts, rejections,  \* entries of reconnectHistory and rejectionHistory within their windows
    banned,                \* the address has a ban
    shuttingDown,
    sock,                  \* the socket of each request
    hungUp,                \* sockets that closed while the ban was checked
    clients, subject,      \* registry.clients, and the key each was registered with
    filters, index,        \* subscriptionFilters per client, streamSubscriptions
    asked,                 \* messages whose authorisation is awaited
    missed,                \* missedPongs
    wsFaults,
    leaked, drifted        \* history: slots nobody will release; a token expired during its upgrade

wsVars == <<counts, active, attempts, rejections, banned, shuttingDown, sock, hungUp,
            clients, subject, filters, index, asked, missed, wsFaults, leaked, drifted>>
limiterVars == <<counts, active, attempts, rejections, banned>>
subVars == <<filters, index, asked>>

TypeOK ==
    /\ counts \in [Key -> Nat] /\ active \in 0..Cardinality(Conn)
    /\ attempts \in [Key -> 0..ReconnectLimit] /\ rejections \in [Key -> 0..AbuseThreshold]
    /\ {banned, shuttingDown, drifted} \subseteq BOOLEAN
    /\ sock \in [Conn -> {"new", "checking", "aborted", "open", "closing", "closed"}]
    /\ hungUp \subseteq Conn /\ clients \subseteq Conn /\ leaked \subseteq Conn
    /\ subject \in [Conn -> Key]
    /\ filters \in [Conn -> SUBSET Stream] /\ index \in [Stream -> SUBSET Conn]
    /\ asked \subseteq Conn \X {"subscribe", "unsubscribe"} \X Stream
    /\ missed \in [Conn -> 0..MaxMissed]
    /\ wsFaults \in 0..MaxWsFaults

Init ==
    /\ counts = [k \in Key |-> 0] /\ active = 0
    /\ attempts = [k \in Key |-> 0] /\ rejections = [k \in Key |-> 0]
    /\ banned = FALSE /\ shuttingDown = FALSE
    /\ sock = [c \in Conn |-> "new"] /\ hungUp = {}
    /\ clients = {} /\ subject = Identity
    /\ filters = [c \in Conn |-> {}] /\ index = [s \in Stream |-> {}] /\ asked = {}
    /\ missed = [c \in Conn |-> 0] /\ wsFaults = 0
    /\ leaked = {} /\ drifted = FALSE

Become(c, state) == sock' = [sock EXCEPT ![c] = state]

----------------------------------------------------------------------------
(* The limiter                                                             *)

\* recordRejection; the ban reaches the local cache at once.
Reject(c) ==
    LET k == Identity[c] IN
    /\ \/ /\ rejections[k] = AbuseThreshold
          /\ banned' = TRUE /\ rejections' = [rejections EXCEPT ![k] = 0]
       \/ /\ rejections[k] < AbuseThreshold
          /\ rejections' = [rejections EXCEPT ![k] = @ + 1] /\ UNCHANGED banned
    /\ Become(c, "closed")
    /\ UNCHANGED <<counts, active>>

ReserveOneMore(c) ==    \* mutant: the cap is compared with <=
    /\ counts[Identity[c]] <= MaxConnections
    /\ counts' = [counts EXCEPT ![Identity[c]] = @ + 1] /\ active' = active + 1
    /\ Become(c, "checking")
    /\ UNCHANGED <<rejections, banned>>

\* The slot is taken before the first await.
Reserve(c) ==
    /\ counts[Identity[c]] < MaxConnections
    /\ counts' = [counts EXCEPT ![Identity[c]] = @ + 1] /\ active' = active + 1
    /\ Become(c, "checking")
    /\ UNCHANGED <<rejections, banned>>

\* The synchronous part of checkAndReserve.
Upgrade(c) ==
    LET k == Identity[c] IN
    /\ sock[c] = "new"
    /\ \/ /\ shuttingDown
          /\ Become(c, "closed") /\ UNCHANGED limiterVars
       \/ /\ ~shuttingDown /\ attempts[k] >= ReconnectLimit
          /\ Reject(c) /\ UNCHANGED attempts
       \/ /\ ~shuttingDown /\ attempts[k] < ReconnectLimit
          /\ attempts' = [attempts EXCEPT ![k] = @ + 1]
          /\ \/ counts[k] >= MaxConnections /\ Reject(c)
             \/ Reserve(c)
    /\ UNCHANGED <<shuttingDown, hungUp, clients, subject, wsFaults, leaked, drifted>>
    /\ UNCHANGED <<subVars, missed>>

\* untrackConnection: clamped at zero.
Untrack(k) ==
    /\ counts' = [counts EXCEPT ![k] = IF @ > 0 THEN @ - 1 ELSE 0]
    /\ active' = IF active > 0 THEN active - 1 ELSE 0

\* isBanned answers that there is a ban, or fails closed when its store cannot be
\* read (HybridBanStore): the reservation is rolled back.
BanRefuses(c) ==
    /\ sock[c] = "checking"
    /\ \/ banned /\ UNCHANGED wsFaults
       \/ wsFaults < MaxWsFaults /\ wsFaults' = wsFaults + 1
    /\ Untrack(Identity[c])
    /\ Become(c, "closed")
    /\ UNCHANGED <<attempts, rejections, banned, shuttingDown, hungUp, clients, subject, leaked, drifted>>
    /\ UNCHANGED <<subVars, missed>>

\* Not banned, and the socket is still there: handleUpgrade and onConnect, which
\* reads the token a second time.
Accept(c) ==
    /\ sock[c] = "checking" /\ ~banned /\ c \notin hungUp
    /\ Become(c, "open")
    /\ clients' = clients \cup {c}
    /\ \/ UNCHANGED <<subject, wsFaults, drifted>>
       \/ /\ Identity[c] # IpKey /\ wsFaults < MaxWsFaults
          /\ subject' = [subject EXCEPT ![c] = IpKey]
          /\ wsFaults' = wsFaults + 1 /\ drifted' = TRUE
    /\ UNCHANGED <<limiterVars, shuttingDown, hungUp, leaked, subVars, missed>>

\* Not banned, but not a WebSocket handshake: ws ends the socket, and the
\* listener on its 'close' is in place.
AbortHandshake(c) ==
    /\ sock[c] = "checking" /\ ~banned /\ c \notin hungUp
    /\ Become(c, "aborted")
    /\ UNCHANGED <<limiterVars, shuttingDown, hungUp, clients, subject, wsFaults, leaked, drifted>>
    /\ UNCHANGED <<subVars, missed>>

\* Not banned, but the socket's 'close' came before there was a listener for it.
UpgradeTooLate(c) ==
    /\ sock[c] = "checking" /\ ~banned /\ c \in hungUp
    /\ Become(c, "closed") /\ leaked' = leaked \cup {c}
    /\ UNCHANGED <<limiterVars, shuttingDown, hungUp, clients, subject, wsFaults, drifted>>
    /\ UNCHANGED <<subVars, missed>>

\* The sliding windows move on, or the ban's TTL ends.
WindowEnds ==
    /\ wsFaults < MaxWsFaults /\ wsFaults' = wsFaults + 1
    /\ \E k \in Key : /\ attempts[k] + rejections[k] > 0
                      /\ attempts' = [attempts EXCEPT ![k] = 0]
                      /\ rejections' = [rejections EXCEPT ![k] = 0]
    /\ banned' \in {banned, FALSE}
    /\ UNCHANGED <<counts, active, shuttingDown, sock, hungUp, clients, subject, leaked, drifted>>
    /\ UNCHANGED <<subVars, missed>>

----------------------------------------------------------------------------
(* The connection                                                          *)

UntrackAgain(c) == Untrack(subject[c])     \* mutant: onDisconnect without the look at the registry
UntrackOnce(c) ==
    \/ c \in clients /\ Untrack(subject[c])
    \/ c \notin clients /\ UNCHANGED <<counts, active>>

\* onDisconnect: nothing but for a registered socket.
OnDisconnect(c) ==
    /\ UntrackOnce(c)
    /\ index' = [s \in Stream |-> IF s \in filters[c] THEN index[s] \ {c} ELSE index[s]]
    /\ filters' = [filters EXCEPT ![c] = {}]
    /\ clients' = clients \ {c}

\* The socket's 'close' event.
SocketCloses(c) ==
    /\ \/ /\ sock[c] = "checking" /\ c \notin hungUp
          /\ hungUp' = hungUp \cup {c}
          /\ UNCHANGED <<sock, counts, active, clients, filters, index>>
       \/ /\ sock[c] = "aborted"
          /\ Become(c, "closed") /\ Untrack(Identity[c])
          /\ UNCHANGED <<hungUp, clients, filters, index>>
       \/ /\ sock[c] \in {"open", "closing"}
          /\ Become(c, "closed") /\ OnDisconnect(c) /\ UNCHANGED hungUp
    /\ UNCHANGED <<attempts, rejections, banned, shuttingDown, subject, asked, wsFaults, leaked, drifted>>
    /\ UNCHANGED missed

\* The back-pressure layer terminates a socket and releases its state at once;
\* the 'close' event follows.
TerminateSlow(c) ==
    /\ sock[c] = "open"
    /\ Become(c, "closing") /\ OnDisconnect(c)
    /\ UNCHANGED <<attempts, rejections, banned, shuttingDown, hungUp, subject, asked, wsFaults, leaked, drifted>>
    /\ UNCHANGED missed

\* runHealthProbes: one pass over the registry.
RunHealthProbes ==
    LET open == {c \in clients : sock[c] = "open"}
        gone == {c \in open : missed[c] >= MaxMissed} IN
    /\ open # {}
    /\ sock' = [c \in Conn |-> IF c \in gone THEN "closing" ELSE sock[c]]
    /\ missed' = [c \in Conn |-> IF c \in open \ gone THEN missed[c] + 1 ELSE missed[c]]
    /\ UNCHANGED <<limiterVars, shuttingDown, hungUp, clients, subject, wsFaults, leaked, drifted>>
    /\ UNCHANGED subVars

\* A peer that stops answering is one for which this is not taken.
Pong(c) ==
    /\ c \in clients /\ missed[c] > 0
    /\ missed' = [missed EXCEPT ![c] = 0]
    /\ UNCHANGED <<limiterVars, shuttingDown, sock, hungUp, clients, subject, wsFaults, leaked, drifted>>
    /\ UNCHANGED subVars

\* gracefulDrain: every open socket is closed, later upgrades are refused.
GracefulDrain ==
    /\ ~shuttingDown /\ shuttingDown' = TRUE
    /\ sock' = [c \in Conn |-> IF sock[c] = "open" THEN "closing" ELSE sock[c]]
    /\ UNCHANGED <<limiterVars, hungUp, clients, subject, wsFaults, leaked, drifted, subVars, missed>>

----------------------------------------------------------------------------
(* Subscriptions                                                           *)

\* A message of a registered socket; its stream is looked up in the database.
HandleMessage(c, op, s) ==
    /\ c \in clients /\ sock[c] = "open" /\ <<c, op, s>> \notin asked
    /\ Cardinality(asked) < MaxAsked
    /\ asked' = asked \cup {<<c, op, s>>}
    /\ UNCHANGED <<limiterVars, shuttingDown, sock, hungUp, clients, subject, filters, index>>
    /\ UNCHANGED <<wsFaults, leaked, drifted, missed>>

StillAsked(c, s) ==      \* mutant: the state read before the await is used after it
    s \notin filters[c] /\ Cardinality(filters[c]) < MaxSubscriptions
Admits(c, s) ==
    c \in clients /\ s \notin filters[c] /\ Cardinality(filters[c]) < MaxSubscriptions

\* authorize has answered; a refusal, or an answer too late, changes nothing.
Authorized(c, op, s) ==
    /\ <<c, op, s>> \in asked
    /\ asked' = asked \ {<<c, op, s>>}
    /\ \/ UNCHANGED <<filters, index>>
       \/ /\ op = "subscribe" /\ Admits(c, s)
          /\ filters' = [filters EXCEPT ![c] = @ \cup {s}]
          /\ index' = [index EXCEPT ![s] = @ \cup {c}]
       \/ /\ op = "unsubscribe" /\ c \in clients /\ s \in filters[c]
          /\ filters' = [filters EXCEPT ![c] = @ \ {s}]
          /\ index' = [index EXCEPT ![s] = @ \ {c}]
    /\ UNCHANGED <<limiterVars, shuttingDown, sock, hungUp, clients, subject, wsFaults, leaked, drifted>>
    /\ UNCHANGED missed

\* disconnectStreamSubscribers: the stream's index goes at once, the filters of
\* its sockets when they are closed.
DisconnectByStreamId(s) ==
    /\ index[s] # {}
    /\ index' = [index EXCEPT ![s] = {}]
    /\ sock' = [c \in Conn |-> IF c \in index[s] /\ sock[c] = "open" THEN "closing" ELSE sock[c]]
    /\ UNCHANGED <<limiterVars, shuttingDown, hungUp, clients, subject, filters, asked, wsFaults, leaked, drifted>>
    /\ UNCHANGED missed

----------------------------------------------------------------------------

Next ==
    \/ \E c \in Conn : \/ Upgrade(c) \/ BanRefuses(c) \/ Accept(c) \/ AbortHandshake(c)
                       \/ UpgradeTooLate(c) \/ SocketCloses(c) \/ TerminateSlow(c)
                       \/ Pong(c)
                       \/ \E op \in {"subscribe", "unsubscribe"}, s \in Stream :
                             HandleMessage(c, op, s) \/ Authorized(c, op, s)
    \/ \E s \in Stream : DisconnectByStreamId(s)
    \/ RunHealthProbes \/ GracefulDrain \/ WindowEnds

Spec == Init /\ [][Next]_wsVars

----------------------------------------------------------------------------
(* Properties                                                              *)

Slots(k) == {c \in Conn : \/ sock[c] \in {"checking", "aborted"} /\ Identity[c] = k
                          \/ c \in clients /\ subject[c] = k
                          \/ c \in leaked /\ Identity[c] = k}

\* What the counter of a key stands for: its upgrades under way, its registered
\* connections, and the slots of peers that hung up during the ban check, which
\* nobody gives back.  No slot is given back twice, whichever of terminate, close
\* and cleanup meet on a socket, and that one exit is the only one that gives back
\* none; NoLeaks below is the claim that there is none.
SlotsAccounted == drifted \/ \A k \in Key : counts[k] = Cardinality(Slots(k))

\* The per-key cap holds for the connections that are open, however upgrades
\* interleave with the ban check.
CapHolds ==
    drifted \/ \A k \in Key : Cardinality({c \in clients : Identity[c] = k}) <= MaxConnections

\* Fan-out never meets a socket that is gone: whoever is in a stream's index is
\* registered and has the filter, although authorisation may answer after the
\* connection was closed.
NoDeadSubscribers ==
    \A s \in Stream : index[s] \subseteq {c \in clients : s \in filters[c]}

\* The exits of a connection, whichever meet on one socket, give back its
\* subscriptions, and its slot once, but for a peer that hangs up during its ban
\* check, whose slot stays taken; the cap holds for what is open.
ConnectionsAccounted == TypeOK /\ SlotsAccounted /\ CapHolds /\ NoDeadSubscribers

----------------------------------------------------------------------------
(* A claim that TLC refutes                                                *)

\* "The counter is decremented exactly once per successful reservation" and "No
\* leaks under concurrent close events" (upgradeHandler.ts:82, 84, 88): no slot
\* stays taken without a connection.  The listener that gives it back is put on the
\* socket after the awaited ban check; a 'close' during the check is not heard.
NoLeaks == leaked = {}
============================================================================

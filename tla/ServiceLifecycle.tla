-------------------------- MODULE ServiceLifecycle --------------------------
(***************************************************************************)
(* One process from its start to the end of its shutdown: index.ts,        *)
(* startup/readiness.ts, middleware/readinessGuard.ts, shutdown.ts and the *)
(* hooks app.ts registers.                                                 *)
(*                                                                         *)
(* A connection carries requests one after the other: ordinary ones, whose *)
(* handlers end by themselves even when the client has left, and event     *)
(* streams, which end with their connection.  A start that fails exits the *)
(* process before it listens and is not modelled; node's server.close() is *)
(* external: it calls back when no connection is left.                     *)
(***************************************************************************)
EXTENDS Naturals

CONSTANTS
    Conn,            \* connections
    Streams,         \* those that ask for an event stream
    NumHooks,        \* shutdown hooks
    MaxSignals       \* bound: SIGTERM and SIGINT received

VARIABLES
    startupPhase,    \* ReadinessManager's state.phase; state.ready is phase = READY
    resuming,        \* resumeIncompleteReplay: "no", "running", "over"
    link,            \* per connection: "none", "open", "closed"
    request,         \* per connection: "none", "asking" (being received), "handled"
    shuttingDown,
    closing,         \* server.close() has yet to call back
    forceTimer,
    finished,        \* `settled': finish() has been entered
    hook,            \* hooks that are done, once finish() was entered
    loops,           \* how often the hooks were started
    forced,          \* history: finish(true)
    lateReady,       \* history: the resume ended while shutting down
    admitted,        \* history: connections served by a request that came during shutdown
    signals

lifeVars == <<startupPhase, resuming, link, request, shuttingDown, closing, forceTimer,
              finished, hook, loops, forced, lateReady, admitted, signals>>

Phase == {"INITIALIZING", "DEPENDENCIES_READY", "READY", "SHUTTING_DOWN"}
Ready == startupPhase = "READY"

LifeTypeOK ==
    /\ startupPhase \in Phase /\ resuming \in {"no", "running", "over"}
    /\ link \in [Conn -> {"none", "open", "closed"}] /\ request \in [Conn -> {"none", "asking", "handled"}]
    /\ shuttingDown \in BOOLEAN /\ closing \in BOOLEAN /\ forceTimer \in BOOLEAN
    /\ finished \in BOOLEAN /\ forced \in BOOLEAN /\ lateReady \in BOOLEAN
    /\ hook \in 0..NumHooks /\ loops \in Nat /\ admitted \subseteq Conn
    /\ signals \in 0..MaxSignals

Init ==
    /\ startupPhase = "INITIALIZING" /\ resuming = "no"
    /\ link = [c \in Conn |-> "none"] /\ request = [c \in Conn |-> "none"]
    /\ shuttingDown = FALSE /\ closing = FALSE /\ forceTimer = FALSE /\ finished = FALSE
    /\ hook = 0 /\ loops = 0 /\ forced = FALSE /\ lateReady = FALSE /\ admitted = {}
    /\ signals = 0

stopVars == <<shuttingDown, closing, forceTimer, finished, hook, loops, forced, signals>>

----------------------------------------------------------------------------
\* The probes have passed: listen, start the resume, install the signal handlers.
Listen ==
    /\ startupPhase = "INITIALIZING" /\ startupPhase' = "DEPENDENCIES_READY"
    /\ resuming' = "running"
    /\ UNCHANGED <<link, request, stopVars, lateReady, admitted>>

\* The resume ends, either way: the four marks, the last of which is markReady().
PhaseStuck == "DEPENDENCIES_READY"       \* mutant: nobody calls markReady()
PhaseAfterResume == "READY"
ResumeEnds ==
    /\ resuming = "running" /\ resuming' = "over"
    /\ startupPhase' = PhaseAfterResume
    /\ lateReady' = shuttingDown
    /\ UNCHANGED <<link, request, stopVars, admitted>>

Connect(c) ==
    /\ startupPhase # "INITIALIZING" /\ ~shuttingDown
    /\ link[c] = "none" /\ link' = [link EXCEPT ![c] = "open"]
    /\ UNCHANGED <<startupPhase, resuming, request, stopVars, lateReady, admitted>>

\* A client begins to send a request, on a connection kept alive as well.
Ask(c) ==
    /\ link[c] = "open" /\ request[c] = "none"
    /\ request' = [request EXCEPT ![c] = "asking"]
    /\ UNCHANGED <<startupPhase, resuming, link, stopVars, lateReady, admitted>>

\* readinessGuardMiddleware: everything but a ready process answers 503, on a
\* connection that stays open.
GuardOpen == startupPhase \in {"READY", "SHUTTING_DOWN"}   \* mutant: only the startup is guarded
Guard == Ready
Arrive(c) ==
    /\ link[c] = "open" /\ request[c] = "asking"
    /\ request' = [request EXCEPT ![c] = IF Guard THEN "handled" ELSE "none"]
    /\ admitted' = IF Guard /\ shuttingDown THEN admitted \cup {c} ELSE admitted
    /\ UNCHANGED <<startupPhase, resuming, link, stopVars, lateReady>>

\* The handler of an ordinary request ends.
Respond(c) ==
    /\ request[c] = "handled" /\ c \notin Streams
    /\ request' = [request EXCEPT ![c] = "none"]
    /\ UNCHANGED <<startupPhase, resuming, link, stopVars, lateReady, admitted>>

\* What is left of the requests when the connections in S close: handlers of
\* ordinary requests run on, streams end.
Without(S) ==
    [c \in Conn |-> IF c \notin S \/ (request[c] = "handled" /\ c \notin Streams)
                    THEN request[c] ELSE "none"]

\* The client closes the connection, or it was idle for too long.
Disconnect(c) ==
    /\ link[c] = "open" /\ link' = [link EXCEPT ![c] = "closed"]
    /\ request' = Without({c})
    /\ UNCHANGED <<startupPhase, resuming, stopVars, lateReady, admitted>>

----------------------------------------------------------------------------
(* gracefulShutdown                                                        *)

AnySignal == TRUE       \* mutant: the second signal starts another shutdown
FirstSignal == ~shuttingDown

\* markShuttingDown(), server.close(), closeIdleConnections(); a second signal
\* is ignored.
Signal ==
    /\ startupPhase # "INITIALIZING"
    /\ signals < MaxSignals /\ signals' = signals + 1
    /\ IF FirstSignal
       THEN /\ shuttingDown' = TRUE /\ startupPhase' = "SHUTTING_DOWN"
            /\ closing' = TRUE /\ forceTimer' = TRUE /\ finished' = FALSE /\ hook' = 0
            /\ link' = [c \in Conn |-> IF link[c] = "open" /\ request[c] = "none" THEN "closed" ELSE link[c]]
       ELSE UNCHANGED <<shuttingDown, startupPhase, closing, forceTimer, finished, hook, link>>
    /\ UNCHANGED <<resuming, request, loops, forced, lateReady, admitted>>

FinishAgain ==       \* mutant: without `if (settled) return'
    finished' = TRUE /\ loops' = loops + 1
\* finish(): entered once.
Finish ==
    /\ finished' = TRUE
    /\ loops' = IF finished THEN loops ELSE loops + 1

\* The callback of server.close().
ServerClosed ==
    /\ closing /\ \A c \in Conn : link[c] # "open"
    /\ closing' = FALSE /\ forceTimer' = FALSE
    /\ Finish
    /\ UNCHANGED <<startupPhase, resuming, link, request, shuttingDown, hook, forced,
                   lateReady, admitted, signals>>

\* The timeout is exceeded: closeAllConnections().
ForceClose ==
    /\ forceTimer /\ forceTimer' = FALSE
    /\ forced' = TRUE /\ Finish
    /\ link' = [c \in Conn |-> IF link[c] = "open" THEN "closed" ELSE link[c]]
    /\ request' = Without(Conn)
    /\ UNCHANGED <<startupPhase, resuming, shuttingDown, closing, hook, lateReady, admitted, signals>>

\* The next hook ends, or throws and is logged.
RunHook ==
    /\ finished /\ hook < NumHooks /\ hook' = hook + 1
    /\ UNCHANGED <<startupPhase, resuming, link, request, shuttingDown, closing, forceTimer,
                   finished, loops, forced, lateReady, admitted, signals>>

Progress == ServerClosed \/ ForceClose \/ RunHook

Next ==
    \/ Listen \/ ResumeEnds \/ Signal \/ Progress
    \/ \E c \in Conn : Connect(c) \/ Ask(c) \/ Arrive(c) \/ Respond(c) \/ Disconnect(c)

Spec == Init /\ [][Next]_lifeVars

\* The force timer fires, and hooks come back.
FairSpec == Spec /\ WF_lifeVars(Progress)

----------------------------------------------------------------------------
(* Properties                                                              *)

\* When the hooks run without force, no handler is left that could use what they
\* close, but those whose client has gone; the hooks are started once.
HandlersBeforeHooks ==
    /\ loops <= 1
    /\ finished /\ ~forced => \A c \in Conn : request[c] = "handled" => link[c] = "closed" /\ c \notin Streams

\* Only a resume that ends too late makes a process that shuts down ready again,
\* and lets requests in.
ReadyOnlyWhenLate == shuttingDown /\ (Ready \/ admitted # {}) => lateReady

\* Two signals, the callback of server.close(), the force timer and a resume that
\* ends late, in any order: the hooks are started once, after the handlers that
\* use what they close, and a process that shuts down stays unready.  What it does
\* to event streams is StreamsAreDrained below.
LifecycleSafe == LifeTypeOK /\ HandlersBeforeHooks /\ ReadyOnlyWhenLate

\* A process that listens becomes ready unless it is told to stop, when its resume
\* ends; one that is told to stop runs all its hooks.
ShutdownCompletes == shuttingDown ~> finished /\ hook = NumHooks
ReadyWhenResumed == resuming = "over" ~> Ready \/ shuttingDown

----------------------------------------------------------------------------
(* Claims that TLC refutes; see the README's list of disagreements.        *)

\* "During SHUTTING_DOWN: returns 503 (rejects new work during graceful shutdown)."
ShutdownRejects == admitted = {}

\* "Drain SSE: write retry:0 to open event-stream responses" (app.ts:424): the
\* process ends a stream in its hooks, not before them, unless the client leaves
\* first.  The hooks wait for server.close() (shutdown.ts:114), which waits for the
\* streams: either their clients leave, or the force timer cuts them off, and the
\* hook finds no stream to write to.
StreamsAreDrained ==
    [][\A c \in Streams : request[c] = "handled" /\ request'[c] = "none"
          => finished \/ Disconnect(c)]_lifeVars
=============================================================================

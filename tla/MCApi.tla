------------------------------- MODULE MCApi --------------------------------
(***************************************************************************)
(* StreamRecords, StreamCreation, AdminState and RateLimiting in one run   *)
(* of TLC.  As modelled, they share no state, so a behaviour moves one of  *)
(* them only: `focus' names it.                                            *)
(***************************************************************************)
EXTENDS StreamRecords, TLC

CONSTANTS
    Poster, IdemKey, Timed, Untimed, MaxTime, MaxOutages, MaxEnds,
    Proc, AdminCall, Home, Flag, MaxAdminCalls, MaxFaults, MaxLapses, MaxKills,
    MaxHits, Limit, Window, Latency, MaxClock,
    a1, a2, p1, p2, e1, e2, e3, r1, r2, k1, b1, b2, c1, c2, c3

VARIABLES
    focus,
    time, healthy, redisUp, store, streams, lagging, post, outages, ends, answers, loose,
    wired, memory, file, reindex, lockKey, lockFile, staleFile, request, calls, faults,
    lapsed, kills, overlapped, writer, intended,
    clock, connected, entries, touched, hit, seen, verdicts

ASSUME CreationAssumption ==
    "none" \notin Timed \cup Untimed /\ {MaxTime, MaxOutages, MaxEnds} \subseteq Nat

ASSUME AdminAssumption ==
    /\ Home \in [AdminCall -> Proc]
    /\ "nobody" \notin AdminCall \cup Proc /\ "dead" \notin AdminCall
    /\ {MaxAdminCalls, MaxFaults, MaxLapses, MaxKills} \subseteq Nat

ASSUME LimitAssumption == {MaxHits, Limit, Window, Latency, MaxClock} \subseteq Nat

createVars == <<time, healthy, redisUp, store, streams, lagging, post, outages, ends,
                answers, loose>>
adminVars == <<wired, memory, file, reindex, lockKey, lockFile, staleFile, request, calls,
               faults, lapsed, kills, overlapped, writer, intended>>
limitVars == <<clock, connected, entries, touched, hit, seen, verdicts>>

Creation == INSTANCE StreamCreation
Admin == INSTANCE AdminState
Limiter == INSTANCE RateLimiting

\* Each handler call on a server of its own.
MCServerOf == [a \in Actor |-> IF a = a1 THEN p1 ELSE p2]
\* One event of each type; the update only changes amounts.
MCType == [e \in Event |-> IF e = e1 THEN "created" ELSE IF e = e2 THEN "updated" ELSE "cancelled"]
MCStatus == [e \in Event |-> "none"]
\* Two admin requests to one process and one to the other.
MCHome == [c \in AdminCall |-> IF c = c3 THEN p2 ELSE p1]

MCInit ==
    /\ focus \in {"records", "creation", "admin", "limiter"}
    /\ Init
    /\ Creation!Init /\ Limiter!Init
    /\ Admin!Init /\ (focus = "admin" \/ wired)

MCNext ==
    \/ focus = "records" /\ Next /\ UNCHANGED <<focus, createVars, adminVars, limitVars>>
    \/ focus = "creation" /\ Creation!Next /\ UNCHANGED <<focus, streamVars, adminVars, limitVars>>
    \/ focus = "admin" /\ Admin!Next /\ UNCHANGED <<focus, streamVars, createVars, limitVars>>
    \/ focus = "limiter" /\ Limiter!Next /\ UNCHANGED <<focus, streamVars, createVars, adminVars>>

MCSpec == MCInit /\ [][MCNext]_<<focus, streamVars, createVars, adminVars, limitVars>>

----------------------------------------------------------------------------
\* The properties of the other modules, as they state them.
KeyMeansOneStream == Creation!KeyMeansOneStream
AdminStateSafe == Admin!AdminStateSafe
LimitExact == Limiter!LimitExact
============================================================================

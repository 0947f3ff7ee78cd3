------------------------- MODULE MCCircuitBreaker --------------------------
(***************************************************************************)
(* The circuit breakers in one run of TLC: that of webhook consumers, with *)
(* its Redis store and with its in-memory store, and that of StellarRpc.   *)
(* Each has state, calls and times of its own: `focus' names the one that  *)
(* moves.  The fairness is that of each module's FairSpec, for the one in  *)
(* focus.                                                                  *)
(***************************************************************************)
EXTENDS CircuitBreaker, TLC

CONSTANTS c1, c2, c3, MemoryCall, MemoryMs, MemoryFailures,
    Caller, FailureThreshold, WindowMs, ResetTimeoutMs, TtlMs, MaxAgeMs, RedisMs

VARIABLES focus, memRec, memProbe, memPc, memAge, memRead, memProbing,
    circuit, failures, openFor, cache, sets, stage, outdated, recovered, earned

ASSUME MemoryAssumption == MemoryMs \in Nat \ {0} /\ MemoryFailures \in Nat
ASSUME RpcAssumption ==
    /\ {WindowMs, ResetTimeoutMs, MaxAgeMs, RedisMs} \subseteq Nat
    /\ {FailureThreshold, TtlMs} \subseteq Nat \ {0} /\ "refresh" \notin Caller

memVars == <<memRec, memProbe, memPc, memAge, memRead, memProbing>>
rpcVars == <<circuit, failures, openFor, cache, sets, stage, outdated, recovered, earned>>

Rpc == INSTANCE StellarRpc

\* ResetMs and ProbeMs are equal for reset times below a minute.
Memory == INSTANCE CircuitBreakerMemory
            WITH rec <- memRec, probe <- memProbe, pc <- memPc, age <- memAge,
                 read <- memRead, probing <- memProbing,
                 Call <- MemoryCall, ResetMs <- MemoryMs, ProbeMs <- MemoryMs,
                 RecordMs <- 2 * MemoryMs, RedisErrors <- FALSE, MaxFailures <- MemoryFailures

MCInit == focus \in {"redis", "memory", "rpc"} /\ Init /\ Memory!Init /\ Rpc!Init

MCNext ==
    \/ focus = "redis" /\ Next /\ UNCHANGED <<focus, memVars, rpcVars>>
    \/ focus = "memory" /\ Memory!MemNext /\ UNCHANGED <<focus, vars, rpcVars>>
    \/ focus = "rpc" /\ Rpc!Next /\ UNCHANGED <<focus, vars, memVars>>

MCSpec ==
    /\ MCInit /\ [][MCNext]_<<focus, vars, memVars, rpcVars>>
    /\ WF_vars(focus = "redis" /\ Tick)
    /\ \A c \in Call : WF_vars(focus = "redis" /\ (Progress(c) \/ CheckError(c) \/ RecordError(c) \/ Crash(c)))
    /\ WF_rpcVars(focus = "rpc" /\ Rpc!Tick) /\ WF_rpcVars(focus = "rpc" /\ Rpc!Written)
    /\ \A c \in Caller : /\ WF_rpcVars(focus = "rpc" /\ Rpc!CallWithFallbackCache(c))
                         /\ WF_rpcVars(focus = "rpc" /\ (Rpc!Miss(c) \/ Rpc!Hit(c)))
                         /\ WF_rpcVars(focus = "rpc" /\ Rpc!FallBack(c))
    /\ \A c \in Caller \cup {Rpc!Refresh} : WF_rpcVars(focus = "rpc" /\ Rpc!Proceed(c))

----------------------------------------------------------------------------
\* "replicas sharing a circuit do not each fire one", for the in-memory store:
\* no two half-open probes are under way at once.
MemoryAtMostOneProbe == Memory!AtMostOneProbe

\* The invariants of StellarRpc, as that module states them.
FallbackJustified == Rpc!FallbackJustified

\* No circuit stays closed to its callers for ever: the pause of a webhook consumer
\* ends, and the circuit of the Stellar RPC client closes once the provider has
\* recovered.
CircuitsRecover == PauseEnds /\ Rpc!RecoveryCloses
============================================================================

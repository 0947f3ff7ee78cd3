----------------------------- MODULE AdminState ----------------------------
(***************************************************************************)
(* Operator controls of several server processes (state/adminState.ts) and *)
(* the lock they share (state/adminStateLock.ts): pause flags kept in each *)
(* process's memory and in one file, and the reindex job.  The lock is a   *)
(* Redis key with a lease, or a lock file when Redis fails; the lease is   *)
(* never renewed.  A call's lock value is unique, so the model uses the    *)
(* call itself.                                                            *)
(***************************************************************************)
EXTENDS Naturals, FiniteSets

CONSTANTS
    Proc,          \* server processes of one host, sharing Redis and the disk
    AdminCall,     \* admin requests under way at once
    Home,          \* [AdminCall -> Proc]: the process that serves the request
    Flag,          \* streamCreation, ingestion
    MaxAdminCalls, \* bound: requests made
    MaxFaults,     \* bound: failed Redis commands and file writes
    MaxLapses,     \* bound: holders whose lease ends under them
    MaxKills       \* bound: process crashes

Nobody == "nobody"
Dead == "dead"            \* the value of a holder whose process crashed
Namespace == {"pauseFlags", "reindex"}

VARIABLES
    wired,         \* initializeAdminStateLock was called (Redis is enabled)
    memory,        \* state.pauseFlags of each process
    file,          \* pause flags in ADMIN_STATE_FILE
    reindex,       \* state.reindex.status of each process
    lockKey,       \* Redis: the value of each namespace's key
    lockFile,      \* disk: the value in each namespace's lock file
    staleFile,     \* the lock file is older than leaseMs
    request,       \* each request: where it stands, the namespace of its lock, the
                   \* flags it wants to store, and the lock it holds
    calls, faults, kills,
    lapsed,        \* history: calls whose lease ended while they held the lock
    overlapped,    \* history: pause calls overlapped, or two processes made one
    writer,        \* history: the only process that made pause calls so far
    intended       \* history: the flags after the successful pause calls, in order

adminVars == <<wired, memory, file, reindex, lockKey, lockFile, staleFile, request,
               calls, faults, lapsed, kills, overlapped, writer, intended>>
lockVars == <<lockKey, lockFile, staleFile>>
history == <<overlapped, writer, intended>>

Flags == SUBSET Flag      \* pause flags, as the set of those that are on
TypeOK ==
    /\ wired \in BOOLEAN
    /\ memory \in [Proc -> Flags] /\ file \in Flags
    /\ reindex \in [Proc -> {"idle", "running", "completed", "failed"}]
    /\ lockKey \in [Namespace -> AdminCall \cup {Nobody, Dead}]
    /\ lockFile \in [Namespace -> AdminCall \cup {Nobody, Dead}]
    /\ staleFile \in [Namespace -> BOOLEAN]
    /\ request \in [AdminCall -> [at : {"idle", "acquire", "acquireFile", "steal", "hold", "job",
                                     "written", "done", "apply"},
                               ns : Namespace, next : Flags, via : {"none", "redis", "file"}]]
    /\ calls \in 0..MaxAdminCalls /\ faults \in 0..MaxFaults
    /\ lapsed \subseteq AdminCall /\ kills \in 0..MaxKills
    /\ overlapped \in BOOLEAN /\ writer \in Proc \cup {Nobody} /\ intended \in Flags

Idle == [at |-> "idle", ns |-> "pauseFlags", next |-> {}, via |-> "none"]

Init ==
    /\ wired \in BOOLEAN
    /\ memory = [p \in Proc |-> {}] /\ file = {} /\ intended = {}
    /\ reindex = [p \in Proc |-> "idle"]
    /\ lockKey = [n \in Namespace |-> Nobody]
    /\ lockFile = [n \in Namespace |-> Nobody]
    /\ staleFile = [n \in Namespace |-> FALSE]
    /\ request = [c \in AdminCall |-> Idle]
    /\ calls = 0 /\ faults = 0 /\ lapsed = {} /\ kills = 0
    /\ overlapped = FALSE /\ writer = Nobody

Holding(c, n) == request[c].at \in {"hold", "job", "written", "done"} /\ request[c].ns = n
----------------------------------------------------------------------------
(* setPauseFlags and triggerReindex up to the lock                         *)

\* The flags to store come from the memory at the call, before any lock: the
\* request turns some on and others off and leaves the rest.
SetPauseFlags(c, on, off) ==
    LET p == Home[c]
        new == (memory[p] \cup on) \ off IN
    /\ request[c].at = "idle" /\ calls < MaxAdminCalls
    /\ new # memory[p]
    /\ calls' = calls + 1
    /\ request' = [request EXCEPT ![c].at = "acquire", ![c].next = new]
    /\ writer' = p
    /\ overlapped' = (\/ overlapped \/ writer \notin {p, Nobody}
                      \/ \E d \in AdminCall \ {c} : request[d].at # "idle" /\ request[d].ns = "pauseFlags")
    /\ UNCHANGED <<wired, memory, file, reindex, faults, lapsed, kills, intended>> /\ UNCHANGED lockVars

\* Without a configured lock the job starts at once.
TriggerReindex(c) ==
    /\ request[c].at = "idle" /\ calls < MaxAdminCalls /\ reindex[Home[c]] # "running"
    /\ calls' = calls + 1
    /\ request' = [request EXCEPT ![c].ns = "reindex", ![c].at = IF wired THEN "acquire" ELSE "job"]
    /\ \/ wired /\ UNCHANGED reindex
       \/ ~wired /\ reindex' = [reindex EXCEPT ![Home[c]] = "running"]
    /\ UNCHANGED <<wired, memory, file, faults, lapsed, kills>> /\ UNCHANGED <<lockVars, history>>

----------------------------------------------------------------------------
(* RedisDistributedLock                                                    *)

\* setNx of NoOpRedisClient: always true, and nothing is stored.
SetNxNoOp(c) ==
    /\ request[c].at = "acquire" /\ ~wired
    /\ request' = [request EXCEPT ![c].at = "hold"]
    /\ UNCHANGED <<wired, memory, file, reindex, calls, faults, lapsed, kills>> /\ UNCHANGED <<lockVars, history>>

SetNx(c) ==
    /\ request[c].at = "acquire" /\ wired /\ lockKey[request[c].ns] = Nobody
    /\ lockKey' = [lockKey EXCEPT ![request[c].ns] = c]
    /\ request' = [request EXCEPT ![c].at = "hold", ![c].via = "redis"]
    /\ UNCHANGED <<wired, memory, file, reindex, lockFile, staleFile, calls, faults, lapsed, kills>> /\ UNCHANGED history

\* setNx throws, with the key set or not: the file lock takes over.
SetNxFails(c) ==
    /\ request[c].at = "acquire" /\ wired /\ faults < MaxFaults
    /\ faults' = faults + 1
    /\ lockKey' \in {lockKey} \cup {[lockKey EXCEPT ![request[c].ns] = c] : n \in {m \in {request[c].ns} : lockKey[m] = Nobody}}
    /\ request' = [request EXCEPT ![c].at = "acquireFile"]
    /\ UNCHANGED <<wired, memory, file, reindex, lockFile, staleFile, calls, lapsed, kills>> /\ UNCHANGED history

\* open(O_CREAT | O_EXCL)
CreateLockFile(c) ==
    /\ request[c].at = "acquireFile" /\ lockFile[request[c].ns] = Nobody
    /\ lockFile' = [lockFile EXCEPT ![request[c].ns] = c]
    /\ staleFile' = [staleFile EXCEPT ![request[c].ns] = FALSE]
    /\ request' = [request EXCEPT ![c].at = "hold", ![c].via = "file"]
    /\ UNCHANGED <<wired, memory, file, reindex, lockKey, calls, faults, lapsed, kills>> /\ UNCHANGED history

\* _stealStaleFileLock: two stats, then the unlink, with other processes in between.
StatStale(c) ==
    /\ request[c].at = "acquireFile" /\ staleFile[request[c].ns]
    /\ request' = [request EXCEPT ![c].at = "steal"]
    /\ UNCHANGED <<wired, memory, file, reindex, calls, faults, lapsed, kills>> /\ UNCHANGED <<lockVars, history>>

StealLockFile(c) ==
    /\ request[c].at = "steal"
    /\ lockFile' = [lockFile EXCEPT ![request[c].ns] = Nobody]
    /\ staleFile' = [staleFile EXCEPT ![request[c].ns] = FALSE]
    /\ request' = [request EXCEPT ![c].at = "acquireFile"]
    /\ UNCHANGED <<wired, memory, file, reindex, lockKey, calls, faults, lapsed, kills>> /\ UNCHANGED history

\* timeoutMs of polling: the call fails, or returns the current reindex state.
AcquireTimesOut(c) ==
    /\ \/ request[c].at = "acquire" /\ wired /\ lockKey[request[c].ns] # Nobody
       \/ request[c].at = "acquireFile" /\ lockFile[request[c].ns] # Nobody
    /\ request' = [request EXCEPT ![c] = Idle]
    /\ UNCHANGED <<wired, memory, file, reindex, calls, faults, lapsed, kills>> /\ UNCHANGED <<lockVars, history>>

DelAnyValue(c) ==                 \* mutant: del instead of delIfValue
    IF request[c].via = "redis" THEN [lockKey EXCEPT ![request[c].ns] = Nobody] ELSE lockKey
\* delIfValue: only the caller's own value is deleted.
DelIfValue(c) ==
    IF request[c].via = "redis" /\ lockKey[request[c].ns] = c THEN [lockKey EXCEPT ![request[c].ns] = Nobody] ELSE lockKey

\* A call that is done with its lock: setPauseFlags goes on to apply the flags if
\* they were written, everything else is over.
Release(c) ==
    /\ \/ request[c].at \in {"written", "done"}
       \/ request[c].at = "hold" /\ request[c].ns = "reindex" /\ reindex[Home[c]] = "running"
    /\ \/ /\ lockKey' = DelIfValue(c)
          /\ lockFile' = IF request[c].via = "file" /\ lockFile[request[c].ns] = c
                         THEN [lockFile EXCEPT ![request[c].ns] = Nobody] ELSE lockFile
          /\ UNCHANGED faults
       \/ /\ faults < MaxFaults /\ request[c].via # "none"         \* logged; the lease will end it
          /\ faults' = faults + 1 /\ UNCHANGED <<lockKey, lockFile>>
    /\ request' = [request EXCEPT ![c] = IF @.at = "written" THEN [@ EXCEPT !.at = "apply", !.via = "none"] ELSE Idle]
    /\ UNCHANGED <<wired, memory, file, reindex, staleFile, calls, lapsed, kills>> /\ UNCHANGED history

\* PX leaseMs: the key goes away by itself; a lock file becomes stale.
LeaseEnds(n) ==
    /\ \/ /\ lockKey[n] # Nobody
          /\ lockKey' = [lockKey EXCEPT ![n] = Nobody] /\ UNCHANGED staleFile
          /\ \/ \E c \in AdminCall : lockKey[n] = c /\ Holding(c, n) /\ request[c].via = "redis"
                   /\ lapsed' = lapsed \cup {c} /\ Cardinality(lapsed') <= MaxLapses
             \/ ~(\E c \in AdminCall : lockKey[n] = c /\ Holding(c, n) /\ request[c].via = "redis") /\ UNCHANGED lapsed
       \/ /\ lockFile[n] # Nobody /\ ~staleFile[n]
          /\ staleFile' = [staleFile EXCEPT ![n] = TRUE] /\ UNCHANGED lockKey
          /\ \/ \E c \in AdminCall : lockFile[n] = c /\ Holding(c, n) /\ request[c].via = "file"
                   /\ lapsed' = lapsed \cup {c} /\ Cardinality(lapsed') <= MaxLapses
             \/ ~(\E c \in AdminCall : lockFile[n] = c /\ Holding(c, n) /\ request[c].via = "file") /\ UNCHANGED lapsed
    /\ UNCHANGED <<wired, memory, file, reindex, lockFile, request, calls, faults, kills>> /\ UNCHANGED history

----------------------------------------------------------------------------
(* Under the lock                                                          *)

\* Temporary file and rename: the whole file or nothing.
WriteFlags(c) ==
    /\ request[c].at = "hold" /\ request[c].ns = "pauseFlags"
    /\ file' = request[c].next /\ intended' = request[c].next
    /\ request' = [request EXCEPT ![c].at = "written"]
    /\ UNCHANGED <<wired, memory, reindex, calls, faults, lapsed, kills, overlapped, writer>> /\ UNCHANGED lockVars

WriteFails(c) ==
    /\ request[c].at = "hold" /\ request[c].ns = "pauseFlags" /\ faults < MaxFaults
    /\ faults' = faults + 1
    /\ request' = [request EXCEPT ![c].at = "done"]
    /\ UNCHANGED <<wired, memory, file, reindex, calls, lapsed, kills>> /\ UNCHANGED <<lockVars, history>>

ApplyNothing(c) == memory          \* mutant: only the file is updated
\* state.pauseFlags = next, after the lock was released.
Applied(c) == [memory EXCEPT ![Home[c]] = request[c].next]

ApplyFlags(c) ==
    /\ request[c].at = "apply"
    /\ memory' = Applied(c)
    /\ request' = [request EXCEPT ![c] = Idle]
    /\ UNCHANGED <<wired, file, reindex, calls, faults, lapsed, kills>> /\ UNCHANGED <<lockVars, history>>

NoRecheck(c) == TRUE               \* mutant: the status is not looked at again
\* The check after the await: a concurrent call of this process may have won.
StillIdle(c) == reindex[Home[c]] # "running"

StartReindexJob(c) ==
    /\ request[c].at = "hold" /\ request[c].ns = "reindex" /\ StillIdle(c)
    /\ reindex' = [reindex EXCEPT ![Home[c]] = "running"]
    /\ request' = [request EXCEPT ![c].at = "job"]
    /\ UNCHANGED <<wired, memory, file, calls, faults, lapsed, kills>> /\ UNCHANGED <<lockVars, history>>

RunReindexJob(c) ==
    /\ request[c].at = "job"
    /\ request' = [request EXCEPT ![c].at = "done"]
    /\ \E outcome \in {"completed", "failed"} : reindex' = [reindex EXCEPT ![Home[c]] = outcome]
    /\ UNCHANGED <<wired, memory, file, calls, faults, lapsed, kills>> /\ UNCHANGED <<lockVars, history>>

\* The process dies and starts again: memory comes from the file.
Crash(p) ==
    LET mine == {c \in AdminCall : Home[c] = p} IN
    /\ kills < MaxKills
    /\ kills' = kills + 1
    /\ memory' = [memory EXCEPT ![p] = file]
    /\ reindex' = [reindex EXCEPT ![p] = "idle"]
    /\ request' = [c \in AdminCall |-> IF c \in mine THEN Idle ELSE request[c]]
    /\ lockKey' = [n \in Namespace |-> IF lockKey[n] \in mine THEN Dead ELSE lockKey[n]]
    /\ lockFile' = [n \in Namespace |-> IF lockFile[n] \in mine THEN Dead ELSE lockFile[n]]
    /\ UNCHANGED <<wired, file, staleFile, calls, faults, lapsed>> /\ UNCHANGED history

Advance(c) ==
    \/ SetNxNoOp(c) \/ SetNx(c) \/ SetNxFails(c) \/ CreateLockFile(c) \/ StatStale(c)
    \/ StealLockFile(c) \/ AcquireTimesOut(c) \/ Release(c) \/ WriteFlags(c)
    \/ WriteFails(c) \/ ApplyFlags(c) \/ StartReindexJob(c) \/ RunReindexJob(c)

Next ==
    \/ \E c \in AdminCall :
          \/ \E on \in Flags : \E off \in SUBSET (Flag \ on) : SetPauseFlags(c, on, off)
          \/ TriggerReindex(c) \/ Advance(c)
    \/ \E n \in Namespace : LeaseEnds(n)
    \/ \E p \in Proc : Crash(p)

Spec == Init /\ [][Next]_adminVars

----------------------------------------------------------------------------
(* Properties                                                              *)

\* One process never runs two reindex jobs, however its calls overlap; two
\* processes do so only once a lease lapsed under the job, a Redis command
\* failed, or Redis is disabled.
OneReindexAtATime ==
    \A c, d \in AdminCall : c # d /\ request[c].at = "job" /\ request[d].at = "job" =>
        Home[c] # Home[d] /\ (lapsed # {} \/ faults > 0 \/ ~wired)

\* A late release never takes the lock from its new holder: who holds the
\* Redis lock and did not lose its lease still has its value in the key.
HolderKeepsKey ==
    \A c \in AdminCall : request[c].via = "redis" /\ c \notin lapsed => lockKey[request[c].ns] = c

\* Pause calls of one process, one after the other: the file and, when none is
\* under way, the process's memory hold what the last successful call stored,
\* across crashes between the write and the assignment.
SerialPausesPersist ==
    ~overlapped =>
        /\ file = intended
        /\ \A p \in Proc : writer = p /\ (\A c \in AdminCall : request[c].at = "idle" \/ request[c].ns # "pauseFlags")
              => memory[p] = intended

\* The administrator's two kinds of state are safe from overlapping calls, lapsed
\* leases and crashes as far as the code's locks reach.
AdminStateSafe == TypeOK /\ OneReindexAtATime /\ HolderKeepsKey /\ SerialPausesPersist
============================================================================

----------------------- MODULE CircuitBreakerMemory ------------------------
(***************************************************************************)
(* InMemoryWebhookCircuitBreakerStore: the same record and the same        *)
(* transitions as the Redis store, each method one atomic step (it never   *)
(* awaits), and no expiry: nothing ever compares expiresAt with the clock. *)
(***************************************************************************)
EXTENDS CircuitBreaker

\* The open window is over and no reservation is in the future.
MayProbe(c) == rec.state = "open" /\ ~BeforeReset(c) /\ probe = 0

\* checkAndClaimAttempt, right after the caller took its `now`.
MemCheck(c) ==
    /\ pc[c] = "idle"
    /\ \/ /\ rec.state = "closed"
          /\ Goto(c, "gate")
          /\ UNCHANGED <<rec, probe, probing>>
       \/ /\ MayProbe(c)
          /\ probe' = ProbeMs
          /\ rec' = Record("half-open", rec.failures, 0)
          /\ probing' = [probing EXCEPT ![c] = TRUE]
          /\ Goto(c, "gate")
    /\ UNCHANGED <<age, read>>

MemSuccess(c) ==
    /\ pc[c] = "success"
    /\ rec' = Record("closed", 0, 0)
    /\ probe' = 0
    /\ Leave(c)

MemFailure(c) ==
    /\ pc[c] = "failure"
    /\ rec' = AfterFailure(rec, age[c])
    /\ rec'.failures <= MaxFailures
    /\ probe' = 0
    /\ Leave(c)

\* The map keeps every record; a reservation lapses by comparison with `now`.
MemTick ==
    /\ \A c \in Call : pc[c] # "idle" => age[c] < MaxAge
    /\ rec' = [rec EXCEPT !.wait = IF rec.state = "open" /\ @ > -MaxAge THEN @ - 1 ELSE @]
    /\ probe' = IF probe > 0 THEN probe - 1 ELSE 0
    /\ age' = [c \in Call |-> IF pc[c] # "idle" THEN age[c] + 1 ELSE 0]
    /\ UNCHANGED <<pc, read, probing>>

MemProgress(c) ==
    \/ Deliver(c) \/ RateLimited(c) \/ Succeeds(c) \/ Fails(c) \/ NotCounted(c)
    \/ MemSuccess(c) \/ MemFailure(c)

MemNext == MemTick \/ \E c \in Call : MemCheck(c) \/ MemProgress(c)

MemSpec == Init /\ [][MemNext]_vars
MemFairSpec ==
    MemSpec /\ WF_vars(MemTick) /\ \A c \in Call : WF_vars(MemCheck(c)) /\ WF_vars(MemProgress(c))
============================================================================

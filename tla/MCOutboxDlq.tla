---------------------------- MODULE MCOutboxDlq ----------------------------
(***************************************************************************)
(* The outbox dispatchers and the operators' dead-letter queue, in one run *)
(* of TLC: `focus' names the one that moves.  The dispatcher's dead        *)
(* letters go to the webhook delivery store, so the two share no state.    *)
(***************************************************************************)
EXTENDS WebhookOutbox, TLC

CONSTANTS
    MaxLetters, MaxReplays, Threshold, PurgeSize, EnqueuedWith, MaxResumes, MaxDbErrors,
    w1, w2, e1, e2, e3

ASSUME LettersAssumption ==
    {MaxLetters, MaxReplays, EnqueuedWith} \subseteq Nat /\ Threshold \in Nat \ {0}

VARIABLES focus, entry, suspension, call, replays, outcomes, dbErrors

dlqVars == <<entry, suspension, call, replays, outcomes, dbErrors>>

Letters == INSTANCE DeadLetterReplay

Symmetric == Permutations({w1, w2})

MCInit == focus \in {"outbox", "letters"} /\ Init /\ Letters!Init
            /\ (focus = "letters" \/ suspension.failures = 0)

MCNext ==
    \/ focus = "outbox" /\ Next /\ UNCHANGED <<focus, dlqVars>>
    \/ focus = "letters" /\ Letters!Next /\ UNCHANGED <<focus, vars>>

MCSpec == MCInit /\ [][MCNext]_<<focus, vars, dlqVars>>

----------------------------------------------------------------------------
\* Replays of dead letters, as DeadLetterReplay states them.
ReplaysAccounted == Letters!ReplaysAccounted
============================================================================

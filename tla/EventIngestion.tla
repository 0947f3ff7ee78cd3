-------------------------- MODULE EventIngestion --------------------------
(***************************************************************************)
(* The ingestion of chain events (indexer/ingestion.ts) into the event     *)
(* store the service is started with (InMemoryContractEventStore of        *)
(* indexer/store.ts), with chain reorganisations, and the replay that      *)
(* pages through that store for a WebSocket client (ws/replay.ts).         *)
(* Overlapping requests interleave at every call of the store.             *)
(***************************************************************************)
EXTENDS Naturals, Sequences, SequencesExt, FiniteSets, Subsequences

CONSTANTS
    Request,         \* ingest requests, each made once
    Batches,         \* the batches a request may carry: sequences of events
    MaxWriters,      \* limit of writeSemaphore
    PageSize,        \* limit of a replay's pages
    SuppressFor,     \* ledgers above a reorg after which it counts as over
    MaxStoreFaults   \* bound: insertions the store rejects

\* An event is [id, ledger, hash]: hash is the ledgerHash, hence the fork.
EventOf(batch) == Range(batch)
None == 0            \* no cursor; ids are positive

\* What validateBatch lets through.
ASSUME BatchesAssumption ==
    \A batch \in Batches :
        /\ batch \in Seq([id : Nat \ {None}, ledger : Nat, hash : {e.hash : e \in EventOf(batch)}])
        /\ batch # <<>>
ASSUME LimitsAssumption == MaxWriters \in Nat /\ PageSize \in Nat \ {0} /\ MaxStoreFaults \in Nat

VARIABLES
    records,         \* the store, in the order of insertion
    dependency,      \* state.dependency is healthy
    job,             \* per request: stage, batch, and where it names the ledgers still to be compared
    writers, waiters,          \* writeSemaphore
    rolledBack, reorgHeight,   \* rolledBackLedgers; None: no reorg detected
    lastSafeLedger,
    replay,          \* the client's replay: stage, cursor, and the ids its queue refused
    unsent,          \* history: ids stored ever since that replay began and not handed to the queue yet
    storeFaults,
    disputed         \* history: a batch, or those of overlapping requests, named two forks of a ledger

ingestVars == <<records, dependency, job, writers, waiters, rolledBack, reorgHeight, lastSafeLedger,
                replay, unsent, storeFaults, disputed>>

Ids(s) == {s[i].id : i \in DOMAIN s}
Ledgers == {e.ledger : e \in UNION {EventOf(b) : b \in Batches}}
\* ledgersInBatch, each by the position of its first event.
LedgersInBatch(batch) == {i \in DOMAIN batch : \A j \in 1..(i - 1) : batch[j].ledger # batch[i].ledger}
Active(r) == job[r].stage \notin {"new", "done", "failed"}

TypeOK ==
    /\ Len(records) = Cardinality(Ids(records))
    /\ \A r \in Request : job[r].stage \in {"new", "compare", "rollback", "acquire", "insert", "account", "done", "failed"}
    /\ writers \in 0..MaxWriters /\ Range(waiters) \subseteq Request
    /\ rolledBack \subseteq Ledgers /\ reorgHeight \in Ledgers \cup {None}
    /\ lastSafeLedger \in Nat /\ {dependency, disputed} \subseteq BOOLEAN
    /\ replay.stage \in {"off", "paging", "complete", "over"}
    /\ storeFaults \in 0..MaxStoreFaults

Init ==
    /\ records = <<>> /\ dependency = TRUE
    /\ job = [r \in Request |-> [stage |-> "new", batch |-> <<>>, todo |-> {}]]
    /\ writers = 0 /\ waiters = <<>>
    /\ rolledBack = {} /\ reorgHeight = None /\ lastSafeLedger = 0
    /\ replay = [stage |-> "off", cursor |-> None, refused |-> {}] /\ unsent = {}
    /\ storeFaults = 0 /\ disputed = FALSE

Become(r, stage) == job' = [job EXCEPT ![r].stage = stage]

----------------------------------------------------------------------------
(* Ingestion                                                               *)

\* ingest up to its first await.  Requests that are refused (rate limit,
\* validation) change nothing.
Ingest(r, batch) ==
    /\ job[r].stage = "new"
    /\ \/ ~dependency /\ Become(r, "failed") /\ UNCHANGED disputed
       \/ /\ dependency
          /\ job' = [job EXCEPT ![r] = [stage |-> "compare", batch |-> batch, todo |-> LedgersInBatch(batch)]]
          /\ disputed' = (disputed \/ \E q \in Request :
                             /\ Active(q) \/ q = r
                             /\ \E e, f \in EventOf(batch) \cup EventOf(job[q].batch) :
                                   e.ledger = f.ledger /\ e.hash # f.hash)
    /\ UNCHANGED <<records, dependency, writers, waiters, rolledBack, reorgHeight, lastSafeLedger, replay, unsent, storeFaults>>

\* getLedgerHash: the hash of the first record of the ledger, if there is one.
OtherForkStored(e) ==
    \E k \in DOMAIN records :
        /\ records[k].ledger = e.ledger /\ records[k].hash # e.hash
        /\ \A j \in 1..(k - 1) : records[j].ledger # e.ledger

\* The next ledger of the batch, and its hash by the batch's first event of it.
Upcoming(r, i) == \A j \in job[r].todo : i <= j

\* The answer for the next ledger of the batch; the loop ends after the last one.
Compare(r) ==
    /\ job[r].stage = "compare"
    /\ \/ job[r].todo = {} /\ Become(r, "acquire") /\ UNCHANGED <<rolledBack, reorgHeight>>
       \/ \E i \in job[r].todo :
            /\ Upcoming(r, i) /\ ~OtherForkStored(job[r].batch[i])
            /\ job' = [job EXCEPT ![r].todo = @ \ {i}]
            /\ UNCHANGED <<rolledBack, reorgHeight>>
       \/ \E i \in job[r].todo :
            /\ Upcoming(r, i) /\ OtherForkStored(job[r].batch[i])
            /\ reorgHeight' = job[r].batch[i].ledger
            /\ rolledBack' = rolledBack \cup {job[r].batch[i].ledger}
            /\ Become(r, "rollback")
    /\ UNCHANGED <<records, dependency, writers, waiters, lastSafeLedger, replay, unsent, storeFaults, disputed>>

BelowOnly(e, fork) == e.ledger <= fork     \* mutant: the forked ledger itself stays
Survives(e, fork) == e.ledger < fork

\* rollbackBeforeLedger
Rollback(r) ==
    /\ job[r].stage = "rollback"
    /\ \E i \in job[r].todo :
          /\ Upcoming(r, i)
          /\ records' = Picked(records, {k \in DOMAIN records : Survives(records[k], job[r].batch[i].ledger)})
          /\ job' = [job EXCEPT ![r].stage = "compare", ![r].todo = @ \ {i}]
    /\ unsent' = unsent \cap Ids(records')
    /\ UNCHANGED <<dependency, writers, waiters, rolledBack, reorgHeight, lastSafeLedger, replay, storeFaults, disputed>>

Acquire(r) ==
    /\ job[r].stage = "acquire" /\ ~Contains(waiters, r)
    /\ \/ /\ writers < MaxWriters
          /\ writers' = writers + 1 /\ Become(r, "insert") /\ UNCHANGED waiters
       \/ /\ writers >= MaxWriters
          /\ waiters' = Append(waiters, r) /\ UNCHANGED <<writers, job>>
    /\ UNCHANGED <<records, dependency, rolledBack, reorgHeight, lastSafeLedger, replay, unsent, storeFaults, disputed>>

\* release: the slot goes to the first waiter.
Release(r, stage) ==
    /\ writers' = IF waiters = <<>> THEN writers - 1 ELSE writers
    /\ waiters' = IF waiters = <<>> THEN waiters ELSE Tail(waiters)
    /\ job' = [q \in Request |->
                 IF q = r THEN [job[r] EXCEPT !.stage = stage]
                 ELSE IF waiters # <<>> /\ q = waiters[1] THEN [job[q] EXCEPT !.stage = "insert"]
                 ELSE job[q]]

\* insertMany: ids that are stored, or repeated in the batch, are skipped.
InsertMany(r) ==
    /\ job[r].stage = "insert"
    /\ LET batch == job[r].batch
           fresh == {i \in DOMAIN batch : /\ batch[i].id \notin Ids(records)
                                          /\ \A j \in 1..(i - 1) : batch[j].id # batch[i].id} IN
       records' = records \o Picked(batch, fresh)
    /\ Release(r, "account")
    /\ UNCHANGED <<dependency, rolledBack, reorgHeight, lastSafeLedger, replay, unsent, storeFaults, disputed>>

FailKeepingSlot(r) == Become(r, "failed") /\ UNCHANGED <<writers, waiters>>   \* mutant: no finally
FailReleasing(r) == Release(r, "failed")

\* The store rejects.  Before the insert the request just ends; the slot of an
\* insert is released by the finally.
StoreFails(r) ==
    /\ storeFaults < MaxStoreFaults /\ storeFaults' = storeFaults + 1
    /\ \/ job[r].stage = "insert" /\ FailReleasing(r)
       \/ /\ job[r].stage \in {"compare", "rollback"} /\ job[r].todo # {}
          /\ Become(r, "failed") /\ UNCHANGED <<writers, waiters>>
    /\ UNCHANGED <<records, dependency, rolledBack, reorgHeight, lastSafeLedger, replay, unsent, disputed>>

\* The state of the service after a persisted batch; the answer.
Account(r) ==
    /\ job[r].stage = "account"
    /\ \E last \in EventOf(job[r].batch) :
          /\ \A e \in EventOf(job[r].batch) : e.ledger <= last.ledger
          /\ LET top == last.ledger
                 over == reorgHeight # None /\ top > reorgHeight + SuppressFor IN
             /\ lastSafeLedger' = IF top - 1 > lastSafeLedger THEN top - 1 ELSE lastSafeLedger
             /\ rolledBack' = IF over THEN rolledBack \ {reorgHeight} ELSE rolledBack
             /\ reorgHeight' = IF over THEN None ELSE reorgHeight
    /\ Become(r, "done")
    /\ UNCHANGED <<records, dependency, writers, waiters, replay, unsent, storeFaults, disputed>>

\* setDependencyState
SetDependency ==
    /\ storeFaults < MaxStoreFaults /\ storeFaults' = storeFaults + 1
    /\ dependency' = ~dependency
    /\ UNCHANGED <<records, job, writers, waiters, rolledBack, reorgHeight, lastSafeLedger, replay, unsent, disputed>>

----------------------------------------------------------------------------
(* Replay                                                                  *)

Before(a, b) == a.ledger < b.ledger \/ (a.ledger = b.ledger /\ a.id < b.id)

AfterId(cursor) ==     \* mutant: larger ids, as if ids grew with the ledgers
    {e \in Range(records) : e.id > cursor}
\* The stored events behind the cursor, in the order of the sort.
After(cursor) ==
    {e \in Range(records) : cursor = None \/ \E c \in Range(records) : c.id = cursor /\ Before(c, e)}

\* The first PageSize of them.
Page(rest) == {e \in rest : Cardinality({d \in rest : Before(d, e)}) < PageSize}

\* The frames of a page.  queueOutboundMessage refuses those for which a slow
\* client's queue has no room (WsOutbound!Refused); the replay goes on.
SendPage(owed, page, stage, cursor) ==
    /\ unsent' = owed \ {e.id : e \in page}
    /\ \E refused \in SUBSET page :
          replay' = [stage |-> stage, cursor |-> cursor, refused |-> replay.refused \cup {e.id : e \in refused}]

\* getEvents and the frames of one page, for a cursor that is still there.
ReadPage(owed, cursor) ==
    LET rest == After(cursor) IN
    /\ cursor \in Ids(records) \cup {None}
    /\ \/ Cardinality(rest) <= PageSize /\ SendPage(owed, rest, "complete", None)
       \/ /\ Cardinality(rest) > PageSize
          /\ \E last \in Page(rest) :
                /\ \A e \in Page(rest) : e = last \/ Before(e, last)
                /\ SendPage(owed, Page(rest), "paging", last.id)

\* The replay ends and does not say that it is complete: its cursor is gone, the
\* client is, or one of the frames makes the hub terminate it, the store rejects,
\* or the queue refuses the last frame, stream_replay_complete.
GiveUp ==
    /\ replay' = [stage |-> "over", cursor |-> None, refused |-> {}]
    /\ unsent' = {}

\* replayFromCursor with its first page.
ReplayFromCursor(cursor) ==
    /\ replay.stage = "off"
    /\ GiveUp \/ ReadPage({e.id : e \in After(cursor)}, cursor)
    /\ UNCHANGED <<records, dependency, job, writers, waiters, rolledBack, reorgHeight, lastSafeLedger, storeFaults, disputed>>

NextPage ==
    /\ replay.stage = "paging"
    /\ GiveUp \/ ReadPage(unsent, replay.cursor)
    /\ UNCHANGED <<records, dependency, job, writers, waiters, rolledBack, reorgHeight, lastSafeLedger, storeFaults, disputed>>

Next ==
    \/ \E r \in Request : \/ \E batch \in Batches : Ingest(r, batch)
                          \/ Compare(r) \/ Rollback(r) \/ Acquire(r) \/ InsertMany(r)
                          \/ StoreFails(r) \/ Account(r)
    \/ SetDependency
    \/ \E cursor \in Ids(records) \cup {None} : ReplayFromCursor(cursor)
    \/ NextPage

Spec == Init /\ [][Next]_ingestVars

----------------------------------------------------------------------------
(* Properties                                                              *)

\* The store never mixes two forks of a ledger, whatever rollbacks, crossings of
\* requests and duplicates came before, provided no batch, and no two requests
\* that overlap, carry different forks of one ledger: the comparison is made once
\* per ledger, before the insertion, and not repeated.
OneForkPerLedger ==
    disputed \/ \A i, j \in DOMAIN records :
                    records[i].ledger = records[j].ledger => records[i].hash = records[j].hash

\* A replay that says it is complete has handed every event that was stored behind
\* its cursor from the beginning to the end of the replay to the client's queue,
\* although events were inserted in front of the cursor and others evicted between
\* two pages: the paging of replay.ts skips nothing.  What the queue makes of the
\* frames is ReplayDelivers below.
ReplayGapFree == replay.stage = "complete" => unsent = {}

\* A claim that TLC refutes.  docs/websocket.md:145 says stream_replay_complete is
\* "Emitted when all historical events matched by a `replay` request have been
\* delivered"; replay.ts:97 ignores the answer of queueOutboundMessage, so a page
\* that outgrows a slow client's queue loses frames and the replay completes.
ReplayDelivers == replay.stage = "complete" => unsent \cup replay.refused = {}

\* The write semaphore loses no slot and no wake-up: slots in use are the
\* requests that insert, and somebody waits only while all are in use.
NoSlotLost ==
    /\ writers = Cardinality({r \in Request : job[r].stage = "insert"})
    /\ waiters # <<>> => writers = MaxWriters

\* Stored events are of one fork, are paged through without gaps, and are written
\* through a semaphore that never jams.
EventsKept == TypeOK /\ OneForkPerLedger /\ ReplayGapFree /\ NoSlotLost
============================================================================

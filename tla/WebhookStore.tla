--------------------------- MODULE WebhookStore ----------------------------
(***************************************************************************)
(* PgWebhookDeliveryStore (webhooks/pgStore.ts) over its in-memory mirror  *)
(* (WebhookDeliveryStore, webhooks/store.ts): the outbox items with their  *)
(* claims, and the dead-letter queue.  Every mutation is applied to the    *)
(* mirror at once and sent to Postgres without waiting: the statements of  *)
(* one process may be carried out in any order, fail, or be cut off by a   *)
(* crash.  hydrate() fills the mirror of a new process while it is already *)
(* serving.  The mirror keeps an outbox item twice: in a map by id and, as *)
(* an object, in the list of its priority (`queue`).                       *)
(***************************************************************************)
EXTENDS Naturals, Sequences, FiniteSets

CONSTANTS
    Item,       \* outbox items, each added at most once
    Worker,     \* ids of the workers that claim items
    Letter,     \* deliveries that may be dead-lettered
    MaxIds,     \* bound: ids given to dead-letter entries
    MaxCrashes, \* bound: restarts
    MaxWrites   \* bound: statements under way at once

VARIABLES
    phase,      \* "outbox", "letters": hydrate's next query; "ready"; "failed"
    queue,      \* objects of each item in its priority list
    map,        \* position of the map's object in that queue, 0 if it has none
    row,        \* the item's row in webhook_outbox_items
    entries,    \* the mirror's dead-letter entries
    dlqRows,    \* rows of webhook_dlq
    ids,        \* entry ids used so far
    writes,     \* statements under way
    crashes,
    accepted, handled, lost,   \* history: items added, items done with, items whose INSERT was lost
    dead, resolved, lostDead,  \* history: the same for dead letters
    early       \* history: the mirror was changed before hydrate() was over

storeVars == <<phase, queue, map, row, entries, dlqRows, ids, writes, crashes,
          accepted, handled, lost, dead, resolved, lostDead, early>>
outboxVars == <<queue, map, accepted, handled>>
letterVars == <<entries, ids, dead, resolved>>

NoOne == "nobody"
Pending == [st |-> "pending", by |-> NoOne, old |-> FALSE]
Claimed(w) == [st |-> "in_flight", by |-> w, old |-> FALSE]
Object == [st : {"pending", "in_flight"}, by : Worker \cup {NoOne}, old : BOOLEAN]
NoRow == [st |-> "none", by |-> NoOne, old |-> FALSE]
Delivered == [st |-> "delivered", by |-> NoOne, old |-> FALSE]

TypeOK ==
    /\ phase \in {"outbox", "letters", "ready", "failed"}
    /\ \A i \in Item : queue[i] \in Seq(Object) /\ map[i] \in 0..Len(queue[i])
    /\ row \in [Item -> Object \cup {NoRow, Delivered}]
    /\ entries \subseteq [id : 1..MaxIds, of : Letter]
    /\ dlqRows \subseteq [id : 1..MaxIds, of : Letter, open : BOOLEAN]
    /\ ids \in 0..MaxIds /\ crashes \in 0..MaxCrashes
    /\ {accepted, handled, lost} \subseteq SUBSET Item
    /\ {dead, resolved, lostDead} \subseteq SUBSET Letter
    /\ early \in BOOLEAN

Init ==
    /\ phase = "outbox"
    /\ queue = [i \in Item |-> <<>>] /\ map = [i \in Item |-> 0]
    /\ row = [i \in Item |-> NoRow]
    /\ entries = {} /\ dlqRows = {} /\ ids = 0
    /\ writes = {} /\ crashes = 0
    /\ accepted = {} /\ handled = {} /\ lost = {}
    /\ dead = {} /\ resolved = {} /\ lostDead = {}
    /\ early = FALSE

InsertItem(i) == [op |-> "insert", item |-> i, to |-> Pending]
SetDoneOnClaim(i, o) ==     \* mutant: a claim takes the row off the table
    [op |-> "update", item |-> i, to |-> IF o.st = "in_flight" THEN Delivered ELSE o]
SetItem(i, o) == [op |-> "update", item |-> i, to |-> o]
InsertLetter(e) == [op |-> "letter", entry |-> e]
CloseLetter(e) == [op |-> "close", entry |-> e]
PurgeLetters == [op |-> "purge"]

\* persistAsync: the statements are issued and nobody waits for them.
PersistAsync(new) ==
    /\ writes' = writes \cup new
    /\ Cardinality(writes') <= MaxWrites
    /\ early' = (early \/ phase \in {"outbox", "letters"})

----------------------------------------------------------------------------
(* The outbox                                                              *)

Add(i) ==
    /\ i \notin accepted
    /\ queue' = [queue EXCEPT ![i] = Append(@, Pending)]
    /\ map' = [map EXCEPT ![i] = Len(queue[i]) + 1]
    /\ accepted' = accepted \cup {i}
    /\ UNCHANGED handled

AddToOutbox(i) ==
    /\ Add(i)
    /\ PersistAsync({InsertItem(i)})
    /\ UNCHANGED <<phase, row, dlqRows, crashes, lost, lostDead>> /\ UNCHANGED letterVars

RemoveFromMapOnly(S) ==    \* mutant: the priority list is left alone
    /\ map' = [i \in Item |-> IF i \in S THEN 0 ELSE map[i]]
    /\ UNCHANGED queue
\* removeFromOutbox: out of the map, and the first object with its id out of
\* the queue.
Remove(S) ==
    /\ map' = [i \in Item |-> IF i \in S THEN 0 ELSE map[i]]
    /\ queue' = [i \in Item |-> IF i \in S THEN Tail(queue[i]) ELSE queue[i]]

\* POST /process-outbox: every ready item is removed.
ProcessOutbox ==
    LET ready == {i \in Item : map[i] # 0 /\ \E k \in DOMAIN queue[i] : queue[i][k].st = "pending"}
    IN /\ ready # {}
       /\ Remove(ready)
       /\ handled' = handled \cup ready
       /\ PersistAsync({SetItem(i, Delivered) : i \in ready})
       /\ UNCHANGED <<phase, row, dlqRows, crashes, accepted, lost, lostDead>> /\ UNCHANGED letterVars

Eligible(o) == o.st = "pending" \/ (o.st = "in_flight" /\ o.old)

\* claimReadyOutboxItems: every eligible object of the lists.
ClaimReadyOutboxItems(w) ==
    LET claimed == {i \in Item : \E k \in DOMAIN queue[i] : Eligible(queue[i][k])}
    IN /\ claimed # {}
       /\ queue' = [i \in Item |-> [k \in DOMAIN queue[i] |->
                     IF Eligible(queue[i][k]) THEN Claimed(w) ELSE queue[i][k]]]
       /\ PersistAsync({SetItem(i, Claimed(w)) : i \in claimed})
       /\ UNCHANGED <<phase, map, row, dlqRows, crashes, accepted, handled, lost, lostDead>>
       /\ UNCHANGED letterVars

\* The map's objects whose lock is over, set to o.
Relock(o) ==
    LET stuck == {i \in Item : map[i] # 0 /\ queue[i][map[i]].st = "in_flight" /\ queue[i][map[i]].old}
    IN /\ stuck # {}
       /\ queue' = [i \in Item |-> IF i \in stuck THEN [queue[i] EXCEPT ![map[i]] = o] ELSE queue[i]]
       /\ PersistAsync({SetItem(i, o) : i \in stuck})
       /\ UNCHANGED <<phase, map, row, dlqRows, crashes, accepted, handled, lost, lostDead>>
       /\ UNCHANGED letterVars

ReclaimStuckItems(w) == Relock(Claimed(w))
ReleaseExpiredLeases == Relock(Pending)

Holds(w, i) == map[i] # 0 /\ queue[i][map[i]].by = w

ReleaseOutboxItem(i, w) ==
    /\ Holds(w, i)
    /\ queue' = [queue EXCEPT ![i][map[i]] = Pending]
    /\ PersistAsync({SetItem(i, Pending)})
    /\ UNCHANGED <<phase, map, row, dlqRows, crashes, accepted, handled, lost, lostDead>>
    /\ UNCHANGED letterVars

MarkOutboxItemDelivered(i, w) ==
    /\ Holds(w, i)
    /\ Remove({i})
    /\ handled' = handled \cup {i}
    /\ PersistAsync({SetItem(i, Delivered)})
    /\ UNCHANGED <<phase, row, dlqRows, crashes, accepted, lost, lostDead>> /\ UNCHANGED letterVars

Expired(o) == [o EXCEPT !.old = (o.old \/ o.st = "in_flight")]
\* lockedAt falls behind the lock timeout, in the mirror and in the row.
LockExpires(i) ==
    /\ \E o \in {row[i]} \cup {queue[i][k] : k \in DOMAIN queue[i]} : o.st = "in_flight" /\ ~o.old
    /\ queue' = [queue EXCEPT ![i] = [k \in DOMAIN @ |-> Expired(@[k])]]
    /\ row' = [row EXCEPT ![i] = Expired(@)]
    /\ UNCHANGED <<phase, map, dlqRows, writes, crashes, accepted, handled, lost, lostDead, early>>
    /\ UNCHANGED letterVars

----------------------------------------------------------------------------
(* The dead-letter queue                                                   *)

\* enqueuePermanentFailureToDlq, addToDeadLetterQueue
AddToDeadLetterQueue(l) ==
    LET e == [id |-> ids + 1, of |-> l] IN
    /\ l \notin dead /\ ids < MaxIds
    /\ \A x \in entries : x.of # l
    /\ entries' = entries \cup {e} /\ ids' = ids + 1
    /\ dead' = dead \cup {l}
    /\ PersistAsync({InsertLetter(e)})
    /\ UNCHANGED <<phase, row, dlqRows, crashes, lost, resolved, lostDead>> /\ UNCHANGED outboxVars

\* POST /dlq/:id/retry: the entry is processed and its event queued again.
RetryDeadLetter(e, i) ==
    /\ e \in entries
    /\ entries' = entries \ {e}
    /\ resolved' = resolved \cup {e.of}
    /\ Add(i)
    /\ PersistAsync({CloseLetter(e), InsertItem(i)})
    /\ UNCHANGED <<phase, row, dlqRows, ids, crashes, lost, dead, lostDead>>

\* cleanup: the mirror drops every old entry, Postgres only processed rows.
CleanupDeadLetters(old) ==
    /\ old # {} /\ old \subseteq entries
    /\ entries' = entries \ old
    /\ PersistAsync({PurgeLetters})
    /\ UNCHANGED <<phase, row, dlqRows, ids, crashes, lost, dead, resolved, lostDead>>
    /\ UNCHANGED outboxVars

----------------------------------------------------------------------------
(* Postgres, crashes and hydrate                                           *)

PurgeAll == {}                \* mutant: rows that are still open go too
\* DELETE ... WHERE processed_at IS NOT NULL, of rows old enough.
Purged == {r \in dlqRows : r.open}

\* INSERT ... ON CONFLICT (id) DO NOTHING
InsertIfAbsent(w) == [row EXCEPT ![w.item] = IF @ = NoRow THEN Pending ELSE @]

\* A statement is carried out; an UPDATE of a row that is not there does nothing.
WriteLands(w) ==
    /\ w \in writes
    /\ writes' = writes \ {w}
    /\ row' = CASE w.op = "insert" -> InsertIfAbsent(w)
                [] w.op = "update" -> [row EXCEPT ![w.item] = IF @ = NoRow THEN @ ELSE w.to]
                [] OTHER -> row
    /\ dlqRows' = CASE w.op = "letter" -> dlqRows \cup {[id |-> w.entry.id, of |-> w.entry.of, open |-> TRUE]}
                    [] w.op = "close" -> {[r EXCEPT !.open = (@ /\ r.id # w.entry.id)] : r \in dlqRows}
                    [] w.op = "purge" -> Purged
                    [] OTHER -> dlqRows
    /\ UNCHANGED <<phase, crashes, lost, lostDead, early>>
    /\ UNCHANGED outboxVars /\ UNCHANGED letterVars

Lose(W) ==
    /\ writes' = writes \ W
    /\ lost' = lost \cup {w.item : w \in {x \in W : x.op = "insert"}}
    /\ lostDead' = lostDead \cup {w.entry.of : w \in {x \in W : x.op = "letter"}}

\* The statement fails: the error is logged and that is all.
WriteFails(w) ==
    /\ w \in writes
    /\ Lose({w})
    /\ UNCHANGED <<phase, row, dlqRows, crashes, early>>
    /\ UNCHANGED outboxVars /\ UNCHANGED letterVars

\* The process dies and is replaced: the mirror is gone, and the statements that
\* had not left it.
Restart(W) ==
    /\ W \subseteq writes /\ crashes < MaxCrashes
    /\ Lose(W)
    /\ crashes' = crashes + 1
    /\ phase' = "outbox"
    /\ queue' = [i \in Item |-> <<>>] /\ map' = [i \in Item |-> 0]
    /\ entries' = {}
    /\ UNCHANGED <<row, dlqRows, ids, accepted, handled, dead, resolved, early>>

\* A row that hydrate loads: its lock keeps its age.
Live(r) == r.st \in {"pending", "in_flight"}

HydrateOutbox ==
    /\ phase = "outbox"
    /\ phase' = "letters"
    /\ queue' = [i \in Item |-> IF Live(row[i]) THEN Append(queue[i], row[i]) ELSE queue[i]]
    /\ map' = [i \in Item |-> IF Live(row[i]) THEN Len(queue[i]) + 1 ELSE map[i]]
    /\ UNCHANGED <<row, dlqRows, writes, crashes, accepted, handled, lost, lostDead, early>>
    /\ UNCHANGED letterVars

\* Dead letters come back under new ids: the id of the row is not kept.
HydrateLetters ==
    LET open == {r.of : r \in {x \in dlqRows : x.open}}
        n == Cardinality({r \in dlqRows : r.open})
    IN /\ phase = "letters" /\ ids + n <= MaxIds
       /\ phase' = "ready"
       /\ ids' = ids + n
       /\ \E f \in [{r \in dlqRows : r.open} -> (ids + 1)..(ids + n)] :
             /\ \A r, q \in DOMAIN f : f[r] = f[q] => r = q
             /\ entries' = entries \cup {[id |-> f[r], of |-> r.of] : r \in DOMAIN f}
       /\ dead' = dead \cup open
       /\ UNCHANGED <<row, dlqRows, writes, crashes, lost, resolved, lostDead, early>>
       /\ UNCHANGED outboxVars

\* Either query fails: the factory does not call hydrate() again.
HydrateFails ==
    /\ phase \in {"outbox", "letters"}
    /\ phase' = "failed"
    /\ UNCHANGED <<row, dlqRows, writes, crashes, lost, lostDead, early>>
    /\ UNCHANGED outboxVars /\ UNCHANGED letterVars

Next ==
    \/ \E i \in Item : AddToOutbox(i) \/ LockExpires(i)
    \/ \E i \in Item, w \in Worker : ReleaseOutboxItem(i, w) \/ MarkOutboxItemDelivered(i, w)
    \/ \E w \in Worker : ClaimReadyOutboxItems(w) \/ ReclaimStuckItems(w)
    \/ ProcessOutbox \/ ReleaseExpiredLeases
    \/ \E l \in Letter : AddToDeadLetterQueue(l)
    \/ \E e \in entries, i \in Item : RetryDeadLetter(e, i)
    \/ \E old \in SUBSET entries : CleanupDeadLetters(old)
    \/ \E w \in writes : WriteLands(w) \/ WriteFails(w)
    \/ \E W \in SUBSET writes : Restart(W)
    \/ HydrateOutbox \/ HydrateLetters \/ HydrateFails

Spec == Init /\ [][Next]_storeVars

----------------------------------------------------------------------------
(* Properties                                                              *)

\* An item that was accepted and not yet dealt with survives crashes and
\* reordered statements: only the loss of its own INSERT can lose it.
AcceptedItemKept ==
    \A i \in accepted \ (handled \cup lost) :
        map[i] # 0 \/ Live(row[i]) \/ InsertItem(i) \in writes

\* A dead letter nobody resolved is still known, or will be after the next
\* hydrate(): only the loss of its own INSERT can lose it.
DeadLetterKept ==
    \A l \in dead \ (resolved \cup lostDead) :
        \/ \E r \in dlqRows : r.of = l /\ r.open
        \/ \E w \in writes : w.op = "letter" /\ w.entry.of = l

\* Used as documented ("before the store is used", hydrate() first), the
\* priority list and the map of the mirror hold the same objects.
ListMatchesMap ==
    early \/ \A i \in Item : Len(queue[i]) = IF map[i] = 0 THEN 0 ELSE 1

\* What the mirror and Postgres hold together loses no accepted item and no dead
\* letter, and the mirror's two views of an item agree.
MirrorLosesNothing == TypeOK /\ AcceptedItemKept /\ DeadLetterKept /\ ListMatchesMap
============================================================================

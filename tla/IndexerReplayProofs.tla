------------------------ MODULE IndexerReplayProofs ------------------------
(* Proofs about IndexerReplay, for any replicas, slots, rows and bounds.   *)
EXTENDS IndexerReplay, TLAPS

\* The calls that have resolved their cursor and may still use it.
HasCursor == {"upsert", "checkpoint", "loop", "begin", "fetch", "write",
              "commit", "rollback", "complete"}

\* A call that uses its cursor, and an unsettled batch, have one that exists.
CursorKnown ==
    /\ \A c \in Call : pc[c] \in HasCursor => cur[c] \in 1..nCursors
    /\ \A t \in inDoubt : t.cur \in 1..nCursors

TypeInv == TypeOK /\ CursorKnown

\* A fetched batch lies inside the source table and its end does not pass it.
LEMMA FetchBounds ==
    ASSUME NEW r \in Request, NEW o \in 0..NumRows
    PROVE  /\ FetchUpTo(r, o) \in 0..NumRows
           /\ FetchUpTo(r, o) >= o
           /\ FetchEventBatch(r, o) \in SUBSET (1..NumRows)
BY NumRowsAssumption, BatchSizeAssumption, RequestAssumption
   DEF FetchUpTo, FetchEventBatch, Larger, Smaller

\* Typed updates of the cursor table.
LEMMA CursorUpdates ==
    ASSUME TypeOK, NEW k \in 1..nCursors, NEW u \in 0..NumRows
    PROVE  /\ AdvanceOffset(k, u) \in [1..nCursors -> Cursor]
           /\ InsertIfAbsent(k) \in [1..nCursors -> Cursor]
           /\ UpsertResuming(k) \in [1..nCursors -> Cursor]
           /\ MarkCompleted(k) \in [1..nCursors -> Cursor]
<1>1. /\ cursors \in [1..nCursors -> Cursor]
      /\ cursors[k] \in Cursor
      /\ Larger(cursors[k].offset, u) \in 0..NumRows
  BY DEF TypeOK, Cursor, Larger
<1>2. AdvanceOffset(k, u) \in [1..nCursors -> Cursor]
  BY <1>1 DEF Cursor, AdvanceOffset
<1>3. InsertIfAbsent(k) \in [1..nCursors -> Cursor]
  BY <1>1 DEF Cursor, InsertIfAbsent
<1>4. UpsertResuming(k) \in [1..nCursors -> Cursor]
  BY <1>1 DEF Cursor, UpsertResuming
<1>5. MarkCompleted(k) \in [1..nCursors -> Cursor]
  BY <1>1 DEF Cursor, MarkCompleted
<1> QED
  BY <1>2, <1>3, <1>4, <1>5

\* A batch transaction of a call that knows its cursor is well formed.
LEMMA TxnTyped ==
    ASSUME TypeInv, NEW c \in Call, pc[c] = "commit"
    PROVE  BatchTxn(c) \in Doubt
<1>1. cur[c] \in CursorId
  BY BoundsAssumption DEF TypeInv, TypeOK, CursorKnown, HasCursor, CursorId
<1>2. req[c] \in Request /\ off[c] \in 0..NumRows
  BY DEF TypeInv, TypeOK
<1> QED
  BY <1>1, <1>2, FetchBounds DEF BatchTxn, Doubt

LEMMA TypeInit == Init => TypeInv
BY NumRowsAssumption, BoundsAssumption, ModeAssumption
   DEF Init, FaultLimit, TypeInv, TypeOK, CursorKnown, HasCursor, Waiting, Shown, Cursor, Call

LEMMA CallProc == \A c \in Call : c[1] \in Proc
BY DEF Call

LEMMA UnwindTyped ==
    ASSUME TypeInv, NEW c \in Call, Unwind(c)
    PROVE  /\ lock' \in [Proc -> BOOLEAN] /\ leader' \in [Proc -> BOOLEAN]
           /\ shown' \in [Proc -> Shown] /\ pc' \in [Call -> Waiting]
           /\ \A d \in Call : pc'[d] \in HasCursor => pc[d] \in HasCursor
<1>1. c[1] \in Proc
  BY CallProc
<1>2. shown' \in [Proc -> Shown]
  BY <1>1 DEF TypeInv, TypeOK, Unwind, Shown
<1> QED
  BY <1>1, <1>2 DEF TypeInv, TypeOK, Unwind, Goto, Waiting, HasCursor

LEMMA EnterTyped ==
    ASSUME TypeInv, NEW c \in Call, NEW r \in Request, Enter(c, r)
    PROVE  /\ stop' \in [Proc -> BOOLEAN] /\ lock' \in [Proc -> BOOLEAN]
           /\ req' \in [Call -> Request] /\ pc' \in [Call -> Waiting]
           /\ \A d \in Call : pc'[d] \in HasCursor => pc[d] \in HasCursor
<1>1. c[1] \in Proc
  BY CallProc
<1>2. pc' = [pc EXCEPT ![c] = "idle"] \/ pc' = [pc EXCEPT ![c] = "acquire"]
  BY DEF Enter, Goto
<1>3. /\ pc' \in [Call -> Waiting]
      /\ \A d \in Call : pc'[d] \in HasCursor => pc[d] \in HasCursor
  BY <1>2 DEF TypeInv, TypeOK, Waiting, HasCursor
<1>4. /\ stop' \in [Proc -> BOOLEAN] /\ lock' \in [Proc -> BOOLEAN]
      /\ req' \in [Call -> Request]
  BY <1>1 DEF Enter, TypeInv, TypeOK
<1> QED
  BY <1>3, <1>4

LEMMA TypeStep == TypeInv /\ [Next]_vars => TypeInv'
<1> SUFFICES ASSUME TypeInv, [Next]_vars PROVE TypeInv'
  OBVIOUS
<1> USE DEF TypeInv
<1>0. timely' = timely /\ FaultLimit' = FaultLimit /\ FaultLimit \in Nat
  BY BoundsAssumption DEF Next, vars, FaultLimit
<1> USE <1>0
<1>1. ASSUME NEW c \in Call, AcquireLease(c) PROVE TypeInv'
  BY <1>1, CallProc, ZenonT(60)
     DEF AcquireLease, TryAcquireOk, TryAcquireFails, TypeOK, CursorKnown,
         HasCursor, Goto, Waiting, procVars, callVars, dbVars
<1>2. ASSUME NEW c \in Call, ResolveCursor(c) PROVE TypeInv'
  <2>1. CountEventsToReplay(req[c]) \in 0..NumRows
    BY RequestAssumption DEF CountEventsToReplay, TypeOK
  <2>2. \A k \in Active : /\ k \in 1..nCursors /\ k \in 0..MaxCursors
                          /\ cursors[k].offset \in 0..NumRows
                          /\ cursors[k].total \in 0..NumRows
    BY BoundsAssumption DEF Active, TypeOK, Cursor
  <2>3. /\ cur' \in [Call -> 0..MaxCursors]
        /\ off' \in [Call -> 0..NumRows] /\ total' \in [Call -> 0..NumRows]
    <3>1. 0 \in 0..MaxCursors /\ 0 \in 0..NumRows
      BY BoundsAssumption, NumRowsAssumption
    <3>2. PICK k \in 0..MaxCursors, o \in 0..NumRows, n \in 0..NumRows :
             /\ cur' = [cur EXCEPT ![c] = k]
             /\ off' = [off EXCEPT ![c] = o]
             /\ total' = [total EXCEPT ![c] = n]
      <4>1. CASE \E k \in Active : /\ cur' = [cur EXCEPT ![c] = k]
                                   /\ off' = [off EXCEPT ![c] = cursors[k].offset]
                                   /\ total' = [total EXCEPT ![c] = cursors[k].total]
        BY <2>2, <4>1
      <4>2. CASE /\ cur' = [cur EXCEPT ![c] = 0]
                 /\ off' = [off EXCEPT ![c] = 0]
                 /\ total' = [total EXCEPT ![c] = CountEventsToReplay(req[c])]
        BY <2>1, <3>1, <4>2
      <4> QED
        BY <1>2, <4>1, <4>2 DEF ResolveCursor
    <3> QED
      BY <3>2 DEF TypeOK
  <2>4. pc' \in [Call -> Waiting]
    BY <1>2 DEF ResolveCursor, Goto, Waiting, TypeOK
  <2>5. \A d \in Call : pc'[d] \in HasCursor => cur'[d] \in 1..nCursors
    <3>1. \A d \in Call : d # c => pc'[d] = pc[d] /\ cur'[d] = cur[d]
      BY <1>2 DEF ResolveCursor, Goto, TypeOK
    <3>2. \/ cur'[c] \in Active
          \/ pc'[c] = "create"
      BY <1>2 DEF ResolveCursor, Goto, TypeOK
    <3>3. pc'[c] \in HasCursor => cur'[c] \in 1..nCursors
      BY <2>2, <3>2 DEF HasCursor
    <3> QED
      BY <3>1, <3>3 DEF CursorKnown
  <2>6. UNCHANGED <<up, lock, stop, leader, shown, lease, req, hung, nCursors, cursors,
                    inserted, inDoubt, starts, faults, hangs>>
    BY <1>2 DEF ResolveCursor, procVars, dbVars
  <2>7. TypeOK'
    BY <2>3, <2>4, <2>6 DEF TypeOK
  <2>8. CursorKnown'
    BY <2>5, <2>6 DEF CursorKnown
  <2> QED
    BY <2>7, <2>8
<1>3. ASSUME NEW c \in Call, CreateCursor(c) PROVE TypeInv'
  <2> DEFINE new == [req |-> req[c], total |-> total[c], offset |-> 0,
                     completed |-> FALSE, status |-> "absent"]
  <2>1. new \in Cursor
    BY NumRowsAssumption DEF TypeOK, Cursor
  <2>2. nCursors' \in 0..MaxCursors /\ nCursors + 1 \in 0..MaxCursors
    BY <1>3, BoundsAssumption DEF CreateCursor, TypeOK
  <2>3. cursors' \in [1..nCursors' -> Cursor]
    BY <1>3, <2>1 DEF CreateCursor, TypeOK
  <2>4. /\ cur' \in [Call -> 0..MaxCursors] /\ pc' \in [Call -> Waiting]
        /\ \A d \in Call : pc'[d] \in HasCursor => cur'[d] \in 1..nCursors'
    <3>1. nCursors + 1 \in 1..nCursors' /\ 1..nCursors \subseteq 1..nCursors'
      BY <1>3 DEF CreateCursor, TypeOK
    <3> QED
      BY <1>3, <2>2, <3>1
         DEF CreateCursor, TypeOK, CursorKnown, HasCursor, Goto, Waiting, procVars,
             callVars, dbVars
  <2>5. \A t \in inDoubt : t.cur \in 1..nCursors'
    BY <1>3 DEF CreateCursor, CursorKnown, TypeOK
  <2> QED
    BY <1>3, <2>2, <2>3, <2>4, <2>5 DEF CreateCursor, TypeOK, CursorKnown, procVars
<1>4. ASSUME NEW c \in Call, StartReplay(c) PROVE TypeInv'
  <2>1. c[1] \in Proc /\ cur[c] \in 1..nCursors
    BY <1>4, CallProc DEF StartReplay, CursorKnown, HasCursor
  <2>2. cursors' \in [1..nCursors -> Cursor]
    BY <1>4, <2>1, CursorUpdates, NumRowsAssumption DEF StartReplay
  <2>3. shown' \in [Proc -> Shown]
    <3>1. [active |-> TRUE, cur |-> cur[c], offset |-> off[c]] \in Shown
      BY DEF TypeOK, Shown
    <3> QED
      BY <1>4, <2>1, <3>1 DEF StartReplay, TypeOK
  <2> QED
    BY <1>4, <2>2, <2>3
       DEF StartReplay, TypeOK, CursorKnown, HasCursor, Goto, Waiting, procVars,
           callVars, dbVars
<1>5. ASSUME NEW c \in Call, LoopHead(c) PROVE TypeInv'
  <2>1. CASE Unwind(c)
    BY <1>5, <2>1, UnwindTyped DEF LoopHead, Unwind, TypeOK, CursorKnown, dbVars
  <2>2. CASE ~Unwind(c)
    BY <1>5, <2>2
       DEF LoopHead, TypeOK, CursorKnown, HasCursor, Goto, Waiting, procVars,
           callVars, dbVars
  <2> QED
    BY <2>1, <2>2
<1>6. ASSUME NEW c \in Call, BeginBatch(c) PROVE TypeInv'
  BY <1>6
     DEF BeginBatch, TypeOK, CursorKnown, HasCursor, Goto, Waiting, procVars,
         callVars, dbVars
<1>7. ASSUME NEW c \in Call, FetchBatch(c) PROVE TypeInv'
  BY <1>7
     DEF FetchBatch, TypeOK, CursorKnown, HasCursor, Goto, Waiting, procVars,
         callVars, dbVars
<1>8. ASSUME NEW c \in Call, WriteBatch(c) PROVE TypeInv'
  BY <1>8
     DEF WriteBatch, TypeOK, CursorKnown, HasCursor, Goto, Waiting, procVars,
         callVars, dbVars
<1>9. ASSUME NEW c \in Call, CommitBatch(c) PROVE TypeInv'
  <2>1. /\ c[1] \in Proc /\ cur[c] \in 1..nCursors
        /\ req[c] \in Request /\ off[c] \in 0..NumRows
    BY <1>9, CallProc DEF CommitBatch, CursorKnown, HasCursor, TypeOK
  <2>2. /\ NewOffset(c) \in 0..NumRows
        /\ FetchEventBatch(req[c], off[c]) \in SUBSET (1..NumRows)
    BY <2>1, FetchBounds DEF NewOffset
  <2>3. /\ cursors' = AdvanceOffset(cur[c], NewOffset(c))
        /\ inserted' = inserted \cup FetchEventBatch(req[c], off[c])
        /\ nCursors' = nCursors
    BY <1>9 DEF CommitBatch, ApplyTxn, BatchTxn, NewOffset
  <2>4. cursors' \in [1..nCursors' -> Cursor] /\ inserted' \subseteq 1..NumRows
    BY <2>1, <2>2, <2>3, CursorUpdates DEF TypeOK
  <2>5. shown' \in [Proc -> Shown]
    <3>1. shown[c[1]] \in Shown
      BY <2>1 DEF TypeOK
    <3>2. Larger(shown[c[1]].offset, NewOffset(c)) \in 0..NumRows
      BY <2>2, <3>1 DEF Larger, Shown
    <3> QED
      BY <1>9, <2>1, <3>1, <3>2 DEF CommitBatch, TypeOK, Shown
  <2> QED
    BY <1>9, <2>2, <2>3, <2>4, <2>5
       DEF CommitBatch, TypeOK, CursorKnown, HasCursor, Goto, Waiting, procVars,
           callVars, dbVars
<1>10. ASSUME NEW c \in Call, BatchError(c) PROVE TypeInv'
  <2>1. cur[c] \in 1..nCursors
    BY <1>10 DEF BatchError, CursorKnown, HasCursor, Batch
  <2>2. inDoubt' \subseteq Doubt /\ \A t \in inDoubt' : t.cur \in 1..nCursors
    BY <1>10, <2>1, TxnTyped DEF BatchError, BatchTxn, TypeOK, CursorKnown
  <2> QED
    BY <1>10, <2>1, <2>2
       DEF BatchError, TypeOK, CursorKnown, HasCursor, Goto, Waiting, procVars,
           callVars, dbVars
<1>11. ASSUME NEW c \in Call, RollbackBatch(c) PROVE TypeInv'
  BY <1>11, UnwindTyped DEF RollbackBatch, Unwind, TypeOK, CursorKnown, dbVars
<1>12. ASSUME NEW c \in Call, CompleteCursor(c) PROVE TypeInv'
  <2>1. cur[c] \in 1..nCursors
    BY <1>12 DEF CompleteCursor, CursorKnown, HasCursor
  <2>2. cursors' \in [1..nCursors -> Cursor]
    BY <1>12, <2>1, CursorUpdates, NumRowsAssumption DEF CompleteCursor
  <2> QED
    BY <1>12, <2>2, UnwindTyped DEF CompleteCursor, Unwind, TypeOK, CursorKnown
<1>13. ASSUME NEW c \in Call, QueryError(c) PROVE TypeInv'
  BY <1>13, UnwindTyped DEF QueryError, Unwind, TypeOK, CursorKnown, dbVars
<1>14. ASSUME NEW c \in Call, ReleaseLease(c) PROVE TypeInv'
  BY <1>14, CallProc
     DEF ReleaseLease, ReturnFrom, TypeOK, CursorKnown, HasCursor, Goto, Waiting,
         procVars, callVars, dbVars
<1>15. ASSUME NEW c \in Call, ResumeIncompleteReplay(c) PROVE TypeInv'
  BY <1>15, CallProc, ZenonT(60)
     DEF ResumeIncompleteReplay, TryAcquireOk, TryAcquireFails, TypeOK, CursorKnown,
         HasCursor, Goto, Waiting, procVars, callVars, dbVars
<1>16. ASSUME NEW c \in Call, ScanProgress(c) PROVE TypeInv'
  <2>1. \A k \in InProgress : cursors[k].req \in Request
    BY DEF InProgress, TypeOK, Cursor
  <2> QED
    BY <1>16, <2>1, CallProc
       DEF ScanProgress, Enter, TypeOK, CursorKnown, HasCursor, Goto, Waiting,
           procVars, callVars, dbVars
<1>17. ASSUME NEW c \in Call, ConnectionHangs(c) PROVE TypeInv'
  BY <1>17, BoundsAssumption
     DEF ConnectionHangs, TypeOK, CursorKnown, HasCursor, Goto, Waiting, procVars,
         callVars, dbVars
<1>18. ASSUME NEW c \in Call, ConnectionRecovers(c) PROVE TypeInv'
  BY <1>18
     DEF ConnectionRecovers, TypeOK, CursorKnown, HasCursor, Goto, Waiting,
         procVars, callVars, dbVars
<1>19. ASSUME NEW c \in Call, NEW r \in Request, ReplayEvents(c, r) PROVE TypeInv'
  <2>1. starts' \in 0..MaxStarts
    BY <1>19, BoundsAssumption DEF ReplayEvents, TypeOK
  <2>2. /\ stop' \in [Proc -> BOOLEAN] /\ lock' \in [Proc -> BOOLEAN]
        /\ req' \in [Call -> Request] /\ pc' \in [Call -> Waiting]
        /\ \A d \in Call : pc'[d] \in HasCursor => pc[d] \in HasCursor
    BY <1>19, EnterTyped DEF ReplayEvents
  <2> QED
    BY <1>19, <2>1, <2>2 DEF ReplayEvents, TypeOK, CursorKnown, dbVars
<1>20. ASSUME NEW t \in inDoubt, SettleInDoubt(t) PROVE TypeInv'
  <2>1. t \in Doubt /\ t.cur \in 1..nCursors
    BY DEF TypeOK, CursorKnown
  <2>2. AdvanceOffset(t.cur, t.upto) \in [1..nCursors -> Cursor]
    BY <2>1, CursorUpdates DEF Doubt
  <2> QED
    BY <1>20, <2>1, <2>2
       DEF SettleInDoubt, ApplyTxn, Doubt, TypeOK, CursorKnown, HasCursor, Goto,
           Waiting, procVars, callVars, dbVars
<1>21. ASSUME NEW p \in Proc, Restart(p) PROVE TypeInv'
  BY <1>21
     DEF Restart, Call, TypeOK, CursorKnown, HasCursor, Goto, Waiting, procVars,
         callVars, dbVars
<1>22. ASSUME NEW p \in Proc, RequestStopReplay(p) PROVE TypeInv'
  BY <1>22, BoundsAssumption
     DEF RequestStopReplay, TypeOK, CursorKnown, HasCursor, Goto, Waiting, procVars,
         callVars, dbVars
<1>23. ASSUME NEW p \in Proc, ReleaseOnShutdown(p) PROVE TypeInv'
  BY <1>23
     DEF ReleaseOnShutdown, TypeOK, CursorKnown, HasCursor, Goto, Waiting, procVars,
         callVars, dbVars
<1>24. ASSUME NEW p \in Proc, HeartbeatDrops(p) PROVE TypeInv'
  BY <1>24
     DEF HeartbeatDrops, TypeOK, CursorKnown, HasCursor, Goto, Waiting, procVars,
         callVars, dbVars
<1>25. ASSUME NEW p \in Proc, Crash(p) PROVE TypeInv'
  <2>1. inDoubt' \subseteq Doubt /\ \A t \in inDoubt' : t.cur \in 1..nCursors
    <3>1. \A c \in Call : pc[c] = "commit" =>
             BatchTxn(c) \in Doubt /\ BatchTxn(c).cur \in 1..nCursors
      BY TxnTyped DEF BatchTxn, CursorKnown, HasCursor
    <3> QED
      BY <1>25, <3>1 DEF Crash, TypeOK, CursorKnown
  <2>2. shown' \in [Proc -> Shown]
    BY <1>25, NumRowsAssumption, BoundsAssumption DEF Crash, TypeOK, Shown
  <2>3. faults' \in 0..FaultLimit'
    BY <1>25, BoundsAssumption DEF Crash, TypeOK
  <2> QED
    BY <1>25, <2>1, <2>2, <2>3
       DEF Crash, TypeOK, CursorKnown, HasCursor, Goto, Waiting, procVars, callVars,
           dbVars
<1>26. CASE LeaseExpires
  BY <1>26
     DEF LeaseExpires, TypeOK, CursorKnown, HasCursor, Goto, Waiting, procVars,
         callVars, dbVars
<1>27. CASE UNCHANGED vars
  BY <1>27
     DEF vars, TypeOK, CursorKnown, HasCursor, Goto, Waiting, procVars, callVars,
         dbVars
<1> QED
  BY <1>1, <1>2, <1>3, <1>4, <1>5, <1>6, <1>7, <1>8, <1>9, <1>10, <1>11, <1>12,
     <1>13, <1>14, <1>15, <1>16, <1>17, <1>18, <1>19, <1>20, <1>21, <1>22, <1>23,
     <1>24, <1>25, <1>26, <1>27 DEF Next, CallStep

\* Every value stays in its type, and a call never works on a cursor that does
\* not exist, whatever the interleaving of replicas, crashes and errors.
THEOREM TypeCorrect == Spec => []TypeOK
<1>1. TypeInv => TypeOK
  BY DEF TypeInv
<1> QED
  BY TypeInit, TypeStep, <1>1, PTL DEF Spec

----------------------------------------------------------------------------
(* The durable offset never passes the replayed rows.                      *)

\* All requests ask for the same block range (the case in which the code's
\* cursor lookup, which ignores the range, finds the right cursor).
SameRange == \A r, s \in Request : r = s

\* The first o rows of request r's range.
FirstRows(r, o) == r.first..(r.first + o - 1)

\* The calls whose local offset matters for a later COMMIT.
Ready == HasCursor \cup {"create"}

\* CursorCoversRows made inductive: a call's local offset and the offset an
\* unsettled COMMIT may still write are covered as well.
CallsCovered  == \A c \in Call : pc[c] \in Ready =>
                     FirstRows(req[c], off[c]) \subseteq inserted
DoubtsCovered == \A t \in inDoubt, r \in Request :
                     FirstRows(r, t.upto) \subseteq inserted \cup t.rows
CoverInv == CursorCoversRows /\ CallsCovered /\ DoubtsCovered

LEMMA BatchExtends ==
    ASSUME NEW r \in Request, NEW o \in 0..NumRows
    PROVE  FirstRows(r, FetchUpTo(r, o)) \subseteq FirstRows(r, o) \cup FetchEventBatch(r, o)
BY NumRowsAssumption, BatchSizeAssumption, RequestAssumption
   DEF FirstRows, FetchUpTo, FetchEventBatch, Larger, Smaller

\* Recording transaction t on cursor k keeps every cursor covered.
LEMMA ApplyCovers ==
    ASSUME TypeInv, SameRange, CoverInv, NEW t, t.cur \in 1..nCursors, t.upto \in 0..NumRows,
           ApplyTxn(t),
           \A r \in Request : FirstRows(r, t.upto) \subseteq inserted \cup t.rows
    PROVE  CursorCoversRows' /\ DoubtsCovered /\ inserted \subseteq inserted'
<1>1. inserted' = inserted \cup t.rows /\ nCursors' = nCursors
  BY DEF ApplyTxn
<1>2. ASSUME NEW k \in 1..nCursors
      PROVE  FirstRows(cursors'[k].req, cursors'[k].offset) \subseteq inserted'
  <2>1. cursors[k] \in Cursor /\ FirstRows(cursors[k].req, cursors[k].offset) \subseteq inserted
    BY DEF TypeInv, TypeOK, CoverInv, CursorCoversRows, FirstRows
  <2>2. cursors' = [cursors EXCEPT ![t.cur].offset = Larger(cursors[t.cur].offset, t.upto)]
    BY DEF ApplyTxn, AdvanceOffset
  <2>3. /\ cursors'[k].req = cursors[k].req
        /\ cursors'[k].offset \in {cursors[k].offset, t.upto}
    BY <2>2 DEF Larger, TypeInv, TypeOK, Cursor
  <2>4. FirstRows(cursors[k].req, t.upto) \subseteq inserted \cup t.rows
    BY <2>1 DEF Cursor
  <2> QED
    BY <1>1, <2>1, <2>3, <2>4
<1> QED
  BY <1>1, <1>2 DEF CursorCoversRows, CoverInv, FirstRows

\* Steps that leave rows, offsets and unsettled batches alone keep CoverInv.
LEMMA CoverKept ==
    ASSUME CoverInv,
           UNCHANGED <<inserted, inDoubt, nCursors>>,
           \A k \in 1..nCursors : /\ cursors'[k].req = cursors[k].req
                                  /\ cursors'[k].offset = cursors[k].offset,
           \A c \in Call : pc'[c] \in Ready =>
               pc[c] \in Ready /\ req'[c] = req[c] /\ off'[c] = off[c]
    PROVE  CoverInv'
BY DEF CoverInv, CursorCoversRows, CallsCovered, DoubtsCovered

\* A batch sent to COMMIT covers what it would record.
LEMMA TxnCovers ==
    ASSUME TypeInv, SameRange, CoverInv, NEW c \in Call, pc[c] = "commit"
    PROVE  \A r \in Request :
               FirstRows(r, BatchTxn(c).upto) \subseteq inserted \cup BatchTxn(c).rows
<1>1. /\ req[c] \in Request /\ off[c] \in 0..NumRows
      /\ FirstRows(req[c], off[c]) \subseteq inserted
  BY DEF TypeInv, TypeOK, CoverInv, CallsCovered, Ready, HasCursor
<1>2. FirstRows(req[c], FetchUpTo(req[c], off[c]))
        \subseteq FirstRows(req[c], off[c]) \cup FetchEventBatch(req[c], off[c])
  BY <1>1, BatchExtends
<1> QED
  BY <1>1, <1>2 DEF SameRange, BatchTxn

LEMMA CoverInit == Init => CoverInv
BY
   DEF Init, CoverInv, CursorCoversRows, CallsCovered, DoubtsCovered, Ready,
       HasCursor

LEMMA CoverStep ==
    ASSUME SameRange, TypeInv, CoverInv, [Next]_vars
    PROVE  CoverInv'
<1>1. ASSUME NEW c \in Call, AcquireLease(c) PROVE CoverInv'
  BY <1>1, CoverKept
     DEF AcquireLease, Goto, Ready, HasCursor, TypeInv, TypeOK, procVars, callVars,
         dbVars
<1>2. ASSUME NEW c \in Call, LoopHead(c) PROVE CoverInv'
  BY <1>2, CoverKept
     DEF LoopHead, Unwind, Goto, Ready, HasCursor, TypeInv, TypeOK, procVars,
         callVars, dbVars
<1>3. ASSUME NEW c \in Call, BeginBatch(c) PROVE CoverInv'
  BY <1>3, CoverKept
     DEF BeginBatch, Goto, Ready, HasCursor, TypeInv, TypeOK, procVars, callVars,
         dbVars
<1>4. ASSUME NEW c \in Call, FetchBatch(c) PROVE CoverInv'
  BY <1>4, CoverKept
     DEF FetchBatch, Goto, Ready, HasCursor, TypeInv, TypeOK, procVars, callVars,
         dbVars
<1>5. ASSUME NEW c \in Call, WriteBatch(c) PROVE CoverInv'
  BY <1>5, CoverKept
     DEF WriteBatch, Goto, Ready, HasCursor, TypeInv, TypeOK, procVars, callVars,
         dbVars
<1>6. ASSUME NEW c \in Call, RollbackBatch(c) PROVE CoverInv'
  BY <1>6, CoverKept
     DEF RollbackBatch, Unwind, Goto, Ready, HasCursor, TypeInv, TypeOK, procVars,
         callVars, dbVars
<1>7. ASSUME NEW c \in Call, QueryError(c) PROVE CoverInv'
  BY <1>7, CoverKept
     DEF QueryError, Unwind, Goto, Ready, HasCursor, TypeInv, TypeOK, procVars,
         callVars, dbVars
<1>8. ASSUME NEW c \in Call, ReleaseLease(c) PROVE CoverInv'
  BY <1>8, CoverKept
     DEF ReleaseLease, ReturnFrom, Goto, Ready, HasCursor, TypeInv, TypeOK,
         procVars, callVars, dbVars
<1>9. ASSUME NEW c \in Call, ResumeIncompleteReplay(c) PROVE CoverInv'
  BY <1>9, CoverKept
     DEF ResumeIncompleteReplay, Goto, Ready, HasCursor, TypeInv, TypeOK, procVars,
         callVars, dbVars
<1>10. ASSUME NEW c \in Call, ScanProgress(c) PROVE CoverInv'
  BY <1>10, CoverKept
     DEF ScanProgress, Enter, Goto, Ready, HasCursor, TypeInv, TypeOK, procVars,
         callVars, dbVars
<1>11. ASSUME NEW c \in Call, ConnectionHangs(c) PROVE CoverInv'
  BY <1>11, CoverKept
     DEF ConnectionHangs, Goto, Ready, HasCursor, TypeInv, TypeOK, procVars,
         callVars, dbVars
<1>12. ASSUME NEW c \in Call, ConnectionRecovers(c) PROVE CoverInv'
  BY <1>12, CoverKept
     DEF ConnectionRecovers, Goto, Ready, HasCursor, TypeInv, TypeOK, procVars,
         callVars, dbVars
<1>13. ASSUME NEW c \in Call, ResolveCursor(c) PROVE CoverInv'
  <2>1. FirstRows(req[c], off'[c]) \subseteq inserted
    <3>1. ASSUME NEW k \in Active, off'[c] = cursors[k].offset
          PROVE  FirstRows(req[c], off'[c]) \subseteq inserted
      <4>1. cursors[k].req = req[c]
        BY DEF Active, TypeInv, TypeOK, Cursor, SameRange
      <4> QED
        BY <3>1, <4>1 DEF Active, CoverInv, CursorCoversRows, FirstRows
    <3>2. ASSUME off'[c] = 0 PROVE FirstRows(req[c], off'[c]) \subseteq inserted
      <4>1. req[c].first \in Nat
        BY NumRowsAssumption, RequestAssumption DEF TypeInv, TypeOK
      <4> QED
        BY <3>2, <4>1 DEF FirstRows
    <3> QED
      BY <1>13, <3>1, <3>2 DEF ResolveCursor, TypeInv, TypeOK
  <2>2. \A d \in Call \ {c} : pc'[d] = pc[d] /\ off'[d] = off[d]
    BY <1>13 DEF ResolveCursor, Goto, TypeInv, TypeOK
  <2> QED
    BY <1>13, <2>1, <2>2
       DEF ResolveCursor, CoverInv, CursorCoversRows, CallsCovered, DoubtsCovered, dbVars
<1>14. ASSUME NEW c \in Call, CreateCursor(c) PROVE CoverInv'
  <2>1. \A d \in Call : pc'[d] \in Ready =>
           pc[d] \in Ready /\ req'[d] = req[d] /\ off'[d] = off[d]
    BY <1>14 DEF CreateCursor, Goto, Ready, HasCursor, TypeInv, TypeOK
  <2>2. CallsCovered' /\ DoubtsCovered'
    BY <1>14, <2>1 DEF CreateCursor, CoverInv, CallsCovered, DoubtsCovered
  <2>3. \A k \in 1..nCursors' : FirstRows(cursors'[k].req, cursors'[k].offset) \subseteq inserted
    <3>1. req[c].first \in Nat
      BY NumRowsAssumption, RequestAssumption DEF TypeInv, TypeOK
    <3>2. FirstRows(req[c], 0) = {}
      BY <3>1 DEF FirstRows
    <3>3. nCursors \in Nat /\ nCursors' = nCursors + 1
      BY <1>14, BoundsAssumption DEF CreateCursor, TypeInv, TypeOK
    <3>4. \A k \in 1..nCursors : cursors'[k] = cursors[k]
      BY <1>14, <3>3 DEF CreateCursor
    <3>5. cursors'[nCursors'].req = req[c] /\ cursors'[nCursors'].offset = 0
      BY <1>14, <3>3 DEF CreateCursor
    <3> QED
      BY <3>2, <3>3, <3>4, <3>5 DEF CoverInv, CursorCoversRows, FirstRows
  <2> QED
    BY <1>14, <2>2, <2>3 DEF CreateCursor, CoverInv, CursorCoversRows, FirstRows
<1>15. ASSUME NEW c \in Call, StartReplay(c) PROVE CoverInv'
  <2>1. \A k \in 1..nCursors : /\ cursors'[k].req = cursors[k].req
                               /\ cursors'[k].offset = cursors[k].offset
    BY <1>15
       DEF StartReplay, UpsertResuming, InsertIfAbsent, TypeInv, TypeOK, Cursor
  <2> QED
    BY <1>15, <2>1, CoverKept
       DEF StartReplay, Goto, Ready, HasCursor, TypeInv, TypeOK
<1>16. ASSUME NEW c \in Call, CommitBatch(c) PROVE CoverInv'
  <2>1. /\ pc[c] = "commit" /\ ApplyTxn(BatchTxn(c))
        /\ off' = [off EXCEPT ![c] = BatchTxn(c).upto] /\ UNCHANGED <<req, inDoubt>>
    BY <1>16 DEF CommitBatch, NewOffset, BatchTxn
  <2>2. BatchTxn(c).cur \in 1..nCursors /\ BatchTxn(c).upto \in 0..NumRows
    BY <2>1, TxnTyped DEF Doubt, BatchTxn, TypeInv, CursorKnown, HasCursor
  <2>3. \A r \in Request :
           FirstRows(r, BatchTxn(c).upto) \subseteq inserted \cup BatchTxn(c).rows
    BY <2>1, TxnCovers
  <2>4. CursorCoversRows' /\ inserted \subseteq inserted'
    BY <2>1, <2>2, <2>3, ApplyCovers
  <2>5. inserted' = inserted \cup BatchTxn(c).rows
    BY <2>1 DEF ApplyTxn
  <2>6. CallsCovered'
    <3>1. FirstRows(req[c], off'[c]) \subseteq inserted'
      BY <2>1, <2>3, <2>5 DEF TypeInv, TypeOK
    <3>2. \A d \in Call \ {c} : pc'[d] = pc[d] /\ off'[d] = off[d]
      BY <1>16, <2>1 DEF CommitBatch, Goto, TypeInv, TypeOK
    <3> QED
      BY <2>1, <2>4, <3>1, <3>2 DEF CallsCovered, CoverInv
  <2> QED
    BY <2>1, <2>4, <2>6 DEF CoverInv, DoubtsCovered
<1>17. ASSUME NEW c \in Call, BatchError(c) PROVE CoverInv'
  <2>1. DoubtsCovered'
    BY <1>17, TxnCovers DEF BatchError, CoverInv, DoubtsCovered
  <2>2. \A d \in Call : pc'[d] \in Ready =>
           pc[d] \in Ready /\ req'[d] = req[d] /\ off'[d] = off[d]
    BY <1>17 DEF BatchError, Batch, Goto, Ready, HasCursor, TypeInv, TypeOK
  <2> QED
    BY <1>17, <2>1, <2>2 DEF BatchError, CoverInv, CursorCoversRows, CallsCovered
<1>18. ASSUME NEW c \in Call, CompleteCursor(c) PROVE CoverInv'
  <2>1. \A k \in 1..nCursors : /\ cursors'[k].req = cursors[k].req
                               /\ cursors'[k].offset = cursors[k].offset
    BY <1>18 DEF CompleteCursor, MarkCompleted, TypeInv, TypeOK, Cursor
  <2> QED
    BY <1>18, <2>1, CoverKept
       DEF CompleteCursor, Unwind, Goto, Ready, HasCursor, TypeInv, TypeOK
<1>19. ASSUME NEW c \in Call, NEW r \in Request, ReplayEvents(c, r) PROVE CoverInv'
  <2>1. pc' = [pc EXCEPT ![c] = "idle"] \/ pc' = [pc EXCEPT ![c] = "acquire"]
    BY <1>19 DEF ReplayEvents, Enter, Goto
  <2>2. \A d \in Call : d # c => req'[d] = req[d]
    BY <1>19 DEF ReplayEvents, Enter, TypeInv, TypeOK
  <2> QED
    BY <1>19, <2>1, <2>2, CoverKept
       DEF ReplayEvents, Ready, HasCursor, TypeInv, TypeOK, dbVars
<1>20. ASSUME NEW t \in inDoubt, SettleInDoubt(t) PROVE CoverInv'
  <2>1. t \in Doubt /\ t.cur \in 1..nCursors
    BY DEF TypeInv, TypeOK, CursorKnown
  <2>2. CASE ApplyTxn(t)
    <3>1. \A r \in Request : FirstRows(r, t.upto) \subseteq inserted \cup t.rows
      BY DEF CoverInv, DoubtsCovered
    <3>2. CursorCoversRows' /\ inserted \subseteq inserted'
      BY <2>1, <2>2, <3>1, ApplyCovers DEF Doubt
    <3> QED
      BY <1>20, <3>2
         DEF SettleInDoubt, CoverInv, CallsCovered, DoubtsCovered, callVars
  <2>3. CASE UNCHANGED <<nCursors, cursors, inserted>>
    BY <1>20, <2>3
       DEF SettleInDoubt, CoverInv, CursorCoversRows, CallsCovered, DoubtsCovered, callVars
  <2> QED
    BY <1>20, <2>2, <2>3 DEF SettleInDoubt
<1>21. ASSUME NEW p \in Proc, Restart(p) PROVE CoverInv'
  BY <1>21, CoverKept
     DEF Restart, Goto, Ready, HasCursor, TypeInv, TypeOK, procVars, callVars,
         dbVars, Call
<1>22. ASSUME NEW p \in Proc, RequestStopReplay(p) PROVE CoverInv'
  BY <1>22, CoverKept
     DEF RequestStopReplay, Goto, Ready, HasCursor, TypeInv, TypeOK, procVars,
         callVars, dbVars
<1>23. ASSUME NEW p \in Proc, ReleaseOnShutdown(p) PROVE CoverInv'
  BY <1>23, CoverKept
     DEF ReleaseOnShutdown, Goto, Ready, HasCursor, TypeInv, TypeOK, procVars,
         callVars, dbVars
<1>24. ASSUME NEW p \in Proc, HeartbeatDrops(p) PROVE CoverInv'
  BY <1>24, CoverKept
     DEF HeartbeatDrops, Goto, Ready, HasCursor, TypeInv, TypeOK, procVars,
         callVars, dbVars
<1>25. ASSUME NEW p \in Proc, Crash(p) PROVE CoverInv'
  <2>1. DoubtsCovered'
    BY <1>25, TxnCovers DEF Crash, CoverInv, DoubtsCovered
  <2>2. \A d \in Call : pc'[d] \in Ready => pc[d] \in Ready
    BY <1>25 DEF Crash, Ready, HasCursor
  <2> QED
    BY <1>25, <2>1, <2>2 DEF Crash, CoverInv, CursorCoversRows, CallsCovered
<1>26. CASE LeaseExpires
  BY <1>26, CoverKept
     DEF LeaseExpires, Goto, Ready, HasCursor, TypeInv, TypeOK, procVars, callVars,
         dbVars
<1>27. CASE UNCHANGED vars
  BY <1>27, CoverKept
     DEF vars, Goto, Ready, HasCursor, TypeInv, TypeOK, procVars, callVars, dbVars
<1> QED
  BY <1>1, <1>2, <1>3, <1>4, <1>5, <1>6, <1>7, <1>8, <1>9, <1>10, <1>11, <1>12,
     <1>13, <1>14, <1>15, <1>16, <1>17, <1>18, <1>19, <1>20, <1>21, <1>22, <1>23,
     <1>24, <1>25, <1>26, <1>27
     DEF Next, CallStep

\* For one block range, a resume from last_committed_offset skips no row: the
\* rows up to a cursor's offset are in contract_events, for any number of
\* replicas that overlap, crash, lose the lease or lose a COMMIT's answer.
THEOREM ResumeSkipsNothing ==
    ASSUME SameRange PROVE Spec => []CursorCoversRows
<1>1. Init => TypeInv /\ CoverInv
  BY TypeInit, CoverInit
<1>2. (TypeInv /\ CoverInv) /\ [Next]_vars => (TypeInv /\ CoverInv)'
  BY TypeStep, CoverStep, SameRange
<1>3. CoverInv => CursorCoversRows
  BY DEF CoverInv
<1> QED
  BY <1>1, <1>2, <1>3, PTL DEF Spec

----------------------------------------------------------------------------
(* Nothing durable goes backwards.                                         *)

LEMMA AdvanceRaises ==
    ASSUME TypeInv, NEW j \in 1..nCursors, NEW u \in 0..NumRows, NEW k \in 1..nCursors
    PROVE  /\ AdvanceOffset(j, u)[k].offset >= cursors[k].offset
           /\ AdvanceOffset(j, u)[k].completed = cursors[k].completed
BY DEF AdvanceOffset, Larger, TypeInv, TypeOK, Cursor

LEMMA RegressStep == TypeInv /\ [Next]_vars => [NoRegress]_vars
<1> SUFFICES ASSUME TypeInv, Next PROVE NoRegress
  OBVIOUS
<1>1. nCursors \in Nat /\ \A k \in 1..nCursors : cursors[k] \in Cursor
  BY BoundsAssumption DEF TypeInv, TypeOK
<1>2. ASSUME UNCHANGED <<nCursors, cursors, inserted>> PROVE NoRegress
  BY <1>1, <1>2 DEF NoRegress, Cursor
<1>3. ASSUME NEW c \in Call, CreateCursor(c) PROVE NoRegress
  BY <1>1, <1>3 DEF CreateCursor, NoRegress, Cursor
<1>4. ASSUME NEW c \in Call, StartReplay(c) PROVE NoRegress
  <2>1. \A k \in 1..nCursors : /\ cursors'[k].offset = cursors[k].offset
                               /\ cursors'[k].completed = cursors[k].completed
    BY <1>1, <1>4 DEF StartReplay, UpsertResuming, InsertIfAbsent, TypeInv, TypeOK, Cursor
  <2> QED
    BY <1>1, <1>4, <2>1 DEF StartReplay, NoRegress, Cursor
<1>5. ASSUME NEW c \in Call, CommitBatch(c) PROVE NoRegress
  <2>1. pc[c] = "commit" /\ ApplyTxn(BatchTxn(c))
    BY <1>5 DEF CommitBatch
  <2>2. BatchTxn(c).cur \in 1..nCursors /\ BatchTxn(c).upto \in 0..NumRows
    BY <2>1, TxnTyped DEF Doubt, BatchTxn, TypeInv, CursorKnown, HasCursor
  <2> QED
    BY <1>1, <2>1, <2>2, AdvanceRaises DEF ApplyTxn, NoRegress
<1>6. ASSUME NEW c \in Call, CompleteCursor(c) PROVE NoRegress
  <2>1. \A k \in 1..nCursors : /\ cursors'[k].offset = cursors[k].offset
                               /\ cursors[k].completed => cursors'[k].completed
    BY <1>1, <1>6 DEF CompleteCursor, MarkCompleted, TypeInv, TypeOK, Cursor
  <2> QED
    BY <1>1, <1>6, <2>1 DEF CompleteCursor, NoRegress, Cursor
<1>7. ASSUME NEW t \in inDoubt, SettleInDoubt(t), ApplyTxn(t) PROVE NoRegress
  <2>1. t.cur \in 1..nCursors /\ t.upto \in 0..NumRows
    BY DEF TypeInv, TypeOK, CursorKnown, Doubt
  <2> QED
    BY <1>1, <1>7, <2>1, AdvanceRaises DEF ApplyTxn, NoRegress
<1>8. ASSUME NEW c \in Call, CallStep(c) PROVE NoRegress
  <2>1. CASE \/ AcquireLease(c) \/ ResolveCursor(c) \/ LoopHead(c) \/ BeginBatch(c)
             \/ FetchBatch(c) \/ WriteBatch(c) \/ BatchError(c) \/ RollbackBatch(c)
             \/ QueryError(c)
    BY <1>2, <2>1
       DEF AcquireLease, ResolveCursor, LoopHead, BeginBatch, FetchBatch, WriteBatch,
           BatchError, RollbackBatch, QueryError, dbVars
  <2>2. CASE ReleaseLease(c) \/ ResumeIncompleteReplay(c) \/ ScanProgress(c)
    BY <1>2, <2>2 DEF ReleaseLease, ReturnFrom, ResumeIncompleteReplay, ScanProgress, dbVars
  <2> QED
    BY <1>3, <1>4, <1>5, <1>6, <1>8, <2>1, <2>2 DEF CallStep
<1>9. ASSUME NEW c \in Call, ConnectionHangs(c) \/ ConnectionRecovers(c) PROVE NoRegress
  BY <1>2, <1>9 DEF ConnectionHangs, ConnectionRecovers, dbVars
<1>10. ASSUME NEW c \in Call, NEW r \in Request, ReplayEvents(c, r) PROVE NoRegress
  BY <1>2, <1>10 DEF ReplayEvents, dbVars
<1>11. ASSUME NEW t \in inDoubt, SettleInDoubt(t) PROVE NoRegress
  BY <1>2, <1>7, <1>11 DEF SettleInDoubt
<1>12. ASSUME NEW p \in Proc,
              \/ Restart(p) \/ RequestStopReplay(p) \/ ReleaseOnShutdown(p)
              \/ HeartbeatDrops(p) \/ Crash(p)
       PROVE  NoRegress
  BY <1>2, <1>12
     DEF Restart, RequestStopReplay, ReleaseOnShutdown, HeartbeatDrops, Crash, dbVars
<1>13. CASE LeaseExpires
  BY <1>2, <1>13 DEF LeaseExpires, dbVars
<1> QED
  BY <1>8, <1>9, <1>10, <1>11, <1>12, <1>13 DEF Next

\* Offsets never fall, completed cursors stay completed and replayed rows stay,
\* even when two replicas that both believe to lead commit in turn (GREATEST).
THEOREM DurableProgress == Spec => NothingRegresses
BY TypeInit, TypeStep, RegressStep, PTL DEF Spec, NothingRegresses

----------------------------------------------------------------------------
(* The in-process lock.                                                    *)

\* A replica that is down has no call open.
DownIsIdle == \A c \in Call : ~up[c[1]] => pc[c] = "idle"
LockInv    == LockGuardsRun /\ DownIsIdle

\* Steps of one call that keep it on the same side of the lock.
LEMMA LockKept ==
    ASSUME TypeInv, LockInv, NEW c \in Call, NEW where \in Waiting, Goto(c, where),
           pc[c] \in Locked <=> where \in Locked, up[c[1]], UNCHANGED <<up, lock>>
    PROVE  LockInv'
<1>1. \A d \in Call : pc'[d] = IF d = c THEN where ELSE pc[d]
  BY DEF Goto, TypeInv, TypeOK
<1>2. \A d \in Call : pc'[d] \in Locked <=> pc[d] \in Locked
  BY <1>1
<1>3. LockGuardsRun'
  BY <1>2 DEF LockInv, LockGuardsRun
<1>4. DownIsIdle'
  BY <1>1 DEF LockInv, DownIsIdle
<1> QED
  BY <1>3, <1>4 DEF LockInv

\* A call that holds the lock gives it up together with its place in Locked.
LEMMA LockGivenUp ==
    ASSUME TypeInv, LockInv, NEW c \in Call, pc[c] \in Locked,
           NEW where \in Waiting \ Locked, Goto(c, where),
           lock' = [lock EXCEPT ![c[1]] = FALSE], up' = up
    PROVE  LockInv'
<1>1. c[1] \in Proc /\ up[c[1]]
  BY CallProc DEF LockInv, DownIsIdle, Locked, TypeInv, TypeOK
<1>2. \A d \in Call : pc'[d] = IF d = c THEN where ELSE pc[d]
  BY DEF Goto, TypeInv, TypeOK
<1>3. \A d \in Call : pc'[d] \in Locked => pc[d] \in Locked /\ d[1] # c[1]
  BY <1>2 DEF LockInv, LockGuardsRun
<1>4. \A p \in Proc : lock'[p] = IF p = c[1] THEN FALSE ELSE lock[p]
  BY DEF TypeInv, TypeOK
<1>5. \A d \in Call : d[1] \in Proc
  BY CallProc
<1>6. \A d \in Call : pc'[d] \in Locked => lock'[d[1]]
  BY <1>3, <1>4, <1>5 DEF LockInv, LockGuardsRun
<1>7. \A p \in Proc : lock'[p] => \E d \in Call : d[1] = p /\ pc'[d] \in Locked
  <2> SUFFICES ASSUME NEW p \in Proc, lock'[p]
               PROVE  \E d \in Call : d[1] = p /\ pc'[d] \in Locked
    OBVIOUS
  <2>1. p # c[1] /\ lock[p]
    BY <1>4
  <2>2. PICK d \in Call : d[1] = p /\ pc[d] \in Locked
    BY <2>1 DEF LockInv, LockGuardsRun
  <2> QED
    BY <1>2, <2>1, <2>2
<1>8. LockGuardsRun'
  BY <1>3, <1>6, <1>7 DEF LockInv, LockGuardsRun
<1>9. DownIsIdle'
  BY <1>1, <1>2 DEF LockInv, DownIsIdle
<1> QED
  BY <1>8, <1>9 DEF LockInv

\* The entry of replayEvents takes the lock only when it is free.
LEMMA LockEntered ==
    ASSUME TypeInv, LockInv, NEW c \in Call, NEW r \in Request, Enter(c, r),
           pc[c] \notin Locked, up[c[1]], up' = up
    PROVE  LockInv'
<1>1. c[1] \in Proc
  BY CallProc
<1>2. CASE Goto(c, "idle") /\ lock' = lock
  BY <1>2, LockKept DEF Locked, Waiting
<1>3. CASE /\ ~lock[c[1]] /\ lock' = [lock EXCEPT ![c[1]] = TRUE]
           /\ Goto(c, "acquire")
  <2>1. \A d \in Call : pc'[d] = IF d = c THEN "acquire" ELSE pc[d]
    BY <1>3 DEF Goto, TypeInv, TypeOK
  <2>2. \A p \in Proc : lock'[p] = IF p = c[1] THEN TRUE ELSE lock[p]
    BY <1>3 DEF TypeInv, TypeOK
  <2>3. \A d \in Call : d[1] \in Proc /\ (pc[d] \in Locked => d[1] # c[1])
    BY <1>3, CallProc DEF LockInv, LockGuardsRun
  <2>4. "acquire" \in Locked
    BY DEF Locked, Waiting
  <2>5. LockGuardsRun'
    <3>1. \A d \in Call : pc'[d] \in Locked => lock'[d[1]]
      <4>1. lock'[c[1]]
        BY <1>1, <2>2
      <4>2. ASSUME NEW d \in Call, d # c, pc'[d] \in Locked PROVE lock'[d[1]]
        <5>1. pc[d] \in Locked /\ d[1] # c[1]
          BY <2>1, <2>3, <4>2
        <5>2. lock[d[1]] /\ d[1] \in Proc
          BY <2>3, <5>1 DEF LockInv, LockGuardsRun
        <5>3. lock'[d[1]] = lock[d[1]]
          BY <2>2, <5>1, <5>2
        <5> QED
          BY <5>2, <5>3
      <4> QED
        BY <4>1, <4>2
    <3>2. ASSUME NEW p \in Proc, lock'[p]
          PROVE  \E d \in Call : d[1] = p /\ pc'[d] \in Locked
      <4>1. CASE p = c[1]
        BY <2>1, <2>4, <4>1
      <4>2. CASE p # c[1]
        <5>1. PICK d \in Call : d[1] = p /\ pc[d] \in Locked
          BY <2>2, <3>2, <4>2 DEF LockInv, LockGuardsRun
        <5> QED
          BY <2>1, <4>2, <5>1
      <4> QED
        BY <4>1, <4>2
    <3>3. \A d, e \in Call : d[1] = e[1] /\ pc'[d] \in Locked /\ pc'[e] \in Locked => d = e
      BY <2>1, <2>3 DEF LockInv, LockGuardsRun
    <3> QED
      BY <3>1, <3>2, <3>3 DEF LockGuardsRun
  <2>6. DownIsIdle'
    BY <2>1 DEF LockInv, DownIsIdle
  <2> QED
    BY <2>5, <2>6 DEF LockInv
<1> QED
  BY <1>2, <1>3 DEF Enter

LEMMA LockStep == TypeInv /\ LockInv /\ [Next]_vars => LockInv'
<1> SUFFICES ASSUME TypeInv, LockInv, [Next]_vars PROVE LockInv'
  OBVIOUS
<1>1. \A c \in Call : pc[c] # "idle" => up[c[1]]
  BY DEF LockInv, DownIsIdle
<1>2. Locked = {"acquire", "resolve", "upsert", "create", "checkpoint", "loop", "begin",
                "fetch", "write", "commit", "rollback", "complete"}
  BY DEF Locked, Waiting
<1>3. /\ Locked \subseteq Waiting
      /\ {"idle", "scan", "release", "delete"} \subseteq Waiting \ Locked
  BY <1>2 DEF Waiting
<1>4. ASSUME NEW c \in Call, pc[c] \in Locked, Unwind(c) PROVE LockInv'
  BY <1>3, <1>4, LockGivenUp DEF Unwind
<1>5. ASSUME UNCHANGED <<up, lock, pc>> PROVE LockInv'
  BY <1>5 DEF LockInv, LockGuardsRun, DownIsIdle
<1>6. ASSUME NEW c \in Call, AcquireLease(c) PROVE LockInv'
  <2>1. pc[c] \in Locked /\ up[c[1]] /\ "resolve" \in Locked
    BY <1>1, <1>2, <1>6 DEF AcquireLease
  <2> QED
    BY <1>3, <1>6, <2>1, LockKept, LockGivenUp DEF AcquireLease
<1>7. ASSUME NEW c \in Call, ResolveCursor(c) \/ CreateCursor(c) \/ StartReplay(c)
      PROVE  LockInv'
  <2>1. pc[c] \in Locked /\ up[c[1]] /\ UNCHANGED <<up, lock>>
    BY <1>1, <1>2, <1>7 DEF ResolveCursor, CreateCursor, StartReplay, procVars
  <2>2. \E w \in Locked : Goto(c, w)
    BY <1>2, <1>7 DEF ResolveCursor, CreateCursor, StartReplay
  <2> QED
    BY <1>3, <2>1, <2>2, LockKept
<1>8. ASSUME NEW c \in Call, LoopHead(c) PROVE LockInv'
  <2>1. pc[c] \in Locked /\ up[c[1]]
    BY <1>1, <1>2, <1>8 DEF LoopHead
  <2>2. CASE Unwind(c)
    BY <1>4, <2>1, <2>2
  <2>3. CASE UNCHANGED <<up, lock>> /\ \E w \in {"complete", "begin"} : Goto(c, w)
    BY <1>2, <1>3, <2>1, <2>3, LockKept
  <2> QED
    BY <1>8, <2>2, <2>3 DEF LoopHead, procVars
<1>9. ASSUME NEW c \in Call,
             \/ BeginBatch(c) \/ FetchBatch(c) \/ WriteBatch(c) \/ CommitBatch(c)
             \/ BatchError(c)
      PROVE  LockInv'
  <2>1. pc[c] \in Locked /\ up[c[1]] /\ UNCHANGED <<up, lock>>
    BY <1>1, <1>2, <1>9
       DEF BeginBatch, FetchBatch, WriteBatch, CommitBatch, BatchError, Batch, procVars
  <2>2. \E w \in Locked : Goto(c, w)
    BY <1>2, <1>9 DEF BeginBatch, FetchBatch, WriteBatch, CommitBatch, BatchError
  <2> QED
    BY <1>3, <2>1, <2>2, LockKept
<1>10. ASSUME NEW c \in Call, RollbackBatch(c) \/ CompleteCursor(c) \/ QueryError(c)
       PROVE  LockInv'
  BY <1>2, <1>4, <1>10 DEF RollbackBatch, CompleteCursor, QueryError
<1>11. ASSUME NEW c \in Call, ReleaseLease(c) PROVE LockInv'
  <2>1. pc[c] \notin Locked /\ up[c[1]] /\ UNCHANGED <<up, lock>>
    BY <1>1, <1>2, <1>11 DEF ReleaseLease, ReturnFrom, procVars
  <2>2. \E w \in Waiting \ Locked : Goto(c, w)
    BY <1>3, <1>11 DEF ReleaseLease, ReturnFrom
  <2> QED
    BY <2>1, <2>2, LockKept
<1>12. ASSUME NEW c \in Call, ResumeIncompleteReplay(c) PROVE LockInv'
  <2>1. pc[c] \notin Locked /\ up[c[1]] /\ UNCHANGED <<up, lock>>
    BY <1>1, <1>2, <1>12 DEF ResumeIncompleteReplay
  <2>2. \E w \in Waiting \ Locked : Goto(c, w)
    BY <1>3, <1>12 DEF ResumeIncompleteReplay
  <2> QED
    BY <2>1, <2>2, LockKept
<1>13. ASSUME NEW c \in Call, ScanProgress(c) PROVE LockInv'
  <2>1. pc[c] \notin Locked /\ up[c[1]] /\ up' = up
    BY <1>1, <1>2, <1>13 DEF ScanProgress
  <2>2. CASE \E k \in InProgress : Enter(c, cursors[k].req)
    <3>1. \A k \in InProgress : cursors[k].req \in Request
      BY DEF InProgress, TypeInv, TypeOK, Cursor
    <3> QED
      BY <2>1, <2>2, <3>1, LockEntered
  <2>3. CASE Goto(c, "idle") /\ lock' = lock
    BY <1>3, <2>1, <2>3, LockKept
  <2> QED
    BY <1>13, <2>2, <2>3 DEF ScanProgress
<1>14. ASSUME NEW c \in Call, NEW r \in Request, ReplayEvents(c, r) PROVE LockInv'
  BY <1>2, <1>14, LockEntered DEF ReplayEvents
<1>15. ASSUME NEW p \in Proc, Restart(p) PROVE LockInv'
  <2>1. PICK s \in Slot : Goto(<<p, s>>, "boot")
    BY <1>15 DEF Restart
  <2>2. <<p, s>> \in Call /\ <<p, s>>[1] = p
    BY DEF Call
  <2>3. \A d \in Call : pc'[d] = IF d = <<p, s>> THEN "boot" ELSE pc[d]
    BY <2>1 DEF Goto, TypeInv, TypeOK
  <2>4. pc[<<p, s>>] = "idle"
    BY <1>15, <2>2 DEF Restart, LockInv, DownIsIdle
  <2>5. \A d \in Call : pc'[d] \in Locked <=> pc[d] \in Locked
    BY <1>2, <2>3, <2>4
  <2>6. \A q \in Proc : up'[q] = IF q = p THEN TRUE ELSE up[q]
    BY <1>15 DEF Restart, TypeInv, TypeOK
  <2>7. LockGuardsRun'
    BY <1>15, <2>5 DEF Restart, LockInv, LockGuardsRun
  <2>8. DownIsIdle'
    BY <2>2, <2>3, <2>6, CallProc DEF LockInv, DownIsIdle
  <2> QED
    BY <2>7, <2>8 DEF LockInv
<1>16. ASSUME NEW p \in Proc, Crash(p) PROVE LockInv'
  <2>1. /\ \A d \in Call : pc'[d] = IF d[1] = p THEN "idle" ELSE pc[d]
        /\ \A q \in Proc : lock'[q] = IF q = p THEN FALSE ELSE lock[q]
        /\ \A q \in Proc : up'[q] = IF q = p THEN FALSE ELSE up[q]
    BY <1>16 DEF Crash, TypeInv, TypeOK
  <2>2. "idle" \notin Locked /\ \A d \in Call : d[1] \in Proc
    BY <1>2, CallProc
  <2>3. LockGuardsRun'
    <3>1. ASSUME NEW d \in Call, pc'[d] \in Locked PROVE lock'[d[1]]
      <4>1. d[1] # p /\ pc[d] \in Locked
        BY <2>1, <2>2, <3>1
      <4>2. lock[d[1]]
        BY <4>1 DEF LockInv, LockGuardsRun
      <4> QED
        BY <2>1, <2>2, <4>1, <4>2
    <3>2. ASSUME NEW q \in Proc, lock'[q]
          PROVE  \E d \in Call : d[1] = q /\ pc'[d] \in Locked
      <4>1. q # p /\ lock[q]
        BY <2>1, <3>2
      <4>2. PICK d \in Call : d[1] = q /\ pc[d] \in Locked
        BY <4>1 DEF LockInv, LockGuardsRun
      <4> QED
        BY <2>1, <4>1, <4>2
    <3>3. ASSUME NEW d \in Call, NEW e \in Call, d[1] = e[1],
                 pc'[d] \in Locked, pc'[e] \in Locked
          PROVE  d = e
      <4>1. pc[d] \in Locked /\ pc[e] \in Locked
        BY <2>1, <2>2, <3>3
      <4> QED
        BY <3>3, <4>1 DEF LockInv, LockGuardsRun
    <3> QED
      BY <3>1, <3>2, <3>3 DEF LockGuardsRun
  <2>4. DownIsIdle'
    BY <2>1, <2>2 DEF LockInv, DownIsIdle
  <2> QED
    BY <2>3, <2>4 DEF LockInv
<1>17. CASE \/ \E c \in Call : ConnectionHangs(c) \/ ConnectionRecovers(c)
            \/ \E t \in inDoubt : SettleInDoubt(t)
            \/ \E p \in Proc : \/ RequestStopReplay(p) \/ ReleaseOnShutdown(p)
                               \/ HeartbeatDrops(p)
            \/ LeaseExpires \/ UNCHANGED vars
  BY <1>5, <1>17
     DEF ConnectionHangs, ConnectionRecovers, SettleInDoubt, RequestStopReplay,
         ReleaseOnShutdown, HeartbeatDrops, LeaseExpires, vars, procVars, callVars
<1> QED
  BY <1>6, <1>7, <1>8, <1>9, <1>10, <1>11, <1>12, <1>13, <1>14, <1>15, <1>16, <1>17
     DEF Next, CallStep

\* On every path, through errors, cancellations, crashes and start-up recovery,
\* a replica's replayLock is held exactly while one of its calls runs.
THEOREM LockIsExact == Spec => []LockGuardsRun
<1>1. Init => TypeInv /\ LockInv
  BY TypeInit, CallProc
     DEF Init, LockInv, LockGuardsRun, DownIsIdle, Locked
<1>2. (TypeInv /\ LockInv) /\ [Next]_vars => (TypeInv /\ LockInv)'
  BY TypeStep, LockStep
<1>3. LockInv => LockGuardsRun
  BY DEF LockInv
<1> QED
  BY <1>1, <1>2, <1>3, PTL DEF Spec

----------------------------------------------------------------------------
(* Committed work leaves a trace that start-up recovery finds.             *)

\* The calls that have written their row of indexer_replay_progress.
HasTrace == {"loop", "begin", "fetch", "write", "commit", "rollback", "complete"}

\* Whoever may still commit has a checkpoint row, and only completeCursor
\* moves that row out of in-progress.
TraceInv ==
    /\ \A k \in 1..nCursors : /\ cursors[k].status = "completed" => cursors[k].completed
                              /\ cursors[k].offset > 0 => cursors[k].status # "absent"
    /\ \A c \in Call : pc[c] \in HasTrace => cursors[cur[c]].status # "absent"
    /\ \A t \in inDoubt : cursors[t.cur].status # "absent"

\* Steps that neither touch the cursors nor bring a call closer to its COMMIT.
LEMMA TraceKept ==
    ASSUME TraceInv, UNCHANGED <<nCursors, cursors, inDoubt>>,
           \A c \in Call : pc'[c] \in HasTrace => pc[c] \in HasTrace /\ cur'[c] = cur[c]
    PROVE  TraceInv'
BY DEF TraceInv

\* Updates that keep every checkpoint row and every call's cursor.
LEMMA TraceUpdated ==
    ASSUME TypeInv, TraceInv, UNCHANGED nCursors,
           \A k \in 1..nCursors :
              /\ cursors[k].status # "absent" => cursors'[k].status # "absent"
              /\ cursors'[k].status = "completed" => cursors'[k].completed
              /\ cursors'[k].offset > 0 => cursors'[k].status # "absent",
           \A c \in Call : pc'[c] \in HasTrace =>
              \/ pc[c] \in HasTrace /\ cur'[c] = cur[c]
              \/ cursors'[cur'[c]].status # "absent",
           \A t \in inDoubt' : t \in inDoubt
    PROVE  TraceInv'
<1>1. ASSUME NEW c \in Call, pc'[c] \in HasTrace PROVE cursors'[cur'[c]].status # "absent"
  <2>1. CASE pc[c] \in HasTrace /\ cur'[c] = cur[c]
    <3>1. cur[c] \in 1..nCursors /\ cursors[cur[c]].status # "absent"
      BY <2>1 DEF TraceInv, TypeInv, CursorKnown, HasCursor, HasTrace
    <3> QED
      BY <2>1, <3>1
  <2> QED
    BY <1>1, <2>1
<1>2. ASSUME NEW t \in inDoubt' PROVE cursors'[t.cur].status # "absent"
  BY DEF TraceInv, TypeInv, CursorKnown
<1> QED
  BY <1>1, <1>2 DEF TraceInv

LEMMA TraceStep == TypeInv /\ TraceInv /\ [Next]_vars => TraceInv'
<1> SUFFICES ASSUME TypeInv, TraceInv, [Next]_vars PROVE TraceInv'
  OBVIOUS
<1>1. nCursors \in Nat /\ \A k \in 1..nCursors : cursors[k] \in Cursor
  BY BoundsAssumption DEF TypeInv, TypeOK
<1>2. ASSUME UNCHANGED <<nCursors, cursors, inDoubt, cur>>,
             NEW c \in Call, NEW w \in Waiting \ HasTrace, Goto(c, w)
      PROVE  TraceInv'
  BY <1>2, TraceKept DEF Goto, TypeInv, TypeOK
<1>3. ASSUME UNCHANGED <<nCursors, cursors, inDoubt, cur>>,
             NEW c \in Call, NEW w \in Waiting, pc[c] \in HasTrace, Goto(c, w)
      PROVE  TraceInv'
  BY <1>3, TraceKept DEF Goto, TypeInv, TypeOK
<1>4. {"idle", "acquire", "resolve", "create", "upsert", "checkpoint", "boot", "scan",
       "release", "delete"} \subseteq Waiting \ HasTrace
      /\ HasTrace \subseteq Waiting
  BY DEF Waiting, HasTrace
<1>5. ASSUME NEW c \in Call, Unwind(c), UNCHANGED <<nCursors, cursors, inDoubt>> PROVE TraceInv'
  BY <1>2, <1>4, <1>5 DEF Unwind
<1>6. ASSUME NEW c \in Call, AcquireLease(c) PROVE TraceInv'
  BY <1>2, <1>4, <1>6 DEF AcquireLease, dbVars
<1>7. ASSUME NEW c \in Call, ResolveCursor(c) PROVE TraceInv'
  BY <1>4, <1>7, TraceKept DEF ResolveCursor, dbVars, Goto, TypeInv, TypeOK, HasTrace
<1>8. ASSUME NEW c \in Call, CreateCursor(c) PROVE TraceInv'
  <2>1. /\ nCursors' = nCursors + 1 /\ inDoubt' = inDoubt
        /\ \A k \in 1..nCursors : cursors'[k] = cursors[k]
        /\ cursors'[nCursors + 1].offset = 0 /\ cursors'[nCursors + 1].status = "absent"
    BY <1>1, <1>8 DEF CreateCursor
  <2>2. \A d \in Call : pc'[d] \in HasTrace => d # c /\ pc[d] \in HasTrace /\ cur'[d] = cur[d]
    BY <1>8 DEF CreateCursor, Goto, HasTrace, TypeInv, TypeOK
  <2>3. \A d \in Call : pc[d] \in HasTrace => cur[d] \in 1..nCursors
    BY DEF TypeInv, CursorKnown, HasCursor, HasTrace
  <2>4. \A k \in 1..nCursors' : k \in 1..nCursors \/ k = nCursors + 1
    BY <1>1, <2>1
  <2>5. \A t \in inDoubt : t.cur \in 1..nCursors
    BY DEF TypeInv, CursorKnown
  <2> QED
    BY <2>1, <2>2, <2>3, <2>4, <2>5 DEF TraceInv
<1>9. ASSUME NEW c \in Call, StartReplay(c) PROVE TraceInv'
  <2>1. cur[c] \in 1..nCursors /\ UNCHANGED <<nCursors, inDoubt, cur>>
    BY <1>9 DEF StartReplay, TypeInv, CursorKnown, HasCursor
  <2>2. cursors' \in {UpsertResuming(cur[c]), InsertIfAbsent(cur[c])}
    BY <1>9 DEF StartReplay
  <2>3. /\ cursors'[cur[c]].status # "absent"
        /\ \A k \in 1..nCursors : /\ cursors'[k].status \in {cursors[k].status, "in-progress"}
                                  /\ cursors'[k].offset = cursors[k].offset
                                  /\ cursors'[k].completed = cursors[k].completed
    <3>1. CASE cursors' = [cursors EXCEPT ![cur[c]].status = "in-progress"]
      BY <1>1, <2>1, <3>1 DEF TypeInv, TypeOK, Cursor
    <3>2. CASE cursors' = cursors /\ cursors[cur[c]].status # "absent"
      BY <1>1, <2>1, <3>2 DEF Cursor
    <3> QED
      BY <2>2, <3>1, <3>2 DEF UpsertResuming, InsertIfAbsent
  <2>4. \A d \in Call : d # c => pc'[d] = pc[d]
    BY <1>9 DEF StartReplay, Goto, TypeInv, TypeOK
  <2>5. \A k \in 1..nCursors :
              /\ cursors[k].status # "absent" => cursors'[k].status # "absent"
              /\ cursors'[k].status = "completed" => cursors'[k].completed
              /\ cursors'[k].offset > 0 => cursors'[k].status # "absent"
    BY <2>3 DEF TraceInv
  <2> QED
    BY <2>1, <2>3, <2>4, <2>5, TraceUpdated
<1>10. ASSUME NEW c \in Call, LoopHead(c) PROVE TraceInv'
  <2>1. CASE Unwind(c)
    BY <1>5, <1>10, <2>1 DEF LoopHead, dbVars
  <2>2. CASE UNCHANGED cur /\ \E w \in {"complete", "begin"} : Goto(c, w)
    BY <1>3, <1>4, <1>10, <2>2 DEF LoopHead, dbVars, HasTrace
  <2> QED
    BY <1>10, <2>1, <2>2 DEF LoopHead
<1>11. ASSUME NEW c \in Call, BeginBatch(c) \/ FetchBatch(c) \/ WriteBatch(c) PROVE TraceInv'
  <2>1. UNCHANGED <<nCursors, cursors, inDoubt, cur>> /\ pc[c] \in HasTrace
    BY <1>11 DEF BeginBatch, FetchBatch, WriteBatch, dbVars, HasTrace
  <2>2. \E w \in HasTrace : Goto(c, w)
    BY <1>11 DEF BeginBatch, FetchBatch, WriteBatch, HasTrace
  <2> QED
    BY <1>3, <1>4, <2>1, <2>2
<1>12. ASSUME NEW t, t.cur \in 1..nCursors, t.upto \in 0..NumRows, cursors[t.cur].status # "absent",
              ApplyTxn(t), UNCHANGED cur, inDoubt' \subseteq inDoubt,
              \A c \in Call : pc'[c] \in HasTrace => pc[c] \in HasTrace
       PROVE  TraceInv'
  <2>1. /\ nCursors' = nCursors
        /\ \A k \in 1..nCursors : /\ cursors'[k].status = cursors[k].status
                                  /\ cursors'[k].completed = cursors[k].completed
                                  /\ k # t.cur => cursors'[k].offset = cursors[k].offset
    BY <1>1, <1>12 DEF ApplyTxn, AdvanceOffset, TypeInv, TypeOK, Cursor
  <2>2. \A k \in 1..nCursors :
              /\ cursors[k].status # "absent" => cursors'[k].status # "absent"
              /\ cursors'[k].status = "completed" => cursors'[k].completed
              /\ cursors'[k].offset > 0 => cursors'[k].status # "absent"
    BY <1>12, <2>1 DEF TraceInv
  <2> QED
    BY <1>12, <2>1, <2>2, TraceUpdated
<1>13. ASSUME NEW c \in Call, CommitBatch(c) PROVE TraceInv'
  <2>1. pc[c] = "commit" /\ ApplyTxn(BatchTxn(c)) /\ UNCHANGED <<cur, inDoubt>>
    BY <1>13 DEF CommitBatch
  <2>2. BatchTxn(c).cur \in 1..nCursors /\ BatchTxn(c).upto \in 0..NumRows
    BY <2>1, TxnTyped DEF Doubt, BatchTxn, TypeInv, CursorKnown, HasCursor
  <2>3. cursors[BatchTxn(c).cur].status # "absent"
    BY <2>1 DEF BatchTxn, TraceInv, HasTrace
  <2>4. \A d \in Call : pc'[d] \in HasTrace => pc[d] \in HasTrace
    BY <1>13 DEF CommitBatch, Goto, HasTrace, TypeInv, TypeOK
  <2> QED
    BY <1>12, <2>1, <2>2, <2>3, <2>4
<1>14. ASSUME NEW t \in inDoubt, SettleInDoubt(t) PROVE TraceInv'
  <2>1. t.cur \in 1..nCursors /\ t.upto \in 0..NumRows /\ cursors[t.cur].status # "absent"
    BY DEF TypeInv, TypeOK, CursorKnown, Doubt, TraceInv
  <2>2. UNCHANGED <<pc, cur>> /\ inDoubt' \subseteq inDoubt
    BY <1>14 DEF SettleInDoubt, callVars
  <2>3. CASE ApplyTxn(t)
    BY <1>12, <2>1, <2>2, <2>3
  <2>4. CASE UNCHANGED <<nCursors, cursors>>
    BY <2>2, <2>4 DEF TraceInv
  <2> QED
    BY <1>14, <2>3, <2>4 DEF SettleInDoubt
<1>15. ASSUME NEW c \in Call, BatchError(c) PROVE TraceInv'
  <2>1. pc[c] \in HasTrace /\ UNCHANGED <<cur, cursors, nCursors>> /\ inDoubt' \subseteq inDoubt \cup {BatchTxn(c)}
    BY <1>15 DEF BatchError, Batch, HasTrace
  <2>2. \A d \in Call : pc'[d] \in HasTrace => pc[d] \in HasTrace
    BY <1>15, <2>1 DEF BatchError, Goto, TypeInv, TypeOK
  <2>3. cursors[BatchTxn(c).cur].status # "absent"
    BY <2>1 DEF BatchTxn, TraceInv
  <2> QED
    BY <2>1, <2>2, <2>3 DEF TraceInv
<1>16. ASSUME NEW c \in Call, RollbackBatch(c) \/ QueryError(c) PROVE TraceInv'
  BY <1>5, <1>16 DEF RollbackBatch, QueryError, dbVars
<1>17. ASSUME NEW c \in Call, CompleteCursor(c) PROVE TraceInv'
  <2>1. cur[c] \in 1..nCursors /\ UNCHANGED <<nCursors, inDoubt, cur>>
    BY <1>17 DEF CompleteCursor, Unwind, TypeInv, CursorKnown, HasCursor
  <2>2. \A k \in 1..nCursors :
           /\ cursors[k].status = "absent" <=> cursors'[k].status = "absent"
           /\ cursors'[k].offset = cursors[k].offset
           /\ k # cur[c] => cursors'[k] = cursors[k]
    BY <1>1, <1>17, <2>1 DEF CompleteCursor, MarkCompleted, TypeInv, TypeOK, Cursor
  <2>3. cursors'[cur[c]].completed
    BY <1>1, <1>17, <2>1 DEF CompleteCursor, MarkCompleted, TypeInv, TypeOK, Cursor
  <2>4. \A k \in 1..nCursors :
              /\ cursors[k].status # "absent" => cursors'[k].status # "absent"
              /\ cursors'[k].status = "completed" => cursors'[k].completed
              /\ cursors'[k].offset > 0 => cursors'[k].status # "absent"
    BY <2>2, <2>3 DEF TraceInv
  <2>5. \A d \in Call : pc'[d] \in HasTrace => pc[d] \in HasTrace
    BY <1>4, <1>17 DEF CompleteCursor, Unwind, Goto, TypeInv, TypeOK
  <2> QED
    BY <2>1, <2>4, <2>5, TraceUpdated
<1>18. ASSUME NEW c \in Call, ReleaseLease(c) \/ ResumeIncompleteReplay(c) PROVE TraceInv'
  BY <1>2, <1>4, <1>18 DEF ReleaseLease, ReturnFrom, ResumeIncompleteReplay, dbVars
<1>19. ASSUME NEW c \in Call, NEW r, Enter(c, r), UNCHANGED <<dbVars, cur>> PROVE TraceInv'
  BY <1>2, <1>4, <1>19 DEF Enter, dbVars
<1>20. ASSUME NEW c \in Call, ScanProgress(c) PROVE TraceInv'
  BY <1>2, <1>4, <1>19, <1>20 DEF ScanProgress, dbVars
<1>21. ASSUME NEW c \in Call, NEW r \in Request, ReplayEvents(c, r) PROVE TraceInv'
  BY <1>19, <1>21 DEF ReplayEvents
<1>22. ASSUME NEW p \in Proc, Restart(p) PROVE TraceInv'
  BY <1>2, <1>4, <1>22 DEF Restart, Call, dbVars
<1>23. ASSUME NEW p \in Proc, Crash(p) PROVE TraceInv'
  <2>1. \A t \in inDoubt' : cursors[t.cur].status # "absent"
    BY <1>23 DEF Crash, BatchTxn, TraceInv, HasTrace
  <2>2. \A d \in Call : pc'[d] \in HasTrace => pc[d] \in HasTrace
    BY <1>23 DEF Crash, HasTrace
  <2> QED
    BY <1>23, <2>1, <2>2 DEF Crash, TraceInv
<1>24. CASE \/ \E c \in Call : ConnectionHangs(c) \/ ConnectionRecovers(c)
            \/ \E p \in Proc : \/ RequestStopReplay(p) \/ ReleaseOnShutdown(p)
                               \/ HeartbeatDrops(p)
            \/ LeaseExpires \/ UNCHANGED vars
  <2>1. UNCHANGED <<nCursors, cursors, inDoubt, pc, cur>>
    BY <1>24
       DEF ConnectionHangs, ConnectionRecovers, RequestStopReplay,
           ReleaseOnShutdown, HeartbeatDrops, LeaseExpires, vars, callVars, dbVars
  <2> QED
    BY <2>1, TraceKept
<1> QED
  BY <1>6, <1>7, <1>8, <1>9, <1>10, <1>11, <1>13, <1>14, <1>15, <1>16, <1>17, <1>18,
     <1>20, <1>21, <1>22, <1>23, <1>24 DEF Next, CallStep

\* Whatever crashed or was cut off, a cursor with committed work that is not
\* completed has an in-progress checkpoint, so resumeIncompleteReplay finds it.
THEOREM CommittedWorkIsFound == Spec => []CommittedWorkIsDiscoverable
<1>1. Init => TypeInv /\ TraceInv
  BY TypeInit DEF Init, TraceInv, HasTrace
<1>2. (TypeInv /\ TraceInv) /\ [Next]_vars => (TypeInv /\ TraceInv)'
  BY TypeStep, TraceStep
<1>3. TypeInv /\ TraceInv => CommittedWorkIsDiscoverable
  BY DEF TypeInv, TypeOK, Cursor, TraceInv, CommittedWorkIsDiscoverable
<1> QED
  BY <1>1, <1>2, <1>3, PTL DEF Spec

----------------------------------------------------------------------------
(* What /status shows is durable.                                          *)

\* No call's local offset is ahead of its cursor, and the progress on display
\* belongs to the call that runs the loop.
CallShown(c) ==
    /\ pc[c] \in HasCursor => off[c] <= cursors[cur[c]].offset
    /\ pc[c] = "create" => off[c] = 0
    /\ pc[c] \in Locked \ HasTrace => ~shown[c[1]].active
    /\ pc[c] \in HasTrace /\ shown[c[1]].active => shown[c[1]].cur = cur[c]

ProcShown(p) ==
    shown[p].active => /\ lock[p] /\ shown[p].cur \in 1..nCursors
                       /\ shown[p].offset <= cursors[shown[p].cur].offset

ShownInv == (\A c \in Call : CallShown(c)) /\ (\A p \in Proc : ProcShown(p))

\* The cursors a step finds are still there, at least as far.
Grown == /\ nCursors' >= nCursors
         /\ \A k \in 1..nCursors : cursors'[k].offset >= cursors[k].offset

LEMMA GrownStays ==
    ASSUME TypeInv, TypeInv', Grown
    PROVE  /\ 1..nCursors \subseteq 1..nCursors'
           /\ \A k \in 1..nCursors, o \in 0..NumRows :
                 o <= cursors[k].offset => o <= cursors'[k].offset
<1>1. nCursors \in Nat /\ nCursors' \in Nat /\ 1..nCursors \subseteq 1..nCursors'
  BY BoundsAssumption DEF TypeInv, TypeOK, Grown
<1>2. \A k \in 1..nCursors : cursors[k].offset \in 0..NumRows /\ cursors'[k].offset \in 0..NumRows
  BY <1>1 DEF TypeInv, TypeOK, Cursor
<1> QED
  BY <1>1, <1>2, NumRowsAssumption DEF Grown

\* What a step of call c owes to ShownInv.
LEMMA ShownMoves ==
    ASSUME TypeInv, TypeInv', LockInv, ShownInv, Grown, NEW c \in Call,
           CallShown(c)', ProcShown(c[1])',
           \A d \in Call \ {c} : pc'[d] = pc[d] /\ off'[d] = off[d] /\ cur'[d] = cur[d],
           \A p \in Proc \ {c[1]} : shown'[p] = shown[p] /\ lock'[p] = lock[p],
           shown'[c[1]] = shown[c[1]] \/ pc[c] \in Locked
    PROVE  ShownInv'
<1>1. ASSUME NEW d \in Call, d # c PROVE CallShown(d)'
  <2>1. pc'[d] = pc[d] /\ off'[d] = off[d] /\ cur'[d] = cur[d] /\ CallShown(d) /\ d[1] \in Proc
    BY <1>1, CallProc DEF ShownInv
  <2>2. pc[d] \in HasCursor => off'[d] <= cursors'[cur'[d]].offset
    BY <2>1, GrownStays DEF CallShown, TypeInv, TypeOK, CursorKnown
  <2>3. shown'[d[1]] = shown[d[1]] \/ pc[d] \notin Locked
    BY <1>1, <2>1 DEF LockInv, LockGuardsRun
  <2>4. HasTrace \subseteq Locked
    BY DEF HasTrace, Locked, Waiting
  <2> QED
    BY <2>1, <2>2, <2>3, <2>4 DEF CallShown
<1>2. ASSUME NEW p \in Proc, p # c[1] PROVE ProcShown(p)'
  <2>1. shown'[p] = shown[p] /\ lock'[p] = lock[p] /\ ProcShown(p) /\ shown[p] \in Shown
    BY <1>2 DEF ShownInv, TypeInv, TypeOK
  <2>2. shown[p].offset \in 0..NumRows
    BY <2>1 DEF Shown
  <2> QED
    BY <2>1, <2>2, GrownStays DEF ProcShown
<1> QED
  BY <1>1, <1>2 DEF ShownInv

\* Steps that leave what is shown, the lock, the offset and the cursor alone,
\* and do not move the call to where more is asked of it.
LEMMA ShownKept ==
    ASSUME TypeInv, TypeInv', LockInv, ShownInv, Grown, NEW c \in Call, NEW w \in Waiting,
           Goto(c, w), UNCHANGED <<shown, lock, off, cur>>,
           w \in HasCursor => pc[c] \in HasCursor,
           w # "create",
           w \in Locked \ HasTrace => pc[c] \in Locked \ HasTrace,
           w \in HasTrace => pc[c] \in HasTrace
    PROVE  ShownInv'
<1>1. /\ \A d \in Call : pc'[d] = IF d = c THEN w ELSE pc[d]
      /\ CallShown(c) /\ ProcShown(c[1]) /\ c[1] \in Proc
  BY CallProc DEF Goto, TypeInv, TypeOK, ShownInv
<1>2. CallShown(c)'
  <2>1. w \in HasCursor => off'[c] <= cursors'[cur'[c]].offset
    BY <1>1, GrownStays DEF CallShown, TypeInv, TypeOK, CursorKnown
  <2> QED
    BY <1>1, <2>1 DEF CallShown
<1>3. ProcShown(c[1])'
  <2>1. shown[c[1]].offset \in 0..NumRows
    BY <1>1 DEF TypeInv, TypeOK, Shown
  <2> QED
    BY <1>1, <2>1, GrownStays DEF ProcShown
<1> QED
  BY <1>1, <1>2, <1>3, ShownMoves

\* The display is off wherever the lock is given up.
LEMMA ShownUnwound ==
    ASSUME TypeInv, TypeInv', LockInv, ShownInv, Grown, NEW c \in Call, pc[c] \in Locked,
           Unwind(c)
    PROVE  ShownInv'
<1>1. c[1] \in Proc /\ pc'[c] = "release" /\ ~shown'[c[1]].active
  BY CallProc DEF Unwind, Goto, TypeInv, TypeOK, Shown
<1>2. CallShown(c)' /\ ProcShown(c[1])'
  BY <1>1 DEF CallShown, ProcShown, HasCursor, HasTrace, Locked
<1> QED
  BY <1>1, <1>2, ShownMoves DEF Unwind, Goto, TypeInv, TypeOK

LEMMA ShownEntered ==
    ASSUME TypeInv, TypeInv', LockInv, ShownInv, Grown, NEW c \in Call, NEW r, Enter(c, r),
           UNCHANGED <<shown, off, cur>>
    PROVE  ShownInv'
<1>1. CASE Goto(c, "idle") /\ lock' = lock
  BY <1>1, ShownKept DEF Waiting, HasCursor, HasTrace, Locked
<1>2. CASE ~lock[c[1]] /\ lock' = [lock EXCEPT ![c[1]] = TRUE] /\ Goto(c, "acquire")
  <2>1. c[1] \in Proc /\ pc'[c] = "acquire" /\ ~shown[c[1]].active
    BY <1>2, CallProc DEF Goto, TypeInv, TypeOK, ShownInv, ProcShown
  <2>2. CallShown(c)' /\ ProcShown(c[1])'
    BY <2>1 DEF CallShown, ProcShown, HasCursor, HasTrace
  <2> QED
    BY <1>2, <2>1, <2>2, ShownMoves DEF Goto, TypeInv, TypeOK
<1> QED
  BY <1>1, <1>2 DEF Enter

LEMMA ShownStep ==
    ASSUME TypeInv, TypeInv', LockInv, ShownInv, Grown, [Next]_vars
    PROVE  ShownInv'
<1>0. nCursors \in Nat /\ \A k \in 1..nCursors : cursors[k] \in Cursor
  BY BoundsAssumption DEF TypeInv, TypeOK
<1>1. /\ Locked = {"acquire", "resolve", "upsert", "create", "checkpoint", "loop", "begin",
                   "fetch", "write", "commit", "rollback", "complete"}
      /\ Locked \subseteq Waiting /\ {"idle", "scan", "release", "delete"} \subseteq Waiting
  BY DEF Locked, Waiting
<1>2. ASSUME NEW c \in Call, NEW w \in {"idle", "scan", "release", "delete", "resolve"},
             Goto(c, w), w = "resolve" => pc[c] = "acquire", UNCHANGED <<shown, lock, off, cur>>
      PROVE  ShownInv'
  BY <1>1, <1>2, ShownKept DEF HasCursor, HasTrace
<1>3. ASSUME NEW c \in Call, pc[c] \in HasTrace, NEW w \in HasTrace, Goto(c, w),
             UNCHANGED <<shown, lock, off, cur>>
      PROVE  ShownInv'
  BY <1>1, <1>3, ShownKept DEF HasCursor, HasTrace
<1>4. ASSUME NEW c \in Call, AcquireLease(c) PROVE ShownInv'
  <2>1. CASE Goto(c, "resolve") /\ lock' = lock
    BY <1>2, <1>4, <2>1 DEF AcquireLease
  <2>2. CASE lock' = [lock EXCEPT ![c[1]] = FALSE] /\ Goto(c, "idle")
    <3>1. c[1] \in Proc /\ pc'[c] = "idle" /\ ~shown'[c[1]].active
      BY <1>1, <1>4, <2>2, CallProc DEF AcquireLease, Goto, TypeInv, TypeOK, ShownInv, CallShown, HasTrace
    <3>2. CallShown(c)' /\ ProcShown(c[1])'
      BY <1>1, <3>1 DEF CallShown, ProcShown, HasCursor, HasTrace
    <3> QED
      BY <1>4, <2>2, <3>2, ShownMoves DEF AcquireLease, Goto, TypeInv, TypeOK
  <2> QED
    BY <1>4, <2>1, <2>2 DEF AcquireLease
<1>5. ASSUME NEW c \in Call, ResolveCursor(c) PROVE ShownInv'
  <2>1. /\ c[1] \in Proc /\ pc[c] = "resolve" /\ ~shown[c[1]].active
        /\ UNCHANGED <<shown, lock, cursors>>
    BY <1>1, <1>5, CallProc DEF ResolveCursor, ShownInv, CallShown, HasTrace, procVars, dbVars
  <2>2. \/ pc'[c] = "upsert" /\ off'[c] = cursors[cur'[c]].offset /\ cur'[c] \in 1..nCursors
        \/ pc'[c] = "create" /\ off'[c] = 0
    <3>1. CASE /\ Active = {} /\ off' = [off EXCEPT ![c] = 0] /\ Goto(c, "create")
      BY <3>1 DEF Goto, TypeInv, TypeOK
    <3>2. ASSUME NEW k \in Active, cur' = [cur EXCEPT ![c] = k],
                 off' = [off EXCEPT ![c] = cursors[k].offset], Goto(c, "upsert")
          PROVE  /\ pc'[c] = "upsert" /\ off'[c] = cursors[cur'[c]].offset
                 /\ cur'[c] \in 1..nCursors
      BY <3>2 DEF Goto, TypeInv, TypeOK, Active
    <3> QED
      BY <1>5, <3>1, <3>2 DEF ResolveCursor
  <2>3. pc'[c] \in HasCursor => off'[c] <= cursors'[cur'[c]].offset
    BY <1>0, <2>1, <2>2 DEF HasCursor, Cursor
  <2>4. CallShown(c)' /\ ProcShown(c[1])'
    BY <2>1, <2>2, <2>3 DEF CallShown, ProcShown, HasTrace
  <2> QED
    BY <1>5, <2>1, <2>4, ShownMoves DEF ResolveCursor, Goto, TypeInv, TypeOK
<1>6. ASSUME NEW c \in Call, CreateCursor(c) PROVE ShownInv'
  <2>1. /\ c[1] \in Proc /\ pc[c] = "create" /\ ~shown[c[1]].active /\ off[c] = 0
        /\ UNCHANGED <<shown, lock, off>>
    BY <1>1, <1>6, CallProc DEF CreateCursor, ShownInv, CallShown, HasTrace, procVars
  <2>2. pc'[c] = "checkpoint" /\ cur'[c] = nCursors + 1 /\ cursors'[nCursors + 1].offset = 0
    BY <1>0, <1>6 DEF CreateCursor, Goto, TypeInv, TypeOK
  <2>3. CallShown(c)' /\ ProcShown(c[1])'
    BY <2>1, <2>2 DEF CallShown, ProcShown, HasTrace
  <2> QED
    BY <1>6, <2>1, <2>3, ShownMoves DEF CreateCursor, Goto, TypeInv, TypeOK
<1>7. ASSUME NEW c \in Call, StartReplay(c) PROVE ShownInv'
  <2>1. /\ c[1] \in Proc /\ pc[c] \in Locked /\ ~shown[c[1]].active
        /\ off[c] <= cursors[cur[c]].offset
        /\ cur[c] \in 1..nCursors /\ off[c] \in 0..NumRows
        /\ UNCHANGED <<lock, off, cur>>
    BY <1>1, <1>7, CallProc
       DEF StartReplay, ShownInv, CallShown, HasTrace, HasCursor, TypeInv, TypeOK, CursorKnown
  <2>2. off[c] <= cursors'[cur[c]].offset /\ cur[c] \in 1..nCursors'
    BY <2>1, GrownStays
  <2>3. lock[c[1]]
    BY <2>1 DEF LockInv, LockGuardsRun
  <2>4. CASE shown' = shown /\ pc'[c] = "complete"
    BY <1>7, <2>1, <2>2, <2>4, ShownMoves
       DEF StartReplay, CallShown, ProcShown, HasTrace, Goto, TypeInv, TypeOK
  <2>5. CASE /\ shown'[c[1]] = [active |-> TRUE, cur |-> cur[c], offset |-> off[c]]
             /\ pc'[c] = "loop"
    <3>1. CallShown(c)' /\ ProcShown(c[1])'
      BY <2>1, <2>2, <2>3, <2>5 DEF CallShown, ProcShown, HasTrace
    <3> QED
      BY <1>7, <2>1, <3>1, ShownMoves DEF StartReplay, Goto, TypeInv, TypeOK
  <2> QED
    BY <1>7, <2>1, <2>4, <2>5 DEF StartReplay, Goto, TypeInv, TypeOK
<1>8. ASSUME NEW c \in Call, LoopHead(c) PROVE ShownInv'
  <2>1. CASE Unwind(c)
    BY <1>1, <1>8, <2>1, ShownUnwound DEF LoopHead
  <2>2. CASE UNCHANGED <<procVars, off, cur>> /\ \E w \in {"complete", "begin"} : Goto(c, w)
    BY <1>3, <1>8, <2>2 DEF LoopHead, HasTrace, procVars
  <2> QED
    BY <1>8, <2>1, <2>2 DEF LoopHead
<1>9. ASSUME NEW c \in Call, BeginBatch(c) \/ FetchBatch(c) \/ WriteBatch(c) \/ BatchError(c)
      PROVE  ShownInv'
  <2>1. pc[c] \in HasTrace /\ UNCHANGED <<shown, lock, off, cur>>
    BY <1>9 DEF BeginBatch, FetchBatch, WriteBatch, BatchError, Batch, HasTrace, procVars
  <2>2. \E w \in HasTrace : Goto(c, w)
    BY <1>9 DEF BeginBatch, FetchBatch, WriteBatch, BatchError, HasTrace
  <2> QED
    BY <1>3, <2>1, <2>2
<1>10. ASSUME NEW c \in Call, CommitBatch(c) PROVE ShownInv'
  <2>1. /\ c[1] \in Proc /\ pc[c] = "commit" /\ cur[c] \in 1..nCursors
        /\ CallShown(c) /\ ProcShown(c[1]) /\ shown[c[1]] \in Shown
        /\ UNCHANGED <<lock, cur, nCursors>>
    BY <1>10, CallProc
       DEF CommitBatch, ApplyTxn, ShownInv, TypeInv, TypeOK, CursorKnown, HasCursor
  <2>2. NewOffset(c) \in 0..NumRows
    BY FetchBounds DEF NewOffset, TypeInv, TypeOK
  <2>3. cursors' = [cursors EXCEPT ![cur[c]].offset = Larger(cursors[cur[c]].offset, NewOffset(c))]
    BY <1>10 DEF CommitBatch, ApplyTxn, BatchTxn, AdvanceOffset, NewOffset
  <2>4. cursors'[cur[c]].offset = Larger(cursors[cur[c]].offset, NewOffset(c))
    BY <1>0, <2>1, <2>3 DEF TypeInv, TypeOK, Cursor
  <2>5. /\ pc'[c] = "loop" /\ off'[c] = NewOffset(c)
        /\ shown'[c[1]].active = shown[c[1]].active /\ shown'[c[1]].cur = shown[c[1]].cur
    BY <1>10, <2>1 DEF CommitBatch, Goto, TypeInv, TypeOK, Shown
  <2>6. shown'[c[1]].offset = Larger(shown[c[1]].offset, NewOffset(c))
    BY <1>10, <2>1 DEF CommitBatch, TypeInv, TypeOK, Shown
  <2>7. /\ NewOffset(c) <= cursors'[cur[c]].offset
        /\ shown[c[1]].active => shown'[c[1]].offset <= cursors'[cur[c]].offset
    <3>1. cursors[cur[c]].offset \in 0..NumRows /\ shown[c[1]].offset \in 0..NumRows
      BY <1>0, <2>1 DEF Cursor, Shown
    <3>2. shown[c[1]].active => shown[c[1]].offset <= cursors[cur[c]].offset
      BY <2>1 DEF CallShown, ProcShown, HasTrace
    <3> QED
      BY <2>2, <2>4, <2>6, <3>1, <3>2 DEF Larger
  <2>8. CallShown(c)'
    BY <2>1, <2>5, <2>7 DEF CallShown, HasTrace
  <2>9. ProcShown(c[1])'
    BY <2>1, <2>5, <2>7 DEF CallShown, ProcShown, HasTrace
  <2> QED
    BY <1>1, <1>10, <2>1, <2>8, <2>9, ShownMoves DEF CommitBatch, Goto, TypeInv, TypeOK
<1>11. ASSUME NEW c \in Call, RollbackBatch(c) \/ QueryError(c) \/ CompleteCursor(c) PROVE ShownInv'
  BY <1>1, <1>11, ShownUnwound DEF RollbackBatch, QueryError, CompleteCursor
<1>12. ASSUME NEW c \in Call, ReleaseLease(c) \/ ResumeIncompleteReplay(c) PROVE ShownInv'
  BY <1>2, <1>12 DEF ReleaseLease, ReturnFrom, ResumeIncompleteReplay, procVars
<1>13. ASSUME NEW c \in Call, ScanProgress(c) PROVE ShownInv'
  BY <1>2, <1>13, ShownEntered DEF ScanProgress
<1>14. ASSUME NEW c \in Call, NEW r \in Request, ReplayEvents(c, r) PROVE ShownInv'
  BY <1>14, ShownEntered DEF ReplayEvents
<1>15. ASSUME UNCHANGED <<shown, lock, off, cur>>,
              \A c \in Call : pc'[c] = pc[c] \/ pc'[c] = "boot"
       PROVE  ShownInv'
  <2>1. ASSUME NEW c \in Call PROVE CallShown(c)'
    <3>1. CallShown(c)
      BY DEF ShownInv
    <3>2. CASE pc'[c] = "boot"
      BY <1>1, <3>2 DEF CallShown, HasCursor, HasTrace
    <3>3. CASE pc'[c] = pc[c]
      <4>1. pc[c] \in HasCursor => off'[c] <= cursors'[cur'[c]].offset
        BY <1>15, <3>1, GrownStays DEF CallShown, TypeInv, TypeOK, CursorKnown
      <4> QED
        BY <1>15, <3>1, <3>3, <4>1 DEF CallShown
    <3> QED
      BY <1>15, <3>2, <3>3
  <2>2. ASSUME NEW p \in Proc PROVE ProcShown(p)'
    <3>1. ProcShown(p) /\ shown[p].offset \in 0..NumRows
      BY DEF ShownInv, TypeInv, TypeOK, Shown
    <3> QED
      BY <1>15, <3>1, GrownStays DEF ProcShown
  <2> QED
    BY <2>1, <2>2 DEF ShownInv
<1>16. ASSUME NEW p \in Proc, Restart(p) PROVE ShownInv'
  BY <1>15, <1>16 DEF Restart, Goto, TypeInv, TypeOK
<1>17. ASSUME NEW p \in Proc, Crash(p) PROVE ShownInv'
  <2>1. UNCHANGED <<nCursors, cursors, off, cur>> /\ ~shown'[p].active
    BY <1>17 DEF Crash, TypeInv, TypeOK
  <2>2. ASSUME NEW c \in Call PROVE CallShown(c)'
    <3>1. CallShown(c) /\ c[1] \in Proc
      BY CallProc DEF ShownInv
    <3>2. CASE c[1] = p
      BY <1>1, <1>17, <3>2 DEF Crash, CallShown, HasCursor, HasTrace
    <3>3. CASE c[1] # p
      BY <1>17, <2>1, <3>1, <3>3 DEF Crash, CallShown, TypeInv, TypeOK
    <3> QED
      BY <3>2, <3>3
  <2>3. ASSUME NEW q \in Proc PROVE ProcShown(q)'
    BY <1>17, <2>1 DEF Crash, ShownInv, ProcShown, TypeInv, TypeOK
  <2> QED
    BY <2>2, <2>3 DEF ShownInv
<1>18. CASE \/ \E c \in Call : ConnectionHangs(c) \/ ConnectionRecovers(c)
            \/ \E t \in inDoubt : SettleInDoubt(t)
            \/ \E p \in Proc : \/ RequestStopReplay(p) \/ ReleaseOnShutdown(p)
                               \/ HeartbeatDrops(p)
            \/ LeaseExpires \/ UNCHANGED vars
  <2>1. UNCHANGED <<shown, lock, off, cur, pc>>
    BY <1>18
       DEF ConnectionHangs, ConnectionRecovers, SettleInDoubt, RequestStopReplay,
           ReleaseOnShutdown, HeartbeatDrops, LeaseExpires, vars, procVars, callVars
  <2> QED
    BY <1>15, <2>1
<1> QED
  BY <1>4, <1>5, <1>6, <1>7, <1>8, <1>9, <1>10, <1>11, <1>12, <1>13, <1>14, <1>16, <1>17,
     <1>18 DEF Next, CallStep

\* The progress that /status reads from memory is never ahead of the cursor's
\* durable offset, although another replica may be writing the same cursor.
THEOREM ShownIsDurable == Spec => []ShownNotAhead
<1>1. Init => TypeInv /\ LockInv /\ ShownInv
  BY TypeInit, CallProc
     DEF Init, LockInv, LockGuardsRun, DownIsIdle, ShownInv, CallShown, ProcShown, Locked,
         HasCursor, HasTrace
<1>2. (TypeInv /\ LockInv /\ ShownInv) /\ [Next]_vars => (TypeInv /\ LockInv /\ ShownInv)'
  <2> SUFFICES ASSUME TypeInv, LockInv, ShownInv, [Next]_vars
               PROVE  (TypeInv /\ LockInv /\ ShownInv)'
    OBVIOUS
  <2>1. TypeInv' /\ LockInv'
    BY TypeStep, LockStep
  <2>2. NoRegress \/ UNCHANGED vars
    BY RegressStep
  <2>3. Grown
    <3>1. nCursors \in Nat /\ \A k \in 1..nCursors : cursors[k].offset \in 0..NumRows
      BY BoundsAssumption DEF TypeInv, TypeOK, Cursor
    <3>2. CASE UNCHANGED vars
      BY <3>1, <3>2, NumRowsAssumption DEF vars, dbVars, Grown
    <3> QED
      BY <2>2, <3>2 DEF NoRegress, Grown
  <2> QED
    BY <2>1, <2>3, ShownStep
<1>3. ShownInv => ShownNotAhead
  BY DEF ShownInv, ProcShown, ShownNotAhead
<1> QED
  BY <1>1, <1>2, <1>3, PTL DEF Spec

----------------------------------------------------------------------------
(* Completion, when the lease outlives the work.                           *)

\* A replica handles one replay request at a time.
OneSlot == \A s, t \in Slot : s = t

\* Past tryAcquire a call's replica leads or was told to stop; on the way out
\* it no longer leads, and deletes a key that is still its own.
CallLeads(c) ==
    /\ pc[c] \in Locked \ {"acquire"} => leader[c[1]] \/ stop[c[1]]
    /\ pc[c] \in {"release", "delete"} => ~leader[c[1]]
    /\ pc[c] = "delete" => lease = c[1]

LeadInv == /\ \A p \in Proc : leader[p] => lease = p
           /\ \A c \in Call : CallLeads(c)

\* What a step of replica p owes to LeadInv.
LEMMA LeadMoves ==
    ASSUME TypeInv, LeadInv, NEW p \in Proc,
           \A q \in Proc \ {p} : leader'[q] = leader[q] /\ stop'[q] = stop[q],
           lease' = lease \/ lease \in {None, p}, leader'[p] => lease' = p,
           \A d \in Call : IF d[1] = p THEN CallLeads(d)' ELSE pc'[d] = pc[d]
    PROVE  LeadInv'
<1>1. ASSUME NEW q \in Proc, q # p, leader'[q] PROVE lease' = q
  BY <1>1, NoneAssumption DEF LeadInv
<1>2. ASSUME NEW d \in Call, d[1] # p PROVE CallLeads(d)'
  <2>1. CallLeads(d) /\ d[1] \in Proc /\ pc'[d] = pc[d]
    BY <1>2, CallProc DEF LeadInv
  <2>2. leader'[d[1]] = leader[d[1]] /\ stop'[d[1]] = stop[d[1]]
    BY <1>2, <2>1
  <2>3. pc[d] = "delete" => lease' = d[1]
    BY <1>2, <2>1, NoneAssumption DEF CallLeads
  <2> QED
    BY <2>1, <2>2, <2>3 DEF CallLeads
<1> QED
  BY <1>1, <1>2 DEF LeadInv

LEMMA OneCall ==
    ASSUME OneSlot, NEW c \in Call, NEW d \in Call, c[1] = d[1]
    PROVE  c = d
BY DEF OneSlot, Call

\* The same, for a step of call c.
LEMMA LeadCall ==
    ASSUME OneSlot, TypeInv, LeadInv, NEW c \in Call, CallLeads(c)', NEW w, Goto(c, w),
           \A q \in Proc \ {c[1]} : leader'[q] = leader[q] /\ stop'[q] = stop[q],
           lease' = lease \/ lease \in {None, c[1]}, leader'[c[1]] => lease' = c[1]
    PROVE  LeadInv'
<1>1. c[1] \in Proc
  BY CallProc
<1>2. ASSUME NEW d \in Call PROVE IF d[1] = c[1] THEN CallLeads(d)' ELSE pc'[d] = pc[d]
  BY OneCall DEF Goto, TypeInv, TypeOK
<1> QED
  BY <1>1, <1>2, LeadMoves

LEMMA LeadStep ==
    ASSUME timely, OneSlot, TypeInv, LeadInv, [Next]_vars
    PROVE  LeadInv'
<1>1. Locked = {"acquire", "resolve", "upsert", "create", "checkpoint", "loop", "begin",
                "fetch", "write", "commit", "rollback", "complete"}
  BY DEF Locked, Waiting
<1>2. \A c \in Call : CallLeads(c) /\ c[1] \in Proc /\ (leader[c[1]] => lease = c[1])
  BY CallProc DEF LeadInv
<1>3. ASSUME NEW c \in Call, NEW w, Goto(c, w), UNCHANGED <<leader, stop, lease>>,
             w \in {"idle", "acquire"} \/ (w \in Locked /\ pc[c] \in Locked \ {"acquire"})
      PROVE  LeadInv'
  <2>1. CallLeads(c)'
    BY <1>1, <1>2, <1>3 DEF CallLeads, Goto, TypeInv, TypeOK
  <2> QED
    BY <1>2, <1>3, <2>1, LeadCall
<1>4. ASSUME NEW c \in Call, Unwind(c), UNCHANGED lease PROVE LeadInv'
  <2>1. CallLeads(c)' /\ ~leader'[c[1]]
    BY <1>1, <1>2, <1>4 DEF Unwind, CallLeads, Goto, TypeInv, TypeOK
  <2> QED
    BY <1>2, <1>4, <2>1, LeadCall DEF Unwind, TypeInv, TypeOK
<1>5. ASSUME NEW c \in Call, TryAcquireOk(c[1]), UNCHANGED stop,
             NEW w \in {"resolve", "scan"}, Goto(c, w)
      PROVE  LeadInv'
  <2>1. leader'[c[1]] /\ lease' = c[1] /\ pc'[c] = w
    BY <1>2, <1>5 DEF TryAcquireOk, Goto, TypeInv, TypeOK
  <2>2. CallLeads(c)'
    BY <2>1 DEF CallLeads
  <2> QED
    BY <1>2, <1>5, <2>1, <2>2, LeadCall DEF TryAcquireOk, TypeInv, TypeOK
<1>6. ASSUME NEW c \in Call, TryAcquireFails(c[1]), UNCHANGED stop, Goto(c, "idle")
      PROVE  LeadInv'
  <2>1. ~leader'[c[1]] /\ pc'[c] = "idle" /\ (lease' = lease \/ lease = None)
    BY <1>2, <1>6 DEF TryAcquireFails, Goto, TypeInv, TypeOK
  <2>2. CallLeads(c)'
    BY <1>1, <2>1 DEF CallLeads
  <2> QED
    BY <1>2, <1>6, <2>1, <2>2, LeadCall DEF TryAcquireFails, TypeInv, TypeOK
<1>7. ASSUME NEW c \in Call, AcquireLease(c) \/ ResumeIncompleteReplay(c) PROVE LeadInv'
  BY <1>5, <1>6, <1>7 DEF AcquireLease, ResumeIncompleteReplay
<1>8. ASSUME NEW c \in Call, ResolveCursor(c) \/ CreateCursor(c) \/ StartReplay(c) PROVE LeadInv'
  <2>1. UNCHANGED <<leader, stop, lease>> /\ pc[c] \in Locked \ {"acquire"}
    BY <1>1, <1>8 DEF ResolveCursor, CreateCursor, StartReplay, procVars
  <2>2. \E w \in Locked : Goto(c, w)
    BY <1>1, <1>8 DEF ResolveCursor, CreateCursor, StartReplay
  <2> QED
    BY <1>3, <2>1, <2>2
<1>9. ASSUME NEW c \in Call, LoopHead(c) PROVE LeadInv'
  <2>1. CASE Unwind(c)
    BY <1>4, <1>9, <2>1 DEF LoopHead
  <2>2. CASE UNCHANGED procVars /\ \E w \in {"complete", "begin"} : Goto(c, w)
    BY <1>1, <1>3, <1>9, <2>2 DEF LoopHead, procVars
  <2> QED
    BY <1>9, <2>1, <2>2 DEF LoopHead
<1>10. ASSUME NEW c \in Call,
              BeginBatch(c) \/ FetchBatch(c) \/ WriteBatch(c) \/ BatchError(c) \/ CommitBatch(c)
       PROVE  LeadInv'
  <2>1. pc[c] \in Locked \ {"acquire"} /\ UNCHANGED <<leader, stop, lease>>
    BY <1>1, <1>10 DEF BeginBatch, FetchBatch, WriteBatch, BatchError, CommitBatch, Batch, procVars
  <2>2. \E w \in Locked : Goto(c, w)
    BY <1>1, <1>10 DEF BeginBatch, FetchBatch, WriteBatch, BatchError, CommitBatch
  <2> QED
    BY <1>3, <2>1, <2>2
<1>11. ASSUME NEW c \in Call, RollbackBatch(c) \/ QueryError(c) \/ CompleteCursor(c) PROVE LeadInv'
  BY <1>4, <1>11 DEF RollbackBatch, QueryError, CompleteCursor
<1>12. ASSUME NEW c \in Call, ReleaseLease(c) PROVE LeadInv'
  <2>1. ~leader[c[1]] /\ leader' = leader /\ \A q \in Proc \ {c[1]} : stop'[q] = stop[q]
    BY <1>2, <1>12 DEF ReleaseLease, ReturnFrom, CallLeads, procVars, TypeInv, TypeOK
  <2>2. CASE Goto(c, "delete") /\ lease = c[1] /\ lease' = lease
    <3>1. CallLeads(c)'
      BY <1>1, <2>1, <2>2 DEF CallLeads, Goto, TypeInv, TypeOK
    <3> QED
      BY <2>1, <2>2, <3>1, LeadCall
  <2>3. CASE Goto(c, "idle") /\ (lease' = lease \/ pc[c] = "delete")
    <3>1. CallLeads(c)'
      BY <1>1, <2>1, <2>3 DEF CallLeads, Goto, TypeInv, TypeOK
    <3>2. pc[c] = "delete" => lease = c[1]
      BY <1>2 DEF CallLeads
    <3> QED
      BY <2>1, <2>3, <3>1, <3>2, LeadCall
  <2> QED
    BY <1>12, <2>2, <2>3 DEF ReleaseLease, ReturnFrom
<1>13. ASSUME NEW c \in Call, NEW r, Enter(c, r), UNCHANGED <<leader, lease>> PROVE LeadInv'
  <2>1. PICK w \in {"idle", "acquire"} : Goto(c, w)
    BY <1>13 DEF Enter
  <2>2. CallLeads(c)'
    BY <1>1, <2>1 DEF CallLeads, Goto, TypeInv, TypeOK
  <2>3. \A q \in Proc \ {c[1]} : stop'[q] = stop[q]
    BY <1>13 DEF Enter, TypeInv, TypeOK
  <2> QED
    BY <1>2, <1>13, <2>1, <2>2, <2>3, LeadCall
<1>14. ASSUME NEW c \in Call, ScanProgress(c) PROVE LeadInv'
  BY <1>3, <1>13, <1>14 DEF ScanProgress
<1>15. ASSUME NEW c \in Call, NEW r \in Request, ReplayEvents(c, r) PROVE LeadInv'
  BY <1>13, <1>15 DEF ReplayEvents
<1>16. ASSUME NEW p \in Proc, Restart(p) PROVE LeadInv'
  <2>1. PICK s \in Slot : Goto(<<p, s>>, "boot")
    BY <1>16 DEF Restart
  <2>2. <<p, s>> \in Call /\ <<p, s>>[1] = p
    BY DEF Call
  <2>3. CallLeads(<<p, s>>)'
    BY <1>1, <2>1, <2>2 DEF CallLeads, Goto, TypeInv, TypeOK
  <2> QED
    BY <1>2, <1>16, <2>1, <2>2, <2>3, LeadCall DEF Restart
<1>17. ASSUME NEW p \in Proc, RequestStopReplay(p) \/ ReleaseOnShutdown(p) PROVE LeadInv'
  <2>1. /\ UNCHANGED pc /\ stop'[p]
        /\ \A q \in Proc \ {p} : leader'[q] = leader[q] /\ stop'[q] = stop[q]
        /\ lease' = lease \/ lease = p
        /\ leader'[p] => lease' = p
    BY <1>17 DEF RequestStopReplay, ReleaseOnShutdown, callVars, LeadInv, TypeInv, TypeOK
  <2>2. ASSUME NEW d \in Call, d[1] = p PROVE CallLeads(d)'
    <3>1. CallLeads(d)
      BY <1>2
    <3>2. CASE RequestStopReplay(p)
      BY <2>1, <2>2, <3>1, <3>2 DEF RequestStopReplay, CallLeads
    <3>3. CASE ReleaseOnShutdown(p)
      BY <2>1, <2>2, <3>1, <3>3 DEF ReleaseOnShutdown, CallLeads, TypeInv, TypeOK
    <3> QED
      BY <1>17, <3>2, <3>3
  <2> QED
    BY <2>1, <2>2, LeadMoves
<1>18. ASSUME NEW p \in Proc, HeartbeatDrops(p) PROVE FALSE
  BY <1>18 DEF HeartbeatDrops, LeadInv
<1>19. ASSUME NEW p \in Proc, Crash(p) PROVE LeadInv'
  <2>1. /\ ~leader'[p] /\ lease' = lease
        /\ \A q \in Proc \ {p} : leader'[q] = leader[q] /\ stop'[q] = stop[q]
        /\ \A d \in Call : pc'[d] = IF d[1] = p THEN "idle" ELSE pc[d]
    BY <1>19 DEF Crash, TypeInv, TypeOK
  <2>2. ASSUME NEW d \in Call, d[1] = p PROVE CallLeads(d)'
    BY <1>1, <2>1, <2>2 DEF CallLeads
  <2> QED
    BY <2>1, <2>2, LeadMoves
<1>20. CASE LeaseExpires
  <2>1. /\ UNCHANGED <<pc, leader, stop>> /\ lease \in Proc /\ ~leader[lease]
        /\ \A s \in Slot : pc[<<lease, s>>] # "delete"
    BY <1>20 DEF LeaseExpires, procVars, callVars, TypeInv, TypeOK
  <2>2. ASSUME NEW d \in Call, d[1] = lease PROVE CallLeads(d)'
    <3>1. pc[d] # "delete"
      BY <2>1, <2>2 DEF Call
    <3> QED
      BY <1>2, <2>1, <3>1 DEF CallLeads
  <2> QED
    BY <2>1, <2>2, LeadMoves
<1>21. CASE \/ \E c \in Call : ConnectionHangs(c) \/ ConnectionRecovers(c)
            \/ \E t \in inDoubt : SettleInDoubt(t)
            \/ UNCHANGED vars
  <2>1. UNCHANGED <<leader, stop, lease, pc>>
    BY <1>21 DEF ConnectionHangs, ConnectionRecovers, SettleInDoubt, vars, procVars, callVars
  <2> QED
    BY <2>1 DEF LeadInv, CallLeads
<1> QED
  BY <1>7, <1>8, <1>9, <1>10, <1>11, <1>12, <1>14, <1>15, <1>16, <1>17, <1>18, <1>19,
     <1>20, <1>21 DEF Next, CallStep

\* A call counts the rows of its range, and goes to completion at its end only.
CallTotals(c) ==
    /\ pc[c] \in Ready => total[c] = req[c].rows
    /\ pc[c] \in Batch => off[c] < total[c]
    /\ pc[c] = "complete" => off[c] >= total[c]

CursorTotals(k) ==
    /\ cursors[k].total = cursors[k].req.rows
    /\ cursors[k].completed => FirstRows(cursors[k].req, cursors[k].total) \subseteq inserted

TotalInv == (\A c \in Call : CallTotals(c)) /\ (\A k \in 1..nCursors : CursorTotals(k))

\* What a step of call c owes to TotalInv.
LEMMA TotalMoves ==
    ASSUME TypeInv, TotalInv, NEW c \in Call, NEW w, Goto(c, w), CallTotals(c)',
           \A d \in Call \ {c} : off'[d] = off[d] /\ total'[d] = total[d] /\ req'[d] = req[d],
           \A k \in 1..nCursors' : CursorTotals(k)'
    PROVE  TotalInv'
<1>1. ASSUME NEW d \in Call, d # c PROVE CallTotals(d)'
  BY <1>1 DEF TotalInv, CallTotals, Goto, TypeInv, TypeOK
<1> QED
  BY <1>1 DEF TotalInv

\* The cursors keep their ranges and totals, and none is completed by the step.
LEMMA TotalsKept ==
    ASSUME TotalInv, UNCHANGED nCursors, inserted \subseteq inserted',
           \A k \in 1..nCursors : /\ cursors'[k].req = cursors[k].req
                                  /\ cursors'[k].total = cursors[k].total
                                  /\ cursors'[k].completed => cursors[k].completed
    PROVE  \A k \in 1..nCursors' : CursorTotals(k)'
BY DEF TotalInv, CursorTotals, FirstRows

LEMMA TotalStep ==
    ASSUME SameRange, TypeInv, CoverInv, LeadInv, TotalInv, [Next]_vars
    PROVE  TotalInv'
<1>0. nCursors \in Nat /\ \A k \in 1..nCursors : cursors[k] \in Cursor
  BY BoundsAssumption DEF TypeInv, TypeOK
<1>1. /\ Ready = {"create", "upsert", "checkpoint", "loop", "begin", "fetch", "write", "commit",
                  "rollback", "complete"}
      /\ Batch = {"begin", "fetch", "write", "commit"}
  BY DEF Ready, HasCursor, Batch
<1>2. \A c \in Call : CallTotals(c) /\ off[c] \in 0..NumRows /\ req[c] \in Request
  BY DEF TotalInv, TypeInv, TypeOK
<1>3. ASSUME UNCHANGED <<nCursors, cursors, inserted>> PROVE \A k \in 1..nCursors' : CursorTotals(k)'
  BY <1>3, TotalsKept
<1>4. ASSUME NEW c \in Call, NEW w, Goto(c, w), w \notin Ready,
             UNCHANGED <<nCursors, cursors, inserted, off, total>>,
             \A d \in Call \ {c} : req'[d] = req[d]
      PROVE  TotalInv'
  <2>1. CallTotals(c)'
    BY <1>1, <1>4 DEF CallTotals, Goto, TypeInv, TypeOK
  <2> QED
    BY <1>3, <1>4, <2>1, TotalMoves
<1>5. ASSUME NEW c \in Call, NEW w, Goto(c, w), pc[c] \in Ready, w \in Ready,
             w \in Batch => off[c] < total[c], w = "complete" => off[c] >= total[c],
             UNCHANGED <<nCursors, cursors, inserted, off, total, req>>
      PROVE  TotalInv'
  <2>1. CallTotals(c)'
    BY <1>1, <1>2, <1>5 DEF CallTotals, Goto, TypeInv, TypeOK
  <2> QED
    BY <1>3, <1>5, <2>1, TotalMoves
<1>6. ASSUME NEW c \in Call, Unwind(c), UNCHANGED <<nCursors, cursors, inserted>> PROVE TotalInv'
  BY <1>1, <1>4, <1>6 DEF Unwind
<1>7. ASSUME NEW c \in Call,
             \/ AcquireLease(c) \/ ResumeIncompleteReplay(c) \/ ReleaseLease(c)
      PROVE  TotalInv'
  <2>1. UNCHANGED <<nCursors, cursors, inserted, off, total, req>>
    BY <1>7 DEF AcquireLease, ResumeIncompleteReplay, ReleaseLease, ReturnFrom, dbVars
  <2>2. \E w \in {"idle", "resolve", "scan", "delete"} : Goto(c, w)
    BY <1>7 DEF AcquireLease, ResumeIncompleteReplay, ReleaseLease, ReturnFrom
  <2> QED
    BY <1>1, <1>4, <2>1, <2>2
<1>8. ASSUME NEW c \in Call, ResolveCursor(c) PROVE TotalInv'
  <2>1. ASSUME NEW k \in Active, total' = [total EXCEPT ![c] = cursors[k].total],
               Goto(c, "upsert")
        PROVE  CallTotals(c)'
    <3>1. k \in 1..nCursors /\ cursors[k].req \in Request /\ cursors[k].total = cursors[k].req.rows
      BY <1>0 DEF Active, Cursor, TotalInv, CursorTotals
    <3>2. cursors[k].req = req[c]
      BY <1>2, <3>1 DEF SameRange
    <3> QED
      BY <1>1, <1>8, <2>1, <3>1, <3>2 DEF ResolveCursor, CallTotals, Goto, TypeInv, TypeOK
  <2>2. ASSUME total' = [total EXCEPT ![c] = CountEventsToReplay(req[c])], Goto(c, "create")
        PROVE  CallTotals(c)'
    BY <1>1, <1>8, <2>2 DEF ResolveCursor, CallTotals, CountEventsToReplay, Goto, TypeInv, TypeOK
  <2>3. CallTotals(c)' /\ \E w : Goto(c, w)
    BY <1>8, <2>1, <2>2 DEF ResolveCursor
  <2>4. /\ UNCHANGED <<nCursors, cursors, inserted, req>>
        /\ \A d \in Call \ {c} : off'[d] = off[d] /\ total'[d] = total[d]
    BY <1>8 DEF ResolveCursor, dbVars, TypeInv, TypeOK
  <2> QED
    BY <1>3, <2>3, <2>4, TotalMoves
<1>9. ASSUME NEW c \in Call, CreateCursor(c) PROVE TotalInv'
  <2>1. total[c] = req[c].rows
    BY <1>1, <1>2, <1>9 DEF CreateCursor, CallTotals
  <2>2. /\ nCursors' = nCursors + 1 /\ inserted' = inserted
        /\ \A k \in 1..nCursors : cursors'[k] = cursors[k]
        /\ cursors'[nCursors + 1] = [req |-> req[c], total |-> total[c], offset |-> 0,
                                     completed |-> FALSE, status |-> "absent"]
    BY <1>0, <1>9 DEF CreateCursor
  <2>3. \A k \in 1..nCursors' : k \in 1..nCursors \/ k = nCursors + 1
    BY <1>0, <2>2
  <2>4. \A k \in 1..nCursors' : CursorTotals(k)'
    BY <2>1, <2>2, <2>3 DEF TotalInv, CursorTotals, FirstRows
  <2>5. CallTotals(c)'
    BY <1>1, <1>9, <2>1 DEF CreateCursor, CallTotals, Goto, TypeInv, TypeOK
  <2> QED
    BY <1>9, <2>4, <2>5, TotalMoves DEF CreateCursor
<1>10. ASSUME NEW c \in Call, StartReplay(c) PROVE TotalInv'
  <2>1. cur[c] \in 1..nCursors /\ pc[c] \in Ready /\ UNCHANGED <<nCursors, inserted, off, total, req>>
    BY <1>1, <1>10 DEF StartReplay, TypeInv, CursorKnown, HasCursor
  <2>2. \A k \in 1..nCursors : /\ cursors'[k].req = cursors[k].req
                               /\ cursors'[k].total = cursors[k].total
                               /\ cursors'[k].completed = cursors[k].completed
    <3>1. CASE cursors' = [cursors EXCEPT ![cur[c]].status = "in-progress"]
      BY <1>0, <2>1, <3>1 DEF TypeInv, TypeOK, Cursor
    <3>2. CASE cursors' = cursors
      BY <3>2
    <3> QED
      BY <1>10, <3>1, <3>2 DEF StartReplay, UpsertResuming, InsertIfAbsent
  <2>3. CallTotals(c)'
    BY <1>1, <1>2, <1>10, <2>1 DEF StartReplay, CallTotals, Goto, TypeInv, TypeOK
  <2>4. \E w : Goto(c, w)
    BY <1>10 DEF StartReplay
  <2> QED
    BY <2>1, <2>2, <2>3, <2>4, TotalMoves, TotalsKept
<1>11. ASSUME NEW c \in Call, LoopHead(c) PROVE TotalInv'
  <2>1. CASE Unwind(c)
    BY <1>6, <1>11, <2>1 DEF LoopHead, dbVars
  <2>2. CASE LoopDone(c) /\ Goto(c, "complete") /\ UNCHANGED <<off, total, req>>
    BY <1>1, <1>5, <1>11, <2>2 DEF LoopHead, LoopDone, dbVars
  <2>3. CASE ~LoopDone(c) /\ Goto(c, "begin") /\ UNCHANGED <<off, total, req>>
    <3>1. off[c] \in Int /\ total[c] \in Int
      BY DEF TypeInv, TypeOK
    <3> QED
      BY <1>1, <1>5, <1>11, <2>3, <3>1 DEF LoopHead, LoopDone, dbVars
  <2>4. leader[c[1]] \/ stop[c[1]]
    BY <1>11 DEF LoopHead, LeadInv, CallLeads, Locked, Waiting
  <2> QED
    BY <1>11, <2>1, <2>2, <2>3, <2>4 DEF LoopHead
<1>12. ASSUME NEW c \in Call, FetchBatch(c) PROVE TotalInv'
  <2>1. /\ off[c] < total[c] /\ total[c] = req[c].rows /\ off[c] \in 0..NumRows
        /\ req[c].first \in Nat /\ req[c].rows \in Nat
    BY <1>1, <1>2, <1>12, RequestAssumption DEF FetchBatch, CallTotals
  <2>2. req[c].first + off[c] \in FetchEventBatch(req[c], off[c])
    BY <2>1, BatchSizeAssumption DEF FetchEventBatch, FetchUpTo, Larger, Smaller
  <2>3. \E w \in {"rollback", "write"} : Goto(c, w)
    BY <1>12, <2>2 DEF FetchBatch
  <2> QED
    BY <1>1, <1>5, <1>12, <2>1, <2>3 DEF FetchBatch, dbVars
<1>13. ASSUME NEW c \in Call, BeginBatch(c) \/ WriteBatch(c) \/ BatchError(c) PROVE TotalInv'
  <2>1. pc[c] \in Batch /\ UNCHANGED <<nCursors, cursors, inserted, off, total, req>>
    BY <1>1, <1>13 DEF BeginBatch, WriteBatch, BatchError, dbVars
  <2>2. \E w \in {"fetch", "commit", "rollback"} : Goto(c, w)
    BY <1>13 DEF BeginBatch, WriteBatch, BatchError
  <2>3. off[c] < total[c]
    BY <1>2, <2>1 DEF CallTotals
  <2> QED
    BY <1>1, <1>5, <2>1, <2>2, <2>3
<1>14. ASSUME NEW t, t.cur \in 1..nCursors, t.upto \in 0..NumRows, ApplyTxn(t)
       PROVE  \A k \in 1..nCursors' : CursorTotals(k)'
  <2>1. /\ nCursors' = nCursors /\ inserted \subseteq inserted'
        /\ \A k \in 1..nCursors : /\ cursors'[k].req = cursors[k].req
                                  /\ cursors'[k].total = cursors[k].total
                                  /\ cursors'[k].completed = cursors[k].completed
    BY <1>0, <1>14 DEF ApplyTxn, AdvanceOffset, TypeInv, TypeOK, Cursor
  <2> QED
    BY <2>1, TotalsKept
<1>15. ASSUME NEW c \in Call, CommitBatch(c) PROVE TotalInv'
  <2>1. /\ pc[c] = "commit" /\ ApplyTxn(BatchTxn(c)) /\ Goto(c, "loop")
        /\ UNCHANGED <<total, req>> /\ \A d \in Call \ {c} : off'[d] = off[d]
    BY <1>15 DEF CommitBatch, TypeInv, TypeOK
  <2>2. BatchTxn(c).cur \in 1..nCursors /\ BatchTxn(c).upto \in 0..NumRows
    BY <2>1, TxnTyped DEF Doubt, BatchTxn, TypeInv, CursorKnown, HasCursor
  <2>3. CallTotals(c)'
    BY <1>1, <1>2, <2>1 DEF CallTotals, Goto, TypeInv, TypeOK
  <2> QED
    BY <1>14, <2>1, <2>2, <2>3, TotalMoves
<1>16. ASSUME NEW c \in Call, RollbackBatch(c) \/ QueryError(c) PROVE TotalInv'
  BY <1>6, <1>16 DEF RollbackBatch, QueryError, dbVars
<1>17. ASSUME NEW c \in Call, CompleteCursor(c) PROVE TotalInv'
  <2>1. /\ cur[c] \in 1..nCursors /\ pc[c] = "complete" /\ Unwind(c)
        /\ UNCHANGED <<nCursors, inserted, off, total, req>>
    BY <1>17 DEF CompleteCursor, Unwind, TypeInv, CursorKnown, HasCursor
  <2>2. \A k \in 1..nCursors : /\ cursors'[k].req = cursors[k].req
                               /\ cursors'[k].total = cursors[k].total
                               /\ k # cur[c] => cursors'[k] = cursors[k]
    BY <1>0, <1>17, <2>1 DEF CompleteCursor, MarkCompleted, TypeInv, TypeOK, Cursor
  <2>3. FirstRows(cursors[cur[c]].req, cursors[cur[c]].total) \subseteq inserted
    <3>1. cursors[cur[c]].req = req[c] /\ cursors[cur[c]].total = req[c].rows
      BY <1>0, <1>2, <2>1 DEF SameRange, Cursor, TotalInv, CursorTotals
    <3>2. total[c] = req[c].rows /\ off[c] >= total[c] /\ FirstRows(req[c], off[c]) \subseteq inserted
      BY <1>1, <1>2, <2>1 DEF CallTotals, CoverInv, CallsCovered
    <3>3. req[c].first \in Nat /\ req[c].rows \in Nat /\ off[c] \in Nat
      BY <1>2, RequestAssumption
    <3> QED
      BY <3>1, <3>2, <3>3 DEF FirstRows
  <2>4. \A k \in 1..nCursors' : CursorTotals(k)'
    BY <2>1, <2>2, <2>3 DEF TotalInv, CursorTotals, FirstRows
  <2>5. CallTotals(c)' /\ Goto(c, "release")
    BY <1>1, <2>1 DEF Unwind, CallTotals, Goto, TypeInv, TypeOK
  <2> QED
    BY <2>1, <2>4, <2>5, TotalMoves
<1>18. ASSUME NEW c \in Call, NEW r, Enter(c, r), UNCHANGED <<dbVars, off, total>> PROVE TotalInv'
  <2>1. \E w \in {"idle", "acquire"} : Goto(c, w)
    BY <1>18 DEF Enter
  <2>2. \A d \in Call \ {c} : req'[d] = req[d]
    BY <1>18 DEF Enter, TypeInv, TypeOK
  <2> QED
    BY <1>1, <1>4, <1>18, <2>1, <2>2 DEF dbVars
<1>19. ASSUME NEW c \in Call, ScanProgress(c) PROVE TotalInv'
  BY <1>1, <1>4, <1>18, <1>19 DEF ScanProgress, dbVars
<1>20. ASSUME NEW c \in Call, NEW r \in Request, ReplayEvents(c, r) PROVE TotalInv'
  BY <1>18, <1>20 DEF ReplayEvents
<1>21. ASSUME NEW p \in Proc, Restart(p) PROVE TotalInv'
  BY <1>1, <1>4, <1>21 DEF Restart, Call, dbVars
<1>22. ASSUME UNCHANGED <<off, total, req>>, \A k \in 1..nCursors' : CursorTotals(k)',
              \A c \in Call : pc'[c] \in {pc[c], "idle"}
       PROVE  TotalInv'
  BY <1>1, <1>22 DEF TotalInv, CallTotals
<1>23. ASSUME NEW p \in Proc, Crash(p) PROVE TotalInv'
  BY <1>3, <1>22, <1>23 DEF Crash
<1>24. ASSUME NEW t \in inDoubt, SettleInDoubt(t) PROVE TotalInv'
  <2>1. t.cur \in 1..nCursors /\ t.upto \in 0..NumRows
    BY DEF TypeInv, TypeOK, CursorKnown, Doubt
  <2> QED
    BY <1>3, <1>14, <1>22, <1>24, <2>1 DEF SettleInDoubt, callVars
<1>25. CASE \/ \E c \in Call : ConnectionHangs(c) \/ ConnectionRecovers(c)
            \/ \E p \in Proc : \/ RequestStopReplay(p) \/ ReleaseOnShutdown(p)
                               \/ HeartbeatDrops(p)
            \/ LeaseExpires \/ UNCHANGED vars
  <2>1. UNCHANGED <<nCursors, cursors, inserted, pc, off, total, req>>
    BY <1>25
       DEF ConnectionHangs, ConnectionRecovers, RequestStopReplay,
           ReleaseOnShutdown, HeartbeatDrops, LeaseExpires, vars, callVars, dbVars
  <2> QED
    BY <1>3, <1>22, <2>1
<1> QED
  BY <1>7, <1>8, <1>9, <1>10, <1>11, <1>12, <1>13, <1>15, <1>16, <1>17, <1>19, <1>20,
     <1>21, <1>23, <1>24, <1>25 DEF Next, CallStep

\* When renewals beat the TTL, a replica runs one call at a time and all requests
\* name one range, a cursor is marked completed only with every row it counted in
\* contract_events.  The run that drops the first condition refutes the claim.
THEOREM TimelyCompletion ==
    ASSUME OneSlot, SameRange
    PROVE  Spec => []TimelyCompletedMeansReplayed
<1> DEFINE Inv == TypeInv /\ CoverInv /\ (timely => LeadInv /\ TotalInv)
<1>1. Init => Inv
  BY TypeInit, CoverInit
     DEF Init, LeadInv, CallLeads, TotalInv, CallTotals, Locked, Ready, HasCursor, Batch
<1>2. Inv /\ [Next]_vars => Inv'
  <2> SUFFICES ASSUME Inv, [Next]_vars PROVE Inv'
    OBVIOUS
  <2>1. TypeInv' /\ CoverInv'
    BY TypeStep, CoverStep, SameRange
  <2>2. timely' = timely
    BY DEF Next, vars
  <2>3. ASSUME timely PROVE LeadInv' /\ TotalInv'
    BY <2>3, LeadStep, TotalStep, OneSlot, SameRange
  <2> QED
    BY <2>1, <2>2, <2>3
<1>3. Inv => TimelyCompletedMeansReplayed
  BY DEF TotalInv, CursorTotals, FirstRows, CompletedMeansReplayed, TimelyCompletedMeansReplayed
<1> QED
  BY <1>1, <1>2, <1>3, PTL DEF Spec
============================================================================

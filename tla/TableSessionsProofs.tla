------------------------ MODULE TableSessionsProofs -------------------------
(***************************************************************************)
(* TableSessions for every instance of its constants: types and joins that *)
(* stay at one table for all entry points; guests who are never ejected,   *)
(* and the refinement of SessionOccupancy, for those that hold the row     *)
(* lock.                                                                   *)
(***************************************************************************)
EXTENDS TableSessions, TLAPS

\* A handler that has left the scan's first await holds a session, and an order
\* that has been placed has one.
HasSession ==
  /\ \A r \in Request : pc[r] \notin {"idle", "createSession"} => job[r].session \in Session
  /\ \A o \in Order : orders[o].status # "absent" => orders[o].session \in Session

TypeInv == TypeOK /\ HasSession

-----------------------------------------------------------------------------
(* Type correctness. *)

LEMMA BeginType ==
  ASSUME TypeInv, NEW r \in Request, NEW entry \in EntryPoints, NEW j \in Job, NEW next \in Step,
         Begin(r, entry, j, next), UNCHANGED <<sessions, reserved, lock>>,
         orders' \in [Order -> OrderRow],
         \A o \in Order : orders'[o].status # "absent" => orders'[o].session \in Session,
         next # "createSession" => j.session \in Session
  PROVE  TypeInv'
<1>1. [j EXCEPT !.entry = entry] \in Job
  BY DEF Job
<1>2. TypeOK'
  BY <1>1 DEF TypeInv, TypeOK, Begin
<1>3. HasSession'
  BY <1>1 DEF TypeInv, TypeOK, HasSession, Begin, Job
<1>4. QED BY <1>2, <1>3 DEF TypeInv

LEMMA ArriveType ==
  ASSUME SessionsAssumption, TypeInv, NEW r \in Request, Arrive(r)
  PROVE  TypeInv'
<1>1. NoJob \in Job /\ \A s \in Session : sessions[s] \in SessionRow
  BY DEF NoJob, Job, UnopenedRow, SessionRow, Column, TypeInv, TypeOK
<1>2. UNCHANGED orders =>
        /\ orders' \in [Order -> OrderRow]
        /\ \A o \in Order : orders'[o].status # "absent" => orders'[o].session \in Session
  BY DEF TypeInv, TypeOK, HasSession
<1>3. ASSUME NEW t \in Table, Scan(r, t) \/ CreateFromStaffAtFreeTable(r, t) PROVE TypeInv'
  <2>1. [NoJob EXCEPT !.table = t] \in Job
    BY <1>1 DEF Job
  <2>2. CASE Scan(r, t)
    BY <2>1, <2>2, <1>2, BeginType DEF Scan, database, EntryPoints, Step
  <2>3. CASE CreateFromStaffAtFreeTable(r, t)
    BY <2>1, <2>3, <1>2, BeginType DEF CreateFromStaffAtFreeTable, database, EntryPoints, Step
  <2>4. QED BY <1>3, <2>2, <2>3
<1>4. ASSUME NEW s \in Session, CreateFromQr(r, s) \/ CreateFromStaff(r, s) PROVE TypeInv'
  <2>1. [NoJob EXCEPT !.session = s] \in Job /\ [NoJob EXCEPT !.session = s].session = s
    BY <1>1 DEF Job
  <2>2. CASE CreateFromQr(r, s)
    BY <2>1, <2>2, <1>2, BeginType DEF CreateFromQr, database, EntryPoints, Step
  <2>3. CASE CreateFromStaff(r, s)
    BY <2>1, <2>3, <1>2, BeginType DEF CreateFromStaff, database, EntryPoints, Step
  <2>4. QED BY <1>4, <2>2, <2>3
<1>5. ASSUME NEW s \in Session, NEW copy \in SessionRow, NEW next \in Step, NEW entry \in EntryPoints,
             Begin(r, entry, [NoJob EXCEPT !.session = s, !.copy = copy], next),
             UNCHANGED database
      PROVE  TypeInv'
  <2> DEFINE j == [NoJob EXCEPT !.session = s, !.copy = copy]
  <2>1. j \in Job /\ j.session = s
    BY <1>1 DEF Job
  <2>2. QED BY <2>1, <1>2, <1>5, BeginType DEF database
<1>6. ASSUME NEW s \in Session, CloseSession(r, s) PROVE TypeInv'
  BY <1>1, <1>5, <1>6 DEF CloseSession, SessionRow, Step, EntryPoints
<1>7. ASSUME NEW s \in Session, SplitSession(r, s) PROVE TypeInv'
  BY <1>1, <1>5, <1>7 DEF SplitSession, SessionRow, Step, EntryPoints
<1>8. ASSUME NEW s \in Session, HandleCallWaiter(r, s) PROVE TypeInv'
  BY <1>1, <1>5, <1>8 DEF HandleCallWaiter, SessionRow, Step, EntryPoints
<1>9. ASSUME NEW s \in Session, AcknowledgeWaiterCall(r, s) PROVE TypeInv'
  BY <1>1, <1>5, <1>9 DEF AcknowledgeWaiterCall, SessionRow, Step, EntryPoints
<1>10. ASSUME NEW s \in Session, NEW target \in Session, JoinSessions(r, target, s) PROVE TypeInv'
  <2> DEFINE root == IF sessions[target].mergedInto = NoSession
                     THEN target ELSE sessions[target].mergedInto
             j == [NoJob EXCEPT !.session = s, !.table = TableOf[target], !.root = root]
  <2>1. root \in Session /\ TableOf[target] \in Table
    BY <1>1 DEF SessionRow, SessionsAssumption
  <2>2. j \in Job /\ j.session = s
    BY <1>1, <2>1 DEF Job
  <2>3. Begin(r, "joinSessions", j, "readSource") /\ UNCHANGED database
    BY <1>10 DEF JoinSessions
  <2>4. QED BY <2>2, <2>3, <1>2, BeginType DEF database, EntryPoints, Step
<1>11. ASSUME NEW o \in Order, TransitionOrder(r, o) PROVE TypeInv'
  <2> DEFINE j == [NoJob EXCEPT !.session = orders[o].session]
  <2>1. orders[o].session \in Session
    BY <1>11 DEF TransitionOrder, Exits, TypeInv, HasSession
  <2>2. j \in Job /\ j.session \in Session
    BY <1>1, <2>1 DEF Job
  <2>3. /\ orders' \in [Order -> OrderRow]
        /\ \A x \in Order : orders'[x].status # "absent" => orders'[x].session \in Session
    BY <1>11, <2>1 DEF TransitionOrder, Exits, TypeInv, TypeOK, HasSession, OrderRow
  <2>4. QED BY <1>11, <2>2, <2>3, BeginType DEF TransitionOrder, EntryPoints, Step
<1>12. QED BY <1>3, <1>4, <1>6, <1>7, <1>8, <1>9, <1>10, <1>11 DEF Arrive

\* A step that keeps the tables typed and moves a handler that keeps its session.
LEMMA MoveType ==
  ASSUME TypeInv, NEW r \in Request,
         sessions' \in [Session -> SessionRow], reserved' \in [Table -> BOOLEAN],
         orders' \in [Order -> OrderRow], lock' \in [Session -> Request \union {NoRequest}],
         \A o \in Order : orders'[o].status # "absent" => orders'[o].session \in Session,
         NEW next \in Step, pc' = [pc EXCEPT ![r] = next],
         NEW j \in Job, job' = [job EXCEPT ![r] = j],
         next # "idle" => j.session \in Session
  PROVE  TypeInv'
<1>1. TypeOK'
  BY DEF TypeInv, TypeOK
<1>2. HasSession'
  BY DEF TypeInv, TypeOK, HasSession
<1>3. QED BY <1>1, <1>2 DEF TypeInv

LEMMA MoveDatabaseKept ==
  ASSUME TypeInv, NEW r \in Request, UNCHANGED database,
         NEW next \in Step, pc' = [pc EXCEPT ![r] = next],
         NEW j \in Job, job' = [job EXCEPT ![r] = j],
         next # "idle" => j.session \in Session
  PROVE  TypeInv'
BY MoveType DEF TypeInv, TypeOK, HasSession, database

\* Goto and Finish as moves.
LEMMA Moves ==
  ASSUME TypeInv, NEW r \in Request
  PROVE  /\ NoJob \in Job
         /\ job[r] \in Job
         /\ \A next : Goto(r, next) =>
              pc' = [pc EXCEPT ![r] = next] /\ job' = [job EXCEPT ![r] = job[r]]
         /\ Finish(r) => pc' = [pc EXCEPT ![r] = "idle"] /\ job' = [job EXCEPT ![r] = NoJob]
         /\ pc[r] \notin {"idle", "createSession"} => job[r].session \in Session
BY DEF NoJob, Job, UnopenedRow, SessionRow, Column, TypeInv, TypeOK, HasSession, Goto, Finish

LEMMA RunType ==
  ASSUME SessionsAssumption, TypeInv, NEW r \in Request, Run(r) \/ Die(r)
  PROVE  TypeInv'
<1> USE Moves
<1> DEFINE s == job[r].session
<1>1. CASE SyncCount(r)
  <2> DEFINE j == [job[r] EXCEPT !.occupied =
                     ActiveAt(TableOf[s]) \ {c \in Session : lock[c] = r} # {}]
  <2>1. j \in Job /\ j.session = s
    BY DEF Job
  <2>2. /\ pc' = [pc EXCEPT ![r] = "syncUpdate"] /\ UNCHANGED database
        /\ job' = [job EXCEPT ![r] = j]
        /\ s \in Session
    BY <1>1 DEF SyncCount, At
  <2>3. QED BY <2>1, <2>2, MoveDatabaseKept DEF Step
<1>2. CASE SyncUpdate(r)
  <2>1. s \in Session /\ TableOf[s] \in Table /\ job[r].occupied \in BOOLEAN
    BY <1>2 DEF SyncUpdate, At, SessionsAssumption, Job
  <2>2. /\ sessions' \in [Session -> SessionRow] /\ reserved' \in [Table -> BOOLEAN]
        /\ lock' \in [Session -> Request \union {NoRequest}]
    BY <1>2, <2>1 DEF SyncUpdate, TypeInv, TypeOK, SessionRow
  <2>3. /\ orders' \in [Order -> OrderRow]
        /\ \A o \in Order : orders'[o].status # "absent" => orders'[o].session \in Session
    BY <1>2 DEF SyncUpdate, TypeInv, TypeOK, HasSession
  <2>4. CASE Goto(r, "insertStaffOrder")
    BY <2>1, <2>2, <2>3, <2>4, MoveType DEF Step
  <2>5. CASE Finish(r)
    BY <2>2, <2>3, <2>5, MoveType DEF Step
  <2>6. QED BY <1>2, <2>4, <2>5 DEF SyncUpdate
<1>3. CASE RefreshKeeps(r)
  BY <1>3, MoveDatabaseKept DEF RefreshKeeps, Step
<1>4. CASE RefreshCloses(r)
  <2>1. s \in Session
    BY <1>4 DEF RefreshCloses, At
  <2>2. /\ UNCHANGED <<sessions, reserved, orders>>
        /\ lock' \in [Session -> Request \union {NoRequest}]
        /\ Goto(r, "syncCount")
    BY <1>4 DEF RefreshCloses, TypeInv, TypeOK
  <2>3. QED BY <2>1, <2>2, MoveType DEF Step, TypeInv, TypeOK, HasSession
<1>5. CASE CountOrders(r)
  <2>1. s \in Session /\ UNCHANGED database
    BY <1>5 DEF CountOrders, At
  <2>2. CASE Goto(r, "countChildren")
    BY <2>1, <2>2, MoveDatabaseKept DEF Step
  <2>3. CASE Finish(r)
    BY <2>1, <2>3, MoveDatabaseKept DEF Step
  <2>4. QED BY <1>5, <2>2, <2>3 DEF CountOrders
<1>6. CASE ReadSource(r)
  <2> DEFINE j == [job[r] EXCEPT !.copy = [sessions[s] EXCEPT !.mergedInto = job[r].root]]
  <2>1. s \in Session /\ UNCHANGED database
    BY <1>6 DEF ReadSource, At
  <2>2. sessions[s] \in SessionRow /\ job[r].root \in Session \union {NoSession}
    BY <2>1 DEF TypeInv, TypeOK, Job
  <2>3. [sessions[s] EXCEPT !.mergedInto = job[r].root] \in SessionRow
    BY <2>2 DEF SessionRow
  <2>4. j \in Job /\ j.session = s
    BY <2>3 DEF Job
  <2>5. CASE pc' = [pc EXCEPT ![r] = "countChildren"] /\ job' = [job EXCEPT ![r] = j]
    BY <2>1, <2>4, <2>5, MoveDatabaseKept DEF Step
  <2>6. CASE Finish(r)
    BY <2>1, <2>6, MoveDatabaseKept DEF Step
  <2>7. QED BY <1>6, <2>5, <2>6 DEF ReadSource
<1>7. CASE CountChildren(r)
  <2>1. s \in Session /\ UNCHANGED database
    BY <1>7 DEF CountChildren, At
  <2>2. CASE Goto(r, "save")
    BY <2>1, <2>2, MoveDatabaseKept DEF Step
  <2>3. CASE Finish(r)
    BY <2>1, <2>3, MoveDatabaseKept DEF Step
  <2>4. QED BY <1>7, <2>2, <2>3 DEF CountChildren
<1>8. CASE Save(r)
  <2> DEFINE dirty == {c \in Column : job[r].copy[c] # sessions[s][c]}
             j == [job[r] EXCEPT !.dirty = dirty]
  <2>1. j \in Job /\ j.session = s
    BY DEF Job
  <2>2. s \in Session /\ UNCHANGED database /\ pc' = [pc EXCEPT ![r] = "update"]
        /\ job' = [job EXCEPT ![r] = j]
    BY <1>8 DEF Save, At
  <2>3. QED BY <2>1, <2>2, MoveDatabaseKept DEF Step
<1>9. CASE Update(r)
  <2> DEFINE row == [c \in Column |-> IF c \in job[r].dirty THEN job[r].copy[c] ELSE sessions[s][c]]
  <2>1. s \in Session
    BY <1>9 DEF Update, At
  <2>2. job[r].copy \in SessionRow /\ sessions[s] \in SessionRow
    BY <2>1 DEF TypeInv, TypeOK, Job
  <2>3. row \in SessionRow
    BY <2>2 DEF Column, SessionRow
  <2>4. /\ sessions' \in [Session -> SessionRow]
        /\ UNCHANGED <<reserved, orders, lock>>
    BY <1>9, <2>3 DEF Update, TypeInv, TypeOK
  <2>5. CASE Goto(r, "syncCount")
    BY <2>1, <2>4, <2>5, MoveType DEF Step, TypeInv, TypeOK, HasSession
  <2>6. CASE Finish(r)
    BY <2>4, <2>6, MoveType DEF Step, TypeInv, TypeOK, HasSession
  <2>7. QED BY <1>9, <2>5, <2>6 DEF Update
<1>10. ASSUME NEW x \in Session, CreateSession(r, x) PROVE TypeInv'
  <2> DEFINE j == [job[r] EXCEPT !.session = x]
  <2>1. j \in Job /\ j.session = x
    BY DEF Job
  <2>2. /\ sessions' \in [Session -> SessionRow] /\ UNCHANGED <<reserved, orders, lock>>
        /\ pc' = [pc EXCEPT ![r] = "syncCount"] /\ job' = [job EXCEPT ![r] = j]
    BY <1>10 DEF CreateSession, TypeInv, TypeOK, SessionRow
  <2>3. /\ reserved' \in [Table -> BOOLEAN] /\ orders' \in [Order -> OrderRow]
        /\ lock' \in [Session -> Request \union {NoRequest}]
        /\ \A o \in Order : orders'[o].status # "absent" => orders'[o].session \in Session
    BY <2>2 DEF TypeInv, TypeOK, HasSession
  <2>4. "syncCount" \in Step /\ j.session \in Session
    BY <2>1 DEF Step
  <2> HIDE DEF j
  <2>5. QED BY <2>1, <2>2, <2>3, <2>4, MoveType
<1>11. ASSUME NEW o \in Order, InsertOrder(r, o) \/ InsertStaffOrder(r, o) PROVE TypeInv'
  <2>1. s \in Session /\ TableOf[s] \in Table
    BY <1>11 DEF InsertOrder, InsertStaffOrder, At, SessionsAssumption
  <2>2. /\ orders' \in [Order -> OrderRow]
        /\ \A x \in Order : orders'[x].status # "absent" => orders'[x].session \in Session
    <3>1. orders' = [orders EXCEPT ![o] = [status |-> "open", session |-> s]]
      BY <1>11 DEF InsertOrder, InsertStaffOrder, PlaceOrder
    <3>2. [status |-> "open", session |-> s] \in OrderRow
      BY <2>1 DEF OrderRow
    <3>3. QED BY <2>1, <3>1, <3>2 DEF TypeInv, TypeOK, HasSession
  <2>3. /\ sessions' \in [Session -> SessionRow] /\ reserved' \in [Table -> BOOLEAN]
        /\ UNCHANGED lock /\ Finish(r)
    <3>1. CASE InsertStaffOrder(r, o)
      BY <3>1 DEF InsertStaffOrder, TypeInv, TypeOK
    <3>2. CASE InsertOrder(r, o)
      <4>1. sessions' \in [Session -> SessionRow]
        BY <2>1, <3>2 DEF InsertOrder, TypeInv, TypeOK, SessionRow
      <4>2. reserved' \in [Table -> BOOLEAN]
        <5>1. CASE reserved' = reserved
          BY <5>1 DEF TypeInv, TypeOK
        <5>2. CASE reserved' = [reserved EXCEPT ![TableOf[s]] = TRUE]
          BY <5>2 DEF TypeInv, TypeOK
        <5>3. QED BY <3>2, <5>1, <5>2 DEF InsertOrder
      <4>3. QED BY <3>2, <4>1, <4>2 DEF InsertOrder
    <3>3. QED BY <1>11, <3>1, <3>2
  <2>4. QED BY <2>2, <2>3, MoveType DEF Step, TypeInv, TypeOK
<1>12. CASE Die(r)
  <2>1. /\ lock' \in [Session -> Request \union {NoRequest}]
        /\ UNCHANGED <<sessions, reserved, orders>> /\ Finish(r)
    BY <1>12 DEF Die, TypeInv, TypeOK
  <2>2. QED BY <2>1, MoveType DEF Step, TypeInv, TypeOK, HasSession
<1>13. QED BY <1>1, <1>2, <1>3, <1>4, <1>5, <1>6, <1>7, <1>8, <1>9, <1>10, <1>11, <1>12 DEF Run

LEMMA InitType == SessionsAssumption /\ Init => TypeInv
<1> SUFFICES ASSUME SessionsAssumption, Init PROVE TypeInv
  OBVIOUS
<1>1. UnopenedRow \in SessionRow
  BY DEF UnopenedRow, SessionRow
<1>2. NoJob \in Job
  BY <1>1 DEF NoJob, Job, Column
<1>3. TypeOK
  BY <1>1, <1>2 DEF Init, TypeOK, OrderRow, Step
<1>4. HasSession
  BY DEF Init, HasSession
<1>5. QED BY <1>3, <1>4 DEF TypeInv

LEMMA NextType == SessionsAssumption /\ TypeInv /\ [Next]_vars => TypeInv'
<1> SUFFICES ASSUME SessionsAssumption, TypeInv, [Next]_vars PROVE TypeInv'
  OBVIOUS
<1>1. CASE UNCHANGED vars
  BY <1>1 DEF vars, TypeInv, TypeOK, HasSession
<1>2. ASSUME NEW t \in Table, NEW isReserved \in BOOLEAN, SetReservation(t, isReserved) PROVE TypeInv'
  BY <1>2 DEF SetReservation, TypeInv, TypeOK, HasSession
<1>3. ASSUME NEW o \in Order, RetryPayment(o) PROVE TypeInv'
  BY <1>3 DEF RetryPayment, TypeInv, TypeOK, HasSession, OrderRow
<1>4. QED BY <1>1, <1>2, <1>3, ArriveType, RunType DEF Next

\* Every column and local keeps its type.
THEOREM TypeCorrect == Spec => []TypeOK
<1>1. Spec => []TypeInv
  BY SessionsAssumption, InitType, NextType, PTL DEF Spec
<1>2. TypeInv => TypeOK
  BY DEF TypeInv
<1>3. QED BY <1>1, <1>2, PTL

-----------------------------------------------------------------------------
(* Joins stay at one table: rows, copies that may be saved, and roots that a *)
(* join has resolved agree on it.                                            *)

\* A row, or a copy, of session s points at a session of the same table.
SameTable(row, s) == row.mergedInto # NoSession => TableOf[row.mergedInto] = TableOf[s]

RowsAtOneTable == \A s \in Session : SameTable(sessions[s], s)

\* Handlers that hold a copy to be saved.
Copying == {"countOrders", "countChildren", "save", "update"}

CopiesAtOneTable ==
  \A r \in Request :
    /\ pc[r] \in Copying => SameTable(job[r].copy, job[r].session)
    /\ pc[r] = "readSource" =>
         job[r].root \in Session /\ TableOf[job[r].root] = job[r].table

JoinInv == TypeInv /\ RowsAtOneTable /\ CopiesAtOneTable

\* What one handler does to its own copy; the rows are kept.
LEMMA CopyKept ==
  ASSUME JoinInv, NEW r \in Request, UNCHANGED sessions,
         \A q \in Request : q # r => pc'[q] = pc[q] /\ job'[q] = job[q],
         pc'[r] \in Copying => SameTable(job'[r].copy, job'[r].session),
         pc'[r] = "readSource" =>
           job'[r].root \in Session /\ TableOf[job'[r].root] = job'[r].table
  PROVE  RowsAtOneTable' /\ CopiesAtOneTable'
BY DEF JoinInv, RowsAtOneTable, CopiesAtOneTable, SameTable

LEMMA ArriveJoin ==
  ASSUME SessionsAssumption, JoinInv, NEW r \in Request, Arrive(r)
  PROVE  RowsAtOneTable' /\ CopiesAtOneTable'
<1>1. \A q \in Request : q # r => pc'[q] = pc[q] /\ job'[q] = job[q]
  BY DEF Arrive, Scan, CreateFromStaffAtFreeTable, CreateFromQr, CreateFromStaff, CloseSession,
         SplitSession, HandleCallWaiter, AcknowledgeWaiterCall, JoinSessions, TransitionOrder,
         Begin, JoinInv, TypeInv, TypeOK
<1>2. UNCHANGED sessions
  BY DEF Arrive, Scan, CreateFromStaffAtFreeTable, CreateFromQr, CreateFromStaff, CloseSession,
         SplitSession, HandleCallWaiter, AcknowledgeWaiterCall, JoinSessions, TransitionOrder,
         database
<1>3. ASSUME NEW t \in Table, Scan(r, t) \/ CreateFromStaffAtFreeTable(r, t)
      PROVE  pc'[r] = "createSession"
  BY <1>3 DEF Scan, CreateFromStaffAtFreeTable, Begin, JoinInv, TypeInv, TypeOK
<1>4. ASSUME NEW s \in Session, CreateFromQr(r, s) \/ CreateFromStaff(r, s)
      PROVE  pc'[r] \in {"insertOrder", "insertStaffOrder"}
  BY <1>4 DEF CreateFromQr, CreateFromStaff, Begin, JoinInv, TypeInv, TypeOK
<1>5. ASSUME NEW o \in Order, TransitionOrder(r, o)
      PROVE  pc'[r] = "refresh"
  BY <1>5 DEF TransitionOrder, Begin, JoinInv, TypeInv, TypeOK
<1>6. ASSUME NEW s \in Session, NEW copy, NEW entry, NEW next \in Copying,
             Begin(r, entry, [NoJob EXCEPT !.session = s, !.copy = copy], next),
             SameTable(copy, s)
      PROVE  pc'[r] \in Copying /\ SameTable(job'[r].copy, job'[r].session)
  BY <1>6 DEF Begin, NoJob, JoinInv, TypeInv, TypeOK
<1>7. ASSUME NEW s \in Session,
             \/ CloseSession(r, s) \/ SplitSession(r, s)
             \/ HandleCallWaiter(r, s) \/ AcknowledgeWaiterCall(r, s)
      PROVE  pc'[r] \in Copying /\ SameTable(job'[r].copy, job'[r].session)
  <2>1. sessions[s] \in SessionRow /\ SameTable(sessions[s], s)
    BY DEF JoinInv, RowsAtOneTable, TypeInv, TypeOK
  <2>2. CASE CloseSession(r, s)
    BY <2>1, <2>2, <1>6 DEF CloseSession, SessionRow, SameTable, Copying
  <2>3. CASE SplitSession(r, s)
    BY <2>1, <2>3, <1>6 DEF SplitSession, SessionRow, SameTable, Copying
  <2>4. CASE HandleCallWaiter(r, s)
    BY <2>1, <2>4, <1>6 DEF HandleCallWaiter, SessionRow, SameTable, Copying
  <2>5. CASE AcknowledgeWaiterCall(r, s)
    BY <2>1, <2>5, <1>6 DEF AcknowledgeWaiterCall, SessionRow, SameTable, Copying
  <2>6. QED BY <1>7, <2>2, <2>3, <2>4, <2>5
<1>8. ASSUME NEW s \in Session, NEW target \in Session, JoinSessions(r, target, s)
      PROVE  /\ pc'[r] = "readSource"
             /\ job'[r].root \in Session /\ TableOf[job'[r].root] = job'[r].table
  <2> DEFINE root == IF sessions[target].mergedInto = NoSession
                     THEN target ELSE sessions[target].mergedInto
  <2>1. root \in Session /\ TableOf[root] = TableOf[target]
    BY DEF JoinInv, RowsAtOneTable, SameTable, TypeInv, TypeOK, SessionRow
  <2>2. /\ pc'[r] = "readSource"
        /\ job'[r].root = root /\ job'[r].table = TableOf[target]
    BY <1>8 DEF JoinSessions, Begin, NoJob, JoinInv, TypeInv, TypeOK
  <2>3. QED BY <2>1, <2>2
<1>9. /\ pc'[r] \in Copying => SameTable(job'[r].copy, job'[r].session)
      /\ pc'[r] = "readSource" =>
           job'[r].root \in Session /\ TableOf[job'[r].root] = job'[r].table
  BY <1>3, <1>4, <1>5, <1>7, <1>8 DEF Arrive, Copying
<1>10. QED BY <1>1, <1>2, <1>9, CopyKept

LEMMA RunJoin ==
  ASSUME SessionsAssumption, JoinInv, NEW r \in Request, Run(r) \/ Die(r)
  PROVE  RowsAtOneTable' /\ CopiesAtOneTable'
<1> DEFINE s == job[r].session
<1> USE DEF JoinInv, TypeInv, TypeOK
<1>1. \A q \in Request : q # r => pc'[q] = pc[q] /\ job'[q] = job[q]
  BY DEF Run, Die, SyncCount, SyncUpdate, RefreshKeeps, RefreshCloses, CountOrders, ReadSource,
         CountChildren, Save, Update, CreateSession, InsertOrder, InsertStaffOrder, Goto, Finish
\* Steps that write no mergedInto and leave r without a copy.
<1>2. ASSUME pc'[r] \notin Copying \union {"readSource"},
             \A x \in Session : sessions'[x].mergedInto = sessions[x].mergedInto
      PROVE  RowsAtOneTable' /\ CopiesAtOneTable'
  BY <1>1, <1>2 DEF RowsAtOneTable, CopiesAtOneTable, SameTable
<1>3. CASE SyncCount(r) \/ SyncUpdate(r) \/ RefreshKeeps(r) \/ RefreshCloses(r) \/ Die(r)
  <2>1. pc'[r] \notin Copying \union {"readSource"}
    BY <1>3 DEF SyncCount, SyncUpdate, RefreshKeeps, RefreshCloses, Die, Goto, Finish, Copying
  <2>2. \A x \in Session : sessions'[x].mergedInto = sessions[x].mergedInto
    BY <1>3 DEF SyncCount, SyncUpdate, RefreshKeeps, RefreshCloses, Die, database, SessionRow
  <2>3. QED BY <1>2, <2>1, <2>2
<1>4. CASE CountOrders(r) \/ CountChildren(r)
  <2>1. UNCHANGED sessions /\ pc[r] \in Copying /\ SameTable(job[r].copy, s)
    BY <1>4 DEF CountOrders, CountChildren, At, database, CopiesAtOneTable, Copying
  <2>2. \/ pc'[r] = "idle"
        \/ pc'[r] \in Copying /\ job'[r] = job[r]
    BY <1>4 DEF CountOrders, CountChildren, Goto, Finish, Copying
  <2>3. QED BY <1>1, <2>1, <2>2, CopyKept DEF Copying
<1>5. CASE ReadSource(r)
  <2>1. /\ UNCHANGED sessions /\ s \in Session
        /\ job[r].root \in Session /\ TableOf[job[r].root] = job[r].table
    BY <1>5 DEF ReadSource, At, database, CopiesAtOneTable, HasSession
  <2>2. CASE pc'[r] = "idle"
    BY <1>1, <2>1, <2>2, CopyKept DEF Copying
  <2>3. CASE /\ MayJoin(s, job[r].table, job[r].root)
             /\ pc' = [pc EXCEPT ![r] = "countChildren"]
             /\ job' = [job EXCEPT ![r].copy = [sessions[s] EXCEPT !.mergedInto = job[r].root]]
    <3>1. pc'[r] = "countChildren" /\ job'[r].session = s /\ job'[r].copy.mergedInto = job[r].root
      BY <2>1, <2>3 DEF Job, SessionRow
    <3>2. TableOf[s] = job[r].table
      BY <2>3 DEF MayJoin
    <3>3. SameTable(job'[r].copy, job'[r].session)
      BY <2>1, <3>1, <3>2 DEF SameTable
    <3>4. QED BY <1>1, <2>1, <3>1, <3>3, CopyKept
  <2>4. QED BY <1>5, <2>2, <2>3 DEF ReadSource, Finish
<1>6. CASE Save(r)
  <2>1. UNCHANGED sessions /\ SameTable(job[r].copy, s)
    BY <1>6 DEF Save, At, database, CopiesAtOneTable, Copying
  <2>2. pc'[r] = "update" /\ job'[r].copy = job[r].copy /\ job'[r].session = s
    BY <1>6 DEF Save, Job
  <2>3. QED BY <1>1, <2>1, <2>2, CopyKept
<1>7. CASE Update(r)
  <2>1. s \in Session /\ SameTable(job[r].copy, s) /\ SameTable(sessions[s], s)
    BY <1>7 DEF Update, At, CopiesAtOneTable, Copying, HasSession, RowsAtOneTable
  <2>2. /\ \A x \in Session : x # s => sessions'[x] = sessions[x]
        /\ sessions'[s].mergedInto \in {job[r].copy.mergedInto, sessions[s].mergedInto}
    BY <1>7, <2>1 DEF Update, Column
  <2>3. RowsAtOneTable'
    BY <2>1, <2>2 DEF RowsAtOneTable, SameTable
  <2>4. pc'[r] \in {"syncCount", "idle"}
    BY <1>7 DEF Update, Goto, Finish
  <2>5. CopiesAtOneTable'
    BY <1>1, <2>4 DEF CopiesAtOneTable, Copying, SameTable
  <2>6. QED BY <2>3, <2>5
<1>8. ASSUME NEW x \in Session, CreateSession(r, x) PROVE RowsAtOneTable' /\ CopiesAtOneTable'
  <2>1. pc'[r] = "syncCount"
    BY <1>8 DEF CreateSession
  <2>2. \A y \in Session : sessions'[y].mergedInto = sessions[y].mergedInto
    BY <1>8 DEF CreateSession, SessionRow
  <2>3. QED BY <1>2, <2>1, <2>2 DEF Copying
<1>9. ASSUME NEW o \in Order, InsertOrder(r, o) \/ InsertStaffOrder(r, o)
      PROVE  RowsAtOneTable' /\ CopiesAtOneTable'
  <2>1. pc'[r] = "idle"
    BY <1>9 DEF InsertOrder, InsertStaffOrder, Finish
  <2>2. \A y \in Session : sessions'[y].mergedInto = sessions[y].mergedInto
    BY <1>9 DEF InsertOrder, InsertStaffOrder, SessionRow
  <2>3. QED BY <1>2, <2>1, <2>2 DEF Copying
<1>10. QED BY <1>3, <1>4, <1>5, <1>6, <1>7, <1>8, <1>9 DEF Run

LEMMA InitJoin == SessionsAssumption /\ Init => JoinInv
<1> SUFFICES ASSUME SessionsAssumption, Init PROVE JoinInv
  OBVIOUS
<1>1. TypeInv
  BY InitType
<1>2. RowsAtOneTable /\ CopiesAtOneTable
  BY DEF Init, RowsAtOneTable, CopiesAtOneTable, SameTable, UnopenedRow, Copying
<1>3. QED BY <1>1, <1>2 DEF JoinInv

LEMMA NextJoin == SessionsAssumption /\ JoinInv /\ [Next]_vars => JoinInv'
<1> SUFFICES ASSUME SessionsAssumption, JoinInv, [Next]_vars PROVE JoinInv'
  OBVIOUS
<1>1. TypeInv'
  BY NextType DEF JoinInv
<1>2. RowsAtOneTable' /\ CopiesAtOneTable'
  <2>1. CASE UNCHANGED vars
    BY <2>1 DEF vars, JoinInv, RowsAtOneTable, CopiesAtOneTable, SameTable
  <2>2. ASSUME NEW t \in Table, NEW isReserved \in BOOLEAN, SetReservation(t, isReserved)
        PROVE  RowsAtOneTable' /\ CopiesAtOneTable'
    BY <2>2 DEF SetReservation, JoinInv, RowsAtOneTable, CopiesAtOneTable, SameTable
  <2>3. ASSUME NEW o \in Order, RetryPayment(o) PROVE RowsAtOneTable' /\ CopiesAtOneTable'
    BY <2>3 DEF RetryPayment, JoinInv, RowsAtOneTable, CopiesAtOneTable, SameTable
  <2>4. QED BY <2>1, <2>2, <2>3, ArriveJoin, RunJoin DEF Next
<1>3. QED BY <1>1, <1>2 DEF JoinInv

\* However requests race, die and save stale copies, sessions that are billed
\* together are sessions of one table.
THEOREM JoinsStayAtOneTable == Spec => []JoinedSessionsShareTheirTable
<1>1. Spec => []JoinInv
  BY SessionsAssumption, InitJoin, NextJoin, PTL DEF Spec
<1>2. SessionsAssumption /\ JoinInv => JoinedSessionsShareTheirTable
  BY DEF SessionsAssumption, JoinInv, RowsAtOneTable, SameTable, JoinedSessionsShareTheirTable
<1>3. QED BY <1>1, <1>2, SessionsAssumption, PTL

-----------------------------------------------------------------------------
(* Guests are not ejected, provided isActive is written under the row lock. *)

OnlyGuests == Enabled \subseteq GuestEntryPoints

GuestSteps == {"idle", "createSession", "syncCount", "syncUpdate", "insertOrder", "refresh"}

GuestControl ==
  \A r \in Request : pc[r] \in GuestSteps /\ job[r].entry \in GuestEntryPoints \union {"none"}

\* The holder of a session's lock is closing it, and no order of it is open.
LockMeansClosing ==
  \A s \in Session, r \in Request :
    lock[s] = r =>
      /\ pc[r] \in {"syncCount", "syncUpdate"}
      /\ job[r].session = s
      /\ OpenOrders(s) = {}

GuestInv ==
  TypeInv /\ GuestControl /\ LockMeansClosing /\ ClosedSessionHasNoOpenOrder

LEMMA ArriveGuest ==
  ASSUME SessionsAssumption, OnlyGuests, GuestInv, NEW r \in Request, Arrive(r)
  PROVE  GuestControl' /\ LockMeansClosing' /\ ClosedSessionHasNoOpenOrder'
<1> USE DEF GuestInv, TypeInv, TypeOK
<1> DEFINE Began == /\ pc[r] = "idle" /\ UNCHANGED <<sessions, lock>>
                    /\ pc'[r] \in {"createSession", "insertOrder", "refresh"}
                    /\ job'[r].entry \in GuestEntryPoints
                    /\ \A q \in Request : q # r => pc'[q] = pc[q] /\ job'[q] = job[q]
<1>a. ASSUME NEW entry \in GuestEntryPoints, NEW j \in Job,
             NEW next \in {"createSession", "insertOrder", "refresh"},
             Begin(r, entry, j, next), UNCHANGED <<sessions, lock>>
      PROVE  Began
  BY <1>a DEF Begin, Job
<1>b. ~ \E j, next : \/ Begin(r, "createFromStaff", j, next) \/ Begin(r, "closeSession", j, next)
                     \/ Begin(r, "joinSessions", j, next) \/ Begin(r, "splitSession", j, next)
                     \/ Begin(r, "handleCallWaiter", j, next)
                     \/ Begin(r, "acknowledgeWaiterCall", j, next)
  BY DEF Begin, OnlyGuests, GuestEntryPoints
<1>c. \/ \E t \in Table : Scan(r, t)
      \/ \E x \in Session : CreateFromQr(r, x)
      \/ \E o \in Order : TransitionOrder(r, o)
  BY <1>b DEF Arrive, CreateFromStaffAtFreeTable, CreateFromStaff, CloseSession, SplitSession,
              HandleCallWaiter, AcknowledgeWaiterCall, JoinSessions
<1>d. NoJob \in Job
  BY DEF NoJob, Job, UnopenedRow, SessionRow, Column
<1>1. Began
  <2>1. ASSUME NEW t \in Table, Scan(r, t) PROVE Began
    <3>1. [NoJob EXCEPT !.table = t] \in Job
      BY <1>d DEF Job
    <3>2. QED BY <1>a, <2>1, <3>1 DEF Scan, database, GuestEntryPoints
  <2>2. ASSUME NEW x \in Session, CreateFromQr(r, x) PROVE Began
    <3>1. [NoJob EXCEPT !.session = x] \in Job
      BY <1>d DEF Job
    <3>2. QED BY <1>a, <2>2, <3>1 DEF CreateFromQr, database, GuestEntryPoints
  <2>3. ASSUME NEW o \in Order, TransitionOrder(r, o) PROVE Began
    <3>1. [NoJob EXCEPT !.session = orders[o].session] \in Job
      BY <1>d DEF Job, OrderRow
    <3>2. QED BY <1>a, <2>3, <3>1 DEF TransitionOrder, GuestEntryPoints
  <2>4. QED BY <1>c, <2>1, <2>2, <2>3
<1>2. \A o \in Order : /\ orders'[o].status = "open" => orders[o].status = "open"
                       /\ orders'[o].session = orders[o].session
  <2>1. CASE UNCHANGED orders
    BY <2>1
  <2>2. ASSUME NEW o \in Order, TransitionOrder(r, o)
        PROVE  \A x \in Order : /\ orders'[x].status = "open" => orders[x].status = "open"
                                /\ orders'[x].session = orders[x].session
    BY <2>2 DEF TransitionOrder, Exits, OrderRow
  <2>3. QED BY <1>c, <2>1, <2>2 DEF Scan, CreateFromQr, database
<1>3. GuestControl'
  BY <1>1 DEF GuestControl, GuestSteps
<1>4. LockMeansClosing'
  BY <1>1, <1>2 DEF LockMeansClosing, OpenOrders
<1>5. ClosedSessionHasNoOpenOrder'
  BY <1>1, <1>2 DEF ClosedSessionHasNoOpenOrder
<1>6. QED BY <1>3, <1>4, <1>5

LEMMA RunGuest ==
  ASSUME SessionsAssumption, OnlyGuests, GuestInv, TypeInv', NEW r \in Request, Run(r) \/ Die(r)
  PROVE  GuestControl' /\ LockMeansClosing' /\ ClosedSessionHasNoOpenOrder'
<1> DEFINE s == job[r].session
<1> USE DEF GuestInv, TypeInv, TypeOK
<1>1. \A q \in Request : q # r => pc'[q] = pc[q] /\ job'[q] = job[q]
  BY DEF Run, Die, SyncCount, SyncUpdate, RefreshKeeps, RefreshCloses, CountOrders, ReadSource,
         CountChildren, Save, Update, CreateSession, InsertOrder, InsertStaffOrder, Goto, Finish
<1>2. pc[r] \in GuestSteps /\ job[r].entry \in GuestEntryPoints \union {"none"}
  BY DEF GuestControl
\* Steps after which r holds no lock and the orders are as before.
<1>3. ASSUME pc'[r] = "idle", job'[r] = NoJob, UNCHANGED orders,
             \A x \in Session : lock'[x] # r,
             \A x \in Session, q \in Request : lock'[x] = q => lock[x] = q,
             \A x \in Session :
               sessions[x].status = "active" /\ OpenOrders(x) # {} => sessions'[x].status = "active"
      PROVE  GuestControl' /\ LockMeansClosing' /\ ClosedSessionHasNoOpenOrder'
  <2>1. GuestControl'
    BY <1>1, <1>3 DEF GuestControl, GuestSteps, NoJob
  <2>2. LockMeansClosing'
    BY <1>1, <1>3 DEF LockMeansClosing, OpenOrders
  <2>3. ClosedSessionHasNoOpenOrder'
    BY <1>3 DEF ClosedSessionHasNoOpenOrder, OpenOrders, HasSession
  <2>4. QED BY <2>1, <2>2, <2>3
<1>4. CASE SyncCount(r)
  <2>1. pc'[r] = "syncUpdate" /\ job'[r].session = s /\ job'[r].entry = job[r].entry
    BY <1>4 DEF SyncCount, Job
  <2>2. UNCHANGED <<sessions, orders, lock>> /\ pc[r] = "syncCount"
    BY <1>4 DEF SyncCount, database, At
  <2>3. GuestControl'
    BY <1>1, <1>2, <2>1 DEF GuestControl, GuestSteps
  <2>4. LockMeansClosing'
    BY <1>1, <2>1, <2>2 DEF LockMeansClosing, OpenOrders
  <2>5. QED BY <2>2, <2>3, <2>4 DEF ClosedSessionHasNoOpenOrder
<1>5. CASE SyncUpdate(r)
  <2>1. Finish(r) /\ UNCHANGED orders /\ s \in Session /\ pc[r] = "syncUpdate"
    BY <1>2, <1>5 DEF SyncUpdate, GuestEntryPoints, At, HasSession
  <2>2. pc'[r] = "idle" /\ job'[r] = NoJob
    BY <2>1 DEF Finish
  <2>3. \A x \in Session : lock[x] = r => x = s /\ OpenOrders(s) = {}
    BY DEF LockMeansClosing
  <2>4. /\ \A x \in Session : lock'[x] # r
        /\ \A x \in Session, q \in Request : lock'[x] = q => lock[x] = q
    BY <1>5, <2>1, <2>3 DEF SyncUpdate, SessionsAssumption
  <2>5. \A x \in Session :
          sessions[x].status = "active" /\ OpenOrders(x) # {} => sessions'[x].status = "active"
    BY <1>5, <2>1, <2>3 DEF SyncUpdate
  <2>6. QED BY <1>3, <2>1, <2>2, <2>4, <2>5
<1>6. CASE RefreshKeeps(r) \/ Die(r)
  <2>1. /\ pc'[r] = "idle" /\ job'[r] = NoJob /\ UNCHANGED <<sessions, orders>>
    BY <1>6 DEF RefreshKeeps, Die, Finish, database
  <2>2. /\ \A x \in Session : lock'[x] # r
        /\ \A x \in Session, q \in Request : lock'[x] = q => lock[x] = q
    <3>1. CASE RefreshKeeps(r)
      BY <3>1 DEF RefreshKeeps, At, database, LockMeansClosing
    <3>2. CASE Die(r)
      BY <3>2 DEF Die, SessionsAssumption
    <3>3. QED BY <1>6, <3>1, <3>2
  <2>3. QED BY <1>3, <2>1, <2>2
<1>7. CASE RefreshCloses(r)
  <2>1. /\ pc[r] = "refresh" /\ pc'[r] = "syncCount" /\ job' = job
        /\ UNCHANGED <<sessions, orders>>
        /\ s \in Session /\ OpenOrders(s) = {} /\ lock[s] = NoRequest
        /\ lock' = [lock EXCEPT ![s] = r]
    BY <1>7 DEF RefreshCloses, At, Goto, Unlocked, HasSession
  <2>2. GuestControl'
    BY <1>1, <1>2, <2>1 DEF GuestControl, GuestSteps
  <2>3. \A x \in Session : lock[x] # r
    BY <2>1 DEF LockMeansClosing
  <2>4. LockMeansClosing'
    BY <1>1, <2>1, <2>3 DEF LockMeansClosing, OpenOrders
  <2>5. QED BY <2>1, <2>2, <2>4 DEF ClosedSessionHasNoOpenOrder
<1>8. ASSUME NEW x \in Session, CreateSession(r, x)
      PROVE  GuestControl' /\ LockMeansClosing' /\ ClosedSessionHasNoOpenOrder'
  <2>1. /\ pc[r] = "createSession" /\ pc'[r] = "syncCount"
        /\ job'[r].entry = job[r].entry /\ UNCHANGED <<orders, lock>>
        /\ \A y \in Session : sessions[y].status = "active" => sessions'[y].status = "active"
    BY <1>8 DEF CreateSession, At, Job, SessionRow
  <2>2. GuestControl'
    BY <1>1, <1>2, <2>1 DEF GuestControl, GuestSteps
  <2>3. LockMeansClosing'
    BY <1>1, <2>1 DEF LockMeansClosing, OpenOrders
  <2>4. ClosedSessionHasNoOpenOrder'
    BY <2>1 DEF ClosedSessionHasNoOpenOrder, HasSession
  <2>5. QED BY <2>2, <2>3, <2>4
<1>9. ASSUME NEW o \in Order, InsertOrder(r, o)
      PROVE  GuestControl' /\ LockMeansClosing' /\ ClosedSessionHasNoOpenOrder'
  <2>1. /\ pc[r] = "insertOrder" /\ pc'[r] = "idle" /\ job'[r] = NoJob
        /\ s \in Session /\ lock[s] = NoRequest /\ UNCHANGED lock
        /\ sessions' = [sessions EXCEPT ![s].status = "active"]
        /\ orders' = [orders EXCEPT ![o] = [status |-> "open", session |-> s]]
    BY <1>9 DEF InsertOrder, At, Finish, Unlocked, PlaceOrder, HasSession
  <2>2. GuestControl'
    BY <1>1, <2>1 DEF GuestControl, GuestSteps, NoJob
  <2>3. \A x \in Session : lock[x] # r
    BY <2>1 DEF LockMeansClosing
  <2>4. \A x \in Session : x # s => \A p \in OpenOrders(x)' : p \in OpenOrders(x)
    BY <2>1 DEF OpenOrders
  <2>5. LockMeansClosing'
    <3> SUFFICES ASSUME NEW x \in Session, NEW q \in Request, lock[x] = q
                 PROVE  /\ pc'[q] \in {"syncCount", "syncUpdate"}
                        /\ job'[q].session = x
                        /\ OpenOrders(x)' = {}
      BY <2>1 DEF LockMeansClosing
    <3>1. x # s /\ q # r
      BY <2>1, <2>3 DEF SessionsAssumption
    <3>2. OpenOrders(x) = {} /\ pc[q] \in {"syncCount", "syncUpdate"} /\ job[q].session = x
      BY DEF LockMeansClosing
    <3>3. QED BY <1>1, <2>4, <3>1, <3>2
  <2>6. ClosedSessionHasNoOpenOrder'
    BY <2>1 DEF ClosedSessionHasNoOpenOrder, HasSession, SessionRow
  <2>7. QED BY <2>2, <2>5, <2>6
<1>10. QED
  <2>1. ~(CountOrders(r) \/ ReadSource(r) \/ CountChildren(r) \/ Save(r) \/ Update(r))
        /\ \A o \in Order : ~InsertStaffOrder(r, o)
    BY <1>2 DEF CountOrders, ReadSource, CountChildren, Save, Update, InsertStaffOrder, At, GuestSteps
  <2>2. QED BY <2>1, <1>4, <1>5, <1>6, <1>7, <1>8, <1>9 DEF Run

LEMMA InitGuest == SessionsAssumption /\ Init => GuestInv
<1> SUFFICES ASSUME SessionsAssumption, Init PROVE GuestInv
  OBVIOUS
<1>1. TypeInv
  BY InitType
<1>2. GuestControl /\ LockMeansClosing /\ ClosedSessionHasNoOpenOrder
  BY DEF Init, GuestControl, GuestSteps, NoJob, LockMeansClosing, ClosedSessionHasNoOpenOrder,
         SessionsAssumption
<1>3. QED BY <1>1, <1>2 DEF GuestInv

LEMMA NextGuest == SessionsAssumption /\ OnlyGuests /\ GuestInv /\ [Next]_vars => GuestInv'
<1> SUFFICES ASSUME SessionsAssumption, OnlyGuests, GuestInv, [Next]_vars PROVE GuestInv'
  OBVIOUS
<1>1. TypeInv'
  BY NextType DEF GuestInv
<1>2. GuestControl' /\ LockMeansClosing' /\ ClosedSessionHasNoOpenOrder'
  <2>1. CASE UNCHANGED vars
    BY <2>1 DEF vars, GuestInv, GuestControl, LockMeansClosing, ClosedSessionHasNoOpenOrder, OpenOrders
  <2>2. ASSUME NEW t \in Table, NEW isReserved \in BOOLEAN, SetReservation(t, isReserved)
        PROVE  GuestControl' /\ LockMeansClosing' /\ ClosedSessionHasNoOpenOrder'
    BY <2>2 DEF SetReservation, GuestInv, GuestControl, LockMeansClosing,
                ClosedSessionHasNoOpenOrder, OpenOrders
  <2>3. \A o \in Order : ~RetryPayment(o)
    BY DEF RetryPayment, OnlyGuests, GuestEntryPoints
  <2>4. QED BY <1>1, <2>1, <2>2, <2>3, ArriveGuest, RunGuest DEF Next
<1>3. QED BY <1>1, <1>2 DEF GuestInv

\* While isActive is written only under the row lock, an open order is always an
\* order of an active session.
THEOREM GuestsAreNotEjected ==
  ASSUME OnlyGuests
  PROVE  Spec => []ClosedSessionHasNoOpenOrder
<1>1. Init => GuestInv
  BY SessionsAssumption, InitGuest
<1>2. GuestInv /\ [Next]_vars => GuestInv'
  BY SessionsAssumption, NextGuest
<1>3. GuestInv => ClosedSessionHasNoOpenOrder
  BY DEF GuestInv
<1>4. QED BY <1>1, <1>2, <1>3, PTL DEF Spec


-----------------------------------------------------------------------------
(* The refinement of SessionOccupancy.                                     *)

\* A session being closed is still active, and a guest's insert meets a session
\* that has been opened: a closed one it may bring back, an unopened one not.
OccupancyInv ==
  /\ \A s \in Session : lock[s] # NoRequest => sessions[s].status = "active"
  /\ \A r \in Request : pc[r] = "insertOrder" => sessions[job[r].session].status # "unopened"

OccupancyStep == [Occupancy!OccupancyNext]_(Occupancy!occupancyVars)

\* The life of session s follows the column; the other sessions keep theirs.
LEMMA LifeFollows ==
  ASSUME TypeInv, NEW s \in Session, NEW status,
         sessions' = [sessions EXCEPT ![s].status = status]
  PROVE  [x \in Session |-> sessions'[x].status] =
           [[x \in Session |-> sessions[x].status] EXCEPT ![s] = status]
BY DEF TypeInv, TypeOK, SessionRow

LEMMA Stutters ==
  ASSUME UNCHANGED <<sessions, orders>>
  PROVE  OccupancyStep
BY DEF OccupancyStep, Occupancy!occupancyVars

\* What a guest's request does to OccupancyInv when it has finished or moved on.
LEMMA OccupancyKept ==
  ASSUME SessionsAssumption, GuestInv, OccupancyInv, NEW r \in Request,
         \A q \in Request : q # r => pc'[q] = pc[q] /\ job'[q] = job[q],
         pc'[r] # "insertOrder" \/ sessions'[job'[r].session].status # "unopened",
         \A s \in Session : sessions[s].status # "unopened" => sessions'[s].status # "unopened",
         \A s \in Session : lock'[s] # NoRequest => sessions'[s].status = "active"
  PROVE  OccupancyInv'
BY DEF OccupancyInv, GuestInv, TypeInv, HasSession

LEMMA ArriveOccupancy ==
  ASSUME SessionsAssumption, OnlyGuests, GuestInv, OccupancyInv, NEW r \in Request, Arrive(r)
  PROVE  OccupancyInv' /\ OccupancyStep
<1> USE DEF GuestInv, TypeInv, TypeOK
<1>1. \/ \E t \in Table : Scan(r, t)
      \/ \E x \in Session : CreateFromQr(r, x)
      \/ \E o \in Order : TransitionOrder(r, o)
  <2>1. ~ \E j, next : \/ Begin(r, "createFromStaff", j, next) \/ Begin(r, "closeSession", j, next)
                       \/ Begin(r, "joinSessions", j, next) \/ Begin(r, "splitSession", j, next)
                       \/ Begin(r, "handleCallWaiter", j, next)
                       \/ Begin(r, "acknowledgeWaiterCall", j, next)
    BY DEF Begin, OnlyGuests, GuestEntryPoints
  <2>2. QED
    BY <2>1 DEF Arrive, CreateFromStaffAtFreeTable, CreateFromStaff, CloseSession, SplitSession,
                HandleCallWaiter, AcknowledgeWaiterCall, JoinSessions
<1>2. ASSUME NEW t \in Table, Scan(r, t) PROVE OccupancyInv' /\ OccupancyStep
  BY <1>2, Stutters DEF Scan, Begin, database, OccupancyInv
<1>3. ASSUME NEW s \in Session, CreateFromQr(r, s) PROVE OccupancyInv' /\ OccupancyStep
  <2>1. /\ UNCHANGED <<sessions, orders, lock>> /\ sessions[s].status = "active"
        /\ \A q \in Request : q # r => pc'[q] = pc[q] /\ job'[q] = job[q]
        /\ job'[r].session = s
    BY <1>3 DEF CreateFromQr, Begin, database, NoJob, Job
  <2>2. QED BY <2>1, OccupancyKept, Stutters DEF OccupancyInv
<1>4. ASSUME NEW o \in Order, TransitionOrder(r, o) PROVE OccupancyInv' /\ OccupancyStep
  <2>1. /\ UNCHANGED <<sessions, lock>> /\ pc'[r] = "refresh"
        /\ \A q \in Request : q # r => pc'[q] = pc[q] /\ job'[q] = job[q]
    BY <1>4 DEF TransitionOrder, Begin
  <2>2. OccupancyInv'
    BY <2>1, OccupancyKept DEF OccupancyInv
  <2>3. PICK next \in Exits(orders[o].status) : orders' = [orders EXCEPT ![o].status = next]
    BY <1>4 DEF TransitionOrder
  <2>4. \/ orders[o].status = "open" /\ next \in {"failed", "done"}
        \/ orders[o].status = "failed" /\ next = "done"
    BY <2>3 DEF Exits
  <2>5. Occupancy!Leave(o)
    BY <2>1, <2>3, <2>4 DEF Occupancy!Leave
  <2>6. QED BY <2>2, <2>5 DEF OccupancyStep, Occupancy!OccupancyNext
<1>5. QED BY <1>1, <1>2, <1>3, <1>4

LEMMA RunOccupancy ==
  ASSUME SessionsAssumption, OnlyGuests, GuestInv, OccupancyInv, NEW r \in Request,
         Run(r) \/ Die(r)
  PROVE  OccupancyInv' /\ OccupancyStep
<1> DEFINE s == job[r].session
<1> USE DEF GuestInv, TypeInv, TypeOK
<1>1. \A q \in Request : q # r => pc'[q] = pc[q] /\ job'[q] = job[q]
  BY DEF Run, Die, SyncCount, SyncUpdate, RefreshKeeps, RefreshCloses, CountOrders, ReadSource,
         CountChildren, Save, Update, CreateSession, InsertOrder, InsertStaffOrder, Goto, Finish
<1>2. pc[r] \in GuestSteps /\ job[r].entry \in GuestEntryPoints \union {"none"}
  BY DEF GuestControl
<1>3. CASE SyncCount(r) \/ RefreshKeeps(r) \/ Die(r)
  <2>1. /\ pc'[r] # "insertOrder" /\ UNCHANGED <<sessions, orders>>
        /\ \A x \in Session : lock'[x] # NoRequest => lock[x] # NoRequest
    BY <1>3 DEF SyncCount, RefreshKeeps, Die, Finish, database
  <2>2. OccupancyInv'
    BY <1>1, <2>1, OccupancyKept DEF OccupancyInv
  <2>3. QED BY <2>1, <2>2, Stutters
<1>4. CASE SyncUpdate(r)
  <2>1. /\ Finish(r) /\ UNCHANGED orders /\ s \in Session
        /\ \A x \in Session : lock[x] = r => x = s
    BY <1>2, <1>4 DEF SyncUpdate, GuestEntryPoints, At, HasSession, LockMeansClosing
  <2>2. CASE lock[s] # r
    <3>1. UNCHANGED <<sessions, lock>>
      BY <1>4, <2>2 DEF SyncUpdate
    <3>2. QED BY <1>1, <2>1, <3>1, OccupancyKept, Stutters DEF OccupancyInv, Finish
  <2>3. CASE lock[s] = r
    <3>1. /\ sessions' = [sessions EXCEPT ![s].status = "closed"]
          /\ lock' = [lock EXCEPT ![s] = NoRequest]
          /\ sessions[s].status = "active"
          /\ \A o \in Order : orders[o].session = s => orders[o].status # "open"
      BY <1>4, <2>1, <2>3 DEF SyncUpdate, OccupancyInv, LockMeansClosing, OpenOrders, SessionsAssumption
    <3>2. OccupancyInv'
      BY <1>1, <2>1, <3>1, OccupancyKept DEF OccupancyInv, Finish, SessionRow
    <3>3. PICK x \in Session : x = s
      BY <2>1
    <3>4. Occupancy!Close(x)
      BY <2>1, <3>1, <3>3, LifeFollows DEF Occupancy!Close
    <3>5. QED BY <3>2, <3>4 DEF OccupancyStep, Occupancy!OccupancyNext
  <2>4. QED BY <2>2, <2>3
<1>5. CASE RefreshCloses(r)
  <2>1. /\ pc'[r] = "syncCount" /\ UNCHANGED <<sessions, orders>> /\ s \in Session
        /\ sessions[s].status = "active" /\ lock' = [lock EXCEPT ![s] = r]
    BY <1>5 DEF RefreshCloses, Goto, At, HasSession
  <2>2. \A x \in Session : lock'[x] # NoRequest => sessions'[x].status = "active"
    BY <2>1 DEF OccupancyInv
  <2>3. OccupancyInv'
    BY <1>1, <2>1, <2>2, OccupancyKept
  <2>4. QED BY <2>1, <2>3, Stutters
<1>6. ASSUME NEW x \in Session, CreateSession(r, x) PROVE OccupancyInv' /\ OccupancyStep
  <2>1. /\ sessions' = [sessions EXCEPT ![x].status = "active"] /\ pc'[r] = "syncCount"
        /\ sessions[x].status = "unopened" /\ UNCHANGED <<orders, lock>>
    BY <1>6 DEF CreateSession
  <2>2. OccupancyInv'
    BY <1>1, <2>1, OccupancyKept DEF OccupancyInv, SessionRow
  <2>3. Occupancy!Open(x)
    BY <2>1, LifeFollows DEF Occupancy!Open
  <2>4. QED BY <2>2, <2>3 DEF OccupancyStep, Occupancy!OccupancyNext
<1>7. ASSUME NEW o \in Order, InsertOrder(r, o) PROVE OccupancyInv' /\ OccupancyStep
  <2>1. /\ sessions' = [sessions EXCEPT ![s].status = "active"]
        /\ orders[o].status = "absent"
        /\ orders' = [orders EXCEPT ![o] = [status |-> "open", session |-> s]]
        /\ pc'[r] = "idle" /\ UNCHANGED lock
        /\ s \in Session /\ sessions[s].status # "unopened"
    BY <1>7 DEF InsertOrder, PlaceOrder, Finish, At, HasSession, OccupancyInv
  <2>2. OccupancyInv'
    BY <1>1, <2>1, OccupancyKept DEF OccupancyInv, SessionRow
  <2>3. PICK x \in Session : x = s
    BY <2>1
  <2>4. Occupancy!Place(o, x)
    BY <2>1, <2>3, LifeFollows DEF Occupancy!Place
  <2>5. QED BY <2>2, <2>4 DEF OccupancyStep, Occupancy!OccupancyNext
<1>8. QED
  <2>1. ~(CountOrders(r) \/ ReadSource(r) \/ CountChildren(r) \/ Save(r) \/ Update(r))
        /\ \A o \in Order : ~InsertStaffOrder(r, o)
    BY <1>2 DEF CountOrders, ReadSource, CountChildren, Save, Update, InsertStaffOrder, At, GuestSteps
  <2>2. QED BY <2>1, <1>3, <1>4, <1>5, <1>6, <1>7 DEF Run

LEMMA NextOccupancy ==
  ASSUME SessionsAssumption, OnlyGuests, GuestInv, OccupancyInv, [Next]_vars
  PROVE  OccupancyInv' /\ OccupancyStep
<1>1. CASE UNCHANGED vars
  BY <1>1, Stutters DEF vars, OccupancyInv
<1>2. ASSUME NEW t \in Table, NEW isReserved \in BOOLEAN, SetReservation(t, isReserved)
      PROVE  OccupancyInv' /\ OccupancyStep
  BY <1>2, Stutters DEF SetReservation, OccupancyInv
<1>3. \A o \in Order : ~RetryPayment(o)
  BY DEF RetryPayment, OnlyGuests, GuestEntryPoints
<1>4. QED BY <1>1, <1>2, <1>3, ArriveOccupancy, RunOccupancy DEF Next

\* Handlers that check a session, are suspended, and write later look to a guest
\* like sessions that open once, close when no order is open and are brought back
\* by an order only.
THEOREM OccupancyIsImplemented ==
  ASSUME OnlyGuests
  PROVE  Spec => ImplementsOccupancy
<1>1. Init => GuestInv /\ OccupancyInv
  BY SessionsAssumption, InitGuest DEF Init, OccupancyInv
<1>2. GuestInv /\ OccupancyInv /\ [Next]_vars => GuestInv' /\ OccupancyInv'
  BY SessionsAssumption, NextGuest, NextOccupancy
<1>3. Init => Occupancy!OccupancyInit
  BY DEF Init, Occupancy!OccupancyInit, UnopenedRow
<1>4. GuestInv /\ OccupancyInv /\ [Next]_vars => OccupancyStep
  BY SessionsAssumption, NextOccupancy
<1>5. QED
  BY <1>1, <1>2, <1>3, <1>4, PTL
     DEF Spec, ImplementsOccupancy, Occupancy!OccupancySpec, OccupancyStep
=============================================================================

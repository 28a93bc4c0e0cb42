------------------------ MODULE OrderBroadcastProofs ------------------------
(***************************************************************************)
(* What screens show, for every instance of OrderBroadcast, any orders,    *)
(* devices and handlers in flight: only statuses that were committed; and, *)
(* once no event is on its way, the committed one, on a TV that has        *)
(* followed the order and to every guest who witnessed its last commit.    *)
(***************************************************************************)
EXTENDS OrderBroadcast, TLAPS

\* Handlers at work on a row, and what they carry.
Working == {"dispatch", "refresh", "late"}

HasOrder ==
  /\ \A r \in Request :
       /\ pc[r] # "idle" => job[r].order \in Order
       /\ pc[r] \notin {"idle", "insert"} => status[job[r].order] # Absent
       /\ pc[r] = "save" => job[r].caller \in SavingCaller
  /\ latest # NoOrder => status[latest] # Absent

\* Everything that may yet be sent was committed: the rows, the statuses in the
\* hands of handlers, and what joins in flight have read.
RowsReached == \A o \in Order : status[o] # Absent => status[o] \in reached[o]
JobsReached ==
  \A r \in Request :
    pc[r] \in Working \union {"save"} => job[r].next \in reached[job[r].order]
SnapshotsReached ==
  \A g \in Guest :
    snapshot[g].order # NoOrder => snapshot[g].status \in reached[snapshot[g].order]

Inv == TypeOK /\ HasOrder /\ RowsReached /\ JobsReached /\ SnapshotsReached /\ OnlyCommittedIsShown

-----------------------------------------------------------------------------

LEMMA CustomerStatusType == ASSUME NEW s \in OrderStatus PROVE CustomerStatus(s) \in CustomerStatuses
BY DEF CustomerStatuses

LEMMA TargetsType ==
  ASSUME NEW caller \in Caller, NEW next \in Targets[caller]
  PROVE  next \in OrderStatus
BY DEF Caller, Targets, OrderStatus

\* Sending the status in a handler's hands keeps the guests' screens sound.
LEMMA Sent ==
  ASSUME Inv, NEW r \in Request, pc[r] \in Working, ToSession(job[r].order, job[r].next),
         UNCHANGED <<reached, status>>
  PROVE  /\ guestView' \in [Guest -> [Order -> CustomerStatuses \union {Absent}]]
         /\ OnlyCommittedIsShown'
<1> DEFINE o == job[r].order  s == job[r].next
<1>1. o \in Order /\ s \in reached[o] /\ s \in OrderStatus
  BY DEF Inv, TypeOK, HasOrder, JobsReached, Working, Job
<1>2. CustomerStatus(s) \in CustomerStatuses
  BY <1>1, CustomerStatusType
<1>3. guestView' \in [Guest -> [Order -> CustomerStatuses \union {Absent}]]
  BY <1>1, <1>2 DEF ToSession, Inv, TypeOK
<1>4. ASSUME NEW g \in Guest, NEW p \in Order, guestView'[g][p] # Absent
      PROVE  \E x \in reached[p] : guestView'[g][p] = CustomerStatus(x)
  <2>1. guestView[g] \in [Order -> CustomerStatuses \union {Absent}]
    BY DEF Inv, TypeOK
  <2>2. guestView'[g] = guestView[g] \/ guestView'[g] = [guestView[g] EXCEPT ![o] = CustomerStatus(s)]
    BY DEF ToSession
  <2>3. guestView'[g][p] = guestView[g][p] \/ (p = o /\ guestView'[g][p] = CustomerStatus(s))
    BY <2>1, <2>2
  <2>4. QED BY <1>1, <1>4, <2>3 DEF Inv, OnlyCommittedIsShown
<1>5. QED BY <1>3, <1>4 DEF OnlyCommittedIsShown

\* A handler that moves on with the order it has, or finishes.
LEMMA Moved ==
  ASSUME Inv, NEW r \in Request, pc[r] # "idle",
         Finish(r) \/ \E step \in Working : Goto(r, step) /\ pc[r] \in Working,
         UNCHANGED <<reached, status, latest>>
  PROVE  pc' \in [Request -> Step] /\ job' \in [Request -> Job] /\ HasOrder' /\ JobsReached'
<1>1. NoJob \in Job
  BY DEF NoJob, Job, OrderStatus
<1>2. CASE Finish(r)
  BY <1>1, <1>2 DEF Finish, Inv, TypeOK, HasOrder, JobsReached, Step, Working, NoJob
<1>3. ASSUME NEW step \in Working, Goto(r, step), pc[r] \in Working
      PROVE  pc' \in [Request -> Step] /\ job' \in [Request -> Job] /\ HasOrder' /\ JobsReached'
  BY <1>3 DEF Goto, Inv, TypeOK, HasOrder, JobsReached, Step, Working
<1>4. QED BY <1>2, <1>3

\* What AfterDispatch does is one of these moves.
LEMMA AfterDispatchMoves ==
  ASSUME NEW r, pc[r] \in Working, AfterDispatch(r) \/ AfterRefresh(r)
  PROVE  Finish(r) \/ \E step \in Working : Goto(r, step) /\ pc[r] \in Working
BY DEF AfterDispatch, AfterRefresh, Working

\* What recomputeAndAdvance goes on to ask for is one of its targets.
LEMMA WantedType ==
  ASSUME NEW caller \in SavingCaller, NEW type, NEW copy, NEW next \in Wanted(caller, type, copy)
  PROVE  next \in Targets[caller] /\ next \in OrderStatus
BY DEF Wanted, Targets, SavingCaller, OrderStatus

\* A row is written with a status while its handler finishes or goes on with it.
LEMMA CommitInv ==
  ASSUME Inv, TypeOK', NEW r \in Request, NEW o \in Order, NEW s \in OrderStatus,
         NEW step, NEW j,
         status' = [status EXCEPT ![o] = s],
         reached' = [reached EXCEPT ![o] = reached[o] \union {s}],
         latest' \in {o, latest},
         pc' = [pc EXCEPT ![r] = step], job' = [job EXCEPT ![r] = j],
         step \in {"idle", "transition"} \/ (step \in Working /\ j.next = s),
         step = "idle" \/ j.order = o,
         UNCHANGED <<socket, snapshot, guestView>>
  PROVE  Inv'
<1>1. /\ \A p \in Order : reached[p] \subseteq reached'[p]
      /\ s \in reached'[o]
  BY DEF Inv, TypeOK
<1>2. \A p \in Order : status[p] # Absent => status'[p] # Absent
  BY DEF Inv, TypeOK, OrderStatus, Absent
<1>3. HasOrder'
  BY <1>2 DEF Inv, TypeOK, HasOrder, OrderStatus, Absent, Working
<1>4. RowsReached'
  BY <1>1 DEF Inv, TypeOK, RowsReached
<1>5. JobsReached'
  BY <1>1 DEF Inv, TypeOK, HasOrder, JobsReached, Working
<1>6. SnapshotsReached' /\ OnlyCommittedIsShown'
  BY <1>1 DEF Inv, TypeOK, Snapshot, SnapshotsReached, OnlyCommittedIsShown
<1>7. QED BY <1>3, <1>4, <1>5, <1>6 DEF Inv

LEMMA ArriveInv ==
  ASSUME BroadcastAssumption, Inv, NEW r \in Request, Arrive(r)
  PROVE  Inv'
<1>1. ASSUME NEW o \in Order, PlaceOrder(r, o) PROVE Inv'
  <2>1. TypeOK'
    <3>0. job[r] \in Job
      BY DEF Inv, TypeOK
    <3>1. [job[r] EXCEPT !.order = o] \in Job
      BY <3>0 DEF Job
    <3>2. job' \in [Request -> Job] /\ pc' \in [Request -> Step]
      BY <1>1, <3>1 DEF PlaceOrder, Inv, TypeOK, Step
    <3>3. QED BY <1>1, <3>2 DEF PlaceOrder, Inv, TypeOK, rows, guests, display, screens, history
  <2>2. HasOrder' /\ JobsReached'
    BY <1>1 DEF PlaceOrder, Inv, TypeOK, HasOrder, JobsReached, Working, Job, rows, history
  <2>3. RowsReached' /\ SnapshotsReached' /\ OnlyCommittedIsShown'
    BY <1>1 DEF PlaceOrder, Inv, RowsReached, SnapshotsReached, OnlyCommittedIsShown,
                rows, guests, screens, history
  <2>4. QED BY <2>1, <2>2, <2>3 DEF Inv
<1>2. ASSUME NEW o \in Order, NEW caller \in Caller, ReadOrder(r, o, caller) PROVE Inv'
  <2> DEFINE j == [caller |-> caller, order |-> o, next |-> status[o]]
  <2>1. /\ pc' = [pc EXCEPT ![r] = "save"] /\ job' = [job EXCEPT ![r] = j]
        /\ status[o] \in OrderStatus
        /\ UNCHANGED <<rows, guests, display, screens, history>>
    BY <1>2 DEF ReadOrder, Inv, TypeOK
  <2>2. j \in Job /\ j.order = o /\ j.next = status[o]
    BY <2>1 DEF Job
  <2>3. TypeOK'
    BY <2>1, <2>2 DEF Inv, TypeOK, Step, rows, guests, display, screens, history
  <2>4. HasOrder' /\ JobsReached'
    BY <1>2, <2>1, <2>2 DEF ReadOrder, Inv, TypeOK, HasOrder, RowsReached, JobsReached, OrderStatus, Absent,
                                 rows, history
  <2>5. RowsReached' /\ SnapshotsReached' /\ OnlyCommittedIsShown'
    BY <2>1 DEF Inv, RowsReached, SnapshotsReached, OnlyCommittedIsShown,
                rows, guests, screens, history
  <2>6. QED BY <2>3, <2>4, <2>5 DEF Inv
<1>3. ASSUME NEW o \in Order, NEW caller \in Caller, NEW next \in OrderStatus,
             TransitionOrder(r, o, caller, next)
      PROVE  Inv'
  <2> DEFINE j == [caller |-> caller, order |-> o, next |-> next]
  <2>1. /\ status' = [status EXCEPT ![o] = next]
        /\ reached' = [reached EXCEPT ![o] = reached[o] \union {next}]
        /\ latest' \in {o, latest}
        /\ pc' = [pc EXCEPT ![r] = "dispatch"] /\ job' = [job EXCEPT ![r] = j]
        /\ UNCHANGED <<active, socket, snapshot, tv, loaded, guestView, board>>
    BY <1>3 DEF TransitionOrder, CommitRow, guests, display, screens
  <2>2. j \in Job /\ j.order = o /\ j.next = next
    BY DEF Job
  <2>3. witnessed' \in [Guest -> SUBSET Order] /\ followed' \subseteq Order /\ fresh' \subseteq Order
    BY <1>3 DEF TransitionOrder, Witness, Follow, Inv, TypeOK
  <2>4. TypeOK'
    BY <2>1, <2>2, <2>3 DEF Inv, TypeOK, Step
  <2>5. QED BY <2>1, <2>2, <2>4, CommitInv DEF Working
<1>4. QED BY <1>1, <1>2, <1>3 DEF Arrive

LEMMA InsertInv ==
  ASSUME BroadcastAssumption, Inv, NEW r \in Request, InsertOrder(r)
  PROVE  Inv'
<1> DEFINE o == job[r].order
<1>1. o \in Order
  BY DEF InsertOrder, Inv, HasOrder
<1>2. /\ status' = [status EXCEPT ![o] = "CREATED"]
      /\ reached' = [reached EXCEPT ![o] = reached[o] \union {"CREATED"}]
      /\ latest' \in {o, latest}
      /\ pc' = [pc EXCEPT ![r] = "idle"] /\ job' = [job EXCEPT ![r] = NoJob]
      /\ UNCHANGED <<socket, snapshot, tv, loaded, guestView, board, witnessed, followed>>
      /\ active' \in BOOLEAN /\ fresh' \subseteq fresh
  BY DEF InsertOrder, CommitRow, Finish, guests, display, screens
<1>3. NoJob \in Job
  BY DEF NoJob, Job, OrderStatus
<1>4. TypeOK'
  BY <1>1, <1>2, <1>3 DEF Inv, TypeOK, Step, OrderStatus
<1>5. "CREATED" \in OrderStatus
  BY DEF OrderStatus
<1>6. QED BY <1>1, <1>2, <1>4, <1>5, CommitInv

LEMMA SaveInv ==
  ASSUME BroadcastAssumption, Inv, NEW r \in Request, SaveOrder(r)
  PROVE  Inv'
<1> DEFINE o == job[r].order  copy == job[r].next
<1>1. o \in Order /\ copy \in OrderStatus /\ copy \in reached[o] /\ status[o] # Absent
  BY DEF SaveOrder, Inv, TypeOK, HasOrder, JobsReached, Job
<1>2. /\ status' = [status EXCEPT ![o] = copy]
      /\ reached' = [reached EXCEPT ![o] = reached[o] \union {copy}]
      /\ latest' \in {o, latest}
      /\ UNCHANGED <<active, socket, snapshot, tv, loaded, guestView, board>>
  BY <1>1 DEF SaveOrder, CommitRow, guests, display, screens, Inv, TypeOK
<1>3. witnessed' \in [Guest -> SUBSET Order] /\ followed' \subseteq Order /\ fresh' \subseteq Order
  BY DEF SaveOrder, Forget, Inv, TypeOK
<1>4. job[r] \in Job /\ NoJob \in Job
  BY DEF Inv, TypeOK, NoJob, Job, OrderStatus
<1>5. CASE Finish(r)
  <2>1. pc' = [pc EXCEPT ![r] = "idle"] /\ job' = [job EXCEPT ![r] = NoJob]
    BY <1>5 DEF Finish
  <2>2. TypeOK'
    BY <1>1, <1>2, <1>3, <1>4, <2>1 DEF Inv, TypeOK, Step
  <2>3. QED BY <1>1, <1>2, <2>1, <2>2, CommitInv
<1>6. ASSUME NEW next \in Wanted(job[r].caller, TypeOf[o], copy),
             pc' = [pc EXCEPT ![r] = "transition"], job' = [job EXCEPT ![r].next = next]
      PROVE  Inv'
  <2>1. next \in OrderStatus
    BY <1>4, WantedType DEF SaveOrder, Inv, HasOrder
  <2>2. [job[r] EXCEPT !.next = next] \in Job /\ [job[r] EXCEPT !.next = next].order = o
    BY <1>4, <2>1 DEF Job
  <2>3. job' = [job EXCEPT ![r] = [job[r] EXCEPT !.next = next]]
    BY <1>6
  <2> DEFINE j == [job[r] EXCEPT !.next = next]
  <2>4. TypeOK'
    BY <1>1, <1>2, <1>3, <1>6, <2>2, <2>3 DEF Inv, TypeOK, Step
  <2> HIDE DEF j
  <2>5. job' = [job EXCEPT ![r] = j] /\ j.order = o
    BY <2>2, <2>3 DEF j
  <2>6. QED BY <1>1, <1>2, <1>6, <2>4, <2>5, CommitInv DEF Working
<1>7. QED BY <1>5, <1>6 DEF SaveOrder

LEMMA EmitInv ==
  ASSUME BroadcastAssumption, Inv, NEW r \in Request,
         RefuseTransition(r) \/ DispatchOrderEvent(r) \/ EmitOrderPaid(r) \/ DispatchNothing(r)
           \/ RefreshLifecycle(r) \/ EmitLate(r) \/ Die(r)
  PROVE  Inv'
<1>0. /\ UNCHANGED <<status, latest, socket, snapshot, tv, loaded, reached>>
      /\ active' \in BOOLEAN
  BY DEF RefuseTransition, DispatchOrderEvent, EmitOrderPaid, DispatchNothing, RefreshLifecycle,
         EmitLate, Die, rows, guests, display, history, Inv, TypeOK
<1>0a. witnessed' \in [Guest -> SUBSET Order] /\ followed' \subseteq Order /\ fresh' \subseteq Order
  <2>1. CASE UNCHANGED history
    BY <2>1 DEF history, Inv, TypeOK
  <2>2. CASE \E orders : Forget(orders)
    BY <2>2 DEF Forget, Inv, TypeOK
  <2>3. QED BY <2>1, <2>2 DEF RefuseTransition, DispatchOrderEvent, EmitOrderPaid, DispatchNothing,
                              RefreshLifecycle, EmitLate, Die
<1>1. /\ UNCHANGED <<status, latest, socket, snapshot, tv, loaded, reached>>
      /\ active' \in BOOLEAN
      /\ witnessed' \in [Guest -> SUBSET Order] /\ followed' \subseteq Order /\ fresh' \subseteq Order
  BY <1>0, <1>0a
<1>2. pc[r] # "idle" /\ (Finish(r) \/ \E step \in Working : Goto(r, step) /\ pc[r] \in Working)
  BY AfterDispatchMoves DEF RefuseTransition, DispatchOrderEvent, EmitOrderPaid, DispatchNothing,
                            RefreshLifecycle, EmitLate, Die, Working
<1>3. pc' \in [Request -> Step] /\ job' \in [Request -> Job] /\ HasOrder' /\ JobsReached'
  BY <1>1, <1>2, Moved
<1>4. board' \in [Order -> Buckets]
  BY DEF RefuseTransition, DispatchOrderEvent, EmitOrderPaid, DispatchNothing, RefreshLifecycle,
         EmitLate, Die, ToDisplay, DisplayBucket, Buckets, screens, Inv, TypeOK
<1>5. /\ guestView' \in [Guest -> [Order -> CustomerStatuses \union {Absent}]]
      /\ OnlyCommittedIsShown'
  <2>1. CASE UNCHANGED guestView
    BY <1>1, <2>1 DEF Inv, TypeOK, OnlyCommittedIsShown
  <2>2. CASE pc[r] \in Working /\ ToSession(job[r].order, job[r].next)
    BY <1>1, <2>2, Sent
  <2>3. QED BY <2>1, <2>2 DEF RefuseTransition, DispatchOrderEvent, EmitOrderPaid, DispatchNothing,
                              RefreshLifecycle, EmitLate, Die, screens, Working
<1>6. TypeOK'
  BY <1>1, <1>3, <1>4, <1>5 DEF Inv, TypeOK
<1>7. RowsReached' /\ SnapshotsReached'
  BY <1>1 DEF Inv, RowsReached, SnapshotsReached
<1>8. QED BY <1>3, <1>5, <1>6, <1>7 DEF Inv

LEMMA DisplayStepInv ==
  ASSUME Inv, JoinDisplay \/ LeaveDisplay \/ GetPublicSnapshot \/ ShowSnapshot
  PROVE  Inv'
<1>1. /\ UNCHANGED <<status, latest, active, pc, job, socket, snapshot, guestView, reached, witnessed>>
      /\ tv' \in {"out", "in"} /\ followed' \subseteq Order /\ fresh' \subseteq Order
  BY DEF JoinDisplay, LeaveDisplay, GetPublicSnapshot, ShowSnapshot, rows, handlers, guests, screens,
         history, Inv, TypeOK
<1>2. loaded' \in [Order -> Buckets \union {Unread}]
  BY DEF JoinDisplay, LeaveDisplay, GetPublicSnapshot, ShowSnapshot, DisplayBucket, Buckets, Inv, TypeOK
<1>3. board' \in [Order -> Buckets]
  BY DEF JoinDisplay, LeaveDisplay, GetPublicSnapshot, ShowSnapshot, screens, Inv, TypeOK
<1>4. TypeOK'
  BY <1>1, <1>2, <1>3 DEF Inv, TypeOK
<1>5. QED BY <1>1, <1>4 DEF Inv, HasOrder, RowsReached, JobsReached, SnapshotsReached, OnlyCommittedIsShown

LEMMA GuestInv ==
  ASSUME BroadcastAssumption, Inv, NEW g \in Guest, JoinSession(g) \/ SyncGuest(g) \/ Reload(g)
  PROVE  Inv'
<1> USE DEF Inv, TypeOK
<1>1. NoSnapshot \in Snapshot /\ NoSnapshot.order = NoOrder
  BY DEF NoSnapshot, Snapshot, OrderStatus
<1>2. UNCHANGED <<status, latest, active, pc, job, tv, loaded, board, reached, followed, fresh>>
  BY DEF JoinSession, SyncGuest, Reload, rows, handlers, display, screens, history
<1>3. HasOrder' /\ RowsReached' /\ JobsReached'
  BY <1>2 DEF HasOrder, RowsReached, JobsReached
<1>4. CASE JoinSession(g)
  <2> DEFINE read == IF latest # NoOrder
                     THEN [order |-> latest, status |-> status[latest]] ELSE NoSnapshot
  <2>1. read \in Snapshot /\ (read.order # NoOrder => read.status \in reached[read.order])
    BY <1>1 DEF Snapshot, HasOrder, RowsReached
  <2>2. /\ snapshot' \in {snapshot, [snapshot EXCEPT ![g] = read]}
        /\ socket' \in [Guest -> {"out", "joining", "in", "refused"}]
        /\ UNCHANGED <<guestView, witnessed>>
    BY <1>4 DEF JoinSession, screens, history
  <2>3. TypeOK'
    BY <1>2, <2>1, <2>2
  <2>4. SnapshotsReached' /\ OnlyCommittedIsShown'
    BY <1>2, <2>1, <2>2 DEF SnapshotsReached, OnlyCommittedIsShown
  <2>5. QED BY <1>3, <2>3, <2>4
<1>5. CASE SyncGuest(g)
  <2> DEFINE read == snapshot[g]
  <2>1. read \in Snapshot /\ (read.order # NoOrder => read.status \in reached[read.order])
    BY DEF SnapshotsReached
  <2>2. /\ snapshot' = [snapshot EXCEPT ![g] = NoSnapshot]
        /\ socket' \in [Guest -> {"out", "joining", "in", "refused"}]
        /\ UNCHANGED witnessed
    BY <1>5 DEF SyncGuest, history
  <2>3. guestView' \in [Guest -> [Order -> CustomerStatuses \union {Absent}]] /\ OnlyCommittedIsShown'
    <3>1. CASE guestView' = guestView
      BY <1>2, <3>1 DEF OnlyCommittedIsShown
    <3>2. CASE /\ read.order # NoOrder
               /\ guestView' = [guestView EXCEPT ![g][read.order] = CustomerStatus(read.status)]
      <4>1. read.order \in Order /\ CustomerStatus(read.status) \in CustomerStatuses
        BY <2>1, <3>2, CustomerStatusType DEF Snapshot
      <4>2. guestView' \in [Guest -> [Order -> CustomerStatuses \union {Absent}]]
        BY <3>2, <4>1
      <4>3. OnlyCommittedIsShown'
        BY <1>2, <2>1, <3>2, <4>1 DEF OnlyCommittedIsShown
      <4>4. QED BY <4>2, <4>3
    <3>3. QED BY <1>5, <3>1, <3>2 DEF SyncGuest
  <2>4. TypeOK' /\ SnapshotsReached'
    BY <1>1, <1>2, <2>2, <2>3 DEF SnapshotsReached
  <2>5. QED BY <1>3, <2>3, <2>4
<1>6. CASE Reload(g)
  <2>1. /\ snapshot' = [snapshot EXCEPT ![g] = NoSnapshot]
        /\ socket' \in [Guest -> {"out", "joining", "in", "refused"}]
        /\ witnessed' \in [Guest -> SUBSET Order]
        /\ guestView' = [guestView EXCEPT ![g] = [o \in Order |-> Absent]]
    BY <1>6 DEF Reload
  <2>2. TypeOK'
    BY <1>1, <1>2, <2>1
  <2>3. SnapshotsReached' /\ OnlyCommittedIsShown'
    BY <1>1, <1>2, <2>1 DEF SnapshotsReached, OnlyCommittedIsShown
  <2>4. QED BY <1>3, <2>2, <2>3
<1>7. QED BY <1>4, <1>5, <1>6

LEMMA InitInv == BroadcastAssumption /\ Init => Inv
<1> SUFFICES ASSUME BroadcastAssumption, Init PROVE Inv
  OBVIOUS
<1>1. NoJob \in Job /\ NoSnapshot \in Snapshot
  BY DEF NoJob, Job, NoSnapshot, Snapshot, OrderStatus
<1>2. TypeOK
  BY <1>1 DEF Init, TypeOK, Step, Buckets
<1>3. HasOrder /\ RowsReached /\ JobsReached /\ SnapshotsReached /\ OnlyCommittedIsShown
  BY DEF Init, HasOrder, RowsReached, JobsReached, Working, SnapshotsReached, NoSnapshot,
         OnlyCommittedIsShown
<1>4. QED BY <1>2, <1>3 DEF Inv

LEMMA NextInv == BroadcastAssumption /\ Inv /\ [Next]_vars => Inv'
<1> SUFFICES ASSUME BroadcastAssumption, Inv, [Next]_vars PROVE Inv'
  OBVIOUS
<1>1. CASE UNCHANGED vars
  BY <1>1 DEF vars, rows, handlers, guests, display, screens, history, Inv, TypeOK, HasOrder, RowsReached,
              JobsReached, SnapshotsReached, OnlyCommittedIsShown
<1>2. CASE Next
  BY <1>2, ArriveInv, InsertInv, SaveInv, EmitInv, GuestInv, DisplayStepInv DEF Next, Run
<1>3. QED BY <1>1, <1>2

\* Every column, room and screen keeps its type.
THEOREM TypeCorrect == Spec => []TypeOK
<1>1. Inv => TypeOK
  BY DEF Inv
<1>2. QED BY BroadcastAssumption, InitInv, NextInv, <1>1, PTL DEF Spec

\* However transitions, reloads and failures interleave, a guest is shown only
\* statuses that were committed.
THEOREM OnlyCommittedShown == Spec => []OnlyCommittedIsShown
<1>1. Inv => OnlyCommittedIsShown
  BY DEF Inv
<1>2. QED BY BroadcastAssumption, InitInv, NextInv, <1>1, PTL DEF Spec

-----------------------------------------------------------------------------
(* The TV shows the committed rows. *)

\* What the handlers of an order know of it.
Callers ==
  \A r \in Request :
    /\ pc[r] \in Working \union {"transition"} =>
         job[r].caller \in Caller /\ job[r].next \in Targets[job[r].caller]
    /\ pc[r] = "late" => job[r].caller \in LateCaller

\* An order being inserted has no row yet and one inserter.
Inserters ==
  \A r \in Request : pc[r] = "insert" =>
    /\ status[job[r].order] = Absent
    /\ \A q \in Request : pc[q] = "insert" /\ job[q].order = job[r].order => q = r

\* The one unsent event of an order a screen keeps up with is that of its last commit.
EventsOf(p) ==
  /\ p \in followed \/ (\E g \in Guest : p \in witnessed[g]) =>
       \A r \in Request : Unsent(r, p) =>
         job[r].next = status[p] /\ \A q \in Request : Unsent(q, p) => q = r
  /\ p \in fresh => \A r \in Request : ~Unsent(r, p)

\* Where the TV is right, where its event or its snapshot will put it right: an order
\* is closed from a status in which it has left the TV.
OnTV(p) ==
  TypeOf[p] = "DINE_IN" =>
    /\ p \in followed /\ ~SomeUnsent(p) => board[p] = DisplayBucket(status[p])
    /\ p \in followed => \A r \in Request :
         Unsent(r, p) => IF job[r].next = "CLOSED" THEN board[p] = "none" ELSE tv = "in"
    /\ p \in followed \union fresh /\ loaded[p] # Unread => loaded[p] = DisplayBucket(status[p])
    /\ p \in fresh => loaded[p] # Unread

ScreenInv == \A p \in Order : EventsOf(p) /\ OnTV(p)

BoardInv == Inv /\ Callers /\ Inserters /\ ScreenInv

LEMMA BucketFacts ==
  /\ \A s \in {Absent, "CREATED", "DELIVERED", "CLOSED", "CANCELLED", "PAYMENT_FAILED", "REFUNDED"} :
       DisplayBucket(s) = "none"
  /\ \A s \in OrderStatus : AssertTransition("DINE_IN", s, "CLOSED") => s = "DELIVERED"
  /\ \A s : DisplayBucket(s) # Unread
BY DEF DisplayBucket, Absent, Unread, AssertTransition, Edges, SettlementEdges, PreparationEdges

\* The targets that dispatchOrderEvent does not announce.
LEMMA Unannounced ==
  ASSUME NEW caller \in Caller, NEW next \in Targets[caller]
  PROVE  /\ caller \in LateCaller => next \in {"PAYMENT_FAILED", "REFUNDED"}
         /\ caller \notin LateCaller /\ next \notin Dispatched => next = "CLOSED"
         /\ next \in Dispatched => caller \notin LateCaller
         /\ caller \in PayingCaller => caller \notin LateCaller
         /\ caller \notin LateCaller \union PayingCaller /\ next = "CLOSED" => caller = "updateStatus"
         /\ next = "CLOSED" => next \notin Dispatched /\ caller \notin LateCaller
BY DEF Caller, Targets, LateCaller, PayingCaller, Dispatched

\* A step that changes nothing the TV or the handlers have of an order.
LEMMA Kept ==
  ASSUME NEW p \in Order, EventsOf(p), OnTV(p),
         status'[p] = status[p], board'[p] = board[p], loaded'[p] = loaded[p], tv = "in" => tv' = "in",
         p \in followed' => p \in followed, p \in fresh' => p \in fresh,
         \A g \in Guest : p \in witnessed'[g] => p \in witnessed[g],
         \A q \in Request : /\ Unsent(q, p)' <=> Unsent(q, p)
                            /\ Unsent(q, p) => job'[q].next = job[q].next
  PROVE  EventsOf(p)' /\ OnTV(p)'
<1>1. EventsOf(p)'
  BY DEF EventsOf
<1>2. SomeUnsent(p)' <=> SomeUnsent(p)
  BY DEF SomeUnsent
<1>3. OnTV(p)'
  BY <1>2 DEF OnTV
<1>4. QED BY <1>1, <1>3

\* A step after which no screen is held to keep up with an order.
LEMMA Forgotten ==
  ASSUME NEW p \in Order, p \notin followed', p \notin fresh', \A g \in Guest : p \notin witnessed'[g]
  PROVE  EventsOf(p)' /\ OnTV(p)'
BY DEF EventsOf, OnTV

\* The unsent event of an order goes out.
LEMMA Told ==
  ASSUME NEW p \in Order, NEW r \in Request, EventsOf(p), OnTV(p), Unsent(r, p), ~Unsent(r, p)',
         UNCHANGED <<status, loaded, tv, history>>,
         board'[p] = IF tv = "in" /\ job[r].next # "CLOSED" THEN DisplayBucket(job[r].next) ELSE board[p],
         \A q \in Request : q # r => (Unsent(q, p)' <=> Unsent(q, p)) /\ job'[q] = job[q]
  PROVE  EventsOf(p)' /\ OnTV(p)'
<1>1. EventsOf(p)'
  BY DEF EventsOf, history
<1>2. p \notin fresh'
  BY DEF EventsOf, history
<1>3. ASSUME p \in followed, TypeOf[p] = "DINE_IN"
      PROVE  ~SomeUnsent(p)' /\ board'[p] = DisplayBucket(status[p])
  <2>1. job[r].next = status[p] /\ \A q \in Request : Unsent(q, p) => q = r
    BY <1>3 DEF EventsOf
  <2>2. ~SomeUnsent(p)'
    BY <2>1 DEF SomeUnsent
  <2>3. IF job[r].next = "CLOSED" THEN board[p] = "none" ELSE tv = "in"
    BY <1>3 DEF OnTV
  <2>4. board'[p] = DisplayBucket(status[p])
    <3>1. CASE job[r].next = "CLOSED"
      <4>1. board'[p] = "none" /\ status[p] = "CLOSED"
        BY <2>1, <2>3, <3>1
      <4>2. QED BY <4>1, BucketFacts
    <3>2. CASE job[r].next # "CLOSED"
      BY <2>1, <2>3, <3>2
    <3>3. QED BY <3>1, <3>2
  <2>5. QED BY <2>2, <2>4
<1>4. OnTV(p)'
  <2>1. UNCHANGED <<followed, fresh>>
    BY DEF history
  <2> SUFFICES ASSUME TypeOf[p] = "DINE_IN" PROVE OnTV(p)'
    BY DEF OnTV
  <2>2. p \notin fresh'
    BY <1>2
  <2>3. p \in followed' => ~SomeUnsent(p)' /\ board'[p] = DisplayBucket(status'[p])
    BY <1>3, <2>1
  <2>4. p \in followed' => \A q \in Request : ~Unsent(q, p)'
    BY <2>3 DEF SomeUnsent
  <2>5. p \in followed' /\ loaded'[p] # Unread => loaded'[p] = DisplayBucket(status'[p])
    BY <2>1 DEF OnTV
  <2>6. QED BY <2>2, <2>3, <2>4, <2>5 DEF OnTV
<1>5. QED BY <1>1, <1>4

LEMMA TransitionBoard ==
  ASSUME BroadcastAssumption, BoardInv, NEW r \in Request, NEW o \in Order, NEW caller \in Caller,
         NEW next \in OrderStatus, TransitionOrder(r, o, caller, next)
  PROVE  Callers' /\ Inserters' /\ ScreenInv'
<1>0. /\ pc \in [Request -> Step] /\ job \in [Request -> Job] /\ status \in [Order -> OrderStatus \union {Absent}]
      /\ witnessed \in [Guest -> SUBSET Order]
  BY DEF BoardInv, Inv, TypeOK
<1>1. /\ status' = [status EXCEPT ![o] = next]
      /\ pc' = [pc EXCEPT ![r] = "dispatch"]
      /\ job' = [job EXCEPT ![r] = [caller |-> caller, order |-> o, next |-> next]]
      /\ UNCHANGED <<board, tv, loaded>>
      /\ pc[r] \in {"idle", "transition"} /\ status[o] # Absent
      /\ Asks(r, o, caller, next) /\ AssertTransition(TypeOf[o], status[o], next)
      /\ Witness(o, caller, next) /\ Follow(o, caller, next)
  BY DEF TransitionOrder, CommitRow, display, screens, Asks
<1>2. /\ job'[r].order = o /\ job'[r].next = next /\ job'[r].caller = caller
      /\ pc'[r] = "dispatch"
      /\ \A q \in Request : q # r => job'[q] = job[q] /\ pc'[q] = pc[q]
  BY <1>0, <1>1
<1>3. next \in Targets[caller]
  <2>1. CASE pc[r] = "transition"
    BY <1>1, <2>1 DEF Asks, BoardInv, Callers
  <2>2. CASE pc[r] = "idle"
    BY <1>1, <2>2 DEF Asks
  <2>3. QED BY <1>1, <2>1, <2>2
<1>4. Callers'
  BY <1>2, <1>3 DEF BoardInv, Callers
<1>5. Inserters'
  <2>1. \A q \in Request : pc'[q] = "insert" => pc[q] = "insert" /\ job'[q] = job[q] /\ job[q].order # o
    BY <1>1, <1>2 DEF BoardInv, Inserters
  <2>2. \A p : p # o => status'[p] = status[p]
    BY <1>1
  <2>3. QED BY <2>1, <2>2 DEF BoardInv, Inserters
<1>6. /\ Unsent(r, o)'
      /\ \A p \in Order : p # o => ~Unsent(r, p)'
      /\ \A p \in Order : ~Unsent(r, p)
      /\ \A q \in Request, p \in Order : q # r => (Unsent(q, p)' <=> Unsent(q, p))
  BY <1>1, <1>2 DEF Unsent
<1>7. ASSUME NEW p \in Order, p # o PROVE EventsOf(p)' /\ OnTV(p)'
  <2>1. \A g \in Guest : p \in witnessed'[g] => p \in witnessed[g]
    BY <1>1, <1>7 DEF Witness
  <2>2. (p \in followed' => p \in followed) /\ (p \in fresh' => p \in fresh)
    BY <1>1, <1>7 DEF Follow
  <2>3. status'[p] = status[p]
    BY <1>1, <1>7
  <2>4. EventsOf(p) /\ OnTV(p)
    BY DEF BoardInv, ScreenInv
  <2>5. \A q \in Request : /\ Unsent(q, p)' <=> Unsent(q, p)
                           /\ Unsent(q, p) => job'[q].next = job[q].next
    BY <1>2, <1>6, <1>7
  <2>6. QED BY <1>1, <2>1, <2>2, <2>3, <2>4, <2>5, Kept
<1>8. status'[o] = next
  BY <1>0, <1>1
<1>9. EventsOf(o)'
  <2>1. o \in followed' => ~SomeUnsent(o)
    BY <1>1 DEF Follow
  <2>2. \A g \in Guest : o \in witnessed'[g] => ~SomeUnsent(o)
    BY <1>1 DEF Witness
  <2>3. ~SomeUnsent(o) => \A q \in Request : Unsent(q, o)' => q = r
    BY <1>6 DEF SomeUnsent
  <2>4. o \notin fresh'
    BY <1>1 DEF Follow
  <2>5. QED BY <1>2, <1>8, <2>1, <2>2, <2>3, <2>4 DEF EventsOf
<1>10. OnTV(o)'
  <2> SUFFICES ASSUME TypeOf[o] = "DINE_IN" PROVE OnTV(o)'
    BY DEF OnTV
  <2>1. o \notin fresh' /\ SomeUnsent(o)'
    BY <1>1, <1>6 DEF Follow, SomeUnsent
  <2>2. ASSUME o \in followed'
        PROVE  /\ ~SomeUnsent(o) /\ loaded[o] = Unread
               /\ IF next = "CLOSED" THEN board[o] = "none" ELSE tv = "in"
    <3>1. ~SomeUnsent(o) /\ loaded[o] = Unread
      BY <1>1, <2>2 DEF Follow
    <3>2. CASE next # "CLOSED"
      <4>1. TVIsTold(caller, next)
        BY <1>3, <3>2, Unannounced DEF TVIsTold
      <4>2. tv = "in"
        <5>1. tv # "in" => o \notin followed'
          BY <1>1, <4>1 DEF Follow
        <5>2. QED BY <2>2, <5>1
      <4>3. QED BY <3>1, <3>2, <4>2
    <3>3. CASE next = "CLOSED"
      <4>1. ~TVIsTold(caller, next)
        BY <1>3, <3>3, Unannounced DEF TVIsTold
      <4>2. o \in followed
        BY <1>1, <2>2, <4>1 DEF Follow
      <4>3. board[o] = DisplayBucket(status[o])
        BY <3>1, <4>2 DEF BoardInv, ScreenInv, OnTV
      <4>4. status[o] \in OrderStatus
        BY <1>0, <1>1
      <4>5. AssertTransition("DINE_IN", status[o], "CLOSED")
        BY <1>1, <3>3
      <4>6. status[o] = "DELIVERED"
        BY <4>4, <4>5, BucketFacts
      <4>7. QED BY <3>1, <3>3, <4>3, <4>6, BucketFacts
    <3>4. QED BY <3>2, <3>3
  <2>3. o \in followed' => \A q \in Request : Unsent(q, o)' => q = r
    BY <1>6, <2>2 DEF SomeUnsent
  <2>4. QED BY <1>1, <1>2, <2>1, <2>2, <2>3 DEF OnTV
<1>11. QED BY <1>4, <1>5, <1>7, <1>9, <1>10 DEF ScreenInv

LEMMA ArriveBoard ==
  ASSUME BroadcastAssumption, BoardInv, NEW r \in Request, Arrive(r)
  PROVE  Callers' /\ Inserters' /\ ScreenInv'
<1>0. pc \in [Request -> Step] /\ job \in [Request -> Job]
  BY DEF BoardInv, Inv, TypeOK
\* The handlers that begin have nothing to send yet.
<1>1. ASSUME UNCHANGED <<rows, display, screens, history>>, pc[r] = "idle",
             pc'[r] \in {"insert", "save"}, \A q \in Request : q # r => job'[q] = job[q] /\ pc'[q] = pc[q]
      PROVE  ScreenInv'
  <2>1. \A q \in Request, p \in Order : /\ Unsent(q, p)' <=> Unsent(q, p)
                                        /\ Unsent(q, p) => job'[q].next = job[q].next
    BY <1>1 DEF Unsent
  <2>2. UNCHANGED <<status, board, loaded, tv, witnessed, followed, fresh>>
    BY <1>1 DEF rows, display, screens, history
  <2>3. QED BY <2>1, <2>2, Kept DEF BoardInv, ScreenInv
<1>2. ASSUME NEW o \in Order, PlaceOrder(r, o) PROVE Callers' /\ Inserters' /\ ScreenInv'
  <2>1. /\ pc' = [pc EXCEPT ![r] = "insert"] /\ job' = [job EXCEPT ![r].order = o]
        /\ UNCHANGED <<rows, display, screens, history>>
        /\ pc[r] = "idle" /\ status[o] = Absent /\ \A q \in Request : job[q].order # o
    BY <1>2 DEF PlaceOrder
  <2>2. job'[r].order = o /\ pc'[r] = "insert" /\ \A q \in Request : q # r => job'[q] = job[q] /\ pc'[q] = pc[q]
    BY <1>0, <2>1 DEF Job
  <2>3. Callers' /\ Inserters'
    BY <2>1, <2>2 DEF BoardInv, Callers, Inserters, Working, rows
  <2>4. QED BY <1>1, <2>1, <2>2, <2>3
<1>3. ASSUME NEW o \in Order, NEW caller \in Caller, ReadOrder(r, o, caller)
      PROVE  Callers' /\ Inserters' /\ ScreenInv'
  <2>1. /\ pc[r] = "idle" /\ pc'[r] = "save" /\ \A q \in Request : q # r => job'[q] = job[q] /\ pc'[q] = pc[q]
        /\ UNCHANGED <<rows, display, screens, history>>
    BY <1>0, <1>3 DEF ReadOrder
  <2>2. Callers' /\ Inserters'
    BY <2>1 DEF BoardInv, Callers, Inserters, Working, rows
  <2>3. QED BY <1>1, <2>1, <2>2
<1>4. QED BY <1>2, <1>3, TransitionBoard DEF Arrive

LEMMA RunBoard ==
  ASSUME BroadcastAssumption, BoardInv, NEW r \in Request, Run(r) \/ Die(r)
  PROVE  Callers' /\ Inserters' /\ ScreenInv'
<1>0. /\ pc \in [Request -> Step] /\ job \in [Request -> Job]
      /\ status \in [Order -> OrderStatus \union {Absent}] /\ board \in [Order -> Buckets]
      /\ witnessed \in [Guest -> SUBSET Order]
  BY DEF BoardInv, Inv, TypeOK
<1> DEFINE Emits == \/ RefuseTransition(r) \/ DispatchOrderEvent(r) \/ EmitOrderPaid(r)
                    \/ DispatchNothing(r) \/ RefreshLifecycle(r) \/ EmitLate(r) \/ Die(r)
<1>1. PICK o \in Order : o = job[r].order /\ pc[r] # "idle"
  BY DEF Run, Die, InsertOrder, SaveOrder, RefuseTransition, DispatchOrderEvent, EmitOrderPaid,
         DispatchNothing, RefreshLifecycle, EmitLate, BoardInv, Inv, HasOrder
<1>2. \A q \in Request : q # r => pc'[q] = pc[q] /\ job'[q] = job[q]
  BY <1>0 DEF Run, Die, InsertOrder, SaveOrder, RefuseTransition, DispatchOrderEvent, EmitOrderPaid,
         DispatchNothing, RefreshLifecycle, EmitLate, AfterDispatch, AfterRefresh, Goto, Finish
<1>3. \A q \in Request, p \in Order : q # r \/ p # o =>
        /\ Unsent(q, p) => q # r /\ Unsent(q, p)'
        /\ q # r => (Unsent(q, p)' <=> Unsent(q, p)) /\ job'[q] = job[q]
  BY <1>1, <1>2 DEF Unsent
<1>4. ScreenInv
  BY DEF BoardInv
<1>5. CASE InsertOrder(r)
  <2>1. /\ pc[r] = "insert" /\ status' = [status EXCEPT ![o] = "CREATED"]
        /\ pc'[r] = "idle" /\ job'[r] = NoJob
        /\ UNCHANGED <<board, tv, loaded, witnessed, followed>> /\ fresh' = fresh \ {o}
        /\ status[o] = Absent
    BY <1>0, <1>1, <1>5 DEF InsertOrder, CommitRow, Finish, display, screens, BoardInv, Inserters
  <2>2. Callers'
    BY <1>2, <2>1 DEF BoardInv, Callers, Working
  <2>3. Inserters'
    <3>1. \A q \in Request : pc'[q] = "insert" =>
            q # r /\ pc[q] = "insert" /\ job'[q] = job[q] /\ job[q].order # o
      BY <1>1, <1>2, <2>1 DEF BoardInv, Inserters
    <3>2. \A p : p # o => status'[p] = status[p]
      BY <2>1
    <3>3. QED BY <3>1, <3>2 DEF BoardInv, Inserters
  <2>4. \A q \in Request, p \in Order : Unsent(q, p)' <=> Unsent(q, p)
    BY <1>2, <2>1 DEF Unsent
  <2>5. \A q \in Request, p \in Order : Unsent(q, p) => job'[q] = job[q]
    BY <1>2, <2>1 DEF Unsent
  <2>6. \A q \in Request : ~Unsent(q, o)
    BY <2>1 DEF Unsent, BoardInv, Inv, HasOrder
  <2>7. ASSUME NEW p \in Order, p # o PROVE EventsOf(p)' /\ OnTV(p)'
    BY <1>4, <2>1, <2>4, <2>5, <2>7, Kept DEF ScreenInv
  <2>8. EventsOf(o)'
    BY <2>1, <2>4, <2>6 DEF EventsOf
  <2>9. OnTV(o)'
    <3>1. ~SomeUnsent(o) /\ ~SomeUnsent(o)' /\ status'[o] = "CREATED" /\ o \notin fresh'
      BY <1>0, <2>1, <2>4, <2>6 DEF SomeUnsent
    <3>2. DisplayBucket("CREATED") = DisplayBucket(status[o])
      BY <2>1, BucketFacts
    <3>3. OnTV(o)
      BY <1>4 DEF ScreenInv
    <3>4. QED BY <2>1, <2>4, <2>6, <3>1, <3>2, <3>3 DEF OnTV
  <2>10. QED BY <2>2, <2>3, <2>7, <2>8, <2>9 DEF ScreenInv
<1>6. CASE SaveOrder(r)
  <2> DEFINE copy == job[r].next
  <2>1. /\ pc[r] = "save" /\ status[o] # Absent
        /\ status' = [status EXCEPT ![o] = copy]
        /\ Forget({p \in {o} : copy # status[o]})
        /\ UNCHANGED <<board, tv, loaded>>
    BY <1>0, <1>1, <1>6 DEF SaveOrder, CommitRow, display, screens, BoardInv, Inv, HasOrder
  <2>2. /\ pc'[r] \in {"idle", "transition"}
        /\ pc'[r] = "transition" => job'[r].caller \in Caller /\ job'[r].next \in Targets[job'[r].caller]
    <3>1. CASE Finish(r)
      BY <1>0, <3>1 DEF Finish
    <3>2. ASSUME NEW next \in Wanted(job[r].caller, TypeOf[o], copy),
                 pc' = [pc EXCEPT ![r] = "transition"], job' = [job EXCEPT ![r].next = next]
          PROVE  pc'[r] = "transition" /\ job'[r].caller \in Caller /\ job'[r].next \in Targets[job'[r].caller]
      <4>1. job[r].caller \in SavingCaller /\ job[r] \in Job
        BY <1>0, <2>1 DEF BoardInv, Inv, HasOrder
      <4>2. next \in Targets[job[r].caller]
        BY <4>1, WantedType
      <4>3. job'[r].caller = job[r].caller /\ job'[r].next = next /\ pc'[r] = "transition"
        BY <1>0, <3>2, <4>1 DEF Job
      <4>4. QED BY <4>1, <4>2, <4>3 DEF SavingCaller, Caller, Targets
    <3>3. QED BY <1>1, <1>6, <3>1, <3>2 DEF SaveOrder
  <2>3. Callers'
    BY <1>2, <2>2 DEF BoardInv, Callers, Working
  <2>4. Inserters'
    <3>1. \A q \in Request : pc'[q] = "insert" => pc[q] = "insert" /\ job'[q] = job[q] /\ job[q].order # o
      BY <1>2, <2>1, <2>2 DEF BoardInv, Inserters
    <3>2. \A p : p # o => status'[p] = status[p]
      BY <2>1
    <3>3. QED BY <3>1, <3>2 DEF BoardInv, Inserters
  <2>5. \A q \in Request, p \in Order : /\ Unsent(q, p)' <=> Unsent(q, p)
                                        /\ Unsent(q, p) => job'[q].next = job[q].next
    BY <1>2, <2>1, <2>2 DEF Unsent
  <2>6. /\ followed' \subseteq followed /\ fresh' \subseteq fresh
        /\ \A g \in Guest : witnessed'[g] \subseteq witnessed[g]
    BY <2>1 DEF Forget
  <2>7. ASSUME NEW p \in Order, p # o \/ copy = status[o] PROVE EventsOf(p)' /\ OnTV(p)'
    <3>1. status'[p] = status[p]
      BY <1>0, <2>1, <2>7
    <3>2. QED BY <1>4, <2>1, <2>5, <2>6, <3>1, Kept DEF ScreenInv
  <2>8. ASSUME copy # status[o] PROVE EventsOf(o)' /\ OnTV(o)'
    <3>1. o \notin followed' /\ o \notin fresh' /\ \A g \in Guest : o \notin witnessed'[g]
      BY <2>1, <2>8 DEF Forget
    <3>2. QED BY <3>1, Forgotten
  <2>9. QED BY <2>3, <2>4, <2>7, <2>8 DEF ScreenInv
\* Every other step keeps the rows, and its handler's order unless it finishes.
<1>7. ASSUME Emits
      PROVE  /\ UNCHANGED <<status, tv, loaded>>
             /\ Finish(r) \/ (pc[r] \in Working /\ UNCHANGED job /\ pc'[r] \in {"refresh", "late"})
             /\ pc'[r] = "late" => job[r].caller \in LateCaller
  BY <1>0, <1>7 DEF Die, RefuseTransition, DispatchOrderEvent, EmitOrderPaid, DispatchNothing,
         RefreshLifecycle, EmitLate, AfterDispatch, AfterRefresh, Goto, Finish, rows, display, Working
<1>8. ASSUME Emits PROVE Callers' /\ Inserters'
  <2>1. UNCHANGED status /\ pc'[r] \in {"idle", "refresh", "late"}
    BY <1>0, <1>7, <1>8 DEF Finish
  <2>2. Callers'
    <3>1. CASE pc'[r] = "idle"
      BY <1>2, <3>1 DEF BoardInv, Callers, Working
    <3>2. CASE pc'[r] # "idle"
      <4>1. pc[r] \in Working /\ UNCHANGED job
        BY <1>0, <1>7, <1>8, <3>2 DEF Finish
      <4>2. QED BY <1>2, <1>7, <1>8, <2>1, <4>1 DEF BoardInv, Callers, Working
    <3>3. QED BY <3>1, <3>2
  <2>3. Inserters'
    <3>1. \A q \in Request : pc'[q] = "insert" => pc[q] = "insert" /\ job'[q] = job[q]
      BY <1>2, <2>1
    <3>2. QED BY <2>1, <3>1 DEF BoardInv, Inserters
  <2>4. QED BY <2>2, <2>3
<1>9. ASSUME Emits
      PROVE  /\ followed' \subseteq followed /\ fresh' \subseteq fresh
             /\ \A g \in Guest : witnessed'[g] \subseteq witnessed[g]
  <2>1. CASE UNCHANGED history
    BY <2>1 DEF history
  <2>2. CASE Die(r)
    BY <2>2 DEF Die, Forget
  <2>3. QED BY <1>9, <2>1, <2>2 DEF RefuseTransition, DispatchOrderEvent, EmitOrderPaid,
                                    DispatchNothing, RefreshLifecycle, EmitLate
\* ... and leaves the other orders and handlers as they are.
<1>10. ASSUME Emits, NEW p \in Order, p # o PROVE EventsOf(p)' /\ OnTV(p)'
  <2>1. board'[p] = board[p]
    BY <1>0, <1>1, <1>10 DEF Die, RefuseTransition, DispatchOrderEvent, EmitOrderPaid, DispatchNothing,
                             RefreshLifecycle, EmitLate, ToDisplay, screens
  <2>2. ~Unsent(r, p) /\ ~Unsent(r, p)'
    <3>1. CASE Finish(r)
      BY <1>0, <1>1, <1>10, <3>1 DEF Unsent, Finish
    <3>2. CASE UNCHANGED job
      BY <1>1, <1>10, <3>2 DEF Unsent
    <3>3. QED BY <1>7, <1>10, <3>1, <3>2
  <2>3. \A q \in Request : /\ Unsent(q, p)' <=> Unsent(q, p)
                           /\ Unsent(q, p) => job'[q].next = job[q].next
    BY <1>3, <1>10, <2>2
  <2>4. QED BY <1>4, <1>7, <1>9, <1>10, <2>1, <2>3, Kept DEF ScreenInv
\* Its own order: the event stays unsent, was none, or goes out.
<1>11. ASSUME Emits, UNCHANGED board, Unsent(r, o)' <=> Unsent(r, o), Unsent(r, o) => UNCHANGED job
       PROVE  EventsOf(o)' /\ OnTV(o)'
  <2>1. \A q \in Request : /\ Unsent(q, o)' <=> Unsent(q, o)
                           /\ Unsent(q, o) => job'[q].next = job[q].next
    BY <1>3, <1>11
  <2>2. QED BY <1>4, <1>7, <1>9, <1>11, <2>1, Kept DEF ScreenInv
<1>12. ASSUME Emits, UNCHANGED history, Unsent(r, o), ~Unsent(r, o)',
              board'[o] = IF tv = "in" /\ job[r].next # "CLOSED"
                          THEN DisplayBucket(job[r].next) ELSE board[o]
       PROVE  EventsOf(o)' /\ OnTV(o)'
  BY <1>3, <1>4, <1>7, <1>12, Told DEF ScreenInv
<1> DEFINE caller == job[r].caller  next == job[r].next
<1>13. pc[r] \in Working =>
         /\ caller \in LateCaller => next \in {"PAYMENT_FAILED", "REFUNDED"}
         /\ caller \notin LateCaller /\ next \notin Dispatched => next = "CLOSED"
         /\ next \in Dispatched => caller \notin LateCaller
         /\ caller \in PayingCaller => caller \notin LateCaller
         /\ next = "CLOSED" => next \notin Dispatched /\ caller \notin LateCaller
  <2>1. pc[r] \in Working => caller \in Caller /\ next \in Targets[caller]
    BY DEF BoardInv, Callers
  <2>2. QED BY <2>1, Unannounced
<1>14. ASSUME Emits PROVE EventsOf(o)' /\ OnTV(o)'
  <2>1. CASE RefuseTransition(r)
    <3>1. UNCHANGED board /\ pc[r] = "transition" /\ pc'[r] = "idle"
      BY <1>0, <2>1 DEF RefuseTransition, Finish, screens
    <3>2. QED BY <1>11, <1>14, <3>1 DEF Unsent
  <2>2. CASE DispatchOrderEvent(r)
    <3>1. /\ pc[r] = "dispatch" /\ next \in Dispatched /\ UNCHANGED history
          /\ board' = IF tv = "in" THEN [board EXCEPT ![o] = DisplayBucket(next)] ELSE board
      BY <1>1, <2>2 DEF DispatchOrderEvent, ToDisplay
    <3>2. next # "CLOSED" /\ caller \notin LateCaller
      BY <1>13, <3>1 DEF Working
    <3>3. Unsent(r, o) /\ ~Unsent(r, o)'
      BY <1>0, <1>1, <1>7, <1>14, <3>1, <3>2 DEF Unsent, Finish
    <3>4. board'[o] = IF tv = "in" THEN DisplayBucket(next) ELSE board[o]
      BY <1>0, <3>1
    <3>5. QED BY <1>12, <1>14, <3>1, <3>2, <3>3, <3>4
  <2>3. CASE EmitOrderPaid(r) \/ (DispatchNothing(r) /\ caller \notin LateCaller)
    <3>1. /\ pc[r] = "dispatch" /\ UNCHANGED board /\ UNCHANGED history
          /\ caller \notin LateCaller /\ next = "CLOSED"
      BY <2>3, <1>13 DEF EmitOrderPaid, DispatchNothing, screens, Working
    <3>2. Unsent(r, o) /\ ~Unsent(r, o)'
      BY <1>0, <1>1, <1>7, <1>14, <3>1 DEF Unsent, Finish
    <3>3. QED BY <1>12, <1>14, <3>1, <3>2
  <2>4. CASE (DispatchNothing(r) \/ RefreshLifecycle(r)) /\ caller \in LateCaller
    <3>1. UNCHANGED board /\ pc[r] \in {"dispatch", "refresh"} /\ UNCHANGED job /\ pc'[r] \in {"refresh", "late"}
      BY <1>0, <2>4 DEF DispatchNothing, RefreshLifecycle, AfterDispatch, AfterRefresh, Goto, screens
    <3>2. QED BY <1>11, <1>14, <2>4, <3>1 DEF Unsent
  <2>5. CASE RefreshLifecycle(r) /\ caller \notin LateCaller
    <3>1. UNCHANGED board /\ pc[r] = "refresh" /\ Finish(r)
      BY <2>5 DEF RefreshLifecycle, AfterRefresh, screens
    <3>2. ~Unsent(r, o) /\ ~Unsent(r, o)'
      BY <1>0, <2>5, <3>1 DEF Unsent, Finish
    <3>3. QED BY <1>11, <1>14, <3>1, <3>2
  <2>6. CASE EmitLate(r)
    <3>1. /\ pc[r] = "late" /\ Finish(r) /\ UNCHANGED history
          /\ board' = IF tv = "in" THEN [board EXCEPT ![o] = "none"] ELSE board
      BY <1>1, <2>6 DEF EmitLate, ToDisplay
    <3>2. caller \in LateCaller
      BY <3>1 DEF BoardInv, Callers
    <3>3. next \in {"PAYMENT_FAILED", "REFUNDED"}
      BY <1>13, <3>1, <3>2 DEF Working
    <3>4. Unsent(r, o) /\ ~Unsent(r, o)'
      BY <1>0, <1>1, <3>1, <3>2 DEF Unsent, Finish
    <3>5. DisplayBucket(next) = "none" /\ next # "CLOSED"
      BY <3>3, BucketFacts
    <3>6. board'[o] = IF tv = "in" THEN "none" ELSE board[o]
      BY <1>0, <3>1
    <3>7. QED BY <1>12, <1>14, <3>1, <3>4, <3>5, <3>6
  <2>7. CASE Die(r)
    <3>1. UNCHANGED board /\ Finish(r) /\ Forget({p \in Order : Unsent(r, p)})
      BY <2>7 DEF Die, screens
    <3>2. ~Unsent(r, o)'
      BY <1>0, <3>1 DEF Unsent, Finish
    <3>3. CASE Unsent(r, o)
      <4>1. o \notin followed' /\ o \notin fresh' /\ \A g \in Guest : o \notin witnessed'[g]
        BY <3>1, <3>3 DEF Forget
      <4>2. QED BY <4>1, Forgotten
    <3>4. CASE ~Unsent(r, o)
      BY <1>11, <1>14, <3>1, <3>2, <3>4
    <3>5. QED BY <3>3, <3>4
  <2>8. QED BY <1>14, <2>1, <2>2, <2>3, <2>4, <2>5, <2>6, <2>7
<1>15. CASE Emits
  BY <1>8, <1>10, <1>14, <1>15 DEF ScreenInv
<1>16. QED BY <1>5, <1>6, <1>15 DEF Run

LEMMA DisplayBoard ==
  ASSUME BoardInv, JoinDisplay \/ LeaveDisplay \/ GetPublicSnapshot \/ ShowSnapshot
  PROVE  Callers' /\ Inserters' /\ ScreenInv'
<1>1. UNCHANGED <<status, pc, job, witnessed>>
  BY DEF JoinDisplay, LeaveDisplay, GetPublicSnapshot, ShowSnapshot, rows, handlers, history
<1>2. Callers' /\ Inserters'
  BY <1>1 DEF BoardInv, Callers, Inserters
<1>3. \A q \in Request, p \in Order : Unsent(q, p)' <=> Unsent(q, p)
  BY <1>1 DEF Unsent
<1>4. \A p \in Order : SomeUnsent(p)' <=> SomeUnsent(p)
  BY <1>3 DEF SomeUnsent
<1>5. ASSUME NEW p \in Order PROVE EventsOf(p)' /\ OnTV(p)'
  <2>1. EventsOf(p) /\ OnTV(p)
    BY DEF BoardInv, ScreenInv
  <2>2. CASE JoinDisplay
    BY <1>1, <1>3, <2>1, <2>2, Kept DEF JoinDisplay, screens, history
  <2>3. CASE LeaveDisplay
    <3>1. p \in followed' => p \in followed /\ \A q \in Request : ~Unsent(q, p)
      BY <2>3 DEF LeaveDisplay, SomeUnsent
    <3>2. UNCHANGED <<board, loaded, fresh>>
      BY <2>3 DEF LeaveDisplay, screens
    <3>3. EventsOf(p)'
      BY <1>1, <1>3, <2>1, <3>1, <3>2 DEF EventsOf
    <3>4. OnTV(p)'
      BY <1>1, <1>3, <1>4, <2>1, <3>1, <3>2 DEF OnTV
    <3>5. QED BY <3>3, <3>4
  <2>4. CASE GetPublicSnapshot
    <3>1. /\ UNCHANGED <<board, tv, followed>> /\ loaded'[p] = DisplayBucket(status[p])
          /\ p \in fresh' => ~SomeUnsent(p)
      BY <2>4 DEF GetPublicSnapshot, screens
    <3>2. EventsOf(p)'
      BY <1>1, <1>3, <2>1, <3>1 DEF EventsOf, SomeUnsent
    <3>3. OnTV(p)'
      BY <1>1, <1>3, <1>4, <2>1, <3>1, BucketFacts DEF OnTV
    <3>4. QED BY <3>2, <3>3
  <2>5. CASE ShowSnapshot
    <3>1. /\ UNCHANGED tv /\ board'[p] = loaded[p] /\ loaded[p] # Unread /\ loaded'[p] = Unread
          /\ followed' = followed \union fresh /\ p \notin fresh'
      BY <2>5 DEF ShowSnapshot
    <3>2. p \in fresh => \A q \in Request : ~Unsent(q, p)
      BY <2>1 DEF EventsOf
    <3>3. EventsOf(p)'
      BY <1>1, <1>3, <2>1, <3>1, <3>2 DEF EventsOf
    <3>4. OnTV(p)'
      <4> SUFFICES ASSUME TypeOf[p] = "DINE_IN" PROVE OnTV(p)'
        BY DEF OnTV
      <4>1. p \in followed' => board'[p] = DisplayBucket(status[p])
        BY <2>1, <3>1 DEF OnTV
      <4>2. ASSUME p \in followed', NEW q \in Request, Unsent(q, p), job[q].next = "CLOSED"
            PROVE  board'[p] = "none"
        <5>1. p \in followed /\ job[q].next = status[p]
          BY <2>1, <3>1, <3>2, <4>2 DEF EventsOf
        <5>2. QED BY <4>1, <4>2, <5>1, BucketFacts
      <4>3. ASSUME p \in followed', NEW q \in Request, Unsent(q, p), job[q].next # "CLOSED"
            PROVE  tv' = "in"
        <5>1. p \in followed
          BY <3>1, <3>2, <4>3
        <5>2. QED BY <2>1, <3>1, <4>3, <5>1 DEF OnTV
      <4>4. QED BY <1>1, <1>3, <1>4, <3>1, <4>1, <4>2, <4>3 DEF OnTV
    <3>5. QED BY <3>3, <3>4
  <2>6. QED BY <2>2, <2>3, <2>4, <2>5
<1>6. QED BY <1>2, <1>5 DEF ScreenInv

LEMMA NextBoard == BroadcastAssumption /\ BoardInv /\ [Next]_vars => BoardInv'
<1> SUFFICES ASSUME BroadcastAssumption, BoardInv, [Next]_vars PROVE BoardInv'
  OBVIOUS
<1>1. Inv'
  BY NextInv DEF BoardInv
<1>2. Callers' /\ Inserters' /\ ScreenInv'
  <2>1. CASE /\ UNCHANGED <<pc, job, status, board, tv, loaded, followed, fresh>>
             /\ \A g \in Guest : witnessed'[g] \subseteq witnessed[g]
    <3>1. Callers' /\ Inserters'
      BY <2>1 DEF BoardInv, Callers, Inserters
    <3>2. \A q \in Request, p \in Order : Unsent(q, p)' <=> Unsent(q, p)
      BY <2>1 DEF Unsent
    <3>3. QED BY <2>1, <3>1, <3>2, Kept DEF BoardInv, ScreenInv
  <2>2. ASSUME NEW g \in Guest, JoinSession(g) \/ SyncGuest(g) \/ Reload(g)
        PROVE  /\ UNCHANGED <<pc, job, status, board, tv, loaded, followed, fresh>>
               /\ \A h \in Guest : witnessed'[h] \subseteq witnessed[h]
    BY <2>2 DEF JoinSession, SyncGuest, Reload, rows, handlers, display, screens, history,
                BoardInv, Inv, TypeOK
  <2>3. CASE UNCHANGED vars
    BY <2>1, <2>3 DEF vars, rows, handlers, display, screens, history
  <2>4. QED BY <2>1, <2>2, <2>3, ArriveBoard, RunBoard, DisplayBoard DEF Next
<1>3. QED BY <1>1, <1>2 DEF BoardInv

LEMMA InitBoard == BroadcastAssumption /\ Init => BoardInv
<1> SUFFICES ASSUME BroadcastAssumption, Init PROVE BoardInv
  OBVIOUS
<1>1. Inv
  BY InitInv
<1>2. Callers /\ Inserters /\ ScreenInv
  BY DEF Init, Callers, Inserters, ScreenInv, EventsOf, OnTV, NoJob, Working
<1>3. QED BY <1>1, <1>2 DEF BoardInv

\* A dine-in order that the TV has followed is on it where its committed row says,
\* whatever stale saves, snapshots, lost connections and deaths go on around it.
THEOREM DisplayIsRight == Spec => []DisplayShowsCommitted
<1>1. BoardInv => DisplayShowsCommitted
  BY DEF BoardInv, Inv, TypeOK, ScreenInv, OnTV, DisplayShowsCommitted
<1>2. QED BY BroadcastAssumption, InitBoard, NextBoard, <1>1, PTL DEF Spec

-----------------------------------------------------------------------------
(* Guests who were in the room. *)

\* The room is still to be told of o by handler r; of an order closed by hand it
\* never is.
Announced(r, o) == Unsent(r, o) /\ RoomIsTold(job[r].caller, job[r].next)

\* Whoever has witnessed a commit has been in the room ever since, and is in step
\* with the row unless an event is on its way.
InStep(g, p) ==
  /\ socket[g] = "in" /\ status[p] # Absent
  /\ HasSession(p) /\ (\A r \in Request : ~Announced(r, p))
       => guestView[g][p] = CustomerStatus(status[p])

WitnessInv == \A g \in Guest : \A p \in witnessed[g] : InStep(g, p)

LEMMA ServedStaysServed == CustomerStatus("DELIVERED") = CustomerStatus("CLOSED")
BY DEF CustomerStatus

\* A step that changes neither what a guest shows of an order, nor its row, nor
\* whether the room is still to be told.
LEMMA StaysInStep ==
  ASSUME WitnessInv, NEW g \in Guest, NEW p \in witnessed[g],
         socket'[g] = socket[g], status'[p] = status[p], guestView'[g][p] = guestView[g][p],
         \A q \in Request : Announced(q, p) => \E r \in Request : Announced(r, p)'
  PROVE  InStep(g, p)'
BY DEF WitnessInv, InStep, HasSession

LEMMA ArriveWitness ==
  ASSUME BoardInv, WitnessInv, NEW r \in Request, Arrive(r)
  PROVE  WitnessInv'
<1>0. /\ pc \in [Request -> Step] /\ job \in [Request -> Job]
      /\ status \in [Order -> OrderStatus \union {Absent}] /\ witnessed \in [Guest -> SUBSET Order]
  BY DEF BoardInv, Inv, TypeOK
<1>1. ASSUME UNCHANGED <<status, socket, guestView, witnessed>>, pc[r] = "idle",
             \A q \in Request : q # r => pc'[q] = pc[q] /\ job'[q] = job[q]
      PROVE  WitnessInv'
  <2>1. \A q \in Request, p \in Order : Announced(q, p) => Announced(q, p)'
    BY <1>1 DEF Announced, Unsent
  <2>2. QED BY <1>0, <1>1, <2>1, StaysInStep DEF WitnessInv
<1>2. ASSUME NEW o \in Order, PlaceOrder(r, o) \/ \E caller \in Caller : ReadOrder(r, o, caller)
      PROVE  WitnessInv'
  <2>1. /\ UNCHANGED <<status, socket, guestView, witnessed>> /\ pc[r] = "idle"
        /\ \A q \in Request : q # r => pc'[q] = pc[q] /\ job'[q] = job[q]
    BY <1>0, <1>2 DEF PlaceOrder, ReadOrder, rows, guests, screens, history
  <2>2. QED BY <1>1, <2>1
<1>3. ASSUME NEW o \in Order, NEW caller \in Caller, NEW next \in OrderStatus,
             TransitionOrder(r, o, caller, next)
      PROVE  WitnessInv'
  <2>1. /\ status' = [status EXCEPT ![o] = next] /\ pc[r] \in {"idle", "transition"}
        /\ pc'[r] = "dispatch" /\ status[o] # Absent
        /\ job'[r].order = o /\ job'[r].caller = caller /\ job'[r].next = next
        /\ \A q \in Request : q # r => pc'[q] = pc[q] /\ job'[q] = job[q]
        /\ UNCHANGED <<socket, guestView>>
        /\ AssertTransition(TypeOf[o], status[o], next) /\ Witness(o, caller, next)
    BY <1>0, <1>3 DEF TransitionOrder, Asks, CommitRow, guests, screens
  <2>2. \A q \in Request, p \in Order : p # o /\ Announced(q, p) => Announced(q, p)'
    BY <2>1 DEF Announced, Unsent
  <2> SUFFICES ASSUME NEW g \in Guest, NEW p \in witnessed'[g] PROVE InStep(g, p)'
    BY DEF WitnessInv
  <2>3. status'[o] = next /\ next # Absent
    BY <1>0, <2>1 DEF OrderStatus, Absent
  <2>4. CASE p # o
    <3>1. p \in witnessed[g] /\ p \in Order
      BY <1>0, <2>1, <2>4 DEF Witness
    <3>2. QED BY <1>0, <2>1, <2>2, <2>4, <3>1, StaysInStep
  <2>5. CASE p = o /\ ~RoomIsTold(caller, next)
    <3>1. /\ o \in witnessed[g] /\ ~SomeUnsent(o) /\ next = "CLOSED"
      BY <2>1, <2>5 DEF Witness, RoomIsTold
    <3>2. InStep(g, o)
      BY <3>1 DEF WitnessInv
    <3>3. ASSUME HasSession(o) PROVE guestView[g][o] = CustomerStatus("CLOSED")
      <4>1. guestView[g][o] = CustomerStatus(status[o])
        BY <3>1, <3>2, <3>3 DEF InStep, SomeUnsent, Announced
      <4>2. status[o] \in OrderStatus /\ AssertTransition("DINE_IN", status[o], "CLOSED")
        BY <1>0, <2>1, <3>1, <3>3 DEF HasSession
      <4>3. QED BY <4>1, <4>2, BucketFacts, ServedStaysServed
    <3>4. QED BY <2>1, <2>3, <2>5, <3>1, <3>2, <3>3 DEF InStep, HasSession
  <2>6. CASE p = o /\ RoomIsTold(caller, next)
    <3>1. socket[g] = "in"
      BY <2>1, <2>6 DEF Witness
    <3>2. Announced(r, o)'
      BY <2>1, <2>6 DEF Announced, Unsent, RoomIsTold
    <3>3. QED BY <2>1, <2>3, <2>6, <3>1, <3>2 DEF InStep
  <2>7. QED BY <2>4, <2>5, <2>6
<1>4. QED BY <1>2, <1>3 DEF Arrive

LEMMA RunWitness ==
  ASSUME BoardInv, WitnessInv, NEW r \in Request, Run(r) \/ Die(r)
  PROVE  WitnessInv'
<1>0. /\ pc \in [Request -> Step] /\ job \in [Request -> Job]
      /\ status \in [Order -> OrderStatus \union {Absent}] /\ witnessed \in [Guest -> SUBSET Order]
      /\ guestView \in [Guest -> [Order -> CustomerStatuses \union {Absent}]]
  BY DEF BoardInv, Inv, TypeOK
<1>1. PICK o \in Order : o = job[r].order /\ pc[r] # "idle"
  BY DEF Run, Die, InsertOrder, SaveOrder, RefuseTransition, DispatchOrderEvent, EmitOrderPaid,
         DispatchNothing, RefreshLifecycle, EmitLate, BoardInv, Inv, HasOrder
<1>2. /\ UNCHANGED socket
      /\ \A q \in Request : q # r => pc'[q] = pc[q] /\ job'[q] = job[q]
  BY <1>0 DEF Run, Die, InsertOrder, SaveOrder, RefuseTransition, DispatchOrderEvent, EmitOrderPaid,
         DispatchNothing, guests, RefreshLifecycle, EmitLate, AfterDispatch, AfterRefresh, Goto, Finish
<1>3. \A g \in Guest : witnessed'[g] \subseteq witnessed[g]
  <2>1. CASE UNCHANGED witnessed
    BY <2>1
  <2>2. CASE SaveOrder(r) \/ Die(r)
    BY <2>2 DEF SaveOrder, Die, Forget
  <2>3. QED BY <2>1, <2>2 DEF Run, InsertOrder, RefuseTransition, DispatchOrderEvent, EmitOrderPaid,
                              DispatchNothing, RefreshLifecycle, EmitLate, history
<1>4. \A q \in Request, p \in Order : (q # r \/ p # o) /\ Announced(q, p) => Announced(q, p)'
  BY <1>1, <1>2 DEF Announced, Unsent
\* The step leaves each order p in step that it neither writes, nor shows, nor owes.
<1>5. ASSUME NEW g \in Guest, NEW p \in witnessed'[g],
             status'[p] = status[p], guestView'[g][p] = guestView[g][p],
             p = o /\ Announced(r, o) => Announced(r, o)'
      PROVE  InStep(g, p)'
  <2>1. p \in witnessed[g] /\ p \in Order /\ socket'[g] = socket[g]
    BY <1>0, <1>2, <1>3
  <2>2. QED BY <1>4, <1>5, <2>1, StaysInStep
<1>6. ASSUME UNCHANGED <<status, guestView>>, Announced(r, o) => Announced(r, o)'
      PROVE  WitnessInv'
  BY <1>5, <1>6 DEF WitnessInv
\* What a handler sends is the status of the row.
<1>7. ASSUME UNCHANGED status, Unsent(r, o), ToSession(o, job[r].next) PROVE WitnessInv'
  <2> SUFFICES ASSUME NEW g \in Guest, NEW p \in witnessed'[g] PROVE InStep(g, p)'
    BY DEF WitnessInv
  <2>1. p \in witnessed[g] /\ p \in Order /\ InStep(g, p)
    BY <1>0, <1>3 DEF WitnessInv
  <2>2. CASE p # o
    <3>1. guestView'[g][p] = guestView[g][p]
      BY <1>0, <1>7, <2>2 DEF ToSession
    <3>2. QED BY <1>5, <1>7, <2>2, <3>1
  <2>3. CASE p = o
    <3>1. HasSession(o) => guestView'[g][o] = CustomerStatus(job[r].next)
      BY <1>0, <1>7, <2>1, <2>3 DEF ToSession, InStep
    <3>2. job[r].next = status[o]
      BY <1>7, <2>1, <2>3 DEF BoardInv, ScreenInv, EventsOf
    <3>3. QED BY <1>2, <1>7, <2>1, <2>3, <3>1, <3>2 DEF InStep, HasSession
  <2>4. QED BY <2>2, <2>3
<1>8. CASE InsertOrder(r)
  <2>1. /\ status' = [status EXCEPT ![o] = "CREATED"] /\ UNCHANGED guestView
        /\ pc[r] = "insert" /\ status[o] = Absent
    BY <1>1, <1>8 DEF InsertOrder, CommitRow, screens, BoardInv, Inserters
  <2>2. \A g \in Guest : \A p \in witnessed'[g] : p # o
    BY <1>3, <2>1 DEF WitnessInv, InStep
  <2>3. QED BY <1>5, <2>1, <2>2 DEF WitnessInv
<1>9. CASE SaveOrder(r)
  <2>1. /\ status' = [status EXCEPT ![o] = job[r].next] /\ UNCHANGED guestView
        /\ pc[r] = "save" /\ Forget({p \in {o} : job[r].next # status[o]})
    BY <1>0, <1>1, <1>9 DEF SaveOrder, CommitRow, screens
  <2>2. ~Announced(r, o)
    BY <2>1 DEF Announced, Unsent
  <2>3. \A g \in Guest : \A p \in witnessed'[g] : status'[p] = status[p]
    BY <1>0, <2>1 DEF Forget
  <2>4. QED BY <1>5, <2>1, <2>2, <2>3 DEF WitnessInv
<1>10. CASE DispatchOrderEvent(r) \/ EmitOrderPaid(r) \/ EmitLate(r)
  BY <1>1, <1>7, <1>10 DEF DispatchOrderEvent, EmitOrderPaid, EmitLate, Unsent, BoardInv, Callers, rows
\* A handler that sends nothing has nothing to send, or sends it later.
<1>11. CASE DispatchNothing(r)
  <2>1. /\ pc[r] = "dispatch" /\ job[r].next \notin Dispatched /\ job[r].caller \notin PayingCaller
        /\ job[r].caller \in Caller /\ job[r].next \in Targets[job[r].caller]
        /\ UNCHANGED <<status, guestView>>
    BY <1>11 DEF DispatchNothing, BoardInv, Callers, Working, rows, screens
  <2>2. CASE job[r].caller \in LateCaller
    <3>1. UNCHANGED job /\ pc'[r] \in {"refresh", "late"}
      BY <1>0, <1>11, <2>2 DEF DispatchNothing, AfterDispatch, AfterRefresh, Goto
    <3>2. QED BY <1>6, <2>1, <2>2, <3>1 DEF Announced, Unsent
  <2>3. CASE job[r].caller \notin LateCaller
    <3>1. job[r].next = "CLOSED" /\ job[r].caller = "updateStatus"
      BY <2>1, <2>3, Unannounced
    <3>2. QED BY <1>6, <2>1, <3>1 DEF Announced, RoomIsTold
  <2>4. QED BY <2>2, <2>3
<1>12. CASE RefreshLifecycle(r)
  <2>1. pc[r] = "refresh" /\ UNCHANGED <<status, guestView>>
    BY <1>12 DEF RefreshLifecycle, screens
  <2>2. Announced(r, o) => Announced(r, o)'
    BY <1>0, <1>12, <2>1 DEF RefreshLifecycle, AfterRefresh, Goto, Announced, Unsent
  <2>3. QED BY <1>6, <2>1, <2>2
<1>13. CASE RefuseTransition(r)
  <2>1. pc[r] = "transition" /\ UNCHANGED <<status, guestView>>
    BY <1>13 DEF RefuseTransition, rows, screens
  <2>2. QED BY <1>6, <2>1 DEF Announced, Unsent
<1>14. CASE Die(r)
  <2>1. UNCHANGED <<status, guestView>> /\ Forget({p \in Order : Unsent(r, p)})
    BY <1>14 DEF Die, rows, screens
  <2>2. \A g \in Guest : o \in witnessed'[g] => ~Announced(r, o)
    BY <2>1 DEF Forget, Announced
  <2>3. QED BY <1>5, <2>1, <2>2 DEF WitnessInv
<1>15. QED BY <1>8, <1>9, <1>10, <1>11, <1>12, <1>13, <1>14 DEF Run

LEMMA GuestWitness ==
  ASSUME BoardInv, WitnessInv, NEW g \in Guest, JoinSession(g) \/ SyncGuest(g) \/ Reload(g)
  PROVE  WitnessInv'
<1>0. /\ socket \in [Guest -> {"out", "joining", "in", "refused"}]
      /\ witnessed \in [Guest -> SUBSET Order]
      /\ guestView \in [Guest -> [Order -> CustomerStatuses \union {Absent}]]
  BY DEF BoardInv, Inv, TypeOK
<1>1. UNCHANGED <<status, pc, job>>
  BY DEF JoinSession, SyncGuest, Reload, rows, handlers
<1>2. \A q \in Request, p \in Order : Announced(q, p) => Announced(q, p)'
  BY <1>1 DEF Announced, Unsent
<1>3. \A h \in Guest : h # g =>
        socket'[h] = socket[h] /\ guestView'[h] = guestView[h] /\ witnessed'[h] = witnessed[h]
  BY <1>0 DEF JoinSession, SyncGuest, Reload, screens, history
<1>4. witnessed'[g] = {}
  <2>1. CASE Reload(g)
    BY <1>0, <2>1 DEF Reload
  <2>2. CASE JoinSession(g) \/ SyncGuest(g)
    BY <1>0, <2>2 DEF JoinSession, SyncGuest, history, WitnessInv, InStep
  <2>3. QED BY <2>1, <2>2
<1>5. ASSUME NEW h \in Guest, NEW p \in witnessed'[h] PROVE InStep(h, p)'
  <2>1. h # g /\ p \in witnessed[h] /\ p \in Order
    BY <1>0, <1>3, <1>4, <1>5
  <2>2. QED BY <1>1, <1>2, <1>3, <2>1, StaysInStep
<1>6. QED BY <1>5 DEF WitnessInv

LEMMA NextWitness == BoardInv /\ WitnessInv /\ [Next]_vars => WitnessInv'
<1> SUFFICES ASSUME BoardInv, WitnessInv, [Next]_vars PROVE WitnessInv'
  OBVIOUS
<1>1. CASE UNCHANGED <<status, pc, job, socket, guestView, witnessed>>
  BY <1>1 DEF WitnessInv, InStep, Announced, Unsent, HasSession
<1>2. CASE UNCHANGED vars
  BY <1>1, <1>2 DEF vars, rows, handlers, guests, screens, history
<1>3. CASE JoinDisplay \/ LeaveDisplay \/ GetPublicSnapshot \/ ShowSnapshot
  BY <1>1, <1>3 DEF JoinDisplay, LeaveDisplay, GetPublicSnapshot, ShowSnapshot, rows, handlers, guests,
                    screens, history
<1>4. QED BY <1>2, <1>3, ArriveWitness, RunWitness, GuestWitness DEF Next

\* A guest who was in the room when an order was last committed is shown that
\* status once its events are out, whatever else is read, saved and lost meanwhile.
THEOREM WitnessesStayInStep == Spec => []WitnessesAreInStep
<1>1. Init => BoardInv /\ WitnessInv
  BY BroadcastAssumption, InitBoard DEF Init, WitnessInv
<1>2. BoardInv /\ WitnessInv /\ [Next]_vars => BoardInv' /\ WitnessInv'
  BY BroadcastAssumption, NextBoard, NextWitness
<1>3. BoardInv /\ WitnessInv => WitnessesAreInStep
  BY DEF BoardInv, Inv, TypeOK, WitnessInv, InStep, WitnessesAreInStep, Announced, SomeUnsent
<1>4. QED BY <1>1, <1>2, <1>3, PTL DEF Spec
=============================================================================

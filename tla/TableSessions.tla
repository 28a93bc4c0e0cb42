--------------------------- MODULE TableSessions ----------------------------
(***************************************************************************)
(* Table sessions of serve-os: guests scan a table's code, staff join,     *)
(* split and close sessions, an order that leaves the floor closes its     *)
(* session, and tables.isReserved is a cache of "some session is active".  *)
(*                                                                         *)
(* A step is one SQL statement, so that a repository.save is two: the      *)
(* SELECT that finds the columns in which the handler's copy differs from  *)
(* the row, and the UPDATE of those columns.  Only lockAndReactivate-      *)
(* Session and refreshLifecycle lock the session row; an UPDATE of a       *)
(* locked row, and the insert of an order that refers to it, wait.         *)
(***************************************************************************)
EXTENDS FiniteSets

CONSTANTS
  Session,    \* ids of session rows; their number bounds the scans
  Table,
  Order,      \* ids of dine-in orders
  Request,    \* handlers in flight at the same time
  NoSession, NoTable, NoRequest,
  TableOf,    \* [Session -> Table], fixed when the row is inserted
  Enabled,    \* the entry points a run uses
  MayFail     \* TRUE: a handler may die at any await

EntryPoints == {"scan", "createFromQr", "createFromStaff", "transitionOrder",
                "retryPayment", "closeSession", "joinSessions", "splitSession",
                "handleCallWaiter", "acknowledgeWaiterCall", "setReservation"}

\* What guests and the floor do without anyone managing the session itself:
\* isActive is then written only under the row lock, and an order that has left
\* the floor does not come back.
GuestEntryPoints == {"scan", "createFromQr", "transitionOrder", "setReservation"}

ASSUME SessionsAssumption ==
  /\ NoSession \notin Session /\ NoTable \notin Table /\ NoRequest \notin Request
  /\ TableOf \in [Session -> Table]
  /\ Enabled \subseteq EntryPoints
  /\ MayFail \in BOOLEAN

-----------------------------------------------------------------------------
(* Data. *)

\* The columns of a table_sessions row that change.  status stands for isActive
\* and closedAt, which every writer sets together; waiterCall for
\* waiterCallActive and waiterCallAt.
SessionRow == [status : {"unopened", "active", "closed"},
               mergedInto : Session \union {NoSession},
               waiterCall : BOOLEAN]

Column == {"status", "mergedInto", "waiterCall"}

UnopenedRow == [status |-> "unopened", mergedInto |-> NoSession, waiterCall |-> FALSE]

\* An order is open while its status is one of OPEN_ORDER_STATUSES, failed while
\* it is PAYMENT_FAILED, and done in CLOSED, CANCELLED and REFUNDED.
OrderRow == [status : {"absent", "open", "failed", "done"}, session : Session \union {NoSession}]

Step == {"idle", "createSession", "syncCount", "syncUpdate", "insertOrder",
         "insertStaffOrder", "refresh", "countOrders", "readSource",
         "countChildren", "save", "update"}

\* A handler's locals: the table it serves, the session row it works on, the
\* copy of that row as it will be saved, the columns the save will write, the
\* session to join into, and the answer of the count behind isReserved.
Job == [entry : EntryPoints \union {"none"},
        table : Table \union {NoTable},
        session : Session \union {NoSession},
        root : Session \union {NoSession},
        copy : SessionRow,
        dirty : SUBSET Column,
        occupied : BOOLEAN]

NoJob == [entry |-> "none", table |-> NoTable, session |-> NoSession,
          root |-> NoSession, copy |-> UnopenedRow, dirty |-> {},
          occupied |-> FALSE]

VARIABLES
  sessions,   \* [Session -> SessionRow]
  reserved,   \* [Table -> BOOLEAN], tables.isReserved
  orders,     \* [Order -> OrderRow]
  lock,       \* [Session -> Request \union {NoRequest}], FOR UPDATE holders
  pc,         \* [Request -> Step]
  job         \* [Request -> Job]

vars == <<sessions, reserved, orders, lock, pc, job>>
database == <<sessions, reserved, orders, lock>>

TypeOK ==
  /\ sessions \in [Session -> SessionRow]
  /\ reserved \in [Table -> BOOLEAN]
  /\ orders \in [Order -> OrderRow]
  /\ lock \in [Session -> Request \union {NoRequest}]
  /\ pc \in [Request -> Step]
  /\ job \in [Request -> Job]

Init ==
  /\ sessions = [s \in Session |-> UnopenedRow]
  /\ reserved = [t \in Table |-> FALSE]
  /\ orders = [o \in Order |-> [status |-> "absent", session |-> NoSession]]
  /\ lock = [s \in Session |-> NoRequest]
  /\ pc = [r \in Request |-> "idle"]
  /\ job = [r \in Request |-> NoJob]

ActiveAt(t) == {s \in Session : TableOf[s] = t /\ sessions[s].status = "active"}
OpenOrders(s) == {o \in Order : orders[o].status = "open" /\ orders[o].session = s}
ActiveChildren(s) ==
  {c \in Session : sessions[c].status = "active" /\ sessions[c].mergedInto = s}

Unlocked(s) == lock[s] = NoRequest

-----------------------------------------------------------------------------
(* Handlers. *)

\* Request r starts in method entry with locals j, at step next.
Begin(r, entry, j, next) ==
  /\ pc[r] = "idle" /\ entry \in Enabled
  /\ pc' = [pc EXCEPT ![r] = next]
  /\ job' = [job EXCEPT ![r] = [j EXCEPT !.entry = entry]]

At(r, step) == pc[r] = step

Goto(r, step) ==
  /\ pc' = [pc EXCEPT ![r] = step]
  /\ UNCHANGED job

Finish(r) ==
  /\ pc' = [pc EXCEPT ![r] = "idle"]
  /\ job' = [job EXCEPT ![r] = NoJob]

\* A device without a matching token; one with it gets its session back and
\* nothing changes.
Scan(r, t) ==
  /\ Begin(r, "scan", [NoJob EXCEPT !.table = t], "createSession")
  /\ UNCHANGED database

\* The guard finds the guest's session active; the insert comes later.
CreateFromQr(r, s) ==
  /\ sessions[s].status = "active"
  /\ Begin(r, "createFromQr", [NoJob EXCEPT !.session = s], "insertOrder")
  /\ UNCHANGED database

\* A staff order for session s: picked by the caller (getActiveSessionForTable),
\* or the only one active at its table (getOrCreateDefaultSessionForTable).
CreateFromStaff(r, s) ==
  /\ sessions[s].status = "active"
  /\ Begin(r, "createFromStaff", [NoJob EXCEPT !.session = s], "insertStaffOrder")
  /\ UNCHANGED database

\* ... and one for a table where no session is active.
CreateFromStaffAtFreeTable(r, t) ==
  /\ ActiveAt(t) = {}
  /\ Begin(r, "createFromStaff", [NoJob EXCEPT !.table = t], "createSession")
  /\ UNCHANGED database

\* Where an order may go when it leaves the floor, or is given up after its
\* payment failed.
Exits(status) ==
  CASE status = "open" -> {"failed", "done"} [] status = "failed" -> {"done"} [] OTHER -> {}

\* Slip: leaving the floor does not refresh the session.
TransitionOrderOnly(r, o) ==
  /\ At(r, "idle")
  /\ \E next \in Exits(orders[o].status) : orders' = [orders EXCEPT ![o].status = next]
  /\ UNCHANGED <<sessions, reserved, lock, pc, job>>

\* transitionOrder commits a status outside OPEN_ORDER_STATUSES.
TransitionOrder(r, o) ==
  /\ Begin(r, "transitionOrder", [NoJob EXCEPT !.session = orders[o].session], "refresh")
  /\ \E next \in Exits(orders[o].status) : orders' = [orders EXCEPT ![o].status = next]
  /\ UNCHANGED <<sessions, reserved, lock>>

\* retryPayment (or a PATCH to DELIVERED) puts an order whose payment failed back
\* on the floor.  The session is not looked at: DELIVERED is an open status.
RetryPayment(o) ==
  /\ "retryPayment" \in Enabled
  /\ orders[o].status = "failed"
  /\ orders' = [orders EXCEPT ![o].status = "open"]
  /\ UNCHANGED <<sessions, reserved, lock, pc, job>>

\* Slip: closing also resets the waiter call.
CloseSessionAndCall(r, s) ==
  /\ sessions[s].status = "active"
  /\ Begin(r, "closeSession",
           [NoJob EXCEPT !.session = s,
                         !.copy = [sessions[s] EXCEPT !.status = "closed", !.waiterCall = FALSE]],
           "countOrders")
  /\ UNCHANGED database

\* A session that is not active is returned as it is.
CloseSession(r, s) ==
  /\ sessions[s].status = "active"
  /\ Begin(r, "closeSession",
           [NoJob EXCEPT !.session = s, !.copy = [sessions[s] EXCEPT !.status = "closed"]],
           "countOrders")
  /\ UNCHANGED database

\* Slip: the target is not resolved to the session it is joined into.
JoinSessionsUnresolved(r, target, source) ==
  /\ target # source
  /\ sessions[target].status = "active"
  /\ Begin(r, "joinSessions",
           [NoJob EXCEPT !.session = source, !.table = TableOf[target], !.root = target],
           "readSource")
  /\ UNCHANGED database

\* Reads the target and resolves it to the session it is joined into.
JoinSessions(r, target, source) ==
  /\ target # source
  /\ sessions[target].status = "active"
  /\ Begin(r, "joinSessions",
           [NoJob EXCEPT !.session = source,
                         !.table = TableOf[target],
                         !.root = IF sessions[target].mergedInto = NoSession
                                  THEN target ELSE sessions[target].mergedInto],
           "readSource")
  /\ UNCHANGED database

SplitSession(r, s) ==
  /\ sessions[s].mergedInto # NoSession
  /\ Begin(r, "splitSession",
           [NoJob EXCEPT !.session = s, !.copy = [sessions[s] EXCEPT !.mergedInto = NoSession]],
           "save")
  /\ UNCHANGED database

HandleCallWaiter(r, s) ==
  /\ sessions[s].status = "active"
  /\ Begin(r, "handleCallWaiter",
           [NoJob EXCEPT !.session = s, !.copy = [sessions[s] EXCEPT !.waiterCall = TRUE]],
           "save")
  /\ UNCHANGED database

AcknowledgeWaiterCall(r, s) ==
  /\ sessions[s].waiterCall
  /\ Begin(r, "acknowledgeWaiterCall",
           [NoJob EXCEPT !.session = s, !.copy = [sessions[s] EXCEPT !.waiterCall = FALSE]],
           "save")
  /\ UNCHANGED database

\* Staff reserve or free a table by hand.
SetReservation(t, isReserved) ==
  /\ "setReservation" \in Enabled
  /\ reserved' = [reserved EXCEPT ![t] = isReserved]
  /\ UNCHANGED <<sessions, orders, lock, pc, job>>

-----------------------------------------------------------------------------
(* Steps. *)

\* createSessionForTable inserts the row, then refreshes isReserved.
CreateSession(r, s) ==
  /\ At(r, "createSession")
  /\ sessions[s].status = "unopened" /\ TableOf[s] = job[r].table
  /\ sessions' = [sessions EXCEPT ![s].status = "active"]
  /\ pc' = [pc EXCEPT ![r] = "syncCount"]
  /\ job' = [job EXCEPT ![r].session = s]
  /\ UNCHANGED <<reserved, orders, lock>>

\* syncTableReservedState counts.  A transaction that is closing its session
\* sees its own close, and nobody else's before the commit.
SyncCount(r) ==
  LET s == job[r].session
      closing == {c \in Session : lock[c] = r}
  IN
  /\ At(r, "syncCount")
  /\ pc' = [pc EXCEPT ![r] = "syncUpdate"]
  /\ job' = [job EXCEPT ![r].occupied = ActiveAt(TableOf[s]) \ closing # {}]
  /\ UNCHANGED database

\* ... and writes; a closing transaction commits both rows.
SyncUpdate(r) ==
  LET s == job[r].session IN
  /\ At(r, "syncUpdate")
  /\ reserved' = [reserved EXCEPT ![TableOf[s]] = job[r].occupied]
  /\ IF lock[s] = r
     THEN /\ sessions' = [sessions EXCEPT ![s].status = "closed"]
          /\ lock' = [lock EXCEPT ![s] = NoRequest]
     ELSE UNCHANGED <<sessions, lock>>
  /\ IF job[r].entry = "createFromStaff" THEN Goto(r, "insertStaffOrder") ELSE Finish(r)
  /\ UNCHANGED orders

PlaceOrder(o, s) ==
  /\ orders[o].status = "absent"
  /\ orders' = [orders EXCEPT ![o] = [status |-> "open", session |-> s]]

\* Slip: the guest insert does not reactivate a session that raced closed.
InsertOrderNoReactivation(r, o) ==
  /\ At(r, "insertOrder") /\ Unlocked(job[r].session)
  /\ PlaceOrder(o, job[r].session)
  /\ Finish(r)
  /\ UNCHANGED <<sessions, reserved, lock>>

\* The guest's insert: under the session lock, reactivating a closed session.
\* Its own row is active by then, so the table counts as occupied.
InsertOrder(r, o) ==
  LET s == job[r].session IN
  /\ At(r, "insertOrder") /\ Unlocked(s)
  /\ PlaceOrder(o, s)
  /\ sessions' = [sessions EXCEPT ![s].status = "active"]
  /\ reserved' = IF sessions[s].status = "active" THEN reserved
                 ELSE [reserved EXCEPT ![TableOf[s]] = TRUE]
  /\ Finish(r)
  /\ UNCHANGED lock

\* The staff insert neither locks nor looks at the session again; its foreign
\* key waits for a row lock.
InsertStaffOrder(r, o) ==
  /\ At(r, "insertStaffOrder") /\ Unlocked(job[r].session)
  /\ PlaceOrder(o, job[r].session)
  /\ Finish(r)
  /\ UNCHANGED <<sessions, reserved, lock>>

\* refreshLifecycle takes the row lock and finds an order open or the session
\* closed already ...
RefreshKeeps(r) ==
  LET s == job[r].session IN
  /\ At(r, "refresh") /\ Unlocked(s)
  /\ sessions[s].status # "active" \/ OpenOrders(s) # {}
  /\ Finish(r)
  /\ UNCHANGED database

\* Slip: refreshLifecycle closes without counting the open orders.
RefreshClosesUncounted(r) ==
  LET s == job[r].session IN
  /\ At(r, "refresh") /\ Unlocked(s)
  /\ sessions[s].status = "active"
  /\ lock' = [lock EXCEPT ![s] = r]
  /\ Goto(r, "syncCount")
  /\ UNCHANGED <<sessions, reserved, orders>>

\* ... or closes it, and holds the lock until isReserved is written too.
RefreshCloses(r) ==
  LET s == job[r].session IN
  /\ At(r, "refresh") /\ Unlocked(s)
  /\ sessions[s].status = "active" /\ OpenOrders(s) = {}
  /\ lock' = [lock EXCEPT ![s] = r]
  /\ Goto(r, "syncCount")
  /\ UNCHANGED <<sessions, reserved, orders>>

\* closeSession refuses while an order is open.
CountOrders(r) ==
  /\ At(r, "countOrders")
  /\ IF OpenOrders(job[r].session) = {} THEN Goto(r, "countChildren") ELSE Finish(r)
  /\ UNCHANGED database

\* Slip: sessions of two tables may be joined.
MayJoinAnyTable(source, table, root) ==
  /\ sessions[source].status = "active"
  /\ root # source
  /\ sessions[source].mergedInto # root

\* joinSessions reads the source and checks the pair.
MayJoin(source, table, root) ==
  /\ sessions[source].status = "active"
  /\ TableOf[source] = table
  /\ root # source
  /\ sessions[source].mergedInto # root

\* Slip: the source is pointed at the table.
ReadSourceAtTable(r) ==
  LET source == job[r].session IN
  /\ At(r, "readSource")
  /\ IF MayJoin(source, job[r].table, job[r].root)
     THEN /\ pc' = [pc EXCEPT ![r] = "countChildren"]
          /\ job' = [job EXCEPT ![r].copy = [sessions[source] EXCEPT !.mergedInto = job[r].table]]
     ELSE Finish(r)
  /\ UNCHANGED database

ReadSource(r) ==
  LET source == job[r].session IN
  /\ At(r, "readSource")
  /\ IF MayJoin(source, job[r].table, job[r].root)
     THEN /\ pc' = [pc EXCEPT ![r] = "countChildren"]
          /\ job' = [job EXCEPT ![r].copy = [sessions[source] EXCEPT !.mergedInto = job[r].root]]
     ELSE Finish(r)
  /\ UNCHANGED database

\* Both closeSession and joinSessions refuse a session others are joined into.
CountChildren(r) ==
  /\ At(r, "countChildren")
  /\ IF ActiveChildren(job[r].session) = {} THEN Goto(r, "save") ELSE Finish(r)
  /\ UNCHANGED database

\* repository.save, first half: which columns of the copy differ from the row?
Save(r) ==
  LET dirty == {c \in Column : job[r].copy[c] # sessions[job[r].session][c]} IN
  /\ At(r, "save")
  /\ pc' = [pc EXCEPT ![r] = "update"]
  /\ job' = [job EXCEPT ![r].dirty = dirty]
  /\ UNCHANGED database

\* Slip: a closed session does not free its table.
UpdateOnly(r) ==
  LET s == job[r].session IN
  /\ At(r, "update") /\ Unlocked(s)
  /\ sessions' = [sessions EXCEPT ![s] =
       [c \in Column |-> IF c \in job[r].dirty THEN job[r].copy[c] ELSE sessions[s][c]]]
  /\ Finish(r)
  /\ UNCHANGED <<reserved, orders, lock>>

\* Second half: those columns are written, whatever the row has become.
Update(r) ==
  LET s == job[r].session IN
  /\ At(r, "update") /\ Unlocked(s)
  /\ sessions' = [sessions EXCEPT ![s] =
       [c \in Column |-> IF c \in job[r].dirty THEN job[r].copy[c] ELSE sessions[s][c]]]
  /\ IF job[r].entry = "closeSession" THEN Goto(r, "syncCount") ELSE Finish(r)
  /\ UNCHANGED <<reserved, orders, lock>>

\* A failed statement or a crash: the transaction, if any, rolls back.
Die(r) ==
  /\ MayFail /\ ~At(r, "idle")
  /\ lock' = [s \in Session |-> IF lock[s] = r THEN NoRequest ELSE lock[s]]
  /\ Finish(r)
  /\ UNCHANGED <<sessions, reserved, orders>>

-----------------------------------------------------------------------------

Arrive(r) ==
  \/ \E t \in Table : Scan(r, t) \/ CreateFromStaffAtFreeTable(r, t)
  \/ \E s \in Session :
       \/ CreateFromQr(r, s) \/ CreateFromStaff(r, s) \/ CloseSession(r, s)
       \/ SplitSession(r, s) \/ HandleCallWaiter(r, s) \/ AcknowledgeWaiterCall(r, s)
       \/ \E target \in Session : JoinSessions(r, target, s)
  \/ \E o \in Order : TransitionOrder(r, o)

Run(r) ==
  \/ SyncCount(r) \/ SyncUpdate(r) \/ RefreshKeeps(r) \/ RefreshCloses(r)
  \/ CountOrders(r) \/ ReadSource(r) \/ CountChildren(r) \/ Save(r) \/ Update(r)
  \/ \E s \in Session : CreateSession(r, s)
  \/ \E o \in Order : InsertOrder(r, o) \/ InsertStaffOrder(r, o)

Next ==
  \/ \E r \in Request : Arrive(r) \/ Run(r) \/ Die(r)
  \/ \E t \in Table, isReserved \in BOOLEAN : SetReservation(t, isReserved)
  \/ \E o \in Order : RetryPayment(o)

Spec == Init /\ [][Next]_vars

\* Node's event loop and Postgres eventually run the next step of a handler.
FairSpec == Spec /\ \A r \in Request : WF_vars(Run(r))

-----------------------------------------------------------------------------
(* Properties. *)

\* An open order is an order of an active session: closing a session never
\* ejects a guest whose order is in flight (orders.service.ts,
\* lockAndReactivateSession; "Cannot close session with active or unpaid
\* orders" in closeSession).
ClosedSessionHasNoOpenOrder ==
  \A o \in Order : orders[o].status = "open" => sessions[orders[o].session].status = "active"

\* "merges always resolve to a single root so a join can never form a chain"
\* (joinSessions).
JoinsFormNoChain ==
  \A c, p \in Session :
    sessions[c].mergedInto = p /\ sessions[c].status = "active" =>
      p # c /\ sessions[p].mergedInto = NoSession

\* A session is billed together only with sessions of its own table, whatever
\* joins, splits and closes race (joinSessions checks the table of the target,
\* not that of the root it resolves to).
JoinedSessionsShareTheirTable ==
  \A c, p \in Session : sessions[c].mergedInto = p => TableOf[c] = TableOf[p]

\* Once every handler has finished, a table is reserved exactly while one of
\* its sessions is active (table-reserved-state.util.ts: closing or
\* reactivating one session "must never flip isReserved for a table other
\* sessions are still occupying").
ReservedWhileOccupied ==
  (\A r \in Request : pc[r] = "idle") =>
    \A t \in Table : reserved[t] <=> ActiveAt(t) # {}

\* A raised waiter call is cleared by an acknowledgement only
\* (kitchen.gateway.ts: persisted so that it is not lost;
\* table-session.entity.ts: "cleared by acknowledgeWaiterCall").
Acknowledges(s) ==
  \E r \in Request :
    /\ pc[r] = "update" /\ pc'[r] = "idle"
    /\ job[r].entry = "acknowledgeWaiterCall" /\ job[r].session = s

WaiterCallsAreAnswered ==
  [][\A s \in Session :
       sessions[s].waiterCall /\ ~sessions'[s].waiterCall => Acknowledges(s)]_vars

\* Without the entry points that save a copy of the row, sessions keep the
\* promise of SessionOccupancy.
Occupancy == INSTANCE SessionOccupancy
               WITH life <- [s \in Session |-> sessions[s].status], placed <- orders
ImplementsOccupancy == Occupancy!OccupancySpec

\* A session whose last order has settled, or whose payment failed, is closed without staff closing it
\* (refreshLifecycle: "Auto-closes the session once its last order settles").
HasSettled(s) ==
  /\ OpenOrders(s) = {}
  /\ \E o \in Order : orders[o].status \in {"failed", "done"} /\ orders[o].session = s

SettledSessionCloses ==
  \A s \in Session :
    HasSettled(s) ~> (sessions[s].status = "closed" \/ OpenOrders(s) # {})

=============================================================================

--------------------------- MODULE OrderBroadcast ---------------------------
(***************************************************************************)
(* What screens are told of orders: every event of the kitchen gateway     *)
(* that carries an order's status to the guests of a table session (room   *)
(* session:<token>) and to the venue's TV (room display:<business>), the    *)
(* sync a guest gets on joining, and the snapshot the TV loads.            *)
(*                                                                         *)
(* transitionOrder commits first and emits afterwards, some callers long   *)
(* afterwards, so other handlers run in between.  Four callers first save  *)
(* the copy of the order they read, which writes its old status back and   *)
(* tells nobody.  An emit is one step: the sockets of a room belong to     *)
(* this process, which delivers in order.                                  *)
(***************************************************************************)
EXTENDS OrderTransitions

CONSTANTS
  Order,      \* orders of one business; the dine-in ones are of one session
  Guest,      \* devices at the table
  Request,    \* handlers in flight at the same time
  NoOrder,
  TypeOf      \* [Order -> OrderType]

ASSUME BroadcastAssumption ==
  /\ NoOrder \notin Order
  /\ TypeOf \in [Order -> OrderType]

-----------------------------------------------------------------------------
(* Data. *)

Absent == "absent"

OpenOrderStatuses == {"CREATED", "CONFIRMED", "IN_KITCHEN", "READY", "DELIVERED"}
DisplayableOrderStatuses == {"CONFIRMED", "IN_KITCHEN", "READY"}

\* customer-order-status.ts: what a guest is told of a status.
CustomerStatus(s) ==
  CASE s = "CREATED"               -> "placed"
    [] s = "CONFIRMED"             -> "confirmed"
    [] s = "IN_KITCHEN"            -> "preparing"
    [] s = "READY"                 -> "ready"
    [] s \in {"DELIVERED", "CLOSED"} -> "served"
    [] s = "CANCELLED"             -> "cancelled"
    [] s = "PAYMENT_FAILED"        -> "payment_failed"
    [] s = "REFUNDED"              -> "refunded"

CustomerStatuses == {CustomerStatus(s) : s \in OrderStatus}

\* toDisplayBucket: where the TV shows an order, if at all.
DisplayBucket(s) ==
  CASE s = "READY"                       -> "READY"
    [] s \in {"CONFIRMED", "IN_KITCHEN"} -> "PREPARING"
    [] OTHER                             -> "none"

\* Who calls transitionOrder, and for which status.  closeWithPayment stands for
\* processStaffPayment too, updateStatus for confirmOrder and cancelBySession,
\* recomputeAndAdvance for the instant payment of createFromQr.
Targets ==
  [updateStatus        |-> {"CONFIRMED", "IN_KITCHEN", "READY", "DELIVERED", "CLOSED", "CANCELLED"},
   closeWithPayment    |-> {"CLOSED"},
   recomputeAndAdvance |-> {"CONFIRMED", "CLOSED"},
   retryPayment        |-> {"DELIVERED"},
   markPaymentFailed   |-> {"PAYMENT_FAILED"},
   refundOrder         |-> {"REFUNDED"}]

Caller == DOMAIN Targets

\* They save the order they were handed before they call transitionOrder.
SavingCaller == {"recomputeAndAdvance", "retryPayment", "markPaymentFailed", "refundOrder"}

\* They send order:paid from onDispatched.
PayingCaller == {"closeWithPayment", "recomputeAndAdvance"}

\* They send their event when transitionOrder has returned.
LateCaller == {"markPaymentFailed", "refundOrder"}

Step == {"idle", "insert", "save", "transition", "dispatch", "refresh", "late"}

\* next is the status to commit or to send; before the save, that of the copy.
Job == [caller : Caller \union {"none"}, order : Order \union {NoOrder}, next : OrderStatus]

NoJob == [caller |-> "none", order |-> NoOrder, next |-> "CREATED"]

\* What join-session has read: the order updated last, and its status then.
Snapshot == [order : Order \union {NoOrder}, status : OrderStatus]

NoSnapshot == [order |-> NoOrder, status |-> "CREATED"]

Buckets == {"none", "PREPARING", "READY"}

Unread == "unread"

VARIABLES
  status,     \* [Order -> OrderStatus \union {Absent}], the committed rows
  latest,     \* the order of the session whose row was updated last
  active,     \* BOOLEAN, the table session's isActive
  pc,         \* [Request -> Step]
  job,        \* [Request -> Job]
  socket,     \* [Guest -> {"out", "joining", "in", "refused"}], the session room
  snapshot,   \* [Guest -> Snapshot], what a join in flight has read
  guestView,  \* [Guest -> [Order -> CustomerStatuses \union {Absent}]]
  tv,         \* {"out", "in"}, whether the TV is in its room
  loaded,     \* [Order -> Buckets \union {Unread}], a snapshot on its way to the TV
  board,      \* [Order -> Buckets], what the TV shows
  \* History, read by properties only:
  reached,    \* [Order -> SUBSET OrderStatus], the statuses committed so far
  witnessed,  \* [Guest -> SUBSET Order], in the room at its last commit with an event
              \* that is neither overtaken nor lost, and no stale save since
  followed,   \* orders the TV has heard of, or loaded, since their last commit
  fresh       \* orders whose row is still what the snapshot on its way read

rows == <<status, latest, active>>
handlers == <<pc, job>>
guests == <<socket, snapshot>>
display == <<tv, loaded>>
screens == <<guestView, board>>
history == <<reached, witnessed, followed, fresh>>
vars == <<rows, handlers, guests, display, screens, history>>

TypeOK ==
  /\ status \in [Order -> OrderStatus \union {Absent}]
  /\ latest \in Order \union {NoOrder}
  /\ active \in BOOLEAN
  /\ pc \in [Request -> Step]
  /\ job \in [Request -> Job]
  /\ socket \in [Guest -> {"out", "joining", "in", "refused"}]
  /\ snapshot \in [Guest -> Snapshot]
  /\ guestView \in [Guest -> [Order -> CustomerStatuses \union {Absent}]]
  /\ tv \in {"out", "in"}
  /\ loaded \in [Order -> Buckets \union {Unread}]
  /\ board \in [Order -> Buckets]
  /\ reached \in [Order -> SUBSET OrderStatus]
  /\ witnessed \in [Guest -> SUBSET Order]
  /\ followed \subseteq Order
  /\ fresh \subseteq Order

Init ==
  /\ status = [o \in Order |-> Absent]
  /\ latest = NoOrder
  /\ active = TRUE
  /\ pc = [r \in Request |-> "idle"]
  /\ job = [r \in Request |-> NoJob]
  /\ socket = [g \in Guest |-> "out"]
  /\ snapshot = [g \in Guest |-> NoSnapshot]
  /\ guestView = [g \in Guest |-> [o \in Order |-> Absent]]
  /\ tv = "out"
  /\ loaded = [o \in Order |-> Unread]
  /\ board = [o \in Order |-> "none"]
  /\ reached = [o \in Order |-> {}]
  /\ witnessed = [g \in Guest |-> {}]
  /\ followed = {}
  /\ fresh = {}

HasSession(o) == TypeOf[o] = "DINE_IN"

OpenOrders == {o \in Order : HasSession(o) /\ status[o] \in OpenOrderStatuses}

\* Handler r works on order o and has an event of it still to send.
Unsent(r, o) ==
  /\ job[r].order = o
  /\ \/ pc[r] = "dispatch"
     \/ pc[r] \in {"refresh", "late"} /\ job[r].caller \in LateCaller

SomeUnsent(o) == \E r \in Request : Unsent(r, o)

-----------------------------------------------------------------------------
(* Rooms. *)

\* An event of o with this status to the session room, if o has a session.
ToSession(o, s) ==
  guestView' = [g \in Guest |->
    IF socket[g] = "in" /\ HasSession(o)
    THEN [guestView[g] EXCEPT ![o] = CustomerStatus(s)] ELSE guestView[g]]

\* Slip: the TV is sent the raw status.
ToDisplayRaw(o, bucket) ==
  board' = IF tv = "in" THEN [board EXCEPT ![o] = status[o]] ELSE board

\* emitDisplayUpdate and emitDisplayRemoved.
ToDisplay(o, bucket) ==
  board' = IF tv = "in" THEN [board EXCEPT ![o] = bucket] ELSE board

-----------------------------------------------------------------------------
(* Orders. *)

Goto(r, step) ==
  /\ pc' = [pc EXCEPT ![r] = step]
  /\ UNCHANGED job

Finish(r) ==
  /\ pc' = [pc EXCEPT ![r] = "idle"]
  /\ job' = [job EXCEPT ![r] = NoJob]

\* A row of order o is committed with status s.
CommitRow(o, s) ==
  /\ status' = [status EXCEPT ![o] = s]
  /\ latest' = IF HasSession(o) THEN o ELSE latest
  /\ reached' = [reached EXCEPT ![o] = @ \union {s}]

\* The statuses whose event dispatchOrderEvent sends.
Dispatched == {"CONFIRMED", "IN_KITCHEN", "READY", "DELIVERED", "CANCELLED"}

\* Which commits the room and the TV are told of: staff closing an order by hand
\* tell nobody, and no close is sent to the TV.
RoomIsTold(caller, next) == ~(caller = "updateStatus" /\ next = "CLOSED")
TVIsTold(caller, next) == next \in Dispatched \/ caller \in LateCaller

\* Who is in the room when a status is committed that the room will be told of.
Witness(o, caller, next) ==
  witnessed' = [g \in Guest |->
    IF SomeUnsent(o) \/ (RoomIsTold(caller, next) /\ socket[g] # "in")
    THEN witnessed[g] \ {o}
    ELSE IF RoomIsTold(caller, next) THEN witnessed[g] \union {o} ELSE witnessed[g]]

\* The same for the TV, whose snapshot must not be read before and shown after.
Follow(o, caller, next) ==
  /\ followed' =
       IF SomeUnsent(o) \/ loaded[o] # Unread \/ (TVIsTold(caller, next) /\ tv # "in")
       THEN followed \ {o}
       ELSE IF TVIsTold(caller, next) THEN followed \union {o} ELSE followed
  /\ fresh' = fresh \ {o}

\* The screens are not told of the change, or will never be.
Forget(orders) ==
  /\ witnessed' = [g \in Guest |-> witnessed[g] \ orders]
  /\ followed' = followed \ orders
  /\ fresh' = fresh \ orders

\* A guest's order passes the session guard, or staff enter one ...
PlaceOrder(r, o) ==
  /\ pc[r] = "idle" /\ status[o] = Absent
  /\ \A q \in Request : job[q].order # o
  /\ HasSession(o) => active
  /\ pc' = [pc EXCEPT ![r] = "insert"]
  /\ job' = [job EXCEPT ![r].order = o]
  /\ UNCHANGED <<rows, guests, display, screens, history>>

\* ... and is inserted, reactivating the session.  order:created goes to staff only.
InsertOrder(r) ==
  LET o == job[r].order IN
  /\ pc[r] = "insert"
  /\ CommitRow(o, "CREATED")
  /\ active' = (active \/ HasSession(o))
  /\ Finish(r)
  /\ fresh' = fresh \ {o}
  /\ UNCHANGED <<guests, display, screens, witnessed, followed>>

\* What each saving caller may have read.
MayRead(caller, s) ==
  CASE caller = "retryPayment" -> s = "PAYMENT_FAILED"
    [] caller = "refundOrder"  -> s = "CLOSED"
    [] OTHER                   -> TRUE

\* A saving caller reads the order ...
ReadOrder(r, o, caller) ==
  /\ pc[r] = "idle" /\ status[o] # Absent
  /\ caller \in SavingCaller /\ MayRead(caller, status[o])
  /\ pc' = [pc EXCEPT ![r] = "save"]
  /\ job' = [job EXCEPT ![r] = [caller |-> caller, order |-> o, next |-> status[o]]]
  /\ UNCHANGED <<rows, guests, display, screens, history>>

\* What it asks for after its save, if it goes on: recomputeAndAdvance only with
\* an order that is paid, and from the status its copy has.
Wanted(caller, type, copy) ==
  IF caller # "recomputeAndAdvance" THEN Targets[caller]
  ELSE {next \in {"CONFIRMED", "CLOSED"} :
          IF next = "CONFIRMED" THEN copy = "CREATED"
          ELSE copy = "DELIVERED" \/ (type = "TAKEAWAY" /\ copy = "READY")}

\* ... and saves its copy with a new paymentStatus: the status it read is written
\* over whatever was committed since, and no event is sent.
SaveOrder(r) ==
  LET o == job[r].order  copy == job[r].next IN
  /\ pc[r] = "save"
  /\ \/ CommitRow(o, copy)
     \/ copy = status[o] /\ UNCHANGED <<status, latest, reached>>  \* nothing differed
  /\ Forget({p \in {o} : copy # status[o]})
  /\ \/ \E next \in Wanted(job[r].caller, TypeOf[o], copy) :
          /\ pc' = [pc EXCEPT ![r] = "transition"]
          /\ job' = [job EXCEPT ![r].next = next]
     \/ job[r].caller = "recomputeAndAdvance" /\ Finish(r)
  /\ UNCHANGED <<active, guests, display, screens>>

\* updateStatus and closeWithPayment come here first, the others with a job.
Asks(r, o, caller, next) ==
  \/ pc[r] = "idle" /\ caller \notin SavingCaller /\ next \in Targets[caller]
  \/ pc[r] = "transition" /\ job[r] = [caller |-> caller, order |-> o, next |-> next]

\* Slip: the loser of a race emits what it asked for.
TransitionOrderUnchecked(r, o, caller, next) ==
  /\ status[o] # Absent
  /\ Asks(r, o, caller, next)
  /\ pc' = [pc EXCEPT ![r] = "dispatch"]
  /\ job' = [job EXCEPT ![r] = [caller |-> caller, order |-> o, next |-> next]]
  /\ IF AssertTransition(TypeOf[o], status[o], next)
     THEN CommitRow(o, next) ELSE UNCHANGED <<status, latest, reached>>
  /\ Witness(o, caller, next)
  /\ Follow(o, caller, next)
  /\ UNCHANGED <<active, guests, display, screens>>

\* transitionOrder's transaction, under the row lock, for a caller's status.
TransitionOrder(r, o, caller, next) ==
  /\ status[o] # Absent
  /\ Asks(r, o, caller, next)
  /\ AssertTransition(TypeOf[o], status[o], next)
  /\ pc' = [pc EXCEPT ![r] = "dispatch"]
  /\ job' = [job EXCEPT ![r] = [caller |-> caller, order |-> o, next |-> next]]
  /\ CommitRow(o, next)
  /\ Witness(o, caller, next)
  /\ Follow(o, caller, next)
  /\ UNCHANGED <<active, guests, display, screens>>

\* Refused, the call ends: what was saved before it stays saved.
RefuseTransition(r) ==
  /\ pc[r] = "transition"
  /\ ~AssertTransition(TypeOf[job[r].order], status[job[r].order], job[r].next)
  /\ Finish(r)
  /\ UNCHANGED <<rows, guests, display, screens, history>>

\* Slip: the events of a failed payment and a refund are forgotten.
AfterRefreshSilent(r) == Finish(r)

AfterRefresh(r) == IF job[r].caller \in LateCaller THEN Goto(r, "late") ELSE Finish(r)

\* What follows the events: refreshLifecycle on leaving the floor.
AfterDispatch(r) ==
  IF HasSession(job[r].order) /\ job[r].next \notin OpenOrderStatuses
  THEN Goto(r, "refresh") ELSE AfterRefresh(r)

\* Slip: being served does not take an order off the TV.
DispatchOrderEventNoRemoval(r) ==
  LET o == job[r].order  next == job[r].next IN
  /\ pc[r] = "dispatch" /\ next \in Dispatched
  /\ ToSession(o, next)
  /\ IF next = "DELIVERED" THEN UNCHANGED board ELSE ToDisplay(o, DisplayBucket(next))
  /\ AfterDispatch(r)
  /\ UNCHANGED <<rows, guests, display, history>>

\* dispatchOrderEvent.
DispatchOrderEvent(r) ==
  LET o == job[r].order  next == job[r].next IN
  /\ pc[r] = "dispatch" /\ next \in Dispatched
  /\ ToSession(o, next)
  /\ ToDisplay(o, DisplayBucket(next))
  /\ AfterDispatch(r)
  /\ UNCHANGED <<rows, guests, display, history>>

\* onDispatched: order:paid to the session and the staff, not to the TV.
EmitOrderPaid(r) ==
  LET o == job[r].order IN
  /\ pc[r] = "dispatch" /\ job[r].caller \in PayingCaller /\ job[r].next = "CLOSED"
  /\ ToSession(o, job[r].next)
  /\ AfterDispatch(r)
  /\ UNCHANGED <<rows, guests, display, board, history>>

\* CLOSED by a status change, PAYMENT_FAILED and REFUNDED have no event here.
DispatchNothing(r) ==
  /\ pc[r] = "dispatch" /\ job[r].next \notin Dispatched
  /\ job[r].caller \notin PayingCaller
  /\ AfterDispatch(r)
  /\ UNCHANGED <<rows, guests, display, screens, history>>

\* refreshLifecycle's transaction.
RefreshLifecycle(r) ==
  /\ pc[r] = "refresh"
  /\ IF active /\ OpenOrders = {}
     THEN active' = FALSE ELSE UNCHANGED active
  /\ AfterRefresh(r)
  /\ UNCHANGED <<status, latest, guests, display, screens, history>>

\* emitPaymentFailed or emitOrderRefunded, once transitionOrder has returned.
EmitLate(r) ==
  LET o == job[r].order IN
  /\ pc[r] = "late"
  /\ ToSession(o, job[r].next)
  /\ ToDisplay(o, "none")
  /\ Finish(r)
  /\ UNCHANGED <<rows, guests, display, history>>

\* A failed statement: what was committed stays, what was to be sent is not.
Die(r) ==
  /\ pc[r] # "idle"
  /\ Forget({o \in Order : Unsent(r, o)})
  /\ Finish(r)
  /\ UNCHANGED <<rows, guests, display, screens, reached>>

-----------------------------------------------------------------------------
(* Guests. *)

\* handleJoinSession reads the session and its orders ...
JoinSession(g) ==
  /\ socket[g] \in {"out", "refused"}
  /\ IF active
     THEN /\ socket' = [socket EXCEPT ![g] = "joining"]
          /\ snapshot' = [snapshot EXCEPT ![g] =
               IF latest # NoOrder
               THEN [order |-> latest, status |-> status[latest]] ELSE NoSnapshot]
     ELSE /\ socket' = [socket EXCEPT ![g] = "refused"]
          /\ UNCHANGED snapshot
  /\ UNCHANGED <<rows, handlers, display, screens, history>>

\* ... then joins the room and sends what it read.
SyncGuest(g) ==
  LET read == snapshot[g] IN
  /\ socket[g] = "joining"
  /\ socket' = [socket EXCEPT ![g] = "in"]
  /\ snapshot' = [snapshot EXCEPT ![g] = NoSnapshot]
  /\ guestView' = IF read.order = NoOrder THEN guestView
                  ELSE [guestView EXCEPT ![g][read.order] = CustomerStatus(read.status)]
  /\ UNCHANGED <<rows, handlers, display, board, history>>

\* The guest reloads the page: socket and screen are lost.
Reload(g) ==
  /\ socket[g] # "out"
  /\ socket' = [socket EXCEPT ![g] = "out"]
  /\ snapshot' = [snapshot EXCEPT ![g] = NoSnapshot]
  /\ guestView' = [guestView EXCEPT ![g] = [o \in Order |-> Absent]]
  /\ witnessed' = [witnessed EXCEPT ![g] = {}]
  /\ UNCHANGED <<rows, handlers, display, board, reached, followed, fresh>>

-----------------------------------------------------------------------------
(* The TV. *)

\* handleJoinDisplay, and leaving or losing the connection: events on their way
\* are missed.
JoinDisplay ==
  /\ tv = "out"
  /\ tv' = "in"
  /\ UNCHANGED <<rows, handlers, guests, loaded, screens, history>>

LeaveDisplay ==
  /\ tv = "in"
  /\ tv' = "out"
  /\ followed' = {o \in followed : ~SomeUnsent(o)}
  /\ UNCHANGED <<rows, handlers, guests, loaded, screens, reached, witnessed, fresh>>

\* getPublicSnapshot reads the displayable orders, at any time ...
GetPublicSnapshot ==
  /\ loaded = [o \in Order |-> Unread]
  /\ loaded' = [o \in Order |-> DisplayBucket(status[o])]
  /\ fresh' = {o \in Order : ~SomeUnsent(o)}
  /\ UNCHANGED <<rows, handlers, guests, tv, screens, reached, witnessed, followed>>

\* ... and the TV shows them in place of what it showed.
ShowSnapshot ==
  /\ \A o \in Order : loaded[o] # Unread
  /\ board' = loaded
  /\ loaded' = [o \in Order |-> Unread]
  /\ followed' = followed \union fresh
  /\ fresh' = {}
  /\ UNCHANGED <<rows, handlers, guests, tv, guestView, reached, witnessed>>

-----------------------------------------------------------------------------

Arrive(r) ==
  \E o \in Order :
    \/ PlaceOrder(r, o)
    \/ \E caller \in Caller : ReadOrder(r, o, caller)
    \/ \E caller \in Caller, next \in OrderStatus : TransitionOrder(r, o, caller, next)

Run(r) ==
  \/ InsertOrder(r) \/ SaveOrder(r) \/ RefuseTransition(r) \/ DispatchOrderEvent(r) \/ EmitOrderPaid(r)
  \/ DispatchNothing(r) \/ RefreshLifecycle(r) \/ EmitLate(r)

Next ==
  \/ \E r \in Request : Arrive(r) \/ Run(r) \/ Die(r)
  \/ \E g \in Guest : JoinSession(g) \/ SyncGuest(g) \/ Reload(g)
  \/ JoinDisplay \/ LeaveDisplay \/ GetPublicSnapshot \/ ShowSnapshot

Spec == Init /\ [][Next]_vars

-----------------------------------------------------------------------------
(* Properties. *)

\* No guest is ever shown a status that its order has not been committed with:
\* the loser of a race is rejected "instead of silently emitting an event for a
\* state that was never persisted" (transitionOrder).
OnlyCommittedIsShown ==
  \A g \in Guest, o \in Order :
    guestView[g][o] # Absent => \E s \in reached[o] : guestView[g][o] = CustomerStatus(s)

\* Once the events of a dine-in order are out, the TV shows it where its row says,
\* if the TV has followed it: was in its room at the last commit the TV is told of,
\* or has loaded a snapshot since, and no event was overtaken or lost, no snapshot
\* was read before a commit and shown after it, and no stale save (517, 701, 727,
\* 743) has rewritten the row, of which the TV is not told.
DisplayShowsCommitted ==
  \A o \in followed :
    TypeOf[o] = "DINE_IN" /\ ~SomeUnsent(o) => board[o] = DisplayBucket(status[o])

\* A guest who was in the room when an order was last committed shows its status
\* once its events are out, unless one was overtaken or lost or a stale save has
\* rewritten the row: staff closing an order by hand need no event, for a guest's
\* DELIVERED and CLOSED are both "served".
WitnessesAreInStep ==
  \A g \in Guest : \A o \in witnessed[g] :
    HasSession(o) /\ ~SomeUnsent(o) => guestView[g][o] = CustomerStatus(status[o])

\* "Statuses a venue TV display is ever allowed to show" (display-order.util.ts),
\* whatever the type of the order.
DisplayShowsDisplayable ==
  \A o \in followed :
    board[o] # "none" /\ ~SomeUnsent(o) => status[o] \in DisplayableOrderStatuses

\* "a customer reloading right after payment, cancellation, or a refund still
\* resyncs to the correct screen instead of getting no payload at all"
\* (handleJoinSession).
ReloadResyncs ==
  \A g \in Guest : socket[g] = "refused" => latest = NoOrder

=============================================================================

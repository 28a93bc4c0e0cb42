--------------------------- MODULE OrderPayments ----------------------------
(***************************************************************************)
(* Orders, payments and the session flag of serve-os, with every request   *)
(* cut where the code cuts it: a step is one database statement or one     *)
(* locked transaction, and between two steps any other request may run.    *)
(*                                                                         *)
(* Two ways of writing an order row coexist in the code and are kept apart *)
(* here.  transitionOrder re-reads the row under FOR UPDATE (Commit).      *)
(* orderRepository.save(order) of a row read earlier writes back every     *)
(* column in which the copy differs from the table, the status included    *)
(* (Save, SaveAndAdvance).                                                 *)
(***************************************************************************)
EXTENDS OrderTransitions, Integers, FiniteSets

CONSTANTS
  Order,            \* order ids
  Payment,          \* payment ids; their number bounds the payments made
  Session,          \* table session ids
  Request,          \* handlers that can be in flight at the same time
  NoOrder, NoPayment, NoSession,
  TypeOf,           \* [Order -> OrderType], fixed when the order is placed
  SessionOf,        \* [Order -> Session \union {NoSession}], likewise
  Total,            \* order.totalAmount
  StaffAmounts,     \* amounts staff record by hand
  ClientAmounts,    \* amounts of POST /payments
  TipAmounts,       \* tips, 0 for none
  GuestTipMax,      \* GUEST_TIP_ABSOLUTE_MAX_MINOR_UNITS
  MaxMoney,         \* the largest value of a decimal(10, 2) column
  Enabled,          \* the entry points a run uses, a subset of EntryPoints
  InitiateResults,  \* what payment providers answer to initiate()
  AutoAccept,       \* business.posAutoAcceptPayment
  MayFail           \* TRUE: a handler may die at any await

\* One name per service method that a request enters through.
EntryPoints == {"createFromQr", "createGuestOrder", "createFromStaff",
                "updateStatus", "confirmOrder", "cancelBySession",
                "processStaffPayment", "confirmOrderPayment",
                "recordStaffPayment", "createPayment", "createOnlinePayment",
                "confirmPayment", "failPayment", "retryPayment",
                "refundOrder", "createTip"}

\* The entry points that insert a payment row, at most one per request.
InsertingEntryPoints == {"createGuestOrder", "updateStatus",
                         "processStaffPayment", "recordStaffPayment",
                         "createPayment", "createOnlinePayment",
                         "retryPayment", "createTip"}

ASSUME ConstantsAssumption ==
  /\ IsFiniteSet(Payment)
  /\ NoOrder \notin Order /\ NoPayment \notin Payment /\ NoSession \notin Session
  /\ TypeOf \in [Order -> OrderType]
  /\ SessionOf \in [Order -> Session \union {NoSession}]
  /\ \A o \in Order : TypeOf[o] = "DINE_IN" <=> SessionOf[o] # NoSession
  /\ MaxMoney \in Nat /\ Total \in 1 .. MaxMoney
  /\ StaffAmounts \subseteq 0 .. MaxMoney
  /\ ClientAmounts \subseteq 0 .. MaxMoney
  /\ TipAmounts \subseteq 0 .. MaxMoney /\ GuestTipMax \in Nat
  /\ Enabled \subseteq EntryPoints
  /\ InitiateResults \subseteq {"redirect", "instant", "manual"}
  /\ AutoAccept \in BOOLEAN /\ MayFail \in BOOLEAN
  /\ \A tip \in TipAmounts : Total + tip \in 0 .. MaxMoney

-----------------------------------------------------------------------------
(* Data. *)

\* What a money column can hold; Postgres rejects the statement beyond it.
Money == 0 .. MaxMoney

OrderPaymentStatus == {"UNPAID", "PARTIALLY_PAID", "PAID", "FAILED", "REFUNDED"}

\* The columns of an orders row that change after the insert.
OrderRow == [status : OrderStatus \union {"ABSENT"},
             paymentStatus : OrderPaymentStatus,
             tipAmount : Money]

AbsentRow == [status |-> "ABSENT", paymentStatus |-> "UNPAID", tipAmount |-> 0]

\* Who created the payment: the cashier queue, a member of staff, a provider
\* (it then carries a providerRef), a client of POST /payments, a guest tip.
Origin == {"QUEUE", "STAFF", "PROVIDER", "CLIENT", "TIP"}

PaymentRow == [status : {"ABSENT", "PENDING", "CONFIRMED", "FAILED"},
               order : Order \union {NoOrder},
               amount : Money,
               tipAmount : Money,
               origin : Origin]

AbsentPayment == [status |-> "ABSENT", order |-> NoOrder, amount |-> 0,
                  tipAmount |-> 0, origin |-> "CLIENT"]

\* OPEN_ORDER_STATUSES: what keeps a table session open.
OpenOrderStatuses == {"CREATED", "CONFIRMED", "IN_KITCHEN", "READY", "DELIVERED"}

\* The awaits at which a handler can be suspended.
Step == {"idle", "insertOrder", "readOrder", "initiate", "findPending",
         "insertPayment", "sumTips", "sumPayments", "saveAndAdvance", "save",
         "confirmRow", "transition", "refresh", "openPayment", "countSold",
         "writeTip"}

\* withinTransaction callbacks of transitionOrder.
Within == {"nothing", "newPayment", "closeWithPayment"}

\* A handler's local variables: what it was asked, and what it has read.
Job == [entry : EntryPoints \union {"none"},
        order : Order \union {NoOrder},
        actor : Actor,
        next : OrderStatus,
        row : OrderRow,
        payment : Payment \union {NoPayment},
        amount : Money,
        tip : Money,
        within : Within]

NoJob == [entry |-> "none", order |-> NoOrder, actor |-> "system",
          next |-> "CREATED", row |-> AbsentRow, payment |-> NoPayment,
          amount |-> 0, tip |-> 0, within |-> "nothing"]

\* The product counter is only compared with 0, 1 and "more".
SoldCap == 2

VARIABLES
  orders,     \* [Order -> OrderRow], the orders table
  payments,   \* [Payment -> PaymentRow], the payments table
  sessions,   \* [Session -> {"unopened", "active", "closed"}], isActive
  sold,       \* [Order -> 0..SoldCap], times its items were added to totalOrderCount
  pc,         \* [Request -> Step]
  job         \* [Request -> Job]

vars == <<orders, payments, sessions, sold, pc, job>>

TypeOK ==
  /\ orders \in [Order -> OrderRow]
  /\ payments \in [Payment -> PaymentRow]
  /\ sessions \in [Session -> {"unopened", "active", "closed"}]
  /\ sold \in [Order -> 0 .. SoldCap]
  /\ pc \in [Request -> Step]
  /\ job \in [Request -> Job]

Init ==
  /\ orders = [o \in Order |-> AbsentRow]
  /\ payments = [p \in Payment |-> AbsentPayment]
  /\ sessions = [s \in Session |-> "unopened"]
  /\ sold = [o \in Order |-> 0]
  /\ pc = [r \in Request |-> "idle"]
  /\ job = [r \in Request |-> NoJob]

-----------------------------------------------------------------------------
(* Queries. *)

\* SUM(p.amount) and SUM(p.tipAmount) over an order's CONFIRMED payments, the
\* units of money counted one by one.
Units(rows, column, o) ==
  {unit \in Payment \X (1 .. MaxMoney) : /\ rows[unit[1]].status = "CONFIRMED"
                                         /\ rows[unit[1]].order = o
                                         /\ unit[2] <= column[unit[1]]}
SumConfirmed(rows, column, o) == Cardinality(Units(rows, column, o))
PaidTotal(o) == SumConfirmed(payments, [p \in Payment |-> payments[p].amount], o)
RecomputeOrderTipAmount(rows, o) ==
  SumConfirmed(rows, [p \in Payment |-> rows[p].tipAmount], o)

UnusedPayments == {p \in Payment : payments[p].status = "ABSENT"}

\* Bound: a request that will insert a payment starts only if an id is left for it.
RoomForPayment ==
  Cardinality({r \in Request : /\ pc[r] # "idle"
                               /\ job[r].entry \in InsertingEntryPoints})
    < Cardinality(UnusedPayments)

OpenOrders(s) == {o \in Order : /\ SessionOf[o] = s
                                /\ orders[o].status \in OpenOrderStatuses}

NewPayment(o, status, amount, tip, origin) ==
  [status |-> status, order |-> o, amount |-> amount, tipAmount |-> tip,
   origin |-> origin]

-----------------------------------------------------------------------------
(* Control of a request. *)

\* A request enters through entry and is suspended at step with locals j.
Enter(r, entry, step, j) ==
  /\ entry \in Enabled
  /\ pc[r] = "idle"
  /\ entry \in InsertingEntryPoints => RoomForPayment
  /\ pc' = [pc EXCEPT ![r] = step]
  /\ job' = [job EXCEPT ![r] = [j EXCEPT !.entry = entry]]

\* It moves on to another await with locals j.
Proceed(r, step, j) ==
  /\ pc' = [pc EXCEPT ![r] = step]
  /\ job' = [job EXCEPT ![r] = j]

\* It returns or throws.
Finish(r) == Proceed(r, "idle", NoJob)

Asks(o, next, actor) ==
  [NoJob EXCEPT !.order = o, !.next = next, !.actor = actor]

Placed(o) == orders[o].status # "ABSENT"

-----------------------------------------------------------------------------
(* Placing an order. *)

\* scan / getOrCreateDefaultSessionForTable: a new session is opened.
OpenSession(s) ==
  /\ sessions[s] = "unopened"
  /\ sessions' = [sessions EXCEPT ![s] = "active"]
  /\ UNCHANGED <<orders, payments, sold, pc, job>>

\* Order o is still to be inserted and no other request is inserting it.
Insertable(o) ==
  /\ ~ Placed(o)
  /\ \A q \in Request : pc[q] = "insertOrder" => job[q].order # o

\* createFromQr, createGuestOrder: the session is active when it is looked up.
PlaceAsGuest(r, o, entry) ==
  /\ entry \in {"createFromQr", "createGuestOrder"}
  /\ Insertable(o) /\ SessionOf[o] # NoSession
  /\ sessions[SessionOf[o]] = "active"
  /\ Enter(r, entry, "insertOrder", [NoJob EXCEPT !.order = o])
  /\ UNCHANGED <<orders, payments, sessions, sold>>

\* createFromStaff: a DINE_IN order needs a session active at this moment.
CreateFromStaff(r, o) ==
  /\ Insertable(o)
  /\ SessionOf[o] # NoSession => sessions[SessionOf[o]] = "active"
  /\ Enter(r, "createFromStaff", "insertOrder", [NoJob EXCEPT !.order = o])
  /\ UNCHANGED <<orders, payments, sessions, sold>>

\* The insert.  The guest paths lock the session first and reactivate it
\* (lockAndReactivateSession); the staff path touches no session and goes on
\* to confirm the order.
InsertOrder(r) ==
  LET o == job[r].order IN
  /\ pc[r] = "insertOrder"
  /\ orders' = [orders EXCEPT ![o] = [AbsentRow EXCEPT !.status = "CREATED"]]
  /\ \/ /\ job[r].entry = "createFromStaff"
        /\ Proceed(r, "transition", [job[r] EXCEPT !.next = "CONFIRMED"])
        /\ UNCHANGED sessions
     \/ /\ job[r].entry # "createFromStaff"
        /\ sessions' = [sessions EXCEPT ![SessionOf[o]] = "active"]
        /\ IF job[r].entry = "createFromQr"
           THEN Finish(r)
           ELSE Proceed(r, "readOrder", job[r])
  /\ UNCHANGED <<payments, sold>>

\* createGuestOrder after its insert.  ON_PREMISE capture and a "manual"
\* provider leave the order to staff; a provider may also throw.
InitiateManually(r) ==
  /\ pc[r] = "initiate"
  /\ Finish(r)
  /\ UNCHANGED <<orders, payments, sessions, sold>>

\* A redirect provider hands out a providerRef for a PENDING payment.
InitiateRedirect(r, p) ==
  /\ pc[r] = "initiate" /\ "redirect" \in InitiateResults
  /\ p \in UnusedPayments
  /\ payments' = [payments EXCEPT
                    ![p] = NewPayment(job[r].order, "PENDING", Total, 0, "PROVIDER")]
  /\ Finish(r)
  /\ UNCHANGED <<orders, sessions, sold>>

\* An instant provider has the money: the copy read before initiate() is saved
\* as PAID and the order is confirmed.
InitiateInstant(r, p) ==
  /\ pc[r] = "initiate" /\ "instant" \in InitiateResults
  /\ p \in UnusedPayments
  /\ payments' = [payments EXCEPT
                    ![p] = NewPayment(job[r].order, "CONFIRMED", Total, 0, "PROVIDER")]
  /\ Proceed(r, "save", [job[r] EXCEPT !.row.paymentStatus = "PAID",
                                       !.next = "CONFIRMED"])
  /\ UNCHANGED <<orders, sessions, sold>>

-----------------------------------------------------------------------------
(* Requests that end in transitionOrder. *)

\* PATCH /orders/:id/status.  The permission checks see an unlocked read; the role
\* they ask for, of the request's business, is that of the token too
\* (TenantAccessService.buildBusinessContext).
UpdateStatus(r, o, next, actor) ==
  /\ Placed(o) /\ actor # "system"
  /\ next = "CANCELLED" => AssertCancellationPermission(actor, orders[o].status)
  /\ AssertKitchenTransitionPermission(actor, next)
  /\ Enter(r, "updateStatus", "transition", Asks(o, next, ResolveActor(actor)))
  /\ UNCHANGED <<orders, payments, sessions, sold>>

\* POST /orders/:id/confirm
ConfirmOrder(r, o, actor) ==
  /\ orders[o].status = "CREATED"
  /\ actor \in {"owner", "MANAGER", "WAITER"}
  /\ Enter(r, "confirmOrder", "transition", Asks(o, "CONFIRMED", ResolveActor(actor)))
  /\ UNCHANGED <<orders, payments, sessions, sold>>

\* POST /orders/:id/cancel by the guest, driven as "system".
CancelBySession(r, o) ==
  /\ SessionOf[o] # NoSession /\ orders[o].status = "CREATED"
  /\ Enter(r, "cancelBySession", "transition", Asks(o, "CANCELLED", "system"))
  /\ UNCHANGED <<orders, payments, sessions, sold>>

\* Cash or POS taken by staff: the payment row is created in the closing transaction.
ProcessStaffPayment(r, o, tip) ==
  /\ orders[o].status = IF TypeOf[o] = "DINE_IN" THEN "DELIVERED" ELSE "READY"
  /\ Enter(r, "processStaffPayment", "transition",
           [Asks(o, "CLOSED", "system") EXCEPT !.tip = tip, !.within = "newPayment"])
  /\ UNCHANGED <<orders, payments, sessions, sold>>

\* POST /orders/:id/payment/confirm: first the order is read, then a PENDING payment.
ConfirmOrderPayment(r, o, tip) ==
  /\ orders[o].status = "DELIVERED"
  /\ Enter(r, "confirmOrderPayment", "findPending",
           [Asks(o, "CLOSED", "system") EXCEPT !.tip = tip])
  /\ UNCHANGED <<orders, payments, sessions, sold>>

FindPending(r) ==
  LET pending == {p \in Payment : /\ payments[p].status = "PENDING"
                                  /\ payments[p].order = job[r].order}
  IN
  /\ pc[r] = "findPending"
  /\ \/ \E p \in pending :
          Proceed(r, "transition",
                  [job[r] EXCEPT !.payment = p, !.within = "closeWithPayment",
                                 !.tip = IF @ = 0 THEN payments[p].tipAmount ELSE @])
     \/ pending = {} /\ Finish(r)
  /\ UNCHANGED <<orders, payments, sessions, sold>>

-----------------------------------------------------------------------------
(* transitionOrder.  The order row is locked and read again, the step is   *)
(* checked against what is committed, the callback runs in the same        *)
(* transaction; everything after the commit is a later step.               *)

\* Slip: the status is not read again once the lock is held.
MayTransitionOnStaleStatus(r) == pc[r] = "transition"

MayTransition(r) ==
  LET o == job[r].order IN
  /\ pc[r] = "transition"
  /\ CanTransition(TypeOf[o], orders[o].status, job[r].next, job[r].actor)

\* Slip: a cancelled order does not refresh its session.
AfterCommitCancelForgotten(r) ==
  LET o == job[r].order
      rest == [Asks(o, job[r].next, "system") EXCEPT !.entry = job[r].entry]
  IN
  CASE job[r].next = "CLOSED" /\ SessionOf[o] # NoSession -> Proceed(r, "refresh", rest)
    [] job[r].next = "CLOSED" /\ SessionOf[o] = NoSession -> Proceed(r, "countSold", rest)
    [] job[r].next = "DELIVERED" -> Proceed(r, "openPayment", rest)
    [] OTHER -> Finish(r)

\* What a committed transition still has to do.
AfterCommit(r) ==
  LET o == job[r].order
      next == job[r].next
      rest == [Asks(o, next, "system") EXCEPT !.entry = job[r].entry]
  IN
  IF SessionOf[o] # NoSession /\ next \notin OpenOrderStatuses
    THEN Proceed(r, "refresh", rest)
  ELSE IF next = "DELIVERED" THEN Proceed(r, "openPayment", rest)
  ELSE IF next = "CLOSED" THEN Proceed(r, "countSold", rest)
  ELSE Finish(r)

TransitionOrder(r) ==
  /\ MayTransition(r) /\ job[r].within = "nothing"
  /\ orders' = [orders EXCEPT ![job[r].order].status = job[r].next]
  /\ AfterCommit(r)
  /\ UNCHANGED <<payments, sessions, sold>>

\* Slip: the request's own tip overwrites the sum of all tips.
CommitSettledFlatTip(r, rows) ==
  /\ payments' = rows
  /\ orders' = [orders EXCEPT
                  ![job[r].order] = [status |-> job[r].next, paymentStatus |-> "PAID",
                                     tipAmount |-> job[r].tip]]
  /\ AfterCommit(r)
  /\ UNCHANGED <<sessions, sold>>

\* Slip: the width of the tipAmount column is forgotten.
CommitSettledUnbounded(r, rows) ==
  LET o == job[r].order IN
  /\ payments' = rows
  /\ orders' = [orders EXCEPT
                  ![o] = [status |-> job[r].next, paymentStatus |-> "PAID",
                          tipAmount |-> RecomputeOrderTipAmount(rows, o)]]
  /\ AfterCommit(r)
  /\ UNCHANGED <<sessions, sold>>

\* The close of an order together with the payment rows that settle it.
CommitSettled(r, rows) ==
  LET o == job[r].order IN
  /\ \/ /\ RecomputeOrderTipAmount(rows, o) \in Money
        /\ payments' = rows
        /\ orders' = [orders EXCEPT
                        ![o] = [status |-> job[r].next, paymentStatus |-> "PAID",
                                tipAmount |-> RecomputeOrderTipAmount(rows, o)]]
        /\ AfterCommit(r)
     \/ /\ RecomputeOrderTipAmount(rows, o) \notin Money
        /\ Finish(r)
        /\ UNCHANGED <<orders, payments>>
  /\ UNCHANGED <<sessions, sold>>

\* processStaffPayment's callback inserts the payment.
TransitionWithNewPayment(r, p) ==
  /\ MayTransition(r) /\ job[r].within = "newPayment"
  /\ p \in UnusedPayments
  /\ CommitSettled(r, [payments EXCEPT
       ![p] = NewPayment(job[r].order, "CONFIRMED", Total + job[r].tip,
                         job[r].tip, "STAFF")])

\* closeWithPayment's callback saves the payment it was handed, whatever its
\* row has become since it was read.
TransitionWithPayment(r) ==
  /\ MayTransition(r) /\ job[r].within = "closeWithPayment"
  /\ CommitSettled(r, [payments EXCEPT ![job[r].payment].status = "CONFIRMED",
                                       ![job[r].payment].tipAmount = job[r].tip])

\* The transition is refused, the transaction rolled back.
RejectTransition(r) ==
  /\ pc[r] = "transition" /\ ~ MayTransition(r)
  /\ Finish(r)
  /\ UNCHANGED <<orders, payments, sessions, sold>>

\* refreshLifecycle: closes the session under its lock once no order is open.
RefreshLifecycle(r) ==
  LET s == SessionOf[job[r].order] IN
  /\ pc[r] = "refresh"
  /\ sessions' = IF sessions[s] = "active" /\ OpenOrders(s) = {}
                 THEN [sessions EXCEPT ![s] = "closed"] ELSE sessions
  /\ IF job[r].next = "CLOSED" THEN Proceed(r, "countSold", job[r]) ELSE Finish(r)
  /\ UNCHANGED <<orders, payments, sold>>

\* products.totalOrderCount of the items of a closed order.
CountSold(r) ==
  LET o == job[r].order IN
  /\ pc[r] = "countSold"
  /\ sold' = [sold EXCEPT ![o] = IF @ < SoldCap THEN @ + 1 ELSE @]
  /\ Finish(r)
  /\ UNCHANGED <<orders, payments, sessions>>

\* Slip: the payment is opened but a business that accepts it at once forgets to.
OpenPaymentNeverAccepted(r, p) ==
  /\ pc[r] = "openPayment"
  /\ p \in UnusedPayments
  /\ payments' = [payments EXCEPT
                    ![p] = NewPayment(job[r].order, "PENDING", Total, 0, "QUEUE")]
  /\ Finish(r)
  /\ UNCHANGED <<orders, sessions, sold>>

\* openPaymentForCashier runs detached once an order is served.
OpenPaymentForCashier(r, p) ==
  /\ pc[r] = "openPayment"
  /\ p \in UnusedPayments
  /\ payments' = [payments EXCEPT
                    ![p] = NewPayment(job[r].order, "PENDING", Total, 0, "QUEUE")]
  /\ IF AutoAccept
     THEN Proceed(r, "transition", [job[r] EXCEPT !.next = "CLOSED", !.payment = p,
                                                  !.within = "closeWithPayment"])
     ELSE Finish(r)
  /\ UNCHANGED <<orders, sessions, sold>>

-----------------------------------------------------------------------------
(* Requests that save an order row they have read. *)

\* POST /orders/:id/payments: any order, any amount.
RecordStaffPayment(r, o, amount, tip) ==
  /\ Placed(o)
  /\ Enter(r, "recordStaffPayment", "insertPayment",
           [NoJob EXCEPT !.order = o, !.row = orders[o], !.amount = amount, !.tip = tip])
  /\ UNCHANGED <<orders, payments, sessions, sold>>

InsertPayment(r, p) ==
  /\ pc[r] = "insertPayment"
  /\ p \in UnusedPayments
  /\ payments' = [payments EXCEPT
                    ![p] = NewPayment(job[r].order, "CONFIRMED", job[r].amount,
                                      job[r].tip, "STAFF")]
  /\ Proceed(r, "sumTips", [job[r] EXCEPT !.amount = 0, !.tip = 0])
  /\ UNCHANGED <<orders, sessions, sold>>

SumTips(r) ==
  LET tips == RecomputeOrderTipAmount(payments, job[r].order) IN
  /\ pc[r] = "sumTips"
  /\ IF tips \in Money
     THEN Proceed(r, "sumPayments", [job[r] EXCEPT !.row.tipAmount = tips])
     ELSE Finish(r)
  /\ UNCHANGED <<orders, payments, sessions, sold>>

\* Slip: any confirmed money counts as payment in full.
SumPaymentsAnyAmount(r) ==
  /\ pc[r] = "sumPayments"
  /\ Proceed(r, "saveAndAdvance",
             [job[r] EXCEPT !.row.paymentStatus =
                IF PaidTotal(job[r].order) > 0 THEN "PAID" ELSE @])
  /\ UNCHANGED <<orders, payments, sessions, sold>>

\* recomputeAndAdvance, first its SUM ...
SumPayments(r) ==
  LET paid == PaidTotal(job[r].order) IN
  /\ pc[r] = "sumPayments"
  /\ Proceed(r, "saveAndAdvance",
             [job[r] EXCEPT !.row.paymentStatus =
                CASE paid >= Total + job[r].row.tipAmount -> "PAID"
                  [] paid \in 1 .. (Total + job[r].row.tipAmount - 1) -> "PARTIALLY_PAID"
                  [] OTHER -> @])
  /\ UNCHANGED <<orders, payments, sessions, sold>>

\* ... then the save of the copy, and the step its status calls for.
SaveAndAdvance(r) ==
  LET o == job[r].order
      row == job[r].row
      advanceTo(next) ==
        Proceed(r, "transition", [job[r] EXCEPT !.next = next, !.row = AbsentRow])
  IN
  /\ pc[r] = "saveAndAdvance"
  /\ orders' = [orders EXCEPT ![o] = row]
  /\ IF row.paymentStatus = "PAID" /\ row.status = "CREATED"
       THEN advanceTo("CONFIRMED")
     ELSE IF /\ row.paymentStatus = "PAID"
             /\ \/ row.status = "DELIVERED"
                \/ row.status = "READY" /\ TypeOf[o] = "TAKEAWAY"
       THEN advanceTo("CLOSED")
     ELSE Finish(r)
  /\ UNCHANGED <<payments, sessions, sold>>

\* confirmPayment's locked transaction: PATCH /payments/:id/confirm, a PAID
\* callback or reconciliation.  A CONFIRMED row is left alone, a FAILED one refused.
ConfirmPayment(r, p) ==
  /\ payments[p].status = "PENDING"
  /\ payments' = [payments EXCEPT ![p].status = "CONFIRMED"]
  /\ Enter(r, "confirmPayment", "readOrder",
           [NoJob EXCEPT !.order = payments[p].order])
  /\ UNCHANGED <<orders, sessions, sold>>

\* POST /payments
CreatePayment(o, p, amount) ==
  /\ "createPayment" \in Enabled
  /\ Placed(o) /\ p \in UnusedPayments /\ RoomForPayment
  /\ payments' = [payments EXCEPT ![p] = NewPayment(o, "PENDING", amount, 0, "CLIENT")]
  /\ UNCHANGED <<orders, sessions, sold, pc, job>>

\* POST /payments with method ONLINE confirms it by a detached call.
CreateOnlinePayment(r, o, p, amount) ==
  /\ Placed(o) /\ p \in UnusedPayments
  /\ payments' = [payments EXCEPT ![p] = NewPayment(o, "PENDING", amount, 0, "CLIENT")]
  /\ Enter(r, "createOnlinePayment", "confirmRow",
           [NoJob EXCEPT !.order = o, !.payment = p])
  /\ UNCHANGED <<orders, sessions, sold>>

ConfirmRow(r) ==
  LET p == job[r].payment IN
  /\ pc[r] = "confirmRow"
  /\ \/ /\ payments[p].status = "PENDING"
        /\ payments' = [payments EXCEPT ![p].status = "CONFIRMED"]
        /\ Proceed(r, "readOrder", [job[r] EXCEPT !.payment = NoPayment])
     \/ /\ payments[p].status # "PENDING"
        /\ Finish(r)
        /\ UNCHANGED payments
  /\ UNCHANGED <<orders, sessions, sold>>

\* Slip: a late FAILED callback is applied to a payment already decided.
FailPaymentUnchecked(r, p) ==
  /\ payments[p].status # "ABSENT" /\ payments[p].origin = "PROVIDER"
  /\ payments' = [payments EXCEPT ![p].status = "FAILED"]
  /\ Enter(r, "failPayment", "readOrder", [NoJob EXCEPT !.order = payments[p].order])
  /\ UNCHANGED <<orders, sessions, sold>>

\* failPayment's locked transaction: a FAILED callback or reconciliation.
FailPayment(r, p) ==
  /\ payments[p].status = "PENDING" /\ payments[p].origin = "PROVIDER"
  /\ payments' = [payments EXCEPT ![p].status = "FAILED"]
  /\ Enter(r, "failPayment", "readOrder", [NoJob EXCEPT !.order = payments[p].order])
  /\ UNCHANGED <<orders, sessions, sold>>

\* The order is read outside any lock; the copy is what a later save writes.
ReadOrder(r) ==
  LET copy == [job[r] EXCEPT !.row = orders[job[r].order]] IN
  /\ pc[r] = "readOrder"
  /\ CASE job[r].entry = "createGuestOrder" -> Proceed(r, "initiate", copy)
       [] job[r].entry = "failPayment" ->
            Proceed(r, "save", [copy EXCEPT !.row.paymentStatus = "FAILED",
                                            !.next = "PAYMENT_FAILED"])
       [] OTHER -> Proceed(r, "sumPayments", copy)
  /\ UNCHANGED <<orders, payments, sessions, sold>>

RetryPayment(r, o) ==
  /\ orders[o].status = "PAYMENT_FAILED"
  /\ Enter(r, "retryPayment", "save",
           [Asks(o, "DELIVERED", "system") EXCEPT
              !.row = [orders[o] EXCEPT !.paymentStatus = "UNPAID"]])
  /\ UNCHANGED <<orders, payments, sessions, sold>>

RefundOrder(r, o) ==
  /\ orders[o].status = "CLOSED"
  /\ Enter(r, "refundOrder", "save",
           [Asks(o, "REFUNDED", "system") EXCEPT
              !.row = [orders[o] EXCEPT !.paymentStatus = "REFUNDED"]])
  /\ UNCHANGED <<orders, payments, sessions, sold>>

\* markPaymentFailed, retryPayment, refundOrder, an instant payment: save, then move on.
Save(r) ==
  /\ pc[r] = "save"
  /\ orders' = [orders EXCEPT ![job[r].order] = job[r].row]
  /\ Proceed(r, "transition", [job[r] EXCEPT !.row = AbsentRow])
  /\ UNCHANGED <<payments, sessions, sold>>

-----------------------------------------------------------------------------
(* The guest tip. *)

\* Twice the subtotal (GUEST_TIP_SUBTOTAL_MULTIPLIER_CAP), or the absolute maximum.
GuestTipCap == IF GuestTipMax <= 2 * Total THEN GuestTipMax ELSE 2 * Total

\* TableSessionGuard finds an active session and one of its orders.
CreateTip(r, o, tip) ==
  /\ Placed(o) /\ SessionOf[o] # NoSession /\ sessions[SessionOf[o]] = "active"
  /\ Enter(r, "createTip", "writeTip", [NoJob EXCEPT !.order = o, !.tip = tip])
  /\ UNCHANGED <<orders, payments, sessions, sold>>

Tippable(r) ==
  pc[r] = "writeTip" /\ orders[job[r].order].status = "DELIVERED"
                     /\ job[r].tip <= GuestTipCap

\* writeTip under the order lock; a replayed key returns without writing.
WriteTip(r, p) ==
  LET o == job[r].order
      rows == [payments EXCEPT
                 ![p] = NewPayment(o, "CONFIRMED", job[r].tip, job[r].tip, "TIP")]
  IN
  /\ Tippable(r) /\ p \in UnusedPayments
  /\ Finish(r)
  /\ \/ /\ RecomputeOrderTipAmount(rows, o) \in Money
        /\ payments' = rows
        /\ orders' = [orders EXCEPT ![o].tipAmount = RecomputeOrderTipAmount(rows, o)]
     \/ /\ RecomputeOrderTipAmount(rows, o) \notin Money
        /\ UNCHANGED <<orders, payments>>
  /\ UNCHANGED <<sessions, sold>>

RefuseTip(r) ==
  /\ pc[r] = "writeTip" /\ ~ Tippable(r)
  /\ Finish(r)
  /\ UNCHANGED <<orders, payments, sessions, sold>>

-----------------------------------------------------------------------------

\* A database error or a crash of the process ends a handler at any await.
Die(r) ==
  /\ MayFail /\ pc[r] # "idle"
  /\ Finish(r)
  /\ UNCHANGED <<orders, payments, sessions, sold>>

\* The arrivals of requests.
Arrive(r) ==
  \/ \E o \in Order :
       \/ \E entry \in {"createFromQr", "createGuestOrder"} : PlaceAsGuest(r, o, entry)
       \/ CreateFromStaff(r, o)
       \/ \E next \in OrderStatus, actor \in Actor : UpdateStatus(r, o, next, actor)
       \/ \E actor \in Actor : ConfirmOrder(r, o, actor)
       \/ CancelBySession(r, o)
       \/ \E tip \in TipAmounts : ProcessStaffPayment(r, o, tip)
       \/ \E tip \in TipAmounts : ConfirmOrderPayment(r, o, tip)
       \/ \E amount \in StaffAmounts, tip \in TipAmounts :
            RecordStaffPayment(r, o, amount, tip)
       \/ \E p \in Payment, amount \in ClientAmounts :
            CreateOnlinePayment(r, o, p, amount)
       \/ RetryPayment(r, o)
       \/ RefundOrder(r, o)
       \/ \E tip \in TipAmounts : CreateTip(r, o, tip)
  \/ \E p \in Payment : ConfirmPayment(r, p) \/ FailPayment(r, p)

\* The next step of a request in flight.
Run(r) ==
  \/ InsertOrder(r) \/ ReadOrder(r) \/ InitiateManually(r) \/ FindPending(r)
  \/ SumTips(r) \/ SumPayments(r) \/ SaveAndAdvance(r) \/ Save(r)
  \/ ConfirmRow(r) \/ RefreshLifecycle(r) \/ CountSold(r)
  \/ TransitionOrder(r) \/ TransitionWithPayment(r) \/ RejectTransition(r)
  \/ RefuseTip(r)
  \/ \E p \in Payment :
       \/ InitiateRedirect(r, p) \/ InitiateInstant(r, p)
       \/ InsertPayment(r, p) \/ TransitionWithNewPayment(r, p)
       \/ OpenPaymentForCashier(r, p) \/ WriteTip(r, p)

Next ==
  \/ \E s \in Session : OpenSession(s)
  \/ \E o \in Order, p \in Payment, amount \in ClientAmounts : CreatePayment(o, p, amount)
  \/ \E r \in Request : Arrive(r) \/ Run(r) \/ Die(r)

Spec == Init /\ [][Next]_vars

\* Node's event loop and Postgres eventually run the next step of a handler.
FairSpec == Spec /\ \A r \in Request : WF_vars(Run(r))

-----------------------------------------------------------------------------
(* Properties of every run. *)

\* Money that has been taken stays taken: no late FAILED callback, duplicate
\* confirmation or stale save changes a CONFIRMED payment (payments.service.ts,
\* the status checks under the payment lock).
ConfirmedPaymentsAreFinal ==
  [][\A p \in Payment :
       payments[p].status = "CONFIRMED" =>
         /\ payments'[p].status = "CONFIRMED"
         /\ payments'[p].order = payments[p].order
         /\ payments'[p].amount = payments[p].amount]_vars

\* An order shown as PAID has confirmed payments for at least its total
\* (recomputeAndAdvance, closeWithPayment), in spite of stale saves.  Payments
\* of POST /payments are taken to be for the total.
PaidMeansCovered ==
  \A o \in Order : orders[o].paymentStatus = "PAID" => PaidTotal(o) >= Total

-----------------------------------------------------------------------------
(* Properties of the entry points that write orders under the row lock.    *)

LockedEntryPoints == {"createFromQr", "createFromStaff", "updateStatus",
                      "confirmOrder", "cancelBySession", "processStaffPayment",
                      "confirmOrderPayment", "createPayment", "createTip"}

Settles(p) == payments[p].status = "CONFIRMED" /\ payments[p].origin # "TIP"

\* However cash, POS and the cashier queue race, an order is paid for at most
\* once, and only if it was closed (the callbacks of transitionOrder).
SettledOnce ==
  \A p \in Payment :
    Settles(p) =>
      /\ orders[payments[p].order].status = "CLOSED"
      /\ \A q \in Payment :
           Settles(q) /\ payments[q].order = payments[p].order => q = p

\* order.tipAmount is the sum of the tips of the confirmed payments
\* (payment.entity.ts: "denormalized cache recomputed as SUM(tipAmount)").
TipCacheExact ==
  \A o \in Order : orders[o].tipAmount = RecomputeOrderTipAmount(payments, o)

\* The items of an order are counted as sold at most once.
SoldOnce == \A o \in Order : sold[o] <= 1

\* The abstract life of orders: status along the graph, settled by the close.
Lifecycle ==
  INSTANCE OrderLifecycle
    WITH status <- [o \in Order |-> orders[o].status],
         settled <- {payments[p].order : p \in {q \in Payment : Settles(q)}}

ImplementsLifecycle == Lifecycle!LifecycleSpec

-----------------------------------------------------------------------------
(* Liveness, when handlers do not die. *)

\* An order that is served leaves DELIVERED or lies in the cashier queue with a
\* payment to act on (openPaymentForCashier); where payments are accepted at
\* once it leaves DELIVERED (posAutoAcceptPayment).
ServedReachesCashier ==
  \A o \in Order :
    orders[o].status = "DELIVERED" ~>
      \/ orders[o].status # "DELIVERED"
      \/ /\ ~ AutoAccept
         /\ \E p \in Payment : /\ payments[p].order = o
                               /\ payments[p].status = "PENDING"

\* Once the last order of a session is settled the session closes, unless a
\* new order is placed (refreshLifecycle after every exit transition).
SettledSessionCloses ==
  \A s \in Session :
    (sessions[s] = "active" /\ OpenOrders(s) = {} /\ \E o \in Order : SessionOf[o] = s /\ Placed(o))
      ~> (sessions[s] = "closed" \/ OpenOrders(s) # {})

=============================================================================

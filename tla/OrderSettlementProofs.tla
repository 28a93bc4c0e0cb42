------------------------ MODULE OrderSettlementProofs ------------------------
(***************************************************************************)
(* What holds of every instance of OrderPayments whose requests enter      *)
(* through methods that write orders only under the row lock: an order is  *)
(* settled at most once, its cached tip is exact, what it sold is counted  *)
(* at most once, and OrderLifecycle is implemented.                        *)
(*                                                                         *)
(* The invariant says what each handler in flight knows of the order it    *)
(* holds (LockedControl), which payments a closing handler may confirm     *)
(* (HoldsPayment), and the property itself.  OrderEffect then says once    *)
(* what a step does to the orders, for the theorems that follow.           *)
(***************************************************************************)
EXTENDS OrderPaymentsProofs

\* Where handlers of these entry points can be suspended.
LockedSteps == {"idle", "insertOrder", "findPending", "transition", "refresh",
                "openPayment", "countSold", "writeTip"}

\* The payment a closing handler will confirm is its order's, and no tip.
HoldsPayment(r) ==
  LET p == job[r].payment IN
  /\ p \in Payment
  /\ payments[p].status # "ABSENT"
  /\ payments[p].origin # "TIP"
  /\ payments[p].order = job[r].order

\* A handler that asks for a transition: money moves only with a close, and no
\* handler of the server itself asks for a refund.
AsksSafely(r) ==
  /\ job[r].within # "nothing" => job[r].next = "CLOSED"
  /\ job[r].next = "REFUNDED" => job[r].actor # "system"
  /\ job[r].within = "closeWithPayment" => HoldsPayment(r)

LockedControl(r) ==
  /\ pc[r] \in LockedSteps
  /\ pc[r] = "insertOrder" =>
       /\ orders[job[r].order].status = "ABSENT"
       /\ job[r].entry \in {"createFromQr", "createFromStaff"}
       /\ job[r].within = "nothing"
  /\ pc[r] \notin {"idle", "insertOrder"} => Placed(job[r].order)
  /\ pc[r] = "findPending" => job[r].next = "CLOSED"
  /\ pc[r] = "transition" => AsksSafely(r)

\* Two handlers never insert the same order.
OneInsert ==
  \A q, r \in Request :
    pc[q] = "insertOrder" /\ pc[r] = "insertOrder" /\ job[q].order = job[r].order => q = r

\* A payment belongs to an order, and one not yet confirmed is not a tip.
PaymentsSound ==
  \A p \in Payment :
    /\ payments[p].status # "ABSENT" => payments[p].order \in Order
    /\ payments[p].status = "PENDING" => payments[p].origin # "TIP"

LockedInv ==
  /\ \A r \in Request : LockedControl(r)
  /\ OneInsert
  /\ PaymentsSound
  /\ SettledOnce

Inv == TypeInv /\ LockedInv

-----------------------------------------------------------------------------
(* What a step of one handler leaves to the others. *)

\* Payments in use keep their order and origin.
PaymentsKept ==
  \A p \in Payment :
    payments[p].status # "ABSENT" =>
      /\ payments'[p].status # "ABSENT"
      /\ payments'[p].order = payments[p].order
      /\ payments'[p].origin = payments[p].origin

\* Only order o changes status, and it does not disappear.
OnlyOrder(o) ==
  /\ \A x \in Order : x # o => orders'[x].status = orders[x].status
  /\ orders'[o].status # "ABSENT"

LEMMA SafelyKept ==
  ASSUME NEW q \in Request, AsksSafely(q), PaymentsKept, job'[q] = job[q]
  PROVE  AsksSafely(q)'
BY DEF AsksSafely, HoldsPayment, PaymentsKept

\* A handler that stays keeps what it knows when no order changes status ...
LEMMA StaysWhileOrdersStay ==
  ASSUME TypeInv, NEW q \in Request, LockedControl(q), PaymentsKept,
         pc'[q] = pc[q], job'[q] = job[q],
         \A x \in Order : orders'[x].status = orders[x].status
  PROVE  LockedControl(q)'
<1>1. pc[q] # "idle" => job[q].order \in Order
  BY DEF TypeInv, ControlTypeOK, RequestJob
<1>2. pc[q] = "transition" => AsksSafely(q)'
  BY SafelyKept DEF LockedControl
<1>3. QED BY <1>1, <1>2 DEF LockedControl, Placed

\* ... and when one order does that it is not about to insert.
LEMMA StaysWhileOrderMoves ==
  ASSUME TypeInv, NEW q \in Request, LockedControl(q), PaymentsKept,
         pc'[q] = pc[q], job'[q] = job[q],
         NEW o \in Order, OnlyOrder(o),
         pc[q] = "insertOrder" => job[q].order # o
  PROVE  LockedControl(q)'
<1>1. pc[q] # "idle" => job[q].order \in Order
  BY DEF TypeInv, ControlTypeOK, RequestJob
<1>2. pc[q] = "transition" => AsksSafely(q)'
  BY SafelyKept DEF LockedControl
<1>3. QED BY <1>1, <1>2 DEF LockedControl, Placed, OnlyOrder

\* The invariant after a step of r, from what the step does to r and the tables.
LEMMA StepOfOne ==
  ASSUME Inv, TypeInv', NEW r \in Request, OthersStay(r), PaymentsKept,
         \/ \A x \in Order : orders'[x].status = orders[x].status
         \/ \E o \in Order :
              /\ OnlyOrder(o)
              /\ \A q \in Request : q # r /\ pc[q] = "insertOrder" => job[q].order # o,
         pc'[r] = "insertOrder" =>
           \A q \in Request : q # r /\ pc[q] = "insertOrder" => job[q].order # job'[r].order,
         LockedControl(r)', PaymentsSound', SettledOnce'
  PROVE  Inv'
<1>1. ASSUME NEW q \in Request, q # r PROVE LockedControl(q)'
  BY <1>1, StaysWhileOrdersStay, StaysWhileOrderMoves DEF Inv, LockedInv, OthersStay
<1>2. OneInsert'
  BY DEF Inv, LockedInv, OneInsert, OthersStay
<1>3. QED BY <1>1, <1>2 DEF Inv, LockedInv

\* No payment begins to settle and no closed order moves.
LEMMA NothingSettles ==
  ASSUME Inv,
         \A p \in Payment :
           Settles(p)' => Settles(p) /\ payments'[p].order = payments[p].order,
         \A x \in Order : orders[x].status = "CLOSED" => orders'[x].status = "CLOSED"
  PROVE  SettledOnce'
<1>1. \A p \in Payment : Settles(p) => payments[p].order \in Order
  BY DEF Inv, LockedInv, PaymentsSound, Settles
<1>2. QED BY <1>1 DEF Inv, LockedInv, SettledOnce

\* One payment begins to settle, together with the close of its order.
LEMMA OneSettles ==
  ASSUME Inv, NEW p \in Payment, NEW o \in Order,
         \A q \in Payment :
           q # p /\ Settles(q)' => Settles(q) /\ payments'[q].order = payments[q].order,
         payments'[p].order = o,
         orders[o].status # "CLOSED", orders'[o].status = "CLOSED",
         \A x \in Order : x # o => orders'[x].status = orders[x].status
  PROVE  SettledOnce'
<1>1. \A q \in Payment :
        Settles(q) => payments[q].order \in Order /\ payments[q].order # o
  BY DEF Inv, LockedInv, PaymentsSound, SettledOnce, Settles
<1>2. QED BY <1>1 DEF Inv, LockedInv, SettledOnce

-----------------------------------------------------------------------------
(* The transition graph around CLOSED. *)

LEMMA ClosedLeavesByRefund ==
  ASSUME NEW type, NEW next, NEW actor, CanTransition(type, "CLOSED", next, actor)
  PROVE  next = "REFUNDED" /\ actor = "system"
<1>1. next # "CANCELLED" /\ <<"CLOSED", next>> \in Edges(type)
  BY DEF CanTransition, AssertTransition, TerminalStatuses, AssertCancelActor
<1>2. next = "REFUNDED"
  BY <1>1 DEF Edges, PreparationEdges, SettlementEdges
<1>3. actor \in RoleTransitions("REFUNDED")
  BY <1>1, <1>2 DEF CanTransition
<1>4. QED BY <1>2, <1>3 DEF RoleTransitions

LEMMA ClosesOpenOrder ==
  ASSUME NEW type, NEW current, NEW actor, CanTransition(type, current, "CLOSED", actor)
  PROVE  current # "CLOSED"
BY ClosedLeavesByRefund

-----------------------------------------------------------------------------
(* Requests that arrive. *)

\* Every request enters through a method that writes orders under the row lock.
OnlyLockedEntryPoints == Enabled \subseteq LockedEntryPoints

\* A handler that starts with locals j, one step after its first read.
LEMMA ArrivesSafely ==
  ASSUME Inv, TypeInv', NEW r \in Request, NEW entry, NEW step, NEW j \in RequestJob,
         Enter(r, entry, step, j), UNCHANGED <<orders, payments>>,
         step \in {"insertOrder", "findPending", "transition", "writeTip"},
         step = "insertOrder" =>
           /\ Insertable(j.order)
           /\ entry \in {"createFromQr", "createFromStaff"} /\ j.within = "nothing",
         step # "insertOrder" => Placed(j.order),
         step = "findPending" => j.next = "CLOSED",
         step = "transition" =>
           /\ j.within # "closeWithPayment"
           /\ j.within # "nothing" => j.next = "CLOSED"
           /\ j.next = "REFUNDED" => j.actor # "system"
  PROVE  Inv'
<1>1. /\ OthersStay(r) /\ pc'[r] = step /\ job'[r] = [j EXCEPT !.entry = entry]
      /\ pc[r] = "idle"
  BY DEF Enter, OthersStay, Inv, TypeInv, ControlTypeOK
<1>2. PaymentsKept /\ PaymentsSound'
  BY DEF PaymentsKept, PaymentsSound, Inv, LockedInv
<1>3. SettledOnce'
  BY DEF Inv, LockedInv, SettledOnce, Settles
<1>4. LockedControl(r)'
  <2>1. /\ job'[r].order = j.order /\ job'[r].next = j.next /\ job'[r].actor = j.actor
        /\ job'[r].within = j.within /\ job'[r].entry = entry
    BY <1>1 DEF RequestJob, Job
  <2>2. QED
    BY <1>1, <2>1 DEF LockedControl, LockedSteps, Placed, Insertable, AsksSafely
<1>5. step = "insertOrder" =>
        \A q \in Request : q # r /\ pc[q] = "insertOrder" => job[q].order # job'[r].order
  BY <1>1 DEF Insertable, RequestJob, Job
<1>6. QED
  BY <1>1, <1>2, <1>3, <1>4, <1>5, StepOfOne

LEMMA ArriveInv ==
  ASSUME OnlyLockedEntryPoints, Inv, TypeInv', NEW r \in Request, Arrive(r)
  PROVE  Inv'
<1> USE NoJobType, MoneyFacts DEF OnlyLockedEntryPoints
<1>1. ASSUME NEW o \in Order, NEW entry \in {"createFromQr", "createGuestOrder"},
             PlaceAsGuest(r, o, entry)
      PROVE  Inv'
  <2>1. [NoJob EXCEPT !.order = o] \in RequestJob
    BY DEF Job, RequestJob
  <2>2. entry = "createFromQr"
    BY <1>1 DEF PlaceAsGuest, Enter, LockedEntryPoints
  <2>3. QED
    BY <1>1, <2>1, <2>2, ArrivesSafely DEF PlaceAsGuest, NoJob
<1>2. ASSUME NEW o \in Order, CreateFromStaff(r, o) PROVE Inv'
  <2>1. [NoJob EXCEPT !.order = o] \in RequestJob
    BY DEF Job, RequestJob
  <2>2. QED
    BY <1>2, <2>1, ArrivesSafely DEF CreateFromStaff, NoJob
<1>3. ASSUME NEW o \in Order, NEW next \in OrderStatus, NEW actor \in Actor,
             UpdateStatus(r, o, next, actor)
      PROVE  Inv'
  <2>1. ResolveActor(actor) # "system" /\ ResolveActor(actor) \in Actor
    BY <1>3, ResolveActorType DEF UpdateStatus, ResolveActor
  <2>2. Asks(o, next, ResolveActor(actor)) \in RequestJob
    BY <2>1, AsksType
  <2>3. QED
    BY <1>3, <2>1, <2>2, ArrivesSafely DEF UpdateStatus, Asks, NoJob
<1>4. ASSUME NEW o \in Order, NEW actor \in Actor, ConfirmOrder(r, o, actor) PROVE Inv'
  <2>1. Asks(o, "CONFIRMED", ResolveActor(actor)) \in RequestJob
    BY ResolveActorType, AsksType DEF OrderStatus
  <2>2. QED
    BY <1>4, <2>1, ArrivesSafely DEF ConfirmOrder, Asks, NoJob, Placed
<1>5. ASSUME NEW o \in Order, CancelBySession(r, o) PROVE Inv'
  <2>1. Asks(o, "CANCELLED", "system") \in RequestJob
    BY AsksType DEF OrderStatus, Actor
  <2>2. QED
    BY <1>5, <2>1, ArrivesSafely DEF CancelBySession, Asks, NoJob, Placed
<1>6. ASSUME NEW o \in Order, NEW tip \in TipAmounts, ProcessStaffPayment(r, o, tip)
      PROVE  Inv'
  <2> DEFINE j == [Asks(o, "CLOSED", "system") EXCEPT !.tip = tip, !.within = "newPayment"]
  <2>1. Asks(o, "CLOSED", "system") \in RequestJob
    BY AsksType DEF OrderStatus, Actor
  <2>2. j \in RequestJob
    BY <2>1 DEF Job, RequestJob, Within
  <2>3. j.within = "newPayment" /\ j.next = "CLOSED" /\ j.order = o
    BY <2>1 DEF Job, RequestJob, Asks, NoJob
  <2>4. Placed(o)
    BY <1>6 DEF ProcessStaffPayment, Placed
  <2>5. QED
    BY <1>6, <2>2, <2>3, <2>4, ArrivesSafely DEF ProcessStaffPayment
<1>7. ASSUME NEW o \in Order, NEW tip \in TipAmounts, ConfirmOrderPayment(r, o, tip)
      PROVE  Inv'
  <2> DEFINE j == [Asks(o, "CLOSED", "system") EXCEPT !.tip = tip]
  <2>1. Asks(o, "CLOSED", "system") \in RequestJob /\ Asks(o, "CLOSED", "system").within = "nothing"
    BY AsksType DEF OrderStatus, Actor
  <2>2. j \in RequestJob
    BY <2>1 DEF Job, RequestJob
  <2>3. j.next = "CLOSED" /\ j.order = o
    BY <2>1 DEF Job, RequestJob, Asks, NoJob
  <2>4. QED
    BY <1>7, <2>2, <2>3, ArrivesSafely DEF ConfirmOrderPayment, Placed
<1>8. ASSUME NEW o \in Order, NEW tip \in TipAmounts, CreateTip(r, o, tip) PROVE Inv'
  <2>1. [NoJob EXCEPT !.order = o, !.tip = tip] \in RequestJob
    BY DEF Job, RequestJob
  <2>2. QED
    BY <1>8, <2>1, ArrivesSafely DEF CreateTip, NoJob
<1>9. QED
  BY <1>1, <1>2, <1>3, <1>4, <1>5, <1>6, <1>7, <1>8
     DEF Arrive, Enter, LockedEntryPoints, RecordStaffPayment, CreateOnlinePayment,
         RetryPayment, RefundOrder, ConfirmPayment, FailPayment

-----------------------------------------------------------------------------
(* The steps of a request in flight. *)

\* What every step of r that moves on knows of the others and of itself.
LEMMA Moving ==
  ASSUME Inv, NEW r \in Request, NEW step, NEW j, Proceed(r, step, j)
  PROVE  OthersStay(r) /\ pc'[r] = step /\ job'[r] = j
BY DEF Proceed, OthersStay, Inv, TypeInv, ControlTypeOK

\* A step that leaves both tables alone.
LEMMA MovesAlone ==
  ASSUME Inv, TypeInv', NEW r \in Request, UNCHANGED <<orders, payments>>,
         OthersStay(r), pc'[r] # "insertOrder", LockedControl(r)'
  PROVE  Inv'
<1>1. PaymentsKept /\ PaymentsSound' /\ SettledOnce'
  BY DEF PaymentsKept, PaymentsSound, Inv, LockedInv, SettledOnce, Settles
<1>2. QED BY <1>1, StepOfOne

LEMMA Idling ==
  ASSUME Inv, TypeInv', NEW r \in Request, UNCHANGED <<orders, payments>>, Finish(r)
  PROVE  Inv'
<1>1. OthersStay(r) /\ pc'[r] = "idle"
  BY Moving DEF Finish
<1>2. LockedControl(r)'
  BY <1>1 DEF LockedControl, LockedSteps
<1>3. QED BY <1>1, <1>2, MovesAlone

\* A payment row is inserted that does not settle: it is pending, or a tip.
LEMMA Inserting ==
  ASSUME Inv, NEW p \in UnusedPayments, NEW row \in PaymentRow,
         row.order \in Order, row.status \in {"PENDING", "CONFIRMED"},
         row.status = "PENDING" <=> row.origin # "TIP",
         payments' = [payments EXCEPT ![p] = row],
         \A x \in Order : orders'[x].status = orders[x].status
  PROVE  PaymentsKept /\ PaymentsSound' /\ SettledOnce'
<1>1. /\ payments'[p] = row
      /\ \A q \in Payment : q # p => payments'[q] = payments[q]
      /\ payments[p].status = "ABSENT" /\ p \in Payment
  BY DEF UnusedPayments, Inv, TypeInv, DataTypeOK, PaymentTable
<1>2. PaymentsKept
  BY <1>1 DEF PaymentsKept
<1>3. PaymentsSound'
  BY <1>1 DEF PaymentsSound, Inv, LockedInv
<1>4. \A q \in Payment : Settles(q)' => Settles(q) /\ payments'[q].order = payments[q].order
  BY <1>1 DEF Settles
<1>5. SettledOnce'
  BY <1>4, NothingSettles
<1>6. QED BY <1>2, <1>3, <1>5

\* Where a handler goes after a commit, and that its order is there.
LEMMA AfterCommitSafely ==
  ASSUME Inv, TypeInv', NEW r \in Request, pc[r] = "transition", AfterCommit(r),
         orders'[job[r].order].status # "ABSENT"
  PROVE  OthersStay(r) /\ pc'[r] # "insertOrder" /\ LockedControl(r)'
<1> DEFINE rest == [Asks(job[r].order, job[r].next, "system") EXCEPT !.entry = job[r].entry]
<1>1. PICK step \in {"refresh", "openPayment", "countSold"} :
        Proceed(r, step, rest) \/ Finish(r)
  BY DEF AfterCommit
<1>2. CASE Proceed(r, step, rest)
  <2>1. OthersStay(r) /\ pc'[r] = step /\ job'[r] = rest
    BY <1>2, Moving
  <2>2. rest.order = job[r].order
    BY NoJobType DEF Asks, Job, NoJob
  <2>3. QED BY <2>1, <2>2 DEF LockedControl, LockedSteps, Placed
<1>3. CASE Finish(r)
  <2>1. OthersStay(r) /\ pc'[r] = "idle"
    BY <1>3, Moving DEF Finish
  <2>2. QED BY <2>1 DEF LockedControl, LockedSteps
<1>4. QED BY <1>1, <1>2, <1>3

\* The order of a handler that waits for the lock has been placed, so that no
\* handler is about to insert it.
LEMMA NobodyInserts ==
  ASSUME Inv, NEW r \in Request, pc[r] = "transition"
  PROVE  \A q \in Request : q # r /\ pc[q] = "insertOrder" => job[q].order # job[r].order
BY DEF Inv, LockedInv, LockedControl, Placed

\* A close that confirms payment p of its order, all other payments kept.
LEMMA Settling ==
  ASSUME Inv, TypeInv', NEW r \in Request, NEW p \in Payment,
         NEW rows \in PaymentTable,
         MayTransition(r), job[r].within # "nothing", CommitSettled(r, rows),
         \A q \in Payment : q # p => rows[q] = payments[q],
         rows[p].order = job[r].order, rows[p].status = "CONFIRMED",
         payments[p].status # "ABSENT" =>
           rows[p].order = payments[p].order /\ rows[p].origin = payments[p].origin
  PROVE  Inv'
<1> DEFINE o == job[r].order
<1>0. pc[r] = "transition"
  BY DEF MayTransition
<1>1. o \in Order /\ job[r].next = "CLOSED" /\ orders[o].status # "CLOSED"
  <2>1. o \in Order
    BY <1>0 DEF Inv, TypeInv, ControlTypeOK, RequestJob
  <2>2. job[r].next = "CLOSED"
    BY <1>0 DEF Inv, LockedInv, LockedControl, AsksSafely
  <2>3. QED BY <2>1, <2>2, ClosesOpenOrder DEF MayTransition
<1>2. CASE RecomputeOrderTipAmount(rows, o) \notin Money
  BY <1>2, Idling DEF CommitSettled
<1>3. CASE RecomputeOrderTipAmount(rows, o) \in Money
  <2>1. /\ payments' = rows
        /\ orders' = [orders EXCEPT
                        ![o] = [status |-> job[r].next, paymentStatus |-> "PAID",
                                tipAmount |-> RecomputeOrderTipAmount(rows, o)]]
        /\ AfterCommit(r)
    BY <1>3 DEF CommitSettled
  <2>2. /\ orders'[o].status = "CLOSED"
        /\ \A x \in Order : x # o => orders'[x].status = orders[x].status
    BY <1>1, <2>1 DEF Inv, TypeInv, DataTypeOK
  <2>3. OthersStay(r) /\ pc'[r] # "insertOrder" /\ LockedControl(r)'
    BY <1>0, <2>1, <2>2, AfterCommitSafely
  <2>4. PaymentsKept
    BY <2>1 DEF PaymentsKept
  <2>5. PaymentsSound'
    BY <1>1, <2>1 DEF PaymentsSound, Inv, LockedInv
  <2>6. SettledOnce'
    <3>1. \A q \in Payment :
            q # p /\ Settles(q)' => Settles(q) /\ payments'[q].order = payments[q].order
      BY <2>1 DEF Settles
    <3>2. QED BY <1>1, <2>1, <2>2, <3>1, OneSettles
  <2>7. OnlyOrder(o)
    BY <2>2 DEF OnlyOrder
  <2>8. QED
    BY <1>0, <1>1, <2>3, <2>4, <2>5, <2>6, <2>7, NobodyInserts, StepOfOne
<1>4. QED BY <1>2, <1>3

LEMMA RunInv ==
  ASSUME Inv, TypeInv', NEW r \in Request, Run(r)
  PROVE  Inv'
<1> DEFINE o == job[r].order
<1>step. pc[r] \in LockedSteps /\ LockedControl(r)
  BY DEF Inv, LockedInv, LockedControl
<1>job. pc[r] # "idle" => job[r] \in RequestJob /\ o \in Order
  BY DEF Inv, TypeInv, ControlTypeOK, RequestJob
<1>1. CASE InsertOrder(r)
  <2> DEFINE j == [job[r] EXCEPT !.next = "CONFIRMED"]
  <2>1. /\ pc[r] = "insertOrder" /\ o \in Order /\ job[r] \in RequestJob
        /\ orders[o].status = "ABSENT" /\ job[r].within = "nothing"
    BY <1>1, <1>step, <1>job DEF InsertOrder, LockedControl
  <2>2. /\ orders'[o].status = "CREATED"
        /\ \A x \in Order : x # o => orders'[x] = orders[x]
    BY <1>1, <2>1 DEF InsertOrder, AbsentRow, Inv, TypeInv, DataTypeOK
  <2>3. Proceed(r, "transition", j) \/ Finish(r)
    BY <1>1, <1>step, <2>1 DEF InsertOrder, LockedControl
  <2>4. OthersStay(r) /\ pc'[r] # "insertOrder" /\ LockedControl(r)'
    <3>1. CASE Proceed(r, "transition", j)
      <4>1. OthersStay(r) /\ pc'[r] = "transition" /\ job'[r] = j
        BY <3>1, Moving
      <4>2. j.order = o /\ j.next = "CONFIRMED" /\ j.within = "nothing"
        BY <2>1 DEF RequestJob, Job
      <4>3. QED
        BY <2>2, <4>1, <4>2 DEF LockedControl, LockedSteps, Placed, AsksSafely
    <3>2. CASE Finish(r)
      <4>1. OthersStay(r) /\ pc'[r] = "idle"
        BY <3>2, Moving DEF Finish
      <4>2. QED BY <4>1 DEF LockedControl, LockedSteps
    <3>3. QED BY <2>3, <3>1, <3>2
  <2>5. PaymentsKept /\ PaymentsSound'
    BY <1>1 DEF InsertOrder, PaymentsKept, PaymentsSound, Inv, LockedInv
  <2>6. SettledOnce'
    BY <1>1, <2>1, <2>2, NothingSettles DEF InsertOrder, Settles
  <2>7. OnlyOrder(o)
    BY <2>2 DEF OnlyOrder
  <2>8. \A q \in Request : q # r /\ pc[q] = "insertOrder" => job[q].order # o
    BY <2>1 DEF Inv, LockedInv, OneInsert
  <2>9. QED
    BY <2>1, <2>4, <2>5, <2>6, <2>7, <2>8, StepOfOne
<1>2. CASE FindPending(r)
  <2>1. ASSUME NEW p \in Payment, payments[p].status = "PENDING", payments[p].order = o,
               Proceed(r, "transition",
                       [job[r] EXCEPT !.payment = p, !.within = "closeWithPayment",
                                      !.tip = IF @ = 0 THEN payments[p].tipAmount ELSE @])
        PROVE  OthersStay(r) /\ pc'[r] # "insertOrder" /\ LockedControl(r)'
    <3> DEFINE j == [job[r] EXCEPT !.payment = p, !.within = "closeWithPayment",
                                   !.tip = IF @ = 0 THEN payments[p].tipAmount ELSE @]
    <3>1. OthersStay(r) /\ pc'[r] = "transition" /\ job'[r] = j
      BY <2>1, Moving
    <3>2. /\ j.order = o /\ j.payment = p /\ j.next = job[r].next
          /\ job[r].next = "CLOSED" /\ Placed(o)
      BY <1>2, <1>job, <1>step DEF FindPending, LockedControl, RequestJob, Job
    <3>3. payments[p].origin # "TIP"
      BY <2>1 DEF Inv, LockedInv, PaymentsSound
    <3>4. payments' = payments /\ orders' = orders
      BY <1>2 DEF FindPending
    <3>5. QED
      BY <2>1, <3>1, <3>2, <3>3, <3>4
         DEF LockedControl, LockedSteps, Placed, AsksSafely, HoldsPayment
  <2>2. CASE Finish(r)
    BY <1>2, <2>2, Idling DEF FindPending
  <2>3. QED
    BY <1>2, <2>1, <2>2, MovesAlone DEF FindPending
<1>3. CASE RefreshLifecycle(r)
  <2>1. CASE Finish(r)
    BY <1>3, <2>1, Idling DEF RefreshLifecycle
  <2>2. CASE Proceed(r, "countSold", job[r])
    <3>1. OthersStay(r) /\ pc'[r] = "countSold" /\ job'[r] = job[r]
      BY <2>2, Moving
    <3>2. LockedControl(r)'
      BY <1>3, <1>step, <3>1 DEF RefreshLifecycle, LockedControl, LockedSteps, Placed
    <3>3. QED BY <1>3, <3>1, <3>2, MovesAlone DEF RefreshLifecycle
  <2>3. QED BY <1>3, <2>1, <2>2 DEF RefreshLifecycle
<1>4. CASE CountSold(r) \/ RejectTransition(r) \/ RefuseTip(r)
  BY <1>4, Idling DEF CountSold, RejectTransition, RefuseTip
<1>5. CASE TransitionOrder(r)
  <2>1. /\ pc[r] = "transition" /\ o \in Order /\ AsksSafely(r)
        /\ CanTransition(TypeOf[o], orders[o].status, job[r].next, job[r].actor)
    BY <1>5, <1>step, <1>job DEF TransitionOrder, MayTransition, LockedControl
  <2>2. orders[o].status # "CLOSED"
    BY <2>1, ClosedLeavesByRefund DEF AsksSafely
  <2>3. /\ orders'[o].status = job[r].next
        /\ \A x \in Order : x # o => orders'[x] = orders[x]
    BY <1>5, <2>1 DEF TransitionOrder, Inv, TypeInv, DataTypeOK, OrderRow
  <2>4. orders'[o].status # "ABSENT"
    BY <1>job, <2>1, <2>3 DEF RequestJob, Job, OrderStatus
  <2>5. OthersStay(r) /\ pc'[r] # "insertOrder" /\ LockedControl(r)'
    BY <1>5, <2>1, <2>4, AfterCommitSafely DEF TransitionOrder
  <2>6. PaymentsKept /\ PaymentsSound'
    BY <1>5 DEF TransitionOrder, PaymentsKept, PaymentsSound, Inv, LockedInv
  <2>7. SettledOnce'
    BY <1>5, <2>2, <2>3, NothingSettles DEF TransitionOrder, Settles
  <2>8. OnlyOrder(o)
    BY <2>3, <2>4 DEF OnlyOrder
  <2>9. QED
    BY <2>1, <2>5, <2>6, <2>7, <2>8, NobodyInserts, StepOfOne
<1>6. CASE TransitionWithPayment(r)
  <2> DEFINE p == job[r].payment
             rows == [payments EXCEPT ![p].status = "CONFIRMED", ![p].tipAmount = job[r].tip]
  <2>1. pc[r] = "transition" /\ HoldsPayment(r) /\ job[r] \in RequestJob
    BY <1>6, <1>step, <1>job
       DEF TransitionWithPayment, MayTransition, LockedControl, AsksSafely
  <2>2. payments \in PaymentTable /\ p \in Payment
    BY <2>1 DEF HoldsPayment, Inv, TypeInv, DataTypeOK
  <2>3. rows \in PaymentTable
    BY <2>1, <2>2, PaymentSettleType DEF RequestJob, Job
  <2>4. /\ rows[p].order = payments[p].order /\ rows[p].origin = payments[p].origin
        /\ rows[p].status = "CONFIRMED"
        /\ \A q \in Payment : q # p => rows[q] = payments[q]
    BY <2>2 DEF PaymentTable, PaymentRow
  <2>5. QED
    BY <1>6, <2>1, <2>2, <2>3, <2>4, Settling DEF TransitionWithPayment, HoldsPayment
<1>7. ASSUME NEW p \in Payment, TransitionWithNewPayment(r, p) PROVE Inv'
  <2> DEFINE row == NewPayment(o, "CONFIRMED", Total + job[r].tip, job[r].tip, "STAFF")
             rows == [payments EXCEPT ![p] = row]
  <2>1. job[r] \in RequestJob /\ o \in Order /\ job[r].within = "newPayment"
    BY <1>7, <1>job DEF TransitionWithNewPayment, MayTransition
  <2>2. payments \in PaymentTable /\ payments[p].status = "ABSENT"
    BY <1>7 DEF TransitionWithNewPayment, UnusedPayments, Inv, TypeInv, DataTypeOK
  <2>3. rows \in PaymentTable
    <3>1. job[r].tip \in Money /\ Total + job[r].tip \in Money
      BY <2>1 DEF RequestJob, Job
    <3>2. QED BY <2>1, <2>2, <3>1, PaymentInsertType DEF Origin
  <2>4. /\ rows[p].order = o /\ rows[p].status = "CONFIRMED"
        /\ \A q \in Payment : q # p => rows[q] = payments[q]
    BY <2>2 DEF PaymentTable, NewPayment
  <2>5. QED
    BY <1>7, <2>1, <2>2, <2>3, <2>4, Settling DEF TransitionWithNewPayment
<1>8. ASSUME NEW p \in Payment, OpenPaymentForCashier(r, p) PROVE Inv'
  <2> DEFINE row == NewPayment(o, "PENDING", Total, 0, "QUEUE")
             j == [job[r] EXCEPT !.next = "CLOSED", !.payment = p,
                                 !.within = "closeWithPayment"]
  <2>1. pc[r] = "openPayment" /\ job[r] \in RequestJob /\ o \in Order /\ Placed(o)
    BY <1>8, <1>step, <1>job DEF OpenPaymentForCashier, LockedControl
  <2>2. /\ row \in PaymentRow /\ row.order = o /\ row.status = "PENDING"
        /\ row.origin = "QUEUE"
    BY <2>1, MoneyFacts DEF NewPayment, PaymentRow, Origin
  <2>3. /\ payments' = [payments EXCEPT ![p] = row] /\ orders' = orders
        /\ p \in UnusedPayments
    BY <1>8 DEF OpenPaymentForCashier
  <2>4. PaymentsKept /\ PaymentsSound' /\ SettledOnce'
    BY <2>1, <2>2, <2>3, Inserting
  <2>5. OthersStay(r) /\ pc'[r] # "insertOrder" /\ LockedControl(r)'
    <3>1. CASE Proceed(r, "transition", j)
      <4>1. OthersStay(r) /\ pc'[r] = "transition" /\ job'[r] = j
        BY <3>1, Moving
      <4>2. j.order = o /\ j.payment = p /\ j.next = "CLOSED"
        BY <2>1 DEF RequestJob, Job
      <4>3. payments'[p] = row
        BY <2>3 DEF Inv, TypeInv, DataTypeOK, PaymentTable
      <4>4. QED
        BY <2>1, <2>2, <2>3, <4>1, <4>2, <4>3
           DEF LockedControl, LockedSteps, Placed, AsksSafely, HoldsPayment
    <3>2. CASE Finish(r)
      <4>1. OthersStay(r) /\ pc'[r] = "idle"
        BY <3>2, Moving DEF Finish
      <4>2. QED BY <4>1 DEF LockedControl, LockedSteps
    <3>3. QED BY <1>8, <3>1, <3>2 DEF OpenPaymentForCashier
  <2>6. QED
    BY <2>3, <2>4, <2>5, StepOfOne
<1>9. ASSUME NEW p \in Payment, WriteTip(r, p) PROVE Inv'
  <2> DEFINE row == NewPayment(o, "CONFIRMED", job[r].tip, job[r].tip, "TIP")
             rows == [payments EXCEPT ![p] = row]
  <2>1. CASE RecomputeOrderTipAmount(rows, o) \notin Money
    BY <1>9, <2>1, Idling DEF WriteTip
  <2>2. CASE RecomputeOrderTipAmount(rows, o) \in Money
    <3>1. pc[r] = "writeTip" /\ job[r] \in RequestJob /\ o \in Order
      BY <1>9, <1>job DEF WriteTip, Tippable
    <3>2. /\ row \in PaymentRow /\ row.order = o /\ row.status = "CONFIRMED"
          /\ row.origin = "TIP"
      BY <3>1 DEF NewPayment, PaymentRow, Origin, RequestJob, Job
    <3>3. /\ payments' = rows /\ p \in UnusedPayments
          /\ orders' = [orders EXCEPT ![o].tipAmount = RecomputeOrderTipAmount(rows, o)]
      BY <1>9, <2>2 DEF WriteTip
    <3>4. \A x \in Order : orders'[x].status = orders[x].status
      BY <3>3 DEF Inv, TypeInv, DataTypeOK, OrderRow
    <3>5. PaymentsKept /\ PaymentsSound' /\ SettledOnce'
      BY <3>1, <3>2, <3>3, <3>4, Inserting
    <3>6. OthersStay(r) /\ pc'[r] = "idle"
      BY <1>9, Moving DEF WriteTip, Finish
    <3>7. LockedControl(r)'
      BY <3>6 DEF LockedControl, LockedSteps
    <3>8. QED BY <3>4, <3>5, <3>6, <3>7, StepOfOne
  <2>3. QED BY <2>1, <2>2
<1>10. QED
  BY <1>1, <1>2, <1>3, <1>4, <1>5, <1>6, <1>7, <1>8, <1>9, <1>step
     DEF Run, LockedSteps, ReadOrder, InitiateManually, SumTips, SumPayments,
         SaveAndAdvance, Save, ConfirmRow, InitiateRedirect, InitiateInstant, InsertPayment

LEMMA NextInv ==
  ASSUME OnlyLockedEntryPoints, Inv, [Next]_vars
  PROVE  Inv'
<1>1. TypeInv'
  BY NextType DEF Inv
<1>2. ASSUME NEW s \in Session, OpenSession(s) PROVE Inv'
  BY <1>1, <1>2 DEF OpenSession, Inv, LockedInv, LockedControl, AsksSafely, HoldsPayment,
     Placed, OneInsert, PaymentsSound, SettledOnce, Settles
<1>3. ASSUME NEW p \in Payment, NEW o \in Order, NEW amount \in ClientAmounts,
             CreatePayment(o, p, amount)
      PROVE  Inv'
  <2> DEFINE row == NewPayment(o, "PENDING", amount, 0, "CLIENT")
  <2>1. row \in PaymentRow /\ row.order = o /\ row.status = "PENDING" /\ row.origin = "CLIENT"
    BY MoneyFacts DEF NewPayment, PaymentRow, Origin
  <2>2. PaymentsKept /\ PaymentsSound' /\ SettledOnce'
    BY <1>3, <2>1, Inserting DEF CreatePayment
  <2>3. \A r \in Request : LockedControl(r)'
    BY <1>3, <2>2, StaysWhileOrdersStay DEF CreatePayment, Inv, LockedInv
  <2>4. OneInsert'
    BY <1>3 DEF CreatePayment, Inv, LockedInv, OneInsert
  <2>5. QED BY <1>1, <2>2, <2>3, <2>4 DEF Inv, LockedInv
<1>4. ASSUME NEW r \in Request, Die(r) PROVE Inv'
  BY <1>1, <1>4, Idling DEF Die
<1>5. CASE UNCHANGED vars
  BY <1>1, <1>5 DEF vars, Inv, LockedInv, LockedControl, AsksSafely, HoldsPayment, Placed,
     OneInsert, PaymentsSound, SettledOnce, Settles
<1>6. QED
  BY <1>1, <1>2, <1>3, <1>4, <1>5, ArriveInv, RunInv DEF Next

LEMMA InitInv == Init => Inv
BY InitType DEF Init, Inv, LockedInv, LockedControl, LockedSteps, OneInsert, PaymentsSound,
   AbsentPayment, SettledOnce, Settles

\* However cash, POS and the cashier queue race, an order is paid for at most once
\* and only by being closed, for any number of orders, payments and handlers: what
\* the row lock and the callbacks of transitionOrder are for.
THEOREM SettledAtMostOnce ==
  ASSUME OnlyLockedEntryPoints
  PROVE  Spec => []SettledOnce
<1>1. Init => Inv
  BY InitInv
<1>2. Inv /\ [Next]_vars => Inv'
  BY NextInv
<1>3. Inv => SettledOnce
  BY DEF Inv, LockedInv
<1>4. QED BY <1>1, <1>2, <1>3, PTL DEF Spec

-----------------------------------------------------------------------------
(* What one step does to the orders, told apart as far as the life of an   *)
(* order, the tip cache and the product counters need it.                  *)

\* Handler r is between the commit of a close and the count of what was sold.
Counting(r) ==
  \/ pc[r] = "countSold"
  \/ pc[r] = "refresh" /\ job[r].next = "CLOSED"

\* Handler q keeps, or loses, what it has to count.
CountsNoMore(q) == Counting(q)' => Counting(q) /\ job'[q].order = job[q].order

StatusesStay == \A x \in Order : orders'[x].status = orders[x].status

OthersKeepStatus(o) == \A x \in Order : x # o => orders'[x].status = orders[x].status

\* The settling payments are the same.
SettlesAsBefore(p) ==
  /\ Settles(p)' <=> Settles(p)
  /\ Settles(p) => payments'[p].order = payments[p].order

SamePaid == \A p \in Payment : SettlesAsBefore(p)

CountingStays == sold' = sold /\ \A q \in Request : CountsNoMore(q)

\* Only the handler that closes order o has something new to count.
StartsCounting(o, next) ==
  /\ sold' = sold
  /\ \E r \in Request :
       /\ \A q \in Request : q # r => CountsNoMore(q)
       /\ Counting(r)' => next = "CLOSED" /\ job'[r].order = o

Quiet == StatusesStay /\ SamePaid /\ CountingStays

Inserts(o) ==
  /\ orders[o].status = "ABSENT" /\ orders'[o].status = "CREATED"
  /\ OthersKeepStatus(o) /\ SamePaid /\ CountingStays

\* An order that is not closed takes a step along the graph.
Steps(o, next) ==
  /\ AssertTransition(TypeOf[o], orders[o].status, next)
  /\ orders[o].status # "CLOSED" /\ orders'[o].status = next
  /\ OthersKeepStatus(o) /\ StartsCounting(o, next)

Moves(o, next) == Steps(o, next) /\ SamePaid

\* It is closed together with the one payment that settles it.
Closes(o) ==
  /\ Steps(o, "CLOSED")
  /\ \E p \in Payment :
       /\ Settles(p)' /\ payments'[p].order = o
       /\ Settles(p) => payments[p].order = o
       /\ \A q \in Payment : q # p => SettlesAsBefore(q)

Counts(o) ==
  /\ StatusesStay /\ SamePaid
  /\ sold' = [sold EXCEPT ![o] = IF @ < SoldCap THEN @ + 1 ELSE @]
  /\ \E r \in Request :
       /\ Counting(r) /\ job[r].order = o /\ ~ Counting(r)'
       /\ \A q \in Request : CountsNoMore(q)

OrderEffect ==
  \/ Quiet
  \/ \E o \in Order : \/ Inserts(o) \/ Closes(o) \/ Counts(o)
                      \/ \E next \in OrderStatus : Moves(o, next)

\* The tips confirmed for order x, and the cached sum either follows them or
\* both are left alone.
TipUnits(rows, x) == Units(rows, [p \in Payment |-> rows[p].tipAmount], x)

TipFollows(x) ==
  \/ orders'[x].tipAmount = RecomputeOrderTipAmount(payments', x)
  \/ /\ orders'[x].tipAmount = orders[x].tipAmount
     /\ TipUnits(payments', x) = TipUnits(payments, x)

\* Payments are made for orders that have been placed.
PaymentsPlaced ==
  \A p \in Payment : payments[p].status # "ABSENT" => Placed(payments[p].order)

TipInv == TipCacheExact /\ PaymentsPlaced

TipEffect ==
  /\ \A x \in Order : TipFollows(x) /\ (Placed(x) => Placed(x)')
  /\ \A p \in Payment :
       payments'[p].status # "ABSENT" =>
         \/ payments[p].status # "ABSENT" /\ payments'[p].order = payments[p].order
         \/ orders'[payments'[p].order].status # "ABSENT"

LEMMA TipStep ==
  ASSUME Inv, TipInv, TipEffect
  PROVE  TipInv'
<1>1. TipCacheExact'
  <2> SUFFICES ASSUME NEW x \in Order
               PROVE  orders'[x].tipAmount = RecomputeOrderTipAmount(payments', x)
    BY DEF TipCacheExact
  <2>1. orders[x].tipAmount = RecomputeOrderTipAmount(payments, x)
    BY DEF TipInv, TipCacheExact
  <2>2. QED
    BY <2>1 DEF TipEffect, TipFollows, TipUnits, RecomputeOrderTipAmount, SumConfirmed
<1>2. PaymentsPlaced'
  BY DEF Inv, LockedInv, PaymentsSound, TipInv, PaymentsPlaced, TipEffect, Placed
<1>3. QED BY <1>1, <1>2 DEF TipInv

\* A step that leaves both tables alone.
LEMMA TablesStay ==
  ASSUME UNCHANGED <<orders, payments>>
  PROVE  StatusesStay /\ SamePaid /\ TipEffect
BY DEF StatusesStay, SamePaid, SettlesAsBefore, Settles, TipEffect, TipFollows, Placed

\* The counters and the handlers that count, after a step of r.
LEMMA OneCountsNoMore ==
  ASSUME NEW r \in Request, OthersStay(r), sold' = sold, CountsNoMore(r)
  PROVE  CountingStays
BY DEF OthersStay, CountingStays, CountsNoMore, Counting

LEMMA MovesOff ==
  ASSUME Inv, NEW r \in Request, NEW step, step \notin {"countSold", "refresh"}, NEW j,
         sold' = sold, Proceed(r, step, j)
  PROVE  CountingStays
<1>1. OthersStay(r) /\ pc'[r] = step
  BY Moving
<1>2. CountsNoMore(r)
  BY <1>1 DEF CountsNoMore, Counting
<1>3. QED BY <1>1, <1>2, OneCountsNoMore

LEMMA GoesIdle ==
  ASSUME Inv, NEW r \in Request, sold' = sold, Finish(r)
  PROVE  CountingStays
BY MovesOff DEF Finish

\* A handler that finishes without having touched the tables.
LEMMA QuietFinish ==
  ASSUME Inv, NEW r \in Request, UNCHANGED <<orders, payments, sold>>, Finish(r)
  PROVE  OrderEffect /\ TipEffect
BY TablesStay, GoesIdle DEF OrderEffect, Quiet

\* A payment row that is pending or a tip is inserted.
LEMMA InsertPaysNothing ==
  ASSUME Inv, NEW p \in UnusedPayments, NEW row, payments' = [payments EXCEPT ![p] = row],
         row.status # "CONFIRMED" \/ row.origin = "TIP"
  PROVE  SamePaid
<1>1. /\ payments'[p] = row /\ payments[p].status = "ABSENT"
      /\ \A q \in Payment : q # p => payments'[q] = payments[q]
  BY DEF UnusedPayments, Inv, TypeInv, DataTypeOK, PaymentTable
<1>2. QED BY <1>1 DEF SamePaid, SettlesAsBefore, Settles

\* A pending payment of a placed order changes no tip.
LEMMA InsertPending ==
  ASSUME Inv, NEW p \in UnusedPayments, NEW row, payments' = [payments EXCEPT ![p] = row],
         row.status = "PENDING", Placed(row.order), orders' = orders
  PROVE  StatusesStay /\ SamePaid /\ TipEffect
<1>1. /\ payments'[p] = row /\ payments[p].status = "ABSENT"
      /\ \A q \in Payment : q # p => payments'[q] = payments[q]
  BY DEF UnusedPayments, Inv, TypeInv, DataTypeOK, PaymentTable
<1>2. SamePaid
  BY InsertPaysNothing
<1>3. \A x \in Order : TipUnits(payments', x) = TipUnits(payments, x)
  BY <1>1 DEF TipUnits, Units
<1>4. TipEffect
  BY <1>1, <1>3 DEF TipEffect, TipFollows, Placed
<1>5. QED BY <1>2, <1>4 DEF StatusesStay

\* The row of order o is written together with payment p of o.
LEMMA TipWritten ==
  ASSUME Inv, NEW p \in Payment, NEW o \in Order, payments'[p].order = o,
         payments[p].status = "ABSENT" \/ payments[p].order = o,
         \A q \in Payment : q # p => payments'[q] = payments[q],
         \A x \in Order : x # o => orders'[x] = orders[x],
         orders'[o].tipAmount = RecomputeOrderTipAmount(payments', o),
         orders'[o].status # "ABSENT"
  PROVE  TipEffect
<1>1. \A x \in Order : x # o => TipUnits(payments', x) = TipUnits(payments, x)
  BY DEF TipUnits, Units
<1>2. \A x \in Order : TipFollows(x) /\ (Placed(x) => Placed(x)')
  BY <1>1 DEF TipFollows, Placed
<1>3. QED BY <1>2 DEF TipEffect

LEMMA EntersUncounted ==
  ASSUME Inv, NEW r \in Request, NEW entry, NEW step, NEW j, Enter(r, entry, step, j),
         UNCHANGED <<orders, payments, sold>>, step \notin {"countSold", "refresh"}
  PROVE  OrderEffect /\ TipEffect
<1>1. OthersStay(r) /\ pc'[r] = step
  BY DEF Enter, OthersStay, Inv, TypeInv, ControlTypeOK
<1>2. CountingStays
  BY <1>1, OneCountsNoMore DEF CountsNoMore, Counting
<1>3. QED BY <1>2, TablesStay DEF OrderEffect, Quiet

LEMMA ArriveEffect ==
  ASSUME OnlyLockedEntryPoints, Inv, NEW r \in Request, Arrive(r)
  PROVE  OrderEffect /\ TipEffect
<1> USE EntersUncounted
<1>1. ASSUME NEW o \in Order, NEW entry \in {"createFromQr", "createGuestOrder"},
             PlaceAsGuest(r, o, entry)
      PROVE  OrderEffect /\ TipEffect
  BY <1>1 DEF PlaceAsGuest
<1>2. ASSUME NEW o \in Order, NEW next \in OrderStatus, NEW actor \in Actor,
             UpdateStatus(r, o, next, actor)
      PROVE  OrderEffect /\ TipEffect
  BY <1>2 DEF UpdateStatus
<1>3. ASSUME NEW o \in Order, NEW actor \in Actor, ConfirmOrder(r, o, actor)
      PROVE  OrderEffect /\ TipEffect
  BY <1>3 DEF ConfirmOrder
<1>4. ASSUME NEW o \in Order, CreateFromStaff(r, o) \/ CancelBySession(r, o)
      PROVE  OrderEffect /\ TipEffect
  BY <1>4 DEF CreateFromStaff, CancelBySession
<1>5. ASSUME NEW o \in Order, NEW tip \in TipAmounts,
             \/ ProcessStaffPayment(r, o, tip) \/ ConfirmOrderPayment(r, o, tip)
             \/ CreateTip(r, o, tip)
      PROVE  OrderEffect /\ TipEffect
  BY <1>5 DEF ProcessStaffPayment, ConfirmOrderPayment, CreateTip
<1>6. QED
  BY <1>1, <1>2, <1>3, <1>4, <1>5
     DEF Arrive, Enter, OnlyLockedEntryPoints, LockedEntryPoints, RecordStaffPayment,
         CreateOnlinePayment, RetryPayment, RefundOrder, ConfirmPayment, FailPayment

\* After a commit only a close leaves something to count.
LEMMA CommitCounts ==
  ASSUME Inv, NEW r \in Request, pc[r] = "transition", AfterCommit(r), sold' = sold,
         NEW o \in Order, o = job[r].order
  PROVE  StartsCounting(o, job[r].next)
<1> DEFINE rest == [Asks(o, job[r].next, "system") EXCEPT !.entry = job[r].entry]
<1>1. rest.order = o /\ rest.next = job[r].next
  BY NoJobType DEF Asks, Job
<1>2. CASE Proceed(r, "refresh", rest) \/ Proceed(r, "openPayment", rest) \/ Finish(r)
  <2>1. /\ OthersStay(r)
        /\ \/ pc'[r] \in {"openPayment", "idle"}
           \/ pc'[r] = "refresh" /\ job'[r] = rest
    BY <1>2, Moving DEF Finish
  <2>2. Counting(r)' => job[r].next = "CLOSED" /\ job'[r].order = o
    BY <1>1, <2>1 DEF Counting
  <2>3. \A q \in Request : q # r => CountsNoMore(q)
    BY <2>1 DEF OthersStay, CountsNoMore, Counting
  <2>4. QED BY <2>2, <2>3 DEF StartsCounting
<1>3. CASE Proceed(r, "countSold", rest) /\ job[r].next = "CLOSED"
  <2>1. OthersStay(r) /\ pc'[r] = "countSold" /\ job'[r] = rest
    BY <1>3, Moving
  <2>2. QED
    BY <1>1, <1>3, <2>1 DEF StartsCounting, CountsNoMore, Counting, OthersStay
<1>4. QED BY <1>2, <1>3 DEF AfterCommit

\* A close that confirms payment p of its order.
LEMMA SettleEffect ==
  ASSUME Inv, NEW r \in Request, NEW p \in Payment, NEW rows,
         MayTransition(r), job[r].within # "nothing", CommitSettled(r, rows),
         \A q \in Payment : q # p => rows[q] = payments[q],
         rows[p].order = job[r].order, rows[p].status = "CONFIRMED", rows[p].origin # "TIP",
         payments[p].status = "ABSENT" \/ payments[p].order = job[r].order
  PROVE  OrderEffect /\ TipEffect
<1>0. pc[r] = "transition"
  BY DEF MayTransition
<1>1. PICK o \in Order : o = job[r].order
  BY <1>0 DEF Inv, TypeInv, ControlTypeOK, RequestJob
<1>2. job[r].next = "CLOSED"
  BY <1>0 DEF Inv, LockedInv, LockedControl, AsksSafely
<1>3. /\ orders[o].status # "CLOSED"
      /\ AssertTransition(TypeOf[o], orders[o].status, "CLOSED")
  BY <1>1, <1>2, ClosesOpenOrder DEF MayTransition, CanTransition
<1>4. CASE RecomputeOrderTipAmount(rows, o) \notin Money
  BY <1>1, <1>4, QuietFinish DEF CommitSettled
<1>5. CASE RecomputeOrderTipAmount(rows, o) \in Money
  <2>1. /\ payments' = rows /\ sold' = sold
        /\ orders' = [orders EXCEPT
                        ![o] = [status |-> job[r].next, paymentStatus |-> "PAID",
                                tipAmount |-> RecomputeOrderTipAmount(rows, o)]]
        /\ AfterCommit(r)
    BY <1>1, <1>5 DEF CommitSettled
  <2>2. /\ orders'[o].status = "CLOSED"
        /\ orders'[o].tipAmount = RecomputeOrderTipAmount(payments', o)
        /\ \A x \in Order : x # o => orders'[x] = orders[x]
    BY <1>2, <2>1 DEF Inv, TypeInv, DataTypeOK
  <2>3. TipEffect
    BY <1>1, <2>1, <2>2, TipWritten
  <2>4. StartsCounting(o, "CLOSED")
    BY <1>0, <1>1, <1>2, <2>1, CommitCounts
  <2>5. /\ Settles(p)' /\ payments'[p].order = o
        /\ Settles(p) => payments[p].order = o
        /\ \A q \in Payment : q # p => SettlesAsBefore(q)
    BY <1>1, <2>1 DEF SettlesAsBefore, Settles
  <2>6. Closes(o)
    BY <1>3, <2>2, <2>4, <2>5 DEF Closes, Steps, OthersKeepStatus
  <2>7. QED BY <2>3, <2>6 DEF OrderEffect
<1>6. QED BY <1>4, <1>5

LEMMA RunEffect ==
  ASSUME Inv, TipInv, NEW r \in Request, Run(r)
  PROVE  OrderEffect /\ TipEffect
<1>step. pc[r] \in LockedSteps /\ LockedControl(r)
  BY DEF Inv, LockedInv, LockedControl
<1>job. pc[r] # "idle" => job[r] \in RequestJob /\ job[r].order \in Order
  BY DEF Inv, TypeInv, ControlTypeOK, RequestJob
<1>1. CASE InsertOrder(r)
  <2>1. pc[r] = "insertOrder" /\ payments' = payments /\ sold' = sold
    BY <1>1 DEF InsertOrder
  <2>2. PICK o \in Order : o = job[r].order
    BY <1>job, <2>1
  <2>3. /\ orders[o].status = "ABSENT" /\ orders'[o].status = "CREATED"
        /\ orders'[o].tipAmount = 0
        /\ \A x \in Order : x # o => orders'[x] = orders[x]
    BY <1>1, <1>step, <2>1, <2>2
       DEF InsertOrder, LockedControl, AbsentRow, Inv, TypeInv, DataTypeOK
  <2>4. SamePaid
    BY <2>1 DEF SamePaid, SettlesAsBefore, Settles
  <2>5. CountingStays
    BY <1>1, <1>step, <2>1, MovesOff, GoesIdle DEF InsertOrder, LockedControl
  <2>6. TipUnits(payments, o) = {}
    BY <2>3 DEF TipUnits, Units, TipInv, PaymentsPlaced, Placed
  <2>7. RecomputeOrderTipAmount(payments, o) = 0
    BY <2>6, FS_EmptySet DEF RecomputeOrderTipAmount, SumConfirmed, TipUnits
  <2>8. TipEffect
    BY <2>1, <2>3, <2>7 DEF TipEffect, TipFollows, TipUnits, Placed
  <2>9. Inserts(o)
    BY <2>3, <2>4, <2>5 DEF Inserts, OthersKeepStatus
  <2>10. QED BY <2>8, <2>9 DEF OrderEffect
<1>2. CASE FindPending(r)
  <2>1. UNCHANGED <<orders, payments, sold>>
    BY <1>2 DEF FindPending
  <2>2. Finish(r) \/ \E j : Proceed(r, "transition", j)
    BY <1>2 DEF FindPending
  <2>3. CountingStays
    BY <2>1, <2>2, GoesIdle, MovesOff
  <2>4. QED BY <2>1, <2>3, TablesStay DEF OrderEffect, Quiet
<1>3. CASE RefreshLifecycle(r)
  <2>1. CASE job[r].next # "CLOSED"
    BY <1>3, <2>1, QuietFinish DEF RefreshLifecycle
  <2>2. CASE job[r].next = "CLOSED"
    <3>1. UNCHANGED <<orders, payments, sold>> /\ pc[r] = "refresh"
      BY <1>3 DEF RefreshLifecycle
    <3>2. OthersStay(r) /\ job'[r] = job[r]
      BY <1>3, <2>2, Moving DEF RefreshLifecycle
    <3>3. CountingStays
      BY <2>2, <3>1, <3>2, OneCountsNoMore DEF CountsNoMore, Counting
    <3>4. QED BY <3>1, <3>3, TablesStay DEF OrderEffect, Quiet
  <2>3. QED BY <2>1, <2>2
<1>4. CASE CountSold(r)
  <2>1. pc[r] = "countSold" /\ UNCHANGED <<orders, payments>> /\ Finish(r)
    BY <1>4 DEF CountSold
  <2>2. PICK o \in Order : o = job[r].order
    BY <1>job, <2>1
  <2>3. OthersStay(r) /\ pc'[r] = "idle"
    BY <2>1, Moving DEF Finish
  <2>4. Counting(r) /\ ~ Counting(r)'
    BY <2>1, <2>3 DEF Counting
  <2>5. \A q \in Request : CountsNoMore(q)
    BY <2>3, <2>4 DEF CountsNoMore, Counting, OthersStay
  <2>6. sold' = [sold EXCEPT ![o] = IF @ < SoldCap THEN @ + 1 ELSE @]
    BY <1>4, <2>2 DEF CountSold
  <2>7. Counts(o)
    BY <2>1, <2>2, <2>4, <2>5, <2>6, TablesStay DEF Counts
  <2>8. QED BY <2>1, <2>7, TablesStay DEF OrderEffect
<1>5. CASE RejectTransition(r) \/ RefuseTip(r)
  BY <1>5, QuietFinish DEF RejectTransition, RefuseTip
<1>6. CASE TransitionOrder(r)
  <2>1. pc[r] = "transition" /\ payments' = payments /\ sold' = sold /\ AfterCommit(r)
    BY <1>6 DEF TransitionOrder, MayTransition
  <2>2. PICK o \in Order : o = job[r].order
    BY <1>job, <2>1
  <2> DEFINE next == job[r].next
  <2>3. /\ CanTransition(TypeOf[o], orders[o].status, next, job[r].actor)
        /\ AsksSafely(r) /\ next \in OrderStatus
    BY <1>6, <1>step, <1>job, <2>1, <2>2
       DEF TransitionOrder, MayTransition, LockedControl, RequestJob, Job
  <2>4. /\ orders[o].status # "CLOSED"
        /\ AssertTransition(TypeOf[o], orders[o].status, next)
    BY <2>3, ClosedLeavesByRefund DEF AsksSafely, CanTransition
  <2>5. /\ orders'[o].status = next /\ orders'[o].tipAmount = orders[o].tipAmount
        /\ \A x \in Order : x # o => orders'[x] = orders[x]
    BY <1>6, <2>2 DEF TransitionOrder, Inv, TypeInv, DataTypeOK, OrderRow
  <2>6. StartsCounting(o, next)
    BY <2>1, <2>2, CommitCounts
  <2>7. SamePaid
    BY <2>1 DEF SamePaid, SettlesAsBefore, Settles
  <2>8. TipEffect
    <3>1. orders'[o].status # "ABSENT"
      BY <2>3, <2>5 DEF OrderStatus
    <3>2. \A x \in Order : TipFollows(x) /\ (Placed(x) => Placed(x)')
      BY <2>1, <2>5, <3>1 DEF TipFollows, Placed
    <3>3. QED BY <2>1, <3>2 DEF TipEffect
  <2>9. PICK to \in OrderStatus : to = next
    BY <2>3
  <2>10. Moves(o, to)
    BY <2>4, <2>5, <2>6, <2>7, <2>9 DEF Moves, Steps, OthersKeepStatus
  <2>11. QED BY <2>8, <2>10 DEF OrderEffect
<1>7. CASE TransitionWithPayment(r)
  <2> DEFINE p == job[r].payment
             rows == [payments EXCEPT ![p].status = "CONFIRMED", ![p].tipAmount = job[r].tip]
  <2>1. pc[r] = "transition" /\ HoldsPayment(r)
    BY <1>7, <1>step DEF TransitionWithPayment, MayTransition, LockedControl, AsksSafely
  <2>2. payments \in PaymentTable /\ p \in Payment
    BY <2>1 DEF HoldsPayment, Inv, TypeInv, DataTypeOK
  <2>3. /\ rows[p].order = payments[p].order /\ rows[p].origin = payments[p].origin
        /\ rows[p].status = "CONFIRMED"
        /\ \A q \in Payment : q # p => rows[q] = payments[q]
    BY <2>2 DEF PaymentTable, PaymentRow
  <2>4. /\ rows[p].order = job[r].order /\ rows[p].origin # "TIP"
        /\ payments[p].order = job[r].order
    BY <2>1, <2>3 DEF HoldsPayment
  <2>5. CommitSettled(r, rows) /\ MayTransition(r) /\ job[r].within # "nothing"
    BY <1>7 DEF TransitionWithPayment
  <2>6. QED
    BY <2>2, <2>3, <2>4, <2>5, SettleEffect
<1>8. ASSUME NEW p \in Payment, TransitionWithNewPayment(r, p)
      PROVE  OrderEffect /\ TipEffect
  <2> DEFINE row == NewPayment(job[r].order, "CONFIRMED", Total + job[r].tip,
                               job[r].tip, "STAFF")
             rows == [payments EXCEPT ![p] = row]
  <2>1. payments \in PaymentTable /\ payments[p].status = "ABSENT"
    BY <1>8 DEF TransitionWithNewPayment, UnusedPayments, Inv, TypeInv, DataTypeOK
  <2>2. /\ rows[p].order = job[r].order /\ rows[p].status = "CONFIRMED"
        /\ rows[p].origin = "STAFF"
        /\ \A q \in Payment : q # p => rows[q] = payments[q]
    BY <2>1 DEF PaymentTable, NewPayment
  <2>3. QED
    BY <1>8, <2>1, <2>2, SettleEffect DEF TransitionWithNewPayment
<1>9. ASSUME NEW p \in Payment, OpenPaymentForCashier(r, p)
      PROVE  OrderEffect /\ TipEffect
  <2> DEFINE row == NewPayment(job[r].order, "PENDING", Total, 0, "QUEUE")
  <2>1. /\ pc[r] = "openPayment" /\ p \in UnusedPayments /\ orders' = orders /\ sold' = sold
        /\ payments' = [payments EXCEPT ![p] = row]
    BY <1>9 DEF OpenPaymentForCashier
  <2>2. row.status = "PENDING" /\ Placed(row.order)
    BY <1>step, <2>1 DEF NewPayment, LockedControl
  <2>3. StatusesStay /\ SamePaid /\ TipEffect
    BY <2>1, <2>2, InsertPending
  <2>4. Finish(r) \/ \E j : Proceed(r, "transition", j)
    BY <1>9 DEF OpenPaymentForCashier
  <2>5. CountingStays
    BY <2>1, <2>4, GoesIdle, MovesOff
  <2>6. QED BY <2>3, <2>5 DEF OrderEffect, Quiet
<1>10. ASSUME NEW p \in Payment, WriteTip(r, p)
       PROVE  OrderEffect /\ TipEffect
  <2> DEFINE row == NewPayment(job[r].order, "CONFIRMED", job[r].tip, job[r].tip, "TIP")
             rows == [payments EXCEPT ![p] = row]
  <2>1. pc[r] = "writeTip" /\ p \in UnusedPayments /\ sold' = sold /\ Finish(r)
    BY <1>10 DEF WriteTip, Tippable
  <2>2. PICK o \in Order : o = job[r].order
    BY <1>job, <2>1
  <2>3. CASE RecomputeOrderTipAmount(rows, o) \notin Money
    BY <1>10, <2>1, <2>2, <2>3, QuietFinish DEF WriteTip
  <2>4. CASE RecomputeOrderTipAmount(rows, o) \in Money
    <3>1. /\ payments' = rows
          /\ orders' = [orders EXCEPT ![o].tipAmount = RecomputeOrderTipAmount(rows, o)]
      BY <1>10, <2>2, <2>4 DEF WriteTip
    <3>2. /\ orders'[o].status = orders[o].status /\ Placed(o)
          /\ orders'[o].tipAmount = RecomputeOrderTipAmount(payments', o)
          /\ \A x \in Order : x # o => orders'[x] = orders[x]
      BY <1>step, <2>1, <2>2, <3>1 DEF Inv, TypeInv, DataTypeOK, OrderRow, LockedControl
    <3>3. /\ payments'[p] = row /\ row.order = o /\ row.origin = "TIP"
          /\ payments[p].status = "ABSENT"
          /\ \A q \in Payment : q # p => payments'[q] = payments[q]
      BY <2>1, <2>2, <3>1
         DEF NewPayment, UnusedPayments, Inv, TypeInv, DataTypeOK, PaymentTable
    <3>4. TipEffect
      BY <3>2, <3>3, TipWritten DEF Placed
    <3>5. SamePaid
      BY <2>1, <3>1, <3>3, InsertPaysNothing
    <3>6. QED
      BY <2>1, <3>2, <3>4, <3>5, GoesIdle DEF OrderEffect, Quiet, StatusesStay
  <2>5. QED BY <2>3, <2>4
<1>11. QED
  BY <1>1, <1>2, <1>3, <1>4, <1>5, <1>6, <1>7, <1>8, <1>9, <1>10, <1>step
     DEF Run, LockedSteps, ReadOrder, InitiateManually, SumTips, SumPayments,
         SaveAndAdvance, Save, ConfirmRow, InitiateRedirect, InitiateInstant, InsertPayment

LEMMA StepEffect ==
  ASSUME OnlyLockedEntryPoints, Inv, TipInv, [Next]_vars
  PROVE  OrderEffect /\ TipEffect
<1>1. ASSUME UNCHANGED <<orders, payments, sold, pc, job>> PROVE OrderEffect /\ TipEffect
  BY <1>1, TablesStay DEF OrderEffect, Quiet, CountingStays, CountsNoMore, Counting
<1>2. ASSUME NEW s \in Session, OpenSession(s) PROVE OrderEffect /\ TipEffect
  BY <1>1, <1>2 DEF OpenSession
<1>3. ASSUME NEW o \in Order, NEW p \in Payment, NEW amount \in ClientAmounts,
             CreatePayment(o, p, amount)
      PROVE  OrderEffect /\ TipEffect
  <2> DEFINE row == NewPayment(o, "PENDING", amount, 0, "CLIENT")
  <2>1. row.status = "PENDING" /\ Placed(row.order)
    BY <1>3 DEF NewPayment, CreatePayment
  <2>2. StatusesStay /\ SamePaid /\ TipEffect
    BY <1>3, <2>1, InsertPending DEF CreatePayment
  <2>3. CountingStays
    BY <1>3 DEF CreatePayment, CountingStays, CountsNoMore, Counting
  <2>4. QED BY <2>2, <2>3 DEF OrderEffect, Quiet
<1>4. ASSUME NEW r \in Request, Die(r) PROVE OrderEffect /\ TipEffect
  BY <1>4, QuietFinish DEF Die
<1>5. CASE UNCHANGED vars
  BY <1>1, <1>5 DEF vars
<1>6. QED
  BY <1>2, <1>3, <1>4, <1>5, ArriveEffect, RunEffect DEF Next

-----------------------------------------------------------------------------
(* The tip cache. *)

LEMMA InitTip == Init => TipInv
<1> SUFFICES ASSUME Init PROVE TipInv
  OBVIOUS
<1>1. \A x \in Order : TipUnits(payments, x) = {}
  BY DEF Init, TipUnits, Units, AbsentPayment
<1>2. \A x \in Order : RecomputeOrderTipAmount(payments, x) = 0
  BY <1>1, FS_EmptySet DEF RecomputeOrderTipAmount, SumConfirmed, TipUnits
<1>3. QED
  BY <1>2 DEF Init, TipInv, TipCacheExact, PaymentsPlaced, AbsentRow, AbsentPayment

\* Where orders are written under the row lock, order.tipAmount is the sum of the
\* tips of the order's confirmed payments at every moment, for any number of
\* payments (the denormalized cache of payment.entity.ts).
THEOREM TipCacheIsExact ==
  ASSUME OnlyLockedEntryPoints
  PROVE  Spec => []TipCacheExact
<1>1. Init => Inv /\ TipInv
  BY InitInv, InitTip
<1>2. Inv /\ TipInv /\ [Next]_vars => Inv' /\ TipInv'
  BY NextInv, StepEffect, TipStep
<1>3. TipInv => TipCacheExact
  BY DEF TipInv
<1>4. QED BY <1>1, <1>2, <1>3, PTL DEF Spec

-----------------------------------------------------------------------------
(* What is sold is counted once. *)

\* A handler that has still to count is the only one to do so for its order, the
\* order is closed, and it has not been counted.
SoldInv ==
  /\ \A o \in Order : sold[o] <= 1 /\ (orders[o].status # "CLOSED" => sold[o] = 0)
  /\ \A r \in Request :
       Counting(r) => orders[job[r].order].status = "CLOSED" /\ sold[job[r].order] = 0
  /\ \A q, r \in Request :
       Counting(q) /\ Counting(r) /\ job[q].order = job[r].order => q = r

LEMMA CountingHasOrder ==
  ASSUME TypeInv, NEW q \in Request, Counting(q)
  PROVE  job[q].order \in Order
BY DEF TypeInv, ControlTypeOK, RequestJob, Counting

LEMMA SoldStep ==
  ASSUME TypeInv, SoldInv, OrderEffect
  PROVE  SoldInv'
<1>1. \A q \in Request : Counting(q) => job[q].order \in Order
  BY CountingHasOrder
<1>sold. \A o \in Order : sold[o] \in 0 .. SoldCap
  BY DEF TypeInv, DataTypeOK
<1>2. CASE Quiet
  BY <1>1, <1>2 DEF Quiet, StatusesStay, CountingStays, CountsNoMore, SoldInv
<1>3. ASSUME NEW o \in Order, Inserts(o) PROVE SoldInv'
  BY <1>1, <1>3 DEF Inserts, OthersKeepStatus, CountingStays, CountsNoMore, SoldInv
<1>4. ASSUME NEW o \in Order, NEW next, Steps(o, next) PROVE SoldInv'
  <2>1. PICK r \in Request : /\ \A q \in Request : q # r => CountsNoMore(q)
                             /\ Counting(r)' => next = "CLOSED" /\ job'[r].order = o
    BY <1>4 DEF Steps, StartsCounting
  <2>2. /\ sold' = sold /\ sold[o] = 0 /\ orders'[o].status = next
        /\ \A x \in Order : x # o => orders'[x].status = orders[x].status
        /\ orders[o].status # "CLOSED"
    BY <1>4 DEF Steps, StartsCounting, OthersKeepStatus, SoldInv
  <2>3. \A q \in Request :
          q # r /\ Counting(q)' => /\ Counting(q) /\ job'[q].order = job[q].order
                                   /\ job[q].order \in Order /\ job[q].order # o
    BY <1>1, <2>1, <2>2 DEF CountsNoMore, SoldInv
  <2>4. \A x \in Order : sold'[x] <= 1 /\ (orders'[x].status # "CLOSED" => sold'[x] = 0)
    BY <2>2 DEF SoldInv
  <2>5. \A q \in Request :
          Counting(q)' => orders'[job'[q].order].status = "CLOSED" /\ sold'[job'[q].order] = 0
    BY <2>1, <2>2, <2>3 DEF SoldInv
  <2>6. \A q, s \in Request :
          Counting(q)' /\ Counting(s)' /\ job'[q].order = job'[s].order => q = s
    BY <2>1, <2>3 DEF SoldInv
  <2>7. QED BY <2>4, <2>5, <2>6 DEF SoldInv
<1>5. ASSUME NEW o \in Order, Counts(o) PROVE SoldInv'
  <2>1. PICK r \in Request : /\ Counting(r) /\ job[r].order = o /\ ~ Counting(r)'
                             /\ \A q \in Request : CountsNoMore(q)
    BY <1>5 DEF Counts
  <2>2. sold[o] = 0 /\ orders[o].status = "CLOSED"
    BY <2>1 DEF SoldInv
  <2>3. /\ sold'[o] = 1 /\ \A x \in Order : x # o => sold'[x] = sold[x]
        /\ \A x \in Order : orders'[x].status = orders[x].status
    BY <1>5, <2>2 DEF Counts, StatusesStay, SoldCap, TypeInv, DataTypeOK
  <2>4. \A q \in Request :
          Counting(q)' => /\ Counting(q) /\ job'[q].order = job[q].order
                          /\ job[q].order \in Order /\ job[q].order # o
    BY <1>1, <2>1 DEF CountsNoMore, SoldInv
  <2>5. QED BY <2>2, <2>3, <2>4 DEF SoldInv
<1>6. QED
  BY <1>2, <1>3, <1>4, <1>5 DEF OrderEffect, Moves, Closes

\* The items of an order are added to the product counters at most once, although
\* the counting runs after the commit and any number of handlers ask for the close:
\* only one of them finds the order open under the lock.
THEOREM SoldAtMostOnce ==
  ASSUME OnlyLockedEntryPoints
  PROVE  Spec => []SoldOnce
<1>1. Init => Inv /\ TipInv /\ SoldInv
  BY InitInv, InitTip DEF Init, SoldInv, Counting
<1>2. Inv /\ TipInv /\ SoldInv /\ [Next]_vars => Inv' /\ TipInv' /\ SoldInv'
  BY NextInv, StepEffect, TipStep, SoldStep DEF Inv
<1>3. SoldInv => SoldOnce
  BY DEF SoldInv, SoldOnce
<1>4. QED BY <1>1, <1>2, <1>3, PTL DEF Spec

-----------------------------------------------------------------------------
(* The refinement of OrderLifecycle. *)

SettledOrders == {payments[p].order : p \in {q \in Payment : Settles(q)}}

LifecycleStep == [Lifecycle!LifecycleNext]_(Lifecycle!lifecycleVars)

LEMMA SamePaidSettles ==
  ASSUME SamePaid
  PROVE  SettledOrders' = SettledOrders
BY DEF SamePaid, SettlesAsBefore, SettledOrders

\* One order takes the status next; the abstract status function follows.
LEMMA StatusFollows ==
  ASSUME TypeInv, NEW o \in Order, OthersKeepStatus(o), NEW next, orders'[o].status = next
  PROVE  [x \in Order |-> orders'[x].status] =
           [[x \in Order |-> orders[x].status] EXCEPT ![o] = next]
BY DEF OthersKeepStatus

\* The abstract module reads the same transition graph.
LEMMA SameGraph ==
  ASSUME NEW type, NEW current, NEW next
  PROVE  /\ Lifecycle!OrderStatus = OrderStatus
         /\ Lifecycle!AssertTransition(type, current, next)
              <=> AssertTransition(type, current, next)
<1>1. Lifecycle!OrderStatus = OrderStatus
  BY DEF Lifecycle!OrderStatus, OrderStatus
<1>2. Lifecycle!TerminalStatuses = TerminalStatuses
  BY DEF Lifecycle!TerminalStatuses, TerminalStatuses
<1>3. Lifecycle!Edges(type) = Edges(type)
  BY DEF Lifecycle!Edges, Edges, Lifecycle!PreparationEdges, PreparationEdges,
         Lifecycle!SettlementEdges, SettlementEdges
<1>4. QED
  BY <1>1, <1>2, <1>3 DEF Lifecycle!AssertTransition, AssertTransition

LEMMA EffectRefines ==
  ASSUME Inv, OrderEffect
  PROVE  LifecycleStep
<1> USE DEF Lifecycle!lifecycleVars
<1>1. ASSUME StatusesStay, SamePaid PROVE LifecycleStep
  <2>1. [x \in Order |-> orders'[x].status] = [x \in Order |-> orders[x].status]
    BY <1>1 DEF StatusesStay
  <2>2. QED
    BY <1>1, <2>1, SamePaidSettles DEF LifecycleStep, SettledOrders
<1>2. ASSUME NEW o \in Order, Inserts(o) PROVE LifecycleStep
  <2>1. Lifecycle!Place(o)
    BY <1>2, SamePaidSettles, StatusFollows
       DEF Inserts, Lifecycle!Place, Inv, SettledOrders
  <2>2. QED BY <2>1 DEF LifecycleStep, Lifecycle!LifecycleNext
<1>3. ASSUME NEW o \in Order, NEW next \in OrderStatus, Moves(o, next) PROVE LifecycleStep
  <2>1. Lifecycle!Advance(o, next)
    BY <1>3, SamePaidSettles, StatusFollows, SameGraph
       DEF Moves, Steps, Lifecycle!Advance, Inv, SettledOrders
  <2>2. QED BY <2>1, <1>3, SameGraph DEF LifecycleStep, Lifecycle!LifecycleNext
<1>4. ASSUME NEW o \in Order, Closes(o) PROVE LifecycleStep
  <2>1. PICK p \in Payment :
          /\ Settles(p)' /\ payments'[p].order = o
          /\ Settles(p) => payments[p].order = o
          /\ \A q \in Payment : q # p => SettlesAsBefore(q)
    BY <1>4 DEF Closes
  <2>2. o \notin SettledOrders
    BY <1>4 DEF Closes, Steps, SettledOrders, Inv, LockedInv, SettledOnce
  <2>3. SettledOrders' = SettledOrders \union {o}
    <3>1. SettledOrders' \subseteq SettledOrders \union {o}
      BY <2>1 DEF SettledOrders, SettlesAsBefore
    <3>2. SettledOrders \union {o} \subseteq SettledOrders'
      BY <2>1 DEF SettledOrders, SettlesAsBefore
    <3>3. QED BY <3>1, <3>2
  <2>4. Lifecycle!Settle(o)
    BY <1>4, <2>2, <2>3, StatusFollows, SameGraph
       DEF Closes, Steps, Lifecycle!Settle, Inv, SettledOrders
  <2>5. QED BY <2>4 DEF LifecycleStep, Lifecycle!LifecycleNext
<1>5. QED
  BY <1>1, <1>2, <1>3, <1>4 DEF OrderEffect, Quiet, Counts

\* Requests that write orders under the row lock, suspended at every await and
\* dying at any of them, look to the outside like one atomic step per event: an
\* order is placed, takes a step of the graph, or is closed and paid for at once.
THEOREM LifecycleIsImplemented ==
  ASSUME OnlyLockedEntryPoints
  PROVE  Spec => ImplementsLifecycle
<1>1. Init => Inv /\ TipInv
  BY InitInv, InitTip
<1>2. Inv /\ TipInv /\ [Next]_vars => Inv' /\ TipInv'
  BY NextInv, StepEffect, TipStep
<1>3. Init => Lifecycle!LifecycleInit
  BY DEF Init, Lifecycle!LifecycleInit, AbsentRow, AbsentPayment, Settles
<1>4. Inv /\ TipInv /\ [Next]_vars => LifecycleStep
  BY StepEffect, EffectRefines
<1>5. QED
  BY <1>1, <1>2, <1>3, <1>4, PTL
     DEF Spec, ImplementsLifecycle, Lifecycle!LifecycleSpec, LifecycleStep

=============================================================================

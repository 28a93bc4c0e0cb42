------------------------ MODULE OrderPaymentsProofs -------------------------
(***************************************************************************)
(* Proofs about OrderPayments, for every set of orders, payments, sessions *)
(* and requests: types, that money taken stays taken, and that what is     *)
(* shown as paid is covered by confirmed payments.                         *)
(***************************************************************************)
EXTENDS OrderPayments, FiniteSetTheorems, TLAPS

-----------------------------------------------------------------------------
(* The requests' control: what Enter, Proceed and Finish leave well typed. *)

\* The locals of a handler in flight: it always has an order in hand, and the
\* payment it will insert fits its column.
RequestJob ==
  {j \in Job : j.order \in Order /\ (j.within = "newPayment" => Total + j.tip \in Money)}

ControlTypeOK ==
  /\ pc \in [Request -> Step]
  /\ job \in [Request -> Job]
  /\ \A r \in Request : pc[r] # "idle" => job[r] \in RequestJob

LEMMA NoJobType == NoJob \in Job /\ NoJob.within = "nothing"
BY ConstantsAssumption DEF NoJob, Job, OrderRow, AbsentRow, Money, Actor, StaffRoles,
   OrderStatus, OrderPaymentStatus, Within

LEMMA ProceedType ==
  ASSUME ControlTypeOK, NEW r \in Request, NEW step \in Step, NEW j \in RequestJob,
         Proceed(r, step, j)
  PROVE  ControlTypeOK'
BY DEF ControlTypeOK, Proceed, RequestJob

LEMMA FinishType ==
  ASSUME ControlTypeOK, NEW r \in Request, Finish(r)
  PROVE  ControlTypeOK'
BY NoJobType DEF ControlTypeOK, Finish, Proceed, Step

LEMMA EnterType ==
  ASSUME ControlTypeOK, NEW r \in Request, NEW entry, NEW step \in Step, NEW j \in RequestJob,
         Enter(r, entry, step, j)
  PROVE  ControlTypeOK'
<1>1. [j EXCEPT !.entry = entry] \in RequestJob
  BY ConstantsAssumption DEF Enter, Job, RequestJob
<1>2. QED
  BY <1>1 DEF ControlTypeOK, Enter, RequestJob

LEMMA ResolveActorType ==
  ASSUME NEW actor \in Actor
  PROVE  ResolveActor(actor) \in Actor
BY DEF ResolveActor, Actor, StaffRoles

LEMMA AsksType ==
  ASSUME NEW o \in Order, NEW next \in OrderStatus, NEW actor \in Actor
  PROVE  Asks(o, next, actor) \in RequestJob /\ Asks(o, next, actor).within = "nothing"
BY NoJobType DEF Asks, Job, RequestJob

-----------------------------------------------------------------------------
(* Type correctness. *)

\* Every payment that can still be decided belongs to an order.
PaymentTable ==
  {rows \in [Payment -> PaymentRow] :
     \A p \in Payment : rows[p].status = "PENDING" => rows[p].order \in Order}

DataTypeOK ==
  /\ orders \in [Order -> OrderRow]
  /\ payments \in PaymentTable
  /\ sessions \in [Session -> {"unopened", "active", "closed"}]
  /\ sold \in [Order -> 0 .. SoldCap]

\* TypeOK, and that requests in flight and payments refer to orders.
TypeInv == DataTypeOK /\ ControlTypeOK

LEMMA AbsentRowType == AbsentRow \in OrderRow
BY ConstantsAssumption DEF AbsentRow, OrderRow, Money, OrderPaymentStatus

LEMMA NewPaymentType ==
  ASSUME NEW o \in Order, NEW status \in {"PENDING", "CONFIRMED", "FAILED"},
         NEW amount \in Money, NEW tip \in Money, NEW origin \in Origin
  PROVE  /\ NewPayment(o, status, amount, tip, origin) \in PaymentRow
         /\ NewPayment(o, status, amount, tip, origin).order \in Order
BY DEF NewPayment, PaymentRow

LEMMA PaymentInsertType ==
  ASSUME NEW rows \in PaymentTable, NEW p \in Payment, NEW o \in Order,
         NEW status \in {"PENDING", "CONFIRMED", "FAILED"},
         NEW amount \in Money, NEW tip \in Money, NEW origin \in Origin
  PROVE  [rows EXCEPT ![p] = NewPayment(o, status, amount, tip, origin)] \in PaymentTable
BY NewPaymentType DEF PaymentTable

LEMMA PaymentUpdateType ==
  ASSUME NEW rows \in PaymentTable, NEW p \in Payment, NEW status \in {"CONFIRMED", "FAILED"}
  PROVE  [rows EXCEPT ![p].status = status] \in PaymentTable
BY DEF PaymentTable, PaymentRow

LEMMA PaymentSettleType ==
  ASSUME NEW rows \in PaymentTable, NEW p, NEW tip \in Money
  PROVE  [rows EXCEPT ![p].status = "CONFIRMED", ![p].tipAmount = tip] \in PaymentTable
<1> DEFINE settled == [rows EXCEPT ![p].status = "CONFIRMED", ![p].tipAmount = tip]
<1>1. rows \in [Payment -> PaymentRow] /\ "CONFIRMED" # "PENDING"
  BY DEF PaymentTable
<1>2. CASE p \in Payment
  <2>1. settled = [rows EXCEPT ![p] = [rows[p] EXCEPT !.status = "CONFIRMED",
                                                     !.tipAmount = tip]]
    BY <1>1, <1>2
  <2>2. /\ [rows[p] EXCEPT !.status = "CONFIRMED", !.tipAmount = tip] \in PaymentRow
        /\ [rows[p] EXCEPT !.status = "CONFIRMED", !.tipAmount = tip].status = "CONFIRMED"
    BY <1>1, <1>2 DEF PaymentRow
  <2>3. QED BY <1>1, <1>2, <2>1, <2>2 DEF PaymentTable
<1>3. CASE p \notin Payment
  <2>1. settled = rows
    BY <1>1, <1>3
  <2>2. QED BY <2>1
<1>4. QED BY <1>2, <1>3

LEMMA MoneyFacts ==
  /\ 0 \in Money /\ Total \in Money /\ StaffAmounts \subseteq Money
  /\ ClientAmounts \subseteq Money /\ TipAmounts \subseteq Money
  /\ Total + 0 \in Money /\ \A tip \in TipAmounts : Total + tip \in Money
BY ConstantsAssumption DEF Money

\* A handler that has been given an order; locals of idle handlers are never used.
LEMMA ArriveType ==
  ASSUME TypeInv, NEW r \in Request, Arrive(r)
  PROVE  TypeInv'
<1> USE NoJobType, MoneyFacts DEF TypeInv
<1>1. ASSUME NEW o \in Order, NEW entry, PlaceAsGuest(r, o, entry) PROVE TypeInv'
  <2>1. [NoJob EXCEPT !.order = o] \in RequestJob
    BY DEF Job, RequestJob
  <2>2. ControlTypeOK'
    BY <1>1, <2>1, EnterType DEF PlaceAsGuest, Step
  <2>3. QED BY <1>1, <2>2 DEF PlaceAsGuest, DataTypeOK
<1>2. ASSUME NEW o \in Order, CreateFromStaff(r, o) PROVE TypeInv'
  <2>1. [NoJob EXCEPT !.order = o] \in RequestJob
    BY DEF Job, RequestJob
  <2>2. ControlTypeOK'
    BY <1>2, <2>1, EnterType DEF CreateFromStaff, Step
  <2>3. QED BY <1>2, <2>2 DEF CreateFromStaff, DataTypeOK
<1>3. ASSUME NEW o \in Order, NEW next \in OrderStatus, NEW actor \in Actor,
             UpdateStatus(r, o, next, actor)
      PROVE  TypeInv'
  <2>1. ControlTypeOK'
    BY <1>3, AsksType, ResolveActorType, EnterType DEF UpdateStatus, Step
  <2>2. QED BY <1>3, <2>1 DEF UpdateStatus, DataTypeOK
<1>4. ASSUME NEW o \in Order, NEW actor \in Actor, ConfirmOrder(r, o, actor) PROVE TypeInv'
  <2>1. "CONFIRMED" \in OrderStatus
    BY DEF OrderStatus
  <2>2. ControlTypeOK'
    BY <1>4, <2>1, AsksType, ResolveActorType, EnterType DEF ConfirmOrder, Step
  <2>3. QED BY <1>4, <2>2 DEF ConfirmOrder, DataTypeOK
<1>5. ASSUME NEW o \in Order, CancelBySession(r, o) PROVE TypeInv'
  <2>1. "CANCELLED" \in OrderStatus /\ "system" \in Actor
    BY DEF OrderStatus, Actor
  <2>2. ControlTypeOK'
    BY <1>5, <2>1, AsksType, EnterType DEF CancelBySession, Step
  <2>3. QED BY <1>5, <2>2 DEF CancelBySession, DataTypeOK
<1>6. ASSUME NEW o \in Order, NEW tip \in TipAmounts, ProcessStaffPayment(r, o, tip)
      PROVE  TypeInv'
  <2>1. Asks(o, "CLOSED", "system") \in RequestJob
    BY AsksType DEF OrderStatus, Actor
  <2>2. [Asks(o, "CLOSED", "system") EXCEPT !.tip = tip, !.within = "newPayment"] \in RequestJob
    BY <2>1 DEF Job, RequestJob, Within
  <2>3. ControlTypeOK'
    BY <1>6, <2>2, EnterType DEF ProcessStaffPayment, Step
  <2>4. QED BY <1>6, <2>3 DEF ProcessStaffPayment, DataTypeOK
<1>7. ASSUME NEW o \in Order, NEW tip \in TipAmounts, ConfirmOrderPayment(r, o, tip)
      PROVE  TypeInv'
  <2>1. Asks(o, "CLOSED", "system") \in RequestJob
    BY AsksType DEF OrderStatus, Actor
  <2>2. [Asks(o, "CLOSED", "system") EXCEPT !.tip = tip] \in RequestJob
    BY <2>1 DEF Job, RequestJob
  <2>3. ControlTypeOK'
    BY <1>7, <2>2, EnterType DEF ConfirmOrderPayment, Step
  <2>4. QED BY <1>7, <2>3 DEF ConfirmOrderPayment, DataTypeOK
<1>8. ASSUME NEW o \in Order, NEW amount \in StaffAmounts, NEW tip \in TipAmounts,
             RecordStaffPayment(r, o, amount, tip)
      PROVE  TypeInv'
  <2>1. orders[o] \in OrderRow
    BY DEF DataTypeOK
  <2>2. [NoJob EXCEPT !.order = o, !.row = orders[o], !.amount = amount, !.tip = tip]
          \in RequestJob
    BY <2>1 DEF Job, RequestJob
  <2>3. ControlTypeOK'
    BY <1>8, <2>2, EnterType DEF RecordStaffPayment, Step
  <2>4. QED BY <1>8, <2>3 DEF RecordStaffPayment, DataTypeOK
<1>9. ASSUME NEW o \in Order, NEW p \in Payment, NEW amount \in ClientAmounts,
             CreateOnlinePayment(r, o, p, amount)
      PROVE  TypeInv'
  <2>1. [NoJob EXCEPT !.order = o, !.payment = p] \in RequestJob
    BY DEF Job, RequestJob
  <2>2. ControlTypeOK'
    BY <1>9, <2>1, EnterType DEF CreateOnlinePayment, Step
  <2>3. [payments EXCEPT ![p] = NewPayment(o, "PENDING", amount, 0, "CLIENT")]
          \in PaymentTable
    BY PaymentInsertType DEF DataTypeOK, Origin
  <2>4. QED BY <1>9, <2>2, <2>3 DEF CreateOnlinePayment, DataTypeOK
<1>10. ASSUME NEW o \in Order, RetryPayment(r, o) PROVE TypeInv'
  <2>1. Asks(o, "DELIVERED", "system") \in RequestJob
    BY AsksType DEF OrderStatus, Actor
  <2>2. [orders[o] EXCEPT !.paymentStatus = "UNPAID"] \in OrderRow
    BY DEF DataTypeOK, OrderRow, OrderPaymentStatus
  <2>3. [Asks(o, "DELIVERED", "system") EXCEPT
           !.row = [orders[o] EXCEPT !.paymentStatus = "UNPAID"]] \in RequestJob
    BY <2>1, <2>2 DEF Job, RequestJob
  <2>4. ControlTypeOK'
    BY <1>10, <2>3, EnterType DEF RetryPayment, Step
  <2>5. QED BY <1>10, <2>4 DEF RetryPayment, DataTypeOK
<1>11. ASSUME NEW o \in Order, RefundOrder(r, o) PROVE TypeInv'
  <2>1. Asks(o, "REFUNDED", "system") \in RequestJob
    BY AsksType DEF OrderStatus, Actor
  <2>2. [orders[o] EXCEPT !.paymentStatus = "REFUNDED"] \in OrderRow
    BY DEF DataTypeOK, OrderRow, OrderPaymentStatus
  <2>3. [Asks(o, "REFUNDED", "system") EXCEPT
           !.row = [orders[o] EXCEPT !.paymentStatus = "REFUNDED"]] \in RequestJob
    BY <2>1, <2>2 DEF Job, RequestJob
  <2>4. ControlTypeOK'
    BY <1>11, <2>3, EnterType DEF RefundOrder, Step
  <2>5. QED BY <1>11, <2>4 DEF RefundOrder, DataTypeOK
<1>12. ASSUME NEW o \in Order, NEW tip \in TipAmounts, CreateTip(r, o, tip) PROVE TypeInv'
  <2>1. [NoJob EXCEPT !.order = o, !.tip = tip] \in RequestJob
    BY DEF Job, RequestJob
  <2>2. ControlTypeOK'
    BY <1>12, <2>1, EnterType DEF CreateTip, Step
  <2>3. QED BY <1>12, <2>2 DEF CreateTip, DataTypeOK
<1>13. ASSUME NEW p \in Payment, ConfirmPayment(r, p) PROVE TypeInv'
  <2>1. payments[p].order \in Order
    BY <1>13 DEF DataTypeOK, PaymentTable, ConfirmPayment
  <2>2. [payments EXCEPT ![p].status = "CONFIRMED"] \in PaymentTable
    BY <1>13, PaymentUpdateType DEF DataTypeOK, ConfirmPayment
  <2>3. [NoJob EXCEPT !.order = payments[p].order] \in RequestJob
    BY <2>1 DEF Job, RequestJob
  <2>4. ControlTypeOK'
    BY <1>13, <2>3, EnterType DEF ConfirmPayment, Step
  <2>5. QED BY <1>13, <2>2, <2>4 DEF ConfirmPayment, DataTypeOK
<1>14. ASSUME NEW p \in Payment, FailPayment(r, p) PROVE TypeInv'
  <2>1. payments[p].order \in Order
    BY <1>14 DEF DataTypeOK, PaymentTable, FailPayment
  <2>2. [payments EXCEPT ![p].status = "FAILED"] \in PaymentTable
    BY <1>14, PaymentUpdateType DEF DataTypeOK, FailPayment
  <2>3. [NoJob EXCEPT !.order = payments[p].order] \in RequestJob
    BY <2>1 DEF Job, RequestJob
  <2>4. ControlTypeOK'
    BY <1>14, <2>3, EnterType DEF FailPayment, Step
  <2>5. QED BY <1>14, <2>2, <2>4 DEF FailPayment, DataTypeOK
<1>15. QED
  BY <1>1, <1>2, <1>3, <1>4, <1>5, <1>6, <1>7, <1>8, <1>9, <1>10, <1>11, <1>12, <1>13,
     <1>14 DEF Arrive

LEMMA AfterCommitType ==
  ASSUME ControlTypeOK, NEW r \in Request, pc[r] # "idle", AfterCommit(r)
  PROVE  ControlTypeOK'
<1> DEFINE rest == [Asks(job[r].order, job[r].next, "system") EXCEPT !.entry = job[r].entry]
<1>1. Asks(job[r].order, job[r].next, "system") \in RequestJob
  BY AsksType DEF ControlTypeOK, Job, RequestJob, Actor
<1>2. rest \in RequestJob
  BY <1>1 DEF ControlTypeOK, Job, RequestJob
<1>3. \/ \E step \in {"refresh", "openPayment", "countSold"} : Proceed(r, step, rest)
      \/ Finish(r)
  BY DEF AfterCommit
<1>4. QED
  BY <1>2, <1>3, ProceedType, FinishType DEF Step

LEMMA CommitSettledType ==
  ASSUME TypeInv, NEW r \in Request, NEW rows \in PaymentTable,
         pc[r] # "idle", CommitSettled(r, rows)
  PROVE  TypeInv'
<1> USE DEF TypeInv
<1>1. CASE RecomputeOrderTipAmount(rows, job[r].order) \notin Money
  BY <1>1, FinishType DEF CommitSettled, DataTypeOK
<1>2. CASE RecomputeOrderTipAmount(rows, job[r].order) \in Money
  <2>1. job[r].next \in OrderStatus
    BY DEF ControlTypeOK, Job, RequestJob
  <2>2. [status |-> job[r].next, paymentStatus |-> "PAID",
         tipAmount |-> RecomputeOrderTipAmount(rows, job[r].order)] \in OrderRow
    BY <1>2, <2>1 DEF OrderRow, OrderPaymentStatus
  <2>3. ControlTypeOK'
    BY <1>2, AfterCommitType DEF CommitSettled
  <2>4. QED BY <1>2, <2>2, <2>3 DEF CommitSettled, DataTypeOK
<1>3. QED BY <1>1, <1>2

\* The steps of a request in flight.
LEMMA RunType ==
  ASSUME TypeInv, NEW r \in Request, Run(r)
  PROVE  TypeInv'
<1> USE MoneyFacts DEF TypeInv
<1> DEFINE o == job[r].order
<1>busy. pc[r] # "idle"
  BY DEF Run, InsertOrder, ReadOrder, InitiateManually, FindPending, SumTips, SumPayments,
     SaveAndAdvance, Save, ConfirmRow, RefreshLifecycle, CountSold, TransitionOrder,
     TransitionWithPayment, RejectTransition, RefuseTip, MayTransition, InitiateRedirect,
     InitiateInstant, InsertPayment, TransitionWithNewPayment, OpenPaymentForCashier,
     WriteTip, Tippable
<1>job. job[r] \in RequestJob /\ o \in Order
  BY <1>busy DEF ControlTypeOK, RequestJob
<1>1. CASE InsertOrder(r)
  <2>1. [AbsentRow EXCEPT !.status = "CREATED"] \in OrderRow
    BY AbsentRowType DEF OrderRow, OrderStatus
  <2>2. [job[r] EXCEPT !.next = "CONFIRMED"] \in RequestJob
    BY <1>job DEF RequestJob, Job, OrderStatus
  <2>3. \/ Proceed(r, "transition", [job[r] EXCEPT !.next = "CONFIRMED"])
        \/ Finish(r)
        \/ Proceed(r, "readOrder", job[r])
    BY <1>1 DEF InsertOrder
  <2>4. ControlTypeOK'
    BY <1>job, <2>2, <2>3, ProceedType, FinishType DEF Step
  <2>5. QED BY <1>1, <2>1, <2>4 DEF InsertOrder, DataTypeOK
<1>2. CASE ReadOrder(r)
  <2> DEFINE copy == [job[r] EXCEPT !.row = orders[o]]
             failed == [copy EXCEPT !.row.paymentStatus = "FAILED",
                                    !.next = "PAYMENT_FAILED"]
  <2>1. copy \in RequestJob
    BY <1>job DEF DataTypeOK, RequestJob, Job
  <2>2. failed \in RequestJob
    BY <2>1 DEF RequestJob, Job, OrderRow, OrderPaymentStatus, OrderStatus
  <2>3. \/ Proceed(r, "initiate", copy) \/ Proceed(r, "save", failed)
        \/ Proceed(r, "sumPayments", copy)
    BY <1>2 DEF ReadOrder
  <2>4. ControlTypeOK'
    BY <2>1, <2>2, <2>3, ProceedType DEF Step
  <2>5. QED BY <1>2, <2>4 DEF ReadOrder, DataTypeOK
<1>3. CASE InitiateManually(r)
  BY <1>3, FinishType DEF InitiateManually, DataTypeOK
<1>4. CASE FindPending(r)
  <2>1. ASSUME NEW p \in Payment,
               Proceed(r, "transition",
                       [job[r] EXCEPT !.payment = p, !.within = "closeWithPayment",
                                      !.tip = IF @ = 0 THEN payments[p].tipAmount ELSE @])
        PROVE  ControlTypeOK'
    <3>1. payments[p].tipAmount \in Money
      BY DEF DataTypeOK, PaymentTable, PaymentRow
    <3>2. [job[r] EXCEPT !.payment = p, !.within = "closeWithPayment",
                         !.tip = IF @ = 0 THEN payments[p].tipAmount ELSE @] \in RequestJob
      BY <1>job, <3>1 DEF RequestJob, Job, Within
    <3>3. QED BY <2>1, <3>2, ProceedType DEF Step
  <2>2. ControlTypeOK'
    BY <1>4, <2>1, FinishType DEF FindPending
  <2>3. QED BY <1>4, <2>2 DEF FindPending, DataTypeOK
<1>5. CASE SumTips(r)
  <2> DEFINE tips == RecomputeOrderTipAmount(payments, o)
  <2>1. CASE tips \in Money
    <3>1. [job[r] EXCEPT !.row.tipAmount = tips] \in RequestJob
      BY <1>job, <2>1 DEF RequestJob, Job, OrderRow
    <3>2. ControlTypeOK'
      BY <1>5, <2>1, <3>1, ProceedType DEF SumTips, Step
    <3>3. QED BY <1>5, <3>2 DEF SumTips, DataTypeOK
  <2>2. CASE tips \notin Money
    BY <1>5, <2>2, FinishType DEF SumTips, DataTypeOK
  <2>3. QED BY <2>1, <2>2
<1>6. CASE SumPayments(r)
  <2>1. \E status \in OrderPaymentStatus :
          Proceed(r, "saveAndAdvance", [job[r] EXCEPT !.row.paymentStatus = status])
    <3>1. job[r].row.paymentStatus \in OrderPaymentStatus
      BY <1>job DEF RequestJob, Job, OrderRow
    <3>2. {"PAID", "PARTIALLY_PAID"} \subseteq OrderPaymentStatus
      BY DEF OrderPaymentStatus
    <3>3. QED BY <1>6, <3>1, <3>2 DEF SumPayments
  <2>2. \A status \in OrderPaymentStatus :
          [job[r] EXCEPT !.row.paymentStatus = status] \in RequestJob
    BY <1>job DEF RequestJob, Job, OrderRow
  <2>3. ControlTypeOK'
    BY <2>1, <2>2, ProceedType DEF Step
  <2>4. QED BY <1>6, <2>3 DEF SumPayments, DataTypeOK
<1>7. CASE SaveAndAdvance(r)
  <2>1. \A next \in {"CONFIRMED", "CLOSED"} :
          [job[r] EXCEPT !.next = next, !.row = AbsentRow] \in RequestJob
    BY <1>job, AbsentRowType DEF RequestJob, Job, OrderStatus
  <2>2. \/ \E next \in {"CONFIRMED", "CLOSED"} :
             Proceed(r, "transition", [job[r] EXCEPT !.next = next, !.row = AbsentRow])
        \/ Finish(r)
    BY <1>7 DEF SaveAndAdvance
  <2>3. ControlTypeOK'
    BY <2>1, <2>2, ProceedType, FinishType DEF Step
  <2>4. job[r].row \in OrderRow
    BY <1>job DEF RequestJob, Job
  <2>5. QED BY <1>7, <2>3, <2>4 DEF SaveAndAdvance, DataTypeOK
<1>8. CASE Save(r)
  <2>1. [job[r] EXCEPT !.row = AbsentRow] \in RequestJob /\ job[r].row \in OrderRow
    BY <1>job, AbsentRowType DEF RequestJob, Job
  <2>2. ControlTypeOK'
    BY <1>8, <2>1, ProceedType DEF Save, Step
  <2>3. QED BY <1>8, <2>1, <2>2 DEF Save, DataTypeOK
<1>9. CASE ConfirmRow(r)
  <2>1. [job[r] EXCEPT !.payment = NoPayment] \in RequestJob
    BY <1>job DEF RequestJob, Job
  <2>2. ControlTypeOK'
    BY <1>9, <2>1, ProceedType, FinishType DEF ConfirmRow, Step
  <2>3. CASE payments[job[r].payment].status = "PENDING"
    <3>1. payments' = [payments EXCEPT ![job[r].payment].status = "CONFIRMED"]
      BY <1>9, <2>3 DEF ConfirmRow
    <3>2. payments' \in PaymentTable
      <4>1. CASE job[r].payment \in Payment
        BY <2>3, <3>1, <4>1, PaymentUpdateType DEF DataTypeOK
      <4>2. CASE job[r].payment \notin Payment
        BY <3>1, <4>2 DEF DataTypeOK, PaymentTable
      <4>3. QED BY <4>1, <4>2
    <3>3. QED BY <1>9, <2>2, <3>2 DEF ConfirmRow, DataTypeOK
  <2>4. CASE payments[job[r].payment].status # "PENDING"
    BY <1>9, <2>2, <2>4 DEF ConfirmRow, DataTypeOK
  <2>5. QED BY <2>3, <2>4
<1>10. CASE RefreshLifecycle(r)
  <2>1. ControlTypeOK'
    BY <1>10, <1>job, ProceedType, FinishType DEF RefreshLifecycle, Step
  <2>2. QED BY <1>10, <2>1 DEF RefreshLifecycle, DataTypeOK
<1>11. CASE CountSold(r)
  <2>1. ControlTypeOK'
    BY <1>11, FinishType DEF CountSold
  <2>2. sold' \in [Order -> 0 .. SoldCap]
    <3>1. sold \in [Order -> 0 .. SoldCap] /\ sold[o] \in 0 .. SoldCap
      BY <1>job DEF DataTypeOK
    <3>2. \A n \in 0 .. SoldCap : (IF n < SoldCap THEN n + 1 ELSE n) \in 0 .. SoldCap
      BY DEF SoldCap
    <3>3. QED BY <1>11, <3>1, <3>2 DEF CountSold
  <2>3. QED BY <1>11, <2>1, <2>2 DEF CountSold, DataTypeOK
<1>12. CASE TransitionOrder(r)
  <2>1. ControlTypeOK'
    BY <1>12, <1>busy, AfterCommitType DEF TransitionOrder
  <2>2. [orders[o] EXCEPT !.status = job[r].next] \in OrderRow
    BY <1>job DEF DataTypeOK, OrderRow, RequestJob, Job
  <2>3. QED BY <1>12, <2>1, <2>2 DEF TransitionOrder, DataTypeOK
<1>13. CASE TransitionWithPayment(r)
  <2> DEFINE p == job[r].payment
             rows == [payments EXCEPT ![p].status = "CONFIRMED", ![p].tipAmount = job[r].tip]
  <2>1. job[r].tip \in Money
    BY <1>job DEF RequestJob, Job
  <2>2. ASSUME rows \in PaymentTable PROVE TypeInv'
    BY <1>13, <1>busy, <2>2, CommitSettledType DEF TransitionWithPayment
  <2>3. rows \in PaymentTable
    BY <2>1, PaymentSettleType DEF DataTypeOK
  <2>4. QED BY <2>2, <2>3
<1>14. CASE RejectTransition(r)
  BY <1>14, FinishType DEF RejectTransition, DataTypeOK
<1>15. CASE RefuseTip(r)
  BY <1>15, FinishType DEF RefuseTip, DataTypeOK
<1>16. ASSUME NEW p \in Payment, InitiateRedirect(r, p) PROVE TypeInv'
  <2>1. payments' \in PaymentTable
    BY <1>16, <1>job, PaymentInsertType DEF InitiateRedirect, DataTypeOK, Origin
  <2>2. QED BY <1>16, <2>1, FinishType DEF InitiateRedirect, DataTypeOK
<1>17. ASSUME NEW p \in Payment, InitiateInstant(r, p) PROVE TypeInv'
  <2>1. payments' \in PaymentTable
    BY <1>17, <1>job, PaymentInsertType DEF InitiateInstant, DataTypeOK, Origin
  <2>2. [job[r] EXCEPT !.row.paymentStatus = "PAID", !.next = "CONFIRMED"] \in RequestJob
    BY <1>job DEF RequestJob, Job, OrderRow, OrderPaymentStatus, OrderStatus
  <2>3. ControlTypeOK'
    BY <1>17, <2>2, ProceedType DEF InitiateInstant, Step
  <2>4. QED BY <1>17, <2>1, <2>3 DEF InitiateInstant, DataTypeOK
<1>18. ASSUME NEW p \in Payment, InsertPayment(r, p) PROVE TypeInv'
  <2>1. payments' \in PaymentTable
    <3>1. job[r].amount \in Money /\ job[r].tip \in Money
      BY <1>job DEF RequestJob, Job
    <3>2. QED BY <1>18, <1>job, <3>1, PaymentInsertType DEF InsertPayment, DataTypeOK, Origin
  <2>2. [job[r] EXCEPT !.amount = 0, !.tip = 0] \in RequestJob
    <3>1. [job[r] EXCEPT !.amount = 0, !.tip = 0] \in Job
      BY <1>job DEF RequestJob, Job
    <3>2. QED BY <1>job, <3>1 DEF RequestJob, Job
  <2>3. ControlTypeOK'
    BY <1>18, <2>2, ProceedType DEF InsertPayment, Step
  <2>4. QED BY <1>18, <2>1, <2>3 DEF InsertPayment, DataTypeOK
<1>19. ASSUME NEW p \in Payment, TransitionWithNewPayment(r, p) PROVE TypeInv'
  <2> DEFINE rows == [payments EXCEPT ![p] = NewPayment(o, "CONFIRMED", Total + job[r].tip,
                                                        job[r].tip, "STAFF")]
  <2>1. CASE job[r].within = "newPayment"
    <3>1. job[r].tip \in Money /\ Total + job[r].tip \in Money
      BY <1>job, <2>1 DEF RequestJob, Job
    <3>2. rows \in PaymentTable
      BY <1>job, <3>1, PaymentInsertType DEF DataTypeOK, Origin
    <3>3. QED
      BY <1>19, <1>busy, <3>2, CommitSettledType DEF TransitionWithNewPayment
  <2>2. QED BY <1>19, <2>1 DEF TransitionWithNewPayment
<1>20. ASSUME NEW p \in Payment, OpenPaymentForCashier(r, p) PROVE TypeInv'
  <2>1. payments' \in PaymentTable
    BY <1>20, <1>job, PaymentInsertType DEF OpenPaymentForCashier, DataTypeOK, Origin
  <2>2. [job[r] EXCEPT !.next = "CLOSED", !.payment = p,
                       !.within = "closeWithPayment"] \in RequestJob
    BY <1>job DEF RequestJob, Job, OrderStatus, Within
  <2>3. ControlTypeOK'
    BY <1>20, <2>2, ProceedType, FinishType DEF OpenPaymentForCashier, Step
  <2>4. QED BY <1>20, <2>1, <2>3 DEF OpenPaymentForCashier, DataTypeOK
<1>21. ASSUME NEW p \in Payment, WriteTip(r, p) PROVE TypeInv'
  <2> DEFINE rows == [payments EXCEPT
                        ![p] = NewPayment(o, "CONFIRMED", job[r].tip, job[r].tip, "TIP")]
  <2>1. rows \in PaymentTable
    <3>1. job[r].tip \in Money
      BY <1>job DEF RequestJob, Job
    <3>2. QED BY <1>job, <3>1, PaymentInsertType DEF DataTypeOK, Origin
  <2>2. ControlTypeOK'
    BY <1>21, FinishType DEF WriteTip
  <2>3. CASE RecomputeOrderTipAmount(rows, o) \in Money
    <3>1. [orders[o] EXCEPT !.tipAmount = RecomputeOrderTipAmount(rows, o)] \in OrderRow
      BY <1>job, <2>3 DEF DataTypeOK, OrderRow
    <3>2. QED BY <1>21, <2>1, <2>2, <2>3, <3>1 DEF WriteTip, DataTypeOK
  <2>4. CASE RecomputeOrderTipAmount(rows, o) \notin Money
    BY <1>21, <2>2, <2>4 DEF WriteTip, DataTypeOK
  <2>5. QED BY <2>3, <2>4
<1>22. QED
  BY <1>1, <1>2, <1>3, <1>4, <1>5, <1>6, <1>7, <1>8, <1>9, <1>10, <1>11, <1>12, <1>13,
     <1>14, <1>15, <1>16, <1>17, <1>18, <1>19, <1>20, <1>21 DEF Run

LEMMA NextType ==
  ASSUME TypeInv, [Next]_vars
  PROVE  TypeInv'
<1> USE DEF TypeInv
<1>1. ASSUME NEW s \in Session, OpenSession(s) PROVE TypeInv'
  BY <1>1 DEF OpenSession, DataTypeOK, ControlTypeOK
<1>2. ASSUME NEW o \in Order, NEW p \in Payment, NEW amount \in ClientAmounts,
             CreatePayment(o, p, amount)
      PROVE  TypeInv'
  <2>1. payments' \in PaymentTable
    BY <1>2, MoneyFacts, PaymentInsertType DEF CreatePayment, DataTypeOK, Origin
  <2>2. QED BY <1>2, <2>1 DEF CreatePayment, DataTypeOK, ControlTypeOK
<1>3. ASSUME NEW r \in Request, Die(r) PROVE TypeInv'
  BY <1>3, FinishType DEF Die, DataTypeOK
<1>4. CASE UNCHANGED vars
  BY <1>4 DEF vars, DataTypeOK, ControlTypeOK
<1>5. QED
  BY <1>1, <1>2, <1>3, <1>4, ArriveType, RunType DEF Next

LEMMA InitType == Init => TypeInv
BY AbsentRowType, NoJobType, MoneyFacts
   DEF Init, TypeInv, DataTypeOK, ControlTypeOK, PaymentTable, AbsentPayment, PaymentRow,
       Origin, Step, SoldCap

\* Every variable keeps its type, whatever the requests do: in particular no
\* money column of OrderPayments ever exceeds its width.
THEOREM TypeInvariant == Spec => []TypeInv
<1>1. Init => TypeInv
  BY InitType
<1>2. TypeInv /\ [Next]_vars => TypeInv'
  BY NextType
<1>3. QED BY <1>1, <1>2, PTL DEF Spec

THEOREM TypeCorrect == Spec => []TypeOK
<1>1. TypeInv => TypeOK
  BY DEF TypeInv, TypeOK, DataTypeOK, ControlTypeOK, PaymentTable
<1>2. QED BY <1>1, TypeInvariant, PTL

-----------------------------------------------------------------------------
(* Action properties. *)

\* What one step leaves of the payments that have been confirmed.
KeepsConfirmed(rows) ==
  \A p \in Payment :
    payments[p].status = "CONFIRMED" =>
      /\ rows[p].status = "CONFIRMED"
      /\ rows[p].order = payments[p].order
      /\ rows[p].amount = payments[p].amount

LEMMA InsertKeepsConfirmed ==
  ASSUME payments \in PaymentTable, NEW p \in UnusedPayments, NEW row
  PROVE  KeepsConfirmed([payments EXCEPT ![p] = row])
BY DEF KeepsConfirmed, UnusedPayments, PaymentTable

LEMMA DecideKeepsConfirmed ==
  ASSUME payments \in PaymentTable, NEW p, payments[p].status = "PENDING", NEW status
  PROVE  KeepsConfirmed([payments EXCEPT ![p].status = status])
BY DEF KeepsConfirmed, PaymentTable, PaymentRow

LEMMA SettleKeepsConfirmed ==
  ASSUME payments \in PaymentTable, NEW p, NEW tip
  PROVE  KeepsConfirmed([payments EXCEPT ![p].status = "CONFIRMED", ![p].tipAmount = tip])
BY DEF KeepsConfirmed, PaymentTable, PaymentRow

LEMMA StepKeepsConfirmed ==
  ASSUME TypeInv, [Next]_vars
  PROVE  KeepsConfirmed(payments')
<1>1. payments \in PaymentTable
  BY DEF TypeInv, DataTypeOK
<1>2. CASE UNCHANGED payments
  BY <1>2 DEF KeepsConfirmed
<1>3. ASSUME NEW r \in Request, Arrive(r), payments' # payments
      PROVE  KeepsConfirmed(payments')
  <2>1. ASSUME NEW p \in Payment, ConfirmPayment(r, p) PROVE KeepsConfirmed(payments')
    BY <1>1, <2>1, DecideKeepsConfirmed DEF ConfirmPayment
  <2>2. ASSUME NEW p \in Payment, FailPayment(r, p) PROVE KeepsConfirmed(payments')
    BY <1>1, <2>2, DecideKeepsConfirmed DEF FailPayment
  <2>3. ASSUME NEW o \in Order, NEW p \in Payment, NEW amount \in ClientAmounts,
               CreateOnlinePayment(r, o, p, amount)
        PROVE  KeepsConfirmed(payments')
    BY <1>1, <2>3, InsertKeepsConfirmed DEF CreateOnlinePayment
  <2>4. QED
    BY <1>3, <2>1, <2>2, <2>3
       DEF Arrive, PlaceAsGuest, CreateFromStaff, UpdateStatus, ConfirmOrder,
           CancelBySession, ProcessStaffPayment, ConfirmOrderPayment, RecordStaffPayment,
           RetryPayment, RefundOrder, CreateTip
<1>4. ASSUME NEW r \in Request, Run(r), payments' # payments
      PROVE  KeepsConfirmed(payments')
  <2>1. CASE ConfirmRow(r)
    <3>1. payments[job[r].payment].status = "PENDING"
      BY <1>4, <2>1 DEF ConfirmRow
    <3>2. payments' = [payments EXCEPT ![job[r].payment].status = "CONFIRMED"]
      BY <2>1, <3>1 DEF ConfirmRow
    <3>3. QED BY <1>1, <3>1, <3>2, DecideKeepsConfirmed
  <2>2. CASE TransitionWithPayment(r)
    <3> DEFINE rows == [payments EXCEPT ![job[r].payment].status = "CONFIRMED",
                                        ![job[r].payment].tipAmount = job[r].tip]
    <3>1. KeepsConfirmed(rows)
      BY <1>1, SettleKeepsConfirmed
    <3>2. payments' = rows
      BY <1>4, <2>2 DEF TransitionWithPayment, CommitSettled
    <3>3. QED BY <3>1, <3>2
  <2>3. ASSUME NEW p \in Payment,
               \/ InitiateRedirect(r, p) \/ InitiateInstant(r, p) \/ InsertPayment(r, p)
               \/ OpenPaymentForCashier(r, p)
        PROVE  KeepsConfirmed(payments')
    <3>1. PICK row : payments' = [payments EXCEPT ![p] = row] /\ p \in UnusedPayments
      BY <2>3 DEF InitiateRedirect, InitiateInstant, InsertPayment, OpenPaymentForCashier
    <3>2. QED BY <1>1, <3>1, InsertKeepsConfirmed
  <2>4. ASSUME NEW p \in Payment, TransitionWithNewPayment(r, p)
        PROVE  KeepsConfirmed(payments')
    BY <1>1, <1>4, <2>4, InsertKeepsConfirmed DEF TransitionWithNewPayment, CommitSettled
  <2>5. ASSUME NEW p \in Payment, WriteTip(r, p)
        PROVE  KeepsConfirmed(payments')
    BY <1>1, <1>4, <2>5, InsertKeepsConfirmed DEF WriteTip
  <2>6. QED
    BY <1>4, <2>1, <2>2, <2>3, <2>4, <2>5
       DEF Run, InsertOrder, ReadOrder, InitiateManually, FindPending, SumTips, SumPayments,
           SaveAndAdvance, Save, RefreshLifecycle, CountSold, TransitionOrder,
           RejectTransition, RefuseTip
<1>5. ASSUME NEW o \in Order, NEW p \in Payment, NEW amount \in ClientAmounts,
             CreatePayment(o, p, amount)
      PROVE  KeepsConfirmed(payments')
  BY <1>1, <1>5, InsertKeepsConfirmed DEF CreatePayment
<1>6. QED
  BY <1>2, <1>3, <1>4, <1>5 DEF Next, OpenSession, Die, vars

\* Money that has been taken stays taken: no late callback, duplicate confirmation
\* or stale copy changes a CONFIRMED payment's status, order or amount (the
\* status checks of payments.service.ts under the payment lock).
THEOREM ConfirmedIsFinal == Spec => ConfirmedPaymentsAreFinal
<1>1. TypeInv /\ [Next]_vars =>
        [\A p \in Payment :
           payments[p].status = "CONFIRMED" =>
             /\ payments'[p].status = "CONFIRMED"
             /\ payments'[p].order = payments[p].order
             /\ payments'[p].amount = payments[p].amount]_vars
  BY StepKeepsConfirmed DEF KeepsConfirmed
<1>2. QED BY <1>1, TypeInvariant, PTL DEF Spec, ConfirmedPaymentsAreFinal

-----------------------------------------------------------------------------
(* The sums of confirmed money. *)

LEMMA UnitsFinite ==
  ASSUME NEW rows, NEW column, NEW o
  PROVE  IsFiniteSet(Units(rows, column, o)) /\ SumConfirmed(rows, column, o) \in Nat
<1>1. IsFiniteSet(Payment) /\ IsFiniteSet(1 .. MaxMoney)
  BY ConstantsAssumption, FS_Interval
<1>2. IsFiniteSet(Payment \X (1 .. MaxMoney))
  BY <1>1, FS_Product
<1>3. Units(rows, column, o) \in SUBSET (Payment \X (1 .. MaxMoney))
  BY DEF Units
<1>4. IsFiniteSet(Units(rows, column, o))
  BY <1>2, <1>3, FS_Subset
<1>5. QED BY <1>4, FS_CardinalityType DEF SumConfirmed

\* More confirmed money is a larger sum.
LEMMA SumGrows ==
  ASSUME NEW rows, NEW column, NEW rows2, NEW column2, NEW o,
         Units(rows, column, o) \subseteq Units(rows2, column2, o)
  PROVE  SumConfirmed(rows, column, o) <= SumConfirmed(rows2, column2, o)
<1>1. IsFiniteSet(Units(rows2, column2, o))
  BY UnitsFinite
<1>2. QED BY <1>1, FS_Subset DEF SumConfirmed

\* Every confirmed payment is part of the sum.
LEMMA SumHasEach ==
  ASSUME NEW rows \in PaymentTable, NEW column \in [Payment -> Money], NEW p \in Payment,
         rows[p].status = "CONFIRMED"
  PROVE  SumConfirmed(rows, column, rows[p].order) >= column[p]
<1> DEFINE mine == {p} \X (1 .. column[p])
<1>1. column[p] \in Nat /\ column[p] <= MaxMoney
  BY ConstantsAssumption DEF Money
<1>2. IsFiniteSet(mine) /\ Cardinality(mine) = column[p]
  <2>1. IsFiniteSet({p}) /\ Cardinality({p}) = 1
    BY FS_Singleton
  <2>2. IsFiniteSet(1 .. column[p]) /\ Cardinality(1 .. column[p]) = column[p]
    BY <1>1, FS_Interval
  <2>3. IsFiniteSet(mine) /\ Cardinality(mine) = 1 * column[p]
    BY <2>1, <2>2, FS_Product
  <2>4. QED BY <1>1, <2>3
<1>3. mine \in SUBSET Units(rows, column, rows[p].order)
  BY <1>1, ConstantsAssumption DEF Units
<1>4. QED
  BY <1>2, <1>3, UnitsFinite, FS_Subset DEF SumConfirmed

Amounts(rows) == [p \in Payment |-> rows[p].amount]

LEMMA PaidTotalGrows ==
  ASSUME TypeInv, TypeInv', KeepsConfirmed(payments'), NEW o
  PROVE  PaidTotal(o) \in Nat /\ PaidTotal(o)' \in Nat /\ PaidTotal(o) <= PaidTotal(o)'
<1>1. Units(payments, Amounts(payments), o) \subseteq Units(payments', Amounts(payments'), o)
  BY DEF Units, Amounts, KeepsConfirmed
<1>2. QED
  BY <1>1, SumGrows, UnitsFinite DEF PaidTotal, Amounts

LEMMA PaidByOne ==
  ASSUME NEW rows \in PaymentTable, NEW p \in Payment, rows[p].status = "CONFIRMED",
         rows[p].amount >= Total
  PROVE  SumConfirmed(rows, [q \in Payment |-> rows[q].amount], rows[p].order) >= Total
<1> DEFINE amounts == [q \in Payment |-> rows[q].amount]
<1>1. amounts \in [Payment -> Money]
  BY DEF PaymentTable, PaymentRow
<1>2. SumConfirmed(rows, amounts, rows[p].order) >= rows[p].amount
  BY <1>1, SumHasEach
<1>3. SumConfirmed(rows, amounts, rows[p].order) \in Nat /\ rows[p].amount \in Nat
  BY <1>1, UnitsFinite, ConstantsAssumption DEF Money, PaymentTable, PaymentRow
<1>4. QED BY <1>2, <1>3, ConstantsAssumption

-----------------------------------------------------------------------------
(* An order shown as PAID is covered by confirmed payments.                *)
(*                                                                         *)
(* Copies of order rows travel in handlers and are written back without a  *)
(* lock, so the invariant speaks of the copies too; and a handler that     *)
(* closes an order with a payment it was handed relies on that payment.    *)

\* Payments that clients of POST /payments make are for the order's total.
ClientsPayInFull == \A amount \in ClientAmounts : amount >= Total

Covered(o) == PaidTotal(o) >= Total

\* The payment a closing handler holds is its order's and pays for it.
HoldsEnough(r) ==
  LET p == job[r].payment IN
  /\ pc[r] = "transition"
  /\ p \in Payment
  /\ payments[p].status # "ABSENT"
  /\ payments[p].order = job[r].order
  /\ payments[p].amount >= Total

\* Handler r carries a copy of a row that says its order is paid for.
CarriesPaid(r) == pc[r] # "idle" /\ job[r].row.paymentStatus = "PAID"

PaidInv ==
  /\ PaidMeansCovered
  /\ \A r \in Request : /\ CarriesPaid(r) => Covered(job[r].order)
                        /\ job[r].within = "closeWithPayment" => HoldsEnough(r)
  /\ \A p \in Payment : payments[p].status = "PENDING" => payments[p].amount >= Total

\* A step neither removes a payment nor changes what it is for, and a payment that
\* becomes pending is for the total.
KeepsPending(rows) ==
  \A p \in Payment :
    /\ payments[p].status # "ABSENT" =>
         /\ rows[p].status # "ABSENT"
         /\ rows[p].order = payments[p].order
         /\ rows[p].amount = payments[p].amount
    /\ rows[p].status = "PENDING" => payments[p].status = "PENDING" \/ rows[p].amount >= Total

\* Where "PAID" in an order row comes from: the row itself, a handler's copy of
\* it, or payments that cover the order before or after the step.
PaidFrom(o) ==
  \/ orders[o].paymentStatus = "PAID"
  \/ Covered(o)
  \/ \E q \in Request : CarriesPaid(q) /\ job[q].order = o
  \/ Covered(o)'

\* Handlers other than r stay where they are.
OthersStay(r) ==
  \A q \in Request : q # r => pc'[q] = pc[q] /\ job'[q] = job[q]

\* What a step may do to the handler that takes it.
PaidControl(r) ==
  /\ CarriesPaid(r)' => \E o \in Order : job'[r].order = o /\ PaidFrom(o)
  /\ job'[r].within = "closeWithPayment" => HoldsEnough(r)'

LEMMA PaidStays ==
  ASSUME TypeInv, TypeInv', PaidInv, KeepsConfirmed(payments'), NEW o \in Order, PaidFrom(o)
  PROVE  Covered(o)'
<1>1. PaidTotal(o) \in Nat /\ PaidTotal(o)' \in Nat /\ PaidTotal(o) <= PaidTotal(o)'
  BY PaidTotalGrows
<1>2. Covered(o) => Covered(o)'
  BY <1>1, ConstantsAssumption DEF Covered
<1>3. QED BY <1>2 DEF PaidFrom, PaidInv, PaidMeansCovered, Covered

LEMMA PaidStep ==
  ASSUME TypeInv, TypeInv', PaidInv, KeepsConfirmed(payments'), KeepsPending(payments'),
         \A o \in Order : orders'[o].paymentStatus = "PAID" => PaidFrom(o),
         \A q \in Request : \/ pc'[q] = pc[q] /\ job'[q] = job[q]
                            \/ PaidControl(q)
  PROVE  PaidInv'
<1>1. PaidMeansCovered'
  BY PaidStays DEF PaidMeansCovered, Covered
<1>2. \A q \in Request : CarriesPaid(q)' => job'[q].order \in Order
  BY DEF TypeInv, ControlTypeOK, RequestJob, CarriesPaid
<1>3. ASSUME NEW q \in Request, pc'[q] = pc[q], job'[q] = job[q]
      PROVE  PaidControl(q)
  <2>1. CarriesPaid(q)' => \E o \in Order : job'[q].order = o /\ PaidFrom(o)
    BY <1>2, <1>3 DEF CarriesPaid, PaidFrom
  <2>2. job'[q].within = "closeWithPayment" => HoldsEnough(q)'
    BY <1>3 DEF PaidInv, HoldsEnough, KeepsPending
  <2>3. QED BY <2>1, <2>2 DEF PaidControl
<1>4. \A q \in Request : PaidControl(q)
  BY <1>3
<1>5. \A q \in Request : CarriesPaid(q)' => Covered(job[q].order)'
  BY <1>2, <1>4, PaidStays DEF PaidControl
<1>6. \A p \in Payment : payments'[p].status = "PENDING" => payments'[p].amount >= Total
  BY DEF KeepsPending, PaidInv
<1>7. QED BY <1>1, <1>4, <1>5, <1>6 DEF PaidInv, PaidControl

LEMMA InsertKeepsPending ==
  ASSUME payments \in PaymentTable, NEW p \in UnusedPayments, NEW row,
         row.status = "PENDING" => row.amount >= Total
  PROVE  KeepsPending([payments EXCEPT ![p] = row])
BY DEF KeepsPending, UnusedPayments, PaymentTable

LEMMA DecideKeepsPending ==
  ASSUME payments \in PaymentTable, NEW p, payments[p].status = "PENDING",
         NEW status \in {"CONFIRMED", "FAILED"}
  PROVE  KeepsPending([payments EXCEPT ![p].status = status])
BY DEF KeepsPending, PaymentTable, PaymentRow

LEMMA SettleKeepsPending ==
  ASSUME payments \in PaymentTable, NEW p, NEW tip
  PROVE  KeepsPending([payments EXCEPT ![p].status = "CONFIRMED", ![p].tipAmount = tip])
BY DEF KeepsPending, PaymentTable, PaymentRow

\* A step of one handler: the tables' part and the handler's part.
LEMMA PaidStepOfOne ==
  ASSUME TypeInv, TypeInv', PaidInv, [Next]_vars, NEW r \in Request,
         OthersStay(r), KeepsPending(payments'),
         \A o \in Order : orders'[o].paymentStatus = "PAID" => PaidFrom(o),
         PaidControl(r)
  PROVE  PaidInv'
BY StepKeepsConfirmed, PaidStep DEF OthersStay

\* A request enters with a copy of a row as it stands in the table, if with any.
LEMMA PaidArrival ==
  ASSUME TypeInv, TypeInv', PaidInv, [Next]_vars, NEW r \in Request,
         NEW entry, NEW step, NEW j \in RequestJob, Enter(r, entry, step, j),
         orders' = orders, KeepsPending(payments'),
         j.within # "closeWithPayment",
         j.row.paymentStatus = "PAID" => orders[j.order].paymentStatus = "PAID"
  PROVE  PaidInv'
<1>1. OthersStay(r) /\ pc'[r] = step /\ job'[r] = [j EXCEPT !.entry = entry]
  BY DEF Enter, OthersStay, TypeInv, ControlTypeOK
<1>2. /\ job'[r].order = j.order /\ job'[r].row = j.row /\ job'[r].within = j.within
      /\ j.order \in Order
  BY <1>1 DEF RequestJob, Job
<1>3. PaidControl(r)
  BY <1>2 DEF PaidControl, CarriesPaid, PaidFrom
<1>4. \A o \in Order : orders'[o].paymentStatus = "PAID" => PaidFrom(o)
  BY DEF PaidFrom
<1>5. QED BY <1>1, <1>3, <1>4, PaidStepOfOne

\* What is known of locals that were given a row or were not.
LEMMA AsksNoRow ==
  ASSUME NEW o \in Order, NEW next \in OrderStatus, NEW actor \in Actor
  PROVE  /\ Asks(o, next, actor) \in RequestJob /\ Asks(o, next, actor).order = o
         /\ Asks(o, next, actor).within = "nothing"
         /\ Asks(o, next, actor).row.paymentStatus = "UNPAID"
BY AsksType DEF Asks, NoJob, AbsentRow

LEMMA ArrivePaid ==
  ASSUME TypeInv, TypeInv', PaidInv, [Next]_vars, ClientsPayInFull,
         NEW r \in Request, Arrive(r)
  PROVE  PaidInv'
<1> USE NoJobType, MoneyFacts
<1>pay. payments \in PaymentTable /\ (payments' = payments => KeepsPending(payments'))
  BY DEF TypeInv, DataTypeOK, KeepsPending
<1>none. NoJob.row.paymentStatus = "UNPAID"
  BY DEF NoJob, AbsentRow
<1>new. \A o \in Order : /\ [NoJob EXCEPT !.order = o] \in RequestJob
                         /\ [NoJob EXCEPT !.order = o].within = "nothing"
                         /\ [NoJob EXCEPT !.order = o].row.paymentStatus = "UNPAID"
  BY <1>none DEF Job, RequestJob
<1>1. ASSUME NEW o \in Order, NEW entry, PlaceAsGuest(r, o, entry) PROVE PaidInv'
  BY <1>1, <1>pay, <1>new, PaidArrival DEF PlaceAsGuest
<1>2. ASSUME NEW o \in Order, CreateFromStaff(r, o) PROVE PaidInv'
  BY <1>2, <1>pay, <1>new, PaidArrival DEF CreateFromStaff
<1>3. ASSUME NEW o \in Order, NEW next \in OrderStatus, NEW actor \in Actor,
             UpdateStatus(r, o, next, actor)
      PROVE  PaidInv'
  <2> DEFINE j == Asks(o, next, ResolveActor(actor))
  <2>1. j \in RequestJob /\ j.within = "nothing" /\ j.row.paymentStatus = "UNPAID"
    BY AsksNoRow, ResolveActorType
  <2>2. QED BY <1>3, <1>pay, <2>1, PaidArrival DEF UpdateStatus
<1>4. ASSUME NEW o \in Order, NEW actor \in Actor, ConfirmOrder(r, o, actor) PROVE PaidInv'
  <2> DEFINE j == Asks(o, "CONFIRMED", ResolveActor(actor))
  <2>1. j \in RequestJob /\ j.within = "nothing" /\ j.row.paymentStatus = "UNPAID"
    BY AsksNoRow, ResolveActorType DEF OrderStatus
  <2>2. QED BY <1>4, <1>pay, <2>1, PaidArrival DEF ConfirmOrder
<1>5. ASSUME NEW o \in Order, CancelBySession(r, o) PROVE PaidInv'
  BY <1>5, <1>pay, AsksNoRow, PaidArrival DEF CancelBySession, OrderStatus, Actor
<1>6. ASSUME NEW o \in Order, NEW tip \in TipAmounts, ProcessStaffPayment(r, o, tip)
      PROVE  PaidInv'
  <2> DEFINE j == [Asks(o, "CLOSED", "system") EXCEPT !.tip = tip, !.within = "newPayment"]
  <2>1. /\ Asks(o, "CLOSED", "system") \in RequestJob
        /\ Asks(o, "CLOSED", "system").row.paymentStatus = "UNPAID"
    BY AsksNoRow DEF OrderStatus, Actor
  <2>2. j \in RequestJob
    BY <2>1 DEF RequestJob, Job, Within
  <2>3. j.within = "newPayment" /\ j.row.paymentStatus = "UNPAID"
    BY <2>1 DEF RequestJob, Job
  <2>4. QED BY <1>6, <1>pay, <2>2, <2>3, PaidArrival DEF ProcessStaffPayment
<1>7. ASSUME NEW o \in Order, NEW tip \in TipAmounts, ConfirmOrderPayment(r, o, tip)
      PROVE  PaidInv'
  <2> DEFINE j == [Asks(o, "CLOSED", "system") EXCEPT !.tip = tip]
  <2>1. j \in RequestJob /\ j.within = "nothing" /\ j.row.paymentStatus = "UNPAID"
    BY AsksNoRow DEF OrderStatus, Actor, RequestJob, Job
  <2>2. QED BY <1>7, <1>pay, <2>1, PaidArrival DEF ConfirmOrderPayment
<1>8. ASSUME NEW o \in Order, NEW amount \in StaffAmounts, NEW tip \in TipAmounts,
             RecordStaffPayment(r, o, amount, tip)
      PROVE  PaidInv'
  <2> DEFINE j == [NoJob EXCEPT !.order = o, !.row = orders[o], !.amount = amount, !.tip = tip]
  <2>1. orders[o] \in OrderRow
    BY DEF TypeInv, DataTypeOK
  <2>2. j \in RequestJob /\ j.within = "nothing" /\ j.row = orders[o] /\ j.order = o
    BY <2>1 DEF RequestJob, Job
  <2>3. QED BY <1>8, <1>pay, <2>2, PaidArrival DEF RecordStaffPayment
<1>9. ASSUME NEW o \in Order, NEW p \in Payment, NEW amount \in ClientAmounts,
             CreateOnlinePayment(r, o, p, amount)
      PROVE  PaidInv'
  <2> DEFINE j == [NoJob EXCEPT !.order = o, !.payment = p]
  <2>1. j \in RequestJob /\ j.within = "nothing" /\ j.row.paymentStatus = "UNPAID"
    BY <1>none DEF RequestJob, Job
  <2>2. NewPayment(o, "PENDING", amount, 0, "CLIENT").amount >= Total
    BY DEF NewPayment, ClientsPayInFull
  <2>3. KeepsPending(payments')
    BY <1>9, <1>pay, <2>2, InsertKeepsPending DEF CreateOnlinePayment
  <2>4. QED BY <1>9, <2>1, <2>3, PaidArrival DEF CreateOnlinePayment
<1>10. ASSUME NEW o \in Order, RetryPayment(r, o) PROVE PaidInv'
  <2> DEFINE row == [orders[o] EXCEPT !.paymentStatus = "UNPAID"]
             j == [Asks(o, "DELIVERED", "system") EXCEPT !.row = row]
  <2>1. row \in OrderRow /\ row.paymentStatus = "UNPAID"
    BY DEF TypeInv, DataTypeOK, OrderRow, OrderPaymentStatus
  <2>2. j \in RequestJob /\ j.within = "nothing" /\ j.row = row
    BY <2>1, AsksNoRow DEF OrderStatus, Actor, RequestJob, Job
  <2>3. QED BY <1>10, <1>pay, <2>1, <2>2, PaidArrival DEF RetryPayment
<1>11. ASSUME NEW o \in Order, RefundOrder(r, o) PROVE PaidInv'
  <2> DEFINE row == [orders[o] EXCEPT !.paymentStatus = "REFUNDED"]
             j == [Asks(o, "REFUNDED", "system") EXCEPT !.row = row]
  <2>1. row \in OrderRow /\ row.paymentStatus = "REFUNDED"
    BY DEF TypeInv, DataTypeOK, OrderRow, OrderPaymentStatus
  <2>2. j \in RequestJob /\ j.within = "nothing" /\ j.row = row
    BY <2>1, AsksNoRow DEF OrderStatus, Actor, RequestJob, Job
  <2>3. QED BY <1>11, <1>pay, <2>1, <2>2, PaidArrival DEF RefundOrder
<1>12. ASSUME NEW o \in Order, NEW tip \in TipAmounts, CreateTip(r, o, tip) PROVE PaidInv'
  <2> DEFINE j == [NoJob EXCEPT !.order = o, !.tip = tip]
  <2>1. j \in RequestJob /\ j.within = "nothing" /\ j.row.paymentStatus = "UNPAID"
    BY <1>none DEF RequestJob, Job
  <2>2. QED BY <1>12, <1>pay, <2>1, PaidArrival DEF CreateTip
<1>13. ASSUME NEW p \in Payment, ConfirmPayment(r, p) \/ FailPayment(r, p) PROVE PaidInv'
  <2>1. payments[p].status = "PENDING" /\ payments[p].order \in Order
    BY <1>13, <1>pay DEF ConfirmPayment, FailPayment, PaymentTable
  <2>2. KeepsPending(payments')
    BY <1>13, <1>pay, <2>1, DecideKeepsPending DEF ConfirmPayment, FailPayment
  <2> DEFINE j == [NoJob EXCEPT !.order = payments[p].order]
  <2>3. j \in RequestJob /\ j.within = "nothing" /\ j.row.paymentStatus = "UNPAID"
    BY <1>new, <2>1
  <2>4. QED
    BY <1>13, <2>2, <2>3, PaidArrival DEF ConfirmPayment, FailPayment
<1>14. QED
  BY <1>1, <1>2, <1>3, <1>4, <1>5, <1>6, <1>7, <1>8, <1>9, <1>10, <1>11, <1>12, <1>13
     DEF Arrive

\* A handler moves on with locals j.
LEMMA PaidMove ==
  ASSUME TypeInv, TypeInv', PaidInv, [Next]_vars, NEW r \in Request, NEW step, NEW j,
         Proceed(r, step, j), KeepsPending(payments'),
         \A o \in Order : orders'[o].paymentStatus = "PAID" => PaidFrom(o),
         step # "idle" /\ j.row.paymentStatus = "PAID" =>
           \E o \in Order : j.order = o /\ PaidFrom(o),
         j.within = "closeWithPayment" =>
           /\ step = "transition" /\ j.payment \in Payment
           /\ payments'[j.payment].status # "ABSENT"
           /\ payments'[j.payment].order = j.order
           /\ payments'[j.payment].amount >= Total
  PROVE  PaidInv'
<1>1. OthersStay(r) /\ pc'[r] = step /\ job'[r] = j
  BY DEF Proceed, OthersStay, TypeInv, ControlTypeOK
<1>2. PaidControl(r)
  BY <1>1 DEF PaidControl, CarriesPaid, HoldsEnough
<1>3. QED BY <1>1, <1>2, PaidStepOfOne

LEMMA PaidFinish ==
  ASSUME TypeInv, TypeInv', PaidInv, [Next]_vars, NEW r \in Request, Finish(r),
         KeepsPending(payments'),
         \A o \in Order : orders'[o].paymentStatus = "PAID" => PaidFrom(o)
  PROVE  PaidInv'
BY NoJobType, PaidMove DEF Finish

\* A commit leaves nothing of the locals that the sums rest on.
LEMMA PaidCommit ==
  ASSUME TypeInv, TypeInv', PaidInv, [Next]_vars, NEW r \in Request, pc[r] # "idle",
         AfterCommit(r), KeepsPending(payments'),
         \A o \in Order : orders'[o].paymentStatus = "PAID" => PaidFrom(o)
  PROVE  PaidInv'
<1> DEFINE rest == [Asks(job[r].order, job[r].next, "system") EXCEPT !.entry = job[r].entry]
<1>1. job[r].order \in Order /\ job[r].next \in OrderStatus
  BY DEF TypeInv, ControlTypeOK, RequestJob, Job
<1>2. rest.within = "nothing" /\ rest.row.paymentStatus = "UNPAID"
  BY <1>1, AsksNoRow DEF Actor, RequestJob, Job
<1>3. Finish(r) \/ \E step : Proceed(r, step, rest)
  BY DEF AfterCommit
<1>4. QED BY <1>2, <1>3, PaidFinish, PaidMove

\* A close confirms a payment of its order that is for the total.
LEMMA PaidSettle ==
  ASSUME TypeInv, TypeInv', PaidInv, [Next]_vars, NEW r \in Request, pc[r] # "idle",
         NEW p \in Payment, NEW rows, CommitSettled(r, rows), KeepsPending(rows),
         rows[p].status = "CONFIRMED", rows[p].order = job[r].order,
         rows[p].amount >= Total
  PROVE  PaidInv'
<1>1. PICK o \in Order : o = job[r].order
  BY DEF TypeInv, ControlTypeOK, RequestJob
<1>2. CASE RecomputeOrderTipAmount(rows, o) \notin Money
  <2>1. Finish(r) /\ orders' = orders /\ payments' = payments
    BY <1>1, <1>2 DEF CommitSettled
  <2>2. KeepsPending(payments')
    BY <2>1 DEF KeepsPending
  <2>3. QED BY <2>1, <2>2, PaidFinish DEF PaidFrom
<1>3. CASE RecomputeOrderTipAmount(rows, o) \in Money
  <2>1. /\ payments' = rows /\ AfterCommit(r)
        /\ \A x \in Order : x # o => orders'[x] = orders[x]
    BY <1>1, <1>3 DEF CommitSettled, TypeInv, DataTypeOK
  <2>2. payments' \in PaymentTable
    BY DEF TypeInv, DataTypeOK
  <2>3. payments'[p].order = o
    BY <1>1, <2>1
  <2>4. PaidFrom(o)
    BY <2>1, <2>2, <2>3, PaidByOne DEF PaidFrom, Covered, PaidTotal
  <2>5. ASSUME NEW x \in Order, orders'[x].paymentStatus = "PAID" PROVE PaidFrom(x)
    BY <2>1, <2>4, <2>5 DEF PaidFrom
  <2>6. QED BY <2>1, <2>5, PaidCommit
<1>4. QED BY <1>2, <1>3

LEMMA RunPaid ==
  ASSUME TypeInv, TypeInv', PaidInv, [Next]_vars, NEW r \in Request, Run(r)
  PROVE  PaidInv'
<1>busy. pc[r] # "idle"
  BY DEF Run, InsertOrder, ReadOrder, InitiateManually, FindPending, SumTips, SumPayments,
     SaveAndAdvance, Save, ConfirmRow, RefreshLifecycle, CountSold, TransitionOrder,
     TransitionWithPayment, RejectTransition, RefuseTip, InitiateRedirect, InitiateInstant,
     InsertPayment, TransitionWithNewPayment, OpenPaymentForCashier, WriteTip, Tippable,
     MayTransition
<1>job. job[r] \in RequestJob
  BY <1>busy DEF TypeInv, ControlTypeOK
<1>o. PICK o \in Order : o = job[r].order
  BY <1>job DEF RequestJob
<1>pay. payments \in PaymentTable /\ (payments' = payments => KeepsPending(payments'))
  BY DEF TypeInv, DataTypeOK, KeepsPending
<1>row. orders' = orders => \A x \in Order : orders'[x].paymentStatus = "PAID" => PaidFrom(x)
  BY DEF PaidFrom
<1>copy. job[r].row.paymentStatus = "PAID" => PaidFrom(o)
  BY <1>busy, <1>o DEF PaidFrom, CarriesPaid
<1>hold. job[r].within = "closeWithPayment" => HoldsEnough(r)
  BY DEF PaidInv
<1>1. CASE InsertOrder(r)
  <2> DEFINE j == [job[r] EXCEPT !.next = "CONFIRMED"]
  <2>1. /\ payments' = payments /\ pc[r] = "insertOrder"
        /\ orders' = [orders EXCEPT ![o] = [AbsentRow EXCEPT !.status = "CREATED"]]
    BY <1>1, <1>o DEF InsertOrder
  <2>2. ASSUME NEW x \in Order, orders'[x].paymentStatus = "PAID" PROVE PaidFrom(x)
    BY <2>1, <2>2 DEF PaidFrom, AbsentRow, TypeInv, DataTypeOK
  <2>3. /\ j.order = o /\ j.row = job[r].row /\ j.within = job[r].within
        /\ job[r].within # "closeWithPayment"
    BY <1>job, <1>o, <1>hold, <2>1 DEF RequestJob, Job, HoldsEnough
  <2>4. CASE Proceed(r, "transition", j)
    BY <1>pay, <1>copy, <2>1, <2>2, <2>3, <2>4, PaidMove
  <2>5. CASE Proceed(r, "readOrder", job[r])
    BY <1>pay, <1>o, <1>copy, <2>1, <2>2, <2>3, <2>5, PaidMove
  <2>6. CASE Finish(r)
    BY <1>pay, <2>1, <2>2, <2>6, PaidFinish
  <2>7. QED BY <1>1, <2>4, <2>5, <2>6 DEF InsertOrder
<1>2. CASE ReadOrder(r)
  <2> DEFINE copy == [job[r] EXCEPT !.row = orders[job[r].order]]
             failed == [copy EXCEPT !.row.paymentStatus = "FAILED", !.next = "PAYMENT_FAILED"]
  <2>1. payments' = payments /\ orders' = orders /\ job[r].within # "closeWithPayment"
    BY <1>2, <1>hold DEF ReadOrder, HoldsEnough
  <2>2. orders[o] \in OrderRow /\ copy.row = orders[o] /\ copy.order = o
        /\ copy.within = job[r].within /\ copy \in Job
    BY <1>job, <1>o DEF RequestJob, Job, TypeInv, DataTypeOK
  <2>3. failed.row.paymentStatus = "FAILED" /\ failed.within = job[r].within
    BY <2>2 DEF Job, OrderRow
  <2>4. copy.row.paymentStatus = "PAID" => PaidFrom(o)
    BY <2>2 DEF PaidFrom
  <2>5. CASE \E step : Proceed(r, step, copy)
    BY <1>pay, <1>row, <2>1, <2>2, <2>4, <2>5, PaidMove
  <2>6. CASE Proceed(r, "save", failed)
    BY <1>pay, <1>row, <2>1, <2>3, <2>6, PaidMove
  <2>7. QED BY <1>2, <2>5, <2>6 DEF ReadOrder
<1>3. CASE InitiateManually(r) \/ CountSold(r) \/ RejectTransition(r) \/ RefuseTip(r)
  BY <1>3, <1>pay, <1>row, PaidFinish DEF InitiateManually, CountSold, RejectTransition, RefuseTip
<1>4. CASE FindPending(r)
  <2>1. payments' = payments /\ orders' = orders
    BY <1>4 DEF FindPending
  <2>2. ASSUME NEW p \in Payment, payments[p].status = "PENDING", payments[p].order = o,
               Proceed(r, "transition",
                       [job[r] EXCEPT !.payment = p, !.within = "closeWithPayment",
                                      !.tip = IF @ = 0 THEN payments[p].tipAmount ELSE @])
        PROVE  PaidInv'
    <3> DEFINE j == [job[r] EXCEPT !.payment = p, !.within = "closeWithPayment",
                                   !.tip = IF @ = 0 THEN payments[p].tipAmount ELSE @]
    <3>1. j.payment = p /\ j.order = o /\ j.row = job[r].row
      BY <1>job, <1>o DEF RequestJob, Job
    <3>2. payments[p].amount >= Total
      BY <2>2 DEF PaidInv
    <3>3. QED BY <1>pay, <1>row, <1>copy, <2>1, <2>2, <3>1, <3>2, PaidMove
  <2>3. CASE Finish(r)
    BY <1>pay, <1>row, <2>1, <2>3, PaidFinish
  <2>4. QED BY <1>4, <1>o, <2>2, <2>3 DEF FindPending
<1>5. CASE SumTips(r)
  <2> DEFINE j == [job[r] EXCEPT !.row.tipAmount = RecomputeOrderTipAmount(payments, job[r].order)]
  <2>1. payments' = payments /\ orders' = orders /\ job[r].within # "closeWithPayment"
    BY <1>5, <1>hold DEF SumTips, HoldsEnough
  <2>2. /\ j.order = o /\ j.row.paymentStatus = job[r].row.paymentStatus
        /\ j.within = job[r].within
    BY <1>job, <1>o DEF RequestJob, Job, OrderRow
  <2>3. CASE Proceed(r, "sumPayments", j)
    BY <1>pay, <1>row, <1>copy, <2>1, <2>2, <2>3, PaidMove
  <2>4. CASE Finish(r)
    BY <1>pay, <1>row, <2>1, <2>4, PaidFinish
  <2>5. QED BY <1>5, <2>3, <2>4 DEF SumTips
<1>6. CASE SumPayments(r)
  <2>1. payments' = payments /\ orders' = orders /\ job[r].within # "closeWithPayment"
    BY <1>6, <1>hold DEF SumPayments, HoldsEnough
  <2>2. PICK status : /\ Proceed(r, "saveAndAdvance",
                                 [job[r] EXCEPT !.row.paymentStatus = status])
                      /\ status = "PAID" =>
                           \/ job[r].row.paymentStatus = "PAID"
                           \/ PaidTotal(job[r].order) >= Total + job[r].row.tipAmount
    <3> DEFINE paid == PaidTotal(job[r].order)
               row == job[r].row
    <3>1. CASE paid >= Total + row.tipAmount
      BY <1>6, <3>1 DEF SumPayments
    <3>2. CASE ~ (paid >= Total + row.tipAmount) /\ paid \in 1 .. (Total + row.tipAmount - 1)
      <4>1. Proceed(r, "saveAndAdvance",
                    [job[r] EXCEPT !.row.paymentStatus = "PARTIALLY_PAID"])
        BY <1>6, <3>2 DEF SumPayments
      <4> WITNESS "PARTIALLY_PAID"
      <4>2. QED BY <4>1
    <3>3. CASE ~ (paid >= Total + row.tipAmount) /\ paid \notin 1 .. (Total + row.tipAmount - 1)
      <4>1. Proceed(r, "saveAndAdvance",
                    [job[r] EXCEPT !.row.paymentStatus = job[r].row.paymentStatus])
        BY <1>6, <3>3 DEF SumPayments
      <4>2. QED BY <4>1
    <3>4. QED BY <3>1, <3>2, <3>3
  <2> DEFINE j == [job[r] EXCEPT !.row.paymentStatus = status]
  <2>3. /\ j.order = o /\ j.row.paymentStatus = status /\ j.within = job[r].within
        /\ job[r].row.tipAmount \in Nat
    BY <1>job, <1>o, ConstantsAssumption DEF RequestJob, Job, OrderRow, Money
  <2>4. status = "PAID" => PaidFrom(o)
    <3>1. PaidTotal(o) \in Nat
      BY UnitsFinite DEF PaidTotal
    <3>2. PaidTotal(o) >= Total + job[r].row.tipAmount => Covered(o)
      BY <2>3, <3>1, ConstantsAssumption DEF Covered
    <3>3. QED BY <1>o, <1>copy, <2>2, <3>2 DEF PaidFrom
  <2>5. QED BY <1>pay, <1>row, <2>1, <2>2, <2>3, <2>4, PaidMove
<1>7. CASE SaveAndAdvance(r) \/ Save(r)
  <2>1. /\ payments' = payments /\ orders' = [orders EXCEPT ![o] = job[r].row]
        /\ pc[r] \in {"saveAndAdvance", "save"}
    BY <1>7, <1>o DEF SaveAndAdvance, Save
  <2>2. ASSUME NEW x \in Order, orders'[x].paymentStatus = "PAID" PROVE PaidFrom(x)
    <3>1. CASE x = o
      BY <1>copy, <2>1, <2>2, <3>1 DEF TypeInv, DataTypeOK
    <3>2. CASE x # o
      BY <2>1, <2>2, <3>2 DEF PaidFrom
    <3>3. QED BY <3>1, <3>2
  <2>3. job[r].within # "closeWithPayment" /\ AbsentRow.paymentStatus = "UNPAID"
    BY <1>hold, <2>1 DEF HoldsEnough, AbsentRow
  <2>4. CASE Finish(r)
    BY <1>pay, <2>1, <2>2, <2>4, PaidFinish
  <2>5. ASSUME NEW j, j.row = AbsentRow, j.within = job[r].within, Proceed(r, "transition", j)
        PROVE  PaidInv'
    BY <1>pay, <2>1, <2>2, <2>3, <2>5, PaidMove
  <2>6. /\ [job[r] EXCEPT !.row = AbsentRow].row = AbsentRow
        /\ [job[r] EXCEPT !.row = AbsentRow].within = job[r].within
        /\ \A next : /\ [job[r] EXCEPT !.next = next, !.row = AbsentRow].row = AbsentRow
                     /\ [job[r] EXCEPT !.next = next, !.row = AbsentRow].within = job[r].within
    BY <1>job DEF RequestJob, Job
  <2>7. \/ Finish(r)
        \/ Proceed(r, "transition", [job[r] EXCEPT !.row = AbsentRow])
        \/ \E next : Proceed(r, "transition", [job[r] EXCEPT !.next = next, !.row = AbsentRow])
    BY <1>7 DEF SaveAndAdvance, Save
  <2>8. QED BY <2>4, <2>5, <2>6, <2>7
<1>8. CASE ConfirmRow(r)
  <2> DEFINE j == [job[r] EXCEPT !.payment = NoPayment]
  <2>1. orders' = orders /\ job[r].within # "closeWithPayment"
    BY <1>8, <1>hold DEF ConfirmRow, HoldsEnough
  <2>2. j.order = o /\ j.row = job[r].row /\ j.within = job[r].within
    BY <1>job, <1>o DEF RequestJob, Job
  <2>3. CASE payments[job[r].payment].status = "PENDING"
    <3>1. KeepsPending(payments')
      BY <1>8, <1>pay, <2>3, DecideKeepsPending DEF ConfirmRow
    <3>2. Proceed(r, "readOrder", j)
      BY <1>8, <2>3 DEF ConfirmRow
    <3>3. QED BY <1>row, <1>copy, <2>1, <2>2, <3>1, <3>2, PaidMove
  <2>4. CASE payments[job[r].payment].status # "PENDING"
    BY <1>8, <1>pay, <1>row, <2>1, <2>4, PaidFinish DEF ConfirmRow
  <2>5. QED BY <2>3, <2>4
<1>9. CASE RefreshLifecycle(r)
  <2>1. payments' = payments /\ orders' = orders /\ job[r].within # "closeWithPayment"
    BY <1>9, <1>hold DEF RefreshLifecycle, HoldsEnough
  <2>2. CASE Finish(r)
    BY <1>pay, <1>row, <2>1, <2>2, PaidFinish
  <2>3. CASE Proceed(r, "countSold", job[r])
    BY <1>pay, <1>row, <1>o, <1>copy, <2>1, <2>3, PaidMove
  <2>4. QED BY <1>9, <2>2, <2>3 DEF RefreshLifecycle
<1>10. CASE TransitionOrder(r)
  <2>1. /\ payments' = payments /\ AfterCommit(r)
        /\ orders' = [orders EXCEPT ![o].status = job[r].next]
    BY <1>10, <1>o DEF TransitionOrder
  <2>2. ASSUME NEW x \in Order, orders'[x].paymentStatus = "PAID" PROVE PaidFrom(x)
    BY <2>1, <2>2 DEF PaidFrom, TypeInv, DataTypeOK, OrderRow
  <2>3. QED BY <1>busy, <1>pay, <2>1, <2>2, PaidCommit
<1>11. CASE TransitionWithPayment(r)
  <2> DEFINE p == job[r].payment
             rows == [payments EXCEPT ![p].status = "CONFIRMED", ![p].tipAmount = job[r].tip]
  <2>1. HoldsEnough(r)
    BY <1>11, <1>hold DEF TransitionWithPayment
  <2>2. KeepsPending(rows)
    BY <1>pay, SettleKeepsPending
  <2>3. /\ rows[p].status = "CONFIRMED" /\ rows[p].order = job[r].order
        /\ rows[p].amount >= Total /\ p \in Payment
    BY <1>pay, <2>1 DEF HoldsEnough, PaymentTable, PaymentRow
  <2>4. CommitSettled(r, rows)
    BY <1>11 DEF TransitionWithPayment
  <2>5. QED BY <1>busy, <2>2, <2>3, <2>4, PaidSettle
<1>12. ASSUME NEW p \in Payment, InitiateRedirect(r, p) PROVE PaidInv'
  <2>1. NewPayment(job[r].order, "PENDING", Total, 0, "PROVIDER").amount >= Total
    BY ConstantsAssumption DEF NewPayment
  <2>2. KeepsPending(payments')
    BY <1>12, <1>pay, <2>1, InsertKeepsPending DEF InitiateRedirect
  <2>3. QED BY <1>12, <1>row, <2>2, PaidFinish DEF InitiateRedirect
<1>13. ASSUME NEW p \in Payment, InitiateInstant(r, p) PROVE PaidInv'
  <2> DEFINE row == NewPayment(job[r].order, "CONFIRMED", Total, 0, "PROVIDER")
             j == [job[r] EXCEPT !.row.paymentStatus = "PAID", !.next = "CONFIRMED"]
  <2>1. row.amount >= Total /\ row.status = "CONFIRMED" /\ row.order = o
    BY <1>o, ConstantsAssumption DEF NewPayment
  <2>2. /\ payments' = [payments EXCEPT ![p] = row] /\ p \in UnusedPayments
        /\ orders' = orders /\ Proceed(r, "save", j) /\ pc[r] = "initiate"
    BY <1>13 DEF InitiateInstant
  <2>3. KeepsPending(payments')
    BY <1>pay, <2>1, <2>2, InsertKeepsPending
  <2>4. payments'[p] = row /\ payments' \in PaymentTable
    BY <1>pay, <2>2 DEF PaymentTable, TypeInv, DataTypeOK
  <2>5. PaidFrom(o)
    BY <2>1, <2>4, PaidByOne DEF PaidFrom, Covered, PaidTotal
  <2>6. j.order = o /\ j.within = job[r].within /\ job[r].within # "closeWithPayment"
    BY <1>job, <1>o, <1>hold, <2>2 DEF RequestJob, Job, HoldsEnough
  <2>7. QED BY <1>row, <2>2, <2>3, <2>5, <2>6, PaidMove
<1>14. ASSUME NEW p \in Payment, InsertPayment(r, p) PROVE PaidInv'
  <2> DEFINE row == NewPayment(job[r].order, "CONFIRMED", job[r].amount, job[r].tip, "STAFF")
             j == [job[r] EXCEPT !.amount = 0, !.tip = 0]
  <2>1. row.status # "PENDING"
    BY DEF NewPayment
  <2>2. KeepsPending(payments')
    BY <1>14, <1>pay, <2>1, InsertKeepsPending DEF InsertPayment
  <2>3. /\ j.order = o /\ j.row = job[r].row /\ j.within = job[r].within
        /\ job[r].within # "closeWithPayment"
    BY <1>14, <1>job, <1>o, <1>hold DEF RequestJob, Job, HoldsEnough, InsertPayment
  <2>4. QED BY <1>14, <1>row, <1>copy, <2>2, <2>3, PaidMove DEF InsertPayment
<1>15. ASSUME NEW p \in Payment, TransitionWithNewPayment(r, p) PROVE PaidInv'
  <2> DEFINE row == NewPayment(job[r].order, "CONFIRMED", Total + job[r].tip,
                               job[r].tip, "STAFF")
             rows == [payments EXCEPT ![p] = row]
  <2>1. row.amount >= Total /\ row.status = "CONFIRMED" /\ row.order = job[r].order
    <3>1. job[r].tip \in Nat
      BY <1>job, ConstantsAssumption DEF RequestJob, Job, Money
    <3>2. QED BY <3>1, ConstantsAssumption DEF NewPayment
  <2>2. CommitSettled(r, rows) /\ p \in UnusedPayments
    BY <1>15 DEF TransitionWithNewPayment
  <2>3. KeepsPending(rows)
    BY <1>pay, <2>1, <2>2, InsertKeepsPending
  <2>4. rows[p] = row
    BY <1>pay DEF PaymentTable
  <2>5. QED BY <1>busy, <2>1, <2>2, <2>3, <2>4, PaidSettle
<1>16. ASSUME NEW p \in Payment, OpenPaymentForCashier(r, p) PROVE PaidInv'
  <2> DEFINE row == NewPayment(job[r].order, "PENDING", Total, 0, "QUEUE")
             j == [job[r] EXCEPT !.next = "CLOSED", !.payment = p,
                                 !.within = "closeWithPayment"]
  <2>1. /\ row.amount >= Total /\ row.order = o /\ row.status = "PENDING"
        /\ payments' = [payments EXCEPT ![p] = row] /\ orders' = orders /\ p \in UnusedPayments
    BY <1>16, <1>o, ConstantsAssumption DEF NewPayment, OpenPaymentForCashier
  <2>2. KeepsPending(payments')
    BY <1>pay, <2>1, InsertKeepsPending
  <2>3. payments'[p] = row /\ j.payment = p /\ j.order = o /\ j.row = job[r].row
    BY <1>pay, <1>job, <1>o, <2>1 DEF PaymentTable, RequestJob, Job
  <2>4. CASE Proceed(r, "transition", j)
    BY <1>row, <1>copy, <2>1, <2>2, <2>3, <2>4, PaidMove
  <2>5. CASE Finish(r)
    BY <1>row, <2>1, <2>2, <2>5, PaidFinish
  <2>6. QED BY <1>16, <2>4, <2>5 DEF OpenPaymentForCashier
<1>17. ASSUME NEW p \in Payment, WriteTip(r, p) PROVE PaidInv'
  <2> DEFINE row == NewPayment(job[r].order, "CONFIRMED", job[r].tip, job[r].tip, "TIP")
             rows == [payments EXCEPT ![p] = row]
  <2>1. row.status # "PENDING"
    BY DEF NewPayment
  <2>2. KeepsPending(rows) /\ Finish(r)
    BY <1>17, <1>pay, <2>1, InsertKeepsPending DEF WriteTip
  <2>3. \/ payments' = rows /\ orders' = [orders EXCEPT
                                 ![o].tipAmount = RecomputeOrderTipAmount(rows, o)]
        \/ payments' = payments /\ orders' = orders
    BY <1>17, <1>o DEF WriteTip
  <2>4. ASSUME NEW x \in Order, orders'[x].paymentStatus = "PAID" PROVE PaidFrom(x)
    BY <2>3, <2>4 DEF PaidFrom, TypeInv, DataTypeOK, OrderRow
  <2>5. QED BY <1>pay, <2>2, <2>3, <2>4, PaidFinish
<1>18. QED
  BY <1>1, <1>2, <1>3, <1>4, <1>5, <1>6, <1>7, <1>8, <1>9, <1>10, <1>11, <1>12, <1>13,
     <1>14, <1>15, <1>16, <1>17 DEF Run

LEMMA NextPaid ==
  ASSUME ClientsPayInFull, TypeInv, PaidInv, [Next]_vars
  PROVE  PaidInv'
<1>1. TypeInv' /\ KeepsConfirmed(payments')
  BY NextType, StepKeepsConfirmed
<1>2. ASSUME UNCHANGED <<orders, pc, job>>, KeepsPending(payments') PROVE PaidInv'
  BY <1>1, <1>2, PaidStep DEF PaidFrom
<1>3. ASSUME NEW s \in Session, OpenSession(s) PROVE PaidInv'
  BY <1>2, <1>3 DEF OpenSession, KeepsPending
<1>4. ASSUME NEW o \in Order, NEW p \in Payment, NEW amount \in ClientAmounts,
             CreatePayment(o, p, amount)
      PROVE  PaidInv'
  <2>1. NewPayment(o, "PENDING", amount, 0, "CLIENT").amount >= Total
    BY DEF NewPayment, ClientsPayInFull
  <2>2. KeepsPending(payments')
    BY <1>4, <2>1, InsertKeepsPending DEF CreatePayment, TypeInv, DataTypeOK
  <2>3. QED BY <1>2, <1>4, <2>2 DEF CreatePayment
<1>5. ASSUME NEW r \in Request, Die(r) PROVE PaidInv'
  BY <1>1, <1>5, PaidFinish DEF Die, KeepsPending, PaidFrom
<1>6. CASE UNCHANGED vars
  BY <1>2, <1>6 DEF vars, KeepsPending
<1>7. QED
  BY <1>1, <1>3, <1>4, <1>5, <1>6, ArrivePaid, RunPaid DEF Next

LEMMA InitPaid == Init => PaidInv
BY NoJobType DEF Init, PaidInv, PaidMeansCovered, CarriesPaid, AbsentRow, AbsentPayment

\* An order shown as PAID has confirmed payments for at least its total, for every
\* entry point of the service and in spite of the rows that are saved from stale
\* copies (recomputeAndAdvance, closeWithPayment, the instant providers), as long as
\* the amounts clients post are for the total.
THEOREM PaidIsCovered ==
  ASSUME ClientsPayInFull
  PROVE  Spec => []PaidMeansCovered
<1>1. Init => PaidInv
  BY InitPaid
<1>2. TypeInv /\ PaidInv /\ [Next]_vars => PaidInv'
  BY NextPaid
<1>3. PaidInv => PaidMeansCovered
  BY DEF PaidInv
<1>4. QED BY <1>1, <1>2, <1>3, TypeInvariant, PTL DEF Spec

=============================================================================

--------------------------- MODULE PaymentReconcile ---------------------------
(***************************************************************************)
(* How a payment that waits for its provider gets settled: the rounds of   *)
(* the poller (payment-reconcile.service.ts), the provider's callback      *)
(* (webhooks.controller.ts), a confirmation by staff and the automatic one *)
(* of an online payment (payments.service.ts), and the cashier's, which    *)
(* closes the order (orders.service.ts), with a server that may crash and  *)
(* restart.  What follows a settled payment on the order is in             *)
(* OrderPayments; here it is one step, which a crash may swallow.          *)
(*                                                                         *)
(* The provider is external and modelled by the interface PaymentProvider: *)
(* it decides once, and verify answers what it has decided or throws.  The *)
(* poller asks bank_redirect whatever the payment, for providerName is no  *)
(* column of it: the payments here are those of that provider.             *)
(***************************************************************************)
EXTENDS Naturals, FiniteSets

CONSTANTS
    Payment,
    Round,          \* rounds of the poller that may be under way at once
    Handler,        \* requests that may be under way at once
    BatchSize,      \* payments a round takes
    MaxCrashes      \* bound on the crashes and failed statements

ASSUME ReconcileAssumption ==
    /\ BatchSize \in Nat \ {0} /\ MaxCrashes \in Nat
    /\ IsFiniteSet(Payment)
    /\ Round \intersect Handler = {}

VARIABLES
    payment,    \* the rows of payments, and what their provider has decided
    worker,     \* what the rounds and the requests are at
    crashes     \* crashes and failures so far

reconcileVars == <<payment, worker, crashes>>

Worker == Round \union Handler
Verdict == {"PENDING", "PAID", "FAILED"}

\* followed is whether the order has been moved on, lost whether the step that
\* would have done so died; stuck is whether the threshold has passed.
PaymentRow == [status : {"absent", "PENDING", "CONFIRMED", "FAILED"},
               providerRef : BOOLEAN, stuck : BOOLEAN, verdict : Verdict,
               followed : BOOLEAN, lost : BOOLEAN]
AbsentPayment == [status |-> "absent", providerRef |-> FALSE, stuck |-> FALSE,
                  verdict |-> "PENDING", followed |-> FALSE, lost |-> FALSE]

\* batch is what a round has still to look at; on the payment at hand, none or
\* one; result what confirmPayment (PAID) or failPayment (FAILED) is called for.
Work == [at : {"idle", "loop", "settle", "follow", "close"}, batch : SUBSET Payment,
         on : SUBSET Payment, result : Verdict]
Idle == [at |-> "idle", batch |-> {}, on |-> {}, result |-> "PENDING"]

ReconcileInit ==
    /\ payment = [p \in Payment |-> AbsentPayment]
    /\ worker = [w \in Worker |-> Idle]
    /\ crashes = 0

\* Worker w goes on with what its round has left; a request has nothing left.
Proceeds(w, rest) ==
    worker' = [worker EXCEPT ![w] =
                 IF rest = {} THEN Idle ELSE [Idle EXCEPT !.at = "loop", !.batch = rest]]

Settles(w, p, result, rest) ==
    worker' = [worker EXCEPT ![w] =
                 [at |-> "settle", batch |-> rest, on |-> {p}, result |-> result]]

-----------------------------------------------------------------------------
(* Payments and their provider                                             *)

\* An online payment is confirmed at once by a call that nobody waits for.
Create(h, p, providerRef, online) ==
    /\ payment[p].status = "absent"
    /\ worker[h] = Idle
    /\ payment' = [payment EXCEPT ![p] = [AbsentPayment EXCEPT
                     !.status = "PENDING", !.providerRef = providerRef]]
    /\ IF online THEN Settles(h, p, "PAID", {}) ELSE UNCHANGED worker
    /\ UNCHANGED crashes

GetsStuck(p) ==
    /\ payment[p].status = "PENDING" /\ ~payment[p].stuck
    /\ payment' = [payment EXCEPT ![p].stuck = TRUE]
    /\ UNCHANGED <<worker, crashes>>

ProviderDecides(p, verdict) ==
    /\ payment[p].providerRef /\ payment[p].verdict = "PENDING"
    /\ payment' = [payment EXCEPT ![p].verdict = verdict]
    /\ UNCHANGED <<worker, crashes>>

-----------------------------------------------------------------------------
(* Rounds and requests                                                     *)

\* Slip: the comparison with the threshold is turned round.
JustCreated == {p \in Payment : payment[p].status = "PENDING" /\ ~payment[p].stuck}

Stuck == {p \in Payment : payment[p].status = "PENDING" /\ payment[p].stuck}

\* Up to BatchSize of them, in no order.
Reconcile(n, batch) ==
    /\ worker[n] = Idle
    /\ batch \subseteq Stuck /\ batch # {}
    /\ Cardinality(batch) = IF Cardinality(Stuck) <= BatchSize
                            THEN Cardinality(Stuck) ELSE BatchSize
    /\ Proceeds(n, batch)
    /\ UNCHANGED <<payment, crashes>>

\* Without a reference there is nothing to ask; a provider that throws, or that
\* has not decided, leaves the payment for a later round.
Skip(n, p) ==
    /\ worker[n].at = "loop" /\ p \in worker[n].batch
    /\ Proceeds(n, worker[n].batch \ {p})
    /\ UNCHANGED <<payment, crashes>>

Verify(n, p) ==
    /\ worker[n].at = "loop" /\ p \in worker[n].batch
    /\ payment[p].providerRef /\ payment[p].verdict # "PENDING"
    /\ Settles(n, p, payment[p].verdict, worker[n].batch \ {p})
    /\ UNCHANGED <<payment, crashes>>

HandleCallback(h, p) ==
    /\ worker[h] = Idle
    /\ payment[p].providerRef /\ payment[p].verdict # "PENDING"
    /\ Settles(h, p, payment[p].verdict, {})
    /\ UNCHANGED <<payment, crashes>>

\* PATCH /payments/:id/confirm.
Confirm(h, p) ==
    /\ worker[h] = Idle
    /\ payment[p].status # "absent"
    /\ Settles(h, p, "PAID", {})
    /\ UNCHANGED <<payment, crashes>>

\* confirmOrderPayment and openPaymentForCashier have the pending payment of an
\* order in hand.
ConfirmOrderPayment(h, p) ==
    /\ worker[h] = Idle
    /\ payment[p].status = "PENDING"
    /\ worker' = [worker EXCEPT ![h] = [Idle EXCEPT !.at = "close", !.on = {p}]]
    /\ UNCHANGED <<payment, crashes>>

-----------------------------------------------------------------------------
(* One transaction each, under the row lock, and what follows the commit   *)

\* Slip: what the row says under the lock is not looked at.
SettleBlindly(w, p, result, status) ==
    /\ worker[w].at = "settle" /\ worker[w].on = {p} /\ worker[w].result = result
    /\ payment' = [payment EXCEPT ![p].status = status]
    /\ worker' = [worker EXCEPT ![w].at = "follow"]
    /\ UNCHANGED crashes

Settle(w, p, result, status) ==
    /\ worker[w].at = "settle" /\ worker[w].on = {p} /\ worker[w].result = result
    /\ IF payment[p].status = "PENDING"
       THEN /\ payment' = [payment EXCEPT ![p].status = status]
            /\ worker' = [worker EXCEPT ![w].at = "follow"]
       ELSE Proceeds(w, worker[w].batch) /\ UNCHANGED payment
    /\ UNCHANGED crashes

\* The payment in hand is saved as confirmed in the transaction that closes the
\* order, whatever its row has become: a failed one is overruled.  Whether the
\* order may still close is OrderPayments' part and left open.
CloseWithPayment(h, p) ==
    /\ worker[h].at = "close" /\ worker[h].on = {p}
    /\ payment' = [payment EXCEPT ![p].status = "CONFIRMED",
                                  ![p].followed = @ \/ payment[p].status \notin {"CONFIRMED", "FAILED"}]
    /\ worker' = [worker EXCEPT ![h] = Idle]
    /\ UNCHANGED crashes

CloseRefused(h, p) ==
    /\ worker[h].at = "close" /\ worker[h].on = {p}
    /\ worker' = [worker EXCEPT ![h] = Idle]
    /\ UNCHANGED <<payment, crashes>>

\* Slip: the row gets the provider's word for it.
ConfirmPaymentRaw(w, p) == Settle(w, p, "PAID", "PAID")

\* A payment that is confirmed already is left alone, a failed one refused.
ConfirmPayment(w, p) == Settle(w, p, "PAID", "CONFIRMED")

FailPayment(w, p) == Settle(w, p, "FAILED", "FAILED")

\* recomputeAndAdvance after a confirmation, markPaymentFailed after a failure.
Follow(w, p) ==
    /\ worker[w].at = "follow" /\ worker[w].on = {p}
    /\ payment' = [payment EXCEPT ![p].followed = TRUE]
    /\ Proceeds(w, worker[w].batch)
    /\ UNCHANGED crashes

Losing(fallen) ==
    payment' = [p \in Payment |->
                  IF \E w \in fallen : worker[w].at = "follow" /\ worker[w].on = {p}
                  THEN [payment[p] EXCEPT !.lost = TRUE] ELSE payment[p]]

\* A statement fails: a round catches that and goes on with the next payment.
Fails(w) ==
    /\ worker[w].at \in {"settle", "follow"}
    /\ crashes < MaxCrashes /\ crashes' = crashes + 1
    /\ Losing({w})
    /\ Proceeds(w, worker[w].batch)

\* The process dies with all that was under way; the restart sets the timer anew.
CrashAndRestart ==
    /\ \E w \in Worker : worker[w] # Idle
    /\ crashes < MaxCrashes /\ crashes' = crashes + 1
    /\ Losing(Worker)
    /\ worker' = [w \in Worker |-> Idle]

-----------------------------------------------------------------------------
WorkerStep(w) == \E p \in Payment :
    \/ ConfirmPayment(w, p) \/ FailPayment(w, p) \/ Follow(w, p)
    \/ CloseWithPayment(w, p) \/ CloseRefused(w, p)
RoundStarts(n) == \E batch \in SUBSET Payment : Reconcile(n, batch)

ReconcileNext ==
    \/ \E p \in Payment :
         \/ GetsStuck(p) \/ \E v \in {"PAID", "FAILED"} : ProviderDecides(p, v)
         \/ \E h \in Handler :
              \/ \E ref, online \in BOOLEAN : Create(h, p, ref, online)
              \/ HandleCallback(h, p) \/ Confirm(h, p) \/ ConfirmOrderPayment(h, p)
         \/ \E n \in Round : Skip(n, p) \/ Verify(n, p)
    \/ \E n \in Round : RoundStarts(n)
    \/ \E w \in Worker : WorkerStep(w) \/ Fails(w)
    \/ CrashAndRestart

\* Time passes, the timer fires, and what has begun goes on; a provider that is
\* asked again and again answers some time.
ReconcileFairness ==
    /\ \A p \in Payment : WF_reconcileVars(GetsStuck(p))
    /\ \A n \in Round : WF_reconcileVars(RoundStarts(n))
    /\ \A n \in Round, p \in Payment :
         WF_reconcileVars(Skip(n, p)) /\ SF_reconcileVars(Verify(n, p))
    /\ \A w \in Worker : WF_reconcileVars(WorkerStep(w))

ReconcileSpec == ReconcileInit /\ [][ReconcileNext]_reconcileVars /\ ReconcileFairness

-----------------------------------------------------------------------------
\* Types of the rows and of what the workers are at.
ReconcileTypeOK ==
    /\ payment \in [Payment -> PaymentRow]
    /\ worker \in [Worker -> Work]
    /\ crashes \in 0 .. MaxCrashes

\* Rounds, callbacks and staff settle one payment between them: exactly one of
\* them owes the order its next step, until it is taken or dies with its worker;
\* a close that confirms the payment owes nothing (payments.service.ts,
\* confirmPayment 59-101, failPayment 122-156; orders.service.ts,
\* closeWithPayment 961-985).
Following(p) == {w \in Worker : worker[w].at = "follow" /\ worker[w].on = {p}}
OneFollowsThePayment ==
    \A p \in Payment :
      Cardinality(Following(p)) =
        IF /\ payment[p].status \in {"CONFIRMED", "FAILED"}
           /\ ~payment[p].followed /\ ~payment[p].lost
        THEN 1 ELSE 0

\* As long as no more payments are pending than a round takes, one that its
\* provider has decided is settled, through crashes and restarts
\* (payment-reconcile.service.ts, reconcile 39-75).
DecidedPaymentsAreSettled ==
    \A p \in Payment :
      (payment[p].status = "PENDING" /\ payment[p].verdict # "PENDING")
      ~> payment[p].status # "PENDING"
=============================================================================

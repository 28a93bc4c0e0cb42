-------------------------- MODULE MCOrderPayments ---------------------------
(* Instances of OrderPayments for TLC. *)
EXTENDS OrderPayments, Functions, TLC

CONSTANTS o1, o2, s1, DineIn

\* o1 is a dine-in order of s1; o2, where there is one, is what DineIn says.
MCTypeOf == [o \in Order |-> IF o = o1 \/ DineIn THEN "DINE_IN" ELSE "TAKEAWAY"]
MCSessionOf == [o \in Order |-> IF o = o1 \/ DineIn THEN s1 ELSE NoSession]

AllEntryPoints == EntryPoints
LockedOnly == LockedEntryPoints
GuestLocked == LockedEntryPoints \ {"createFromStaff"}

\* A duplicate confirmation races the cashier who closes the order.
DoubleClose == {"createFromQr", "updateStatus", "confirmPayment", "confirmOrderPayment"}

\* Counting units of money is the SUM of the confirmed amounts.
ASSUME UnitsAreASum ==
  \A rows \in [Payment -> [status : {"PENDING", "CONFIRMED"}, order : Order, amount : Money]] :
    LET amounts == [p \in Payment |-> rows[p].amount] IN
    \A o \in Order :
      SumConfirmed(rows, amounts, o) =
        SumFunctionOnSet(amounts, {p \in Payment : /\ rows[p].status = "CONFIRMED"
                                                   /\ rows[p].order = o})

Symmetric == Permutations(Payment) \union Permutations(Request)
=============================================================================

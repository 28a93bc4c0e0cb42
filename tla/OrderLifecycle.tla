--------------------------- MODULE OrderLifecycle ---------------------------
(***************************************************************************)
(* What the order service promises its callers, in one atomic step per     *)
(* event: an order is placed, moves along the transition graph of its      *)
(* type, and is settled at most once, by the very step that closes it.     *)
(* OrderPayments is checked against it for the entry points that write     *)
(* orders only under the row lock.                                         *)
(***************************************************************************)
EXTENDS OrderTransitions

CONSTANTS Order, TypeOf

VARIABLES
  status,   \* [Order -> OrderStatus \union {"ABSENT"}]
  settled   \* the orders the house has been paid for

lifecycleVars == <<status, settled>>

LifecycleInit == status = [o \in Order |-> "ABSENT"] /\ settled = {}

Place(o) ==
  /\ status[o] = "ABSENT"
  /\ status' = [status EXCEPT ![o] = "CREATED"]
  /\ UNCHANGED settled

Advance(o, next) ==
  /\ AssertTransition(TypeOf[o], status[o], next)
  /\ status' = [status EXCEPT ![o] = next]
  /\ UNCHANGED settled

\* Money and status move together.
Settle(o) ==
  /\ o \notin settled
  /\ AssertTransition(TypeOf[o], status[o], "CLOSED")
  /\ status' = [status EXCEPT ![o] = "CLOSED"]
  /\ settled' = settled \union {o}

LifecycleNext ==
  \E o \in Order : \/ Place(o)
                   \/ Settle(o)
                   \/ \E next \in OrderStatus : Advance(o, next)

LifecycleSpec == LifecycleInit /\ [][LifecycleNext]_lifecycleVars

=============================================================================

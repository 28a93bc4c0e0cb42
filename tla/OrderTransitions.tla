-------------------------- MODULE OrderTransitions --------------------------
(***************************************************************************)
(* The order state machine of order-transition.service.ts: which status    *)
(* may follow which for each order type, and which actor may drive the     *)
(* step.  The module is pure: the state it speaks of is the row held by    *)
(* OrderPayments.                                                          *)
(***************************************************************************)

OrderType == {"DINE_IN", "TAKEAWAY", "DELIVERY"}

OrderStatus == {"CREATED", "CONFIRMED", "IN_KITCHEN", "READY", "DELIVERED",
                "CLOSED", "CANCELLED", "PAYMENT_FAILED", "REFUNDED"}

\* Statuses from which an order can no longer be cancelled.
TerminalStatuses == {"CLOSED", "CANCELLED", "REFUNDED"}

StaffRoles == {"WAITER", "KITCHEN", "CASHIER", "MANAGER"}

\* Who presses the button: a staff member, the business owner, or the server.
Actor == StaffRoles \union {"owner", "system"}

-----------------------------------------------------------------------------
(* The transition graph, one relation per order type.  Edges to CANCELLED  *)
(* are not listed: AssertTransition grants them from every live status.    *)

PreparationEdges == {<<"CREATED", "CONFIRMED">>,
                     <<"CONFIRMED", "IN_KITCHEN">>,
                     <<"IN_KITCHEN", "READY">>}

\* From the last status before payment an order is closed, fails or is refunded.
SettlementEdges(from) == {<<from, "CLOSED">>,
                          <<from, "PAYMENT_FAILED">>,
                          <<from, "REFUNDED">>,
                          <<"CLOSED", "REFUNDED">>}

Edges(type) ==
  PreparationEdges \union
    CASE type = "DINE_IN"  -> SettlementEdges("DELIVERED") \union
                              {<<"READY", "DELIVERED">>,
                               <<"PAYMENT_FAILED", "DELIVERED">>}
      [] type = "TAKEAWAY" -> SettlementEdges("READY")
      [] OTHER             -> {}

AssertTransition(type, current, next) ==
  \/ next = "CANCELLED" /\ current \notin TerminalStatuses
  \/ <<current, next>> \in Edges(type)

-----------------------------------------------------------------------------
(* Permissions. *)

\* resolveTransitionActor: in transitionOrder the owner acts as a manager.
ResolveActor(actor) == IF actor = "owner" THEN "MANAGER" ELSE actor

\* ROLE_TRANSITIONS: who may drive an order to each status but CANCELLED.
RoleTransitions(next) ==
  {"system"} \union
    CASE next = "CONFIRMED"             -> {"WAITER", "MANAGER"}
      [] next \in {"IN_KITCHEN", "READY"} -> {"KITCHEN", "MANAGER"}
      [] next = "DELIVERED"             -> {"WAITER", "KITCHEN", "MANAGER"}
      [] next = "CLOSED"                -> {"CASHIER", "MANAGER"}
      [] next = "CREATED"               -> StaffRoles
      [] OTHER                          -> {}

\* assertCancelActor, evaluated against the locked row.
AssertCancelActor(current, actor) ==
  /\ current \notin TerminalStatuses
  /\ \/ actor \in {"system", "MANAGER"}
     \/ actor = "WAITER" /\ current \in {"CREATED", "CONFIRMED"}

\* transition(): what the locked row must satisfy for the step to commit.
CanTransition(type, current, next, actor) ==
  /\ AssertTransition(type, current, next)
  /\ IF next = "CANCELLED"
     THEN AssertCancelActor(current, actor)
     ELSE actor \in RoleTransitions(next)

\* The two pre-checks updateStatus makes on its unlocked read.
AssertCancellationPermission(actor, current) ==
  /\ current \notin {"CLOSED", "REFUNDED"}
  /\ \/ actor \in {"owner", "MANAGER"}
     \/ actor = "WAITER" /\ current \in {"CREATED", "CONFIRMED"}

AssertKitchenTransitionPermission(actor, next) ==
  actor = "KITCHEN" => next \in {"IN_KITCHEN", "READY", "DELIVERED"}

=============================================================================

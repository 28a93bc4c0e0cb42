-------------------------- MODULE MCOrderBroadcast --------------------------
(* Instances of OrderBroadcast for TLC. *)
EXTENDS OrderBroadcast, TLC

CONSTANT takeaway  \* a takeaway order; any other is a dine-in order

MCTypeOf == [o \in Order |-> IF o = takeaway THEN "TAKEAWAY" ELSE "DINE_IN"]

Symmetric == Permutations(Request)

TVIsOff == tv = "out" /\ board = [o \in Order |-> "none"] /\ loaded = [o \in Order |-> Unread]

\* Either the table's devices or the TV are on: neither changes anything the other
\* or a handler reads.
OneScreen == TVIsOff \/ \A g \in Guest : socket[g] = "out"

\* What was committed before is of interest only to what guests are shown, and all
\* that happens with the TV on happens to orders and handlers with it off too.
View == <<rows, handlers, guests, display, screens, witnessed, followed, fresh,
          IF TVIsOff THEN reached ELSE [o \in Order |-> {}]>>
=============================================================================

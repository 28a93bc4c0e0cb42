-------------------------- MODULE SessionOccupancy --------------------------
(***************************************************************************)
(* What a guest is promised of a table session: once opened it lasts as    *)
(* long as one of its orders is open, it ends only when none is, and an    *)
(* order in flight, and nothing else, brings it back.                      *)
(***************************************************************************)
CONSTANTS Session, Order, NoSession

VARIABLES
  life,    \* [Session -> {"unopened", "active", "closed"}]
  placed   \* [Order -> [status, session]]

occupancyVars == <<life, placed>>

OccupancyInit ==
  /\ life = [s \in Session |-> "unopened"]
  /\ placed = [o \in Order |-> [status |-> "absent", session |-> NoSession]]

Open(s) ==
  /\ life[s] = "unopened"
  /\ life' = [life EXCEPT ![s] = "active"]
  /\ UNCHANGED placed

Place(o, s) ==
  /\ life[s] # "unopened" /\ placed[o].status = "absent"
  /\ life' = [life EXCEPT ![s] = "active"]
  /\ placed' = [placed EXCEPT ![o] = [status |-> "open", session |-> s]]

Leave(o) ==
  /\ \/ placed[o].status = "open" /\ placed' = [placed EXCEPT ![o].status = "failed"]
     \/ placed[o].status \in {"open", "failed"} /\ placed' = [placed EXCEPT ![o].status = "done"]
  /\ UNCHANGED life

Close(s) ==
  /\ life[s] = "active"
  /\ \A o \in Order : placed[o].session = s => placed[o].status # "open"
  /\ life' = [life EXCEPT ![s] = "closed"]
  /\ UNCHANGED placed

OccupancyNext ==
  \/ \E s \in Session : Open(s) \/ Close(s)
  \/ \E o \in Order : Leave(o) \/ \E s \in Session : Place(o, s)

OccupancySpec == OccupancyInit /\ [][OccupancyNext]_occupancyVars

=============================================================================

-------------------------- MODULE MCTableSessions ---------------------------
(* Instances of TableSessions for TLC. *)
EXTENDS TableSessions, TLC

CONSTANTS s1, t1, t2, TwoTables

\* All sessions at one table, or s1 at another.
MCTableOf == [s \in Session |-> IF s = s1 /\ TwoTables THEN t2 ELSE t1]

\* The entry points that save copies of session rows, but closeSession.
SavingEntryPoints == {"scan", "joinSessions", "splitSession",
                      "handleCallWaiter", "acknowledgeWaiterCall"}
SessionManagement == EntryPoints \ {"setReservation"}
GuestsOnly == GuestEntryPoints

Symmetric == Permutations(Session \ {s1}) \union Permutations(Order)
             \union Permutations(Request)
=============================================================================

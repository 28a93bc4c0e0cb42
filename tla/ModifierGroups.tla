---------------------------- MODULE ModifierGroups ---------------------------
(***************************************************************************)
(* Modifier groups and the modifiers in them (modifiers.service.ts).  A    *)
(* fixed price replaces the price of the product, so it belongs only into  *)
(* a group of which one modifier is chosen.  Every operation that could    *)
(* break this reads the group, checks, and writes later; only the creation *)
(* and the update of a group are transactions, READ COMMITTED ones, which  *)
(* hold no lock on what they have only read.  An update of a group that    *)
(* overlaps with one of its modifiers can therefore break it: the history  *)
(* variable groupRaced says where that has happened.                       *)
(***************************************************************************)
EXTENDS Naturals, FiniteSets

CONSTANTS
    Group,              \* rows of modifier_groups there may be
    Modifier,           \* rows of modifiers there may be
    GroupRequest        \* requests that may be under way at once

GroupOps == {"updateModifierGroup", "addModifierToGroup", "updateModifier"}

GroupRaces == {{"updateModifierGroup", "addModifierToGroup"},
               {"updateModifierGroup", "updateModifier"}}

ASSUME GroupAssumption == Group # {} /\ Modifier # {}

VARIABLES
    group,      \* the groups
    modifier,   \* the modifiers
    groupJob,   \* the requests under way
    groupRaced  \* history: the groups on which a pair of GroupRaces overlapped

groupVars == <<group, modifier, groupJob, groupRaced>>

SelectionType == {"SINGLE", "MULTIPLE"}
PriceType == {"adjustment", "fixed"}

GroupRow == [state : {"absent", "live", "deleted"}, selectionType : SelectionType]

\* in is the group of a modifier, a set of one, or {} where there is no row.
ModifierRow == [in : SUBSET Group, priceType : PriceType]
AbsentModifier == [in |-> {}, priceType |-> "adjustment"]

\* row is the copy of the group, price that of a modifier, with the changes asked.
GroupJob == [op : GroupOps \union {"idle"}, on : Group, row : GroupRow,
             m : Modifier, price : ModifierRow, replaces : BOOLEAN]
IdleGroupJob(g, m) ==
    [op |-> "idle", on |-> g, row |-> [state |-> "absent", selectionType |-> "SINGLE"],
     m |-> m, price |-> AbsentModifier, replaces |-> FALSE]

In(g) == {m \in Modifier : modifier[m].in = {g}}
HasFixed(g) == \E m \in In(g) : modifier[m].priceType = "fixed"

\* Ids are never used twice: a row that a request still holds is not free.
Free(m) == /\ modifier[m].in = {}
           /\ \A r \in GroupRequest : groupJob[r].op = "updateModifier" => groupJob[r].m # m

AssertFixedPriceAllowed(selectionType, fixed) == ~(selectionType = "MULTIPLE" /\ fixed)

GroupInit ==
    /\ group = [g \in Group |-> [state |-> "absent", selectionType |-> "SINGLE"]]
    /\ modifier = [m \in Modifier |-> AbsentModifier]
    /\ groupJob = [r \in GroupRequest |->
                     IdleGroupJob(CHOOSE g \in Group : TRUE, CHOOSE m \in Modifier : TRUE)]
    /\ groupRaced = {}

\* Request r has found the live group g and passed its checks for op.
GroupReads(r, op, g, selectionType, m, price, replaces) ==
    /\ groupJob[r].op = "idle"
    /\ group[g].state = "live"
    /\ groupJob' = [groupJob EXCEPT ![r] =
         [op |-> op, on |-> g, row |-> [state |-> "live", selectionType |-> selectionType],
          m |-> m, price |-> price, replaces |-> replaces]]
    /\ groupRaced' = groupRaced \union
         {x \in {g} : \E q \in GroupRequest :
                        groupJob[q].on = x /\ {op, groupJob[q].op} \in GroupRaces}
    /\ UNCHANGED <<group, modifier>>

GroupEnds(r) ==
    /\ groupJob' = [groupJob EXCEPT ![r] = IdleGroupJob(@.on, @.m)]
    /\ UNCHANGED groupRaced

-----------------------------------------------------------------------------
\* One transaction that reads nothing: the group and its modifiers.
CreateModifierGroup(g, selectionType, prices) ==
    /\ group[g].state = "absent"
    /\ \A m \in DOMAIN prices : Free(m)
    /\ AssertFixedPriceAllowed(selectionType, \E m \in DOMAIN prices : prices[m] = "fixed")
    /\ group' = [group EXCEPT ![g] = [state |-> "live", selectionType |-> selectionType]]
    /\ modifier' = [m \in Modifier |->
                      IF m \in DOMAIN prices THEN [in |-> {g}, priceType |-> prices[m]]
                      ELSE modifier[m]]
    /\ UNCHANGED <<groupJob, groupRaced>>

\* selectionType is the one asked for or the one the group has.  Modifiers given
\* are checked in place of the ones the group has; asking for fixed prices can
\* only add refusals, for they are not written.
UpdateModifierGroup(r, g, selectionType, replaces) ==
    /\ replaces \/ AssertFixedPriceAllowed(selectionType, HasFixed(g))
    /\ GroupReads(r, "updateModifierGroup", g, selectionType,
                  groupJob[r].m, AbsentModifier, replaces)

\* The copy is saved whole; new modifiers get the column's default price type.
CommitGroup(r, new) ==
    LET g == groupJob[r].on
    IN  /\ groupJob[r].op = "updateModifierGroup"
        /\ \A m \in new : Free(m)
        /\ ~groupJob[r].replaces => new = {}
        /\ group' = [group EXCEPT ![g] = groupJob[r].row]
        /\ modifier' = IF groupJob[r].replaces
                       THEN [m \in Modifier |->
                               IF m \in new THEN [in |-> {g}, priceType |-> "adjustment"]
                               ELSE IF m \in In(g) THEN AbsentModifier ELSE modifier[m]]
                       ELSE modifier
        /\ GroupEnds(r)

DeleteModifierGroup(g) ==
    /\ group[g].state # "absent"
    /\ group' = [group EXCEPT ![g].state = "deleted"]
    /\ UNCHANGED <<modifier, groupJob, groupRaced>>

AddModifierToGroup(r, g, priceType) ==
    /\ AssertFixedPriceAllowed(group[g].selectionType, priceType = "fixed")
    /\ GroupReads(r, "addModifierToGroup", g, group[g].selectionType,
                  groupJob[r].m, [in |-> {g}, priceType |-> priceType], FALSE)

InsertModifier(r, m) ==
    /\ groupJob[r].op = "addModifierToGroup"
    /\ Free(m)
    /\ modifier' = [modifier EXCEPT ![m] = groupJob[r].price]
    /\ GroupEnds(r)
    /\ UNCHANGED group

\* Slip: the new price type is not checked.
UpdateModifierUnchecked(r, g, m, priceType) ==
    /\ m \in In(g)
    /\ GroupReads(r, "updateModifier", g, group[g].selectionType,
                  m, [in |-> {g}, priceType |-> priceType], FALSE)

\* priceType is the one asked for or the one the modifier has.
UpdateModifier(r, g, m, priceType) ==
    /\ m \in In(g)
    /\ AssertFixedPriceAllowed(group[g].selectionType, priceType = "fixed")
    /\ GroupReads(r, "updateModifier", g, group[g].selectionType,
                  m, [in |-> {g}, priceType |-> priceType], FALSE)

\* A row deleted meanwhile is inserted again by the save.
SaveModifier(r) ==
    /\ groupJob[r].op = "updateModifier"
    /\ modifier' = [modifier EXCEPT ![groupJob[r].m] = groupJob[r].price]
    /\ GroupEnds(r)
    /\ UNCHANGED group

DeleteModifier(g, m) ==
    /\ group[g].state = "live" /\ m \in In(g)
    /\ modifier' = [modifier EXCEPT ![m] = AbsentModifier]
    /\ UNCHANGED <<group, groupJob, groupRaced>>

GroupStep(g) ==
    \/ \E s \in SelectionType, new \in SUBSET Modifier :
         \E prices \in [new -> PriceType] : CreateModifierGroup(g, s, prices)
    \/ DeleteModifierGroup(g)
    \/ \E m \in Modifier : DeleteModifier(g, m)
    \/ \E r \in GroupRequest :
         \/ \E s \in SelectionType, replaces \in BOOLEAN : UpdateModifierGroup(r, g, s, replaces)
         \/ \E p \in PriceType : AddModifierToGroup(r, g, p)
         \/ \E p \in PriceType, m \in Modifier : UpdateModifier(r, g, m, p)

GroupRequestEnds(r) ==
    \/ \E new \in SUBSET Modifier : CommitGroup(r, new)
    \/ \E m \in Modifier : InsertModifier(r, m)
    \/ SaveModifier(r)

GroupNext ==
    \/ \E g \in Group : GroupStep(g)
    \/ \E r \in GroupRequest : GroupRequestEnds(r)

GroupSpec == GroupInit /\ [][GroupNext]_groupVars

-----------------------------------------------------------------------------
\* Types of the rows and of the requests under way.
GroupTypeOK ==
    /\ group \in [Group -> GroupRow]
    /\ modifier \in [Modifier -> ModifierRow]
    /\ groupJob \in [GroupRequest -> GroupJob]
    /\ groupRaced \subseteq Group

\* Whoever retypes a group, replaces its modifiers or changes one of them, a
\* fixed price never stands in a group of which several may be chosen, where
\* nothing says how to combine them - unless an update of the group has
\* overlapped with one that adds or changes a modifier of it: each checks what
\* the other is about to replace (modifiers.service.ts, assertFixedPriceAllowed
\* 15-26 and its callers 49, 151, 235 and 285).
FixedOnlyInSingle ==
    \A m \in Modifier, g \in Group \ groupRaced :
      modifier[m] = [in |-> {g}, priceType |-> "fixed"] => group[g].selectionType = "SINGLE"
=============================================================================

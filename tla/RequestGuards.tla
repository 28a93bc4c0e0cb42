---------------------------- MODULE RequestGuards ----------------------------
(***************************************************************************)
(* What a request of an owner or of staff passes before its handler runs:  *)
(* the business named by its cookie (tenant.middleware.ts), the roles of   *)
(* the route by the role in the token (roles.guard.ts), the look-up of the *)
(* business (tenant-access.service.ts), and then, by the route, the member *)
(* and the features (permission.guard.ts, permissions.util.ts) or only the *)
(* features (feature.guard.ts).  A token is signed once and lives on; rows *)
(* change meanwhile, also between the guards of one request.               *)
(*                                                                         *)
(* Requests without a token pass only to public routes, which are not in   *)
(* this module; the check of a token is external.  Four routes stand for   *)
(* the combinations of guards.                                             *)
(***************************************************************************)
EXTENDS Naturals, FiniteSets

CONSTANTS
    Venue,          \* businesses
    OwnerOf,        \* per venue its owner
    Member,         \* staff
    EmployedAt,     \* per member the venue
    Roles,          \* the roles a member may be given
    Switched,       \* the features a venue may switch on and off
    Call            \* requests

Feature == {"TABLES", "KITCHEN", "ORDER_DINE_IN"}
StaffRole == {"MANAGER", "WAITER", "KITCHEN", "CASHIER"}
Account == {OwnerOf[b] : b \in Venue}

ASSUME GuardAssumption ==
    /\ EmployedAt \in [Member -> Venue]
    /\ Roles # {} /\ Roles \subseteq StaffRole
    /\ Switched \subseteq Feature
    /\ Account \intersect Member = {}

VARIABLES
    venue,      \* the rows of businesses
    member,     \* the rows of staff
    token,      \* per member the role in the token it has
    call        \* the requests

guardVars == <<venue, member, token, call>>

RolePermissionMap == [
    MANAGER |-> {"order_view", "table_view", "table_create", "kitchen_view"},
    WAITER  |-> {"order_view", "table_view"},
    KITCHEN |-> {"order_view", "table_view", "kitchen_view"},
    CASHIER |-> {"order_view", "table_view"}]

FeatureCrud == [TABLES |-> [read |-> "table_view", create |-> "table_create"],
                KITCHEN |-> [read |-> "kitchen_view"]]

RouteOf == [
    createTable     |-> [roles |-> {"OWNER", "MANAGER"},
                         feature |-> "TABLES", action |-> "create", checksStaff |-> TRUE],
    findTables      |-> [roles |-> {"OWNER"} \union StaffRole,
                         feature |-> "TABLES", action |-> "read", checksStaff |-> TRUE],
    getActiveOrders |-> [roles |-> {"OWNER", "MANAGER", "KITCHEN"},
                         feature |-> "KITCHEN", action |-> "read", checksStaff |-> TRUE],
    confirmOrder    |-> [roles |-> {"OWNER", "MANAGER", "WAITER"},
                         feature |-> "ORDER_DINE_IN", action |-> "any", checksStaff |-> FALSE]]
Route == DOMAIN RouteOf

\* override is featureOverrides of a member, for the feature of a route.
VenueRow == [exists : BOOLEAN, features : SUBSET Feature]
MemberRow == [exists : BOOLEAN, role : StaffRole, override : {"none", "on", "off"}]

\* business is request.businessId and row the member read, none or one.  Since
\* the call began, the feature of its route was on at the venues in offered, and
\* earned says with which values of it the row of the member allowed the call.
Progress == {"idle", "begun", "resolved", "read", "handled"}
CallRow == [at : Progress, who : SUBSET (Account \union Member), route : Route,
            business : SUBSET Venue, row : SUBSET MemberRow,
            offered : SUBSET Venue, earned : SUBSET BOOLEAN]
IdleCall == [at |-> "idle", who |-> {}, route |-> "findTables", business |-> {},
             row |-> {}, offered |-> {}, earned |-> {}]

GuardInit ==
    /\ venue = [b \in Venue |-> [exists |-> TRUE, features |-> Feature]]
    /\ token = [m \in Member |-> CHOOSE r \in Roles : TRUE]
    /\ member = [m \in Member |-> [exists |-> TRUE, role |-> token[m], override |-> "none"]]
    /\ call = [c \in Call |-> IdleCall]

\* hasFeature is whether the business has the feature of the route.
CanDo(row, hasFeature, route) ==
    LET r == RouteOf[route]
    IN  /\ row.override # "off"
        /\ row.override = "on" \/ hasFeature
        /\ r.feature \in DOMAIN FeatureCrud
        /\ r.action \in DOMAIN FeatureCrud[r.feature]
        /\ FeatureCrud[r.feature][r.action] \in RolePermissionMap[row.role]

Earned(row, route) == {f \in BOOLEAN : CanDo(row, f, route)}
HasFeature(b, route) == RouteOf[route].feature \in venue[b].features

IsOwner(c) == call[c].who \subseteq Account
Home(c) == IF IsOwner(c) THEN {} ELSE {EmployedAt[m] : m \in call[c].who}

Passes(c, at) == call' = [call EXCEPT ![c].at = at]
Refused(c) == call' = [call EXCEPT ![c] = IdleCall]

-----------------------------------------------------------------------------
(* The guards in their order                                               *)

\* The middleware takes the business from the cookie business_id, or from the
\* session of a guest who used the same browser; RolesGuard reads the token.
Begin(c, p, role, route, cookie) ==
    /\ call[c].at = "idle"
    /\ role \in RouteOf[route].roles
    /\ call' = [call EXCEPT ![c] =
         [at |-> "begun", who |-> {p}, route |-> route, business |-> cookie, row |-> {},
          offered |-> {b \in Venue : HasFeature(b, route)},
          earned |-> IF p \in Member THEN Earned(member[p], route) ELSE {}]]
    /\ UNCHANGED <<venue, member, token>>

OwnerBegins(c, p, route, cookie) == Begin(c, p, "OWNER", route, cookie)
MemberBegins(c, m, route, cookie) == Begin(c, m, token[m], route, cookie)

\* Slip: any business that exists will do.
ResolveAnyVenue(c) ==
    LET asked == IF call[c].business # {} THEN call[c].business ELSE Home(c)
    IN  /\ call[c].at = "begun"
        /\ IF asked # {} /\ \A b \in asked : venue[b].exists
           THEN call' = [call EXCEPT ![c].at = "resolved", ![c].business = asked]
           ELSE Refused(c)
        /\ UNCHANGED <<venue, member, token>>

\* TenantGuard: staff without a cookie are at their venue; an owner needs one.
Resolve(c) ==
    LET asked == IF call[c].business # {} THEN call[c].business ELSE Home(c)
        belongs(b) == /\ venue[b].exists
                      /\ IF IsOwner(c) THEN call[c].who = {OwnerOf[b]} ELSE Home(c) = {b}
    IN  /\ call[c].at = "begun"
        /\ IF asked # {} /\ \A b \in asked : belongs(b)
           THEN call' = [call EXCEPT ![c].at = "resolved", ![c].business = asked]
           ELSE Refused(c)
        /\ UNCHANGED <<venue, member, token>>

\* Slip: the role is taken from the token.
ReadStaffFromToken(c, m) ==
    /\ call[c].at = "resolved" /\ RouteOf[call[c].route].checksStaff
    /\ call[c].who = {m}
    /\ IF member[m].exists
       THEN call' = [call EXCEPT ![c].at = "read",
                                 ![c].row = {[member[m] EXCEPT !.role = token[m]]}]
       ELSE Refused(c)
    /\ UNCHANGED <<venue, member, token>>

\* PermissionGuard reads the member first; owners pass it.
ReadStaff(c, m) ==
    /\ call[c].at = "resolved" /\ RouteOf[call[c].route].checksStaff
    /\ call[c].who = {m}
    /\ IF member[m].exists
       THEN call' = [call EXCEPT ![c].at = "read", ![c].row = {member[m]}]
       ELSE Refused(c)
    /\ UNCHANGED <<venue, member, token>>

OwnerPasses(c) ==
    /\ call[c].at = "resolved" /\ RouteOf[call[c].route].checksStaff /\ IsOwner(c)
    /\ Passes(c, "handled")
    /\ UNCHANGED <<venue, member, token>>

CheckPermission(c, b) ==
    /\ call[c].at = "read" /\ call[c].business = {b}
    /\ IF venue[b].exists /\ \A row \in call[c].row : CanDo(row, HasFeature(b, call[c].route), call[c].route)
       THEN Passes(c, "handled")
       ELSE Refused(c)
    /\ UNCHANGED <<venue, member, token>>

CheckFeatures(c, b) ==
    /\ call[c].at = "resolved" /\ ~RouteOf[call[c].route].checksStaff
    /\ call[c].business = {b}
    /\ IF venue[b].exists /\ HasFeature(b, call[c].route)
       THEN Passes(c, "handled")
       ELSE Refused(c)
    /\ UNCHANGED <<venue, member, token>>

-----------------------------------------------------------------------------
(* What changes meanwhile                                                  *)

UpdateMember(m, role, override) ==
    LET row == [member[m] EXCEPT !.role = role, !.override = override]
    IN  /\ member[m].exists /\ row # member[m]
        /\ member' = [member EXCEPT ![m] = row]
        /\ call' = [c \in Call |->
                      IF call[c].who = {m}
                      THEN [call[c] EXCEPT !.earned = @ \union Earned(row, call[c].route)]
                      ELSE call[c]]
        /\ UNCHANGED <<venue, token>>

RemoveMember(m) ==
    /\ member[m].exists
    /\ member' = [member EXCEPT ![m].exists = FALSE]
    /\ UNCHANGED <<venue, token, call>>

\* A login signs the role of the row.
SignsIn(m) ==
    /\ member[m].exists
    /\ token' = [token EXCEPT ![m] = member[m].role]
    /\ UNCHANGED <<venue, member, call>>

UpdateFeatures(b, f) ==
    /\ venue[b].exists
    /\ venue' = [venue EXCEPT ![b].features =
                   IF f \in @ THEN @ \ {f} ELSE @ \union {f}]
    /\ call' = [c \in Call |->
                  IF call[c].at # "idle" /\ RouteOf[call[c].route].feature \in venue'[b].features
                  THEN [call[c] EXCEPT !.offered = @ \union {b}] ELSE call[c]]
    /\ UNCHANGED <<member, token>>

RemoveVenue(b) ==
    /\ venue[b].exists
    /\ venue' = [venue EXCEPT ![b].exists = FALSE]
    /\ UNCHANGED <<member, token, call>>

CallStep(c) ==
    \/ \E route \in Route, cookie \in {{}} \union {{b} : b \in Venue} :
         \/ \E p \in Account : OwnerBegins(c, p, route, cookie)
         \/ \E m \in Member : MemberBegins(c, m, route, cookie)
    \/ Resolve(c) \/ OwnerPasses(c)
    \/ \E m \in Member : ReadStaff(c, m)
    \/ \E b \in Venue : CheckPermission(c, b) \/ CheckFeatures(c, b)

GuardNext ==
    \/ \E c \in Call : CallStep(c)
    \/ \E m \in Member :
         \/ RemoveMember(m) \/ SignsIn(m)
         \/ \E role \in Roles, o \in {"none", "on", "off"} : UpdateMember(m, role, o)
    \/ \E b \in Venue : RemoveVenue(b) \/ \E f \in Switched : UpdateFeatures(b, f)

GuardSpec == GuardInit /\ [][GuardNext]_guardVars

-----------------------------------------------------------------------------
\* Types of the rows and of the calls.
GuardTypeOK ==
    /\ venue \in [Venue -> VenueRow]
    /\ member \in [Member -> MemberRow]
    /\ token \in [Member -> StaffRole]
    /\ call \in [Call -> CallRow]

\* Whatever business a cookie names, a handler works at a venue that its caller
\* owns or is employed at, and at one (tenant-access.service.ts, resolve 26-79,
\* buildBusinessContext 81-109).
CallsStayAtTheirVenue ==
    \A c \in Call : call[c].at = "handled" =>
      \E b \in Venue : /\ call[c].business = {b}
                       /\ IF IsOwner(c) THEN call[c].who = {OwnerOf[b]}
                          ELSE call[c].who \subseteq {m \in Member : EmployedAt[m] = b}

\* The role in a token may be long out of date: where PermissionGuard stands, a
\* member is let through only on a role, an override and a feature that held
\* while the call was under way (permission.guard.ts 49-118, permissions.util.ts
\* 32-49).
JudgedByTheRows ==
    \A c \in Call :
      /\ call[c].at = "handled" /\ ~IsOwner(c) /\ RouteOf[call[c].route].checksStaff
      => \/ FALSE \in call[c].earned
         \/ TRUE \in call[c].earned /\ call[c].business \subseteq call[c].offered
=============================================================================

------------------------------- MODULE LiveFeed -------------------------------
(***************************************************************************)
(* Who follows a business live: the sockets of owners and staff in the     *)
(* rooms kitchen:<businessId> and business:<businessId> of one business,   *)
(* and the timers that end a socket with its token (kitchen.gateway.ts).   *)
(*                                                                         *)
(* The cookie of a socket is read once, at the handshake.  A join awaits   *)
(* the check of the token and the look-up of the account, and the joins of *)
(* one socket overlap.  The transport is external: socket.io lets a socket *)
(* that is disconnected join nothing.  A socket here is a place for one    *)
(* connection after another, each with an id of its own: a place is free   *)
(* once nothing of the last one is left.                                   *)
(***************************************************************************)
EXTENDS Naturals, FiniteSets

CONSTANTS
    Socket,         \* places for connections
    Principal,      \* owners and staff of the business
    Owners,         \* those of them that own it
    KitchenStaff,   \* staff whose role has KITCHEN_VIEW: managers and the kitchen
    FeedRequest,    \* joins that may be under way at once
    ExpiryMeetsJoin \* whether a token may expire within a join of its socket

ASSUME FeedAssumption ==
    /\ Owners \subseteq Principal /\ KitchenStaff \subseteq Principal
    /\ ExpiryMeetsJoin \in BOOLEAN

VARIABLES
    access,     \* who may be in the rooms: the owner, and active staff
    socket,     \* the connections
    expiryTimers, \* what the map of timers has for each
    feedJob     \* the joins under way

feedVars == <<access, socket, expiryTimers, feedJob>>

Room == {"kitchen", "business"}

\* who is {} for a connection without a token and for a free place; a token is
\* ending when a join that began now might see it expire.
Connection == [on : BOOLEAN, who : SUBSET Principal,
               token : {"fresh", "ending", "expired"}, rooms : SUBSET Room]
Vacant == [on |-> FALSE, who |-> {}, token |-> "expired", rooms |-> {}]

\* A spent timer has fired or was cleared; its entry stays in the map.
Timer == {"none", "armed", "spent"}

FeedJob == [at : {"idle", "authenticated", "allowed"}, s : SUBSET Socket, room : Room]
IdleFeedJob == [at |-> "idle", s |-> {}, room |-> "kitchen"]

JoinsOf(s) == {j \in FeedRequest : feedJob[j].s = {s}}

FeedInit ==
    /\ access = Principal
    /\ socket = [s \in Socket |-> Vacant]
    /\ expiryTimers = [s \in Socket |-> "none"]
    /\ feedJob = [j \in FeedRequest |-> IdleFeedJob]

FeedJobEnds(j) == feedJob' = [feedJob EXCEPT ![j] = IdleFeedJob]

-----------------------------------------------------------------------------
(* Connections                                                             *)

\* With the cookie the browser holds now: a token just refreshed, an old one, none.
HandleConnection(s, who, token) ==
    /\ socket[s] = Vacant /\ expiryTimers[s] = "none" /\ JoinsOf(s) = {}
    /\ socket' = [socket EXCEPT ![s] = [on |-> TRUE, who |-> who,
                                        token |-> token, rooms |-> {}]]
    /\ UNCHANGED <<access, expiryTimers, feedJob>>

\* The timer is cleared and its entry removed; joins under way go on.
HandleDisconnect(s) ==
    /\ socket[s].on
    /\ socket' = [socket EXCEPT ![s] = [Vacant EXCEPT !.who = socket[s].who,
                                                    !.token = socket[s].token]]
    /\ expiryTimers' = [expiryTimers EXCEPT ![s] = "none"]
    /\ UNCHANGED <<access, feedJob>>

\* Nothing refers to the connection any more.
Forget(s) ==
    /\ ~socket[s].on /\ socket[s] # Vacant
    /\ expiryTimers[s] = "none" /\ JoinsOf(s) = {}
    /\ socket' = [socket EXCEPT ![s] = Vacant]
    /\ UNCHANGED <<access, expiryTimers, feedJob>>

TokenNearsEnd(s) ==
    /\ socket[s].token = "fresh"
    /\ socket' = [socket EXCEPT ![s].token = "ending"]
    /\ UNCHANGED <<access, expiryTimers, feedJob>>

TokenExpires(s) ==
    /\ socket[s].token = "ending"
    /\ ExpiryMeetsJoin \/ JoinsOf(s) = {}
    /\ socket' = [socket EXCEPT ![s].token = "expired"]
    /\ UNCHANGED <<access, expiryTimers, feedJob>>

\* Slip: the timer logs and leaves the socket where it is.
TimerOnlyLogs(s) ==
    /\ expiryTimers[s] = "armed" /\ socket[s].token = "expired"
    /\ expiryTimers' = [expiryTimers EXCEPT ![s] = "spent"]
    /\ UNCHANGED <<access, socket, feedJob>>

\* client.disconnect does nothing to a socket that is gone already.
TimerFires(s) ==
    /\ expiryTimers[s] = "armed" /\ socket[s].token = "expired"
    /\ IF socket[s].on
       THEN HandleDisconnect(s)
       ELSE /\ expiryTimers' = [expiryTimers EXCEPT ![s] = "spent"]
            /\ UNCHANGED <<access, socket, feedJob>>

Restart ==
    /\ \E s \in Socket : socket[s].on
    /\ socket' = [s \in Socket |-> Vacant]
    /\ expiryTimers' = [s \in Socket |-> "none"]
    /\ feedJob' = [j \in FeedRequest |-> IdleFeedJob]
    /\ UNCHANGED access

\* A member of staff is deactivated, reactivated or removed, or the business is.
SetAccess(p, allowed) ==
    /\ access' = IF allowed THEN access \union {p} ELSE access \ {p}
    /\ UNCHANGED <<socket, expiryTimers, feedJob>>

-----------------------------------------------------------------------------
(* join-kitchen and join-business, and how to leave                        *)

\* authenticate: a token that has expired is no token.
HandleJoin(j, s, room) ==
    /\ feedJob[j] = IdleFeedJob
    /\ socket[s].on /\ socket[s].who # {}
    /\ socket[s].token = "fresh" \/ (ExpiryMeetsJoin /\ socket[s].token = "ending")
    /\ feedJob' = [feedJob EXCEPT ![j] = [at |-> "authenticated", s |-> {s}, room |-> room]]
    /\ UNCHANGED <<access, socket, expiryTimers>>

HasPermission(p, room) == p \in Owners \/ room = "business" \/ p \in KitchenStaff

CanAccessBusiness(j, s) ==
    /\ feedJob[j].at = "authenticated" /\ feedJob[j].s = {s}
    /\ IF \A p \in socket[s].who : p \in access /\ HasPermission(p, feedJob[j].room)
       THEN feedJob' = [feedJob EXCEPT ![j].at = "allowed"]
       ELSE FeedJobEnds(j)
    /\ UNCHANGED <<access, socket, expiryTimers>>

\* Slip: a second join clears the timer of the first.
ScheduleOnce(s) ==
    expiryTimers' = [expiryTimers EXCEPT ![s] = IF @ = "none" THEN "armed" ELSE "spent"]

\* The timer of the socket is replaced; for an expired token it is only cleared.
ScheduleExpiryDisconnect(s) ==
    expiryTimers' = [expiryTimers EXCEPT ![s] =
                       IF socket[s].token # "expired" THEN "armed"
                       ELSE IF @ = "none" THEN "none" ELSE "spent"]

Join(j, s) ==
    /\ feedJob[j].at = "allowed" /\ feedJob[j].s = {s}
    /\ socket' = IF socket[s].on
                 THEN [socket EXCEPT ![s].rooms = @ \union {feedJob[j].room}] ELSE socket
    /\ ScheduleExpiryDisconnect(s)
    /\ FeedJobEnds(j)
    /\ UNCHANGED access

HandleLeave(s, room) ==
    /\ room \in socket[s].rooms
    /\ socket' = [socket EXCEPT ![s].rooms = @ \ {room}]
    /\ UNCHANGED <<access, expiryTimers, feedJob>>

JoinStep(j) == \E s \in Socket : CanAccessBusiness(j, s) \/ Join(j, s)

SocketStep(s) ==
    \/ HandleConnection(s, {}, "expired")
    \/ \E p \in Principal, token \in {"fresh", "expired"} : HandleConnection(s, {p}, token)
    \/ HandleDisconnect(s) \/ Forget(s)
    \/ TokenNearsEnd(s) \/ TokenExpires(s) \/ TimerFires(s)
    \/ \E room \in Room :
         HandleLeave(s, room) \/ \E j \in FeedRequest : HandleJoin(j, s, room)

FeedNext ==
    \/ \E s \in Socket : SocketStep(s)
    \/ \E j \in FeedRequest : JoinStep(j)
    \/ \E p \in Principal, allowed \in BOOLEAN : SetAccess(p, allowed)
    \/ Restart

\* Time passes, timers fire, queries return.
FeedFairness ==
    /\ \A s \in Socket : WF_feedVars(TokenNearsEnd(s) \/ TokenExpires(s) \/ TimerFires(s))
    /\ \A j \in FeedRequest : WF_feedVars(JoinStep(j))

FeedSpec == FeedInit /\ [][FeedNext]_feedVars /\ FeedFairness

-----------------------------------------------------------------------------
\* Types of the connections, the timers and the joins under way.
FeedTypeOK ==
    /\ access \subseteq Principal
    /\ socket \in [Socket -> Connection]
    /\ expiryTimers \in [Socket -> Timer]
    /\ feedJob \in [FeedRequest -> FeedJob]

\* However its joins overlap, and whatever it leaves, a socket in a staff room
\* is connected and has a timer running, except one whose token expired within
\* a join (kitchen.gateway.ts, expiryTimers 168-175, scheduleExpiryDisconnect
\* 745-761).
FollowersAreTimed ==
    \A s \in Socket : socket[s].rooms # {} =>
      /\ socket[s].on
      /\ \/ expiryTimers[s] = "armed"
         \/ ExpiryMeetsJoin /\ socket[s].token = "expired"

\* A feed outlives neither the token nor, by more than the token's life, the
\* access of its holder (kitchen.gateway.ts 168-175, 737-744,
\* canAccessBusiness 765-784).
Entitled(s) == socket[s].token # "expired" /\ socket[s].who \subseteq access
FeedsEnd ==
    \A s \in Socket :
      (socket[s].rooms # {} /\ ~Entitled(s)) ~> (socket[s].rooms = {} \/ Entitled(s))
=============================================================================

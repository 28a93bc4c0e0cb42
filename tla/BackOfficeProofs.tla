--------------------------- MODULE BackOfficeProofs ---------------------------
(***************************************************************************)
(* The settlement of payments, the staff rooms, the pairing of TVs and the *)
(* guards, for every set of payments, sockets, displays and requests and   *)
(* every number of crashes; and MCBackOffice, the nine parts side by side, *)
(* which implements each of them.                                          *)
(***************************************************************************)
EXTENDS MCBackOffice, OwnerProofs, StaffProofs, CatalogProofs, FiniteSetTheorems, TLAPS

-----------------------------------------------------------------------------
(* The pairing of TVs                                                      *)

LEMMA PairingInitTyped == ASSUME PairingAssumption, PairingInit PROVE PairingTypeOK
<1>1. 0 \in Token /\ (CHOOSE d \in Display : TRUE) \in Display
  BY DEF PairingAssumption, Token
<1>2. QED BY <1>1 DEF PairingInit, PairingTypeOK, DisplayRow, TV, BlankTV, DisplayJob,
          IdleDisplayJob

LEMMA PairingStepTyped ==
  ASSUME PairingAssumption, PairingTypeOK, [PairingNext]_pairingVars
  PROVE  PairingTypeOK'
<1>1. 0 \in Token /\ tokens \in Token /\ (tokens < MaxTokens => tokens + 1 \in Token)
      /\ tokens \in Nat
  BY DEF PairingAssumption, PairingTypeOK, Token
<1>2. \A d \in Display : IdleDisplayJob(d) \in DisplayJob
  BY <1>1 DEF IdleDisplayJob, DisplayJob, DisplayRow
<1>3. \A r \in DisplayRequest : displayJob[r].on \in Display /\ displayJob[r].row \in DisplayRow
  BY DEF PairingTypeOK, DisplayJob
<1>4. ASSUME NEW d \in Display, CreateDisplay(d) PROVE PairingTypeOK'
  <2>1. [display[d] EXCEPT !.tokenHash = tokens'] \in DisplayRow
    BY <1>1, <1>4 DEF CreateDisplay, PairingTypeOK, DisplayRow
  <2>2. display' \in [Display -> DisplayRow]
    BY <1>4, <2>1 DEF CreateDisplay, PairingTypeOK
  <2>3. QED BY <1>1, <1>4, <2>2 DEF CreateDisplay, PairingTypeOK
<1>5. ASSUME NEW r \in DisplayRequest, NEW op \in {"regenerate", "revoke"}, NEW d \in Display,
             FindOwnedDisplay(r, op, d)
      PROVE  PairingTypeOK'
  <2>1. [op |-> op, on |-> d, row |-> display[d]] \in DisplayJob
    BY DEF PairingTypeOK, DisplayJob
  <2>2. QED BY <1>5, <2>1 DEF FindOwnedDisplay, PairingTypeOK
<1>6. ASSUME NEW r \in DisplayRequest, Regenerate(r) PROVE PairingTypeOK'
  <2>1. [tokenHash |-> tokens', revoked |-> FALSE] \in DisplayRow /\ tokens' \in Token
    BY <1>1, <1>6 DEF Regenerate, DisplayRow
  <2>2. display' \in [Display -> DisplayRow] /\ displayJob' \in [DisplayRequest -> DisplayJob]
    BY <1>2, <1>3, <1>6, <2>1 DEF Regenerate, PairingTypeOK
  <2>3. QED BY <1>6, <2>1, <2>2 DEF Regenerate, PairingTypeOK
<1>7. ASSUME NEW r \in DisplayRequest, Revoke(r) PROVE PairingTypeOK'
  <2>1. [displayJob[r].row EXCEPT !.revoked = TRUE] \in DisplayRow
    BY <1>3 DEF DisplayRow
  <2>2. display' \in [Display -> DisplayRow] /\ displayJob' \in [DisplayRequest -> DisplayJob]
    BY <1>2, <1>3, <1>7, <2>1 DEF Revoke, PairingTypeOK
  <2>3. QED BY <1>7, <2>2 DEF Revoke, PairingTypeOK
<1>8. ASSUME NEW v \in Screen, ScreenStep(v) PROVE PairingTypeOK'
  <2>1. ASSUME NEW t \in Token, GetPublicSnapshot(v, t) PROVE PairingTypeOK'
    <3>1. [token |-> t, loaded |-> Accepted(t), inRoom |-> FALSE] \in TV
      BY DEF TV, Accepted
    <3>2. QED BY <2>1, <3>1 DEF GetPublicSnapshot, PairingTypeOK
  <2>2. ASSUME NEW in \in BOOLEAN, screen' = [screen EXCEPT ![v].inRoom = in],
               UNCHANGED <<display, tokens, displayJob>>
        PROVE  PairingTypeOK'
    <3>1. [screen[v] EXCEPT !.inRoom = in] \in TV
      BY DEF PairingTypeOK, TV
    <3>2. QED BY <2>2, <3>1 DEF PairingTypeOK
  <2>3. Accepted(screen[v].token) \in BOOLEAN
    BY DEF Accepted
  <2>4. QED BY <1>8, <2>1, <2>2, <2>3 DEF ScreenStep, HandleJoinDisplay, HandleLeaveDisplay
<1>9. CASE UNCHANGED pairingVars
  BY <1>9 DEF pairingVars, PairingTypeOK
<1>10. QED BY <1>4, <1>5, <1>6, <1>7, <1>8, <1>9 DEF PairingNext, DisplayStep

\* Rows, screens and requests keep their types.
THEOREM PairingTypeCorrect == ASSUME PairingAssumption PROVE PairingSpec => []PairingTypeOK
<1>1. PairingInit => PairingTypeOK
  BY PairingInitTyped
<1>2. PairingTypeOK /\ [PairingNext]_pairingVars => PairingTypeOK'
  BY PairingStepTyped
<1>3. QED BY <1>1, <1>2, PTL DEF PairingSpec

\* What is saved is revoked or has a token that was never handed out before, so
\* of the tokens handed out none is accepted again, however requests overlap.
LEMMA PairingStepDead ==
  ASSUME PairingAssumption, PairingTypeOK, [PairingNext]_pairingVars
  PROVE  [\A t \in 1 .. tokens : ~Accepted(t) => ~(Accepted(t)')]_pairingVars
<1>1. SUFFICES ASSUME PairingNext, NEW t \in 1 .. tokens, Accepted(t)' PROVE Accepted(t)
  OBVIOUS
<1>2. PICK d \in Display : display'[d] = [tokenHash |-> t, revoked |-> FALSE]
  BY <1>1 DEF Accepted
<1>3. display'[d].tokenHash = t /\ ~display'[d].revoked
  BY <1>2
<1>4. tokens \in Nat /\ tokens + 1 # t
  BY <1>1 DEF PairingTypeOK, Token, PairingAssumption
<1>5. display'[d] = display[d]
  <2>1. ASSUME NEW x \in Display, CreateDisplay(x) PROVE x # d
    <3>1. display'[x] = [display[x] EXCEPT !.tokenHash = tokens + 1]
      BY <2>1 DEF CreateDisplay, PairingTypeOK
    <3>2. display'[x].tokenHash = tokens + 1
      BY <3>1 DEF PairingTypeOK, DisplayRow
    <3>3. QED BY <1>3, <1>4, <3>2
  <2>2. ASSUME NEW r \in DisplayRequest, Regenerate(r) PROVE displayJob[r].on # d
    <3>1. displayJob[r].on \in Display
      BY DEF PairingTypeOK, DisplayJob
    <3>2. display'[displayJob[r].on].tokenHash = tokens + 1
      BY <2>2, <3>1 DEF Regenerate, PairingTypeOK
    <3>3. QED BY <1>3, <1>4, <3>2
  <2>3. ASSUME NEW r \in DisplayRequest, Revoke(r) PROVE displayJob[r].on # d
    <3>1. displayJob[r].on \in Display /\ displayJob[r].row \in DisplayRow
      BY DEF PairingTypeOK, DisplayJob
    <3>2. display'[displayJob[r].on] = [displayJob[r].row EXCEPT !.revoked = TRUE]
      BY <2>3, <3>1 DEF Revoke, PairingTypeOK
    <3>3. display'[displayJob[r].on].revoked
      BY <3>1, <3>2 DEF DisplayRow
    <3>4. QED BY <1>3, <3>3
  <2>4. ASSUME NEW x \in Display, CreateDisplay(x) PROVE display'[d] = display[d]
    BY <2>1, <2>4 DEF CreateDisplay, PairingTypeOK
  <2>5. ASSUME NEW r \in DisplayRequest, Regenerate(r) \/ Revoke(r)
        PROVE  display'[d] = display[d]
    BY <2>2, <2>3, <2>5 DEF Regenerate, Revoke, PairingTypeOK
  <2>6. QED BY <1>1, <2>4, <2>5 DEF PairingNext, DisplayStep, ScreenStep, FindOwnedDisplay,
            GetPublicSnapshot, HandleJoinDisplay, HandleLeaveDisplay
<1>6. QED BY <1>2, <1>5 DEF Accepted

\* A token that was replaced or revoked never opens a room again.
THEOREM TokensStayDead == ASSUME PairingAssumption PROVE PairingSpec => DeadTokensStayDead
<1>1. PairingSpec => []PairingTypeOK
  BY PairingTypeCorrect
<1>2. PairingTypeOK /\ [PairingNext]_pairingVars
        => [\A t \in 1 .. tokens : ~Accepted(t) => ~(Accepted(t)')]_pairingVars
  BY PairingStepDead
<1>3. QED BY <1>1, <1>2, PTL DEF PairingSpec, DeadTokensStayDead

-----------------------------------------------------------------------------
(* The staff rooms                                                         *)

\* A token that may not expire within a join lives as long as one is under way.
Ages(s, age) == ExpiryMeetsJoin \/ JoinsOf(s) = {} \/ age # "expired"
IsTimed(connection, timer) ==
  connection.rooms # {} =>
    connection.on /\ (timer = "armed" \/ (ExpiryMeetsJoin /\ connection.token = "expired"))

FeedInv ==
  /\ FeedTypeOK
  /\ \A s \in Socket : IsTimed(socket[s], expiryTimers[s]) /\ Ages(s, socket[s].token)

LEMMA FeedInitInv == ASSUME FeedAssumption, FeedInit PROVE FeedInv
BY DEF FeedInit, FeedInv, FeedTypeOK, IsTimed, Ages, JoinsOf, Vacant, IdleFeedJob,
   Connection, Timer, FeedJob, Room

\* Nothing happens but to one connection, whose joins do not become more.
LEMMA SocketKeeps ==
  ASSUME FeedInv, NEW s \in Socket, NEW new \in Connection, NEW timer \in Timer,
         socket' = [socket EXCEPT ![s] = new], expiryTimers' = [expiryTimers EXCEPT ![s] = timer],
         UNCHANGED <<access, feedJob>>,
         IsTimed(new, timer), Ages(s, new.token)
  PROVE  FeedInv'
<1>1. \A x \in Socket : socket'[x] = (IF x = s THEN new ELSE socket[x])
                        /\ expiryTimers'[x] = (IF x = s THEN timer ELSE expiryTimers[x])
  BY DEF FeedInv, FeedTypeOK
<1>2. \A x : JoinsOf(x)' = JoinsOf(x)
  BY DEF JoinsOf
<1>3. FeedTypeOK'
  BY DEF FeedInv, FeedTypeOK
<1>4. ASSUME NEW x \in Socket
      PROVE  IsTimed(socket'[x], expiryTimers'[x]) /\ Ages(x, socket[x].token)'
  <2>1. CASE x = s
    BY <1>1, <1>2, <2>1 DEF Ages
  <2>2. CASE x # s
    BY <1>1, <1>2, <2>2 DEF FeedInv, Ages
  <2>3. QED BY <2>1, <2>2
<1>5. QED BY <1>3, <1>4 DEF FeedInv, IsTimed

LEMMA DisconnectKeeps ==
  ASSUME FeedInv, NEW s \in Socket, HandleDisconnect(s)
  PROVE  FeedInv'
<1> DEFINE new == [Vacant EXCEPT !.who = socket[s].who, !.token = socket[s].token]
<1>1. socket[s] \in Connection
  BY DEF FeedInv, FeedTypeOK
<1>2. new \in Connection /\ new.rooms = {} /\ new.token = socket[s].token
  BY <1>1 DEF Vacant, Connection
<1>3. Ages(s, new.token) /\ IsTimed(new, "none") /\ "none" \in Timer
  BY <1>2 DEF FeedInv, IsTimed, Timer
<1>4. QED BY <1>2, <1>3, SocketKeeps DEF HandleDisconnect

\* The token of a connection ages.
LEMMA TokenKeeps ==
  ASSUME FeedInv, NEW s \in Socket, TokenNearsEnd(s) \/ TokenExpires(s)
  PROVE  FeedInv'
<1>1. /\ socket[s] \in Connection /\ expiryTimers[s] \in Timer
      /\ expiryTimers = [expiryTimers EXCEPT ![s] = expiryTimers[s]]
      /\ IsTimed(socket[s], expiryTimers[s]) /\ socket[s].token \in {"fresh", "ending"}
  BY DEF FeedInv, FeedTypeOK, TokenNearsEnd, TokenExpires
<1>2. ASSUME NEW age \in {"ending", "expired"}, socket' = [socket EXCEPT ![s].token = age],
             UNCHANGED <<access, expiryTimers, feedJob>>, Ages(s, age)
      PROVE  FeedInv'
  <2> DEFINE new == [socket[s] EXCEPT !.token = age]
  <2>1. /\ new \in Connection /\ new.rooms = socket[s].rooms /\ new.on = socket[s].on
        /\ new.token = age
    BY <1>1 DEF Connection
  <2>2. socket' = [socket EXCEPT ![s] = new]
    BY <1>2 DEF FeedInv, FeedTypeOK
  <2>3. expiryTimers' = [expiryTimers EXCEPT ![s] = expiryTimers[s]]
    BY <1>1, <1>2
  <2>4. IsTimed(new, expiryTimers[s])
    BY <1>1, <2>1 DEF IsTimed
  <2>5. QED BY <1>1, <1>2, <2>1, <2>2, <2>3, <2>4, SocketKeeps
<1>3. QED BY <1>2 DEF TokenNearsEnd, TokenExpires, Ages

LEMMA ConnectKeeps ==
  ASSUME FeedInv, NEW s \in Socket, NEW who \in SUBSET Principal,
         NEW age \in {"fresh", "expired"}, HandleConnection(s, who, age)
  PROVE  FeedInv'
<1> DEFINE new == [on |-> TRUE, who |-> who, token |-> age, rooms |-> {}]
<1>1. new \in Connection /\ new.rooms = {}
  BY DEF Connection
<1>2. expiryTimers[s] \in Timer /\ expiryTimers = [expiryTimers EXCEPT ![s] = expiryTimers[s]]
  BY DEF FeedInv, FeedTypeOK
<1>3. JoinsOf(s) = {} /\ UNCHANGED <<access, expiryTimers, feedJob>>
      /\ socket' = [socket EXCEPT ![s] = new]
  BY DEF HandleConnection
<1>4. IsTimed(new, expiryTimers[s]) /\ Ages(s, new.token)
  BY <1>1, <1>3 DEF IsTimed, Ages
<1>5. QED BY <1>1, <1>2, <1>3, <1>4, SocketKeeps

LEMMA ForgetKeeps ==
  ASSUME FeedInv, NEW s \in Socket, Forget(s)
  PROVE  FeedInv'
<1>1. /\ Vacant \in Connection /\ JoinsOf(s) = {}
      /\ IsTimed(Vacant, expiryTimers[s]) /\ Ages(s, Vacant.token)
  BY DEF Vacant, Connection, IsTimed, Ages, Forget
<1>2. expiryTimers[s] \in Timer /\ expiryTimers = [expiryTimers EXCEPT ![s] = expiryTimers[s]]
  BY DEF FeedInv, FeedTypeOK
<1>3. QED BY <1>1, <1>2, SocketKeeps DEF Forget

\* A timer that fires on a connection that is gone finds it in no room.
LEMMA TimerKeeps ==
  ASSUME FeedInv, NEW s \in Socket, TimerFires(s)
  PROVE  FeedInv'
<1>1. CASE socket[s].on
  BY <1>1, DisconnectKeeps DEF TimerFires
<1>2. CASE ~socket[s].on
  <2>1. /\ socket[s] \in Connection /\ IsTimed(socket[s], "spent")
        /\ socket = [socket EXCEPT ![s] = socket[s]] /\ "spent" \in Timer
        /\ Ages(s, socket[s].token)
    BY <1>2 DEF FeedInv, FeedTypeOK, IsTimed, Timer
  <2>2. QED BY <1>2, <2>1, SocketKeeps DEF TimerFires
<1>3. QED BY <1>1, <1>2

LEMMA LeaveKeeps ==
  ASSUME FeedInv, NEW s \in Socket, NEW room \in Room, HandleLeave(s, room)
  PROVE  FeedInv'
<1> DEFINE new == [socket[s] EXCEPT !.rooms = @ \ {room}]
<1>1. /\ socket[s] \in Connection /\ expiryTimers[s] \in Timer
      /\ expiryTimers = [expiryTimers EXCEPT ![s] = expiryTimers[s]]
      /\ socket[s].rooms # {} /\ IsTimed(socket[s], expiryTimers[s])
      /\ Ages(s, socket[s].token)
  BY DEF HandleLeave, FeedInv, FeedTypeOK
<1>2. new \in Connection /\ new.on = socket[s].on /\ new.token = socket[s].token
  BY <1>1 DEF Connection
<1>3. IsTimed(new, expiryTimers[s]) /\ Ages(s, new.token)
  BY <1>1, <1>2 DEF IsTimed
<1>4. socket' = [socket EXCEPT ![s] = new]
  BY DEF HandleLeave
<1>5. QED BY <1>1, <1>2, <1>3, <1>4, SocketKeeps DEF HandleLeave

LEMMA JoinBeginsKeeps ==
  ASSUME FeedInv, NEW s \in Socket, NEW room \in Room, NEW j \in FeedRequest,
         HandleJoin(j, s, room)
  PROVE  FeedInv'
<1>1. [at |-> "authenticated", s |-> {s}, room |-> room] \in FeedJob
  BY DEF FeedJob
<1>2. FeedTypeOK' /\ \A x \in Socket : IsTimed(socket[x], expiryTimers[x])'
  BY <1>1 DEF HandleJoin, FeedInv, FeedTypeOK, IsTimed
<1>3. ASSUME NEW x \in Socket PROVE Ages(x, socket[x].token)'
  <2>1. CASE x = s
    BY <2>1 DEF HandleJoin, Ages
  <2>2. CASE x # s
    <3>1. JoinsOf(x)' \subseteq JoinsOf(x)
      BY <2>2 DEF HandleJoin, JoinsOf, FeedInv, FeedTypeOK
    <3>2. QED BY <3>1 DEF FeedInv, Ages, HandleJoin
  <2>3. QED BY <2>1, <2>2
<1>4. QED BY <1>2, <1>3 DEF FeedInv

\* A join that goes on or ends; at its end the timer is armed if the token lives.
LEMMA JoinKeeps ==
  ASSUME FeedInv, NEW j \in FeedRequest, JoinStep(j)
  PROVE  FeedInv'
<1>1. PICK s \in Socket : CanAccessBusiness(j, s) \/ Join(j, s)
  BY DEF JoinStep
<1>2. feedJob[j] \in FeedJob /\ j \in JoinsOf(s) /\ Ages(s, socket[s].token)
  BY <1>1 DEF CanAccessBusiness, Join, JoinsOf, FeedInv, FeedTypeOK
<1>3. IdleFeedJob \in FeedJob /\ [feedJob[j] EXCEPT !.at = "allowed"] \in FeedJob
  BY <1>2 DEF IdleFeedJob, FeedJob, Room
<1>4. /\ feedJob' \in [FeedRequest -> FeedJob]
      /\ \A x \in FeedRequest : feedJob'[x].s \in {{}, feedJob[x].s}
  BY <1>1, <1>2, <1>3 DEF CanAccessBusiness, Join, FeedJobEnds, IdleFeedJob, FeedInv,
     FeedTypeOK, FeedJob
<1>5. \A x \in Socket : JoinsOf(x)' # {} => JoinsOf(x) # {}
  <2>1. \A x \in Socket : {x} # {}
    OBVIOUS
  <2>2. QED BY <1>4, <2>1 DEF JoinsOf
<1>6. CASE CanAccessBusiness(j, s)
  BY <1>4, <1>5, <1>6 DEF CanAccessBusiness, FeedInv, FeedTypeOK, IsTimed, Ages
<1>7. CASE Join(j, s)
  <2>1. socket \in [Socket -> Connection] /\ expiryTimers \in [Socket -> Timer]
        /\ access' \subseteq Principal
    BY <1>7 DEF Join, FeedInv, FeedTypeOK
  <2>2. /\ expiryTimers' \in [Socket -> Timer]
        /\ socket[s].token # "expired" => expiryTimers'[s] = "armed"
        /\ \A x \in Socket : x # s => expiryTimers'[x] = expiryTimers[x]
    BY <1>7, <2>1 DEF Join, ScheduleExpiryDisconnect, Timer
  <2>3. socket' = IF socket[s].on
                  THEN [socket EXCEPT ![s].rooms = @ \union {feedJob[j].room}] ELSE socket
    BY <1>7 DEF Join
  <2>4. /\ socket' \in [Socket -> Connection]
        /\ \A x \in Socket : x # s => socket'[x] = socket[x]
        /\ socket'[s].on = socket[s].on /\ socket'[s].token = socket[s].token
        /\ ~socket[s].on => socket'[s].rooms = {}
    <3>1. CASE socket[s].on
      <4> DEFINE new == [socket[s] EXCEPT !.rooms = @ \union {feedJob[j].room}]
      <4>1. new \in Connection /\ new.on = socket[s].on /\ new.token = socket[s].token
        BY <1>2, <2>1 DEF Connection, FeedJob
      <4>2. socket' = [socket EXCEPT ![s] = new]
        BY <2>3, <3>1
      <4>3. QED BY <2>1, <3>1, <4>1, <4>2
    <3>2. CASE ~socket[s].on
      BY <2>1, <2>3, <3>2 DEF FeedInv, IsTimed
    <3>3. QED BY <3>1, <3>2
  <2>5. FeedTypeOK'
    BY <1>4, <2>1, <2>2, <2>4 DEF FeedTypeOK
  <2>6. socket[s].token = "expired" => ExpiryMeetsJoin
    BY <1>2 DEF Ages
  <2>7. \A x \in Socket : IsTimed(socket'[x], expiryTimers'[x])
    BY <2>2, <2>4, <2>6 DEF FeedInv, IsTimed
  <2>8. \A x \in Socket : Ages(x, socket[x].token)'
    BY <1>5, <2>4 DEF FeedInv, Ages
  <2>9. QED BY <2>5, <2>7, <2>8 DEF FeedInv, IsTimed
<1>8. QED BY <1>1, <1>6, <1>7

LEMMA FeedStepKeeps ==
  ASSUME FeedAssumption, FeedInv, [FeedNext]_feedVars
  PROVE  FeedInv'
<1>1. ASSUME NEW s \in Socket, SocketStep(s) PROVE FeedInv'
  <2>1. {} \in SUBSET Principal /\ \A p \in Principal : {p} \in SUBSET Principal
    OBVIOUS
  <2>2. CASE \/ HandleConnection(s, {}, "expired")
             \/ \E p \in Principal, age \in {"fresh", "expired"} : HandleConnection(s, {p}, age)
    BY <2>1, <2>2, ConnectKeeps
  <2>3. QED BY <1>1, <2>2, DisconnectKeeps, ForgetKeeps, TokenKeeps, TimerKeeps, LeaveKeeps,
            JoinBeginsKeeps DEF SocketStep
<1>2. ASSUME NEW p \in Principal, NEW allowed \in BOOLEAN, SetAccess(p, allowed) PROVE FeedInv'
  <2>1. \A x : JoinsOf(x)' = JoinsOf(x)
    BY <1>2 DEF SetAccess, JoinsOf
  <2>2. QED BY <1>2, <2>1 DEF SetAccess, FeedInv, FeedTypeOK, IsTimed, Ages
<1>3. CASE Restart
  BY <1>3 DEF Restart, FeedInv, FeedTypeOK, IsTimed, Ages, JoinsOf, Vacant, IdleFeedJob,
     Connection, Timer, FeedJob, Room
<1>4. CASE UNCHANGED feedVars
  BY <1>4 DEF feedVars, FeedInv, FeedTypeOK, IsTimed, Ages, JoinsOf
<1>5. QED BY <1>1, <1>2, <1>3, <1>4, JoinKeeps DEF FeedNext

\* However the joins of a socket overlap, whatever it leaves and whenever its
\* token expires or the server restarts, a socket in a staff room has a timer
\* running, or its token expired within a join (kitchen.gateway.ts 737-761).
THEOREM EveryFollowerIsTimed ==
  ASSUME FeedAssumption
  PROVE  FeedSpec => [](FeedTypeOK /\ FollowersAreTimed)
<1>1. FeedInit => FeedInv
  BY FeedInitInv
<1>2. FeedInv /\ [FeedNext]_feedVars => FeedInv'
  BY FeedStepKeeps
<1>3. FeedInv => FeedTypeOK /\ FollowersAreTimed
  BY DEF FeedInv, IsTimed, FollowersAreTimed
<1>4. QED BY <1>1, <1>2, <1>3, PTL DEF FeedSpec

-----------------------------------------------------------------------------
(* The guards                                                              *)

\* Whose call it is, and where, as far as it has come.
AtItsVenue(c) ==
  \E b \in Venue : /\ call[c].business = {b}
                   /\ IF IsOwner(c) THEN call[c].who = {OwnerOf[b]}
                      ELSE call[c].who \subseteq {m \in Member : EmployedAt[m] = b}

\* What a call has earned and was offered is at least what the rows say now.
UpToDate(c) ==
  call[c].at # "idle" =>
    /\ \E p \in Account \union Member : call[c].who = {p}
    /\ \A m \in Member : call[c].who = {m} => Earned(member[m], call[c].route) \subseteq call[c].earned
    /\ \A b \in Venue : HasFeature(b, call[c].route) => b \in call[c].offered

\* The row of the member that a call has read earned what it still counts on.
ReadEarned(c) ==
  call[c].at = "read" =>
    \E row \in MemberRow : /\ call[c].row = {row}
                           /\ Earned(row, call[c].route) \subseteq call[c].earned

Judged(c) ==
  /\ call[c].at = "handled" /\ ~IsOwner(c) /\ RouteOf[call[c].route].checksStaff
  => \/ FALSE \in call[c].earned
     \/ TRUE \in call[c].earned /\ call[c].business \subseteq call[c].offered

CallSound(c) ==
  /\ call[c].at = "idle" => call[c] = IdleCall
  /\ call[c].at = "begun" => \A b \in call[c].business : call[c].business = {b}
  /\ call[c].at \in {"resolved", "read", "handled"} => AtItsVenue(c)
  /\ UpToDate(c)
  /\ ReadEarned(c)
  /\ Judged(c)

GuardInv ==
  /\ GuardTypeOK
  /\ \A c \in Call : CallSound(c)

LEMMA IdleCallTyped == IdleCall \in CallRow
BY DEF IdleCall, CallRow, Progress, Route, RouteOf

LEMMA GuardInitInv == ASSUME GuardAssumption, GuardInit PROVE GuardInv
<1>1. (CHOOSE r \in Roles : TRUE) \in StaffRole
  BY DEF GuardAssumption
<1>2. GuardTypeOK
  BY <1>1, IdleCallTyped DEF GuardInit, GuardTypeOK, VenueRow, MemberRow
<1>3. ASSUME NEW c \in Call PROVE CallSound(c)
  <2>1. call[c] = IdleCall /\ call[c].at = "idle"
    BY DEF GuardInit, IdleCall
  <2>2. QED BY <2>1 DEF CallSound, UpToDate, ReadEarned, Judged
<1>4. QED BY <1>2, <1>3 DEF GuardInv

\* The rows stay; one call has gone a step.
LEMMA CallKeeps ==
  ASSUME GuardInv, NEW c \in Call, NEW new \in CallRow, call' = [call EXCEPT ![c] = new],
         UNCHANGED <<venue, member, token>>, CallSound(c)'
  PROVE  GuardInv'
<1>1. /\ call' \in [Call -> CallRow] /\ \A x \in Call : x # c => call'[x] = call[x]
      /\ venue' = venue /\ member' = member
  BY DEF GuardInv, GuardTypeOK
<1>2. GuardTypeOK'
  BY <1>1 DEF GuardInv, GuardTypeOK
<1>3. ASSUME NEW x \in Call, x # c PROVE CallSound(x)'
  <2>1. CallSound(x) /\ call'[x] = call[x]
    BY <1>1, <1>3 DEF GuardInv
  <2>2. \A b \in Venue : HasFeature(b, call[x].route)' = HasFeature(b, call[x].route)
    BY <1>1, <2>1 DEF HasFeature
  <2>3. QED BY <1>1, <2>1, <2>2 DEF CallSound, AtItsVenue, UpToDate, ReadEarned, Judged, IsOwner
<1>4. QED BY <1>2, <1>3 DEF GuardInv

LEMMA RefusedKeeps ==
  ASSUME GuardInv, NEW c \in Call, Refused(c), UNCHANGED <<venue, member, token>>
  PROVE  GuardInv'
<1>1. call'[c] = IdleCall /\ IdleCall.at = "idle"
  BY DEF Refused, GuardInv, GuardTypeOK, IdleCall
<1>2. CallSound(c)'
  BY <1>1 DEF CallSound, UpToDate, ReadEarned, Judged
<1>3. QED BY <1>2, CallKeeps, IdleCallTyped DEF Refused

\* What the guards allow is a set of values of one feature.
LEMMA EarnedTyped == \A row, route : Earned(row, route) \subseteq BOOLEAN
BY DEF Earned

LEMMA BeginKeeps ==
  ASSUME GuardAssumption, GuardInv, NEW c \in Call, NEW p \in Account \union Member, NEW role,
         NEW route \in Route, NEW cookie \in {{}} \union {{b} : b \in Venue},
         Begin(c, p, role, route, cookie)
  PROVE  GuardInv'
<1> DEFINE new == [at |-> "begun", who |-> {p}, route |-> route, business |-> cookie, row |-> {},
                   offered |-> {b \in Venue : HasFeature(b, route)},
                   earned |-> IF p \in Member THEN Earned(member[p], route) ELSE {}]
<1>1. new \in CallRow
  BY EarnedTyped DEF CallRow, Progress
<1>2. call'[c] = new /\ UNCHANGED <<venue, member, token>> /\ call' = [call EXCEPT ![c] = new]
  BY DEF Begin, GuardInv, GuardTypeOK
<1>3. \A b \in Venue : HasFeature(b, route)' = HasFeature(b, route)
  BY <1>2 DEF HasFeature
<1>4. UpToDate(c)'
  BY <1>2, <1>3 DEF UpToDate
<1>5. CallSound(c)'
  BY <1>2, <1>4 DEF CallSound, ReadEarned, Judged
<1>6. QED BY <1>1, <1>2, <1>5, CallKeeps

\* The call goes on from a guard and keeps whose it is, what it is for and what
\* it has earned.
SameCall(c, new) ==
  /\ new.who = call[c].who /\ new.route = call[c].route
  /\ new.offered = call[c].offered /\ new.earned = call[c].earned

LEMMA SameCallUpToDate ==
  ASSUME GuardInv, NEW c \in Call, call[c].at # "idle", SameCall(c, call'[c]),
         UNCHANGED <<venue, member>>
  PROVE  UpToDate(c)' /\ IsOwner(c)' = IsOwner(c)
<1>1. UpToDate(c)
  BY DEF GuardInv, CallSound
<1>2. \A b \in Venue : HasFeature(b, call[c].route)' = HasFeature(b, call'[c].route)
  BY DEF HasFeature, SameCall
<1>3. \A b \in Venue : HasFeature(b, call'[c].route) = HasFeature(b, call[c].route)
  BY DEF SameCall
<1>4. QED BY <1>1, <1>2, <1>3 DEF UpToDate, SameCall, IsOwner

LEMMA ResolveKeeps ==
  ASSUME GuardAssumption, GuardInv, NEW c \in Call, Resolve(c)
  PROVE  GuardInv'
<1> DEFINE asked == IF call[c].business # {} THEN call[c].business ELSE Home(c)
           belongs(b) == /\ venue[b].exists
                         /\ IF IsOwner(c) THEN call[c].who = {OwnerOf[b]} ELSE Home(c) = {b}
<1>1. /\ call[c] \in CallRow /\ call[c].at = "begun" /\ CallSound(c)
      /\ UNCHANGED <<venue, member, token>>
  BY DEF Resolve, GuardInv, GuardTypeOK
<1>2. CASE asked # {} /\ \A b \in asked : belongs(b)
  <2> DEFINE new == [call[c] EXCEPT !.at = "resolved", !.business = asked]
  <2>1. call' = [call EXCEPT ![c] = new] /\ call'[c] = new
    BY <1>1, <1>2 DEF Resolve, GuardInv, GuardTypeOK
  <2>2. PICK p \in Account \union Member : call[c].who = {p}
    BY <1>1 DEF CallSound, UpToDate
  <2>3. Home(c) = IF p \in Account THEN {} ELSE {EmployedAt[p]}
    BY <2>2 DEF Home, IsOwner
  <2>4. PICK b \in Venue : asked = {b}
    <3>1. CASE call[c].business # {}
      <4>1. call[c].business \subseteq Venue
        BY <1>1 DEF CallRow
      <4>2. QED BY <1>1, <3>1, <4>1 DEF CallSound
    <3>2. CASE call[c].business = {}
      <4>1. p \in Member /\ asked = {EmployedAt[p]}
        BY <1>2, <2>3, <3>2
      <4>2. QED BY <4>1 DEF GuardAssumption
    <3>3. QED BY <3>1, <3>2
  <2>5. IF IsOwner(c) THEN call[c].who = {OwnerOf[b]}
        ELSE call[c].who \subseteq {m \in Member : EmployedAt[m] = b}
    <3>1. belongs(b)
      BY <1>2, <2>4
    <3>2. CASE IsOwner(c)
      BY <3>1, <3>2
    <3>3. CASE ~IsOwner(c)
      <4>1. p \in Member /\ p \notin Account
        BY <2>2, <3>3 DEF IsOwner
      <4>2. EmployedAt[p] = b
        BY <2>3, <3>1, <3>3, <4>1
      <4>3. QED BY <2>2, <3>3, <4>1, <4>2
    <3>4. QED BY <3>2, <3>3
  <2>6. /\ new \in CallRow /\ SameCall(c, call'[c])
        /\ call'[c].at = "resolved" /\ call'[c].business = {b}
    <3>1. /\ new.at = "resolved" /\ new.business = {b} /\ new.who = call[c].who
          /\ new.route = call[c].route /\ new.row = call[c].row
          /\ new.offered = call[c].offered /\ new.earned = call[c].earned
      BY <1>1, <2>4 DEF CallRow
    <3>2. new \in CallRow
      BY <1>1, <2>4 DEF CallRow, Progress
    <3>3. QED BY <2>1, <3>1, <3>2 DEF SameCall
  <2>7. UpToDate(c)' /\ IsOwner(c)' = IsOwner(c)
    BY <1>1, <2>6, SameCallUpToDate
  <2>8. AtItsVenue(c)'
    BY <2>5, <2>6, <2>7 DEF AtItsVenue, SameCall
  <2>9. CallSound(c)'
    BY <2>6, <2>7, <2>8 DEF CallSound, ReadEarned, Judged
  <2>10. QED BY <1>1, <2>1, <2>6, <2>9, CallKeeps
<1>3. CASE ~(asked # {} /\ \A b \in asked : belongs(b))
  BY <1>1, <1>3, RefusedKeeps DEF Resolve
<1>4. QED BY <1>2, <1>3

LEMMA ReadStaffKeeps ==
  ASSUME GuardAssumption, GuardInv, NEW c \in Call, NEW m \in Member, ReadStaff(c, m)
  PROVE  GuardInv'
<1>1. /\ call[c] \in CallRow /\ call[c].at = "resolved" /\ CallSound(c) /\ call[c].who = {m}
      /\ UNCHANGED <<venue, member, token>> /\ member[m] \in MemberRow
  BY DEF ReadStaff, GuardInv, GuardTypeOK
<1>2. CASE member[m].exists
  <2> DEFINE new == [call[c] EXCEPT !.at = "read", !.row = {member[m]}]
  <2>1. call' = [call EXCEPT ![c] = new] /\ call'[c] = new
    BY <1>1, <1>2 DEF ReadStaff, GuardInv, GuardTypeOK
  <2>2. /\ new \in CallRow /\ SameCall(c, call'[c])
        /\ call'[c].at = "read" /\ call'[c].business = call[c].business
        /\ call'[c].row = {member[m]}
    <3>1. /\ new.at = "read" /\ new.row = {member[m]} /\ new.who = call[c].who
          /\ new.route = call[c].route /\ new.business = call[c].business
          /\ new.offered = call[c].offered /\ new.earned = call[c].earned
      BY <1>1 DEF CallRow
    <3>2. new \in CallRow
      BY <1>1 DEF CallRow, Progress
    <3>3. QED BY <2>1, <3>1, <3>2 DEF SameCall
  <2>3. UpToDate(c)' /\ IsOwner(c)' = IsOwner(c)
    BY <1>1, <2>2, SameCallUpToDate
  <2>4. AtItsVenue(c)'
    BY <1>1, <2>2, <2>3 DEF CallSound, AtItsVenue, SameCall
  <2>5. ReadEarned(c)'
    BY <1>1, <2>2 DEF CallSound, UpToDate, ReadEarned, SameCall
  <2>6. CallSound(c)'
    BY <2>2, <2>3, <2>4, <2>5 DEF CallSound, Judged
  <2>7. QED BY <1>1, <2>1, <2>2, <2>6, CallKeeps
<1>3. CASE ~member[m].exists
  BY <1>1, <1>3, RefusedKeeps DEF ReadStaff
<1>4. QED BY <1>2, <1>3

\* The last guard lets a call through that the rows have allowed.
LEMMA PassesKeeps ==
  ASSUME GuardInv, NEW c \in Call, Passes(c, "handled"), UNCHANGED <<venue, member, token>>,
         call[c].at \in {"resolved", "read"},
         ~IsOwner(c) /\ RouteOf[call[c].route].checksStaff =>
           \/ FALSE \in call[c].earned
           \/ TRUE \in call[c].earned /\ call[c].business \subseteq call[c].offered
  PROVE  GuardInv'
<1> DEFINE new == [call[c] EXCEPT !.at = "handled"]
<1>1. call[c] \in CallRow /\ CallSound(c)
  BY DEF GuardInv, GuardTypeOK
<1>2. call' = [call EXCEPT ![c] = new] /\ call'[c] = new
  BY <1>1 DEF Passes, GuardInv, GuardTypeOK
<1>3. /\ new \in CallRow /\ SameCall(c, call'[c])
      /\ call'[c].at = "handled" /\ call'[c].business = call[c].business
  BY <1>1, <1>2 DEF CallRow, Progress, SameCall
<1>4. UpToDate(c)' /\ IsOwner(c)' = IsOwner(c)
  BY <1>3, SameCallUpToDate
<1>5. AtItsVenue(c)'
  BY <1>1, <1>3, <1>4 DEF CallSound, AtItsVenue, SameCall
<1>6. Judged(c)'
  BY <1>3, <1>4 DEF Judged, SameCall
<1>7. CallSound(c)'
  BY <1>3, <1>4, <1>5, <1>6 DEF CallSound, ReadEarned
<1>8. QED BY <1>2, <1>3, <1>7, CallKeeps

LEMMA CheckKeeps ==
  ASSUME GuardAssumption, GuardInv, NEW c \in Call, NEW b \in Venue,
         CheckPermission(c, b) \/ CheckFeatures(c, b)
  PROVE  GuardInv'
<1>1. /\ call[c] \in CallRow /\ CallSound(c) /\ call[c].business = {b}
      /\ call[c].at \in {"resolved", "read"} /\ UNCHANGED <<venue, member, token>>
  BY DEF CheckPermission, CheckFeatures, GuardInv, GuardTypeOK
<1> DEFINE route == call[c].route
<1>2. CASE Refused(c)
  BY <1>1, <1>2, RefusedKeeps
<1>3. ASSUME Passes(c, "handled"), CheckPermission(c, b),
             \A row \in call[c].row : CanDo(row, HasFeature(b, route), route)
      PROVE  GuardInv'
  <2>1. call[c].at = "read"
    BY <1>3 DEF CheckPermission
  <2>2. PICK row \in MemberRow : call[c].row = {row} /\ Earned(row, route) \subseteq call[c].earned
    BY <1>1, <2>1 DEF CallSound, ReadEarned
  <2>3. HasFeature(b, route) \in BOOLEAN /\ CanDo(row, HasFeature(b, route), route)
    BY <1>3, <2>2 DEF HasFeature
  <2>4. HasFeature(b, route) \in call[c].earned
    BY <2>2, <2>3 DEF Earned
  <2>5. HasFeature(b, route) => b \in call[c].offered
    BY <1>1 DEF CallSound, UpToDate
  <2>6. \/ FALSE \in call[c].earned
        \/ TRUE \in call[c].earned /\ call[c].business \subseteq call[c].offered
    <3>1. CASE HasFeature(b, route) = TRUE
      BY <1>1, <2>4, <2>5, <3>1
    <3>2. CASE HasFeature(b, route) = FALSE
      BY <2>4, <3>2
    <3>3. QED BY <2>3, <3>1, <3>2
  <2>7. QED BY <1>1, <1>3, <2>6, PassesKeeps
<1>4. ASSUME Passes(c, "handled"), CheckFeatures(c, b) PROVE GuardInv'
  <2>1. ~RouteOf[call[c].route].checksStaff
    BY <1>4 DEF CheckFeatures
  <2>2. QED BY <1>1, <1>4, <2>1, PassesKeeps
<1>5. QED BY <1>2, <1>3, <1>4 DEF CheckPermission, CheckFeatures

LEMMA OwnerPassesKeeps ==
  ASSUME GuardInv, NEW c \in Call, OwnerPasses(c)
  PROVE  GuardInv'
BY PassesKeeps DEF OwnerPasses

\* The rows change, and the calls under way have earned and were offered no less.
LEMMA RowsChangeKeeps ==
  ASSUME GuardInv, venue' \in [Venue -> VenueRow], member' \in [Member -> MemberRow],
         token' \in [Member -> StaffRole], call' \in [Call -> CallRow],
         \A c \in Call :
           /\ call'[c].at = call[c].at /\ call'[c].who = call[c].who
           /\ call'[c].route = call[c].route /\ call'[c].business = call[c].business
           /\ call'[c].row = call[c].row
           /\ call[c].at = "idle" => call'[c] = call[c]
           /\ call[c].offered \subseteq call'[c].offered
           /\ call[c].earned \subseteq call'[c].earned
           /\ call[c].at # "idle" =>
                /\ \A m \in Member : call[c].who = {m} =>
                     Earned(member'[m], call[c].route) \subseteq call'[c].earned
                /\ \A b \in Venue : RouteOf[call[c].route].feature \in venue'[b].features
                     => b \in call'[c].offered
  PROVE  GuardInv'
<1>1. GuardTypeOK'
  BY DEF GuardTypeOK
<1>2. ASSUME NEW c \in Call PROVE CallSound(c)'
  <2>1. CallSound(c) /\ IsOwner(c)' = IsOwner(c)
    BY DEF GuardInv, IsOwner
  <2>2. UpToDate(c)'
    BY <2>1 DEF CallSound, UpToDate, HasFeature
  <2>3. ReadEarned(c)'
    BY <2>1 DEF CallSound, ReadEarned
  <2>4. Judged(c)'
    BY <2>1 DEF CallSound, Judged
  <2>5. call'[c].at \in {"resolved", "read", "handled"} => AtItsVenue(c)'
    BY <2>1 DEF CallSound, AtItsVenue
  <2>6. call'[c].at = "idle" => call'[c] = IdleCall
    BY <2>1 DEF CallSound
  <2>7. call'[c].at = "begun" => \A b \in call'[c].business : call'[c].business = {b}
    BY <2>1 DEF CallSound
  <2>8. QED BY <2>2, <2>3, <2>4, <2>5, <2>6, <2>7 DEF CallSound
<1>3. QED BY <1>1, <1>2 DEF GuardInv

LEMMA MembersKeep ==
  ASSUME GuardAssumption, GuardInv, NEW m \in Member,
         \/ RemoveMember(m) \/ SignsIn(m)
         \/ \E role \in Roles, o \in {"none", "on", "off"} : UpdateMember(m, role, o)
  PROVE  GuardInv'
<1>1. /\ venue \in [Venue -> VenueRow] /\ member \in [Member -> MemberRow]
      /\ token \in [Member -> StaffRole] /\ call \in [Call -> CallRow]
  BY DEF GuardInv, GuardTypeOK
<1>2. ASSUME NEW c \in Call, call[c].at # "idle"
      PROVE  /\ \A x \in Member : call[c].who = {x} =>
                  Earned(member[x], call[c].route) \subseteq call[c].earned
             /\ \A b \in Venue : RouteOf[call[c].route].feature \in venue[b].features
                  => b \in call[c].offered
  BY <1>2 DEF GuardInv, CallSound, UpToDate, HasFeature
<1>3. CASE RemoveMember(m)
  <2> DEFINE row == [member[m] EXCEPT !.exists = FALSE]
  <2>1. /\ row \in MemberRow /\ row.role = member[m].role /\ row.override = member[m].override
    BY <1>1 DEF MemberRow
  <2>2. /\ member' \in [Member -> MemberRow] /\ member'[m] = row
        /\ \A x \in Member : x # m => member'[x] = member[x]
    BY <1>1, <1>3, <2>1 DEF RemoveMember
  <2>3. \A route : Earned(row, route) = Earned(member[m], route)
    BY <2>1 DEF Earned, CanDo
  <2>4. UNCHANGED <<venue, token, call>>
    BY <1>3 DEF RemoveMember
  <2>5. \A x \in Member : \A route : Earned(member'[x], route) = Earned(member[x], route)
    BY <2>2, <2>3
  <2>6. QED BY <1>1, <1>2, <2>2, <2>4, <2>5, RowsChangeKeeps
<1>4. CASE SignsIn(m)
  <2>1. token' \in [Member -> StaffRole]
    BY <1>1, <1>4 DEF SignsIn, MemberRow
  <2>2. UNCHANGED <<venue, member, call>>
    BY <1>4 DEF SignsIn
  <2>3. QED BY <1>1, <1>2, <2>1, <2>2, RowsChangeKeeps
<1>5. ASSUME NEW role \in Roles, NEW o \in {"none", "on", "off"}, UpdateMember(m, role, o)
      PROVE  GuardInv'
  <2> DEFINE row == [member[m] EXCEPT !.role = role, !.override = o]
  <2>1. row \in MemberRow
    BY <1>1 DEF MemberRow, GuardAssumption
  <2>2. /\ member' \in [Member -> MemberRow] /\ member'[m] = row
        /\ \A x \in Member : x # m => member'[x] = member[x]
        /\ UNCHANGED <<venue, token>>
    BY <1>1, <1>5, <2>1 DEF UpdateMember
  <2>3. ASSUME NEW c \in Call
        PROVE  /\ call'[c] \in CallRow
               /\ call'[c].at = call[c].at /\ call'[c].who = call[c].who
               /\ call'[c].route = call[c].route /\ call'[c].business = call[c].business
               /\ call'[c].row = call[c].row /\ call'[c].offered = call[c].offered
               /\ call[c].earned \subseteq call'[c].earned
               /\ call[c].who = {m} => Earned(row, call[c].route) \subseteq call'[c].earned
               /\ call[c].at = "idle" => call'[c] = call[c]
    <3>1. CASE call[c].who = {m}
      <4> DEFINE new == [call[c] EXCEPT !.earned = @ \union Earned(row, call[c].route)]
      <4>1. call'[c] = new
        BY <1>5, <3>1 DEF UpdateMember
      <4>2. /\ new.at = call[c].at /\ new.who = call[c].who
            /\ new.route = call[c].route /\ new.business = call[c].business
            /\ new.row = call[c].row /\ new.offered = call[c].offered
            /\ new.earned = call[c].earned \union Earned(row, call[c].route)
        BY <1>1 DEF CallRow
      <4>3. new \in CallRow
        BY <1>1, EarnedTyped DEF CallRow
      <4>4. call[c].at # "idle"
        BY <3>1 DEF GuardInv, CallSound, IdleCall
      <4>5. QED BY <4>1, <4>2, <4>3, <4>4
    <3>2. CASE call[c].who # {m}
      BY <1>1, <1>5, <3>2 DEF UpdateMember
    <3>3. QED BY <3>1, <3>2
  <2>4. call' \in [Call -> CallRow]
    BY <1>5, <2>3 DEF UpdateMember
  <2>5. ASSUME NEW c \in Call, call[c].at # "idle", NEW x \in Member, call[c].who = {x}
        PROVE  Earned(member'[x], call[c].route) \subseteq call'[c].earned
    <3>1. CASE x = m
      BY <2>2, <2>3, <2>5, <3>1
    <3>2. CASE x # m
      BY <1>2, <2>2, <2>3, <2>5, <3>2
    <3>3. QED BY <3>1, <3>2
  <2>6. QED BY <1>1, <1>2, <2>2, <2>3, <2>4, <2>5, RowsChangeKeeps
<1>6. QED BY <1>3, <1>4, <1>5

LEMMA VenuesKeep ==
  ASSUME GuardAssumption, GuardInv, NEW v \in Venue,
         RemoveVenue(v) \/ \E f \in Switched : UpdateFeatures(v, f)
  PROVE  GuardInv'
<1>1. /\ venue \in [Venue -> VenueRow] /\ member \in [Member -> MemberRow]
      /\ token \in [Member -> StaffRole] /\ call \in [Call -> CallRow]
  BY DEF GuardInv, GuardTypeOK
<1>2. ASSUME NEW c \in Call, call[c].at # "idle"
      PROVE  /\ \A x \in Member : call[c].who = {x} =>
                  Earned(member[x], call[c].route) \subseteq call[c].earned
             /\ \A b \in Venue : RouteOf[call[c].route].feature \in venue[b].features
                  => b \in call[c].offered
  BY <1>2 DEF GuardInv, CallSound, UpToDate, HasFeature
<1>3. CASE RemoveVenue(v)
  <2> DEFINE row == [venue[v] EXCEPT !.exists = FALSE]
  <2>1. row \in VenueRow /\ row.features = venue[v].features
    BY <1>1 DEF VenueRow
  <2>2. /\ venue' \in [Venue -> VenueRow] /\ UNCHANGED <<member, token, call>>
        /\ \A b \in Venue : venue'[b].features = venue[b].features
    BY <1>1, <1>3, <2>1 DEF RemoveVenue
  <2>3. QED BY <1>1, <1>2, <2>2, RowsChangeKeeps
<1>4. ASSUME NEW f \in Switched, UpdateFeatures(v, f) PROVE GuardInv'
  <2> DEFINE row == [venue[v] EXCEPT !.features = IF f \in @ THEN @ \ {f} ELSE @ \union {f}]
  <2>1. row \in VenueRow
    BY <1>1 DEF VenueRow, GuardAssumption
  <2>2. venue' \in [Venue -> VenueRow] /\ UNCHANGED <<member, token>>
        /\ \A b \in Venue : b # v => venue'[b] = venue[b]
    BY <1>1, <1>4, <2>1 DEF UpdateFeatures
  <2>3. ASSUME NEW c \in Call
        PROVE  /\ call'[c] \in CallRow
               /\ call'[c].at = call[c].at /\ call'[c].who = call[c].who
               /\ call'[c].route = call[c].route /\ call'[c].business = call[c].business
               /\ call'[c].row = call[c].row /\ call'[c].earned = call[c].earned
               /\ call[c].offered \subseteq call'[c].offered
               /\ call[c].at = "idle" => call'[c] = call[c]
               /\ call[c].at # "idle" /\ RouteOf[call[c].route].feature \in venue'[v].features
                    => v \in call'[c].offered
    <3> DEFINE hears == call[c].at # "idle" /\ RouteOf[call[c].route].feature \in venue'[v].features
               new == [call[c] EXCEPT !.offered = @ \union {v}]
    <3>1. call'[c] = IF hears THEN new ELSE call[c]
      BY <1>4 DEF UpdateFeatures
    <3>2. /\ new.at = call[c].at /\ new.who = call[c].who
          /\ new.route = call[c].route /\ new.business = call[c].business
          /\ new.row = call[c].row /\ new.earned = call[c].earned
          /\ new.offered = call[c].offered \union {v}
      BY <1>1 DEF CallRow
    <3>3. new \in CallRow
      BY <1>1 DEF CallRow
    <3>4. QED BY <1>1, <3>1, <3>2, <3>3
  <2>4. call' \in [Call -> CallRow]
    BY <1>4, <2>3 DEF UpdateFeatures
  <2>5. ASSUME NEW c \in Call, call[c].at # "idle", NEW b \in Venue,
               RouteOf[call[c].route].feature \in venue'[b].features
        PROVE  b \in call'[c].offered
    <3>1. CASE b = v
      BY <2>3, <2>5, <3>1
    <3>2. CASE b # v
      BY <1>2, <2>2, <2>3, <2>5, <3>2
    <3>3. QED BY <3>1, <3>2
  <2>6. QED BY <1>1, <1>2, <2>2, <2>3, <2>4, <2>5, RowsChangeKeeps
<1>5. QED BY <1>3, <1>4

LEMMA GuardStepKeeps ==
  ASSUME GuardAssumption, GuardInv, [GuardNext]_guardVars
  PROVE  GuardInv'
<1>1. ASSUME NEW c \in Call, CallStep(c) PROVE GuardInv'
  <2>1. ASSUME NEW route \in Route, NEW cookie \in {{}} \union {{b} : b \in Venue},
               \/ \E p \in Account : OwnerBegins(c, p, route, cookie)
               \/ \E m \in Member : MemberBegins(c, m, route, cookie)
        PROVE  GuardInv'
    BY <2>1, BeginKeeps DEF OwnerBegins, MemberBegins
  <2>2. QED BY <1>1, <2>1, ResolveKeeps, OwnerPassesKeeps, ReadStaffKeeps, CheckKeeps DEF CallStep
<1>2. CASE UNCHANGED guardVars
  <2>1. \A b \in Venue : \A route : HasFeature(b, route)' = HasFeature(b, route)
    BY <1>2 DEF guardVars, HasFeature
  <2>2. GuardTypeOK'
    BY <1>2 DEF guardVars, GuardInv, GuardTypeOK
  <2>3. ASSUME NEW c \in Call PROVE CallSound(c)'
    <3>1. CallSound(c) /\ call' = call /\ member' = member
      BY <1>2 DEF guardVars, GuardInv
    <3>2. UpToDate(c)'
      BY <2>1, <3>1 DEF CallSound, UpToDate
    <3>3. QED BY <3>1, <3>2 DEF CallSound, AtItsVenue, ReadEarned, Judged, IsOwner
  <2>4. QED BY <2>2, <2>3 DEF GuardInv
<1>3. QED BY <1>1, <1>2, MembersKeep, VenuesKeep DEF GuardNext

LEMMA GuardInvHolds == ASSUME GuardAssumption PROVE GuardSpec => []GuardInv
<1>1. GuardInit => GuardInv
  BY GuardInitInv
<1>2. GuardInv /\ [GuardNext]_guardVars => GuardInv'
  BY GuardStepKeeps
<1>3. QED BY <1>1, <1>2, PTL DEF GuardSpec

\* Whatever a cookie says, and whatever changes between the guards of a call, a
\* handler works at the one venue of its caller.
THEOREM CallsAreAtHome ==
  ASSUME GuardAssumption
  PROVE  GuardSpec => [](GuardTypeOK /\ CallsStayAtTheirVenue)
<1>1. GuardInv => GuardTypeOK /\ CallsStayAtTheirVenue
  BY DEF GuardInv, CallSound, AtItsVenue, CallsStayAtTheirVenue
<1>2. QED BY <1>1, GuardInvHolds, PTL

\* A member is let in only on what the rows allowed while the call was under
\* way, however old the role in the token is.
THEOREM RowsDecide ==
  ASSUME GuardAssumption
  PROVE  GuardSpec => []JudgedByTheRows
<1>1. GuardInv => JudgedByTheRows
  BY DEF GuardInv, CallSound, Judged, JudgedByTheRows
<1>2. QED BY <1>1, GuardInvHolds, PTL

-----------------------------------------------------------------------------
(* The settlement of payments                                              *)

Settled(p) == payment[p].status \in {"CONFIRMED", "FAILED"}

\* Nobody owes the order its next step before the payment is settled or after
\* the step was taken or has died; until then exactly one does.
OneOwes(p) ==
  /\ ~Settled(p) => ~payment[p].followed /\ ~payment[p].lost
  /\ ~Settled(p) \/ payment[p].followed \/ payment[p].lost => Following(p) = {}
  /\ Settled(p) /\ ~payment[p].followed /\ ~payment[p].lost =>
       \E w \in Worker : Following(p) = {w}

ReconcileInv ==
  /\ ReconcileTypeOK
  /\ \A p \in Payment : OneOwes(p)

LEMMA IdleWorkTyped ==
  /\ Idle \in Work /\ Idle.at = "idle"
  /\ \A rest \in SUBSET Payment : /\ [Idle EXCEPT !.at = "loop", !.batch = rest] \in Work
                                  /\ [Idle EXCEPT !.at = "loop", !.batch = rest].at = "loop"
BY DEF Idle, Work, Verdict

LEMMA AbsentPaymentTyped == AbsentPayment \in PaymentRow /\ AbsentPayment.status = "absent"
BY DEF AbsentPayment, PaymentRow, Verdict

LEMMA ReconcileInitInv == ASSUME ReconcileAssumption, ReconcileInit PROVE ReconcileInv
<1>1. ReconcileTypeOK
  <2>1. 0 \in 0 .. MaxCrashes
    BY DEF ReconcileAssumption
  <2>2. payment \in [Payment -> PaymentRow] /\ worker \in [Worker -> Work]
    BY IdleWorkTyped, AbsentPaymentTyped DEF ReconcileInit
  <2>3. QED BY <2>1, <2>2 DEF ReconcileInit, ReconcileTypeOK
<1>2. ASSUME NEW p \in Payment PROVE OneOwes(p)
  BY DEF ReconcileInit, OneOwes, Settled, Following, AbsentPayment, Idle
<1>3. QED BY <1>1, <1>2 DEF ReconcileInv

\* One worker goes a step without owing anything before or after it, and no
\* payment is settled or moved on.
LEMMA OtherWorkKeeps ==
  ASSUME ReconcileInv, NEW w \in Worker, NEW new \in Work, worker' = [worker EXCEPT ![w] = new],
         worker[w].at # "follow", new.at # "follow", crashes' = crashes,
         payment' \in [Payment -> PaymentRow],
         \A p \in Payment :
           /\ Settled(p)' = Settled(p)
           /\ payment'[p].followed = payment[p].followed /\ payment'[p].lost = payment[p].lost
  PROVE  ReconcileInv'
<1>1. worker' \in [Worker -> Work] /\ \A x \in Worker : x # w => worker'[x] = worker[x]
      /\ worker'[w] = new
  BY DEF ReconcileInv, ReconcileTypeOK
<1>2. \A p : Following(p)' = Following(p)
  BY <1>1 DEF Following
<1>3. ReconcileTypeOK'
  BY <1>1 DEF ReconcileInv, ReconcileTypeOK
<1>4. ASSUME NEW p \in Payment PROVE OneOwes(p)'
  BY <1>2 DEF ReconcileInv, OneOwes
<1>5. QED BY <1>3, <1>4 DEF ReconcileInv

\* A request or a round begins or goes on.
LEMMA RoundsKeep ==
  ASSUME ReconcileAssumption, ReconcileInv,
         \/ \E n \in Round : RoundStarts(n)
         \/ \E p \in Payment, n \in Round : Skip(n, p) \/ Verify(n, p)
         \/ \E p \in Payment, h \in Handler :
              HandleCallback(h, p) \/ Confirm(h, p) \/ ConfirmOrderPayment(h, p)
         \/ \E p \in Payment, w \in Worker : CloseRefused(w, p)
  PROVE  ReconcileInv'
<1>1. payment \in [Payment -> PaymentRow] /\ worker \in [Worker -> Work]
  BY DEF ReconcileInv, ReconcileTypeOK
<1>2. ASSUME NEW w \in Worker, worker[w].at # "follow", NEW new \in Work, new.at # "follow",
             worker' = [worker EXCEPT ![w] = new], UNCHANGED <<payment, crashes>>
      PROVE  ReconcileInv'
  <2>1. \A p \in Payment : Settled(p)' = Settled(p)
    BY <1>2 DEF Settled
  <2>2. QED BY <1>1, <1>2, <2>1, OtherWorkKeeps
<1>3. ASSUME NEW w \in Worker, worker[w].at # "follow", NEW rest \in SUBSET Payment,
             Proceeds(w, rest), UNCHANGED <<payment, crashes>>
      PROVE  ReconcileInv'
  <2> DEFINE new == IF rest = {} THEN Idle ELSE [Idle EXCEPT !.at = "loop", !.batch = rest]
  <2>1. new \in Work /\ new.at # "follow"
    BY IdleWorkTyped
  <2>2. worker' = [worker EXCEPT ![w] = new]
    BY <1>3 DEF Proceeds
  <2>3. QED BY <1>2, <1>3, <2>1, <2>2
<1>4. ASSUME NEW w \in Worker, worker[w].at # "follow", NEW p \in Payment, NEW result \in Verdict,
             NEW rest \in SUBSET Payment, Settles(w, p, result, rest), UNCHANGED <<payment, crashes>>
      PROVE  ReconcileInv'
  <2>1. [at |-> "settle", batch |-> rest, on |-> {p}, result |-> result] \in Work
    BY DEF Work
  <2>2. QED BY <1>2, <1>4, <2>1 DEF Settles
<1>5. ASSUME NEW n \in Round, RoundStarts(n) PROVE ReconcileInv'
  <2>1. n \in Worker /\ worker[n].at # "follow"
    BY <1>5, IdleWorkTyped DEF Worker, RoundStarts, Reconcile
  <2>2. QED BY <1>3, <1>5, <2>1 DEF RoundStarts, Reconcile
<1>6. ASSUME NEW n \in Round, NEW p \in Payment, Skip(n, p) \/ Verify(n, p)
      PROVE  ReconcileInv'
  <2>1. n \in Worker /\ worker[n].at # "follow" /\ worker[n] \in Work
    BY <1>1, <1>6 DEF Worker, Skip, Verify
  <2>2. worker[n].batch \ {p} \in SUBSET Payment /\ payment[p].verdict \in Verdict
    BY <1>1, <2>1 DEF Work, PaymentRow
  <2>3. QED BY <1>3, <1>4, <1>6, <2>1, <2>2 DEF Skip, Verify
<1>7. ASSUME NEW h \in Handler, NEW p \in Payment, HandleCallback(h, p) \/ Confirm(h, p)
      PROVE  ReconcileInv'
  <2>1. h \in Worker /\ worker[h].at # "follow"
    BY <1>7, IdleWorkTyped DEF Worker, HandleCallback, Confirm
  <2>2. payment[p].verdict \in Verdict /\ "PAID" \in Verdict /\ {} \in SUBSET Payment
    BY <1>1 DEF PaymentRow, Verdict
  <2>3. QED BY <1>4, <1>7, <2>1, <2>2 DEF HandleCallback, Confirm
<1>8. ASSUME NEW h \in Handler, NEW p \in Payment, ConfirmOrderPayment(h, p)
      PROVE  ReconcileInv'
  <2>1. h \in Worker /\ worker[h].at # "follow"
    BY <1>8, IdleWorkTyped DEF Worker, ConfirmOrderPayment
  <2>2. [Idle EXCEPT !.at = "close", !.on = {p}] \in Work
        /\ [Idle EXCEPT !.at = "close", !.on = {p}].at # "follow"
    BY IdleWorkTyped DEF Idle, Work
  <2>3. QED BY <1>2, <1>8, <2>1, <2>2 DEF ConfirmOrderPayment
<1>9. ASSUME NEW w \in Worker, NEW p \in Payment, CloseRefused(w, p) PROVE ReconcileInv'
  BY <1>2, <1>9, IdleWorkTyped DEF CloseRefused
<1>10. QED BY <1>5, <1>6, <1>7, <1>8, <1>9

\* A payment is created, gets stuck or is decided by its provider.
LEMMA PaymentsKeep ==
  ASSUME ReconcileAssumption, ReconcileInv, NEW p \in Payment,
         \/ GetsStuck(p) \/ \E v \in {"PAID", "FAILED"} : ProviderDecides(p, v)
         \/ \E h \in Handler, ref, online \in BOOLEAN : Create(h, p, ref, online)
  PROVE  ReconcileInv'
<1>1. payment \in [Payment -> PaymentRow] /\ worker \in [Worker -> Work] /\ OneOwes(p)
  BY DEF ReconcileInv, ReconcileTypeOK
<1>2. ASSUME NEW new \in PaymentRow, payment' = [payment EXCEPT ![p] = new], crashes' = crashes,
             new.followed = payment[p].followed, new.lost = payment[p].lost,
             \/ new.status = payment[p].status
             \/ payment[p].status = "absent" /\ new.status = "PENDING"
      PROVE  /\ payment' \in [Payment -> PaymentRow]
             /\ \A x \in Payment :
                  /\ Settled(x)' = Settled(x)
                  /\ payment'[x].followed = payment[x].followed
                  /\ payment'[x].lost = payment[x].lost
  BY <1>1, <1>2 DEF Settled
<1>3. ASSUME payment' \in [Payment -> PaymentRow],
             UNCHANGED <<worker, crashes>>,
             \A x \in Payment :
               /\ Settled(x)' = Settled(x)
               /\ payment'[x].followed = payment[x].followed
               /\ payment'[x].lost = payment[x].lost
      PROVE  ReconcileInv'
  <2>1. \A x : Following(x)' = Following(x)
    BY <1>3 DEF Following
  <2>2. QED BY <1>1, <1>3, <2>1 DEF ReconcileInv, ReconcileTypeOK, OneOwes
<1>4. CASE GetsStuck(p)
  <2> DEFINE new == [payment[p] EXCEPT !.stuck = TRUE]
  <2>1. /\ new \in PaymentRow /\ new.status = payment[p].status
        /\ new.followed = payment[p].followed /\ new.lost = payment[p].lost
    BY <1>1 DEF PaymentRow
  <2>2. payment' = [payment EXCEPT ![p] = new] /\ UNCHANGED <<worker, crashes>>
    BY <1>4 DEF GetsStuck
  <2>3. QED BY <1>2, <1>3, <2>1, <2>2
<1>5. ASSUME NEW v \in {"PAID", "FAILED"}, ProviderDecides(p, v)
      PROVE  ReconcileInv'
  <2> DEFINE new == [payment[p] EXCEPT !.verdict = v]
  <2>1. /\ new \in PaymentRow /\ new.status = payment[p].status
        /\ new.followed = payment[p].followed /\ new.lost = payment[p].lost
    BY <1>1 DEF PaymentRow, Verdict
  <2>2. payment' = [payment EXCEPT ![p] = new] /\ UNCHANGED <<worker, crashes>>
    BY <1>5 DEF ProviderDecides
  <2>3. QED BY <1>2, <1>3, <2>1, <2>2
<1>6. ASSUME NEW h \in Handler, NEW ref \in BOOLEAN, NEW online \in BOOLEAN,
             Create(h, p, ref, online)
      PROVE  ReconcileInv'
  <2> DEFINE new == [AbsentPayment EXCEPT !.status = "PENDING", !.providerRef = ref]
  <2>1. new \in PaymentRow /\ new.status = "PENDING" /\ ~new.followed /\ ~new.lost
    BY DEF AbsentPayment, PaymentRow, Verdict
  <2>2. payment[p].status = "absent" /\ worker[h].at # "follow" /\ h \in Worker
        /\ payment' = [payment EXCEPT ![p] = new] /\ crashes' = crashes
    BY <1>6, IdleWorkTyped DEF Create, Worker
  <2>3. new.followed = payment[p].followed /\ new.lost = payment[p].lost
    BY <1>1, <2>1, <2>2 DEF OneOwes, Settled, PaymentRow
  <2>4. CASE online
    <3>1. [at |-> "settle", batch |-> {}, on |-> {p}, result |-> "PAID"] \in Work
      BY DEF Work, Verdict
    <3>2. worker' = [worker EXCEPT ![h] =
                       [at |-> "settle", batch |-> {}, on |-> {p}, result |-> "PAID"]]
      BY <1>6, <2>4 DEF Create, Settles
    <3>3. QED BY <1>2, <2>1, <2>2, <2>3, <3>1, <3>2, OtherWorkKeeps
  <2>5. CASE ~online
    <3>1. UNCHANGED worker
      BY <1>6, <2>5 DEF Create
    <3>2. QED BY <1>2, <1>3, <2>1, <2>2, <2>3, <3>1
  <2>6. QED BY <2>4, <2>5
<1>7. QED BY <1>4, <1>5, <1>6

\* Whoever settles a pending payment owes the next step, and finds it settled
\* by nobody else.
LEMMA SettleKeeps ==
  ASSUME ReconcileInv, NEW w \in Worker, NEW p \in Payment, NEW result \in Verdict,
         NEW status \in {"CONFIRMED", "FAILED"}, Settle(w, p, result, status)
  PROVE  ReconcileInv'
<1>1. /\ payment \in [Payment -> PaymentRow] /\ worker \in [Worker -> Work] /\ OneOwes(p)
      /\ worker[w].at = "settle" /\ worker[w].on = {p} /\ crashes' = crashes
  BY DEF Settle, ReconcileInv, ReconcileTypeOK
<1>2. CASE payment[p].status = "PENDING"
  <2> DEFINE row == [payment[p] EXCEPT !.status = status]
             new == [worker[w] EXCEPT !.at = "follow"]
  <2>1. /\ row \in PaymentRow /\ row.status = status /\ row.followed = payment[p].followed
        /\ row.lost = payment[p].lost
    BY <1>1 DEF PaymentRow
  <2>2. new \in Work /\ new.at = "follow" /\ new.on = {p}
    BY <1>1 DEF Work
  <2>3. /\ payment' \in [Payment -> PaymentRow] /\ payment'[p] = row
        /\ \A x \in Payment : x # p => payment'[x] = payment[x]
        /\ worker' \in [Worker -> Work] /\ worker'[w] = new
        /\ \A x \in Worker : x # w => worker'[x] = worker[x]
    BY <1>1, <1>2, <2>1, <2>2 DEF Settle
  <2>4. ReconcileTypeOK'
    BY <1>1, <2>3 DEF ReconcileInv, ReconcileTypeOK
  <2>5. ~Settled(p) /\ ~payment[p].followed /\ ~payment[p].lost /\ Following(p) = {}
    BY <1>1, <1>2 DEF OneOwes, Settled
  <2>6. Following(p)' = {w}
    BY <2>2, <2>3, <2>5 DEF Following
  <2>7. OneOwes(p)'
    BY <2>1, <2>3, <2>5, <2>6 DEF OneOwes, Settled
  <2>8. ASSUME NEW x \in Payment, x # p PROVE OneOwes(x)'
    <3>1. Following(x)' = Following(x)
      <4>1. {p} # {x}
        BY <2>8
      <4>2. QED BY <1>1, <2>2, <2>3, <4>1 DEF Following
    <3>2. QED BY <2>3, <2>8, <3>1 DEF ReconcileInv, OneOwes, Settled
  <2>9. QED BY <2>4, <2>7, <2>8 DEF ReconcileInv
<1>3. CASE payment[p].status # "PENDING"
  <2> DEFINE rest == worker[w].batch
             new == IF rest = {} THEN Idle ELSE [Idle EXCEPT !.at = "loop", !.batch = rest]
  <2>1. new \in Work /\ new.at # "follow"
    BY <1>1, IdleWorkTyped DEF Work
  <2>2. worker' = [worker EXCEPT ![w] = new] /\ payment' = payment
    BY <1>3 DEF Settle, Proceeds
  <2>3. \A x \in Payment : Settled(x)' = Settled(x)
    BY <2>2 DEF Settled
  <2>4. QED BY <1>1, <2>1, <2>2, <2>3, OtherWorkKeeps
<1>4. QED BY <1>2, <1>3

\* A close that confirms a pending payment leaves nothing owed; one that finds it
\* settled leaves owed what was.
LEMMA CloseKeeps ==
  ASSUME ReconcileInv, NEW w \in Worker, NEW p \in Payment, CloseWithPayment(w, p)
  PROVE  ReconcileInv'
<1> DEFINE row == [payment[p] EXCEPT !.status = "CONFIRMED",
                                     !.followed = @ \/ payment[p].status \notin {"CONFIRMED", "FAILED"}]
<1>1. /\ payment \in [Payment -> PaymentRow] /\ worker \in [Worker -> Work] /\ OneOwes(p)
      /\ worker[w].at = "close"
      /\ worker' = [worker EXCEPT ![w] = Idle] /\ crashes' = crashes
  BY DEF CloseWithPayment, ReconcileInv, ReconcileTypeOK
<1>2. /\ row \in PaymentRow /\ row.status = "CONFIRMED" /\ row.lost = payment[p].lost
      /\ row.followed = (payment[p].followed \/ ~Settled(p))
  BY <1>1 DEF PaymentRow, Settled
<1>3. /\ payment' \in [Payment -> PaymentRow] /\ payment'[p] = row
      /\ \A x \in Payment : x # p => payment'[x] = payment[x]
  BY <1>1, <1>2 DEF CloseWithPayment
<1>4. \A x : Following(x)' = Following(x)
  BY <1>1, IdleWorkTyped DEF Following
<1>5. ReconcileTypeOK'
  BY <1>1, <1>3, IdleWorkTyped DEF ReconcileInv, ReconcileTypeOK
<1>6. OneOwes(p)'
  BY <1>1, <1>2, <1>3, <1>4 DEF OneOwes, Settled
<1>7. ASSUME NEW x \in Payment, x # p PROVE OneOwes(x)'
  BY <1>3, <1>4, <1>7 DEF ReconcileInv, OneOwes, Settled
<1>8. QED BY <1>5, <1>6, <1>7 DEF ReconcileInv

\* A worker lets go of what it followed, and the payment keeps its status.
LEMMA LetsGoKeeps ==
  ASSUME ReconcileInv, payment' \in [Payment -> PaymentRow], worker' \in [Worker -> Work],
         crashes' \in 0 .. MaxCrashes, NEW fallen \in SUBSET Worker,
         \A w \in fallen : worker'[w].at # "follow",
         \A w \in Worker \ fallen : worker'[w] = worker[w],
         \A p \in Payment :
           /\ payment'[p].status = payment[p].status
           /\ fallen \intersect Following(p) = {} => payment'[p] = payment[p]
           /\ fallen \intersect Following(p) # {} => payment'[p].followed \/ payment'[p].lost
  PROVE  ReconcileInv'
<1>1. ReconcileTypeOK'
  BY DEF ReconcileTypeOK
<1>2. ASSUME NEW p \in Payment PROVE OneOwes(p)'
  <2>1. Following(p)' = Following(p) \ fallen /\ OneOwes(p) /\ Settled(p)' = Settled(p)
    BY DEF Following, ReconcileInv, Settled
  <2>2. CASE fallen \intersect Following(p) = {}
    <3>1. Following(p)' = Following(p) /\ payment'[p] = payment[p]
      BY <2>1, <2>2
    <3>2. QED BY <2>1, <3>1 DEF OneOwes
  <2>3. CASE fallen \intersect Following(p) # {}
    <3>1. Settled(p) /\ Following(p)' = {}
      BY <2>1, <2>3 DEF OneOwes
    <3>2. QED BY <2>1, <2>3, <3>1 DEF OneOwes
  <2>4. QED BY <2>2, <2>3
<1>3. QED BY <1>1, <1>2 DEF ReconcileInv

LEMMA FollowKeeps ==
  ASSUME ReconcileInv, NEW w \in Worker, NEW p \in Payment, Follow(w, p)
  PROVE  ReconcileInv'
<1> DEFINE rest == worker[w].batch
           new == IF rest = {} THEN Idle ELSE [Idle EXCEPT !.at = "loop", !.batch = rest]
           row == [payment[p] EXCEPT !.followed = TRUE]
<1>1. /\ payment \in [Payment -> PaymentRow] /\ worker \in [Worker -> Work]
      /\ worker[w].at = "follow" /\ worker[w].on = {p} /\ crashes' = crashes
      /\ crashes \in 0 .. MaxCrashes
  BY DEF Follow, ReconcileInv, ReconcileTypeOK
<1>2. new \in Work /\ new.at # "follow"
  BY <1>1, IdleWorkTyped DEF Work
<1>3. row \in PaymentRow /\ row.status = payment[p].status /\ row.followed
  BY <1>1 DEF PaymentRow
<1>4. payment' = [payment EXCEPT ![p] = row] /\ worker' = [worker EXCEPT ![w] = new]
  BY DEF Follow, Proceeds
<1>5. \A x \in Payment : {w} \intersect Following(x) # {} => x = p
  <2>1. \A x \in Payment : {x} = {p} => x = p
    OBVIOUS
  <2>2. QED BY <1>1, <2>1 DEF Following
<1>6. {w} \intersect Following(p) # {}
  BY <1>1 DEF Following
<1>7. ASSUME NEW x \in Payment
      PROVE  /\ payment'[x].status = payment[x].status
             /\ {w} \intersect Following(x) = {} => payment'[x] = payment[x]
             /\ {w} \intersect Following(x) # {} => payment'[x].followed \/ payment'[x].lost
  BY <1>1, <1>3, <1>4, <1>5, <1>6
<1>8. /\ payment' \in [Payment -> PaymentRow] /\ worker' \in [Worker -> Work]
      /\ worker'[w].at # "follow" /\ \A x \in Worker \ {w} : worker'[x] = worker[x]
  BY <1>1, <1>2, <1>3, <1>4
<1>9. {w} \in SUBSET Worker /\ \A x \in {w} : worker'[x].at # "follow"
  BY <1>8
<1>10. QED BY <1>1, <1>7, <1>8, <1>9, LetsGoKeeps

\* What dies leaves its payments marked.
LEMMA LosingMarks ==
  ASSUME ReconcileInv, NEW fallen \in SUBSET Worker, Losing(fallen)
  PROVE  /\ payment' \in [Payment -> PaymentRow]
         /\ \A p \in Payment :
              /\ payment'[p].status = payment[p].status
              /\ fallen \intersect Following(p) = {} => payment'[p] = payment[p]
              /\ fallen \intersect Following(p) # {} => payment'[p].followed \/ payment'[p].lost
<1>1. \A p \in Payment :
        /\ payment[p] \in PaymentRow /\ [payment[p] EXCEPT !.lost = TRUE] \in PaymentRow
        /\ [payment[p] EXCEPT !.lost = TRUE].lost
        /\ [payment[p] EXCEPT !.lost = TRUE].status = payment[p].status
  BY DEF ReconcileInv, ReconcileTypeOK, PaymentRow
<1>2. \A p \in Payment :
        (\E w \in fallen : worker[w].at = "follow" /\ worker[w].on = {p})
          <=> fallen \intersect Following(p) # {}
  BY DEF Following
<1>3. QED BY <1>1, <1>2 DEF Losing

LEMMA CrashesKeep ==
  ASSUME ReconcileAssumption, ReconcileInv,
         CrashAndRestart \/ \E w \in Worker : Fails(w)
  PROVE  ReconcileInv'
<1>1. /\ payment \in [Payment -> PaymentRow] /\ worker \in [Worker -> Work]
      /\ crashes \in 0 .. MaxCrashes
  BY DEF ReconcileInv, ReconcileTypeOK
<1>2. crashes' \in 0 .. MaxCrashes
  <2>1. crashes < MaxCrashes /\ crashes' = crashes + 1
    BY DEF CrashAndRestart, Fails
  <2>2. MaxCrashes \in Nat
    BY DEF ReconcileAssumption
  <2>3. QED BY <1>1, <2>1, <2>2
<1>3. CASE CrashAndRestart
  <2>1. worker' \in [Worker -> Work] /\ \A w \in Worker : worker'[w].at # "follow"
    BY <1>3, IdleWorkTyped DEF CrashAndRestart
  <2>2. Worker \in SUBSET Worker /\ Losing(Worker) /\ \A w \in Worker \ Worker : worker'[w] = worker[w]
    BY <1>3 DEF CrashAndRestart
  <2>3. QED BY <1>2, <2>1, <2>2, LosingMarks, LetsGoKeeps
<1>4. ASSUME NEW w \in Worker, Fails(w) PROVE ReconcileInv'
  <2> DEFINE rest == worker[w].batch
             new == IF rest = {} THEN Idle ELSE [Idle EXCEPT !.at = "loop", !.batch = rest]
  <2>1. new \in Work /\ new.at # "follow"
    BY <1>1, IdleWorkTyped DEF Work
  <2>2. worker' = [worker EXCEPT ![w] = new] /\ Losing({w})
    BY <1>4 DEF Fails, Proceeds
  <2>3. /\ worker' \in [Worker -> Work] /\ \A x \in {w} : worker'[x].at # "follow"
        /\ \A x \in Worker \ {w} : worker'[x] = worker[x]
    BY <1>1, <2>1, <2>2
  <2>4. {w} \in SUBSET Worker
    OBVIOUS
  <2>5. QED BY <1>2, <2>2, <2>3, <2>4, LosingMarks, LetsGoKeeps
<1>5. QED BY <1>3, <1>4

LEMMA ReconcileStepKeeps ==
  ASSUME ReconcileAssumption, ReconcileInv, [ReconcileNext]_reconcileVars
  PROVE  ReconcileInv'
<1>1. CASE ReconcileNext
  <2>1. ASSUME NEW w \in Worker, WorkerStep(w) PROVE ReconcileInv'
    <3>1. "PAID" \in Verdict /\ "FAILED" \in Verdict
      BY DEF Verdict
    <3>2. ASSUME NEW p \in Payment, ConfirmPayment(w, p) \/ FailPayment(w, p) \/ Follow(w, p)
          PROVE  ReconcileInv'
      BY <3>1, <3>2, SettleKeeps, FollowKeeps DEF ConfirmPayment, FailPayment
    <3>3. QED BY <2>1, <3>2, CloseKeeps, RoundsKeep DEF WorkerStep
  <2>2. QED BY <1>1, <2>1, RoundsKeep, PaymentsKeep, CrashesKeep DEF ReconcileNext
<1>2. CASE UNCHANGED reconcileVars
  <2>1. \A p : Following(p)' = Following(p) /\ Settled(p)' = Settled(p)
    BY <1>2 DEF reconcileVars, Following, Settled
  <2>2. QED BY <1>2, <2>1 DEF reconcileVars, ReconcileInv, ReconcileTypeOK, OneOwes
<1>3. QED BY <1>1, <1>2

\* Rounds, callbacks, staff and crashes between them leave exactly one step owed
\* for a settled payment, until it is taken or dies with its worker.
THEOREM OneStepIsOwed ==
  ASSUME ReconcileAssumption
  PROVE  ReconcileSpec => [](ReconcileTypeOK /\ OneFollowsThePayment)
<1>1. ReconcileInit => ReconcileInv
  BY ReconcileInitInv
<1>2. ReconcileInv /\ [ReconcileNext]_reconcileVars => ReconcileInv'
  BY ReconcileStepKeeps
<1>3. ReconcileInv => ReconcileTypeOK /\ OneFollowsThePayment
  <2>1. ASSUME ReconcileInv, NEW p \in Payment
        PROVE  Cardinality(Following(p)) =
                 IF /\ payment[p].status \in {"CONFIRMED", "FAILED"}
                    /\ ~payment[p].followed /\ ~payment[p].lost
                 THEN 1 ELSE 0
    <3>1. OneOwes(p)
      BY <2>1 DEF ReconcileInv
    <3>2. CASE Settled(p) /\ ~payment[p].followed /\ ~payment[p].lost
      <4>1. PICK w \in Worker : Following(p) = {w}
        BY <3>1, <3>2 DEF OneOwes
      <4>2. Cardinality(Following(p)) = 1
        BY <4>1, FS_Singleton
      <4>3. QED BY <3>2, <4>2 DEF Settled
    <3>3. CASE ~(Settled(p) /\ ~payment[p].followed /\ ~payment[p].lost)
      <4>1. Following(p) = {}
        BY <3>1, <3>3 DEF OneOwes
      <4>2. Cardinality(Following(p)) = 0
        BY <4>1, FS_EmptySet
      <4>3. QED BY <3>3, <4>2 DEF Settled
    <3>4. QED BY <3>2, <3>3
  <2>2. QED BY <2>1 DEF ReconcileInv, OneFollowsThePayment
<1>4. QED BY <1>1, <1>2, <1>3, PTL DEF ReconcileSpec

-----------------------------------------------------------------------------
(* The parts side by side                                                  *)

\* Whichever desk works, a step of the whole is for each part a step of its
\* own or none.
LEMMA DeskStep ==
  ASSUME [Next]_vars
  PROVE  /\ [OwnerNext]_ownerVars /\ [StaffNext]_staffVars /\ [GuardNext]_guardVars
         /\ [GroupNext]_groupVars /\ [MenuNext]_menuVars /\ [ImagesNext]_imageVars
         /\ [ReconcileNext]_reconcileVars /\ [FeedNext]_feedVars /\ [PairingNext]_pairingVars
<1> DEFINE Accounts == UNCHANGED ownerVars /\ UNCHANGED staffVars /\ UNCHANGED guardVars
           Catalog == UNCHANGED groupVars /\ UNCHANGED menuVars /\ UNCHANGED imageVars
           Live == UNCHANGED reconcileVars /\ UNCHANGED feedVars /\ UNCHANGED pairingVars
<1>1. /\ UNCHANGED accountVars => Accounts
      /\ UNCHANGED catalogVars => Catalog
      /\ UNCHANGED liveVars => Live
  BY DEF accountVars, catalogVars, liveVars
<1>2. StaffAtDesk => StaffNext
  BY DEF StaffAtDesk, StaffNext
<1>3. CASE UNCHANGED vars
  BY <1>1, <1>3 DEF vars
<1>4. ASSUME OwnerNext, UNCHANGED <<staffVars, guardVars, catalogVars, liveVars>>
      PROVE  /\ OwnerNext /\ UNCHANGED staffVars /\ UNCHANGED guardVars
             /\ Catalog /\ Live
  BY <1>1, <1>4
<1>5. ASSUME StaffAtDesk, UNCHANGED <<ownerVars, guardVars, catalogVars, liveVars>>
      PROVE  /\ StaffNext /\ UNCHANGED ownerVars /\ UNCHANGED guardVars
             /\ Catalog /\ Live
  BY <1>1, <1>2, <1>5
<1>6. ASSUME GuardNext, UNCHANGED <<ownerVars, staffVars, catalogVars, liveVars>>
      PROVE  /\ GuardNext /\ UNCHANGED ownerVars /\ UNCHANGED staffVars
             /\ Catalog /\ Live
  BY <1>1, <1>6
<1>7. ASSUME GroupNext, UNCHANGED <<accountVars, menuVars, imageVars, liveVars>>
      PROVE  /\ GroupNext /\ UNCHANGED menuVars /\ UNCHANGED imageVars
             /\ Accounts /\ Live
  BY <1>1, <1>7
<1>8. ASSUME MenuNext, UNCHANGED <<accountVars, groupVars, imageVars, liveVars>>
      PROVE  /\ MenuNext /\ UNCHANGED groupVars /\ UNCHANGED imageVars
             /\ Accounts /\ Live
  BY <1>1, <1>8
<1>9. ASSUME ImagesNext, UNCHANGED <<accountVars, groupVars, menuVars, liveVars>>
      PROVE  /\ ImagesNext /\ UNCHANGED groupVars /\ UNCHANGED menuVars
             /\ Accounts /\ Live
  BY <1>1, <1>9
<1>10. ASSUME ReconcileNext, UNCHANGED <<accountVars, catalogVars, feedVars, pairingVars>>
       PROVE  /\ ReconcileNext /\ UNCHANGED feedVars /\ UNCHANGED pairingVars
              /\ Accounts /\ Catalog
  BY <1>1, <1>10
<1>11. ASSUME FeedNext, UNCHANGED <<accountVars, catalogVars, reconcileVars, pairingVars>>
       PROVE  /\ FeedNext /\ UNCHANGED reconcileVars /\ UNCHANGED pairingVars
              /\ Accounts /\ Catalog
  BY <1>1, <1>11
<1>12. ASSUME PairingNext, UNCHANGED <<accountVars, catalogVars, reconcileVars, feedVars>>
       PROVE  /\ PairingNext /\ UNCHANGED reconcileVars /\ UNCHANGED feedVars
              /\ Accounts /\ Catalog
  BY <1>1, <1>12
<1>13. QED BY <1>3, <1>4, <1>5, <1>6, <1>7, <1>8, <1>9, <1>10, <1>11, <1>12 DEF Next

\* The parts share no state and disturb none of each other's steps: the whole
\* implements the specification of every part, its fairness included, so what
\* is proved of a part holds in the whole.
THEOREM PartsAreImplemented ==
  Spec => /\ OwnerSpec /\ StaffSpec /\ GuardSpec
          /\ GroupSpec /\ MenuSpec /\ ImagesSpec
          /\ ReconcileSpec /\ FeedSpec /\ PairingSpec
<1>1. Init => /\ OwnerInit /\ StaffInit /\ GuardInit
              /\ GroupInit /\ MenuInit /\ ImagesInit
              /\ ReconcileInit /\ FeedInit /\ PairingInit
  BY DEF Init
<1>2. [Next]_vars =>
        /\ [OwnerNext]_ownerVars /\ [StaffNext]_staffVars /\ [GuardNext]_guardVars
        /\ [GroupNext]_groupVars /\ [MenuNext]_menuVars /\ [ImagesNext]_imageVars
        /\ [ReconcileNext]_reconcileVars /\ [FeedNext]_feedVars /\ [PairingNext]_pairingVars
  BY DeskStep
<1>3. QED BY <1>1, <1>2, PTL
          DEF Spec, OwnerSpec, StaffSpec, GuardSpec, GroupSpec, MenuSpec, ImagesSpec,
              ReconcileSpec, FeedSpec, PairingSpec

\* Every part keeps its types, whatever its constants and in whatever order its
\* requests come.
THEOREM BackOfficeTypeCorrect ==
  ASSUME OwnerAssumption, StaffAssumption, GuardAssumption, GroupAssumption, MenuAssumption,
         ReconcileAssumption, FeedAssumption, PairingAssumption
  PROVE  Spec => []TypeOK
<1>1. OwnerSpec => []OwnerTypeOK
  BY OwnerTypeCorrect
<1>2. StaffSpec => []StaffTypeOK
  BY StaffTypeCorrect
<1>3. GuardSpec => [](GuardTypeOK /\ CallsStayAtTheirVenue)
  BY CallsAreAtHome
<1>4. GroupSpec => []GroupTypeOK
  BY GroupTypeCorrect
<1>5. MenuSpec => []MenuTypeOK
  BY MenuTypeCorrect
<1>6. ImagesSpec => [](ImagesTypeOK /\ RowHasObject)
  BY NoDanglingRow
<1>7. ReconcileSpec => [](ReconcileTypeOK /\ OneFollowsThePayment)
  BY OneStepIsOwed
<1>8. FeedSpec => [](FeedTypeOK /\ FollowersAreTimed)
  BY EveryFollowerIsTimed
<1>9. PairingSpec => []PairingTypeOK
  BY PairingTypeCorrect
<1>10. QED BY <1>1, <1>2, <1>3, <1>4, <1>5, <1>6, <1>7, <1>8, <1>9, PartsAreImplemented, PTL
           DEF TypeOK
=============================================================================

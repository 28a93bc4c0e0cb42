---------------------------- MODULE DisplayPairing ----------------------------
(***************************************************************************)
(* How a TV is let into the room display:<businessId>: its address holds a *)
(* token that create and regenerate hand out once (display.service.ts),    *)
(* the page reads the public list with it and then joins the room (join-   *)
(* display of kitchen.gateway.ts).  What the room is told is in            *)
(* OrderBroadcast.                                                         *)
(*                                                                         *)
(* A token is known by its number; the row keeps a hash, which is external *)
(* and taken to be one to one.  regenerate and revoke find the row and     *)
(* save the copy, so they overlap.  Access to the business is checked      *)
(* first and left out.                                                     *)
(***************************************************************************)
EXTENDS Naturals

CONSTANTS
    Display,            \* rows of displays there may be
    Screen,             \* TVs
    DisplayRequest,     \* requests that may be under way at once
    MaxTokens           \* bound on the tokens handed out

ASSUME PairingAssumption == Display # {} /\ MaxTokens \in Nat

VARIABLES
    display,    \* the rows
    tokens,     \* tokens handed out so far
    screen,     \* the TVs
    displayJob  \* the requests under way

pairingVars == <<display, tokens, screen, displayJob>>

\* 0 is the token of a row that is not there, and of a screen without one.
Token == 0 .. MaxTokens

DisplayRow == [tokenHash : Token, revoked : BOOLEAN]

\* loaded is whether the page has its list, room the displays it follows: at
\* most the one whose token it has.
TV == [token : Token, loaded : BOOLEAN, inRoom : BOOLEAN]
BlankTV == [token |-> 0, loaded |-> FALSE, inRoom |-> FALSE]

DisplayJob == [op : {"idle", "regenerate", "revoke"}, on : Display, row : DisplayRow]
IdleDisplayJob(d) == [op |-> "idle", on |-> d, row |-> [tokenHash |-> 0, revoked |-> FALSE]]

PairingInit ==
    /\ display = [d \in Display |-> [tokenHash |-> 0, revoked |-> FALSE]]
    /\ tokens = 0
    /\ screen = [v \in Screen |-> BlankTV]
    /\ displayJob = [r \in DisplayRequest |-> IdleDisplayJob(CHOOSE d \in Display : TRUE)]

\* Whether the look-up by hash finds a display that is not revoked.
Accepted(t) == \E d \in Display : display[d] = [tokenHash |-> t, revoked |-> FALSE]

-----------------------------------------------------------------------------
CreateDisplay(d) ==
    /\ display[d].tokenHash = 0
    /\ tokens < MaxTokens /\ tokens' = tokens + 1
    /\ display' = [display EXCEPT ![d].tokenHash = tokens']
    /\ UNCHANGED <<screen, displayJob>>

FindOwnedDisplay(r, op, d) ==
    /\ displayJob[r].op = "idle"
    /\ display[d].tokenHash # 0
    /\ displayJob' = [displayJob EXCEPT ![r] = [op |-> op, on |-> d, row |-> display[d]]]
    /\ UNCHANGED <<display, tokens, screen>>

\* Slip: the display counts again with the token it had.
RegenerateSameToken(r) ==
    /\ displayJob[r].op = "regenerate"
    /\ display' = [display EXCEPT ![displayJob[r].on] =
                     [displayJob[r].row EXCEPT !.revoked = FALSE]]
    /\ displayJob' = [displayJob EXCEPT ![r] = IdleDisplayJob(@.on)]
    /\ UNCHANGED <<tokens, screen>>

\* A fresh token, and the display counts again, revoked or not.
Regenerate(r) ==
    /\ displayJob[r].op = "regenerate"
    /\ tokens < MaxTokens /\ tokens' = tokens + 1
    /\ display' = [display EXCEPT ![displayJob[r].on] =
                     [tokenHash |-> tokens', revoked |-> FALSE]]
    /\ displayJob' = [displayJob EXCEPT ![r] = IdleDisplayJob(@.on)]
    /\ UNCHANGED screen

Revoke(r) ==
    /\ displayJob[r].op = "revoke"
    /\ display' = [display EXCEPT ![displayJob[r].on] =
                     [displayJob[r].row EXCEPT !.revoked = TRUE]]
    /\ displayJob' = [displayJob EXCEPT ![r] = IdleDisplayJob(@.on)]
    /\ UNCHANGED <<tokens, screen>>

-----------------------------------------------------------------------------
\* Somebody opens an address on the TV, or the page is loaded again.
GetPublicSnapshot(v, t) ==
    /\ t \in 1 .. tokens
    /\ screen' = [screen EXCEPT ![v] = [token |-> t, loaded |-> Accepted(t), inRoom |-> FALSE]]
    /\ UNCHANGED <<display, tokens, displayJob>>

\* A token that is not accepted disconnects the socket, whatever room it is in.
HandleJoinDisplay(v) ==
    /\ screen[v].token # 0
    /\ screen' = [screen EXCEPT ![v].inRoom = Accepted(screen[v].token)]
    /\ UNCHANGED <<display, tokens, displayJob>>

\* leave-display, a lost connection, a restart of the server.
HandleLeaveDisplay(v) ==
    /\ screen[v].inRoom
    /\ screen' = [screen EXCEPT ![v].inRoom = FALSE]
    /\ UNCHANGED <<display, tokens, displayJob>>

DisplayStep ==
    \/ \E d \in Display :
         \/ CreateDisplay(d)
         \/ \E r \in DisplayRequest, op \in {"regenerate", "revoke"} : FindOwnedDisplay(r, op, d)
    \/ \E r \in DisplayRequest : Regenerate(r) \/ Revoke(r)

ScreenStep(v) ==
    \/ \E t \in Token : GetPublicSnapshot(v, t)
    \/ HandleJoinDisplay(v) \/ HandleLeaveDisplay(v)

PairingNext == DisplayStep \/ \E v \in Screen : ScreenStep(v)

PairingSpec == PairingInit /\ [][PairingNext]_pairingVars

-----------------------------------------------------------------------------
\* Types of the rows, the screens and the requests under way.
PairingTypeOK ==
    /\ display \in [Display -> DisplayRow]
    /\ tokens \in Token
    /\ screen \in [Screen -> TV]
    /\ displayJob \in [DisplayRequest -> DisplayJob]

\* A token that was replaced or revoked never opens the room again, although
\* regenerate and revoke race on whole copies (display.service.ts, regenerate
\* 77-87, revoke 89-95).
DeadTokensStayDead ==
    [][\A t \in 1 .. tokens : ~Accepted(t) => ~Accepted(t)']_pairingVars
=============================================================================

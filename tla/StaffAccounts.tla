---------------------------- MODULE StaffAccounts ----------------------------
(***************************************************************************)
(* The accounts of a business' staff: creation with a PIN, a temporary     *)
(* password or an invite, the three logins that share one PIN lockout, the *)
(* change of a temporary password, unlocking and removal                   *)
(* (staff.service.ts and the staff half of auth.service.ts).               *)
(*                                                                         *)
(* A request reads a row, awaits bcrypt, and then either updates single    *)
(* columns or saves the copy it read.  TypeORM's save writes every column  *)
(* in which the copy differs from the row, deletedAt too, so the row       *)
(* becomes the copy.  Employee ids, roles and names are left out, bcrypt   *)
(* is external, and a login with a wrong password changes nothing.         *)
(*                                                                         *)
(* Nothing keeps two requests on one row apart: the history variable       *)
(* staffRaced says which rows a stale copy may have overwritten.           *)
(***************************************************************************)
EXTENDS Naturals, FiniteSets

CONSTANTS
    Staff,          \* the staff there may be; one with an address is the address
    PinStaff,       \* those of them that sign in with a PIN
    StaffRequest,   \* requests that may be under way at once
    PinLockoutThreshold

StaffOps == {"verifyPin", "loginWithPassword", "changePassword", "acceptInvite",
             "unlockStaff"}

\* Those that save the whole copy they read.
Savers == {"changePassword", "acceptInvite", "unlockStaff"}

ASSUME StaffAssumption ==
    /\ Staff # {} /\ PinStaff \subseteq Staff
    /\ PinLockoutThreshold \in Nat \ {0}

VARIABLES
    staff,      \* the rows of staff
    sessions,   \* what secret opened a session of which length
    guesses,    \* wrong PINs since the count was reset or a lock lapsed
    staffJob,   \* the requests under way
    staffRaced  \* history: the rows on which two savers, or one and a removal, overlapped

staffVars == <<staff, sessions, guesses, staffJob, staffRaced>>

\* lock is pinLockedUntil, seen from now; a count at the threshold says no
\* more than that it is reached.
StaffRow == [state : {"absent", "live", "deleted"},
             authType : {"PIN", "PASSWORD", "INVITE_PENDING"},
             password : {"none", "temporary", "own"}, mustChange : BOOLEAN,
             invite : {"none", "open", "expired"}, isActive : BOOLEAN,
             failed : 0 .. PinLockoutThreshold,
             lock : {"none", "running", "over"}]

NewRow == [state |-> "live", authType |-> "PIN", password |-> "none",
           mustChange |-> FALSE, invite |-> "none", isActive |-> TRUE,
           failed |-> 0, lock |-> "none"]
AbsentStaff == [NewRow EXCEPT !.state = "absent"]

StaffJob == [op : StaffOps \union {"idle"}, who : Staff, row : StaffRow]
IdleStaffJob(s) == [op |-> "idle", who |-> s, row |-> AbsentStaff]

Length(row) == IF row.mustChange THEN "1h" ELSE "24h"
Session == {"pin", "temporary", "own"} \X {"1h", "24h"}

StaffInit ==
    /\ staff = [s \in Staff |-> AbsentStaff]
    /\ sessions = [s \in Staff |-> {}]
    /\ guesses = [s \in Staff |-> 0]
    /\ staffJob = [r \in StaffRequest |-> IdleStaffJob(CHOOSE s \in Staff : TRUE)]
    /\ staffRaced = {}

Working(r, op) == staffJob[r].op = op
WillSave(s) == \E r \in StaffRequest : staffJob[r].who = s /\ staffJob[r].op \in Savers

\* Request r has read the row of s, a live one, as every find asks, for op.
StaffReads(r, op, s) ==
    /\ Working(r, "idle")
    /\ staff[s].state = "live"
    /\ staffJob' = [staffJob EXCEPT ![r] = [op |-> op, who |-> s, row |-> staff[s]]]
    /\ staffRaced' = IF op \in Savers /\ WillSave(s) THEN staffRaced \union {s} ELSE staffRaced
    /\ UNCHANGED <<staff, sessions, guesses>>

StaffEnds(r) ==
    /\ staffJob' = [staffJob EXCEPT ![r] = IdleStaffJob(staffJob[r].who)]
    /\ UNCHANGED staffRaced

\* Repository.save of the copy that request r holds.
StaffSaves(r, copy) == staff' = [staff EXCEPT ![staffJob[r].who] = copy]

-----------------------------------------------------------------------------
(* Creation, by the owner.  A row keeps its address when it is removed.    *)

StaffInsert(s, row) ==
    /\ staff[s].state = "absent"
    /\ staff' = [staff EXCEPT ![s] = row]
    /\ UNCHANGED <<sessions, guesses, staffJob, staffRaced>>

CreateWithPin(s) == s \in PinStaff /\ StaffInsert(s, NewRow)

\* Slip: the temporary password need not be changed.
CreateWithLastingPassword(s) ==
    /\ s \notin PinStaff
    /\ StaffInsert(s, [NewRow EXCEPT !.authType = "PASSWORD", !.password = "temporary"])

\* Of two requests that found an address free the unique index refuses one.
CreateWithPassword(s) ==
    /\ s \notin PinStaff
    /\ StaffInsert(s, [NewRow EXCEPT !.authType = "PASSWORD",
                                     !.password = "temporary", !.mustChange = TRUE])

CreateWithInvite(s) ==
    /\ s \notin PinStaff
    /\ StaffInsert(s, [NewRow EXCEPT !.authType = "INVITE_PENDING", !.invite = "open"])

AcceptInvite(r, s) ==
    /\ staff[s].authType = "INVITE_PENDING" /\ staff[s].invite = "open"
    /\ StaffReads(r, "acceptInvite", s)

SaveAccepted(r) ==
    /\ Working(r, "acceptInvite")
    /\ StaffSaves(r, [staffJob[r].row EXCEPT
                        !.password = "own", !.authType = "PASSWORD",
                        !.mustChange = FALSE, !.invite = "none"])
    /\ StaffEnds(r)
    /\ UNCHANGED <<sessions, guesses>>

InviteExpires(s) ==
    /\ staff[s].invite = "open"
    /\ staff' = [staff EXCEPT ![s].invite = "expired"]
    /\ UNCHANGED <<sessions, guesses, staffJob, staffRaced>>

-----------------------------------------------------------------------------
(* PIN logins and their lockout                                            *)

\* Slip: the lock is not looked at.
VerifyPinThoughLocked(r, s) ==
    /\ staff[s].authType = "PIN" /\ staff[s].isActive
    /\ StaffReads(r, "verifyPin", s)

VerifyPin(r, s) ==
    /\ staff[s].authType = "PIN" /\ staff[s].isActive
    /\ staff[s].lock # "running"
    /\ StaffReads(r, "verifyPin", s)

\* Slip: the copy is saved whole.
WrongPinSavesCopy(r) ==
    LET copy == staffJob[r].row
    IN  /\ Working(r, "verifyPin")
        /\ StaffSaves(r, IF copy.failed + 1 >= PinLockoutThreshold
                         THEN [copy EXCEPT !.failed = PinLockoutThreshold, !.lock = "running"]
                         ELSE [copy EXCEPT !.failed = @ + 1])
        /\ guesses' = [guesses EXCEPT ![staffJob[r].who] = @ + 1]
        /\ StaffEnds(r)
        /\ UNCHANGED sessions

\* The count goes up from the copy; only the columns named are written.
WrongPin(r) ==
    LET s == staffJob[r].who
        attempts == staffJob[r].row.failed + 1
    IN  /\ Working(r, "verifyPin")
        /\ staff' = IF attempts >= PinLockoutThreshold
                    THEN [staff EXCEPT ![s].failed = PinLockoutThreshold,
                                       ![s].lock = "running"]
                    ELSE [staff EXCEPT ![s].failed = attempts]
        /\ guesses' = [guesses EXCEPT ![s] = @ + 1]
        /\ StaffEnds(r)
        /\ UNCHANGED sessions

\* The count is reset only if the copy had one; loginWithPin, loginStaffWithPin
\* and loginStaffBySlug sign a token then.
RightPin(r) ==
    LET s == staffJob[r].who
        resets == staffJob[r].row.failed > 0 \/ staffJob[r].row.lock # "none"
    IN  /\ Working(r, "verifyPin")
        /\ staff' = IF resets THEN [staff EXCEPT ![s].failed = 0, ![s].lock = "none"]
                    ELSE staff
        /\ guesses' = IF resets THEN [guesses EXCEPT ![s] = 0] ELSE guesses
        /\ sessions' = [sessions EXCEPT ![s] = @ \union {<<"pin", "24h">>}]
        /\ StaffEnds(r)

LockLapses(s) ==
    /\ staff[s].lock = "running"
    /\ staff' = [staff EXCEPT ![s].lock = "over"]
    /\ guesses' = [guesses EXCEPT ![s] = 0]
    /\ UNCHANGED <<sessions, staffJob, staffRaced>>

UnlockStaff(r, s) == StaffReads(r, "unlockStaff", s)

SaveUnlocked(r) ==
    /\ Working(r, "unlockStaff")
    /\ StaffSaves(r, [staffJob[r].row EXCEPT !.failed = 0, !.lock = "none"])
    /\ guesses' = [guesses EXCEPT ![staffJob[r].who] = 0]
    /\ StaffEnds(r)
    /\ UNCHANGED sessions

-----------------------------------------------------------------------------
(* Password logins                                                         *)

LoginWithPassword(r, s) ==
    /\ staff[s].authType # "PIN" /\ staff[s].isActive
    /\ staff[s].password # "none"
    /\ StaffReads(r, "loginWithPassword", s)

SignPasswordToken(r) ==
    LET copy == staffJob[r].row
    IN  /\ Working(r, "loginWithPassword")
        /\ sessions' = [sessions EXCEPT ![staffJob[r].who] =
                          @ \union {<<copy.password, Length(copy)>>}]
        /\ StaffEnds(r)
        /\ UNCHANGED <<staff, guesses>>

\* By employee or by address, one door for both kinds of secret.
LoginStaffBySlug(r, s) == VerifyPin(r, s) \/ LoginWithPassword(r, s)

\* The strategy staff-jwt asks for a session and an active member.
ChangePassword(r, s) ==
    /\ staff[s].isActive /\ sessions[s] # {}
    /\ staff[s].password # "none"
    /\ StaffReads(r, "changePassword", s)

SaveChanged(r) ==
    /\ Working(r, "changePassword")
    /\ StaffSaves(r, [staffJob[r].row EXCEPT !.password = "own", !.mustChange = FALSE])
    /\ StaffEnds(r)
    /\ UNCHANGED <<sessions, guesses>>

-----------------------------------------------------------------------------
(* Administration                                                          *)

\* The row may have been removed since update looked for it.
UpdateStaff(s, active) ==
    /\ staff[s].state # "absent"
    /\ staff' = [staff EXCEPT ![s].isActive = active]
    /\ UNCHANGED <<sessions, guesses, staffJob, staffRaced>>

RemoveStaff(s) ==
    /\ staff[s].state = "live"
    /\ staff' = [staff EXCEPT ![s].state = "deleted"]
    /\ staffRaced' = IF WillSave(s) THEN staffRaced \union {s} ELSE staffRaced
    /\ UNCHANGED <<sessions, guesses, staffJob>>

StaffStep(s) ==
    \/ CreateWithPin(s) \/ CreateWithPassword(s) \/ CreateWithInvite(s)
    \/ InviteExpires(s) \/ LockLapses(s) \/ RemoveStaff(s)
    \/ \E active \in BOOLEAN : UpdateStaff(s, active)
    \/ \E r \in StaffRequest :
         \/ AcceptInvite(r, s) \/ UnlockStaff(r, s)
         \/ LoginStaffBySlug(r, s) \/ ChangePassword(r, s)

StaffRequestEnds(r) ==
    \/ SaveAccepted(r) \/ SaveUnlocked(r) \/ SaveChanged(r)
    \/ WrongPin(r) \/ RightPin(r) \/ SignPasswordToken(r)

StaffNext ==
    \/ \E s \in Staff : StaffStep(s)
    \/ \E r \in StaffRequest : StaffRequestEnds(r)

StaffSpec == StaffInit /\ [][StaffNext]_staffVars

-----------------------------------------------------------------------------
\* Types of the rows, the sessions and the requests under way.
StaffTypeOK ==
    /\ staff \in [Staff -> StaffRow]
    /\ sessions \in [Staff -> SUBSET Session]
    /\ guesses \in [Staff -> Nat]
    /\ staffJob \in [StaffRequest -> StaffJob]
    /\ staffRaced \subseteq Staff

\* Attempts answered late write a count they read before the lock: none of
\* them lifts it.  A running lock ends by lapsing, or together with the count
\* (staff.service.ts, verifyPinOrThrow 283-304, unlockStaff 470-475).
LateAnswersKeepTheLock ==
    [][\A s \in Staff : staff[s].lock = "running"
         => \/ staff'[s].lock # "none"
            \/ staff'[s].failed = 0]_staffVars

\* Requests that overlap share a count, and one that holds an old copy sets it
\* back: more wrong PINs than the threshold get an answer before the account
\* locks, but with two requests at once never more than these, 7 for the code's
\* threshold of 3 (staff.service.ts, verifyPinOrThrow 261-294).
MaxGuesses == (PinLockoutThreshold * (PinLockoutThreshold + 1)) \div 2 + 1
PinGuessesBounded == \A s \in Staff : guesses[s] <= MaxGuesses

\* A temporary password opens no session of a day, whichever requests change
\* it, unlock the account or sign in meanwhile (staff.service.ts,
\* loginWithPassword 372-394; auth.service.ts, loginStaffBySlug 417-430).
LongTokenNeedsOwnSecret == \A s \in Staff : <<"temporary", "24h">> \notin sessions[s]

\* A removed member stays removed, and a password a member has chosen is not
\* replaced by a temporary one, unless a request that saves a whole copy was
\* under way when another one read, or when the member was removed: then the
\* copy brings the member or the old password back (staff.service.ts,
\* acceptInvite 224-248, changePassword 401-424, unlockStaff 470-475, remove
\* 480-489).
RemovedStaysRemoved ==
    [][\A s \in Staff \ staffRaced :
         /\ staff[s].state = "deleted" => staff'[s].state = "deleted"
         /\ staff[s].password = "own" => staff'[s].password = "own"]_staffVars
=============================================================================

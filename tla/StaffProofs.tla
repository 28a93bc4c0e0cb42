----------------------------- MODULE StaffProofs -----------------------------
(***************************************************************************)
(* StaffAccounts for every set of staff and requests and every threshold:  *)
(* types, the lock that late answers keep, the temporary password that     *)
(* opens no long session, the member who stays removed, and how many wrong *)
(* PINs two requests at once get answered.                                 *)
(***************************************************************************)
EXTENDS StaffAccounts, Integers, TLAPS

\* Only a PIN account has a lock, only another one a password, a temporary
\* password must be changed, and no row has neither.
Consistent(row) ==
  /\ row.authType = "PIN" => row.password = "none"
  /\ row.authType # "PIN" => row.lock = "none"
  /\ row.password = "temporary" => row.mustChange
  /\ row.state = "absent" => row.lock = "none" /\ row.password = "none"

SameDoor(a, b) == a.authType = "PIN" <=> b.authType = "PIN"

\* The copy of a request under way is of an account that is still of its kind,
\* and has what the request looked for.
JobSound(r) ==
  staffJob[r].op # "idle" =>
    LET copy == staffJob[r].row
        row == staff[staffJob[r].who]
    IN  /\ Consistent(copy) /\ copy.state = "live"
        /\ row.state # "absent" /\ SameDoor(copy, row)
        /\ staffJob[r].op = "verifyPin" => copy.authType = "PIN"
        /\ staffJob[r].op = "acceptInvite" => copy.authType # "PIN"
        /\ staffJob[r].op \in {"loginWithPassword", "changePassword"}
             => copy.password # "none"

StaffInv ==
  /\ StaffTypeOK
  /\ \A s \in Staff : Consistent(staff[s])
  /\ \A r \in StaffRequest : JobSound(r)

-----------------------------------------------------------------------------
(* The invariant                                                           *)

LEMMA RowsTyped ==
  ASSUME StaffAssumption
  PROVE  /\ NewRow \in StaffRow /\ AbsentStaff \in StaffRow
         /\ \A s \in Staff : IdleStaffJob(s) \in StaffJob
<1>1. 0 \in 0 .. PinLockoutThreshold
  BY DEF StaffAssumption
<1>2. NewRow \in StaffRow /\ AbsentStaff \in StaffRow
  BY <1>1 DEF NewRow, AbsentStaff, StaffRow
<1>3. QED BY <1>2 DEF IdleStaffJob, StaffJob

LEMMA StaffInitInv ==
  ASSUME StaffAssumption, StaffInit
  PROVE  StaffInv
<1>1. (CHOOSE s \in Staff : TRUE) \in Staff
  BY DEF StaffAssumption
<1>2. StaffTypeOK
  BY <1>1, RowsTyped DEF StaffInit, StaffTypeOK
<1>3. Consistent(AbsentStaff)
  BY DEF Consistent, AbsentStaff, NewRow
<1>4. QED BY <1>2, <1>3 DEF StaffInit, StaffInv, JobSound, IdleStaffJob

\* A request that reads.
LEMMA StaffReadKeeps ==
  ASSUME StaffInv, NEW r \in StaffRequest, NEW op \in StaffOps, NEW s \in Staff,
         StaffReads(r, op, s),
         op = "verifyPin" => staff[s].authType = "PIN",
         op = "acceptInvite" => staff[s].authType # "PIN",
         op \in {"loginWithPassword", "changePassword"} => staff[s].password # "none"
  PROVE  StaffInv'
<1> DEFINE j == [op |-> op, who |-> s, row |-> staff[s]]
<1>1. j \in StaffJob
  BY DEF StaffJob, StaffInv, StaffTypeOK
<1>2. staffJob' = [staffJob EXCEPT ![r] = j] /\ staff[s].state = "live"
      /\ UNCHANGED <<staff, sessions, guesses>>
  BY DEF StaffReads
<1>3. StaffTypeOK'
  <2>1. staffRaced' \subseteq Staff
    BY DEF StaffReads, StaffInv, StaffTypeOK
  <2>2. QED BY <1>1, <1>2, <2>1 DEF StaffInv, StaffTypeOK
<1>4. ASSUME NEW q \in StaffRequest PROVE JobSound(q)'
  <2>1. CASE q = r
    <3>1. staffJob'[q] = j
      BY <1>2, <2>1 DEF StaffInv, StaffTypeOK
    <3>2. QED BY <1>2, <3>1 DEF StaffInv, JobSound, SameDoor
  <2>2. CASE q # r
    <3>1. staffJob'[q] = staffJob[q]
      BY <1>2, <2>2 DEF StaffInv, StaffTypeOK
    <3>2. QED BY <1>2, <3>1 DEF StaffInv, JobSound
  <2>3. QED BY <2>1, <2>2
<1>5. QED BY <1>2, <1>3, <1>4 DEF StaffInv

\* A step that writes one row and keeps its kind, and may end a request.
LEMMA StaffWriteKeeps ==
  ASSUME StaffAssumption, StaffInv, NEW s \in Staff, NEW new \in StaffRow,
         Consistent(new),
         staff[s].state # "absent" => new.state # "absent" /\ SameDoor(new, staff[s]),
         staff' = [staff EXCEPT ![s] = new],
         \/ UNCHANGED staffJob
         \/ \E r \in StaffRequest : StaffEnds(r),
         sessions' \in [Staff -> SUBSET Session], guesses' \in [Staff -> Nat],
         staffRaced' \subseteq Staff
  PROVE  StaffInv'
<1>1. /\ staffJob' \in [StaffRequest -> StaffJob]
      /\ \A q \in StaffRequest :
           staffJob'[q] = staffJob[q] \/ staffJob'[q].op = "idle"
  <2>1. CASE UNCHANGED staffJob
    BY <2>1 DEF StaffInv, StaffTypeOK
  <2>2. ASSUME NEW r \in StaffRequest, StaffEnds(r)
        PROVE  /\ staffJob' \in [StaffRequest -> StaffJob]
               /\ \A q \in StaffRequest :
                    staffJob'[q] = staffJob[q] \/ staffJob'[q].op = "idle"
    <3>1. staffJob[r].who \in Staff
      BY DEF StaffInv, StaffTypeOK, StaffJob
    <3>2. QED BY <2>2, <3>1, RowsTyped DEF StaffEnds, StaffInv, StaffTypeOK, IdleStaffJob
  <2>3. QED BY <2>1, <2>2
<1>2. StaffTypeOK'
  BY <1>1 DEF StaffInv, StaffTypeOK
<1>3. \A t \in Staff : staff'[t] = IF t = s THEN new ELSE staff[t]
  BY DEF StaffInv, StaffTypeOK
<1>4. ASSUME NEW q \in StaffRequest PROVE JobSound(q)'
  <2>1. CASE staffJob'[q].op = "idle"
    BY <2>1 DEF JobSound
  <2>2. CASE staffJob'[q].op # "idle"
    <3>1. staffJob'[q] = staffJob[q] /\ staffJob[q].who \in Staff
      BY <1>1, <2>2 DEF StaffInv, StaffTypeOK, StaffJob
    <3>2. JobSound(q)
      BY DEF StaffInv
    <3>3. QED BY <1>3, <2>2, <3>1, <3>2 DEF JobSound, SameDoor
  <2>3. QED BY <2>1, <2>2
<1>5. QED BY <1>2, <1>3, <1>4 DEF StaffInv

LEMMA StepKeeps ==
  ASSUME StaffAssumption, StaffInv, NEW s \in Staff, StaffStep(s)
  PROVE  StaffInv'
<1>1. /\ staff[s] \in StaffRow /\ Consistent(staff[s])
      /\ sessions \in [Staff -> SUBSET Session] /\ guesses \in [Staff -> Nat]
      /\ staffRaced \subseteq Staff
  BY DEF StaffInv, StaffTypeOK
<1>2. ASSUME NEW row \in StaffRow, Consistent(row), StaffInsert(s, row)
      PROVE  StaffInv'
  BY <1>1, <1>2, StaffWriteKeeps DEF StaffInsert
<1>3. CASE CreateWithPin(s)
  <2>1. Consistent(NewRow)
    BY DEF Consistent, NewRow
  <2>2. QED BY <1>2, <1>3, <2>1, RowsTyped DEF CreateWithPin
<1>4. CASE CreateWithPassword(s)
  <2> DEFINE row == [NewRow EXCEPT !.authType = "PASSWORD", !.password = "temporary",
                                   !.mustChange = TRUE]
  <2>1. row \in StaffRow
    BY RowsTyped DEF StaffRow
  <2>2. Consistent(row)
    BY DEF Consistent, NewRow
  <2>3. QED BY <1>2, <1>4, <2>1, <2>2 DEF CreateWithPassword
<1>5. CASE CreateWithInvite(s)
  <2> DEFINE row == [NewRow EXCEPT !.authType = "INVITE_PENDING", !.invite = "open"]
  <2>1. row \in StaffRow
    BY RowsTyped DEF StaffRow
  <2>2. Consistent(row)
    BY DEF Consistent, NewRow
  <2>3. QED BY <1>2, <1>5, <2>1, <2>2 DEF CreateWithInvite
<1>6. ASSUME NEW row \in StaffRow, staff' = [staff EXCEPT ![s] = row],
             Consistent(row), SameDoor(row, staff[s]),
             staff[s].state # "absent" => row.state # "absent",
             UNCHANGED <<sessions, staffJob>>, guesses' \in [Staff -> Nat],
             staffRaced' \subseteq Staff
      PROVE  StaffInv'
  BY <1>1, <1>6, StaffWriteKeeps
<1>7. CASE InviteExpires(s)
  <2> DEFINE row == [staff[s] EXCEPT !.invite = "expired"]
  <2>1. row \in StaffRow /\ Consistent(row) /\ SameDoor(row, staff[s])
        /\ row.state = staff[s].state
    BY <1>1 DEF StaffRow, Consistent, SameDoor
  <2>2. QED BY <1>1, <1>6, <1>7, <2>1 DEF InviteExpires
<1>8. CASE LockLapses(s)
  <2> DEFINE row == [staff[s] EXCEPT !.lock = "over"]
  <2>1. row \in StaffRow /\ Consistent(row) /\ SameDoor(row, staff[s])
        /\ row.state = staff[s].state
    BY <1>1, <1>8 DEF StaffRow, Consistent, SameDoor, LockLapses
  <2>2. guesses' \in [Staff -> Nat]
    BY <1>1, <1>8 DEF LockLapses
  <2>3. QED BY <1>1, <1>6, <1>8, <2>1, <2>2 DEF LockLapses
<1>9. CASE RemoveStaff(s)
  <2> DEFINE row == [staff[s] EXCEPT !.state = "deleted"]
  <2>1. row \in StaffRow /\ Consistent(row) /\ SameDoor(row, staff[s])
        /\ row.state # "absent"
    BY <1>1 DEF StaffRow, Consistent, SameDoor
  <2>2. QED BY <1>1, <1>6, <1>9, <2>1 DEF RemoveStaff
<1>10. ASSUME NEW active \in BOOLEAN, UpdateStaff(s, active) PROVE StaffInv'
  <2> DEFINE row == [staff[s] EXCEPT !.isActive = active]
  <2>1. row \in StaffRow /\ Consistent(row) /\ SameDoor(row, staff[s])
        /\ row.state = staff[s].state
    BY <1>1 DEF StaffRow, Consistent, SameDoor
  <2>2. QED BY <1>1, <1>6, <1>10, <2>1 DEF UpdateStaff
<1>11. ASSUME NEW r \in StaffRequest,
             \/ AcceptInvite(r, s) \/ UnlockStaff(r, s)
             \/ VerifyPin(r, s) \/ LoginWithPassword(r, s) \/ ChangePassword(r, s)
      PROVE  StaffInv'
  <2>1. {"acceptInvite", "unlockStaff", "verifyPin", "loginWithPassword",
         "changePassword"} \subseteq StaffOps
    BY DEF StaffOps
  <2>2. CASE AcceptInvite(r, s)
    BY <2>1, <2>2, StaffReadKeeps DEF AcceptInvite
  <2>3. CASE UnlockStaff(r, s)
    BY <2>1, <2>3, StaffReadKeeps DEF UnlockStaff
  <2>4. CASE VerifyPin(r, s)
    BY <2>1, <2>4, StaffReadKeeps DEF VerifyPin
  <2>5. CASE LoginWithPassword(r, s)
    BY <2>1, <2>5, StaffReadKeeps DEF LoginWithPassword
  <2>6. CASE ChangePassword(r, s)
    BY <2>1, <2>6, StaffReadKeeps DEF ChangePassword
  <2>7. QED BY <1>11, <2>2, <2>3, <2>4, <2>5, <2>6
<1>12. QED
  BY <1>3, <1>4, <1>5, <1>7, <1>8, <1>9, <1>10, <1>11 DEF StaffStep, LoginStaffBySlug

LEMMA RequestEndsKeeps ==
  ASSUME StaffAssumption, StaffInv, NEW r \in StaffRequest, StaffRequestEnds(r)
  PROVE  StaffInv'
<1> DEFINE s == staffJob[r].who
           copy == staffJob[r].row
<1>1. /\ s \in Staff /\ copy \in StaffRow /\ staff[s] \in StaffRow
      /\ Consistent(staff[s]) /\ JobSound(r)
      /\ staff \in [Staff -> StaffRow]
      /\ sessions \in [Staff -> SUBSET Session] /\ guesses \in [Staff -> Nat]
      /\ (StaffEnds(r) => staffRaced' \subseteq Staff)
  BY DEF StaffInv, StaffTypeOK, StaffJob, StaffEnds
<1>2. staffJob[r].op # "idle" => /\ Consistent(copy) /\ copy.state = "live"
                                 /\ SameDoor(copy, staff[s])
  BY <1>1 DEF JobSound
<1>3. PinLockoutThreshold \in 0 .. PinLockoutThreshold /\ 0 \in 0 .. PinLockoutThreshold
  BY DEF StaffAssumption
<1>4. CASE SaveAccepted(r)
  <2> DEFINE new == [copy EXCEPT !.password = "own", !.authType = "PASSWORD",
                                 !.mustChange = FALSE, !.invite = "none"]
  <2>1. copy.authType # "PIN" /\ staffJob[r].op # "idle"
    BY <1>1, <1>4 DEF JobSound, SaveAccepted, Working
  <2>2. new \in StaffRow /\ Consistent(new) /\ new.state = "live" /\ SameDoor(new, staff[s])
    BY <1>1, <1>2, <2>1 DEF StaffRow, Consistent, SameDoor
  <2>3. QED BY <1>1, <1>4, <2>2, StaffWriteKeeps DEF SaveAccepted, StaffSaves
<1>5. CASE SaveUnlocked(r)
  <2> DEFINE new == [copy EXCEPT !.failed = 0, !.lock = "none"]
  <2>1. staffJob[r].op # "idle"
    BY <1>5 DEF SaveUnlocked, Working
  <2>2. new \in StaffRow /\ Consistent(new) /\ new.state = "live" /\ SameDoor(new, staff[s])
    BY <1>1, <1>2, <1>3, <2>1 DEF StaffRow, Consistent, SameDoor
  <2>3. guesses' \in [Staff -> Nat]
    BY <1>1, <1>5 DEF SaveUnlocked
  <2>4. QED BY <1>1, <1>5, <2>2, <2>3, StaffWriteKeeps DEF SaveUnlocked, StaffSaves
<1>6. CASE SaveChanged(r)
  <2> DEFINE new == [copy EXCEPT !.password = "own", !.mustChange = FALSE]
  <2>1. copy.password # "none" /\ staffJob[r].op # "idle"
    BY <1>1, <1>6 DEF JobSound, SaveChanged, Working
  <2>2. new \in StaffRow /\ Consistent(new) /\ new.state = "live" /\ SameDoor(new, staff[s])
    BY <1>1, <1>2, <2>1 DEF StaffRow, Consistent, SameDoor
  <2>3. QED BY <1>1, <1>6, <2>2, StaffWriteKeeps DEF SaveChanged, StaffSaves
<1>7. CASE WrongPin(r)
  <2> DEFINE locked == [staff[s] EXCEPT !.failed = PinLockoutThreshold, !.lock = "running"]
             counted == [staff[s] EXCEPT !.failed = copy.failed + 1]
  <2>1. staff[s].authType = "PIN" /\ staff[s].state # "absent"
    BY <1>1, <1>7 DEF JobSound, SameDoor, WrongPin, Working
  <2>2. /\ locked \in StaffRow /\ Consistent(locked)
        /\ locked.state = staff[s].state /\ SameDoor(locked, staff[s])
    BY <1>1, <1>3, <2>1 DEF StaffRow, Consistent, SameDoor
  <2>3. ~(copy.failed + 1 >= PinLockoutThreshold) =>
          copy.failed + 1 \in 0 .. PinLockoutThreshold
    BY <1>1 DEF StaffRow, StaffAssumption
  <2>4. ~(copy.failed + 1 >= PinLockoutThreshold) =>
          /\ counted \in StaffRow /\ Consistent(counted)
          /\ counted.state = staff[s].state /\ SameDoor(counted, staff[s])
    BY <1>1, <2>3 DEF StaffRow, Consistent, SameDoor
  <2>5. guesses' \in [Staff -> Nat] /\ UNCHANGED sessions /\ StaffEnds(r)
    BY <1>1, <1>7 DEF WrongPin
  <2>6. CASE copy.failed + 1 >= PinLockoutThreshold
    <3>1. staff' = [staff EXCEPT ![s] = locked]
      BY <1>7, <2>6 DEF WrongPin
    <3>2. QED BY <1>1, <2>2, <2>5, <3>1, StaffWriteKeeps
  <2>7. CASE ~(copy.failed + 1 >= PinLockoutThreshold)
    <3>1. staff' = [staff EXCEPT ![s] = counted]
      BY <1>7, <2>7 DEF WrongPin
    <3>2. QED BY <1>1, <2>4, <2>5, <2>7, <3>1, StaffWriteKeeps
  <2>8. QED BY <2>6, <2>7
<1>8. CASE RightPin(r)
  <2> DEFINE reset == [staff[s] EXCEPT !.failed = 0, !.lock = "none"]
  <2>1. /\ reset \in StaffRow /\ Consistent(reset)
        /\ reset.state = staff[s].state /\ SameDoor(reset, staff[s])
    <3>1. reset \in StaffRow
      BY <1>1, <1>3 DEF StaffRow
    <3>2. /\ reset.lock = "none" /\ reset.state = staff[s].state
          /\ reset.authType = staff[s].authType /\ reset.password = staff[s].password
          /\ reset.mustChange = staff[s].mustChange
      BY <1>1 DEF StaffRow
    <3>3. QED BY <1>1, <3>1, <3>2 DEF Consistent, SameDoor
  <2>2. /\ guesses' \in [Staff -> Nat] /\ sessions' \in [Staff -> SUBSET Session]
        /\ StaffEnds(r)
    BY <1>1, <1>8 DEF RightPin, Session
  <2>3. \/ staff' = [staff EXCEPT ![s] = reset]
        \/ staff' = [staff EXCEPT ![s] = staff[s]]
    BY <1>1, <1>8 DEF RightPin
  <2>4. QED BY <1>1, <2>1, <2>2, <2>3, StaffWriteKeeps DEF SameDoor
<1>9. CASE SignPasswordToken(r)
  <2>1. <<copy.password, Length(copy)>> \in Session
    BY <1>1, <1>9 DEF JobSound, SignPasswordToken, Working, StaffRow, Session, Length
  <2>2. /\ sessions' \in [Staff -> SUBSET Session] /\ UNCHANGED <<staff, guesses>>
        /\ StaffEnds(r)
    BY <1>1, <1>9, <2>1 DEF SignPasswordToken
  <2>3. staff' = [staff EXCEPT ![s] = staff[s]]
    BY <1>1, <2>2
  <2>4. QED BY <1>1, <2>2, <2>3, StaffWriteKeeps DEF SameDoor
<1>10. QED BY <1>4, <1>5, <1>6, <1>7, <1>8, <1>9 DEF StaffRequestEnds

LEMMA StutterKeeps ==
  ASSUME StaffInv, UNCHANGED staffVars
  PROVE  StaffInv'
BY DEF StaffInv, StaffTypeOK, JobSound, staffVars

LEMMA StaffInvariant == ASSUME StaffAssumption PROVE StaffSpec => []StaffInv
<1>1. StaffInit => StaffInv
  BY StaffInitInv
<1>2. StaffInv /\ [StaffNext]_staffVars => StaffInv'
  BY StepKeeps, RequestEndsKeeps, StutterKeeps DEF StaffNext
<1>3. QED BY <1>1, <1>2, PTL DEF StaffSpec

\* Rows, sessions and copies keep their types, for any number of staff and of
\* requests and any threshold (staff.service.ts).
THEOREM StaffTypeCorrect == ASSUME StaffAssumption PROVE StaffSpec => []StaffTypeOK
<1>1. StaffInv => StaffTypeOK
  BY DEF StaffInv
<1>2. QED BY <1>1, StaffInvariant, PTL

-----------------------------------------------------------------------------
(* What requests may not do to a row                                       *)

\* The row of a step on s that is not a creation, and of the end of a request.
LEMMA StepWrites ==
  ASSUME StaffInv, NEW s \in Staff, StaffStep(s)
  PROVE  /\ \A t \in Staff : t # s => staff'[t] = staff[t]
         /\ \/ staff'[s] = staff[s]
            \/ staff[s].state = "absent"
            \/ staff'[s] = [staff[s] EXCEPT !.invite = "expired"]
            \/ /\ staff'[s] = [staff[s] EXCEPT !.lock = "over"]
               /\ LockLapses(s)
            \/ \E active \in BOOLEAN : staff'[s] = [staff[s] EXCEPT !.isActive = active]
            \/ /\ staff'[s] = [staff[s] EXCEPT !.state = "deleted"]
               /\ RemoveStaff(s)
<1>1. staff \in [Staff -> StaffRow]
  BY DEF StaffInv, StaffTypeOK
<1>2. CASE \/ CreateWithPin(s) \/ CreateWithPassword(s) \/ CreateWithInvite(s)
  BY <1>1, <1>2 DEF CreateWithPin, CreateWithPassword, CreateWithInvite, StaffInsert
<1>3. CASE InviteExpires(s) \/ LockLapses(s)
  BY <1>1, <1>3 DEF InviteExpires, LockLapses
<1>4. CASE RemoveStaff(s)
  BY <1>1, <1>4 DEF RemoveStaff
<1>5. ASSUME NEW active \in BOOLEAN, UpdateStaff(s, active)
      PROVE  /\ \A t \in Staff : t # s => staff'[t] = staff[t]
             /\ staff'[s] = [staff[s] EXCEPT !.isActive = active]
  BY <1>1, <1>5 DEF UpdateStaff
<1>6. ASSUME NEW r \in StaffRequest,
             \/ AcceptInvite(r, s) \/ UnlockStaff(r, s)
             \/ LoginStaffBySlug(r, s) \/ ChangePassword(r, s)
      PROVE  UNCHANGED staff
  BY <1>6 DEF AcceptInvite, UnlockStaff, LoginStaffBySlug, VerifyPin, LoginWithPassword,
              ChangePassword, StaffReads
<1>7. QED BY <1>2, <1>3, <1>4, <1>5, <1>6 DEF StaffStep

LEMMA EndWrites ==
  ASSUME StaffInv, NEW r \in StaffRequest, StaffRequestEnds(r),
         NEW s \in Staff
  PROVE  \/ staff'[s] = staff[s]
         \/ /\ s = staffJob[r].who
            /\ \/ SaveAccepted(r) \/ SaveUnlocked(r) \/ SaveChanged(r)
               \/ WrongPin(r) \/ RightPin(r)
<1>1. staff \in [Staff -> StaffRow]
  BY DEF StaffInv, StaffTypeOK
<1>2. CASE s = staffJob[r].who
  BY <1>1, <1>2 DEF StaffRequestEnds, SignPasswordToken
<1>3. CASE s # staffJob[r].who
  BY <1>1, <1>3 DEF StaffRequestEnds, SaveAccepted, SaveUnlocked, SaveChanged, StaffSaves,
                    WrongPin, RightPin, SignPasswordToken
<1>4. QED BY <1>2, <1>3

LEMMA LockKept ==
  ASSUME StaffAssumption, StaffInv, [StaffNext]_staffVars, NEW s \in Staff,
         staff[s].lock = "running"
  PROVE  staff'[s].lock # "none" \/ staff'[s].failed = 0
<1>1. /\ staff[s] \in StaffRow /\ staff \in [Staff -> StaffRow]
      /\ staff[s].authType = "PIN" /\ staff[s].state # "absent"
  BY DEF StaffInv, StaffTypeOK, Consistent
<1>2. ASSUME NEW t \in Staff, StaffStep(t) PROVE staff'[s].lock # "none"
  <2>1. CASE t # s
    BY <1>1, <1>2, <2>1, StepWrites
  <2>2. CASE t = s
    <3>1. staff[s].lock # "none" /\ "running" # "none" /\ "over" # "none"
      BY <1>1
    <3>2. \/ staff'[s].lock = staff[s].lock
          \/ staff'[s].lock = "over"
      BY <1>1, <1>2, <2>2, StepWrites DEF StaffRow
    <3>3. QED BY <3>1, <3>2
  <2>3. QED BY <2>1, <2>2
<1>3. ASSUME NEW r \in StaffRequest, StaffRequestEnds(r)
      PROVE  staff'[s].lock # "none" \/ staff'[s].failed = 0
  <2> DEFINE copy == staffJob[r].row
  <2>1. copy \in StaffRow /\ JobSound(r)
    BY DEF StaffInv, StaffTypeOK, StaffJob
  <2>2. CASE staff'[s] = staff[s]
    BY <2>2
  <2>3. CASE s = staffJob[r].who /\ SaveUnlocked(r)
    BY <1>1, <2>1, <2>3 DEF SaveUnlocked, StaffSaves, StaffRow
  <2>4. CASE s = staffJob[r].who /\ (WrongPin(r) \/ RightPin(r))
    BY <1>1, <2>4 DEF WrongPin, RightPin, StaffRow
  <2>5. CASE s = staffJob[r].who /\ (SaveAccepted(r) \/ SaveChanged(r))
    BY <1>1, <2>1, <2>5 DEF SaveAccepted, SaveChanged, Working, JobSound, Consistent, SameDoor
  <2>6. QED BY <1>3, <2>2, <2>3, <2>4, <2>5, EndWrites
<1>4. QED BY <1>2, <1>3 DEF StaffNext, staffVars

\* No late answer lifts a running lock, for any threshold and any number of
\* attempts under way (staff.service.ts, verifyPinOrThrow 253-304).
THEOREM LockHolds == ASSUME StaffAssumption PROVE StaffSpec => LateAnswersKeepTheLock
<1>1. StaffInv /\ [StaffNext]_staffVars =>
        [\A s \in Staff : staff[s].lock = "running"
           => \/ staff'[s].lock # "none"
              \/ staff'[s].failed = 0]_staffVars
  BY LockKept
<1>2. QED BY <1>1, StaffInvariant, PTL DEF StaffSpec, LateAnswersKeepTheLock

-----------------------------------------------------------------------------
(* The temporary password                                                  *)

LEMMA NoLongSession ==
  ASSUME StaffInv, LongTokenNeedsOwnSecret, [StaffNext]_staffVars
  PROVE  LongTokenNeedsOwnSecret'
<1>1. sessions \in [Staff -> SUBSET Session]
  BY DEF StaffInv, StaffTypeOK
<1>2. ASSUME NEW s \in Staff, StaffStep(s) PROVE UNCHANGED sessions
  BY <1>2 DEF StaffStep, CreateWithPin, CreateWithPassword, CreateWithInvite, StaffInsert,
              InviteExpires, LockLapses, RemoveStaff, UpdateStaff, AcceptInvite, UnlockStaff,
              LoginStaffBySlug, VerifyPin, LoginWithPassword, ChangePassword, StaffReads
<1>3. ASSUME NEW r \in StaffRequest, RightPin(r) PROVE LongTokenNeedsOwnSecret'
  BY <1>1, <1>3 DEF RightPin, LongTokenNeedsOwnSecret
<1>4. ASSUME NEW r \in StaffRequest, SignPasswordToken(r) PROVE LongTokenNeedsOwnSecret'
  <2> DEFINE copy == staffJob[r].row
  <2>1. copy.password = "temporary" => copy.mustChange
    BY <1>4 DEF SignPasswordToken, Working, StaffInv, JobSound, Consistent
  <2>2. <<copy.password, Length(copy)>> # <<"temporary", "24h">>
    BY <2>1 DEF Length
  <2>3. QED BY <1>1, <1>4, <2>2 DEF SignPasswordToken, LongTokenNeedsOwnSecret
<1>5. ASSUME NEW r \in StaffRequest,
             SaveAccepted(r) \/ SaveUnlocked(r) \/ SaveChanged(r) \/ WrongPin(r)
      PROVE  UNCHANGED sessions
  BY <1>5 DEF SaveAccepted, SaveUnlocked, SaveChanged, WrongPin
<1>6. QED
  BY <1>2, <1>3, <1>4, <1>5 DEF StaffNext, StaffRequestEnds, staffVars, LongTokenNeedsOwnSecret

\* A temporary password never opens a session of a day, whatever overlaps
\* (staff.service.ts, loginWithPassword 372-394).
THEOREM TemporaryIsShort ==
  ASSUME StaffAssumption PROVE StaffSpec => []LongTokenNeedsOwnSecret
<1>1. StaffInit => LongTokenNeedsOwnSecret
  BY DEF StaffInit, LongTokenNeedsOwnSecret
<1>2. StaffInv /\ LongTokenNeedsOwnSecret /\ [StaffNext]_staffVars => LongTokenNeedsOwnSecret'
  BY NoLongSession
<1>3. QED BY <1>1, <1>2, StaffInvariant, PTL DEF StaffSpec

-----------------------------------------------------------------------------
(* Removal                                                                 *)

\* Unless copies have met on the row of r's member, what r read is still so:
\* the row is live and has the password that unlockStaff will write back.
Fresh(r) ==
  staffJob[r].op \in Savers /\ staffJob[r].who \notin staffRaced =>
    /\ staff[staffJob[r].who].state = "live"
    /\ staffJob[r].op = "unlockStaff" =>
         staffJob[r].row.password = staff[staffJob[r].who].password

\* Two copies of one row that will be saved are known to have met.
MetIsKnown ==
  \A q, r \in StaffRequest :
    q # r /\ staffJob[q].who = staffJob[r].who /\ {staffJob[q].op, staffJob[r].op} \subseteq Savers
      => staffJob[r].who \in staffRaced

RemovalInv == MetIsKnown /\ \A r \in StaffRequest : Fresh(r)

LEMMA RemovalInit ==
  ASSUME StaffInit
  PROVE  RemovalInv
<1>1. \A r \in StaffRequest : staffJob[r].op \notin Savers
  BY DEF StaffInit, IdleStaffJob, Savers
<1>2. QED BY <1>1 DEF RemovalInv, MetIsKnown, Fresh

\* A step on a row that concerns a request at all is the first read of one.
LEMMA StepReads ==
  ASSUME NEW s \in Staff, StaffStep(s)
  PROVE  \/ UNCHANGED staffJob
         \/ \E p \in StaffRequest, op \in StaffOps : StaffReads(p, op, s)
BY DEF StaffStep, CreateWithPin, CreateWithPassword, CreateWithInvite, StaffInsert,
       InviteExpires, LockLapses, RemoveStaff, UpdateStaff, AcceptInvite, UnlockStaff,
       LoginStaffBySlug, VerifyPin, LoginWithPassword, ChangePassword, StaffOps

\* What has met is not forgotten.
LEMMA RacedGrows ==
  ASSUME StaffNext
  PROVE  staffRaced \subseteq staffRaced'
<1>1. ASSUME NEW r \in StaffRequest, StaffRequestEnds(r) PROVE UNCHANGED staffRaced
  BY <1>1 DEF StaffRequestEnds, SaveAccepted, SaveUnlocked, SaveChanged, WrongPin,
              RightPin, SignPasswordToken, StaffEnds
<1>2. ASSUME NEW s \in Staff, StaffStep(s) PROVE staffRaced \subseteq staffRaced'
  BY <1>2 DEF StaffStep, CreateWithPin, CreateWithPassword, CreateWithInvite, StaffInsert,
              InviteExpires, LockLapses, RemoveStaff, UpdateStaff, AcceptInvite, UnlockStaff,
              LoginStaffBySlug, VerifyPin, LoginWithPassword, ChangePassword, StaffReads
<1>3. QED BY <1>1, <1>2 DEF StaffNext

\* A request that takes a copy where another one is held makes the two meet;
\* the others only end.
LEMMA MeetingKept ==
  ASSUME StaffInv, RemovalInv, StaffNext
  PROVE  MetIsKnown'
<1>1. staffJob \in [StaffRequest -> StaffJob] /\ staffRaced \subseteq staffRaced'
  BY RacedGrows DEF StaffInv, StaffTypeOK
<1>2. SUFFICES ASSUME NEW q \in StaffRequest, NEW r \in StaffRequest, q # r,
                      staffJob'[q].who = staffJob'[r].who,
                      staffJob'[q].op \in Savers, staffJob'[r].op \in Savers
               PROVE  staffJob'[r].who \in staffRaced'
  BY DEF MetIsKnown
<1>3. CASE staffJob'[q] = staffJob[q] /\ staffJob'[r] = staffJob[r]
  BY <1>1, <1>2, <1>3 DEF RemovalInv, MetIsKnown
<1>4. ASSUME NEW p \in StaffRequest, NEW op \in StaffOps, NEW s \in Staff, StaffReads(p, op, s)
      PROVE  staffJob'[r].who \in staffRaced'
  <2>1. /\ staffJob'[p].op = op /\ staffJob'[p].who = s
        /\ \A x \in StaffRequest : x # p => staffJob'[x] = staffJob[x]
        /\ op \in Savers /\ WillSave(s) => s \in staffRaced'
    BY <1>1, <1>4 DEF StaffReads
  <2>2. CASE q = p
    BY <1>2, <2>1, <2>2 DEF WillSave
  <2>3. CASE r = p
    BY <1>2, <2>1, <2>3 DEF WillSave
  <2>4. CASE q # p /\ r # p
    BY <1>3, <2>1, <2>4
  <2>5. QED BY <2>2, <2>3, <2>4
<1>5. ASSUME NEW p \in StaffRequest, StaffEnds(p) PROVE staffJob'[r].who \in staffRaced'
  <2>1. /\ staffJob'[p].op = "idle"
        /\ \A x \in StaffRequest : x # p => staffJob'[x] = staffJob[x]
    BY <1>1, <1>5 DEF StaffEnds, IdleStaffJob
  <2>2. q # p /\ r # p
    BY <1>2, <2>1 DEF Savers
  <2>3. QED BY <1>3, <2>1, <2>2
<1>6. \/ UNCHANGED staffJob
      \/ \E p \in StaffRequest, op \in StaffOps, s \in Staff : StaffReads(p, op, s)
      \/ \E p \in StaffRequest : StaffEnds(p)
  <2>1. ASSUME NEW p \in StaffRequest, StaffRequestEnds(p) PROVE StaffEnds(p)
    BY <2>1 DEF StaffRequestEnds, SaveAccepted, SaveUnlocked, SaveChanged, WrongPin,
                RightPin, SignPasswordToken
  <2>2. QED BY <2>1, StepReads DEF StaffNext
<1>7. QED BY <1>3, <1>4, <1>5, <1>6

\* A copy stays fresh, and what is removed or chosen stays so.
LEMMA StepRemoves ==
  ASSUME StaffInv, RemovalInv, NEW s \in Staff, StaffStep(s)
  PROVE  /\ \A r \in StaffRequest : Fresh(r)'
         /\ staff[s].state = "deleted" => staff'[s].state = "deleted"
         /\ staff'[s].password = staff[s].password \/ staff[s].password # "own"
<1>1. /\ staff[s] \in StaffRow /\ Consistent(staff[s])
      /\ \A r \in StaffRequest : /\ Fresh(r) /\ JobSound(r)
                                 /\ staffJob[r].who \in Staff
      /\ staffJob \in [StaffRequest -> StaffJob]
      /\ staffRaced \subseteq staffRaced'
  BY RacedGrows DEF StaffInv, StaffTypeOK, RemovalInv, StaffJob, StaffNext
<1>2. /\ \A t \in Staff : t # s => staff'[t] = staff[t]
      /\ \/ staff[s].state = "absent"
         \/ /\ staff'[s].state = staff[s].state
            /\ staff'[s].password = staff[s].password
         \/ /\ staff'[s].state = "deleted" /\ RemoveStaff(s)
            /\ staff'[s].password = staff[s].password
  <2>1. /\ [staff[s] EXCEPT !.invite = "expired"].state = staff[s].state
        /\ [staff[s] EXCEPT !.invite = "expired"].password = staff[s].password
        /\ [staff[s] EXCEPT !.lock = "over"].state = staff[s].state
        /\ [staff[s] EXCEPT !.lock = "over"].password = staff[s].password
        /\ [staff[s] EXCEPT !.state = "deleted"].state = "deleted"
        /\ [staff[s] EXCEPT !.state = "deleted"].password = staff[s].password
    BY <1>1 DEF StaffRow
  <2>2. \A active \in BOOLEAN :
          /\ [staff[s] EXCEPT !.isActive = active].state = staff[s].state
          /\ [staff[s] EXCEPT !.isActive = active].password = staff[s].password
    BY <1>1 DEF StaffRow
  <2>3. QED BY <2>1, <2>2, StepWrites
<1>3. \A r \in StaffRequest :
        \/ staffJob'[r] = staffJob[r]
        \/ /\ staffJob'[r].who = s /\ staffJob'[r].row = staff[s]
           /\ UNCHANGED staff /\ staff[s].state = "live"
  <2>1. ASSUME NEW p \in StaffRequest, NEW op \in StaffOps, StaffReads(p, op, s),
               NEW r \in StaffRequest
        PROVE  \/ staffJob'[r] = staffJob[r]
               \/ /\ staffJob'[r].who = s /\ staffJob'[r].row = staff[s]
                  /\ UNCHANGED staff /\ staff[s].state = "live"
    BY <1>1, <2>1 DEF StaffReads
  <2>2. QED BY <2>1, StepReads
<1>4. ASSUME NEW r \in StaffRequest, staffJob[r].op \in Savers, staffJob[r].who = s,
             s \notin staffRaced'
      PROVE  ~RemoveStaff(s)
  BY <1>4 DEF RemoveStaff, WillSave
<1>5. ASSUME NEW r \in StaffRequest PROVE Fresh(r)'
  <2>1. CASE staffJob'[r] = staffJob[r]
    <3>1. CASE staffJob[r].who # s
      BY <1>1, <1>2, <2>1, <3>1 DEF Fresh
    <3>2. CASE staffJob[r].who = s /\ staffJob[r].op \in Savers /\ s \notin staffRaced'
      <4>1. s \notin staffRaced /\ staff[s].state = "live"
        BY <1>1, <3>2 DEF Fresh
      <4>2. staff'[s].state = staff[s].state /\ staff'[s].password = staff[s].password
        BY <1>2, <1>4, <3>2, <4>1
      <4>3. QED BY <1>1, <2>1, <3>2, <4>1, <4>2 DEF Fresh
    <3>3. CASE staffJob[r].op \notin Savers \/ (staffJob[r].who = s /\ s \in staffRaced')
      BY <2>1, <3>3 DEF Fresh
    <3>4. QED BY <3>1, <3>2, <3>3
  <2>2. CASE staffJob'[r] # staffJob[r]
    BY <1>3, <2>2 DEF Fresh
  <2>3. QED BY <2>1, <2>2
<1>6. staff[s].state = "absent" => staff[s].password # "own"
  BY <1>1 DEF Consistent
<1>7. QED BY <1>2, <1>5, <1>6

LEMMA EndRemoves ==
  ASSUME StaffInv, RemovalInv, NEW p \in StaffRequest, StaffRequestEnds(p)
  PROVE  /\ \A r \in StaffRequest : Fresh(r)'
         /\ \A s \in Staff \ staffRaced :
              /\ staff[s].state = "deleted" => staff'[s].state = "deleted"
              /\ staff[s].password = "own" => staff'[s].password = "own"
<1> DEFINE w == staffJob[p].who
           copy == staffJob[p].row
<1>1. /\ staff \in [Staff -> StaffRow] /\ staff[w] \in StaffRow
      /\ w \in Staff /\ copy \in StaffRow
      /\ staffJob \in [StaffRequest -> StaffJob]
      /\ Fresh(p) /\ JobSound(p)
  BY DEF StaffInv, StaffTypeOK, RemovalInv, StaffJob
<1>2. /\ staffJob'[p].op = "idle" /\ UNCHANGED staffRaced
      /\ \A r \in StaffRequest : r # p => staffJob'[r] = staffJob[r]
  BY <1>1 DEF StaffRequestEnds, SaveAccepted, SaveUnlocked, SaveChanged, WrongPin,
              RightPin, SignPasswordToken, StaffEnds, IdleStaffJob
<1>3. \A s \in Staff : s # w => staff'[s] = staff[s]
  BY EndWrites
<1>4. ASSUME w \notin staffRaced
      PROVE  /\ staff'[w].state = staff[w].state
             /\ \/ staff'[w].password = staff[w].password
                \/ /\ staff'[w].password = "own"
                   /\ staffJob[p].op \in {"acceptInvite", "changePassword"}
  <2>1. CASE SaveAccepted(p) \/ SaveChanged(p)
    <3>1. /\ staff[w].state = "live" /\ copy.state = "live"
          /\ staffJob[p].op \in {"acceptInvite", "changePassword"}
      BY <1>1, <1>4, <2>1 DEF SaveAccepted, SaveChanged, Working, Fresh, Savers, JobSound
    <3>2. CASE SaveAccepted(p)
      BY <1>1, <3>1, <3>2 DEF SaveAccepted, StaffSaves, StaffRow
    <3>3. CASE SaveChanged(p)
      BY <1>1, <3>1, <3>3 DEF SaveChanged, StaffSaves, StaffRow
    <3>4. QED BY <2>1, <3>2, <3>3
  <2>2. CASE SaveUnlocked(p)
    <3>1. staff[w].state = "live" /\ copy.state = "live" /\ copy.password = staff[w].password
      BY <1>1, <1>4, <2>2 DEF SaveUnlocked, Working, Fresh, Savers, JobSound
    <3>2. QED BY <1>1, <2>2, <3>1 DEF SaveUnlocked, StaffSaves, StaffRow
  <2>3. CASE WrongPin(p) \/ RightPin(p)
    BY <1>1, <2>3 DEF WrongPin, RightPin, StaffRow
  <2>4. CASE staff'[w] = staff[w]
    BY <2>4
  <2>5. QED BY <1>1, <2>1, <2>2, <2>3, <2>4, EndWrites
<1>5. ASSUME NEW r \in StaffRequest PROVE Fresh(r)'
  <2>1. CASE r = p
    BY <1>2, <2>1 DEF Fresh, Savers
  <2>2. CASE r # p /\ staffJob[r].who # w
    <3>1. Fresh(r) /\ staffJob[r].who \in Staff
      BY DEF RemovalInv, StaffInv, StaffTypeOK, StaffJob
    <3>2. QED BY <1>2, <1>3, <2>2, <3>1 DEF Fresh
  <2>3. CASE r # p /\ staffJob[r].who = w
    <3>1. Fresh(r)
      BY DEF RemovalInv
    <3>2. staffJob[r].op \in Savers /\ w \notin staffRaced =>
            staffJob[p].op \notin {"acceptInvite", "changePassword"}
      BY <2>3 DEF RemovalInv, MetIsKnown, Savers
    <3>3. QED BY <1>2, <1>4, <2>3, <3>1, <3>2 DEF Fresh
  <2>4. QED BY <2>1, <2>2, <2>3
<1>6. QED BY <1>3, <1>4, <1>5

\* No removal and no chosen password is undone on a row where no copy that will
\* be saved met another one or a removal, whatever else overlaps
\* (staff.service.ts 224-248, 401-424, 470-489).
THEOREM RemovalLasts ==
  ASSUME StaffAssumption PROVE StaffSpec => RemovedStaysRemoved
<1> DEFINE Lasts == \A s \in Staff \ staffRaced :
                      /\ staff[s].state = "deleted" => staff'[s].state = "deleted"
                      /\ staff[s].password = "own" => staff'[s].password = "own"
<1>1. StaffInit => RemovalInv
  BY RemovalInit
<1>2. ASSUME StaffInv, RemovalInv, StaffNext PROVE RemovalInv' /\ Lasts
  <2>1. MetIsKnown'
    BY <1>2, MeetingKept
  <2>2. ASSUME NEW s \in Staff, StaffStep(s)
        PROVE  (\A r \in StaffRequest : Fresh(r)') /\ Lasts
    <3>1. \A t \in Staff : t # s => staff'[t] = staff[t]
      BY <1>2, <2>2, StepWrites
    <3>2. QED BY <1>2, <2>2, <3>1, StepRemoves
  <2>3. ASSUME NEW p \in StaffRequest, StaffRequestEnds(p)
        PROVE  (\A r \in StaffRequest : Fresh(r)') /\ Lasts
    BY <1>2, <2>3, EndRemoves
  <2>4. QED BY <1>2, <2>1, <2>2, <2>3 DEF StaffNext, RemovalInv
<1>3. RemovalInv /\ UNCHANGED staffVars => RemovalInv'
  BY DEF RemovalInv, MetIsKnown, Fresh, staffVars
<1>4. StaffInv /\ RemovalInv /\ [StaffNext]_staffVars => RemovalInv'
  BY <1>2, <1>3
<1>5. StaffInv /\ RemovalInv /\ [StaffNext]_staffVars => [Lasts]_staffVars
  BY <1>2
<1>6. QED BY <1>1, <1>4, <1>5, StaffInvariant, PTL DEF StaffSpec, RemovedStaysRemoved

-----------------------------------------------------------------------------
(* The number of guesses.  Two requests that overlap share the count, and  *)
(* one that holds an old copy sets it back when it is answered; the lowest *)
(* count in play goes up every time.                                       *)

TwoRequests == \A p, q, r \in StaffRequest : p = q \/ q = r \/ p = r

Guessing(r, s) == staffJob[r].op = "verifyPin" /\ staffJob[r].who = s
Copy(r) == staffJob[r].row.failed

\* Twice the guesses that can have been made when c is the only count in play,
\* when c and d are, and in all.
Twice(c) == c * (2 * PinLockoutThreshold + 1 - c)
Leeway(c, d) == IF c <= d THEN Twice(c) + 2 * (d - c) ELSE Twice(d) + 2 * (c - d)
Top == PinLockoutThreshold * (PinLockoutThreshold + 1) + 2

\* While the account can be read the counts in play are the row's and the copies'.
PinOpen(s) ==
  LET g == guesses[s]
      failed == staff[s].failed
  IN
  /\ failed = PinLockoutThreshold => g = 0
  /\ \A r \in StaffRequest :
       Guessing(r, s) /\ Copy(r) = PinLockoutThreshold => g <= failed
  /\ (\A r \in StaffRequest : ~Guessing(r, s)) => 2 * g <= Twice(failed)
  /\ \A r \in StaffRequest :
       Guessing(r, s) /\ (\A q \in StaffRequest : Guessing(q, s) => q = r)
         => 2 * g <= Leeway(Copy(r), failed)
  /\ \A q, r \in StaffRequest :
       q # r /\ Guessing(q, s) /\ Guessing(r, s) =>
         g = 0 \/ (failed \in {Copy(q), Copy(r)} /\ 2 * g <= Leeway(Copy(q), Copy(r)))

\* Once it is locked nobody reads it, and whoever has read it may still guess once.
PinShut(s) ==
  LET g == guesses[s]
  IN
  /\ 2 * g <= Top
  /\ \A r \in StaffRequest : Guessing(r, s) => 2 * (g + 1) <= Top
  /\ \A q, r \in StaffRequest :
       q # r /\ Guessing(q, s) /\ Guessing(r, s) => 2 * (g + 2) <= Top

PinSound(s) ==
  /\ staff[s].state = "absent" \/ staff[s].authType # "PIN" => guesses[s] = 0
  /\ IF staff[s].lock = "running" THEN PinShut(s) ELSE PinOpen(s)

-----------------------------------------------------------------------------
(* The arithmetic of the counts in play.                                   *)

Count == 0 .. PinLockoutThreshold

\* Another count in play is worth at least its distance.
LEMMA TwiceGrows ==
  ASSUME StaffAssumption, NEW c \in Count, NEW d \in Count, c < d
  PROVE  /\ Twice(c) \in Int /\ Twice(d) \in Int /\ 0 <= Twice(c)
         /\ Twice(c) + 2 * (d - c) <= Twice(d)
<1> PICK k \in Nat : k = PinLockoutThreshold /\ k >= 1
  BY DEF StaffAssumption
<1>1. c \in Nat /\ d \in Nat /\ c <= k /\ d <= k
  BY DEF Count
<1>2. Twice(c) = c * (2 * k + 1 - c) /\ Twice(d) = d * (2 * k + 1 - d)
  BY DEF Twice
<1>3. d * (2 * k + 1 - d) - c * (2 * k + 1 - c) = (d - c) * (2 * k + 1 - c - d)
  BY <1>1
<1>4. d - c >= 1 /\ 2 * k + 1 - c - d >= 2
  BY <1>1
<1>5. \A x, y \in Int : x >= 1 /\ y >= 2 => x * y >= 2 * x
  OBVIOUS
<1>6. (d - c) * (2 * k + 1 - c - d) >= 2 * (d - c)
  BY <1>1, <1>4, <1>5
<1>7. \A x, y \in Int : x >= 0 /\ y >= 0 => x * y >= 0
  OBVIOUS
<1>8. c * (2 * k + 1 - c) >= 0
  BY <1>1, <1>7
<1>9. c * (2 * k + 1 - c) \in Int /\ d * (2 * k + 1 - d) \in Int
  BY <1>1
<1>10. QED BY <1>1, <1>2, <1>3, <1>6, <1>8, <1>9

\* From one count to the next.
LEMMA TwiceNext ==
  ASSUME StaffAssumption, NEW c \in Count, c < PinLockoutThreshold
  PROVE  Twice(c + 1) = Twice(c) + 2 * (PinLockoutThreshold - c)
BY DEF StaffAssumption, Count, Twice

LEMMA TwiceEnds ==
  ASSUME StaffAssumption
  PROVE  /\ Twice(0) = 0 /\ Twice(PinLockoutThreshold) = Top - 2
         /\ Twice(PinLockoutThreshold - 1) = Top - 4
         /\ Top \in Int /\ Top >= 4
<1> PICK k \in Nat : k = PinLockoutThreshold /\ k >= 1
  BY DEF StaffAssumption
<1>1. \A x \in Int : x >= 1 => x * (x + 1) >= 2
  OBVIOUS
<1>2. k * (k + 1) >= 2 /\ k * (k + 1) \in Int
  BY <1>1
<1>3. QED BY <1>2 DEF Twice, Top

LEMMA LeewayBounded ==
  ASSUME StaffAssumption, NEW c \in Count, NEW d \in Count
  PROVE  /\ Leeway(c, d) \in Int /\ 0 <= Leeway(c, d) /\ Leeway(c, d) <= Top - 2
         /\ Leeway(d, c) = Leeway(c, d)
         /\ Leeway(c, c) = Twice(c)
<1> DEFINE K == PinLockoutThreshold
<1>1. /\ K \in Count /\ K \in Nat /\ 0 \in Count
      /\ c \in Nat /\ d \in Nat /\ c <= K /\ d <= K
  BY DEF StaffAssumption, Count
<1>2. \A x, y \in Count : x < y => /\ Twice(x) \in Int /\ Twice(y) \in Int /\ 0 <= Twice(x)
                                   /\ Twice(x) + 2 * (y - x) <= Twice(y)
  BY TwiceGrows
<1>3. Twice(0) = 0 /\ Twice(K) = Top - 2 /\ Top \in Int
  BY TwiceEnds
<1> HIDE DEF K
<1>4. \A x \in Count : Twice(x) \in Int /\ 0 <= Twice(x) /\ Twice(x) <= Top - 2
  <2>1. ASSUME NEW x \in Count, x # 0, x # K
        PROVE  Twice(x) \in Int /\ 0 <= Twice(x) /\ Twice(x) <= Top - 2
    <3>1. 0 < x /\ x < K /\ x \in Nat
      BY <2>1, <1>1 DEF Count, K
    <3>2. QED BY <1>1, <1>2, <1>3, <2>1, <3>1
  <2>2. 0 <= Twice(K) /\ Twice(K) \in Int /\ 0 <= Top - 2
    <3>1. 0 < K
      BY <1>1 DEF StaffAssumption, K
    <3>2. QED BY <1>1, <1>2, <1>3, <3>1
  <2>3. QED BY <1>1, <1>3, <2>1, <2>2
<1>5. CASE c < d
  <2>1. Leeway(c, d) = Twice(c) + 2 * (d - c) /\ Leeway(d, c) = Leeway(c, d)
    BY <1>1, <1>5 DEF Leeway
  <2>2. Leeway(c, c) = Twice(c) + 2 * (c - c)
    BY <1>1 DEF Leeway
  <2>3. /\ Twice(c) \in Int /\ Twice(d) \in Int /\ 0 <= Twice(c)
        /\ Twice(c) + 2 * (d - c) <= Twice(d) /\ Twice(d) <= Top - 2
    BY <1>2, <1>4, <1>5
  <2>4. QED BY <1>1, <1>3, <1>5, <2>1, <2>2, <2>3
<1>6. CASE d < c
  <2>1. Leeway(d, c) = Twice(d) + 2 * (c - d) /\ Leeway(c, d) = Leeway(d, c)
    BY <1>1, <1>6 DEF Leeway
  <2>2. Leeway(c, c) = Twice(c) + 2 * (c - c)
    BY <1>1 DEF Leeway
  <2>3. /\ Twice(d) \in Int /\ Twice(c) \in Int /\ 0 <= Twice(d)
        /\ Twice(d) + 2 * (c - d) <= Twice(c) /\ Twice(c) <= Top - 2
    BY <1>2, <1>4, <1>6
  <2>4. QED BY <1>1, <1>3, <1>6, <2>1, <2>2, <2>3
<1>7. CASE c = d
  BY <1>1, <1>4, <1>7 DEF Leeway
<1>8. QED BY <1>1, <1>5, <1>6, <1>7

\* Any count but zero leaves room for a guess.
LEMMA TwiceIsRoomy ==
  ASSUME StaffAssumption, NEW c \in Count
  PROVE  Twice(c) \in Int /\ 2 * c <= Twice(c)
<1>1. 0 \in Count /\ c \in Nat
  BY DEF StaffAssumption, Count
<1>2. CASE c = 0
  BY <1>2, TwiceEnds
<1>3. CASE c # 0
  <2>1. 0 < c
    BY <1>1, <1>3
  <2>2. QED BY <1>1, <2>1, TwiceGrows, TwiceEnds
<1>4. QED BY <1>2, <1>3

\* The guess of the only request, that read the count c, when the row says f.
LEMMA GuessAlone ==
  ASSUME StaffAssumption, NEW c \in Count, NEW f \in Count, NEW g \in Nat,
         c + 1 < PinLockoutThreshold, 2 * g <= Leeway(c, f),
         f = PinLockoutThreshold => g = 0
  PROVE  2 * (g + 1) <= Twice(c + 1)
<1> PICK k \in Nat : k = PinLockoutThreshold /\ k >= 1
  BY DEF StaffAssumption
<1>1. c \in Nat /\ f \in Nat /\ f <= k /\ c + 1 \in Count /\ c < k /\ c + 1 < k
  BY DEF Count
<1>2. Twice(c + 1) = Twice(c) + 2 * (k - c) /\ Twice(c) \in Int /\ Twice(c + 1) \in Int
  BY <1>1, TwiceNext, TwiceIsRoomy
<1>3. CASE f = k
  BY <1>1, <1>2, <1>3, TwiceIsRoomy
<1>4. CASE c <= f /\ f < k
  BY <1>1, <1>2, <1>4 DEF Leeway
<1>5. CASE f < c
  <2>1. Leeway(c, f) = Twice(f) + 2 * (c - f)
    BY <1>1, <1>5 DEF Leeway
  <2>2. Twice(f) + 2 * (c - f) <= Twice(c) /\ Twice(f) \in Int
    BY <1>5, TwiceGrows
  <2>3. QED BY <1>1, <1>2, <2>1, <2>2
<1>6. QED BY <1>1, <1>3, <1>4, <1>5

\* The guess of one of two, that read c, when the other has read d.
LEMMA GuessOfTwo ==
  ASSUME StaffAssumption, NEW c \in Count, NEW d \in Count, NEW f \in Count, NEW g \in Nat,
         c + 1 < PinLockoutThreshold,
         f = PinLockoutThreshold => g = 0,
         d = PinLockoutThreshold => g <= f,
         g = 0 \/ (f \in {c, d} /\ 2 * g <= Leeway(c, d))
  PROVE  /\ 2 * (g + 1) <= Leeway(d, c + 1)
         /\ d = PinLockoutThreshold => g + 1 <= c + 1
<1> PICK k \in Nat : k = PinLockoutThreshold /\ k >= 1
  BY DEF StaffAssumption
<1>1. /\ c \in Nat /\ d \in Nat /\ f \in Nat /\ f <= k /\ d <= k
      /\ c + 1 \in Count /\ c < k /\ c + 1 < k
  BY DEF Count
<1>2. /\ Twice(c + 1) = Twice(c) + 2 * (k - c) /\ Twice(c) \in Int /\ Twice(c + 1) \in Int
      /\ 2 * (c + 1) <= Twice(c + 1) /\ Twice(d) \in Int /\ 2 * d <= Twice(d)
  BY <1>1, TwiceNext, TwiceIsRoomy
<1>3. CASE d = k
  <2>1. g <= c
    BY <1>1, <1>3
  <2>2. Leeway(d, c + 1) = Twice(c + 1) + 2 * (k - (c + 1))
    BY <1>1, <1>3 DEF Leeway
  <2>3. QED BY <1>1, <1>2, <2>1, <2>2
<1>4. CASE g = 0 /\ d # k
  <2>1. CASE d <= c + 1
    BY <1>1, <1>2, <1>4, <2>1 DEF Leeway
  <2>2. CASE d > c + 1
    BY <1>1, <1>2, <1>4, <2>2 DEF Leeway
  <2>3. QED BY <1>1, <1>4, <2>1, <2>2
<1>5. CASE g # 0 /\ c < d /\ d # k
  <2>1. Leeway(c, d) = Twice(c) + 2 * (d - c)
    BY <1>1, <1>5 DEF Leeway
  <2>2. Leeway(d, c + 1) = Twice(c + 1) + 2 * (d - (c + 1))
    BY <1>1, <1>5 DEF Leeway
  <2>3. QED BY <1>1, <1>2, <1>5, <2>1, <2>2
<1>6. CASE g # 0 /\ d <= c
  <2>1. Leeway(c, d) = Twice(d) + 2 * (c - d)
    BY <1>1, <1>2, <1>6 DEF Leeway
  <2>2. Leeway(d, c + 1) = Twice(d) + 2 * (c + 1 - d)
    BY <1>1, <1>6 DEF Leeway
  <2>3. QED BY <1>1, <1>2, <1>6, <2>1, <2>2
<1>7. QED BY <1>1, <1>3, <1>4, <1>5, <1>6

\* The guess that locks, and the other's that may still follow.
LEMMA LastOfTwo ==
  ASSUME StaffAssumption, NEW c \in Count, NEW d \in Count, NEW f \in Count, NEW g \in Nat,
         c + 1 >= PinLockoutThreshold,
         f = PinLockoutThreshold => g = 0,
         c = PinLockoutThreshold => g <= f,
         d = PinLockoutThreshold => g <= f,
         g = 0 \/ (f \in {c, d} /\ 2 * g <= Leeway(c, d))
  PROVE  2 * (g + 2) <= Top
<1> PICK k \in Nat : k = PinLockoutThreshold /\ k >= 1
  BY DEF StaffAssumption
<1>1. /\ c \in Nat /\ d \in Nat /\ f \in Nat /\ f <= k /\ d <= k /\ c <= k
      /\ k - 1 \in Count
  BY DEF Count
<1>2. Top \in Int /\ Top >= 4 /\ Twice(k - 1) = Top - 4
  BY TwiceEnds
<1>3. 2 * (k - 1) <= Twice(k - 1)
  BY <1>1, TwiceIsRoomy
<1>4. CASE g = 0
  BY <1>2, <1>4
<1>5. CASE g # 0 /\ (c = k \/ d = k)
  <2>1. g <= k - 1
    BY <1>1, <1>5
  <2>2. QED BY <1>1, <1>2, <1>3, <2>1
<1>6. CASE g # 0 /\ c # k /\ d # k
  <2>1. c = k - 1 /\ d <= c
    BY <1>1, <1>6
  <2>2. Leeway(c, d) <= Twice(c) /\ Leeway(c, d) \in Int
    <3>1. CASE d = c
      BY <3>1, LeewayBounded, TwiceIsRoomy
    <3>2. CASE d < c
      BY <1>1, <3>2, TwiceGrows, LeewayBounded DEF Leeway
    <3>3. QED BY <1>1, <2>1, <3>1, <3>2
  <2>3. QED BY <1>1, <1>2, <1>6, <2>1, <2>2
<1>7. QED BY <1>4, <1>5, <1>6

\* The right PIN of one that read no count at all leaves the row as it was.
LEMMA RightOfTwo ==
  ASSUME StaffAssumption, NEW d \in Count, NEW f \in Count, NEW g \in Nat
  PROVE  /\ 2 * g <= Leeway(0, f) => 2 * g <= Twice(f)
         /\ g = 0 \/ (f \in {0, d} /\ 2 * g <= Leeway(0, d)) => 2 * g <= Leeway(d, f)
<1>1. 0 \in Count /\ d \in Nat /\ f \in Nat
  BY DEF StaffAssumption, Count
<1>2. \A x \in Count : Leeway(0, x) = 2 * x /\ Leeway(x, 0) = 2 * x
  <2>1. \A x \in Count : x \in Nat
    BY DEF Count
  <2>2. \A x \in Count : Leeway(0, x) = 2 * x
    BY <2>1, TwiceEnds DEF Leeway
  <2>3. QED BY <1>1, <2>2, LeewayBounded
<1>3. /\ 2 * f <= Twice(f) /\ Twice(f) \in Int /\ 2 * d <= Twice(d) /\ Twice(d) \in Int
      /\ Leeway(d, d) = Twice(d) /\ Leeway(d, f) \in Int /\ 0 <= Leeway(d, f)
  BY TwiceIsRoomy, LeewayBounded
<1>4. QED BY <1>1, <1>2, <1>3

-----------------------------------------------------------------------------
(* The count stays within its room.                                        *)

PinInv == StaffInv /\ \A s \in Staff : PinSound(s)

\* What the lemmas below need to know of the types.
LEMMA PinTypes ==
  ASSUME StaffAssumption, StaffInv
  PROVE  /\ \A s \in Staff : /\ staff[s].failed \in Count /\ guesses[s] \in Nat
                             /\ staff[s] \in StaffRow
         /\ \A r \in StaffRequest : /\ Copy(r) \in Count /\ staffJob[r].who \in Staff
                                    /\ staffJob[r].row \in StaffRow
         /\ \A x \in Count : x \in Nat /\ x <= PinLockoutThreshold
         /\ 0 \in Count /\ PinLockoutThreshold \in Count
BY DEF StaffAssumption, StaffInv, StaffTypeOK, StaffRow, StaffJob, Copy, Count

\* An account with no guesses has room.
LEMMA ZeroIsFine ==
  ASSUME StaffAssumption, NEW s \in Staff, StaffInv', guesses'[s] = 0
  PROVE  PinSound(s)'
<1>1. /\ staff'[s].failed \in Count
      /\ \A r \in StaffRequest : Copy(r)' \in Count
      /\ 0 <= staff'[s].failed
  <2>1. /\ \A t \in Staff : staff'[t].failed \in 0 .. PinLockoutThreshold
        /\ \A r \in StaffRequest : staffJob'[r].row.failed \in 0 .. PinLockoutThreshold
    BY DEF StaffInv, StaffTypeOK, StaffRow, StaffJob
  <2>2. QED BY <2>1 DEF Copy, Count, StaffAssumption
<1>2. PinShut(s)'
  BY <1>1, TwiceEnds DEF PinShut
<1>3. PinOpen(s)'
  <2>1. 2 * guesses'[s] = 0
    OBVIOUS
  <2>2. \A x \in Count : Twice(x) \in Int /\ 0 <= Twice(x)
    BY TwiceIsRoomy DEF Count
  <2>3. \A x, y \in Count : Leeway(x, y) \in Int /\ 0 <= Leeway(x, y)
    BY LeewayBounded
  <2>4. 0 <= Twice(staff'[s].failed)
    BY <1>1, <2>2
  <2>5. \A r \in StaffRequest : 0 <= Leeway(Copy(r)', staff'[s].failed)
    BY <1>1, <2>3
  <2>6. QED BY <1>1, <2>1, <2>4, <2>5 DEF PinOpen
<1>4. QED BY <1>2, <1>3 DEF PinSound

\* A step that leaves the lock, the count and the attempts of an account alone.
LEMMA PinFrame ==
  ASSUME NEW s \in Staff, PinSound(s),
         staff'[s].lock = staff[s].lock, staff'[s].failed = staff[s].failed,
         staff'[s].authType = staff[s].authType,
         staff'[s].state = "absent" => staff[s].state = "absent",
         guesses'[s] = guesses[s],
         \A r \in StaffRequest : /\ Guessing(r, s)' <=> Guessing(r, s)
                                 /\ Guessing(r, s) => Copy(r)' = Copy(r)
  PROVE  PinSound(s)'
<1>1. PinShut(s) => PinShut(s)'
  BY DEF PinShut
<1>2. PinOpen(s) => PinOpen(s)'
  <2> SUFFICES ASSUME PinOpen(s) PROVE PinOpen(s)'
    OBVIOUS
  <2>1. /\ staff'[s].failed = PinLockoutThreshold => guesses'[s] = 0
        /\ \A r \in StaffRequest :
             Guessing(r, s)' /\ Copy(r)' = PinLockoutThreshold => guesses'[s] <= staff'[s].failed
        /\ (\A r \in StaffRequest : ~Guessing(r, s)') => 2 * guesses'[s] <= Twice(staff'[s].failed)
    BY DEF PinOpen
  <2>2. \A r \in StaffRequest :
          Guessing(r, s)' /\ (\A q \in StaffRequest : Guessing(q, s)' => q = r)
            => 2 * guesses'[s] <= Leeway(Copy(r)', staff'[s].failed)
    BY DEF PinOpen
  <2>3. \A q, r \in StaffRequest :
          q # r /\ Guessing(q, s)' /\ Guessing(r, s)' =>
            \/ guesses'[s] = 0
            \/ /\ staff'[s].failed \in {Copy(q)', Copy(r)'}
               /\ 2 * guesses'[s] <= Leeway(Copy(q)', Copy(r)')
    BY DEF PinOpen
  <2>4. QED BY <2>1, <2>2, <2>3 DEF PinOpen
<1>3. QED BY <1>1, <1>2 DEF PinSound

\* An attempt begins: it copies the count of an account that is open.
LEMMA PinRead ==
  ASSUME StaffAssumption, TwoRequests, PinInv, NEW r \in StaffRequest, NEW s \in Staff,
         VerifyPin(r, s)
  PROVE  PinSound(s)'
<1>1. /\ staff[s].lock # "running" /\ staffJob[r].op = "idle"
      /\ UNCHANGED <<staff, guesses>>
      /\ Guessing(r, s)' /\ ~Guessing(r, s) /\ Copy(r)' = staff[s].failed
      /\ \A q \in StaffRequest : q # r => /\ Guessing(q, s)' <=> Guessing(q, s)
                                          /\ Copy(q)' = Copy(q)
  BY DEF PinInv, StaffInv, StaffTypeOK, VerifyPin, StaffReads, Working, Guessing, Copy
<1>2. PinOpen(s) /\ (staff[s].state = "absent" \/ staff[s].authType # "PIN" => guesses[s] = 0)
  BY <1>1 DEF PinInv, PinSound
<1> DEFINE f == staff[s].failed
           g == guesses[s]
<1>3. /\ f \in Count /\ g \in Nat /\ \A q \in StaffRequest : Copy(q) \in Count
      /\ f \in Nat /\ Leeway(f, f) = Twice(f)
      /\ \A q \in StaffRequest : Leeway(Copy(q), f) = Leeway(f, Copy(q))
  BY PinTypes, LeewayBounded DEF PinInv
<1>4. \A q \in StaffRequest : Guessing(q, s)' /\ Copy(q)' = PinLockoutThreshold => g <= f
  BY <1>1, <1>2, <1>3 DEF PinOpen
<1>5. ASSUME NEW q \in StaffRequest, Guessing(q, s)',
             \A x \in StaffRequest : Guessing(x, s)' => x = q
      PROVE  2 * g <= Leeway(Copy(q)', f)
  <2>1. q = r /\ \A x \in StaffRequest : ~Guessing(x, s)
    BY <1>1, <1>5
  <2>2. 2 * g <= Twice(f)
    BY <1>2, <2>1 DEF PinOpen
  <2>3. QED BY <1>1, <1>3, <2>1, <2>2
<1>6. ASSUME NEW q \in StaffRequest, q # r, Guessing(q, s)
      PROVE  2 * g <= Leeway(Copy(q), f)
  <2>1. \A x \in StaffRequest : Guessing(x, s) => x = q
    BY <1>1, <1>6 DEF TwoRequests
  <2>2. QED BY <1>2, <1>6, <2>1 DEF PinOpen
<1>7. ASSUME NEW q \in StaffRequest, NEW p \in StaffRequest, q # p,
             Guessing(q, s)', Guessing(p, s)'
      PROVE  f \in {Copy(q)', Copy(p)'} /\ 2 * g <= Leeway(Copy(q)', Copy(p)')
  <2>1. q = r \/ p = r
    BY <1>7 DEF TwoRequests
  <2>2. CASE q = r
    BY <1>1, <1>3, <1>6, <1>7, <2>2
  <2>3. CASE p = r
    BY <1>1, <1>3, <1>6, <1>7, <2>3
  <2>4. QED BY <2>1, <2>2, <2>3
<1>8. PinOpen(s)'
  BY <1>1, <1>2, <1>4, <1>5, <1>7 DEF PinOpen
<1>9. QED BY <1>1, <1>2, <1>8 DEF PinSound

\* What the end of r leaves of the attempts: all but its own.
LEMMA OthersGuessOn ==
  ASSUME StaffInv, NEW r \in StaffRequest, NEW s \in Staff, StaffEnds(r)
  PROVE  /\ ~Guessing(r, s)'
         /\ \A q \in StaffRequest : q # r => /\ Guessing(q, s)' <=> Guessing(q, s)
                                             /\ Copy(q)' = Copy(q)
BY DEF StaffInv, StaffTypeOK, StaffEnds, IdleStaffJob, Guessing, Copy

\* A wrong PIN, on an account that is open.
LEMMA PinMissed ==
  ASSUME StaffAssumption, TwoRequests, PinInv, NEW r \in StaffRequest, WrongPin(r),
         NEW s \in Staff, s = staffJob[r].who, staff[s].lock # "running"
  PROVE  PinSound(s)'
<1> DEFINE f == staff[s].failed
           g == guesses[s]
           c == Copy(r)
<1>1. /\ f \in Count /\ g \in Nat /\ c \in Count
      /\ \A q \in StaffRequest : Copy(q) \in Count
      /\ f \in Nat /\ c \in Nat
  BY PinTypes DEF PinInv
<1>2. Guessing(r, s) /\ StaffEnds(r) /\ guesses'[s] = g + 1
  BY DEF WrongPin, Working, Guessing, PinInv, StaffInv, StaffTypeOK
<1>3. /\ staff[s] \in StaffRow
      /\ staff[s].state # "absent" /\ staff[s].authType = "PIN"
  <2>1. staff[s] \in StaffRow /\ JobSound(r)
    BY PinTypes DEF PinInv, StaffInv
  <2>2. QED BY <1>2, <2>1 DEF JobSound, SameDoor, Guessing
<1>4. /\ staff'[s].state = staff[s].state /\ staff'[s].authType = staff[s].authType
      /\ IF c + 1 >= PinLockoutThreshold
         THEN staff'[s].failed = PinLockoutThreshold /\ staff'[s].lock = "running"
         ELSE staff'[s].failed = c + 1 /\ staff'[s].lock = staff[s].lock
  BY <1>3 DEF WrongPin, PinInv, StaffInv, StaffTypeOK, StaffRow, Copy
<1>5. PinOpen(s)
  BY DEF PinInv, PinSound
<1>6. /\ ~Guessing(r, s)'
      /\ \A q \in StaffRequest : q # r => /\ Guessing(q, s)' <=> Guessing(q, s)
                                          /\ Copy(q)' = Copy(q)
  BY <1>2, OthersGuessOn DEF PinInv
<1>7. f = PinLockoutThreshold => g = 0
  BY <1>5 DEF PinOpen
<1>8. \A q \in StaffRequest : Guessing(q, s) /\ Copy(q) = PinLockoutThreshold => g <= f
  BY <1>5 DEF PinOpen
<1>9. (\A q \in StaffRequest : Guessing(q, s) => q = r) => 2 * g <= Leeway(c, f)
  BY <1>2, <1>5 DEF PinOpen
<1>10. \A q \in StaffRequest : q # r /\ Guessing(q, s) =>
         g = 0 \/ (f \in {c, Copy(q)} /\ 2 * g <= Leeway(c, Copy(q)))
  BY <1>2, <1>5 DEF PinOpen
<1>11. \A p, q \in StaffRequest : Guessing(p, s)' /\ Guessing(q, s)' => p = q
  BY <1>6 DEF TwoRequests
<1>12. (\A q \in StaffRequest : ~Guessing(q, s)') => \A q \in StaffRequest : Guessing(q, s) => q = r
  BY <1>6
<1>13. Top \in Int /\ Leeway(c, f) \in Int /\ Leeway(c, f) <= Top - 2
  BY <1>1, TwiceEnds, LeewayBounded
<1>14. CASE c + 1 >= PinLockoutThreshold
  <2>1. ASSUME NEW q \in StaffRequest, Guessing(q, s)' PROVE 2 * (g + 2) <= Top
    <3>1. q # r /\ Guessing(q, s) /\ Copy(q) \in Count
      BY <1>1, <1>6, <2>1
    <3>2. QED BY <1>1, <1>2, <1>7, <1>8, <1>10, <1>14, <3>1, LastOfTwo
  <2>2. 2 * (g + 1) <= Top
    <3>1. CASE \E q \in StaffRequest : Guessing(q, s)'
      BY <1>1, <1>13, <2>1, <3>1
    <3>2. CASE \A q \in StaffRequest : ~Guessing(q, s)'
      BY <1>1, <1>9, <1>12, <1>13, <3>2
    <3>3. QED BY <3>1, <3>2
  <2>3. 2 * ((g + 1) + 1) = 2 * (g + 2)
    BY <1>1
  <2>4. PinShut(s)'
    BY <1>2, <1>11, <2>1, <2>2, <2>3 DEF PinShut
  <2>5. QED BY <1>3, <1>4, <1>14, <2>4 DEF PinSound
<1>15. CASE ~(c + 1 >= PinLockoutThreshold)
  <2>1. c + 1 < PinLockoutThreshold /\ staff'[s].failed = c + 1 /\ staff'[s].lock # "running"
    BY <1>1, <1>4, <1>15 DEF StaffAssumption
  <2>2. (\A q \in StaffRequest : ~Guessing(q, s)') => 2 * (g + 1) <= Twice(c + 1)
    BY <1>1, <1>7, <1>9, <1>12, <2>1, GuessAlone
  <2>3. ASSUME NEW q \in StaffRequest, Guessing(q, s)'
        PROVE  /\ 2 * (g + 1) <= Leeway(Copy(q)', c + 1)
               /\ Copy(q)' = PinLockoutThreshold => g + 1 <= c + 1
    <3>1. q # r /\ Guessing(q, s) /\ Copy(q) \in Count /\ Copy(q)' = Copy(q)
      BY <1>1, <1>6, <2>3
    <3>2. g = 0 \/ (f \in {c, Copy(q)} /\ 2 * g <= Leeway(c, Copy(q)))
      BY <1>10, <3>1
    <3>3. Copy(q) = PinLockoutThreshold => g <= f
      BY <1>8, <3>1
    <3>4. QED BY <1>1, <1>7, <2>1, <3>1, <3>2, <3>3, GuessOfTwo
  <2>4. c + 1 # PinLockoutThreshold
    BY <1>1, <2>1
  <2>5. PinOpen(s)'
    BY <1>2, <1>11, <2>1, <2>2, <2>3, <2>4 DEF PinOpen
  <2>6. QED BY <1>3, <1>4, <2>1, <2>5 DEF PinSound
<1>16. QED BY <1>14, <1>15

\* A wrong PIN, on an account that was locked meanwhile.
LEMMA PinMissedLate ==
  ASSUME StaffAssumption, TwoRequests, PinInv, NEW r \in StaffRequest, WrongPin(r),
         NEW s \in Staff, s = staffJob[r].who, staff[s].lock = "running"
  PROVE  PinSound(s)'
<1> DEFINE g == guesses[s]
<1>1. /\ Guessing(r, s) /\ StaffEnds(r) /\ guesses'[s] = g + 1 /\ g \in Nat
      /\ staff[s] \in StaffRow
  BY PinTypes DEF WrongPin, Working, Guessing, PinInv, StaffInv, StaffTypeOK
<1>2. staff[s].state # "absent" /\ staff[s].authType = "PIN"
  BY <1>1 DEF PinInv, StaffInv, JobSound, SameDoor, Guessing
<1>3. /\ staff'[s].state = staff[s].state /\ staff'[s].authType = staff[s].authType
      /\ staff'[s].lock = "running"
  BY <1>1 DEF WrongPin, PinInv, StaffInv, StaffTypeOK, StaffRow
<1>4. PinShut(s)
  BY DEF PinInv, PinSound
<1>5. /\ ~Guessing(r, s)'
      /\ \A q \in StaffRequest : q # r => /\ Guessing(q, s)' <=> Guessing(q, s)
                                          /\ Copy(q)' = Copy(q)
  BY <1>1, OthersGuessOn DEF PinInv
<1>6. \A p, q \in StaffRequest : Guessing(p, s)' /\ Guessing(q, s)' => p = q
  BY <1>5 DEF TwoRequests
<1>7. 2 * (g + 1) <= Top
  BY <1>1, <1>4 DEF PinShut
<1>8. ASSUME NEW q \in StaffRequest, Guessing(q, s)' PROVE 2 * ((g + 1) + 1) <= Top
  <2>1. q # r /\ Guessing(q, s)
    BY <1>5, <1>8
  <2>2. 2 * (g + 2) <= Top
    BY <1>1, <1>4, <2>1 DEF PinShut
  <2>3. (g + 1) + 1 = g + 2
    BY <1>1
  <2>4. QED BY <2>2, <2>3
<1>9. PinShut(s)'
  BY <1>1, <1>6, <1>7, <1>8 DEF PinShut
<1>10. QED BY <1>2, <1>3, <1>9 DEF PinSound

\* The right PIN of a request that read no count: the row stays, the attempt ends.
LEMMA PinHit ==
  ASSUME StaffAssumption, TwoRequests, PinInv, NEW r \in StaffRequest, StaffEnds(r),
         NEW s \in Staff, Guessing(r, s), Copy(r) = 0, UNCHANGED <<staff, guesses>>
  PROVE  PinSound(s)'
<1> DEFINE f == staff[s].failed
           g == guesses[s]
<1>1. /\ f \in Count /\ g \in Nat /\ \A q \in StaffRequest : Copy(q) \in Count
  BY PinTypes DEF PinInv
<1>2. /\ ~Guessing(r, s)'
      /\ \A q \in StaffRequest : q # r => /\ Guessing(q, s)' <=> Guessing(q, s)
                                          /\ Copy(q)' = Copy(q)
  BY OthersGuessOn DEF PinInv
<1>3. \A p, q \in StaffRequest : Guessing(p, s)' /\ Guessing(q, s)' => p = q
  BY <1>2 DEF TwoRequests
<1>4. PinShut(s) => PinShut(s)'
  BY <1>2, <1>3 DEF PinShut
<1>5. ASSUME PinOpen(s) PROVE PinOpen(s)'
  <2>1. f = PinLockoutThreshold => g = 0
    BY <1>5 DEF PinOpen
  <2>2. \A q \in StaffRequest : Guessing(q, s)' /\ Copy(q)' = PinLockoutThreshold => g <= f
    BY <1>2, <1>5 DEF PinOpen
  <2>3. ASSUME \A q \in StaffRequest : ~Guessing(q, s)' PROVE 2 * g <= Twice(f)
    <3>1. \A q \in StaffRequest : Guessing(q, s) => q = r
      BY <1>2, <2>3
    <3>2. 2 * g <= Leeway(0, f)
      BY <1>5, <3>1 DEF PinOpen
    <3>3. QED BY <1>1, <3>2, RightOfTwo
  <2>4. ASSUME NEW q \in StaffRequest, Guessing(q, s)' PROVE 2 * g <= Leeway(Copy(q)', f)
    <3>1. q # r /\ Guessing(q, s) /\ Copy(q)' = Copy(q)
      BY <1>2, <2>4
    <3>2. g = 0 \/ (f \in {0, Copy(q)} /\ 2 * g <= Leeway(0, Copy(q)))
      BY <1>5, <3>1 DEF PinOpen
    <3>3. QED BY <1>1, <3>1, <3>2, RightOfTwo
  <2>5. QED BY <1>3, <2>1, <2>2, <2>3, <2>4 DEF PinOpen
<1>6. QED BY <1>4, <1>5 DEF PinInv, PinSound

LEMMA PinStep ==
  ASSUME StaffAssumption, TwoRequests, PinInv, StaffInv',
         NEW s \in Staff, StaffStep(s), NEW t \in Staff
  PROVE  PinSound(t)'
<1>1. /\ PinSound(t) /\ staff \in [Staff -> StaffRow] /\ staff[s] \in StaffRow
      /\ guesses \in [Staff -> Nat] /\ staffJob \in [StaffRequest -> StaffJob]
  BY DEF PinInv, StaffInv, StaffTypeOK
<1>2. CASE UNCHANGED <<guesses, staffJob>>
  <2>1. \A r \in StaffRequest : Guessing(r, t)' = Guessing(r, t) /\ Copy(r)' = Copy(r)
    BY <1>2 DEF Guessing, Copy
  <2>2. CASE staff'[t] = staff[t]
    BY <1>1, <1>2, <2>1, <2>2, PinFrame
  <2>3. CASE staff[t].state = "absent"
    BY <1>1, <1>2, <2>3, ZeroIsFine DEF PinSound
  <2>4. ASSUME /\ staff'[t].lock = staff[t].lock /\ staff'[t].failed = staff[t].failed
               /\ staff'[t].authType = staff[t].authType
               /\ staff'[t].state = "absent" => staff[t].state = "absent"
        PROVE  PinSound(t)'
    BY <1>1, <1>2, <2>1, <2>4, PinFrame
  <2>5. CASE t = s /\ staff'[s] = [staff[s] EXCEPT !.invite = "expired"]
    BY <1>1, <2>4, <2>5 DEF StaffRow
  <2>6. CASE t = s /\ staff'[s] = [staff[s] EXCEPT !.state = "deleted"]
    BY <1>1, <2>4, <2>6 DEF StaffRow
  <2>7. ASSUME NEW active \in BOOLEAN, t = s, staff'[s] = [staff[s] EXCEPT !.isActive = active]
        PROVE  PinSound(t)'
    BY <1>1, <2>4, <2>7 DEF StaffRow
  <2>8. CASE t = s /\ LockLapses(s)
    BY <1>1, <2>8, ZeroIsFine DEF LockLapses
  <2>9. QED BY <2>2, <2>3, <2>5, <2>6, <2>7, <2>8, StepWrites DEF PinInv
<1>3. CASE LockLapses(s)
  <2>1. CASE t = s
    BY <1>1, <1>3, <2>1, ZeroIsFine DEF LockLapses
  <2>2. CASE t # s
    <3>1. /\ staff'[t] = staff[t] /\ guesses'[t] = guesses[t]
          /\ \A r \in StaffRequest : Guessing(r, t)' = Guessing(r, t) /\ Copy(r)' = Copy(r)
      BY <1>1, <1>3, <2>2 DEF LockLapses, Guessing, Copy
    <3>2. QED BY <1>1, <3>1, PinFrame
  <2>3. QED BY <2>1, <2>2
<1>4. ASSUME NEW r \in StaffRequest, NEW op \in StaffOps, StaffReads(r, op, s),
             op # "verifyPin" \/ t # s
      PROVE  PinSound(t)'
  <2>1. /\ UNCHANGED <<staff, guesses>>
        /\ \A q \in StaffRequest : /\ Guessing(q, t)' <=> Guessing(q, t)
                                   /\ Guessing(q, t) => Copy(q)' = Copy(q)
    <3>1. ASSUME NEW q \in StaffRequest
          PROVE  /\ Guessing(q, t)' <=> Guessing(q, t)
                 /\ Guessing(q, t) => Copy(q)' = Copy(q)
      <4>1. CASE q = r
        BY <1>1, <1>4, <4>1 DEF StaffReads, Working, Guessing, Copy
      <4>2. CASE q # r
        BY <1>1, <1>4, <4>2 DEF StaffReads, Working, Guessing, Copy
      <4>3. QED BY <4>1, <4>2
    <3>2. QED BY <1>4, <3>1 DEF StaffReads
  <2>2. QED BY <1>1, <2>1, PinFrame
<1>5. ASSUME NEW r \in StaffRequest, VerifyPin(r, s) PROVE PinSound(t)'
  <2>1. CASE t = s
    BY <1>5, <2>1, PinRead
  <2>2. CASE t # s
    BY <1>4, <1>5, <2>2 DEF VerifyPin, StaffOps
  <2>3. QED BY <2>1, <2>2
<1>6. ASSUME NEW r \in StaffRequest,
             \/ AcceptInvite(r, s) \/ UnlockStaff(r, s)
             \/ LoginWithPassword(r, s) \/ ChangePassword(r, s)
      PROVE  PinSound(t)'
  BY <1>4, <1>6 DEF AcceptInvite, UnlockStaff, LoginWithPassword, ChangePassword, StaffOps
<1>7. \/ UNCHANGED <<guesses, staffJob>>
      \/ LockLapses(s)
      \/ \E r \in StaffRequest :
           \/ AcceptInvite(r, s) \/ UnlockStaff(r, s)
           \/ LoginStaffBySlug(r, s) \/ ChangePassword(r, s)
  BY DEF StaffStep, CreateWithPin, CreateWithPassword, CreateWithInvite, StaffInsert,
         InviteExpires, RemoveStaff, UpdateStaff
<1>8. QED BY <1>2, <1>3, <1>5, <1>6, <1>7 DEF LoginStaffBySlug

\* The end of a request, seen from another account than its own.
LEMMA PinElsewhere ==
  ASSUME StaffInv, NEW r \in StaffRequest, StaffRequestEnds(r),
         NEW t \in Staff, t # staffJob[r].who, PinSound(t)
  PROVE  PinSound(t)'
<1>1. /\ staffJob[r].who \in Staff /\ StaffEnds(r)
      /\ staff \in [Staff -> StaffRow] /\ guesses \in [Staff -> Nat]
  BY DEF StaffInv, StaffTypeOK, StaffJob, StaffRequestEnds, SaveAccepted, SaveUnlocked,
         SaveChanged, WrongPin, RightPin, SignPasswordToken
<1>2. staff'[t] = staff[t]
  BY EndWrites
<1>3. guesses'[t] = guesses[t]
  BY <1>1 DEF StaffRequestEnds, SaveAccepted, SaveUnlocked, SaveChanged, WrongPin, RightPin,
              SignPasswordToken
<1>4. \A q \in StaffRequest : /\ Guessing(q, t)' <=> Guessing(q, t)
                              /\ Guessing(q, t) => Copy(q)' = Copy(q)
  <2>1. ~Guessing(r, t)
    BY DEF Guessing
  <2>2. QED BY <1>1, <2>1, OthersGuessOn
<1>5. QED BY <1>2, <1>3, <1>4, PinFrame

LEMMA PinEnd ==
  ASSUME StaffAssumption, TwoRequests, PinInv, StaffInv',
         NEW r \in StaffRequest, StaffRequestEnds(r),
         NEW s \in Staff, s = staffJob[r].who
  PROVE  PinSound(s)'
<1> DEFINE copy == staffJob[r].row
<1>1. /\ JobSound(r) /\ PinSound(s) /\ guesses \in [Staff -> Nat]
      /\ staff \in [Staff -> StaffRow]
  BY DEF PinInv, StaffInv, StaffTypeOK
<1>2. CASE SaveAccepted(r) \/ SaveChanged(r)
  <2>1. copy.authType # "PIN" /\ SameDoor(copy, staff[s])
    BY <1>1, <1>2 DEF SaveAccepted, SaveChanged, Working, JobSound, Consistent
  <2>2. guesses'[s] = 0
    BY <1>1, <1>2, <2>1 DEF SameDoor, PinSound, SaveAccepted, SaveChanged
  <2>3. QED BY <2>2, ZeroIsFine
<1>3. CASE SaveUnlocked(r)
  BY <1>1, <1>3, ZeroIsFine DEF SaveUnlocked
<1>4. CASE WrongPin(r)
  BY <1>4, PinMissed, PinMissedLate
<1>5. CASE RightPin(r)
  <2>1. CASE copy.failed > 0 \/ copy.lock # "none"
    BY <1>1, <1>5, <2>1, ZeroIsFine DEF RightPin
  <2>2. CASE ~(copy.failed > 0 \/ copy.lock # "none")
    <3>1. Copy(r) = 0
      BY <2>2, PinTypes DEF PinInv, Copy
    <3>2. /\ UNCHANGED <<staff, guesses>> /\ StaffEnds(r) /\ Guessing(r, s)
      BY <1>5, <2>2 DEF RightPin, Working, Guessing
    <3>3. QED BY <3>1, <3>2, PinHit
  <2>3. QED BY <2>1, <2>2
<1>6. CASE SignPasswordToken(r)
  <2>1. UNCHANGED <<staff, guesses>> /\ StaffEnds(r) /\ ~Guessing(r, s)
    BY <1>6 DEF SignPasswordToken, Working, Guessing
  <2>2. \A q \in StaffRequest : /\ Guessing(q, s)' <=> Guessing(q, s)
                                /\ Guessing(q, s) => Copy(q)' = Copy(q)
    BY <2>1, OthersGuessOn DEF PinInv
  <2>3. QED BY <1>1, <2>1, <2>2, PinFrame
<1>7. QED BY <1>2, <1>3, <1>4, <1>5, <1>6 DEF StaffRequestEnds

\* The room is never more than MaxGuesses.
LEMMA PinBound ==
  ASSUME StaffAssumption, PinInv
  PROVE  PinGuessesBounded
<1> PICK k \in Nat : k = PinLockoutThreshold /\ k >= 1
  BY DEF StaffAssumption
<1>1. SUFFICES ASSUME NEW s \in Staff PROVE guesses[s] <= MaxGuesses
  BY DEF PinGuessesBounded
<1> DEFINE g == guesses[s]
           f == staff[s].failed
<1>2. /\ f \in Count /\ g \in Nat /\ \A q \in StaffRequest : Copy(q) \in Count
      /\ Top \in Int
  BY PinTypes, TwiceEnds DEF PinInv
<1>3. 2 * g <= Top
  <2>1. CASE PinShut(s)
    BY <2>1 DEF PinShut
  <2>2. CASE PinOpen(s)
    <3>1. \A x, y \in Count : Leeway(x, y) \in Int /\ Leeway(x, y) <= Top - 2
      BY LeewayBounded
    <3>2. Twice(f) \in Int /\ Twice(f) <= Top - 2
      BY <1>2, <3>1, LeewayBounded, TwiceIsRoomy
    <3>3. \/ 2 * g <= Twice(f) \/ g = 0
          \/ \E q \in StaffRequest : 2 * g <= Leeway(Copy(q), f)
          \/ \E p, q \in StaffRequest : 2 * g <= Leeway(Copy(p), Copy(q))
      BY <2>2 DEF PinOpen
    <3>4. CASE g = 0
      BY <3>4, TwiceEnds
    <3>5. CASE 2 * g <= Twice(f)
      BY <1>2, <3>2, <3>5
    <3>6. ASSUME NEW x \in Count, NEW y \in Count, 2 * g <= Leeway(x, y)
          PROVE  2 * g <= Top
      BY <1>2, <3>1, <3>6
    <3>7. QED BY <1>2, <3>3, <3>4, <3>5, <3>6
  <2>3. QED BY <2>1, <2>2 DEF PinInv, PinSound
<1>4. 2 * g <= k * (k + 1) + 2 /\ k * (k + 1) \in Int
  BY <1>3 DEF Top
<1>5. \A x, y \in Int : 2 * y <= x + 2 => y <= x \div 2 + 1
  OBVIOUS
<1>6. QED BY <1>2, <1>4, <1>5 DEF MaxGuesses

\* With two requests at once an account with a threshold of K gives at most
\* K * (K + 1) / 2 + 1 wrong PINs an answer before it locks or its count is
\* reset, for every K (staff.service.ts, verifyPinOrThrow 253-304).
THEOREM GuessesAreBounded ==
  ASSUME StaffAssumption, TwoRequests
  PROVE  StaffSpec => []PinGuessesBounded
<1> DEFINE Sound == \A s \in Staff : PinSound(s)
<1>1. StaffInit => Sound
  <2> SUFFICES ASSUME StaffInit, NEW s \in Staff PROVE PinSound(s)
    OBVIOUS
  <2>1. staff[s].lock = "none" /\ staff[s].failed = 0 /\ guesses[s] = 0
    BY DEF StaffInit, AbsentStaff, NewRow
  <2>2. \A r \in StaffRequest : ~Guessing(r, s)
    BY DEF StaffInit, IdleStaffJob, Guessing
  <2>3. QED BY <2>1, <2>2, TwiceEnds DEF PinSound, PinOpen
<1>2. ASSUME StaffInv, Sound, StaffNext, StaffInv' PROVE Sound'
  <2>1. PinInv
    BY <1>2 DEF PinInv
  <2>2. ASSUME NEW s \in Staff, StaffStep(s), NEW t \in Staff PROVE PinSound(t)'
    BY <1>2, <2>1, <2>2, PinStep
  <2>3. ASSUME NEW r \in StaffRequest, StaffRequestEnds(r), NEW t \in Staff
        PROVE  PinSound(t)'
    BY <1>2, <2>1, <2>3, PinEnd, PinElsewhere
  <2>4. QED BY <1>2, <2>2, <2>3 DEF StaffNext
<1>3. Sound /\ UNCHANGED staffVars => Sound'
  BY DEF PinSound, PinShut, PinOpen, Guessing, Copy, staffVars
<1>4. StaffInv /\ Sound => PinGuessesBounded
  BY PinBound DEF PinInv
<1>5. StaffInv /\ StaffInv' /\ Sound /\ [StaffNext]_staffVars => Sound'
  BY <1>2, <1>3
<1>6. QED
  <2> HIDE DEF Sound
  <2>1. QED BY <1>1, <1>4, <1>5, StaffInvariant, PTL DEF StaffSpec
=============================================================================

----------------------------- MODULE OwnerProofs -----------------------------
(***************************************************************************)
(* OwnerAccounts for every set of owners, businesses and requests: types,  *)
(* the flag hasBusiness, and the password of a verified account.  Nothing  *)
(* is assumed of the order of requests; what an account keeps is what it   *)
(* keeps while ownerRaced does not name it.                                *)
(***************************************************************************)
EXTENDS OwnerAccounts, TLAPS

\* Two requests of one account that are at work are no pair of its races.
Separate ==
  \A race \in DOMAIN OwnerRaces : \A q, r \in OwnerRequest :
    /\ q # r /\ ownerJob[q].who = ownerJob[r].who
    /\ <<ownerJob[r].who, race>> \notin ownerRaced
    /\ ownerJob[q].op # "idle" /\ ownerJob[q].at # "written"
    /\ ownerJob[r].op # "idle" /\ ownerJob[r].at # "written"
    => {ownerJob[q].op, ownerJob[r].op} \notin OwnerRaces[race]

\* How far a request is, and that its account is there.
Exists(r) ==
  LET row == ownerJob[r].row
      u == user[ownerJob[r].who]
  IN  /\ ownerJob[r].at = "written" => ownerJob[r].op = "register" /\ u.status # "absent"
      /\ ownerJob[r].at = "counted" => ownerJob[r].op = "removeBusiness"
      /\ ownerJob[r].op \notin {"idle", "register"} => u.status # "absent"
      /\ ownerJob[r].op \in KeepsCopy \ {"register"} => row.status # "absent"

\* The requests that will save their copy, and the flag with it.
SavesFlag(r) == /\ ownerJob[r].op \in Copiers /\ ownerJob[r].at = "read"
               /\ ownerJob[r].row.status # "absent"

\* What a request under way knows of the flag of its account ...
FlagKnown(r) ==
  LET row == ownerJob[r].row
      u == user[ownerJob[r].who]
  IN  /\ SavesFlag(r) => row.hasBusiness = u.hasBusiness
      /\ ownerJob[r].op = "createBusiness" /\ row.hasBusiness => u.hasBusiness
      /\ ownerJob[r].op = "removeBusiness" /\ ownerJob[r].at = "counted"
           => businesses[ownerJob[r].who] = {}

\* ... and of its verification and its password.
AccountKnown(r) ==
  LET row == ownerJob[r].row
      u == user[ownerJob[r].who]
  IN  /\ ownerJob[r].op = "register" /\ ownerJob[r].at = "read" => u.status # "verified"
      /\ ownerJob[r].op \in {"updateProfile", "changePassword"} =>
           /\ row.status = "verified" <=> u.status = "verified"
           /\ u.status = "verified" => row.password = u.password

Knows(r) ==
  /\ Exists(r)
  /\ <<ownerJob[r].who, "flag">> \notin ownerRaced => FlagKnown(r)
  /\ <<ownerJob[r].who, "account">> \notin ownerRaced => AccountKnown(r)

\* The flag is never missing, and left over only while a removal is under way;
\* no account that is not there has a flag, a link or a business.
FlagSound(e) ==
  /\ user[e].link # None \/ businesses[e] # {} \/ user[e].hasBusiness
       => user[e].status # "absent"
  /\ <<e, "flag">> \notin ownerRaced =>
       /\ businesses[e] # {} => user[e].hasBusiness
       /\ user[e].hasBusiness /\ businesses[e] = {} =>
            \E r \in OwnerRequest : ownerJob[r].op = "removeBusiness" /\ ownerJob[r].who = e

OwnerInv ==
  /\ OwnerTypeOK
  /\ Separate
  /\ \A r \in OwnerRequest : Knows(r)
  /\ \A e \in Owner : FlagSound(e)

-----------------------------------------------------------------------------
(* Types                                                                   *)

LEMMA IdleTyped == AbsentUser \in UserRow /\ \A e \in Owner : IdleOwnerJob(e) \in OwnerJob
BY DEF AbsentUser, UserRow, IdleOwnerJob, OwnerJob

LEMMA Races ==
  /\ DOMAIN OwnerRaces = {"flag", "account"}
  /\ \A a \in Copiers : \A b \in {"createBusiness", "removeBusiness"} :
       {a, b} \in OwnerRaces["flag"] /\ {b, a} \in OwnerRaces["flag"]
  /\ {"createBusiness", "removeBusiness"} \in OwnerRaces["flag"]
  /\ {"removeBusiness", "createBusiness"} \in OwnerRaces["flag"]
  /\ \A a \in Copiers : /\ {"verifyEmail", a} \in OwnerRaces["account"]
                        /\ {a, "verifyEmail"} \in OwnerRaces["account"]
  /\ \A a \in {"updateProfile", "changePassword"} :
       /\ {a, "changePassword"} \in OwnerRaces["account"]
       /\ {"changePassword", a} \in OwnerRaces["account"]
<1>1. /\ OwnerRaces["flag"] = {{a, b} : a \in Copiers, b \in {"createBusiness", "removeBusiness"}}
                                \union {{"createBusiness", "removeBusiness"}}
      /\ OwnerRaces["account"] = {{"verifyEmail", op} : op \in Copiers}
                \union {{"updateProfile", "changePassword"}, {"changePassword"}}
      /\ DOMAIN OwnerRaces = {"flag", "account"}
  BY DEF OwnerRaces
<1>2. \A a, b : {a, b} = {b, a}
  OBVIOUS
<1>3. {"changePassword", "changePassword"} = {"changePassword"}
  OBVIOUS
<1>4. \A a \in Copiers : \A b \in {"createBusiness", "removeBusiness"} :
        {a, b} \in OwnerRaces["flag"]
  BY <1>1
<1>5. \A a \in Copiers : {"verifyEmail", a} \in OwnerRaces["account"]
  BY <1>1
<1>6. /\ {"createBusiness", "removeBusiness"} \in OwnerRaces["flag"]
      /\ {"updateProfile", "changePassword"} \in OwnerRaces["account"]
      /\ {"changePassword"} \in OwnerRaces["account"]
  BY <1>1
<1>7. \A a \in Copiers : \A b \in {"createBusiness", "removeBusiness"} :
        {b, a} \in OwnerRaces["flag"]
  BY <1>2, <1>4
<1>8. \A a \in Copiers : {a, "verifyEmail"} \in OwnerRaces["account"]
  BY <1>2, <1>5
<1>9. \A a \in {"updateProfile", "changePassword"} :
        /\ {a, "changePassword"} \in OwnerRaces["account"]
        /\ {"changePassword", a} \in OwnerRaces["account"]
  BY <1>2, <1>3, <1>6
<1>10. {"removeBusiness", "createBusiness"} \in OwnerRaces["flag"]
  BY <1>2, <1>6
<1>11. QED BY <1>1, <1>4, <1>5, <1>6, <1>7, <1>8, <1>9, <1>10

LEMMA OwnerInitInv ==
  ASSUME OwnerAssumption, OwnerInit
  PROVE  OwnerInv
<1>1. (CHOOSE e \in Owner : TRUE) \in Owner
  BY DEF OwnerAssumption
<1>2. OwnerTypeOK
  BY <1>1, IdleTyped DEF OwnerInit, OwnerTypeOK, OwnerAssumption
<1>3. Separate
  BY DEF OwnerInit, Separate, IdleOwnerJob
<1>4. \A r \in OwnerRequest : Knows(r)
  BY DEF OwnerInit, Knows, Exists, FlagKnown, AccountKnown, SavesFlag, IdleOwnerJob, Copiers,
     KeepsCopy
<1>5. \A e \in Owner : FlagSound(e)
  BY DEF OwnerInit, FlagSound, AbsentUser
<1>6. QED BY <1>2, <1>3, <1>4, <1>5 DEF OwnerInv

\* A request that has read for op: what it overlaps with is in ownerRaced.
LEMMA ReadSeparate ==
  ASSUME OwnerTypeOK, Separate, NEW r \in OwnerRequest, NEW op \in OwnerOps,
         NEW e \in Owner, OwnerReads(r, op, e)
  PROVE  /\ Separate'
         /\ ownerJob' \in [OwnerRequest -> OwnerJob]
         /\ ownerJob'[r] = [op |-> op, at |-> "read", who |-> e,
                            row |-> IF op \in KeepsCopy THEN user[e] ELSE AbsentUser]
         /\ \A x \in OwnerRequest : x # r => ownerJob'[x] = ownerJob[x]
         /\ ownerRaced \subseteq ownerRaced'
         /\ ownerRaced' \subseteq Owner \X DOMAIN OwnerRaces
<1> DEFINE j == [op |-> op, at |-> "read", who |-> e,
                 row |-> IF op \in KeepsCopy THEN user[e] ELSE AbsentUser]
<1>1. /\ ownerJob' = [ownerJob EXCEPT ![r] = j] /\ ownerJob \in [OwnerRequest -> OwnerJob]
      /\ ownerRaced' = ownerRaced \union ({e} \X OwnerOverlaps(op, e))
  BY DEF OwnerReads, OwnerTypeOK
<1>2. j \in OwnerJob
  BY IdleTyped DEF OwnerTypeOK, OwnerJob
<1>3. /\ ownerJob'[r] = j /\ ownerJob' \in [OwnerRequest -> OwnerJob]
      /\ \A x \in OwnerRequest : x # r => ownerJob'[x] = ownerJob[x]
  BY <1>1, <1>2
<1>4. ownerRaced \subseteq ownerRaced' /\ ownerRaced' \subseteq Owner \X DOMAIN OwnerRaces
  BY <1>1 DEF OwnerOverlaps, OwnerTypeOK
<1>5. ASSUME NEW race \in DOMAIN OwnerRaces, <<e, race>> \notin ownerRaced',
             NEW x \in OwnerRequest, ownerJob[x].op # "idle", ownerJob[x].who = e,
             ownerJob[x].at # "written"
      PROVE  {op, ownerJob[x].op} \notin OwnerRaces[race]
  BY <1>1, <1>5 DEF OwnerOverlaps, OwnerAtWork, OwnerIdle
<1>6. SUFFICES ASSUME NEW race \in DOMAIN OwnerRaces,
                      NEW p \in OwnerRequest, NEW q \in OwnerRequest, p # q,
                      ownerJob'[p].who = ownerJob'[q].who,
                      <<ownerJob'[q].who, race>> \notin ownerRaced',
                      ownerJob'[p].op # "idle", ownerJob'[p].at # "written",
                      ownerJob'[q].op # "idle", ownerJob'[q].at # "written"
               PROVE  {ownerJob'[p].op, ownerJob'[q].op} \notin OwnerRaces[race]
  BY <1>3, <1>4 DEF Separate
<1>7. {ownerJob'[p].op, ownerJob'[q].op} = {ownerJob'[q].op, ownerJob'[p].op}
  OBVIOUS
<1>8. CASE p = r
  BY <1>3, <1>5, <1>6, <1>8
<1>9. CASE q = r
  BY <1>3, <1>5, <1>6, <1>7, <1>9
<1>10. CASE p # r /\ q # r
  BY <1>3, <1>4, <1>6, <1>10 DEF Separate
<1>11. QED BY <1>8, <1>9, <1>10

\* A request that goes on or ends stays with its account and its operation, or
\* has none any more.
GoesOn(r) == \/ \E at \in {"written", "counted"} : OwnerMoves(r, at)
             \/ OwnerEnds(r)

LEMMA GoesOnJob ==
  ASSUME OwnerTypeOK, Separate, NEW r \in OwnerRequest, GoesOn(r),
         (ownerJob[r].op # "idle" /\ ownerJob[r].at # "written") \/ OwnerEnds(r)
  PROVE  /\ ownerJob' \in [OwnerRequest -> OwnerJob]
         /\ \A x \in OwnerRequest : x # r => ownerJob'[x] = ownerJob[x]
         /\ ownerJob'[r].who = ownerJob[r].who
         /\ \/ ownerJob'[r].op = "idle" /\ ownerJob'[r].at = "read"
            \/ /\ ownerJob'[r].op = ownerJob[r].op /\ ownerJob'[r].at # "read"
               /\ ownerJob'[r].row = ownerJob[r].row /\ ~OwnerEnds(r)
         /\ ownerRaced' = ownerRaced
         /\ Separate'
<1>1. ownerJob \in [OwnerRequest -> OwnerJob] /\ ownerJob[r].who \in Owner
  BY DEF OwnerTypeOK, OwnerJob
<1>2. /\ ownerJob' \in [OwnerRequest -> OwnerJob]
      /\ \A x \in OwnerRequest : x # r => ownerJob'[x] = ownerJob[x]
      /\ ownerJob'[r].who = ownerJob[r].who
      /\ ownerRaced' = ownerRaced
      /\ \/ ownerJob'[r].op = "idle" /\ ownerJob'[r].at = "read"
         \/ /\ ownerJob'[r].op = ownerJob[r].op /\ ownerJob'[r].at # "read"
            /\ ownerJob'[r].row = ownerJob[r].row /\ ~OwnerEnds(r)
  <2>1. CASE OwnerEnds(r)
    BY <1>1, <2>1, IdleTyped DEF OwnerEnds, IdleOwnerJob
  <2>2. ASSUME NEW at \in {"written", "counted"}, OwnerMoves(r, at)
        PROVE  /\ ownerJob' \in [OwnerRequest -> OwnerJob]
               /\ \A x \in OwnerRequest : x # r => ownerJob'[x] = ownerJob[x]
               /\ ownerJob'[r].who = ownerJob[r].who
               /\ ownerJob'[r].op = ownerJob[r].op /\ ownerJob'[r].at # "read"
               /\ ownerJob'[r].row = ownerJob[r].row
               /\ ownerRaced' = ownerRaced
    <3>1. [ownerJob[r] EXCEPT !.at = at] \in OwnerJob
      BY <1>1 DEF OwnerJob
    <3>2. QED BY <1>1, <2>2, <3>1 DEF OwnerMoves, OwnerJob
  <2>3. QED BY <2>1, <2>2 DEF GoesOn
<1>3. ASSUME NEW race \in DOMAIN OwnerRaces, NEW p \in OwnerRequest, NEW q \in OwnerRequest,
             p # q, ownerJob'[p].who = ownerJob'[q].who,
             <<ownerJob'[q].who, race>> \notin ownerRaced',
             ownerJob'[p].op # "idle", ownerJob'[p].at # "written",
             ownerJob'[q].op # "idle", ownerJob'[q].at # "written"
      PROVE  {ownerJob'[p].op, ownerJob'[q].op} \notin OwnerRaces[race]
  <2>1. \A x \in {p, q} : /\ ownerJob'[x].op = ownerJob[x].op /\ ownerJob'[x].who = ownerJob[x].who
                          /\ ownerJob[x].op # "idle" /\ ownerJob[x].at # "written"
    <3>1. \A x \in {p, q} : x # r => ownerJob'[x] = ownerJob[x]
      BY <1>2
    <3>2. r \in {p, q} => ~OwnerEnds(r)
      BY <1>1, <1>3 DEF OwnerEnds, IdleOwnerJob
    <3>3. QED BY <1>2, <1>3, <3>1, <3>2
  <2>2. QED BY <1>2, <1>3, <2>1 DEF Separate
<1>4. Separate'
  BY <1>3 DEF Separate
<1>5. QED BY <1>2, <1>4

-----------------------------------------------------------------------------
(* Steps                                                                   *)

\* Whom a request cannot meet on an account that is not raced.
LEMMA Alone ==
  ASSUME Separate, NEW r \in OwnerRequest, NEW q \in OwnerRequest, q # r,
         ownerJob[q].who = ownerJob[r].who,
         ownerJob[q].at # "written", ownerJob[r].at # "written"
  PROVE  /\ <<ownerJob[r].who, "flag">> \notin ownerRaced =>
              /\ ownerJob[r].op = "createBusiness" =>
                   ownerJob[q].op \notin Copiers \union {"removeBusiness"}
              /\ ownerJob[r].op = "removeBusiness" =>
                   ownerJob[q].op \notin Copiers \union {"createBusiness"}
         /\ <<ownerJob[r].who, "account">> \notin ownerRaced =>
              /\ ownerJob[r].op = "verifyEmail" => ownerJob[q].op \notin Copiers
              /\ ownerJob[r].op = "changePassword" =>
                   ownerJob[q].op \notin {"updateProfile", "changePassword"}
<1>1. \A race \in {"flag", "account"} :
        <<ownerJob[r].who, race>> \notin ownerRaced
        /\ ownerJob[q].op # "idle" /\ ownerJob[r].op # "idle"
        => {ownerJob[q].op, ownerJob[r].op} \notin OwnerRaces[race]
  BY Races DEF Separate
<1>2. "idle" \notin Copiers
  BY DEF Copiers
<1>3. QED BY <1>1, <1>2, Races

LEMMA ReadKeeps ==
  ASSUME OwnerInv, NEW r \in OwnerRequest, NEW op \in OwnerOps,
         NEW e \in Owner, OwnerReads(r, op, e), UNCHANGED <<user, passwords>>,
         businesses' \in [Owner -> SUBSET Business],
         \A x \in Owner : businesses'[x] \subseteq businesses[x],
         \A x \in Owner : x # e \/ op # "removeBusiness" => businesses'[x] = businesses[x],
         op # "register" => user[e].status # "absent",
         op = "register" => user[e].status # "verified"
  PROVE  OwnerInv'
<1> DEFINE row == IF op \in KeepsCopy THEN user[e] ELSE AbsentUser
           j == [op |-> op, at |-> "read", who |-> e, row |-> row]
<1>1. /\ ownerJob[r].op = "idle"
      /\ ownerJob \in [OwnerRequest -> OwnerJob] /\ user \in [Owner -> UserRow]
  BY DEF OwnerReads, OwnerIdle, OwnerInv, OwnerTypeOK
<1>2. /\ ownerJob'[r] = j /\ ownerJob' \in [OwnerRequest -> OwnerJob]
      /\ \A x \in OwnerRequest : x # r => ownerJob'[x] = ownerJob[x]
      /\ Separate' /\ ownerRaced \subseteq ownerRaced'
      /\ ownerRaced' \subseteq Owner \X DOMAIN OwnerRaces
  BY ReadSeparate DEF OwnerInv
<1>3. OwnerTypeOK'
  BY <1>1, <1>2 DEF OwnerInv, OwnerTypeOK
<1>4. Knows(r)'
  <2>1. op # "idle" /\ Copiers \subseteq KeepsCopy
    BY DEF OwnerOps, KeepsCopy
  <2>2. op \in KeepsCopy => row = user[e]
    OBVIOUS
  <2>3. Exists(r)'
    BY <1>2, <2>1, <2>2 DEF Exists
  <2>4. FlagKnown(r)'
    <3>1. "createBusiness" \in KeepsCopy
      BY DEF KeepsCopy
    <3>2. QED BY <1>2, <2>1, <2>2, <3>1 DEF FlagKnown, SavesFlag
  <2>5. AccountKnown(r)'
    <3>1. {"updateProfile", "changePassword"} \subseteq KeepsCopy
      BY DEF KeepsCopy, Copiers
    <3>2. QED BY <1>2, <2>2, <3>1 DEF AccountKnown
  <2>6. QED BY <2>3, <2>4, <2>5 DEF Knows
<1>5. ASSUME NEW q \in OwnerRequest, q # r PROVE Knows(q)'
  <2>1. Knows(q) /\ ownerJob'[q] = ownerJob[q] /\ ownerJob[q].who \in Owner
    BY <1>1, <1>2, <1>5 DEF OwnerInv, OwnerJob
  <2>2. businesses[ownerJob[q].who] = {} => businesses'[ownerJob[q].who] = {}
    BY <2>1
  <2>3. Exists(q)' /\ (FlagKnown(q) => FlagKnown(q)') /\ (AccountKnown(q) => AccountKnown(q)')
    BY <2>1, <2>2 DEF Knows, Exists, FlagKnown, AccountKnown, SavesFlag
  <2>4. QED BY <1>2, <2>1, <2>3 DEF Knows
<1>6. ASSUME NEW x \in Owner PROVE FlagSound(x)'
  <2>1. FlagSound(x)
    BY DEF OwnerInv
  <2>2. \A q \in OwnerRequest : ownerJob[q].op = "removeBusiness" => ownerJob'[q] = ownerJob[q]
    BY <1>1, <1>2
  <2>3. businesses'[x] \subseteq businesses[x]
    OBVIOUS
  <2>4. CASE x = e /\ op = "removeBusiness"
    BY <1>2, <2>1, <2>3, <2>4 DEF FlagSound
  <2>5. CASE x # e \/ op # "removeBusiness"
    BY <1>2, <2>1, <2>2, <2>5 DEF FlagSound
  <2>6. QED BY <2>4, <2>5
<1>7. QED BY <1>2, <1>3, <1>4, <1>5, <1>6 DEF OwnerInv

\* A request other than a removal writes the row of its account.  The flag in it
\* is the one that is there, what was verified stays so, and only a change of
\* the password replaces the password of a verified account - if not raced.
LEMMA WriteKeeps ==
  ASSUME OwnerInv, NEW r \in OwnerRequest, GoesOn(r),
         NEW new \in UserRow, user' = [user EXCEPT ![ownerJob[r].who] = new],
         UNCHANGED businesses, passwords' \in 0 .. MaxPasswords,
         \/ OwnerEnds(r)
         \/ ownerJob[r].op = "register" /\ ownerJob[r].at = "read" /\ OwnerMoves(r, "written"),
         ownerJob[r].op # "removeBusiness",
         ownerJob[r].op \in {"verifyEmail", "changePassword"} => ownerJob[r].at # "written",
         new.status # "absent",
         <<ownerJob[r].who, "flag">> \notin ownerRaced =>
           new.hasBusiness = user[ownerJob[r].who].hasBusiness,
         <<ownerJob[r].who, "account">> \notin ownerRaced =>
           /\ new.status = "verified" =>
                user[ownerJob[r].who].status = "verified" \/ ownerJob[r].op = "verifyEmail"
           /\ user[ownerJob[r].who].status = "verified" =>
                /\ new.status = "verified"
                /\ \/ new.password = user[ownerJob[r].who].password
                   \/ ownerJob[r].op = "changePassword"
  PROVE  OwnerInv'
<1> DEFINE w == ownerJob[r].who
<1>1. /\ ownerJob \in [OwnerRequest -> OwnerJob] /\ user \in [Owner -> UserRow] /\ w \in Owner
      /\ Separate
  BY DEF OwnerInv, OwnerTypeOK, OwnerJob
<1>2. /\ ownerJob' \in [OwnerRequest -> OwnerJob] /\ Separate'
      /\ \A x \in OwnerRequest : x # r => ownerJob'[x] = ownerJob[x]
      /\ ownerJob'[r].who = w /\ ownerRaced' = ownerRaced
      /\ \/ ownerJob'[r].op = "idle" /\ ownerJob'[r].at = "read"
         \/ ownerJob'[r].op = "register" /\ ownerJob'[r].at = "written"
  <2>1. OwnerMoves(r, "written") => ownerJob'[r].at = "written"
    <3>1. ownerJob[r] \in OwnerJob
      BY <1>1
    <3>2. QED BY <1>1, <3>1 DEF OwnerMoves, OwnerJob
  <2>2. (ownerJob[r].op # "idle" /\ ownerJob[r].at # "written") \/ OwnerEnds(r)
    OBVIOUS
  <2>3. QED BY <2>1, <2>2, GoesOnJob DEF OwnerInv
<1>3. user'[w] = new /\ \A x \in Owner : x # w => user'[x] = user[x]
  BY <1>1
<1>4. OwnerTypeOK'
  BY <1>1, <1>2 DEF OwnerInv, OwnerTypeOK
<1>5. Knows(r)'
  BY <1>2, <1>3 DEF Knows, Exists, FlagKnown, AccountKnown, SavesFlag, Copiers, KeepsCopy
<1>6. ASSUME NEW q \in OwnerRequest, q # r PROVE Knows(q)'
  <2>1. Knows(q) /\ ownerJob'[q] = ownerJob[q] /\ ownerJob[q].who \in Owner
    BY <1>1, <1>2, <1>6 DEF OwnerInv, OwnerJob
  <2>2. CASE ownerJob[q].who # w
    BY <1>2, <1>3, <2>1, <2>2 DEF Knows, Exists, FlagKnown, AccountKnown, SavesFlag
  <2>3. CASE ownerJob[q].who = w
    <3>1. Exists(q)'
      BY <1>3, <2>1, <2>3 DEF Knows, Exists
    <3>2. ASSUME <<w, "flag">> \notin ownerRaced PROVE FlagKnown(q)'
      BY <1>3, <2>1, <2>3, <3>2 DEF Knows, FlagKnown, SavesFlag
    <3>3. ASSUME <<w, "account">> \notin ownerRaced PROVE AccountKnown(q)'
      <4>1. AccountKnown(q) /\ Exists(q)
        BY <2>1, <2>3, <3>3 DEF Knows
      <4>2. CASE ownerJob[q].at = "written"
        BY <1>3, <2>1, <2>3, <4>1, <4>2 DEF AccountKnown, Exists
      <4>3. CASE ownerJob[q].at # "written"
        <5>1. /\ ownerJob[r].op = "verifyEmail" => ownerJob[q].op \notin Copiers
              /\ ownerJob[r].op = "changePassword" =>
                   ownerJob[q].op \notin {"updateProfile", "changePassword"}
          BY <1>1, <1>6, <2>3, <3>3, <4>3, Alone
        <5>2. QED BY <1>3, <2>1, <2>3, <3>3, <4>1, <5>1 DEF AccountKnown, Copiers
      <4>4. QED BY <4>2, <4>3
    <3>4. QED BY <1>2, <2>1, <2>3, <3>1, <3>2, <3>3 DEF Knows
  <2>4. QED BY <2>2, <2>3
<1>7. ASSUME NEW x \in Owner PROVE FlagSound(x)'
  <2>1. FlagSound(x)
    BY DEF OwnerInv
  <2>2. \A q \in OwnerRequest : ownerJob[q].op = "removeBusiness" => ownerJob'[q] = ownerJob[q]
    BY <1>2
  <2>3. CASE x = w
    BY <1>2, <1>3, <2>1, <2>2, <2>3 DEF FlagSound
  <2>4. CASE x # w
    BY <1>2, <1>3, <2>1, <2>2, <2>4 DEF FlagSound
  <2>5. QED BY <2>3, <2>4
<1>8. QED BY <1>2, <1>4, <1>5, <1>6, <1>7 DEF OwnerInv

\* Nobody's request: a link that expires, a logout.
LEMMA AloneKeeps ==
  ASSUME OwnerInv, NEW e \in Owner, NEW new \in UserRow, user' = [user EXCEPT ![e] = new],
         new.status = user[e].status, new.hasBusiness = user[e].hasBusiness,
         new.password = user[e].password, new.link = user[e].link,
         UNCHANGED <<businesses, passwords, ownerJob, ownerRaced>>
  PROVE  OwnerInv'
<1>1. ownerJob \in [OwnerRequest -> OwnerJob] /\ user \in [Owner -> UserRow]
  BY DEF OwnerInv, OwnerTypeOK
<1>2. \A x \in Owner : /\ user'[x].status = user[x].status
                       /\ user'[x].hasBusiness = user[x].hasBusiness
                       /\ user'[x].password = user[x].password
                       /\ user'[x].link = user[x].link
  BY <1>1
<1>3. OwnerTypeOK' /\ Separate'
  BY <1>1 DEF OwnerInv, OwnerTypeOK, Separate
<1>4. ASSUME NEW q \in OwnerRequest PROVE Knows(q)'
  <2>1. Knows(q) /\ ownerJob[q].who \in Owner
    BY <1>1 DEF OwnerInv, OwnerJob
  <2>2. QED BY <1>2, <2>1 DEF Knows, Exists, FlagKnown, AccountKnown, SavesFlag
<1>5. ASSUME NEW x \in Owner PROVE FlagSound(x)'
  <2>1. FlagSound(x)
    BY DEF OwnerInv
  <2>2. QED BY <1>2, <2>1 DEF FlagSound
<1>6. QED BY <1>3, <1>4, <1>5 DEF OwnerInv

LEMMA BeginsKeep ==
  ASSUME OwnerInv, NEW r \in OwnerRequest, NEW e \in Owner,
         \/ Register(r, e) \/ VerifyEmail(r, e) \/ RefreshTokens(r, e)
         \/ Login(r, e) \/ UpdateProfile(r, e) \/ ChangeUserPassword(r, e)
         \/ CreateBusiness(r, e)
         \/ \E b \in Business : RemoveBusiness(r, e, b)
  PROVE  OwnerInv'
<1>1. /\ businesses \in [Owner -> SUBSET Business] /\ FlagSound(e)
      /\ OwnerOps = {"register", "verifyEmail", "login", "refreshTokens", "updateProfile",
                     "changePassword", "createBusiness", "removeBusiness"}
  BY DEF OwnerInv, OwnerTypeOK, OwnerOps
<1>2. CASE Register(r, e)
  BY <1>1, <1>2, ReadKeeps DEF Register
<1>3. CASE VerifyEmail(r, e)
  <2>1. user[e].status # "absent"
    BY <1>1, <1>3 DEF VerifyEmail, FlagSound
  <2>2. QED BY <1>1, <1>3, <2>1, ReadKeeps DEF VerifyEmail
<1>4. CASE Login(r, e) \/ RefreshTokens(r, e) \/ UpdateProfile(r, e) \/ ChangeUserPassword(r, e)
           \/ CreateBusiness(r, e)
  <2>1. PICK op \in OwnerOps : /\ OwnerReads(r, op, e) /\ op \notin {"removeBusiness", "register"}
                               /\ user[e].status # "absent"
                               /\ UNCHANGED <<user, businesses, passwords>>
    BY <1>1, <1>4 DEF Login, RefreshTokens, UpdateProfile, ChangeUserPassword, CreateBusiness
  <2>2. QED BY <1>1, <2>1, ReadKeeps
<1>5. ASSUME NEW b \in Business, RemoveBusiness(r, e, b) PROVE OwnerInv'
  <2>1. user[e].status # "absent"
    BY <1>1, <1>5 DEF RemoveBusiness, FlagSound
  <2>2. /\ businesses' \in [Owner -> SUBSET Business]
        /\ \A x \in Owner : businesses'[x] \subseteq businesses[x]
        /\ \A x \in Owner : x # e => businesses'[x] = businesses[x]
    BY <1>1, <1>5 DEF RemoveBusiness
  <2>3. QED BY <1>1, <1>5, <2>1, <2>2, ReadKeeps DEF RemoveBusiness
<1>6. QED BY <1>2, <1>3, <1>4, <1>5

\* The steps of a request between its first read and its end.
LEMMA WritesKeep ==
  ASSUME OwnerAssumption, OwnerInv, NEW r \in OwnerRequest,
         \/ SaveReclaim(r) \/ InsertUser(r) \/ MarkVerified(r) \/ GenerateTokensForOwner(r)
         \/ ClearSessions(r) \/ SaveProfile(r) \/ SaveUserPassword(r)
  PROVE  OwnerInv'
<1> DEFINE w == ownerJob[r].who
           copy == ownerJob[r].row
<1>1. /\ w \in Owner /\ user[w] \in UserRow /\ copy \in UserRow /\ Knows(r)
      /\ user \in [Owner -> UserRow] /\ passwords \in 0 .. MaxPasswords
  BY DEF OwnerInv, OwnerTypeOK, OwnerJob
<1>2. /\ MaxPasswords \in Nat /\ passwords \in Nat
      /\ passwords + 1 <= MaxPasswords =>
           passwords + 1 \in Password /\ passwords + 1 \in 0 .. MaxPasswords
  BY <1>1 DEF Password, OwnerAssumption
<1>3. /\ user[w].hasBusiness => user[w].status # "absent"
      /\ Exists(r)
      /\ <<w, "flag">> \notin ownerRaced => FlagKnown(r)
      /\ <<w, "account">> \notin ownerRaced => AccountKnown(r)
  BY <1>1 DEF OwnerInv, FlagSound, Knows
<1>4. CASE SaveReclaim(r)
  <2> DEFINE new == [copy EXCEPT !.status = "unverified", !.password = passwords + 1,
                                 !.link = passwords + 1, !.linkValid = TRUE]
  <2>1. passwords + 1 \in Password /\ passwords' \in 0 .. MaxPasswords
    BY <1>2, <1>4 DEF SaveReclaim
  <2>2. /\ user' = [user EXCEPT ![w] = new] /\ GoesOn(r) /\ UNCHANGED businesses
        /\ ownerJob[r].op = "register" /\ ownerJob[r].at = "read"
        /\ OwnerMoves(r, "written")
        /\ <<w, "flag">> \notin ownerRaced => copy.hasBusiness = user[w].hasBusiness
        /\ <<w, "account">> \notin ownerRaced => user[w].status # "verified"
    BY <1>3, <1>4 DEF SaveReclaim, At, GoesOn, FlagKnown, AccountKnown, SavesFlag, Copiers
  <2>3. new \in UserRow /\ new.status = "unverified" /\ new.hasBusiness = copy.hasBusiness
    BY <1>1, <2>1 DEF UserRow
  <2>4. QED BY <2>1, <2>2, <2>3, WriteKeeps
<1>5. CASE InsertUser(r) /\ user[w].status = "absent"
  <2> DEFINE new == [AbsentUser EXCEPT !.status = "unverified", !.password = passwords + 1,
                                       !.link = passwords + 1, !.linkValid = TRUE]
  <2>1. passwords + 1 \in Password /\ passwords' \in 0 .. MaxPasswords
    BY <1>2, <1>5 DEF InsertUser
  <2>2. /\ user' = [user EXCEPT ![w] = new] /\ GoesOn(r) /\ UNCHANGED businesses
        /\ ownerJob[r].op = "register" /\ ownerJob[r].at = "read"
        /\ OwnerMoves(r, "written")
    BY <1>5 DEF InsertUser, At, GoesOn
  <2>3. new \in UserRow /\ new.status = "unverified" /\ new.hasBusiness = FALSE
    BY <2>1, IdleTyped DEF AbsentUser, UserRow
  <2>4. user[w].hasBusiness = FALSE
    BY <1>1, <1>3, <1>5 DEF UserRow
  <2>5. QED BY <1>5, <2>1, <2>2, <2>3, <2>4, WriteKeeps
<1>6. CASE InsertUser(r) /\ user[w].status # "absent"
  <2>1. /\ user' = [user EXCEPT ![w] = user[w]] /\ OwnerEnds(r)
        /\ UNCHANGED <<businesses, passwords>> /\ ownerJob[r].op = "register"
    BY <1>1, <1>6 DEF InsertUser, At
  <2>2. QED BY <1>1, <1>6, <2>1, WriteKeeps DEF GoesOn
<1>7. CASE MarkVerified(r)
  <2> DEFINE new == [user[w] EXCEPT !.status = "verified", !.link = None, !.linkValid = FALSE]
  <2>1. /\ user' = [user EXCEPT ![w] = new] /\ OwnerEnds(r)
        /\ UNCHANGED <<businesses, passwords>> /\ ownerJob[r].op = "verifyEmail"
        /\ ownerJob[r].at = "read"
    BY <1>1, <1>7 DEF MarkVerified, At
  <2>2. /\ new \in UserRow /\ new.status = "verified"
        /\ new.hasBusiness = user[w].hasBusiness /\ new.password = user[w].password
    BY <1>1 DEF UserRow
  <2>3. QED BY <1>1, <2>1, <2>2, WriteKeeps DEF GoesOn
<1>8. CASE GenerateTokensForOwner(r) \/ ClearSessions(r)
  <2>1. PICK b \in BOOLEAN : user' = [user EXCEPT ![w].refreshToken = b]
    BY <1>8 DEF GenerateTokensForOwner, ClearSessions
  <2> DEFINE new == [user[w] EXCEPT !.refreshToken = b]
  <2>2. /\ user' = [user EXCEPT ![w] = new] /\ OwnerEnds(r)
        /\ UNCHANGED <<businesses, passwords>>
        /\ ownerJob[r].op \in {"register", "login", "refreshTokens"}
        /\ user[w].status # "absent"
    BY <1>1, <1>3, <1>8, <2>1 DEF GenerateTokensForOwner, ClearSessions, At, Exists
  <2>3. /\ new \in UserRow /\ new.status = user[w].status /\ new.link = user[w].link
        /\ new.hasBusiness = user[w].hasBusiness /\ new.password = user[w].password
    BY <1>1 DEF UserRow
  <2>4. QED BY <1>1, <2>2, <2>3, WriteKeeps DEF GoesOn
<1>9. CASE SaveProfile(r)
  <2>1. /\ user' = [user EXCEPT ![w] = copy] /\ OwnerEnds(r)
        /\ UNCHANGED <<businesses, passwords>> /\ ownerJob[r].op = "updateProfile"
    BY <1>9 DEF SaveProfile, At
  <2>2. /\ copy.status # "absent"
        /\ <<w, "flag">> \notin ownerRaced => copy.hasBusiness = user[w].hasBusiness
        /\ <<w, "account">> \notin ownerRaced =>
             /\ copy.status = "verified" <=> user[w].status = "verified"
             /\ user[w].status = "verified" => copy.password = user[w].password
    BY <1>3, <1>9, <2>1 DEF SaveProfile, At, Exists, FlagKnown, AccountKnown, SavesFlag, Copiers,
       KeepsCopy
  <2>3. QED BY <1>1, <2>1, <2>2, WriteKeeps DEF GoesOn
<1>10. CASE SaveUserPassword(r)
  <2> DEFINE new == [copy EXCEPT !.password = passwords + 1]
  <2>1. /\ user' = [user EXCEPT ![w] = new] /\ OwnerEnds(r) /\ UNCHANGED businesses
        /\ passwords + 1 \in Password /\ passwords' \in 0 .. MaxPasswords
        /\ ownerJob[r].op = "changePassword" /\ ownerJob[r].at = "read"
    BY <1>2, <1>10 DEF SaveUserPassword, At
  <2>2. /\ copy.status # "absent"
        /\ <<w, "flag">> \notin ownerRaced => copy.hasBusiness = user[w].hasBusiness
        /\ <<w, "account">> \notin ownerRaced =>
             (copy.status = "verified" <=> user[w].status = "verified")
    BY <1>3, <2>1 DEF Exists, FlagKnown, AccountKnown, SavesFlag, Copiers, KeepsCopy
  <2>3. new \in UserRow /\ new.status = copy.status /\ new.hasBusiness = copy.hasBusiness
    BY <1>1, <2>1 DEF UserRow
  <2>4. QED BY <1>1, <2>1, <2>2, <2>3, WriteKeeps DEF GoesOn
<1>11. QED BY <1>4, <1>5, <1>6, <1>7, <1>8, <1>9, <1>10

\* The request ends and businesses and the flag of its account change together,
\* or neither, as no other request would overwrite it.
LEMMA FlagKeeps ==
  ASSUME OwnerInv, NEW r \in OwnerRequest,
         \/ \E b \in Business : CommitBusiness(r, b)
         \/ CountRemaining(r) \/ ClearHasBusiness(r)
  PROVE  OwnerInv'
<1> DEFINE w == ownerJob[r].who
<1>1. /\ w \in Owner /\ user[w] \in UserRow /\ Knows(r) /\ FlagSound(w) /\ Separate
      /\ user \in [Owner -> UserRow] /\ businesses \in [Owner -> SUBSET Business]
      /\ ownerJob \in [OwnerRequest -> OwnerJob]
  BY DEF OwnerInv, OwnerTypeOK, OwnerJob
<1>2. /\ GoesOn(r) /\ ownerJob[r].op \in {"createBusiness", "removeBusiness"}
      /\ UNCHANGED passwords /\ ownerJob[r].at \in {"read", "counted"}
      /\ user[w].status # "absent"
  BY <1>1 DEF CommitBusiness, CountRemaining, ClearHasBusiness, GoesOn, At, Knows, Exists
<1>3. /\ ownerJob' \in [OwnerRequest -> OwnerJob] /\ Separate'
      /\ \A x \in OwnerRequest : x # r => ownerJob'[x] = ownerJob[x]
      /\ ownerJob'[r].who = w /\ ownerRaced' = ownerRaced
      /\ \/ ownerJob'[r].op = "idle" /\ ownerJob'[r].at = "read"
         \/ /\ ownerJob'[r].op = ownerJob[r].op /\ ownerJob'[r].at # "read"
            /\ ownerJob'[r].row = ownerJob[r].row /\ ~OwnerEnds(r)
  BY <1>1, <1>2, GoesOnJob DEF OwnerInv
<1>4. \E flag \in BOOLEAN : user' = [user EXCEPT ![w].hasBusiness = flag]
  <2>1. user = [user EXCEPT ![w].hasBusiness = user[w].hasBusiness]
    BY <1>1 DEF UserRow
  <2>2. user[w].hasBusiness \in BOOLEAN
    BY <1>1 DEF UserRow
  <2>3. QED BY <2>1, <2>2 DEF CommitBusiness, CountRemaining, ClearHasBusiness
<1>5. /\ user' \in [Owner -> UserRow] /\ \A x \in Owner : x # w => user'[x] = user[x]
      /\ user'[w].status = user[w].status /\ user'[w].password = user[w].password
      /\ user'[w].link = user[w].link /\ user'[w].hasBusiness \in BOOLEAN
  <2>1. PICK flag \in BOOLEAN : user' = [user EXCEPT ![w].hasBusiness = flag]
    BY <1>4
  <2>2. QED BY <1>1, <2>1 DEF UserRow
<1>6. /\ businesses' \in [Owner -> SUBSET Business]
      /\ \A x \in Owner : x # w => businesses'[x] = businesses[x]
  BY <1>1 DEF CommitBusiness, CountRemaining, ClearHasBusiness
<1>7. OwnerTypeOK'
  BY <1>2, <1>3, <1>5, <1>6 DEF OwnerInv, OwnerTypeOK
<1>8. ASSUME NEW x \in Owner, x # w PROVE FlagSound(x)'
  <2>1. \A q \in OwnerRequest : ownerJob[q].who = x => ownerJob'[q] = ownerJob[q]
    BY <1>3, <1>8
  <2>2. FlagSound(x)
    BY DEF OwnerInv
  <2>3. QED BY <1>3, <1>5, <1>6, <1>8, <2>1, <2>2 DEF FlagSound
<1>9. ASSUME NEW q \in OwnerRequest, q # r PROVE Exists(q)' /\ (AccountKnown(q) => AccountKnown(q)')
  <2>1. Exists(q) /\ ownerJob[q].who \in Owner /\ ownerJob'[q] = ownerJob[q]
    BY <1>1, <1>3, <1>9 DEF OwnerInv, OwnerJob, Knows
  <2>2. \A x \in Owner : user'[x].status = user[x].status /\ user'[x].password = user[x].password
    BY <1>5
  <2>3. QED BY <2>1, <2>2 DEF Exists, AccountKnown
<1>10. ASSUME NEW q \in OwnerRequest, q # r, ownerJob[q].who # w PROVE Knows(q)'
  <2>1. Knows(q) /\ ownerJob[q].who \in Owner /\ ownerJob'[q] = ownerJob[q]
    BY <1>1, <1>3, <1>10 DEF OwnerInv, OwnerJob
  <2>2. FlagKnown(q) => FlagKnown(q)'
    BY <1>5, <1>6, <1>10, <2>1 DEF FlagKnown, SavesFlag
  <2>3. QED BY <1>3, <1>9, <1>10, <2>1, <2>2 DEF Knows
<1>11. ASSUME NEW q \in OwnerRequest, q # r, ownerJob[q].who = w,
              <<w, "flag">> \notin ownerRaced
       PROVE  /\ ~SavesFlag(q)
              /\ ownerJob[q].op = "createBusiness" => ownerJob[r].op = "createBusiness"
              /\ ownerJob[q].op = "removeBusiness" => ownerJob[r].op = "removeBusiness"
              /\ FlagKnown(q) /\ ownerJob'[q] = ownerJob[q]
  <2>1. FlagKnown(q) /\ Exists(q) /\ ownerJob'[q] = ownerJob[q]
    BY <1>3, <1>11 DEF OwnerInv, Knows
  <2>2. CASE ownerJob[q].at = "written"
    BY <2>1, <2>2 DEF SavesFlag, Exists
  <2>3. CASE ownerJob[q].at # "written"
    <3>1. ownerJob[r].at # "written"
      BY <1>2
    <3>2. /\ ownerJob[r].op = "createBusiness" =>
               ownerJob[q].op \notin Copiers \union {"removeBusiness"}
          /\ ownerJob[r].op = "removeBusiness" =>
               ownerJob[q].op \notin Copiers \union {"createBusiness"}
      BY <1>1, <1>11, <2>3, <3>1, Alone
    <3>3. QED BY <1>2, <2>1, <3>2 DEF SavesFlag
  <2>4. QED BY <2>2, <2>3
<1>12. SUFFICES ASSUME TRUE
       PROVE  /\ Knows(r)'
              /\ \A q \in OwnerRequest : q # r /\ ownerJob[q].who = w => Knows(q)'
              /\ FlagSound(w)'
  BY <1>3, <1>7, <1>8, <1>10 DEF OwnerInv
<1>13. CASE \E b \in Business : CommitBusiness(r, b)
  <2>1. ownerJob[r].op = "createBusiness" /\ ownerJob'[r].op = "idle" /\ ownerJob'[r].at = "read"
    BY <1>1, <1>13 DEF CommitBusiness, At, OwnerEnds, IdleOwnerJob
  <2>2. <<w, "flag">> \notin ownerRaced =>
          \/ businesses'[w] # {} /\ user'[w].hasBusiness
          \/ businesses'[w] = businesses[w] /\ user'[w].hasBusiness = user[w].hasBusiness
    <3>1. SUFFICES ASSUME <<w, "flag">> \notin ownerRaced
                   PROVE  \/ businesses'[w] # {} /\ user'[w].hasBusiness
                          \/ /\ businesses'[w] = businesses[w]
                             /\ user'[w].hasBusiness = user[w].hasBusiness
      OBVIOUS
    <3>2. PICK b \in Business : CommitBusiness(r, b)
      BY <1>13
    <3>3. CASE \A o \in Owner : b \notin businesses[o]
      <4>1. businesses'[w] # {}
        BY <1>1, <3>2, <3>3 DEF CommitBusiness
      <4>2. CASE ownerJob[r].row.hasBusiness
        <5>1. user' = user
          BY <3>2, <3>3, <4>2 DEF CommitBusiness
        <5>2. user[w].hasBusiness
          BY <1>1, <2>1, <3>1, <4>2 DEF Knows, FlagKnown
        <5>3. QED BY <4>1, <5>1, <5>2
      <4>3. CASE ~ownerJob[r].row.hasBusiness
        <5>1. user' = [user EXCEPT ![w].hasBusiness = TRUE]
          BY <3>2, <3>3, <4>3 DEF CommitBusiness
        <5>2. QED BY <1>1, <4>1, <5>1 DEF UserRow
      <4>4. QED BY <4>2, <4>3
    <3>4. CASE ~(\A o \in Owner : b \notin businesses[o])
      BY <3>2, <3>4 DEF CommitBusiness
    <3>5. QED BY <3>3, <3>4
  <2>3. Knows(r)'
    BY <2>1 DEF Knows, Exists, FlagKnown, AccountKnown, SavesFlag, Copiers, KeepsCopy
  <2>4. ASSUME NEW q \in OwnerRequest, q # r, ownerJob[q].who = w PROVE Knows(q)'
    <3>1. Knows(q) /\ ownerJob'[q] = ownerJob[q]
      BY <1>3, <2>4 DEF OwnerInv
    <3>2. ASSUME <<w, "flag">> \notin ownerRaced PROVE FlagKnown(q)'
      <4>1. user[w].hasBusiness => user'[w].hasBusiness
        BY <2>2, <3>2
      <4>2. QED BY <1>11, <2>1, <2>4, <3>2, <4>1 DEF FlagKnown, SavesFlag
    <3>3. QED BY <1>3, <1>9, <2>4, <3>1, <3>2 DEF Knows
  <2>5. FlagSound(w)'
    <3>1. \A q \in OwnerRequest : ownerJob[q].op = "removeBusiness" => ownerJob'[q] = ownerJob[q]
      BY <1>3, <2>1
    <3>2. QED BY <1>1, <1>2, <1>3, <1>5, <2>2, <3>1 DEF FlagSound
  <2>6. QED BY <2>3, <2>4, <2>5
<1>14. CASE CountRemaining(r)
  <2>1. /\ ownerJob[r].op = "removeBusiness" /\ UNCHANGED <<user, businesses>>
        /\ \/ ownerJob'[r].op = "idle" /\ ownerJob'[r].at = "read" /\ businesses[w] # {}
           \/ /\ ownerJob'[r].op = "removeBusiness" /\ ownerJob'[r].at = "counted"
              /\ businesses[w] = {}
    <3>1. ownerJob[r] \in OwnerJob
      BY <1>1
    <3>2. CASE businesses[w] = {}
      BY <1>1, <1>14, <3>1, <3>2 DEF CountRemaining, At, OwnerMoves, OwnerJob
    <3>3. CASE businesses[w] # {}
      BY <1>1, <1>14, <3>3 DEF CountRemaining, At, OwnerEnds, IdleOwnerJob
    <3>4. QED BY <1>14, <3>2, <3>3 DEF CountRemaining, At
  <2>2. Knows(r)'
    BY <1>2, <1>3, <2>1 DEF Knows, Exists, FlagKnown, AccountKnown, SavesFlag, Copiers, KeepsCopy
  <2>3. ASSUME NEW q \in OwnerRequest, q # r, ownerJob[q].who = w PROVE Knows(q)'
    <3>1. Knows(q) /\ ownerJob'[q] = ownerJob[q]
      BY <1>3, <2>3 DEF OwnerInv
    <3>2. FlagKnown(q) => FlagKnown(q)'
      BY <2>1, <3>1 DEF FlagKnown, SavesFlag
    <3>3. QED BY <1>3, <1>9, <2>3, <3>1, <3>2 DEF Knows
  <2>4. FlagSound(w)'
    <3>1. CASE businesses[w] # {}
      BY <1>1, <1>3, <2>1, <3>1 DEF FlagSound
    <3>2. CASE businesses[w] = {}
      <4>1. ownerJob'[r].op = "removeBusiness"
        BY <1>3, <2>1, <3>2
      <4>2. QED BY <1>1, <1>3, <2>1, <3>2, <4>1 DEF FlagSound
    <3>3. QED BY <3>1, <3>2
  <2>5. QED BY <2>2, <2>3, <2>4
<1>15. CASE ClearHasBusiness(r)
  <2>1. /\ ownerJob[r].op = "removeBusiness" /\ ownerJob'[r].op = "idle"
        /\ ownerJob'[r].at = "read"
        /\ <<w, "flag">> \notin ownerRaced => businesses[w] = {}
        /\ UNCHANGED businesses /\ ~user'[w].hasBusiness
    <3>1. <<w, "flag">> \notin ownerRaced => businesses[w] = {}
      BY <1>1, <1>15 DEF ClearHasBusiness, At, Knows, FlagKnown
    <3>2. ownerJob'[r].op = "idle" /\ ownerJob'[r].at = "read"
      BY <1>1, <1>15 DEF ClearHasBusiness, OwnerEnds, IdleOwnerJob
    <3>3. ~user'[w].hasBusiness
      BY <1>1, <1>15 DEF ClearHasBusiness, UserRow
    <3>4. QED BY <1>15, <3>1, <3>2, <3>3 DEF ClearHasBusiness, At
  <2>2. Knows(r)'
    BY <2>1 DEF Knows, Exists, FlagKnown, AccountKnown, SavesFlag, Copiers, KeepsCopy
  <2>3. ASSUME NEW q \in OwnerRequest, q # r, ownerJob[q].who = w PROVE Knows(q)'
    <3>1. Knows(q) /\ ownerJob'[q] = ownerJob[q]
      BY <1>3, <2>3 DEF OwnerInv
    <3>2. ASSUME <<w, "flag">> \notin ownerRaced PROVE FlagKnown(q)'
      BY <1>11, <2>1, <2>3, <3>2 DEF FlagKnown, SavesFlag
    <3>3. QED BY <1>3, <1>9, <2>3, <3>1, <3>2 DEF Knows
  <2>4. FlagSound(w)'
    BY <1>1, <1>2, <1>3, <1>5, <2>1 DEF FlagSound
  <2>5. QED BY <2>2, <2>3, <2>4
<1>16. QED BY <1>13, <1>14, <1>15

LEMMA AnyStepKeeps ==
  ASSUME OwnerAssumption, OwnerInv, [OwnerNext]_ownerVars
  PROVE  OwnerInv'
<1>1. ASSUME NEW r \in OwnerRequest, OwnerRequestStep(r) PROVE OwnerInv'
  BY <1>1, BeginsKeep, WritesKeep, FlagKeeps DEF OwnerRequestStep
<1>2. ASSUME NEW e \in Owner, LinkExpires(e) \/ Logout(e) PROVE OwnerInv'
  <2>1. user[e] \in UserRow
    BY DEF OwnerInv, OwnerTypeOK
  <2>2. CASE LinkExpires(e)
    <3> DEFINE new == [user[e] EXCEPT !.linkValid = FALSE]
    <3>1. /\ new \in UserRow /\ new.status = user[e].status /\ new.link = user[e].link
          /\ new.hasBusiness = user[e].hasBusiness /\ new.password = user[e].password
      BY <2>1 DEF UserRow
    <3>2. QED BY <2>2, <3>1, AloneKeeps DEF LinkExpires
  <2>3. CASE Logout(e)
    <3> DEFINE new == [user[e] EXCEPT !.refreshToken = FALSE]
    <3>1. /\ new \in UserRow /\ new.status = user[e].status /\ new.link = user[e].link
          /\ new.hasBusiness = user[e].hasBusiness /\ new.password = user[e].password
      BY <2>1 DEF UserRow
    <3>2. QED BY <2>3, <3>1, AloneKeeps DEF Logout
  <2>4. QED BY <1>2, <2>2, <2>3
<1>3. CASE UNCHANGED ownerVars
  BY <1>3 DEF OwnerInv, OwnerTypeOK, Separate, Knows, Exists, FlagKnown, AccountKnown, SavesFlag,
     FlagSound, ownerVars
<1>4. QED BY <1>1, <1>2, <1>3 DEF OwnerNext

LEMMA OwnerInvariant ==
  ASSUME OwnerAssumption PROVE OwnerSpec => []OwnerInv
<1>1. OwnerInit => OwnerInv
  BY OwnerInitInv
<1>2. OwnerInv /\ [OwnerNext]_ownerVars => OwnerInv'
  BY AnyStepKeeps
<1>3. QED BY <1>1, <1>2, PTL DEF OwnerSpec

-----------------------------------------------------------------------------
(* The properties                                                          *)

\* Between requests hasBusiness tells the truth, however many removals raced,
\* of every owner on whom no creation overlapped with a removal and no whole
\* copy with either (business.service.ts, create 68-79, remove 221-246).
THEOREM FlagIsExact == ASSUME OwnerAssumption PROVE OwnerSpec => []BusinessFlagExact
<1>1. OwnerInv => BusinessFlagExact
  BY DEF OwnerInv, FlagSound, BusinessFlagExact, OwnerIdle
<1>2. QED BY <1>1, OwnerInvariant, PTL

LEMMA PasswordChanger ==
  ASSUME OwnerInv, [OwnerNext]_ownerVars, NEW e \in Owner,
         user[e].status = "verified", <<e, "account">> \notin ownerRaced
  PROVE  /\ user'[e].status = "verified"
         /\ user'[e].password # user[e].password =>
              \E r \in OwnerRequest :
                /\ ownerJob[r].op = "changePassword" /\ ownerJob[r].who = e
                /\ ownerJob[r].row.password = user[e].password
<1>1. user \in [Owner -> UserRow] /\ user[e] \in UserRow
  BY DEF OwnerInv, OwnerTypeOK
<1>2. CASE user'[e].status = user[e].status /\ user'[e].password = user[e].password
  BY <1>2
<1>3. ASSUME NEW x \in Owner, LinkExpires(x) \/ Logout(x)
      PROVE  user'[e].status = user[e].status /\ user'[e].password = user[e].password
  BY <1>1, <1>3 DEF LinkExpires, Logout, UserRow
<1>4. CASE \E r \in OwnerRequest : OwnerRequestStep(r)
  <2>1. PICK r \in OwnerRequest : OwnerRequestStep(r)
    BY <1>4
  <2>2. /\ ownerJob[r].row \in UserRow /\ ownerJob[r].who \in Owner
        /\ ownerJob[r].who = e => AccountKnown(r)
    BY DEF OwnerInv, OwnerTypeOK, OwnerJob, Knows
  <2>3. CASE ownerJob[r].who # e
    BY <1>1, <1>2, <2>1, <2>2, <2>3
       DEF OwnerRequestStep, SaveReclaim, InsertUser, MarkVerified, GenerateTokensForOwner,
           ClearSessions, SaveProfile, SaveUserPassword, CommitBusiness, CountRemaining,
           ClearHasBusiness, Register, VerifyEmail, RefreshTokens, Login, UpdateProfile,
           ChangeUserPassword, CreateBusiness, RemoveBusiness
  <2>4. CASE ownerJob[r].who = e
    <3>1. CASE SaveUserPassword(r)
      <4>1. /\ ownerJob[r].op = "changePassword" /\ ownerJob[r].row.status = "verified"
            /\ ownerJob[r].row.password = user[e].password
        BY <2>2, <2>4, <3>1 DEF SaveUserPassword, At, AccountKnown
      <4>2. user'[e].status = "verified"
        BY <1>1, <2>2, <2>4, <3>1, <4>1 DEF SaveUserPassword, UserRow
      <4>3. QED BY <2>4, <4>1, <4>2
    <3>2. CASE SaveReclaim(r)
      BY <2>2, <2>4, <3>2 DEF SaveReclaim, At, AccountKnown
    <3>3. CASE InsertUser(r)
      BY <2>4, <3>3 DEF InsertUser
    <3>4. CASE SaveProfile(r)
      BY <1>1, <2>2, <2>4, <3>4 DEF SaveProfile, At, AccountKnown
    <3>5. CASE MarkVerified(r) \/ GenerateTokensForOwner(r) \/ ClearSessions(r)
               \/ ClearHasBusiness(r)
      BY <1>1, <2>4, <3>5 DEF MarkVerified, GenerateTokensForOwner, ClearSessions,
                              ClearHasBusiness, UserRow
    <3>6. CASE \E b \in Business : CommitBusiness(r, b)
      BY <1>1, <2>4, <3>6 DEF CommitBusiness, UserRow
    <3>7. CASE \/ CountRemaining(r)
               \/ \E x \in Owner :
                    \/ Register(r, x) \/ VerifyEmail(r, x) \/ RefreshTokens(r, x)
                    \/ Login(r, x) \/ UpdateProfile(r, x) \/ ChangeUserPassword(r, x)
                    \/ CreateBusiness(r, x)
                    \/ \E b \in Business : RemoveBusiness(r, x, b)
      BY <3>7 DEF CountRemaining, Register, VerifyEmail, RefreshTokens, Login, UpdateProfile,
                  ChangeUserPassword, CreateBusiness, RemoveBusiness
    <3>8. QED
      BY <2>1, <3>1, <3>2, <3>3, <3>4, <3>5, <3>6, <3>7 DEF OwnerRequestStep
  <2>5. QED BY <2>3, <2>4
<1>5. QED BY <1>2, <1>3, <1>4 DEF OwnerNext, ownerVars

\* A verified account stays verified, and its password changes only by a request
\* that has given the one it replaces, unless its verification or a change of
\* its password overlapped with a whole copy (auth.service.ts 174-243;
\* users.service.ts 18-46).
THEOREM PasswordIsKept == ASSUME OwnerAssumption PROVE OwnerSpec => VerifiedKeepsPassword
<1>1. OwnerInv /\ [OwnerNext]_ownerVars =>
        [\A e \in Owner :
           user[e].status = "verified" /\ <<e, "account">> \notin ownerRaced
           => /\ user'[e].status = "verified"
              /\ user'[e].password # user[e].password
                 => \E r \in OwnerRequest :
                      /\ ownerJob[r].op = "changePassword" /\ ownerJob[r].who = e
                      /\ ownerJob[r].row.password = user[e].password]_ownerVars
  BY PasswordChanger
<1>2. QED BY <1>1, OwnerInvariant, PTL DEF OwnerSpec, VerifiedKeepsPassword

\* Rows of users and the copies of requests keep their types, whichever requests
\* overlap (auth.service.ts, users.service.ts, business.service.ts).
COROLLARY OwnerTypeCorrect == ASSUME OwnerAssumption PROVE OwnerSpec => []OwnerTypeOK
<1>1. OwnerInv => OwnerTypeOK
  BY DEF OwnerInv
<1>2. QED BY <1>1, OwnerInvariant, PTL
=============================================================================

---------------------------- MODULE OwnerAccounts ----------------------------
(***************************************************************************)
(* The accounts of business owners: registration and its reclaim, e-mail   *)
(* verification, login, refresh and logout (auth.service.ts), the profile  *)
(* and the password (users.service.ts), and the businesses whose existence *)
(* the account caches as hasBusiness (business.service.ts).  A request is  *)
(* the sequence of its reads and writes; everything it awaits in between,  *)
(* the hashing above all, lets other requests in.                          *)
(*                                                                         *)
(* A password is known by its number, and so is the verification link that *)
(* a registration made with it.  bcrypt and JWT are external, and whether  *)
(* a refresh token that somebody presents matches the stored hash, or the  *)
(* one before it within the grace window, is left open: both branches of   *)
(* refreshTokens may be taken.  A change of address is left out.           *)
(*                                                                         *)
(* Nothing keeps two requests of one account apart.  Some pairs undo each  *)
(* other when they overlap: the history variable ownerRaced says on which  *)
(* accounts that has happened, and the properties speak of the others.     *)
(***************************************************************************)
EXTENDS Naturals, FiniteSets

CONSTANTS
    Owner,            \* the e-mail addresses, unique in the table users
    Business,         \* businesses that may be created
    OwnerRequest,     \* requests that may be under way at once
    MaxPasswords      \* bound on the passwords set in a behaviour

OwnerOps == {"register", "verifyEmail", "login", "refreshTokens",
             "updateProfile", "changePassword", "createBusiness", "removeBusiness"}

ASSUME OwnerAssumption == Owner # {} /\ MaxPasswords \in Nat

\* Those that save the whole copy they read, a registration when it reclaims.
Copiers == {"register", "updateProfile", "changePassword"}

KeepsCopy == Copiers \union {"createBusiness"}

\* The pairs of operations on one account that can leave hasBusiness wrong, and
\* those that can undo a verification or a password.
OwnerRaces == [
    flag    |-> {{a, b} : a \in Copiers, b \in {"createBusiness", "removeBusiness"}}
                \union {{"createBusiness", "removeBusiness"}},
    account |-> {{"verifyEmail", op} : op \in Copiers}
                \union {{"updateProfile", "changePassword"}, {"changePassword"}}]

VARIABLES
    user,           \* the rows of users
    businesses,     \* the businesses each owner has
    passwords,      \* passwords set so far
    ownerJob,       \* the requests under way
    ownerRaced      \* history: where two of them overlapped, and on what

ownerVars == <<user, businesses, passwords, ownerJob, ownerRaced>>

None == 0
Password == 1 .. MaxPasswords

\* emailVerified is status; refreshToken is whether one is stored.
UserRow == [status : {"absent", "unverified", "verified"},
            password : {None} \union Password,
            link : {None} \union Password, linkValid : BOOLEAN,
            refreshToken : BOOLEAN, hasBusiness : BOOLEAN]

AbsentUser == [status |-> "absent", password |-> None, link |-> None,
               linkValid |-> FALSE, refreshToken |-> FALSE,
               hasBusiness |-> FALSE]

\* row is the copy of the account, for a request that goes on to use it.
OwnerJob == [op : OwnerOps \union {"idle"}, at : {"read", "written", "counted"},
             who : Owner, row : UserRow]

\* An idle request keeps whom it last served.
IdleOwnerJob(e) == [op |-> "idle", at |-> "read", who |-> e, row |-> AbsentUser]

OwnerIdle(r) == ownerJob[r].op = "idle"

OwnerInit ==
    /\ user = [e \in Owner |-> AbsentUser]
    /\ businesses = [e \in Owner |-> {}]
    /\ passwords = 0
    /\ ownerJob = [r \in OwnerRequest |-> IdleOwnerJob(CHOOSE e \in Owner : TRUE)]
    /\ ownerRaced = {}

\* Request q works on the account e; a registration that has written is done.
OwnerAtWork(q, e) == ~OwnerIdle(q) /\ ownerJob[q].who = e /\ ownerJob[q].at # "written"

\* What op overlaps with on e.
OwnerOverlaps(op, e) == {race \in DOMAIN OwnerRaces :
    \E q \in OwnerRequest : OwnerAtWork(q, e) /\ {op, ownerJob[q].op} \in OwnerRaces[race]}

\* Request r has read the account e for op.
OwnerReads(r, op, e) ==
    /\ OwnerIdle(r)
    /\ ownerJob' = [ownerJob EXCEPT ![r] =
                      [op |-> op, at |-> "read", who |-> e,
                       row |-> IF op \in KeepsCopy THEN user[e] ELSE AbsentUser]]
    /\ ownerRaced' = ownerRaced \union ({e} \X OwnerOverlaps(op, e))

OwnerMoves(r, at) ==
    ownerJob' = [ownerJob EXCEPT ![r].at = at] /\ UNCHANGED ownerRaced
OwnerEnds(r) ==
    /\ ownerJob' = [ownerJob EXCEPT ![r] = IdleOwnerJob(ownerJob[r].who)]
    /\ UNCHANGED ownerRaced

At(r, op, at) == ownerJob[r].op = op /\ ownerJob[r].at = at

-----------------------------------------------------------------------------
(* Registration                                                            *)

\* Slip: an account that is verified is taken over too.
RegisterAnyway(r, e) ==
    /\ OwnerReads(r, "register", e)
    /\ UNCHANGED <<user, businesses, passwords>>

\* A verified account owns its address; any other may be taken over.
Register(r, e) ==
    /\ user[e].status # "verified"
    /\ OwnerReads(r, "register", e)
    /\ UNCHANGED <<user, businesses, passwords>>

\* existingUser is the copy read before the hash: save writes it whole.
SaveReclaim(r) ==
    LET e == ownerJob[r].who
        n == passwords + 1
    IN  /\ At(r, "register", "read")
        /\ ownerJob[r].row.status # "absent"
        /\ n <= MaxPasswords
        /\ passwords' = n
        /\ user' = [user EXCEPT ![e] = [ownerJob[r].row EXCEPT
                      !.status = "unverified", !.password = n,
                      !.link = n, !.linkValid = TRUE]]
        /\ OwnerMoves(r, "written")
        /\ UNCHANGED businesses

\* The address is unique: of two first passwords one is refused.
InsertUser(r) ==
    LET e == ownerJob[r].who
        n == passwords + 1
    IN  /\ At(r, "register", "read")
        /\ ownerJob[r].row.status = "absent"
        /\ IF user[e].status = "absent"
           THEN /\ n <= MaxPasswords
                /\ passwords' = n
                /\ user' = [user EXCEPT ![e] = [AbsentUser EXCEPT
                              !.status = "unverified", !.password = n,
                              !.link = n, !.linkValid = TRUE]]
                /\ OwnerMoves(r, "written")
           ELSE OwnerEnds(r) /\ UNCHANGED <<user, passwords>>
        /\ UNCHANGED businesses

\* The link is looked up; the account it names is verified by id later.
VerifyEmail(r, e) ==
    /\ user[e].link # None /\ user[e].linkValid
    /\ OwnerReads(r, "verifyEmail", e)
    /\ UNCHANGED <<user, businesses, passwords>>

MarkVerified(r) ==
    /\ At(r, "verifyEmail", "read")
    /\ user' = [user EXCEPT ![ownerJob[r].who].status = "verified",
                            ![ownerJob[r].who].link = None,
                            ![ownerJob[r].who].linkValid = FALSE]
    /\ OwnerEnds(r)
    /\ UNCHANGED <<businesses, passwords>>

LinkExpires(e) ==
    /\ user[e].linkValid
    /\ user' = [user EXCEPT ![e].linkValid = FALSE]
    /\ UNCHANGED <<businesses, passwords, ownerJob, ownerRaced>>

-----------------------------------------------------------------------------
(* Sessions                                                                *)

\* A login that gives the right password; a wrong one changes nothing.
Login(r, e) ==
    /\ user[e].status # "absent"
    /\ OwnerReads(r, "login", e)
    /\ UNCHANGED <<user, businesses, passwords>>

RefreshTokens(r, e) ==
    /\ user[e].status # "absent" /\ user[e].refreshToken
    /\ OwnerReads(r, "refreshTokens", e)
    /\ UNCHANGED <<user, businesses, passwords>>

\* What ends a registration, a login and a refresh whose token matched.
GenerateTokensForOwner(r) ==
    /\ \/ At(r, "register", "written")
       \/ At(r, "login", "read")
       \/ At(r, "refreshTokens", "read")
    /\ user' = [user EXCEPT ![ownerJob[r].who].refreshToken = TRUE]
    /\ OwnerEnds(r)
    /\ UNCHANGED <<businesses, passwords>>

\* A refresh whose token matched neither hash ends every session.
ClearSessions(r) ==
    /\ At(r, "refreshTokens", "read")
    /\ user' = [user EXCEPT ![ownerJob[r].who].refreshToken = FALSE]
    /\ OwnerEnds(r)
    /\ UNCHANGED <<businesses, passwords>>

Logout(e) ==
    /\ user[e].status # "absent"
    /\ user' = [user EXCEPT ![e].refreshToken = FALSE]
    /\ UNCHANGED <<businesses, passwords, ownerJob, ownerRaced>>

\* Both read the account and save the copy, changePassword with a new hash.
UpdateProfile(r, e) ==
    /\ user[e].status # "absent"
    /\ OwnerReads(r, "updateProfile", e)
    /\ UNCHANGED <<user, businesses, passwords>>

SaveProfile(r) ==
    /\ At(r, "updateProfile", "read")
    /\ user' = [user EXCEPT ![ownerJob[r].who] = ownerJob[r].row]
    /\ OwnerEnds(r)
    /\ UNCHANGED <<businesses, passwords>>

ChangeUserPassword(r, e) ==
    /\ user[e].status # "absent"
    /\ OwnerReads(r, "changePassword", e)
    /\ UNCHANGED <<user, businesses, passwords>>

SaveUserPassword(r) ==
    LET n == passwords + 1
    IN  /\ At(r, "changePassword", "read")
        /\ n <= MaxPasswords
        /\ passwords' = n
        /\ user' = [user EXCEPT ![ownerJob[r].who] =
                      [ownerJob[r].row EXCEPT !.password = n]]
        /\ OwnerEnds(r)
        /\ UNCHANGED businesses

-----------------------------------------------------------------------------
(* Businesses                                                              *)

\* The insert and the read of the flag; both wait in one transaction.
\* EmailVerifiedGuard, which comes first, lets unverified owners pass.
CreateBusiness(r, e) ==
    /\ user[e].status # "absent"
    /\ OwnerReads(r, "createBusiness", e)
    /\ UNCHANGED <<user, businesses, passwords>>

\* The transaction commits; names are unique among all owners.
CommitBusiness(r, b) ==
    LET e == ownerJob[r].who
    IN  /\ At(r, "createBusiness", "read")
        /\ IF \A o \in Owner : b \notin businesses[o]
           THEN /\ businesses' = [businesses EXCEPT ![e] = @ \union {b}]
                /\ user' = IF ownerJob[r].row.hasBusiness THEN user
                           ELSE [user EXCEPT ![e].hasBusiness = TRUE]
           ELSE UNCHANGED <<businesses, user>>
        /\ OwnerEnds(r)
        /\ UNCHANGED passwords

\* Three statements without a transaction: the delete ...
RemoveBusiness(r, e, b) ==
    /\ b \in businesses[e]
    /\ businesses' = [businesses EXCEPT ![e] = @ \ {b}]
    /\ OwnerReads(r, "removeBusiness", e)
    /\ UNCHANGED <<user, passwords>>

\* Slip: the flag is cleared whatever is left.
CountNothing(r) ==
    /\ At(r, "removeBusiness", "read")
    /\ OwnerMoves(r, "counted")
    /\ UNCHANGED <<user, businesses, passwords>>

\* ... the count of what is left ...
CountRemaining(r) ==
    /\ At(r, "removeBusiness", "read")
    /\ IF businesses[ownerJob[r].who] = {}
       THEN OwnerMoves(r, "counted")
       ELSE OwnerEnds(r)
    /\ UNCHANGED <<user, businesses, passwords>>

\* ... and the flag, when nothing was.
ClearHasBusiness(r) ==
    /\ At(r, "removeBusiness", "counted")
    /\ user' = [user EXCEPT ![ownerJob[r].who].hasBusiness = FALSE]
    /\ OwnerEnds(r)
    /\ UNCHANGED <<businesses, passwords>>

-----------------------------------------------------------------------------
OwnerRequestStep(r) ==
    \/ \E e \in Owner :
         \/ Register(r, e) \/ VerifyEmail(r, e) \/ RefreshTokens(r, e)
         \/ Login(r, e) \/ UpdateProfile(r, e) \/ ChangeUserPassword(r, e)
         \/ CreateBusiness(r, e)
         \/ \E b \in Business : RemoveBusiness(r, e, b)
    \/ SaveReclaim(r) \/ InsertUser(r) \/ MarkVerified(r)
    \/ GenerateTokensForOwner(r) \/ ClearSessions(r)
    \/ SaveProfile(r) \/ SaveUserPassword(r)
    \/ \E b \in Business : CommitBusiness(r, b)
    \/ CountRemaining(r) \/ ClearHasBusiness(r)

OwnerNext ==
    \/ \E r \in OwnerRequest : OwnerRequestStep(r)
    \/ \E e \in Owner : LinkExpires(e) \/ Logout(e)

OwnerSpec == OwnerInit /\ [][OwnerNext]_ownerVars

-----------------------------------------------------------------------------
\* Types of the rows and of the requests under way.
OwnerTypeOK ==
    /\ user \in [Owner -> UserRow]
    /\ businesses \in [Owner -> SUBSET Business]
    /\ passwords \in 0 .. MaxPasswords
    /\ ownerJob \in [OwnerRequest -> OwnerJob]
    /\ ownerRaced \subseteq Owner \X DOMAIN OwnerRaces

\* A verified account owns its address: it stays verified, and its password
\* changes only at the hand of somebody who has given the one it replaces -
\* unless a request that overlaps with the verification, or with a change of
\* the password, saves the copy it read before.  A registration that does so
\* takes the account over, against what auth.service.ts 174 says
\* (auth.service.ts, register 174-207, verifyEmail 225-243; users.service.ts,
\* updateProfile 18-36, changePassword 38-46).
VerifiedKeepsPassword ==
    [][\A e \in Owner :
         user[e].status = "verified" /\ <<e, "account">> \notin ownerRaced
         => /\ user'[e].status = "verified"
            /\ user'[e].password # user[e].password
               => \E r \in OwnerRequest :
                    /\ ownerJob[r].op = "changePassword" /\ ownerJob[r].who = e
                    /\ ownerJob[r].row.password = user[e].password]_ownerVars

\* While no request of the owner is under way, hasBusiness says whether the
\* owner has one, however removals of several businesses raced - unless a
\* creation has overlapped with a removal, or a request that saves a whole copy
\* of the account with either (business.service.ts, create 68-79, remove
\* 221-246).
BusinessFlagExact ==
    \A e \in Owner :
      /\ <<e, "flag">> \notin ownerRaced
      /\ \A r \in OwnerRequest : ~OwnerIdle(r) => ownerJob[r].who # e
      => (user[e].hasBusiness <=> businesses[e] # {})
=============================================================================

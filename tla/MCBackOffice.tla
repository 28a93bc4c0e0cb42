----------------------------- MODULE MCBackOffice -----------------------------
(***************************************************************************)
(* The parts of the server beside orders and table sessions: accounts, the *)
(* catalog, the settlement of payments, the staff rooms, the pairing of    *)
(* TVs and the guards.  They share no state, so a behaviour works at one   *)
(* desk, chosen at the start: what TLC explores is the sum of their state  *)
(* spaces.  The staff who sign in with a PIN and those with a password     *)
(* have a desk each for the same reason.                                   *)
(***************************************************************************)
EXTENDS OwnerAccounts, StaffAccounts, ModifierGroups, Menu, Images,
        PaymentReconcile, LiveFeed, DisplayPairing, RequestGuards, TLC

CONSTANTS v1, v2, o1, o2, m1

VARIABLE desk

accountVars == <<ownerVars, staffVars, guardVars>>
catalogVars == <<groupVars, menuVars, imageVars>>
liveVars == <<reconcileVars, feedVars, pairingVars>>
vars == <<desk, accountVars, catalogVars, liveVars>>

Desk == {"owners", "pins", "passwords", "guards", "modifiers", "menu", "images",
         "payments", "feeds", "displays"}

Init ==
    /\ desk \in Desk
    /\ OwnerInit /\ StaffInit /\ GuardInit
    /\ GroupInit /\ MenuInit /\ ImagesInit
    /\ ReconcileInit /\ FeedInit /\ PairingInit

StaffAtDesk ==
    \/ \E r \in StaffRequest : StaffRequestEnds(r)
    \/ \E s \in Staff : /\ desk = (IF s \in PinStaff THEN "pins" ELSE "passwords")
                        /\ StaffStep(s)

Next ==
    /\ UNCHANGED desk
    /\ \/ /\ desk = "owners" /\ OwnerNext
          /\ UNCHANGED <<staffVars, guardVars, catalogVars, liveVars>>
       \/ /\ desk \in {"pins", "passwords"} /\ StaffAtDesk
          /\ UNCHANGED <<ownerVars, guardVars, catalogVars, liveVars>>
       \/ /\ desk = "guards" /\ GuardNext
          /\ UNCHANGED <<ownerVars, staffVars, catalogVars, liveVars>>
       \/ /\ desk = "modifiers" /\ GroupNext
          /\ UNCHANGED <<accountVars, menuVars, imageVars, liveVars>>
       \/ /\ desk = "menu" /\ MenuNext
          /\ UNCHANGED <<accountVars, groupVars, imageVars, liveVars>>
       \/ /\ desk = "images" /\ ImagesNext
          /\ UNCHANGED <<accountVars, groupVars, menuVars, liveVars>>
       \/ /\ desk = "payments" /\ ReconcileNext
          /\ UNCHANGED <<accountVars, catalogVars, feedVars, pairingVars>>
       \/ /\ desk = "feeds" /\ FeedNext
          /\ UNCHANGED <<accountVars, catalogVars, reconcileVars, pairingVars>>
       \/ /\ desk = "displays" /\ PairingNext
          /\ UNCHANGED <<accountVars, catalogVars, reconcileVars, feedVars>>

Spec == Init /\ [][Next]_vars /\ ReconcileFairness /\ FeedFairness

\* Every part keeps its types, under any order of its requests.
TypeOK ==
    /\ OwnerTypeOK /\ StaffTypeOK /\ GuardTypeOK
    /\ GroupTypeOK /\ MenuTypeOK /\ ImagesTypeOK
    /\ ReconcileTypeOK /\ FeedTypeOK /\ PairingTypeOK

VenueOwner == v1 :> o1 @@ v2 :> o2
MemberVenue == m1 :> v1

\* No property says anything of an account on which both kinds of requests have
\* overlapped that OwnerRaces names.
SomethingIsClaimed == \E e \in Owner, race \in DOMAIN OwnerRaces : <<e, race>> \notin ownerRaced

\* The requests of all desks but payments and feeds.  No fairness condition and
\* no liveness property speaks of them.
Symmetric == Permutations(OwnerRequest)
=============================================================================

---------------------------- MODULE CatalogProofs ----------------------------
(***************************************************************************)
(* The catalog for every set of rows and of requests: the types of         *)
(* ModifierGroups, Menu and Images, that a fixed price stands in a group   *)
(* of single choice, that the pages that follow offer what is available,   *)
(* and that no row of an image points to a missing object.                 *)
(***************************************************************************)
EXTENDS ModifierGroups, Menu, Images, TLAPS

-----------------------------------------------------------------------------
(* Images                                                                  *)

\* A key that was put and not yet saved is nobody else's, and one whose row a
\* removal has deleted never gets a row again.
KeySound(r) ==
  /\ imageJob[r].key \subseteq spent
  /\ imageJob[r].at = "put" =>
       /\ imageJob[r].key \subseteq objects
       /\ imageJob[r].key \intersect rows = {}
       /\ \A q \in ImageRequest : q # r => imageJob[q].key \intersect imageJob[r].key = {}
  /\ imageJob[r].at = "removed" => imageJob[r].key \intersect rows = {}

ImageInv ==
  /\ ImagesTypeOK
  /\ RowHasObject
  /\ objects \subseteq spent
  /\ \A r \in ImageRequest : KeySound(r)

LEMMA ImagesInitInv == ImagesInit => ImageInv
BY DEF ImagesInit, ImageInv, ImagesTypeOK, RowHasObject, KeySound, IdleImageJob, ImageJob

\* A request that ends touches no key any more.
LEMMA IdleKeyKeeps ==
  ASSUME ImageInv, NEW r \in ImageRequest, ImageEnds(r)
  PROVE  /\ imageJob' \in [ImageRequest -> ImageJob]
         /\ imageJob'[r] = IdleImageJob
         /\ \A q \in ImageRequest : q # r => imageJob'[q] = imageJob[q]
<1>1. IdleImageJob \in ImageJob
  BY DEF IdleImageJob, ImageJob
<1>2. QED BY <1>1 DEF ImageEnds, ImageInv, ImagesTypeOK

LEMMA UploadKeeps ==
  ASSUME ImageInv, NEW r \in ImageRequest, NEW k \in Image, NEW table \in SUBSET Picture,
         Upload(r, k, table)
  PROVE  ImageInv'
<1> DEFINE new == [at |-> "put", key |-> {k}, table |-> table]
<1>1. new \in ImageJob
  BY DEF ImageJob
<1>2. /\ imageJob' \in [ImageRequest -> ImageJob] /\ imageJob'[r] = new
      /\ \A q \in ImageRequest : q # r => imageJob'[q] = imageJob[q]
  BY <1>1 DEF Upload, ImageInv, ImagesTypeOK
<1>3. ImagesTypeOK'
  BY <1>2 DEF Upload, ImageInv, ImagesTypeOK
<1>4. k \notin rows /\ \A q \in ImageRequest : k \notin imageJob[q].key
  BY DEF Upload, ImageInv, RowHasObject, KeySound
<1>5. RowHasObject' /\ (objects \subseteq spent)'
  BY DEF Upload, ImageInv, RowHasObject
<1>6. KeySound(r)'
  BY <1>2, <1>4 DEF Upload, KeySound
<1>7. ASSUME NEW q \in ImageRequest, q # r PROVE KeySound(q)'
  <2>1. KeySound(q) /\ imageJob'[q] = imageJob[q]
    BY <1>2, <1>7 DEF ImageInv
  <2>2. imageJob[q].key \intersect imageJob'[r].key = {}
    BY <1>2, <1>4
  <2>3. QED BY <1>2, <2>1, <2>2 DEF Upload, KeySound
<1>8. QED BY <1>3, <1>5, <1>6, <1>7 DEF ImageInv

LEMMA SaveImageKeeps ==
  ASSUME ImageInv, NEW r \in ImageRequest, SaveImage(r)
  PROVE  ImageInv'
<1>1. imageJob[r] \in ImageJob /\ KeySound(r)
  BY DEF ImageInv, ImagesTypeOK
<1>2. [imageJob[r] EXCEPT !.at = "saved"] \in ImageJob
  BY <1>1 DEF ImageJob
<1>3. /\ imageJob' \in [ImageRequest -> ImageJob]
      /\ imageJob'[r].at \in {"idle", "saved"} /\ imageJob'[r].key \subseteq imageJob[r].key
      /\ \A q \in ImageRequest : q # r => imageJob'[q] = imageJob[q]
  <2>1. CASE ImageEnds(r)
    BY <2>1, IdleKeyKeeps DEF IdleImageJob
  <2>2. CASE imageJob' = [imageJob EXCEPT ![r].at = "saved"]
    BY <1>1, <1>2, <2>2 DEF ImageInv, ImagesTypeOK, ImageJob
  <2>3. QED BY <2>1, <2>2 DEF SaveImage
<1>4. ImagesTypeOK'
  BY <1>1, <1>3 DEF SaveImage, ImageInv, ImagesTypeOK, ImageJob
<1>5. RowHasObject' /\ (objects \subseteq spent)'
  BY <1>1 DEF SaveImage, ImageInv, RowHasObject, KeySound
<1>6. KeySound(r)'
  BY <1>1, <1>3 DEF SaveImage, KeySound
<1>7. ASSUME NEW q \in ImageRequest, q # r PROVE KeySound(q)'
  <2>1. KeySound(q) /\ imageJob'[q] = imageJob[q]
    BY <1>3, <1>7 DEF ImageInv
  <2>2. imageJob[q].key \intersect imageJob[r].key = {}
    BY <1>1, <1>7 DEF SaveImage, KeySound
  <2>3. QED BY <1>3, <2>1, <2>2 DEF SaveImage, KeySound
<1>8. QED BY <1>4, <1>5, <1>6, <1>7 DEF ImageInv

LEMMA RemoveKeeps ==
  ASSUME ImageInv, NEW r \in ImageRequest, NEW k \in Image, Remove(r, k)
  PROVE  ImageInv'
<1> DEFINE new == [at |-> "found", key |-> {k}, table |-> {}]
<1>1. new \in ImageJob
  BY DEF ImageJob
<1>2. /\ imageJob' \in [ImageRequest -> ImageJob] /\ imageJob'[r] = new
      /\ \A q \in ImageRequest : q # r => imageJob'[q] = imageJob[q]
  BY <1>1 DEF Remove, ImageInv, ImagesTypeOK
<1>3. ImagesTypeOK' /\ RowHasObject' /\ (objects \subseteq spent)'
  BY <1>2 DEF Remove, ImageInv, ImagesTypeOK, RowHasObject
<1>4. KeySound(r)'
  BY <1>2 DEF Remove, KeySound, ImageInv, RowHasObject
<1>5. ASSUME NEW q \in ImageRequest, q # r PROVE KeySound(q)'
  BY <1>2, <1>5 DEF Remove, KeySound, ImageInv
<1>6. QED BY <1>3, <1>4, <1>5 DEF ImageInv

\* Removal goes on: the row first, then the object.
LEMMA RemovalKeeps ==
  ASSUME ImageInv, NEW r \in ImageRequest,
         UpdateTableImage(r) \/ RemoveRow(r) \/ DeleteObject(r) \/ ImageRequestDies(r)
  PROVE  ImageInv'
<1>1. imageJob[r] \in ImageJob /\ KeySound(r)
  BY DEF ImageInv, ImagesTypeOK
<1>2. [imageJob[r] EXCEPT !.at = "removed"] \in ImageJob
  BY <1>1 DEF ImageJob
<1>3. /\ imageJob' \in [ImageRequest -> ImageJob]
      /\ \/ imageJob'[r].at = "idle" /\ imageJob'[r].key = {}
         \/ /\ imageJob'[r].at = "removed" /\ imageJob'[r].key = imageJob[r].key
            /\ RemoveRow(r)
      /\ \A q \in ImageRequest : q # r => imageJob'[q] = imageJob[q]
  <2>1. CASE ImageEnds(r)
    BY <2>1, IdleKeyKeeps DEF IdleImageJob
  <2>2. CASE RemoveRow(r)
    BY <1>1, <1>2, <2>2 DEF RemoveRow, ImageInv, ImagesTypeOK, ImageJob
  <2>3. QED BY <2>1, <2>2 DEF UpdateTableImage, DeleteObject, ImageRequestDies
<1>4. ImagesTypeOK'
  <2>1. imageUrl' \in [Picture -> SUBSET Image]
    BY <1>1 DEF UpdateTableImage, RemoveRow, DeleteObject, ImageRequestDies, ImageInv,
       ImagesTypeOK, ImageJob
  <2>2. QED BY <1>1, <1>3, <2>1 DEF UpdateTableImage, RemoveRow, DeleteObject,
            ImageRequestDies, ImageInv, ImagesTypeOK
<1>5. rows' \subseteq rows /\ spent' = spent /\ objects' \subseteq objects
  BY DEF UpdateTableImage, RemoveRow, DeleteObject, ImageRequestDies
<1>6. RowHasObject' /\ (objects \subseteq spent)'
  BY <1>1, <1>5 DEF UpdateTableImage, RemoveRow, DeleteObject, ImageRequestDies, ImageInv,
     RowHasObject, KeySound
<1>7. KeySound(r)'
  BY <1>1, <1>3, <1>5 DEF KeySound, RemoveRow
<1>8. ASSUME NEW q \in ImageRequest, q # r PROVE KeySound(q)'
  <2>1. KeySound(q) /\ imageJob'[q] = imageJob[q]
    BY <1>3, <1>8 DEF ImageInv
  <2>2. imageJob[q].at = "put" => imageJob[q].key \subseteq objects'
    BY <1>8, <2>1 DEF KeySound, UpdateTableImage, RemoveRow, DeleteObject, ImageRequestDies
  <2>3. imageJob[q].at = "put" =>
          \A x \in ImageRequest : x # q => imageJob'[x].key \intersect imageJob[q].key = {}
    BY <1>3, <2>1 DEF KeySound
  <2>4. QED BY <1>5, <2>1, <2>2, <2>3 DEF KeySound
<1>9. QED BY <1>4, <1>6, <1>7, <1>8 DEF ImageInv

\* Every step keeps the invariant of the images.
LEMMA ImageStepKeeps == ImageInv /\ [ImagesNext]_imageVars => ImageInv'
<1>1. SUFFICES ASSUME ImageInv, [ImagesNext]_imageVars PROVE ImageInv'
  OBVIOUS
<1>2. ASSUME NEW r \in ImageRequest, ImageRequestStep(r) PROVE ImageInv'
  <2>1. ASSUME NEW k \in Image, NEW table \in SUBSET Picture, Upload(r, k, table)
        PROVE  ImageInv'
    BY <1>1, <2>1, UploadKeeps
  <2>2. ASSUME NEW k \in Image, Remove(r, k) PROVE ImageInv'
    BY <1>1, <2>2, RemoveKeeps
  <2>3. QED BY <1>1, <1>2, <2>1, <2>2, SaveImageKeeps, RemovalKeeps DEF ImageRequestStep
<1>3. CASE UNCHANGED imageVars
  BY <1>1, <1>3 DEF imageVars, ImageInv, ImagesTypeOK, RowHasObject, KeySound
<1>4. QED BY <1>1, <1>2, <1>3 DEF ImagesNext

\* The store, the rows and the uploads keep their types, and whatever breaks
\* off, no row of an image points to an object that is missing.
THEOREM NoDanglingRow == ImagesSpec => [](ImagesTypeOK /\ RowHasObject)
<1>1. ImageInv => ImagesTypeOK /\ RowHasObject
  BY DEF ImageInv
<1>2. QED BY <1>1, ImagesInitInv, ImageStepKeeps, PTL DEF ImagesSpec

-----------------------------------------------------------------------------
(* Modifier groups                                                         *)

\* No pair of GroupRaces is under way on a group that is not raced.
GroupSeparate ==
  \A q, r \in GroupRequest :
    q # r /\ groupJob[q].on = groupJob[r].on /\ groupJob[r].on \notin groupRaced
      => {groupJob[q].op, groupJob[r].op} \notin GroupRaces

\* What a request that passed its check can still rely on.
StillAllowed(r) ==
  LET g == groupJob[r].on
  IN  /\ groupJob[r].op # "idle" => group[g].state # "absent"
      /\ groupJob[r].op = "updateModifierGroup" => groupJob[r].row.state = "live"
      /\ groupJob[r].op \in {"addModifierToGroup", "updateModifier"} =>
           groupJob[r].price.in = {g}
      /\ g \notin groupRaced =>
           /\ groupJob[r].op = "updateModifierGroup" /\ ~groupJob[r].replaces
                /\ groupJob[r].row.selectionType = "MULTIPLE" => ~HasFixed(g)
           /\ groupJob[r].op \in {"addModifierToGroup", "updateModifier"} =>
                (groupJob[r].price.priceType = "fixed" => group[g].selectionType = "SINGLE")

InsideARow == \A m \in Modifier, g \in Group :
                modifier[m].in = {g} => group[g].state # "absent"

GroupInv ==
  /\ GroupTypeOK
  /\ GroupSeparate
  /\ FixedOnlyInSingle
  /\ InsideARow
  /\ \A r \in GroupRequest : StillAllowed(r)

LEMMA IdleGroupTyped ==
  \A g \in Group, m \in Modifier : IdleGroupJob(g, m) \in GroupJob
BY DEF IdleGroupJob, GroupJob, GroupRow, ModifierRow, AbsentModifier, SelectionType, PriceType

LEMMA GroupInitInv == ASSUME GroupAssumption, GroupInit PROVE GroupInv
<1>1. (CHOOSE g \in Group : TRUE) \in Group /\ (CHOOSE m \in Modifier : TRUE) \in Modifier
  BY DEF GroupAssumption
<1>2. GroupTypeOK
  BY <1>1, IdleGroupTyped DEF GroupInit, GroupTypeOK, GroupRow, ModifierRow, AbsentModifier,
     SelectionType, PriceType
<1>3. GroupSeparate
  BY DEF GroupInit, GroupSeparate, IdleGroupJob, GroupRaces
<1>4. FixedOnlyInSingle /\ InsideARow
  BY DEF GroupInit, FixedOnlyInSingle, InsideARow, AbsentModifier
<1>5. \A r \in GroupRequest : StillAllowed(r)
  BY DEF GroupInit, StillAllowed, IdleGroupJob
<1>6. QED BY <1>2, <1>3, <1>4, <1>5 DEF GroupInv

\* A request that begins is apart from all that are under way.
LEMMA GroupReadKeeps ==
  ASSUME GroupAssumption, GroupInv, NEW r \in GroupRequest, NEW op \in GroupOps,
         NEW g \in Group, NEW selectionType \in SelectionType, NEW m \in Modifier,
         NEW price \in ModifierRow, NEW replaces \in BOOLEAN,
         GroupReads(r, op, g, selectionType, m, price, replaces),
         op = "updateModifierGroup" =>
           (replaces \/ AssertFixedPriceAllowed(selectionType, HasFixed(g))),
         op # "updateModifierGroup" =>
           /\ price.in = {g}
           /\ price.priceType = "fixed" => group[g].selectionType = "SINGLE"
  PROVE  GroupInv'
<1> DEFINE new == [op |-> op, on |-> g,
                   row |-> [state |-> "live", selectionType |-> selectionType],
                   m |-> m, price |-> price, replaces |-> replaces]
<1>1. new \in GroupJob
  BY DEF GroupJob, GroupRow
<1>2. /\ groupJob' \in [GroupRequest -> GroupJob] /\ groupJob'[r] = new
      /\ \A q \in GroupRequest : q # r => groupJob'[q] = groupJob[q]
      /\ UNCHANGED <<group, modifier>> /\ groupRaced \subseteq groupRaced'
      /\ groupRaced' \subseteq Group
  BY <1>1 DEF GroupReads, GroupInv, GroupTypeOK
<1>3. g \notin groupRaced' =>
        \A q \in GroupRequest : groupJob[q].on = g => {op, groupJob[q].op} \notin GroupRaces
  BY DEF GroupReads
<1>4. GroupSeparate'
  <2>1. SUFFICES ASSUME NEW p \in GroupRequest, NEW q \in GroupRequest, p # q,
                        groupJob'[p].on = groupJob'[q].on, groupJob'[q].on \notin groupRaced'
                 PROVE  {groupJob'[p].op, groupJob'[q].op} \notin GroupRaces
    BY DEF GroupSeparate
  <2>2. {groupJob'[p].op, groupJob'[q].op} = {groupJob'[q].op, groupJob'[p].op}
    OBVIOUS
  <2>3. CASE p = r
    BY <1>2, <1>3, <2>1, <2>3
  <2>4. CASE q = r
    BY <1>2, <1>3, <2>1, <2>2, <2>4
  <2>5. CASE p # r /\ q # r
    BY <1>2, <2>1, <2>5 DEF GroupInv, GroupSeparate
  <2>6. QED BY <2>3, <2>4, <2>5
<1>5. HasFixed(g)' = HasFixed(g) /\ \A x : HasFixed(x)' = HasFixed(x)
  BY <1>2 DEF HasFixed, In
<1>6. StillAllowed(r)'
  <2>1. op \in {"updateModifierGroup", "addModifierToGroup", "updateModifier"}
    BY DEF GroupOps
  <2>2. group[g].state = "live"
    BY DEF GroupReads
  <2>3. QED BY <1>2, <1>5, <2>1, <2>2 DEF StillAllowed, AssertFixedPriceAllowed
<1>7. ASSUME NEW q \in GroupRequest, q # r PROVE StillAllowed(q)'
  BY <1>2, <1>5, <1>7 DEF StillAllowed, GroupInv
<1>8. GroupTypeOK' /\ FixedOnlyInSingle' /\ InsideARow'
  BY <1>2 DEF GroupInv, GroupTypeOK, FixedOnlyInSingle, InsideARow
<1>9. QED BY <1>4, <1>6, <1>7, <1>8 DEF GroupInv

\* A request that ends.
LEMMA GroupEndKeeps ==
  ASSUME GroupAssumption, GroupTypeOK, GroupSeparate, NEW r \in GroupRequest, GroupEnds(r)
  PROVE  /\ groupJob' \in [GroupRequest -> GroupJob]
         /\ groupJob'[r].op = "idle"
         /\ \A q \in GroupRequest : q # r => groupJob'[q] = groupJob[q]
         /\ groupRaced' = groupRaced
         /\ GroupSeparate'
<1>1. groupJob[r] \in GroupJob
  BY DEF GroupTypeOK
<1>2. IdleGroupJob(groupJob[r].on, groupJob[r].m) \in GroupJob
  BY <1>1, IdleGroupTyped DEF GroupJob
<1>3. /\ groupJob' \in [GroupRequest -> GroupJob]
      /\ groupJob'[r].op = "idle"
      /\ \A q \in GroupRequest : q # r => groupJob'[q] = groupJob[q]
      /\ groupRaced' = groupRaced
  BY <1>2 DEF GroupEnds, GroupTypeOK, IdleGroupJob
<1>4. \A x : {x, "idle"} \notin GroupRaces /\ {"idle", x} \notin GroupRaces
  BY DEF GroupRaces
<1>5. GroupSeparate'
  <2>1. SUFFICES ASSUME NEW p \in GroupRequest, NEW q \in GroupRequest, p # q,
                        groupJob'[p].on = groupJob'[q].on, groupJob'[q].on \notin groupRaced
                 PROVE  {groupJob'[p].op, groupJob'[q].op} \notin GroupRaces
    BY <1>3 DEF GroupSeparate
  <2>2. CASE p = r \/ q = r
    BY <1>3, <1>4, <2>2
  <2>3. CASE p # r /\ q # r
    BY <1>3, <2>1, <2>3 DEF GroupSeparate
  <2>4. QED BY <2>2, <2>3
<1>6. QED BY <1>3, <1>5

LEMMA CreateGroupKeeps ==
  ASSUME GroupAssumption, GroupInv, NEW g \in Group, NEW s \in SelectionType,
         NEW new \in SUBSET Modifier, NEW prices \in [new -> PriceType],
         CreateModifierGroup(g, s, prices)
  PROVE  GroupInv'
<1>1. DOMAIN prices = new
  OBVIOUS
<1>2. /\ group[g].state = "absent" /\ \A x \in Group : x # g => group'[x] = group[x]
      /\ group'[g] = [state |-> "live", selectionType |-> s]
      /\ groupJob' = groupJob /\ groupRaced' = groupRaced
      /\ group' \in [Group -> GroupRow]
  BY DEF CreateModifierGroup, GroupInv, GroupTypeOK, GroupRow
<1>3. /\ modifier' \in [Modifier -> ModifierRow]
      /\ \A m \in new : /\ modifier[m].in = {} /\ modifier'[m].in = {g}
                        /\ modifier'[m].priceType = prices[m]
      /\ \A m \in Modifier \ new : modifier'[m] = modifier[m]
  BY <1>1 DEF CreateModifierGroup, GroupInv, GroupTypeOK, ModifierRow, Free
<1>4. s = "MULTIPLE" => \A m \in new : prices[m] # "fixed"
  BY <1>1 DEF CreateModifierGroup, AssertFixedPriceAllowed
<1>5. GroupTypeOK' /\ GroupSeparate'
  BY <1>2, <1>3 DEF GroupInv, GroupTypeOK, GroupSeparate
<1>6. FixedOnlyInSingle'
  <2>1. SUFFICES ASSUME NEW m \in Modifier, NEW x \in Group \ groupRaced,
                        modifier'[m] = [in |-> {x}, priceType |-> "fixed"]
                 PROVE  group'[x].selectionType = "SINGLE"
    BY <1>2 DEF FixedOnlyInSingle
  <2>2. CASE m \in new
    <3>1. x = g /\ prices[m] = "fixed"
      BY <1>3, <2>1, <2>2
    <3>2. QED BY <1>2, <1>4, <2>2, <3>1 DEF SelectionType
  <2>3. CASE m \notin new
    <3>1. modifier[m] = [in |-> {x}, priceType |-> "fixed"]
      BY <1>3, <2>1, <2>3
    <3>2. x # g /\ group[x].selectionType = "SINGLE"
      BY <1>2, <3>1 DEF GroupInv, FixedOnlyInSingle, InsideARow
    <3>3. QED BY <1>2, <3>2
  <2>4. QED BY <2>2, <2>3
<1>7. InsideARow'
  <2>1. SUFFICES ASSUME NEW m \in Modifier, NEW x \in Group, modifier'[m].in = {x}
                 PROVE  group'[x].state # "absent"
    BY DEF InsideARow
  <2>2. CASE m \in new
    <3>1. x = g
      BY <1>3, <2>1, <2>2
    <3>2. QED BY <1>2, <3>1
  <2>3. CASE m \notin new
    <3>1. group[x].state # "absent"
      BY <1>3, <2>1, <2>3 DEF GroupInv, InsideARow
    <3>2. QED BY <1>2, <3>1
  <2>4. QED BY <2>2, <2>3
<1>8. ASSUME NEW r \in GroupRequest PROVE StillAllowed(r)'
  <2>1. StillAllowed(r) /\ groupJob[r].on \in Group
    BY DEF GroupInv, GroupTypeOK, GroupJob
  <2>2. CASE groupJob[r].op = "idle"
    BY <1>2, <2>2 DEF StillAllowed
  <2>3. CASE groupJob[r].op # "idle"
    <3>1. groupJob[r].on # g
      BY <1>2, <2>1, <2>3 DEF StillAllowed
    <3>2. ~HasFixed(groupJob[r].on) => ~(HasFixed(groupJob[r].on)')
      <4>1. groupJob'[r].on = groupJob[r].on
        BY <1>2
      <4>2. \A m \in Modifier : modifier'[m].in = {groupJob[r].on}
                               => m \notin new
        BY <1>3, <3>1
      <4>3. \A m \in Modifier : modifier'[m].in = {groupJob[r].on}
                               => modifier'[m] = modifier[m]
        BY <1>3, <4>2
      <4>4. QED BY <4>1, <4>3 DEF HasFixed, In
    <3>3. QED BY <1>2, <2>1, <3>1, <3>2 DEF StillAllowed
  <2>4. QED BY <2>2, <2>3
<1>9. QED BY <1>5, <1>6, <1>7, <1>8 DEF GroupInv

\* The groups stay, apart from their states, and no fixed price is added.
LEMMA DeletesKeep ==
  ASSUME GroupInv, NEW g \in Group,
         DeleteModifierGroup(g) \/ \E m \in Modifier : DeleteModifier(g, m)
  PROVE  GroupInv'
<1>1. /\ groupJob' = groupJob /\ groupRaced' = groupRaced
      /\ group' \in [Group -> GroupRow]
      /\ \A x \in Group : /\ group'[x].selectionType = group[x].selectionType
                          /\ group[x].state # "absent" => group'[x].state # "absent"
  BY DEF DeleteModifierGroup, DeleteModifier, GroupInv, GroupTypeOK, GroupRow
<1>2. /\ modifier' \in [Modifier -> ModifierRow]
      /\ \A m \in Modifier : modifier'[m] \in {modifier[m], AbsentModifier}
  BY DEF DeleteModifierGroup, DeleteModifier, GroupInv, GroupTypeOK, ModifierRow,
     AbsentModifier, PriceType
<1>3. \A m \in Modifier : \A x : modifier'[m].in = {x} => modifier'[m] = modifier[m]
  BY <1>2 DEF AbsentModifier
<1>4. GroupTypeOK' /\ GroupSeparate'
  BY <1>1, <1>2 DEF GroupInv, GroupTypeOK, GroupSeparate
<1>5. FixedOnlyInSingle'
  <2>1. SUFFICES ASSUME NEW m \in Modifier, NEW x \in Group \ groupRaced,
                        modifier'[m] = [in |-> {x}, priceType |-> "fixed"]
                 PROVE  group'[x].selectionType = "SINGLE"
    BY <1>1 DEF FixedOnlyInSingle
  <2>2. modifier'[m].in = {x}
    BY <2>1
  <2>3. modifier[m] = modifier'[m]
    BY <1>3, <2>2
  <2>4. QED BY <1>1, <2>1, <2>3 DEF GroupInv, FixedOnlyInSingle
<1>6. InsideARow'
  BY <1>1, <1>3 DEF GroupInv, InsideARow
<1>7. ASSUME NEW r \in GroupRequest PROVE StillAllowed(r)'
  <2>1. StillAllowed(r) /\ groupJob[r].on \in Group
    BY DEF GroupInv, GroupTypeOK, GroupJob
  <2>2. ~HasFixed(groupJob[r].on) => ~(HasFixed(groupJob[r].on)')
    BY <1>1, <1>3 DEF HasFixed, In
  <2>3. QED BY <1>1, <2>1, <2>2 DEF StillAllowed
<1>8. QED BY <1>4, <1>5, <1>6, <1>7 DEF GroupInv

\* One modifier is written, as its request had it checked.
LEMMA WriteModifierKeeps ==
  ASSUME GroupAssumption, GroupInv, NEW r \in GroupRequest,
         NEW m \in Modifier,
         groupJob[r].op \in {"addModifierToGroup", "updateModifier"},
         modifier' = [modifier EXCEPT ![m] = groupJob[r].price],
         GroupEnds(r), UNCHANGED group
  PROVE  GroupInv'
<1> DEFINE g == groupJob[r].on
<1>1. /\ groupJob' \in [GroupRequest -> GroupJob] /\ groupJob'[r].op = "idle"
      /\ \A q \in GroupRequest : q # r => groupJob'[q] = groupJob[q]
      /\ groupRaced' = groupRaced /\ GroupSeparate'
  BY GroupEndKeeps DEF GroupInv
<1>2. /\ groupJob[r].price \in ModifierRow /\ groupJob[r].price.in = {g} /\ g \in Group
      /\ g \notin groupRaced =>
           (groupJob[r].price.priceType = "fixed" => group[g].selectionType = "SINGLE")
      /\ group[g].state # "absent"
  BY DEF GroupInv, GroupTypeOK, GroupJob, StillAllowed
<1>3. modifier' \in [Modifier -> ModifierRow] /\ modifier'[m] = groupJob[r].price
      /\ \A x \in Modifier : x # m => modifier'[x] = modifier[x]
  BY <1>2 DEF GroupInv, GroupTypeOK
<1>4. GroupTypeOK'
  BY <1>1, <1>3 DEF GroupInv, GroupTypeOK
<1>5. FixedOnlyInSingle'
  <2>1. SUFFICES ASSUME NEW x \in Modifier, NEW y \in Group \ groupRaced,
                        modifier'[x] = [in |-> {y}, priceType |-> "fixed"]
                 PROVE  group[y].selectionType = "SINGLE"
    BY <1>1 DEF FixedOnlyInSingle
  <2>2. CASE x = m
    <3>1. y = g /\ groupJob[r].price.priceType = "fixed"
      BY <1>2, <1>3, <2>1, <2>2
    <3>2. QED BY <1>2, <3>1
  <2>3. CASE x # m
    BY <1>3, <2>1, <2>3 DEF GroupInv, FixedOnlyInSingle
  <2>4. QED BY <2>2, <2>3
<1>6. InsideARow'
  <2>1. SUFFICES ASSUME NEW x \in Modifier, NEW y \in Group, modifier'[x].in = {y}
                 PROVE  group[y].state # "absent"
    BY DEF InsideARow
  <2>2. QED BY <1>2, <1>3, <2>1 DEF GroupInv, InsideARow
<1>7. ASSUME NEW q \in GroupRequest PROVE StillAllowed(q)'
  <2>1. CASE q = r
    BY <1>1, <2>1 DEF StillAllowed
  <2>2. CASE q # r
    <3>1. StillAllowed(q) /\ groupJob'[q] = groupJob[q]
      BY <1>1, <2>2 DEF GroupInv
    <3>2. CASE groupJob[q].op = "updateModifierGroup"
      <4>1. groupJob[q].on \notin groupRaced => groupJob[q].on # g
        BY <2>2, <3>2 DEF GroupInv, GroupSeparate, GroupRaces
      <4>2. groupJob[q].on \notin groupRaced /\ ~HasFixed(groupJob[q].on)
              => ~(HasFixed(groupJob[q].on)')
        BY <1>2, <1>3, <3>1, <4>1 DEF HasFixed, In
      <4>3. QED BY <1>1, <3>1, <3>2, <4>2 DEF StillAllowed
    <3>3. CASE groupJob[q].op # "updateModifierGroup"
      BY <1>1, <3>1, <3>3 DEF StillAllowed
    <3>4. QED BY <3>2, <3>3
  <2>3. QED BY <2>1, <2>2
<1>8. QED BY <1>1, <1>4, <1>5, <1>6, <1>7 DEF GroupInv

\* The copy of a group and its new modifiers, none with a fixed price.
LEMMA CommitGroupKeeps ==
  ASSUME GroupAssumption, GroupInv, NEW r \in GroupRequest,
         NEW new \in SUBSET Modifier, CommitGroup(r, new)
  PROVE  GroupInv'
<1> DEFINE g == groupJob[r].on
<1>1. /\ groupJob' \in [GroupRequest -> GroupJob] /\ groupJob'[r].op = "idle"
      /\ \A q \in GroupRequest : q # r => groupJob'[q] = groupJob[q]
      /\ groupRaced' = groupRaced /\ GroupSeparate'
  BY GroupEndKeeps DEF GroupInv, CommitGroup
<1>2. g \in Group /\ groupJob[r].row \in GroupRow /\ StillAllowed(r) /\ g = groupJob[r].on
  BY DEF GroupInv, GroupTypeOK, GroupJob
<1>3. /\ group' \in [Group -> GroupRow] /\ group'[g] = groupJob[r].row
      /\ \A x \in Group : x # g => group'[x] = group[x]
  BY <1>2 DEF CommitGroup, GroupInv, GroupTypeOK
<1>4. groupJob[r].op = "updateModifierGroup" /\ groupJob[r].row.state = "live"
  BY <1>2 DEF CommitGroup, StillAllowed
<1>5. /\ modifier' \in [Modifier -> ModifierRow]
      /\ \A m \in Modifier :
           \/ modifier'[m] = modifier[m]
                /\ (groupJob[r].replaces => m \notin In(g))
           \/ modifier'[m].in = {g} /\ modifier'[m].priceType = "adjustment"
           \/ modifier'[m].in = {}
  <2>1. CASE groupJob[r].replaces
    <3>1. modifier' = [m \in Modifier |->
                         IF m \in new THEN [in |-> {g}, priceType |-> "adjustment"]
                         ELSE IF m \in In(g) THEN AbsentModifier ELSE modifier[m]]
      BY <2>1 DEF CommitGroup
    <3>2. AbsentModifier \in ModifierRow /\ [in |-> {g}, priceType |-> "adjustment"] \in ModifierRow
      BY <1>2 DEF AbsentModifier, ModifierRow, PriceType
    <3>3. QED BY <1>2, <3>1, <3>2 DEF AbsentModifier, GroupInv, GroupTypeOK
  <2>2. CASE ~groupJob[r].replaces
    BY <2>2 DEF CommitGroup, GroupInv, GroupTypeOK
  <2>3. QED BY <2>1, <2>2
<1>6. \A m \in Modifier, x \in Group :
        modifier'[m].in = {x} /\ modifier'[m].priceType = "fixed" => modifier'[m] = modifier[m]
  <2>1. \A x \in Group : {x} # {}
    OBVIOUS
  <2>2. QED BY <1>5, <2>1
<1>7. GroupTypeOK'
  BY <1>1, <1>3, <1>5 DEF GroupInv, GroupTypeOK
<1>8. FixedOnlyInSingle'
  <2>1. SUFFICES ASSUME NEW m \in Modifier, NEW x \in Group \ groupRaced,
                        modifier'[m] = [in |-> {x}, priceType |-> "fixed"]
                 PROVE  group'[x].selectionType = "SINGLE"
    BY <1>1 DEF FixedOnlyInSingle
  <2>2. modifier'[m].in = {x} /\ modifier'[m].priceType = "fixed"
    BY <2>1
  <2>3. modifier[m] = modifier'[m] /\ group[x].selectionType = "SINGLE"
    BY <1>6, <2>1, <2>2 DEF GroupInv, FixedOnlyInSingle
  <2>4. CASE x # g
    BY <1>3, <2>3, <2>4
  <2>5. CASE x = g
    <3>1. m \in In(g) /\ HasFixed(g)
      BY <2>2, <2>3, <2>5 DEF In, HasFixed
    <3>2. ~groupJob[r].replaces
      <4>1. SUFFICES ASSUME groupJob[r].replaces PROVE FALSE
        OBVIOUS
      <4>2. m \in new \/ modifier'[m] = AbsentModifier
        BY <3>1, <4>1 DEF CommitGroup
      <4>3. modifier'[m].in = {} \/ modifier'[m].priceType = "adjustment"
        BY <4>1, <4>2 DEF CommitGroup, AbsentModifier
      <4>4. QED BY <2>2, <4>3
    <3>3. groupJob[r].row.selectionType # "MULTIPLE"
      BY <1>2, <1>4, <2>5, <3>1, <3>2 DEF StillAllowed
    <3>4. QED BY <1>2, <1>3, <2>5, <3>3 DEF GroupRow, SelectionType
  <2>6. QED BY <2>4, <2>5
<1>9. InsideARow'
  <2>1. SUFFICES ASSUME NEW m \in Modifier, NEW x \in Group, modifier'[m].in = {x}
                 PROVE  group'[x].state # "absent"
    BY DEF InsideARow
  <2>2. CASE x = g
    BY <1>3, <1>4, <2>2
  <2>3. CASE x # g
    <3>1. modifier'[m] = modifier[m]
      BY <1>5, <2>1, <2>3
    <3>2. QED BY <1>3, <2>1, <2>3, <3>1 DEF GroupInv, InsideARow
  <2>4. QED BY <2>2, <2>3
<1>10. ASSUME NEW q \in GroupRequest PROVE StillAllowed(q)'
  <2>1. CASE q = r
    BY <1>1, <2>1 DEF StillAllowed
  <2>2. CASE q # r
    <3>1. StillAllowed(q) /\ groupJob'[q] = groupJob[q] /\ groupJob[q].on \in Group
      BY <1>1, <2>2 DEF GroupInv, GroupTypeOK, GroupJob
    <3>2. ~HasFixed(groupJob[q].on) => ~(HasFixed(groupJob[q].on)')
      BY <1>6, <3>1 DEF HasFixed, In
    <3>3. group[groupJob[q].on].state # "absent" => group'[groupJob[q].on].state # "absent"
      BY <1>3, <1>4, <3>1
    <3>4. CASE groupJob[q].op \in {"idle", "updateModifierGroup"}
      BY <1>1, <3>1, <3>2, <3>3, <3>4 DEF StillAllowed
    <3>5. CASE groupJob[q].op \in {"addModifierToGroup", "updateModifier"}
      <4>1. groupJob[q].on \notin groupRaced => groupJob[q].on # g
        BY <1>4, <2>2, <3>5 DEF GroupInv, GroupSeparate, GroupRaces
      <4>2. groupJob[q].on \notin groupRaced =>
              group'[groupJob[q].on] = group[groupJob[q].on]
        BY <1>3, <3>1, <4>1
      <4>3. QED BY <1>1, <3>1, <3>3, <3>5, <4>2 DEF StillAllowed
    <3>6. groupJob[q].op \in GroupOps \union {"idle"}
      BY DEF GroupInv, GroupTypeOK, GroupJob
    <3>7. QED BY <3>4, <3>5, <3>6 DEF GroupOps
  <2>3. QED BY <2>1, <2>2
<1>11. QED BY <1>1, <1>7, <1>8, <1>9, <1>10 DEF GroupInv

\* Every step keeps the invariant of the groups.
LEMMA GroupStepKeeps ==
  ASSUME GroupAssumption, GroupInv, [GroupNext]_groupVars
  PROVE  GroupInv'
<1>1. ASSUME NEW r \in GroupRequest, NEW g \in Group, NEW s \in SelectionType,
             NEW replaces \in BOOLEAN, UpdateModifierGroup(r, g, s, replaces)
      PROVE  GroupInv'
  <2>1. groupJob[r].m \in Modifier /\ AbsentModifier \in ModifierRow
    BY DEF GroupInv, GroupTypeOK, GroupJob, AbsentModifier, ModifierRow, PriceType
  <2>2. GroupReads(r, "updateModifierGroup", g, s, groupJob[r].m, AbsentModifier, replaces)
    BY <1>1 DEF UpdateModifierGroup
  <2>3. replaces \/ AssertFixedPriceAllowed(s, HasFixed(g))
    BY <1>1 DEF UpdateModifierGroup
  <2>4. "updateModifierGroup" \in GroupOps
    BY DEF GroupOps
  <2>5. QED BY <2>1, <2>2, <2>3, <2>4, GroupReadKeeps
<1>2. ASSUME NEW r \in GroupRequest, NEW g \in Group, NEW op \in GroupOps,
             op # "updateModifierGroup", NEW m \in Modifier, NEW p \in PriceType,
             AssertFixedPriceAllowed(group[g].selectionType, p = "fixed"),
             GroupReads(r, op, g, group[g].selectionType, m,
                        [in |-> {g}, priceType |-> p], FALSE)
      PROVE  GroupInv'
  <2>1. group[g].selectionType \in SelectionType /\ [in |-> {g}, priceType |-> p] \in ModifierRow
    BY DEF GroupInv, GroupTypeOK, GroupRow, ModifierRow
  <2>2. p = "fixed" => group[g].selectionType = "SINGLE"
    BY <1>2, <2>1 DEF AssertFixedPriceAllowed, SelectionType
  <2>3. QED BY <1>2, <2>1, <2>2, GroupReadKeeps
<1>3. ASSUME NEW g \in Group, GroupStep(g) PROVE GroupInv'
  <2>1. ASSUME NEW r \in GroupRequest, NEW p \in PriceType, AddModifierToGroup(r, g, p)
        PROVE  GroupInv'
    <3>1. groupJob[r].m \in Modifier /\ "addModifierToGroup" \in GroupOps
      BY DEF GroupInv, GroupTypeOK, GroupJob, GroupOps
    <3>2. QED BY <1>2, <2>1, <3>1 DEF AddModifierToGroup
  <2>2. ASSUME NEW r \in GroupRequest, NEW p \in PriceType, NEW m \in Modifier,
               UpdateModifier(r, g, m, p)
        PROVE  GroupInv'
    <3>1. "updateModifier" \in GroupOps
      BY DEF GroupOps
    <3>2. QED BY <1>2, <2>2, <3>1 DEF UpdateModifier
  <2>3. QED BY <1>1, <1>3, <2>1, <2>2, CreateGroupKeeps, DeletesKeep DEF GroupStep
<1>4. ASSUME NEW r \in GroupRequest, GroupRequestEnds(r) PROVE GroupInv'
  <2>1. ASSUME NEW m \in Modifier, InsertModifier(r, m) PROVE GroupInv'
    BY <2>1, WriteModifierKeeps DEF InsertModifier
  <2>2. CASE SaveModifier(r)
    <3>1. groupJob[r].m \in Modifier
      BY DEF GroupInv, GroupTypeOK, GroupJob
    <3>2. QED BY <2>2, <3>1, WriteModifierKeeps DEF SaveModifier
  <2>3. QED BY <1>4, <2>1, <2>2, CommitGroupKeeps DEF GroupRequestEnds
<1>5. CASE UNCHANGED groupVars
  BY <1>5 DEF groupVars, GroupInv, GroupTypeOK, GroupSeparate, FixedOnlyInSingle, InsideARow,
     StillAllowed, HasFixed, In
<1>6. QED BY <1>3, <1>4, <1>5 DEF GroupNext

\* However many requests overlap on a group, a fixed price stands only where one
\* modifier is chosen, unless an update of the group has overlapped with one that
\* adds or changes a modifier of it.
THEOREM FixedPriceIsAlone ==
  ASSUME GroupAssumption PROVE GroupSpec => [](GroupTypeOK /\ FixedOnlyInSingle)
<1>1. GroupInit => GroupInv
  BY GroupInitInv
<1>2. GroupInv /\ [GroupNext]_groupVars => GroupInv'
  BY GroupStepKeeps
<1>3. GroupInv => GroupTypeOK /\ FixedOnlyInSingle
  BY DEF GroupInv
<1>4. QED BY <1>1, <1>2, <1>3, PTL DEF GroupSpec

\* Groups, modifiers and the requests on them keep their types, in whatever
\* order the requests overlap.
COROLLARY GroupTypeCorrect == ASSUME GroupAssumption PROVE GroupSpec => []GroupTypeOK
<1>1. GroupSpec => [](GroupTypeOK /\ FixedOnlyInSingle)
  BY FixedPriceIsAlone
<1>2. QED BY <1>1, PTL

-----------------------------------------------------------------------------
(* The menu and its pages                                                  *)

LEMMA AbsentProductTyped == \A c \in Category : AbsentProduct(c) \in ProductRow
BY DEF AbsentProduct, ProductRow, RowState

\* A write that nobody announces.
LEMMA UnannouncedTyped ==
  ASSUME MenuTypeOK, NEW p \in Product, NEW v \in BOOLEAN, Unannounced(p, v)
  PROVE  page' \in [Page -> GuestPage] /\ latest' \subseteq latest
<1>1. \A g \in Page : [page[g] EXCEPT !.followed = @ \ {p}] \in GuestPage
  BY DEF MenuTypeOK, GuestPage
<1>2. QED BY <1>1 DEF Unannounced, NotOf, MenuTypeOK

LEMMA MenuStepTyped ==
  ASSUME MenuAssumption, MenuTypeOK, [MenuNext]_menuVars
  PROVE  MenuTypeOK'
<1>1. /\ category \in [Category -> RowState] /\ product \in [Product -> ProductRow]
      /\ page \in [Page -> GuestPage] /\ menuJob \in [MenuRequest -> MenuJob]
      /\ latest \subseteq MenuRequest
  BY DEF MenuTypeOK
<1>2. \A r \in MenuRequest :
        /\ menuJob[r].on \in Product /\ menuJob[r].row \in ProductRow
        /\ menuJob[r].value \in BOOLEAN
  BY <1>1 DEF MenuJob
<1>3. ASSUME NEW r \in MenuRequest, MenuEnds(r)
      PROVE  menuJob' \in [MenuRequest -> MenuJob]
  <2>1. menuJob[r].row.category \in Category
    BY <1>2 DEF ProductRow
  <2>2. IdleMenuJob(menuJob[r].on, AbsentProduct(menuJob[r].row.category)) \in MenuJob
    BY <1>2, <2>1, AbsentProductTyped DEF IdleMenuJob, MenuJob
  <2>3. QED BY <1>1, <1>3, <2>2 DEF MenuEnds
<1>4. ASSUME NEW r \in MenuRequest, NEW op \in MenuOps, NEW p \in Product,
             NEW copy \in ProductRow, NEW value \in BOOLEAN, MenuReads(r, op, p, copy, value)
      PROVE  MenuTypeOK'
  <2>1. [op |-> op, at |-> "found", on |-> p, row |-> copy, value |-> value] \in MenuJob
    BY DEF MenuJob
  <2>2. QED BY <1>1, <1>4, <2>1 DEF MenuReads, MenuTypeOK
<1>5. "live" \in RowState /\ "deleted" \in RowState
  BY DEF RowState
<1>6. ASSUME NEW c \in Category, CreateCategory(c) \/ UpdateCategory(c) \/ RemoveCategory(c)
      PROVE  MenuTypeOK'
  BY <1>1, <1>5, <1>6 DEF CreateCategory, UpdateCategory, RemoveCategory, MenuTypeOK
<1>7. ASSUME NEW p \in Product, NEW c \in Category, NEW available \in BOOLEAN,
             CreateProduct(p, c, available) \/ UpdateProduct(p, c, available)
      PROVE  MenuTypeOK'
  <2>1. [state |-> "live", category |-> c, isAvailable |-> available, groups |-> {}]
          \in ProductRow
    BY <1>5 DEF ProductRow
  <2>2. [product[p] EXCEPT !.category = c, !.isAvailable = available] \in ProductRow
    BY <1>1 DEF ProductRow
  <2>3. product' \in [Product -> ProductRow]
    BY <1>1, <1>7, <2>1, <2>2 DEF CreateProduct, UpdateProduct
  <2>4. page' \in [Page -> GuestPage] /\ latest' \subseteq latest
    BY <1>1, <1>7, UnannouncedTyped DEF CreateProduct, UpdateProduct
  <2>5. QED BY <1>1, <1>7, <2>3, <2>4 DEF CreateProduct, UpdateProduct, MenuTypeOK
<1>8. ASSUME NEW p \in Product, RemoveProduct(p) PROVE MenuTypeOK'
  <2>1. [product[p] EXCEPT !.state = "deleted"] \in ProductRow
    BY <1>1, <1>5 DEF ProductRow
  <2>2. QED BY <1>1, <1>8, <2>1 DEF RemoveProduct, MenuTypeOK
<1>9. ASSUME NEW g \in Page, LoadMenu(g) \/ HandleJoinMenu(g) \/ HandleLeaveMenu(g)
      PROVE  MenuTypeOK'
  <2>1. FindPublicMenu \in SUBSET Product /\ page[g] \in GuestPage
    BY <1>1 DEF FindPublicMenu
  <2>2. ASSUME NEW shows \in SUBSET Product, NEW in \in BOOLEAN, NEW followed \in SUBSET Product
        PROVE  /\ [page[g] EXCEPT !.shows = shows, !.followed = followed] \in GuestPage
               /\ [page[g] EXCEPT !.inRoom = in] \in GuestPage
               /\ [page[g] EXCEPT !.inRoom = in, !.followed = followed] \in GuestPage
    BY <2>1 DEF GuestPage
  <2>3. page[g].inRoom \in BOOLEAN
    BY <2>1 DEF GuestPage
  <2>4. page' \in [Page -> GuestPage]
    <3>1. Product \in SUBSET Product /\ {} \in SUBSET Product
      OBVIOUS
    <3>2. (IF page[g].inRoom THEN Product ELSE {}) \in SUBSET Product
      BY <2>3, <3>1
    <3>3. CASE LoadMenu(g)
      BY <1>1, <2>1, <2>2, <3>2, <3>3 DEF LoadMenu
    <3>4. CASE HandleJoinMenu(g)
      BY <1>1, <2>2, <3>4 DEF HandleJoinMenu
    <3>5. CASE HandleLeaveMenu(g)
      BY <1>1, <2>2, <3>1, <3>5 DEF HandleLeaveMenu
    <3>6. QED BY <1>9, <3>3, <3>4, <3>5
  <2>5. QED BY <1>1, <1>9, <2>4 DEF LoadMenu, HandleJoinMenu, HandleLeaveMenu, MenuTypeOK
<1>10. ASSUME NEW r \in MenuRequest, MenuRequestStep(r) PROVE MenuTypeOK'
  <2>1. "syncModifierGroups" \in MenuOps /\ "availability" \in MenuOps
    BY DEF MenuOps
  <2>2. ASSUME NEW p \in Product, SyncModifierGroups(r, p) PROVE MenuTypeOK'
    BY <1>1, <1>4, <2>1, <2>2 DEF SyncModifierGroups
  <2>3. ASSUME NEW p \in Product, NEW v \in BOOLEAN, UpdateProductAvailability(r, p, v)
        PROVE  MenuTypeOK'
    <3>1. AbsentProduct(product[p].category) \in ProductRow
      BY <1>1, AbsentProductTyped DEF ProductRow
    <3>2. QED BY <1>4, <2>1, <2>3, <3>1 DEF UpdateProductAvailability
  <2>4. ASSUME NEW groups \in SUBSET AttachedGroup, SaveGroups(r, groups) PROVE MenuTypeOK'
    <3>1. [menuJob[r].row EXCEPT !.groups = groups] \in ProductRow
      BY <1>2 DEF ProductRow
    <3>2. menuJob[r].row.isAvailable \in BOOLEAN
      BY <1>2 DEF ProductRow
    <3>3. page' \in [Page -> GuestPage] /\ latest' \subseteq latest
      BY <1>2, <2>4, <3>2, UnannouncedTyped DEF SaveGroups
    <3>4. QED BY <1>1, <1>2, <1>3, <2>4, <3>1, <3>3 DEF SaveGroups, MenuTypeOK
  <2>5. CASE WriteAvailability(r)
    <3>1. product[menuJob[r].on] \in ProductRow /\ menuJob[r] \in MenuJob
      BY <1>1, <1>2
    <3>2. [product[menuJob[r].on] EXCEPT !.isAvailable = menuJob[r].value] \in ProductRow
      BY <1>2, <3>1 DEF ProductRow
    <3>3. [menuJob[r] EXCEPT !.at = "written"] \in MenuJob
      BY <3>1 DEF MenuJob
    <3>4. latest' \subseteq MenuRequest
      BY <1>1, <2>5 DEF WriteAvailability, NotOf
    <3>5. QED BY <1>1, <2>5, <3>2, <3>3, <3>4 DEF WriteAvailability, MenuTypeOK
  <2>6. CASE EmitMenuAvailabilityChanged(r)
    <3>1. ASSUME NEW g \in Page
          PROVE  [page[g] EXCEPT !.shows = Told(@, menuJob[r].on, menuJob[r].value),
                                 !.followed = Told(@, menuJob[r].on, r \in latest)] \in GuestPage
      BY <1>1, <1>2 DEF GuestPage, Told
    <3>2. page' \in [Page -> GuestPage]
      BY <1>1, <2>6, <3>1 DEF EmitMenuAvailabilityChanged
    <3>3. QED BY <1>1, <1>3, <2>6, <3>2 DEF EmitMenuAvailabilityChanged, MenuTypeOK
  <2>7. QED BY <1>10, <2>2, <2>3, <2>4, <2>5, <2>6 DEF MenuRequestStep
<1>11. CASE UNCHANGED menuVars
  BY <1>11 DEF menuVars, MenuTypeOK
<1>12. CASE MenuStep
  BY <1>6, <1>7, <1>8, <1>9, <1>12 DEF MenuStep
<1>13. QED BY <1>10, <1>11, <1>12 DEF MenuNext

\* What a request knows of its product, and an announcement of the row.
CopyIsFresh(r) ==
  LET p == menuJob[r].on
  IN  /\ menuJob[r].op # "idle" => product[p].state # "absent"
      /\ menuJob[r].op = "syncModifierGroups" => menuJob[r].row.state = "live"
      /\ r \in latest =>
           /\ menuJob[r].op = "availability" /\ menuJob[r].at = "written"
           /\ product[p].isAvailable = menuJob[r].value

ShowsRows ==
  \A g \in Page : /\ page[g].followed # {} => page[g].inRoom
                  /\ \A p \in Product : p \in page[g].shows => product[p].state # "absent"

MenuInv ==
  /\ MenuTypeOK
  /\ ShowsRows
  /\ PagesOfferWhatIsAvailable
  /\ \A r \in MenuRequest : CopyIsFresh(r)

LEMMA MenuInitInv == ASSUME MenuAssumption, MenuInit PROVE MenuInv
<1> DEFINE none == AbsentProduct(CHOOSE c \in Category : TRUE)
<1>1. /\ (CHOOSE c \in Category : TRUE) \in Category
      /\ (CHOOSE p \in Product : TRUE) \in Product
  BY DEF MenuAssumption
<1>2. none \in ProductRow /\ none.state = "absent" /\ none.isAvailable
  BY <1>1, AbsentProductTyped DEF AbsentProduct
<1>3. \A p \in Product, row \in ProductRow : IdleMenuJob(p, row) \in MenuJob
  BY DEF IdleMenuJob, MenuJob
<1>4. /\ category = [c \in Category |-> "absent"]
      /\ page = [g \in Page |-> ClosedPage]
      /\ product = [p \in Product |-> none]
      /\ menuJob = [r \in MenuRequest |-> IdleMenuJob(CHOOSE p \in Product : TRUE, none)]
      /\ latest = {}
  BY DEF MenuInit
<1>5. \A r \in MenuRequest : menuJob[r].op = "idle" /\ menuJob[r] \in MenuJob
  BY <1>1, <1>2, <1>3, <1>4 DEF IdleMenuJob
<1>6. MenuTypeOK
  BY <1>2, <1>4, <1>5 DEF MenuTypeOK, ClosedPage, GuestPage, RowState
<1>7. ShowsRows /\ PagesOfferWhatIsAvailable
  BY <1>4 DEF ShowsRows, PagesOfferWhatIsAvailable, ClosedPage
<1>8. \A r \in MenuRequest : CopyIsFresh(r)
  BY <1>4, <1>5 DEF CopyIsFresh
<1>9. QED BY <1>6, <1>7, <1>8 DEF MenuInv

\* A request that begins announces nothing yet.
LEMMA MenuReadKeeps ==
  ASSUME MenuInv, MenuTypeOK', NEW r \in MenuRequest, NEW op \in MenuOps,
         NEW p \in Product, NEW copy \in ProductRow, NEW value \in BOOLEAN,
         MenuReads(r, op, p, copy, value), op = "syncModifierGroups" => copy = product[p]
  PROVE  MenuInv'
<1> DEFINE new == [op |-> op, at |-> "found", on |-> p, row |-> copy, value |-> value]
<1>1. /\ menuJob'[r] = new
      /\ \A q \in MenuRequest : q # r => menuJob'[q] = menuJob[q]
      /\ UNCHANGED <<category, product, page, latest>>
      /\ product[p].state = "live" /\ menuJob[r].op = "idle"
  BY DEF MenuReads, MenuInv, MenuTypeOK
<1>2. r \notin latest
  BY <1>1 DEF MenuInv, CopyIsFresh
<1>3. \A x : Announcing(x) => Announcing(x)'
  <2>1. \A q \in latest : q \in MenuRequest /\ q # r
    BY <1>2 DEF MenuInv, MenuTypeOK
  <2>2. QED BY <1>1, <2>1 DEF Announcing
<1>4. ShowsRows' /\ PagesOfferWhatIsAvailable'
  BY <1>1, <1>3 DEF MenuInv, ShowsRows, PagesOfferWhatIsAvailable
<1>5. CopyIsFresh(r)'
  BY <1>1, <1>2 DEF CopyIsFresh
<1>6. ASSUME NEW q \in MenuRequest, q # r PROVE CopyIsFresh(q)'
  BY <1>1, <1>6 DEF CopyIsFresh, MenuInv
<1>7. QED BY <1>4, <1>5, <1>6 DEF MenuInv

\* A request that ends still names its product.
LEMMA MenuEndKeeps ==
  ASSUME MenuTypeOK, NEW r \in MenuRequest, MenuEnds(r)
  PROVE  /\ menuJob'[r].op = "idle"
         /\ \A q \in MenuRequest : q # r => menuJob'[q] = menuJob[q]
         /\ \A q \in MenuRequest : menuJob'[q].on = menuJob[q].on
BY DEF MenuEnds, MenuTypeOK, IdleMenuJob

\* The availability of the row of p may change, and nobody is told.
LEMMA QuietWriteKeeps ==
  ASSUME MenuInv, MenuTypeOK', NEW p \in Product, NEW v \in BOOLEAN, Unannounced(p, v),
         product'[p].isAvailable = v, product[p].state # "absent" => product'[p].state # "absent",
         \A x \in Product : x # p => product'[x] = product[x],
         \A q \in MenuRequest : menuJob'[q].on = menuJob[q].on,
         \A q \in MenuRequest : \/ menuJob'[q] = menuJob[q]
                                \/ menuJob'[q].op = "idle" /\ q \notin latest
  PROVE  MenuInv'
<1>1. /\ \A g \in Page : /\ page'[g].inRoom = page[g].inRoom
                         /\ page'[g].shows = page[g].shows
                         /\ page'[g].followed \subseteq page[g].followed
                         /\ v # product[p].isAvailable => p \notin page'[g].followed
      /\ latest' \subseteq latest
      /\ \A q \in latest : menuJob[q].on # p => q \in latest'
      /\ v # product[p].isAvailable => \A q \in latest' : menuJob[q].on # p
      /\ v = product[p].isAvailable => latest' = latest
  <2>1. CASE v = product[p].isAvailable
    BY <2>1 DEF Unannounced
  <2>2. CASE v # product[p].isAvailable
    <3>1. /\ page' = [g \in Page |-> [page[g] EXCEPT !.followed = @ \ {p}]]
          /\ latest' = {q \in latest : menuJob[q].on # p}
      BY <2>2 DEF Unannounced, NotOf
    <3>2. \A g \in Page : page[g] \in GuestPage
      BY DEF MenuInv, MenuTypeOK
    <3>3. QED BY <2>2, <3>1, <3>2 DEF GuestPage
  <2>3. QED BY <2>1, <2>2
<1>2. ShowsRows'
  BY <1>1 DEF MenuInv, ShowsRows
<1>3. latest \subseteq MenuRequest
  BY DEF MenuInv, MenuTypeOK
<1>4. PagesOfferWhatIsAvailable'
  <2>1. SUFFICES ASSUME NEW g \in Page, NEW x \in page'[g].followed \intersect page'[g].shows,
                        ~(Announcing(x)')
                 PROVE  product'[x].isAvailable
    BY DEF PagesOfferWhatIsAvailable
  <2>2. x \in page[g].followed \intersect page[g].shows /\ x \in Product
    BY <1>1, <2>1 DEF MenuInv, MenuTypeOK, GuestPage
  <2>3. x = p => v = product[p].isAvailable
    BY <1>1, <2>1
  <2>4. ~Announcing(x)
    <3>1. SUFFICES ASSUME NEW q \in latest, menuJob[q].on = x PROVE Announcing(x)'
      BY <2>1 DEF Announcing
    <3>2. q \in latest'
      BY <1>1, <2>3, <3>1
    <3>3. QED BY <1>3, <3>1, <3>2 DEF Announcing
  <2>5. product[x].isAvailable
    BY <2>2, <2>4 DEF MenuInv, PagesOfferWhatIsAvailable
  <2>6. QED BY <2>2, <2>3, <2>5
<1>5. ASSUME NEW q \in MenuRequest PROVE CopyIsFresh(q)'
  <2>1. CopyIsFresh(q) /\ menuJob[q].on \in Product
    BY DEF MenuInv, MenuTypeOK, MenuJob
  <2>2. CASE menuJob'[q] = menuJob[q]
    <3>1. q \in latest' => q \in latest /\ (menuJob[q].on = p => v = product[p].isAvailable)
      BY <1>1
    <3>2. QED BY <2>1, <2>2, <3>1 DEF CopyIsFresh
  <2>3. CASE menuJob'[q].op = "idle" /\ q \notin latest
    BY <1>1, <2>3 DEF CopyIsFresh
  <2>4. QED BY <2>2, <2>3
<1>6. QED BY <1>2, <1>4, <1>5 DEF MenuInv

\* The rows change, but no availability does of a product that is there.
LEMMA RowsKeep ==
  ASSUME MenuInv, MenuTypeOK', UNCHANGED <<page, menuJob, latest>>,
         \A p \in Product : product[p].state # "absent" =>
           /\ product'[p].state # "absent"
           /\ product'[p].isAvailable = product[p].isAvailable
  PROVE  MenuInv'
<1>1. \A p : Announcing(p)' = Announcing(p)
  BY DEF Announcing
<1>2. ShowsRows' /\ PagesOfferWhatIsAvailable'
  <2>1. \A g \in Page : page[g] \in GuestPage
    BY DEF MenuInv, MenuTypeOK
  <2>2. ShowsRows'
    BY DEF MenuInv, ShowsRows
  <2>3. PagesOfferWhatIsAvailable'
    <3>1. SUFFICES ASSUME NEW g \in Page, NEW x \in page[g].followed \intersect page[g].shows,
                          ~Announcing(x)
                   PROVE  product'[x].isAvailable
      BY <1>1 DEF PagesOfferWhatIsAvailable
    <3>2. x \in Product /\ product[x].state # "absent" /\ product[x].isAvailable
      BY <2>1, <3>1 DEF GuestPage, MenuInv, ShowsRows, PagesOfferWhatIsAvailable
    <3>3. QED BY <3>2
  <2>4. QED BY <2>2, <2>3
<1>3. ASSUME NEW r \in MenuRequest PROVE CopyIsFresh(r)'
  <2>1. CopyIsFresh(r) /\ menuJob[r].on \in Product
    BY DEF MenuInv, MenuTypeOK, MenuJob
  <2>2. QED BY <2>1 DEF CopyIsFresh
<1>4. QED BY <1>2, <1>3 DEF MenuInv

\* A page that loads, joins or leaves.
LEMMA PagesKeep ==
  ASSUME MenuInv, MenuTypeOK', NEW g \in Page,
         LoadMenu(g) \/ HandleJoinMenu(g) \/ HandleLeaveMenu(g)
  PROVE  MenuInv'
<1>1. UNCHANGED <<category, product, menuJob, latest>>
  BY DEF LoadMenu, HandleJoinMenu, HandleLeaveMenu
<1>2. /\ \A x \in Page : x # g => page'[x] = page[x]
      /\ page'[g].followed # {} => page'[g].inRoom
      /\ \/ page'[g].shows = page[g].shows /\ page'[g].followed \subseteq page[g].followed
         \/ page'[g].shows = FindPublicMenu
  <2>1. page \in [Page -> GuestPage] /\ (page[g].followed # {} => page[g].inRoom)
    BY DEF MenuInv, MenuTypeOK, ShowsRows
  <2>2. page[g] \in GuestPage
    BY <2>1
  <2>3. CASE LoadMenu(g)
    BY <2>1, <2>2, <2>3 DEF LoadMenu, GuestPage
  <2>4. CASE HandleJoinMenu(g)
    BY <2>1, <2>2, <2>4 DEF HandleJoinMenu, GuestPage
  <2>5. CASE HandleLeaveMenu(g)
    BY <2>1, <2>2, <2>5 DEF HandleLeaveMenu, GuestPage
  <2>6. QED BY <2>3, <2>4, <2>5
<1>3. \A p \in FindPublicMenu : product[p].state # "absent" /\ product[p].isAvailable
  BY DEF FindPublicMenu
<1>4. ShowsRows'
  BY <1>1, <1>2, <1>3 DEF MenuInv, ShowsRows
<1>5. PagesOfferWhatIsAvailable'
  <2>1. \A p : Announcing(p)' = Announcing(p)
    BY <1>1 DEF Announcing
  <2>2. QED BY <1>1, <1>2, <1>3, <2>1 DEF MenuInv, PagesOfferWhatIsAvailable
<1>6. \A r \in MenuRequest : CopyIsFresh(r)'
  BY <1>1 DEF MenuInv, CopyIsFresh
<1>7. QED BY <1>4, <1>5, <1>6 DEF MenuInv

\* The whole copy is saved, with the availability it was read with.
LEMMA SaveGroupsKeeps ==
  ASSUME MenuInv, MenuTypeOK', NEW r \in MenuRequest, NEW groups \in SUBSET AttachedGroup,
         SaveGroups(r, groups)
  PROVE  MenuInv'
<1> DEFINE p == menuJob[r].on
           new == [menuJob[r].row EXCEPT !.groups = groups]
<1>1. /\ p \in Product /\ menuJob[r].row \in ProductRow /\ CopyIsFresh(r)
      /\ menuJob[r].op = "syncModifierGroups" /\ product \in [Product -> ProductRow]
  BY DEF SaveGroups, MenuInv, MenuTypeOK, MenuJob
<1>2. /\ new.state = "live" /\ new.isAvailable = menuJob[r].row.isAvailable
      /\ menuJob[r].row.isAvailable \in BOOLEAN
  BY <1>1 DEF ProductRow, CopyIsFresh
<1>3. /\ product'[p] = new /\ \A x \in Product : x # p => product'[x] = product[x]
      /\ Unannounced(p, menuJob[r].row.isAvailable) /\ MenuEnds(r)
  BY <1>1 DEF SaveGroups
<1>4. r \notin latest
  BY <1>1 DEF CopyIsFresh
<1>5. /\ menuJob'[r].op = "idle"
      /\ \A q \in MenuRequest : q # r => menuJob'[q] = menuJob[q]
      /\ \A q \in MenuRequest : menuJob'[q].on = menuJob[q].on
  BY <1>3, MenuEndKeeps DEF MenuInv
<1>6. QED BY <1>1, <1>2, <1>3, <1>4, <1>5, QuietWriteKeeps

\* From the write to its event the product is being announced.
LEMMA WriteAvailabilityKeeps ==
  ASSUME MenuInv, MenuTypeOK', NEW r \in MenuRequest, WriteAvailability(r)
  PROVE  MenuInv'
<1> DEFINE p == menuJob[r].on
<1>1. /\ p \in Product /\ menuJob[r] \in MenuJob /\ product[p] \in ProductRow
      /\ product[p].state # "absent" /\ latest \subseteq MenuRequest
      /\ menuJob[r].op = "availability" /\ menuJob[r].at = "found"
  BY DEF WriteAvailability, MenuInv, MenuTypeOK, MenuJob, CopyIsFresh
<1>2. /\ menuJob'[r] = [menuJob[r] EXCEPT !.at = "written"]
      /\ \A q \in MenuRequest : q # r => menuJob'[q] = menuJob[q]
      /\ latest' = {q \in latest : menuJob[q].on # p} \union {r}
      /\ page' = page
  BY <1>1 DEF WriteAvailability, MenuInv, MenuTypeOK, NotOf
<1>3. /\ menuJob'[r].op = "availability" /\ menuJob'[r].at = "written"
      /\ menuJob'[r].on = p /\ menuJob'[r].value = menuJob[r].value
  BY <1>1, <1>2 DEF MenuJob
<1>4. /\ product'[p] = [product[p] EXCEPT !.isAvailable = menuJob[r].value]
      /\ \A x \in Product : x # p => product'[x] = product[x]
  BY <1>1 DEF WriteAvailability, MenuInv, MenuTypeOK
<1>5. product'[p].isAvailable = menuJob[r].value /\ product'[p].state = product[p].state
  BY <1>1, <1>4 DEF ProductRow
<1>6. \A x : x = p \/ Announcing(x) => Announcing(x)'
  <2>1. ASSUME NEW x, x = p PROVE Announcing(x)'
    BY <2>1, <1>2, <1>3 DEF Announcing
  <2>2. ASSUME NEW x, Announcing(x), x # p PROVE Announcing(x)'
    <3>1. PICK q \in latest : menuJob[q].on = x
      BY <2>2 DEF Announcing
    <3>2. q \in latest' /\ q # r /\ menuJob'[q] = menuJob[q]
      BY <1>1, <1>2, <2>2, <3>1
    <3>3. QED BY <3>1, <3>2 DEF Announcing
  <2>3. QED BY <2>1, <2>2
<1>7. ShowsRows'
  <2>1. \A x \in Product : product'[x].state = product[x].state
    BY <1>4, <1>5
  <2>2. QED BY <1>2, <2>1 DEF MenuInv, ShowsRows
<1>8. PagesOfferWhatIsAvailable'
  <2>1. SUFFICES ASSUME NEW g \in Page, NEW x \in page[g].followed \intersect page[g].shows,
                        ~(Announcing(x)')
                 PROVE  product'[x].isAvailable
    BY <1>2 DEF PagesOfferWhatIsAvailable
  <2>2. x # p /\ x \in Product /\ ~Announcing(x)
    BY <1>6, <2>1 DEF MenuInv, MenuTypeOK, GuestPage
  <2>3. QED BY <1>4, <2>1, <2>2 DEF MenuInv, PagesOfferWhatIsAvailable
<1>9. ASSUME NEW q \in MenuRequest PROVE CopyIsFresh(q)'
  <2>1. CASE q = r
    BY <1>1, <1>3, <1>5, <2>1 DEF CopyIsFresh
  <2>2. CASE q # r
    <3>1. CopyIsFresh(q) /\ menuJob[q].on \in Product /\ menuJob'[q] = menuJob[q]
      BY <1>2, <2>2 DEF MenuInv, MenuTypeOK, MenuJob
    <3>2. q \in latest' => q \in latest /\ menuJob[q].on # p
      BY <1>2, <2>2
    <3>3. product'[menuJob[q].on].state = product[menuJob[q].on].state
      BY <1>4, <1>5, <3>1
    <3>4. QED BY <1>4, <3>1, <3>2, <3>3 DEF CopyIsFresh
  <2>3. QED BY <2>1, <2>2
<1>10. QED BY <1>7, <1>8, <1>9 DEF MenuInv

\* Every page in the room has heard what the row says, or knows of it no more.
LEMMA EmitKeeps ==
  ASSUME MenuInv, MenuTypeOK', NEW r \in MenuRequest, EmitMenuAvailabilityChanged(r)
  PROVE  MenuInv'
<1> DEFINE p == menuJob[r].on
<1>1. /\ p \in Product /\ CopyIsFresh(r) /\ latest \subseteq MenuRequest
      /\ menuJob[r].op = "availability" /\ menuJob[r].at = "written"
      /\ \A g \in Page : page[g] \in GuestPage
  BY DEF EmitMenuAvailabilityChanged, MenuInv, MenuTypeOK, MenuJob
<1>2. /\ menuJob'[r].op = "idle"
      /\ \A q \in MenuRequest : q # r => menuJob'[q] = menuJob[q]
      /\ \A q \in MenuRequest : menuJob'[q].on = menuJob[q].on
  BY MenuEndKeeps DEF MenuInv, EmitMenuAvailabilityChanged
<1>3. UNCHANGED <<category, product>> /\ latest' = latest \ {r}
  BY DEF EmitMenuAvailabilityChanged
<1>4. ASSUME NEW g \in Page
      PROVE  /\ page[g].inRoom => page'[g].inRoom
             /\ ~page[g].inRoom => page'[g] = page[g]
             /\ page[g].inRoom => page'[g].shows = Told(page[g].shows, p, menuJob[r].value)
             /\ page[g].inRoom => page'[g].followed = Told(page[g].followed, p, r \in latest)
  BY <1>1, <1>4 DEF EmitMenuAvailabilityChanged, GuestPage
<1>5. ShowsRows'
  <2>1. SUFFICES ASSUME NEW g \in Page
                 PROVE  /\ page'[g].followed # {} => page'[g].inRoom
                        /\ \A x \in Product : x \in page'[g].shows => product[x].state # "absent"
    BY <1>3 DEF ShowsRows
  <2>2. product[p].state # "absent"
    BY <1>1 DEF CopyIsFresh
  <2>3. /\ page[g].followed # {} => page[g].inRoom
        /\ \A x \in Product : x \in page[g].shows => product[x].state # "absent"
    BY DEF MenuInv, ShowsRows
  <2>4. CASE page[g].inRoom
    <3>1. page'[g].inRoom /\ page'[g].shows \subseteq page[g].shows \union {p}
      BY <1>4, <2>4 DEF Told
    <3>2. QED BY <2>2, <2>3, <3>1
  <2>5. CASE ~page[g].inRoom
    <3>1. page'[g] = page[g]
      BY <1>4, <2>5
    <3>2. QED BY <2>3, <3>1
  <2>6. QED BY <2>4, <2>5
<1>6. PagesOfferWhatIsAvailable'
  <2>1. SUFFICES ASSUME NEW g \in Page, NEW x \in page'[g].followed \intersect page'[g].shows,
                        ~(Announcing(x)')
                 PROVE  product[x].isAvailable
    BY <1>3 DEF PagesOfferWhatIsAvailable
  <2>2. x # p => ~Announcing(x)
    <3>1. SUFFICES ASSUME NEW q \in latest, menuJob[q].on = x, x # p PROVE Announcing(x)'
      BY <2>1 DEF Announcing
    <3>2. q \in latest' /\ q \in MenuRequest
      BY <1>1, <1>3, <3>1
    <3>3. QED BY <1>2, <3>1, <3>2 DEF Announcing
  <2>3. CASE page[g].inRoom /\ x = p
    <3>1. r \in latest /\ menuJob[r].value
      BY <1>4, <2>1, <2>3 DEF Told
    <3>2. QED BY <1>1, <2>3, <3>1 DEF CopyIsFresh
  <2>4. CASE x # p
    <3>1. x \in page[g].followed \intersect page[g].shows
      <4>1. CASE page[g].inRoom
        <5>1. /\ page'[g].shows \subseteq page[g].shows \union {p}
              /\ page'[g].followed \subseteq page[g].followed \union {p}
          BY <1>4, <4>1 DEF Told
        <5>2. QED BY <2>1, <2>4, <5>1
      <4>2. CASE ~page[g].inRoom
        <5>1. page'[g] = page[g]
          BY <1>4, <4>2
        <5>2. QED BY <2>1, <5>1
      <4>3. QED BY <4>1, <4>2
    <3>2. QED BY <2>2, <2>4, <3>1 DEF MenuInv, PagesOfferWhatIsAvailable
  <2>5. CASE ~page[g].inRoom
    <3>1. page[g].followed = {} /\ page'[g] = page[g]
      BY <1>4, <2>5 DEF MenuInv, ShowsRows
    <3>2. QED BY <2>1, <3>1
  <2>6. QED BY <2>3, <2>4, <2>5
<1>7. ASSUME NEW q \in MenuRequest PROVE CopyIsFresh(q)'
  <2>1. CASE q = r
    BY <1>2, <1>3, <2>1 DEF CopyIsFresh
  <2>2. CASE q # r
    BY <1>2, <1>3, <2>2 DEF CopyIsFresh, MenuInv
  <2>3. QED BY <2>1, <2>2
<1>8. QED BY <1>5, <1>6, <1>7 DEF MenuInv

\* Every step keeps the invariant of the menu.
LEMMA MenuStepKeeps ==
  ASSUME MenuAssumption, MenuInv, [MenuNext]_menuVars
  PROVE  MenuInv'
<1>1. /\ MenuTypeOK' /\ product \in [Product -> ProductRow]
      /\ menuJob \in [MenuRequest -> MenuJob]
  BY MenuStepTyped DEF MenuInv, MenuTypeOK
<1>2. ASSUME NEW c \in Category, CreateCategory(c) \/ UpdateCategory(c) \/ RemoveCategory(c)
      PROVE  MenuInv'
  BY <1>1, <1>2, RowsKeep DEF CreateCategory, UpdateCategory, RemoveCategory
<1>3. ASSUME NEW p \in Product, NEW c \in Category, NEW available \in BOOLEAN,
             CreateProduct(p, c, available)
      PROVE  MenuInv'
  BY <1>1, <1>3, RowsKeep DEF CreateProduct
<1>4. ASSUME NEW p \in Product, NEW c \in Category, NEW available \in BOOLEAN,
             UpdateProduct(p, c, available)
      PROVE  MenuInv'
  <2>1. product[p] \in ProductRow
    BY <1>1
  <2>2. /\ product'[p].isAvailable = available /\ product'[p].state = product[p].state
        /\ \A x \in Product : x # p => product'[x] = product[x]
        /\ Unannounced(p, available) /\ menuJob' = menuJob
    BY <1>1, <1>4, <2>1 DEF UpdateProduct, ProductRow
  <2>3. QED BY <1>1, <2>2, QuietWriteKeeps
<1>5. ASSUME NEW p \in Product, RemoveProduct(p) PROVE MenuInv'
  <2>1. product[p] \in ProductRow
    BY <1>1
  <2>2. /\ product'[p].isAvailable = product[p].isAvailable /\ product'[p].state = "deleted"
        /\ \A x \in Product : x # p => product'[x] = product[x]
    BY <1>1, <1>5, <2>1 DEF RemoveProduct, ProductRow
  <2>3. QED BY <1>1, <1>5, <2>2, RowsKeep DEF RemoveProduct
<1>6. CASE MenuStep
  BY <1>1, <1>2, <1>3, <1>4, <1>5, <1>6, PagesKeep DEF MenuStep
<1>7. ASSUME NEW r \in MenuRequest, MenuRequestStep(r) PROVE MenuInv'
  <2>1. "syncModifierGroups" \in MenuOps /\ "availability" \in MenuOps
    BY DEF MenuOps
  <2>2. ASSUME NEW p \in Product, SyncModifierGroups(r, p) PROVE MenuInv'
    <3>1. product[p] \in ProductRow /\ FALSE \in BOOLEAN
      BY <1>1
    <3>2. QED BY <1>1, <2>1, <2>2, <3>1, MenuReadKeeps DEF SyncModifierGroups
  <2>3. ASSUME NEW p \in Product, NEW v \in BOOLEAN, UpdateProductAvailability(r, p, v)
        PROVE  MenuInv'
    <3>1. AbsentProduct(product[p].category) \in ProductRow
      BY <1>1, AbsentProductTyped DEF ProductRow
    <3>2. QED BY <1>1, <2>1, <2>3, <3>1, MenuReadKeeps DEF UpdateProductAvailability
  <2>4. QED BY <1>1, <1>7, <2>2, <2>3, SaveGroupsKeeps, WriteAvailabilityKeeps, EmitKeeps
            DEF MenuRequestStep
<1>8. CASE UNCHANGED menuVars
  BY <1>1, <1>8, RowsKeep DEF menuVars
<1>9. QED BY <1>6, <1>7, <1>8 DEF MenuNext

\* However many requests overlap on a product, a page offers nothing that is
\* sold out of the products it has followed since it loaded or heard of them.
THEOREM PagesAreRight ==
  ASSUME MenuAssumption PROVE MenuSpec => [](MenuTypeOK /\ PagesOfferWhatIsAvailable)
<1>1. MenuInit => MenuInv
  BY MenuInitInv
<1>2. MenuInv /\ [MenuNext]_menuVars => MenuInv'
  BY MenuStepKeeps
<1>3. MenuInv => MenuTypeOK /\ PagesOfferWhatIsAvailable
  BY DEF MenuInv
<1>4. QED BY <1>1, <1>2, <1>3, PTL DEF MenuSpec

\* Categories, products, pages and the requests on them keep their types.
COROLLARY MenuTypeCorrect == ASSUME MenuAssumption PROVE MenuSpec => []MenuTypeOK
<1>1. MenuSpec => [](MenuTypeOK /\ PagesOfferWhatIsAvailable)
  BY PagesAreRight
<1>2. QED BY <1>1, PTL
=============================================================================

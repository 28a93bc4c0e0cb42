-------------------------------- MODULE Menu --------------------------------
(***************************************************************************)
(* Categories and products (menu.service.ts) and the guest menu pages that *)
(* are open: a page loads the public menu once and then follows the events *)
(* of the room menu:<businessId> (emitMenuAvailabilityChanged and the      *)
(* handlers join-menu and leave-menu of kitchen.gateway.ts).               *)
(*                                                                         *)
(* Of a product the model keeps whether there is a row, its category, its  *)
(* availability and the modifier groups attached to it.  What a page does  *)
(* with an event is external: it shows the product or not, as told.  A     *)
(* page shows the answer to a load in the step that reads the rows.        *)
(*                                                                         *)
(* Three requests write isAvailable: updateProductAvailability announces   *)
(* it, updateProduct and syncModifierGroups (a stale copy) do not.  Two    *)
(* history values keep apart what a page may have missed: page.followed    *)
(* and latest.                                                             *)
(***************************************************************************)
EXTENDS Naturals, FiniteSets

CONSTANTS
    Product, Category,
    AttachedGroup,      \* modifier groups that may be attached to a product
    Page,               \* guest menu pages
    MenuRequest         \* requests that may be under way at once

MenuOps == {"availability", "syncModifierGroups"}

ASSUME MenuAssumption == Product # {} /\ Category # {}

VARIABLES
    category,   \* the rows of menu_categories
    product,    \* the rows of products
    page,       \* the guest pages
    menuJob,    \* the requests under way
    latest      \* history: the announcements to be made of a last change

menuVars == <<category, product, page, menuJob, latest>>

RowState == {"absent", "live", "deleted"}
ProductRow == [state : RowState, category : Category,
               isAvailable : BOOLEAN, groups : SUBSET AttachedGroup]

\* followed are the products the page has loaded in the room, or heard of, with
\* no change since that was not announced and no announcement out of order.
GuestPage == [inRoom : BOOLEAN, followed : SUBSET Product, shows : SUBSET Product]
ClosedPage == [inRoom |-> FALSE, followed |-> {}, shows |-> {}]

MenuJob == [op : MenuOps \union {"idle"}, at : {"found", "written"}, on : Product,
            row : ProductRow, value : BOOLEAN]
IdleMenuJob(p, row) ==
    [op |-> "idle", at |-> "found", on |-> p, row |-> row, value |-> FALSE]

AbsentProduct(c) ==
    [state |-> "absent", category |-> c, isAvailable |-> TRUE, groups |-> {}]

MenuInit ==
    /\ category = [c \in Category |-> "absent"]
    /\ page = [g \in Page |-> ClosedPage]
    /\ latest = {}
    /\ LET none == AbsentProduct(CHOOSE c \in Category : TRUE)
       IN  /\ product = [p \in Product |-> none]
           /\ menuJob = [r \in MenuRequest |-> IdleMenuJob(CHOOSE p \in Product : TRUE, none)]

\* Request r has found the live product p for op.
MenuReads(r, op, p, copy, value) ==
    /\ menuJob[r].op = "idle"
    /\ product[p].state = "live"
    /\ menuJob' = [menuJob EXCEPT ![r] = [op |-> op, at |-> "found", on |-> p,
                                          row |-> copy, value |-> value]]
    /\ UNCHANGED <<category, product, page, latest>>

MenuEnds(r) ==
    menuJob' = [menuJob EXCEPT ![r] = IdleMenuJob(@.on, AbsentProduct(@.row.category))]

\* The announcements but those of p.
NotOf(p) == {q \in latest : menuJob[q].on # p}

\* The row of p is written with isAvailable, and nobody is told.
Unannounced(p, isAvailable) ==
    IF isAvailable = product[p].isAvailable
    THEN UNCHANGED <<page, latest>>
    ELSE /\ page' = [g \in Page |-> [page[g] EXCEPT !.followed = @ \ {p}]]
         /\ latest' = NotOf(p)

-----------------------------------------------------------------------------
(* Categories and products                                                 *)

CreateCategory(c) ==
    /\ category[c] = "absent"
    /\ category' = [category EXCEPT ![c] = "live"]
    /\ UNCHANGED <<product, page, menuJob, latest>>

RemoveCategory(c) ==
    /\ category[c] = "live"
    /\ category' = [category EXCEPT ![c] = "deleted"]
    /\ UNCHANGED <<product, page, menuJob, latest>>

\* updateCategory saves a copy it found live: a removal in between is undone.
UpdateCategory(c) ==
    /\ category[c] # "absent"
    /\ category' = [category EXCEPT ![c] = "live"]
    /\ UNCHANGED <<product, page, menuJob, latest>>

\* The category may be removed between its check and the insert.
CreateProduct(p, c, available) ==
    /\ product[p].state = "absent" /\ category[c] # "absent"
    /\ product' = [product EXCEPT ![p] =
                     [state |-> "live", category |-> c,
                      isAvailable |-> available, groups |-> {}]]
    /\ UNCHANGED <<category, page, menuJob, latest>>

RemoveProduct(p) ==
    /\ product[p].state = "live"
    /\ product' = [product EXCEPT ![p].state = "deleted"]
    /\ UNCHANGED <<category, page, menuJob, latest>>

\* Only the columns named in the request are updated, and no event is sent.
UpdateProduct(p, c, available) ==
    /\ product[p].state # "absent" /\ category[c] # "absent"
    /\ product' = [product EXCEPT ![p].category = c, ![p].isAvailable = available]
    /\ Unannounced(p, available)
    /\ UNCHANGED <<category, menuJob>>

SyncModifierGroups(r, p) ==
    MenuReads(r, "syncModifierGroups", p, product[p], FALSE)

\* The groups found replace those of the copy, and the copy is saved whole.
SaveGroups(r, groups) ==
    /\ menuJob[r].op = "syncModifierGroups"
    /\ product' = [product EXCEPT ![menuJob[r].on] =
                     [menuJob[r].row EXCEPT !.groups = groups]]
    /\ Unannounced(menuJob[r].on, menuJob[r].row.isAvailable)
    /\ MenuEnds(r)
    /\ UNCHANGED category

-----------------------------------------------------------------------------
(* Availability and the pages                                              *)

UpdateProductAvailability(r, p, isAvailable) ==
    MenuReads(r, "availability", p, AbsentProduct(product[p].category), isAvailable)

WriteAvailability(r) ==
    /\ menuJob[r].op = "availability" /\ menuJob[r].at = "found"
    /\ product' = [product EXCEPT ![menuJob[r].on].isAvailable = menuJob[r].value]
    /\ menuJob' = [menuJob EXCEPT ![r].at = "written"]
    /\ latest' = NotOf(menuJob[r].on) \union {r}
    /\ UNCHANGED <<category, page>>

\* A set of products that p is now in, or not.
Told(shows, p, isAvailable) == IF isAvailable THEN shows \union {p} ELSE shows \ {p}

\* Slip: only the staff are told.
EmitToStaffOnly(r) ==
    /\ menuJob[r].op = "availability" /\ menuJob[r].at = "written"
    /\ MenuEnds(r)
    /\ latest' = latest \ {r}
    /\ UNCHANGED <<category, product, page>>

\* An announcement that another change has overtaken leaves the pages wrong.
EmitMenuAvailabilityChanged(r) ==
    /\ menuJob[r].op = "availability" /\ menuJob[r].at = "written"
    /\ page' = [g \in Page |->
                  IF page[g].inRoom
                  THEN [page[g] EXCEPT
                          !.shows = Told(@, menuJob[r].on, menuJob[r].value),
                          !.followed = Told(@, menuJob[r].on, r \in latest)]
                  ELSE page[g]]
    /\ MenuEnds(r)
    /\ latest' = latest \ {r}
    /\ UNCHANGED <<category, product>>

FindPublicMenu == {p \in Product : /\ product[p].state = "live"
                                   /\ product[p].isAvailable
                                   /\ category[product[p].category] = "live"}

\* A page may load before it joins, and again at any time.
LoadMenu(g) ==
    /\ page' = [page EXCEPT ![g].shows = FindPublicMenu,
                            ![g].followed = IF page[g].inRoom THEN Product ELSE {}]
    /\ UNCHANGED <<category, product, menuJob, latest>>

HandleJoinMenu(g) ==
    /\ ~page[g].inRoom
    /\ page' = [page EXCEPT ![g].inRoom = TRUE]
    /\ UNCHANGED <<category, product, menuJob, latest>>

\* leave-menu, or a connection that is lost.
HandleLeaveMenu(g) ==
    /\ page[g].inRoom
    /\ page' = [page EXCEPT ![g].inRoom = FALSE, ![g].followed = {}]
    /\ UNCHANGED <<category, product, menuJob, latest>>

MenuStep ==
    \/ \E c \in Category : CreateCategory(c) \/ UpdateCategory(c) \/ RemoveCategory(c)
    \/ \E p \in Product, c \in Category, available \in BOOLEAN :
         CreateProduct(p, c, available) \/ UpdateProduct(p, c, available)
    \/ \E p \in Product : RemoveProduct(p)
    \/ \E g \in Page : LoadMenu(g) \/ HandleJoinMenu(g) \/ HandleLeaveMenu(g)

MenuRequestStep(r) ==
    \/ \E p \in Product : SyncModifierGroups(r, p)
    \/ \E p \in Product, v \in BOOLEAN : UpdateProductAvailability(r, p, v)
    \/ \E groups \in SUBSET AttachedGroup : SaveGroups(r, groups)
    \/ WriteAvailability(r) \/ EmitMenuAvailabilityChanged(r)

MenuNext == MenuStep \/ \E r \in MenuRequest : MenuRequestStep(r)

MenuSpec == MenuInit /\ [][MenuNext]_menuVars

-----------------------------------------------------------------------------
\* Types of the rows, the pages and the requests under way.
MenuTypeOK ==
    /\ category \in [Category -> RowState]
    /\ product \in [Product -> ProductRow]
    /\ page \in [Page -> GuestPage]
    /\ menuJob \in [MenuRequest -> MenuJob]
    /\ latest \subseteq MenuRequest

Announcing(p) == \E r \in latest : menuJob[r].on = p

\* A page offers no product that is sold out, of those it has followed: once it
\* loaded in the room, or heard of the product, until a change that nobody
\* announces (updateProduct, menu.service.ts 160; the stale copy that
\* syncModifierGroups saves, 274), an announcement that a later change has
\* overtaken, or its own leaving; except until the event that is under way
\* (updateProductAvailability, menu.service.ts 168-190;
\* emitMenuAvailabilityChanged, kitchen.gateway.ts 700-706).
PagesOfferWhatIsAvailable ==
    \A g \in Page : \A p \in page[g].followed \intersect page[g].shows :
      ~Announcing(p) => product[p].isAvailable
=============================================================================

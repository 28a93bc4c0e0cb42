------------------------------- MODULE Images -------------------------------
(***************************************************************************)
(* Uploaded images: the object in the S3 store, the row in images, and the *)
(* address a table keeps of its picture (images.service.ts,                *)
(* storage.service.ts, tables.service.ts uploadImage).  No transaction     *)
(* spans the store and the database, so a failed call or a crash may leave *)
(* any prefix of the steps done.  Re-encoding, the choice of the key and   *)
(* the permission to remove an image are left out.                         *)
(***************************************************************************)
EXTENDS Naturals, FiniteSets

CONSTANTS
    Image,          \* keys, a fresh random one for each upload
    Picture,        \* tables that may have a picture
    ImageRequest    \* requests that may be under way at once

VARIABLES
    objects,    \* keys that have an object in the store
    rows,       \* keys that have a row
    spent,      \* keys that were ever drawn
    imageUrl,   \* per table the keys it points to: none or one
    imageJob    \* the requests under way

imageVars == <<objects, rows, spent, imageUrl, imageJob>>

\* table is the one the picture is for: none, or one.
ImageJob == [at : {"idle", "put", "saved", "found", "removed"},
             key : SUBSET Image, table : SUBSET Picture]
IdleImageJob == [at |-> "idle", key |-> {}, table |-> {}]

ImagesInit ==
    /\ objects = {} /\ rows = {} /\ spent = {}
    /\ imageUrl = [t \in Picture |-> {}]
    /\ imageJob = [r \in ImageRequest |-> IdleImageJob]

ImageEnds(r) == imageJob' = [imageJob EXCEPT ![r] = IdleImageJob]

\* The object is put first; table is empty for POST /images/upload.
Upload(r, k, table) ==
    /\ imageJob[r].at = "idle"
    /\ k \notin spent
    /\ spent' = spent \union {k}
    /\ objects' = objects \union {k}
    /\ imageJob' = [imageJob EXCEPT ![r] = [at |-> "put", key |-> {k}, table |-> table]]
    /\ UNCHANGED <<rows, imageUrl>>

SaveImage(r) ==
    /\ imageJob[r].at = "put"
    /\ rows' = rows \union imageJob[r].key
    /\ IF imageJob[r].table = {} THEN ImageEnds(r)
       ELSE imageJob' = [imageJob EXCEPT ![r].at = "saved"]
    /\ UNCHANGED <<objects, spent, imageUrl>>

\* The table may have been removed meanwhile; its row is updated all the same.
UpdateTableImage(r) ==
    /\ imageJob[r].at = "saved"
    /\ imageUrl' = [t \in Picture |-> IF t \in imageJob[r].table
                                      THEN imageJob[r].key ELSE imageUrl[t]]
    /\ ImageEnds(r)
    /\ UNCHANGED <<objects, rows, spent>>

Remove(r, k) ==
    /\ imageJob[r].at = "idle"
    /\ k \in rows
    /\ imageJob' = [imageJob EXCEPT ![r] = [at |-> "found", key |-> {k}, table |-> {}]]
    /\ UNCHANGED <<objects, rows, spent, imageUrl>>

\* Slip: the object goes first.
RemoveObjectFirst(r) ==
    /\ imageJob[r].at = "found"
    /\ objects' = objects \ imageJob[r].key
    /\ imageJob' = [imageJob EXCEPT ![r].at = "removed"]
    /\ UNCHANGED <<rows, spent, imageUrl>>

\* A row that another removal took meanwhile is no error.
RemoveRow(r) ==
    /\ imageJob[r].at = "found"
    /\ rows' = rows \ imageJob[r].key
    /\ imageJob' = [imageJob EXCEPT ![r].at = "removed"]
    /\ UNCHANGED <<objects, spent, imageUrl>>

DeleteObject(r) ==
    /\ imageJob[r].at = "removed"
    /\ objects' = objects \ imageJob[r].key
    /\ ImageEnds(r)
    /\ UNCHANGED <<rows, spent, imageUrl>>

\* A call to the store or a statement fails, or the process dies: what was
\* done stays done.
ImageRequestDies(r) ==
    /\ imageJob[r].at # "idle"
    /\ ImageEnds(r)
    /\ UNCHANGED <<objects, rows, spent, imageUrl>>

ImageRequestStep(r) ==
    \/ \E k \in Image :
         \/ Upload(r, k, {}) \/ \E t \in Picture : Upload(r, k, {t})
         \/ Remove(r, k)
    \/ SaveImage(r) \/ UpdateTableImage(r)
    \/ RemoveRow(r) \/ DeleteObject(r) \/ ImageRequestDies(r)

ImagesNext == \E r \in ImageRequest : ImageRequestStep(r)

ImagesSpec == ImagesInit /\ [][ImagesNext]_imageVars

-----------------------------------------------------------------------------
\* Types of the store, the rows and the requests under way.
ImagesTypeOK ==
    /\ objects \subseteq Image /\ rows \subseteq Image /\ spent \subseteq Image
    /\ imageUrl \in [Picture -> SUBSET Image]
    /\ imageJob \in [ImageRequest -> ImageJob]

\* Wherever an upload or a removal breaks off, an object may be left over but
\* no row points to one that is missing (images.service.ts, upload 120-132,
\* remove 156-159: an orphaned object is preferred to a dangling row).
RowHasObject == rows \subseteq objects
=============================================================================

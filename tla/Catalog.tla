------------------------------ MODULE Catalog ------------------------------
(***************************************************************************)
(* The catalog: products with their images, and categories                 *)
(* (products.service.ts, categories.service.ts and their repositories).    *)
(*                                                                         *)
(* An image is a row of the database and an asset at Cloudinary, and the   *)
(* two stores have no common transaction.  A request awaits every upload,  *)
(* the one statement on the database and every destruction; what other     *)
(* requests, failures and crashes do in between is the subject.  A failed  *)
(* call may have taken place all the same.                                 *)
(***************************************************************************)
EXTENDS Naturals

CONSTANTS
    Products,
    Categories,
    Names,          \* names of categories
    Images,         \* assets: a public_id each
    Stocked,        \* the images that products have at the start
    Requests,       \* requests; each runs once
    MaxImages,      \* 5 in the code
    MaxFaults,      \* bound: failed calls and crashes
    None,           \* null; also an id that is not in use yet
    Gone            \* an id that has been deleted

ASSUME CatalogAssumption ==
    /\ MaxImages \in Nat
    /\ MaxFaults \in Nat
    /\ Stocked \in [Products -> SUBSET Images]
    /\ \A p, q \in Products : p # q => Stocked[p] \cap Stocked[q] = {}
    /\ {None, Gone} \cap (Products \cup Categories \cup Names) = {}

VARIABLES
    names,      \* Category.name
    category,   \* Product.categoryId
    images,     \* ProductImage.publicId by product
    assets,     \* what is stored at Cloudinary
    issued,     \* every public_id Cloudinary has ever given
    req,        \* the local variables and the program point of each request
    faults,     \* failures so far
    overtaken   \* history: images taken out of the catalog by requests that
                \* had not read them

vars == <<names, category, images, assets, issued, req, faults, overtaken>>

-----------------------------------------------------------------------------
Points == {"idle", "uploading", "saving", "saved", "cleaning", "undoing",
           "deleting", "removing", "ok", "failed", "crashed"}

(* "left" files are still to be uploaded; "doomed" assets still to be      *)
(* destroyed; "kept" ones could not be; "lost": the answer to the          *)
(* statement that stored the images was lost.                              *)
Reqs == [ pc : Points,
          op : {"none", "create", "update", "delete"},
          product : Products \cup {None},
          category : Categories \cup {None},
          left : Nat,
          uploaded : SUBSET Images,
          old : SUBSET Images,
          doomed : SUBSET Images,
          kept : SUBSET Images,
          lost : BOOLEAN ]

Idle == [ pc |-> "idle", op |-> "none", product |-> None, category |-> None,
          left |-> 0, uploaded |-> {}, old |-> {}, doomed |-> {}, kept |-> {},
          lost |-> FALSE ]

TypeOK ==
    /\ names \in [Categories -> Names \cup {None, Gone}]
    /\ category \in [Products -> Categories \cup {None, Gone}]
    /\ images \in [Products -> SUBSET Images]
    /\ assets \subseteq issued
    /\ issued \subseteq Images
    /\ req \in [Requests -> Reqs]
    /\ faults \in 0..MaxFaults
    /\ overtaken \subseteq Images

InCatalog(p) == category[p] \in Categories
IsCategory(c) == names[c] \in Names

Init ==
    /\ names \in [Categories -> Names \cup {None}]
    /\ \A c, d \in Categories : c # d => names[c] # names[d] \/ names[c] = None
    /\ category \in [Products -> Categories \cup {None}]
    /\ \A p \in Products :
         /\ InCatalog(p) <=> Stocked[p] # {}
         /\ InCatalog(p) => IsCategory(category[p])
    /\ images = Stocked
    /\ assets = UNION {Stocked[p] : p \in Products}
    /\ issued = assets
    /\ req = [r \in Requests |-> Idle]
    /\ faults = 0
    /\ overtaken = {}

Do(r, change) == req' = [req EXCEPT ![r] = change]

(* The catch block: destroy what has been uploaded.                        *)
Undo(q) == [q EXCEPT !.pc = "undoing", !.doomed = q.uploaded]

(* The statement of r takes the images of its product out of the catalog:  *)
(* those that r has not read are known to nobody any more.                 *)
Overtake(r) == overtaken' = overtaken \cup (images[req[r].product] \ req[r].old)

Fault == faults < MaxFaults /\ faults' = faults + 1

-----------------------------------------------------------------------------
(* The beginning of create, update and delete                              *)

(* The database gives a product an id nobody has seen.                     *)
Create(r, p, c, n) ==
    /\ req[r].pc = "idle"
    /\ category[p] = None
    /\ \A s \in Requests : req[s].product # p
    /\ Do(r, [Idle EXCEPT !.pc = "uploading", !.op = "create", !.product = p,
                          !.category = c, !.left = n])
    /\ UNCHANGED <<names, category, images, overtaken, assets, issued, faults>>

(* Mutant of Update: destroys the images that it is about to replace.      *)
UpdateCleaningFirst(r, p, c, n) ==
    /\ req[r].pc = "idle"
    /\ InCatalog(p)
    /\ Do(r, [Idle EXCEPT !.pc = IF n = 0 THEN "saving" ELSE "uploading",
                          !.op = "update", !.product = p, !.category = c,
                          !.left = n, !.old = images[p]])
    /\ assets' = IF n = 0 THEN assets ELSE assets \ images[p]
    /\ UNCHANGED <<names, category, images, overtaken, issued, faults>>

(* A null category leaves it as it is; no files leave the images.          *)
Update(r, p, c, n) ==
    /\ req[r].pc = "idle"
    /\ InCatalog(p)
    /\ Do(r, [Idle EXCEPT !.pc = IF n = 0 THEN "saving" ELSE "uploading",
                          !.op = "update", !.product = p, !.category = c,
                          !.left = n, !.old = images[p]])
    /\ UNCHANGED <<names, category, images, overtaken, assets, issued, faults>>

Delete(r, p) ==
    /\ req[r].pc = "idle"
    /\ InCatalog(p)
    /\ Do(r, [Idle EXCEPT !.pc = "deleting", !.op = "delete", !.product = p,
                          !.old = images[p], !.doomed = images[p]])
    /\ UNCHANGED <<names, category, images, overtaken, assets, issued, faults>>

-----------------------------------------------------------------------------
(* uploadImage, one file after the other                                   *)

(* Mutant of UploadImage: the loop runs once too often.                    *)
UploadImagePastEnd(r, i) ==
    /\ req[r].pc = "uploading"
    /\ i \notin issued
    /\ issued' = issued \cup {i}
    /\ assets' = assets \cup {i}
    /\ Do(r, [req[r] EXCEPT !.pc = IF req[r].left = 0 THEN "saving" ELSE @,
                            !.left = @ - 1,
                            !.uploaded = @ \cup {i}])
    /\ UNCHANGED <<names, category, images, overtaken, faults>>

UploadImage(r, i) ==
    /\ req[r].pc = "uploading"
    /\ i \notin issued
    /\ issued' = issued \cup {i}
    /\ assets' = assets \cup {i}
    /\ Do(r, [req[r] EXCEPT !.pc = IF req[r].left = 1 THEN "saving" ELSE @,
                            !.left = @ - 1,
                            !.uploaded = @ \cup {i}])
    /\ UNCHANGED <<names, category, images, overtaken, faults>>

(* Mutant of UploadFails: no catch around the loop.                        *)
UploadFailsUncaught(r, stored) ==
    /\ req[r].pc = "uploading"
    /\ Fault
    /\ stored \cap issued = {}
    /\ issued' = issued \cup stored
    /\ assets' = assets \cup stored
    /\ Do(r, [req[r] EXCEPT !.pc = "failed"])
    /\ UNCHANGED <<names, category, images, overtaken>>

(* The asset may have been stored before the answer was lost.              *)
UploadFails(r, stored) ==
    /\ req[r].pc = "uploading"
    /\ Fault
    /\ stored \cap issued = {}
    /\ issued' = issued \cup stored
    /\ assets' = assets \cup stored
    /\ Do(r, Undo(req[r]))
    /\ UNCHANGED <<names, category, images, overtaken>>

-----------------------------------------------------------------------------
(* product.create and product.update: one statement, and its answer        *)

(* The foreign key to the category (P2003) and the product itself (P2025). *)
Accepted(r) ==
    /\ req[r].category # None => IsCategory(req[r].category)
    /\ req[r].op = "update" => InCatalog(req[r].product)

Save(r) ==
    LET p == req[r].product
    IN  /\ req[r].pc = "saving"
        /\ IF Accepted(r)
           THEN /\ category' = [category EXCEPT ![p] =
                      IF req[r].category = None THEN @ ELSE req[r].category]
                /\ images' = [images EXCEPT ![p] =
                      IF req[r].uploaded = {} THEN @ ELSE req[r].uploaded]
                /\ IF req[r].uploaded = {} THEN UNCHANGED overtaken ELSE Overtake(r)
                /\ Do(r, [req[r] EXCEPT !.pc = "saved"])
           ELSE /\ Do(r, Undo(req[r]))
                /\ UNCHANGED <<category, images, overtaken>>
        /\ UNCHANGED <<names, assets, issued, faults>>

(* Mutant of Saved: the replaced images are left at Cloudinary.            *)
SavedOnly(r) ==
    /\ req[r].pc = "saved"
    /\ Do(r, [req[r] EXCEPT !.pc = "ok"])
    /\ UNCHANGED <<names, category, images, overtaken, assets, issued, faults>>

(* Only an update with new images has old ones to destroy.                 *)
Saved(r) ==
    /\ req[r].pc = "saved"
    /\ Do(r, IF req[r].op = "update" /\ req[r].uploaded # {}
             THEN [req[r] EXCEPT !.pc = "cleaning", !.doomed = req[r].old]
             ELSE [req[r] EXCEPT !.pc = "ok"])
    /\ UNCHANGED <<names, category, images, overtaken, assets, issued, faults>>

(* The statement fails, or takes effect and its answer is lost.            *)
SaveFails(r) ==
    /\ req[r].pc \in {"saving", "saved"}
    /\ Fault
    /\ Do(r, Undo([req[r] EXCEPT !.lost = (req[r].pc = "saved")]))
    /\ UNCHANGED <<names, category, images, overtaken, assets, issued>>

-----------------------------------------------------------------------------
(* cleanupCloudinaryImages: all at once, failures are ignored              *)

IsCleaning(r) == req[r].pc \in {"cleaning", "undoing", "deleting"}

DeleteImage(r, i) ==
    /\ IsCleaning(r)
    /\ i \in req[r].doomed
    /\ assets' = assets \ {i}
    /\ Do(r, [req[r] EXCEPT !.doomed = @ \ {i}])
    /\ UNCHANGED <<names, category, images, overtaken, issued, faults>>

DeleteImageFails(r, i) ==
    /\ IsCleaning(r)
    /\ i \in req[r].doomed
    /\ Fault
    /\ Do(r, [req[r] EXCEPT !.doomed = @ \ {i}, !.kept = @ \cup {i}])
    /\ UNCHANGED <<names, category, images, overtaken, assets, issued>>

Cleaned(r) ==
    /\ IsCleaning(r)
    /\ req[r].doomed = {}
    /\ Do(r, [req[r] EXCEPT !.pc = CASE @ = "cleaning" -> "ok"
                                     [] @ = "undoing" -> "failed"
                                     [] @ = "deleting" -> "removing"])
    /\ UNCHANGED <<names, category, images, overtaken, assets, issued, faults>>

-----------------------------------------------------------------------------
(* product.delete, after the images                                        *)

Remove(r) ==
    /\ category' = [category EXCEPT ![req[r].product] = Gone]
    /\ images' = [images EXCEPT ![req[r].product] = {}]
    /\ Overtake(r)

DeleteProduct(r) ==
    /\ req[r].pc = "removing"
    /\ IF InCatalog(req[r].product)
       THEN /\ Remove(r)
            /\ Do(r, [req[r] EXCEPT !.pc = "ok"])
       ELSE /\ Do(r, [req[r] EXCEPT !.pc = "failed"])
            /\ UNCHANGED <<category, images, overtaken>>
    /\ UNCHANGED <<names, assets, issued, faults>>

DeleteProductFails(r) ==
    /\ req[r].pc = "removing"
    /\ Fault
    /\ \/ InCatalog(req[r].product) /\ Remove(r)
       \/ UNCHANGED <<category, images, overtaken>>
    /\ Do(r, [req[r] EXCEPT !.pc = "failed"])
    /\ UNCHANGED <<names, assets, issued>>

(* The process dies and takes every request with it.                       *)
Crash ==
    /\ Fault
    /\ req' = [r \in Requests |->
                 IF req[r].pc \in {"idle", "ok", "failed"} THEN req[r]
                 ELSE [req[r] EXCEPT !.pc = "crashed"]]
    /\ UNCHANGED <<names, category, images, overtaken, assets, issued>>

-----------------------------------------------------------------------------
(* Categories: the statement decides, whatever was read before it          *)

IsFree(n) == \A c \in Categories : names[c] # n

CreateCategory(c, n) ==
    /\ names[c] = None
    /\ IsFree(n)
    /\ names' = [names EXCEPT ![c] = n]
    /\ UNCHANGED <<category, images, overtaken, assets, issued, req, faults>>

UpdateCategory(c, n) ==
    /\ IsCategory(c)
    /\ IsFree(n)
    /\ names' = [names EXCEPT ![c] = n]
    /\ UNCHANGED <<category, images, overtaken, assets, issued, req, faults>>

(* A category that still has products is not deleted (P2003).              *)
DeleteCategory(c) ==
    /\ IsCategory(c)
    /\ \A p \in Products : category[p] # c
    /\ names' = [names EXCEPT ![c] = Gone]
    /\ UNCHANGED <<category, images, overtaken, assets, issued, req, faults>>

CategoryStep(c) ==
    \/ \E n \in Names : CreateCategory(c, n) \/ UpdateCategory(c, n)
    \/ DeleteCategory(c)

-----------------------------------------------------------------------------
BeginStep(r) ==
    \E p \in Products :
      \/ \E c \in Categories, n \in 1..MaxImages : Create(r, p, c, n)
      \/ \E c \in Categories \cup {None}, n \in 0..MaxImages : Update(r, p, c, n)
      \/ Delete(r, p)

UploadStep(r) ==
    \/ \E i \in Images : UploadImage(r, i)
    \/ \E stored \in {{}} \cup {{i} : i \in Images} : UploadFails(r, stored)

SaveStep(r) == Save(r) \/ Saved(r) \/ SaveFails(r)

CleanStep(r) ==
    \/ \E i \in Images : DeleteImage(r, i) \/ DeleteImageFails(r, i)
    \/ Cleaned(r)
    \/ DeleteProduct(r)
    \/ DeleteProductFails(r)

Next ==
    \/ \E r \in Requests :
         BeginStep(r) \/ UploadStep(r) \/ SaveStep(r) \/ CleanStep(r)
    \/ \E c \in Categories : CategoryStep(c)
    \/ Crash

Spec == Init /\ [][Next]_vars

-----------------------------------------------------------------------------
(* Properties                                                              *)

(* A deletion of the product has begun, or somebody was told that its      *)
(* images could not be stored when they were.                              *)
Disturbed(p) == \E r \in Requests :
                  req[r].product = p /\ (req[r].op = "delete" \/ req[r].lost)

(* A product in the catalog has an image, and all its images exist,        *)
(* however updates of it overlap, fail or crash: no request destroys what  *)
(* another one has stored (update, cleanupCloudinaryImages).               *)
ImagesExist ==
    \A p \in Products :
      InCatalog(p) /\ ~Disturbed(p)
        => images[p] # {} /\ images[p] \subseteq assets

(* A create or an update that was refused, or failed, has taken back what  *)
(* it uploaded, but for what Cloudinary refused to destroy: also when its  *)
(* category or its product was deleted in the meantime.  That is, what it  *)
(* knows of: an asset whose upload answer was lost has no public_id in the *)
(* request, and stays (uploadImage).                                       *)
RejectedLeavesNothing ==
    \A r \in Requests :
      req[r].pc = "failed" => req[r].uploaded \cap assets \subseteq req[r].kept

Active(r) == req[r].pc \notin {"idle", "ok", "failed", "crashed"}

(* Without failures every asset is an image of a product or in the hands   *)
(* of a request: replaced, deleted and rejected images are destroyed in    *)
(* the end, however requests interleave.  The one exception is an image    *)
(* that a request took out of the catalog without having read it, because  *)
(* it was stored in between (update, delete).                              *)
NothingLeaks ==
    faults = 0 =>
      \A i \in assets \ overtaken :
        \/ \E p \in Products : i \in images[p]
        \/ \E r \in Requests :
             Active(r) /\ i \in req[r].uploaded \cup req[r].old
=============================================================================

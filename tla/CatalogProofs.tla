--------------------------- MODULE CatalogProofs ---------------------------
(***************************************************************************)
(* The images of a product that nobody is deleting exist at Cloudinary.    *)
(*                                                                         *)
(* A public_id enters the database once, by the request that uploaded it;  *)
(* so the old images an update destroys, which its own statement has       *)
(* replaced, can never be shown again, and what a failed request takes     *)
(* back was never shown, unless it was told so wrongly.                    *)
(***************************************************************************)
EXTENDS Catalog, TLAPS

Uploads(q) == q.pc \in {"uploading", "saving"}

(* What a request knows by itself.                                         *)
ReqOK(q) ==
    /\ q.pc # "idle" => q.product \in Products
    /\ q.pc = "idle" => /\ q.uploaded = {} /\ q.old = {} /\ q.product = None
                        /\ q.op = "none"
    /\ q.op = "create" => q.category \in Categories
    /\ q.op = "delete" => q.uploaded = {}
    /\ q.lost => q.pc \in {"undoing", "failed", "crashed"}
    /\ Uploads(q) \/ q.pc = "saved" => q.op \in {"create", "update"}
    /\ q.pc \in {"deleting", "removing"} => q.op = "delete"
    /\ q.pc = "uploading" => q.left # 0
    /\ q.pc = "saving" /\ q.op = "create" => q.uploaded # {}
    /\ q.uploaded \subseteq issued
    /\ q.old \subseteq issued
    /\ q.pc \in {"cleaning", "deleting"} => q.doomed \subseteq q.old
    /\ q.pc = "cleaning" => q.uploaded # {}
    /\ q.pc = "undoing" => q.doomed \subseteq q.uploaded
    /\ Uploads(q) => q.uploaded \subseteq assets
    /\ q.pc = "undoing" => q.uploaded \cap assets \subseteq q.doomed \cup q.kept
    /\ q.pc = "failed" => q.uploaded \cap assets \subseteq q.kept

RequestsOK == \A r \in Requests : ReqOK(req[r])

OwnersOK == \A r, s \in Requests :
              r # s => req[r].uploaded \cap req[s].uploaded = {}

(* What the database shows has been stored by its uploader, for its        *)
(* product; one that takes its uploads back has not stored them, or does   *)
(* not know it.                                                            *)
ShownOK ==
    \A p \in Products : \A i \in images[p] :
      /\ i \in issued
      /\ \A q \in Products : q # p => i \notin images[q]
      /\ \A r \in Requests : i \in req[r].uploaded =>
           /\ req[r].product = p
           /\ ~Uploads(req[r])
           /\ req[r].pc \in {"undoing", "failed"} => req[r].lost

(* What a request has read is shown by its product or never again.         *)
OldOK ==
    \A r \in Requests : \A i \in req[r].old :
      /\ \A p \in Products : i \in images[p] => p = req[r].product
      /\ \A s \in Requests : i \in req[s].uploaded => ~Uploads(req[s])
      /\ req[r].pc \in {"saved", "cleaning"} /\ req[r].uploaded # {} =>
           \A p \in Products : i \notin images[p]

CatalogInv ==
    /\ TypeOK
    /\ RequestsOK
    /\ OwnersOK
    /\ ShownOK
    /\ OldOK
    /\ ImagesExist

LEMMA InitOK == Init => CatalogInv
  <1> SUFFICES ASSUME Init PROVE CatalogInv
    OBVIOUS
  <1>1. TypeOK
    BY CatalogAssumption DEF Init, TypeOK, Idle, Reqs, Points
  <1>2. RequestsOK /\ OwnersOK /\ OldOK
    BY DEF Init, RequestsOK, ReqOK, Uploads, OwnersOK, OldOK, Idle
  <1>3. ShownOK
    BY CatalogAssumption DEF Init, ShownOK, Idle
  <1>4. ImagesExist
    BY DEF Init, ImagesExist
  <1> QED
    BY <1>1, <1>2, <1>3, <1>4 DEF CatalogInv

(* A step of one request that leaves the database alone: it may upload,    *)
(* destroy what no undisturbed product shows, and move on.                 *)
LEMMA LocalStep ==
    ASSUME CatalogInv, NEW r \in Requests, NEW q \in Reqs,
           req' = [req EXCEPT ![r] = q],
           UNCHANGED <<names, category, images, overtaken>>, faults' \in 0..MaxFaults,
           issued \subseteq issued', issued' \subseteq Images,
           assets' \subseteq assets \cup (issued' \ issued),
           q.product = req[r].product, q.op = req[r].op, q.old = req[r].old,
           req[r].uploaded \subseteq q.uploaded,
           q.uploaded \subseteq req[r].uploaded \cup (issued' \ issued),
           req[r].lost => q.lost,
           ReqOK(q)',
           Uploads(q) => Uploads(req[r]),
           ~Uploads(q) => q.uploaded = req[r].uploaded,
           q.pc \in {"saved", "cleaning"} => req[r].pc \in {"saved", "cleaning"},
           q.pc \in {"undoing", "failed"} =>
             q.lost \/ \A p \in Products : q.uploaded \cap images[p] = {},
           \A i \in assets \ assets' :
             /\ \A p \in Products : i \in images[p] => Disturbed(p)
             /\ \A s \in Requests : i \in req[s].uploaded => ~Uploads(req[s])
                                                             \/ s = r
    PROVE  CatalogInv'
  <1>0. /\ TypeOK /\ req \in [Requests -> Reqs] /\ req' \in [Requests -> Reqs]
        /\ req'[r] = q /\ \A s \in Requests \ {r} : req'[s] = req[s]
    BY DEF CatalogInv, TypeOK
  <1>1. TypeOK'
    BY <1>0 DEF TypeOK
  <1>2. RequestsOK'
    <2> SUFFICES ASSUME NEW s \in Requests, s # r PROVE ReqOK(req[s])'
      BY <1>0 DEF RequestsOK
    <2> QED
      BY <1>0 DEF CatalogInv, RequestsOK, ReqOK, Uploads
  <1>3. OwnersOK'
    BY <1>0 DEF CatalogInv, OwnersOK, RequestsOK, ReqOK
  <1>4. ShownOK'
    <2> SUFFICES ASSUME NEW p \in Products, NEW i \in images[p], NEW s \in Requests,
                        i \in (req[s].uploaded)'
                 PROVE  /\ (req[s].product)' = p
                        /\ ~Uploads(req[s])'
                        /\ (req[s].pc)' \in {"undoing", "failed"} => (req[s].lost)'
      BY <1>0 DEF CatalogInv, ShownOK
    <2>1. i \in req[s].uploaded
      BY <1>0 DEF CatalogInv, ShownOK
    <2> QED
      BY <1>0, <2>1 DEF CatalogInv, ShownOK, Uploads
  <1>5. OldOK'
    <2> SUFFICES ASSUME NEW s \in Requests, NEW i \in (req[s].old)'
                 PROVE  /\ \A p \in Products : i \in images'[p] => p = (req[s].product)'
                        /\ \A t \in Requests :
                             i \in (req[t].uploaded)' => ~Uploads(req[t])'
                        /\ (req[s].pc)' \in {"saved", "cleaning"}
                           /\ (req[s].uploaded)' # {} =>
                             \A p \in Products : i \notin images'[p]
      BY DEF OldOK
    <2>1. i \in req[s].old /\ i \in issued
      BY <1>0 DEF CatalogInv, RequestsOK, ReqOK
    <2>2. \A p \in Products : i \in images'[p] => p = (req[s].product)'
      BY <1>0, <2>1 DEF CatalogInv, OldOK
    <2>3. \A t \in Requests : i \in (req[t].uploaded)' => ~Uploads(req[t])'
      BY <1>0, <2>1 DEF CatalogInv, OldOK, Uploads
    <2>4. (req[s].pc)' \in {"saved", "cleaning"} /\ (req[s].uploaded)' # {} =>
             \A p \in Products : i \notin images'[p]
      BY <1>0, <2>1 DEF CatalogInv, OldOK, Uploads
    <2> QED
      BY <2>2, <2>3, <2>4
  <1>6. ImagesExist'
    <2> SUFFICES ASSUME NEW p \in Products, InCatalog(p)', ~Disturbed(p)'
                 PROVE  images[p] # {} /\ images[p] \subseteq assets'
      BY DEF ImagesExist
    <2>1. InCatalog(p) /\ ~Disturbed(p)
      BY <1>0 DEF InCatalog, Disturbed
    <2> QED
      BY <2>1 DEF CatalogInv, ImagesExist
  <1> QED
    BY <1>1, <1>2, <1>3, <1>4, <1>5, <1>6 DEF CatalogInv

(* uploadImage, and its failure.                                           *)
LEMMA UploadSteps ==
    ASSUME CatalogInv, NEW r \in Requests, UploadStep(r)
    PROVE  CatalogInv'
  <1>0. /\ req \in [Requests -> Reqs] /\ assets \subseteq issued
        /\ issued \subseteq Images /\ faults \in 0..MaxFaults /\ ReqOK(req[r])
    BY DEF CatalogInv, TypeOK, RequestsOK
  <1>1. ASSUME NEW i \in Images, UploadImage(r, i) PROVE CatalogInv'
    <2>1. PICK q : q = [req[r] EXCEPT !.pc = IF req[r].left = 1 THEN "saving" ELSE @,
                                      !.left = @ - 1,
                                      !.uploaded = @ \cup {i}]
      OBVIOUS
    <2>2. req[r].left \in Nat \ {0}
      BY <1>0, <1>1 DEF UploadImage, ReqOK, Reqs
    <2>3. /\ q \in Reqs
          /\ q.pc = IF req[r].left = 1 THEN "saving" ELSE "uploading"
          /\ q.left = req[r].left - 1 /\ q.uploaded = req[r].uploaded \cup {i}
          /\ q.op = req[r].op /\ q.product = req[r].product
          /\ q.old = req[r].old /\ q.lost = req[r].lost
          /\ q.category = req[r].category
      <3>1. q.pc \in Points /\ q.pc = IF req[r].left = 1 THEN "saving" ELSE "uploading"
        BY <1>0, <1>1, <2>1 DEF UploadImage, Reqs, Points
      <3>2. q.left = req[r].left - 1 /\ q.left \in Nat
        BY <1>0, <2>1, <2>2 DEF Reqs
      <3> QED
        BY <1>0, <2>1, <3>1, <3>2 DEF Reqs
    <2>4. req' = [req EXCEPT ![r] = q]
      BY <1>1, <2>1 DEF UploadImage, Do
    <2>5. ReqOK(q)'
      BY <1>0, <1>1, <2>2, <2>3 DEF UploadImage, ReqOK, Uploads
    <2> QED
      BY <1>0, <1>1, <2>3, <2>4, <2>5, LocalStep DEF UploadImage, Uploads
  <1>2. ASSUME NEW stored \in SUBSET Images, UploadFails(r, stored) PROVE CatalogInv'
    <2>1. PICK q : q = Undo(req[r])
      OBVIOUS
    <2>2. /\ q \in Reqs /\ q.pc = "undoing" /\ q.doomed = req[r].uploaded
          /\ q.uploaded = req[r].uploaded
          /\ q.op = req[r].op /\ q.product = req[r].product
          /\ q.old = req[r].old /\ q.lost = req[r].lost
          /\ q.category = req[r].category
      BY <1>0, <2>1 DEF Undo, Reqs, Points
    <2>3. req' = [req EXCEPT ![r] = q]
      BY <1>2, <2>1 DEF UploadFails, Do
    <2>4. ReqOK(q)'
      BY <1>0, <1>2, <2>2 DEF UploadFails, ReqOK, Uploads
    <2>5. \A p \in Products : q.uploaded \cap images[p] = {}
      BY <1>2, <2>2 DEF UploadFails, CatalogInv, ShownOK, Uploads
    <2>6. faults' \in 0..MaxFaults
      BY <1>0, <1>2, CatalogAssumption DEF UploadFails, Fault
    <2> QED
      BY <1>0, <1>2, <2>2, <2>3, <2>4, <2>5, <2>6, LocalStep DEF UploadFails, Uploads
  <1> QED
    BY <1>1, <1>2 DEF UploadStep

(* The catch block of a request whose statement was refused, or seemed to  *)
(* fail.                                                                   *)
LEMMA UndoSteps ==
    ASSUME CatalogInv, NEW r \in Requests,
           \/ Save(r) /\ ~Accepted(r)
           \/ SaveFails(r)
    PROVE  CatalogInv'
  <1>0. /\ req \in [Requests -> Reqs] /\ assets \subseteq issued
        /\ issued \subseteq Images /\ faults \in 0..MaxFaults /\ ReqOK(req[r])
    BY DEF CatalogInv, TypeOK, RequestsOK
  <1>1. ASSUME Save(r), ~Accepted(r) PROVE CatalogInv'
    <2>1. PICK q : q = Undo(req[r])
      OBVIOUS
    <2>2. /\ q \in Reqs /\ q.pc = "undoing" /\ q.doomed = req[r].uploaded
          /\ q.uploaded = req[r].uploaded
          /\ q.op = req[r].op /\ q.product = req[r].product
          /\ q.old = req[r].old /\ q.lost = req[r].lost
          /\ q.category = req[r].category
      BY <1>0, <2>1 DEF Undo, Reqs, Points
    <2>3. req' = [req EXCEPT ![r] = q]
      BY <1>1, <2>1 DEF Save, Do
    <2>4. ReqOK(q)'
      BY <1>0, <1>1, <2>2 DEF Save, ReqOK, Uploads
    <2>5. \A p \in Products : q.uploaded \cap images[p] = {}
      BY <1>1, <2>2 DEF Save, CatalogInv, ShownOK, Uploads
    <2> QED
      BY <1>0, <1>1, <2>2, <2>3, <2>4, <2>5, LocalStep DEF Save, Uploads
  <1>2. ASSUME SaveFails(r) PROVE CatalogInv'
    <2>1. PICK q : q = Undo([req[r] EXCEPT !.lost = (req[r].pc = "saved")])
      OBVIOUS
    <2>2. /\ q \in Reqs /\ q.pc = "undoing" /\ q.doomed = req[r].uploaded
          /\ q.uploaded = req[r].uploaded
          /\ q.op = req[r].op /\ q.product = req[r].product
          /\ q.old = req[r].old /\ q.lost = (req[r].pc = "saved")
          /\ q.category = req[r].category
      BY <1>0, <2>1 DEF Undo, Reqs, Points
    <2>3. req' = [req EXCEPT ![r] = q]
      BY <1>2, <2>1 DEF SaveFails, Do
    <2>4. ReqOK(q)'
      BY <1>0, <1>2, <2>2 DEF SaveFails, ReqOK, Uploads
    <2>5. q.lost \/ \A p \in Products : q.uploaded \cap images[p] = {}
      <3>1. CASE req[r].pc = "saved"
        BY <2>2, <3>1
      <3>2. CASE req[r].pc = "saving"
        BY <2>2, <3>2 DEF CatalogInv, ShownOK, Uploads
      <3> QED
        BY <1>2, <3>1, <3>2 DEF SaveFails
    <2>6. faults' \in 0..MaxFaults /\ ~req[r].lost
      BY <1>0, <1>2, CatalogAssumption DEF SaveFails, Fault, ReqOK
    <2> QED
      BY <1>0, <1>2, <2>2, <2>3, <2>4, <2>5, <2>6, LocalStep DEF SaveFails, Uploads
  <1> QED
    BY <1>1, <1>2

(* Steps of one request that only move on, destroy or fail to.             *)
LEMMA CleanSteps ==
    ASSUME CatalogInv, NEW r \in Requests,
           \/ Saved(r) \/ Cleaned(r)
           \/ \E i \in Images : DeleteImage(r, i) \/ DeleteImageFails(r, i)
           \/ DeleteProduct(r) /\ ~InCatalog(req[r].product)
    PROVE  CatalogInv'
  <1>0. /\ req \in [Requests -> Reqs] /\ assets \subseteq issued
        /\ issued \subseteq Images /\ faults \in 0..MaxFaults /\ ReqOK(req[r])
    BY DEF CatalogInv, TypeOK, RequestsOK
  <1>1. ASSUME Saved(r) PROVE CatalogInv'
    <2>1. PICK q : q = IF req[r].op = "update" /\ req[r].uploaded # {}
             THEN [req[r] EXCEPT !.pc = "cleaning", !.doomed = req[r].old]
             ELSE [req[r] EXCEPT !.pc = "ok"]
      OBVIOUS
    <2>2. /\ q \in Reqs
          /\ \/ q.pc = "cleaning" /\ q.doomed = req[r].old /\ req[r].uploaded # {}
             \/ q.pc = "ok"
          /\ q.uploaded = req[r].uploaded
          /\ q.op = req[r].op /\ q.product = req[r].product
          /\ q.old = req[r].old /\ q.lost = req[r].lost
          /\ q.category = req[r].category
      BY <1>0, <2>1 DEF Reqs, Points
    <2>3. req' = [req EXCEPT ![r] = q]
      BY <1>1, <2>1 DEF Saved, Do
    <2>4. ReqOK(q)'
      BY <1>0, <1>1, <2>2 DEF Saved, ReqOK, Uploads
    <2> QED
      BY <1>0, <1>1, <2>2, <2>3, <2>4, LocalStep DEF Saved, Uploads
  <1>2. ASSUME Cleaned(r) PROVE CatalogInv'
    <2>1. PICK q : q = [req[r] EXCEPT !.pc = CASE @ = "cleaning" -> "ok"
                                     [] @ = "undoing" -> "failed"
                                     [] @ = "deleting" -> "removing"]
      OBVIOUS
    <2>2. /\ q \in Reqs
          /\ \/ req[r].pc = "cleaning" /\ q.pc = "ok"
             \/ req[r].pc = "undoing" /\ q.pc = "failed"
             \/ req[r].pc = "deleting" /\ q.pc = "removing"
          /\ q.uploaded = req[r].uploaded /\ q.kept = req[r].kept
          /\ q.op = req[r].op /\ q.product = req[r].product
          /\ q.old = req[r].old /\ q.lost = req[r].lost
          /\ q.category = req[r].category /\ q.doomed = req[r].doomed
      BY <1>0, <1>2, <2>1 DEF Cleaned, IsCleaning, Reqs, Points
    <2>3. req' = [req EXCEPT ![r] = q]
      BY <1>2, <2>1 DEF Cleaned, Do
    <2>4. ReqOK(q)'
      BY <1>0, <1>2, <2>2 DEF Cleaned, ReqOK, Uploads
    <2>5. q.pc \in {"undoing", "failed"} =>
            q.lost \/ \A p \in Products : q.uploaded \cap images[p] = {}
      BY <2>2 DEF CatalogInv, ShownOK
    <2> QED
      BY <1>0, <1>2, <2>2, <2>3, <2>4, <2>5, LocalStep DEF Cleaned, Uploads
  <1>3. ASSUME NEW i \in Images, DeleteImage(r, i) PROVE CatalogInv'
    <2>1. PICK q : q = [req[r] EXCEPT !.doomed = @ \ {i}]
      OBVIOUS
    <2>2. /\ q \in Reqs /\ q.pc = req[r].pc /\ q.doomed = req[r].doomed \ {i}
          /\ q.uploaded = req[r].uploaded /\ q.kept = req[r].kept
          /\ q.op = req[r].op /\ q.product = req[r].product
          /\ q.old = req[r].old /\ q.lost = req[r].lost
          /\ q.category = req[r].category /\ q.left = req[r].left
      BY <1>0, <2>1 DEF Reqs, Points
    <2>3. req' = [req EXCEPT ![r] = q]
      BY <1>3, <2>1 DEF DeleteImage, Do
    <2>4. ReqOK(q)'
      BY <1>0, <1>3, <2>2 DEF DeleteImage, IsCleaning, ReqOK, Uploads
    <2>5. q.pc \in {"undoing", "failed"} =>
            q.lost \/ \A p \in Products : q.uploaded \cap images[p] = {}
      BY <2>2 DEF CatalogInv, ShownOK
    <2>6. \A p \in Products : i \in images[p] => Disturbed(p)
      BY <1>0, <1>3 DEF DeleteImage, IsCleaning, ReqOK, CatalogInv, ShownOK, OldOK,
                        Disturbed
    <2>7. \A s \in Requests : i \in req[s].uploaded => ~Uploads(req[s])
      BY <1>0, <1>3 DEF DeleteImage, IsCleaning, ReqOK, CatalogInv, OwnersOK, OldOK,
                        Uploads
    <2> QED
      BY <1>0, <1>3, <2>2, <2>3, <2>4, <2>5, <2>6, <2>7, LocalStep
      DEF DeleteImage, IsCleaning, Uploads
  <1>4. ASSUME NEW i \in Images, DeleteImageFails(r, i) PROVE CatalogInv'
    <2>1. PICK q : q = [req[r] EXCEPT !.doomed = @ \ {i}, !.kept = @ \cup {i}]
      OBVIOUS
    <2>2. /\ q \in Reqs /\ q.pc = req[r].pc /\ q.doomed = req[r].doomed \ {i}
          /\ q.uploaded = req[r].uploaded /\ q.kept = req[r].kept \cup {i}
          /\ q.op = req[r].op /\ q.product = req[r].product
          /\ q.old = req[r].old /\ q.lost = req[r].lost
          /\ q.category = req[r].category /\ q.left = req[r].left
      BY <1>0, <2>1 DEF Reqs, Points
    <2>3. req' = [req EXCEPT ![r] = q]
      BY <1>4, <2>1 DEF DeleteImageFails, Do
    <2>4. ReqOK(q)'
      BY <1>0, <1>4, <2>2 DEF DeleteImageFails, IsCleaning, ReqOK, Uploads
    <2>5. q.pc \in {"undoing", "failed"} =>
            q.lost \/ \A p \in Products : q.uploaded \cap images[p] = {}
      BY <2>2 DEF CatalogInv, ShownOK
    <2>6. faults' \in 0..MaxFaults
      <3>1. Fault
        BY <1>4 DEF DeleteImageFails
      <3> QED
        BY <1>0, <3>1, CatalogAssumption DEF Fault
    <2> QED
      BY <1>0, <1>4, <2>2, <2>3, <2>4, <2>5, <2>6, LocalStep
      DEF DeleteImageFails, IsCleaning, Uploads
  <1>5. ASSUME DeleteProduct(r), ~InCatalog(req[r].product) PROVE CatalogInv'
    <2>1. PICK q : q = [req[r] EXCEPT !.pc = "failed"]
      OBVIOUS
    <2>2. /\ q \in Reqs /\ q.pc = "failed"
          /\ q.uploaded = req[r].uploaded /\ req[r].uploaded = {}
          /\ q.op = req[r].op /\ q.product = req[r].product
          /\ q.old = req[r].old /\ q.lost = req[r].lost
          /\ q.category = req[r].category
      BY <1>0, <1>5, <2>1 DEF DeleteProduct, ReqOK, Reqs, Points
    <2>3. req' = [req EXCEPT ![r] = q]
      BY <1>5, <2>1 DEF DeleteProduct, Do
    <2>4. ReqOK(q)'
      BY <1>0, <1>5, <2>2 DEF DeleteProduct, ReqOK, Uploads
    <2> QED
      BY <1>0, <1>5, <2>2, <2>3, <2>4, LocalStep DEF DeleteProduct, Uploads
  <1> QED
    BY <1>1, <1>2, <1>3, <1>4, <1>5

(* A request begins: all it has is what it has read.                       *)
LEMMA BeginRequest ==
    ASSUME CatalogInv, NEW r \in Requests, NEW q \in Reqs, req[r].pc = "idle",
           req' = [req EXCEPT ![r] = q],
           UNCHANGED <<names, category, images, overtaken, assets, issued, faults>>,
           q.product \in Products, q.uploaded = {}, ~q.lost,
           q.pc \in {"uploading", "saving", "deleting"},
           q.old = {} \/ q.old = images[q.product],
           ReqOK(q)
    PROVE  CatalogInv'
  <1>0. /\ TypeOK /\ req \in [Requests -> Reqs] /\ req' \in [Requests -> Reqs]
        /\ req'[r] = q /\ \A s \in Requests \ {r} : req'[s] = req[s]
        /\ ReqOK(req[r]) /\ req[r].uploaded = {} /\ req[r].product = None
    BY DEF CatalogInv, TypeOK, RequestsOK, ReqOK
  <1>1. TypeOK'
    BY <1>0 DEF TypeOK
  <1>2. RequestsOK'
    <2> SUFFICES ASSUME NEW s \in Requests PROVE ReqOK(req[s])'
      BY DEF RequestsOK
    <2> QED
      BY <1>0 DEF CatalogInv, RequestsOK, ReqOK
  <1>3. OwnersOK'
    BY <1>0 DEF CatalogInv, OwnersOK
  <1>4. ShownOK'
    BY <1>0 DEF CatalogInv, ShownOK, Uploads
  <1>5. OldOK'
    <2> SUFFICES ASSUME NEW s \in Requests, NEW i \in (req[s].old)'
                 PROVE  /\ \A p \in Products : i \in images[p] => p = (req[s].product)'
                        /\ \A t \in Requests :
                             i \in (req[t].uploaded)' => ~Uploads(req[t])'
                        /\ (req[s].pc)' \in {"saved", "cleaning"}
                           /\ (req[s].uploaded)' # {} =>
                             \A p \in Products : i \notin images[p]
      BY DEF OldOK
    <2>1. CASE s # r
      BY <1>0, <2>1 DEF CatalogInv, OldOK, Uploads
    <2>2. CASE s = r
      <3>1. i \in images[q.product]
        BY <1>0, <2>2
      <3> QED
        BY <1>0, <2>2, <3>1 DEF CatalogInv, ShownOK, Uploads
    <2> QED
      BY <2>1, <2>2
  <1>6. ImagesExist'
    <2> SUFFICES ASSUME NEW p \in Products, InCatalog(p)', ~Disturbed(p)'
                 PROVE  images[p] # {} /\ images[p] \subseteq assets
      BY DEF ImagesExist
    <2>1. InCatalog(p) /\ ~Disturbed(p)
      BY <1>0, CatalogAssumption DEF InCatalog, Disturbed
    <2> QED
      BY <2>1 DEF CatalogInv, ImagesExist
  <1> QED
    BY <1>1, <1>2, <1>3, <1>4, <1>5, <1>6 DEF CatalogInv

LEMMA BeginSteps ==
    ASSUME CatalogInv, NEW r \in Requests, BeginStep(r)
    PROVE  CatalogInv'
  <1>0. images \in [Products -> SUBSET Images] /\ ShownOK
    BY DEF CatalogInv, TypeOK
  <1>1. PICK p \in Products :
          \/ \E c \in Categories, n \in 1..MaxImages : Create(r, p, c, n)
          \/ \E c \in Categories \cup {None}, n \in 0..MaxImages : Update(r, p, c, n)
          \/ Delete(r, p)
    BY DEF BeginStep
  <1>2. images[p] \subseteq issued /\ images[p] \subseteq Images
    BY <1>0 DEF ShownOK
  <1>3. ASSUME NEW c \in Categories, NEW n \in 1..MaxImages, Create(r, p, c, n)
        PROVE  CatalogInv'
    <2>1. PICK q : q = [Idle EXCEPT !.pc = "uploading", !.op = "create",
                                    !.product = p, !.category = c, !.left = n]
      OBVIOUS
    <2>2. /\ q \in Reqs /\ q.pc = "uploading" /\ q.op = "create" /\ q.product = p
          /\ q.category = c /\ q.left = n /\ q.uploaded = {} /\ q.old = {}
          /\ q.doomed = {} /\ ~q.lost
      <3>1. n \in Nat /\ n # 0
        BY CatalogAssumption
      <3> QED
        BY <2>1, <3>1 DEF Idle, Reqs, Points
    <2>3. ReqOK(q)
      BY <2>2 DEF ReqOK, Uploads
    <2> QED
      BY <1>3, <2>1, <2>2, <2>3, BeginRequest DEF Create, Do
  <1>4. ASSUME NEW c \in Categories \cup {None}, NEW n \in 0..MaxImages,
               Update(r, p, c, n)
        PROVE  CatalogInv'
    <2>1. PICK q : q = [Idle EXCEPT !.pc = IF n = 0 THEN "saving" ELSE "uploading",
                          !.op = "update", !.product = p, !.category = c,
                          !.left = n, !.old = images[p]]
      OBVIOUS
    <2>2. /\ q \in Reqs /\ q.pc = IF n = 0 THEN "saving" ELSE "uploading"
          /\ q.op = "update" /\ q.product = p
          /\ q.left = n /\ q.uploaded = {} /\ q.old = images[p]
          /\ q.doomed = {} /\ ~q.lost
      <3>1. n \in Nat
        BY CatalogAssumption
      <3>2. CASE n = 0
        BY <1>2, <2>1, <3>1, <3>2 DEF Idle, Reqs, Points
      <3>3. CASE n # 0
        BY <1>2, <2>1, <3>1, <3>3 DEF Idle, Reqs, Points
      <3> QED
        BY <3>2, <3>3
    <2>3. ReqOK(q)
      BY <1>2, <2>2 DEF ReqOK, Uploads
    <2> QED
      BY <1>4, <2>1, <2>2, <2>3, BeginRequest DEF Update, Do
  <1>5. ASSUME Delete(r, p) PROVE CatalogInv'
    <2>1. PICK q : q = [Idle EXCEPT !.pc = "deleting", !.op = "delete", !.product = p,
                          !.old = images[p], !.doomed = images[p]]
      OBVIOUS
    <2>2. /\ q \in Reqs /\ q.pc = "deleting" /\ q.op = "delete" /\ q.product = p
          /\ q.uploaded = {} /\ q.old = images[p]
          /\ q.doomed = images[p] /\ ~q.lost
      BY <1>2, <2>1 DEF Idle, Reqs, Points
    <2>3. ReqOK(q)
      BY <1>2, <2>2 DEF ReqOK, Uploads
    <2> QED
      BY <1>5, <2>1, <2>2, <2>3, BeginRequest DEF Delete, Do
  <1> QED
    BY <1>1, <1>3, <1>4, <1>5

(* The statement is accepted: the uploaded images replace the others.      *)
LEMMA SaveStepOK ==
    ASSUME CatalogInv, NEW r \in Requests, Save(r), Accepted(r)
    PROVE  CatalogInv'
  <1>0. /\ TypeOK /\ req \in [Requests -> Reqs] /\ ReqOK(req[r])
        /\ req[r].pc = "saving" /\ req[r].product \in Products
        /\ req[r].op \in {"create", "update"}
        /\ category \in [Products -> Categories \cup {None, Gone}]
        /\ images \in [Products -> SUBSET Images]
    BY DEF CatalogInv, TypeOK, RequestsOK, Save, ReqOK, Uploads
  <1>1. PICK p \in Products : p = req[r].product
    BY <1>0
  <1>2. PICK q : q = [req[r] EXCEPT !.pc = "saved"]
    OBVIOUS
  <1>3. /\ q \in Reqs /\ q.pc = "saved"
        /\ q.uploaded = req[r].uploaded /\ q.op = req[r].op
        /\ q.product = p /\ q.old = req[r].old /\ q.lost = req[r].lost
        /\ q.category = req[r].category
    BY <1>0, <1>1, <1>2 DEF Reqs, Points
  <1>4. /\ req' = [req EXCEPT ![r] = q]
        /\ req'[r] = q /\ \A s \in Requests \ {r} : req'[s] = req[s]
    BY <1>0, <1>2 DEF Save, Do
  <1>5. /\ images'[p] = IF q.uploaded = {} THEN images[p] ELSE q.uploaded
        /\ \A o \in Products \ {p} : images'[o] = images[o]
        /\ \A o \in Products \ {p} : category'[o] = category[o]
        /\ category'[p] \in Categories
        /\ InCatalog(p) \/ q.uploaded # {}
        /\ category' \in [Products -> Categories \cup {None, Gone}]
        /\ images' \in [Products -> SUBSET Images]
        /\ UNCHANGED <<names, assets, issued, faults>>
    <2>1. /\ category' = [category EXCEPT ![p] =
                IF req[r].category = None THEN @ ELSE req[r].category]
          /\ images' = [images EXCEPT ![p] =
                IF req[r].uploaded = {} THEN @ ELSE req[r].uploaded]
          /\ UNCHANGED <<names, assets, issued, faults>>
      BY <1>1 DEF Save
    <2>2. /\ req[r].category \in Categories \cup {None}
          /\ req[r].uploaded \subseteq Images
      BY <1>0 DEF Reqs
    <2>3. /\ req[r].op = "create" => req[r].category # None
          /\ req[r].op = "update" => category[p] \in Categories
          /\ req[r].op = "create" => q.uploaded # {}
      BY <1>0, <1>1, <1>3, CatalogAssumption DEF ReqOK, Accepted, InCatalog
    <2> QED
      BY <1>0, <1>1, <1>3, <2>1, <2>2, <2>3 DEF InCatalog
  <1>6. TypeOK'
    <2>1. overtaken' \subseteq Images
      <3>1. overtaken' = overtaken \/ Overtake(r)
        BY DEF Save
      <3>2. overtaken \subseteq Images /\ images[p] \subseteq Images
        BY <1>0 DEF TypeOK
      <3> QED
        BY <1>1, <3>1, <3>2 DEF Overtake
    <2> QED
      BY <1>0, <1>3, <1>4, <1>5, <2>1 DEF TypeOK
  <1>7. RequestsOK'
    <2>1. ReqOK(q)'
      BY <1>0, <1>3, <1>5 DEF ReqOK, Uploads
    <2>2. ASSUME NEW s \in Requests, s # r PROVE ReqOK(req[s])'
      BY <1>4, <1>5, <2>2 DEF CatalogInv, RequestsOK, ReqOK
    <2> QED
      BY <1>4, <2>1, <2>2 DEF RequestsOK
  <1>8. OwnersOK'
    BY <1>3, <1>4 DEF CatalogInv, OwnersOK
  <1>9. ASSUME NEW i \in q.uploaded
        PROVE  /\ i \in issued
               /\ \A o \in Products : i \notin images[o]
               /\ \A s \in Requests \ {r} : i \notin req[s].uploaded
               /\ \A s \in Requests : i \notin req[s].old
    BY <1>0, <1>3, <1>9 DEF CatalogInv, RequestsOK, ReqOK, ShownOK, OldOK, OwnersOK,
                           Uploads
  <1>10. ShownOK'
    <2> SUFFICES ASSUME NEW o \in Products, NEW i \in images'[o]
                 PROVE  /\ i \in issued
                        /\ \A z \in Products : z # o => i \notin images'[z]
                        /\ \A s \in Requests : i \in (req[s].uploaded)' =>
                             /\ (req[s].product)' = o
                             /\ ~Uploads(req[s])'
                             /\ (req[s].pc)' \in {"undoing", "failed"} => (req[s].lost)'
      BY <1>5 DEF ShownOK
    <2>1. CASE i \in q.uploaded
      <3>1. o = p
        BY <1>5, <1>9, <2>1
      <3> QED
        BY <1>3, <1>4, <1>5, <1>9, <2>1, <3>1 DEF Uploads
    <2>2. CASE i \notin q.uploaded
      <3>1. i \in images[o] /\ \A z \in Products : z # o => i \notin images'[z]
        BY <1>5, <2>2 DEF CatalogInv, ShownOK
      <3> QED
        BY <1>3, <1>4, <1>5, <2>2, <3>1 DEF CatalogInv, ShownOK, Uploads
    <2> QED
      BY <2>1, <2>2
  <1>11. OldOK'
    <2> SUFFICES ASSUME NEW s \in Requests, NEW i \in (req[s].old)'
                 PROVE  /\ \A o \in Products : i \in images'[o] => o = (req[s].product)'
                        /\ \A t \in Requests :
                             i \in (req[t].uploaded)' => ~Uploads(req[t])'
                        /\ (req[s].pc)' \in {"saved", "cleaning"}
                           /\ (req[s].uploaded)' # {} =>
                             \A o \in Products : i \notin images'[o]
      BY DEF OldOK
    <2>1. i \in req[s].old /\ (req[s].product)' = req[s].product
      BY <1>1, <1>3, <1>4
    <2>2. i \notin q.uploaded
      BY <1>9, <2>1
    <2>3. \A o \in Products : i \in images'[o] => o = (req[s].product)'
      BY <1>5, <2>1, <2>2 DEF CatalogInv, OldOK
    <2>4. \A t \in Requests : i \in (req[t].uploaded)' => ~Uploads(req[t])'
      BY <1>3, <1>4, <2>1 DEF CatalogInv, OldOK, Uploads
    <2>5. ASSUME (req[s].pc)' \in {"saved", "cleaning"}, (req[s].uploaded)' # {}
          PROVE  \A o \in Products : i \notin images'[o]
      <3>1. CASE s = r
        BY <1>1, <1>3, <1>4, <1>5, <2>1, <2>2, <2>5, <3>1 DEF CatalogInv, OldOK
      <3>2. CASE s # r
        BY <1>4, <1>5, <2>1, <2>2, <2>5, <3>2 DEF CatalogInv, OldOK
      <3> QED
        BY <3>1, <3>2
    <2> QED
      BY <2>3, <2>4, <2>5
  <1>12. ImagesExist'
    <2> SUFFICES ASSUME NEW o \in Products, InCatalog(o)', ~Disturbed(o)'
                 PROVE  images'[o] # {} /\ images'[o] \subseteq assets
      BY <1>5 DEF ImagesExist
    <2>1. ~Disturbed(o)
      BY <1>1, <1>3, <1>4 DEF Disturbed
    <2>2. CASE o = p /\ q.uploaded # {}
      BY <1>0, <1>3, <1>5, <2>2 DEF ReqOK, Uploads
    <2>3. CASE ~(o = p /\ q.uploaded # {})
      <3>1. images'[o] = images[o] /\ InCatalog(o)
        BY <1>5, <2>3 DEF InCatalog
      <3> QED
        BY <2>1, <3>1 DEF CatalogInv, ImagesExist
    <2> QED
      BY <2>2, <2>3
  <1> QED
    BY <1>6, <1>7, <1>8, <1>10, <1>11, <1>12 DEF CatalogInv

(* A product is deleted, known to its deleter or not.                      *)
LEMMA RemoveSteps ==
    ASSUME CatalogInv, NEW r \in Requests,
           \/ DeleteProduct(r) /\ InCatalog(req[r].product)
           \/ DeleteProductFails(r)
    PROVE  CatalogInv'
  <1>0. /\ TypeOK /\ req \in [Requests -> Reqs] /\ ReqOK(req[r])
        /\ req[r].pc = "removing" /\ req[r].product \in Products
        /\ req[r].uploaded = {} /\ req[r].op = "delete"
        /\ category \in [Products -> Categories \cup {None, Gone}]
        /\ images \in [Products -> SUBSET Images]
    BY DEF CatalogInv, TypeOK, RequestsOK, DeleteProduct, DeleteProductFails, ReqOK
  <1>1. PICK p \in Products : p = req[r].product
    BY <1>0
  <1>2. PICK q : \/ /\ q = [req[r] EXCEPT !.pc = "ok"]
                    /\ DeleteProduct(r) /\ InCatalog(req[r].product)
                 \/ q = [req[r] EXCEPT !.pc = "failed"] /\ DeleteProductFails(r)
    OBVIOUS
  <1>3. /\ q \in Reqs /\ q.pc \in {"ok", "failed"} /\ ~q.lost
        /\ q.uploaded = {} /\ q.op = "delete"
        /\ q.product = p /\ q.old = req[r].old
    BY <1>0, <1>1, <1>2 DEF Reqs, Points, ReqOK
  <1>4. /\ req' = [req EXCEPT ![r] = q]
        /\ req'[r] = q /\ \A s \in Requests \ {r} : req'[s] = req[s]
    BY <1>0, <1>2 DEF DeleteProduct, DeleteProductFails, Do
  <1>5. /\ \A o \in Products : images'[o] \subseteq images[o]
        /\ \A o \in Products \ {p} : /\ images'[o] = images[o]
                                     /\ category'[o] = category[o]
        /\ category' \in [Products -> Categories \cup {None, Gone}]
        /\ images' \in [Products -> SUBSET Images]
        /\ UNCHANGED <<names, assets, issued>>
    BY <1>0, <1>1 DEF DeleteProduct, DeleteProductFails, Remove
  <1>6. faults' \in 0..MaxFaults
    <2>1. UNCHANGED faults \/ Fault
      BY DEF DeleteProduct, DeleteProductFails
    <2> QED
      BY <1>0, <2>1, CatalogAssumption DEF Fault, TypeOK
  <1>7. TypeOK'
    <2>1. overtaken' \subseteq Images
      <3>1. overtaken' = overtaken \/ Overtake(r)
        BY DEF DeleteProduct, DeleteProductFails, Remove
      <3>2. overtaken \subseteq Images /\ images[p] \subseteq Images
        BY <1>0 DEF TypeOK
      <3> QED
        BY <1>1, <3>1, <3>2 DEF Overtake
    <2> QED
      BY <1>0, <1>3, <1>4, <1>5, <1>6, <2>1 DEF TypeOK
  <1>8. RequestsOK'
    <2>1. ReqOK(q)'
      BY <1>0, <1>1, <1>3, <1>5 DEF ReqOK, Uploads
    <2>2. ASSUME NEW s \in Requests, s # r PROVE ReqOK(req[s])'
      BY <1>4, <1>5, <2>2 DEF CatalogInv, RequestsOK, ReqOK
    <2> QED
      BY <1>4, <2>1, <2>2 DEF RequestsOK
  <1>9. OwnersOK'
    BY <1>3, <1>4 DEF CatalogInv, OwnersOK
  <1>10. ShownOK'
    BY <1>3, <1>4, <1>5 DEF CatalogInv, ShownOK
  <1>11. OldOK'
    BY <1>0, <1>1, <1>3, <1>4, <1>5 DEF CatalogInv, OldOK, Uploads
  <1>12. ImagesExist'
    <2> SUFFICES ASSUME NEW o \in Products, InCatalog(o)', ~Disturbed(o)'
                 PROVE  images'[o] # {} /\ images'[o] \subseteq assets
      BY <1>5 DEF ImagesExist
    <2>1. o # p /\ ~Disturbed(o)
      BY <1>0, <1>1, <1>3, <1>4 DEF Disturbed
    <2>2. images'[o] = images[o] /\ InCatalog(o)
      BY <1>5, <2>1 DEF InCatalog
    <2> QED
      BY <2>1, <2>2 DEF CatalogInv, ImagesExist
  <1> QED
    BY <1>7, <1>8, <1>9, <1>10, <1>11, <1>12 DEF CatalogInv

LEMMA CrashStep ==
    ASSUME CatalogInv, Crash
    PROVE  CatalogInv'
  <1>0. /\ TypeOK /\ req \in [Requests -> Reqs]
        /\ UNCHANGED <<names, category, images, overtaken, assets, issued>>
    BY DEF CatalogInv, TypeOK, Crash
  <1>1. \A r \in Requests :
          \/ req'[r] = req[r] /\ req[r].pc \in {"idle", "ok", "failed"}
          \/ req'[r] = [req[r] EXCEPT !.pc = "crashed"] /\ req[r].pc # "idle"
    BY DEF Crash
  <1>2. \A r \in Requests :
          /\ req'[r] \in Reqs
          /\ req'[r] = req[r] \/ req'[r].pc = "crashed"
          /\ req'[r].pc = "idle" <=> req[r].pc = "idle"
          /\ req'[r].uploaded = req[r].uploaded /\ req'[r].old = req[r].old
          /\ req'[r].product = req[r].product /\ req'[r].op = req[r].op
          /\ req'[r].category = req[r].category /\ req'[r].lost = req[r].lost
    <2> SUFFICES ASSUME NEW r \in Requests
                 PROVE  /\ req'[r] \in Reqs
                        /\ req'[r] = req[r] \/ req'[r].pc = "crashed"
                        /\ req'[r].pc = "idle" <=> req[r].pc = "idle"
                        /\ req'[r].uploaded = req[r].uploaded
                        /\ req'[r].old = req[r].old
                        /\ req'[r].product = req[r].product
                        /\ req'[r].op = req[r].op
                        /\ req'[r].category = req[r].category
                        /\ req'[r].lost = req[r].lost
      OBVIOUS
    <2>1. CASE req'[r] = req[r]
      BY <1>0, <2>1
    <2>2. CASE req'[r] = [req[r] EXCEPT !.pc = "crashed"] /\ req[r].pc # "idle"
      BY <1>0, <2>2 DEF Reqs, Points
    <2> QED
      BY <1>1, <2>1, <2>2
  <1>3. TypeOK'
    <2>1. Fault
      BY DEF Crash
    <2>2. faults' \in 0..MaxFaults
      BY <1>0, <2>1, CatalogAssumption DEF Fault, TypeOK
    <2>3. req' \in [Requests -> Reqs]
      BY <1>2 DEF Crash
    <2> QED
      BY <1>0, <2>2, <2>3 DEF TypeOK
  <1>4. RequestsOK'
    <2> SUFFICES ASSUME NEW r \in Requests PROVE ReqOK(req[r])'
      BY DEF RequestsOK
    <2>1. CASE req'[r] = req[r]
      BY <1>0, <2>1 DEF CatalogInv, RequestsOK, ReqOK
    <2>2. CASE req'[r].pc = "crashed"
      BY <1>0, <1>2, <2>2 DEF CatalogInv, RequestsOK, ReqOK, Uploads
    <2> QED
      BY <1>2, <2>1, <2>2
  <1>5. OwnersOK'
    BY <1>2 DEF CatalogInv, OwnersOK
  <1>6. ShownOK'
    BY <1>0, <1>2 DEF CatalogInv, ShownOK, Uploads
  <1>7. OldOK'
    BY <1>0, <1>2 DEF CatalogInv, OldOK, Uploads
  <1>8. ImagesExist'
    BY <1>0, <1>2 DEF CatalogInv, ImagesExist, InCatalog, Disturbed
  <1> QED
    BY <1>3, <1>4, <1>5, <1>6, <1>7, <1>8 DEF CatalogInv

LEMMA CategorySteps ==
    ASSUME CatalogInv, NEW c \in Categories, CategoryStep(c)
    PROVE  CatalogInv'
  <1>1. /\ names' \in [Categories -> Names \cup {None, Gone}]
        /\ UNCHANGED <<category, images, overtaken, assets, issued, req, faults>>
    BY DEF CatalogInv, TypeOK, CategoryStep, CreateCategory, UpdateCategory,
           DeleteCategory
  <1> QED
    BY <1>1 DEF CatalogInv, TypeOK, RequestsOK, ReqOK, OwnersOK, ShownOK, OldOK,
                ImagesExist, InCatalog, Disturbed, Uploads

LEMMA Inductive == CatalogInv /\ [Next]_vars => CatalogInv'
  <1> SUFFICES ASSUME CatalogInv, [Next]_vars PROVE CatalogInv'
    OBVIOUS
  <1>1. CASE UNCHANGED vars
    BY <1>1 DEF vars, CatalogInv, TypeOK, RequestsOK, ReqOK, OwnersOK, ShownOK, OldOK,
                ImagesExist, InCatalog, Disturbed, Uploads
  <1>2. ASSUME NEW r \in Requests,
               BeginStep(r) \/ UploadStep(r) \/ SaveStep(r) \/ CleanStep(r)
        PROVE  CatalogInv'
    <2>1. CASE BeginStep(r)
      BY <2>1, BeginSteps
    <2>2. CASE UploadStep(r)
      BY <2>2, UploadSteps
    <2>3. CASE SaveStep(r)
      BY <2>3, SaveStepOK, UndoSteps, CleanSteps DEF SaveStep
    <2>4. CASE CleanStep(r)
      BY <2>4, CleanSteps, RemoveSteps DEF CleanStep
    <2> QED
      BY <1>2, <2>1, <2>2, <2>3, <2>4
  <1> QED
    BY <1>1, <1>2, CategorySteps, CrashStep DEF Next

(* Types, what requests know, whose images are whose, and that they exist. *)
THEOREM CatalogInvariant == Spec => []CatalogInv
  BY InitOK, Inductive, PTL DEF Spec

(* Products, images and requests stay within their states and points.      *)
THEOREM CatalogTypes == Spec => []TypeOK
  <1>1. CatalogInv => TypeOK
    BY DEF CatalogInv
  <1> QED
    BY <1>1, CatalogInvariant, PTL

(* A product that nobody deletes shows at least one image, and all of its  *)
(* images exist, for any number of overlapping updates and failures.       *)
THEOREM ShownImagesExist == Spec => []ImagesExist
  <1>1. CatalogInv => ImagesExist
    BY DEF CatalogInv
  <1> QED
    BY <1>1, CatalogInvariant, PTL

(* A failed request leaves none of its uploads that could be destroyed.    *)
THEOREM RejectedUploadsAreUndone == Spec => []RejectedLeavesNothing
  <1>1. CatalogInv => RejectedLeavesNothing
    BY DEF CatalogInv, RequestsOK, ReqOK, RejectedLeavesNothing
  <1> QED
    BY <1>1, CatalogInvariant, PTL

-----------------------------------------------------------------------------
(* Without failures nothing leaks                                          *)

(* The request will destroy the asset, or store it.                        *)
Keeps(q, i) ==
    \/ i \in q.uploaded /\ Uploads(q)
    \/ i \in q.uploaded /\ q.pc = "undoing" /\ i \in q.doomed
    \/ i \in q.old /\ q.pc = "saved" /\ q.op = "update" /\ q.uploaded # {}
    \/ i \in q.old /\ q.pc \in {"cleaning", "deleting"} /\ i \in q.doomed

KeptOK ==
    \A i \in assets \ overtaken :
      \/ \E p \in Products : i \in images[p]
      \/ \E r \in Requests : Keeps(req[r], i)

(* A deletion destroys all it has read before it removes the product.      *)
Destroys(q) ==
    /\ q.pc = "deleting" => q.old \cap assets \subseteq q.doomed
    /\ q.pc = "removing" => q.old \cap assets = {}

(* A product that is being created is nobody else's.                       *)
FreshOK ==
    /\ \A p \in Products : ~InCatalog(p) => images[p] = {}
    /\ \A r \in Requests : req[r].op = "create" /\ Uploads(req[r]) =>
         /\ ~InCatalog(req[r].product)
         /\ \A s \in Requests : req[s].product = req[r].product => s = r

LeakInv ==
    faults = 0 =>
      KeptOK /\ (\A r \in Requests : Destroys(req[r])) /\ FreshOK

Known == KeptOK /\ (\A r \in Requests : Destroys(req[r])) /\ FreshOK

LEMMA InitLeak == Init => Known
  <1> SUFFICES ASSUME Init PROVE Known
    OBVIOUS
  <1>1. KeptOK
    BY DEF Init, KeptOK
  <1>2. \A r \in Requests : Destroys(req[r])
    BY DEF Init, Destroys, Idle
  <1>3. FreshOK
    BY DEF Init, FreshOK, Idle
  <1> QED
    BY <1>1, <1>2, <1>3 DEF Known

(* A step of one request that leaves the database alone.                   *)
LEMMA LocalKnown ==
    ASSUME CatalogInv, Known, NEW r \in Requests, NEW q \in Reqs,
           req' = [req EXCEPT ![r] = q], UNCHANGED <<category, images, overtaken>>,
           req[r].pc # "idle",
           q.product = req[r].product, q.op = req[r].op, q.old = req[r].old,
           req[r].uploaded \subseteq q.uploaded,
           Uploads(q) => Uploads(req[r]),
           NEW new \in SUBSET Images, new \cap issued = {}, new \subseteq q.uploaded,
           assets' \subseteq assets \cup new,
           \A i \in assets' : i \in new \/ Keeps(req[r], i) => Keeps(q, i),
           Destroys(q)'
    PROVE  Known'
  <1>1. /\ req \in [Requests -> Reqs]
        /\ req'[r] = q /\ \A s \in Requests \ {r} : req'[s] = req[s]
    BY DEF CatalogInv, TypeOK
  <1>2. KeptOK'
    <2> SUFFICES ASSUME NEW i \in assets' \ overtaken'
                 PROVE  \/ \E p \in Products : i \in images'[p]
                        \/ \E s \in Requests : Keeps(req'[s], i)
      BY DEF KeptOK, Keeps, Uploads
    <2>1. CASE i \in new
      BY <1>1, <2>1
    <2>2. CASE i \notin new
      <3>1. \/ \E p \in Products : i \in images[p]
            \/ \E s \in Requests : Keeps(req[s], i)
        BY <2>2 DEF Known, KeptOK
      <3>2. ASSUME NEW s \in Requests, Keeps(req[s], i)
            PROVE  Keeps(req'[s], i)
        BY <1>1, <3>2
      <3> QED
        BY <3>1, <3>2
    <2> QED
      BY <2>1, <2>2
  <1>4. \A s \in Requests : Destroys(req[s])'
    <2> SUFFICES ASSUME NEW s \in Requests, s # r PROVE Destroys(req[s])'
      BY <1>1 DEF Destroys
    <2>1. req[s].old \subseteq issued /\ Destroys(req[s]) /\ req'[s] = req[s]
      BY <1>1 DEF CatalogInv, RequestsOK, ReqOK, Known
    <2> QED
      BY <2>1 DEF Destroys
  <1>5. FreshOK'
    BY <1>1 DEF Known, FreshOK, InCatalog, Uploads
  <1> QED
    BY <1>2, <1>4, <1>5 DEF Known

LEMMA UploadKnown ==
    ASSUME CatalogInv, Known, NEW r \in Requests, NEW i \in Images, UploadImage(r, i)
    PROVE  Known'
  <1>0. PICK q : q = [req[r] EXCEPT !.pc = IF req[r].left = 1 THEN "saving" ELSE @,
                                    !.left = @ - 1,
                                    !.uploaded = @ \cup {i}]
    OBVIOUS
  <1>1. /\ req[r] \in Reqs /\ req[r].pc = "uploading" /\ req[r].left # 0 /\ i \notin issued
        /\ req' = [req EXCEPT ![r] = q] /\ assets' = assets \cup {i}
        /\ UNCHANGED <<category, images, overtaken>>
    BY <1>0 DEF UploadImage, Do, CatalogInv, TypeOK, RequestsOK, ReqOK
  <1>2. /\ q \in Reqs /\ q.pc \in {"uploading", "saving"}
        /\ q.product = req[r].product /\ q.op = req[r].op /\ q.old = req[r].old
        /\ q.uploaded = req[r].uploaded \cup {i}
    <2>1. q.pc \in {"uploading", "saving"} /\ q.pc \in Points
      BY <1>0, <1>1 DEF Reqs, Points
    <2>2. q.left = req[r].left - 1 /\ q.left \in Nat
      BY <1>0, <1>1 DEF Reqs
    <2> QED
      BY <1>0, <1>1, <2>1, <2>2 DEF Reqs
  <1>3. Uploads(q) /\ Uploads(req[r])
    BY <1>1, <1>2 DEF Uploads
  <1>4. \A j \in assets' : j \in {i} \/ Keeps(req[r], j) => Keeps(q, j)
    BY <1>1, <1>2, <1>3 DEF Keeps
  <1>5. Destroys(q)'
    BY <1>2 DEF Destroys
  <1>6. PICK new \in SUBSET Images : new = {i}
    OBVIOUS
  <1>7. /\ new \cap issued = {} /\ new \subseteq q.uploaded
        /\ req[r].uploaded \subseteq q.uploaded /\ assets' \subseteq assets \cup new
        /\ \A j \in assets' : j \in new \/ Keeps(req[r], j) => Keeps(q, j)
        /\ req[r].pc # "idle" /\ q \in Reqs
    BY <1>1, <1>2, <1>4, <1>6
  <1> QED
    BY <1>1, <1>2, <1>3, <1>5, <1>7, LocalKnown

(* Steps that move on and destroy at most one asset.                       *)
LEMMA MoveKnown ==
    ASSUME CatalogInv, Known, NEW r \in Requests, NEW q \in Reqs,
           req' = [req EXCEPT ![r] = q], UNCHANGED <<category, images, overtaken>>,
           req[r].pc # "idle",
           q.product = req[r].product, q.op = req[r].op, q.old = req[r].old,
           q.uploaded = req[r].uploaded, ~Uploads(q), assets' \subseteq assets,
           \A i \in assets' : Keeps(req[r], i) => Keeps(q, i),
           Destroys(q)'
    PROVE  Known'
  <1>1. {} \in SUBSET Images /\ assets' \subseteq assets \cup {}
    OBVIOUS
  <1>2. \A i \in assets' : i \in {} \/ Keeps(req[r], i) => Keeps(q, i)
    OBVIOUS
  <1> QED
    BY <1>1, <1>2, LocalKnown

LEMMA SavedKnown ==
    ASSUME CatalogInv, Known, NEW r \in Requests, Saved(r)
    PROVE  Known'
  <1>1. /\ req[r] \in Reqs /\ req[r].pc = "saved"
        /\ UNCHANGED <<category, images, overtaken, assets>>
    BY DEF Saved, CatalogInv, TypeOK
  <1>2. CASE req[r].op = "update" /\ req[r].uploaded # {}
    <2>0. PICK q : q = [req[r] EXCEPT !.pc = "cleaning", !.doomed = req[r].old]
      OBVIOUS
    <2>1. req' = [req EXCEPT ![r] = q]
      BY <1>2, <2>0 DEF Saved, Do
    <2>2. /\ q \in Reqs /\ q.pc = "cleaning" /\ q.doomed = req[r].old
          /\ q.product = req[r].product /\ q.op = req[r].op /\ q.old = req[r].old
          /\ q.uploaded = req[r].uploaded
      BY <1>1, <2>0 DEF Reqs, Points
    <2>3. \A i \in assets' : Keeps(req[r], i) => Keeps(q, i)
      BY <1>1, <2>2 DEF Keeps, Uploads
    <2> QED
      BY <1>1, <2>1, <2>2, <2>3, MoveKnown DEF Uploads, Destroys
  <1>3. CASE ~(req[r].op = "update" /\ req[r].uploaded # {})
    <2>0. PICK q : q = [req[r] EXCEPT !.pc = "ok"]
      OBVIOUS
    <2>1. req' = [req EXCEPT ![r] = q]
      BY <1>3, <2>0 DEF Saved, Do
    <2>2. /\ q \in Reqs /\ q.pc = "ok"
          /\ q.product = req[r].product /\ q.op = req[r].op /\ q.old = req[r].old
          /\ q.uploaded = req[r].uploaded
      BY <1>1, <2>0 DEF Reqs, Points
    <2>3. \A i \in assets' : ~Keeps(req[r], i)
      BY <1>1, <1>3 DEF Keeps, Uploads
    <2> QED
      BY <1>1, <2>1, <2>2, <2>3, MoveKnown DEF Uploads, Destroys
  <1> QED
    BY <1>2, <1>3

LEMMA DeleteImageKnown ==
    ASSUME CatalogInv, Known, NEW r \in Requests, NEW i \in Images, DeleteImage(r, i)
    PROVE  Known'
  <1>0. PICK q : q = [req[r] EXCEPT !.doomed = @ \ {i}]
    OBVIOUS
  <1>1. /\ req[r] \in Reqs /\ req[r].pc \in {"cleaning", "undoing", "deleting"}
        /\ req' = [req EXCEPT ![r] = q] /\ assets' = assets \ {i}
        /\ UNCHANGED <<category, images, overtaken>>
    BY <1>0 DEF DeleteImage, IsCleaning, Do, CatalogInv, TypeOK
  <1>2. /\ q \in Reqs /\ q.pc = req[r].pc /\ q.doomed = req[r].doomed \ {i}
        /\ q.product = req[r].product /\ q.op = req[r].op /\ q.old = req[r].old
        /\ q.uploaded = req[r].uploaded
    BY <1>0, <1>1 DEF Reqs
  <1>3. \A j \in assets' : Keeps(req[r], j) => Keeps(q, j)
    BY <1>1, <1>2 DEF Keeps, Uploads
  <1>4. Destroys(q)'
    BY <1>1, <1>2 DEF Destroys, Known
  <1> QED
    BY <1>1, <1>2, <1>3, <1>4, MoveKnown DEF Uploads

LEMMA CleanedKnown ==
    ASSUME CatalogInv, Known, NEW r \in Requests, Cleaned(r)
    PROVE  Known'
  <1> DEFINE point == CASE req[r].pc = "cleaning" -> "ok"
                        [] req[r].pc = "undoing" -> "failed"
                        [] req[r].pc = "deleting" -> "removing"
  <1>0. PICK q : q = [req[r] EXCEPT !.pc = point]
    OBVIOUS
  <1>1. /\ req[r] \in Reqs /\ req[r].pc \in {"cleaning", "undoing", "deleting"}
        /\ req[r].doomed = {} /\ req' = [req EXCEPT ![r] = q]
        /\ UNCHANGED <<category, images, overtaken, assets>>
    BY <1>0 DEF Cleaned, IsCleaning, Do, CatalogInv, TypeOK
  <1>2. /\ point \in {"ok", "failed", "removing"}
        /\ point = "removing" => req[r].pc = "deleting"
    BY <1>1
  <1> HIDE DEF point
  <1>3. /\ q \in Reqs /\ q.pc = point
        /\ q.product = req[r].product /\ q.op = req[r].op /\ q.old = req[r].old
        /\ q.uploaded = req[r].uploaded
    BY <1>0, <1>1, <1>2 DEF Reqs, Points
  <1>4. \A j \in assets' : ~Keeps(req[r], j)
    BY <1>1 DEF Keeps, Uploads
  <1>5. Destroys(q)'
    BY <1>1, <1>2, <1>3 DEF Destroys, Known
  <1> QED
    BY <1>1, <1>2, <1>3, <1>4, <1>5, MoveKnown DEF Uploads

(* A refused statement sends the request to its catch block.               *)
LEMMA RefusedKnown ==
    ASSUME CatalogInv, Known, NEW r \in Requests, Save(r), ~Accepted(r)
    PROVE  Known'
  <1>0. PICK q : q = [req[r] EXCEPT !.pc = "undoing", !.doomed = req[r].uploaded]
    OBVIOUS
  <1>1. /\ req[r] \in Reqs /\ req[r].pc = "saving" /\ req' = [req EXCEPT ![r] = q]
        /\ UNCHANGED <<category, images, overtaken, assets>>
    BY <1>0 DEF Save, Undo, Do, CatalogInv, TypeOK
  <1>2. /\ q \in Reqs /\ q.pc = "undoing" /\ q.doomed = req[r].uploaded
        /\ q.product = req[r].product /\ q.op = req[r].op /\ q.old = req[r].old
        /\ q.uploaded = req[r].uploaded
    BY <1>0, <1>1 DEF Reqs, Points
  <1>3. \A j \in assets' : Keeps(req[r], j) => Keeps(q, j)
    BY <1>1, <1>2 DEF Keeps, Uploads
  <1> QED
    BY <1>1, <1>2, <1>3, MoveKnown DEF Uploads, Destroys

LEMMA BeginKnown ==
    ASSUME CatalogInv, Known, NEW r \in Requests, NEW q \in Reqs,
           req' = [req EXCEPT ![r] = q], UNCHANGED <<category, images, overtaken, assets>>,
           req[r].pc = "idle", q.uploaded = {},
           \/ /\ q.op \in {"update", "delete"} /\ InCatalog(q.product)
              /\ q.old = images[q.product]
              /\ q.pc \in {"uploading", "saving", "deleting"}
              /\ q.pc = "deleting" => q.doomed = q.old
           \/ /\ q.op = "create" /\ category[q.product] = None /\ q.pc = "uploading"
              /\ \A s \in Requests : req[s].product # q.product
    PROVE  Known'
  <1>1. /\ req \in [Requests -> Reqs]
        /\ req'[r] = q /\ \A s \in Requests \ {r} : req'[s] = req[s]
        /\ req[r].uploaded = {} /\ req[r].op = "none"
    BY DEF CatalogInv, TypeOK, RequestsOK, ReqOK
  <1>2. KeptOK'
    <2> SUFFICES ASSUME NEW i \in assets \ overtaken'
                 PROVE  \/ \E p \in Products : i \in images'[p]
                        \/ \E s \in Requests : Keeps(req'[s], i)
      BY DEF KeptOK, Keeps, Uploads
    <2>1. \/ \E p \in Products : i \in images[p]
          \/ \E s \in Requests : Keeps(req[s], i)
      BY DEF Known, KeptOK
    <2>2. ASSUME NEW s \in Requests, Keeps(req[s], i)
          PROVE  Keeps(req'[s], i)
      <3>1. s # r
        BY <1>1, <2>2 DEF Keeps, Uploads
      <3> QED
        BY <1>1, <2>2, <3>1
    <2> QED
      BY <2>1, <2>2
  <1>4. \A s \in Requests : Destroys(req[s])'
    BY <1>1 DEF Known, Destroys
  <1>5. FreshOK'
    BY <1>1, CatalogAssumption DEF Known, FreshOK, InCatalog, Uploads
  <1> QED
    BY <1>2, <1>4, <1>5 DEF Known

LEMMA BeginStepKnown ==
    ASSUME CatalogInv, Known, NEW r \in Requests, BeginStep(r)
    PROVE  Known'
  <1>1. ASSUME NEW p \in Products, NEW c \in Categories, NEW n \in 1..MaxImages,
               Create(r, p, c, n)
        PROVE  Known'
    <2>1. PICK q : q = [Idle EXCEPT !.pc = "uploading", !.op = "create", !.product = p,
                                    !.category = c, !.left = n]
      OBVIOUS
    <2>2. /\ q \in Reqs /\ q.pc = "uploading" /\ q.op = "create" /\ q.product = p
          /\ q.uploaded = {}
      <3>1. n \in Nat
        BY CatalogAssumption
      <3> QED
        BY <2>1, <3>1 DEF Idle, Reqs, Points
    <2> QED
      BY <1>1, <2>1, <2>2, BeginKnown DEF Create, Do
  <1>2. ASSUME NEW p \in Products, NEW c \in Categories \cup {None},
               NEW n \in 0..MaxImages, Update(r, p, c, n)
        PROVE  Known'
    <2> DEFINE point == IF n = 0 THEN "saving" ELSE "uploading"
    <2>1. PICK q : q = [Idle EXCEPT !.pc = point, !.op = "update", !.product = p,
                                    !.category = c, !.left = n, !.old = images[p]]
      OBVIOUS
    <2>2. req' = [req EXCEPT ![r] = q]
      BY <1>2, <2>1 DEF Update, Do
    <2>3. point \in {"saving", "uploading"} /\ images[p] \in SUBSET Images
      BY DEF CatalogInv, TypeOK
    <2> HIDE DEF point
    <2>4. /\ q \in Reqs /\ q.pc = point /\ q.op = "update" /\ q.product = p
          /\ q.uploaded = {} /\ q.old = images[p]
      <3>1. n \in Nat
        BY CatalogAssumption
      <3> QED
        BY <2>1, <2>3, <3>1 DEF Idle, Reqs, Points
    <2> QED
      BY <1>2, <2>2, <2>3, <2>4, BeginKnown DEF Update
  <1>3. ASSUME NEW p \in Products, Delete(r, p) PROVE Known'
    <2>1. PICK q : q = [Idle EXCEPT !.pc = "deleting", !.op = "delete", !.product = p,
                                    !.old = images[p], !.doomed = images[p]]
      OBVIOUS
    <2>2. images[p] \in SUBSET Images
      BY DEF CatalogInv, TypeOK
    <2>3. /\ q \in Reqs /\ q.pc = "deleting" /\ q.op = "delete" /\ q.product = p
          /\ q.uploaded = {} /\ q.old = images[p] /\ q.doomed = images[p]
      BY <2>1, <2>2 DEF Idle, Reqs, Points
    <2> QED
      BY <1>3, <2>1, <2>3, BeginKnown DEF Delete, Do
  <1> QED
    BY <1>1, <1>2, <1>3 DEF BeginStep

LEMMA AcceptedKnown ==
    ASSUME CatalogInv, Known, NEW r \in Requests, Save(r), Accepted(r)
    PROVE  Known'
  <1> DEFINE p == req[r].product
  <1>0. PICK q : q = [req[r] EXCEPT !.pc = "saved"]
    OBVIOUS
  <1>1. /\ req[r] \in Reqs /\ req[r].pc = "saving" /\ req' = [req EXCEPT ![r] = q]
        /\ p \in Products /\ req[r].op \in {"create", "update"}
        /\ req[r].op = "create" => req[r].uploaded # {} /\ req[r].category \in Categories
        /\ category' = [category EXCEPT ![p] =
                          IF req[r].category = None THEN @ ELSE req[r].category]
        /\ images' = [images EXCEPT ![p] =
                          IF req[r].uploaded = {} THEN @ ELSE req[r].uploaded]
        /\ overtaken' = overtaken \cup
                          IF req[r].uploaded = {} THEN {} ELSE images[p] \ req[r].old
        /\ UNCHANGED assets
    BY <1>0 DEF Save, Overtake, Do, CatalogInv, TypeOK, RequestsOK, ReqOK, Uploads
  <1>2. /\ q \in Reqs /\ q.pc = "saved" /\ q.op = req[r].op /\ q.product = p
        /\ q.old = req[r].old /\ q.uploaded = req[r].uploaded
    BY <1>0, <1>1 DEF Reqs, Points
  <1>3. /\ req \in [Requests -> Reqs]
        /\ req'[r] = q /\ \A s \in Requests \ {r} : req'[s] = req[s]
    BY <1>1 DEF CatalogInv, TypeOK
  <1>4. /\ \A o \in Products \ {p} : images'[o] = images[o] /\ category'[o] = category[o]
        /\ images'[p] = IF req[r].uploaded = {} THEN images[p] ELSE req[r].uploaded
        /\ category'[p] \in Categories
    BY <1>1, CatalogAssumption DEF CatalogInv, TypeOK, Reqs, Accepted, InCatalog
  <1>5. KeptOK'
    <2> SUFFICES ASSUME NEW i \in assets \ overtaken'
                 PROVE  \/ \E o \in Products : i \in images'[o]
                        \/ \E s \in Requests : Keeps(req'[s], i)
      BY <1>1 DEF KeptOK, Keeps, Uploads
    <2>2. CASE \E o \in Products : i \in images[o] /\ (o # p \/ req[r].uploaded = {})
      BY <1>4, <2>2
    <2>3. CASE i \in images[p] /\ req[r].uploaded # {}
      <3>1. req[r].op = "update"
        BY <1>1, <2>3 DEF Known, FreshOK, Uploads
      <3>2. i \in req[r].old
        BY <1>1, <2>3
      <3>3. Keeps(q, i)
        BY <1>2, <2>3, <3>1, <3>2 DEF Keeps
      <3> QED
        BY <1>3, <3>3
    <2>4. CASE Keeps(req[r], i)
      <3>1. i \in req[r].uploaded
        BY <1>1, <2>4 DEF Keeps, Uploads
      <3> QED
        BY <1>1, <1>4, <3>1
    <2>5. CASE \E s \in Requests \ {r} : Keeps(req[s], i)
      BY <1>3, <2>5
    <2>6. i \notin overtaken
      BY <1>1
    <2> QED
      BY <2>2, <2>3, <2>4, <2>5, <2>6 DEF Known, KeptOK
  <1>7. \A s \in Requests : Destroys(req[s])'
    BY <1>1, <1>2, <1>3 DEF Known, Destroys
  <1>8. FreshOK'
    <2>1. \A o \in Products : ~InCatalog(o)' => o # p /\ ~InCatalog(o)
      BY <1>4 DEF InCatalog
    <2>2. \A s \in Requests : /\ req'[s].product = req[s].product /\ req'[s].op = req[s].op
                              /\ Uploads(req'[s]) => s # r /\ req'[s] = req[s]
      BY <1>2, <1>3 DEF Uploads
    <2>3. ASSUME NEW s \in Requests, req'[s].op = "create", Uploads(req'[s])
          PROVE  /\ ~InCatalog(req[s].product)'
                 /\ \A t \in Requests : req'[t].product = req'[s].product => t = s
      <3>1. s # r /\ req'[s] = req[s]
        BY <2>2, <2>3
      <3>2. /\ ~InCatalog(req[s].product)
            /\ \A t \in Requests : req[t].product = req[s].product => t = s
        BY <2>3, <3>1 DEF Known, FreshOK
      <3>3. req[s].product # p /\ req[s].product \in Products
        BY <2>3, <3>1, <3>2 DEF CatalogInv, RequestsOK, ReqOK, Uploads
      <3>4. category'[req[s].product] \notin Categories
        BY <1>4, <3>2, <3>3 DEF InCatalog
      <3> QED
        BY <2>2, <3>1, <3>2, <3>4 DEF InCatalog
    <2>4. \A o \in Products : ~InCatalog(o)' => images'[o] = {}
      BY <1>4, <2>1 DEF Known, FreshOK
    <2> QED
      BY <2>3, <2>4 DEF FreshOK, InCatalog, Uploads
  <1> QED
    BY <1>5, <1>7, <1>8 DEF Known

LEMMA DeleteProductKnown ==
    ASSUME CatalogInv, Known, NEW r \in Requests, DeleteProduct(r)
    PROVE  Known'
  <1> DEFINE p == req[r].product
             point == IF InCatalog(p) THEN "ok" ELSE "failed"
  <1>0. PICK q : q = [req[r] EXCEPT !.pc = point]
    OBVIOUS
  <1>1. /\ req[r] \in Reqs /\ req[r].pc = "removing" /\ req' = [req EXCEPT ![r] = q]
        /\ p \in Products /\ req[r].op = "delete" /\ req[r].uploaded = {}
        /\ UNCHANGED assets /\ Destroys(req[r])
    BY <1>0 DEF DeleteProduct, Do, CatalogInv, TypeOK, RequestsOK, ReqOK, Known
  <1>2. point \in {"ok", "failed"}
    OBVIOUS
  <1> HIDE DEF point
  <1>3. /\ q \in Reqs /\ q.pc \in {"ok", "failed"} /\ q.op = req[r].op /\ q.product = p
        /\ q.old = req[r].old /\ q.uploaded = req[r].uploaded
    BY <1>0, <1>1, <1>2 DEF Reqs, Points
  <1>4. \A i \in assets' : ~Keeps(req[r], i)
    BY <1>1 DEF Keeps, Uploads
  <1>5. CASE ~InCatalog(p)
    <2>1. UNCHANGED <<category, images, overtaken>>
      BY <1>5 DEF DeleteProduct
    <2> QED
      BY <1>1, <1>3, <1>4, <2>1, MoveKnown DEF Uploads, Destroys
  <1>6. CASE InCatalog(p)
    <2>1. /\ \A o \in Products \ {p} : images'[o] = images[o] /\ category'[o] = category[o]
          /\ images'[p] = {} /\ category'[p] = Gone
          /\ overtaken' = overtaken \cup (images[p] \ req[r].old)
      BY <1>1, <1>6 DEF DeleteProduct, Remove, Overtake, CatalogInv, TypeOK
    <2>2. /\ req \in [Requests -> Reqs]
          /\ req'[r] = q /\ \A s \in Requests \ {r} : req'[s] = req[s]
      BY <1>1 DEF CatalogInv, TypeOK
    <2>3. KeptOK'
      <3> SUFFICES ASSUME NEW i \in assets \ overtaken'
                   PROVE  \/ \E o \in Products : i \in images'[o]
                          \/ \E s \in Requests : Keeps(req'[s], i)
        BY <1>1 DEF KeptOK, Keeps, Uploads
      <3>1. i \notin overtaken
        BY <2>1
      <3>2. i \notin images[p]
        BY <1>1, <2>1 DEF Destroys
      <3>3. CASE \E s \in Requests : Keeps(req[s], i)
        BY <1>1, <1>4, <2>2, <3>3
      <3>4. CASE \E o \in Products \ {p} : i \in images[o]
        BY <2>1, <3>4
      <3> QED
        BY <3>1, <3>2, <3>3, <3>4 DEF Known, KeptOK
    <2>5. \A s \in Requests : Destroys(req[s])'
      BY <1>1, <1>3, <2>2 DEF Known, Destroys
    <2>6. FreshOK'
      <3>1. \A o \in Products : InCatalog(o)' => InCatalog(o)
        BY <2>1, CatalogAssumption DEF InCatalog
      <3>2. \A o \in Products : ~InCatalog(o)' => images'[o] = {}
        BY <2>1 DEF Known, FreshOK, InCatalog
      <3>3. \A s \in Requests : /\ req'[s].product = req[s].product
                                /\ req'[s].op = req[s].op
                                /\ Uploads(req'[s]) => Uploads(req[s])
        BY <1>3, <2>2 DEF Uploads
      <3>4. \A s \in Requests : Uploads(req[s]) => req[s].product \in Products
        BY DEF CatalogInv, RequestsOK, ReqOK, Uploads
      <3>5. ASSUME NEW s \in Requests, req'[s].op = "create", Uploads(req'[s])
            PROVE  /\ ~InCatalog(req[s].product)'
                   /\ \A t \in Requests : req'[t].product = req'[s].product => t = s
        <4>1. /\ ~InCatalog(req[s].product) /\ req[s].product \in Products
              /\ \A t \in Requests : req[t].product = req[s].product => t = s
          BY <3>3, <3>4, <3>5 DEF Known, FreshOK
        <4>2. category'[req[s].product] \notin Categories
          BY <2>1, <4>1, CatalogAssumption DEF InCatalog
        <4> QED
          BY <3>3, <4>1, <4>2 DEF InCatalog
      <3> QED
        BY <3>2, <3>5 DEF FreshOK, InCatalog, Uploads
    <2> QED
      BY <2>3, <2>5, <2>6 DEF Known
  <1> QED
    BY <1>5, <1>6

LEMMA SameKnown ==
    ASSUME Known, UNCHANGED <<category, images, overtaken, assets, req>>
    PROVE  Known'
  <1> QED
    BY DEF Known, KeptOK, Destroys, FreshOK, InCatalog, Uploads, Keeps

(* A step that is not a failure keeps what is known.                       *)
LEMMA NextLeak == CatalogInv /\ LeakInv /\ [Next]_vars => LeakInv'
  <1> SUFFICES ASSUME CatalogInv, LeakInv, [Next]_vars, faults' = 0 PROVE Known'
    BY DEF LeakInv, Known
  <1>1. faults \in Nat /\ ~Fault
    BY CatalogAssumption DEF CatalogInv, TypeOK, Fault
  <1>2. CASE faults # 0
    <2>1. UNCHANGED faults
      BY <1>1 DEF Next, vars, BeginStep, Create, Update, Delete, UploadStep, UploadImage,
                  UploadFails, SaveStep, Save, Saved, SaveFails, CleanStep, DeleteImage,
                  DeleteImageFails, Cleaned, DeleteProduct, DeleteProductFails,
                  CategoryStep, CreateCategory, UpdateCategory, DeleteCategory, Crash
    <2> QED
      BY <1>2, <2>1
  <1>3. CASE faults = 0
    <2>1. Known
      BY <1>3 DEF LeakInv, Known
    <2>2. CASE UNCHANGED vars
      BY <2>1, <2>2, SameKnown DEF vars
    <2>3. ASSUME NEW c \in Categories, CategoryStep(c) PROVE Known'
      BY <2>1, <2>3, SameKnown DEF CategoryStep, CreateCategory, UpdateCategory, DeleteCategory
    <2>4. ASSUME NEW r \in Requests, UploadStep(r) PROVE Known'
      BY <1>1, <2>1, <2>4, UploadKnown DEF UploadStep, UploadFails
    <2>5. ASSUME NEW r \in Requests, SaveStep(r) PROVE Known'
      BY <1>1, <2>1, <2>5, AcceptedKnown, RefusedKnown, SavedKnown DEF SaveStep, SaveFails
    <2>6. ASSUME NEW r \in Requests, CleanStep(r) PROVE Known'
      BY <1>1, <2>1, <2>6, DeleteImageKnown, CleanedKnown, DeleteProductKnown
      DEF CleanStep, DeleteImageFails, DeleteProductFails
    <2>7. ~Crash
      BY <1>1 DEF Crash
    <2> QED
      BY <2>1, <2>2, <2>3, <2>4, <2>5, <2>6, <2>7, BeginStepKnown DEF Next
  <1> QED
    BY <1>2, <1>3

(* Without failures an asset is an image of a product, or in the hands of  *)
(* a request, or was stored behind the back of another editor of the       *)
(* product, for any number of overlapping creations, updates and           *)
(* deletions.                                                              *)
THEOREM AssetsDoNotLeak == Spec => []NothingLeaks
  <1>1. Init => LeakInv
    BY InitLeak DEF LeakInv, Known
  <1>2. LeakInv => NothingLeaks
    BY DEF LeakInv, KeptOK, Keeps, NothingLeaks, Active, Uploads
  <1> QED
    BY <1>1, <1>2, NextLeak, CatalogInvariant, PTL DEF Spec
=============================================================================

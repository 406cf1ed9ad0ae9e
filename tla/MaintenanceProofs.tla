------------------------- MODULE MaintenanceProofs -------------------------
(***************************************************************************)
(* Proofs about Maintenance: the cleanup is atomic and leaves no orphans,  *)
(* and a run of the seed that ends well has stored what it lists, whatever *)
(* customers, checkouts and the administrator do between its statements.   *)
(***************************************************************************)
EXTENDS Maintenance, TLAPS

-----------------------------------------------------------------------------
(* The inductive invariant                                                 *)

Deleting == {"picking", "deleting", "committing"}

(* What the script knows at each point.                                    *)
RunOK ==
    /\ run.pc \in SeedPoints => run.kind = "seed"
    /\ run.pc \in CleanPoints => run.kind = "clean"
    /\ run.pc = "categories" => run.todo = SeedProducts
    /\ run.pc \in {"products", "images", "image"} =>
         \A n \in SeedNames : run.found[n] \in Categories
    /\ run.pc \in {"images", "image"} => run.at \in run.todo
    /\ run.kind = "seed" => run.todo \subseteq SeedProducts
    /\ run.kind = "seed" /\ run.pc = "done" => run.todo = {}
    /\ run.pc \in {"deleting items", "deleting images"} => run.todo = run.ids
    /\ run.pc \in Deleting => run.todo \subseteq run.ids
    /\ run.pc = "deleting" => run.at \in run.ids
    /\ run.pc = "committing" => run.todo = {}

(* A product whose row the cleanup has locked is there to be deleted.      *)
LocksOK ==
    \A p \in Products :
      rowLock[p] = Script => InCatalog(p) /\ p \in run.ids /\ run.pc \in Deleting

(* A product on the list is still to come, locked, or gone for good.       *)
CleanOK ==
    run.pc \in Deleting =>
      \A p \in run.ids :
        \/ p \in run.todo
        \/ run.pc = "deleting" /\ p = run.at
        \/ rowLock[p] = Script
        \/ ~InCatalog(p)

InSync(p) ==
    /\ category[p] = run.found[SeedName[p]]
    /\ images[p] = [seeded |-> 1, own |-> FALSE]

(* What the seed has done so far, but for products that were edited since. *)
SeedOK ==
    run.kind = "seed" /\ run.pc \in {"products", "images", "image", "done"} =>
      \A p \in SeedProducts \ edited :
        /\ p \notin run.todo => InSync(p)
        /\ run.pc \in {"images", "image"} /\ p = run.at =>
             category[p] = run.found[SeedName[p]]
        /\ run.pc = "image" /\ p = run.at => images[p] = NoImages

MaintenanceInv == TypeOK /\ NoOrphans /\ RunOK /\ LocksOK /\ CleanOK /\ SeedOK

-----------------------------------------------------------------------------
(* Facts about the helpers                                                 *)

LEMMA ScriptIsSomebody == Script # None /\ Script \notin Checkouts /\ None \notin Checkouts
  <1> QED
    BY MaintenanceAssumption

LEMMA IdsAreNotMarks == None \notin Categories /\ Gone \notin Categories
                        /\ None \notin Names /\ Gone \notin Names
                        /\ None \notin Products
  <1> QED
    BY MaintenanceAssumption

LEMMA NoImagesType == NoImages \in Images
  <1> QED
    BY DEF NoImages, Images

LEMMA OwnImages ==
    ASSUME NEW b \in BOOLEAN
    PROVE  /\ [NoImages EXCEPT !.own = b] = [seeded |-> 0, own |-> b]
           /\ [NoImages EXCEPT !.own = b] \in Images
  <1> QED
    BY DEF NoImages, Images

LEMMA OneImage ==
    [NoImages EXCEPT !.seeded = @ + 1] = [seeded |-> 1, own |-> FALSE]
  <1>1. [NoImages EXCEPT !.seeded = @ + 1] = [NoImages EXCEPT !.seeded = 1]
    <2>1. NoImages.seeded + 1 = 1
      BY DEF NoImages
    <2> QED
      BY <2>1
  <1>2. [NoImages EXCEPT !.seeded = 1] = [seeded |-> 1, own |-> FALSE]
    <2>1. \A b : [[seeded |-> 0, own |-> b] EXCEPT !.seeded = 1] = [seeded |-> 1, own |-> b]
      OBVIOUS
    <2> QED
      BY <2>1, Zenon DEF NoImages
  <1> QED
    BY <1>1, <1>2

(* Unlocking gives rows back and takes none.                               *)
LEMMA UnlockType ==
    ASSUME TypeOK, NEW x
    PROVE  /\ Unlock(x) \in [Products -> Checkouts \cup {Script, None}]
           /\ \A p \in Products : Unlock(x)[p] = Script => rowLock[p] = Script /\ x # Script
           /\ x # Script =>
                \A p \in Products : rowLock[p] = Script => Unlock(x)[p] = Script
  <1> QED
    BY ScriptIsSomebody DEF TypeOK, Unlock

(* Taking items away, or images, or nothing, leaves no orphans.            *)
LEMMA FewerItems ==
    ASSUME NoOrphans, items' \subseteq items, UNCHANGED <<names, category, images>>
    PROVE  NoOrphans'
  <1>1. \A p \in Products : ItemsIn({p})' \subseteq ItemsIn({p})
    BY DEF ItemsIn
  <1> QED
    BY <1>1 DEF NoOrphans, InCatalog, IsCategory, NoImages

(* Steps that are not the script's do not disturb what it knows.           *)
LEMMA SameRun ==
    ASSUME MaintenanceInv, UNCHANGED run
    PROVE  RunOK'
  <1> QED
    BY DEF MaintenanceInv, RunOK, SeedNames, SeedPoints, CleanPoints, Deleting

LEMMA SameLocks ==
    ASSUME MaintenanceInv, UNCHANGED <<run, category>>,
           \A p \in Products : rowLock'[p] = Script <=> rowLock[p] = Script
    PROVE  LocksOK' /\ CleanOK'
  <1>1. run.ids \subseteq Products
    BY DEF MaintenanceInv, TypeOK, Runs
  <1> QED
    BY <1>1 DEF MaintenanceInv, LocksOK, CleanOK, InCatalog, Deleting

LEMMA SameProducts ==
    ASSUME MaintenanceInv, UNCHANGED <<run, category, images, edited>>
    PROVE  SeedOK'
  <1> QED
    BY DEF MaintenanceInv, SeedOK, InSync, NoImages

(* The end of a script.                                                    *)
LEMMA EndRunInv ==
    ASSUME MaintenanceInv, NEW outcome \in {"done", "failed"}, EndRun(outcome),
           outcome = "done" => run.kind = "clean"
    PROVE  /\ run' \in Runs /\ rowLock' \in [Products -> Checkouts \cup {Script, None}]
           /\ RunOK' /\ LocksOK' /\ CleanOK' /\ SeedOK'
           /\ run'.pc = outcome
  <1>1. run \in Runs /\ run' = [run EXCEPT !.pc = outcome, !.held = {}]
    BY DEF MaintenanceInv, TypeOK, EndRun
  <1>2. run' \in Runs /\ run'.pc = outcome /\ run'.kind = run.kind /\ run'.todo = run.todo
    BY <1>1 DEF Runs
  <1>3. rowLock' = Unlock(Script)
    BY DEF EndRun
  <1>4. /\ rowLock' \in [Products -> Checkouts \cup {Script, None}]
        /\ \A p \in Products : rowLock'[p] # Script
    BY <1>3, UnlockType DEF MaintenanceInv
  <1>5. RunOK'
    BY <1>2 DEF MaintenanceInv, RunOK, SeedPoints, CleanPoints, Deleting
  <1>6. LocksOK' /\ CleanOK'
    BY <1>2, <1>4 DEF LocksOK, CleanOK, Deleting
  <1>7. SeedOK'
    BY <1>2 DEF SeedOK
  <1> QED
    BY <1>2, <1>4, <1>5, <1>6, <1>7

-----------------------------------------------------------------------------
LEMMA InitInv == Init => MaintenanceInv
  <1> SUFFICES ASSUME Init PROVE MaintenanceInv
    OBVIOUS
  <1>1. run \in Runs /\ run.pc = "idle" /\ run.kind = "none"
    BY DEF Init, NoRun, Runs
  <1>2. TypeOK
    <2>1. images \in [Products -> Images]
      <3>1. \A p \in Products : [NoImages EXCEPT !.own = InCatalog(p)] \in Images
        <4> SUFFICES ASSUME NEW p \in Products
                     PROVE  [NoImages EXCEPT !.own = InCatalog(p)] \in Images
          OBVIOUS
        <4>1. InCatalog(p) \in BOOLEAN
          BY DEF InCatalog
        <4> HIDE DEF InCatalog
        <4> QED
          BY <4>1, OwnImages
      <3> QED
        BY <3>1, Zenon DEF Init
    <2>2. tx \in [Checkouts -> Txs]
      BY DEF Init, Txs, CheckoutPoints
    <2>3. items \subseteq Users \X Products
      BY DEF Init
    <2> QED
      BY <1>1, <2>1, <2>2, <2>3, MaintenanceAssumption DEF Init, TypeOK
  <1>3. NoOrphans
    <2>1. ASSUME NEW p \in Products, ~InCatalog(p)
          PROVE  images[p] = NoImages /\ ItemsIn({p}) = {}
      <3>1. images[p] = NoImages
        <4> DEFINE b == InCatalog(p)
        <4>1. b = FALSE
          BY <2>1 DEF InCatalog
        <4>2. images[p] = [NoImages EXCEPT !.own = b]
          BY Zenon DEF Init
        <4> HIDE DEF b
        <4> QED
          BY <4>1, <4>2 DEF NoImages
      <3>2. \A i \in items : InCatalog(i[2])
        BY DEF Init
      <3> QED
        BY <2>1, <3>1, <3>2 DEF ItemsIn
    <2> QED
      BY <2>1 DEF Init, NoOrphans
  <1>4. RunOK /\ CleanOK /\ SeedOK
    BY <1>1 DEF RunOK, CleanOK, SeedOK, SeedPoints, CleanPoints, Deleting
  <1>5. LocksOK
    BY ScriptIsSomebody DEF Init, LocksOK
  <1> QED
    BY <1>2, <1>3, <1>4, <1>5 DEF MaintenanceInv

-----------------------------------------------------------------------------
(* Checkouts                                                               *)

LEMMA EndCheckoutInv ==
    ASSUME MaintenanceInv, NEW k \in Checkouts, EndCheckout(k),
           items' \subseteq items, UNCHANGED <<names, category, images, run, edited, bounds>>
    PROVE  MaintenanceInv'
  <1>1. tx' \in [Checkouts -> Txs]
    BY DEF EndCheckout, MaintenanceInv, TypeOK, Txs, CheckoutPoints
  <1>2. /\ rowLock' \in [Products -> Checkouts \cup {Script, None}]
        /\ \A p \in Products : rowLock'[p] = Script <=> rowLock[p] = Script
    BY UnlockType, ScriptIsSomebody DEF EndCheckout, MaintenanceInv
  <1>3. TypeOK'
    BY <1>1, <1>2 DEF MaintenanceInv, TypeOK, bounds
  <1>4. NoOrphans'
    BY FewerItems DEF MaintenanceInv
  <1> QED
    BY <1>2, <1>3, <1>4, SameRun, SameLocks, SameProducts DEF MaintenanceInv

(* A checkout that goes on, with locks of its own.                         *)
LEMMA CheckoutGoesOn ==
    ASSUME MaintenanceInv, tx' \in [Checkouts -> Txs],
           rowLock' \in [Products -> Checkouts \cup {Script, None}],
           \A p \in Products : rowLock'[p] = Script <=> rowLock[p] = Script,
           UNCHANGED <<shop, run, edited, bounds>>
    PROVE  MaintenanceInv'
  <1>1. TypeOK'
    BY DEF MaintenanceInv, TypeOK, shop, bounds
  <1>2. NoOrphans'
    BY FewerItems DEF MaintenanceInv, shop
  <1> QED
    BY <1>1, <1>2, SameRun, SameLocks, SameProducts DEF MaintenanceInv, shop

LEMMA TxType ==
    ASSUME TypeOK, NEW k \in Checkouts, NEW point \in CheckoutPoints,
           NEW todo \in SUBSET Products, NEW at \in Products \cup {None}
    PROVE  [tx EXCEPT ![k].pc = point, ![k].todo = todo, ![k].at = at]
             \in [Checkouts -> Txs]
  <1>1. tx \in [Checkouts -> Txs]
    BY DEF TypeOK
  <1>2. [tx[k] EXCEPT !.pc = point, !.todo = todo, !.at = at] \in Txs
    BY <1>1 DEF Txs
  <1> QED
    BY <1>1, <1>2

LEMMA ReadCartInv ==
    ASSUME MaintenanceInv, NEW k \in Checkouts, ReadCart(k)
    PROVE  MaintenanceInv'
  <1> DEFINE wanted == {i[2] : i \in ItemsOf(tx[k].user)}
  <1>1. wanted \subseteq Products
    BY DEF MaintenanceInv, TypeOK, ItemsOf
  <1>2. tx' = [tx EXCEPT ![k].pc = IF wanted = {} THEN "ended" ELSE "picking",
                         ![k].todo = wanted]
    BY DEF ReadCart
  <1>3. tx' \in [Checkouts -> Txs]
    <2> DEFINE point == IF wanted = {} THEN "ended" ELSE "picking"
    <2>1. point \in CheckoutPoints
      BY DEF CheckoutPoints
    <2>2. tx \in [Checkouts -> Txs]
      BY DEF MaintenanceInv, TypeOK
    <2>3. tx' = [tx EXCEPT ![k].pc = point, ![k].todo = wanted]
      BY <1>2
    <2> HIDE DEF wanted, point
    <2>4. [tx[k] EXCEPT !.pc = point, !.todo = wanted] \in Txs
      BY <1>1, <2>1, <2>2 DEF Txs
    <2> QED
      BY <2>2, <2>3, <2>4
  <1> QED
    BY <1>3, CheckoutGoesOn DEF ReadCart, MaintenanceInv, TypeOK

LEMMA PickItemInv ==
    ASSUME MaintenanceInv, NEW k \in Checkouts, NEW p \in Products, PickItem(k, p)
    PROVE  MaintenanceInv'
  <1>1. tx' \in [Checkouts -> Txs]
    BY DEF PickItem, MaintenanceInv, TypeOK, Txs, CheckoutPoints
  <1> QED
    BY <1>1, CheckoutGoesOn DEF PickItem, MaintenanceInv, TypeOK

LEMMA DecrementInv ==
    ASSUME MaintenanceInv, NEW k \in Checkouts, Decrement(k)
    PROVE  MaintenanceInv'
  <1> DEFINE p == tx[k].at
             left == tx[k].todo \ {p}
  <1>1. CASE ~InCatalog(p)
    <2>1. EndCheckout(k) /\ UNCHANGED <<shop, run, edited, bounds>>
      BY <1>1 DEF Decrement
    <2> QED
      BY <2>1, EndCheckoutInv DEF shop
  <1>2. CASE InCatalog(p)
    <2>1. /\ rowLock[p] = None /\ rowLock' = [rowLock EXCEPT ![p] = k]
          /\ tx' = [tx EXCEPT ![k].pc = IF left = {} THEN "creating" ELSE "picking",
                              ![k].todo = left, ![k].at = None]
          /\ UNCHANGED <<shop, run, edited, bounds>>
      BY <1>2 DEF Decrement
    <2>2. /\ rowLock' \in [Products -> Checkouts \cup {Script, None}]
          /\ \A q \in Products : rowLock'[q] = Script <=> rowLock[q] = Script
      BY <2>1, ScriptIsSomebody DEF MaintenanceInv, TypeOK
    <2>3. tx' \in [Checkouts -> Txs]
      <3> DEFINE point == IF left = {} THEN "creating" ELSE "picking"
      <3>1. point \in CheckoutPoints
        BY DEF CheckoutPoints
      <3>2. left \in SUBSET Products
        BY DEF MaintenanceInv, TypeOK, Txs
      <3>3. tx' = [tx EXCEPT ![k].pc = point, ![k].todo = left, ![k].at = None]
        BY <2>1
      <3> HIDE DEF point, left
      <3> QED
        BY <3>1, <3>2, <3>3, TxType DEF MaintenanceInv
    <2> QED
      BY <2>1, <2>2, <2>3, CheckoutGoesOn
  <1> QED
    BY <1>1, <1>2

LEMMA CommitCheckoutInv ==
    ASSUME MaintenanceInv, NEW k \in Checkouts, CommitCheckout(k)
    PROVE  MaintenanceInv'
  <1>1. items' \subseteq items
    BY DEF CommitCheckout
  <1> QED
    BY <1>1, EndCheckoutInv DEF CommitCheckout

LEMMA AbortCheckoutInv ==
    ASSUME MaintenanceInv, NEW k \in Checkouts, AbortCheckout(k)
    PROVE  MaintenanceInv'
  <1> QED
    BY EndCheckoutInv DEF AbortCheckout, shop

-----------------------------------------------------------------------------
(* Customers and the administrator                                         *)

(* What a step of theirs has to leave alone, and what it may edit.         *)
LEMMA EditInv ==
    ASSUME MaintenanceInv, TypeOK', NoOrphans', UNCHANGED <<rowLock, run>>,
           NEW S \in SUBSET Products, edited' = edited \cup S,
           \A p \in Products \ S : UNCHANGED <<category[p], images[p]>>,
           \A p \in Products : InCatalog(p)' => InCatalog(p),
           \A p \in Products : rowLock[p] = Script => InCatalog(p)'
    PROVE  MaintenanceInv'
  <1>1. LocksOK'
    BY DEF MaintenanceInv, LocksOK, Deleting
  <1>2. CleanOK'
    <2>1. run.ids \subseteq Products
      BY DEF MaintenanceInv, TypeOK, Runs
    <2> QED
      BY <2>1 DEF MaintenanceInv, CleanOK, Deleting
  <1>3. SeedOK'
    <2>1. SeedProducts \subseteq Products
      BY MaintenanceAssumption
    <2> QED
      BY <2>1 DEF MaintenanceInv, SeedOK, InSync, NoImages
  <1> QED
    BY <1>1, <1>2, <1>3, SameRun DEF MaintenanceInv

LEMMA AddItemInv ==
    ASSUME MaintenanceInv, NEW u \in Users, NEW p \in Products, AddItem(u, p)
    PROVE  MaintenanceInv'
  <1>1. /\ items' = items \cup {<<u, p>>} /\ InCatalog(p)
        /\ UNCHANGED <<names, category, images, rowLock, tx, run, edited, bounds>>
    BY DEF AddItem
  <1>2. TypeOK'
    BY <1>1 DEF MaintenanceInv, TypeOK, bounds
  <1>3. NoOrphans'
    <2>1. ASSUME NEW q \in Products, ~InCatalog(q)
          PROVE  ItemsIn({q})' = ItemsIn({q})
      BY <1>1, <2>1 DEF ItemsIn
    <2> QED
      BY <1>1, <2>1 DEF MaintenanceInv, NoOrphans, InCatalog, IsCategory, NoImages
  <1> QED
    BY <1>1, <1>2, <1>3, SameRun, SameLocks, SameProducts DEF MaintenanceInv

LEMMA RemoveItemInv ==
    ASSUME MaintenanceInv, NEW u \in Users, NEW p \in Products, RemoveItem(u, p)
    PROVE  MaintenanceInv'
  <1>1. /\ items' = items \ {<<u, p>>}
        /\ UNCHANGED <<names, category, images, rowLock, tx, run, edited, bounds>>
    BY DEF RemoveItem
  <1>2. TypeOK'
    BY <1>1 DEF MaintenanceInv, TypeOK, bounds
  <1>3. NoOrphans'
    BY <1>1, FewerItems DEF MaintenanceInv
  <1> QED
    BY <1>1, <1>2, <1>3, SameRun, SameLocks, SameProducts DEF MaintenanceInv

LEMMA UpdateProductInv ==
    ASSUME MaintenanceInv, NEW p \in Products, NEW c \in Categories,
           NEW replace \in BOOLEAN, UpdateProduct(p, c, replace)
    PROVE  MaintenanceInv'
  <1>1. /\ InCatalog(p) /\ IsCategory(c) /\ rowLock[p] = None
        /\ category' = [category EXCEPT ![p] = c]
        /\ images' = IF replace THEN [images EXCEPT ![p] = [NoImages EXCEPT !.own = TRUE]]
                                ELSE images
        /\ UNCHANGED <<names, items, rowLock, tx, run, runs, faults>>
        /\ edits < MaxEdits /\ edits' = edits + 1 /\ edited' = edited \cup {p}
    BY DEF UpdateProduct, Edit
  <1>2. TypeOK'
    <2>1. images' \in [Products -> Images]
      BY <1>1, OwnImages DEF MaintenanceInv, TypeOK
    <2>2. edits' \in 0..MaxEdits
      BY <1>1, MaintenanceAssumption DEF MaintenanceInv, TypeOK
    <2> QED
      BY <1>1, <2>1, <2>2 DEF MaintenanceInv, TypeOK
  <1>3. \A q \in Products : /\ InCatalog(q)' <=> InCatalog(q)
                            /\ q # p => UNCHANGED <<category[q], images[q]>>
    BY <1>1 DEF MaintenanceInv, TypeOK, InCatalog
  <1>4. NoOrphans'
    <2>1. \A q \in Products : ItemsIn({q})' = ItemsIn({q})
      BY <1>1 DEF ItemsIn
    <2>2. category'[p] = c
      BY <1>1 DEF MaintenanceInv, TypeOK
    <2>3. \A q \in Products : IsCategory(category[q])' <=> names[category'[q]] \in Names
      BY <1>1 DEF IsCategory
    <2> QED
      BY <1>1, <1>3, <2>1, <2>2, <2>3 DEF MaintenanceInv, NoOrphans, IsCategory, NoImages
  <1>5. \A q \in Products : rowLock[q] = Script => InCatalog(q)'
    BY <1>3 DEF MaintenanceInv, LocksOK
  <1> QED
    BY <1>1, <1>2, <1>3, <1>4, <1>5, EditInv

LEMMA DeleteProductInv ==
    ASSUME MaintenanceInv, NEW p \in Products, DeleteProduct(p)
    PROVE  MaintenanceInv'
  <1>1. /\ InCatalog(p) /\ rowLock[p] = None
        /\ category' = [category EXCEPT ![p] = Gone]
        /\ images' = [images EXCEPT ![p] = NoImages]
        /\ items' = items \ ItemsIn({p})
        /\ UNCHANGED <<names, rowLock, tx, run, runs, faults>>
        /\ edits < MaxEdits /\ edits' = edits + 1 /\ edited' = edited \cup {p}
    BY DEF DeleteProduct, Edit
  <1>2. TypeOK'
    <2>1. edits' \in 0..MaxEdits
      BY <1>1, MaintenanceAssumption DEF MaintenanceInv, TypeOK
    <2> QED
      BY <1>1, <2>1, NoImagesType DEF MaintenanceInv, TypeOK
  <1>3. \A q \in Products : /\ InCatalog(q)' <=> InCatalog(q) /\ q # p
                            /\ q # p => UNCHANGED <<category[q], images[q]>>
    BY <1>1, IdsAreNotMarks DEF MaintenanceInv, TypeOK, InCatalog
  <1>4. NoOrphans'
    <2>1. \A q \in Products : ItemsIn({q})' \subseteq ItemsIn({q})
      BY <1>1 DEF ItemsIn
    <2>2. ItemsIn({p})' = {} /\ images'[p] = NoImages
      BY <1>1 DEF ItemsIn, MaintenanceInv, TypeOK
    <2> QED
      BY <1>1, <1>3, <2>1, <2>2 DEF MaintenanceInv, NoOrphans, IsCategory, NoImages
  <1>5. \A q \in Products : rowLock[q] = Script => InCatalog(q)'
    BY <1>1, <1>3, ScriptIsSomebody DEF MaintenanceInv, LocksOK
  <1> QED
    BY <1>1, <1>2, <1>3, <1>4, <1>5, EditInv

(* A category gets a name, or goes when no product is in it.               *)
LEMMA CategoryInv ==
    ASSUME MaintenanceInv, NEW c \in Categories, NEW n \in Names \cup {Gone},
           n = Gone => \A p \in Products : category[p] # c,
           names' = [names EXCEPT ![c] = n], Edit({}),
           UNCHANGED <<category, images, items>>
    PROVE  MaintenanceInv'
  <1>1. /\ UNCHANGED <<rowLock, tx, run, runs, faults>>
        /\ edits < MaxEdits /\ edits' = edits + 1 /\ edited' = edited \cup {}
    BY DEF Edit
  <1>2. TypeOK'
    <2>1. edits' \in 0..MaxEdits
      BY <1>1, MaintenanceAssumption DEF MaintenanceInv, TypeOK
    <2> QED
      BY <1>1, <2>1 DEF MaintenanceInv, TypeOK
  <1>3. NoOrphans'
    <2>1. \A p \in Products : ItemsIn({p})' = ItemsIn({p}) /\ InCatalog(p)' = InCatalog(p)
      BY DEF ItemsIn, InCatalog
    <2>2. \A p \in Products : InCatalog(p) => names'[category[p]] \in Names
      BY DEF MaintenanceInv, TypeOK, NoOrphans, InCatalog, IsCategory
    <2> QED
      BY <2>1, <2>2 DEF MaintenanceInv, NoOrphans, IsCategory, NoImages
  <1> QED
    BY <1>1, <1>2, <1>3, SameRun, SameLocks, SameProducts DEF MaintenanceInv

LEMMA AdminStepInv ==
    ASSUME MaintenanceInv, AdminStep
    PROVE  MaintenanceInv'
  <1>1. ASSUME NEW c \in Categories, DeleteCategory(c) PROVE MaintenanceInv'
    BY <1>1, CategoryInv DEF DeleteCategory
  <1>2. ASSUME NEW c \in Categories, NEW n \in Names, SetName(c, n) PROVE MaintenanceInv'
    <2>1. n # Gone
      BY IdsAreNotMarks
    <2> QED
      BY <1>2, <2>1, CategoryInv DEF SetName
  <1> QED
    BY <1>1, <1>2, UpdateProductInv, DeleteProductInv DEF AdminStep

-----------------------------------------------------------------------------
(* The script                                                              *)

LEMMA StartInv ==
    ASSUME MaintenanceInv,
           \/ Start("seed", "categories", SeedProducts) /\ edited' = {}
           \/ Start("clean", "listing", {}) /\ UNCHANGED edited
    PROVE  MaintenanceInv'
  <1>1. /\ UNCHANGED <<shop, rowLock, tx, edits, faults>>
        /\ runs < MaxRuns /\ runs' = runs + 1 /\ ~IsRunning
        /\ edited' \subseteq Products
    BY DEF Start, MaintenanceInv, TypeOK
  <1>2. /\ run' \in Runs
        /\ \/ run'.pc = "categories" /\ run'.kind = "seed" /\ run'.todo = SeedProducts
           \/ run'.pc = "listing" /\ run'.kind = "clean" /\ run'.todo = {}
    <2>1. NoRun \in Runs
      BY DEF NoRun, Runs
    <2>2. CASE Start("seed", "categories", SeedProducts)
      BY <2>1, <2>2, MaintenanceAssumption DEF Start, Runs, SeedPoints
    <2>3. CASE Start("clean", "listing", {})
      BY <2>1, <2>3 DEF Start, Runs, CleanPoints
    <2> QED
      BY <2>2, <2>3
  <1>3. TypeOK'
    <2>1. runs' \in 0..MaxRuns
      BY <1>1, MaintenanceAssumption DEF MaintenanceInv, TypeOK
    <2> QED
      BY <1>1, <1>2, <2>1 DEF MaintenanceInv, TypeOK, shop
  <1>4. NoOrphans'
    BY <1>1, FewerItems DEF MaintenanceInv, shop
  <1>5. RunOK' /\ CleanOK' /\ SeedOK'
    BY <1>2 DEF RunOK, CleanOK, SeedOK, SeedPoints, CleanPoints, Deleting
  <1>6. LocksOK'
    <2>1. \A p \in Products : rowLock'[p] # Script
      BY <1>1 DEF MaintenanceInv, LocksOK, IsRunning, Deleting
    <2> QED
      BY <2>1 DEF LocksOK
  <1> QED
    BY <1>3, <1>4, <1>5, <1>6 DEF MaintenanceInv

LEMMA RunFailsInv ==
    ASSUME MaintenanceInv, EndRun("failed"), UNCHANGED <<shop, tx, edited, runs, edits>>,
           faults' \in 0..MaxFaults
    PROVE  MaintenanceInv'
  <1>1. TypeOK'
    BY EndRunInv DEF MaintenanceInv, TypeOK, shop
  <1>2. NoOrphans'
    BY FewerItems DEF MaintenanceInv, shop
  <1> QED
    BY <1>1, <1>2, EndRunInv DEF MaintenanceInv

(* While the seed runs, the script holds no row and deletes nothing.       *)
LEMMA SeedHoldsNothing ==
    ASSUME MaintenanceInv, run.pc \in SeedPoints, UNCHANGED rowLock,
           run'.pc \in SeedPoints \cup {"done"}
    PROVE  LocksOK' /\ CleanOK'
  <1> QED
    BY DEF MaintenanceInv, LocksOK, CleanOK, SeedPoints, Deleting

LEMMA UpsertCategoryInv ==
    ASSUME MaintenanceInv, NEW n \in SeedNames, NEW c \in Categories, UpsertCategory(n, c)
    PROVE  MaintenanceInv'
  <1>1. /\ run.pc = "categories" /\ names' = [names EXCEPT ![c] = n]
        /\ run' = [run EXCEPT !.found[n] = c]
        /\ UNCHANGED <<category, images, items, rowLock, tx, edited, bounds>>
    BY DEF UpsertCategory
  <1>2. n \in Names
    BY MaintenanceAssumption DEF SeedNames
  <1>3. /\ run' \in Runs /\ run'.pc = "categories" /\ run'.kind = run.kind
        /\ run'.todo = run.todo
    BY <1>1 DEF MaintenanceInv, TypeOK, Runs
  <1>4. TypeOK'
    BY <1>1, <1>2, <1>3 DEF MaintenanceInv, TypeOK, bounds
  <1>5. NoOrphans'
    <2>1. \A p \in Products : ItemsIn({p})' = ItemsIn({p}) /\ InCatalog(p)' = InCatalog(p)
      BY <1>1 DEF ItemsIn, InCatalog
    <2>2. \A p \in Products : InCatalog(p) => names'[category[p]] \in Names
      BY <1>1, <1>2 DEF MaintenanceInv, TypeOK, NoOrphans, InCatalog, IsCategory
    <2> QED
      BY <1>1, <2>1, <2>2 DEF MaintenanceInv, NoOrphans, IsCategory, NoImages
  <1>6. RunOK' /\ SeedOK'
    BY <1>1, <1>3 DEF MaintenanceInv, RunOK, SeedOK, SeedPoints, CleanPoints, Deleting
  <1>7. LocksOK' /\ CleanOK'
    BY <1>1, <1>3, SeedHoldsNothing DEF SeedPoints
  <1> QED
    BY <1>4, <1>5, <1>6, <1>7 DEF MaintenanceInv

LEMMA CategoriesReadyInv ==
    ASSUME MaintenanceInv, CategoriesReady
    PROVE  MaintenanceInv'
  <1>1. /\ run.pc = "categories" /\ \A n \in SeedNames : run.found[n] # None
        /\ run' = [run EXCEPT !.pc = "products"]
        /\ UNCHANGED <<shop, rowLock, tx, edited, bounds>>
    BY DEF CategoriesReady
  <1>2. /\ run' \in Runs /\ run'.pc = "products" /\ run'.kind = "seed"
        /\ run'.todo = SeedProducts /\ run'.found = run.found
    BY <1>1 DEF MaintenanceInv, TypeOK, RunOK, Runs, SeedPoints
  <1>3. \A n \in SeedNames : run'.found[n] \in Categories
    BY <1>1, <1>2 DEF MaintenanceInv, TypeOK, Runs
  <1>4. TypeOK' /\ NoOrphans'
    BY <1>1, <1>2, FewerItems DEF MaintenanceInv, TypeOK, bounds, shop
  <1>5. RunOK' /\ SeedOK'
    BY <1>2, <1>3 DEF RunOK, SeedOK, SeedPoints, CleanPoints, Deleting, SeedNames
  <1>6. LocksOK' /\ CleanOK'
    BY <1>1, <1>2, SeedHoldsNothing DEF SeedPoints
  <1> QED
    BY <1>4, <1>5, <1>6 DEF MaintenanceInv

LEMMA UpsertProductInv ==
    ASSUME MaintenanceInv, NEW p \in SeedProducts, UpsertProduct(p)
    PROVE  MaintenanceInv'
  <1> DEFINE c == run.found[SeedName[p]]
  <1>1. /\ run.pc = "products" /\ p \in run.todo /\ rowLock[p] = None
        /\ UNCHANGED <<names, images, items, tx, edited, bounds>>
    BY DEF UpsertProduct
  <1>2. CASE ~IsCategory(c)
    <2>1. EndRun("failed") /\ UNCHANGED category
      BY <1>2 DEF UpsertProduct
    <2>2. faults' \in 0..MaxFaults
      BY <1>1 DEF MaintenanceInv, TypeOK, bounds
    <2> QED
      BY <1>1, <2>1, <2>2, RunFailsInv DEF shop, bounds
  <1>3. CASE IsCategory(c)
    <2>1. /\ category' = [category EXCEPT ![p] = c]
          /\ run' = [run EXCEPT !.pc = "images", !.at = p]
          /\ UNCHANGED rowLock
      BY <1>3 DEF UpsertProduct
    <2>2. p \in Products /\ SeedName[p] \in SeedNames
      BY MaintenanceAssumption DEF SeedNames
    <2>3. c \in Categories
      BY <1>1, <2>2 DEF MaintenanceInv, RunOK
    <2>4. /\ run' \in Runs /\ run'.pc = "images" /\ run'.at = p /\ run'.kind = "seed"
          /\ run'.todo = run.todo /\ run'.found = run.found
      BY <1>1, <2>1, <2>2 DEF MaintenanceInv, TypeOK, RunOK, Runs, SeedPoints
    <2>5. TypeOK'
      BY <1>1, <2>1, <2>2, <2>3, <2>4 DEF MaintenanceInv, TypeOK, bounds
    <2>6. \A q \in Products : /\ InCatalog(q)' <=> InCatalog(q) \/ q = p
                              /\ q # p => category'[q] = category[q]
      BY <2>1, <2>2, <2>3 DEF MaintenanceInv, TypeOK, InCatalog
    <2>7. category'[p] = c /\ names[c] \in Names
      BY <1>3, <2>1, <2>2 DEF MaintenanceInv, TypeOK, IsCategory
    <2>8. NoOrphans'
      <3>1. \A q \in Products : ItemsIn({q})' = ItemsIn({q})
        BY <1>1 DEF ItemsIn
      <3>2. \A q \in Products : InCatalog(q)' => names'[category'[q]] \in Names
        BY <1>1, <2>6, <2>7 DEF MaintenanceInv, NoOrphans, IsCategory
      <3> QED
        BY <1>1, <2>6, <3>1, <3>2 DEF MaintenanceInv, NoOrphans, IsCategory, NoImages
    <2>9. RunOK'
      BY <1>1, <2>4 DEF MaintenanceInv, RunOK, SeedPoints, CleanPoints, Deleting, SeedNames
    <2>10. SeedOK'
      <3>1. SeedProducts \subseteq Products
        BY MaintenanceAssumption
      <3>2. \A q \in SeedProducts \ edited : q \notin run.todo => InSync(q)
        BY <1>1, <2>4 DEF MaintenanceInv, SeedOK, RunOK, SeedPoints
      <3>3. \A q \in SeedProducts \ edited :
              q \notin run.todo => q # p /\ InSync(q)'
        BY <1>1, <2>4, <2>6, <3>1, <3>2 DEF InSync
      <3> QED
        BY <1>1, <2>4, <2>7, <3>3 DEF SeedOK
    <2>11. LocksOK' /\ CleanOK'
      BY <1>1, <2>1, <2>4, SeedHoldsNothing DEF SeedPoints
    <2> QED
      BY <2>5, <2>8, <2>9, <2>10, <2>11 DEF MaintenanceInv
  <1> QED
    BY <1>2, <1>3

LEMMA DropImagesInv ==
    ASSUME MaintenanceInv, DropImages
    PROVE  MaintenanceInv'
  <1>1. /\ run.pc = "images" /\ images' = [images EXCEPT ![run.at] = NoImages]
        /\ run' = [run EXCEPT !.pc = "image"]
        /\ UNCHANGED <<names, category, items, rowLock, tx, edited, bounds>>
    BY DEF DropImages
  <1>2. /\ run' \in Runs /\ run'.pc = "image" /\ run'.at = run.at /\ run'.kind = "seed"
        /\ run'.todo = run.todo /\ run'.found = run.found
    BY <1>1 DEF MaintenanceInv, TypeOK, RunOK, Runs, SeedPoints
  <1>3. images' \in [Products -> Images]
        /\ \A p \in Products : images'[p] = IF p = run.at THEN NoImages ELSE images[p]
    BY <1>1, NoImagesType DEF MaintenanceInv, TypeOK
  <1>4. TypeOK'
    BY <1>1, <1>2, <1>3 DEF MaintenanceInv, TypeOK, bounds
  <1>5. NoOrphans'
    <2>1. \A p \in Products : ItemsIn({p})' = ItemsIn({p})
      BY <1>1 DEF ItemsIn
    <2> QED
      BY <1>1, <1>3, <2>1 DEF MaintenanceInv, NoOrphans, InCatalog, IsCategory, NoImages
  <1>6. RunOK'
    BY <1>1, <1>2 DEF MaintenanceInv, RunOK, SeedPoints, CleanPoints, Deleting, SeedNames
  <1>7. SeedOK'
    <2>1. SeedProducts \subseteq Products
      BY MaintenanceAssumption
    <2>2. run.at \in run.todo
      BY <1>1 DEF MaintenanceInv, RunOK
    <2>3. \A p \in SeedProducts \ edited :
            /\ p \notin run.todo => InSync(p)
            /\ p = run.at => category[p] = run.found[SeedName[p]]
      BY <1>1, <1>2 DEF MaintenanceInv, SeedOK, RunOK, SeedPoints
    <2>4. NoImages' = NoImages
      BY DEF NoImages
    <2> HIDE DEF NoImages
    <2> QED
      BY <1>1, <1>2, <1>3, <2>1, <2>2, <2>3, <2>4 DEF SeedOK, InSync
  <1>8. LocksOK' /\ CleanOK'
    BY <1>1, <1>2, SeedHoldsNothing DEF SeedPoints
  <1> QED
    BY <1>4, <1>5, <1>6, <1>7, <1>8 DEF MaintenanceInv

LEMMA CreateImageInv ==
    ASSUME MaintenanceInv, CreateImage
    PROVE  MaintenanceInv'
  <1> DEFINE left == run.todo \ {run.at}
             point == IF left = {} THEN "done" ELSE "products"
  <1>1. /\ run.pc = "image"
        /\ UNCHANGED <<names, category, items, tx, edited, bounds>>
    BY DEF CreateImage
  <1>2. CASE ~InCatalog(run.at)
    <2>1. EndRun("failed") /\ UNCHANGED images
      BY <1>2 DEF CreateImage
    <2>2. faults' \in 0..MaxFaults
      BY <1>1 DEF MaintenanceInv, TypeOK, bounds
    <2> QED
      BY <1>1, <2>1, <2>2, RunFailsInv DEF shop, bounds
  <1>3. CASE InCatalog(run.at)
    <2>1. /\ images' = [images EXCEPT ![run.at].seeded = @ + 1]
          /\ run' = [run EXCEPT !.pc = point, !.todo = left, !.at = None]
          /\ UNCHANGED rowLock
      BY <1>3 DEF CreateImage
    <2>2. run.at \in run.todo /\ run.todo \subseteq SeedProducts /\ run.kind = "seed"
          /\ run \in Runs /\ SeedProducts \subseteq Products
      BY <1>1, MaintenanceAssumption DEF MaintenanceInv, TypeOK, RunOK, SeedPoints
    <2>3. point \in {"done", "products"} /\ (point = "done" <=> left = {})
      OBVIOUS
    <2>4. /\ run' \in Runs /\ run'.pc = point /\ run'.kind = "seed"
          /\ run'.todo = left /\ run'.found = run.found
      <3>1. left \subseteq Products
        BY <2>2
      <3> HIDE DEF left, point
      <3> QED
        BY <2>1, <2>2, <2>3, <3>1 DEF Runs, SeedPoints
    <2>5. /\ images' \in [Products -> Images]
          /\ \A p \in Products : p # run.at => images'[p] = images[p]
          /\ images[run.at] = NoImages => images'[run.at] = [seeded |-> 1, own |-> FALSE]
      <3>1. images \in [Products -> Images] /\ run.at \in Products
        BY <2>2 DEF MaintenanceInv, TypeOK
      <3> DEFINE i == images[run.at]
      <3>2. i \in Images /\ [i EXCEPT !.seeded = @ + 1] \in Images
        BY <3>1 DEF Images
      <3>3. i = NoImages => [i EXCEPT !.seeded = @ + 1] = [seeded |-> 1, own |-> FALSE]
        <4> SUFFICES ASSUME i = NoImages
                     PROVE  [i EXCEPT !.seeded = @ + 1] = [seeded |-> 1, own |-> FALSE]
          OBVIOUS
        <4> QED
          BY OneImage DEF NoImages
      <3>4. images' = [images EXCEPT ![run.at] = [i EXCEPT !.seeded = @ + 1]]
        BY <2>1
      <3> HIDE DEF i
      <3>5. images'[run.at] = [i EXCEPT !.seeded = @ + 1]
        BY <3>1, <3>4
      <3> QED
        BY <3>1, <3>2, <3>3, <3>4, <3>5 DEF i
    <2>6. TypeOK'
      BY <1>1, <2>1, <2>4, <2>5 DEF MaintenanceInv, TypeOK, bounds
    <2>7. NoOrphans'
      <3>1. \A p \in Products : ItemsIn({p})' = ItemsIn({p})
        BY <1>1 DEF ItemsIn
      <3> QED
        BY <1>1, <1>3, <2>2, <2>5, <3>1
        DEF MaintenanceInv, NoOrphans, InCatalog, IsCategory, NoImages
    <2>8. RunOK'
      <3>1. \A n \in SeedNames : run.found[n] \in Categories
        BY <1>1 DEF MaintenanceInv, RunOK
      <3>2. left \subseteq SeedProducts
        BY <2>2
      <3> HIDE DEF left, point
      <3> QED
        BY <2>3, <2>4, <3>1, <3>2 DEF RunOK, SeedPoints, CleanPoints, Deleting, SeedNames
    <2>9. SeedOK'
      <3>1. \A p \in SeedProducts \ edited :
              /\ p \notin run.todo => InSync(p)
              /\ p = run.at => category[p] = run.found[SeedName[p]] /\ images[p] = NoImages
        BY <1>1, <2>2 DEF MaintenanceInv, SeedOK
      <3>2. \A p \in SeedProducts \ edited : p \notin left => InSync(p)'
        BY <1>1, <2>2, <2>4, <2>5, <3>1 DEF InSync
      <3> HIDE DEF left, point
      <3> QED
        BY <1>1, <2>3, <2>4, <3>2 DEF SeedOK
    <2>10. LocksOK' /\ CleanOK'
      BY <1>1, <2>1, <2>3, <2>4, SeedHoldsNothing DEF SeedPoints
    <2> QED
      BY <2>6, <2>7, <2>8, <2>9, <2>10 DEF MaintenanceInv
  <1> QED
    BY <1>2, <1>3

(* A step of the cleanup before its commit changes nothing in the shop.    *)
LEMMA CleanGoesOn ==
    ASSUME MaintenanceInv, run' \in Runs, run'.kind = "clean",
           UNCHANGED <<shop, tx, edited, bounds>>,
           rowLock' \in [Products -> Checkouts \cup {Script, None}],
           RunOK', LocksOK', CleanOK'
    PROVE  MaintenanceInv'
  <1>1. TypeOK'
    BY DEF MaintenanceInv, TypeOK, shop, bounds
  <1>2. NoOrphans'
    BY FewerItems DEF MaintenanceInv, shop
  <1>3. SeedOK'
    BY DEF SeedOK
  <1> QED
    BY <1>1, <1>2, <1>3 DEF MaintenanceInv

LEMMA ListCategoriesInv ==
    ASSUME MaintenanceInv, ListCategories
    PROVE  MaintenanceInv'
  <1>1. /\ run.pc = "listing" /\ UNCHANGED <<shop, rowLock, tx, edited, bounds>>
        /\ run \in Runs /\ run.kind = "clean"
    BY DEF ListCategories, MaintenanceInv, TypeOK, RunOK, CleanPoints
  <1>2. run' \in Runs /\ run'.pc = "listing products" /\ run'.kind = "clean"
    <2> DEFINE cats == {c \in Categories : names[c] \in LegacyNames}
    <2>1. run' = [run EXCEPT !.pc = "listing products", !.cats = cats]
      BY DEF ListCategories
    <2>2. cats \subseteq Categories
      OBVIOUS
    <2> HIDE DEF cats
    <2> QED
      BY <1>1, <2>1, <2>2 DEF Runs, CleanPoints
  <1>3. RunOK' /\ CleanOK'
    BY <1>2 DEF RunOK, CleanOK, SeedPoints, CleanPoints, Deleting
  <1>4. LocksOK'
    BY <1>1 DEF MaintenanceInv, LocksOK, Deleting
  <1> QED
    BY <1>1, <1>2, <1>3, <1>4, CleanGoesOn DEF MaintenanceInv, TypeOK

LEMMA ListProductsInv ==
    ASSUME MaintenanceInv, NEW execute \in BOOLEAN, ListProducts(execute)
    PROVE  MaintenanceInv'
  <1> DEFINE ids == {p \in Products :
                       InCatalog(p) /\ (p \in LegacyProducts \/ category[p] \in run.cats)}
             point == IF ~execute THEN "done"
                      ELSE IF ids = {} THEN "committing" ELSE "deleting items"
  <1>1. /\ run.pc = "listing products" /\ UNCHANGED <<shop, rowLock, tx, edited, bounds>>
        /\ run \in Runs /\ run.kind = "clean"
        /\ run' = [run EXCEPT !.ids = ids, !.todo = ids, !.pc = point]
    BY DEF ListProducts, MaintenanceInv, TypeOK, RunOK, CleanPoints
  <1>2. ids \subseteq Products
    OBVIOUS
  <1>3. point \in {"done", "committing", "deleting items"} /\ (point = "committing" => ids = {})
    OBVIOUS
  <1> HIDE DEF ids, point
  <1>4. /\ run' \in Runs /\ run'.pc = point /\ run'.kind = "clean"
        /\ run'.ids = ids /\ run'.todo = ids
    BY <1>1, <1>2, <1>3 DEF Runs, CleanPoints
  <1>5. RunOK' /\ CleanOK'
    BY <1>3, <1>4 DEF RunOK, CleanOK, SeedPoints, CleanPoints, Deleting
  <1>6. LocksOK'
    BY <1>1 DEF MaintenanceInv, LocksOK, Deleting
  <1> QED
    BY <1>1, <1>4, <1>5, <1>6, CleanGoesOn DEF MaintenanceInv, TypeOK

LEMMA DeleteItemsInv ==
    ASSUME MaintenanceInv, DeleteItems
    PROVE  MaintenanceInv'
  <1>1. /\ run.pc = "deleting items" /\ UNCHANGED <<shop, rowLock, tx, edited, bounds>>
        /\ run \in Runs /\ run.kind = "clean" /\ run.todo = run.ids
    BY DEF DeleteItems, MaintenanceInv, TypeOK, RunOK, CleanPoints
  <1>2. /\ run' \in Runs /\ run'.pc = "deleting images" /\ run'.kind = "clean"
        /\ run'.ids = run.ids /\ run'.todo = run.ids
    <2> DEFINE held == ItemsIn(run.ids)
    <2>1. run' = [run EXCEPT !.pc = "deleting images", !.held = held]
      BY DEF DeleteItems
    <2>2. held \subseteq Users \X Products
      BY DEF ItemsIn, MaintenanceInv, TypeOK
    <2> HIDE DEF held
    <2> QED
      BY <1>1, <2>1, <2>2 DEF Runs, CleanPoints
  <1>3. RunOK' /\ CleanOK'
    BY <1>2 DEF RunOK, CleanOK, SeedPoints, CleanPoints, Deleting
  <1>4. LocksOK'
    BY <1>1 DEF MaintenanceInv, LocksOK, Deleting
  <1> QED
    BY <1>1, <1>2, <1>3, <1>4, CleanGoesOn DEF MaintenanceInv, TypeOK

LEMMA DeleteImagesInv ==
    ASSUME MaintenanceInv, DeleteImages
    PROVE  MaintenanceInv'
  <1>1. /\ run.pc = "deleting images" /\ UNCHANGED <<shop, rowLock, tx, edited, bounds>>
        /\ run \in Runs /\ run.kind = "clean" /\ run.todo = run.ids
    BY DEF DeleteImages, MaintenanceInv, TypeOK, RunOK, CleanPoints
  <1>2. /\ run' \in Runs /\ run'.pc = "picking" /\ run'.kind = "clean"
        /\ run'.ids = run.ids /\ run'.todo = run.ids
    BY <1>1 DEF DeleteImages, Runs, CleanPoints
  <1>3. RunOK' /\ CleanOK'
    BY <1>2 DEF RunOK, CleanOK, SeedPoints, CleanPoints, Deleting
  <1>4. LocksOK'
    BY <1>1 DEF MaintenanceInv, LocksOK, Deleting
  <1> QED
    BY <1>1, <1>2, <1>3, <1>4, CleanGoesOn DEF MaintenanceInv, TypeOK

LEMMA PickRowInv ==
    ASSUME MaintenanceInv, NEW p \in Products, PickRow(p)
    PROVE  MaintenanceInv'
  <1>1. /\ run.pc = "picking" /\ UNCHANGED <<shop, rowLock, tx, edited, bounds>>
        /\ run \in Runs /\ run.kind = "clean" /\ run.todo \subseteq run.ids
        /\ p \in run.todo
    BY DEF PickRow, MaintenanceInv, TypeOK, RunOK, CleanPoints, Deleting
  <1>2. /\ run' \in Runs /\ run'.pc = "deleting" /\ run'.kind = "clean"
        /\ run'.ids = run.ids /\ run'.todo = run.todo \ {p} /\ run'.at = p
    BY <1>1 DEF PickRow, Runs, CleanPoints
  <1>3. RunOK'
    BY <1>1, <1>2 DEF RunOK, SeedPoints, CleanPoints, Deleting
  <1>4. LocksOK' /\ CleanOK'
    BY <1>1, <1>2 DEF MaintenanceInv, LocksOK, CleanOK, Deleting, InCatalog, shop
  <1> QED
    BY <1>1, <1>2, <1>3, <1>4, CleanGoesOn DEF MaintenanceInv, TypeOK

LEMMA DeleteRowInv ==
    ASSUME MaintenanceInv, DeleteRow
    PROVE  MaintenanceInv'
  <1> DEFINE p == run.at
             point == IF run.todo = {} THEN "committing" ELSE "picking"
  <1>1. /\ run.pc = "deleting" /\ UNCHANGED <<shop, tx, edited, bounds>>
        /\ run \in Runs /\ run.kind = "clean" /\ run.todo \subseteq run.ids
        /\ p \in run.ids /\ p \in Products
    BY DEF DeleteRow, MaintenanceInv, TypeOK, RunOK, Runs, CleanPoints, Deleting
  <1>2. /\ rowLock' \in [Products -> Checkouts \cup {Script, None}]
        /\ \A q \in Products : q # p => rowLock'[q] = rowLock[q]
        /\ InCatalog(p) => rowLock'[p] = Script
        /\ ~InCatalog(p) => rowLock'[p] = rowLock[p]
    BY <1>1 DEF DeleteRow, MaintenanceInv, TypeOK
  <1>3. point \in {"committing", "picking"} /\ (point = "committing" => run.todo = {})
    OBVIOUS
  <1>4. run' = [run EXCEPT !.pc = point, !.at = None]
    BY DEF DeleteRow, NextRow
  <1> HIDE DEF point
  <1>5. /\ run' \in Runs /\ run'.pc = point /\ run'.kind = "clean"
        /\ run'.ids = run.ids /\ run'.todo = run.todo
    BY <1>1, <1>3, <1>4 DEF Runs, CleanPoints
  <1>6. RunOK'
    BY <1>1, <1>3, <1>5 DEF RunOK, SeedPoints, CleanPoints, Deleting
  <1>7. \A q \in Products : InCatalog(q)' = InCatalog(q)
    BY <1>1 DEF shop, InCatalog
  <1>8. LocksOK' /\ CleanOK'
    <2>1. run.ids \subseteq Products
      BY <1>1 DEF Runs
    <2> QED
      BY <1>1, <1>2, <1>3, <1>5, <1>7, <2>1 DEF MaintenanceInv, LocksOK, CleanOK, Deleting
  <1> QED
    BY <1>1, <1>2, <1>5, <1>6, <1>8, CleanGoesOn

(* At the commit the locked products are those on the list that are left,  *)
(* and what is outside the list stays as it was.                           *)
LEMMA CommitDeletes ==
    ASSUME MaintenanceInv, NEW outcome \in {"done", "failed"}, CommitClean(outcome)
    PROVE  \/ UNCHANGED <<shop, faults>>
           \/ /\ \A p \in Products :
                   IF p \in run.ids THEN ~InCatalog(p)' /\ images'[p] = NoImages
                                    ELSE UNCHANGED <<category[p], images[p]>>
              /\ \A c \in Categories :
                   IF c \in run.cats THEN ~IsCategory(c)' ELSE UNCHANGED names[c]
              /\ items' = items \ ItemsIn(run.ids)
              /\ names' \in [Categories -> Names \cup {None, Gone}]
              /\ category' \in [Products -> Categories \cup {None, Gone}]
              /\ images' \in [Products -> Images]
              /\ faults' \in 0..MaxFaults
              /\ \A p \in Products \ run.ids : InCatalog(p) => category[p] \notin run.cats
  <1> DEFINE H == Held(Script)
             left == {p \in Products : InCatalog(p)} \ H
  <1>1. CASE \E p \in left : category[p] \in run.cats
    BY <1>1 DEF CommitClean
  <1>2. CASE ~ \E p \in left : category[p] \in run.cats
    <2>1. /\ names' = [c \in Categories |->
                         IF c \in run.cats /\ IsCategory(c) THEN Gone ELSE names[c]]
          /\ category' = [p \in Products |-> IF p \in H THEN Gone ELSE category[p]]
          /\ images' = [p \in Products |-> IF p \in H THEN NoImages ELSE images[p]]
          /\ items' = items \ ItemsIn(H)
          /\ faults' = IF outcome = "failed" THEN faults + 1 ELSE faults
          /\ faults' =< MaxFaults
      BY <1>2 DEF CommitClean, Dependants
    <2>2. \A p \in Products :
            /\ p \in H => p \in run.ids /\ InCatalog(p)
            /\ p \in run.ids /\ p \notin H => ~InCatalog(p)
      BY DEF Held, CommitClean, MaintenanceInv, LocksOK, CleanOK, RunOK, Deleting
    <2> HIDE DEF H
    <2>3. \A p \in Products :
            /\ p \in run.ids => ~InCatalog(p)' /\ images'[p] = NoImages
            /\ p \notin run.ids => UNCHANGED <<category[p], images[p]>>
      BY <2>1, <2>2, IdsAreNotMarks DEF InCatalog, MaintenanceInv, NoOrphans
    <2>4. \A c \in Categories :
            IF c \in run.cats THEN ~IsCategory(c)' ELSE UNCHANGED names[c]
      BY <2>1, IdsAreNotMarks DEF IsCategory
    <2>5. items' = items \ ItemsIn(run.ids)
      <3>1. \A i \in items : i[2] \in Products
        BY DEF MaintenanceInv, TypeOK
      <3>2. \A i \in items : InCatalog(i[2])
        <4> SUFFICES ASSUME NEW i \in items, ~InCatalog(i[2]) PROVE FALSE
          OBVIOUS
        <4>1. ItemsIn({i[2]}) = {}
          BY <3>1 DEF MaintenanceInv, NoOrphans
        <4>2. i \in ItemsIn({i[2]})
          BY DEF ItemsIn
        <4> QED
          BY <4>1, <4>2
      <3>3. \A i \in items : i[2] \in H <=> i[2] \in run.ids
        BY <2>2, <3>1, <3>2
      <3>4. ItemsIn(H) = ItemsIn(run.ids)
        BY <3>3 DEF ItemsIn
      <3> QED
        BY <2>1, <3>4
    <2>6. /\ names' \in [Categories -> Names \cup {None, Gone}]
          /\ category' \in [Products -> Categories \cup {None, Gone}]
          /\ images' \in [Products -> Images]
      BY <2>1, NoImagesType DEF MaintenanceInv, TypeOK
    <2>7. faults' \in 0..MaxFaults
      BY <2>1, MaintenanceAssumption DEF MaintenanceInv, TypeOK
    <2>8. \A p \in Products \ run.ids : InCatalog(p) => category[p] \notin run.cats
      BY <1>2, <2>2
    <2> QED
      BY <2>3, <2>4, <2>5, <2>6, <2>7, <2>8
  <1> QED
    BY <1>1, <1>2

LEMMA CommitCleanInv ==
    ASSUME MaintenanceInv, NEW outcome \in {"done", "failed"}, CommitClean(outcome)
    PROVE  MaintenanceInv'
  <1>1. run.pc = "committing" /\ UNCHANGED <<tx, edited, runs, edits>>
    BY DEF CommitClean
  <1>2. run.kind = "clean"
    BY <1>1 DEF MaintenanceInv, RunOK, CleanPoints
  <1>3. EndRun("failed") \/ EndRun(outcome)
    BY DEF CommitClean
  <1>4. /\ run' \in Runs /\ rowLock' \in [Products -> Checkouts \cup {Script, None}]
        /\ RunOK' /\ LocksOK' /\ CleanOK' /\ SeedOK'
    BY <1>2, <1>3, EndRunInv
  <1>5. CASE UNCHANGED <<shop, faults>>
    <2>1. TypeOK'
      BY <1>1, <1>4, <1>5 DEF MaintenanceInv, TypeOK, shop
    <2>2. NoOrphans'
      BY <1>5, FewerItems DEF MaintenanceInv, shop
    <2> QED
      BY <1>4, <2>1, <2>2 DEF MaintenanceInv
  <1>6. CASE ~UNCHANGED <<shop, faults>>
    <2>1. /\ \A p \in Products :
               IF p \in run.ids THEN ~InCatalog(p)' /\ images'[p] = NoImages
                                ELSE UNCHANGED <<category[p], images[p]>>
          /\ \A c \in Categories :
               IF c \in run.cats THEN ~IsCategory(c)' ELSE UNCHANGED names[c]
          /\ items' = items \ ItemsIn(run.ids)
          /\ names' \in [Categories -> Names \cup {None, Gone}]
          /\ category' \in [Products -> Categories \cup {None, Gone}]
          /\ images' \in [Products -> Images]
          /\ faults' \in 0..MaxFaults
          /\ \A p \in Products \ run.ids : InCatalog(p) => category[p] \notin run.cats
      BY <1>6, CommitDeletes
    <2>2. TypeOK'
      BY <1>1, <1>4, <2>1 DEF MaintenanceInv, TypeOK
    <2>3. ASSUME NEW p \in Products, p \in run.ids
          PROVE  ~InCatalog(p)' /\ images'[p] = NoImages /\ ItemsIn({p})' = {}
      <3>1. ItemsIn({p})' = {}
        BY <2>1, <2>3 DEF ItemsIn
      <3> QED
        BY <2>1, <2>3, <3>1
    <2>4. ASSUME NEW p \in Products, p \notin run.ids
          PROVE  IF InCatalog(p)' THEN IsCategory(category[p])'
                 ELSE images'[p] = NoImages /\ ItemsIn({p})' = {}
      <3>1. UNCHANGED <<category[p], images[p]>> /\ ItemsIn({p})' \subseteq ItemsIn({p})
        BY <2>1, <2>4 DEF ItemsIn
      <3>2. CASE InCatalog(p)
        <4>1. names'[category[p]] = names[category[p]] /\ IsCategory(category[p])
          BY <2>1, <2>4, <3>2 DEF InCatalog, MaintenanceInv, NoOrphans
        <4> QED
          BY <3>1, <3>2, <4>1 DEF InCatalog, IsCategory
      <3>3. CASE ~InCatalog(p)
        BY <3>1, <3>3 DEF InCatalog, MaintenanceInv, NoOrphans
      <3> QED
        BY <3>2, <3>3
    <2>5. NoOrphans'
      <3>1. NoImages' = NoImages
        BY DEF NoImages
      <3> HIDE DEF NoImages
      <3> QED
        BY <2>3, <2>4, <3>1 DEF NoOrphans
    <2> QED
      BY <1>4, <2>2, <2>5 DEF MaintenanceInv
  <1> QED
    BY <1>5, <1>6

-----------------------------------------------------------------------------
(* Every step keeps the invariant.                                         *)
LEMMA NextInv == MaintenanceInv /\ [Next]_vars => MaintenanceInv'
  <1> SUFFICES ASSUME MaintenanceInv, [Next]_vars PROVE MaintenanceInv'
    OBVIOUS
  <1>1. CASE UNCHANGED vars
    <2>1. TypeOK' /\ UNCHANGED <<shop, rowLock, run, edited>>
      BY <1>1 DEF vars, shop, bounds, MaintenanceInv, TypeOK
    <2> QED
      BY <2>1, FewerItems, SameRun, SameLocks, SameProducts DEF MaintenanceInv, shop
  <1>2. CASE SeedStep
    <2>1. \A p \in SeedProducts : UpsertProduct(p) => MaintenanceInv'
      BY UpsertProductInv
    <2> QED
      BY <1>2, <2>1, UpsertCategoryInv, CategoriesReadyInv, DropImagesInv,
         CreateImageInv DEF SeedStep
  <1>3. CASE CleanStep
    BY <1>3, ListCategoriesInv, ListProductsInv, DeleteItemsInv, DeleteImagesInv,
       PickRowInv, DeleteRowInv, CommitCleanInv DEF CleanStep
  <1>4. CASE RunFails
    <2>1. faults' \in 0..MaxFaults
      BY <1>4, MaintenanceAssumption DEF RunFails, MaintenanceInv, TypeOK
    <2> QED
      BY <1>4, <2>1, RunFailsInv DEF RunFails
  <1>5. CASE BreakDeadlock
    <2>1. CASE EndRun("failed") /\ UNCHANGED <<shop, tx, edited, bounds>>
      <3>1. faults' \in 0..MaxFaults
        BY <2>1 DEF MaintenanceInv, TypeOK, bounds
      <3> QED
        BY <2>1, <3>1, RunFailsInv DEF bounds
    <2>2. ASSUME NEW k \in Checkouts, EndCheckout(k), UNCHANGED <<shop, run, edited, bounds>>
          PROVE  MaintenanceInv'
      BY <2>2, EndCheckoutInv DEF shop
    <2> QED
      BY <1>5, <2>1, <2>2 DEF BreakDeadlock
  <1>6. CASE StartSeed \/ StartClean
    BY <1>6, StartInv DEF StartSeed, StartClean
  <1>7. ASSUME NEW k \in Checkouts, ReadCart(k) \/ CheckoutStep(k) \/ AbortCheckout(k)
        PROVE  MaintenanceInv'
    BY <1>7, ReadCartInv, PickItemInv, DecrementInv, CommitCheckoutInv,
       AbortCheckoutInv DEF CheckoutStep
  <1> QED
    BY <1>1, <1>2, <1>3, <1>4, <1>5, <1>6, <1>7, AddItemInv, RemoveItemInv,
       AdminStepInv DEF Next

(* The inductive invariant holds in every state.                           *)
THEOREM MaintenanceInvariant == Spec => []MaintenanceInv
  <1> QED
    BY InitInv, NextInv, PTL DEF Spec

(* Scripts and checkouts stay within their points, and lists hold ids.     *)
THEOREM MaintenanceTypes == Spec => []TypeOK
  <1>1. MaintenanceInv => TypeOK
    BY DEF MaintenanceInv
  <1> QED
    BY <1>1, MaintenanceInvariant, PTL

(* No product without its category, no image and no cart item without its  *)
(* product, beside any number of checkouts, customers and edits.           *)
THEOREM NothingIsOrphaned == Spec => []NoOrphans
  <1>1. MaintenanceInv => NoOrphans
    BY DEF MaintenanceInv
  <1> QED
    BY <1>1, MaintenanceInvariant, PTL

(* A run of the seed that ends well has stored everything it lists once.   *)
THEOREM SeedStoresItsList == Spec => []SeedConverges
  <1>1. MaintenanceInv => SeedConverges
    BY DEF MaintenanceInv, RunOK, SeedOK, SeedConverges, InSync
  <1> QED
    BY <1>1, MaintenanceInvariant, PTL

(* The cleanup deletes nothing, or all that it has listed and no more.     *)
THEOREM CleanupIsAtomic == Spec => CleanIsAtomic
  <1> DEFINE A == run.kind = "clean" /\ run' # run =>
         \/ UNCHANGED shop
         \/ /\ \A p \in Products :
                 IF p \in run.ids THEN ~InCatalog(p)' ELSE UNCHANGED <<category[p], images[p]>>
            /\ \A c \in Categories :
                 IF c \in run.cats THEN ~IsCategory(c)' ELSE UNCHANGED names[c]
            /\ items' = items \ ItemsIn(run.ids)
  <1>1. ASSUME MaintenanceInv, [Next]_vars PROVE A
    <2> SUFFICES ASSUME run.kind = "clean", run' # run PROVE A
      OBVIOUS
    <2>1. CASE UNCHANGED vars
      BY <2>1 DEF vars
    <2>2. CASE SeedStep
      <3>1. run.pc \in SeedPoints
        BY <2>2 DEF SeedStep, UpsertCategory, CategoriesReady, UpsertProduct,
                    DropImages, CreateImage, SeedPoints
      <3> QED
        BY <1>1, <3>1 DEF MaintenanceInv, RunOK
    <2>3. ASSUME NEW outcome \in {"done", "failed"}, CommitClean(outcome) PROVE A
      <3>1. \/ UNCHANGED <<shop, faults>>
            \/ /\ \A p \in Products :
                    IF p \in run.ids THEN ~InCatalog(p)' /\ images'[p] = NoImages
                                     ELSE UNCHANGED <<category[p], images[p]>>
               /\ \A c \in Categories :
                    IF c \in run.cats THEN ~IsCategory(c)' ELSE UNCHANGED names[c]
               /\ items' = items \ ItemsIn(run.ids)
        BY <1>1, <2>3, CommitDeletes
      <3> QED
        BY <3>1
    <2>4. CASE CleanStep
      BY <2>3, <2>4 DEF CleanStep, ListCategories, ListProducts, DeleteItems,
                        DeleteImages, PickRow, DeleteRow
    <2>5. CASE StartSeed \/ StartClean \/ RunFails \/ BreakDeadlock
      BY <2>5 DEF StartSeed, StartClean, Start, RunFails, BreakDeadlock
    <2>6. ASSUME NEW k \in Checkouts, ReadCart(k) \/ CheckoutStep(k) \/ AbortCheckout(k)
          PROVE  A
      BY <2>6 DEF ReadCart, CheckoutStep, PickItem, Decrement, CommitCheckout, AbortCheckout
    <2>7. ASSUME NEW u \in Users, NEW p \in Products, AddItem(u, p) \/ RemoveItem(u, p)
          PROVE  A
      BY <2>7 DEF AddItem, RemoveItem
    <2>8. CASE AdminStep
      BY <2>8 DEF AdminStep, UpdateProduct, DeleteProduct, DeleteCategory, SetName, Edit
    <2> QED
      BY <1>1, <2>1, <2>2, <2>4, <2>5, <2>6, <2>7, <2>8 DEF Next
  <1>2. MaintenanceInv /\ [Next]_vars => [A]_vars
    BY <1>1
  <1> QED
    BY <1>2, MaintenanceInvariant, PTL DEF Spec, CleanIsAtomic

-----------------------------------------------------------------------------
(* Nobody is stuck                                                         *)

(* Rows are held by transactions that are at work, and a checkout leaves   *)
(* its loop when nothing is left to do.                                    *)
CheckoutsWork ==
    /\ \A p \in Products : rowLock[p] \in Checkouts => IsOpen(rowLock[p])
    /\ \A k \in Checkouts :
         /\ tx[k].pc = "picking" => tx[k].todo # {}
         /\ tx[k].pc = "updating" => tx[k].at \in Products

(* So does the script; and cart items are held by its open transaction.    *)
ScriptWorks ==
    /\ run.pc \in {"products", "deleting items", "deleting images", "picking"} =>
         run.todo # {}
    /\ run.held # {} => run.pc \in {"deleting images"} \cup Deleting

LEMMA EndCheckoutWorks ==
    ASSUME MaintenanceInv, CheckoutsWork, NEW k \in Checkouts, EndCheckout(k)
    PROVE  CheckoutsWork'
  <1>1. /\ tx'[k].pc = "ended"
        /\ \A j \in Checkouts \ {k} : tx'[j] = tx[j]
    BY DEF EndCheckout, MaintenanceInv, TypeOK, Txs
  <1>2. \A p \in Products : rowLock'[p] \in Checkouts => rowLock'[p] = rowLock[p] /\ rowLock[p] # k
    BY ScriptIsSomebody DEF EndCheckout, Unlock
  <1> QED
    BY <1>1, <1>2 DEF CheckoutsWork, IsOpen

LEMMA ScriptLeavesCheckouts ==
    ASSUME CheckoutsWork, UNCHANGED tx,
           \A p \in Products : rowLock'[p] \in {rowLock[p], None, Script}
    PROVE  CheckoutsWork'
  <1> QED
    BY ScriptIsSomebody DEF CheckoutsWork, IsOpen

LEMMA CheckoutStepWorks ==
    ASSUME MaintenanceInv, CheckoutsWork, NEW k \in Checkouts,
           ReadCart(k) \/ CheckoutStep(k) \/ AbortCheckout(k)
    PROVE  CheckoutsWork'
  <1>1. CASE ReadCart(k)
    <2> DEFINE wanted == {i[2] : i \in ItemsOf(tx[k].user)}
    <2>1. /\ tx'[k].pc = IF wanted = {} THEN "ended" ELSE "picking"
          /\ tx'[k].todo = wanted
          /\ \A j \in Checkouts \ {k} : tx'[j] = tx[j]
      BY <1>1 DEF ReadCart, MaintenanceInv, TypeOK, Txs
    <2>2. tx[k].pc = "idle" /\ rowLock' = rowLock
      BY <1>1 DEF ReadCart
    <2> HIDE DEF wanted
    <2> QED
      BY <2>1, <2>2 DEF CheckoutsWork, IsOpen
  <1>2. ASSUME NEW p \in Products, PickItem(k, p)
        PROVE  CheckoutsWork'
    <2>1. /\ tx'[k].pc = "updating" /\ tx'[k].at = p
          /\ \A j \in Checkouts \ {k} : tx'[j] = tx[j]
          /\ rowLock' = rowLock
      BY <1>2 DEF PickItem, MaintenanceInv, TypeOK, Txs
    <2> QED
      BY <2>1 DEF CheckoutsWork, IsOpen
  <1>3. CASE Decrement(k)
    <2> DEFINE left == tx[k].todo \ {tx[k].at}
    <2>1. CASE ~InCatalog(tx[k].at)
      BY <1>3, <2>1, EndCheckoutWorks DEF Decrement
    <2>2. CASE InCatalog(tx[k].at)
      <3> DEFINE point == IF left = {} THEN "creating" ELSE "picking"
      <3>1. tx' = [tx EXCEPT ![k].pc = point, ![k].todo = left, ![k].at = None]
        BY <1>3, <2>2 DEF Decrement
      <3>2. tx \in [Checkouts -> Txs] /\ tx[k] \in Txs
        BY DEF MaintenanceInv, TypeOK
      <3>3. (point = "creating" /\ left = {}) \/ (point = "picking" /\ left # {})
        OBVIOUS
      <3> HIDE DEF left, point
      <3>4. /\ tx'[k].pc = point
            /\ tx'[k].todo = left
            /\ \A j \in Checkouts \ {k} : tx'[j] = tx[j]
        BY <3>1, <3>2 DEF Txs
      <3>5. \A p \in Products : rowLock'[p] \in {rowLock[p], k}
        BY <1>3, <2>2 DEF Decrement, MaintenanceInv, TypeOK
      <3> QED
        BY <3>4, <3>5, <3>3 DEF CheckoutsWork, IsOpen
    <2> QED
      BY <2>1, <2>2
  <1>4. CASE CommitCheckout(k) \/ AbortCheckout(k)
    BY <1>4, EndCheckoutWorks DEF CommitCheckout, AbortCheckout
  <1> QED
    BY <1>1, <1>2, <1>3, <1>4 DEF CheckoutStep

LEMMA ScriptStepWorks ==
    ASSUME MaintenanceInv, CheckoutsWork, ScriptWorks,
           SeedStep \/ CleanStep \/ StartSeed \/ StartClean \/ RunFails
    PROVE  CheckoutsWork' /\ ScriptWorks'
  <1>1. run \in Runs /\ RunOK
    BY DEF MaintenanceInv, TypeOK
  <1>2. ASSUME NEW outcome \in {"done", "failed"}, EndRun(outcome), UNCHANGED tx
        PROVE  CheckoutsWork' /\ ScriptWorks'
    <2>1. \A p \in Products : rowLock'[p] \in {rowLock[p], None}
      BY <1>2 DEF EndRun, Unlock
    <2>2. run'.pc = outcome /\ run'.held = {}
      BY <1>1, <1>2 DEF EndRun, Runs
    <2> QED
      BY <1>2, <2>1, <2>2, ScriptLeavesCheckouts DEF ScriptWorks, Deleting
  <1>3. ASSUME UNCHANGED <<tx, rowLock>> PROVE CheckoutsWork'
    BY <1>3, ScriptLeavesCheckouts
  <1>4. CASE StartSeed \/ StartClean
    <2>1. UNCHANGED <<tx, rowLock>> /\ run'.pc \in {"categories", "listing"} /\ run'.held = {}
      BY <1>4 DEF StartSeed, StartClean, Start, NoRun
    <2> QED
      BY <1>3, <2>1 DEF ScriptWorks
  <1>5. CASE RunFails
    BY <1>2, <1>5 DEF RunFails
  <1>6. CASE SeedStep
    <2>1. ASSUME NEW n \in SeedNames, NEW c \in Categories, UpsertCategory(n, c)
          PROVE  CheckoutsWork' /\ ScriptWorks'
      <3>1. UNCHANGED <<tx, rowLock>> /\ run'.pc = "categories" /\ run'.held = run.held
        BY <1>1, <2>1 DEF UpsertCategory, Runs
      <3> QED
        BY <1>3, <2>1, <3>1 DEF ScriptWorks, UpsertCategory, Deleting
    <2>2. CASE CategoriesReady
      <3>1. /\ UNCHANGED <<tx, rowLock>> /\ run'.pc = "products"
            /\ run'.held = run.held /\ run'.todo = run.todo /\ run.pc = "categories"
        BY <1>1, <2>2 DEF CategoriesReady, Runs
      <3> QED
        BY <1>1, <1>3, <3>1, MaintenanceAssumption DEF ScriptWorks, RunOK, Deleting
    <2>3. ASSUME NEW p \in SeedProducts, UpsertProduct(p)
          PROVE  CheckoutsWork' /\ ScriptWorks'
      <3>1. CASE ~IsCategory(run.found[SeedName[p]])
        BY <1>2, <2>3, <3>1 DEF UpsertProduct
      <3>2. CASE IsCategory(run.found[SeedName[p]])
        <4>1. UNCHANGED <<tx, rowLock>> /\ run'.pc = "images" /\ run'.held = run.held
          BY <1>1, <2>3, <3>2 DEF UpsertProduct, Runs
        <4> QED
          BY <1>3, <2>3, <4>1 DEF ScriptWorks, UpsertProduct, Deleting
      <3> QED
        BY <3>1, <3>2
    <2>4. CASE DropImages
      <3>1. UNCHANGED <<tx, rowLock>> /\ run'.pc = "image" /\ run'.held = run.held
        BY <1>1, <2>4 DEF DropImages, Runs
      <3> QED
        BY <1>3, <2>4, <3>1 DEF ScriptWorks, DropImages, Deleting
    <2>5. CASE CreateImage
      <3> DEFINE left == run.todo \ {run.at}
      <3>1. CASE ~InCatalog(run.at)
        BY <1>2, <2>5, <3>1 DEF CreateImage
      <3>2. CASE InCatalog(run.at)
        <4>1. /\ UNCHANGED <<tx, rowLock>> /\ run'.held = run.held
              /\ run'.pc = IF left = {} THEN "done" ELSE "products"
              /\ run'.todo = left
          BY <1>1, <2>5, <3>2 DEF CreateImage, Runs
        <4> HIDE DEF left
        <4> QED
          BY <1>3, <2>5, <4>1 DEF ScriptWorks, CreateImage, Deleting
      <3> QED
        BY <3>1, <3>2
    <2> QED
      BY <1>6, <2>1, <2>2, <2>3, <2>4, <2>5 DEF SeedStep
  <1>7. CASE CleanStep
    <2>1. CASE ListCategories
      <3>1. UNCHANGED <<tx, rowLock>> /\ run'.pc = "listing products" /\ run'.held = run.held
        BY <1>1, <2>1 DEF ListCategories, Runs
      <3> QED
        BY <1>3, <2>1, <3>1 DEF ScriptWorks, ListCategories, Deleting
    <2>2. ASSUME NEW execute \in BOOLEAN, ListProducts(execute)
          PROVE  CheckoutsWork' /\ ScriptWorks'
      <3> DEFINE ids == {p \in Products :
                           InCatalog(p) /\ (p \in LegacyProducts \/ category[p] \in run.cats)}
      <3>1. /\ UNCHANGED <<tx, rowLock>> /\ run'.held = run.held /\ run'.todo = ids
            /\ \/ run'.pc \in {"done", "committing"}
               \/ run'.pc = "deleting items" /\ ids # {}
        BY <1>1, <2>2 DEF ListProducts, Runs
      <3> HIDE DEF ids
      <3>2. run.held = {}
        BY <2>2 DEF ScriptWorks, ListProducts, Deleting
      <3> QED
        BY <1>3, <3>1, <3>2 DEF ScriptWorks, Deleting
    <2>3. CASE DeleteItems \/ DeleteImages
      <3>1. /\ UNCHANGED <<tx, rowLock>> /\ run'.todo = run.todo
            /\ run'.pc \in {"deleting images", "picking"}
            /\ run.pc \in {"deleting items", "deleting images"}
        BY <1>1, <2>3 DEF DeleteItems, DeleteImages, Runs
      <3> QED
        BY <1>3, <3>1 DEF ScriptWorks, Deleting
    <2>4. ASSUME NEW p \in Products, PickRow(p)
          PROVE  CheckoutsWork' /\ ScriptWorks'
      <3>1. UNCHANGED <<tx, rowLock>> /\ run'.pc = "deleting" /\ run'.held = run.held
        BY <1>1, <2>4 DEF PickRow, Runs
      <3> QED
        BY <1>3, <3>1 DEF ScriptWorks, Deleting
    <2>5. CASE DeleteRow
      <3>1. \A p \in Products : rowLock'[p] \in {rowLock[p], Script}
        BY <2>5 DEF DeleteRow, MaintenanceInv, TypeOK
      <3>2. /\ run'.held = run.held /\ run'.todo = run.todo
            /\ run'.pc = IF run.todo = {} THEN "committing" ELSE "picking"
        BY <1>1, <2>5 DEF DeleteRow, NextRow, Runs
      <3> QED
        BY <2>5, <3>1, <3>2, ScriptLeavesCheckouts DEF ScriptWorks, DeleteRow, Deleting
    <2>6. ASSUME NEW outcome \in {"done", "failed"}, CommitClean(outcome)
          PROVE  CheckoutsWork' /\ ScriptWorks'
      BY <1>2, <2>6 DEF CommitClean
    <2> QED
      BY <1>7, <2>1, <2>2, <2>3, <2>4, <2>5, <2>6 DEF CleanStep
  <1> QED
    BY <1>4, <1>5, <1>6, <1>7

LEMMA WorkStep ==
    ASSUME MaintenanceInv, CheckoutsWork, ScriptWorks, [Next]_vars
    PROVE  CheckoutsWork' /\ ScriptWorks'
  <1>1. ASSUME UNCHANGED run PROVE ScriptWorks'
    BY <1>1 DEF ScriptWorks, Deleting
  <1>2. ASSUME UNCHANGED <<tx, rowLock>> PROVE CheckoutsWork'
    BY <1>2, ScriptLeavesCheckouts
  <1>3. CASE SeedStep \/ CleanStep \/ StartSeed \/ StartClean \/ RunFails
    BY <1>3, ScriptStepWorks
  <1>4. ASSUME NEW k \in Checkouts, ReadCart(k) \/ CheckoutStep(k) \/ AbortCheckout(k)
        PROVE  CheckoutsWork' /\ ScriptWorks'
    <2>1. UNCHANGED run
      BY <1>4 DEF ReadCart, CheckoutStep, PickItem, Decrement, CommitCheckout, AbortCheckout
    <2> QED
      BY <1>1, <1>4, <2>1, CheckoutStepWorks
  <1>5. CASE BreakDeadlock
    <2>1. CASE EndRun("failed") /\ UNCHANGED tx
      <3>1. \A p \in Products : rowLock'[p] \in {rowLock[p], None}
        BY <2>1 DEF EndRun, Unlock
      <3>2. run'.pc = "failed" /\ run'.held = {}
        BY <2>1 DEF EndRun, MaintenanceInv, TypeOK, Runs
      <3> QED
        BY <2>1, <3>1, <3>2, ScriptLeavesCheckouts DEF ScriptWorks
    <2>2. CASE \E k \in Checkouts : EndCheckout(k) /\ UNCHANGED run
      BY <1>1, <2>2, EndCheckoutWorks
    <2> QED
      BY <1>5, <2>1, <2>2 DEF BreakDeadlock
  <1>6. ASSUME NEW u \in Users, NEW p \in Products, AddItem(u, p) \/ RemoveItem(u, p)
        PROVE  CheckoutsWork' /\ ScriptWorks'
    BY <1>1, <1>2, <1>6 DEF AddItem, RemoveItem
  <1>7. CASE AdminStep
    BY <1>1, <1>2, <1>7 DEF AdminStep, UpdateProduct, DeleteProduct, DeleteCategory, SetName, Edit
  <1>8. CASE UNCHANGED vars
    BY <1>1, <1>2, <1>8 DEF vars
  <1> QED
    BY <1>3, <1>4, <1>5, <1>6, <1>7, <1>8 DEF Next

(* Whoever is at work and cannot go on waits for somebody at work, and     *)
(* never for the seed, which holds nothing.                                *)
LEMMA WaitsForWork ==
    ASSUME MaintenanceInv, CheckoutsWork, ScriptWorks,
           NEW x \in Checkouts \cup {Script}, AtWork(x), ~CanGoOn(x)
    PROVE  /\ Awaited(x) # {}
           /\ \A y \in Awaited(x) :
                y \in Checkouts \cup {Script} /\ AtWork(y)
                /\ ~(y = Script /\ run.pc = "products")
  <1>1. /\ run \in Runs /\ RunOK /\ LocksOK
        /\ rowLock \in [Products -> Checkouts \cup {Script, None}]
        /\ tx \in [Checkouts -> Txs]
    BY DEF MaintenanceInv, TypeOK
  <1>2. ASSUME NEW p \in Products, rowLock[p] # None
        PROVE  /\ rowLock[p] \in Checkouts \cup {Script} /\ AtWork(rowLock[p])
               /\ ~(rowLock[p] = Script /\ run.pc = "products")
    <2>1. CASE rowLock[p] = Script
      BY <1>1, <2>1 DEF LocksOK, AtWork, IsRunning, Deleting
    <2>2. CASE rowLock[p] # Script
      BY <1>1, <1>2, <2>2, ScriptIsSomebody DEF CheckoutsWork, AtWork
    <2> QED
      BY <2>1, <2>2
  <1>3. CASE x = Script
    <2>1. CASE run.pc = "products"
      <3>1. run.todo # {} /\ run.todo \subseteq Products
        BY <1>1, <2>1 DEF ScriptWorks, Runs
      <3>2. \A p \in run.todo : rowLock[p] # None
        BY <1>3, <2>1 DEF CanGoOn, AtWork, IsRunning
      <3> QED
        BY <1>2, <1>3, <2>1, <3>1, <3>2 DEF Awaited
    <2>2. CASE run.pc = "deleting"
      <3>1. run.at \in Products
        BY <1>1, <2>2 DEF RunOK, Runs
      <3>2. rowLock[run.at] # None
        BY <1>3, <2>2 DEF CanGoOn, AtWork
      <3> QED
        BY <1>2, <1>3, <2>2, <3>1, <3>2 DEF Awaited, WaitsFor
    <2>3. CASE run.pc \notin {"products", "deleting"}
      BY <1>3, <2>3 DEF CanGoOn, AtWork, ScriptWorks
    <2> QED
      BY <2>1, <2>2, <2>3
  <1>4. CASE x # Script
    <2>1. x \in Checkouts /\ tx[x].pc \in {"picking", "updating", "creating"}
      BY <1>1, <1>4 DEF AtWork, IsOpen, Txs, CheckoutPoints
    <2>2. CASE tx[x].pc = "picking"
      BY <1>4, <2>1, <2>2 DEF CanGoOn, CheckoutsWork
    <2>3. CASE tx[x].pc = "updating"
      <3>1. tx[x].at \in Products
        BY <2>1, <2>3 DEF CheckoutsWork
      <3>2. InCatalog(tx[x].at) /\ rowLock[tx[x].at] # None
        BY <1>4, <2>3 DEF CanGoOn
      <3>3. Awaited(x) = {rowLock[tx[x].at]}
        BY <1>4, <2>3, <3>2 DEF Awaited, WaitsFor
      <3> QED
        BY <1>2, <3>1, <3>2, <3>3
    <2>4. CASE tx[x].pc = "creating"
      <3>1. ItemsOf(tx[x].user) \cap run.held # {}
        BY <1>4, <2>4 DEF CanGoOn
      <3>2. Awaited(x) = {Script}
        BY <1>4, <2>4, <3>1 DEF Awaited, WaitsFor
      <3>3. run.pc \in {"deleting images"} \cup Deleting
        BY <3>1 DEF ScriptWorks
      <3> QED
        BY <3>2, <3>3 DEF AtWork, IsRunning, Deleting
    <2> QED
      BY <2>1, <2>2, <2>3, <2>4
  <1> QED
    BY <1>3, <1>4

(* Checkouts lock rows and then cart items, the cleanup the other way      *)
(* round, and the seed waits for rows: among any of them and those they    *)
(* wait for, one can go on or PostgreSQL breaks a cycle                    *)
(* (clean-old-catalog.ts:150-178, prisma-order.repository.ts:31-64).       *)
THEOREM NobodyWaitsForEver == Spec => []SomebodyRuns
  <1>1. ASSUME MaintenanceInv, CheckoutsWork, ScriptWorks PROVE SomebodyRuns
    <2> SUFFICES ASSUME NEW S \in SUBSET (Checkouts \cup {Script}),
                        NEW x \in S, AtWork(x), \A y \in S : Awaited(y) \subseteq S,
                        \A y \in S : ~CanGoOn(y)
                 PROVE  \E y \in S : Deadlocked(y)
      BY DEF SomebodyRuns
    <2> DEFINE T == {y \in S : AtWork(y) /\ ~(y = Script /\ run.pc = "products")}
    <2>1. ASSUME NEW y \in S, AtWork(y)
          PROVE  Awaited(y) # {} /\ Awaited(y) \subseteq T
      BY <1>1, <2>1, WaitsForWork
    <2>2. PICK z : z \in T
      BY <2>1
    <2>3. ASSUME NEW y \in T PROVE WaitsFor(y) # {} /\ WaitsFor(y) \subseteq T
      BY <2>1, <2>3 DEF Awaited
    <2>4. T \in SUBSET (Checkouts \cup {Script})
      OBVIOUS
    <2>5. Deadlocked(z)
      BY <2>2, <2>3, <2>4 DEF Deadlocked
    <2> QED
      BY <2>2, <2>5
  <1>2. Init => CheckoutsWork /\ ScriptWorks
    <2> SUFFICES ASSUME Init PROVE CheckoutsWork /\ ScriptWorks
      OBVIOUS
    <2>1. \A k \in Checkouts : tx[k].pc = "idle"
      BY DEF Init
    <2> QED
      BY <2>1, ScriptIsSomebody DEF Init, CheckoutsWork, ScriptWorks, NoRun
  <1>3. MaintenanceInv /\ CheckoutsWork /\ ScriptWorks /\ [Next]_vars =>
          (CheckoutsWork /\ ScriptWorks)'
    BY WorkStep
  <1> QED
    BY <1>1, <1>2, <1>3, MaintenanceInvariant, PTL DEF Spec
=============================================================================

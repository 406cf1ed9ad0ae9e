---------------------------- MODULE Maintenance ----------------------------
(***************************************************************************)
(* The operator's scripts, prisma/seed.ts and prisma/clean-old-catalog.ts, *)
(* beside a running shop.                                                  *)
(*                                                                         *)
(* The seed is a list of statements, each of which commits: it may stop    *)
(* anywhere and is run again.  The cleanup lists what it will delete and   *)
(* then deletes it in one transaction, whose statements lock rows that     *)
(* checkouts lock in another order.  What its open transaction has deleted *)
(* is still there for everybody else, who wait for those rows.  The        *)
(* operator runs one script at a time.                                     *)
(***************************************************************************)
EXTENDS Naturals

CONSTANTS
    Products,
    Categories,      \* their ids, given out in order
    Names,           \* names of categories
    LegacyNames,     \* legacyCategoryNames
    LegacyProducts,  \* the ids that start with seed-prod-
    SeedProducts,    \* furnitureProducts, whose ids are fixed
    SeedName,        \* the name of each one's category
    Users,
    Checkouts,       \* each runs once
    Script,          \* the script as the holder of a row
    MaxRuns,         \* bound: runs of scripts
    MaxEdits,        \* bound: edits by the administrator
    MaxFaults,       \* bound: failures of scripts
    None,            \* null; also an id that is not in use yet
    Gone             \* an id that has been deleted

ASSUME MaintenanceAssumption ==
    /\ Categories \subseteq Nat
    /\ LegacyNames \subseteq Names
    /\ SeedProducts \subseteq Products
    /\ SeedProducts # {}
    /\ SeedName \in [SeedProducts -> Names]
    /\ {None, Gone} \cap (Products \cup Categories \cup Names) = {}
    /\ {None, Script} \cap Checkouts = {}
    /\ None # Script
    /\ {MaxRuns, MaxEdits, MaxFaults} \subseteq Nat

VARIABLES
    names,      \* Category.name
    category,   \* Product.categoryId
    images,     \* the rows of ProductImage, by product
    items,      \* the rows of CartItem, as pairs of a user and a product
    rowLock,    \* who holds the product's row
    tx,         \* the local variables and the program point of each checkout
    run,        \* those of the script
    edited,     \* history: products edited since the last seed began
    runs, edits, faults

shop == <<names, category, images, items>>
bounds == <<runs, edits, faults>>
vars == <<shop, rowLock, tx, run, edited, bounds>>

-----------------------------------------------------------------------------
SeedNames == {SeedName[p] : p \in SeedProducts}

(* How many images of a product are the seed's, and whether it has others. *)
Images == [seeded : Nat, own : BOOLEAN]
NoImages == [seeded |-> 0, own |-> FALSE]

CheckoutPoints == {"idle", "picking", "updating", "creating", "ended"}
Txs == [ pc : CheckoutPoints, user : Users, todo : SUBSET Products,
         at : Products \cup {None} ]

SeedPoints == {"categories", "products", "images", "image"}
CleanPoints == {"listing", "listing products", "deleting items",
                "deleting images", "picking", "deleting", "committing"}

(* found: the seed's categories; cats, ids: what is to be deleted; held:   *)
(* the cart items that the transaction has deleted.                        *)
Runs == [ pc : SeedPoints \cup CleanPoints \cup {"idle", "done", "failed"},
          kind : {"none", "seed", "clean"},
          found : [SeedNames -> Categories \cup {None}],
          cats : SUBSET Categories,
          ids : SUBSET Products,
          todo : SUBSET Products,
          at : Products \cup {None},
          held : SUBSET (Users \X Products) ]

NoRun == [ pc |-> "idle", kind |-> "none", found |-> [n \in SeedNames |-> None],
           cats |-> {}, ids |-> {}, todo |-> {}, at |-> None, held |-> {} ]

TypeOK ==
    /\ names \in [Categories -> Names \cup {None, Gone}]
    /\ category \in [Products -> Categories \cup {None, Gone}]
    /\ images \in [Products -> Images]
    /\ items \subseteq Users \X Products
    /\ rowLock \in [Products -> Checkouts \cup {Script, None}]
    /\ tx \in [Checkouts -> Txs]
    /\ run \in Runs
    /\ edited \subseteq Products
    /\ runs \in 0..MaxRuns
    /\ edits \in 0..MaxEdits
    /\ faults \in 0..MaxFaults

InCatalog(p) == category[p] \in Categories
IsCategory(c) == names[c] \in Names
IsFree(n) == \A c \in Categories : names[c] # n
IsNext(c) == names[c] = None /\ \A d \in Categories : d < c => names[d] # None
ItemsOf(u) == {i \in items : i[1] = u}
ItemsIn(S) == {i \in items : i[2] \in S}
Held(x) == {p \in Products : rowLock[p] = x}
Unlock(x) == [p \in Products |-> IF rowLock[p] = x THEN None ELSE rowLock[p]]

Init ==
    /\ names \in [Categories -> Names \cup {None}]
    /\ \A c, d \in Categories :
         /\ c # d => names[c] # names[d] \/ names[c] = None
         /\ c < d /\ names[c] = None => names[d] = None
    /\ category \in [Products -> Categories \cup {None}]
    /\ \A p \in Products : InCatalog(p) => IsCategory(category[p])
    /\ images = [p \in Products |-> [NoImages EXCEPT !.own = InCatalog(p)]]
    /\ items \in SUBSET (Users \X {p \in Products : InCatalog(p)})
    /\ rowLock = [p \in Products |-> None]
    /\ tx \in [Checkouts -> [pc : {"idle"}, user : Users, todo : {{}}, at : {None}]]
    /\ run = NoRun
    /\ edited = {}
    /\ runs = 0 /\ edits = 0 /\ faults = 0

-----------------------------------------------------------------------------
(* Starting a script, and its end                                          *)

IsRunning == run.pc \notin {"idle", "done", "failed"}

Start(kind, pc, todo) ==
    /\ ~IsRunning
    /\ runs < MaxRuns
    /\ runs' = runs + 1
    /\ run' = [NoRun EXCEPT !.pc = pc, !.kind = kind, !.todo = todo]
    /\ UNCHANGED <<shop, rowLock, tx, edits, faults>>

StartSeed == Start("seed", "categories", SeedProducts) /\ edited' = {}
StartClean == Start("clean", "listing", {}) /\ UNCHANGED edited

(* The end of the script: its transaction, if it has one, gives up.        *)
EndRun(outcome) ==
    /\ run' = [run EXCEPT !.pc = outcome, !.held = {}]
    /\ rowLock' = Unlock(Script)

(* A call fails, or the process dies.                                      *)
RunFails ==
    /\ IsRunning
    /\ faults < MaxFaults
    /\ faults' = faults + 1
    /\ EndRun("failed")
    /\ UNCHANGED <<shop, tx, edited, runs, edits>>

-----------------------------------------------------------------------------
(* seed.ts                                                                 *)

(* category.upsert by name, all at once.                                   *)
UpsertCategory(n, c) ==
    /\ run.pc = "categories"
    /\ run.found[n] = None
    /\ names[c] = n \/ (IsFree(n) /\ IsNext(c))
    /\ names' = [names EXCEPT ![c] = n]
    /\ run' = [run EXCEPT !.found[n] = c]
    /\ UNCHANGED <<category, images, items, rowLock, tx, edited, bounds>>

CategoriesReady ==
    /\ run.pc = "categories"
    /\ \A n \in SeedNames : run.found[n] # None
    /\ run' = [run EXCEPT !.pc = "products"]
    /\ UNCHANGED <<shop, rowLock, tx, edited, bounds>>

(* product.upsert by its fixed id; the category may be gone (P2003).       *)
UpsertProduct(p) ==
    LET c == run.found[SeedName[p]]
    IN  /\ run.pc = "products"
        /\ p \in run.todo
        /\ rowLock[p] = None
        /\ IF IsCategory(c)
           THEN /\ category' = [category EXCEPT ![p] = c]
                /\ run' = [run EXCEPT !.pc = "images", !.at = p]
                /\ UNCHANGED rowLock
           ELSE EndRun("failed") /\ UNCHANGED category
        /\ UNCHANGED <<names, images, items, tx, edited, bounds>>

(* Mutant of DropImages: only a product with other images needs it.        *)
DropImagesOfOthers ==
    /\ run.pc = "images"
    /\ images' = [images EXCEPT ![run.at] = IF @.own THEN NoImages ELSE @]
    /\ run' = [run EXCEPT !.pc = "image"]
    /\ UNCHANGED <<names, category, items, rowLock, tx, edited, bounds>>

(* productImage.deleteMany.                                                *)
DropImages ==
    /\ run.pc = "images"
    /\ images' = [images EXCEPT ![run.at] = NoImages]
    /\ run' = [run EXCEPT !.pc = "image"]
    /\ UNCHANGED <<names, category, items, rowLock, tx, edited, bounds>>

(* productImage.create; the product may be gone (P2003).                   *)
CreateImage ==
    LET left == run.todo \ {run.at}
    IN  /\ run.pc = "image"
        /\ IF InCatalog(run.at)
           THEN /\ images' = [images EXCEPT ![run.at].seeded = @ + 1]
                /\ run' = [run EXCEPT !.pc = IF left = {} THEN "done" ELSE "products",
                                      !.todo = left, !.at = None]
                /\ UNCHANGED rowLock
           ELSE EndRun("failed") /\ UNCHANGED images
        /\ UNCHANGED <<names, category, items, tx, edited, bounds>>

SeedStep ==
    \/ \E n \in SeedNames, c \in Categories : UpsertCategory(n, c)
    \/ CategoriesReady
    \/ \E p \in SeedProducts : UpsertProduct(p)
    \/ DropImages
    \/ CreateImage

-----------------------------------------------------------------------------
(* clean-old-catalog.ts                                                    *)

(* Mutant of ListCategories: it remembers names instead of ids.            *)
ListCategoryNames ==
    /\ run.pc = "listing"
    /\ run' = [run EXCEPT !.pc = "listing products",
                          !.cats = {names[c] : c \in Categories} \cap LegacyNames]
    /\ UNCHANGED <<shop, rowLock, tx, edited, bounds>>

ListCategories ==
    /\ run.pc = "listing"
    /\ run' = [run EXCEPT !.pc = "listing products",
                          !.cats = {c \in Categories : names[c] \in LegacyNames}]
    /\ UNCHANGED <<shop, rowLock, tx, edited, bounds>>

(* The preview; without --execute the script ends here.                    *)
ListProducts(execute) ==
    LET ids == {p \in Products :
                  InCatalog(p) /\ (p \in LegacyProducts \/ category[p] \in run.cats)}
    IN  /\ run.pc = "listing products"
        /\ run' = [run EXCEPT !.ids = ids, !.todo = ids,
                     !.pc = IF ~execute THEN "done"
                            ELSE IF ids = {} THEN "committing" ELSE "deleting items"]
        /\ UNCHANGED <<shop, rowLock, tx, edited, bounds>>

DeleteItems ==
    /\ run.pc = "deleting items"
    /\ run' = [run EXCEPT !.pc = "deleting images", !.held = ItemsIn(run.ids)]
    /\ UNCHANGED <<shop, rowLock, tx, edited, bounds>>

DeleteImages ==
    /\ run.pc = "deleting images"
    /\ run' = [run EXCEPT !.pc = "picking"]
    /\ UNCHANGED <<shop, rowLock, tx, edited, bounds>>

(* product.deleteMany locks one row after the other, in any order.         *)
PickRow(p) ==
    /\ run.pc = "picking"
    /\ p \in run.todo
    /\ run' = [run EXCEPT !.pc = "deleting", !.at = p, !.todo = @ \ {p}]
    /\ UNCHANGED <<shop, rowLock, tx, edited, bounds>>

NextRow == [run EXCEPT !.pc = IF run.todo = {} THEN "committing" ELSE "picking",
                       !.at = None]

(* Mutant of DeleteRow: the statements run outside a transaction.          *)
DeleteRowAtOnce ==
    /\ run.pc = "deleting"
    /\ rowLock[run.at] = None
    /\ category' = [category EXCEPT ![run.at] =
                      IF @ \in Categories THEN Gone ELSE @]
    /\ images' = [images EXCEPT ![run.at] = NoImages]
    /\ items' = items \ ItemsIn({run.at})
    /\ run' = NextRow
    /\ UNCHANGED <<names, rowLock, tx, edited, bounds>>

(* A row that is gone by now is not an error.                              *)
DeleteRow ==
    LET p == run.at
    IN  /\ run.pc = "deleting"
        /\ rowLock[p] = None
        /\ rowLock' = IF InCatalog(p) THEN [rowLock EXCEPT ![p] = Script] ELSE rowLock
        /\ run' = NextRow
        /\ UNCHANGED <<shop, tx, edited, bounds>>

(* Mutant of Dependants: only the items the first statement has deleted.   *)
DependantsSeen(S) == {i \in items : i \in run.held}

(* The cart items that go with the products: also those that were added    *)
(* after the script's own statement, by the foreign key's cascade.         *)
Dependants(S) == ItemsIn(S)

(* category.deleteMany, which a product of theirs that the script does not *)
(* delete makes fail (P2003), and the commit, whose answer may be lost.    *)
CommitClean(outcome) ==
    LET left == {p \in Products : InCatalog(p)} \ Held(Script)
    IN  /\ run.pc = "committing"
        /\ IF \E p \in left : category[p] \in run.cats
           THEN /\ EndRun("failed")
                /\ UNCHANGED <<shop, faults>>
           ELSE /\ names' = [c \in Categories |->
                     IF c \in run.cats /\ IsCategory(c) THEN Gone ELSE names[c]]
                /\ category' = [p \in Products |->
                     IF p \in Held(Script) THEN Gone ELSE category[p]]
                /\ images' = [p \in Products |->
                     IF p \in Held(Script) THEN NoImages ELSE images[p]]
                /\ items' = items \ Dependants(Held(Script))
                /\ faults' = IF outcome = "failed" THEN faults + 1 ELSE faults
                /\ faults' =< MaxFaults
                /\ EndRun(outcome)
        /\ UNCHANGED <<tx, edited, runs, edits>>

CleanStep ==
    \/ ListCategories
    \/ \E execute \in BOOLEAN : ListProducts(execute)
    \/ DeleteItems
    \/ DeleteImages
    \/ \E p \in Products : PickRow(p)
    \/ DeleteRow
    \/ \E outcome \in {"done", "failed"} : CommitClean(outcome)

-----------------------------------------------------------------------------
(* Checkouts, as far as they meet the scripts (see Checkout)               *)

IsOpen(k) == tx[k].pc \notin {"idle", "ended"}

(* Mutant of EndCheckout: the transaction is never ended.                  *)
EndCheckoutOpen(k) ==
    /\ tx' = [tx EXCEPT ![k] = [@ EXCEPT !.pc = "ended", !.todo = {}, !.at = None]]
    /\ UNCHANGED rowLock

EndCheckout(k) ==
    /\ tx' = [tx EXCEPT ![k] = [@ EXCEPT !.pc = "ended", !.todo = {}, !.at = None]]
    /\ rowLock' = Unlock(k)

ReadCart(k) ==
    LET wanted == {i[2] : i \in ItemsOf(tx[k].user)}
    IN  /\ tx[k].pc = "idle"
        /\ tx' = [tx EXCEPT ![k].pc = IF wanted = {} THEN "ended" ELSE "picking",
                            ![k].todo = wanted]
        /\ UNCHANGED <<shop, rowLock, run, edited, bounds>>

PickItem(k, p) ==
    /\ tx[k].pc = "picking"
    /\ p \in tx[k].todo
    /\ tx' = [tx EXCEPT ![k].pc = "updating", ![k].at = p]
    /\ UNCHANGED <<shop, rowLock, run, edited, bounds>>

Decrement(k) ==
    LET left == tx[k].todo \ {tx[k].at}
    IN  /\ tx[k].pc = "updating"
        /\ IF InCatalog(tx[k].at)
           THEN /\ rowLock[tx[k].at] = None
                /\ rowLock' = [rowLock EXCEPT ![tx[k].at] = k]
                /\ tx' = [tx EXCEPT
                     ![k].pc = IF left = {} THEN "creating" ELSE "picking",
                     ![k].todo = left, ![k].at = None]
           ELSE EndCheckout(k)
        /\ UNCHANGED <<shop, run, edited, bounds>>

(* cartItem.deleteMany waits for the items the script has deleted.         *)
CommitCheckout(k) ==
    /\ tx[k].pc = "creating"
    /\ ItemsOf(tx[k].user) \cap run.held = {}
    /\ items' = items \ ItemsOf(tx[k].user)
    /\ EndCheckout(k)
    /\ UNCHANGED <<names, category, images, run, edited, bounds>>

(* No stock, a failure or the time limit of the transaction.               *)
AbortCheckout(k) ==
    /\ IsOpen(k)
    /\ EndCheckout(k)
    /\ UNCHANGED <<shop, run, edited, bounds>>

CheckoutStep(k) ==
    \/ \E p \in Products : PickItem(k, p)
    \/ Decrement(k)
    \/ CommitCheckout(k)

-----------------------------------------------------------------------------
(* PostgreSQL finds a cycle of transactions that wait for each other and   *)
(* aborts one of them.                                                     *)

WaitsFor(x) ==
    IF x = Script
    THEN IF run.pc = "deleting" THEN {rowLock[run.at]} \ {None} ELSE {}
    ELSE CASE tx[x].pc = "updating" /\ InCatalog(tx[x].at) -> {rowLock[tx[x].at]} \ {None}
           [] tx[x].pc = "creating" /\ ItemsOf(tx[x].user) \cap run.held # {} -> {Script}
           [] OTHER -> {}

Deadlocked(x) ==
    \E S \in SUBSET (Checkouts \cup {Script}) :
        x \in S /\ \A y \in S : WaitsFor(y) # {} /\ WaitsFor(y) \subseteq S

BreakDeadlock ==
    \/ /\ Deadlocked(Script)
       /\ EndRun("failed")
       /\ UNCHANGED <<shop, tx, edited, bounds>>
    \/ \E k \in Checkouts :
         /\ Deadlocked(k)
         /\ EndCheckout(k)
         /\ UNCHANGED <<shop, run, edited, bounds>>

-----------------------------------------------------------------------------
(* Customers and the administrator: single statements                      *)

(* The item's foreign key waits for a product that is being deleted.       *)
AddItem(u, p) ==
    /\ InCatalog(p)
    /\ rowLock[p] # Script
    /\ <<u, p>> \notin items
    /\ items' = items \cup {<<u, p>>}
    /\ UNCHANGED <<names, category, images, rowLock, tx, run, edited, bounds>>

RemoveItem(u, p) ==
    /\ <<u, p>> \in items \ run.held
    /\ items' = items \ {<<u, p>>}
    /\ UNCHANGED <<names, category, images, rowLock, tx, run, edited, bounds>>

Edit(S) ==
    /\ edits < MaxEdits
    /\ edits' = edits + 1
    /\ edited' = edited \cup S
    /\ UNCHANGED <<rowLock, tx, run, runs, faults>>

(* An update that moves a product or gives it new images, and then waits   *)
(* for the rows of its images, too.  A product created in a category is    *)
(* to the scripts what one moved into it is.                               *)
UpdateProduct(p, c, replace) ==
    /\ InCatalog(p)
    /\ rowLock[p] = None
    /\ IsCategory(c)
    /\ category' = [category EXCEPT ![p] = c]
    /\ replace => ~(p \in run.ids /\ run.pc \in {"picking", "deleting", "committing"})
    /\ images' = IF replace THEN [images EXCEPT ![p] = [NoImages EXCEPT !.own = TRUE]]
                            ELSE images
    /\ Edit({p})
    /\ UNCHANGED <<names, items>>

DeleteProduct(p) ==
    /\ InCatalog(p)
    /\ rowLock[p] = None
    /\ ItemsIn({p}) \cap run.held = {}
    /\ category' = [category EXCEPT ![p] = Gone]
    /\ images' = [images EXCEPT ![p] = NoImages]
    /\ items' = items \ ItemsIn({p})
    /\ Edit({p})
    /\ UNCHANGED names

SetName(c, n) ==
    /\ IsCategory(c) \/ IsNext(c)
    /\ IsFree(n)
    /\ names' = [names EXCEPT ![c] = n]
    /\ Edit({})
    /\ UNCHANGED <<category, images, items>>

DeleteCategory(c) ==
    /\ IsCategory(c)
    /\ \A p \in Products : category[p] # c
    /\ names' = [names EXCEPT ![c] = Gone]
    /\ Edit({})
    /\ UNCHANGED <<category, images, items>>

AdminStep ==
    \/ \E p \in Products, c \in Categories, replace \in BOOLEAN :
         UpdateProduct(p, c, replace)
    \/ \E p \in Products : DeleteProduct(p)
    \/ \E c \in Categories : DeleteCategory(c) \/ \E n \in Names : SetName(c, n)

-----------------------------------------------------------------------------
Next ==
    \/ StartSeed \/ StartClean \/ SeedStep \/ CleanStep \/ RunFails
    \/ \E k \in Checkouts : ReadCart(k) \/ CheckoutStep(k) \/ AbortCheckout(k)
    \/ BreakDeadlock
    \/ \E u \in Users, p \in Products : AddItem(u, p) \/ RemoveItem(u, p)
    \/ AdminStep

Spec == Init /\ [][Next]_vars

(* Scripts and checkouts go on once begun, and PostgreSQL looks for        *)
(* deadlocks; nobody owes the system a run, an edit or a failure.          *)
Fairness ==
    /\ WF_vars(SeedStep) /\ WF_vars(CleanStep) /\ WF_vars(BreakDeadlock)
    /\ \A k \in Checkouts : WF_vars(CheckoutStep(k))

FairSpec == Spec /\ Fairness

-----------------------------------------------------------------------------
(* Properties                                                              *)

(* No product without its category, no image and no cart item without its  *)
(* product, whatever is added while the cleanup deletes statement after    *)
(* statement (clean-old-catalog.ts:150-178).                               *)
NoOrphans ==
    \A p \in Products :
      IF InCatalog(p) THEN IsCategory(category[p])
      ELSE images[p] = NoImages /\ ItemsIn({p}) = {}

(* "Runs actual deletions inside an atomic transaction" (:23): a step of   *)
(* the cleanup removes nothing, or every product and category it has       *)
(* listed, with the items of those products and nothing else, although     *)
(* products and categories change between its list and its statements.     *)
CleanIsAtomic ==
    [][run.kind = "clean" /\ run' # run =>
         \/ UNCHANGED shop
         \/ /\ \A p \in Products :
                 IF p \in run.ids THEN ~InCatalog(p)' ELSE UNCHANGED <<category[p], images[p]>>
            /\ \A c \in Categories :
                 IF c \in run.cats THEN ~IsCategory(c)' ELSE UNCHANGED names[c]
            /\ items' = items \ ItemsIn(run.ids)]_vars

(* "Upsert all furniture products idempotently", "Ensure product image is  *)
(* in sync" (seed.ts:375,396): once a run ends well, every product of the  *)
(* list that nobody has edited since it began is in the run's category and *)
(* has the seed's image once, whatever earlier runs have left half done.   *)
SeedConverges ==
    run.kind = "seed" /\ run.pc = "done" =>
      \A p \in SeedProducts \ edited :
        /\ category[p] = run.found[SeedName[p]]
        /\ images[p] = [seeded |-> 1, own |-> FALSE]

(* Nobody is stuck: of a script or a checkout, those it waits for, those   *)
(* they wait for and so on, one can run its next statement, or is in a     *)
(* cycle that PostgreSQL breaks.  The seed commits every statement, so it  *)
(* waits for rows, but nobody for it; ids of categories do not run out.    *)
AtWork(x) == IF x = Script THEN IsRunning ELSE IsOpen(x)

Awaited(x) ==
    IF x = Script /\ run.pc = "products" THEN {rowLock[p] : p \in run.todo}
                                         ELSE WaitsFor(x)

CanGoOn(x) ==
    /\ AtWork(x)
    /\ IF x = Script
       THEN CASE run.pc = "products" -> \E p \in run.todo : rowLock[p] = None
              [] run.pc = "picking" -> run.todo # {}
              [] run.pc = "deleting" -> rowLock[run.at] = None
              [] OTHER -> TRUE
       ELSE CASE tx[x].pc = "picking" -> tx[x].todo # {}
              [] tx[x].pc = "updating" -> InCatalog(tx[x].at) => rowLock[tx[x].at] = None
              [] tx[x].pc = "creating" -> ItemsOf(tx[x].user) \cap run.held = {}

SomebodyRuns ==
    \A S \in SUBSET (Checkouts \cup {Script}) :
        (\E x \in S : AtWork(x)) /\ (\A x \in S : Awaited(x) \subseteq S) =>
            \E x \in S : CanGoOn(x) \/ Deadlocked(x)

(* Scripts and checkouts that wait for each other's rows all end.          *)
EverybodyEnds ==
    /\ IsRunning ~> ~IsRunning
    /\ \A k \in Checkouts : IsOpen(k) ~> ~IsOpen(k)
=============================================================================

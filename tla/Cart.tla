-------------------------------- MODULE Cart --------------------------------
(***************************************************************************)
(* The cart service (cart.service.ts, prisma-cart.repository.ts).          *)
(*                                                                         *)
(* Every request first reads the user's cart, and creates it if there is   *)
(* none; then it changes one item, or all, by one statement; then it reads *)
(* the cart again for its answer.  A read is two queries, of the items and *)
(* of their products.  Between any two statements other requests of the    *)
(* same user, a checkout and the administrator may come.                   *)
(***************************************************************************)
EXTENDS Naturals

CONSTANTS
    Users,
    Products,
    Requests,     \* each runs once
    Quantities,   \* what a request may ask for (1 to 999)
    MaxInt,       \* the largest value of the column (Int, 32 bits)
    MaxFaults,    \* bound: failed calls and crashes
    None

ASSUME CartAssumption ==
    /\ Quantities \subseteq Nat \ {0}
    /\ MaxInt \in Nat
    /\ \A q \in Quantities : q =< MaxInt
    /\ MaxFaults \in Nat
    /\ None \notin Products

VARIABLES
    carts,     \* the users who have a cart
    items,     \* CartItem.quantity by user and product, 0 if there is no item
    catalog,   \* the products that exist
    req,       \* the local variables and the program point of each request
    faults     \* failures so far

vars == <<carts, items, catalog, req, faults>>

-----------------------------------------------------------------------------
Baskets == [Products -> 0..MaxInt]
Nothing == [p \in Products |-> 0]
InBasket(b) == {p \in Products : b[p] > 0}

(* What a request may ask for: the user is the one of the access token.    *)
Wishes ==
    [user : Users, op : {"get", "clear"}, product : {None}, quantity : {0}]
    \cup [user : Users, op : {"add", "update"}, product : Products,
          quantity : Quantities]
    \cup [user : Users, op : {"remove"}, product : Products, quantity : {0}]

ASSUME NoneIsNoWish == None \notin Wishes

(* "begun" before the first read; "found" and "pricing" between the query  *)
(* of the items and the query of their products.                           *)
Points == {"idle", "begun", "found", "creating", "changing", "reading",
           "pricing", "answered", "refused", "failed"}

Reqs == [pc : Points, wish : Wishes \cup {None}, read : Baskets]

Idle == [pc |-> "idle", wish |-> None, read |-> Nothing]

TypeOK ==
    /\ carts \subseteq Users
    /\ items \in [Users -> Baskets]
    /\ catalog \subseteq Products
    /\ req \in [Requests -> Reqs]
    /\ faults \in 0..MaxFaults

Init ==
    /\ carts \in SUBSET Users
    /\ catalog = Products
    /\ items \in [Users -> {b \in Baskets : InBasket(b) \subseteq catalog}]
    /\ \A u \in Users \ carts : items[u] = Nothing
    /\ req = [r \in Requests |-> Idle]
    /\ faults = 0

-----------------------------------------------------------------------------
At(r, point) == req[r].pc = point
Go(r, point) == req' = [req EXCEPT ![r].pc = point]
Stop(r, point) == req' = [req EXCEPT ![r].pc = point, ![r].read = Nothing]
Read(r, basket, point) == req' = [req EXCEPT ![r].pc = point, ![r].read = basket]

Begin(r, w) ==
    /\ At(r, "idle")
    /\ req' = [req EXCEPT ![r].pc = "begun", ![r].wish = w]
    /\ UNCHANGED <<carts, items, catalog, faults>>

(* getOrCreateCart                                                         *)
FindByUserId(r) ==
    LET u == req[r].wish.user
    IN  /\ At(r, "begun")
        /\ IF u \in carts THEN Read(r, items[u], "found") ELSE Go(r, "creating")
        /\ UNCHANGED <<carts, items, catalog, faults>>

(* An item whose product is gone by now makes the read fail.               *)
FoundProducts(r) ==
    /\ At(r, "found")
    /\ IF InBasket(req[r].read) \subseteq catalog
       THEN Go(r, IF req[r].wish.op = "get" THEN "answered" ELSE "changing")
       ELSE Stop(r, "failed")
    /\ UNCHANGED <<carts, items, catalog, faults>>

(* The unique userId decides who creates the cart (P2002, answered 500).   *)
CreateForUser(r) ==
    LET u == req[r].wish.user
    IN  /\ At(r, "creating")
        /\ IF u \in carts
           THEN Stop(r, "failed") /\ UNCHANGED carts
           ELSE /\ carts' = carts \cup {u}
                /\ Read(r, Nothing, IF req[r].wish.op = "get" THEN "answered"
                                                            ELSE "changing")
        /\ UNCHANGED <<items, catalog, faults>>

-----------------------------------------------------------------------------
(* The one statement that changes the cart                                 *)

Change(r, op) == At(r, "changing") /\ req[r].wish.op = op

Write(w, quantity) == items' = [items EXCEPT ![w.user][w.product] = quantity]

(* Mutant of AddItem: writes the sum of what it read and what it adds.     *)
AddItemToRead(r) ==
    LET w == req[r].wish
        sum == req[r].read[w.product] + w.quantity
    IN  /\ Change(r, "add")
        /\ IF w.product \in catalog /\ sum =< MaxInt
           THEN Write(w, sum) /\ Go(r, "reading")
           ELSE Stop(r, "refused") /\ UNCHANGED items
        /\ UNCHANGED <<carts, catalog, faults>>

(* Mutant of AddItem: a column without a largest value.                    *)
AddItemUnbounded(r) ==
    LET w == req[r].wish
        sum == items[w.user][w.product] + w.quantity
    IN  /\ Change(r, "add")
        /\ IF w.product \notin catalog
           THEN Stop(r, "refused") /\ UNCHANGED items
           ELSE Write(w, sum) /\ Go(r, "reading")
        /\ UNCHANGED <<carts, catalog, faults>>

(* The upsert: no such product (P2003) is answered 400, and a sum that     *)
(* does not fit the column is an error of the statement.                   *)
AddItem(r) ==
    LET w == req[r].wish
        sum == items[w.user][w.product] + w.quantity
    IN  /\ Change(r, "add")
        /\ IF w.product \notin catalog
           THEN Stop(r, "refused") /\ UNCHANGED items
           ELSE IF sum > MaxInt
           THEN Stop(r, "failed") /\ UNCHANGED items
           ELSE Write(w, sum) /\ Go(r, "reading")
        /\ UNCHANGED <<carts, catalog, faults>>

(* An item that is not in the cart (P2025) is answered 404.                *)
OnItem(r, quantity) ==
    LET w == req[r].wish
    IN  IF items[w.user][w.product] > 0
        THEN Write(w, quantity) /\ Go(r, "reading")
        ELSE Stop(r, "refused") /\ UNCHANGED items

UpdateItemQuantity(r) ==
    /\ Change(r, "update")
    /\ OnItem(r, req[r].wish.quantity)
    /\ UNCHANGED <<carts, catalog, faults>>

RemoveItem(r) ==
    /\ Change(r, "remove")
    /\ OnItem(r, 0)
    /\ UNCHANGED <<carts, catalog, faults>>

Clear(r) ==
    /\ Change(r, "clear")
    /\ items' = [items EXCEPT ![req[r].wish.user] = Nothing]
    /\ Go(r, "reading")
    /\ UNCHANGED <<carts, catalog, faults>>

-----------------------------------------------------------------------------
(* findUniqueOrThrow: the answer                                           *)

ReadBack(r) ==
    /\ At(r, "reading")
    /\ Read(r, items[req[r].wish.user], "pricing")
    /\ UNCHANGED <<carts, items, catalog, faults>>

ReadProducts(r) ==
    /\ At(r, "pricing")
    /\ IF InBasket(req[r].read) \subseteq catalog
       THEN Go(r, "answered")
       ELSE Stop(r, "failed")
    /\ UNCHANGED <<carts, items, catalog, faults>>

(* A call fails before its effect, or after it, at the next point.         *)
Fail(r) ==
    /\ req[r].pc \notin {"idle", "answered", "refused", "failed"}
    /\ faults < MaxFaults
    /\ faults' = faults + 1
    /\ Stop(r, "failed")
    /\ UNCHANGED <<carts, items, catalog>>

-----------------------------------------------------------------------------
(* The rest of the shop                                                    *)

(* Mutant of DeleteProduct: the foreign key of the items does not cascade. *)
DeleteProductOnly(p) ==
    /\ p \in catalog
    /\ catalog' = catalog \ {p}
    /\ UNCHANGED <<carts, items, req, faults>>

DeleteProduct(p) ==
    /\ p \in catalog
    /\ catalog' = catalog \ {p}
    /\ items' = [u \in Users |-> [items[u] EXCEPT ![p] = 0]]
    /\ UNCHANGED <<carts, req, faults>>

(* The commit of a checkout (Checkout!Commit).                             *)
CheckOut(u) ==
    /\ items[u] # Nothing
    /\ items' = [items EXCEPT ![u] = Nothing]
    /\ UNCHANGED <<carts, catalog, req, faults>>

-----------------------------------------------------------------------------
ReadStep(r) ==
    \/ FindByUserId(r)
    \/ FoundProducts(r)
    \/ CreateForUser(r)
    \/ ReadBack(r)
    \/ ReadProducts(r)

ChangeStep(r) == AddItem(r) \/ UpdateItemQuantity(r) \/ RemoveItem(r) \/ Clear(r)

Next ==
    \/ \E r \in Requests : \/ \E w \in Wishes : Begin(r, w)
                           \/ ReadStep(r)
                           \/ ChangeStep(r)
                           \/ Fail(r)
    \/ \E p \in Products : DeleteProduct(p)
    \/ \E u \in Users : CheckOut(u)

Spec == Init /\ [][Next]_vars

-----------------------------------------------------------------------------
(* Properties                                                              *)

(* No item outlives its product or precedes its cart, whatever is added    *)
(* while products are deleted and carts created: a deletion that comes     *)
(* between the reads and the write of addItem must win (CartItem's         *)
(* foreign keys).                                                          *)
ItemsHaveProducts ==
    \A u \in Users :
      /\ InBasket(items[u]) \subseteq catalog
      /\ u \notin carts => items[u] = Nothing

(* Requests that overlap in any way take effect one after the other, as    *)
(* asked and once at most, and are shown the cart after their effect.      *)
Stage(r) ==
    LET q == req[r]
    IN  CASE q.pc = "idle" -> "new"
          [] q.pc \in {"begun", "creating", "changing"} -> "asked"
          [] q.pc = "found" -> IF q.wish.op = "get" THEN "seen" ELSE "asked"
          [] q.pc = "reading" -> "applied"
          [] q.pc \in {"pricing", "answered"} -> "seen"
          [] q.pc \in {"refused", "failed"} -> "over"

C == INSTANCE Carts WITH
       cart <- items,
       wish <- [r \in Requests |-> req[r].wish],
       stage <- [r \in Requests |-> Stage(r)],
       shown <- [r \in Requests |-> IF Stage(r) = "seen" THEN req[r].read
                                                         ELSE Nothing]
AtomicCarts == C!CSpec
=============================================================================

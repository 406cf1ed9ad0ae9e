----------------------------- MODULE CartProofs -----------------------------
(***************************************************************************)
(* Proofs about Cart: for any users, products, requests and quantities,    *)
(* items have their products and carts, and overlapping requests implement *)
(* the carts of Carts, where each takes effect once and at once.           *)
(***************************************************************************)
EXTENDS Cart, TLAPS

(* What a request knows at its program point: what it was asked, that its  *)
(* user has a cart, and that a reading request never writes.               *)
RequestOK(q) ==
    /\ q.pc # "idle" => q.wish \in Wishes
    /\ q.pc \in {"found", "changing", "reading", "pricing"} => q.wish.user \in carts
    /\ q.pc \in {"changing", "reading", "pricing"} => q.wish.op # "get"

RequestsOK == \A r \in Requests : RequestOK(req[r])

CartInv == TypeOK /\ ItemsHaveProducts /\ RequestsOK

-----------------------------------------------------------------------------
(* What a wish consists of.                                                *)
LEMMA WishParts ==
    ASSUME NEW w \in Wishes
    PROVE  /\ w.user \in Users
           /\ w.op \in {"get", "clear", "add", "update", "remove"}
           /\ w.op \in {"add", "update"} => w.product \in Products /\ w.quantity \in Quantities
           /\ w.op = "remove" => w.product \in Products
  BY DEF Wishes

(* An empty basket is a basket.                                            *)
LEMMA NothingType == Nothing \in Baskets /\ InBasket(Nothing) = {}
  BY CartAssumption DEF CartAssumption, Nothing, Baskets, InBasket

(* A step that leaves one request in a good record leaves all of them so.  *)
LEMMA OneRequest ==
    ASSUME CartInv, NEW r \in Requests, NEW q \in Reqs,
           req' = [req EXCEPT ![r] = q], RequestOK(q)', carts \subseteq carts'
    PROVE  req' \in [Requests -> Reqs] /\ RequestsOK'
  <1>1. req \in [Requests -> Reqs]
    BY DEF CartInv, TypeOK
  <1>2. req' \in [Requests -> Reqs]
    BY <1>1
  <1>3. ASSUME NEW s \in Requests PROVE RequestOK(req[s])'
    <2>1. CASE s = r
      BY <1>1, <2>1 DEF RequestOK
    <2>2. CASE s # r
      BY <1>1, <2>2 DEF CartInv, RequestsOK, RequestOK
    <2> QED
      BY <2>1, <2>2
  <1> QED
    BY <1>2, <1>3 DEF RequestsOK

(* The record after Go, Stop or Read.                                      *)
LEMMA GoRecord ==
    ASSUME TypeOK, NEW r \in Requests, NEW point \in Points, Go(r, point)
    PROVE  \E q \in Reqs : /\ req' = [req EXCEPT ![r] = q]
                           /\ q.pc = point /\ q.wish = req[r].wish
                           /\ q.read = req[r].read
  <1> DEFINE q == [req[r] EXCEPT !.pc = point]
  <1>1. req[r] \in Reqs
    BY DEF TypeOK
  <1>2. q \in Reqs /\ q.pc = point /\ q.wish = req[r].wish /\ q.read = req[r].read
    BY <1>1 DEF Reqs
  <1>3. req' = [req EXCEPT ![r] = q]
    BY DEF Go, TypeOK
  <1> QED
    BY <1>2, <1>3

LEMMA StopRecord ==
    ASSUME TypeOK, NEW r \in Requests, NEW point \in Points, Stop(r, point)
    PROVE  \E q \in Reqs : /\ req' = [req EXCEPT ![r] = q]
                           /\ q.pc = point /\ q.wish = req[r].wish
                           /\ q.read = Nothing
  <1> DEFINE q == [req[r] EXCEPT !.pc = point, !.read = Nothing]
  <1>1. req[r] \in Reqs
    BY DEF TypeOK
  <1>2. q \in Reqs /\ q.pc = point /\ q.wish = req[r].wish /\ q.read = Nothing
    BY <1>1, NothingType DEF Reqs
  <1>3. req' = [req EXCEPT ![r] = q]
    BY DEF Stop, TypeOK
  <1> QED
    BY <1>2, <1>3

LEMMA ReadRecord ==
    ASSUME TypeOK, NEW r \in Requests, NEW basket \in Baskets, NEW point \in Points,
           Read(r, basket, point)
    PROVE  \E q \in Reqs : /\ req' = [req EXCEPT ![r] = q]
                           /\ q.pc = point /\ q.wish = req[r].wish
                           /\ q.read = basket
  <1> DEFINE q == [req[r] EXCEPT !.pc = point, !.read = basket]
  <1>1. req[r] \in Reqs
    BY DEF TypeOK
  <1>2. q \in Reqs /\ q.pc = point /\ q.wish = req[r].wish /\ q.read = basket
    BY <1>1 DEF Reqs
  <1>3. req' = [req EXCEPT ![r] = q]
    BY DEF Read, TypeOK
  <1> QED
    BY <1>2, <1>3

(* The invariant holds initially.                                          *)
LEMMA InitInv == Init => CartInv
  <1> SUFFICES ASSUME Init PROVE CartInv
    OBVIOUS
  <1>1. Idle \in Reqs
    BY NothingType DEF Idle, Reqs, Points
  <1>2. TypeOK
    BY <1>1, CartAssumption DEF Init, TypeOK, CartAssumption
  <1>3. ItemsHaveProducts
    BY DEF Init, ItemsHaveProducts
  <1>4. RequestsOK
    BY DEF Init, RequestsOK, RequestOK, Idle
  <1> QED
    BY <1>2, <1>3, <1>4 DEF CartInv

-----------------------------------------------------------------------------
(* Steps that only read                                                    *)

(* A step that leaves the shop alone and one request in a good record.     *)
LEMMA QuietStep ==
    ASSUME CartInv, NEW r \in Requests, NEW q \in Reqs,
           req' = [req EXCEPT ![r] = q], RequestOK(q)',
           UNCHANGED <<carts, items, catalog>>, faults' \in 0..MaxFaults
    PROVE  CartInv'
  <1>1. req' \in [Requests -> Reqs] /\ RequestsOK'
    BY OneRequest
  <1>2. TypeOK'
    BY <1>1 DEF CartInv, TypeOK
  <1>3. ItemsHaveProducts'
    BY DEF CartInv, ItemsHaveProducts, InBasket
  <1> QED
    BY <1>1, <1>2, <1>3 DEF CartInv

LEMMA BeginInv ==
    ASSUME CartInv, NEW r \in Requests, NEW w \in Wishes, Begin(r, w)
    PROVE  CartInv'
  <1>1. req[r] \in Reqs /\ req \in [Requests -> Reqs]
    BY DEF CartInv, TypeOK
  <1>2. PICK q \in Reqs : /\ req' = [req EXCEPT ![r] = q]
                          /\ q.pc = "begun" /\ q.wish = w
    <2> DEFINE q == [req[r] EXCEPT !.pc = "begun", !.wish = w]
    <2>1. q \in Reqs /\ q.pc = "begun" /\ q.wish = w
      BY <1>1 DEF Reqs, Points
    <2>2. req' = [req EXCEPT ![r] = q]
      BY <1>1 DEF Begin
    <2> QED
      BY <2>1, <2>2
  <1>3. RequestOK(q)'
    BY <1>2 DEF RequestOK
  <1>4. UNCHANGED <<carts, items, catalog>> /\ faults' \in 0..MaxFaults
    BY DEF Begin, CartInv, TypeOK
  <1> QED
    BY <1>2, <1>3, <1>4, QuietStep

(* A request that ends knows nothing that could become wrong.              *)
LEMMA StopInv ==
    ASSUME CartInv, NEW r \in Requests, NEW point \in {"refused", "failed"},
           Stop(r, point), req[r].pc # "idle",
           UNCHANGED <<carts, items, catalog>>, faults' \in 0..MaxFaults
    PROVE  CartInv'
  <1>1. point \in Points
    BY DEF Points
  <1>2. PICK q \in Reqs : /\ req' = [req EXCEPT ![r] = q]
                          /\ q.pc = point /\ q.wish = req[r].wish
    BY <1>1, StopRecord DEF CartInv
  <1>3. RequestOK(q)'
    BY <1>2 DEF RequestOK, CartInv, RequestsOK
  <1> QED
    BY <1>2, <1>3, QuietStep

LEMMA FindByUserIdInv ==
    ASSUME CartInv, NEW r \in Requests, FindByUserId(r)
    PROVE  CartInv'
  <1> DEFINE u == req[r].wish.user
  <1>1. /\ req[r].pc = "begun" /\ req[r].wish \in Wishes
        /\ u \in Users
        /\ UNCHANGED <<carts, items, catalog>> /\ faults' \in 0..MaxFaults
    BY WishParts DEF FindByUserId, At, CartInv, RequestsOK, RequestOK, TypeOK
  <1>2. CASE u \in carts
    <2>1. Read(r, items[u], "found") /\ items[u] \in Baskets /\ "found" \in Points
      BY <1>1, <1>2 DEF FindByUserId, CartInv, TypeOK, Points
    <2>2. PICK q \in Reqs : /\ req' = [req EXCEPT ![r] = q]
                            /\ q.pc = "found" /\ q.wish = req[r].wish
      BY <2>1, ReadRecord DEF CartInv
    <2>3. RequestOK(q)'
      BY <1>1, <1>2, <2>2 DEF RequestOK
    <2> QED
      BY <1>1, <2>2, <2>3, QuietStep
  <1>3. CASE u \notin carts
    <2>1. Go(r, "creating") /\ "creating" \in Points
      BY <1>3 DEF FindByUserId, Points
    <2>2. PICK q \in Reqs : /\ req' = [req EXCEPT ![r] = q]
                            /\ q.pc = "creating" /\ q.wish = req[r].wish
      BY <2>1, GoRecord DEF CartInv
    <2>3. RequestOK(q)'
      BY <1>1, <2>2 DEF RequestOK
    <2> QED
      BY <1>1, <2>2, <2>3, QuietStep
  <1> QED
    BY <1>2, <1>3

LEMMA FoundProductsInv ==
    ASSUME CartInv, NEW r \in Requests, FoundProducts(r)
    PROVE  CartInv'
  <1>1. /\ req[r].pc = "found" /\ RequestOK(req[r])
        /\ UNCHANGED <<carts, items, catalog>> /\ faults' \in 0..MaxFaults
    BY DEF FoundProducts, At, CartInv, RequestsOK, TypeOK
  <1>2. CASE Stop(r, "failed")
    BY <1>1, <1>2, StopInv
  <1>3. CASE InBasket(req[r].read) \subseteq catalog
    <2> DEFINE point == IF req[r].wish.op = "get" THEN "answered" ELSE "changing"
    <2>1. Go(r, point) /\ point \in Points
      BY <1>3 DEF FoundProducts, Points
    <2>2. PICK q \in Reqs : /\ req' = [req EXCEPT ![r] = q]
                            /\ q.pc = point /\ q.wish = req[r].wish
      BY <2>1, GoRecord DEF CartInv
    <2>3. RequestOK(q)'
      BY <1>1, <2>2 DEF RequestOK
    <2> QED
      BY <1>1, <2>2, <2>3, QuietStep
  <1> QED
    BY <1>2, <1>3 DEF FoundProducts

LEMMA ReadBackInv ==
    ASSUME CartInv, NEW r \in Requests, ReadBack(r)
    PROVE  CartInv'
  <1> DEFINE u == req[r].wish.user
  <1>1. /\ req[r].pc = "reading" /\ RequestOK(req[r])
        /\ UNCHANGED <<carts, items, catalog>> /\ faults' \in 0..MaxFaults
    BY DEF ReadBack, At, CartInv, RequestsOK, TypeOK
  <1>2. u \in Users
    BY <1>1, WishParts DEF RequestOK
  <1>3. Read(r, items[u], "pricing") /\ items[u] \in Baskets /\ "pricing" \in Points
    BY <1>2 DEF ReadBack, CartInv, TypeOK, Points
  <1>4. PICK q \in Reqs : /\ req' = [req EXCEPT ![r] = q]
                          /\ q.pc = "pricing" /\ q.wish = req[r].wish
    BY <1>3, ReadRecord DEF CartInv
  <1>5. RequestOK(q)'
    BY <1>1, <1>4 DEF RequestOK
  <1> QED
    BY <1>1, <1>4, <1>5, QuietStep

LEMMA ReadProductsInv ==
    ASSUME CartInv, NEW r \in Requests, ReadProducts(r)
    PROVE  CartInv'
  <1>1. /\ req[r].pc = "pricing" /\ RequestOK(req[r])
        /\ UNCHANGED <<carts, items, catalog>> /\ faults' \in 0..MaxFaults
    BY DEF ReadProducts, At, CartInv, RequestsOK, TypeOK
  <1>2. CASE Stop(r, "failed")
    BY <1>1, <1>2, StopInv
  <1>3. CASE Go(r, "answered")
    <2>1. "answered" \in Points
      BY DEF Points
    <2>2. PICK q \in Reqs : /\ req' = [req EXCEPT ![r] = q]
                            /\ q.pc = "answered" /\ q.wish = req[r].wish
      BY <1>3, <2>1, GoRecord DEF CartInv
    <2>3. RequestOK(q)'
      BY <1>1, <2>2 DEF RequestOK
    <2> QED
      BY <1>1, <2>2, <2>3, QuietStep
  <1> QED
    BY <1>2, <1>3 DEF ReadProducts

LEMMA FailInv ==
    ASSUME CartInv, NEW r \in Requests, Fail(r)
    PROVE  CartInv'
  <1>1. /\ Stop(r, "failed") /\ req[r].pc # "idle"
        /\ UNCHANGED <<carts, items, catalog>>
    BY DEF Fail
  <1>2. faults' \in 0..MaxFaults
    BY CartAssumption DEF Fail, CartInv, TypeOK, CartAssumption
  <1> QED
    BY <1>1, <1>2, StopInv

LEMMA CreateForUserInv ==
    ASSUME CartInv, NEW r \in Requests, CreateForUser(r)
    PROVE  CartInv'
  <1> DEFINE u == req[r].wish.user
             point == IF req[r].wish.op = "get" THEN "answered" ELSE "changing"
  <1>1. /\ req[r].pc = "creating" /\ RequestOK(req[r])
        /\ UNCHANGED <<items, catalog>> /\ faults' \in 0..MaxFaults
    BY DEF CreateForUser, At, CartInv, RequestsOK, TypeOK
  <1>2. u \in Users
    BY <1>1, WishParts DEF RequestOK
  <1>3. CASE u \in carts
    <2>1. Stop(r, "failed") /\ UNCHANGED carts
      BY <1>3 DEF CreateForUser
    <2> QED
      BY <1>1, <2>1, StopInv
  <1>4. CASE u \notin carts
    <2>1. carts' = carts \cup {u} /\ Read(r, Nothing, point) /\ point \in Points
      BY <1>4 DEF CreateForUser, Points
    <2>2. PICK q \in Reqs : /\ req' = [req EXCEPT ![r] = q]
                            /\ q.pc = point /\ q.wish = req[r].wish
      BY <2>1, ReadRecord, NothingType DEF CartInv
    <2>3. RequestOK(q)'
      BY <1>1, <2>1, <2>2 DEF RequestOK
    <2>4. req' \in [Requests -> Reqs] /\ RequestsOK'
      BY <2>1, <2>2, <2>3, OneRequest
    <2>5. TypeOK'
      BY <1>1, <1>2, <2>1, <2>4 DEF CartInv, TypeOK
    <2>6. ItemsHaveProducts'
      BY <1>1, <2>1 DEF CartInv, ItemsHaveProducts, InBasket
    <2> QED
      BY <2>4, <2>5, <2>6 DEF CartInv
  <1> QED
    BY <1>3, <1>4

-----------------------------------------------------------------------------
(* Steps that change the cart                                              *)

(* A request whose user has a cart gives it a good basket.                 *)
LEMMA WriteInv ==
    ASSUME CartInv, NEW r \in Requests, req[r].pc = "changing",
           NEW b \in Baskets, InBasket(b) \subseteq catalog,
           items' = [items EXCEPT ![req[r].wish.user] = b], Go(r, "reading"),
           UNCHANGED <<carts, catalog, faults>>
    PROVE  CartInv'
  <1> DEFINE u == req[r].wish.user
  <1>1. RequestOK(req[r]) /\ u \in carts /\ u \in Users
    BY WishParts DEF CartInv, RequestsOK, RequestOK
  <1>2. "reading" \in Points
    BY DEF Points
  <1>3. PICK q \in Reqs : /\ req' = [req EXCEPT ![r] = q]
                          /\ q.pc = "reading" /\ q.wish = req[r].wish
    BY <1>2, GoRecord DEF CartInv
  <1>4. RequestOK(q)'
    BY <1>1, <1>3 DEF RequestOK
  <1>5. req' \in [Requests -> Reqs] /\ RequestsOK'
    BY <1>3, <1>4, OneRequest
  <1>6. items \in [Users -> Baskets] /\ items' \in [Users -> Baskets]
    BY DEF CartInv, TypeOK
  <1>7. TypeOK'
    BY <1>5, <1>6 DEF CartInv, TypeOK
  <1>8. ASSUME NEW v \in Users
        PROVE  InBasket(items'[v]) \subseteq catalog /\ (v \notin carts => items'[v] = Nothing)
    <2>1. CASE v = u
      BY <1>1, <1>6, <2>1
    <2>2. CASE v # u
      BY <1>6, <2>2 DEF CartInv, ItemsHaveProducts
    <2> QED
      BY <2>1, <2>2
  <1>9. ItemsHaveProducts'
    BY <1>8 DEF ItemsHaveProducts, InBasket, Nothing
  <1> QED
    BY <1>5, <1>7, <1>9 DEF CartInv

(* A basket with one quantity changed.                                     *)
LEMMA ChangedBasket ==
    ASSUME NEW b \in Baskets, NEW p \in Products, NEW n \in 0..MaxInt,
           InBasket(b) \subseteq catalog, n > 0 => p \in catalog
    PROVE  /\ [b EXCEPT ![p] = n] \in Baskets
           /\ InBasket([b EXCEPT ![p] = n]) \subseteq catalog
  BY DEF Baskets, InBasket

(* A write of one item is the write of a basket.                           *)
LEMMA WrittenBasket ==
    ASSUME TypeOK, NEW w, w.user \in Users, NEW n, Write(w, n)
    PROVE  items' = [items EXCEPT ![w.user] = [items[w.user] EXCEPT ![w.product] = n]]
  BY DEF TypeOK, Write

LEMMA AddItemInv ==
    ASSUME CartInv, NEW r \in Requests, AddItem(r)
    PROVE  CartInv'
  <1> DEFINE w == req[r].wish
             sum == items[w.user][w.product] + w.quantity
             b == [items[w.user] EXCEPT ![w.product] = sum]
  <1>1. /\ req[r].pc = "changing" /\ w \in Wishes /\ w.op = "add"
        /\ UNCHANGED <<carts, catalog, faults>>
    BY DEF AddItem, Change, At, CartInv, RequestsOK, RequestOK
  <1>2. w.user \in Users /\ w.product \in Products /\ w.quantity \in Quantities
    BY <1>1, WishParts
  <1>3. CASE w.product \notin catalog \/ sum > MaxInt
    <2>1. UNCHANGED items /\ (Stop(r, "refused") \/ Stop(r, "failed"))
      BY <1>3 DEF AddItem
    <2>2. faults' \in 0..MaxFaults
      BY <1>1 DEF CartInv, TypeOK
    <2> QED
      BY <1>1, <2>1, <2>2, StopInv
  <1>4. CASE w.product \in catalog /\ ~(sum > MaxInt)
    <2>1. Write(w, sum) /\ Go(r, "reading")
      BY <1>4 DEF AddItem
    <2>2. items[w.user] \in Baskets /\ InBasket(items[w.user]) \subseteq catalog
      BY <1>2 DEF CartInv, TypeOK, ItemsHaveProducts
    <2>3. sum \in 0..MaxInt
      <3>1. items[w.user][w.product] \in 0..MaxInt
        BY <1>2, <2>2 DEF Baskets
      <3>2. w.quantity \in Nat /\ MaxInt \in Nat
        BY <1>2, CartAssumption DEF CartAssumption
      <3> QED
        BY <1>4, <3>1, <3>2
    <2>4. b \in Baskets /\ InBasket(b) \subseteq catalog
      BY <1>2, <1>4, <2>2, <2>3, ChangedBasket
    <2>5. items' = [items EXCEPT ![w.user] = b]
      BY <1>2, <2>1, WrittenBasket DEF CartInv
    <2> QED
      BY <1>1, <2>1, <2>4, <2>5, WriteInv
  <1> QED
    BY <1>3, <1>4

(* updateItemQuantity and removeItem.                                      *)
LEMMA OnItemInv ==
    ASSUME CartInv, NEW r \in Requests, NEW n \in 0..MaxInt,
           req[r].pc = "changing", req[r].wish.product \in Products, OnItem(r, n),
           UNCHANGED <<carts, catalog, faults>>
    PROVE  CartInv'
  <1> DEFINE w == req[r].wish
             b == [items[w.user] EXCEPT ![w.product] = n]
  <1>1. w.user \in Users
    BY WishParts DEF CartInv, RequestsOK, RequestOK
  <1>2. CASE items[w.user][w.product] > 0
    <2>1. Write(w, n) /\ Go(r, "reading")
      BY <1>2 DEF OnItem
    <2>2. items[w.user] \in Baskets /\ InBasket(items[w.user]) \subseteq catalog
      BY <1>1 DEF CartInv, TypeOK, ItemsHaveProducts
    <2>3. w.product \in catalog
      BY <1>2, <2>2 DEF InBasket
    <2>4. b \in Baskets /\ InBasket(b) \subseteq catalog
      BY <2>2, <2>3, ChangedBasket
    <2>5. items' = [items EXCEPT ![w.user] = b]
      BY <1>1, <2>1, WrittenBasket DEF CartInv
    <2> QED
      BY <2>1, <2>4, <2>5, WriteInv
  <1>3. CASE ~(items[w.user][w.product] > 0)
    <2>1. Stop(r, "refused") /\ UNCHANGED items
      BY <1>3 DEF OnItem
    <2>2. faults' \in 0..MaxFaults
      BY DEF CartInv, TypeOK
    <2> QED
      BY <2>1, <2>2, StopInv
  <1> QED
    BY <1>2, <1>3

LEMMA ChangeInv ==
    ASSUME CartInv, NEW r \in Requests, ChangeStep(r)
    PROVE  CartInv'
  <1> DEFINE w == req[r].wish
  <1>1. req[r].pc = "changing" /\ w \in Wishes
    BY DEF ChangeStep, AddItem, UpdateItemQuantity, RemoveItem, Clear, Change, At,
           CartInv, RequestsOK, RequestOK
  <1>2. CASE AddItem(r)
    BY <1>2, AddItemInv
  <1>3. CASE UpdateItemQuantity(r)
    <2>1. /\ w.op = "update" /\ OnItem(r, w.quantity)
          /\ UNCHANGED <<carts, catalog, faults>>
      BY <1>3 DEF UpdateItemQuantity, Change
    <2>2. w.product \in Products /\ w.quantity \in Quantities
      BY <1>1, <2>1, WishParts
    <2>3. w.quantity \in 0..MaxInt
      <3>1. w.quantity \in Nat /\ w.quantity =< MaxInt /\ MaxInt \in Nat
        BY <2>2, CartAssumption DEF CartAssumption
      <3> QED
        BY <3>1
    <2> QED
      BY <1>1, <2>1, <2>2, <2>3, OnItemInv
  <1>4. CASE RemoveItem(r)
    <2>1. /\ w.op = "remove" /\ OnItem(r, 0)
          /\ UNCHANGED <<carts, catalog, faults>>
      BY <1>4 DEF RemoveItem, Change
    <2>2. w.product \in Products
      BY <1>1, <2>1, WishParts
    <2>3. 0 \in 0..MaxInt
      BY CartAssumption DEF CartAssumption
    <2> QED
      BY <1>1, <2>1, <2>2, <2>3, OnItemInv
  <1>5. CASE Clear(r)
    <2>1. Nothing \in Baskets /\ InBasket(Nothing) \subseteq catalog
      BY NothingType
    <2>2. /\ items' = [items EXCEPT ![w.user] = Nothing] /\ Go(r, "reading")
          /\ UNCHANGED <<carts, catalog, faults>>
      BY <1>5 DEF Clear
    <2> QED
      BY <1>1, <2>1, <2>2, WriteInv
  <1> QED
    BY <1>2, <1>3, <1>4, <1>5 DEF ChangeStep

(* The foreign keys: what is deleted takes its items with it.              *)
LEMMA DeleteProductInv ==
    ASSUME CartInv, NEW p \in Products, DeleteProduct(p)
    PROVE  CartInv'
  <1>1. items \in [Users -> Baskets] /\ MaxInt \in Nat
    BY CartAssumption DEF CartInv, TypeOK, CartAssumption
  <1>2. items' = [u \in Users |-> [items[u] EXCEPT ![p] = 0]]
    BY DEF DeleteProduct
  <1>3. ASSUME NEW u \in Users
        PROVE  /\ items'[u] \in Baskets
               /\ InBasket(items'[u]) = InBasket(items[u]) \ {p}
               /\ items[u] = Nothing => items'[u] = Nothing
    BY <1>1, <1>2 DEF Baskets, InBasket, Nothing
  <1>4. TypeOK'
    <2>1. items' \in [Users -> Baskets]
      BY <1>2, <1>3
    <2> QED
      BY <2>1 DEF CartInv, TypeOK, DeleteProduct
  <1>5. ItemsHaveProducts'
    <2>1. catalog' = catalog \ {p} /\ carts' = carts
      BY DEF DeleteProduct
    <2>2. ASSUME NEW u \in Users
          PROVE  /\ InBasket(items'[u]) \subseteq catalog \ {p}
                 /\ u \notin carts => items'[u] = Nothing
      BY <1>3 DEF CartInv, ItemsHaveProducts
    <2> QED
      BY <2>1, <2>2 DEF ItemsHaveProducts, InBasket, Nothing
  <1>6. RequestsOK'
    BY DEF CartInv, RequestsOK, RequestOK, DeleteProduct
  <1> QED
    BY <1>4, <1>5, <1>6 DEF CartInv

LEMMA CheckOutInv ==
    ASSUME CartInv, NEW u \in Users, CheckOut(u)
    PROVE  CartInv'
  <1>1. items \in [Users -> Baskets] /\ items' = [items EXCEPT ![u] = Nothing]
    BY DEF CartInv, TypeOK, CheckOut
  <1>2. TypeOK'
    BY <1>1, NothingType DEF CartInv, TypeOK, CheckOut
  <1>3. ItemsHaveProducts'
    <2>1. ASSUME NEW v \in Users
          PROVE  /\ InBasket(items'[v]) \subseteq catalog
                 /\ v \notin carts => items'[v] = Nothing
      BY <1>1, NothingType DEF CartInv, ItemsHaveProducts
    <2> QED
      BY <2>1 DEF ItemsHaveProducts, InBasket, Nothing, CheckOut
  <1>4. RequestsOK'
    BY DEF CartInv, RequestsOK, RequestOK, CheckOut
  <1> QED
    BY <1>2, <1>3, <1>4 DEF CartInv

-----------------------------------------------------------------------------
(* Every step keeps the invariant.                                         *)
LEMMA NextInv == CartInv /\ [Next]_vars => CartInv'
  <1> SUFFICES ASSUME CartInv, [Next]_vars PROVE CartInv'
    OBVIOUS
  <1>1. CASE UNCHANGED vars
    BY <1>1 DEF vars, CartInv, TypeOK, ItemsHaveProducts, RequestsOK, RequestOK,
                InBasket, Nothing
  <1>2. ASSUME NEW r \in Requests, ReadStep(r) PROVE CartInv'
    BY <1>2, FindByUserIdInv, FoundProductsInv, CreateForUserInv, ReadBackInv,
       ReadProductsInv DEF ReadStep
  <1> QED
    BY <1>1, <1>2, BeginInv, ChangeInv, FailInv, DeleteProductInv, CheckOutInv DEF Next

(* The inductive invariant holds in every state.                           *)
THEOREM CartInvariant == Spec => []CartInv
  <1> QED
    BY InitInv, NextInv, PTL DEF Spec

(* Quantities stay within the column, and requests within their points.    *)
THEOREM CartTypes == Spec => []TypeOK
  <1>1. CartInv => TypeOK
    BY DEF CartInv
  <1> QED
    BY <1>1, CartInvariant, PTL

(* No item outlives its product or precedes its cart (the foreign keys of  *)
(* CartItem), for any number of overlapping requests.                      *)
THEOREM ItemsAreNoOrphans == Spec => []ItemsHaveProducts
  <1>1. CartInv => ItemsHaveProducts
    BY DEF CartInv
  <1> QED
    BY <1>1, CartInvariant, PTL

-----------------------------------------------------------------------------
(* Cart implements Carts                                                   *)

(* The abstract variables.                                                 *)
Wished == [r \in Requests |-> req[r].wish]
Staged == [r \in Requests |-> Stage(r)]
Shown == [r \in Requests |-> IF Stage(r) = "seen" THEN req[r].read ELSE Nothing]
cartvars == <<items, Wished, Staged, Shown>>

(* The stage of a request and what it is shown, as functions of its record.*)
StageOf(q) ==
    CASE q.pc = "idle" -> "new"
      [] q.pc \in {"begun", "creating", "changing"} -> "asked"
      [] q.pc = "found" -> IF q.wish.op = "get" THEN "seen" ELSE "asked"
      [] q.pc = "reading" -> "applied"
      [] q.pc \in {"pricing", "answered"} -> "seen"
      [] q.pc \in {"refused", "failed"} -> "over"

ShownBy(q) == IF StageOf(q) = "seen" THEN q.read ELSE Nothing

(* What a step that touches one request does to the abstract variables.    *)
LEMMA OneStage ==
    ASSUME TypeOK, NEW r \in Requests, NEW q \in Reqs, req' = [req EXCEPT ![r] = q]
    PROVE  /\ Wished' = [Wished EXCEPT ![r] = q.wish]
           /\ Staged' = [Staged EXCEPT ![r] = StageOf(q)]
           /\ Shown' = [Shown EXCEPT ![r] = ShownBy(q)]
           /\ Wished[r] = req[r].wish
           /\ Staged[r] = StageOf(req[r])
           /\ Shown[r] = ShownBy(req[r])
  <1>1. req \in [Requests -> Reqs]
    BY DEF TypeOK
  <1>2. \A s \in Requests : req'[s] = IF s = r THEN q ELSE req[s]
    BY <1>1
  <1>3. \A s \in Requests : Stage(s) = StageOf(req[s]) /\ Stage(s)' = StageOf(req'[s])
    BY DEF Stage, StageOf
  <1>4. Wished' = [Wished EXCEPT ![r] = q.wish] /\ Wished[r] = req[r].wish
    <2>1. Wished' = [s \in Requests |-> IF s = r THEN q.wish ELSE req[s].wish]
      <3>1. \A s \in Requests : req'[s].wish = IF s = r THEN q.wish ELSE req[s].wish
        BY <1>2
      <3> QED
        BY <3>1, Zenon DEF Wished
    <2> QED
      BY <2>1 DEF Wished
  <1>5. Staged' = [Staged EXCEPT ![r] = StageOf(q)] /\ Staged[r] = StageOf(req[r])
    <2>1. \A s \in Requests : Stage(s)' = IF s = r THEN StageOf(q) ELSE Stage(s)
      <3> SUFFICES ASSUME NEW s \in Requests
                   PROVE  Stage(s)' = IF s = r THEN StageOf(q) ELSE Stage(s)
        OBVIOUS
      <3>1. CASE s = r
        <4>1. req'[r] = q
          BY <1>1
        <4> QED
          BY <1>3, <3>1, <4>1
      <3>2. CASE s # r
        <4>1. req'[s] = req[s]
          BY <1>1, <3>2
        <4> QED
          BY <1>3, <3>2, <4>1
      <3> QED
        BY <3>1, <3>2
    <2>2. Staged' = [s \in Requests |-> IF s = r THEN StageOf(q) ELSE Stage(s)]
      BY <2>1, Zenon DEF Staged
    <2>3. Staged[r] = StageOf(req[r])
      BY <1>3 DEF Staged
    <2> HIDE DEF StageOf, Stage
    <2> QED
      BY <2>2, <2>3 DEF Staged
  <1>6. Shown' = [Shown EXCEPT ![r] = ShownBy(q)] /\ Shown[r] = ShownBy(req[r])
    <2> DEFINE Old(s) == IF Stage(s) = "seen" THEN req[s].read ELSE Nothing
    <2>1. \A s \in Requests : Old(s)' = IF s = r THEN ShownBy(q) ELSE Old(s)
      <3> SUFFICES ASSUME NEW s \in Requests
                   PROVE  Old(s)' = IF s = r THEN ShownBy(q) ELSE Old(s)
        OBVIOUS
      <3>1. Stage(s)' = StageOf(req'[s]) /\ Stage(s) = StageOf(req[s]) /\ Nothing' = Nothing
        BY <1>3 DEF Nothing
      <3>2. CASE s = r
        <4>1. req'[r] = q
          BY <1>1
        <4> QED
          BY <3>1, <3>2, <4>1 DEF ShownBy
      <3>3. CASE s # r
        <4>1. req'[s] = req[s]
          BY <1>1, <3>3
        <4> QED
          BY <3>1, <3>3, <4>1
      <3> QED
        BY <3>2, <3>3
    <2>2. Shown = [s \in Requests |-> Old(s)]
      BY DEF Shown
    <2>3. Shown' = [s \in Requests |-> IF s = r THEN ShownBy(q) ELSE Old(s)]
      BY <2>1, Zenon DEF Shown
    <2>4. Old(r) = ShownBy(req[r])
      BY <1>3 DEF ShownBy
    <2> HIDE DEF Old
    <2> QED
      BY <2>2, <2>3, <2>4
  <1> QED
    BY <1>4, <1>5, <1>6

(* A step within a stage that shows the same is a stutter.                 *)
LEMMA SameStage ==
    ASSUME TypeOK, NEW r \in Requests, NEW q \in Reqs, req' = [req EXCEPT ![r] = q],
           q.wish = req[r].wish, StageOf(q) = StageOf(req[r]),
           ShownBy(q) = ShownBy(req[r]), UNCHANGED items
    PROVE  UNCHANGED cartvars
  <1>1. /\ Wished' = [Wished EXCEPT ![r] = Wished[r]]
        /\ Staged' = [Staged EXCEPT ![r] = Staged[r]]
        /\ Shown' = [Shown EXCEPT ![r] = Shown[r]]
    <2>1. /\ Wished' = [Wished EXCEPT ![r] = q.wish]
          /\ Staged' = [Staged EXCEPT ![r] = StageOf(q)]
          /\ Shown' = [Shown EXCEPT ![r] = ShownBy(q)]
          /\ Wished[r] = req[r].wish
          /\ Staged[r] = StageOf(req[r])
          /\ Shown[r] = ShownBy(req[r])
      BY OneStage
    <2> HIDE DEF Wished, Staged, Shown, StageOf, ShownBy
    <2> QED
      BY <2>1
  <1>2. UNCHANGED <<Wished, Staged, Shown>>
    BY <1>1 DEF Wished, Staged, Shown
  <1> QED
    BY <1>2 DEF cartvars

(* A request that ends gives up.                                           *)
LEMMA StopRefines ==
    ASSUME CartInv, NEW r \in Requests, NEW point \in {"refused", "failed"},
           Stop(r, point), req[r].pc # "idle", UNCHANGED items
    PROVE  C!GiveUp(r)
  <1>1. point \in Points
    BY DEF Points
  <1>2. PICK q \in Reqs : /\ req' = [req EXCEPT ![r] = q]
                          /\ q.pc = point /\ q.wish = req[r].wish
    BY <1>1, StopRecord DEF CartInv
  <1>3. StageOf(q) = "over" /\ ShownBy(q) = Nothing
    BY <1>2 DEF StageOf, ShownBy
  <1>4. StageOf(req[r]) # "new"
    <2>1. req[r] \in Reqs
      BY DEF CartInv, TypeOK
    <2> QED
      BY <2>1 DEF StageOf, Reqs, Points
  <1>5. /\ Staged' = [Staged EXCEPT ![r] = "over"]
        /\ Shown' = [Shown EXCEPT ![r] = Nothing]
        /\ Staged[r] # "new"
        /\ Wished' = [Wished EXCEPT ![r] = Wished[r]]
    BY <1>2, <1>3, <1>4, OneStage DEF CartInv
  <1>6. Wished' = Wished
    BY <1>5 DEF Wished
  <1> QED
    BY <1>5, <1>6 DEF C!GiveUp, C!Nothing, Nothing, Wished, Staged, Shown

(* A request that reads its cart is shown it.                              *)
LEMMA ShowRefines ==
    ASSUME CartInv, NEW r \in Requests, NEW q \in Reqs, req' = [req EXCEPT ![r] = q],
           q.wish = req[r].wish, StageOf(q) = "seen",
           q.read = items[req[r].wish.user], UNCHANGED items,
           \/ req[r].wish.op = "get" /\ StageOf(req[r]) = "asked"
           \/ req[r].wish.op # "get" /\ StageOf(req[r]) = "applied"
    PROVE  C!Show(r)
  <1>1. /\ Staged' = [Staged EXCEPT ![r] = "seen"]
        /\ Shown' = [Shown EXCEPT ![r] = items[Wished[r].user]]
        /\ Staged[r] = StageOf(req[r])
        /\ Wished[r] = req[r].wish
        /\ Wished' = [Wished EXCEPT ![r] = Wished[r]]
    <2>1. /\ Wished' = [Wished EXCEPT ![r] = q.wish]
          /\ Staged' = [Staged EXCEPT ![r] = StageOf(q)]
          /\ Shown' = [Shown EXCEPT ![r] = ShownBy(q)]
          /\ Wished[r] = req[r].wish
          /\ Staged[r] = StageOf(req[r])
          /\ Shown[r] = ShownBy(req[r])
      BY OneStage DEF CartInv
    <2>2. ShownBy(q) = items[req[r].wish.user]
      BY DEF ShownBy
    <2> HIDE DEF Wished, Staged, Shown, StageOf, ShownBy
    <2> QED
      BY <2>1, <2>2
  <1>2. Wished' = Wished
    BY <1>1 DEF Wished
  <1> QED
    BY <1>1, <1>2 DEF C!Show, Wished, Staged, Shown

LEMMA BeginRefines ==
    ASSUME CartInv, NEW r \in Requests, NEW w \in Wishes, Begin(r, w)
    PROVE  C!Ask(r, w)
  <1>1. req[r] \in Reqs /\ req \in [Requests -> Reqs]
    BY DEF CartInv, TypeOK
  <1>2. PICK q \in Reqs : /\ req' = [req EXCEPT ![r] = q]
                          /\ q.pc = "begun" /\ q.wish = w
    <2> DEFINE q == [req[r] EXCEPT !.pc = "begun", !.wish = w]
    <2>1. q \in Reqs /\ q.pc = "begun" /\ q.wish = w
      BY <1>1 DEF Reqs, Points
    <2>2. req' = [req EXCEPT ![r] = q]
      BY <1>1 DEF Begin
    <2> QED
      BY <2>1, <2>2
  <1>3. req[r].pc = "idle" /\ UNCHANGED items
    BY DEF Begin, At
  <1>4. /\ StageOf(q) = "asked" /\ StageOf(req[r]) = "new"
        /\ ShownBy(q) = Nothing /\ ShownBy(req[r]) = Nothing
    BY <1>2, <1>3 DEF StageOf, ShownBy
  <1>5. /\ Staged' = [Staged EXCEPT ![r] = "asked"] /\ Staged[r] = "new"
        /\ Wished' = [Wished EXCEPT ![r] = w]
        /\ Shown' = [Shown EXCEPT ![r] = Shown[r]]
    <2>1. /\ Wished' = [Wished EXCEPT ![r] = q.wish]
          /\ Staged' = [Staged EXCEPT ![r] = StageOf(q)]
          /\ Shown' = [Shown EXCEPT ![r] = ShownBy(q)]
          /\ Wished[r] = req[r].wish
          /\ Staged[r] = StageOf(req[r])
          /\ Shown[r] = ShownBy(req[r])
      BY <1>2, OneStage DEF CartInv
    <2> HIDE DEF Wished, Staged, Shown, StageOf, ShownBy
    <2> QED
      BY <2>1, <1>2, <1>4
  <1>6. Shown' = Shown
    BY <1>5 DEF Shown
  <1> QED
    BY <1>3, <1>5, <1>6 DEF C!Ask, Wished, Staged, Shown

(* A step of one request is a step of Carts or a stutter.                  *)
LEMMA ReadStepRefines ==
    ASSUME CartInv, NEW r \in Requests, ReadStep(r)
    PROVE  C!Show(r) \/ C!GiveUp(r) \/ UNCHANGED cartvars
  <1> DEFINE w == req[r].wish
  <1>1. req[r] \in Reqs /\ RequestOK(req[r]) /\ TypeOK
    BY DEF CartInv, TypeOK, RequestsOK
  <1>2. CASE FindByUserId(r)
    <2>1. /\ req[r].pc = "begun" /\ UNCHANGED items
          /\ w.user \in Users
      BY <1>1, <1>2, WishParts DEF FindByUserId, At, RequestOK
    <2>2. StageOf(req[r]) = "asked" /\ ShownBy(req[r]) = Nothing
      BY <2>1 DEF StageOf, ShownBy
    <2>3. CASE w.user \in carts
      <3>1. items[w.user] \in Baskets /\ "found" \in Points /\ Read(r, items[w.user], "found")
        BY <1>1, <1>2, <2>1, <2>3 DEF FindByUserId, TypeOK, Points
      <3>2. PICK q \in Reqs : /\ req' = [req EXCEPT ![r] = q]
                              /\ q.pc = "found" /\ q.wish = w /\ q.read = items[w.user]
        BY <1>1, <3>1, ReadRecord
      <3>3. CASE w.op = "get"
        <4>1. StageOf(q) = "seen"
          BY <3>2, <3>3 DEF StageOf
        <4> QED
          BY <2>1, <2>2, <3>2, <3>3, <4>1, ShowRefines
      <3>4. CASE w.op # "get"
        <4>1. StageOf(q) = "asked" /\ ShownBy(q) = Nothing
          BY <3>2, <3>4 DEF StageOf, ShownBy
        <4> QED
          BY <1>1, <2>1, <2>2, <3>2, <4>1, SameStage
      <3> QED
        BY <3>3, <3>4
    <2>4. CASE w.user \notin carts
      <3>1. Go(r, "creating") /\ "creating" \in Points
        BY <1>2, <2>4 DEF FindByUserId, Points
      <3>2. PICK q \in Reqs : /\ req' = [req EXCEPT ![r] = q]
                              /\ q.pc = "creating" /\ q.wish = w
        BY <1>1, <3>1, GoRecord
      <3>3. StageOf(q) = "asked" /\ ShownBy(q) = Nothing
        BY <3>2 DEF StageOf, ShownBy
      <3> QED
        BY <1>1, <2>1, <2>2, <3>2, <3>3, SameStage
    <2> QED
      BY <2>3, <2>4
  <1>3. CASE FoundProducts(r)
    <2> DEFINE point == IF w.op = "get" THEN "answered" ELSE "changing"
    <2>1. req[r].pc = "found" /\ UNCHANGED items
      BY <1>3 DEF FoundProducts, At
    <2>2. CASE Stop(r, "failed")
      BY <2>1, <2>2, StopRefines
    <2>3. CASE Go(r, point)
      <3>1. point \in Points
        BY DEF Points
      <3>2. PICK q \in Reqs : /\ req' = [req EXCEPT ![r] = q]
                              /\ q.pc = point /\ q.wish = w /\ q.read = req[r].read
        BY <1>1, <2>3, <3>1, GoRecord
      <3>3. StageOf(q) = StageOf(req[r]) /\ ShownBy(q) = ShownBy(req[r])
        BY <2>1, <3>2 DEF StageOf, ShownBy
      <3> QED
        BY <1>1, <2>1, <3>2, <3>3, SameStage
    <2> QED
      BY <1>3, <2>2, <2>3 DEF FoundProducts
  <1>4. CASE CreateForUser(r)
    <2> DEFINE point == IF w.op = "get" THEN "answered" ELSE "changing"
    <2>1. req[r].pc = "creating" /\ UNCHANGED items /\ w.user \in Users
      BY <1>1, <1>4, WishParts DEF CreateForUser, At, RequestOK
    <2>2. StageOf(req[r]) = "asked" /\ ShownBy(req[r]) = Nothing
      BY <2>1 DEF StageOf, ShownBy
    <2>3. CASE w.user \in carts
      <3>1. Stop(r, "failed")
        BY <1>4, <2>3 DEF CreateForUser
      <3> QED
        BY <2>1, <3>1, StopRefines
    <2>4. CASE w.user \notin carts
      <3>1. Read(r, Nothing, point) /\ point \in Points
        BY <1>4, <2>4 DEF CreateForUser, Points
      <3>2. PICK q \in Reqs : /\ req' = [req EXCEPT ![r] = q]
                              /\ q.pc = point /\ q.wish = w /\ q.read = Nothing
        BY <1>1, <3>1, ReadRecord, NothingType
      <3>3. items[w.user] = Nothing
        BY <2>1, <2>4 DEF CartInv, ItemsHaveProducts
      <3>4. CASE w.op = "get"
        <4>1. StageOf(q) = "seen"
          BY <3>2, <3>4 DEF StageOf
        <4> QED
          BY <2>1, <2>2, <3>2, <3>3, <3>4, <4>1, ShowRefines
      <3>5. CASE w.op # "get"
        <4>1. StageOf(q) = "asked" /\ ShownBy(q) = Nothing
          BY <3>2, <3>5 DEF StageOf, ShownBy
        <4> QED
          BY <1>1, <2>1, <2>2, <3>2, <4>1, SameStage
      <3> QED
        BY <3>4, <3>5
    <2> QED
      BY <2>3, <2>4
  <1>5. CASE ReadBack(r)
    <2>1. /\ req[r].pc = "reading" /\ UNCHANGED items
          /\ w.user \in Users /\ w.op # "get"
      BY <1>1, <1>5, WishParts DEF ReadBack, At, RequestOK
    <2>2. items[w.user] \in Baskets /\ "pricing" \in Points /\ Read(r, items[w.user], "pricing")
      BY <1>1, <1>5, <2>1 DEF ReadBack, TypeOK, Points
    <2>3. PICK q \in Reqs : /\ req' = [req EXCEPT ![r] = q]
                            /\ q.pc = "pricing" /\ q.wish = w /\ q.read = items[w.user]
      BY <1>1, <2>2, ReadRecord
    <2>4. StageOf(q) = "seen" /\ StageOf(req[r]) = "applied"
      BY <2>1, <2>3 DEF StageOf
    <2> QED
      BY <2>1, <2>3, <2>4, ShowRefines
  <1>6. CASE ReadProducts(r)
    <2>1. req[r].pc = "pricing" /\ UNCHANGED items
      BY <1>6 DEF ReadProducts, At
    <2>2. CASE Stop(r, "failed")
      BY <2>1, <2>2, StopRefines
    <2>3. CASE Go(r, "answered")
      <3>1. "answered" \in Points
        BY DEF Points
      <3>2. PICK q \in Reqs : /\ req' = [req EXCEPT ![r] = q]
                              /\ q.pc = "answered" /\ q.wish = w /\ q.read = req[r].read
        BY <1>1, <2>3, <3>1, GoRecord
      <3>3. StageOf(q) = StageOf(req[r]) /\ ShownBy(q) = ShownBy(req[r])
        BY <2>1, <3>2 DEF StageOf, ShownBy
      <3> QED
        BY <1>1, <2>1, <3>2, <3>3, SameStage
    <2> QED
      BY <1>6, <2>2, <2>3 DEF ReadProducts
  <1> QED
    BY <1>2, <1>3, <1>4, <1>5, <1>6 DEF ReadStep

(* A write is what was asked for.                                          *)
LEMMA ApplyRefines ==
    ASSUME CartInv, NEW r \in Requests, req[r].pc = "changing", Go(r, "reading"),
           C!Possible(items[req[r].wish.user], req[r].wish),
           items' = [items EXCEPT ![req[r].wish.user] =
                       C!After(items[req[r].wish.user], req[r].wish)]
    PROVE  C!Apply(r)
  <1> DEFINE w == req[r].wish
  <1>1. w.op # "get" /\ w.user \in Users /\ items \in [Users -> Baskets]
    BY WishParts DEF CartInv, RequestsOK, RequestOK, TypeOK
  <1>2. "reading" \in Points
    BY DEF Points
  <1>3. PICK q \in Reqs : /\ req' = [req EXCEPT ![r] = q]
                          /\ q.pc = "reading" /\ q.wish = w
    BY <1>2, GoRecord DEF CartInv
  <1>4. /\ StageOf(q) = "applied" /\ StageOf(req[r]) = "asked"
        /\ ShownBy(q) = Nothing /\ ShownBy(req[r]) = Nothing
    BY <1>3 DEF StageOf, ShownBy
  <1>5. /\ Staged' = [Staged EXCEPT ![r] = "applied"] /\ Staged[r] = "asked"
        /\ Wished' = [Wished EXCEPT ![r] = Wished[r]] /\ Wished[r] = w
        /\ Shown' = [Shown EXCEPT ![r] = Shown[r]]
    <2>1. /\ Wished' = [Wished EXCEPT ![r] = q.wish]
          /\ Staged' = [Staged EXCEPT ![r] = StageOf(q)]
          /\ Shown' = [Shown EXCEPT ![r] = ShownBy(q)]
          /\ Wished[r] = req[r].wish
          /\ Staged[r] = StageOf(req[r])
          /\ Shown[r] = ShownBy(req[r])
      BY <1>3, OneStage DEF CartInv
    <2> HIDE DEF Wished, Staged, Shown, StageOf, ShownBy
    <2> QED
      BY <2>1, <1>3, <1>4
  <1>6. Wished' = Wished /\ Shown' = Shown
    BY <1>5 DEF Wished, Shown
  <1> QED
    BY <1>1, <1>5, <1>6 DEF C!Apply, Wished, Staged, Shown

LEMMA ChangeStepRefines ==
    ASSUME CartInv, NEW r \in Requests, ChangeStep(r)
    PROVE  C!Apply(r) \/ C!GiveUp(r)
  <1> DEFINE w == req[r].wish
             b == items[w.user]
  <1>1. req[r].pc = "changing" /\ w \in Wishes /\ w.user \in Users
    BY WishParts DEF ChangeStep, AddItem, UpdateItemQuantity, RemoveItem, Clear, Change,
                     At, CartInv, RequestsOK, RequestOK
  <1>2. CASE UNCHANGED items /\ (Stop(r, "refused") \/ Stop(r, "failed"))
    BY <1>1, <1>2, StopRefines
  <1>3. CASE /\ Go(r, "reading")
             /\ C!Possible(b, w)
             /\ items' = [items EXCEPT ![w.user] = C!After(b, w)]
    BY <1>1, <1>3, ApplyRefines
  <1>4. CASE AddItem(r)
    <2>1. w.op = "add"
      BY <1>4 DEF AddItem, Change
    <2>2. C!Possible(b, w) /\ C!After(b, w) = [b EXCEPT ![w.product] = @ + w.quantity]
      BY <2>1 DEF C!Possible, C!After
    <2>3. CASE Write(w, b[w.product] + w.quantity) /\ Go(r, "reading")
      <3>1. items' = [items EXCEPT ![w.user] = [b EXCEPT ![w.product] = @ + w.quantity]]
        BY <1>1, <2>3, WrittenBasket DEF CartInv
      <3> QED
        BY <1>3, <2>2, <2>3, <3>1
    <2> QED
      BY <1>2, <1>4, <2>3 DEF AddItem
  <1>5. CASE UpdateItemQuantity(r)
    <2>1. w.op = "update" /\ OnItem(r, w.quantity)
      BY <1>5 DEF UpdateItemQuantity, Change
    <2>2. CASE b[w.product] > 0 /\ Write(w, w.quantity) /\ Go(r, "reading")
      <3>1. C!Possible(b, w) /\ C!After(b, w) = [b EXCEPT ![w.product] = w.quantity]
        BY <2>1, <2>2 DEF C!Possible, C!After
      <3>2. items' = [items EXCEPT ![w.user] = [b EXCEPT ![w.product] = w.quantity]]
        BY <1>1, <2>2, WrittenBasket DEF CartInv
      <3> QED
        BY <1>3, <2>2, <3>1, <3>2
    <2> QED
      BY <1>2, <2>1, <2>2 DEF OnItem
  <1>6. CASE RemoveItem(r)
    <2>1. w.op = "remove" /\ OnItem(r, 0)
      BY <1>6 DEF RemoveItem, Change
    <2>2. CASE b[w.product] > 0 /\ Write(w, 0) /\ Go(r, "reading")
      <3>1. C!Possible(b, w) /\ C!After(b, w) = [b EXCEPT ![w.product] = 0]
        BY <2>1, <2>2 DEF C!Possible, C!After
      <3>2. items' = [items EXCEPT ![w.user] = [b EXCEPT ![w.product] = 0]]
        BY <1>1, <2>2, WrittenBasket DEF CartInv
      <3> QED
        BY <1>3, <2>2, <3>1, <3>2
    <2> QED
      BY <1>2, <2>1, <2>2 DEF OnItem
  <1>7. CASE Clear(r)
    <2>1. w.op = "clear" /\ Go(r, "reading") /\ items' = [items EXCEPT ![w.user] = Nothing]
      BY <1>7 DEF Clear, Change
    <2>2. C!Possible(b, w) /\ C!After(b, w) = Nothing
      BY <2>1 DEF C!Possible, C!After, C!Nothing, Nothing
    <2> QED
      BY <1>3, <2>1, <2>2
  <1> QED
    BY <1>4, <1>5, <1>6, <1>7 DEF ChangeStep

LEMMA InitRefines == Init => C!CInit
  <1> SUFFICES ASSUME Init PROVE C!CInit
    OBVIOUS
  <1>1. items \in [Users -> [Products -> Nat]]
    <2>1. \A b \in Baskets : b \in [Products -> Nat]
      BY CartAssumption DEF CartAssumption, Baskets
    <2>2. items \in [Users -> {b \in Baskets : InBasket(b) \subseteq catalog}]
      BY DEF Init
    <2> QED
      BY <2>1, <2>2
  <1>2. \A r \in Requests : req[r].pc = "idle" /\ req[r].wish = None
    BY DEF Init, Idle
  <1>3. \A r \in Requests : Stage(r) = "new"
    BY <1>2 DEF Stage
  <1> QED
    BY <1>1, <1>2, <1>3 DEF C!CInit, C!Nothing, Nothing

LEMMA NextRefines == CartInv /\ [Next]_vars => [C!CNext]_cartvars
  <1> SUFFICES ASSUME CartInv, [Next]_vars PROVE [C!CNext]_cartvars
    OBVIOUS
  <1>1. CASE UNCHANGED vars
    BY <1>1 DEF vars, cartvars, Wished, Staged, Shown, Stage, Nothing
  <1>2. ASSUME NEW r \in Requests, NEW w \in Wishes, Begin(r, w)
        PROVE [C!CNext]_cartvars
    BY <1>2, BeginRefines DEF C!CNext
  <1>3. ASSUME NEW r \in Requests, ReadStep(r) PROVE [C!CNext]_cartvars
    BY <1>3, ReadStepRefines DEF C!CNext
  <1>4. ASSUME NEW r \in Requests, ChangeStep(r) PROVE [C!CNext]_cartvars
    BY <1>4, ChangeStepRefines DEF C!CNext
  <1>5. ASSUME NEW r \in Requests, Fail(r) PROVE [C!CNext]_cartvars
    <2>1. Stop(r, "failed") /\ req[r].pc # "idle" /\ UNCHANGED items
      BY <1>5 DEF Fail
    <2> QED
      BY <2>1, StopRefines DEF C!CNext
  <1>6. ASSUME NEW p \in Products, DeleteProduct(p) PROVE [C!CNext]_cartvars
    <2>1. C!Withdraw(p)
      BY <1>6 DEF DeleteProduct, C!Withdraw, Stage
    <2> QED
      BY <2>1 DEF C!CNext
  <1>7. ASSUME NEW u \in Users, CheckOut(u) PROVE [C!CNext]_cartvars
    <2>1. C!Order(u)
      BY <1>7 DEF CheckOut, C!Order, C!Nothing, Nothing, Stage
    <2> QED
      BY <2>1 DEF C!CNext
  <1> QED
    BY <1>1, <1>2, <1>3, <1>4, <1>5, <1>6, <1>7 DEF Next

(* Overlapping requests implement carts on which each takes effect at      *)
(* once, once at most and as asked, and is shown the cart after its        *)
(* effect: the increment in the upsert of addItem, the conditions of the   *)
(* statements and the cascade are enough, without any lock.                *)
THEOREM CartImplementsCarts == Spec => AtomicCarts
  <1> QED
    BY CartInvariant, InitRefines, NextRefines, PTL
    DEF Spec, AtomicCarts, C!CSpec, C!cvars, cartvars, Wished, Staged, Shown
=============================================================================

------------------------------ MODULE Checkout ------------------------------
(***************************************************************************)
(* POST /orders/checkout (prisma-order.repository.ts) against everything   *)
(* that runs beside it: other checkouts of the same and of other carts,    *)
(* the customer's cart operations, and the administrator's product edits.  *)
(*                                                                         *)
(* A checkout is one PostgreSQL transaction at READ COMMITTED.  Each of    *)
(* its statements is a step of its own; a statement sees what is committed *)
(* when it runs, an UPDATE locks the row until the transaction ends, and   *)
(* one that meets a locked row waits and evaluates its WHERE clause again  *)
(* when the lock is released.  So the decrements of an open transaction    *)
(* are not in "stock" yet: they are the items of the rows it has locked.   *)
(***************************************************************************)
EXTENDS Integers, FiniteSets, FiniteSetsExt

CONSTANTS
    Users,
    Products,
    Requests,      \* the checkout requests; each runs once
    Prices,        \* the prices an administrator may write
    StockLevels,   \* the stock levels an administrator may write
    MaxQuantity,   \* bound: units of one product in a cart
    MaxEdits,      \* bound: edits by the administrator
    None           \* no product, no request, no order

ASSUME CheckoutAssumption ==
    /\ MaxQuantity \in Nat \ {0}
    /\ MaxEdits \in Nat
    /\ StockLevels \subseteq Nat
    /\ Prices \subseteq Nat
    /\ None \notin Products
    /\ None \notin Requests

VARIABLES
    catalog,    \* the products that exist
    stock,      \* committed Product.stock
    price,      \* committed Product.price
    cart,       \* committed CartItem.quantity by user and product, 0 if absent
    orders,     \* the order each request has committed, or None
    rowLock,    \* the request whose transaction holds the product's row, or None
    tx,         \* the local variables and the program point of each request
    edits,      \* number of administrator edits so far
    supplied    \* history: units put on the shelf so far, first stock and edits

vars == <<catalog, stock, price, cart, orders, rowLock, tx, edits, supplied>>

-----------------------------------------------------------------------------
(* Types                                                                   *)

Quantities == 0..MaxQuantity
Baskets == [Products -> Quantities]
Nothing == [p \in Products |-> 0]
InBasket(b) == {p \in Products : b[p] > 0}

OpenPoints == {"pricing", "picking", "updating", "creating"}
ClosedPoints == {"idle", "ordered", "rejected", "failed"}

(* What the client of a committed checkout is told: its order, or 500 if   *)
(* the answer to COMMIT is lost, so that $transaction rejects.             *)
Answers == {"ordered", "failed"}

(* The record of one request: the user it serves, the cart items it read,  *)
(* the prices it read, the items whose stock it has not decremented, the   *)
(* item it is at, and the running total.                                   *)
Txs == [ pc : OpenPoints \cup ClosedPoints,
         user : Users,
         items : Baskets,
         unit : [Products -> Nat],
         todo : SUBSET Products,
         at : Products \cup {None},
         total : Nat ]

Orders == [ user : Users, items : Baskets, unit : [Products -> Nat],
            total : Nat ]

ASSUME NoneIsNoOrder == None \notin Orders
ASSUME FiniteCatalog == IsFiniteSet(Products)

(* A request before its transaction, or after its answer.                  *)
Closed(user, outcome) ==
    [ pc |-> outcome, user |-> user, items |-> Nothing, unit |-> Nothing,
      todo |-> {}, at |-> None, total |-> 0 ]

TypeOK ==
    /\ catalog \subseteq Products
    /\ stock \in [Products -> Int]
    /\ price \in [Products -> Nat]
    /\ cart \in [Users -> Baskets]
    /\ orders \in [Requests -> Orders \cup {None}]
    /\ rowLock \in [Products -> Requests \cup {None}]
    /\ tx \in [Requests -> Txs]
    /\ edits \in 0..MaxEdits
    /\ supplied \in [Products -> Int]

-----------------------------------------------------------------------------
Init ==
    /\ catalog = Products
    /\ stock \in [Products -> StockLevels]
    /\ price \in [Products -> Prices]
    /\ cart \in [Users -> Baskets]
    /\ orders = [r \in Requests |-> None]
    /\ rowLock = [p \in Products |-> None]
    /\ tx \in [Requests -> {Closed(u, "idle") : u \in Users}]
    /\ edits = 0
    /\ supplied = stock

-----------------------------------------------------------------------------
(* The statements of the checkout transaction                              *)

IsOpen(r) == tx[r].pc \in OpenPoints

(* The end of a transaction, by commit or by rollback, frees its rows.     *)
Unlock(r) == [p \in Products |-> IF rowLock[p] = r THEN None ELSE rowLock[p]]

(* Mutant of Rollback: the statements run outside a transaction, so what   *)
(* was decremented before an error stays decremented.                      *)
RollbackKeepsDecrements(r, outcome) ==
    /\ rowLock' = Unlock(r)
    /\ stock' = [p \in Products |->
                   IF rowLock[p] = r THEN stock[p] - tx[r].items[p] ELSE stock[p]]
    /\ tx' = [tx EXCEPT ![r] = Closed(tx[r].user, outcome)]
    /\ UNCHANGED <<catalog, price, cart, orders>>

(* Mutant of Rollback: the request is answered and its transaction, with   *)
(* the rows it has locked, stays open.                                     *)
RollbackLeavesOpen(r, outcome) ==
    /\ rowLock' = rowLock
    /\ tx' = [tx EXCEPT ![r] = Closed(tx[r].user, outcome)]
    /\ UNCHANGED <<catalog, stock, price, cart, orders>>

(* Rolling back drops the transaction's uncommitted writes with its locks. *)
Rollback(r, outcome) ==
    /\ rowLock' = Unlock(r)
    /\ tx' = [tx EXCEPT ![r] = Closed(tx[r].user, outcome)]
    /\ UNCHANGED <<catalog, stock, price, cart, orders>>

(* tx.cart.findUnique reads the cart with its items, without any lock.     *)
ReadCart(r) ==
    LET read == cart[tx[r].user]
    IN  /\ tx[r].pc = "idle"
        /\ tx' = [tx EXCEPT ![r] =
                    IF read = Nothing
                      THEN Closed(tx[r].user, "rejected")
                      ELSE [@ EXCEPT !.pc = "pricing", !.items = read,
                                     !.todo = InBasket(read)]]
        /\ UNCHANGED <<catalog, stock, price, cart, orders, rowLock, edits, supplied>>

(* include: product is a query of its own, so it may see prices committed  *)
(* after the items were read.  An item whose product is gone by now makes  *)
(* the read, and with it the transaction, fail.                            *)
ReadProducts(r) ==
    /\ tx[r].pc = "pricing"
    /\ IF tx[r].todo \subseteq catalog
         THEN /\ tx' = [tx EXCEPT ![r].pc = "picking",
                                  ![r].unit = [p \in Products |->
                                      IF p \in tx[r].todo THEN price[p] ELSE 0]]
              /\ UNCHANGED <<catalog, stock, price, cart, orders, rowLock>>
         ELSE Rollback(r, "failed")
    /\ UNCHANGED <<edits, supplied>>

(* The loop over cart.items, whose query asks for no order: the next item  *)
(* may be any that is left.  From here the UPDATE waits for its row.       *)
PickItem(r, p) ==
    /\ tx[r].pc = "picking"
    /\ p \in tx[r].todo
    /\ tx' = [tx EXCEPT ![r].pc = "updating", ![r].at = p]
    /\ UNCHANGED <<catalog, stock, price, cart, orders, rowLock, edits, supplied>>

(* Mutant of Matches: the stock is not part of the WHERE clause.           *)
MatchesAnyStock(r) == tx[r].at \in catalog

(* updateMany matches the row: it exists and has the units.                *)
Matches(r) ==
    /\ tx[r].at \in catalog
    /\ stock[tx[r].at] >= tx[r].items[tx[r].at]

(* Mutant of LineTotal: the line costs what the product costs by now.      *)
LineTotalByNow(r, p) == tx[r].items[p] * price[p]

(* subtotal: what the line costs at the price read with the cart.          *)
LineTotal(r, p) == tx[r].items[p] * tx[r].unit[p]

(* Mutant of Decrement: the item is decremented and stays in the loop.     *)
DecrementKeepsItem(r) ==
    LET p == tx[r].at
    IN  /\ tx[r].pc = "updating"
        /\ IF Matches(r)
             THEN /\ rowLock[p] \in {None, r}
                  /\ rowLock' = [rowLock EXCEPT ![p] = r]
                  /\ tx' = [tx EXCEPT ![r].pc = "picking", ![r].at = None]
                  /\ UNCHANGED <<catalog, stock, price, cart, orders>>
             ELSE Rollback(r, "rejected")
        /\ UNCHANGED <<edits, supplied>>

(* updateMany({ id, stock >= quantity }, decrement): it waits for a row it *)
(* matches, and gives up at once on one that it does not match.            *)
Decrement(r) ==
    LET p == tx[r].at
        left == tx[r].todo \ {p}
    IN  /\ tx[r].pc = "updating"
        /\ IF Matches(r)
             THEN /\ rowLock[p] = None
                  /\ rowLock' = [rowLock EXCEPT ![p] = r]
                  /\ tx' = [tx EXCEPT
                       ![r].pc = IF left = {} THEN "creating" ELSE "picking",
                       ![r].todo = left,
                       ![r].at = None,
                       ![r].total = @ + LineTotal(r, p)]
                  /\ UNCHANGED <<catalog, stock, price, cart, orders>>
             ELSE Rollback(r, "rejected")
        /\ UNCHANGED <<edits, supplied>>

(* Mutant of Decremented: one unit is taken, whatever the quantity.        *)
DecrementedByOne(r) ==
    [p \in Products |-> IF rowLock[p] = r THEN stock[p] - 1 ELSE stock[p]]

(* The decrements of the rows the transaction has locked.                  *)
Decremented(r) ==
    [p \in Products |-> IF rowLock[p] = r THEN stock[p] - tx[r].items[p] ELSE stock[p]]

(* order.create, cartItem.deleteMany of every item now in the cart, and    *)
(* the commit: nobody sees the order before the commit, and a cart         *)
(* operation on a deleted item waits for it, so these are one step.  Once  *)
(* it has taken effect, a lost answer changes what the client is told, not *)
(* what is committed.                                                      *)
Commit(r, answer) ==
    /\ tx[r].pc = "creating"
    /\ orders' = [orders EXCEPT ![r] =
                    [ user |-> tx[r].user, items |-> tx[r].items,
                      unit |-> tx[r].unit, total |-> tx[r].total ]]
    /\ stock' = Decremented(r)
    /\ cart' = [cart EXCEPT ![tx[r].user] = Nothing]
    /\ rowLock' = Unlock(r)
    /\ tx' = [tx EXCEPT ![r] = Closed(tx[r].user, answer)]
    /\ UNCHANGED <<catalog, price, edits, supplied>>

(* A lost connection, a crash of the process, the five seconds Prisma      *)
(* allows an interactive transaction, or a total that overflows its column *)
(* ends the transaction at any point before its commit takes effect.       *)
Abort(r) ==
    /\ IsOpen(r)
    /\ Rollback(r, "failed")
    /\ UNCHANGED <<edits, supplied>>

(* r waits for a row held by a transaction that waits ... for a row of r.  *)
Waiting(r) == tx[r].pc = "updating" /\ Matches(r) /\ rowLock[tx[r].at] # None
Deadlocked(r) ==
    \E S \in SUBSET Requests :
        /\ r \in S
        /\ \A s \in S : Waiting(s)
        /\ {rowLock[tx[s].at] : s \in S} = S

(* PostgreSQL finds the cycle and aborts one of its transactions.          *)
BreakDeadlock(r) ==
    /\ Deadlocked(r)
    /\ Rollback(r, "failed")
    /\ UNCHANGED <<edits, supplied>>

-----------------------------------------------------------------------------
(* The customer's cart operations: single statements that commit at once   *)

(* POST /cart/items upserts the item, adding to the quantity it has.       *)
AddItem(u, p, q) ==
    /\ p \in catalog
    /\ cart[u][p] + q <= MaxQuantity
    /\ cart' = [cart EXCEPT ![u][p] = @ + q]
    /\ UNCHANGED <<catalog, stock, price, orders, rowLock, tx, edits, supplied>>

(* Mutant of UpdateItemQuantity: the new quantity is added to the old one. *)
UpdateItemQuantityAdds(u, p, q) ==
    /\ cart[u][p] > 0
    /\ cart' = [cart EXCEPT ![u][p] = @ + q]
    /\ UNCHANGED <<catalog, stock, price, orders, rowLock, tx, edits, supplied>>

(* PATCH /cart/items/:productId writes the quantity of an item it finds.   *)
UpdateItemQuantity(u, p, q) ==
    /\ cart[u][p] > 0
    /\ cart' = [cart EXCEPT ![u][p] = q]
    /\ UNCHANGED <<catalog, stock, price, orders, rowLock, tx, edits, supplied>>

(* DELETE /cart/items/:productId.                                          *)
RemoveItem(u, p) ==
    /\ cart[u][p] > 0
    /\ cart' = [cart EXCEPT ![u][p] = 0]
    /\ UNCHANGED <<catalog, stock, price, orders, rowLock, tx, edits, supplied>>

(* DELETE /cart.                                                           *)
ClearCart(u) ==
    /\ cart' = [cart EXCEPT ![u] = Nothing]
    /\ UNCHANGED <<catalog, stock, price, orders, rowLock, tx, edits, supplied>>

-----------------------------------------------------------------------------
(* The administrator's edits; an UPDATE or DELETE waits for the row too    *)

(* PATCH /products/:id writes an absolute price and an absolute stock, or  *)
(* leaves those it is not given.                                           *)
Levels(p) == StockLevels \cup {stock[p]}

UpdateProduct(p, n, c) ==
    /\ edits < MaxEdits
    /\ p \in catalog
    /\ rowLock[p] = None
    /\ stock' = [stock EXCEPT ![p] = n]
    /\ price' = [price EXCEPT ![p] = c]
    /\ supplied' = [supplied EXCEPT ![p] = @ + n - stock[p]]
    /\ edits' = edits + 1
    /\ UNCHANGED <<catalog, cart, orders, rowLock, tx>>

(* DELETE /products/:id cascades to the cart items, not to order items.    *)
DeleteProduct(p) ==
    /\ edits < MaxEdits
    /\ p \in catalog
    /\ rowLock[p] = None
    /\ catalog' = catalog \ {p}
    /\ cart' = [u \in Users |-> [cart[u] EXCEPT ![p] = 0]]
    /\ edits' = edits + 1
    /\ UNCHANGED <<stock, price, orders, rowLock, tx, supplied>>

-----------------------------------------------------------------------------
CheckoutStep(r) ==
    \/ ReadProducts(r)
    \/ \E p \in Products : PickItem(r, p)
    \/ Decrement(r)
    \/ \E answer \in Answers : Commit(r, answer)

CartStep(u) ==
    \/ \E p \in Products, q \in Quantities \ {0} : AddItem(u, p, q)
    \/ \E p \in Products, q \in Quantities \ {0} : UpdateItemQuantity(u, p, q)
    \/ \E p \in Products : RemoveItem(u, p)
    \/ ClearCart(u)

AdminStep ==
    \/ \E p \in Products : \E n \in Levels(p), c \in Prices : UpdateProduct(p, n, c)
    \/ \E p \in Products : DeleteProduct(p)

Next ==
    \/ \E r \in Requests :
         ReadCart(r) \/ CheckoutStep(r) \/ Abort(r) \/ BreakDeadlock(r)
    \/ \E u \in Users : CartStep(u)
    \/ AdminStep

Spec == Init /\ [][Next]_vars

(* The server runs a request it has begun, and PostgreSQL looks for        *)
(* deadlocks; nobody owes the system a new request, an edit or a failure.  *)
Fairness == \A r \in Requests : WF_vars(CheckoutStep(r)) /\ WF_vars(BreakDeadlock(r))
FairSpec == Spec /\ Fairness
-----------------------------------------------------------------------------
(* What must hold                                                          *)

(* Every unit of an existing product is accounted for: what is on the      *)
(* shelf and what committed orders took add up to the first stock level    *)
(* plus what administrators added.  No failure, retry or race of checkouts *)
(* loses or invents a unit.                                                *)
Ordered == {r \in Requests : orders[r] # None}
OrderedUnits(p) == SumFunction([r \in Ordered |-> orders[r].items[p]])

StockConserved ==
    \A p \in Products : stock[p] + OrderedUnits(p) = supplied[p]

(* No product is oversold, and the units an open transaction has taken are *)
(* still on the committed shelf: whatever happens before its commit, the   *)
(* commit cannot drive the stock below zero.                               *)
PendingUnitsCovered ==
    \A p \in Products :
        /\ stock[p] >= 0
        /\ rowLock[p] # None => stock[p] >= tx[rowLock[p]].items[p]

(* A checkout is all or nothing, whatever ends it: a request that answered *)
(* "created" has its order; one that was refused (400), is under way or    *)
(* has not begun has none; after an error (500) either may be, as the      *)
(* answer to COMMIT can be lost.  A request that is not in a transaction   *)
(* holds no row; an open one holds exactly the rows of the items it is     *)
(* past.                                                                   *)
AllOrNothing ==
    \A r \in Requests :
        /\ tx[r].pc = "ordered" => orders[r] # None
        /\ orders[r] # None => tx[r].pc \in Answers
        /\ {p \in Products : rowLock[p] = r} =
              IF IsOpen(r) THEN InBasket(tx[r].items) \ tx[r].todo ELSE {}

(* The total an order is charged by is the sum over its items of the unit  *)
(* price stored with the item, and an order is never empty.                *)
Lines(o) == [p \in Products |-> o.items[p] * o.unit[p]]

OrderTotalsMatch ==
    \A r \in Requests : orders[r] # None =>
        /\ orders[r].items # Nothing
        /\ orders[r].total = SumFunction(Lines(orders[r]))

(* Nobody is stuck: among an open transaction, those it waits for, those   *)
(* they wait for and so on, one can run its next statement, or PostgreSQL  *)
(* finds a cycle it breaks.  So no row is waited for that nobody will free.*)
CanStep(r) ==
    \/ tx[r].pc = "pricing"
    \/ tx[r].pc = "picking" /\ tx[r].todo # {}
    \/ tx[r].pc = "updating" /\ ~Waiting(r)
    \/ tx[r].pc = "creating"

HoldersFor(S) == {rowLock[tx[s].at] : s \in {s \in S : Waiting(s)}}

SomebodyRuns ==
    \A S \in SUBSET Requests :
        (\E r \in S : IsOpen(r)) /\ HoldersFor(S) \subseteq S =>
            \E s \in S : CanStep(s) \/ Deadlocked(s)

(* And nobody runs for ever: whatever an open transaction does brings it   *)
(* nearer to its end, two statements of the loop for each item left.       *)
StepsLeft(r) ==
    2 * Cardinality(tx[r].todo) +
      (CASE tx[r].pc = "pricing" -> 2 [] tx[r].pc = "picking" -> 1 [] OTHER -> 0)

CheckoutsAdvance ==
    [][\A r \in Requests : IsOpen(r) /\ tx'[r] # tx[r] =>
          ~IsOpen(r)' \/ StepsLeft(r)' < StepsLeft(r)]_vars

(* Every checkout is answered: waiting for rows never lasts, whatever the  *)
(* order in which two carts name the same products.                        *)
CheckoutsAnswered == \A r \in Requests : IsOpen(r) ~> ~IsOpen(r)

(* Detailed transactions implement atomic purchases.                       *)
Sold == [r \in Requests |-> IF orders[r] = None THEN Nothing ELSE orders[r].items]
P == INSTANCE Purchases WITH sold <- Sold
AtomicPurchases == P!PSpec

(* "Atomic checkout converting cart items into immutable order items"      *)
(* (README.md:273): what an order sells is what the cart held just before  *)
(* the checkout emptied it, so that nothing is ordered twice, nothing that *)
(* was taken out is ordered, and nothing that was put in is lost.          *)
ConvertsTheCart ==
    [][\A r \in Requests : orders[r] = None /\ orders'[r] # None =>
          cart[orders'[r].user] = orders'[r].items]_vars
=============================================================================

--------------------------- MODULE CheckoutProofs ---------------------------
(***************************************************************************)
(* Proofs about Checkout: for any users, products, requests, prices and    *)
(* bounds, no product is oversold, checkouts are all or nothing, and the   *)
(* transactions implement the atomic purchases of Purchases.               *)
(***************************************************************************)
EXTENDS Checkout, FiniteFacts, TLAPS

(* What the program points mean: an open transaction has something to buy, *)
(* the item it is at is one it still has to decrement, it picks one only   *)
(* when there is one, and creates the order when none is left.             *)
PointsOK ==
    \A r \in Requests : IsOpen(r) =>
        /\ tx[r].items # Nothing
        /\ tx[r].todo \subseteq InBasket(tx[r].items)
        /\ tx[r].pc = "pricing" => tx[r].todo = InBasket(tx[r].items)
        /\ tx[r].pc = "picking" => tx[r].todo # {}
        /\ tx[r].pc = "updating" => tx[r].at \in tx[r].todo
        /\ tx[r].pc = "creating" => tx[r].todo = {}

CheckoutInv == TypeOK /\ PointsOK /\ AllOrNothing /\ PendingUnitsCovered

-----------------------------------------------------------------------------
(* The record a request is left with is well typed.                        *)
LEMMA ClosedType ==
    ASSUME NEW u \in Users, NEW outcome \in ClosedPoints
    PROVE  /\ Closed(u, outcome) \in Txs
           /\ Closed(u, outcome).pc = outcome
  BY CheckoutAssumption, SMT
  DEF CheckoutAssumption, Closed, Txs, Nothing, Baskets, Quantities

(* A sum of products of naturals is a natural.                             *)
LEMMA TotalType ==
    ASSUME NEW a \in Nat, NEW b \in Nat, NEW c \in Nat
    PROVE  a + b * c \in Nat
  OBVIOUS

(* A basket that is not empty has something in it.                         *)
LEMMA SomethingInBasket ==
    ASSUME NEW b \in [Products -> Nat], b # Nothing
    PROVE  InBasket(b) # {}
  BY DEF InBasket, Nothing

(* The invariant holds initially.                                          *)
LEMMA InitInv == Init => CheckoutInv
  <1> SUFFICES ASSUME Init PROVE CheckoutInv
    OBVIOUS
  <1>1. TypeOK
    <2>1. tx \in [Requests -> Txs]
      BY ClosedType DEF Init, ClosedPoints
    <2>2. /\ stock \in [Products -> Int]
          /\ price \in [Products -> Nat]
          /\ supplied \in [Products -> Int]
      <3>1. /\ \A n \in StockLevels : n \in Int
            /\ \A n \in Prices : n \in Nat
        BY CheckoutAssumption
      <3>2. stock \in [Products -> StockLevels] /\ price \in [Products -> Prices]
        BY DEF Init
      <3> QED
        BY <3>1, <3>2 DEF Init
    <2>3. /\ orders \in [Requests -> Orders \cup {None}]
          /\ rowLock \in [Products -> Requests \cup {None}]
      BY DEF Init
    <2>4. edits \in 0..MaxEdits
      BY CheckoutAssumption DEF Init, CheckoutAssumption
    <2> QED
      BY <2>1, <2>2, <2>3, <2>4 DEF Init, TypeOK
  <1>2. \A r \in Requests : tx[r].pc = "idle"
    BY DEF Init, Closed
  <1>3. PointsOK
    BY <1>2 DEF PointsOK, IsOpen, OpenPoints
  <1>4. AllOrNothing
    BY <1>2, CheckoutAssumption
    DEF Init, AllOrNothing, IsOpen, OpenPoints, CheckoutAssumption
  <1>5. PendingUnitsCovered
    <2>1. \A n \in StockLevels : n \in Int /\ n >= 0
      BY CheckoutAssumption
    <2>2. \A p \in Products : stock[p] \in StockLevels /\ rowLock[p] = None
      BY DEF Init
    <2> QED
      BY <2>1, <2>2 DEF PendingUnitsCovered
  <1> QED
    BY <1>1, <1>3, <1>4, <1>5 DEF CheckoutInv

-----------------------------------------------------------------------------
(* A rollback keeps the invariant, whatever the outcome it answers with.   *)
LEMMA RollbackInv ==
    ASSUME CheckoutInv, NEW r \in Requests, NEW outcome \in {"rejected", "failed"},
           IsOpen(r), Rollback(r, outcome), UNCHANGED <<edits, supplied>>
    PROVE  CheckoutInv'
  <1> USE DEF CheckoutInv
  <1>1. /\ tx[r].user \in Users
        /\ Closed(tx[r].user, outcome) \in Txs
        /\ Closed(tx[r].user, outcome).pc = outcome
    BY ClosedType DEF TypeOK, Txs, ClosedPoints
  <1>2. /\ tx' = [tx EXCEPT ![r] = Closed(tx[r].user, outcome)]
        /\ rowLock' = [p \in Products |-> IF rowLock[p] = r THEN None ELSE rowLock[p]]
        /\ UNCHANGED <<catalog, stock, price, cart, orders, edits, supplied>>
    BY DEF Rollback, Unlock
  <1>3. /\ tx'[r].pc = outcome
        /\ \A s \in Requests \ {r} : tx'[s] = tx[s]
    BY <1>1, <1>2 DEF TypeOK
  <1>4. TypeOK'
    BY <1>1, <1>2 DEF TypeOK
  <1>5. PointsOK'
    BY <1>3 DEF PointsOK, IsOpen, OpenPoints, InBasket
  <1>6. AllOrNothing'
    BY <1>2, <1>3, CheckoutAssumption
    DEF AllOrNothing, Answers, IsOpen, OpenPoints, InBasket, CheckoutAssumption, TypeOK
  <1>7. PendingUnitsCovered'
    BY <1>2, <1>3, CheckoutAssumption DEF PendingUnitsCovered, TypeOK, CheckoutAssumption
  <1> QED
    BY <1>4, <1>5, <1>6, <1>7

-----------------------------------------------------------------------------
(* Reading the cart opens the transaction with something to buy, or ends   *)
(* the request.                                                            *)
LEMMA ReadCartInv ==
    ASSUME CheckoutInv, NEW r \in Requests, ReadCart(r)
    PROVE  CheckoutInv'
  <1> USE DEF CheckoutInv
  <1> DEFINE read == cart[tx[r].user]
             opened == [tx[r] EXCEPT !.pc = "pricing", !.items = read,
                                     !.todo = InBasket(read)]
  <1>1. /\ tx[r] \in Txs
        /\ tx[r].pc = "idle"
        /\ tx[r].user \in Users
        /\ read \in Baskets
        /\ UNCHANGED <<catalog, stock, price, cart, orders, rowLock, edits, supplied>>
    BY DEF TypeOK, Txs, ReadCart
  <1>2. ~IsOpen(r) /\ orders[r] = None /\ \A p \in Products : rowLock[p] # r
    <2>1. ~IsOpen(r)
      BY <1>1 DEF IsOpen, OpenPoints
    <2> QED
      BY <1>1, <2>1 DEF AllOrNothing, Answers
  <1>3. CASE read = Nothing
    <2>1. /\ Closed(tx[r].user, "rejected") \in Txs
          /\ Closed(tx[r].user, "rejected").pc = "rejected"
      BY <1>1, ClosedType DEF ClosedPoints
    <2>2. tx' = [tx EXCEPT ![r] = Closed(tx[r].user, "rejected")]
      BY <1>3 DEF ReadCart
    <2>3. TypeOK'
      BY <1>1, <2>1, <2>2 DEF TypeOK
    <2>4. tx'[r].pc = "rejected" /\ \A s \in Requests \ {r} : tx'[s] = tx[s]
      BY <2>1, <2>2 DEF TypeOK
    <2>5. PointsOK'
      BY <2>4 DEF PointsOK, IsOpen, OpenPoints, InBasket
    <2>6. AllOrNothing'
      BY <1>1, <1>2, <2>4 DEF AllOrNothing, IsOpen, OpenPoints, InBasket
    <2>7. PendingUnitsCovered'
      BY <1>1, <1>2, <2>4 DEF PendingUnitsCovered, TypeOK
    <2> QED
      BY <2>3, <2>5, <2>6, <2>7
  <1>4. CASE read # Nothing
    <2>1. /\ opened \in Txs
          /\ opened.pc = "pricing"
          /\ opened.items = read
          /\ opened.todo = InBasket(read)
      BY <1>1 DEF Txs, OpenPoints, InBasket
    <2>2. tx' = [tx EXCEPT ![r] = opened]
      BY <1>4 DEF ReadCart
    <2>3. TypeOK'
      BY <1>1, <2>1, <2>2 DEF TypeOK
    <2>4. tx'[r] = opened /\ \A s \in Requests \ {r} : tx'[s] = tx[s]
      BY <2>2 DEF TypeOK
    <2>5. PointsOK'
      <3>1. /\ tx'[r].pc = "pricing" /\ tx'[r].items # Nothing
            /\ tx'[r].todo = InBasket(tx'[r].items)
            /\ \A s \in Requests \ {r} : tx'[s] = tx[s]
        BY <1>4, <2>1, <2>4
      <3> HIDE DEF read
      <3> QED
        BY <3>1 DEF PointsOK, IsOpen, InBasket, Nothing
    <2>6. AllOrNothing'
      <3>1. tx'[r].pc = "pricing" /\ tx'[r].items = read /\ tx'[r].todo = InBasket(read)
        BY <2>1, <2>4
      <3>2. {p \in Products : rowLock'[p] = r} = {}
        BY <1>1, <1>2
      <3>3. /\ IsOpen(r)'
            /\ InBasket(tx'[r].items) \ tx'[r].todo = {}
            /\ orders'[r] = None
        BY <1>1, <1>2, <3>1 DEF IsOpen, OpenPoints
      <3>4. \A s \in Requests \ {r} :
              /\ orders'[s] = orders[s]
              /\ IsOpen(s)' = IsOpen(s)
              /\ {p \in Products : rowLock'[p] = s} = {p \in Products : rowLock[p] = s}
        BY <1>1, <2>4 DEF IsOpen
      <3> SUFFICES ASSUME NEW s \in Requests
                   PROVE  /\ tx'[s].pc = "ordered" => orders'[s] # None
                          /\ orders'[s] # None => tx'[s].pc \in Answers
                          /\ {p \in Products : rowLock'[p] = s} =
                               IF IsOpen(s)' THEN InBasket(tx'[s].items) \ tx'[s].todo ELSE {}
        BY DEF AllOrNothing, InBasket
      <3>5. CASE s = r
        <4> HIDE DEF read
        <4> QED
          BY <3>1, <3>2, <3>3, <3>5
      <3>6. CASE s # r
        BY <2>4, <3>4, <3>6 DEF AllOrNothing
      <3> QED
        BY <3>5, <3>6
    <2>7. PendingUnitsCovered'
      BY <1>1, <1>2, <2>4 DEF PendingUnitsCovered, TypeOK
    <2> QED
      BY <2>3, <2>5, <2>6, <2>7
  <1> QED
    BY <1>3, <1>4

(* Reading the products keeps the invariant.                               *)
LEMMA ReadProductsInv ==
    ASSUME CheckoutInv, NEW r \in Requests, ReadProducts(r)
    PROVE  CheckoutInv'
  <1> USE DEF CheckoutInv
  <1>1. /\ tx[r] \in Txs
        /\ tx[r].pc = "pricing"
        /\ UNCHANGED <<edits, supplied>>
    BY DEF TypeOK, ReadProducts
  <1>2. IsOpen(r)
    BY <1>1 DEF IsOpen, OpenPoints
  <1>3. CASE tx[r].todo \subseteq catalog
    <2> DEFINE unit == [p \in Products |-> IF p \in tx[r].todo THEN price[p] ELSE 0]
               priced == [tx[r] EXCEPT !.pc = "picking", !.unit = unit]
    <2>1. /\ tx' = [tx EXCEPT ![r] = priced]
          /\ UNCHANGED <<catalog, stock, price, cart, orders, rowLock>>
      BY <1>3 DEF ReadProducts, TypeOK
    <2>2. unit \in [Products -> Nat]
      BY DEF TypeOK
    <2>3. /\ priced \in Txs
          /\ priced.pc = "picking"
          /\ priced.items = tx[r].items
          /\ priced.todo = tx[r].todo
      BY <1>1, <2>2 DEF Txs, OpenPoints
    <2>4. TypeOK'
      BY <1>1, <2>1, <2>3 DEF TypeOK
    <2>5. tx'[r] = priced /\ \A s \in Requests \ {r} : tx'[s] = tx[s]
      BY <2>1 DEF TypeOK
    <2>6. PointsOK'
      <3>1. tx[r].todo # {}
        <4>1. tx[r].items # Nothing /\ tx[r].todo = InBasket(tx[r].items)
          BY <1>1, <1>2 DEF PointsOK
        <4>2. tx[r].items \in [Products -> Nat]
          BY <1>1, CheckoutAssumption DEF Txs, Baskets, Quantities
        <4> QED
          BY <4>1, <4>2, SomethingInBasket
      <3>2. /\ tx'[r].pc = "picking"
            /\ tx'[r].items = tx[r].items
            /\ tx'[r].todo = tx[r].todo
            /\ \A s \in Requests \ {r} : tx'[s] = tx[s]
        BY <2>3, <2>5
      <3> HIDE DEF priced
      <3> QED
        BY <1>2, <3>1, <3>2 DEF PointsOK, IsOpen, InBasket
    <2>7. AllOrNothing'
      BY <1>1, <1>2, <2>1, <2>3, <2>5 DEF AllOrNothing, IsOpen, OpenPoints, Answers, InBasket
    <2>8. PendingUnitsCovered'
      BY <2>1, <2>3, <2>5 DEF PendingUnitsCovered, TypeOK
    <2> QED
      BY <2>4, <2>6, <2>7, <2>8
  <1>4. CASE ~(tx[r].todo \subseteq catalog)
    <2>1. Rollback(r, "failed")
      BY <1>4 DEF ReadProducts
    <2> QED
      BY <1>1, <1>2, <2>1, RollbackInv
  <1> QED
    BY <1>3, <1>4

(* Choosing the next item keeps the invariant.                             *)
LEMMA PickItemInv ==
    ASSUME CheckoutInv, NEW r \in Requests, NEW p \in Products, PickItem(r, p)
    PROVE  CheckoutInv'
  <1> USE DEF CheckoutInv
  <1> DEFINE picked == [tx[r] EXCEPT !.pc = "updating", !.at = p]
  <1>1. /\ tx[r] \in Txs
        /\ tx[r].pc = "picking"
        /\ p \in tx[r].todo
        /\ tx' = [tx EXCEPT ![r] = picked]
        /\ UNCHANGED <<catalog, stock, price, cart, orders, rowLock, edits, supplied>>
    BY DEF TypeOK, PickItem
  <1>2. IsOpen(r)
    BY <1>1 DEF IsOpen, OpenPoints
  <1>3. /\ picked \in Txs
        /\ picked.pc = "updating"
        /\ picked.at = p
        /\ picked.items = tx[r].items
        /\ picked.todo = tx[r].todo
    BY <1>1 DEF Txs, OpenPoints
  <1>4. TypeOK'
    BY <1>1, <1>3 DEF TypeOK
  <1>5. tx'[r] = picked /\ \A s \in Requests \ {r} : tx'[s] = tx[s]
    BY <1>1 DEF TypeOK
  <1>6. PointsOK'
    BY <1>1, <1>2, <1>3, <1>5 DEF PointsOK, IsOpen, OpenPoints, InBasket
  <1>7. AllOrNothing'
    BY <1>1, <1>2, <1>3, <1>5 DEF AllOrNothing, IsOpen, OpenPoints, Answers, InBasket
  <1>8. PendingUnitsCovered'
    BY <1>1, <1>3, <1>5 DEF PendingUnitsCovered, TypeOK
  <1> QED
    BY <1>4, <1>6, <1>7, <1>8

(* The guarded decrement takes a free row, and the units it takes are      *)
(* there; if they are not, the transaction rolls back.                     *)
LEMMA DecrementInv ==
    ASSUME CheckoutInv, NEW r \in Requests, Decrement(r)
    PROVE  CheckoutInv'
  <1> USE DEF CheckoutInv
  <1> DEFINE p == tx[r].at
             left == tx[r].todo \ {p}
             newTotal == tx[r].total + tx[r].items[p] * tx[r].unit[p]
             point == IF left = {} THEN "creating" ELSE "picking"
             moved == [tx[r] EXCEPT !.pc = point, !.todo = left, !.at = None,
                                    !.total = newTotal]
  <1>1. /\ tx[r] \in Txs
        /\ tx[r].pc = "updating"
        /\ UNCHANGED <<edits, supplied>>
    BY DEF TypeOK, Decrement
  <1>2. IsOpen(r)
    BY <1>1 DEF IsOpen, OpenPoints
  <1>3. /\ p \in tx[r].todo
        /\ p \in Products
        /\ tx[r].todo \subseteq InBasket(tx[r].items)
        /\ tx[r].items # Nothing
    BY <1>1, <1>2 DEF PointsOK, InBasket
  <1>4. CASE Matches(r)
    <2>1. /\ rowLock[p] = None
          /\ rowLock' = [rowLock EXCEPT ![p] = r]
          /\ tx' = [tx EXCEPT ![r] = moved]
          /\ UNCHANGED <<catalog, stock, price, cart, orders>>
      BY <1>4 DEF Decrement, LineTotal, TypeOK
    <2>2. stock[p] >= tx[r].items[p]
      BY <1>4 DEF Matches
    <2>3. newTotal \in Nat
      <3>1. /\ tx[r].total \in Nat
            /\ tx[r].unit[p] \in Nat
            /\ tx[r].items[p] \in Nat
        BY <1>1, <1>3, CheckoutAssumption DEF Txs, Baskets, Quantities
      <3> QED
        BY <3>1, TotalType
    <2>4. point \in OpenPoints
      BY DEF OpenPoints
    <2> HIDE DEF newTotal, point
    <2>5. /\ moved \in Txs
          /\ moved.pc = point
          /\ moved.items = tx[r].items
          /\ moved.todo = left
      BY <1>1, <2>3, <2>4 DEF Txs
    <2>6. TypeOK'
      BY <1>1, <1>3, <2>1, <2>5 DEF TypeOK
    <2>7. tx'[r] = moved /\ \A s \in Requests \ {r} : tx'[s] = tx[s]
      BY <2>1 DEF TypeOK
    <2>8. PointsOK'
      <3>1. /\ moved.pc \notin {"updating", "pricing"}
            /\ moved.pc = "creating" => left = {}
            /\ moved.pc = "picking" => left # {}
        BY <2>5 DEF point
      <3>2. /\ tx'[r].pc = moved.pc
            /\ tx'[r].items = tx[r].items
            /\ tx'[r].todo = left
            /\ \A s \in Requests \ {r} : tx'[s] = tx[s]
        BY <2>5, <2>7
      <3> HIDE DEF moved
      <3> QED
        BY <1>3, <3>1, <3>2 DEF PointsOK, IsOpen, InBasket
    <2>9. AllOrNothing'
      <3> SUFFICES ASSUME NEW s \in Requests
                   PROVE  /\ tx'[s].pc = "ordered" => orders'[s] # None
                          /\ orders'[s] # None => tx'[s].pc \in Answers
                          /\ {q \in Products : rowLock'[q] = s} =
                               IF IsOpen(s)' THEN InBasket(tx'[s].items) \ tx'[s].todo ELSE {}
        BY DEF AllOrNothing, InBasket
      <3>1. CASE s = r
        <4>1. tx'[r].pc \in OpenPoints /\ tx'[r].pc # "ordered" /\ orders'[r] = None
          BY <1>1, <2>1, <2>4, <2>5, <2>7 DEF AllOrNothing, OpenPoints, Answers
        <4>2. {q \in Products : rowLock[q] = r} = InBasket(tx[r].items) \ tx[r].todo
          BY <1>2 DEF AllOrNothing
        <4>3. {q \in Products : rowLock'[q] = r} = {q \in Products : rowLock[q] = r} \cup {p}
          BY <1>3, <2>1 DEF TypeOK
        <4>4. InBasket(tx'[r].items) \ tx'[r].todo = (InBasket(tx[r].items) \ tx[r].todo) \cup {p}
          BY <1>3, <2>5, <2>7
        <4> QED
          BY <3>1, <4>1, <4>2, <4>3, <4>4 DEF IsOpen
      <3>2. CASE s # r
        <4>1. {q \in Products : rowLock'[q] = s} = {q \in Products : rowLock[q] = s}
          BY <1>1, <1>3, <2>1, <3>2, CheckoutAssumption DEF TypeOK
        <4> QED
          BY <2>1, <2>7, <3>2, <4>1 DEF AllOrNothing, IsOpen
      <3> QED
        BY <3>1, <3>2
    <2>10. PendingUnitsCovered'
      <3> SUFFICES ASSUME NEW q \in Products
                   PROVE  /\ stock'[q] >= 0
                          /\ rowLock'[q] # None => stock'[q] >= tx'[rowLock'[q]].items[q]
        BY DEF PendingUnitsCovered
      <3>1. tx'[r].items = tx[r].items
        BY <2>5, <2>7
      <3>2. CASE q = p
        BY <2>1, <2>2, <3>1, <3>2 DEF PendingUnitsCovered, TypeOK
      <3>3. CASE q # p
        BY <2>1, <2>7, <3>1, <3>3 DEF PendingUnitsCovered, TypeOK
      <3> QED
        BY <3>2, <3>3
    <2> QED
      BY <2>6, <2>8, <2>9, <2>10
  <1>5. CASE ~Matches(r)
    <2>1. Rollback(r, "rejected")
      BY <1>5 DEF Decrement
    <2> QED
      BY <1>1, <1>2, <2>1, RollbackInv
  <1> QED
    BY <1>4, <1>5

(* What a commit takes: exactly the items it read, all of them covered.    *)
LEMMA CommitTakes ==
    ASSUME CheckoutInv, NEW r \in Requests, NEW answer \in Answers, Commit(r, answer)
    PROVE  /\ tx[r] \in Txs
           /\ tx[r].items # Nothing
           /\ \A p \in Products :
                /\ tx[r].items[p] \in Nat
                /\ tx[r].items[p] <= stock[p]
                /\ stock'[p] = stock[p] - tx[r].items[p]
                /\ rowLock[p] # r => tx[r].items[p] = 0
  <1> USE DEF CheckoutInv
  <1>1. /\ tx[r] \in Txs
        /\ tx[r].pc = "creating"
        /\ stock' = Decremented(r)
    BY DEF TypeOK, Commit
  <1>2. IsOpen(r)
    BY <1>1 DEF IsOpen, OpenPoints
  <1>3. tx[r].items # Nothing /\ tx[r].todo = {}
    BY <1>1, <1>2 DEF PointsOK
  <1>4. {p \in Products : rowLock[p] = r} = InBasket(tx[r].items)
    BY <1>2, <1>3 DEF AllOrNothing
  <1>5. \A p \in Products : tx[r].items[p] \in Nat
    BY <1>1, CheckoutAssumption DEF Txs, Baskets, Quantities
  <1>6. \A p \in Products : rowLock[p] # r => tx[r].items[p] = 0
    BY <1>4, <1>5 DEF InBasket
  <1>7. \A p \in Products : tx[r].items[p] <= stock[p]
    BY <1>5, <1>6, CheckoutAssumption DEF PendingUnitsCovered, TypeOK
  <1>8. \A p \in Products : stock'[p] = stock[p] - tx[r].items[p]
    BY <1>1, <1>5, <1>6 DEF Decremented, TypeOK
  <1> QED
    BY <1>1, <1>3, <1>5, <1>6, <1>7, <1>8

(* The commit keeps the invariant.                                         *)
LEMMA CommitInv ==
    ASSUME CheckoutInv, NEW r \in Requests, NEW answer \in Answers, Commit(r, answer)
    PROVE  CheckoutInv'
  <1> USE DEF CheckoutInv
  <1> DEFINE order == [ user |-> tx[r].user, items |-> tx[r].items,
                        unit |-> tx[r].unit, total |-> tx[r].total ]
             closed == Closed(tx[r].user, answer)
  <1>1. /\ tx[r] \in Txs
        /\ tx[r].pc = "creating"
        /\ orders' = [orders EXCEPT ![r] = order]
        /\ cart' = [cart EXCEPT ![tx[r].user] = Nothing]
        /\ rowLock' = [q \in Products |-> IF rowLock[q] = r THEN None ELSE rowLock[q]]
        /\ tx' = [tx EXCEPT ![r] = closed]
        /\ stock' = Decremented(r)
        /\ UNCHANGED <<catalog, price, edits, supplied>>
    BY DEF TypeOK, Commit, Unlock
  <1>2. order \in Orders /\ order # None
    BY <1>1, NoneIsNoOrder DEF Txs, Orders
  <1>3. closed \in Txs /\ closed.pc \in Answers
    <2>1. answer \in ClosedPoints
      BY DEF Answers, ClosedPoints
    <2> QED
      BY <1>1, <2>1, ClosedType DEF Txs
  <1> HIDE DEF order, closed
  <1>4. tx'[r] = closed /\ \A s \in Requests \ {r} : tx'[s] = tx[s]
    BY <1>1 DEF TypeOK
  <1>5. TypeOK'
    <2>1. stock' \in [Products -> Int]
      <3>1. \A q \in Products : stock[q] \in Int /\ tx[r].items[q] \in Int
        BY CommitTakes DEF TypeOK
      <3> QED
        BY <1>1, <3>1 DEF Decremented
    <2>2. Nothing \in Baskets
      BY CheckoutAssumption DEF Nothing, Baskets, Quantities
    <2> QED
      BY <1>1, <1>2, <1>3, <2>1, <2>2 DEF TypeOK
  <1>6. PointsOK'
    BY <1>3, <1>4 DEF PointsOK, IsOpen, OpenPoints, Answers, InBasket
  <1>7. AllOrNothing'
    <2> SUFFICES ASSUME NEW s \in Requests
                 PROVE  /\ tx'[s].pc = "ordered" => orders'[s] # None
                        /\ orders'[s] # None => tx'[s].pc \in Answers
                        /\ {q \in Products : rowLock'[q] = s} =
                             IF IsOpen(s)' THEN InBasket(tx'[s].items) \ tx'[s].todo ELSE {}
      BY DEF AllOrNothing, InBasket
    <2>1. CASE s = r
      <3>1. orders'[r] # None /\ tx'[r].pc \in Answers /\ ~IsOpen(r)'
        BY <1>1, <1>2, <1>3, <1>4 DEF TypeOK, IsOpen, OpenPoints, Answers
      <3>2. {q \in Products : rowLock'[q] = r} = {}
        BY <1>1, CheckoutAssumption
      <3> QED
        BY <2>1, <3>1, <3>2
    <2>2. CASE s # r
      <3>1. {q \in Products : rowLock'[q] = s} = {q \in Products : rowLock[q] = s}
        BY <1>1, <2>2, CheckoutAssumption DEF TypeOK
      <3> QED
        BY <1>1, <1>4, <2>2, <3>1 DEF AllOrNothing, IsOpen, TypeOK
    <2> QED
      BY <2>1, <2>2
  <1>8. PendingUnitsCovered'
    <2> SUFFICES ASSUME NEW q \in Products
                 PROVE  /\ stock'[q] >= 0
                        /\ rowLock'[q] # None => stock'[q] >= tx'[rowLock'[q]].items[q]
      BY DEF PendingUnitsCovered
    <2>1. /\ tx[r].items[q] \in Nat
          /\ tx[r].items[q] <= stock[q]
          /\ stock'[q] = stock[q] - tx[r].items[q]
          /\ rowLock[q] # r => tx[r].items[q] = 0
          /\ stock[q] \in Int
      BY CommitTakes DEF TypeOK
    <2>2. CASE rowLock[q] = r
      BY <1>1, <2>1, <2>2
    <2>3. CASE rowLock[q] # r
      BY <1>1, <1>4, <2>1, <2>3 DEF PendingUnitsCovered, TypeOK
    <2> QED
      BY <2>2, <2>3
  <1> QED
    BY <1>5, <1>6, <1>7, <1>8

-----------------------------------------------------------------------------
(* A cart operation is invisible to open transactions.                     *)
LEMMA CartInv ==
    ASSUME CheckoutInv, NEW u \in Users, CartStep(u)
    PROVE  CheckoutInv'
  <1> USE DEF CheckoutInv
  <1>1. UNCHANGED <<catalog, stock, price, orders, rowLock, tx, edits, supplied>>
    BY DEF CartStep, AddItem, UpdateItemQuantity, RemoveItem, ClearCart
  <1>2. cart' \in [Users -> Baskets]
    <2>1. \A p \in Products : cart[u][p] \in Quantities
      BY DEF TypeOK, Baskets
    <2>2. Nothing \in Baskets /\ 0 \in Quantities
      BY CheckoutAssumption DEF Nothing, Baskets, Quantities
    <2>3. ASSUME NEW p \in Products, NEW q \in Quantities
          PROVE  [cart EXCEPT ![u][p] = q] \in [Users -> Baskets]
      BY DEF TypeOK, Baskets
    <2>4. ASSUME NEW p \in Products, NEW q \in Quantities \ {0}, AddItem(u, p, q)
          PROVE  cart' \in [Users -> Baskets]
      <3>1. cart[u][p] + q \in Quantities
        BY <2>1, <2>4, CheckoutAssumption DEF AddItem, Quantities
      <3>2. cart' = [cart EXCEPT ![u][p] = cart[u][p] + q]
        BY <2>4 DEF AddItem, TypeOK, Baskets
      <3> QED
        BY <2>3, <3>1, <3>2
    <2>5. ASSUME NEW p \in Products, NEW q \in Quantities \ {0}, UpdateItemQuantity(u, p, q)
          PROVE  cart' \in [Users -> Baskets]
      BY <2>3, <2>5 DEF UpdateItemQuantity
    <2>6. ASSUME NEW p \in Products, RemoveItem(u, p)
          PROVE  cart' \in [Users -> Baskets]
      BY <2>2, <2>3, <2>6 DEF RemoveItem
    <2>7. ASSUME ClearCart(u)
          PROVE  cart' \in [Users -> Baskets]
      BY <2>2, <2>7 DEF ClearCart, TypeOK
    <2> QED
      BY <2>4, <2>5, <2>6, <2>7 DEF CartStep
  <1> QED
    BY <1>1, <1>2
    DEF TypeOK, PointsOK, AllOrNothing, PendingUnitsCovered, IsOpen, InBasket

(* An administrator's edit waits for the row, so it is invisible to the    *)
(* transaction that counts on its units.                                   *)
LEMMA AdminInv ==
    ASSUME CheckoutInv, AdminStep
    PROVE  CheckoutInv'
  <1> USE DEF CheckoutInv
  <1>1. ASSUME NEW p \in Products, NEW n \in Levels(p), NEW c \in Prices,
               UpdateProduct(p, n, c)
        PROVE  CheckoutInv'
    <2>1. n \in Nat /\ c \in Nat /\ edits + 1 \in 0..MaxEdits
      <3>1. stock[p] \in Int /\ stock[p] >= 0
        BY DEF TypeOK, PendingUnitsCovered
      <3>2. n \in Nat
        BY <3>1, CheckoutAssumption DEF Levels
      <3> QED
        BY <1>1, <3>2, CheckoutAssumption DEF UpdateProduct, TypeOK
    <2>2. /\ rowLock[p] = None
          /\ stock' = [stock EXCEPT ![p] = n]
          /\ price' = [price EXCEPT ![p] = c]
          /\ edits' = edits + 1
          /\ supplied' = [supplied EXCEPT ![p] = supplied[p] + n - stock[p]]
          /\ UNCHANGED <<catalog, cart, orders, rowLock, tx>>
      BY <1>1 DEF UpdateProduct, TypeOK
    <2>3. TypeOK'
      <3>1. supplied[p] + n - stock[p] \in Int
        BY <2>1 DEF TypeOK
      <3> QED
        BY <2>1, <2>2, <3>1 DEF TypeOK
    <2>4. PendingUnitsCovered'
      BY <2>1, <2>2 DEF PendingUnitsCovered, TypeOK
    <2> QED
      BY <2>2, <2>3, <2>4 DEF PointsOK, AllOrNothing, IsOpen, InBasket
  <1>2. ASSUME NEW p \in Products, DeleteProduct(p)
        PROVE  CheckoutInv'
    <2>1. /\ catalog' \subseteq Products
          /\ edits' \in 0..MaxEdits
          /\ UNCHANGED <<stock, price, orders, rowLock, tx, supplied>>
      BY <1>2, CheckoutAssumption DEF DeleteProduct, TypeOK
    <2>2. cart' \in [Users -> Baskets]
      <3>1. 0 \in Quantities
        BY CheckoutAssumption DEF Quantities
      <3> QED
        BY <1>2, <3>1 DEF DeleteProduct, TypeOK, Baskets
    <2> QED
      BY <2>1, <2>2
      DEF TypeOK, PointsOK, AllOrNothing, PendingUnitsCovered, IsOpen, InBasket
  <1> QED
    BY <1>1, <1>2 DEF AdminStep

-----------------------------------------------------------------------------
(* The invariant is inductive.                                             *)
LEMMA StepInv == CheckoutInv /\ [Next]_vars => CheckoutInv'
  <1> SUFFICES ASSUME CheckoutInv, [Next]_vars PROVE CheckoutInv'
    OBVIOUS
  <1>1. ASSUME NEW r \in Requests, ReadCart(r) PROVE CheckoutInv'
    BY <1>1, ReadCartInv
  <1>2. ASSUME NEW r \in Requests, ReadProducts(r) PROVE CheckoutInv'
    BY <1>2, ReadProductsInv
  <1>3. ASSUME NEW r \in Requests, NEW p \in Products, PickItem(r, p) PROVE CheckoutInv'
    BY <1>3, PickItemInv
  <1>4. ASSUME NEW r \in Requests, Decrement(r) PROVE CheckoutInv'
    BY <1>4, DecrementInv
  <1>5. ASSUME NEW r \in Requests, NEW answer \in Answers, Commit(r, answer)
        PROVE  CheckoutInv'
    BY <1>5, CommitInv
  <1>6. ASSUME NEW r \in Requests, Abort(r) PROVE CheckoutInv'
    BY <1>6, RollbackInv DEF Abort
  <1>7. ASSUME NEW r \in Requests, BreakDeadlock(r) PROVE CheckoutInv'
    <2>1. IsOpen(r)
      BY <1>7 DEF BreakDeadlock, Deadlocked, Waiting, IsOpen, OpenPoints
    <2> QED
      BY <1>7, <2>1, RollbackInv DEF BreakDeadlock
  <1>8. ASSUME NEW u \in Users, CartStep(u) PROVE CheckoutInv'
    BY <1>8, CartInv
  <1>9. ASSUME AdminStep PROVE CheckoutInv'
    BY <1>9, AdminInv
  <1>10. CASE UNCHANGED vars
    BY <1>10
    DEF vars, CheckoutInv, TypeOK, PointsOK, AllOrNothing, PendingUnitsCovered,
        IsOpen, InBasket
  <1> QED
    BY <1>1, <1>2, <1>3, <1>4, <1>5, <1>6, <1>7, <1>8, <1>9, <1>10
    DEF Next, CheckoutStep

(* Every reachable state satisfies the invariant.                          *)
THEOREM CheckoutInvariant == Spec => []CheckoutInv
  BY InitInv, StepInv, PTL DEF Spec

(* Stock stays a natural number, and transactions within their points.    *)
THEOREM CheckoutTypes == Spec => []TypeOK
  <1>1. CheckoutInv => TypeOK
    BY DEF CheckoutInv
  <1> QED
    BY <1>1, CheckoutInvariant, PTL

(* No product is oversold, and no open transaction counts on units that    *)
(* are gone (prisma-order.repository.ts:31-42).                            *)
THEOREM NoOversell == Spec => []PendingUnitsCovered
  <1>1. CheckoutInv => PendingUnitsCovered
    BY DEF CheckoutInv
  <1> QED
    BY <1>1, CheckoutInvariant, PTL

(* A checkout takes effect as a whole or not at all, whatever its client   *)
(* is told, and keeps no row once it is answered                           *)
(* (prisma-order.repository.ts:18-66, orders.service.ts:18-30).            *)
THEOREM CheckoutIsAtomic == Spec => []AllOrNothing
  <1>1. CheckoutInv => AllOrNothing
    BY DEF CheckoutInv
  <1> QED
    BY <1>1, CheckoutInvariant, PTL

-----------------------------------------------------------------------------
(* Nobody is stuck.                                                        *)

(* Only finitely many requests have begun.                                 *)
Begun == {r \in Requests : tx[r].pc # "idle"}
FewBegun == IsFiniteSet(Begun)

(* A step moves one request at most.                                       *)
LEMMA OneRequestMoves ==
    ASSUME CheckoutInv, [Next]_vars
    PROVE  \/ UNCHANGED tx
           \/ \E r \in Requests : \A s \in Requests \ {r} : tx'[s] = tx[s]
  <1> USE DEF CheckoutInv, TypeOK
  <1>1. ASSUME NEW r \in Requests, ReadCart(r)
        PROVE  \A s \in Requests \ {r} : tx'[s] = tx[s]
    BY <1>1 DEF ReadCart
  <1>2. ASSUME NEW r \in Requests, NEW outcome, Rollback(r, outcome)
        PROVE  \A s \in Requests \ {r} : tx'[s] = tx[s]
    BY <1>2 DEF Rollback
  <1>3. ASSUME NEW r \in Requests, ReadProducts(r)
        PROVE  \A s \in Requests \ {r} : tx'[s] = tx[s]
    BY <1>2, <1>3 DEF ReadProducts
  <1>4. ASSUME NEW r \in Requests, NEW p \in Products, PickItem(r, p)
        PROVE  \A s \in Requests \ {r} : tx'[s] = tx[s]
    BY <1>4 DEF PickItem
  <1>5. ASSUME NEW r \in Requests, Decrement(r)
        PROVE  \A s \in Requests \ {r} : tx'[s] = tx[s]
    BY <1>2, <1>5 DEF Decrement
  <1>6. ASSUME NEW r \in Requests, NEW answer \in Answers, Commit(r, answer)
        PROVE  \A s \in Requests \ {r} : tx'[s] = tx[s]
    BY <1>6 DEF Commit
  <1>7. ASSUME NEW r \in Requests, Abort(r) \/ BreakDeadlock(r)
        PROVE  \A s \in Requests \ {r} : tx'[s] = tx[s]
    BY <1>2, <1>7 DEF Abort, BreakDeadlock
  <1>8. ASSUME NEW u \in Users, CartStep(u)
        PROVE  UNCHANGED tx
    BY <1>8 DEF CartStep, AddItem, UpdateItemQuantity, RemoveItem, ClearCart
  <1>9. ASSUME AdminStep
        PROVE  UNCHANGED tx
    BY <1>9 DEF AdminStep, UpdateProduct, DeleteProduct
  <1> QED
    BY <1>1, <1>3, <1>4, <1>5, <1>6, <1>7, <1>8, <1>9 DEF Next, CheckoutStep, vars

LEMMA FewBegunStep == CheckoutInv /\ FewBegun /\ [Next]_vars => FewBegun'
  <1> SUFFICES ASSUME CheckoutInv, FewBegun, [Next]_vars PROVE FewBegun'
    OBVIOUS
  <1>1. CASE UNCHANGED tx
    BY <1>1 DEF FewBegun, Begun
  <1>2. ASSUME NEW r \in Requests, \A s \in Requests \ {r} : tx'[s] = tx[s]
        PROVE  FewBegun'
    <2>1. Begun' \in SUBSET (Begun \cup {r})
      BY <1>2 DEF Begun
    <2>2. IsFiniteSet(Begun \cup {r})
      BY FS_AddElement DEF FewBegun
    <2> QED
      BY <2>1, <2>2, FS_Subset DEF FewBegun
  <1> QED
    BY <1>1, <1>2, OneRequestMoves

(* Finitely many requests have begun at any time.                          *)
LEMMA FewRequestsBegin == Spec => []FewBegun
  <1>1. Init => FewBegun
    <2> SUFFICES ASSUME Init PROVE FewBegun
      OBVIOUS
    <2>1. Begun = {}
      BY DEF Init, Begun, Closed
    <2> QED
      BY <2>1, FS_EmptySet DEF FewBegun
  <1> QED
    BY <1>1, FewBegunStep, CheckoutInvariant, PTL DEF Spec

(* An open transaction that cannot run waits for an open one.              *)
LEMMA WaitsForOpen ==
    ASSUME CheckoutInv, NEW r \in Requests, IsOpen(r), ~CanStep(r)
    PROVE  /\ Waiting(r)
           /\ rowLock[tx[r].at] \in Requests
           /\ IsOpen(rowLock[tx[r].at])
  <1>1. Waiting(r)
    BY DEF CheckoutInv, PointsOK, IsOpen, OpenPoints, CanStep
  <1>2. tx[r].at \in Products
    BY DEF CheckoutInv, PointsOK, IsOpen, OpenPoints, InBasket, CanStep
  <1>3. rowLock[tx[r].at] \in Requests
    BY <1>1, <1>2 DEF CheckoutInv, TypeOK, Waiting
  <1>4. tx[r].at \in {p \in Products : rowLock[p] = rowLock[tx[r].at]}
    BY <1>2
  <1>5. IsOpen(rowLock[tx[r].at])
    BY <1>3, <1>4 DEF CheckoutInv, AllOrNothing
  <1> QED
    BY <1>1, <1>3, <1>5

(* If no member of a set that is closed under waiting can run, its open    *)
(* members wait for one another, and some of them in a cycle.              *)
LEMMA StuckIsDeadlocked == CheckoutInv /\ FewBegun => SomebodyRuns
  <1> SUFFICES ASSUME CheckoutInv, FewBegun,
                      NEW S \in SUBSET Requests, NEW q \in S, IsOpen(q),
                      HoldersFor(S) \subseteq S,
                      \A s \in S : ~CanStep(s)
               PROVE  \E s \in S : Deadlocked(s)
    BY DEF SomebodyRuns
  <1> DEFINE W == {s \in S : IsOpen(s)}
             holder == [s \in W |-> rowLock[tx[s].at]]
  <1>1. IsFiniteSet(W) /\ W # {}
    <2>1. W \in SUBSET Begun
      BY DEF Begun, IsOpen, OpenPoints
    <2> QED
      BY <2>1, FS_Subset DEF FewBegun
  <1>2. \A s \in W : Waiting(s) /\ holder[s] \in W
    <2> SUFFICES ASSUME NEW s \in W PROVE Waiting(s) /\ rowLock[tx[s].at] \in W
      OBVIOUS
    <2>1. Waiting(s) /\ IsOpen(rowLock[tx[s].at])
      BY WaitsForOpen
    <2>2. rowLock[tx[s].at] \in HoldersFor(S)
      BY <2>1 DEF HoldersFor
    <2> QED
      BY <2>1, <2>2
  <1>3. PICK T \in SUBSET W :
          /\ T # {}
          /\ \A s \in T : holder[s] \in T
          /\ \A t \in T : \E s \in T : holder[s] = t
    <2>1. holder \in [W -> W]
      BY <1>2
    <2> HIDE DEF W, holder
    <2> QED
      BY <1>1, <2>1, CycleExists
  <1>4. {rowLock[tx[s].at] : s \in T} = T
    BY <1>3
  <1>5. \A s \in T : Deadlocked(s)
    BY <1>2, <1>4 DEF Deadlocked
  <1> QED
    BY <1>3, <1>5

(* Among whoever waits for one another, somebody can run or a cycle is     *)
(* found (prisma-order.repository.ts:18-66, rows locked in cart order).    *)
THEOREM NobodyIsStuck == Spec => []SomebodyRuns
  BY StuckIsDeadlocked, CheckoutInvariant, FewRequestsBegin, PTL

-----------------------------------------------------------------------------
(* Nobody runs for ever.                                                   *)

(* A request that a rollback ends is not open.                             *)
LEMMA RollbackCloses ==
    ASSUME CheckoutInv, NEW r \in Requests, NEW outcome \in ClosedPoints,
           Rollback(r, outcome)
    PROVE  ~IsOpen(r)'
  <1>1. tx'[r].pc = outcome
    BY DEF Rollback, Closed, CheckoutInv, TypeOK
  <1> QED
    BY <1>1 DEF IsOpen, OpenPoints, ClosedPoints

(* What is left to do is counted.                                          *)
LEMMA TodoIsFinite ==
    ASSUME CheckoutInv, NEW r \in Requests
    PROVE  IsFiniteSet(tx[r].todo) /\ Cardinality(tx[r].todo) \in Nat
  <1>1. tx[r].todo \in SUBSET Products
    BY DEF CheckoutInv, TypeOK, Txs
  <1> QED
    BY <1>1, FiniteCatalog, FS_Subset, FS_CardinalityType

(* Each statement of an open transaction is one less to go.                *)
LEMMA StepAdvances ==
    ASSUME CheckoutInv, [Next]_vars, NEW r \in Requests, IsOpen(r), tx'[r] # tx[r],
           IsOpen(r)'
    PROVE  StepsLeft(r)' < StepsLeft(r)
  <1> DEFINE todo == tx[r].todo
  <1>1. IsFiniteSet(todo) /\ Cardinality(todo) \in Nat
    BY TodoIsFinite
  <1>2. tx \in [Requests -> Txs]
    BY DEF CheckoutInv, TypeOK
  <1>3. CASE ReadProducts(r)
    <2>1. tx'[r].todo = todo /\ tx[r].pc = "pricing" /\ tx'[r].pc = "picking"
      BY <1>2, <1>3, RollbackCloses DEF ReadProducts, ClosedPoints, Txs
    <2> QED
      BY <1>1, <2>1 DEF StepsLeft
  <1>4. ASSUME NEW p \in Products, PickItem(r, p)
        PROVE  StepsLeft(r)' < StepsLeft(r)
    <2>1. tx'[r].todo = todo /\ tx[r].pc = "picking" /\ tx'[r].pc = "updating"
      BY <1>2, <1>4 DEF PickItem, Txs
    <2> QED
      BY <1>1, <2>1 DEF StepsLeft
  <1>5. CASE Decrement(r)
    <2> DEFINE left == todo \ {tx[r].at}
    <2>1. Matches(r) /\ tx[r].pc = "updating"
      BY <1>5, RollbackCloses DEF Decrement, ClosedPoints
    <2>2. tx'[r].todo = left /\ tx'[r].pc \in {"creating", "picking"}
      <3> DEFINE point == IF left = {} THEN "creating" ELSE "picking"
                 total == tx[r].total + LineTotal(r, tx[r].at)
      <3>1. tx' = [tx EXCEPT ![r] = [tx[r] EXCEPT !.pc = point, !.todo = left,
                                                   !.at = None, !.total = total]]
        BY <1>2, <1>5, <2>1 DEF Decrement
      <3>2. point \in {"creating", "picking"}
        OBVIOUS
      <3> HIDE DEF point, left, total
      <3>3. tx'[r].todo = left /\ tx'[r].pc = point
        BY <1>2, <3>1 DEF Txs
      <3> QED
        BY <3>2, <3>3
    <2>3. tx[r].at \in todo
      BY <2>1 DEF CheckoutInv, PointsOK, IsOpen, OpenPoints
    <2>4. Cardinality(left) = Cardinality(todo) - 1
      BY <1>1, <2>3, FS_RemoveElement
    <2> HIDE DEF left, todo
    <2>5. StepsLeft(r)' <= 2 * (Cardinality(todo) - 1) + 1
      BY <1>1, <2>2, <2>4 DEF StepsLeft
    <2>6. StepsLeft(r) = 2 * Cardinality(todo)
      BY <1>1, <2>1 DEF StepsLeft, todo
    <2>7. StepsLeft(r)' \in Int
      BY <1>1, <2>2, <2>4 DEF StepsLeft
    <2> QED
      BY <1>1, <2>5, <2>6, <2>7
  <1>6. ASSUME NEW answer \in Answers, Commit(r, answer)
        PROVE  ~IsOpen(r)'
    <2>1. tx'[r].pc = answer
      BY <1>2, <1>6 DEF Commit, Closed
    <2> QED
      BY <2>1 DEF IsOpen, OpenPoints, Answers
  <1>7. CASE Abort(r) \/ BreakDeadlock(r)
    BY <1>7, RollbackCloses DEF Abort, BreakDeadlock, ClosedPoints
  <1>8. ~ReadCart(r)
    BY DEF ReadCart, IsOpen, OpenPoints
  <1>9. ASSUME NEW s \in Requests \ {r},
               ReadCart(s) \/ CheckoutStep(s) \/ Abort(s) \/ BreakDeadlock(s)
        PROVE  tx'[r] = tx[r]
    BY <1>2, <1>9
    DEF ReadCart, CheckoutStep, ReadProducts, PickItem, Decrement, Commit, Abort,
        BreakDeadlock, Rollback
  <1>10. ASSUME NEW u \in Users, CartStep(u)
         PROVE  tx'[r] = tx[r]
    BY <1>10 DEF CartStep, AddItem, UpdateItemQuantity, RemoveItem, ClearCart
  <1>11. ASSUME AdminStep
         PROVE  tx'[r] = tx[r]
    BY <1>11 DEF AdminStep, UpdateProduct, DeleteProduct
  <1> QED
    BY <1>3, <1>4, <1>5, <1>6, <1>7, <1>8, <1>9, <1>10, <1>11
    DEF Next, CheckoutStep, vars

(* The loop over the items ends: no checkout does more than its cart asks  *)
(* for (prisma-order.repository.ts:31-47).                                 *)
THEOREM NobodyRunsForEver == Spec => CheckoutsAdvance
  <1>1. CheckoutInv /\ [Next]_vars =>
          [\A r \in Requests : IsOpen(r) /\ tx'[r] # tx[r] =>
              ~IsOpen(r)' \/ StepsLeft(r)' < StepsLeft(r)]_vars
    BY StepAdvances
  <1> QED
    BY <1>1, CheckoutInvariant, PTL DEF Spec, CheckoutsAdvance

-----------------------------------------------------------------------------
(* Units and prices add up.                                                *)

(* What is summed over an order's products are natural numbers.            *)
LEMMA LinesType ==
    ASSUME NEW items \in Baskets, NEW unit \in [Products -> Nat],
           NEW o, o.items = items, o.unit = unit
    PROVE  /\ DOMAIN Lines(o) = Products
           /\ \A p \in Products : Lines(o)[p] = items[p] * unit[p] /\ Lines(o)[p] \in Nat
  <1>1. \A p \in Products : items[p] \in Nat
    BY CheckoutAssumption DEF Baskets, Quantities
  <1>2. \A a \in Nat, b \in Nat : a * b \in Nat
    OBVIOUS
  <1> QED
    BY <1>1, <1>2 DEF Lines

(* The ordered units are a number.                                         *)
LEMMA OrderedType ==
    ASSUME CheckoutInv, FewBegun, NEW p \in Products
    PROVE  /\ IsFiniteSet(Ordered)
           /\ \A r \in Ordered : orders[r].items[p] \in Nat
           /\ OrderedUnits(p) \in Nat
  <1> DEFINE f == [r \in Ordered |-> orders[r].items[p]]
  <1>1. IsFiniteSet(Ordered)
    <2>1. Ordered \in SUBSET Begun
      BY DEF CheckoutInv, AllOrNothing, Answers, Ordered, Begun
    <2> QED
      BY <2>1, FS_Subset DEF FewBegun
  <1>2. \A r \in Ordered : orders[r].items[p] \in Nat
    BY CheckoutAssumption
    DEF CheckoutInv, TypeOK, Ordered, Orders, Baskets, Quantities
  <1>3. \A r \in Ordered : f[r] \in Nat
    BY <1>2
  <1>4. OrderedUnits(p) = SumFunctionOnSet(f, Ordered)
    BY DEF OrderedUnits, SumFunction
  <1> HIDE DEF f
  <1> QED
    BY <1>1, <1>2, <1>3, <1>4, SumType

(* A commit adds what it takes to the ordered units.                       *)
LEMMA CommitAddsUnits ==
    ASSUME CheckoutInv, FewBegun, NEW r \in Requests, NEW answer \in Answers,
           Commit(r, answer), NEW p \in Products
    PROVE  OrderedUnits(p)' = OrderedUnits(p) + tx[r].items[p]
  <1> DEFINE old == [s \in Ordered |-> orders[s].items[p]]
             new == [s \in Ordered' |-> orders'[s].items[p]]
             order == [ user |-> tx[r].user, items |-> tx[r].items,
                        unit |-> tx[r].unit, total |-> tx[r].total ]
  <1>1. /\ orders \in [Requests -> Orders \cup {None}]
        /\ orders' = [orders EXCEPT ![r] = order]
        /\ tx[r] \in Txs
    BY DEF CheckoutInv, TypeOK, Commit
  <1>2. order \in Orders /\ order # None /\ order.items = tx[r].items
    BY <1>1, NoneIsNoOrder DEF Txs, Orders
  <1>3. orders[r] = None
    BY DEF CheckoutInv, AllOrNothing, Commit, Answers
  <1> HIDE DEF order
  <1>4. /\ r \notin Ordered
        /\ Ordered' = Ordered \cup {r}
        /\ orders'[r].items = tx[r].items
        /\ \A s \in Ordered : orders'[s] = orders[s]
    BY <1>1, <1>2, <1>3 DEF Ordered
  <1>5. IsFiniteSet(Ordered)
    BY OrderedType
  <1>6. \A s \in Ordered : orders[s].items[p] \in Nat
    BY OrderedType
  <1>7. tx[r].items[p] \in Nat
    BY CommitTakes
  <1>8. /\ \A s \in Ordered : old[s] \in Nat /\ new[s] = old[s]
        /\ new[r] = tx[r].items[p]
        /\ DOMAIN old = Ordered
        /\ DOMAIN new = Ordered \cup {r}
    BY <1>4, <1>6
  <1>9. /\ OrderedUnits(p) = SumFunctionOnSet(old, Ordered)
        /\ OrderedUnits(p)' = SumFunctionOnSet(new, Ordered \cup {r})
    BY <1>4, <1>8 DEF OrderedUnits, SumFunction
  <1> HIDE DEF old, new
  <1>10. SumFunctionOnSet(new, Ordered) = SumFunctionOnSet(old, Ordered)
    BY <1>5, <1>8, SumsAgree
  <1>11. SumFunctionOnSet(new, Ordered \cup {r}) = new[r] + SumFunctionOnSet(new, Ordered)
    BY <1>4, <1>5, <1>7, <1>8, SumOfOneMore
  <1>12. SumFunctionOnSet(old, Ordered) \in Nat
    BY <1>9, OrderedType
  <1> QED
    BY <1>7, <1>8, <1>9, <1>10, <1>11, <1>12

(* No step makes or loses a unit.                                          *)
LEMMA ConservedStep ==
    CheckoutInv /\ FewBegun /\ StockConserved /\ [Next]_vars => StockConserved'
  <1> SUFFICES ASSUME CheckoutInv, FewBegun, StockConserved, [Next]_vars
               PROVE  StockConserved'
    OBVIOUS
  <1>1. ASSUME UNCHANGED <<stock, orders, supplied>>
        PROVE  StockConserved'
    BY <1>1 DEF StockConserved, OrderedUnits, Ordered
  <1>2. ASSUME NEW r \in Requests, NEW answer \in Answers, Commit(r, answer)
        PROVE  StockConserved'
    <2> SUFFICES ASSUME NEW p \in Products
                 PROVE  stock'[p] + OrderedUnits(p)' = supplied'[p]
      BY DEF StockConserved
    <2>1. /\ stock'[p] = stock[p] - tx[r].items[p]
          /\ tx[r].items[p] \in Nat
          /\ stock[p] \in Int
      BY <1>2, CommitTakes DEF CheckoutInv, TypeOK
    <2>2. /\ OrderedUnits(p) \in Nat
          /\ OrderedUnits(p)' = OrderedUnits(p) + tx[r].items[p]
      BY <1>2, CommitAddsUnits, OrderedType
    <2>3. stock[p] + OrderedUnits(p) = supplied[p] /\ supplied' = supplied
      BY <1>2 DEF StockConserved, Commit
    <2> QED
      BY <2>1, <2>2, <2>3
  <1>3. ASSUME NEW p \in Products, NEW n \in Levels(p), NEW c \in Prices,
               UpdateProduct(p, n, c)
        PROVE  StockConserved'
    <2>1. \A q \in Products : OrderedUnits(q)' = OrderedUnits(q)
      BY <1>3 DEF UpdateProduct, OrderedUnits, Ordered
    <2>2. /\ stock \in [Products -> Int] /\ supplied \in [Products -> Int]
          /\ n \in Int
      BY CheckoutAssumption DEF CheckoutInv, TypeOK, Levels
    <2>3. /\ \A q \in Products \ {p} : stock'[q] = stock[q] /\ supplied'[q] = supplied[q]
          /\ stock'[p] = n
          /\ supplied'[p] = supplied[p] + n - stock[p]
      BY <1>3, <2>2 DEF UpdateProduct
    <2>4. stock[p] + OrderedUnits(p) = supplied[p]
      BY DEF StockConserved
    <2>5. n + OrderedUnits(p) = supplied[p] + n - stock[p]
      BY <2>2, <2>4, OrderedType
    <2> QED
      BY <2>1, <2>3, <2>5 DEF StockConserved
  <1>4. ASSUME NEW r \in Requests,
               ReadCart(r) \/ ReadProducts(r) \/ (\E p \in Products : PickItem(r, p))
                 \/ Decrement(r) \/ Abort(r) \/ BreakDeadlock(r)
        PROVE  StockConserved'
    BY <1>1, <1>4
    DEF ReadCart, ReadProducts, PickItem, Decrement, Abort, BreakDeadlock, Rollback
  <1>5. ASSUME NEW u \in Users, CartStep(u)
        PROVE  StockConserved'
    BY <1>1, <1>5 DEF CartStep, AddItem, UpdateItemQuantity, RemoveItem, ClearCart
  <1>6. ASSUME NEW p \in Products, DeleteProduct(p)
        PROVE  StockConserved'
    BY <1>1, <1>6 DEF DeleteProduct
  <1>7. CASE UNCHANGED vars
    BY <1>1, <1>7 DEF vars
  <1> QED
    BY <1>2, <1>3, <1>4, <1>5, <1>6, <1>7 DEF Next, CheckoutStep, AdminStep

(* No failure, retry or race loses or invents a unit: the shelf and the    *)
(* orders add up to what was supplied (prisma-order.repository.ts:31-66).  *)
THEOREM UnitsAreConserved == Spec => []StockConserved
  <1>1. Init => StockConserved
    <2> SUFFICES ASSUME Init, NEW p \in Products
                 PROVE  stock[p] + OrderedUnits(p) = supplied[p]
      BY DEF StockConserved
    <2>1. Ordered = {}
      BY DEF Init, Ordered
    <2>2. OrderedUnits(p) = 0
      BY <2>1, SumOfNothing DEF OrderedUnits, SumFunction
    <2>3. stock[p] \in StockLevels /\ supplied[p] = stock[p]
      BY DEF Init
    <2>4. \A n \in StockLevels : n \in Int
      BY CheckoutAssumption
    <2> QED
      BY <2>2, <2>3, <2>4
  <1> QED
    BY <1>1, ConservedStep, CheckoutInvariant, FewRequestsBegin, PTL DEF Spec


(* What an open transaction has added up so far: the lines it is past.     *)
Past(t) == InBasket(t.items) \ t.todo

TotalsOK ==
    \A r \in Requests :
        /\ tx[r].pc = "idle" => tx[r].total = 0
        /\ IsOpen(r) => tx[r].total = SumFunctionOnSet(Lines(tx[r]), Past(tx[r]))

TotalsInv == TotalsOK /\ OrderTotalsMatch

(* What has the same lines, the same items left and the same total adds up *)
(* as before, and what is closed need not.                                 *)
LEMMA TotalsCarryOver ==
    ASSUME CheckoutInv, TotalsInv, UNCHANGED orders, NEW r \in Requests,
           \A s \in Requests \ {r} : tx'[s] = tx[s],
           tx'[r].pc # "idle",
           IsOpen(r)' => tx'[r].total = SumFunctionOnSet(Lines(tx'[r]), Past(tx'[r]))
    PROVE  TotalsInv'
  <1>1. OrderTotalsMatch'
    BY DEF TotalsInv, OrderTotalsMatch, Nothing, Lines
  <1>2. TotalsOK'
    <2> SUFFICES ASSUME NEW s \in Requests
                 PROVE  /\ tx'[s].pc = "idle" => tx'[s].total = 0
                        /\ IsOpen(s)' =>
                             tx'[s].total = SumFunctionOnSet(Lines(tx'[s]), Past(tx'[s]))
      BY DEF TotalsOK, Lines, Past, InBasket
    <2>1. CASE s = r
      BY <2>1
    <2>2. CASE s # r
      BY <2>2 DEF TotalsInv, TotalsOK, IsOpen
    <2> QED
      BY <2>1, <2>2
  <1> QED
    BY <1>1, <1>2 DEF TotalsInv

LEMMA RollbackTotals ==
    ASSUME CheckoutInv, TotalsInv, NEW r \in Requests, NEW outcome \in {"rejected", "failed"},
           Rollback(r, outcome)
    PROVE  TotalsInv'
  <1>1. tx'[r].pc = outcome /\ ~IsOpen(r)'
    <2>1. tx'[r].pc = outcome
      BY DEF Rollback, Closed, CheckoutInv, TypeOK
    <2> QED
      BY <2>1 DEF IsOpen, OpenPoints
  <1>2. \A s \in Requests \ {r} : tx'[s] = tx[s]
    BY DEF Rollback, CheckoutInv, TypeOK
  <1> QED
    BY <1>1, <1>2, TotalsCarryOver DEF Rollback

LEMMA ReadCartTotals ==
    ASSUME CheckoutInv, TotalsInv, NEW r \in Requests, ReadCart(r)
    PROVE  TotalsInv'
  <1> DEFINE read == cart[tx[r].user]
  <1>1. /\ tx \in [Requests -> Txs]
        /\ tx[r].pc = "idle"
        /\ tx[r].total = 0
    BY DEF CheckoutInv, TypeOK, TotalsInv, TotalsOK, ReadCart
  <1>2. \A s \in Requests \ {r} : tx'[s] = tx[s]
    BY <1>1 DEF ReadCart
  <1>3. CASE read = Nothing
    <2>1. tx'[r].pc = "rejected"
      BY <1>1, <1>3 DEF ReadCart, Closed
    <2> QED
      BY <1>2, <2>1, TotalsCarryOver DEF ReadCart, IsOpen, OpenPoints
  <1>4. CASE read # Nothing
    <2> DEFINE opened == [tx[r] EXCEPT !.pc = "pricing", !.items = read,
                                       !.todo = InBasket(read)]
    <2>1. tx'[r] = opened
      BY <1>1, <1>4 DEF ReadCart
    <2>2. /\ opened.pc = "pricing"
          /\ opened.items = read
          /\ opened.todo = InBasket(read)
          /\ opened.total = 0
      BY <1>1 DEF Txs
    <2> HIDE DEF opened
    <2>3. Past(tx'[r]) = {}
      BY <2>1, <2>2 DEF Past
    <2>4. tx'[r].total = SumFunctionOnSet(Lines(tx'[r]), Past(tx'[r]))
      BY <2>1, <2>2, <2>3, SumOfNothing
    <2> QED
      BY <1>2, <2>1, <2>2, <2>4, TotalsCarryOver DEF ReadCart
  <1> QED
    BY <1>3, <1>4

LEMMA ReadProductsTotals ==
    ASSUME CheckoutInv, TotalsInv, NEW r \in Requests, ReadProducts(r)
    PROVE  TotalsInv'
  <1>1. CASE tx[r].todo \subseteq catalog
    <2> DEFINE unit == [p \in Products |-> IF p \in tx[r].todo THEN price[p] ELSE 0]
               priced == [tx[r] EXCEPT !.pc = "picking", !.unit = unit]
    <2>1. /\ tx \in [Requests -> Txs]
          /\ tx[r].pc = "pricing"
          /\ tx' = [tx EXCEPT ![r] = priced]
          /\ UNCHANGED orders
      BY <1>1 DEF ReadProducts, CheckoutInv, TypeOK
    <2>2. /\ tx[r].todo = InBasket(tx[r].items)
          /\ tx[r].total = SumFunctionOnSet(Lines(tx[r]), Past(tx[r]))
      BY <2>1 DEF CheckoutInv, PointsOK, TotalsInv, TotalsOK, IsOpen, OpenPoints
    <2> HIDE DEF unit
    <2>3. /\ priced.pc = "picking"
          /\ priced.items = tx[r].items
          /\ priced.todo = tx[r].todo
          /\ priced.total = tx[r].total
      BY <2>1 DEF Txs
    <2> HIDE DEF priced
    <2>4. tx'[r] = priced /\ \A s \in Requests \ {r} : tx'[s] = tx[s]
      BY <2>1
    <2>5. Past(tx[r]) = {} /\ Past(tx'[r]) = {}
      BY <2>2, <2>3, <2>4 DEF Past
    <2>6. tx'[r].total = SumFunctionOnSet(Lines(tx'[r]), Past(tx'[r]))
      BY <2>2, <2>3, <2>4, <2>5, SumOfNothing
    <2> QED
      BY <2>1, <2>3, <2>4, <2>6, TotalsCarryOver
  <1>2. CASE ~(tx[r].todo \subseteq catalog)
    BY <1>2, RollbackTotals DEF ReadProducts
  <1> QED
    BY <1>1, <1>2

LEMMA PickItemTotals ==
    ASSUME CheckoutInv, TotalsInv, NEW r \in Requests, NEW p \in Products, PickItem(r, p)
    PROVE  TotalsInv'
  <1> DEFINE picked == [tx[r] EXCEPT !.pc = "updating", !.at = p]
  <1>1. /\ tx \in [Requests -> Txs]
        /\ tx[r].pc = "picking"
        /\ tx' = [tx EXCEPT ![r] = picked]
        /\ UNCHANGED orders
    BY DEF PickItem, CheckoutInv, TypeOK
  <1>2. tx[r].total = SumFunctionOnSet(Lines(tx[r]), Past(tx[r]))
    BY <1>1 DEF TotalsInv, TotalsOK, IsOpen, OpenPoints
  <1>3. /\ picked.pc = "updating"
        /\ picked.items = tx[r].items
        /\ picked.unit = tx[r].unit
        /\ picked.todo = tx[r].todo
        /\ picked.total = tx[r].total
    BY <1>1 DEF Txs
  <1> HIDE DEF picked
  <1>4. tx'[r] = picked /\ \A s \in Requests \ {r} : tx'[s] = tx[s]
    BY <1>1
  <1>5. Lines(tx'[r]) = Lines(tx[r]) /\ Past(tx'[r]) = Past(tx[r])
    BY <1>3, <1>4 DEF Lines, Past
  <1>6. tx'[r].total = SumFunctionOnSet(Lines(tx'[r]), Past(tx'[r]))
    BY <1>2, <1>3, <1>4, <1>5
  <1> QED
    BY <1>1, <1>3, <1>4, <1>6, TotalsCarryOver

LEMMA DecrementTotals ==
    ASSUME CheckoutInv, TotalsInv, NEW r \in Requests, Decrement(r)
    PROVE  TotalsInv'
  <1>1. CASE Matches(r)
    <2> DEFINE p == tx[r].at
               left == tx[r].todo \ {p}
               point == IF left = {} THEN "creating" ELSE "picking"
               line == LineTotal(r, p)
               moved == [tx[r] EXCEPT !.pc = point, !.todo = left, !.at = None,
                                      !.total = @ + line]
    <2>1. /\ tx \in [Requests -> Txs]
          /\ tx[r].pc = "updating"
          /\ tx' = [tx EXCEPT ![r] = moved]
          /\ UNCHANGED orders
      BY <1>1 DEF Decrement, CheckoutInv, TypeOK
    <2>2. /\ tx[r].total = SumFunctionOnSet(Lines(tx[r]), Past(tx[r]))
          /\ p \in tx[r].todo
          /\ tx[r].todo \subseteq InBasket(tx[r].items)
      BY <2>1 DEF CheckoutInv, PointsOK, TotalsInv, TotalsOK, IsOpen, OpenPoints
    <2>3. point \in {"creating", "picking"} /\ p \in Products
      BY <2>2 DEF InBasket
    <2>4. /\ tx[r].items \in Baskets
          /\ tx[r].unit \in [Products -> Nat]
          /\ tx[r].total \in Nat
      BY <2>1 DEF Txs
    <2>5. /\ \A q \in Products : Lines(tx[r])[q] \in Nat
          /\ Lines(tx[r])[p] = line
      BY <2>3, <2>4, LinesType DEF LineTotal
    <2> HIDE DEF line, point, left
    <2>6. /\ moved.pc = point
          /\ moved.items = tx[r].items
          /\ moved.unit = tx[r].unit
          /\ moved.todo = left
          /\ moved.total = tx[r].total + line
      BY <2>1 DEF Txs
    <2> HIDE DEF moved
    <2>7. tx'[r] = moved /\ \A s \in Requests \ {r} : tx'[s] = tx[s]
      BY <2>1
    <2>8. /\ Lines(tx'[r]) = Lines(tx[r])
          /\ Past(tx'[r]) = Past(tx[r]) \cup {p}
          /\ p \notin Past(tx[r])
      BY <2>2, <2>6, <2>7 DEF Lines, Past, left
    <2>9. Past(tx[r]) \in SUBSET Products /\ IsFiniteSet(Past(tx[r]))
      <3>1. Past(tx[r]) \in SUBSET Products
        BY DEF Past, InBasket
      <3> QED
        BY <3>1, FiniteCatalog, FS_Subset
    <2>10. \A q \in Past(tx[r]) \cup {p} : Lines(tx[r])[q] \in Nat
      BY <2>3, <2>5, <2>9
    <2> HIDE DEF p
    <2>11. SumFunctionOnSet(Lines(tx[r]), Past(tx[r]) \cup {p}) =
             Lines(tx[r])[p] + SumFunctionOnSet(Lines(tx[r]), Past(tx[r]))
      BY <2>8, <2>9, <2>10, SumOfOneMore
    <2>12. tx'[r].total = SumFunctionOnSet(Lines(tx'[r]), Past(tx'[r]))
      <3>1. line \in Nat
        BY <2>3, <2>5
      <3> QED
        BY <2>2, <2>4, <2>5, <2>6, <2>7, <2>8, <2>11, <3>1
    <2>13. tx'[r].pc # "idle"
      BY <2>3, <2>6, <2>7
    <2> QED
      BY <2>1, <2>7, <2>12, <2>13, TotalsCarryOver
  <1>2. CASE ~Matches(r)
    BY <1>2, RollbackTotals DEF Decrement
  <1> QED
    BY <1>1, <1>2

(* The order is charged by the sum of all its lines: nothing is left to    *)
(* do, and what is not in the basket costs nothing.                        *)
LEMMA CommitTotals ==
    ASSUME CheckoutInv, TotalsInv, NEW r \in Requests, NEW answer \in Answers,
           Commit(r, answer)
    PROVE  TotalsInv'
  <1> DEFINE order == [ user |-> tx[r].user, items |-> tx[r].items,
                        unit |-> tx[r].unit, total |-> tx[r].total ]
  <1>1. /\ tx \in [Requests -> Txs]
        /\ orders \in [Requests -> Orders \cup {None}]
        /\ tx[r].pc = "creating"
        /\ orders' = [orders EXCEPT ![r] = order]
        /\ tx'[r].pc \in Answers
        /\ \A s \in Requests \ {r} : tx'[s] = tx[s]
    BY DEF Commit, Closed, CheckoutInv, TypeOK
  <1>2. /\ tx[r].total = SumFunctionOnSet(Lines(tx[r]), Past(tx[r]))
        /\ tx[r].items # Nothing
        /\ Past(tx[r]) = InBasket(tx[r].items)
    BY <1>1 DEF CheckoutInv, PointsOK, TotalsInv, TotalsOK, IsOpen, OpenPoints, Past
  <1>3. /\ order.items = tx[r].items
        /\ order.unit = tx[r].unit
        /\ order.total = tx[r].total
    OBVIOUS
  <1> HIDE DEF order
  <1>4. /\ orders'[r] = order
        /\ \A s \in Requests \ {r} : orders'[s] = orders[s]
    BY <1>1
  <1>5. order.total = SumFunction(Lines(order))
    <2> DEFINE f == Lines(order)
               B == InBasket(tx[r].items)
    <2>1. tx[r].items \in Baskets /\ tx[r].unit \in [Products -> Nat]
      BY <1>1 DEF Txs
    <2>2. /\ DOMAIN f = Products
          /\ \A p \in Products :
               f[p] = tx[r].items[p] * tx[r].unit[p] /\ f[p] \in Nat
      BY <1>3, <2>1, LinesType
    <2>3. \A p \in Products \ B : f[p] = 0
      <3>1. \A p \in Products \ B : tx[r].items[p] = 0 /\ tx[r].unit[p] \in Nat
        BY <2>1, CheckoutAssumption DEF InBasket, Baskets, Quantities
      <3>2. \A n \in Nat : 0 * n = 0
        OBVIOUS
      <3> QED
        BY <2>2, <3>1, <3>2
    <2>4. B \in SUBSET Products /\ IsFiniteSet(B)
      <3>1. B \in SUBSET Products
        BY DEF InBasket
      <3> QED
        BY <3>1, FiniteCatalog, FS_Subset
    <2>5. f = Lines(tx[r])
      BY <1>3 DEF Lines
    <2>6. order.total = SumFunctionOnSet(f, B)
      BY <1>2, <1>3, <2>5
    <2> HIDE DEF f, B
    <2>7. SumFunctionOnSet(f, B) = SumFunctionOnSet(f, Products)
      BY <2>2, <2>3, <2>4, FiniteCatalog, SumsAgree
    <2> QED
      BY <2>2, <2>6, <2>7 DEF SumFunction, f
  <1>6. OrderTotalsMatch'
    <2> SUFFICES ASSUME NEW s \in Requests, orders'[s] # None
                 PROVE  /\ orders'[s].items # Nothing
                        /\ orders'[s].total = SumFunction(Lines(orders'[s]))
      BY DEF OrderTotalsMatch, Nothing, Lines
    <2>1. CASE s = r
      BY <1>2, <1>3, <1>4, <1>5, <2>1
    <2>2. CASE s # r
      BY <1>4, <2>2 DEF TotalsInv, OrderTotalsMatch
    <2> QED
      BY <2>1, <2>2
  <1>7. TotalsOK'
    <2> SUFFICES ASSUME NEW s \in Requests
                 PROVE  /\ tx'[s].pc = "idle" => tx'[s].total = 0
                        /\ IsOpen(s)' =>
                             tx'[s].total = SumFunctionOnSet(Lines(tx'[s]), Past(tx'[s]))
      BY DEF TotalsOK, Lines, Past, InBasket
    <2>1. CASE s = r
      BY <1>1, <2>1 DEF IsOpen, OpenPoints, Answers
    <2>2. CASE s # r
      BY <1>1, <2>2 DEF TotalsInv, TotalsOK, IsOpen
    <2> QED
      BY <2>1, <2>2
  <1> QED
    BY <1>6, <1>7 DEF TotalsInv

LEMMA TotalsStep == CheckoutInv /\ TotalsInv /\ [Next]_vars => TotalsInv'
  <1> SUFFICES ASSUME CheckoutInv, TotalsInv, [Next]_vars PROVE TotalsInv'
    OBVIOUS
  <1>1. ASSUME UNCHANGED <<tx, orders>>
        PROVE  TotalsInv'
    BY <1>1
    DEF TotalsInv, TotalsOK, OrderTotalsMatch, IsOpen, Nothing, Lines, Past, InBasket
  <1>2. ASSUME NEW r \in Requests, Abort(r) \/ BreakDeadlock(r) PROVE TotalsInv'
    BY <1>2, RollbackTotals DEF Abort, BreakDeadlock
  <1>3. ASSUME NEW u \in Users, CartStep(u) PROVE TotalsInv'
    BY <1>1, <1>3 DEF CartStep, AddItem, UpdateItemQuantity, RemoveItem, ClearCart
  <1>4. ASSUME AdminStep PROVE TotalsInv'
    BY <1>1, <1>4 DEF AdminStep, UpdateProduct, DeleteProduct
  <1>5. CASE UNCHANGED vars
    BY <1>1, <1>5 DEF vars
  <1> QED
    BY <1>2, <1>3, <1>4, <1>5, ReadCartTotals, ReadProductsTotals, PickItemTotals,
       DecrementTotals, CommitTotals
    DEF Next, CheckoutStep

(* An order's total is the sum of its lines at the prices it stores, and   *)
(* no order is empty (prisma-order.repository.ts:44-62).                   *)
THEOREM TotalsAreSums == Spec => []OrderTotalsMatch
  <1>1. Init => TotalsInv
    <2> SUFFICES ASSUME Init PROVE TotalsInv
      OBVIOUS
    <2>1. \A r \in Requests : tx[r].pc = "idle" /\ tx[r].total = 0 /\ orders[r] = None
      BY DEF Init, Closed
    <2> QED
      BY <2>1 DEF TotalsInv, TotalsOK, OrderTotalsMatch, IsOpen, OpenPoints
  <1>2. TotalsInv => OrderTotalsMatch
    BY DEF TotalsInv
  <1> QED
    BY <1>1, <1>2, TotalsStep, CheckoutInvariant, PTL DEF Spec

-----------------------------------------------------------------------------
(* The refinement: commits are purchases, administrators' writes set       *)
(* levels, and nothing else is seen.                                       *)

(* Initially nothing is sold.                                              *)
LEMMA InitRefines == Init => P!PInit
  <1> SUFFICES ASSUME Init PROVE P!PInit
    OBVIOUS
  <1>1. stock \in [Products -> StockLevels]
    BY DEF Init
  <1>2. Sold = [r \in Requests |-> P!Nothing]
    BY DEF Init, Sold, Nothing, P!Nothing
  <1> QED
    BY <1>1, <1>2 DEF P!PInit

(* A commit is a purchase of the items the checkout read.                  *)
LEMMA CommitRefines ==
    ASSUME CheckoutInv, NEW r \in Requests, NEW answer \in Answers, Commit(r, answer)
    PROVE  P!PNext
  <1> DEFINE basket == tx[r].items
  <1>1. /\ tx[r] \in Txs
        /\ basket # Nothing
        /\ \A p \in Products : basket[p] <= stock[p] /\ stock'[p] = stock[p] - basket[p]
    BY CommitTakes
  <1>2. basket \in Baskets
    BY <1>1 DEF Txs
  <1>3. orders[r] = None
    BY DEF CheckoutInv, AllOrNothing, Commit, Answers
  <1>4. stock' = [p \in Products |-> stock[p] - basket[p]]
    <2>1. stock' = [p \in Products |-> stock'[p]]
      BY DEF Commit, Decremented
    <2> QED
      BY <1>1, <2>1
  <1>5. Sold[r] = Nothing /\ Sold' = [Sold EXCEPT ![r] = basket]
    <2> DEFINE order == [ user |-> tx[r].user, items |-> basket,
                          unit |-> tx[r].unit, total |-> tx[r].total ]
    <2>1. /\ orders \in [Requests -> Orders \cup {None}]
          /\ orders' = [orders EXCEPT ![r] = order]
      BY DEF CheckoutInv, TypeOK, Commit
    <2>2. order # None /\ order.items = basket
      <3>1. order \in Orders
        BY <1>1 DEF Txs, Orders
      <3> QED
        BY <3>1, NoneIsNoOrder
    <2> HIDE DEF order
    <2> QED
      BY <1>3, <2>1, <2>2 DEF Sold
  <1>6. P!Purchase(r, basket)
    BY <1>1, <1>4, <1>5 DEF P!Purchase, P!Nothing, Nothing
  <1>7. basket \in P!Baskets
    BY <1>2 DEF Baskets, Quantities, P!Baskets
  <1> QED
    BY <1>6, <1>7 DEF P!PNext

(* Every step is a purchase, a level written, or invisible.                *)
LEMMA StepRefines ==
    ASSUME CheckoutInv, [Next]_vars
    PROVE  [P!PNext]_<<stock, Sold>>
  <1>1. ASSUME UNCHANGED <<stock, orders>>
        PROVE  UNCHANGED <<stock, Sold>>
    BY <1>1 DEF Sold
  <1>2. ASSUME NEW r \in Requests, NEW answer \in Answers, Commit(r, answer)
        PROVE  [P!PNext]_<<stock, Sold>>
    BY <1>2, CommitRefines
  <1>3. ASSUME NEW p \in Products, NEW n \in Levels(p), NEW c \in Prices,
               UpdateProduct(p, n, c)
        PROVE  [P!PNext]_<<stock, Sold>>
    <2>1. /\ stock' = [stock EXCEPT ![p] = n]
          /\ Sold' = Sold
          /\ stock \in [Products -> Int]
      BY <1>3 DEF UpdateProduct, Sold, CheckoutInv, TypeOK
    <2>2. CASE n \in StockLevels
      <3>1. P!SetLevel(p, n)
        BY <2>1 DEF P!SetLevel
      <3> QED
        BY <2>2, <3>1 DEF P!PNext
    <2>3. CASE n = stock[p]
      BY <2>1, <2>3
    <2> QED
      BY <2>2, <2>3 DEF Levels
  <1>4. ASSUME NEW r \in Requests,
               ReadCart(r) \/ ReadProducts(r) \/ (\E p \in Products : PickItem(r, p))
                 \/ Decrement(r) \/ Abort(r) \/ BreakDeadlock(r)
        PROVE  UNCHANGED <<stock, orders>>
    BY <1>4
    DEF ReadCart, ReadProducts, PickItem, Decrement, Abort, BreakDeadlock, Rollback
  <1>5. ASSUME NEW u \in Users, CartStep(u)
        PROVE  UNCHANGED <<stock, orders>>
    BY <1>5 DEF CartStep, AddItem, UpdateItemQuantity, RemoveItem, ClearCart
  <1>6. ASSUME NEW p \in Products, DeleteProduct(p)
        PROVE  UNCHANGED <<stock, orders>>
    BY <1>6 DEF DeleteProduct
  <1>7. CASE UNCHANGED vars
    BY <1>1, <1>7 DEF vars
  <1> QED
    BY <1>1, <1>2, <1>3, <1>4, <1>5, <1>6, <1>7 DEF Next, CheckoutStep, AdminStep

(* The transactions, locks, races and failures of checkout implement       *)
(* atomic purchases of goods that are all on the shelf.                    *)
THEOREM CheckoutImplementsPurchases == Spec => AtomicPurchases
  <1>1. Spec => [][Next]_vars /\ []CheckoutInv
    BY CheckoutInvariant DEF Spec
  <1>2. CheckoutInv /\ [Next]_vars => [P!PNext]_<<stock, Sold>>
    BY StepRefines
  <1> QED
    BY <1>1, <1>2, InitRefines, PTL DEF Spec, AtomicPurchases, P!PSpec
=============================================================================

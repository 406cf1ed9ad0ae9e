----------------------------- MODULE Purchases -----------------------------
(***************************************************************************)
(* What the shop promises about its stock, whatever transactions, locks    *)
(* and failures lie behind it: a checkout is one atomic purchase of goods  *)
(* that are all on the shelf, and only an administrator may change a stock *)
(* level otherwise.  Checkout.tla implements this specification.           *)
(***************************************************************************)
EXTENDS Integers

CONSTANTS
    Products,      \* the products ever sold
    Requests,      \* the checkout requests; each buys at most once
    MaxQuantity,   \* bound on the units of one product in one purchase
    StockLevels    \* the stock levels an administrator may write

VARIABLES
    stock,   \* units on the shelf, by product
    sold     \* what each request has bought, by product

Baskets == [Products -> 0..MaxQuantity]
Nothing == [p \in Products |-> 0]

PInit ==
    /\ stock \in [Products -> StockLevels]
    /\ sold = [r \in Requests |-> Nothing]

(* The purchase: every unit of the basket is taken at once.                *)
Purchase(r, basket) ==
    /\ sold[r] = Nothing
    /\ basket # Nothing
    /\ \A p \in Products : basket[p] <= stock[p]
    /\ stock' = [p \in Products |-> stock[p] - basket[p]]
    /\ sold' = [sold EXCEPT ![r] = basket]

(* The administrator writes an absolute stock level.                       *)
SetLevel(p, n) ==
    /\ stock' = [stock EXCEPT ![p] = n]
    /\ UNCHANGED sold

PNext ==
    \/ \E r \in Requests, basket \in Baskets : Purchase(r, basket)
    \/ \E p \in Products, n \in StockLevels : SetLevel(p, n)

PSpec == PInit /\ [][PNext]_<<stock, sold>>
=============================================================================

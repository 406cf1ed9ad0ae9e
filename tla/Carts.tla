-------------------------------- MODULE Carts --------------------------------
(***************************************************************************)
(* What carts promise: a request changes its user's cart as it asked, at   *)
(* once and once at most, and is shown the cart as it is at one moment     *)
(* after that.  Orders empty carts, and products disappear from them.      *)
(***************************************************************************)
EXTENDS Naturals

CONSTANTS Users, Products, Requests, Wishes, None

VARIABLES
    cart,   \* units of each product in each user's cart
    wish,   \* what a request has asked for, or None
    stage,  \* how far it is
    shown   \* the cart it is shown

cvars == <<cart, wish, stage, shown>>

Nothing == [p \in Products |-> 0]
Stages == {"new", "asked", "applied", "seen", "over"}

CInit ==
    /\ cart \in [Users -> [Products -> Nat]]
    /\ wish = [r \in Requests |-> None]
    /\ stage = [r \in Requests |-> "new"]
    /\ shown = [r \in Requests |-> Nothing]

(* A cart after what was asked of it.                                      *)
After(basket, w) ==
    CASE w.op = "add"    -> [basket EXCEPT ![w.product] = @ + w.quantity]
      [] w.op = "update" -> [basket EXCEPT ![w.product] = w.quantity]
      [] w.op = "remove" -> [basket EXCEPT ![w.product] = 0]
      [] w.op = "clear"  -> Nothing

(* An item that is not there is neither updated nor removed.               *)
Possible(basket, w) == w.op \in {"update", "remove"} => basket[w.product] > 0

Ask(r, w) ==
    /\ stage[r] = "new"
    /\ wish' = [wish EXCEPT ![r] = w]
    /\ stage' = [stage EXCEPT ![r] = "asked"]
    /\ UNCHANGED <<cart, shown>>

Apply(r) ==
    LET w == wish[r]
    IN  /\ stage[r] = "asked"
        /\ w.op # "get"
        /\ Possible(cart[w.user], w)
        /\ cart' = [cart EXCEPT ![w.user] = After(@, w)]
        /\ stage' = [stage EXCEPT ![r] = "applied"]
        /\ UNCHANGED <<wish, shown>>

Show(r) ==
    /\ stage[r] \in {"asked", "applied"}
    /\ wish[r].op = "get" <=> stage[r] = "asked"
    /\ shown' = [shown EXCEPT ![r] = cart[wish[r].user]]
    /\ stage' = [stage EXCEPT ![r] = "seen"]
    /\ UNCHANGED <<cart, wish>>

(* Refused, or failed before or after its effect.                          *)
GiveUp(r) ==
    /\ stage[r] # "new"
    /\ stage' = [stage EXCEPT ![r] = "over"]
    /\ shown' = [shown EXCEPT ![r] = Nothing]
    /\ UNCHANGED <<cart, wish>>

Order(u) ==
    /\ cart' = [cart EXCEPT ![u] = Nothing]
    /\ UNCHANGED <<wish, stage, shown>>

Withdraw(p) ==
    /\ cart' = [u \in Users |-> [cart[u] EXCEPT ![p] = 0]]
    /\ UNCHANGED <<wish, stage, shown>>

CNext ==
    \/ \E r \in Requests : \/ \E w \in Wishes : Ask(r, w)
                           \/ Apply(r)
                           \/ Show(r)
                           \/ GiveUp(r)
    \/ \E u \in Users : Order(u)
    \/ \E p \in Products : Withdraw(p)

CSpec == CInit /\ [][CNext]_cvars
=============================================================================

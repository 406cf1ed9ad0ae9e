--------------------------- MODULE PaymentLedger ---------------------------
(***************************************************************************)
(* What the shop promises about payments, whatever requests, webhooks,     *)
(* retries and crashes lie behind it: an order is charged at most once, is *)
(* confirmed only after that charge and cancelled only after a declined    *)
(* attempt, and is settled for good.  Payments.tla implements this         *)
(* specification.                                                          *)
(***************************************************************************)
CONSTANTS
    Orders,
    Intents      \* the Stripe PaymentIntents that may capture money

VARIABLES
    status,      \* Order.status
    captured,    \* the intents that have captured money for each order
    declined     \* whether an attempt to pay the order was declined

Statuses == {"PENDING", "CONFIRMED", "CANCELLED"}

LInit ==
    /\ status = [o \in Orders |-> "PENDING"]
    /\ captured = [o \in Orders |-> {}]
    /\ declined = [o \in Orders |-> FALSE]

(* The customer is charged: by one intent, and once.                       *)
Charge(o, i) ==
    /\ captured[o] = {}
    /\ captured' = [captured EXCEPT ![o] = {i}]
    /\ UNCHANGED <<status, declined>>

(* An attempt to pay is declined, which can only happen before the charge. *)
Refuse(o) ==
    /\ captured[o] = {}
    /\ declined' = [declined EXCEPT ![o] = TRUE]
    /\ UNCHANGED <<status, captured>>

(* The shop learns of the charge.                                          *)
Confirm(o) ==
    /\ status[o] = "PENDING"
    /\ captured[o] # {}
    /\ status' = [status EXCEPT ![o] = "CONFIRMED"]
    /\ UNCHANGED <<captured, declined>>

(* The shop learns of a declined attempt.                                  *)
Cancel(o) ==
    /\ status[o] = "PENDING"
    /\ declined[o]
    /\ status' = [status EXCEPT ![o] = "CANCELLED"]
    /\ UNCHANGED <<captured, declined>>

LNext ==
    \E o \in Orders :
        \/ \E i \in Intents : Charge(o, i)
        \/ Refuse(o)
        \/ Confirm(o)
        \/ Cancel(o)

LSpec == LInit /\ [][LNext]_<<status, captured, declined>>
=============================================================================

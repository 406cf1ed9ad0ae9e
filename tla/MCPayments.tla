----------------------------- MODULE MCPayments -----------------------------
(* Small instances of Payments for TLC.                                    *)
EXTENDS Payments, TLC

CONSTANTS o1, o2

OneTotal == o1 :> 5
TwoTotals == (o1 :> 5) @@ (o2 :> 7)

(* Requests and webhook deliveries are interchangeable.                    *)
Symmetry == Permutations(Requests) \cup Permutations(Hooks)
=============================================================================

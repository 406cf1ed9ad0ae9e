----------------------------- MODULE MCCheckout -----------------------------
(* Small instances of Checkout for TLC.                                    *)
EXTENDS Checkout, TLC

(* Requests and products are interchangeable; users and levels are few.    *)
Symmetry == Permutations(Requests) \cup Permutations(Products)
=============================================================================

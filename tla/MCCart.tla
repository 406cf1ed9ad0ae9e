------------------------------- MODULE MCCart -------------------------------
(* Instances of Cart for TLC.                                              *)
EXTENDS Cart, TLC

Symmetry == Permutations(Requests)
=============================================================================

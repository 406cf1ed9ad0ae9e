----------------------------- MODULE MCCatalog -----------------------------
(* Instances of Catalog for TLC.                                           *)
EXTENDS Catalog, TLC

CONSTANTS p1, p2, i1

(* One product in the catalog, with one image, and room for another.       *)
OneProduct == (p1 :> {i1}) @@ (p2 :> {})

Symmetry == Permutations(Requests) \cup Permutations(Images \ {i1})
            \cup Permutations(Categories) \cup Permutations(Names)
=============================================================================

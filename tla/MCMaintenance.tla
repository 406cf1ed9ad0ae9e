--------------------------- MODULE MCMaintenance ---------------------------
(* Instances of Maintenance for TLC.                                       *)
EXTENDS Maintenance, TLC

CONSTANTS s1, new

OneSeed == s1 :> new
=============================================================================

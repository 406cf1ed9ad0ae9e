----------------------------- MODULE MCAccounts -----------------------------
(* Instances of Accounts for TLC.                                          *)
EXTENDS Accounts, TLC

CONSTANTS e1, e2, g1, g2

(* The owner of a Google account may change its address, and an address    *)
(* may move from one Google account to another.                            *)
MCGoogleTokens == {g1, g2} \X {e1, e2}
NoGoogleTokens == {}

Symmetry == Permutations(Requests) \cup Permutations(Passwords)
            \cup Permutations(Emails) \cup Permutations(GoogleIds)
=============================================================================

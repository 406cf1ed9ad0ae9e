----------------------------- MODULE Identities -----------------------------
(***************************************************************************)
(* What the shop promises about who an account belongs to, whatever        *)
(* requests overlap, are repeated or fail: whoever registers an address    *)
(* first has its account, for good; the address is verified and the        *)
(* password changed only by whoever reads its mail or is vouched for by    *)
(* Google, and no request undoes what another has stored.  Accounts.tla    *)
(* implements this specification.  Sessions are not part of it.            *)
(***************************************************************************)
CONSTANTS
    Emails,
    Passwords,
    GoogleIds,
    GoogleTokens,   \* whom Google vouches for: <<Google account, address>>
    None

VARIABLES
    account,   \* by address: password, Google account, verified; or None
    letters    \* what has been mailed: address and purpose

ivars == <<account, letters>>

IInit ==
    /\ account = [e \in Emails |-> None]
    /\ letters = {}

Opened(p, g, verified) == [password |-> p, googleId |-> g, verified |-> verified]

Write(e, purpose) == letters' = letters \cup {<<e, purpose>>}

(* The first to register an address has the account, yet to be verified.   *)
Register(e, p) ==
    /\ account[e] = None
    /\ account' = [account EXCEPT ![e] = Opened(p, None, FALSE)]
    /\ Write(e, "verification")

(* Letters go to accounts only.                                            *)
Remind(e, purpose) ==
    /\ account[e] # None
    /\ Write(e, purpose)
    /\ UNCHANGED account

(* By a letter that was sent to the address, or by a Google account that   *)
(* has been linked.                                                        *)
Verify(e) ==
    /\ account[e] # None
    /\ <<e, "verification">> \in letters \/ account[e].googleId # None
    /\ account' = [account EXCEPT ![e].verified = TRUE]
    /\ UNCHANGED letters

ResetPassword(e, p) ==
    /\ account[e] # None
    /\ <<e, "reset">> \in letters
    /\ account' = [account EXCEPT ![e].password = p]
    /\ UNCHANGED letters

(* Google vouches for the address, and nobody else has the Google account. *)
Vouched(e, g) ==
    /\ <<g, e>> \in GoogleTokens
    /\ \A o \in Emails \ {e} : account[o] # None => account[o].googleId # g

Link(e, g) ==
    /\ account[e] # None
    /\ Vouched(e, g)
    /\ account' = [account EXCEPT ![e].googleId = g]
    /\ UNCHANGED letters

RegisterWithGoogle(e, g) ==
    /\ account[e] = None
    /\ Vouched(e, g)
    /\ account' = [account EXCEPT ![e] = Opened(None, g, TRUE)]
    /\ UNCHANGED letters

INext ==
    \E e \in Emails :
        \/ \E p \in Passwords : Register(e, p) \/ ResetPassword(e, p)
        \/ Remind(e, "verification") \/ Remind(e, "reset")
        \/ Verify(e)
        \/ \E g \in GoogleIds : Link(e, g) \/ RegisterWithGoogle(e, g)

ISpec == IInit /\ [][INext]_ivars
=============================================================================

------------------------------ MODULE Accounts ------------------------------
(***************************************************************************)
(* Accounts and sessions (auth.service.ts on prisma-user.repository.ts).   *)
(*                                                                         *)
(* A request that reads an account and writes it later does so in two      *)
(* steps or more, with anything between them: every await is a program     *)
(* point.  A request that is refused changes nothing, so only the accepted *)
(* ones are actions.  What a client or a mailbox receives is kept in       *)
(* "held" and "mail"; that it may never be used stands for its being lost. *)
(*                                                                         *)
(* A refresh token is signed from the user and the current second (iat),   *)
(* so it is modelled by that second: two tokens of one user that are       *)
(* signed in the same second are the same token.  Hashes (bcrypt, SHA-256) *)
(* are injective and are modelled by what they hash.                       *)
(***************************************************************************)
EXTENDS Naturals

CONSTANTS
    Emails,         \* an account is known by its e-mail address
    Passwords,
    GoogleIds,
    GoogleTokens,   \* ID tokens Google signs: <<Google account, address>>
    Requests,       \* requests that can be under way at a time
    VerifyTTL,      \* life of a verification token (24 hours)
    ResetTTL,       \* life of a reset token (15 minutes)
    RefreshTTL,     \* life of a refresh token (JWT_REFRESH_EXPIRES_IN)
    MaxTime,        \* bound: the clock
    MaxTokens,      \* bound: random e-mail tokens
    None            \* null

ASSUME AccountsAssumption ==
    /\ GoogleTokens \subseteq GoogleIds \X Emails
    /\ {VerifyTTL, ResetTTL, RefreshTTL, MaxTime, MaxTokens} \subseteq Nat
    /\ None \notin Nat
    /\ None \notin Passwords
    /\ None \notin GoogleIds
    /\ None \notin Emails

VARIABLES
    users,   \* the table of users, by address
    mail,    \* what has been sent: address, kind and token
    held,    \* the refresh tokens the clients of each account have received
    req,     \* the local variables and the program point of each request
    now,     \* the clock, in seconds
    issued   \* random tokens drawn so far

vars == <<users, mail, held, req, now, issued>>

-----------------------------------------------------------------------------
(* Types                                                                   *)

(* A random token and when it expires: two columns, always written together *)
Tokens == [id : Nat, expires : Nat]

Users == [ password : Passwords \cup {None},
           googleId : GoogleIds \cup {None},
           verified : BOOLEAN,
           verification : Tokens \cup {None},
           reset : Tokens \cup {None},
           session : Nat \cup {None} ]

(* Whose an account is: the columns that outlive tokens and sessions.      *)
Owners == [ password : Passwords \cup {None},
            googleId : GoogleIds \cup {None},
            verified : BOOLEAN ]

ASSUME NoneIsNoRecord == None \notin Tokens \cup Users \cup Owners

Mails == [to : Emails, kind : {"verification", "reset"}, id : Nat]

Points == {"idle", "creating", "signing", "storing", "verifying", "resending",
           "forgetting", "resetting", "googling", "linking", "linked",
           "creatingGoogle"}

(* What a request knows: the account it is about, the password it was      *)
(* given, the Google account, the token it carries or is about to write,   *)
(* the refresh token it has signed, and by what right it signs it.         *)
Reqs == [ pc : Points,
          email : Emails \cup {None},
          password : Passwords \cup {None},
          googleId : GoogleIds \cup {None},
          token : Tokens \cup {None},
          session : Nat \cup {None},
          right : {"registration", "password", "refresh", "google", "none"} ]

Idle == [ pc |-> "idle", email |-> None, password |-> None, googleId |-> None,
          token |-> None, session |-> None, right |-> "none" ]

TypeOK ==
    /\ users \in [Emails -> Users \cup {None}]
    /\ mail \subseteq Mails
    /\ held \in [Emails -> SUBSET Nat]
    /\ req \in [Requests -> Reqs]
    /\ now \in 0..MaxTime
    /\ issued \in 0..MaxTokens

-----------------------------------------------------------------------------
Init ==
    /\ users = [e \in Emails |-> None]
    /\ mail = {}
    /\ held = [e \in Emails |-> {}]
    /\ req = [r \in Requests |-> Idle]
    /\ now = 0
    /\ issued = 0

NoUser == [ password |-> None, googleId |-> None, verified |-> FALSE,
            verification |-> None, reset |-> None, session |-> None ]

Exists(e) == users[e] # None

(* Prisma's user.update({ where: { id }, data }): only the named columns.  *)
Set(e, user) == users' = [users EXCEPT ![e] = user]

Go(r, point) == req' = [req EXCEPT ![r].pc = point]
End(r) == req' = [req EXCEPT ![r] = Idle]

(* randomBytes(32) gives a token nobody has had before.                    *)
Draw(ttl) == [id |-> issued + 1, expires |-> now + ttl]
Random(r, e, point, ttl) ==
    /\ issued < MaxTokens
    /\ issued' = issued + 1
    /\ req' = [req EXCEPT ![r] = [Idle EXCEPT !.pc = point, !.email = e,
                                              !.token = Draw(ttl)]]
    /\ UNCHANGED <<users, mail, held, now>>

Send(e, kind, token) ==
    mail' = mail \cup {[to |-> e, kind |-> kind, id |-> token.id]}

-----------------------------------------------------------------------------
(* register                                                                *)

Register(r, e, p) ==
    /\ req[r].pc = "idle"
    /\ ~Exists(e)
    /\ issued < MaxTokens
    /\ issued' = issued + 1
    /\ req' = [req EXCEPT ![r] = [Idle EXCEPT !.pc = "creating", !.email = e,
                                              !.password = p,
                                              !.token = Draw(VerifyTTL)]]
    /\ UNCHANGED <<users, mail, held, now>>

(* Mutant of CreateUser: an upsert instead of a create.                    *)
UpsertUser(r) ==
    LET e == req[r].email
    IN  /\ req[r].pc = "creating"
        /\ Set(e, [IF Exists(e) THEN users[e] ELSE NoUser
                     EXCEPT !.password = req[r].password,
                            !.verification = req[r].token])
        /\ Send(e, "verification", req[r].token)
        /\ req' = [req EXCEPT ![r].pc = "signing", ![r].right = "registration"]
        /\ UNCHANGED <<held, now, issued>>

(* Mutant of CreateUser: the loser of the race for the address goes on and *)
(* signs in to the account that the winner has created.                    *)
LosersSignIn(r) ==
    LET e == req[r].email
    IN  /\ req[r].pc = "creating"
        /\ IF Exists(e)
           THEN UNCHANGED <<users, mail>>
           ELSE /\ Set(e, [NoUser EXCEPT !.password = req[r].password,
                                         !.verification = req[r].token])
                /\ Send(e, "verification", req[r].token)
        /\ req' = [req EXCEPT ![r].pc = "signing", ![r].right = "registration"]
        /\ UNCHANGED <<held, now, issued>>

(* The unique address decides who creates the account (P2002); the e-mail  *)
(* is sent in the background.                                              *)
CreateUser(r) ==
    LET e == req[r].email
    IN  /\ req[r].pc = "creating"
        /\ IF Exists(e)
           THEN End(r) /\ UNCHANGED <<users, mail>>
           ELSE /\ Set(e, [NoUser EXCEPT !.password = req[r].password,
                                         !.verification = req[r].token])
                /\ Send(e, "verification", req[r].token)
                /\ req' = [req EXCEPT ![r].pc = "signing",
                                      ![r].right = "registration"]
        /\ UNCHANGED <<held, now, issued>>

-----------------------------------------------------------------------------
(* login, refresh, logout                                                  *)

(* findByEmail and bcrypt.compare against what was read.                   *)
Login(r, e, p) ==
    /\ req[r].pc = "idle"
    /\ Exists(e)
    /\ users[e].password = p
    /\ users[e].verified
    /\ req' = [req EXCEPT ![r] = [Idle EXCEPT !.pc = "signing", !.email = e,
                                              !.password = p,
                                              !.right = "password"]]
    /\ UNCHANGED <<users, mail, held, now, issued>>

(* The guard checks that the token has not expired, the service that it is *)
(* the stored one.                                                         *)
Refresh(r, e, t) ==
    /\ req[r].pc = "idle"
    /\ t \in held[e]
    /\ now < t + RefreshTTL
    /\ Exists(e)
    /\ users[e].session = t
    /\ req' = [req EXCEPT ![r] = [Idle EXCEPT !.pc = "signing", !.email = e,
                                              !.right = "refresh"]]
    /\ UNCHANGED <<users, mail, held, now, issued>>

Logout(e) ==
    /\ Exists(e)
    /\ held[e] # {}
    /\ Set(e, [users[e] EXCEPT !.session = None])
    /\ UNCHANGED <<mail, held, req, now, issued>>

(* issueTokens: sign, store the hash of the refresh token, answer.         *)
Sign(r) ==
    /\ req[r].pc = "signing"
    /\ req' = [req EXCEPT ![r].pc = "storing", ![r].session = now]
    /\ UNCHANGED <<users, mail, held, now, issued>>

UpdateRefreshTokenHash(r) ==
    LET e == req[r].email
    IN  /\ req[r].pc = "storing"
        /\ Set(e, [users[e] EXCEPT !.session = req[r].session])
        /\ held' = [held EXCEPT ![e] = @ \cup {req[r].session}]
        /\ End(r)
        /\ UNCHANGED <<mail, now, issued>>

-----------------------------------------------------------------------------
(* verifyEmail and resendVerification                                      *)

(* Mutant of VerifyEmail: finds an account that waits for some token.      *)
VerifyEmailUnmatched(r, m) ==
    /\ req[r].pc = "idle"
    /\ \E e \in Emails :
         /\ Exists(e)
         /\ users[e].verification # None
         /\ now =< users[e].verification.expires
         /\ req' = [req EXCEPT ![r] = [Idle EXCEPT !.pc = "verifying",
                      !.email = e,
                      !.token = [users[e].verification EXCEPT !.id = m.id]]]
    /\ UNCHANGED <<users, mail, held, now, issued>>

(* findByVerificationToken and the check of its expiry.                    *)
VerifyEmail(r, m) ==
    /\ req[r].pc = "idle"
    /\ \E e \in Emails :
         /\ Exists(e)
         /\ users[e].verification # None
         /\ users[e].verification.id = m.id
         /\ now =< users[e].verification.expires
         /\ req' = [req EXCEPT ![r] = [Idle EXCEPT !.pc = "verifying",
                      !.email = e,
                      !.token = [users[e].verification EXCEPT !.id = m.id]]]
    /\ UNCHANGED <<users, mail, held, now, issued>>

MarkVerified(r) ==
    LET e == req[r].email
    IN  /\ req[r].pc = "verifying"
        /\ Set(e, [users[e] EXCEPT !.verified = TRUE, !.verification = None])
        /\ End(r)
        /\ UNCHANGED <<mail, held, now, issued>>

ResendVerification(r, e) ==
    /\ req[r].pc = "idle"
    /\ Exists(e)
    /\ ~users[e].verified
    /\ Random(r, e, "resending", VerifyTTL)

(* Mutant of StoreVerification: writes the status it has read as well.     *)
StoreVerificationAndStatus(r) ==
    LET e == req[r].email
    IN  /\ req[r].pc = "resending"
        /\ Set(e, [users[e] EXCEPT !.verified = FALSE,
                                   !.verification = req[r].token])
        /\ Send(e, "verification", req[r].token)
        /\ End(r)
        /\ UNCHANGED <<held, now, issued>>

StoreVerification(r) ==
    LET e == req[r].email
    IN  /\ req[r].pc = "resending"
        /\ Set(e, [users[e] EXCEPT !.verification = req[r].token])
        /\ Send(e, "verification", req[r].token)
        /\ End(r)
        /\ UNCHANGED <<held, now, issued>>

-----------------------------------------------------------------------------
(* forgotPassword and resetPassword                                        *)

ForgotPassword(r, e) ==
    /\ req[r].pc = "idle"
    /\ Exists(e)
    /\ Random(r, e, "forgetting", ResetTTL)

(* Mutant of UpdatePasswordReset: forgets the column with the expiry.      *)
UpdatePasswordResetEndless(r) ==
    LET e == req[r].email
    IN  /\ req[r].pc = "forgetting"
        /\ Set(e, [users[e] EXCEPT !.reset = [id |-> req[r].token.id,
                                              expires |-> None]])
        /\ Send(e, "reset", req[r].token)
        /\ End(r)
        /\ UNCHANGED <<held, now, issued>>

UpdatePasswordReset(r) ==
    LET e == req[r].email
    IN  /\ req[r].pc = "forgetting"
        /\ Set(e, [users[e] EXCEPT !.reset = req[r].token])
        /\ Send(e, "reset", req[r].token)
        /\ End(r)
        /\ UNCHANGED <<held, now, issued>>

(* findByPasswordResetToken, the check of its expiry, bcrypt.hash.         *)
ResetPassword(r, m, p) ==
    /\ req[r].pc = "idle"
    /\ \E e \in Emails :
         /\ Exists(e)
         /\ users[e].reset # None
         /\ users[e].reset.id = m.id
         /\ now =< users[e].reset.expires
         /\ req' = [req EXCEPT ![r] = [Idle EXCEPT !.pc = "resetting",
                      !.email = e, !.password = p,
                      !.token = [users[e].reset EXCEPT !.id = m.id]]]
    /\ UNCHANGED <<users, mail, held, now, issued>>

(* The account is updated by its id, whatever has become of the token.     *)
UpdatePassword(r) ==
    LET e == req[r].email
    IN  /\ req[r].pc = "resetting"
        /\ Set(e, [users[e] EXCEPT !.password = req[r].password,
                                   !.session = None, !.reset = None])
        /\ End(r)
        /\ UNCHANGED <<mail, held, now, issued>>

-----------------------------------------------------------------------------
(* loginWithGoogle                                                         *)

HasGoogle(e, g) == Exists(e) /\ users[e].googleId = g

(* verifyIdToken and findByGoogleId: a known Google account signs in.      *)
LoginWithGoogle(r, g, e) ==
    /\ req[r].pc = "idle"
    /\ <<g, e>> \in GoogleTokens
    /\ IF \E o \in Emails : HasGoogle(o, g)
       THEN \E o \in Emails :
              /\ HasGoogle(o, g)
              /\ req' = [req EXCEPT ![r] = [Idle EXCEPT !.pc = "signing",
                             !.email = o, !.googleId = g, !.right = "google"]]
       ELSE req' = [req EXCEPT ![r] = [Idle EXCEPT !.pc = "googling",
                             !.email = e, !.googleId = g]]
    /\ UNCHANGED <<users, mail, held, now, issued>>

FindGoogleEmail(r) ==
    /\ req[r].pc = "googling"
    /\ Go(r, IF Exists(req[r].email) THEN "linking" ELSE "creatingGoogle")
    /\ UNCHANGED <<users, mail, held, now, issued>>

(* Mutant of TakenElsewhere: the column googleId without @unique.          *)
NeverTaken(e, g) == FALSE

(* The unique constraint on googleId.                                      *)
TakenElsewhere(e, g) == \E o \in Emails \ {e} : HasGoogle(o, g)

(* Mutant of LinkGoogle: the account becomes what a new one would be.      *)
LinkGoogleAnew(r) ==
    LET e == req[r].email
        g == req[r].googleId
    IN  /\ req[r].pc = "linking"
        /\ IF TakenElsewhere(e, g)
           THEN End(r) /\ UNCHANGED users
           ELSE /\ Set(e, [NoUser EXCEPT !.googleId = g, !.verified = TRUE])
                /\ Go(r, "linked")
        /\ UNCHANGED <<mail, held, now, issued>>

LinkGoogle(r) ==
    LET e == req[r].email
        g == req[r].googleId
    IN  /\ req[r].pc = "linking"
        /\ IF TakenElsewhere(e, g)
           THEN End(r) /\ UNCHANGED users
           ELSE /\ Set(e, [users[e] EXCEPT !.googleId = g])
                /\ Go(r, "linked")
        /\ UNCHANGED <<mail, held, now, issued>>

VerifyLinked(r) ==
    LET e == req[r].email
    IN  /\ req[r].pc = "linked"
        /\ Set(e, [users[e] EXCEPT !.verified = TRUE, !.verification = None])
        /\ req' = [req EXCEPT ![r].pc = "signing", ![r].right = "google"]
        /\ UNCHANGED <<mail, held, now, issued>>

CreateGoogleUser(r) ==
    LET e == req[r].email
        g == req[r].googleId
    IN  /\ req[r].pc = "creatingGoogle"
        /\ IF Exists(e) \/ TakenElsewhere(e, g)
           THEN End(r) /\ UNCHANGED users
           ELSE /\ Set(e, [NoUser EXCEPT !.googleId = g, !.verified = TRUE])
                /\ req' = [req EXCEPT ![r].pc = "signing",
                                      ![r].right = "google"]
        /\ UNCHANGED <<mail, held, now, issued>>

-----------------------------------------------------------------------------
(* A database error or a crash ends a request where it is.                 *)
Fail(r) ==
    /\ req[r].pc # "idle"
    /\ End(r)
    /\ UNCHANGED <<users, mail, held, now, issued>>

Tick ==
    /\ now < MaxTime
    /\ now' = now + 1
    /\ UNCHANGED <<users, mail, held, req, issued>>

SignInStep(r) ==
    \/ \E e \in Emails, p \in Passwords : Register(r, e, p) \/ Login(r, e, p)
    \/ \E e \in Emails : \E t \in held[e] : Refresh(r, e, t)
    \/ CreateUser(r)
    \/ Sign(r)
    \/ UpdateRefreshTokenHash(r)

TokenStep(r) ==
    \/ \E m \in mail :
         \/ m.kind = "verification" /\ VerifyEmail(r, m)
         \/ m.kind = "reset" /\ \E p \in Passwords : ResetPassword(r, m, p)
    \/ \E e \in Emails : ResendVerification(r, e) \/ ForgotPassword(r, e)
    \/ MarkVerified(r)
    \/ StoreVerification(r)
    \/ UpdatePasswordReset(r)
    \/ UpdatePassword(r)

GoogleStep(r) ==
    \/ \E g \in GoogleIds, e \in Emails : LoginWithGoogle(r, g, e)
    \/ FindGoogleEmail(r)
    \/ LinkGoogle(r)
    \/ VerifyLinked(r)
    \/ CreateGoogleUser(r)

Next ==
    \/ \E r \in Requests : SignInStep(r) \/ TokenStep(r) \/ GoogleStep(r) \/ Fail(r)
    \/ \E e \in Emails : Logout(e)
    \/ Tick

Spec == Init /\ [][Next]_vars

-----------------------------------------------------------------------------
(* Properties                                                              *)

Verified(e) == Exists(e) /\ users[e].verified

Mailed(e, kind, token) == [to |-> e, kind |-> kind, id |-> token.id] \in mail

(* A request in flight that carries a verification token which was sent to *)
(* this address, or an ID token in which Google vouches for it.            *)
ProofOfAddress(e) ==
    \E r \in Requests :
      /\ req[r].email = e
      /\ \/ req[r].pc = "verifying" /\ Mailed(e, "verification", req[r].token)
         \/ /\ req[r].pc \in {"linked", "creatingGoogle"}
            /\ <<req[r].googleId, e>> \in GoogleTokens

(* An account becomes verified only by a request that proves the address   *)
(* is its owner's, however verifications, resends, registrations and       *)
(* Google logins of the address interleave (verifyEmail, loginWithGoogle). *)
VerifiedByProof == [][\A e \in Emails : Verified(e)' /\ ~Verified(e)
                                          => ProofOfAddress(e)]_vars

(* The password of an account that exists changes only by a reset with a   *)
(* token that was sent to the account's address: never by a registration   *)
(* that loses the race for the address, or by a Google login (register,    *)
(* resetPassword).                                                         *)
PasswordsChangeByMail ==
    [][\A e \in Emails :
         Exists(e) /\ (users[e].password)' # users[e].password =>
           \E r \in Requests : /\ req[r].pc = "resetting"
                               /\ req[r].email = e
                               /\ Mailed(e, "reset", req[r].token)]_vars

(* No request undoes the verification of an account, whatever it read      *)
(* before: resendVerification may write after verifyEmail.                 *)
VerifiedForGood == [][\A e \in Emails : Verified(e) => Verified(e)']_vars

(* A Google account has one account here, even if two first sign-ins race  *)
(* or its address at Google changes, and Google has vouched for the link   *)
(* (loginWithGoogle, User.googleId @unique).  An account need not keep its *)
(* Google account: another that comes with the same address takes its      *)
(* place (auth.service.ts:278-286).                                        *)
OneAccountPerGoogle ==
    \A e \in Emails, g \in GoogleIds : HasGoogle(e, g) =>
        /\ \A o \in Emails : HasGoogle(o, g) => e = o
        /\ <<g, e>> \in GoogleTokens

(* The account has the password the request was given, or somebody has     *)
(* been able to reset it since.                                            *)
KnowsPassword(q) ==
    \/ users[q.email].password = q.password
    \/ \E m \in mail : m.to = q.email /\ m.kind = "reset"

(* Every sign-in under way is to an account the request has earned,        *)
(* whatever raced with it: a registration signs in to the account it       *)
(* created, with its own password, and not to one that another request     *)
(* registered first; a login to a verified account whose password it gave; *)
(* a Google login to an account that Google vouched for, of an address the *)
(* Google account has or had (register, login, loginWithGoogle).           *)
SignInsAreEarned ==
    \A r \in Requests :
        LET e == req[r].email
        IN  /\ req[r].right = "registration" => Exists(e) /\ KnowsPassword(req[r])
            /\ req[r].right = "password" => Verified(e) /\ KnowsPassword(req[r])
            /\ req[r].right = "google" =>
                  /\ Exists(e)
                  /\ users[e].googleId # None
                  /\ <<req[r].googleId, e>> \in GoogleTokens

(* Requests on accounts, await by await, implement identities whose        *)
(* changes are atomic and proven: no registration takes an account over,   *)
(* no link takes a Google account from another, no write carries along a   *)
(* column as it was when the request read it.                              *)
Account == [e \in Emails |->
    IF Exists(e) THEN [ password |-> users[e].password,
                        googleId |-> users[e].googleId,
                        verified |-> users[e].verified ]
                 ELSE None]
Letters == {<<m.to, m.kind>> : m \in mail}
I == INSTANCE Identities WITH account <- Account, letters <- Letters
ProvenIdentities == I!ISpec

(* README.md:261, "Hashed refresh tokens stored in database with instant   *)
(* revocation upon logout or password reset": an ended session comes alive *)
(* only when somebody signs in, with what is the password at that moment;  *)
(* never by a refresh or a login that read the account before.             *)
EndedSessionsStayEnded ==
    [][\A e \in Emails :
         /\ Exists(e)
         /\ users[e].session = None
         /\ (users[e].session)' # None
         => \E r \in Requests :
              /\ req[r].pc = "storing"
              /\ req[r].email = e
              /\ req[r].right # "refresh"
              /\ req[r].right = "password"
                   => req[r].password = users[e].password]_vars

(* README.md:263, "Single-use email verification tokens (24h expiry) &     *)
(* password reset tokens (15m expiry)": a reset that changes the password  *)
(* still has the token that the account waits for.                         *)
ResetTokensWorkOnce ==
    [][\A r \in Requests :
         UpdatePassword(r) => users[req[r].email].reset = req[r].token]_vars
=============================================================================

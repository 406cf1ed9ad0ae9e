--------------------------- MODULE AccountsProofs ---------------------------
(***************************************************************************)
(* Proofs about Accounts: for any addresses, requests and interleavings,   *)
(* an account is verified only by a proof of its address, and stays so,    *)
(* its password changes only by a token that was mailed to it, a Google    *)
(* account is linked to one account at most, and every sign-in has been    *)
(* earned.                                                                 *)
(*                                                                         *)
(* The argument: a token in an account's row has been mailed to the        *)
(* account's address, and a request remembers the token by which it found  *)
(* the row; accounts and mails never go away, so what a request found is   *)
(* still a proof when it writes.  Hence every step is, to an observer of   *)
(* the accounts, one proven change (Identities.tla) or none.               *)
(***************************************************************************)
EXTENDS Accounts, TLAPS

(* The points of a request that has seen its account in the database.      *)
Known == {"signing", "storing", "verifying", "resending", "forgetting",
          "resetting", "linking", "linked"}

GooglePoints == {"googling", "linking", "linked", "creatingGoogle"}

(* What the program points of a request with locals q mean.                *)
RequestOK(q) ==
    /\ q.pc # "idle" => q.email \in Emails
    /\ q.pc \in {"creating", "verifying", "resending", "forgetting", "resetting"}
         => q.token \in Tokens
    /\ q.pc \in {"creating", "resetting"} => q.password \in Passwords
    /\ q.pc \in GooglePoints => /\ q.googleId \in GoogleIds
                                /\ <<q.googleId, q.email>> \in GoogleTokens
    /\ q.pc \in Known => Exists(q.email)
    /\ q.pc = "storing" => q.session \in Nat
    /\ q.pc = "verifying" => Mailed(q.email, "verification", q.token)
    /\ q.pc = "resetting" => Mailed(q.email, "reset", q.token)

RequestsOK == \A r \in Requests : RequestOK(req[r])

(* The tokens in the row u of address e have been mailed to e.             *)
RowOK(e, u) ==
    /\ u.verification # None => Mailed(e, "verification", u.verification)
    /\ u.reset # None => Mailed(e, "reset", u.reset)

RowsOK == \A e \in Emails : Exists(e) => RowOK(e, users[e])

AccountsInv == TypeOK /\ RequestsOK /\ RowsOK

-----------------------------------------------------------------------------
(* A request that is over has nothing left to be right about.              *)
LEMMA IdleOK == Idle \in Reqs /\ Idle.pc = "idle" /\ RequestOK(Idle)
  BY DEF Idle, Reqs, Points, RequestOK, GooglePoints, Known

(* And stays so.                                                           *)
LEMMA IdleStaysOK == RequestOK(Idle)'
  BY DEF Idle, RequestOK, GooglePoints, Known

(* The invariant holds initially.                                          *)
LEMMA InitAccounts == Init => AccountsInv
  BY IdleOK, AccountsAssumption
  DEF Init, AccountsInv, TypeOK, RequestsOK, RowsOK, Exists

(* A step that changes only the locals of one request keeps the invariant  *)
(* if its new locals are right.                                            *)
LEMMA LocalStep ==
    ASSUME AccountsInv, NEW r \in Requests, NEW new \in Reqs, RequestOK(new),
           req' = [req EXCEPT ![r] = new],
           UNCHANGED <<users, mail, held, now>>, issued' \in 0..MaxTokens
    PROVE  AccountsInv'
  <1> USE DEF AccountsInv
  <1>1. TypeOK'
    BY DEF TypeOK
  <1>2. RequestsOK'
    BY DEF TypeOK, RequestsOK, RequestOK, Exists, Mailed
  <1>3. RowsOK'
    BY DEF RowsOK, RowOK, Exists, Mailed
  <1> QED
    BY <1>1, <1>2, <1>3

(* A step that writes one row of users, and moves requests on, keeps the   *)
(* invariant if the row's tokens have been mailed and the locals that have *)
(* changed are right afterwards.                                           *)
LEMMA RowStep ==
    ASSUME AccountsInv,
           NEW e \in Emails, NEW u \in Users, users' = [users EXCEPT ![e] = u],
           RowOK(e, u)',
           mail \subseteq mail', mail' \subseteq Mails,
           req' \in [Requests -> Reqs],
           \A r \in Requests : req'[r] = req[r] \/ RequestOK(req[r])',
           held' \in [Emails -> SUBSET Nat], UNCHANGED <<now, issued>>
    PROVE  AccountsInv'
  <1> USE DEF AccountsInv
  <1>1. TypeOK'
    BY DEF TypeOK
  <1>2. \A f \in Emails : Exists(f) => Exists(f)'
    BY NoneIsNoRecord DEF TypeOK, Exists
  <1>3. \A f, kind, t : Mailed(f, kind, t) => Mailed(f, kind, t)'
    BY DEF Mailed
  <1>4. RequestsOK'
    <2> SUFFICES ASSUME NEW s \in Requests, req'[s] = req[s] PROVE RequestOK(req[s])'
      BY DEF RequestsOK
    <2>1. RequestOK(req[s])
      BY DEF RequestsOK
    <2>2. req[s].pc \in Known => req[s].pc # "idle"
      BY DEF Known
    <2> QED
      BY <2>1, <2>2, <1>2, <1>3 DEF RequestOK
  <1>5. RowsOK'
    BY <1>3 DEF RowsOK, RowOK, Exists, TypeOK
  <1> QED
    BY <1>1, <1>4, <1>5

-----------------------------------------------------------------------------
(* The steps that change only the locals of their request                  *)

(* A fresh token is a token.                                               *)
LEMMA DrawOK ==
    ASSUME TypeOK, NEW ttl \in Nat
    PROVE  Draw(ttl) \in Tokens
  BY AccountsAssumption DEF TypeOK, Draw, Tokens

(* Registrations, resends and forgotten passwords draw a token after their *)
(* read of the account.                                                    *)
LEMMA DrawStep ==
    ASSUME AccountsInv, NEW r \in Requests, NEW e \in Emails,
           \/ \E p \in Passwords : Register(r, e, p)
           \/ ResendVerification(r, e)
           \/ ForgotPassword(r, e)
    PROVE  AccountsInv'
  <1>1. VerifyTTL \in Nat /\ ResetTTL \in Nat
    BY AccountsAssumption
  <1>2. Draw(VerifyTTL) \in Tokens /\ Draw(ResetTTL) \in Tokens
    BY <1>1, DrawOK DEF AccountsInv
  <1>3. issued < MaxTokens /\ issued' = issued + 1 => issued' \in 0..MaxTokens
    BY AccountsAssumption DEF AccountsInv, TypeOK
  <1>4. ASSUME NEW p \in Passwords, Register(r, e, p) PROVE AccountsInv'
    <2> DEFINE new == [Idle EXCEPT !.pc = "creating", !.email = e, !.password = p,
                                   !.token = Draw(VerifyTTL)]
    <2>1. new \in Reqs
      BY <1>2 DEF Idle, Reqs, Points
    <2>2. RequestOK(new)
      BY <1>2 DEF Idle, RequestOK, GooglePoints, Known
    <2>3. req' = [req EXCEPT ![r] = new]
      BY <1>4 DEF Register, Idle
    <2> QED
      BY <1>3, <1>4, <2>1, <2>2, <2>3, LocalStep DEF Register
  <1>5. ASSUME ResendVerification(r, e) PROVE AccountsInv'
    <2> DEFINE new == [Idle EXCEPT !.pc = "resending", !.email = e,
                                   !.token = Draw(VerifyTTL)]
    <2>1. new \in Reqs
      BY <1>2 DEF Idle, Reqs, Points
    <2>2. RequestOK(new)
      BY <1>2, <1>5 DEF Idle, RequestOK, GooglePoints, Known, ResendVerification
    <2>3. req' = [req EXCEPT ![r] = new]
      BY <1>5 DEF ResendVerification, Random, Idle
    <2> QED
      BY <1>3, <1>5, <2>1, <2>2, <2>3, LocalStep DEF ResendVerification, Random
  <1>6. ASSUME ForgotPassword(r, e) PROVE AccountsInv'
    <2> DEFINE new == [Idle EXCEPT !.pc = "forgetting", !.email = e,
                                   !.token = Draw(ResetTTL)]
    <2>1. new \in Reqs
      BY <1>2 DEF Idle, Reqs, Points
    <2>2. RequestOK(new)
      BY <1>2, <1>6 DEF Idle, RequestOK, GooglePoints, Known, ForgotPassword
    <2>3. req' = [req EXCEPT ![r] = new]
      BY <1>6 DEF ForgotPassword, Random, Idle
    <2> QED
      BY <1>3, <1>6, <2>1, <2>2, <2>3, LocalStep DEF ForgotPassword, Random
  <1> QED
    BY <1>4, <1>5, <1>6

(* A login or a refresh that is accepted, and the signing of its tokens.   *)
LEMMA SignInLocally ==
    ASSUME AccountsInv, NEW r \in Requests, NEW e \in Emails,
           \/ \E p \in Passwords : Login(r, e, p)
           \/ \E t \in held[e] : Refresh(r, e, t)
           \/ Sign(r)
    PROVE  AccountsInv'
  <1>0. issued \in 0..MaxTokens /\ now \in Nat
    BY AccountsAssumption DEF AccountsInv, TypeOK
  <1>1. ASSUME NEW p \in Passwords, Login(r, e, p) PROVE AccountsInv'
    <2> DEFINE new == [Idle EXCEPT !.pc = "signing", !.email = e, !.password = p,
                                   !.right = "password"]
    <2>1. new \in Reqs
      BY DEF Idle, Reqs, Points
    <2>2. RequestOK(new)
      BY <1>1 DEF Idle, RequestOK, GooglePoints, Known, Login
    <2> QED
      BY <1>0, <1>1, <2>1, <2>2, LocalStep DEF Login
  <1>2. ASSUME NEW t \in held[e], Refresh(r, e, t) PROVE AccountsInv'
    <2> DEFINE new == [Idle EXCEPT !.pc = "signing", !.email = e,
                                   !.right = "refresh"]
    <2>1. new \in Reqs
      BY DEF Idle, Reqs, Points
    <2>2. RequestOK(new)
      BY <1>2 DEF Idle, RequestOK, GooglePoints, Known, Refresh
    <2> QED
      BY <1>0, <1>2, <2>1, <2>2, LocalStep DEF Refresh
  <1>3. ASSUME Sign(r) PROVE AccountsInv'
    <2> DEFINE new == [req[r] EXCEPT !.pc = "storing", !.session = now]
    <2>1. req[r] \in Reqs /\ RequestOK(req[r]) /\ req[r].pc = "signing"
      BY <1>3 DEF AccountsInv, TypeOK, RequestsOK, Sign
    <2>2. new \in Reqs
      BY <1>0, <2>1 DEF Reqs, Points
    <2>3. RequestOK(new)
      BY <1>0, <2>1 DEF Reqs, RequestOK, GooglePoints, Known
    <2>4. req' = [req EXCEPT ![r] = new]
      BY <1>3 DEF Sign
    <2> QED
      BY <1>0, <1>3, <2>2, <2>3, <2>4, LocalStep DEF Sign
  <1> QED
    BY <1>1, <1>2, <1>3

(* A request that finds its account by a mailed token.                     *)
LEMMA FindByToken ==
    ASSUME AccountsInv, NEW r \in Requests, NEW m \in mail,
           VerifyEmail(r, m) \/ \E p \in Passwords : ResetPassword(r, m, p)
    PROVE  AccountsInv'
  <1>0. issued \in 0..MaxTokens
    BY DEF AccountsInv, TypeOK
  <1>1. ASSUME VerifyEmail(r, m) PROVE AccountsInv'
    <2>1. PICK e \in Emails :
            /\ Exists(e)
            /\ users[e].verification # None
            /\ users[e].verification.id = m.id
            /\ req' = [req EXCEPT ![r] = [Idle EXCEPT !.pc = "verifying",
                 !.email = e,
                 !.token = [users[e].verification EXCEPT !.id = m.id]]]
      BY <1>1 DEF VerifyEmail
    <2>2. users[e].verification \in Tokens
      BY <2>1 DEF AccountsInv, TypeOK, Users, Exists
    <2>3. [users[e].verification EXCEPT !.id = m.id] = users[e].verification
      BY <2>1, <2>2 DEF Tokens
    <2> DEFINE new == [Idle EXCEPT !.pc = "verifying", !.email = e,
                                   !.token = users[e].verification]
    <2>4. Mailed(e, "verification", users[e].verification)
      BY <2>1 DEF AccountsInv, RowsOK, RowOK
    <2>5. new \in Reqs
      BY <2>2 DEF Idle, Reqs, Points
    <2>6. RequestOK(new)
      BY <2>1, <2>2, <2>4 DEF Idle, RequestOK, GooglePoints, Known
    <2> QED
      BY <1>0, <1>1, <2>1, <2>3, <2>5, <2>6, LocalStep DEF VerifyEmail
  <1>2. ASSUME NEW p \in Passwords, ResetPassword(r, m, p) PROVE AccountsInv'
    <2>1. PICK e \in Emails :
            /\ Exists(e)
            /\ users[e].reset # None
            /\ users[e].reset.id = m.id
            /\ req' = [req EXCEPT ![r] = [Idle EXCEPT !.pc = "resetting",
                 !.email = e, !.password = p,
                 !.token = [users[e].reset EXCEPT !.id = m.id]]]
      BY <1>2 DEF ResetPassword
    <2>2. users[e].reset \in Tokens
      BY <2>1 DEF AccountsInv, TypeOK, Users, Exists
    <2>3. [users[e].reset EXCEPT !.id = m.id] = users[e].reset
      BY <2>1, <2>2 DEF Tokens
    <2> DEFINE new == [Idle EXCEPT !.pc = "resetting", !.email = e, !.password = p,
                                   !.token = users[e].reset]
    <2>4. Mailed(e, "reset", users[e].reset)
      BY <2>1 DEF AccountsInv, RowsOK, RowOK
    <2>5. new \in Reqs
      BY <2>2 DEF Idle, Reqs, Points
    <2>6. RequestOK(new)
      BY <2>1, <2>2, <2>4 DEF Idle, RequestOK, GooglePoints, Known
    <2> QED
      BY <1>0, <1>2, <2>1, <2>3, <2>5, <2>6, LocalStep DEF ResetPassword
  <1> QED
    BY <1>1, <1>2

(* The reads of a Google login.                                            *)
LEMMA GoogleReads ==
    ASSUME AccountsInv, NEW r \in Requests, NEW g \in GoogleIds, NEW e \in Emails,
           LoginWithGoogle(r, g, e) \/ FindGoogleEmail(r)
    PROVE  AccountsInv'
  <1>0. issued \in 0..MaxTokens
    BY DEF AccountsInv, TypeOK
  <1>1. CASE LoginWithGoogle(r, g, e)
    <2>1. CASE \E o \in Emails : HasGoogle(o, g)
      <3>1. PICK o \in Emails :
              /\ HasGoogle(o, g)
              /\ req' = [req EXCEPT ![r] = [Idle EXCEPT !.pc = "signing",
                             !.email = o, !.googleId = g, !.right = "google"]]
        BY <1>1, <2>1 DEF LoginWithGoogle
      <3> DEFINE new == [Idle EXCEPT !.pc = "signing", !.email = o,
                                     !.googleId = g, !.right = "google"]
      <3>2. new \in Reqs
        BY DEF Idle, Reqs, Points
      <3>3. RequestOK(new)
        BY <3>1 DEF Idle, RequestOK, GooglePoints, Known, HasGoogle
      <3> QED
        BY <1>0, <1>1, <3>1, <3>2, <3>3, LocalStep DEF LoginWithGoogle
    <2>2. CASE ~\E o \in Emails : HasGoogle(o, g)
      <3> DEFINE new == [Idle EXCEPT !.pc = "googling", !.email = e, !.googleId = g]
      <3>1. new \in Reqs
        BY DEF Idle, Reqs, Points
      <3>2. RequestOK(new)
        BY <1>1 DEF Idle, RequestOK, GooglePoints, Known, LoginWithGoogle
      <3> QED
        BY <1>0, <1>1, <2>2, <3>1, <3>2, LocalStep DEF LoginWithGoogle
    <2> QED
      BY <2>1, <2>2
  <1>2. CASE FindGoogleEmail(r)
    <2> DEFINE point == IF Exists(req[r].email) THEN "linking" ELSE "creatingGoogle"
               new == [req[r] EXCEPT !.pc = point]
    <2>1. req[r] \in Reqs /\ RequestOK(req[r]) /\ req[r].pc = "googling"
      BY <1>2 DEF AccountsInv, TypeOK, RequestsOK, FindGoogleEmail
    <2>2. new \in Reqs
      BY <2>1 DEF Reqs, Points
    <2>3. RequestOK(new)
      BY <2>1 DEF Reqs, RequestOK, GooglePoints, Known
    <2>4. req' = [req EXCEPT ![r] = new]
      BY <1>2 DEF FindGoogleEmail, Go
    <2> QED
      BY <1>0, <1>2, <2>2, <2>3, <2>4, LocalStep DEF FindGoogleEmail
  <1> QED
    BY <1>1, <1>2

(* A request that fails.                                                   *)
LEMMA FailStep ==
    ASSUME AccountsInv, NEW r \in Requests, Fail(r)
    PROVE  AccountsInv'
  BY IdleOK, LocalStep DEF Fail, End, AccountsInv, TypeOK

-----------------------------------------------------------------------------
(* The steps that write a row of users                                     *)

(* What a request at a given point knows, with its types.                  *)
LEMMA Locals ==
    ASSUME AccountsInv, NEW r \in Requests
    PROVE  /\ req[r] \in Reqs
           /\ RequestOK(req[r])
           /\ \A e \in Emails : Exists(e) => users[e] \in Users /\ RowOK(e, users[e])
  BY DEF AccountsInv, TypeOK, RequestsOK, RowsOK, Exists

(* A request that ends, or goes on to sign tokens for an account that now  *)
(* exists, is right.                                                       *)
LEMMA GoesOn ==
    ASSUME AccountsInv, NEW r \in Requests, NEW e \in Emails, req[r].email = e,
           \/ req' = [req EXCEPT ![r] = Idle]
           \/ /\ Exists(e)'
              /\ \E right \in {"registration", "google"} :
                   req' = [req EXCEPT ![r].pc = "signing", ![r].right = right]
    PROVE  /\ req' \in [Requests -> Reqs]
           /\ \A s \in Requests : req'[s] = req[s] \/ RequestOK(req[s])'
  <1>1. CASE req' = [req EXCEPT ![r] = Idle]
    BY <1>1, IdleOK, IdleStaysOK DEF AccountsInv, TypeOK
  <1>2. ASSUME Exists(e)', NEW right \in {"registration", "google"},
               req' = [req EXCEPT ![r].pc = "signing", ![r].right = right]
        PROVE  /\ req' \in [Requests -> Reqs]
               /\ \A s \in Requests : req'[s] = req[s] \/ RequestOK(req[s])'
    <2>1. PICK new : new = [req[r] EXCEPT !.pc = "signing", !.right = right]
      OBVIOUS
    <2>2. new \in Reqs /\ new.pc = "signing" /\ new.email = e
      BY <2>1, Locals DEF Reqs, Points
    <2>3. req' = [req EXCEPT ![r] = new]
      BY <1>2, <2>1
    <2>4. RequestOK(new)'
      BY <1>2, <2>2 DEF RequestOK, GooglePoints, Known
    <2> QED
      BY <2>2, <2>3, <2>4 DEF AccountsInv, TypeOK
  <1> QED
    BY <1>1, <1>2

(* The insert that ends a registration.                                    *)
LEMMA CreateUserStep ==
    ASSUME AccountsInv, NEW r \in Requests, CreateUser(r)
    PROVE  AccountsInv'
  <1>1. PICK e \in Emails, t \in Tokens, p \in Passwords :
          req[r].email = e /\ req[r].token = t /\ req[r].password = p
    BY Locals DEF CreateUser, RequestOK
  <1>2. CASE Exists(e)
    BY <1>1, <1>2, FailStep DEF CreateUser, Fail
  <1>3. CASE ~Exists(e)
    <2>1. PICK u : u = [NoUser EXCEPT !.password = p, !.verification = t]
      OBVIOUS
    <2>2. u \in Users /\ u.verification = t /\ u.reset = None
      BY <2>1 DEF NoUser, Users
    <2>3. users' = [users EXCEPT ![e] = u]
      BY <1>1, <1>3, <2>1 DEF CreateUser, Set
    <2>4. mail' = mail \cup {[to |-> e, kind |-> "verification", id |-> t.id]}
      BY <1>1, <1>3 DEF CreateUser, Send
    <2>5. mail \subseteq mail' /\ mail' \subseteq Mails
      BY <2>4 DEF AccountsInv, TypeOK, Mails, Tokens
    <2>6. RowOK(e, u)'
      BY <2>2, <2>4 DEF RowOK, Mailed
    <2>7. Exists(e)'
      BY <2>2, <2>3, NoneIsNoRecord DEF Exists, AccountsInv, TypeOK
    <2>8. /\ req' \in [Requests -> Reqs]
          /\ \A s \in Requests : req'[s] = req[s] \/ RequestOK(req[s])'
      BY <1>1, <1>3, <2>7, GoesOn DEF CreateUser
    <2>9. held' \in [Emails -> SUBSET Nat] /\ UNCHANGED <<now, issued>>
      BY DEF CreateUser, AccountsInv, TypeOK
    <2> QED
      BY <2>2, <2>3, <2>5, <2>6, <2>8, <2>9, RowStep
  <1> QED
    BY <1>2, <1>3

(* An update of an existing row that sends nothing, after which its        *)
(* request ends.                                                           *)
LEMMA LastUpdate ==
    ASSUME AccountsInv, NEW r \in Requests, NEW e \in Emails, NEW u \in Users,
           Set(e, u), RowOK(e, u),
           End(r) \/ req' = req,
           held' \in [Emails -> SUBSET Nat], UNCHANGED <<mail, now, issued>>
    PROVE  AccountsInv'
  <1>1. RowOK(e, u)'
    BY DEF RowOK, Mailed
  <1>2. mail \subseteq mail' /\ mail' \subseteq Mails
    BY DEF AccountsInv, TypeOK
  <1>3. /\ req' \in [Requests -> Reqs]
        /\ \A s \in Requests : req'[s] = req[s] \/ RequestOK(req[s])'
    BY IdleOK, IdleStaysOK DEF End, AccountsInv, TypeOK
  <1> QED
    BY <1>1, <1>2, <1>3, RowStep DEF Set

(* The updates that end a request, and logout.                             *)
LEMMA UpdateSteps ==
    ASSUME AccountsInv, NEW r \in Requests, NEW e \in Emails,
           \/ Logout(e)
           \/ req[r].email = e /\ (UpdateRefreshTokenHash(r) \/ MarkVerified(r)
                                     \/ UpdatePassword(r))
    PROVE  AccountsInv'
  <1>1. CASE Logout(e)
    <2> DEFINE u == [users[e] EXCEPT !.session = None]
    <2>1. u \in Users /\ RowOK(e, u)
      BY <1>1, Locals DEF Logout, Users, RowOK
    <2> QED
      BY <1>1, <2>1, LastUpdate DEF Logout, AccountsInv, TypeOK
  <1>2. CASE req[r].email = e /\ UpdateRefreshTokenHash(r)
    <2> DEFINE u == [users[e] EXCEPT !.session = req[r].session]
    <2>1. req[r].session \in Nat /\ Exists(e)
      BY <1>2, Locals DEF UpdateRefreshTokenHash, RequestOK, Known
    <2>2. u \in Users /\ RowOK(e, u)
      BY <2>1, Locals DEF Users, RowOK
    <2>3. held' \in [Emails -> SUBSET Nat]
      BY <1>2, <2>1 DEF UpdateRefreshTokenHash, AccountsInv, TypeOK
    <2> QED
      BY <1>2, <2>2, <2>3, LastUpdate DEF UpdateRefreshTokenHash
  <1>3. CASE req[r].email = e /\ MarkVerified(r)
    <2> DEFINE u == [users[e] EXCEPT !.verified = TRUE, !.verification = None]
    <2>1. Exists(e)
      BY <1>3, Locals DEF MarkVerified, RequestOK, Known
    <2>2. u \in Users /\ RowOK(e, u)
      BY <2>1, Locals DEF Users, RowOK
    <2> QED
      BY <1>3, <2>2, LastUpdate DEF MarkVerified, AccountsInv, TypeOK
  <1>4. CASE req[r].email = e /\ UpdatePassword(r)
    <2> DEFINE u == [users[e] EXCEPT !.password = req[r].password,
                                     !.session = None, !.reset = None]
    <2>1. Exists(e) /\ req[r].password \in Passwords
      BY <1>4, Locals DEF UpdatePassword, RequestOK, Known
    <2>2. u \in Users /\ RowOK(e, u)
      BY <2>1, Locals DEF Users, RowOK
    <2> QED
      BY <1>4, <2>2, LastUpdate DEF UpdatePassword, AccountsInv, TypeOK
  <1> QED
    BY <1>1, <1>2, <1>3, <1>4

(* The updates that store a fresh token and send it.                       *)
LEMMA SendingSteps ==
    ASSUME AccountsInv, NEW r \in Requests,
           StoreVerification(r) \/ UpdatePasswordReset(r)
    PROVE  AccountsInv'
  <1>1. PICK e \in Emails, t \in Tokens :
          req[r].email = e /\ req[r].token = t /\ Exists(e)
    BY Locals DEF StoreVerification, UpdatePasswordReset, RequestOK, Known
  <1>2. held' \in [Emails -> SUBSET Nat] /\ UNCHANGED <<now, issued>>
    BY DEF StoreVerification, UpdatePasswordReset, AccountsInv, TypeOK
  <1>3. /\ req' \in [Requests -> Reqs]
        /\ \A s \in Requests : req'[s] = req[s] \/ RequestOK(req[s])'
    BY <1>1, GoesOn DEF StoreVerification, UpdatePasswordReset, End
  <1>4. users[e] \in Users /\ RowOK(e, users[e])
    BY <1>1, Locals
  <1>5. ASSUME NEW kind \in {"verification", "reset"}, Send(e, kind, t)
        PROVE  /\ mail \subseteq mail' /\ mail' \subseteq Mails
               /\ \A x, k : Mailed(e, k, x) => Mailed(e, k, x)'
               /\ Mailed(e, kind, t)'
    <2>1. [to |-> e, kind |-> kind, id |-> t.id] \in Mails
      BY DEF Mails, Tokens
    <2> QED
      BY <1>5, <2>1 DEF AccountsInv, TypeOK, Mailed, Send
  <1>6. CASE StoreVerification(r)
    <2>1. PICK u : u = [users[e] EXCEPT !.verification = t]
      OBVIOUS
    <2>2. /\ u \in Users /\ users' = [users EXCEPT ![e] = u]
          /\ u.reset = users[e].reset /\ u.verification = t
      BY <1>1, <1>4, <1>6, <2>1 DEF Users, StoreVerification, Set
    <2>3. Send(e, "verification", t)
      BY <1>1, <1>6 DEF StoreVerification
    <2>4. RowOK(e, u)'
      BY <1>4, <1>5, <2>2, <2>3 DEF RowOK
    <2> QED
      BY <1>2, <1>3, <1>5, <2>2, <2>3, <2>4, RowStep
  <1>7. CASE UpdatePasswordReset(r)
    <2>1. PICK u : u = [users[e] EXCEPT !.reset = t]
      OBVIOUS
    <2>2. /\ u \in Users /\ users' = [users EXCEPT ![e] = u]
          /\ u.verification = users[e].verification /\ u.reset = t
      BY <1>1, <1>4, <1>7, <2>1 DEF Users, UpdatePasswordReset, Set
    <2>3. Send(e, "reset", t)
      BY <1>1, <1>7 DEF UpdatePasswordReset
    <2>4. RowOK(e, u)'
      BY <1>4, <1>5, <2>2, <2>3 DEF RowOK
    <2> QED
      BY <1>2, <1>3, <1>5, <2>2, <2>3, <2>4, RowStep
  <1> QED
    BY <1>6, <1>7

(* The writes of a Google login.                                           *)
LEMMA GoogleWrites ==
    ASSUME AccountsInv, NEW r \in Requests,
           LinkGoogle(r) \/ VerifyLinked(r) \/ CreateGoogleUser(r)
    PROVE  AccountsInv'
  <1>1. PICK e \in Emails, g \in GoogleIds :
          req[r].email = e /\ req[r].googleId = g /\ <<g, e>> \in GoogleTokens
    BY Locals DEF LinkGoogle, VerifyLinked, CreateGoogleUser, RequestOK, GooglePoints
  <1>2. /\ held' \in [Emails -> SUBSET Nat] /\ UNCHANGED <<mail, now, issued>>
        /\ mail \subseteq mail' /\ mail' \subseteq Mails
    BY DEF LinkGoogle, VerifyLinked, CreateGoogleUser, AccountsInv, TypeOK
  <1>3. \A u \in Users : users' = [users EXCEPT ![e] = u] => Exists(e)'
    BY NoneIsNoRecord DEF Exists, AccountsInv, TypeOK
  <1>4. \A u : RowOK(e, u) => RowOK(e, u)'
    BY <1>2 DEF RowOK, Mailed
  <1>5. CASE End(r) /\ UNCHANGED users
    BY <1>2, <1>5, FailStep
    DEF LinkGoogle, CreateGoogleUser, VerifyLinked, Fail
  <1>6. CASE LinkGoogle(r) /\ ~TakenElsewhere(e, g)
    <2>1. Exists(e) /\ req[r].pc = "linking" /\ users[e] \in Users /\ RowOK(e, users[e])
      BY <1>1, <1>6, Locals DEF LinkGoogle, RequestOK, Known
    <2>2. PICK u : u = [users[e] EXCEPT !.googleId = g]
      OBVIOUS
    <2>3. u \in Users /\ users' = [users EXCEPT ![e] = u] /\ RowOK(e, u)
      BY <1>1, <1>6, <2>1, <2>2 DEF LinkGoogle, Set, Users, RowOK
    <2>4. PICK new : new = [req[r] EXCEPT !.pc = "linked"]
      OBVIOUS
    <2>5. new \in Reqs /\ new.pc = "linked" /\ new.email = e /\ new.googleId = g
      BY <1>1, <2>4, Locals DEF Reqs, Points
    <2>6. RequestOK(new)'
      BY <1>1, <1>3, <2>3, <2>5 DEF RequestOK, GooglePoints, Known
    <2>7. req' = [req EXCEPT ![r] = new]
      BY <1>1, <1>6, <2>4 DEF LinkGoogle, Go
    <2>8. /\ req' \in [Requests -> Reqs]
          /\ \A s \in Requests : req'[s] = req[s] \/ RequestOK(req[s])'
      BY <2>5, <2>6, <2>7 DEF AccountsInv, TypeOK
    <2> QED
      BY <1>2, <1>4, <2>3, <2>8, RowStep
  <1>7. CASE VerifyLinked(r)
    <2>1. Exists(e) /\ users[e] \in Users /\ RowOK(e, users[e])
      BY <1>1, <1>7, Locals DEF VerifyLinked, RequestOK, Known
    <2>2. PICK u : u = [users[e] EXCEPT !.verified = TRUE, !.verification = None]
      OBVIOUS
    <2>3. u \in Users /\ users' = [users EXCEPT ![e] = u] /\ RowOK(e, u)
      BY <1>1, <1>7, <2>1, <2>2 DEF VerifyLinked, Set, Users, RowOK
    <2>4. /\ req' \in [Requests -> Reqs]
          /\ \A s \in Requests : req'[s] = req[s] \/ RequestOK(req[s])'
      BY <1>1, <1>3, <1>7, <2>3, GoesOn DEF VerifyLinked
    <2> QED
      BY <1>2, <1>4, <2>3, <2>4, RowStep
  <1>8. CASE CreateGoogleUser(r) /\ ~(Exists(e) \/ TakenElsewhere(e, g))
    <2>1. PICK u : u = [NoUser EXCEPT !.googleId = g, !.verified = TRUE]
      OBVIOUS
    <2>2. u \in Users /\ users' = [users EXCEPT ![e] = u] /\ RowOK(e, u)
      BY <1>1, <1>8, <2>1 DEF CreateGoogleUser, Set, Users, NoUser, RowOK
    <2>3. /\ req' \in [Requests -> Reqs]
          /\ \A s \in Requests : req'[s] = req[s] \/ RequestOK(req[s])'
      BY <1>1, <1>3, <1>8, <2>2, GoesOn DEF CreateGoogleUser
    <2> QED
      BY <1>2, <1>4, <2>2, <2>3, RowStep
  <1> QED
    BY <1>1, <1>5, <1>6, <1>7, <1>8 DEF LinkGoogle, CreateGoogleUser

-----------------------------------------------------------------------------
(* Every step keeps the invariant.                                         *)
LEMMA NextAccounts == AccountsInv /\ [Next]_vars => AccountsInv'
  <1> SUFFICES ASSUME AccountsInv, [Next]_vars PROVE AccountsInv'
    OBVIOUS
  <1>1. ASSUME NEW r \in Requests, SignInStep(r) PROVE AccountsInv'
    <2>1. \A e \in Emails : req[r].email = e /\ UpdateRefreshTokenHash(r) => AccountsInv'
      BY UpdateSteps
    <2>2. UpdateRefreshTokenHash(r) => req[r].email \in Emails
      BY Locals DEF UpdateRefreshTokenHash, RequestOK
    <2>3. \A e \in Emails : \A p \in Passwords :
            Register(r, e, p) \/ Login(r, e, p) => AccountsInv'
      BY DrawStep, SignInLocally
    <2>4. \A e \in Emails : \A t \in held[e] : Refresh(r, e, t) => AccountsInv'
      BY SignInLocally
    <2>5. CASE Sign(r)
      <3>1. req[r].email \in Emails
        BY <2>5, Locals DEF Sign, RequestOK
      <3> QED
        BY <2>5, <3>1, SignInLocally
    <2> QED
      BY <1>1, <2>1, <2>2, <2>3, <2>4, <2>5, CreateUserStep DEF SignInStep
  <1>2. ASSUME NEW r \in Requests, TokenStep(r) PROVE AccountsInv'
    <2>1. \A e \in Emails : req[r].email = e /\ (MarkVerified(r) \/ UpdatePassword(r))
                            => AccountsInv'
      BY UpdateSteps
    <2>2. MarkVerified(r) \/ UpdatePassword(r) => req[r].email \in Emails
      BY Locals DEF MarkVerified, UpdatePassword, RequestOK
    <2> QED
      BY <1>2, <2>1, <2>2, DrawStep, FindByToken, SendingSteps DEF TokenStep
  <1>3. ASSUME NEW r \in Requests, GoogleStep(r) PROVE AccountsInv'
    <2>1. CASE FindGoogleEmail(r)
      <3>1. req[r].email \in Emails /\ req[r].googleId \in GoogleIds
        BY <2>1, Locals DEF FindGoogleEmail, RequestOK, GooglePoints
      <3> QED
        BY <2>1, <3>1, GoogleReads
    <2> QED
      BY <1>3, <2>1, GoogleReads, GoogleWrites DEF GoogleStep
  <1>4. ASSUME NEW e \in Emails, Logout(e) PROVE AccountsInv'
    <2>1. PICK u : u = [users[e] EXCEPT !.session = None]
      OBVIOUS
    <2>2. u \in Users /\ RowOK(e, u)
      BY <1>4, <2>1 DEF Logout, AccountsInv, TypeOK, RowsOK, Exists, Users, RowOK
    <2>3. RowOK(e, u)'
      BY <1>4, <2>2 DEF Logout, RowOK, Mailed
    <2> QED
      BY <1>4, <2>1, <2>2, <2>3, RowStep DEF Logout, Set, AccountsInv, TypeOK
  <1>5. CASE Tick \/ UNCHANGED vars
    BY <1>5, AccountsAssumption
    DEF Tick, vars, AccountsInv, TypeOK, RequestsOK, RequestOK, RowsOK, RowOK,
        Exists, Mailed
  <1> QED
    BY <1>1, <1>2, <1>3, <1>4, <1>5, FailStep DEF Next

(* The invariant of accounts and sessions.                                 *)
THEOREM AccountsInvariant == Spec => []AccountsInv
  BY InitAccounts, NextAccounts, PTL DEF Spec

(* Rows, tokens and requests stay within what the columns and points allow.*)
THEOREM AccountsTypes == Spec => []TypeOK
  <1>1. AccountsInv => TypeOK
    BY DEF AccountsInv
  <1> QED
    BY <1>1, AccountsInvariant, PTL

-----------------------------------------------------------------------------
(* What may happen to a row                                                *)

(* A link appears by the only write of a Google login that is not refused, *)
(* and disappears by one to another Google account.                        *)
LinkChange(e) ==
    \A g \in GoogleIds :
      /\ HasGoogle(e, g)' /\ ~HasGoogle(e, g) =>
           \E r \in Requests :
             /\ LinkGoogle(r) \/ CreateGoogleUser(r)
             /\ req[r].email = e /\ req[r].googleId = g
             /\ ~TakenElsewhere(e, g)
             /\ \A o \in Emails \ {e} : users'[o] = users[o]
      /\ HasGoogle(e, g) /\ ~HasGoogle(e, g)' =>
           \E r \in Requests :
             LinkGoogle(r) /\ req[r].email = e /\ req[r].googleId # g

(* What a step may do to the row of e: nothing, write other columns, or    *)
(* change password, verification and link by right.                        *)
RowChange(e) ==
    /\ LinkChange(e)
    /\ Verified(e)' /\ ~Verified(e) => ProofOfAddress(e)
    /\ Exists(e) /\ (users[e].password)' # users[e].password =>
         \E r \in Requests : /\ req[r].pc = "resetting"
                             /\ req[r].email = e
                             /\ Mailed(e, "reset", req[r].token)
    /\ Verified(e) => Verified(e)'
    /\ Exists(e) => Exists(e)'

(* A step that leaves the three columns alone.                             *)
LEMMA NoChange ==
    ASSUME NEW e \in Emails,
           \/ users' = users
           \/ /\ Exists(e) /\ Exists(e)'
              /\ users'[e].password = users[e].password
              /\ users'[e].verified = users[e].verified
              /\ users'[e].googleId = users[e].googleId
           \/ Exists(e) = Exists(e)' /\ users'[e] = users[e]
    PROVE  RowChange(e)
  BY DEF RowChange, LinkChange, HasGoogle, Verified, Exists

(* The steps of sign-in and logout.                                        *)
LEMMA SignInChange ==
    ASSUME AccountsInv, NEW e \in Emails,
           \/ \E r \in Requests : SignInStep(r)
           \/ \E f \in Emails : Logout(f)
    PROVE  RowChange(e)
  <1>1. CASE users' = users
    BY <1>1, NoChange
  <1>2. ASSUME NEW r \in Requests, CreateUser(r), users' # users PROVE RowChange(e)
    <2>1. PICK f \in Emails, u \in Users :
            /\ ~Exists(f) /\ users' = [users EXCEPT ![f] = u]
            /\ ~u.verified /\ u.googleId = None
      <3>1. PICK f \in Emails, t \in Tokens, p \in Passwords :
              req[r].email = f /\ req[r].token = t /\ req[r].password = p
        BY <1>2, Locals DEF CreateUser, RequestOK
      <3>2. PICK u : u = [NoUser EXCEPT !.password = p, !.verification = t]
        OBVIOUS
      <3>3. u \in Users /\ ~u.verified /\ u.googleId = None
        BY <3>2 DEF NoUser, Users
      <3> QED
        BY <1>2, <3>1, <3>2, <3>3 DEF CreateUser, Set
    <2>2. CASE e = f
      BY <2>1, <2>2, AccountsAssumption
      DEF RowChange, LinkChange, HasGoogle, Verified, Exists, AccountsInv, TypeOK
    <2>3. CASE e # f
      BY <2>1, <2>3, NoChange DEF Exists, AccountsInv, TypeOK
    <2> QED
      BY <2>2, <2>3
  <1>3. ASSUME NEW f \in Emails, Exists(f), NEW s \in Nat \cup {None},
               users' = [users EXCEPT ![f] = [users[f] EXCEPT !.session = s]]
        PROVE  RowChange(e)
    <2>1. users[f] \in Users
      BY <1>3 DEF Exists, AccountsInv, TypeOK
    <2>2. PICK u : u = [users[f] EXCEPT !.session = s]
      OBVIOUS
    <2>3. /\ u \in Users /\ u.password = users[f].password
          /\ u.verified = users[f].verified /\ u.googleId = users[f].googleId
      BY <2>1, <2>2 DEF Users
    <2>4. users'[f] = u /\ \A x \in Emails \ {f} : users'[x] = users[x]
      BY <1>3, <2>2 DEF AccountsInv, TypeOK
    <2> QED
      BY <1>3, <2>3, <2>4, NoChange, NoneIsNoRecord DEF Exists
  <1>4. ASSUME NEW r \in Requests, UpdateRefreshTokenHash(r) PROVE RowChange(e)
    <2>1. /\ req[r].email \in Emails /\ Exists(req[r].email) /\ req[r].session \in Nat
      BY <1>4, Locals DEF UpdateRefreshTokenHash, RequestOK, Known
    <2> QED
      BY <1>3, <1>4, <2>1 DEF UpdateRefreshTokenHash, Set
  <1>5. ASSUME NEW f \in Emails, Logout(f) PROVE RowChange(e)
    BY <1>3, <1>5 DEF Logout, Set
  <1>6. ASSUME NEW r \in Requests, SignInStep(r), ~CreateUser(r),
               ~UpdateRefreshTokenHash(r)
        PROVE  users' = users
    BY <1>6 DEF SignInStep, Register, Login, Refresh, Sign
  <1> QED
    BY <1>1, <1>2, <1>4, <1>5, <1>6

(* The steps of verification and reset.                                    *)
LEMMA TokenChange ==
    ASSUME AccountsInv, NEW e \in Emails, NEW r \in Requests, TokenStep(r)
    PROVE  RowChange(e)
  <1>1. CASE users' = users
    BY <1>1, NoChange
  <1>2. ASSUME NEW f \in Emails, NEW u \in Users, users' = [users EXCEPT ![f] = u],
               e # f \/ /\ Exists(f)
                        /\ u.password = users[f].password
                        /\ u.verified = users[f].verified
                        /\ u.googleId = users[f].googleId
        PROVE  RowChange(e)
    BY <1>2, NoChange, NoneIsNoRecord DEF Exists, AccountsInv, TypeOK
  <1>3. CASE MarkVerified(r)
    <2>1. PICK f \in Emails, u \in Users :
            /\ req[r].email = f /\ Exists(f) /\ users' = [users EXCEPT ![f] = u]
            /\ u.password = users[f].password /\ u.verified
            /\ u.googleId = users[f].googleId
            /\ req[r].pc = "verifying" /\ Mailed(f, "verification", req[r].token)
      <3>1. PICK f \in Emails : /\ req[r].email = f /\ Exists(f)
                                /\ req[r].pc = "verifying"
                                /\ Mailed(f, "verification", req[r].token)
        BY <1>3, Locals DEF MarkVerified, RequestOK, Known
      <3>2. PICK u : u = [users[f] EXCEPT !.verified = TRUE, !.verification = None]
        OBVIOUS
      <3>3. /\ u \in Users /\ u.password = users[f].password /\ u.verified
            /\ u.googleId = users[f].googleId
        BY <3>1, <3>2, Locals DEF Users
      <3> QED
        BY <1>3, <3>1, <3>2, <3>3 DEF MarkVerified, Set
    <2>2. CASE e = f
      BY <2>1, <2>2, NoneIsNoRecord
      DEF RowChange, LinkChange, HasGoogle, Verified, Exists, ProofOfAddress,
          AccountsInv, TypeOK
    <2> QED
      BY <1>2, <2>1, <2>2
  <1>4. CASE UpdatePassword(r)
    <2>1. PICK f \in Emails, u \in Users :
            /\ req[r].email = f /\ Exists(f) /\ users' = [users EXCEPT ![f] = u]
            /\ u.verified = users[f].verified /\ u.googleId = users[f].googleId
            /\ req[r].pc = "resetting" /\ Mailed(f, "reset", req[r].token)
      <3>1. PICK f \in Emails, p \in Passwords :
              /\ req[r].email = f /\ Exists(f) /\ req[r].password = p
              /\ req[r].pc = "resetting" /\ Mailed(f, "reset", req[r].token)
        BY <1>4, Locals DEF UpdatePassword, RequestOK, Known
      <3>2. PICK u : u = [users[f] EXCEPT !.password = p, !.session = None,
                                          !.reset = None]
        OBVIOUS
      <3>3. /\ u \in Users /\ u.verified = users[f].verified
            /\ u.googleId = users[f].googleId
        BY <3>1, <3>2, Locals DEF Users
      <3> QED
        BY <1>4, <3>1, <3>2, <3>3 DEF UpdatePassword, Set
    <2>2. CASE e = f
      BY <2>1, <2>2, NoneIsNoRecord
      DEF RowChange, LinkChange, HasGoogle, Verified, Exists, AccountsInv, TypeOK
    <2> QED
      BY <1>2, <2>1, <2>2
  <1>5. CASE StoreVerification(r) \/ UpdatePasswordReset(r)
    <2>1. PICK f \in Emails, t \in Tokens :
            req[r].email = f /\ Exists(f) /\ req[r].token = t /\ users[f] \in Users
      BY <1>5, Locals DEF StoreVerification, UpdatePasswordReset, RequestOK, Known
    <2>2. PICK u : /\ u = [users[f] EXCEPT !.verification = t]
                      \/ u = [users[f] EXCEPT !.reset = t]
                   /\ users' = [users EXCEPT ![f] = u]
      BY <1>5, <2>1 DEF StoreVerification, UpdatePasswordReset, Set
    <2>3. /\ u \in Users /\ u.password = users[f].password
          /\ u.verified = users[f].verified /\ u.googleId = users[f].googleId
      BY <2>1, <2>2 DEF Users
    <2> QED
      BY <1>2, <2>1, <2>2, <2>3
  <1>6. \/ users' = users
        \/ MarkVerified(r) \/ UpdatePassword(r)
        \/ StoreVerification(r) \/ UpdatePasswordReset(r)
    BY DEF TokenStep, VerifyEmail, ResetPassword, ResendVerification,
           ForgotPassword, Random
  <1> QED
    BY <1>1, <1>3, <1>4, <1>5, <1>6

(* The steps of a Google login.                                            *)
LEMMA GoogleChange ==
    ASSUME AccountsInv, NEW e \in Emails, NEW r \in Requests, GoogleStep(r)
    PROVE  RowChange(e)
  <1>1. CASE users' = users
    BY <1>1, NoChange
  <1>2. ASSUME users' # users
        PROVE  RowChange(e)
    <2>6. LinkGoogle(r) \/ VerifyLinked(r) \/ CreateGoogleUser(r)
      BY <1>2 DEF GoogleStep, LoginWithGoogle, FindGoogleEmail
    <2>1. PICK f \in Emails, g \in GoogleIds :
            req[r].email = f /\ req[r].googleId = g /\ <<g, f>> \in GoogleTokens
      BY <2>6, Locals DEF LinkGoogle, VerifyLinked, CreateGoogleUser, RequestOK, GooglePoints
    <2>2. ASSUME NEW u \in Users, users' = [users EXCEPT ![f] = u],
                 Exists(f) => u.password = users[f].password,
                 \/ Exists(f) /\ u.verified = users[f].verified
                 \/ u.verified /\ req[r].pc \in {"linked", "creatingGoogle"},
                 \/ Exists(f) /\ u.googleId = users[f].googleId
                 \/ /\ u.googleId = g /\ ~TakenElsewhere(f, g)
                    /\ LinkGoogle(r) \/ (~Exists(f) /\ CreateGoogleUser(r))
          PROVE  RowChange(e)
      <3>1. CASE e = f
        <4>1. /\ users'[e] = u /\ u # None
              /\ \A o \in Emails \ {e} : users'[o] = users[o]
          BY <2>2, <3>1, NoneIsNoRecord DEF AccountsInv, TypeOK
        <4>2. LinkChange(e)
          BY <2>1, <2>2, <3>1, <4>1 DEF LinkChange, HasGoogle, Exists
        <4> QED
          BY <2>1, <2>2, <3>1, <4>1, <4>2
          DEF RowChange, Verified, Exists, ProofOfAddress
      <3>2. CASE e # f
        BY <2>2, <3>2, NoChange DEF Exists, AccountsInv, TypeOK
      <3> QED
        BY <3>1, <3>2
    <2>3. CASE LinkGoogle(r)
      <3>1. Exists(f) /\ users[f] \in Users
        BY <2>1, <2>3, Locals DEF LinkGoogle, RequestOK, Known
      <3>2. PICK u : u = [users[f] EXCEPT !.googleId = g]
        OBVIOUS
      <3>3. /\ u \in Users /\ u.password = users[f].password
            /\ u.verified = users[f].verified /\ u.googleId = g
        BY <3>1, <3>2 DEF Users
      <3>4. ~TakenElsewhere(f, g) /\ users' = [users EXCEPT ![f] = u]
        BY <1>2, <2>1, <2>3, <3>2 DEF LinkGoogle, Set
      <3> QED
        BY <2>2, <2>3, <3>1, <3>3, <3>4
    <2>4. CASE VerifyLinked(r)
      <3>1. Exists(f) /\ users[f] \in Users
        BY <2>1, <2>4, Locals DEF VerifyLinked, RequestOK, Known
      <3>2. PICK u : u = [users[f] EXCEPT !.verified = TRUE, !.verification = None]
        OBVIOUS
      <3>3. /\ u \in Users /\ u.password = users[f].password /\ u.verified
            /\ u.googleId = users[f].googleId
        BY <3>1, <3>2 DEF Users
      <3> QED
        BY <2>1, <2>2, <2>4, <3>1, <3>2, <3>3 DEF VerifyLinked, Set
    <2>5. CASE CreateGoogleUser(r)
      <3>1. PICK u : u = [NoUser EXCEPT !.googleId = g, !.verified = TRUE]
        OBVIOUS
      <3>2. u \in Users /\ u.verified /\ u.googleId = g
        BY <3>1 DEF Users, NoUser
      <3> QED
        BY <1>2, <2>1, <2>2, <2>5, <3>1, <3>2 DEF CreateGoogleUser, Set
    <2> QED
      BY <2>6, <2>3, <2>4, <2>5
  <1> QED
    BY <1>1, <1>2

(* No step changes a row but by right.                                     *)
LEMMA RowsChangeByRight ==
    ASSUME AccountsInv, [Next]_vars, NEW e \in Emails
    PROVE  RowChange(e)
  <1>1. CASE UNCHANGED vars \/ Tick \/ \E r \in Requests : Fail(r)
    BY <1>1, NoChange DEF vars, Tick, Fail
  <1> QED
    BY <1>1, SignInChange, TokenChange, GoogleChange DEF Next

(* The accounts of any number of addresses, requests and tokens become     *)
(* verified only by a proof of their address.                              *)
THEOREM VerificationNeedsProof == Spec => VerifiedByProof
  <1>1. AccountsInv /\ [Next]_vars
        => [\A e \in Emails : Verified(e)' /\ ~Verified(e) => ProofOfAddress(e)]_vars
    BY RowsChangeByRight DEF RowChange
  <1> QED
    BY <1>1, AccountsInvariant, PTL DEF Spec, VerifiedByProof

(* Passwords of existing accounts change only by a reset with a token that *)
(* was mailed to the account's address.                                    *)
THEOREM PasswordsNeedMail == Spec => PasswordsChangeByMail
  <1>1. AccountsInv /\ [Next]_vars
        => [\A e \in Emails :
              Exists(e) /\ (users[e].password)' # users[e].password =>
                \E r \in Requests : /\ req[r].pc = "resetting"
                                    /\ req[r].email = e
                                    /\ Mailed(e, "reset", req[r].token)]_vars
    BY RowsChangeByRight DEF RowChange
  <1> QED
    BY <1>1, AccountsInvariant, PTL DEF Spec, PasswordsChangeByMail

(* A verified account stays verified.                                      *)
THEOREM VerificationLasts == Spec => VerifiedForGood
  <1>1. AccountsInv /\ [Next]_vars
        => [\A e \in Emails : Verified(e) => Verified(e)']_vars
    BY RowsChangeByRight DEF RowChange
  <1> QED
    BY <1>1, AccountsInvariant, PTL DEF Spec, VerifiedForGood

-----------------------------------------------------------------------------
(* Google accounts                                                         *)

(* Links stay one to one, and vouched for.                                 *)
LEMMA LinksStayOK ==
    AccountsInv /\ OneAccountPerGoogle /\ [Next]_vars => OneAccountPerGoogle'
  <1> SUFFICES ASSUME AccountsInv, OneAccountPerGoogle, [Next]_vars
               PROVE  OneAccountPerGoogle'
    OBVIOUS
  <1>1. ASSUME NEW e \in Emails, NEW g \in GoogleIds, HasGoogle(e, g)', ~HasGoogle(e, g)
        PROVE  /\ <<g, e>> \in GoogleTokens
               /\ \A o \in Emails \ {e} : ~HasGoogle(o, g)'
    <2>1. PICK r \in Requests :
            /\ LinkGoogle(r) \/ CreateGoogleUser(r)
            /\ req[r].email = e /\ req[r].googleId = g
            /\ ~TakenElsewhere(e, g)
            /\ \A o \in Emails \ {e} : users'[o] = users[o]
      BY <1>1, RowsChangeByRight DEF RowChange, LinkChange
    <2>2. <<g, e>> \in GoogleTokens
      BY <2>1, Locals DEF LinkGoogle, CreateGoogleUser, RequestOK, GooglePoints
    <2> QED
      BY <2>1, <2>2 DEF TakenElsewhere, HasGoogle, Exists
  <1> QED
    BY <1>1 DEF OneAccountPerGoogle

(* However first sign-ins, links, registrations and changes of address     *)
(* race, a Google account never has two accounts here, and every account   *)
(* that is linked has had its address vouched for by Google                *)
(* (loginWithGoogle, User.googleId @unique).                               *)
THEOREM GoogleAccountsAreUnique == Spec => []OneAccountPerGoogle
  <1>1. Init => OneAccountPerGoogle
    BY DEF Init, OneAccountPerGoogle, HasGoogle, Exists
  <1> QED
    BY <1>1, LinksStayOK, AccountsInvariant, PTL DEF Spec

-----------------------------------------------------------------------------
(* The rights by which requests sign in                                    *)

(* The request q has linked its account, or has found it linked: Google    *)
(* has vouched for the address, though the account may by now have been    *)
(* linked to another Google account with the same address.                 *)
VouchedFor(q) ==
    /\ Exists(q.email)
    /\ users[q.email].googleId # None
    /\ <<q.googleId, q.email>> \in GoogleTokens

(* A right is there only to sign in, and has been earned.                  *)
RightOK(q) ==
    /\ q.right # "none" => q.pc \in {"signing", "storing"}
    /\ q.right = "registration" => Exists(q.email) /\ KnowsPassword(q)
    /\ q.right = "password" => Verified(q.email) /\ KnowsPassword(q)
    /\ q.right = "google" \/ q.pc = "linked" => VouchedFor(q)

RightsOK == \A r \in Requests : RightOK(req[r])

(* What has been mailed stays so, and accounts stay.                       *)
LEMMA MailLasts ==
    ASSUME AccountsInv, [Next]_vars
    PROVE  mail \subseteq mail'
  BY DEF Next, vars, SignInStep, TokenStep, GoogleStep, Fail, Tick, Logout,
     Register, Login, Refresh, CreateUser, Sign, UpdateRefreshTokenHash,
     VerifyEmail, ResetPassword, ResendVerification, ForgotPassword, Random,
     MarkVerified, StoreVerification, UpdatePasswordReset, UpdatePassword,
     LoginWithGoogle, FindGoogleEmail, LinkGoogle, VerifyLinked,
     CreateGoogleUser, Send

(* An account that has been linked stays linked.                           *)
LEMMA StaysLinked ==
    ASSUME AccountsInv, [Next]_vars,
           NEW e \in Emails, Exists(e), users[e].googleId # None
    PROVE  Exists(e)' /\ (users[e].googleId)' # None
  <1>1. PICK g \in GoogleIds : HasGoogle(e, g)
    BY DEF Users, HasGoogle, AccountsInv, TypeOK, Exists
  <1>2. CASE HasGoogle(e, g)'
    BY <1>2, AccountsAssumption DEF HasGoogle, Exists
  <1>3. CASE ~HasGoogle(e, g)'
    <2>1. PICK r \in Requests : LinkGoogle(r) /\ req[r].email = e
      BY <1>1, <1>3, RowsChangeByRight DEF RowChange, LinkChange
    <2>2. PICK h \in GoogleIds : req[r].googleId = h
      BY <2>1, Locals DEF LinkGoogle, RequestOK, GooglePoints
    <2>3. ~TakenElsewhere(e, h)
      BY <1>1, <1>3, <2>1, <2>2 DEF LinkGoogle, HasGoogle, Exists
    <2>4. PICK u : u = [users[e] EXCEPT !.googleId = h]
      OBVIOUS
    <2>5. u \in Users /\ u.googleId = h
      BY <2>4, Locals DEF Users
    <2>6. users' = [users EXCEPT ![e] = u]
      BY <2>1, <2>2, <2>3, <2>4 DEF LinkGoogle, Set
    <2> QED
      BY <2>5, <2>6, NoneIsNoRecord, AccountsAssumption
      DEF Exists, AccountsInv, TypeOK
  <1> QED
    BY <1>2, <1>3

(* What a request knows of the password stays true, or a reset has been    *)
(* mailed.                                                                 *)
LEMMA PasswordsLast ==
    ASSUME AccountsInv, [Next]_vars,
           NEW q \in Reqs, q.email \in Emails, Exists(q.email), Exists(q.email)',
           KnowsPassword(q)
    PROVE  KnowsPassword(q)'
  <1>1. mail \subseteq mail'
    BY MailLasts
  <1>2. CASE (users[q.email].password)' = users[q.email].password
    BY <1>1, <1>2 DEF KnowsPassword
  <1>3. CASE (users[q.email].password)' # users[q.email].password
    <2>1. PICK r \in Requests : Mailed(q.email, "reset", req[r].token)
      BY <1>3, RowsChangeByRight DEF RowChange
    <2> QED
      BY <1>1, <2>1 DEF Mailed, KnowsPassword
  <1> QED
    BY <1>2, <1>3

(* What a request has earned it keeps, whatever others do.                 *)
LEMMA RightsLast ==
    ASSUME AccountsInv, [Next]_vars,
           NEW q \in Reqs, q.email \in Emails, Exists(q.email), RightOK(q)
    PROVE  Exists(q.email)' /\ RightOK(q)'
  <1>1. Exists(q.email)'
    BY RowsChangeByRight DEF RowChange
  <1>2. KnowsPassword(q) => KnowsPassword(q)'
    BY <1>1, PasswordsLast
  <1>3. Verified(q.email) => Verified(q.email)'
    BY RowsChangeByRight DEF RowChange
  <1>4. VouchedFor(q) => VouchedFor(q)'
    BY StaysLinked DEF VouchedFor
  <1> QED
    BY <1>1, <1>2, <1>3, <1>4 DEF RightOK

(* A request gets a right, or goes on with one, only by a few steps.       *)
LEMMA WhoHasRights ==
    ASSUME AccountsInv, RightsOK, [Next]_vars, NEW s \in Requests
    PROVE  \/ req'[s] = req[s]
           \/ req'[s].right = "none" /\ req'[s].pc # "linked"
           \/ req'[s].right = "refresh" /\ req'[s].pc = "signing"
           \/ \E e \in Emails, p \in Passwords : Login(s, e, p)
           \/ \E g \in GoogleIds, e \in Emails : LoginWithGoogle(s, g, e)
           \/ CreateUser(s) \/ Sign(s)
           \/ LinkGoogle(s) \/ VerifyLinked(s) \/ CreateGoogleUser(s)
  <1>1. ASSUME NEW r \in Requests, r # s,
               SignInStep(r) \/ TokenStep(r) \/ GoogleStep(r) \/ Fail(r)
        PROVE  req'[s] = req[s]
    BY <1>1 DEF SignInStep, TokenStep, GoogleStep, Fail, Register, Login, Refresh,
       CreateUser, Sign, UpdateRefreshTokenHash, VerifyEmail, ResetPassword,
       ResendVerification, ForgotPassword, Random, MarkVerified, StoreVerification,
       UpdatePasswordReset, UpdatePassword, LoginWithGoogle, FindGoogleEmail,
       LinkGoogle, VerifyLinked, CreateGoogleUser, Go, End, AccountsInv, TypeOK
  <1>2. CASE SignInStep(s)
    <2>1. CASE UpdateRefreshTokenHash(s)
      BY <2>1 DEF UpdateRefreshTokenHash, End, Idle, AccountsInv, TypeOK
    <2>2. ASSUME NEW e \in Emails, NEW p \in Passwords, Register(s, e, p)
          PROVE  req'[s].right = "none" /\ req'[s].pc # "linked"
      BY <2>2 DEF Register, Idle, AccountsInv, TypeOK
    <2>3. ASSUME NEW e \in Emails, NEW t \in held[e], Refresh(s, e, t)
          PROVE  req'[s].right = "refresh" /\ req'[s].pc = "signing"
      BY <2>3 DEF Refresh, Idle, AccountsInv, TypeOK
    <2> QED
      BY <1>2, <2>1, <2>2, <2>3 DEF SignInStep
  <1>3. CASE TokenStep(s)
    <2>1. CASE \/ MarkVerified(s) \/ StoreVerification(s)
               \/ UpdatePasswordReset(s) \/ UpdatePassword(s)
      BY <2>1 DEF MarkVerified, StoreVerification, UpdatePasswordReset,
                  UpdatePassword, End, Idle, AccountsInv, TypeOK
    <2>2. ASSUME NEW e \in Emails, ResendVerification(s, e) \/ ForgotPassword(s, e)
          PROVE  req'[s].right = "none" /\ req'[s].pc # "linked"
      BY <2>2 DEF ResendVerification, ForgotPassword, Random, Idle, AccountsInv, TypeOK
    <2>3. ASSUME NEW m \in mail,
                 VerifyEmail(s, m) \/ \E p \in Passwords : ResetPassword(s, m, p)
          PROVE  req'[s].right = "none" /\ req'[s].pc # "linked"
      BY <2>3 DEF VerifyEmail, ResetPassword, Idle, AccountsInv, TypeOK
    <2> QED
      BY <1>3, <2>1, <2>2, <2>3 DEF TokenStep
  <1>4. CASE FindGoogleEmail(s)
    <2>1. req[s] \in Reqs /\ req[s].right = "none"
      BY <1>4 DEF FindGoogleEmail, RightsOK, RightOK, AccountsInv, TypeOK, Reqs
    <2> QED
      BY <1>4, <2>1 DEF FindGoogleEmail, Go, Reqs, AccountsInv, TypeOK
  <1>5. CASE Fail(s)
    BY <1>5 DEF Fail, End, Idle, AccountsInv, TypeOK
  <1>6. CASE Tick \/ UNCHANGED vars \/ \E e \in Emails : Logout(e)
    BY <1>6 DEF Tick, vars, Logout
  <1> QED
    BY <1>1, <1>2, <1>3, <1>4, <1>5, <1>6 DEF Next, GoogleStep

(* A step keeps the rights of every request right.                         *)
LEMMA RightsStayOK ==
    ASSUME AccountsInv, OneAccountPerGoogle, RightsOK, [Next]_vars, NEW s \in Requests
    PROVE  RightOK(req[s])'
  <1>1. PICK q \in Reqs : q = req[s]
    BY Locals
  <1>2. RequestOK(q) /\ RightOK(q)
    BY <1>1, Locals DEF RightsOK
  <1>3. q.pc \in Known =>
          q.email \in Emails /\ Exists(q.email) /\ Exists(q.email)' /\ RightOK(q)'
    BY <1>2, RightsLast DEF RequestOK, Known
  <1>4. CASE req'[s] = req[s]
    <2>1. CASE q.pc \in Known
      BY <1>1, <1>3, <1>4, <2>1
    <2>2. CASE q.pc \notin Known
      BY <1>1, <1>2, <1>4, <2>2 DEF RightOK, Known
    <2> QED
      BY <2>1, <2>2
  <1>5. CASE \/ req'[s].right = "none" /\ req'[s].pc # "linked"
             \/ req'[s].right = "refresh" /\ req'[s].pc = "signing"
    BY <1>5 DEF RightOK
  <1>6. ASSUME NEW e \in Emails, NEW p \in Passwords, Login(s, e, p)
        PROVE  RightOK(req[s])'
    <2>1. /\ req'[s].pc = "signing" /\ req'[s].right = "password"
          /\ req'[s].email = e /\ req'[s].password = p
      BY <1>6 DEF Login, Idle, AccountsInv, TypeOK
    <2>2. users' = users /\ Exists(e) /\ users[e].password = p /\ users[e].verified
      BY <1>6 DEF Login
    <2> QED
      BY <2>1, <2>2 DEF RightOK, KnowsPassword, Verified, Exists
  <1>7. CASE CreateUser(s)
    <2>1. PICK e \in Emails, t \in Tokens, p \in Passwords :
            q.email = e /\ q.token = t /\ q.password = p
      BY <1>1, <1>2, <1>7 DEF CreateUser, RequestOK
    <2>2. CASE Exists(e)
      <3>1. req'[s] = Idle
        BY <1>1, <1>7, <2>1, <2>2 DEF CreateUser, End, AccountsInv, TypeOK
      <3> QED
        BY <1>5, <3>1 DEF Idle
    <2>3. CASE ~Exists(e)
      <3>1. PICK u : u = [NoUser EXCEPT !.password = p, !.verification = t]
        OBVIOUS
      <3>2. u \in Users /\ u.password = p /\ users' = [users EXCEPT ![e] = u]
        BY <1>1, <1>7, <2>1, <2>3, <3>1 DEF CreateUser, Set, Users, NoUser
      <3>3. /\ req'[s].pc = "signing" /\ req'[s].right = "registration"
            /\ req'[s].email = e /\ req'[s].password = p
        BY <1>1, <1>7, <2>1, <2>3 DEF CreateUser, Reqs, AccountsInv, TypeOK
      <3>4. users'[e] = u /\ u # None
        BY <3>2, NoneIsNoRecord DEF AccountsInv, TypeOK
      <3> QED
        BY <3>2, <3>3, <3>4 DEF RightOK, KnowsPassword, Exists
    <2> QED
      BY <2>2, <2>3
  <1>8. CASE Sign(s)
    <2>1. q.pc = "signing" /\ RightOK(q)'
      BY <1>1, <1>3, <1>8 DEF Sign, Known
    <2>2. /\ req'[s].pc = "storing" /\ req'[s].right = q.right
          /\ req'[s].email = q.email /\ req'[s].password = q.password
          /\ req'[s].googleId = q.googleId
      BY <1>1, <1>8 DEF Sign, Reqs, AccountsInv, TypeOK
    <2> QED
      BY <2>1, <2>2 DEF RightOK, KnowsPassword, VouchedFor, Verified, Exists
  <1>9. ASSUME NEW e \in Emails, NEW g \in GoogleIds,
               <<g, e>> \in GoogleTokens, HasGoogle(e, g)',
               req'[s].email = e, req'[s].googleId = g,
               \/ req'[s].right = "google" /\ req'[s].pc = "signing"
               \/ req'[s].right = "none" /\ req'[s].pc = "linked"
        PROVE  RightOK(req[s])'
    BY <1>9, AccountsAssumption DEF RightOK, VouchedFor, HasGoogle, Exists
  <1>10. ASSUME NEW g \in GoogleIds, NEW f \in Emails, LoginWithGoogle(s, g, f)
         PROVE  RightOK(req[s])'
    <2>1. CASE \E o \in Emails : HasGoogle(o, g)
      <3>1. PICK o \in Emails :
              /\ HasGoogle(o, g)
              /\ req' = [req EXCEPT ![s] = [Idle EXCEPT !.pc = "signing",
                             !.email = o, !.googleId = g, !.right = "google"]]
        BY <1>10, <2>1 DEF LoginWithGoogle
      <3>2. HasGoogle(o, g)' /\ <<g, o>> \in GoogleTokens
        BY <1>10, <3>1 DEF OneAccountPerGoogle, LoginWithGoogle, HasGoogle, Exists
      <3>3. /\ req'[s].pc = "signing" /\ req'[s].email = o
            /\ req'[s].googleId = g /\ req'[s].right = "google"
        BY <3>1 DEF Idle, AccountsInv, TypeOK
      <3> QED
        BY <1>9, <3>2, <3>3
    <2>2. CASE ~\E o \in Emails : HasGoogle(o, g)
      <3>1. req'[s].pc = "googling" /\ req'[s].right = "none"
        BY <1>10, <2>2 DEF LoginWithGoogle, Idle, AccountsInv, TypeOK
      <3> QED
        BY <1>5, <3>1
    <2> QED
      BY <2>1, <2>2
  <1>11. CASE LinkGoogle(s)
    <2>1. PICK e \in Emails, g \in GoogleIds :
            /\ q.email = e /\ q.googleId = g /\ <<g, e>> \in GoogleTokens
            /\ Exists(e) /\ q.right = "none"
      BY <1>1, <1>2, <1>11 DEF LinkGoogle, RequestOK, GooglePoints, Known, RightOK, Reqs
    <2>2. CASE TakenElsewhere(e, g)
      <3>1. req'[s] = Idle
        BY <1>1, <1>11, <2>1, <2>2 DEF LinkGoogle, End, AccountsInv, TypeOK
      <3> QED
        BY <1>5, <3>1 DEF Idle
    <2>3. CASE ~TakenElsewhere(e, g)
      <3>1. PICK u : u = [users[e] EXCEPT !.googleId = g]
        OBVIOUS
      <3>2. u \in Users /\ u.googleId = g
        BY <2>1, <3>1, Locals DEF Users
      <3>3. users' = [users EXCEPT ![e] = u]
        BY <1>1, <1>11, <2>1, <2>3, <3>1 DEF LinkGoogle, Set
      <3>4. HasGoogle(e, g)'
        BY <3>2, <3>3, NoneIsNoRecord DEF HasGoogle, Exists, AccountsInv, TypeOK
      <3>5. /\ req'[s].email = e /\ req'[s].googleId = g
            /\ req'[s].right = "none" /\ req'[s].pc = "linked"
        BY <1>1, <1>11, <2>1, <2>3 DEF LinkGoogle, Go, Reqs, AccountsInv, TypeOK
      <3> QED
        BY <1>9, <2>1, <3>4, <3>5
    <2> QED
      BY <2>2, <2>3
  <1>12. CASE VerifyLinked(s)
    <2>1. q.pc = "linked" /\ RightOK(q)'
      BY <1>1, <1>3, <1>12 DEF VerifyLinked, Known
    <2>2. /\ req'[s].pc = "signing" /\ req'[s].right = "google"
          /\ req'[s].email = q.email /\ req'[s].googleId = q.googleId
      BY <1>1, <1>12 DEF VerifyLinked, Reqs, AccountsInv, TypeOK
    <2> QED
      BY <2>1, <2>2 DEF RightOK, VouchedFor, Exists
  <1>13. CASE CreateGoogleUser(s)
    <2>1. PICK e \in Emails, g \in GoogleIds :
            q.email = e /\ q.googleId = g /\ <<g, e>> \in GoogleTokens
      BY <1>1, <1>2, <1>13 DEF CreateGoogleUser, RequestOK, GooglePoints
    <2>2. CASE Exists(e) \/ TakenElsewhere(e, g)
      <3>1. req'[s] = Idle
        BY <1>1, <1>13, <2>1, <2>2 DEF CreateGoogleUser, End, AccountsInv, TypeOK
      <3> QED
        BY <1>5, <3>1 DEF Idle
    <2>3. CASE ~(Exists(e) \/ TakenElsewhere(e, g))
      <3>1. PICK u : u = [NoUser EXCEPT !.googleId = g, !.verified = TRUE]
        OBVIOUS
      <3>2. u \in Users /\ u.googleId = g /\ users' = [users EXCEPT ![e] = u]
        BY <1>1, <1>13, <2>1, <2>3, <3>1 DEF CreateGoogleUser, Set, Users, NoUser
      <3>3. HasGoogle(e, g)'
        BY <3>2, NoneIsNoRecord DEF HasGoogle, Exists, AccountsInv, TypeOK
      <3>4. /\ req'[s].email = e /\ req'[s].googleId = g
            /\ req'[s].pc = "signing" /\ req'[s].right = "google"
        BY <1>1, <1>13, <2>1, <2>3 DEF CreateGoogleUser, Reqs, AccountsInv, TypeOK
      <3> QED
        BY <1>9, <2>1, <3>3, <3>4
    <2> QED
      BY <2>2, <2>3
  <1> QED
    BY <1>4, <1>5, <1>6, <1>7, <1>8, <1>10, <1>11, <1>12, <1>13, WhoHasRights

(* Every reachable state has only rights that were earned.                 *)
LEMMA RightsInvariant == Spec => [](OneAccountPerGoogle /\ RightsOK)
  <1>1. Init => RightsOK
    BY DEF Init, RightsOK, RightOK, Idle
  <1>2. AccountsInv /\ OneAccountPerGoogle /\ RightsOK /\ [Next]_vars => RightsOK'
    BY RightsStayOK DEF RightsOK
  <1> QED
    BY <1>1, <1>2, GoogleAccountsAreUnique, AccountsInvariant, PTL DEF Spec

(* Nobody signs in to an account he has not earned: not the loser of a     *)
(* registration race, not a Google login that an account or a link         *)
(* appears under (register, login, loginWithGoogle).                       *)
THEOREM EverySignInIsEarned == Spec => []SignInsAreEarned
  <1>1. RightsOK => SignInsAreEarned
    BY DEF RightsOK, RightOK, VouchedFor, SignInsAreEarned
  <1> QED
    BY <1>1, RightsInvariant, PTL

-----------------------------------------------------------------------------
(* Identities                                                              *)

(* What the row of an existing account says of whose it is.                *)
LEMMA AccountAt ==
    ASSUME AccountsInv, NEW e \in Emails
    PROVE  /\ Exists(e) <=> Account[e] # None
           /\ Exists(e) => /\ Account[e] = I!Opened(users[e].password,
                                                    users[e].googleId,
                                                    users[e].verified)
                           /\ Account[e].googleId = users[e].googleId
  <1>1. CASE Exists(e)
    <2>1. users[e] \in Users
      BY <1>1 DEF AccountsInv, TypeOK, Exists
    <2>2. Account[e] = I!Opened(users[e].password, users[e].googleId, users[e].verified)
      BY <1>1 DEF Account, I!Opened
    <2>3. Account[e] \in Owners
      BY <2>1, <2>2 DEF Owners, Users, I!Opened
    <2>4. Account[e].googleId = users[e].googleId
      BY <2>2 DEF I!Opened
    <2> QED
      BY <1>1, <2>2, <2>3, <2>4, NoneIsNoRecord
  <1>2. CASE ~Exists(e)
    BY <1>2 DEF Account
  <1> QED
    BY <1>1, <1>2

(* A written row is a written account.                                     *)
LEMMA RowMaps ==
    ASSUME AccountsInv, NEW e \in Emails, NEW u \in Users,
           users' = [users EXCEPT ![e] = u]
    PROVE  Account' = [Account EXCEPT ![e] =
                         I!Opened(u.password, u.googleId, u.verified)]
  <1>1. /\ users'[e] = u /\ u # None
        /\ \A o \in Emails \ {e} : users'[o] = users[o]
    BY NoneIsNoRecord DEF AccountsInv, TypeOK
  <1>2. \A o \in Emails \ {e} : Account'[o] = Account[o]
    BY <1>1 DEF Account, Exists
  <1>3. Account'[e] = I!Opened(u.password, u.googleId, u.verified)
    BY <1>1 DEF Account, Exists, I!Opened
  <1> QED
    BY <1>2, <1>3 DEF Account

(* Other columns are not seen.                                             *)
LEMMA RowUnseen ==
    ASSUME AccountsInv, NEW e \in Emails, Exists(e), NEW u \in Users,
           users' = [users EXCEPT ![e] = u],
           u.password = users[e].password,
           u.googleId = users[e].googleId,
           u.verified = users[e].verified
    PROVE  UNCHANGED Account
  <1>1. Account' = [Account EXCEPT ![e] =
                      I!Opened(u.password, u.googleId, u.verified)]
    BY RowMaps
  <1>2. Account[e] = I!Opened(u.password, u.googleId, u.verified)
    BY AccountAt
  <1> QED
    BY <1>1, <1>2 DEF Account

(* One column written, the others as they were.                            *)
LEMMA PasswordOnly ==
    ASSUME NEW p, NEW g, NEW v, NEW new
    PROVE  [I!Opened(p, g, v) EXCEPT !.password = new] = I!Opened(new, g, v)
  BY DEF I!Opened

(* Likewise for the Google account.                                        *)
LEMMA GoogleIdOnly ==
    ASSUME NEW p, NEW g, NEW v, NEW new
    PROVE  [I!Opened(p, g, v) EXCEPT !.googleId = new] = I!Opened(p, new, v)
  BY DEF I!Opened

(* Likewise for the verification.                                          *)
LEMMA VerifiedOnly ==
    ASSUME NEW p, NEW g, NEW v, NEW new
    PROVE  [I!Opened(p, g, v) EXCEPT !.verified = new] = I!Opened(p, g, new)
  BY DEF I!Opened

(* A mail is a letter.                                                     *)
LEMMA SendMaps ==
    ASSUME NEW e, NEW kind, NEW t, Send(e, kind, t)
    PROVE  Letters' = Letters \cup {<<e, kind>>}
  <1>1. PICK m : m = [to |-> e, kind |-> kind, id |-> t.id]
    OBVIOUS
  <1>2. mail' = mail \cup {m} /\ m.to = e /\ m.kind = kind
    BY <1>1 DEF Send
  <1> QED
    BY <1>2 DEF Letters

(* The insert that ends a registration.                                    *)
LEMMA RegistrationRefines ==
    ASSUME AccountsInv, NEW r \in Requests, CreateUser(r)
    PROVE  [I!INext]_<<Account, Letters>>
  <1>1. PICK e \in Emails, t \in Tokens, p \in Passwords :
          req[r].email = e /\ req[r].token = t /\ req[r].password = p
    BY Locals DEF CreateUser, RequestOK
  <1>2. CASE Exists(e)
    BY <1>1, <1>2 DEF CreateUser, Account, Letters, Exists
  <1>3. CASE ~Exists(e)
    <2>1. PICK u : u = [NoUser EXCEPT !.password = p, !.verification = t]
      OBVIOUS
    <2>2. /\ u \in Users
          /\ u.password = p /\ u.googleId = None /\ u.verified = FALSE
      BY <2>1 DEF NoUser, Users
    <2>3. users' = [users EXCEPT ![e] = u] /\ Send(e, "verification", t)
      BY <1>1, <1>3, <2>1 DEF CreateUser, Set
    <2>4. Account' = [Account EXCEPT ![e] = I!Opened(p, None, FALSE)]
      BY <2>2, <2>3, RowMaps
    <2>5. I!Register(e, p)
      BY <1>3, <2>3, <2>4, SendMaps, AccountAt DEF I!Register, I!Write
    <2> QED
      BY <2>5 DEF I!INext
  <1> QED
    BY <1>2, <1>3

(* The writes of sessions are not seen.                                    *)
LEMMA SessionUnseen ==
    ASSUME AccountsInv, NEW e \in Emails, Exists(e), NEW s \in Nat \cup {None},
           Set(e, [users[e] EXCEPT !.session = s]), UNCHANGED mail
    PROVE  UNCHANGED <<Account, Letters>>
  <1>1. PICK u : u = [users[e] EXCEPT !.session = s]
    OBVIOUS
  <1>2. users[e] \in Users
    BY DEF AccountsInv, TypeOK, Exists
  <1>3. /\ u \in Users /\ users' = [users EXCEPT ![e] = u]
        /\ u.password = users[e].password
        /\ u.googleId = users[e].googleId
        /\ u.verified = users[e].verified
    BY <1>1, <1>2 DEF Users, Set
  <1> QED
    BY <1>3, RowUnseen DEF Letters

(* The updates that store a fresh token and send it.                       *)
LEMMA RemindersRefine ==
    ASSUME AccountsInv, NEW r \in Requests,
           StoreVerification(r) \/ UpdatePasswordReset(r)
    PROVE  I!INext
  <1>1. PICK e \in Emails, t \in Tokens :
          /\ req[r].email = e /\ req[r].token = t
          /\ Exists(e) /\ users[e] \in Users
    BY Locals DEF StoreVerification, UpdatePasswordReset, RequestOK, Known
  <1>2. PICK u : /\ u = [users[e] EXCEPT !.verification = t]
                    \/ u = [users[e] EXCEPT !.reset = t]
                 /\ users' = [users EXCEPT ![e] = u]
    BY <1>1 DEF StoreVerification, UpdatePasswordReset, Set
  <1>3. /\ u \in Users /\ u.password = users[e].password
        /\ u.verified = users[e].verified /\ u.googleId = users[e].googleId
    BY <1>1, <1>2 DEF Users
  <1>4. PICK kind \in {"verification", "reset"} : Send(e, kind, t)
    BY <1>1 DEF StoreVerification, UpdatePasswordReset
  <1>5. I!Remind(e, kind)
    BY <1>1, <1>2, <1>3, <1>4, RowUnseen, SendMaps, AccountAt DEF I!Remind, I!Write
  <1> QED
    BY <1>5 DEF I!INext

(* A verification by a mailed token, or after a link.                      *)
LEMMA VerificationRefines ==
    ASSUME AccountsInv, RightsOK, NEW r \in Requests,
           MarkVerified(r) \/ VerifyLinked(r)
    PROVE  I!INext
  <1>1. PICK e \in Emails : req[r].email = e /\ Exists(e) /\ users[e] \in Users
    BY Locals DEF MarkVerified, VerifyLinked, RequestOK, Known
  <1>2. PICK u : u = [users[e] EXCEPT !.verified = TRUE, !.verification = None]
    OBVIOUS
  <1>3. /\ u \in Users /\ users' = [users EXCEPT ![e] = u]
        /\ u.password = users[e].password /\ u.googleId = users[e].googleId
        /\ u.verified = TRUE
    BY <1>1, <1>2 DEF Users, MarkVerified, VerifyLinked, Set
  <1>4. Account' = [Account EXCEPT ![e].verified = TRUE]
    <2>1. Account' = [Account EXCEPT ![e] =
                        I!Opened(users[e].password, users[e].googleId, TRUE)]
      BY <1>3, RowMaps
    <2>2. Account[e] = I!Opened(users[e].password, users[e].googleId,
                                users[e].verified)
      BY <1>1, AccountAt
    <2>3. [Account[e] EXCEPT !.verified = TRUE]
            = I!Opened(users[e].password, users[e].googleId, TRUE)
      <3>1. \A new : [Account[e] EXCEPT !.verified = new]
                       = I!Opened(users[e].password, users[e].googleId, new)
        BY <2>2, VerifiedOnly
      <3> QED
        BY <3>1
    <2> QED
      BY <2>1, <2>3
  <1>5. <<e, "verification">> \in Letters \/ Account[e].googleId # None
    <2>1. CASE MarkVerified(r)
      <3>1. Mailed(e, "verification", req[r].token)
        BY <1>1, <2>1, Locals DEF MarkVerified, RequestOK
      <3> QED
        BY <3>1 DEF Mailed, Letters
    <2>2. CASE VerifyLinked(r)
      BY <1>1, <2>2, AccountAt DEF VerifyLinked, RightsOK, RightOK, VouchedFor
    <2> QED
      BY <2>1, <2>2
  <1>6. UNCHANGED Letters
    BY DEF MarkVerified, VerifyLinked, Letters
  <1>7. I!Verify(e)
    BY <1>1, <1>4, <1>5, <1>6, AccountAt DEF I!Verify
  <1> QED
    BY <1>7 DEF I!INext

(* A reset by a mailed token.                                              *)
LEMMA ResetRefines ==
    ASSUME AccountsInv, NEW r \in Requests, UpdatePassword(r)
    PROVE  I!INext
  <1>1. PICK e \in Emails, p \in Passwords :
          /\ req[r].email = e /\ req[r].password = p
          /\ Exists(e) /\ users[e] \in Users
          /\ Mailed(e, "reset", req[r].token)
    BY Locals DEF UpdatePassword, RequestOK, Known
  <1>2. PICK u : u = [users[e] EXCEPT !.password = p, !.session = None, !.reset = None]
    OBVIOUS
  <1>3. /\ u \in Users /\ users' = [users EXCEPT ![e] = u]
        /\ u.password = p /\ u.googleId = users[e].googleId
        /\ u.verified = users[e].verified
    BY <1>1, <1>2 DEF Users, UpdatePassword, Set
  <1>4. Account' = [Account EXCEPT ![e].password = p]
    <2>1. Account' = [Account EXCEPT ![e] =
                        I!Opened(p, users[e].googleId, users[e].verified)]
      <3>1. I!Opened(u.password, u.googleId, u.verified)
              = I!Opened(p, users[e].googleId, users[e].verified)
        BY <1>3, Zenon
      <3>2. Account' = [Account EXCEPT ![e] =
                          I!Opened(u.password, u.googleId, u.verified)]
        BY <1>3, RowMaps
      <3> QED
        BY <3>1, <3>2
    <2>2. Account[e] = I!Opened(users[e].password, users[e].googleId,
                                users[e].verified)
      BY <1>1, AccountAt
    <2>3. [Account[e] EXCEPT !.password = p]
            = I!Opened(p, users[e].googleId, users[e].verified)
      BY <2>2, PasswordOnly
    <2> QED
      BY <2>1, <2>3
  <1>5. <<e, "reset">> \in Letters
    BY <1>1 DEF Mailed, Letters
  <1>6. UNCHANGED Letters
    BY DEF UpdatePassword, Letters
  <1>7. I!ResetPassword(e, p)
    BY <1>1, <1>4, <1>5, <1>6, AccountAt DEF I!ResetPassword
  <1> QED
    BY <1>7 DEF I!INext

(* The unique constraint on googleId is what makes Google's word good.     *)
LEMMA NotTakenIsVouched ==
    ASSUME AccountsInv, NEW e \in Emails, NEW g \in GoogleIds,
           <<g, e>> \in GoogleTokens, ~TakenElsewhere(e, g)
    PROVE  I!Vouched(e, g)
  <1>1. ASSUME NEW o \in Emails \ {e}, Account[o] # None
        PROVE  Account[o].googleId # g
    BY <1>1, AccountAt DEF TakenElsewhere, HasGoogle
  <1> QED
    BY <1>1 DEF I!Vouched

(* The writes of a Google login.                                           *)
LEMMA GoogleRefines ==
    ASSUME AccountsInv, NEW r \in Requests, LinkGoogle(r) \/ CreateGoogleUser(r)
    PROVE  [I!INext]_<<Account, Letters>>
  <1>1. PICK e \in Emails, g \in GoogleIds :
          req[r].email = e /\ req[r].googleId = g /\ <<g, e>> \in GoogleTokens
    BY Locals DEF LinkGoogle, CreateGoogleUser, RequestOK, GooglePoints
  <1>2. UNCHANGED Letters
    BY DEF LinkGoogle, CreateGoogleUser, Letters
  <1>3. CASE UNCHANGED users
    BY <1>2, <1>3 DEF Account, Exists
  <1>4. CASE LinkGoogle(r) /\ users' # users
    <2>1. Exists(e) /\ users[e] \in Users
      BY <1>1, <1>4, Locals DEF LinkGoogle, RequestOK, Known
    <2>2. PICK u : u = [users[e] EXCEPT !.googleId = g]
      OBVIOUS
    <2>3. /\ u \in Users /\ users' = [users EXCEPT ![e] = u]
          /\ u.password = users[e].password /\ u.googleId = g
          /\ u.verified = users[e].verified
          /\ ~TakenElsewhere(e, g)
      BY <1>1, <1>4, <2>1, <2>2 DEF Users, LinkGoogle, Set
    <2>4. Account' = [Account EXCEPT ![e].googleId = g]
      <3>1. Account' = [Account EXCEPT ![e] =
                          I!Opened(users[e].password, g, users[e].verified)]
        <4>1. I!Opened(u.password, u.googleId, u.verified)
                = I!Opened(users[e].password, g, users[e].verified)
          BY <2>3, Zenon
        <4>2. Account' = [Account EXCEPT ![e] =
                            I!Opened(u.password, u.googleId, u.verified)]
          BY <2>3, RowMaps
        <4> QED
          BY <4>1, <4>2
      <3>2. Account[e] = I!Opened(users[e].password, users[e].googleId,
                                  users[e].verified)
        BY <2>1, AccountAt
      <3>3. [Account[e] EXCEPT !.googleId = g]
              = I!Opened(users[e].password, g, users[e].verified)
        BY <3>2, GoogleIdOnly
      <3> QED
        BY <3>1, <3>3
    <2>5. I!Link(e, g)
      BY <1>1, <1>2, <2>1, <2>3, <2>4, NotTakenIsVouched, AccountAt DEF I!Link
    <2> QED
      BY <2>5 DEF I!INext
  <1>5. CASE CreateGoogleUser(r) /\ users' # users
    <2>1. ~Exists(e) /\ ~TakenElsewhere(e, g)
      BY <1>1, <1>5 DEF CreateGoogleUser
    <2>2. PICK u : u = [NoUser EXCEPT !.googleId = g, !.verified = TRUE]
      OBVIOUS
    <2>3. /\ u \in Users /\ users' = [users EXCEPT ![e] = u]
          /\ u.password = None /\ u.googleId = g /\ u.verified = TRUE
      BY <1>1, <1>5, <2>1, <2>2 DEF Users, NoUser, CreateGoogleUser, Set
    <2>4. Account' = [Account EXCEPT ![e] = I!Opened(None, g, TRUE)]
      BY <2>3, RowMaps
    <2>5. I!RegisterWithGoogle(e, g)
      BY <1>1, <1>2, <2>1, <2>4, NotTakenIsVouched, AccountAt
      DEF I!RegisterWithGoogle
    <2> QED
      BY <2>5 DEF I!INext
  <1> QED
    BY <1>3, <1>4, <1>5

(* Every step is one change of an account by right, or is not seen.        *)
LEMMA StepRefines ==
    ASSUME AccountsInv, RightsOK, [Next]_vars
    PROVE  [I!INext]_<<Account, Letters>>
  <1>1. ASSUME UNCHANGED <<users, mail>> PROVE UNCHANGED <<Account, Letters>>
    BY <1>1 DEF Account, Letters, Exists
  <1>2. ASSUME NEW r \in Requests, SignInStep(r)
        PROVE  [I!INext]_<<Account, Letters>>
    <2>1. CASE UpdateRefreshTokenHash(r)
      <3>1. /\ req[r].email \in Emails /\ Exists(req[r].email)
            /\ req[r].session \in Nat
        BY <2>1, Locals DEF UpdateRefreshTokenHash, RequestOK, Known
      <3> QED
        BY <2>1, <3>1, SessionUnseen DEF UpdateRefreshTokenHash
    <2> QED
      BY <1>1, <1>2, <2>1, RegistrationRefines
      DEF SignInStep, Register, Login, Refresh, Sign
  <1>3. ASSUME NEW r \in Requests, TokenStep(r)
        PROVE  [I!INext]_<<Account, Letters>>
    <2>1. \/ UNCHANGED <<users, mail>>
          \/ MarkVerified(r) \/ UpdatePassword(r)
          \/ StoreVerification(r) \/ UpdatePasswordReset(r)
      BY <1>3 DEF TokenStep, VerifyEmail, ResetPassword, ResendVerification,
                  ForgotPassword, Random
    <2> QED
      BY <1>1, <2>1, VerificationRefines, ResetRefines, RemindersRefine
  <1>4. ASSUME NEW r \in Requests, GoogleStep(r)
        PROVE  [I!INext]_<<Account, Letters>>
    <2>1. \/ UNCHANGED <<users, mail>>
          \/ LinkGoogle(r) \/ VerifyLinked(r) \/ CreateGoogleUser(r)
      BY <1>4 DEF GoogleStep, LoginWithGoogle, FindGoogleEmail
    <2> QED
      BY <1>1, <2>1, VerificationRefines, GoogleRefines
  <1>5. ASSUME NEW e \in Emails, Logout(e)
        PROVE  [I!INext]_<<Account, Letters>>
    BY <1>5, SessionUnseen DEF Logout
  <1>6. CASE Tick \/ UNCHANGED vars \/ \E r \in Requests : Fail(r)
    BY <1>1, <1>6 DEF Tick, vars, Fail
  <1> QED
    BY <1>2, <1>3, <1>4, <1>5, <1>6 DEF Next

(* Registrations, tokens, resets and Google logins, await by await,        *)
(* implement accounts that change hands never, and are changed one column  *)
(* at a time by whoever has proved the right to.                           *)
THEOREM AccountsImplementIdentities == Spec => ProvenIdentities
  <1>1. Init => I!IInit
    BY DEF Init, Account, Letters, Exists, I!IInit
  <1>2. AccountsInv /\ RightsOK /\ [Next]_vars => [I!INext]_<<Account, Letters>>
    BY StepRefines
  <1> QED
    BY <1>1, <1>2, RightsInvariant, AccountsInvariant, PTL
    DEF Spec, ProvenIdentities, I!ISpec, I!ivars
=============================================================================

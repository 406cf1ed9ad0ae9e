--------------------------- MODULE PaymentsProofs ---------------------------
(***************************************************************************)
(* Proofs about Payments: for any orders, requests, deliveries, intents    *)
(* and numbers of failures, client secrets belong to stored intents,       *)
(* confirmed orders are paid, acknowledged events have been applied, locks *)
(* are live, and the service implements PaymentLedger.                     *)
(*                                                                         *)
(* The argument: only the holder of an order's lock, who has read the      *)
(* order again, can write its intent when none is stored; so a stored      *)
(* intent never changes, every secret handed out is for it, only that      *)
(* intent can be paid for the order, and the webhook always finds it.      *)
(***************************************************************************)
EXTENDS Payments, TLAPS

(* What the program points of a request with locals q mean.                *)
RequestOK(q) ==
    LET o == q.order
    IN  /\ q.pc \notin {"idle"} \cup Final => o \in Orders
        /\ q.pc = "found" /\ q.pi # None => intentId[o] = q.pi
        /\ q.pc \in {"creating", "storing"} => intentId[o] = None
        /\ q.pc = "storing" => q.pi \in Intents /\ intents[q.pi].order = o
        /\ q.pc \in {"unlocking"} \cup Calling => q.pi \in Intents /\ intentId[o] = q.pi

RequestsOK == \A r \in Requests : RequestOK(req[r])

(* Whose intents are whose: by the order's row, by its idempotency key, by *)
(* the secret it takes to pay with one, and by the events about it.        *)
IntentsOK ==
    /\ \A o \in Orders : intentId[o] # None => intents[intentId[o]].order = o
    /\ \A o \in Orders : keyed[o] # None => intents[keyed[o]].order = o
    /\ \A i \in Intents :
         LET o == intents[i].order
         IN  /\ i \in Foreign => o = None
             /\ o # None => intents[i].amount = Total[o] /\ intents[i].state # "absent"
             /\ o # None /\ KeysLast => keyed[o] = i
             /\ o # None /\ intents[i].state \in {"processing", "succeeded"}
                  => i \in handed[o]

EventsOK ==
    \A e \in events :
        LET o == intents[e.intent].order
        IN  /\ intents[e.intent].state # "absent"
            /\ e.kind = "succeeded" => intents[e.intent].state = "succeeded"
            /\ e.kind # "canceled" /\ o # None => e.intent \in handed[o]

(* An event that has been processed belongs to an order and settled it.    *)
Settled(e) ==
    LET o == intents[e.intent].order
    IN  o \in Orders /\ intentId[o] = e.intent /\ status[o] # "PENDING"

WebhooksOK ==
    /\ acked \subseteq events
    /\ processed \subseteq events
    /\ \A e \in processed : Settled(e)
    /\ \A h \in Hooks : hook[h].pc # "idle" =>
         /\ hook[h].event \in events
         /\ hook[h].event.kind # "canceled"
         /\ hook[h].pc = "processing" => \E o \in Orders : Concerns(hook[h].event, o)
         /\ hook[h].pc = "acking" => hook[h].event \in processed

PaymentsInv ==
    /\ TypeOK
    /\ RequestsOK
    /\ LocksAreLive
    /\ IntentsOK
    /\ EventsOK
    /\ SecretsAreStored
    /\ WebhooksOK
    /\ ConfirmedIsPaid
    /\ AckedIsApplied

-----------------------------------------------------------------------------
(* A request that is over has nothing left to be right about.              *)
LEMMA EndedOK ==
    ASSUME NEW outcome \in Final
    PROVE  /\ Ended(outcome) \in Reqs
           /\ Ended(outcome).pc = outcome
           /\ Ended(outcome).order = None
           /\ RequestOK(Ended(outcome))
  BY DEF Ended, NewRequest, Reqs, Points, Final, Locked, Calling, RequestOK

(* The invariant holds initially.                                          *)
LEMMA InitPayments == Init => PaymentsInv
  <1> SUFFICES ASSUME Init PROVE PaymentsInv
    OBVIOUS
  <1>1. TypeOK
    <2>1. NewRequest \in Reqs
      BY DEF NewRequest, Reqs, Points
    <2>2. NoHook \in HookStates
      BY DEF NoHook, HookStates
    <2>3. intents \in [Intents -> Intent]
      BY PaymentsAssumption DEF Init, Intent, IntentStates
    <2> QED
      BY <2>1, <2>2, <2>3, PaymentsAssumption DEF Init, TypeOK, Statuses
  <1>2. RequestsOK
    BY DEF Init, RequestsOK, RequestOK, NewRequest, Locked, Calling, Final
  <1>3. LocksAreLive
    BY DEF Init, LocksAreLive, NewRequest, Locked
  <1>4. IntentsOK
    BY DEF Init, IntentsOK
  <1>5. EventsOK /\ SecretsAreStored /\ WebhooksOK /\ ConfirmedIsPaid /\ AckedIsApplied
    BY DEF Init, EventsOK, SecretsAreStored, WebhooksOK, ConfirmedIsPaid,
           AckedIsApplied, NoHook
  <1> QED
    BY <1>1, <1>2, <1>3, <1>4, <1>5 DEF PaymentsInv

-----------------------------------------------------------------------------
(* A step that changes only the locals of one request keeps the invariant  *)
(* if its new locals are right.                                            *)
LEMMA LocalStep ==
    ASSUME PaymentsInv, NEW r \in Requests, NEW new \in Reqs, RequestOK(new),
           req' = [req EXCEPT ![r] = new],
           \A o \in Orders : locks[o] = r =>
               new.order = o /\ new.pc \in Locked \cup {"retrieving"},
           new.pc \in Locked => locks[new.order] = r,
           UNCHANGED <<dbVars, locks, hook, stripeVars, handed>>,
           faults' \in 0..MaxFaults
    PROVE  PaymentsInv'
  <1> USE DEF PaymentsInv, dbVars, stripeVars
  <1>1. TypeOK'
    BY DEF TypeOK
  <1>2. req'[r] = new /\ \A s \in Requests \ {r} : req'[s] = req[s]
    BY DEF TypeOK
  <1>3. RequestsOK'
    BY <1>2 DEF RequestsOK, RequestOK
  <1>4. LocksAreLive'
    BY <1>2 DEF LocksAreLive, RequestOK, HasLock
  <1>5. IntentsOK' /\ EventsOK' /\ SecretsAreStored'
    BY DEF IntentsOK, EventsOK, SecretsAreStored
  <1>6. WebhooksOK' /\ ConfirmedIsPaid' /\ AckedIsApplied'
    BY DEF WebhooksOK, Settled, Concerns, ConfirmedIsPaid, AckedIsApplied
  <1> QED
    BY <1>1, <1>3, <1>4, <1>5, <1>6

(* A request that is not at work under a lock holds none.                  *)
LEMMA NoLock ==
    ASSUME PaymentsInv, NEW r \in Requests, req[r].pc \notin Locked \cup {"retrieving"}
    PROVE  \A o \in Orders : locks[o] # r
  BY PaymentsAssumption DEF PaymentsInv, LocksAreLive, TypeOK

(* The steps of a request that change its locals only.                     *)
LEMMA FindOrderInv ==
    ASSUME PaymentsInv, NEW r \in Requests, NEW o \in Orders, FindOrder(r, o)
    PROVE  PaymentsInv'
  <1> DEFINE new == [NewRequest EXCEPT !.pc = "found", !.order = o,
                        !.pending = (status[o] = "PENDING"), !.pi = intentId[o]]
  <1>1. new \in Reqs /\ new.pc \notin Locked
    BY DEF PaymentsInv, TypeOK, NewRequest, Reqs, Points, Locked
  <1>2. RequestOK(new)
    BY DEF RequestOK, NewRequest, Locked, Calling, Final
  <1>3. \A x \in Orders : locks[x] # r
    BY NoLock DEF FindOrder, Locked
  <1> QED
    BY <1>1, <1>2, <1>3, LocalStep
    DEF FindOrder, OnlyRequest, PaymentsInv, TypeOK, dbVars, stripeVars

(* A rejected request is over.                                             *)
LEMMA RejectOrderInv ==
    ASSUME PaymentsInv, NEW r \in Requests, RejectOrder(r)
    PROVE  PaymentsInv'
  <1>1. /\ Ended("rejected") \in Reqs
        /\ RequestOK(Ended("rejected"))
        /\ Ended("rejected").pc \notin Locked
    BY EndedOK DEF Final, Locked
  <1>2. \A x \in Orders : locks[x] # r
    BY NoLock DEF RejectOrder, Locked
  <1> QED
    BY <1>1, <1>2, LocalStep
    DEF RejectOrder, OnlyRequest, PaymentsInv, TypeOK, dbVars, stripeVars

(* A request that read an intent goes by it: it was stored, and stays.     *)
LEMMA UseStoredIntentInv ==
    ASSUME PaymentsInv, NEW r \in Requests, UseStoredIntent(r)
    PROVE  PaymentsInv'
  <1> DEFINE new == [req[r] EXCEPT !.pc = "retrieving"]
  <1>1. req[r] \in Reqs /\ RequestOK(req[r]) /\ req[r].pc = "found" /\ req[r].pi # None
    BY DEF PaymentsInv, TypeOK, RequestsOK, UseStoredIntent
  <1>2. new \in Reqs /\ new.pc \notin Locked
    BY <1>1 DEF Reqs, Points, Calling, Locked
  <1>3. RequestOK(new)
    BY <1>1 DEF RequestOK, Reqs, Locked, Calling, Final
  <1>4. \A x \in Orders : locks[x] # r
    BY <1>1, NoLock DEF Locked
  <1> QED
    BY <1>2, <1>3, <1>4, LocalStep
    DEF UseStoredIntent, OnlyRequest, PaymentsInv, TypeOK, dbVars, stripeVars

(* A request that waits holds no lock and knows no intent.                 *)
LEMMA AwaitCreationInv ==
    ASSUME PaymentsInv, NEW r \in Requests, AwaitCreation(r)
    PROVE  PaymentsInv'
  <1> DEFINE new == [req[r] EXCEPT !.pc = "waiting", !.holder = locks[req[r].order]]
  <1>1. req[r] \in Reqs /\ RequestOK(req[r]) /\ req[r].pc = "found"
    BY DEF PaymentsInv, TypeOK, RequestsOK, AwaitCreation
  <1>2. req[r].order \in Orders
    BY <1>1 DEF RequestOK, Final
  <1>3. new \in Reqs /\ new.pc \notin Locked
    BY <1>1, <1>2 DEF Reqs, Points, Locked, PaymentsInv, TypeOK
  <1>4. RequestOK(new)
    BY <1>1, <1>2 DEF RequestOK, Reqs, Locked, Calling, Final
  <1>5. \A x \in Orders : locks[x] # r
    BY <1>1, NoLock DEF Locked
  <1> QED
    BY <1>3, <1>4, <1>5, LocalStep
    DEF AwaitCreation, OnlyRequest, PaymentsInv, TypeOK, dbVars, stripeVars

(* After the wait a request goes by what the second read found.            *)
LEMMA ReReadAfterWaitInv ==
    ASSUME PaymentsInv, NEW r \in Requests, ReReadAfterWait(r)
    PROVE  PaymentsInv'
  <1> DEFINE o == req[r].order
             found == [req[r] EXCEPT !.pc = "retrieving", !.pi = intentId[o],
                                     !.holder = None]
             new == IF intentId[o] = None THEN Ended("rejected") ELSE found
  <1>1. req[r] \in Reqs /\ RequestOK(req[r]) /\ req[r].pc = "waiting"
    BY DEF PaymentsInv, TypeOK, RequestsOK, ReReadAfterWait
  <1>2. o \in Orders
    BY <1>1 DEF RequestOK, Final
  <1>3. new \in Reqs /\ new.pc \notin Locked
    BY <1>1, <1>2, EndedOK DEF Reqs, Points, Calling, Final, Locked, PaymentsInv, TypeOK
  <1>4. RequestOK(new)
    <2>1. CASE intentId[o] = None
      BY <2>1, EndedOK DEF Final
    <2>2. CASE intentId[o] # None
      <3>1. intentId[o] \in Intents
        BY <1>2, <2>2 DEF PaymentsInv, TypeOK
      <3> QED
        BY <1>1, <1>2, <2>2, <3>1 DEF RequestOK, Reqs, Locked, Calling, Final
    <2> QED
      BY <2>1, <2>2
  <1>5. \A x \in Orders : locks[x] # r
    BY <1>1, NoLock DEF Locked
  <1> QED
    BY <1>3, <1>4, <1>5, LocalStep
    DEF ReReadAfterWait, OnlyRequest, PaymentsInv, TypeOK, dbVars, stripeVars

(* Under the lock, an order without an intent stays without one.           *)
LEMMA ReReadWithLockInv ==
    ASSUME PaymentsInv, NEW r \in Requests, ReReadWithLock(r)
    PROVE  PaymentsInv'
  <1> DEFINE o == req[r].order
             create == [req[r] EXCEPT !.pc = "creating"]
             found == [req[r] EXCEPT !.pc = "retrieving", !.pi = intentId[o]]
             new == IF intentId[o] = None THEN create ELSE found
  <1>1. req[r] \in Reqs /\ RequestOK(req[r]) /\ req[r].pc = "holding"
    BY DEF PaymentsInv, TypeOK, RequestsOK, ReReadWithLock
  <1>2. o \in Orders /\ locks[o] = r
    BY <1>1 DEF PaymentsInv, LocksAreLive, HasLock, RequestOK, Locked, Final
  <1>3. new \in Reqs /\ new.order = o /\ new.pc \in Locked \cup {"retrieving"}
    BY <1>1, <1>2 DEF Reqs, Points, Locked, Calling, PaymentsInv, TypeOK
  <1>4. RequestOK(new)
    <2>1. CASE intentId[o] = None
      BY <1>1, <1>2, <2>1 DEF RequestOK, Reqs, Locked, Calling, Final
    <2>2. CASE intentId[o] # None
      <3>1. intentId[o] \in Intents
        BY <1>2, <2>2 DEF PaymentsInv, TypeOK
      <3> QED
        BY <1>1, <1>2, <2>2, <3>1 DEF RequestOK, Reqs, Locked, Calling, Final
    <2> QED
      BY <2>1, <2>2
  <1>5. \A x \in Orders : locks[x] = r => x = o
    BY PaymentsAssumption DEF PaymentsInv, LocksAreLive
  <1> QED
    BY <1>2, <1>3, <1>4, <1>5, LocalStep
    DEF ReReadWithLock, OnlyRequest, PaymentsInv, TypeOK, dbVars, stripeVars

(* After the checks a request is over or goes by the stored intent.        *)
LEMMA CheckedOK ==
    ASSUME PaymentsInv, NEW r \in Requests, NEW usable \in BOOLEAN,
           req[r].order \in Orders, req[r].pi \in Intents,
           intentId[req[r].order] = req[r].pi
    PROVE  /\ Checked(r, usable) \in Reqs
           /\ RequestOK(Checked(r, usable))
           /\ Checked(r, usable).pc \notin Locked
  <1>1. req[r] \in Reqs
    BY DEF PaymentsInv, TypeOK
  <1>2. CASE ~usable
    BY <1>2, EndedOK DEF Checked, Final, Locked
  <1>3. CASE usable
    <2> DEFINE new == [req[r] EXCEPT !.pc = IF req[r].stored THEN "replying" ELSE "restoring",
                                     !.usable = usable]
    <2>1. Checked(r, usable) = new
      BY <1>3 DEF Checked
    <2>2. /\ new \in Reqs
          /\ new.pc \in {"replying", "restoring"}
          /\ new.order = req[r].order
          /\ new.pi = req[r].pi
      BY <1>1 DEF Reqs, Points, Calling
    <2> HIDE DEF new
    <2>3. RequestOK(new)
      BY <2>2 DEF RequestOK, Locked, Calling, Final
    <2> QED
      BY <2>1, <2>2, <2>3 DEF Locked
  <1> QED
    BY <1>2, <1>3

(* Stripe's answer ends the request or takes it on, with or without lock.  *)
LEMMA RetrieveIntentInv ==
    ASSUME PaymentsInv, NEW r \in Requests, RetrieveIntent(r)
    PROVE  PaymentsInv'
  <1> DEFINE o == req[r].order
             usable == intents[req[r].pi].state = "requires_payment_method"
             locked == [req[r] EXCEPT !.pc = "unlocking", !.usable = usable]
             new == IF HasLock(r) THEN locked ELSE Checked(r, usable)
  <1>1. req[r] \in Reqs /\ RequestOK(req[r]) /\ req[r].pc = "retrieving"
    BY DEF PaymentsInv, TypeOK, RequestsOK, RetrieveIntent
  <1>2. o \in Orders /\ req[r].pi \in Intents /\ intentId[o] = req[r].pi
    BY <1>1 DEF RequestOK, Calling, Final
  <1>3. \A x \in Orders : locks[x] = r => x = o
    BY PaymentsAssumption DEF PaymentsInv, LocksAreLive
  <1>4. CASE HasLock(r)
    <2>1. locked \in Reqs /\ locked.order = o /\ locked.pc \in Locked
      BY <1>1 DEF Reqs, Points, Locked
    <2>2. RequestOK(locked)
      BY <1>1, <1>2, <1>4 DEF RequestOK, HasLock, Reqs, Locked, Calling, Final
    <2>3. /\ req' = [req EXCEPT ![r] = locked]
          /\ UNCHANGED <<dbVars, locks, hook, stripeVars, handed, faults>>
          /\ faults \in 0..MaxFaults
      BY <1>4 DEF RetrieveIntent, OnlyRequest, PaymentsInv, TypeOK
    <2> HIDE DEF locked
    <2>4. locks[locked.order] = r
      BY <1>4, <2>1 DEF HasLock
    <2> QED
      BY <1>3, <2>1, <2>2, <2>3, <2>4, LocalStep
  <1>5. CASE ~HasLock(r)
    <2>1. /\ Checked(r, usable) \in Reqs
          /\ RequestOK(Checked(r, usable))
          /\ Checked(r, usable).pc \notin Locked
      BY <1>2, CheckedOK
    <2>2. \A x \in Orders : locks[x] # r
      BY <1>3, <1>5 DEF HasLock
    <2>3. req' = [req EXCEPT ![r] = Checked(r, usable)]
      BY <1>5 DEF RetrieveIntent, OnlyRequest
    <2> HIDE DEF usable
    <2> QED
      BY <2>1, <2>2, <2>3, LocalStep
      DEF RetrieveIntent, OnlyRequest, PaymentsInv, TypeOK, dbVars, stripeVars
  <1> QED
    BY <1>4, <1>5

(* A known key gives back the order's own intent.                          *)
LEMMA ReplayIntentInv ==
    ASSUME PaymentsInv, NEW r \in Requests, ReplayIntent(r)
    PROVE  PaymentsInv'
  <1> DEFINE o == req[r].order
             new == [req[r] EXCEPT !.pc = "storing", !.pi = keyed[o], !.usable = TRUE]
  <1>1. req[r] \in Reqs /\ RequestOK(req[r]) /\ req[r].pc = "creating" /\ keyed[o] # None
    BY DEF PaymentsInv, TypeOK, RequestsOK, ReplayIntent
  <1>2. o \in Orders /\ locks[o] = r /\ intentId[o] = None
    BY <1>1 DEF PaymentsInv, LocksAreLive, HasLock, RequestOK, Locked, Final
  <1>3. keyed[o] \in Intents /\ intents[keyed[o]].order = o
    BY <1>1, <1>2 DEF PaymentsInv, TypeOK, IntentsOK
  <1>4. new \in Reqs /\ new.order = o /\ new.pc \in Locked
    BY <1>1, <1>3 DEF Reqs, Points, Locked
  <1>5. RequestOK(new)
    BY <1>1, <1>2, <1>3 DEF RequestOK, Reqs, Locked, Calling, Final
  <1>6. \A x \in Orders : locks[x] = r => x = o
    BY PaymentsAssumption DEF PaymentsInv, LocksAreLive
  <1> QED
    BY <1>2, <1>4, <1>5, <1>6, LocalStep
    DEF ReplayIntent, Obtained, OnlyRequest, PaymentsInv, TypeOK, dbVars, stripeVars

(* A failed call ends the request, or sends it to release its lock.        *)
LEMMA FailInv ==
    ASSUME PaymentsInv, NEW r \in Requests, Fail(r)
    PROVE  PaymentsInv'
  <1> DEFINE o == req[r].order
             unwinding == [req[r] EXCEPT !.pc = "unwinding"]
  <1>1. /\ req[r] \in Reqs
        /\ RequestOK(req[r])
        /\ req[r].pc \notin {"idle"} \cup Final
    BY DEF PaymentsInv, TypeOK, RequestsOK, Fail, Calling, Final
  <1>2. o \in Orders
    BY <1>1 DEF RequestOK
  <1>3. faults' \in 0..MaxFaults
    BY PaymentsAssumption DEF Fail, PaymentsInv, TypeOK
  <1>4. \A x \in Orders : locks[x] = r => x = o
    BY PaymentsAssumption DEF PaymentsInv, LocksAreLive
  <1>5. CASE HasLock(r)
    <2>1. unwinding \in Reqs /\ unwinding.order = o /\ unwinding.pc \in Locked
      BY <1>1 DEF Reqs, Points, Locked
    <2>2. RequestOK(unwinding)
      BY <1>1, <1>2, <1>5 DEF RequestOK, HasLock, Reqs, Locked, Calling, Final
    <2>3. req' = [req EXCEPT ![r] = unwinding]
      BY <1>5 DEF Fail
    <2> QED
      BY <1>3, <1>4, <1>5, <2>1, <2>2, <2>3, LocalStep DEF Fail, HasLock
  <1>6. CASE ~HasLock(r)
    <2>1. /\ Ended("failed") \in Reqs
          /\ RequestOK(Ended("failed"))
          /\ Ended("failed").pc \notin Locked
      BY EndedOK DEF Final, Locked
    <2>2. \A x \in Orders : locks[x] # r
      BY <1>4, <1>6 DEF HasLock
    <2>3. req' = [req EXCEPT ![r] = Ended("failed")]
      BY <1>6 DEF Fail
    <2> QED
      BY <1>3, <2>1, <2>2, <2>3, LocalStep DEF Fail
  <1> QED
    BY <1>5, <1>6

-----------------------------------------------------------------------------
(* The steps of a request that change what others see                      *)

(* A step that takes or frees one lock and changes the locals of the       *)
(* request that does so.                                                   *)
LEMMA LockStep ==
    ASSUME PaymentsInv, NEW r \in Requests, NEW new \in Reqs, RequestOK(new),
           NEW o \in Orders, NEW owner \in {r, None},
           locks[o] \in {r, None},
           \A x \in Orders : locks[x] = r => x = o,
           owner = r => new.order = o /\ new.pc \in Locked,
           new.pc \in Locked => owner = r,
           req' = [req EXCEPT ![r] = new],
           locks' = [locks EXCEPT ![o] = owner],
           UNCHANGED <<dbVars, hook, faults, stripeVars, handed>>
    PROVE  PaymentsInv'
  <1> USE DEF PaymentsInv, dbVars, stripeVars
  <1>1. /\ req'[r] = new
        /\ \A s \in Requests \ {r} : req'[s] = req[s]
        /\ locks'[o] = owner
        /\ \A x \in Orders \ {o} : locks'[x] = locks[x]
    BY DEF TypeOK
  <1>2. TypeOK'
    BY DEF TypeOK
  <1>3. RequestsOK'
    BY <1>1 DEF RequestsOK, RequestOK
  <1>4. LocksAreLive'
    <2>1. ASSUME NEW x \in Orders, locks'[x] # None
          PROVE  /\ req'[locks'[x]].order = x
                 /\ req'[locks'[x]].pc \in Locked \cup {"retrieving"}
      <3>1. CASE x = o
        BY <1>1, <2>1, <3>1
      <3>2. CASE x # o
        BY <1>1, <2>1, <3>2 DEF LocksAreLive, TypeOK
      <3> QED
        BY <3>1, <3>2
    <2>2. ASSUME NEW s \in Requests, req'[s].pc \in Locked
          PROVE  locks'[req'[s].order] = s
      <3>1. CASE s = r
        BY <1>1, <2>2, <3>1
      <3>2. CASE s # r
        <4>1. req[s].pc \in Locked /\ RequestOK(req[s]) /\ locks[req[s].order] = s
          BY <1>1, <2>2, <3>2 DEF LocksAreLive, HasLock, RequestsOK
        <4>2. req[s].order \in Orders
          BY <4>1 DEF RequestOK, Locked, Final
        <4>3. req[s].order # o
          BY <3>2, <4>1, PaymentsAssumption
        <4> QED
          BY <1>1, <3>2, <4>1, <4>2, <4>3
      <3> QED
        BY <3>1, <3>2
    <2> QED
      BY <2>1, <2>2 DEF LocksAreLive, HasLock
  <1>5. /\ IntentsOK' /\ EventsOK' /\ SecretsAreStored'
        /\ WebhooksOK' /\ ConfirmedIsPaid' /\ AckedIsApplied'
    BY DEF IntentsOK, EventsOK, SecretsAreStored, WebhooksOK, Settled,
           Concerns, ConfirmedIsPaid, AckedIsApplied
  <1> QED
    BY <1>2, <1>3, <1>4, <1>5

(* A free lock goes to one request.                                        *)
LEMMA TakeLockInv ==
    ASSUME PaymentsInv, NEW r \in Requests, TakeLock(r)
    PROVE  PaymentsInv'
  <1> DEFINE o == req[r].order
             new == [req[r] EXCEPT !.pc = "holding"]
  <1>1. req[r] \in Reqs /\ RequestOK(req[r]) /\ req[r].pc = "found" /\ locks[o] = None
    BY DEF PaymentsInv, TypeOK, RequestsOK, TakeLock
  <1>2. o \in Orders
    BY <1>1 DEF RequestOK, Final
  <1>3. new \in Reqs /\ new.order = o /\ new.pc \in Locked
    BY <1>1 DEF Reqs, Points, Locked
  <1>4. RequestOK(new)
    BY <1>1, <1>2 DEF RequestOK, Reqs, Calling, Final
  <1>5. \A x \in Orders : locks[x] # r
    BY <1>1, NoLock DEF Locked
  <1> HIDE DEF new
  <1>6. /\ req' = [req EXCEPT ![r] = new]
        /\ locks' = [locks EXCEPT ![o] = r]
        /\ UNCHANGED <<dbVars, hook, faults, stripeVars, handed>>
    BY DEF TakeLock, OnlyRequest, new
  <1> QED
    BY <1>1, <1>2, <1>3, <1>4, <1>5, <1>6, LockStep

(* The lock is given back before the checks, whatever their outcome.       *)
LEMMA UnlockInv ==
    ASSUME PaymentsInv, NEW r \in Requests, Unlock(r)
    PROVE  PaymentsInv'
  <1> DEFINE o == req[r].order
             new == IF req[r].pc = "unwinding" THEN Ended("failed")
                                               ELSE Checked(r, req[r].usable)
  <1>1. /\ req[r] \in Reqs
        /\ RequestOK(req[r])
        /\ req[r].pc \in {"unlocking", "unwinding"}
    BY DEF PaymentsInv, TypeOK, RequestsOK, Unlock
  <1>2. o \in Orders /\ locks[o] = r
    BY <1>1 DEF PaymentsInv, LocksAreLive, HasLock, RequestOK, Locked, Final
  <1>3. new \in Reqs /\ RequestOK(new) /\ new.pc \notin Locked
    <2>1. CASE req[r].pc = "unwinding"
      BY <2>1, EndedOK DEF Final, Locked
    <2>2. CASE req[r].pc = "unlocking"
      <3>1. req[r].usable \in BOOLEAN
        BY <1>1 DEF Reqs
      <3>2. req[r].pi \in Intents /\ intentId[o] = req[r].pi
        BY <1>1, <2>2 DEF RequestOK
      <3>3. Checked(r, req[r].usable) \in Reqs /\ RequestOK(Checked(r, req[r].usable))
        BY <1>2, <3>1, <3>2, CheckedOK
      <3>4. Checked(r, req[r].usable).pc \in {"rejected", "replying", "restoring"}
        BY <1>1, EndedOK DEF Checked, Final, Reqs
      <3> QED
        BY <2>2, <3>3, <3>4 DEF Locked
    <2> QED
      BY <1>1, <2>1, <2>2
  <1>4. \A x \in Orders : locks[x] = r => x = o
    BY PaymentsAssumption DEF PaymentsInv, LocksAreLive
  <1> HIDE DEF new
  <1>5. /\ req' = [req EXCEPT ![r] = new]
        /\ locks' = [locks EXCEPT ![o] = None]
        /\ UNCHANGED <<dbVars, hook, faults, stripeVars, handed>>
    BY DEF Unlock, OnlyRequest, new
  <1>6. r # None
    BY PaymentsAssumption
  <1> QED
    BY <1>2, <1>3, <1>4, <1>5, <1>6, LockStep

(* An intent that is absent is nobody's yet.                               *)
LEMMA AbsentIsUnknown ==
    ASSUME PaymentsInv, NEW i \in Intents, intents[i].state = "absent"
    PROVE  /\ intents[i].order = None
           /\ \A o \in Orders : intentId[o] # i /\ keyed[o] # i /\ i \notin handed[o]
           /\ \A e \in events : e.intent # i
  <1>1. intents[i].order = None
    BY DEF PaymentsInv, IntentsOK
  <1>2. \A o \in Orders : intentId[o] # i /\ keyed[o] # i
    BY <1>1, PaymentsAssumption DEF PaymentsInv, IntentsOK
  <1>3. \A o \in Orders : i \notin handed[o]
    BY <1>2 DEF PaymentsInv, SecretsAreStored
  <1> QED
    BY <1>1, <1>2, <1>3 DEF PaymentsInv, EventsOK

(* A new intent belongs to the order whose lock the creator holds.         *)
LEMMA CreateIntentInv ==
    ASSUME PaymentsInv, NEW r \in Requests, NEW i \in Intents, CreateIntent(r, i)
    PROVE  PaymentsInv'
  <1> USE DEF PaymentsInv, dbVars
  <1> DEFINE o == req[r].order
             new == [req[r] EXCEPT !.pc = "storing", !.pi = i, !.usable = TRUE]
             created == [ state |-> "requires_payment_method", order |-> o,
                          amount |-> Total[o], attempts |-> 0 ]
  <1>1. /\ req[r] \in Reqs
        /\ RequestOK(req[r])
        /\ req[r].pc = "creating"
        /\ keyed[o] = None
        /\ i \notin Foreign
        /\ intents[i].state = "absent"
    BY DEF TypeOK, RequestsOK, CreateIntent
  <1>2. o \in Orders /\ locks[o] = r /\ intentId[o] = None
    BY <1>1 DEF LocksAreLive, HasLock, RequestOK, Locked, Final
  <1>3. /\ req' = [req EXCEPT ![r] = new]
        /\ intents' = [intents EXCEPT ![i] = created]
        /\ keyed' = [keyed EXCEPT ![o] = i]
        /\ UNCHANGED <<dbVars, locks, hook, faults, events, acked, handed>>
    BY DEF CreateIntent, Obtained, OnlyRequest
  <1>4. /\ new \in Reqs
        /\ new.order = o
        /\ new.pi = i
        /\ new.pc = "storing"
    BY <1>1 DEF Reqs, Points, Locked
  <1>5. /\ created \in Intent
        /\ created.order = o
        /\ created.amount = Total[o]
        /\ created.state = "requires_payment_method"
    BY <1>2, PaymentsAssumption DEF Intent, IntentStates
  <1> HIDE DEF new, created
  <1>6. /\ req'[r] = new
        /\ \A s \in Requests \ {r} : req'[s] = req[s]
        /\ intents'[i] = created
        /\ \A j \in Intents \ {i} : intents'[j] = intents[j]
        /\ keyed'[o] = i
        /\ \A x \in Orders \ {o} : keyed'[x] = keyed[x]
    BY <1>2, <1>3 DEF TypeOK
  <1>7. /\ intents[i].order = None
        /\ \A x \in Orders : intentId[x] # i /\ keyed[x] # i /\ i \notin handed[x]
        /\ \A e \in events : e.intent # i
    BY <1>1, AbsentIsUnknown
  <1>8. TypeOK'
    BY <1>2, <1>3, <1>4, <1>5 DEF TypeOK
  <1>9. RequestsOK'
    <2>1. RequestOK(req[r])'
      BY <1>2, <1>3, <1>4, <1>5, <1>6 DEF RequestOK, Calling, Final
    <2>2. ASSUME NEW s \in Requests \ {r} PROVE RequestOK(req[s])'
      <3>1. RequestOK(req[s])
        BY DEF RequestsOK
      <3>2. req[s].pc = "storing" => req[s].pi # i
        BY <1>7, <3>1, PaymentsAssumption DEF RequestOK, Final
      <3> QED
        BY <1>3, <1>6, <3>1, <3>2 DEF RequestOK
    <2> QED
      BY <2>1, <2>2 DEF RequestsOK
  <1>10. LocksAreLive'
    BY <1>1, <1>2, <1>3, <1>4, <1>6, PaymentsAssumption
    DEF LocksAreLive, HasLock, Locked, TypeOK
  <1>11. IntentsOK'
    <2>1. \A x \in Orders : intentId'[x] # None => intents'[intentId'[x]].order = x
      BY <1>3, <1>6, <1>7 DEF IntentsOK, TypeOK
    <2>2. \A x \in Orders : keyed'[x] # None => intents'[keyed'[x]].order = x
      BY <1>2, <1>5, <1>6, <1>7 DEF IntentsOK, TypeOK
    <2>3. ASSUME NEW j \in Intents
          PROVE  LET x == intents'[j].order
                 IN  /\ j \in Foreign => x = None
                     /\ x # None => intents'[j].amount = Total[x] /\ intents'[j].state # "absent"
                     /\ x # None /\ KeysLast => keyed'[x] = j
                     /\ x # None /\ intents'[j].state \in {"processing", "succeeded"}
                          => j \in handed'[x]
      <3>1. CASE j = i
        BY <1>1, <1>2, <1>5, <1>6, <3>1
      <3>2. CASE j # i
        <4>1. intents[j].order = o => ~KeysLast
          BY <1>1, <1>2, PaymentsAssumption DEF IntentsOK
        <4>2. intents[j].order \in Orders \cup {None}
          BY DEF TypeOK, Intent
        <4> QED
          BY <1>3, <1>6, <3>2, <4>1, <4>2 DEF IntentsOK
      <3> QED
        BY <3>1, <3>2
    <2> QED
      BY <2>1, <2>2, <2>3 DEF IntentsOK
  <1>12. EventsOK'
    <2>1. \A e \in events : e.intent \in Intents \ {i}
      BY <1>7 DEF TypeOK, Events
    <2> QED
      BY <1>3, <1>6, <2>1 DEF EventsOK
  <1>13. SecretsAreStored'
    BY <1>3 DEF SecretsAreStored
  <1>14. \A e \in events : intents'[e.intent] = intents[e.intent]
    BY <1>6, <1>7 DEF TypeOK, Events
  <1>15. WebhooksOK'
    BY <1>3, <1>14 DEF WebhooksOK, Settled, Concerns
  <1>16. ConfirmedIsPaid'
    BY <1>3, <1>6, <1>7 DEF ConfirmedIsPaid, TypeOK
  <1>17. AckedIsApplied'
    BY <1>3, <1>14 DEF AckedIsApplied, WebhooksOK
  <1> QED
    BY <1>8, <1>9, <1>10, <1>11, <1>12, <1>13, <1>15, <1>16, <1>17

(* The creator stores the first and only intent of its order.              *)
LEMMA StoreIntentInv ==
    ASSUME PaymentsInv, NEW r \in Requests, StoreIntent(r)
    PROVE  PaymentsInv'
  <1> USE DEF PaymentsInv, dbVars, stripeVars
  <1> DEFINE o == req[r].order
             i == req[r].pi
             new == [req[r] EXCEPT !.pc = "unlocking", !.stored = TRUE]
  <1>1. req[r] \in Reqs /\ RequestOK(req[r]) /\ req[r].pc = "storing"
    BY DEF TypeOK, RequestsOK, StoreIntent
  <1>2. /\ o \in Orders
        /\ locks[o] = r
        /\ intentId[o] = None
        /\ i \in Intents
        /\ intents[i].order = o
    BY <1>1 DEF LocksAreLive, HasLock, RequestOK, Locked, Final
  <1>3. /\ req' = [req EXCEPT ![r] = new]
        /\ intentId' = [intentId EXCEPT ![o] = i]
        /\ UNCHANGED <<status, processed, locks, hook, faults, stripeVars, handed>>
    BY DEF StoreIntent, OnlyRequest
  <1>4. new \in Reqs /\ new.order = o /\ new.pi = i /\ new.pc = "unlocking"
    BY <1>1 DEF Reqs, Points, Locked
  <1> HIDE DEF new
  <1>5. /\ req'[r] = new
        /\ \A s \in Requests \ {r} : req'[s] = req[s]
        /\ intentId'[o] = i
        /\ \A x \in Orders \ {o} : intentId'[x] = intentId[x]
    BY <1>2, <1>3 DEF TypeOK
  <1>6. i # None /\ handed[o] = {}
    BY <1>2, PaymentsAssumption DEF SecretsAreStored, TypeOK
  <1>7. TypeOK'
    BY <1>2, <1>3, <1>4 DEF TypeOK
  <1>8. RequestsOK'
    <2>1. RequestOK(req[r])'
      BY <1>2, <1>4, <1>5 DEF RequestOK, Locked, Calling, Final
    <2>2. ASSUME NEW s \in Requests \ {r} PROVE RequestOK(req[s])'
      <3>1. RequestOK(req[s])
        BY DEF RequestsOK
      <3>2. CASE req[s].order # o
        BY <1>3, <1>5, <3>1, <3>2 DEF RequestOK
      <3>3. CASE req[s].order = o
        <4>1. req[s].pc \notin {"creating", "storing"}
          BY <1>2, <3>3 DEF LocksAreLive, HasLock, Locked
        <4>2. req[s].pc \notin {"unlocking"} \cup Calling
          BY <1>2, <3>1, <3>3, PaymentsAssumption DEF RequestOK
        <4>3. req[s].pc = "found" => req[s].pi = None
          BY <1>2, <3>1, <3>3 DEF RequestOK
        <4> QED
          BY <1>3, <1>5, <3>1, <4>1, <4>2, <4>3 DEF RequestOK
      <3> QED
        BY <3>2, <3>3
    <2> QED
      BY <2>1, <2>2 DEF RequestsOK
  <1>9. LocksAreLive'
    BY <1>1, <1>2, <1>3, <1>4, <1>5, PaymentsAssumption
    DEF LocksAreLive, HasLock, Locked, TypeOK
  <1>10. IntentsOK'
    BY <1>2, <1>3, <1>5 DEF IntentsOK
  <1>11. EventsOK'
    BY <1>3 DEF EventsOK
  <1>12. SecretsAreStored'
    BY <1>3, <1>5, <1>6 DEF SecretsAreStored
  <1>13. WebhooksOK'
    <2>1. \A e \in processed : Settled(e)'
      <3>1. \A e \in processed : Settled(e) /\ e.intent \in Intents
        BY DEF WebhooksOK, TypeOK, Events
      <3> QED
        BY <1>2, <1>3, <1>5, <3>1, PaymentsAssumption DEF Settled
    <2>2. ASSUME NEW h \in Hooks, hook[h].pc = "processing"
          PROVE  \E x \in Orders : Concerns(hook[h].event, x)'
      <3>1. PICK x \in Orders : Concerns(hook[h].event, x)
        BY <2>2 DEF WebhooksOK
      <3>2. hook[h].event.intent \in Intents
        BY <2>2 DEF WebhooksOK, TypeOK, Events
      <3>3. x # o
        BY <1>2, <3>1, <3>2, PaymentsAssumption DEF Concerns
      <3> QED
        BY <1>3, <1>5, <3>1, <3>3 DEF Concerns
    <2> QED
      BY <1>3, <2>1, <2>2 DEF WebhooksOK
  <1>14. ConfirmedIsPaid'
    BY <1>2, <1>3, <1>5 DEF ConfirmedIsPaid
  <1>15. AckedIsApplied'
    BY <1>3 DEF AckedIsApplied
  <1> QED
    BY <1>7, <1>8, <1>9, <1>10, <1>11, <1>12, <1>13, <1>14, <1>15

(* A request that stores a retrieved intent changes nothing.               *)
LEMMA RestoreIntentInv ==
    ASSUME PaymentsInv, NEW r \in Requests, RestoreIntent(r)
    PROVE  PaymentsInv' /\ intentId' = intentId
  <1> DEFINE o == req[r].order
             new == [req[r] EXCEPT !.pc = "replying"]
  <1>1. req[r] \in Reqs /\ RequestOK(req[r]) /\ req[r].pc = "restoring"
    BY DEF PaymentsInv, TypeOK, RequestsOK, RestoreIntent
  <1>2. o \in Orders /\ intentId[o] = req[r].pi
    BY <1>1 DEF RequestOK, Calling, Final
  <1>3. intentId' = intentId
    BY <1>2 DEF RestoreIntent, PaymentsInv, TypeOK
  <1>4. new \in Reqs /\ new.pc \notin Locked
    BY <1>1 DEF Reqs, Points, Calling, Locked
  <1>5. RequestOK(new)
    BY <1>1 DEF RequestOK, Reqs, Locked, Calling, Final
  <1>6. \A x \in Orders : locks[x] # r
    BY <1>1, NoLock DEF Locked
  <1> QED
    BY <1>3, <1>4, <1>5, <1>6, LocalStep
    DEF RestoreIntent, OnlyRequest, PaymentsInv, TypeOK, dbVars, stripeVars

(* The secret that leaves the server is the stored intent's.               *)
LEMMA ReplyInv ==
    ASSUME PaymentsInv, NEW r \in Requests, Reply(r)
    PROVE  PaymentsInv'
  <1> USE DEF PaymentsInv, dbVars, stripeVars
  <1> DEFINE o == req[r].order
             i == req[r].pi
             new == Ended("answered")
  <1>1. req[r] \in Reqs /\ RequestOK(req[r]) /\ req[r].pc = "replying"
    BY DEF TypeOK, RequestsOK, Reply
  <1>2. o \in Orders /\ i \in Intents /\ intentId[o] = i
    BY <1>1 DEF RequestOK, Calling, Final
  <1>3. new \in Reqs /\ RequestOK(new) /\ new.pc \notin Locked
    BY EndedOK DEF Final, Locked
  <1>4. \A x \in Orders : locks[x] # r
    BY <1>1, NoLock DEF Locked
  <1>5. /\ req' = [req EXCEPT ![r] = new]
        /\ handed' = [handed EXCEPT ![o] = handed[o] \cup {i}]
        /\ UNCHANGED <<dbVars, locks, hook, faults, stripeVars>>
    BY DEF Reply, OnlyRequest
  <1> HIDE DEF new
  <1>6. /\ req'[r] = new
        /\ \A s \in Requests \ {r} : req'[s] = req[s]
        /\ handed'[o] = handed[o] \cup {i}
        /\ \A x \in Orders \ {o} : handed'[x] = handed[x]
    BY <1>2, <1>5 DEF TypeOK
  <1>7. TypeOK'
    BY <1>2, <1>3, <1>5 DEF TypeOK
  <1>8. RequestsOK'
    BY <1>3, <1>5, <1>6 DEF RequestsOK, RequestOK
  <1>9. LocksAreLive'
    BY <1>3, <1>4, <1>5, <1>6 DEF LocksAreLive, HasLock, TypeOK
  <1>10. \A x \in Orders : handed[x] \subseteq handed'[x]
    BY <1>6
  <1>11. IntentsOK'
    <2>1. \A j \in Intents : intents[j].order \in Orders \cup {None}
      BY DEF TypeOK, Intent
    <2> QED
      BY <1>5, <1>10, <2>1 DEF IntentsOK
  <1>12. EventsOK'
    <2>1. \A e \in events : intents[e.intent].order \in Orders \cup {None}
      BY DEF TypeOK, Intent, Events
    <2> QED
      BY <1>5, <1>10, <2>1 DEF EventsOK
  <1>13. SecretsAreStored'
    BY <1>2, <1>5, <1>6 DEF SecretsAreStored
  <1>14. WebhooksOK' /\ ConfirmedIsPaid' /\ AckedIsApplied'
    BY <1>5 DEF WebhooksOK, Settled, Concerns, ConfirmedIsPaid, AckedIsApplied
  <1> QED
    BY <1>7, <1>8, <1>9, <1>11, <1>12, <1>13, <1>14

-----------------------------------------------------------------------------
(* Stripe's steps                                                          *)

(* A forgotten key touches no row, lock, secret or event.                  *)
LEMMA ForgetKeyInv ==
    ASSUME PaymentsInv, NEW o \in Orders, ForgetKey(o)
    PROVE  PaymentsInv'
  <1> USE DEF PaymentsInv, dbVars
  <1>1. /\ ~KeysLast
        /\ keyed' = [keyed EXCEPT ![o] = None]
        /\ UNCHANGED <<dbVars, locks, req, hook, intents, events, acked, handed, faults>>
    BY DEF ForgetKey
  <1>2. TypeOK'
    BY <1>1 DEF TypeOK
  <1>3. IntentsOK'
    BY <1>1 DEF IntentsOK, TypeOK
  <1>4. RequestsOK' /\ LocksAreLive'
    BY <1>1 DEF RequestsOK, RequestOK, LocksAreLive, HasLock
  <1>5. /\ EventsOK' /\ SecretsAreStored' /\ WebhooksOK'
        /\ ConfirmedIsPaid' /\ AckedIsApplied'
    BY <1>1 DEF EventsOK, SecretsAreStored, WebhooksOK, Settled, Concerns,
                ConfirmedIsPaid, AckedIsApplied
  <1> QED
    BY <1>2, <1>3, <1>4, <1>5

(* An intent moves on, with the events that tell of it; only one that was  *)
(* handed out can be paid for an order.                                    *)
LEMMA IntentStep ==
    ASSUME PaymentsInv, NEW i \in Intents, NEW new \in Intent, NEW added \in SUBSET Events,
           intents[i].state \notin {"absent", "succeeded"},
           new.order = intents[i].order,
           new.amount = intents[i].amount,
           new.state # "absent",
           new.order # None /\ new.state \in {"processing", "succeeded"}
               => i \in handed[new.order],
           \A e \in added :
               /\ e.intent = i
               /\ e.kind = "succeeded" => new.state = "succeeded"
               /\ e.kind # "canceled" /\ new.order # None => i \in handed[new.order],
           intents' = [intents EXCEPT ![i] = new],
           events' = events \cup added,
           UNCHANGED <<dbVars, locks, req, hook, keyed, acked, handed, faults>>
    PROVE  PaymentsInv'
  <1> USE DEF PaymentsInv, dbVars
  <1>1. intents'[i] = new /\ \A j \in Intents \ {i} : intents'[j] = intents[j]
    BY DEF TypeOK
  <1>2. \A j \in Intents :
          /\ intents'[j].order = intents[j].order
          /\ intents'[j].amount = intents[j].amount
          /\ intents[j].state = "succeeded" => intents'[j] = intents[j]
    BY <1>1
  <1>3. \A j \in Intents : intents[j].state # "absent" => intents'[j].state # "absent"
    BY <1>1
  <1>4. TypeOK'
    BY DEF TypeOK
  <1>5. RequestsOK' /\ LocksAreLive'
    BY <1>2 DEF RequestsOK, RequestOK, LocksAreLive, HasLock
  <1>6. IntentsOK'
    BY <1>1, <1>2, <1>3 DEF IntentsOK, TypeOK
  <1>7. \A e \in events : e.intent \in Intents
    BY DEF TypeOK, Events
  <1>8. EventsOK'
    <2>1. ASSUME NEW e \in events
          PROVE  /\ intents'[e.intent].state # "absent"
                 /\ e.kind = "succeeded" => intents'[e.intent].state = "succeeded"
                 /\ e.kind # "canceled" /\ intents'[e.intent].order # None
                      => e.intent \in handed'[intents'[e.intent].order]
      BY <1>2, <1>3, <1>7, <2>1 DEF EventsOK
    <2>2. ASSUME NEW e \in added
          PROVE  /\ intents'[e.intent].state # "absent"
                 /\ e.kind = "succeeded" => intents'[e.intent].state = "succeeded"
                 /\ e.kind # "canceled" /\ intents'[e.intent].order # None
                      => e.intent \in handed'[intents'[e.intent].order]
      BY <1>1, <2>2
    <2> QED
      BY <2>1, <2>2 DEF EventsOK
  <1>9. SecretsAreStored'
    BY DEF SecretsAreStored
  <1>10. WebhooksOK'
    <2>1. \A e \in events : Settled(e) => Settled(e)'
      BY <1>2, <1>7 DEF Settled
    <2>2. \A e \in events, o \in Orders : Concerns(e, o) => Concerns(e, o)'
      BY <1>2, <1>7 DEF Concerns
    <2> QED
      BY <2>1, <2>2 DEF WebhooksOK
  <1>11. ConfirmedIsPaid'
    BY <1>2 DEF ConfirmedIsPaid, TypeOK
  <1>12. AckedIsApplied'
    BY <1>2, <1>7 DEF AckedIsApplied, WebhooksOK
  <1> QED
    BY <1>4, <1>5, <1>6, <1>8, <1>9, <1>10, <1>11, <1>12

(* Who may pay with an order's intent was handed it for that very order.   *)
LEMMA HandedFor ==
    ASSUME PaymentsInv, NEW i \in Intents, NEW o \in Orders, i \in handed[o]
    PROVE  intents[i].order = o
  <1>1. intentId[o] = i /\ i # None
    BY PaymentsAssumption DEF PaymentsInv, SecretsAreStored
  <1> QED
    BY <1>1 DEF PaymentsInv, IntentsOK

(* An attempt to pay an order's intent takes its secret.                   *)
LEMMA PayInv ==
    ASSUME PaymentsInv, NEW i \in Intents, Pay(i)
    PROVE  PaymentsInv'
  <1> DEFINE new == [intents[i] EXCEPT !.state = "processing",
                                       !.attempts = intents[i].attempts + 1]
             added == {}
  <1>1. intents[i] \in Intent /\ intents[i].state = "requires_payment_method"
    BY DEF PaymentsInv, TypeOK, Pay
  <1>2. intents[i].attempts + 1 \in 0..MaxAttempts
    BY <1>1, PaymentsAssumption DEF Pay, Intent
  <1>3. /\ new \in Intent
        /\ new.order = intents[i].order
        /\ new.amount = intents[i].amount
        /\ new.state = "processing"
    BY <1>1, <1>2 DEF Intent, IntentStates
  <1>4. intents[i].order # None => i \in handed[intents[i].order]
    <2>1. CASE i \in Foreign
      BY <2>1 DEF PaymentsInv, IntentsOK
    <2>2. CASE \E o \in Orders : i \in handed[o]
      BY <2>2, HandedFor
    <2> QED
      BY <2>1, <2>2 DEF Pay
  <1>5. intents' = [intents EXCEPT ![i] = new]
    BY <1>1 DEF Pay, PaymentsInv, TypeOK, Intent
  <1>6. /\ events' = events \cup added
        /\ added \in SUBSET Events
        /\ \A e \in added : FALSE
    BY DEF Pay
  <1> HIDE DEF new, added
  <1>7. UNCHANGED <<dbVars, locks, req, hook, keyed, acked, handed, faults>>
    BY DEF Pay
  <1> QED
    BY <1>1, <1>3, <1>4, <1>5, <1>6, <1>7, IntentStep

(* Stripe settles an attempt, or the intent is canceled, with one event.   *)
LEMMA StripeStepInv ==
    ASSUME PaymentsInv, NEW i \in Intents, Succeed(i) \/ Decline(i) \/ CancelIntent(i)
    PROVE  PaymentsInv'
  <1>1. ASSUME NEW state \in IntentStates \ {"absent"}, NEW kind \in Kinds,
               StripeStep(i, state, {kind}),
               intents[i].state \in {"requires_payment_method", "processing"},
               state = "succeeded" <=> kind = "succeeded",
               state # "processing",
               kind # "canceled" => intents[i].state = "processing"
        PROVE  PaymentsInv'
    <2> DEFINE new == [intents[i] EXCEPT !.state = state]
               event == [intent |-> i, kind |-> kind, attempt |-> intents[i].attempts]
               added == {event}
    <2>1. intents[i] \in Intent
      BY DEF PaymentsInv, TypeOK
    <2>2. /\ new \in Intent
          /\ new.order = intents[i].order
          /\ new.amount = intents[i].amount
          /\ new.state = state
      BY <2>1 DEF Intent
    <2>3. event \in Events /\ event.intent = i /\ event.kind = kind
      BY <2>1 DEF Intent, Events
    <2>4. /\ intents' = [intents EXCEPT ![i] = new]
          /\ events' = events \cup {event}
          /\ UNCHANGED <<dbVars, locks, req, hook, keyed, acked, handed, faults>>
      BY <1>1, <2>1 DEF StripeStep, PaymentsInv, TypeOK, Intent
    <2>5. kind # "canceled" /\ intents[i].order # None => i \in handed[intents[i].order]
      BY <1>1 DEF PaymentsInv, IntentsOK
    <2>6. intents[i].order # None /\ state = "succeeded" => i \in handed[intents[i].order]
      BY <1>1, <2>5
    <2>7. /\ events' = events \cup added
          /\ added \in SUBSET Events
          /\ \A e \in added : e.intent = i /\ e.kind = kind
      BY <2>3, <2>4
    <2> HIDE DEF new, event, added
    <2> QED
      BY <1>1, <2>2, <2>4, <2>5, <2>6, <2>7, IntentStep
  <1>2. CASE Succeed(i)
    BY <1>1, <1>2 DEF Succeed, IntentStates, Kinds
  <1>3. CASE Decline(i)
    BY <1>1, <1>3 DEF Decline, IntentStates, Kinds
  <1>4. CASE CancelIntent(i)
    BY <1>1, <1>4 DEF CancelIntent, IntentStates, Kinds
  <1> QED
    BY <1>2, <1>3, <1>4

-----------------------------------------------------------------------------
(* The webhook handler                                                     *)

(* A step that touches webhooks and the order's status only.               *)
LEMMA HookFrame ==
    ASSUME PaymentsInv, UNCHANGED <<intentId, locks, req, intents, keyed, events, handed>>
    PROVE  /\ RequestsOK' /\ LocksAreLive' /\ IntentsOK' /\ EventsOK' /\ SecretsAreStored'
           /\ \A e \in events, o \in Orders : Concerns(e, o)' = Concerns(e, o)
  BY DEF PaymentsInv, RequestsOK, RequestOK, LocksAreLive, HasLock, IntentsOK,
         EventsOK, SecretsAreStored, Concerns

(* What the handler has checked of the event it processes.                 *)
LEMMA ProcessingConcerns ==
    ASSUME PaymentsInv, NEW h \in Hooks, hook[h].pc = "processing"
    PROVE  \E o \in Orders :
             /\ Concerns(hook[h].event, o)
             /\ \A x \in Orders : intentId[x] = hook[h].event.intent <=> x = o
  <1>1. PICK o \in Orders : Concerns(hook[h].event, o)
    BY DEF PaymentsInv, WebhooksOK
  <1>2. hook[h].event \in events /\ hook[h].event.intent \in Intents
    BY DEF PaymentsInv, WebhooksOK, TypeOK, Events
  <1>3. \A x \in Orders : intentId[x] = hook[h].event.intent => x = o
    BY <1>1, <1>2, PaymentsAssumption DEF Concerns, PaymentsInv, IntentsOK
  <1> QED
    BY <1>1, <1>3 DEF Concerns

(* A delivery begins with an event that Stripe has.                        *)
LEMMA DeliverInv ==
    ASSUME PaymentsInv, NEW h \in Hooks, NEW e \in events, Deliver(h, e)
    PROVE  PaymentsInv'
  <1> USE DEF PaymentsInv, dbVars
  <1>1. /\ UNCHANGED <<status, intentId, processed, faults, locks, req, intents, keyed, events, handed>>
        /\ e \in Events
        /\ hook[h].pc = "idle"
    BY DEF Deliver, OnlyHook, TypeOK
  <1>2. RequestsOK' /\ LocksAreLive' /\ IntentsOK' /\ EventsOK' /\ SecretsAreStored'
    BY <1>1, HookFrame
  <1>3. ConfirmedIsPaid'
    BY <1>1 DEF ConfirmedIsPaid
  <1>4. \A x \in Events : Settled(x)' = Settled(x)
    BY <1>1 DEF Settled
  <1>5. CASE e.kind = "canceled"
    <2>1. acked' = acked \cup {e} /\ hook' = hook
      BY <1>5 DEF Deliver, OnlyHook, TypeOK
    <2>2. TypeOK'
      BY <1>1, <2>1 DEF TypeOK
    <2>3. WebhooksOK'
      BY <1>1, <1>4, <2>1 DEF WebhooksOK, Concerns, TypeOK
    <2>4. AckedIsApplied'
      BY <1>1, <1>5, <2>1 DEF AckedIsApplied
    <2> QED
      BY <1>2, <1>3, <2>2, <2>3, <2>4
  <1>6. CASE e.kind # "canceled"
    <2> DEFINE new == [pc |-> "finding", event |-> e]
    <2>1. hook' = [hook EXCEPT ![h] = new] /\ acked' = acked
      BY <1>6 DEF Deliver, OnlyHook
    <2>2. new \in HookStates /\ new.pc = "finding" /\ new.event = e
      BY <1>1 DEF HookStates
    <2> HIDE DEF new
    <2>3. hook'[h] = new /\ \A k \in Hooks \ {h} : hook'[k] = hook[k]
      BY <2>1 DEF TypeOK
    <2>4. TypeOK'
      BY <1>1, <2>1, <2>2 DEF TypeOK
    <2>5. WebhooksOK'
      BY <1>1, <1>4, <1>6, <2>1, <2>2, <2>3 DEF WebhooksOK, Concerns, TypeOK
    <2>6. AckedIsApplied'
      BY <1>1, <2>1 DEF AckedIsApplied
    <2> QED
      BY <1>2, <1>3, <2>4, <2>5, <2>6
  <1> QED
    BY <1>5, <1>6

(* A delivery whose 200 is sent on the event e, or which fails.            *)
LEMMA HookEnds ==
    ASSUME PaymentsInv, NEW h \in Hooks,
           hook' = [hook EXCEPT ![h] = NoHook],
           acked' = acked \/ (acked' = acked \cup {hook[h].event} /\ hook[h].event \in events),
           \A e \in acked' \ acked :
               e.kind = "canceled" \/ intents[e.intent].order = None \/ e \in processed,
           UNCHANGED <<dbVars, locks, req, intents, keyed, events, handed>>,
           faults' \in 0..MaxFaults
    PROVE  PaymentsInv'
  <1> USE DEF PaymentsInv, dbVars
  <1>1. RequestsOK' /\ LocksAreLive' /\ IntentsOK' /\ EventsOK' /\ SecretsAreStored'
    BY HookFrame
  <1>2. ConfirmedIsPaid'
    BY DEF ConfirmedIsPaid
  <1>3. acked' \subseteq events
    BY DEF WebhooksOK
  <1>4. NoHook \in HookStates /\ NoHook.pc = "idle"
    BY DEF NoHook, HookStates
  <1>5. hook'[h] = NoHook /\ \A k \in Hooks \ {h} : hook'[k] = hook[k]
    BY DEF TypeOK
  <1>6. TypeOK'
    BY <1>3, <1>4 DEF TypeOK
  <1>7. WebhooksOK'
    BY <1>3, <1>4, <1>5 DEF WebhooksOK, Settled, Concerns
  <1>8. AckedIsApplied'
    <2>1. \A e \in processed : Settled(e)
      BY DEF WebhooksOK
    <2> QED
      BY <2>1 DEF AckedIsApplied, Settled
  <1> QED
    BY <1>1, <1>2, <1>6, <1>7, <1>8

(* The event of an order's payment is never taken for somebody else's.     *)
LEMMA FindByIntentInv ==
    ASSUME PaymentsInv, NEW h \in Hooks, FindByIntent(h)
    PROVE  PaymentsInv'
  <1> USE DEF PaymentsInv, dbVars
  <1> DEFINE e == hook[h].event
  <1>1. /\ UNCHANGED <<status, intentId, processed, faults, locks, req, intents, keyed, events, handed>>
        /\ hook[h].pc = "finding"
        /\ e \in events
        /\ e.kind # "canceled"
    BY DEF FindByIntent, OnlyHook, WebhooksOK
  <1>2. /\ e \in Events
        /\ e.intent \in Intents
        /\ intents[e.intent] \in Intent
    BY <1>1 DEF TypeOK, Events
  <1>3. CASE \E o \in Orders : Concerns(e, o)
    <2> DEFINE new == [hook[h] EXCEPT !.pc = "processing"]
    <2>1. hook' = [hook EXCEPT ![h] = new] /\ acked' = acked
      BY <1>3 DEF FindByIntent, OnlyHook
    <2>2. new \in HookStates /\ new.pc = "processing" /\ new.event = e
      BY <1>2 DEF HookStates, TypeOK
    <2> HIDE DEF new
    <2>3. hook'[h] = new /\ \A k \in Hooks \ {h} : hook'[k] = hook[k]
      BY <2>1 DEF TypeOK
    <2>4. RequestsOK' /\ LocksAreLive' /\ IntentsOK' /\ EventsOK' /\ SecretsAreStored'
      BY <1>1, HookFrame
    <2>5. TypeOK'
      BY <1>1, <2>1, <2>2 DEF TypeOK
    <2>6. WebhooksOK'
      <3>1. \A x \in processed : Settled(x)' = Settled(x)
        BY <1>1 DEF Settled
      <3>2. \A x \in events, o \in Orders : Concerns(x, o)' = Concerns(x, o)
        BY <1>1 DEF Concerns
      <3>3. \A k \in Hooks \ {h} : hook'[k].pc # "idle" =>
              /\ hook'[k].event \in events'
              /\ hook'[k].event.kind # "canceled"
              /\ hook'[k].pc = "processing" => \E o \in Orders : Concerns(hook[k].event, o)'
              /\ hook'[k].pc = "acking" => hook'[k].event \in processed'
        BY <1>1, <2>3, <3>2 DEF WebhooksOK
      <3>4. \E o \in Orders : Concerns(e, o)
        BY <1>3
      <3> QED
        BY <1>1, <2>1, <2>2, <2>3, <3>1, <3>2, <3>3, <3>4 DEF WebhooksOK, Concerns
    <2>7. ConfirmedIsPaid' /\ AckedIsApplied'
      BY <1>1, <2>1 DEF ConfirmedIsPaid, AckedIsApplied
    <2> QED
      BY <2>4, <2>5, <2>6, <2>7
  <1>4. CASE ~\E o \in Orders : Concerns(e, o)
    <2>1. hook' = [hook EXCEPT ![h] = NoHook] /\ acked' = acked \cup {e}
      BY <1>4 DEF FindByIntent, OnlyHook
    <2>2. intents[e.intent].order = None
      <3> SUFFICES ASSUME intents[e.intent].order # None PROVE FALSE
        OBVIOUS
      <3> DEFINE o == intents[e.intent].order
      <3>1. o \in Orders
        BY <1>2 DEF Intent
      <3>2. intentId[o] = e.intent
        BY <1>1, <3>1 DEF EventsOK, SecretsAreStored
      <3>3. intents[e.intent].amount = Total[o]
        BY <1>2, <3>1 DEF IntentsOK
      <3> QED
        BY <1>4, <3>1, <3>2, <3>3 DEF Concerns
    <2>3. \A x \in acked' \ acked : intents[x.intent].order = None
      BY <2>1, <2>2
    <2>4. faults' \in 0..MaxFaults
      BY <1>1 DEF TypeOK
    <2> QED
      BY <1>1, <2>1, <2>3, <2>4, HookEnds
  <1> QED
    BY <1>3, <1>4

(* The transaction of an event that concerns an order settles that order,  *)
(* if it is pending, and changes no other.                                 *)
LEMMA ProcessPaymentEventInv ==
    ASSUME PaymentsInv, NEW h \in Hooks, ProcessPaymentEvent(h)
    PROVE  PaymentsInv'
  <1> USE DEF PaymentsInv, dbVars
  <1> DEFINE e == hook[h].event
             new == [hook[h] EXCEPT !.pc = "acking"]
  <1>1. /\ UNCHANGED <<intentId, acked, faults, locks, req, intents, keyed, events, handed>>
        /\ hook[h].pc = "processing"
        /\ hook' = [hook EXCEPT ![h] = new]
        /\ e \in events
        /\ e.kind # "canceled"
    BY DEF ProcessPaymentEvent, OnlyHook, WebhooksOK
  <1>2. /\ e \in Events
        /\ e.intent \in Intents
    BY <1>1 DEF TypeOK, Events
  <1>3. PICK o \in Orders : /\ Concerns(e, o)
                            /\ \A x \in Orders : intentId[x] = e.intent <=> x = o
    BY <1>1, ProcessingConcerns
  <1>4. /\ new \in HookStates
        /\ new.pc = "acking"
        /\ new.event = e
    BY <1>2 DEF HookStates, TypeOK
  <1> HIDE DEF new
  <1>5. hook'[h] = new /\ \A k \in Hooks \ {h} : hook'[k] = hook[k]
    BY <1>1 DEF TypeOK
  <1>6. /\ processed' = processed \cup {e}
        /\ \A x \in Orders : x # o => status'[x] = status[x]
        /\ status[o] # "PENDING" => status'[o] = status[o]
        /\ status'[o] # "PENDING"
        /\ status'[o] = "CONFIRMED" /\ status[o] = "PENDING" => e.kind = "succeeded"
        /\ status' \in [Orders -> Statuses]
    <2>1. CASE e \in processed
      <3>1. Settled(e)
        BY <2>1 DEF WebhooksOK
      <3>2. status[o] # "PENDING"
        BY <1>2, <1>3, <3>1 DEF Settled
      <3>3. processed' = processed /\ status' = status
        BY <2>1 DEF ProcessPaymentEvent
      <3> QED
        BY <2>1, <3>2, <3>3 DEF TypeOK
    <2>2. CASE e \notin processed
      <3>1. /\ processed' = processed \cup {e}
            /\ status' = [x \in Orders |->
                  IF intentId[x] = e.intent /\ status[x] = "PENDING"
                    THEN Outcome(e) ELSE status[x]]
        BY <2>2 DEF ProcessPaymentEvent
      <3>2. /\ Outcome(e) \in Statuses
            /\ Outcome(e) # "PENDING"
            /\ Outcome(e) = "CONFIRMED" => e.kind = "succeeded"
        BY DEF Outcome, Statuses
      <3> QED
        BY <1>3, <3>1, <3>2 DEF TypeOK
    <2> QED
      BY <2>1, <2>2
  <1>7. RequestsOK' /\ LocksAreLive' /\ IntentsOK' /\ EventsOK' /\ SecretsAreStored'
    BY <1>1, HookFrame
  <1>8. TypeOK'
    BY <1>1, <1>2, <1>4, <1>6 DEF TypeOK
  <1>9. \A x \in Orders : status[x] # "PENDING" => status'[x] = status[x]
    BY <1>6
  <1>10. WebhooksOK'
    <2>1. \A x \in Events : x = e => Settled(x)'
      BY <1>1, <1>3, <1>6 DEF Settled, Concerns
    <2>2. \A x \in processed : Settled(x)'
      BY <1>1, <1>9 DEF WebhooksOK, Settled
    <2>3. \A x \in events, y \in Orders : Concerns(x, y)' = Concerns(x, y)
      BY <1>1 DEF Concerns
    <2>4. \A k \in Hooks \ {h} : hook'[k].pc # "idle" =>
            /\ hook'[k].event \in events'
            /\ hook'[k].event.kind # "canceled"
            /\ hook'[k].pc = "processing" => \E y \in Orders : Concerns(hook[k].event, y)'
            /\ hook'[k].pc = "acking" => hook'[k].event \in processed'
      BY <1>1, <1>5, <1>6, <2>3 DEF WebhooksOK
    <2>5. e \in processed'
      BY <1>6
    <2> QED
      BY <1>1, <1>2, <1>4, <1>5, <1>6, <2>1, <2>2, <2>4, <2>5 DEF WebhooksOK, Concerns
  <1>11. ConfirmedIsPaid'
    <2> SUFFICES ASSUME NEW x \in Orders, status'[x] = "CONFIRMED"
                 PROVE  /\ intentId[x] # None
                        /\ intents[intentId[x]].state = "succeeded"
                        /\ intents[intentId[x]].order = x
                        /\ intents[intentId[x]].amount = Total[x]
      BY <1>1 DEF ConfirmedIsPaid
    <2>1. CASE status[x] = "CONFIRMED"
      BY <2>1 DEF ConfirmedIsPaid
    <2>2. CASE status[x] # "CONFIRMED"
      <3>1. x = o /\ e.kind = "succeeded"
        BY <1>6, <1>9, <2>2 DEF TypeOK, Statuses
      <3>2. intents[e.intent].state = "succeeded"
        BY <1>1, <3>1 DEF EventsOK
      <3>3. e.intent # None
        BY <1>2, PaymentsAssumption
      <3> QED
        BY <1>3, <3>1, <3>2, <3>3 DEF Concerns
    <2> QED
      BY <2>1, <2>2
  <1>12. AckedIsApplied'
    <2>1. \A x \in acked : intents[x.intent] \in Intent
      BY DEF TypeOK, Events
    <2> QED
      BY <1>1, <1>6, <1>9, <2>1 DEF AckedIsApplied, Intent
  <1> QED
    BY <1>7, <1>8, <1>10, <1>11, <1>12

(* The end of a delivery, with its 200 or without.                         *)
LEMMA HookEndsInv ==
    ASSUME PaymentsInv, NEW h \in Hooks, Ack(h) \/ HookFails(h)
    PROVE  PaymentsInv'
  <1>1. CASE Ack(h)
    <2>1. /\ hook[h].event \in events
          /\ hook[h].event \in processed
      BY <1>1 DEF Ack, PaymentsInv, WebhooksOK
    <2>2. \A e \in acked' \ acked : e \in processed
      BY <1>1, <2>1 DEF Ack
    <2> QED
      BY <1>1, <2>1, <2>2, HookEnds DEF Ack, OnlyHook, PaymentsInv, TypeOK
  <1>2. CASE HookFails(h)
    <2>1. faults' \in 0..MaxFaults
      BY <1>2, PaymentsAssumption DEF HookFails, PaymentsInv, TypeOK
    <2> QED
      BY <1>2, <2>1, HookEnds DEF HookFails, OnlyHook
  <1> QED
    BY <1>1, <1>2

(* A crash keeps what is in the database and at Stripe, and ends the rest. *)
LEMMA CrashInv ==
    ASSUME PaymentsInv, Crash
    PROVE  PaymentsInv'
  <1> USE DEF PaymentsInv, dbVars, stripeVars
  <1>1. UNCHANGED <<status, intentId, processed, intents, keyed, events, acked, handed>>
    BY DEF Crash
  <1>2. \A r \in Requests : /\ req'[r] \in Reqs
                            /\ req'[r].pc \in {"idle"} \cup Final
                            /\ RequestOK(req'[r])
    <2> SUFFICES ASSUME NEW r \in Requests
                 PROVE  /\ req'[r] \in Reqs
                        /\ req'[r].pc \in {"idle"} \cup Final
                        /\ RequestOK(req'[r])
      OBVIOUS
    <2>1. CASE req[r].pc \in {"idle"} \cup Final
      BY <2>1 DEF Crash, TypeOK, RequestsOK
    <2>2. CASE req[r].pc \notin {"idle"} \cup Final
      <3>1. req'[r] = Ended("failed")
        BY <2>2 DEF Crash
      <3> QED
        BY <3>1, EndedOK DEF Final
    <2> QED
      BY <2>1, <2>2
  <1>3. \A h \in Hooks : hook'[h] = NoHook
    BY DEF Crash
  <1>4. NoHook \in HookStates /\ NoHook.pc = "idle"
    BY DEF NoHook, HookStates
  <1>5. TypeOK'
    <2>1. req' \in [Requests -> Reqs]
      BY <1>2 DEF Crash
    <2>2. hook' \in [Hooks -> HookStates]
      BY <1>4 DEF Crash
    <2>3. locks' \in [Orders -> Requests \cup {None}]
      BY DEF Crash
    <2>4. faults' \in 0..MaxFaults
      BY PaymentsAssumption DEF Crash, TypeOK
    <2> QED
      BY <1>1, <2>1, <2>2, <2>3, <2>4 DEF TypeOK
  <1>6. RequestsOK'
    BY <1>1, <1>2 DEF RequestsOK, RequestOK
  <1>7. LocksAreLive'
    <2>1. \A r \in Requests : req'[r].pc \notin Locked
      BY <1>2 DEF Locked, Final
    <2> QED
      BY <2>1 DEF LocksAreLive, Crash
  <1>8. IntentsOK' /\ EventsOK' /\ SecretsAreStored' /\ ConfirmedIsPaid' /\ AckedIsApplied'
    BY <1>1 DEF IntentsOK, EventsOK, SecretsAreStored, ConfirmedIsPaid, AckedIsApplied
  <1>9. WebhooksOK'
    BY <1>1, <1>3, <1>4 DEF WebhooksOK, Settled
  <1> QED
    BY <1>5, <1>6, <1>7, <1>8, <1>9

-----------------------------------------------------------------------------
(* Every step keeps the invariant.                                         *)
LEMMA StepPayments ==
    PaymentsInv /\ [Next]_vars => PaymentsInv'
  <1> SUFFICES ASSUME PaymentsInv, [Next]_vars PROVE PaymentsInv'
    OBVIOUS
  <1>1. ASSUME NEW r \in Requests,
               \/ \E o \in Orders : FindOrder(r, o)
               \/ RequestStep(r)
               \/ Fail(r)
        PROVE  PaymentsInv'
    BY <1>1, FindOrderInv, RejectOrderInv, UseStoredIntentInv, AwaitCreationInv,
       TakeLockInv, ReReadAfterWaitInv, ReReadWithLockInv, RetrieveIntentInv,
       CreateIntentInv, ReplayIntentInv, StoreIntentInv, RestoreIntentInv,
       UnlockInv, ReplyInv, FailInv
    DEF RequestStep
  <1>2. ASSUME NEW h \in Hooks,
               \/ \E e \in events : Deliver(h, e)
               \/ HookStep(h)
               \/ HookFails(h)
        PROVE  PaymentsInv'
    BY <1>2, DeliverInv, FindByIntentInv, ProcessPaymentEventInv, HookEndsInv DEF HookStep
  <1>3. ASSUME NEW i \in Intents, CustomerStep(i)
        PROVE  PaymentsInv'
    BY <1>3, PayInv, StripeStepInv DEF CustomerStep
  <1>4. ASSUME NEW o \in Orders, ForgetKey(o)
        PROVE  PaymentsInv'
    BY <1>4, ForgetKeyInv
  <1>5. CASE Crash
    BY <1>5, CrashInv
  <1>6. CASE UNCHANGED vars
    <2> USE DEF PaymentsInv
    <2>1. UNCHANGED <<status, intentId, processed, locks, req, hook, intents, keyed,
                      events, acked, handed, faults>>
      BY <1>6 DEF vars
    <2>2. TypeOK' /\ RequestsOK' /\ LocksAreLive' /\ IntentsOK'
      BY <2>1 DEF TypeOK, RequestsOK, RequestOK, LocksAreLive, HasLock, IntentsOK
    <2>3. EventsOK' /\ SecretsAreStored' /\ WebhooksOK' /\ ConfirmedIsPaid' /\ AckedIsApplied'
      BY <2>1 DEF EventsOK, SecretsAreStored, WebhooksOK, Settled, Concerns,
                  ConfirmedIsPaid, AckedIsApplied
    <2> QED
      BY <2>2, <2>3
  <1> QED
    BY <1>1, <1>2, <1>3, <1>4, <1>5, <1>6 DEF Next

(* Every reachable state satisfies the invariant.                          *)
THEOREM PaymentsInvariant == Spec => []PaymentsInv
  BY InitPayments, StepPayments, PTL DEF Spec

(* Requests, deliveries and intents stay within their points and states.   *)
THEOREM PaymentsTypes == Spec => []TypeOK
  <1>1. PaymentsInv => TypeOK
    BY DEF PaymentsInv
  <1> QED
    BY <1>1, PaymentsInvariant, PTL

(* Every client secret handed out is for the order's stored intent, with   *)
(* any number of concurrent requests (payments.service.ts:70-149).         *)
THEOREM SecretsBelongToOrders == Spec => []SecretsAreStored
  <1>1. PaymentsInv => SecretsAreStored
    BY DEF PaymentsInv
  <1> QED
    BY <1>1, PaymentsInvariant, PTL

(* No order is confirmed whose intent has not captured its total           *)
(* (payments.service.ts:194-231).                                          *)
THEOREM NoUnpaidConfirmation == Spec => []ConfirmedIsPaid
  <1>1. PaymentsInv => ConfirmedIsPaid
    BY DEF PaymentsInv
  <1> QED
    BY <1>1, PaymentsInvariant, PTL

(* No event about an order is acknowledged that has not settled it         *)
(* (payments.service.ts:194-233).                                          *)
THEOREM NoEventDropped == Spec => []AckedIsApplied
  <1>1. PaymentsInv => AckedIsApplied
    BY DEF PaymentsInv
  <1> QED
    BY <1>1, PaymentsInvariant, PTL

(* No lock outlives the work of its holder (payments.service.ts:84-123).   *)
THEOREM NoLockLeaks == Spec => []LocksAreLive
  <1>1. PaymentsInv => LocksAreLive
    BY DEF PaymentsInv
  <1> QED
    BY <1>1, PaymentsInvariant, PTL

(* An order has one intent as long as Stripe keeps its idempotency key     *)
(* (payments.service.ts:101-112).                                          *)
THEOREM IntentsAreUnique == Spec => []OneIntentPerOrder
  <1>1. PaymentsInv => OneIntentPerOrder
    <2> SUFFICES ASSUME PaymentsInv, KeysLast, NEW i \in Intents, NEW j \in Intents,
                        intents[i].order # None, intents[i].order = intents[j].order
                 PROVE  i = j
      BY DEF OneIntentPerOrder
    <2>1. keyed[intents[i].order] = i /\ keyed[intents[j].order] = j
      BY DEF PaymentsInv, IntentsOK
    <2> QED
      BY <2>1
  <1> QED
    BY <1>1, PaymentsInvariant, PTL

-----------------------------------------------------------------------------
(* Stripe has an event for every capture.                                  *)
SuccessIsSent ==
    \A i \in Intents : intents[i].state = "succeeded" =>
        \E e \in events : e.intent = i /\ e.kind = "succeeded"

(* Stripe's own steps and the creation of an intent apart, no step touches *)
(* the intents or takes back an event.                                     *)
LEMMA StripeFrame ==
    ASSUME [Next]_vars,
           ~\E r \in Requests, i \in Intents : CreateIntent(r, i),
           ~\E i \in Intents : CustomerStep(i)
    PROVE  intents' = intents /\ events' = events
  BY DEF Next, RequestStep, HookStep, FindOrder, RejectOrder, UseStoredIntent,
         AwaitCreation, TakeLock, ReReadAfterWait, ReReadWithLock, RetrieveIntent,
         ReplayIntent, StoreIntent, RestoreIntent, Unlock, Reply, Fail, Deliver,
         FindByIntent, ProcessPaymentEvent, Ack, HookFails, ForgetKey, Crash,
         OnlyHook, stripeVars, vars

(* The step that captures a payment sends its event, and events stay.      *)
LEMMA SuccessStep ==
    ASSUME PaymentsInv, SuccessIsSent, [Next]_vars
    PROVE  SuccessIsSent'
  <1>1. intents \in [Intents -> Intent]
    BY DEF PaymentsInv, TypeOK
  <1>2. ASSUME NEW r \in Requests, NEW i \in Intents, CreateIntent(r, i)
        PROVE  SuccessIsSent'
    <2>1. events' = events
      BY <1>2 DEF CreateIntent
    <2>2. \A j \in Intents : intents'[j].state = "succeeded" => intents[j].state = "succeeded"
      BY <1>1, <1>2 DEF CreateIntent
    <2> QED
      BY <2>1, <2>2 DEF SuccessIsSent
  <1>3. ASSUME NEW i \in Intents, CustomerStep(i)
        PROVE  SuccessIsSent'
    <2>1. CASE Pay(i)
      <3>1. events' = events
        BY <2>1 DEF Pay
      <3>2. \A j \in Intents :
              intents'[j].state = "succeeded" => intents[j].state = "succeeded"
        BY <1>1, <2>1 DEF Pay, Intent
      <3> QED
        BY <3>1, <3>2 DEF SuccessIsSent
    <2>2. CASE Succeed(i)
      <3> DEFINE e == [intent |-> i, kind |-> "succeeded", attempt |-> intents[i].attempts]
      <3>1. events' = events \cup {e}
        BY <2>2 DEF Succeed, StripeStep
      <3>2. \A j \in Intents \ {i} : intents'[j] = intents[j]
        BY <1>1, <2>2 DEF Succeed, StripeStep
      <3>3. e.intent = i /\ e.kind = "succeeded"
        OBVIOUS
      <3> HIDE DEF e
      <3> QED
        BY <3>1, <3>2, <3>3 DEF SuccessIsSent
    <2>3. CASE Decline(i) \/ CancelIntent(i)
      <3>1. events \subseteq events'
        BY <2>3 DEF Decline, CancelIntent, StripeStep
      <3>2. \A j \in Intents :
              intents'[j].state = "succeeded" => intents[j].state = "succeeded"
        BY <1>1, <2>3 DEF Decline, CancelIntent, StripeStep, Intent
      <3> QED
        BY <3>1, <3>2 DEF SuccessIsSent
    <2> QED
      BY <1>3, <2>1, <2>2, <2>3 DEF CustomerStep
  <1> QED
    BY <1>2, <1>3, StripeFrame DEF SuccessIsSent

(* A captured payment that has not settled its order still has its event   *)
(* to come, which will find and settle the order (payments.service.ts:194- *)
(* 231): an event that is acknowledged or recorded has settled its order,  *)
(* the payment was made with a secret that was handed out, so that its     *)
(* intent is the order's, and its amount is the order's total.             *)
THEOREM EveryCaptureIsDue == Spec => []CapturesAreDue
  <1>1. ASSUME PaymentsInv, SuccessIsSent PROVE CapturesAreDue
    <2> SUFFICES ASSUME NEW o \in Orders, NEW i \in Intents, intents[i].order = o,
                        intents[i].state = "succeeded", status[o] = "PENDING"
                 PROVE  \E e \in events \ (acked \cup processed) :
                            e.intent = i /\ e.kind = "succeeded" /\ Concerns(e, o)
      BY DEF CapturesAreDue
    <2>1. o # None
      BY PaymentsAssumption
    <2>2. PICK e \in events : e.intent = i /\ e.kind = "succeeded"
      BY <1>1 DEF SuccessIsSent
    <2>3. e \notin acked
      BY <1>1, <2>1, <2>2 DEF PaymentsInv, AckedIsApplied
    <2>4. e \notin processed
      BY <1>1, <2>2 DEF PaymentsInv, WebhooksOK, Settled
    <2>5. intents[i].amount = Total[o] /\ i \in handed[o]
      BY <1>1, <2>1 DEF PaymentsInv, IntentsOK
    <2>6. intentId[o] = i
      BY <1>1, <2>5 DEF PaymentsInv, SecretsAreStored
    <2> QED
      BY <2>2, <2>3, <2>4, <2>5, <2>6 DEF Concerns
  <1>2. Init => SuccessIsSent
    BY DEF Init, SuccessIsSent
  <1> QED
    BY <1>1, <1>2, SuccessStep, PaymentsInvariant, PTL DEF Spec

-----------------------------------------------------------------------------
(* Only the two writers of the intent change it.                           *)
LEMMA IntentIdFrame ==
    ASSUME [Next]_vars, ~\E r \in Requests : StoreIntent(r) \/ RestoreIntent(r)
    PROVE  intentId' = intentId
  BY DEF Next, RequestStep, HookStep, CustomerStep, FindOrder, RejectOrder,
         UseStoredIntent, AwaitCreation, TakeLock, ReReadAfterWait,
         ReReadWithLock, RetrieveIntent, CreateIntent, ReplayIntent,
         Unlock, Reply, Fail, Deliver, FindByIntent, ProcessPaymentEvent, Ack,
         HookFails, Pay, Succeed, Decline, CancelIntent, StripeStep, ForgetKey,
         Crash, dbVars, vars

(* The event being processed, the order it concerns, and what becomes of   *)
(* the status: all other orders keep theirs, and so does a settled order.  *)
LEMMA StatusSteps ==
    ASSUME PaymentsInv, NEW h \in Hooks, ProcessPaymentEvent(h)
    PROVE  \/ status' = status
           \/ \E o \in Orders :
                /\ Concerns(hook[h].event, o)
                /\ status[o] = "PENDING"
                /\ status' = [status EXCEPT ![o] = Outcome(hook[h].event)]
  <1> DEFINE e == hook[h].event
  <1>1. PICK o \in Orders : /\ Concerns(e, o)
                            /\ \A x \in Orders : intentId[x] = e.intent <=> x = o
    BY ProcessingConcerns DEF ProcessPaymentEvent
  <1>2. status \in [Orders -> Statuses]
    BY DEF PaymentsInv, TypeOK
  <1>3. CASE e \in processed
    BY <1>3 DEF ProcessPaymentEvent
  <1>4. CASE e \notin processed
    <2>1. status' = [x \in Orders |->
                       IF x = o /\ status[x] = "PENDING" THEN Outcome(e) ELSE status[x]]
      BY <1>1, <1>4 DEF ProcessPaymentEvent
    <2>2. CASE status[o] = "PENDING"
      <3>1. status' = [status EXCEPT ![o] = Outcome(e)]
        BY <1>2, <2>1, <2>2
      <3> QED
        BY <1>1, <2>2, <3>1
    <2>3. CASE status[o] # "PENDING"
      <3>1. status' = status
        BY <1>2, <2>1, <2>3
      <3> QED
        BY <3>1
    <2> QED
      BY <2>2, <2>3
  <1> QED
    BY <1>3, <1>4

(* An order's intent is written once, whatever requests overlap, whatever  *)
(* is repeated and whatever fails (payments.service.ts:70-149).            *)
THEOREM IntentsArePermanent == Spec => IntentWrittenOnce
  <1>1. ASSUME PaymentsInv, [Next]_vars, NEW o \in Orders
        PROVE  intentId[o] # None => intentId'[o] = intentId[o]
    <2>1. CASE \E r \in Requests : StoreIntent(r)
      <3>1. PICK r \in Requests : StoreIntent(r)
        BY <2>1
      <3>2. intentId[req[r].order] = None /\ req[r].order \in Orders
        BY <1>1, <3>1 DEF StoreIntent, PaymentsInv, RequestsOK, RequestOK, Final
      <3> QED
        BY <1>1, <3>1, <3>2 DEF StoreIntent, PaymentsInv, TypeOK
    <2>2. CASE \E r \in Requests : RestoreIntent(r)
      BY <1>1, <2>2, RestoreIntentInv
    <2>3. CASE ~\E r \in Requests : StoreIntent(r) \/ RestoreIntent(r)
      BY <1>1, <2>3, IntentIdFrame
    <2> QED
      BY <2>1, <2>2, <2>3
  <1>2. PaymentsInv /\ [Next]_vars =>
          [\A o \in Orders : intentId[o] # None => intentId'[o] = intentId[o]]_vars
    BY <1>1
  <1> QED
    BY <1>2, PaymentsInvariant, PTL DEF Spec, IntentWrittenOnce

-----------------------------------------------------------------------------
(* The refinement: Stripe's captures and refusals are the ledger's, the    *)
(* webhook's transactions settle orders, and nothing else is seen.         *)

(* Initially nothing is charged.                                           *)
LEMMA InitLedger == Init => L!LInit
  <1> SUFFICES ASSUME Init PROVE L!LInit
    OBVIOUS
  <1>1. Captured = [o \in Orders |-> {}]
    BY DEF Init, Captured
  <1>2. Declined = [o \in Orders |-> FALSE]
    BY DEF Init, Declined
  <1> QED
    BY <1>1, <1>2 DEF Init, L!LInit

(* Before an order's intent is captured, no other intent has been.         *)
LEMMA NothingCaptured ==
    ASSUME PaymentsInv, NEW i \in Intents, NEW o \in Orders,
           intents[i].order = o, intents[i].state = "processing"
    PROVE  Captured[o] = {}
  <1>1. \A j \in Intents :
          intents[j].order = o /\ intents[j].state \in {"processing", "succeeded"}
            => j = intentId[o]
    BY PaymentsAssumption DEF PaymentsInv, IntentsOK, SecretsAreStored
  <1> QED
    BY <1>1 DEF Captured

(* A step of Stripe's with an intent is a charge, a refusal or neither.    *)
LEMMA StripeRefines ==
    ASSUME PaymentsInv, NEW i \in Intents, CustomerStep(i)
    PROVE  [L!LNext]_<<status, Captured, Declined>>
  <1> DEFINE o == intents[i].order
  <1>1. o \in Orders \cup {None} /\ None \notin Orders
    BY PaymentsAssumption DEF PaymentsInv, TypeOK, Intent
  <1>2. /\ status' = status
        /\ \A j \in Intents : intents'[j].order = intents[j].order
        /\ \A j \in Intents \ {i} : intents'[j] = intents[j]
        /\ \A e \in events : e.intent \in Intents
    BY DEF CustomerStep, Pay, Succeed, Decline, CancelIntent, StripeStep, dbVars,
           PaymentsInv, TypeOK, Intent, Events
  <1>3. ASSUME intents[i].state # "succeeded", intents'[i].state # "succeeded"
        PROVE  Captured' = Captured
    BY <1>2, <1>3 DEF Captured
  <1>4. ASSUME NEW k \in Kinds, k # "payment_failed",
               events' = events
                 \/ events' = events \cup {[intent |-> i, kind |-> k,
                                           attempt |-> intents[i].attempts]}
        PROVE  Declined' = Declined
    <2>1. ASSUME NEW x \in Orders PROVE Declined'[x] = Declined[x]
      BY <1>2, <1>4 DEF Declined
    <2> QED
      BY <2>1 DEF Declined
  <1>5. CASE Pay(i)
    <2>1. Captured' = Captured
      BY <1>3, <1>5 DEF Pay, PaymentsInv, TypeOK, Intent
    <2>2. Declined' = Declined
      BY <1>4, <1>5 DEF Pay, Kinds
    <2> QED
      BY <1>2, <2>1, <2>2
  <1>6. CASE Succeed(i)
    <2>1. /\ intents[i].state = "processing"
          /\ intents'[i].state = "succeeded"
      BY <1>6 DEF Succeed, StripeStep, PaymentsInv, TypeOK, Intent
    <2>2. Declined' = Declined
      BY <1>4, <1>6 DEF Succeed, StripeStep, Kinds
    <2>3. CASE o = None
      <3>1. Captured' = Captured
        BY <1>1, <1>2, <2>3 DEF Captured
      <3> QED
        BY <1>2, <2>2, <3>1
    <2>4. CASE o \in Orders
      <3>1. Captured[o] = {}
        BY <2>1, <2>4, NothingCaptured
      <3>2. \A x \in Orders : Captured'[x] = IF x = o THEN {i} ELSE Captured[x]
        <4>1. \A x \in Orders : Captured'[x] =
                {j \in Intents : intents[j].order = x /\ intents'[j].state = "succeeded"}
          BY <1>2 DEF Captured
        <4>2. ASSUME NEW x \in Orders, x # o
              PROVE  Captured'[x] = Captured[x]
          BY <1>2, <4>1, <4>2 DEF Captured
        <4>3. Captured'[o] = {i}
          <5>1. \A j \in Intents \ {i} :
                  ~(intents[j].order = o /\ intents[j].state = "succeeded")
            BY <2>4, <3>1 DEF Captured
          <5>2. Captured'[o] =
                  {j \in Intents : intents[j].order = o /\ intents'[j].state = "succeeded"}
            BY <2>4, <4>1
          <5> QED
            BY <1>2, <2>1, <5>1, <5>2
        <4> QED
          BY <4>2, <4>3
      <3>3. Captured' = [Captured EXCEPT ![o] = {i}]
        BY <3>2 DEF Captured
      <3>4. L!Charge(o, i)
        BY <1>2, <2>2, <3>1, <3>3 DEF L!Charge
      <3> QED
        BY <2>4, <3>4 DEF L!LNext
    <2> QED
      BY <1>1, <2>3, <2>4
  <1>7. CASE Decline(i)
    <2>1. /\ intents[i].state = "processing"
          /\ intents'[i].state = "requires_payment_method"
          /\ events' = events \cup {[intent |-> i, kind |-> "payment_failed",
                                     attempt |-> intents[i].attempts]}
      BY <1>7 DEF Decline, StripeStep, PaymentsInv, TypeOK, Intent
    <2>2. Captured' = Captured
      BY <1>3, <2>1
    <2>3. \A x \in Orders : Declined'[x] = IF x = o THEN TRUE ELSE Declined[x]
      <3> DEFINE new == [intent |-> i, kind |-> "payment_failed",
                         attempt |-> intents[i].attempts]
      <3>1. /\ new.intent = i
            /\ new.kind = "payment_failed"
            /\ events' = events \cup {new}
        BY <2>1
      <3> HIDE DEF new
      <3>2. ASSUME NEW x \in Orders
            PROVE  Declined'[x] <=> (x = o \/ Declined[x])
        BY <1>2, <3>1 DEF Declined
      <3>3. \A x \in Orders : Declined'[x] \in BOOLEAN /\ Declined[x] \in BOOLEAN
        BY DEF Declined
      <3> QED
        BY <3>2, <3>3
    <2>4. CASE o = None
      <3>1. Declined' = Declined
        BY <1>1, <2>3, <2>4 DEF Declined
      <3> QED
        BY <1>2, <2>2, <3>1
    <2>5. CASE o \in Orders
      <3>1. Captured[o] = {}
        BY <2>1, <2>5, NothingCaptured
      <3>2. Declined' = [Declined EXCEPT ![o] = TRUE]
        BY <2>3 DEF Declined
      <3>3. L!Refuse(o)
        BY <1>2, <2>2, <3>1, <3>2 DEF L!Refuse
      <3> QED
        BY <2>5, <3>3 DEF L!LNext
    <2> QED
      BY <1>1, <2>4, <2>5
  <1>8. CASE CancelIntent(i)
    <2>1. Captured' = Captured
      BY <1>3, <1>8 DEF CancelIntent, StripeStep, PaymentsInv, TypeOK, Intent
    <2>2. Declined' = Declined
      BY <1>4, <1>8 DEF CancelIntent, StripeStep, Kinds
    <2> QED
      BY <1>2, <2>1, <2>2
  <1> QED
    BY <1>5, <1>6, <1>7, <1>8 DEF CustomerStep

(* The transaction of an event settles its order as the ledger allows.     *)
LEMMA ProcessRefines ==
    ASSUME PaymentsInv, NEW h \in Hooks, ProcessPaymentEvent(h)
    PROVE  [L!LNext]_<<status, Captured, Declined>>
  <1> DEFINE e == hook[h].event
  <1>1. UNCHANGED <<Captured, Declined>>
    BY DEF ProcessPaymentEvent, OnlyHook, Captured, Declined
  <1>2. /\ e \in events
        /\ e.kind \in {"succeeded", "payment_failed"}
        /\ e.intent \in Intents
    BY DEF ProcessPaymentEvent, PaymentsInv, WebhooksOK, TypeOK, Events, Kinds
  <1>3. ASSUME NEW o \in Orders, Concerns(e, o), status[o] = "PENDING",
               status' = [status EXCEPT ![o] = Outcome(e)]
        PROVE  L!LNext
    <2>1. CASE e.kind = "succeeded"
      <3>1. e.intent \in Captured[o]
        BY <1>2, <1>3, <2>1 DEF Captured, Concerns, PaymentsInv, EventsOK
      <3>2. L!Confirm(o)
        BY <1>1, <1>3, <2>1, <3>1 DEF L!Confirm, Outcome
      <3> QED
        BY <3>2 DEF L!LNext
    <2>2. CASE e.kind = "payment_failed"
      <3>1. Declined[o]
        BY <1>2, <1>3, <2>2 DEF Declined, Concerns
      <3>2. L!Cancel(o)
        BY <1>1, <1>3, <2>2, <3>1 DEF L!Cancel, Outcome
      <3> QED
        BY <3>2 DEF L!LNext
    <2> QED
      BY <1>2, <2>1, <2>2
  <1> QED
    BY <1>1, <1>3, StatusSteps

(* A new intent has captured nothing, and no event is about it yet.        *)
LEMMA CreateRefines ==
    ASSUME PaymentsInv, NEW r \in Requests, NEW i \in Intents, CreateIntent(r, i)
    PROVE  UNCHANGED <<Captured, Declined>>
  <1>1. /\ intents[i].state = "absent"
        /\ intents'[i].state = "requires_payment_method"
        /\ \A j \in Intents \ {i} : intents'[j] = intents[j]
        /\ events' = events
    BY DEF CreateIntent, PaymentsInv, TypeOK
  <1>2. \A e \in events : intents'[e.intent] = intents[e.intent]
    BY <1>1 DEF PaymentsInv, EventsOK, TypeOK, Events
  <1>3. Captured' = Captured
    BY <1>1 DEF Captured
  <1>4. Declined' = Declined
    BY <1>1, <1>2 DEF Declined
  <1> QED
    BY <1>3, <1>4

(* Every step is one of the ledger's, or invisible to it.                  *)
LEMMA StepLedger ==
    ASSUME PaymentsInv, [Next]_vars
    PROVE  [L!LNext]_<<status, Captured, Declined>>
  <1>1. ASSUME UNCHANGED <<status, intents, events>>
        PROVE  UNCHANGED <<status, Captured, Declined>>
    BY <1>1 DEF Captured, Declined
  <1>2. ASSUME NEW r \in Requests, NEW i \in Intents, CreateIntent(r, i)
        PROVE  UNCHANGED <<status, Captured, Declined>>
    BY <1>2, CreateRefines DEF CreateIntent, dbVars
  <1>3. ASSUME NEW r \in Requests,
               \/ \E o \in Orders : FindOrder(r, o)
               \/ RequestStep(r) /\ ~\E i \in Intents : CreateIntent(r, i)
               \/ Fail(r)
        PROVE  UNCHANGED <<status, intents, events>>
    BY <1>3
    DEF RequestStep, FindOrder, RejectOrder, UseStoredIntent, AwaitCreation,
        TakeLock, ReReadAfterWait, ReReadWithLock, RetrieveIntent, ReplayIntent,
        StoreIntent, RestoreIntent, Unlock, Reply, Fail, dbVars, stripeVars
  <1>4. ASSUME NEW h \in Hooks,
               \/ \E e \in events : Deliver(h, e)
               \/ FindByIntent(h) \/ Ack(h) \/ HookFails(h)
        PROVE  UNCHANGED <<status, intents, events>>
    BY <1>4 DEF Deliver, FindByIntent, Ack, HookFails, OnlyHook, dbVars
  <1>5. ASSUME NEW h \in Hooks, ProcessPaymentEvent(h)
        PROVE  [L!LNext]_<<status, Captured, Declined>>
    BY <1>5, ProcessRefines
  <1>6. ASSUME NEW i \in Intents, CustomerStep(i)
        PROVE  [L!LNext]_<<status, Captured, Declined>>
    BY <1>6, StripeRefines
  <1>7. CASE Crash \/ (\E o \in Orders : ForgetKey(o)) \/ UNCHANGED vars
    <2>1. UNCHANGED <<status, intents, events>>
      BY <1>7 DEF Crash, ForgetKey, vars, dbVars, stripeVars
    <2> QED
      BY <1>1, <2>1
  <1> QED
    BY <1>1, <1>2, <1>3, <1>4, <1>5, <1>6, <1>7 DEF Next, HookStep, RequestStep

(* Requests, webhooks, retries, failures and crashes implement the ledger: *)
(* an order is charged at most once, confirmed only when charged,          *)
(* cancelled only after a refusal, and settled for good.                   *)
THEOREM PaymentsImplementLedger == Spec => ChargedOnce
  <1>1. Spec => [][Next]_vars /\ []PaymentsInv
    BY PaymentsInvariant DEF Spec
  <1>2. PaymentsInv /\ [Next]_vars => [L!LNext]_<<status, Captured, Declined>>
    BY StepLedger
  <1> QED
    BY <1>1, <1>2, InitLedger, PTL DEF Spec, ChargedOnce, L!LSpec
=============================================================================

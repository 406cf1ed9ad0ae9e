------------------------------ MODULE Payments ------------------------------
(***************************************************************************)
(* payments.service.ts against Stripe, the database and itself:            *)
(* createPaymentIntent requests that share an in-process lock per order,   *)
(* the webhook handler, Stripe's intents, idempotency keys and at-least-   *)
(* once unordered events, the customer's attempts to pay, failed calls and *)
(* crashes of the process.                                                 *)
(*                                                                         *)
(* The process is one Node.js event loop: code between two awaits runs in  *)
(* one step, and what was read before an await may be stale after it.      *)
(* Each call to the database or to Stripe is a step; "Fail" covers a call  *)
(* that failed without effect, and one whose effect took place but whose   *)
(* answer was lost (it then strikes at the point after the call).          *)
(***************************************************************************)
EXTENDS Integers, FiniteSets

CONSTANTS
    Orders,        \* orders that checkout has created
    Requests,      \* createPaymentIntent requests; each runs once
    Hooks,         \* webhook deliveries the process may handle at a time
    Intents,       \* Stripe PaymentIntents
    Foreign,       \* intents of other applications of the Stripe account
    Total,         \* Total[o]: the order's total in cents, fixed by checkout
    KeysLast,      \* TRUE: Stripe never forgets an idempotency key
    MaxAttempts,   \* bound: attempts to pay with one intent
    MaxFaults,     \* bound: failed calls and crashes
    None

ASSUME PaymentsAssumption ==
    /\ Total \in [Orders -> Nat]
    /\ Foreign \subseteq Intents
    /\ KeysLast \in BOOLEAN
    /\ MaxAttempts \in Nat
    /\ MaxFaults \in Nat
    /\ None \notin Orders \cup Requests \cup Intents

VARIABLES
    status,      \* Order.status
    intentId,    \* Order.stripePaymentIntentId, or None
    processed,   \* ProcessedStripeEvent
    locks,       \* paymentIntentCreationLocks: the creating request, or None
    req,         \* locals and program point of each request
    hook,        \* locals and program point of each webhook delivery
    intents,     \* Stripe: the intents
    keyed,       \* Stripe: the intent kept under each order's idempotency key
    events,      \* Stripe: the events it has to deliver
    acked,       \* Stripe: the events answered with 200
    handed,      \* history: intents whose client secret each order's owner has
    faults

dbVars == <<status, intentId, processed>>
stripeVars == <<intents, keyed, events, acked>>
vars == <<status, intentId, processed, locks, req, hook, intents, keyed,
          events, acked, handed, faults>>

-----------------------------------------------------------------------------
(* Types                                                                   *)

Statuses == {"PENDING", "CONFIRMED", "CANCELLED"}

(* Program points of a request: with the lock, without it, and answered.   *)
Locked == {"holding", "creating", "storing", "unlocking", "unwinding"}
Calling == {"retrieving", "restoring", "replying"}
Final == {"answered", "rejected", "failed"}
Points == {"idle", "found", "waiting"} \cup Locked \cup Calling \cup Final

Reqs == [ pc : Points,
          order : Orders \cup {None},
          pending : BOOLEAN,             \* order.status = PENDING when read
          pi : Intents \cup {None},      \* the intent read, or obtained
          usable : BOOLEAN,              \* its status when Stripe answered
          stored : BOOLEAN,              \* paymentIntentStored
          holder : Requests \cup {None}] \* whose lock it waits for

(* USABLE_PAYMENT_INTENT_STATUSES are one state here.                      *)
IntentStates == {"absent", "requires_payment_method", "processing",
                 "succeeded", "canceled"}
Intent == [ state : IntentStates,
            order : Orders \cup {None},  \* metadata.orderId
            amount : Nat,
            attempts : 0..MaxAttempts ]

Kinds == {"succeeded", "payment_failed", "canceled"}
Events == [ intent : Intents, kind : Kinds, attempt : 0..MaxAttempts ]

HookStates == [ pc : {"idle", "finding", "processing", "acking"},
                event : Events \cup {None} ]

TypeOK ==
    /\ status \in [Orders -> Statuses]
    /\ intentId \in [Orders -> Intents \cup {None}]
    /\ processed \subseteq Events
    /\ locks \in [Orders -> Requests \cup {None}]
    /\ req \in [Requests -> Reqs]
    /\ hook \in [Hooks -> HookStates]
    /\ intents \in [Intents -> Intent]
    /\ keyed \in [Orders -> Intents \cup {None}]
    /\ events \subseteq Events
    /\ acked \subseteq Events
    /\ handed \in [Orders -> SUBSET Intents]
    /\ faults \in 0..MaxFaults

-----------------------------------------------------------------------------
NewRequest == [ pc |-> "idle", order |-> None, pending |-> FALSE, pi |-> None,
                usable |-> FALSE, stored |-> FALSE, holder |-> None ]
NoHook == [ pc |-> "idle", event |-> None ]

Init ==
    /\ status = [o \in Orders |-> "PENDING"]
    /\ intentId = [o \in Orders |-> None]
    /\ processed = {}
    /\ locks = [o \in Orders |-> None]
    /\ req = [r \in Requests |-> NewRequest]
    /\ hook = [h \in Hooks |-> NoHook]
    /\ intents = [i \in Intents |->
         [ state |-> IF i \in Foreign THEN "requires_payment_method" ELSE "absent",
           order |-> None, amount |-> 0, attempts |-> 0 ]]
    /\ keyed = [o \in Orders |-> None]
    /\ events = {}
    /\ acked = {}
    /\ handed = [o \in Orders |-> {}]
    /\ faults = 0

-----------------------------------------------------------------------------
(* createPaymentIntent                                                     *)

(* A request that is over keeps nothing.                                   *)
Ended(outcome) == [NewRequest EXCEPT !.pc = outcome]

OnlyRequest(r, new) ==
    /\ req' = [req EXCEPT ![r] = new]
    /\ UNCHANGED <<hook, faults>>

(* const order = await findById: what the rest of the request goes by.     *)
FindOrder(r, o) ==
    /\ req[r].pc = "idle"
    /\ OnlyRequest(r, [NewRequest EXCEPT !.pc = "found", !.order = o,
                          !.pending = (status[o] = "PENDING"),
                          !.pi = intentId[o]])
    /\ UNCHANGED <<dbVars, locks, stripeVars, handed>>

(* The checks on the order, and the choice between its stored intent, the  *)
(* lock of a request that is creating one, and taking the lock.            *)
Payable(r) == req[r].pending /\ Total[req[r].order] > 0

RejectOrder(r) ==
    /\ req[r].pc = "found"
    /\ ~Payable(r)
    /\ OnlyRequest(r, Ended("rejected"))
    /\ UNCHANGED <<dbVars, locks, stripeVars, handed>>

UseStoredIntent(r) ==
    /\ req[r].pc = "found"
    /\ Payable(r)
    /\ req[r].pi # None
    /\ OnlyRequest(r, [req[r] EXCEPT !.pc = "retrieving"])
    /\ UNCHANGED <<dbVars, locks, stripeVars, handed>>

AwaitCreation(r) ==
    /\ req[r].pc = "found"
    /\ Payable(r)
    /\ req[r].pi = None
    /\ locks[req[r].order] # None
    /\ OnlyRequest(r, [req[r] EXCEPT !.pc = "waiting",
                                     !.holder = locks[req[r].order]])
    /\ UNCHANGED <<dbVars, locks, stripeVars, handed>>

TakeLock(r) ==
    LET o == req[r].order
    IN  /\ req[r].pc = "found"
        /\ Payable(r)
        /\ req[r].pi = None
        /\ locks[o] = None
        /\ locks' = [locks EXCEPT ![o] = r]
        /\ OnlyRequest(r, [req[r] EXCEPT !.pc = "holding"])
        /\ UNCHANGED <<dbVars, stripeVars, handed>>

(* The promise waited for is resolved; the order is read again.            *)
ReReadAfterWait(r) ==
    LET o == req[r].order
    IN  /\ req[r].pc = "waiting"
        /\ locks[o] # req[r].holder
        /\ OnlyRequest(r, IF intentId[o] = None
                            THEN Ended("rejected")
                            ELSE [req[r] EXCEPT !.pc = "retrieving",
                                                !.pi = intentId[o],
                                                !.holder = None])
        /\ UNCHANGED <<dbVars, locks, stripeVars, handed>>

(* Mutant of ReReadWithLock: the holder trusts what it read before.        *)
ReReadWithLockSkipped(r) ==
    /\ req[r].pc = "holding"
    /\ OnlyRequest(r, [req[r] EXCEPT !.pc = "creating"])
    /\ UNCHANGED <<dbVars, locks, stripeVars, handed>>

(* The holder of the lock reads the order again before it creates.         *)
ReReadWithLock(r) ==
    LET o == req[r].order
    IN  /\ req[r].pc = "holding"
        /\ OnlyRequest(r, IF intentId[o] = None
                            THEN [req[r] EXCEPT !.pc = "creating"]
                            ELSE [req[r] EXCEPT !.pc = "retrieving", !.pi = intentId[o]])
        /\ UNCHANGED <<dbVars, locks, stripeVars, handed>>

(* After the intent is known and any lock released: an intent that can no  *)
(* longer be paid is refused, one this request has not stored is stored    *)
(* again, and the secret is returned.                                      *)
Checked(r, usable) ==
    IF ~usable
      THEN Ended("rejected")
      ELSE [req[r] EXCEPT !.pc = IF req[r].stored THEN "replying" ELSE "restoring",
                          !.usable = usable]

HasLock(r) == locks[req[r].order] = r

(* stripe.paymentIntents.retrieve, with or without the lock.               *)
RetrieveIntent(r) ==
    LET usable == intents[req[r].pi].state = "requires_payment_method"
    IN  /\ req[r].pc = "retrieving"
        /\ OnlyRequest(r, IF HasLock(r)
                            THEN [req[r] EXCEPT !.pc = "unlocking", !.usable = usable]
                            ELSE Checked(r, usable))
        /\ UNCHANGED <<dbVars, locks, stripeVars, handed>>

(* Mutant of Obtained: the creator forgets to store the intent.            *)
ObtainedUnstored(r, i) ==
    OnlyRequest(r, [req[r] EXCEPT !.pc = "unlocking", !.pi = i, !.usable = TRUE,
                                  !.stored = TRUE])

(* stripe.paymentIntents.create under the order's idempotency key: Stripe  *)
(* answers a key it knows with what it answered the first time.            *)
Obtained(r, i) ==
    OnlyRequest(r, [req[r] EXCEPT !.pc = "storing", !.pi = i, !.usable = TRUE])

(* Mutant of CreateIntent: no idempotency key is sent.                     *)
CreateIntentUnkeyed(r, i) ==
    /\ req[r].pc = "creating"
    /\ i \notin Foreign
    /\ intents[i].state = "absent"
    /\ intents' = [intents EXCEPT ![i] =
            [ state |-> "requires_payment_method", order |-> req[r].order,
              amount |-> Total[req[r].order], attempts |-> 0 ]]
    /\ Obtained(r, i)
    /\ UNCHANGED <<dbVars, locks, keyed, events, acked, handed>>

CreateIntent(r, i) ==
    LET o == req[r].order
    IN  /\ req[r].pc = "creating"
        /\ keyed[o] = None
        /\ i \notin Foreign
        /\ intents[i].state = "absent"
        /\ intents' = [intents EXCEPT ![i] =
                [ state |-> "requires_payment_method", order |-> o,
                  amount |-> Total[o], attempts |-> 0 ]]
        /\ keyed' = [keyed EXCEPT ![o] = i]
        /\ Obtained(r, i)
        /\ UNCHANGED <<dbVars, locks, events, acked, handed>>

ReplayIntent(r) ==
    /\ req[r].pc = "creating"
    /\ keyed[req[r].order] # None
    /\ Obtained(r, keyed[req[r].order])
    /\ UNCHANGED <<dbVars, locks, stripeVars, handed>>

(* updatePaymentIntentId, by the creator ...                               *)
StoreIntent(r) ==
    /\ req[r].pc = "storing"
    /\ intentId' = [intentId EXCEPT ![req[r].order] = req[r].pi]
    /\ OnlyRequest(r, [req[r] EXCEPT !.pc = "unlocking", !.stored = TRUE])
    /\ UNCHANGED <<status, processed, locks, stripeVars, handed>>

(* ... and by a request that has only retrieved the intent.                *)
RestoreIntent(r) ==
    /\ req[r].pc = "restoring"
    /\ intentId' = [intentId EXCEPT ![req[r].order] = req[r].pi]
    /\ OnlyRequest(r, [req[r] EXCEPT !.pc = "replying"])
    /\ UNCHANGED <<status, processed, locks, stripeVars, handed>>

(* finally: the promise is resolved and leaves the map, in one step with   *)
(* the checks that follow, or with the error that is on its way.           *)
Unlock(r) ==
    /\ req[r].pc \in {"unlocking", "unwinding"}
    /\ locks' = [locks EXCEPT ![req[r].order] = None]
    /\ OnlyRequest(r, IF req[r].pc = "unwinding"
                        THEN Ended("failed")
                        ELSE Checked(r, req[r].usable))
    /\ UNCHANGED <<dbVars, stripeVars, handed>>

(* The customer receives the client secret.                                *)
Reply(r) ==
    LET o == req[r].order
    IN  /\ req[r].pc = "replying"
        /\ handed' = [handed EXCEPT ![o] = @ \cup {req[r].pi}]
        /\ OnlyRequest(r, Ended("answered"))
        /\ UNCHANGED <<dbVars, locks, stripeVars>>

(* Mutant of Fail: the lock is released after the try block, not in a      *)
(* finally.                                                                *)
FailKeepingLock(r) ==
    /\ faults < MaxFaults
    /\ \/ req[r].pc \in {"holding", "creating", "storing", "unlocking"} \cup Calling
       \/ req[r].pc = "waiting" /\ locks[req[r].order] # req[r].holder
    /\ req' = [req EXCEPT ![r] = Ended("failed")]
    /\ faults' = faults + 1
    /\ UNCHANGED <<dbVars, locks, hook, stripeVars, handed>>

(* A call to the database or to Stripe fails, or its answer is lost.       *)
Fail(r) ==
    /\ faults < MaxFaults
    /\ \/ req[r].pc \in {"holding", "creating", "storing", "unlocking"} \cup Calling
       \/ req[r].pc = "waiting" /\ locks[req[r].order] # req[r].holder
    /\ req' = [req EXCEPT ![r] = IF HasLock(r) THEN [req[r] EXCEPT !.pc = "unwinding"]
                                               ELSE Ended("failed")]
    /\ faults' = faults + 1
    /\ UNCHANGED <<dbVars, locks, hook, stripeVars, handed>>

-----------------------------------------------------------------------------
(* Stripe and the customer                                                 *)

(* Stripe forgets an idempotency key, at the earliest a day after its use. *)
ForgetKey(o) ==
    /\ ~KeysLast
    /\ keyed[o] # None
    /\ keyed' = [keyed EXCEPT ![o] = None]
    /\ UNCHANGED <<dbVars, locks, req, hook, intents, events, acked, handed, faults>>

StripeStep(i, state, kinds) ==
    /\ intents' = [intents EXCEPT ![i].state = state]
    /\ events' = events \cup
         {[intent |-> i, kind |-> k, attempt |-> intents[i].attempts] : k \in kinds}
    /\ UNCHANGED <<dbVars, locks, req, hook, keyed, acked, handed, faults>>

(* Whoever has the secret of an intent may try to pay with it.             *)
Pay(i) ==
    /\ i \in Foreign \/ \E o \in Orders : i \in handed[o]
    /\ intents[i].state = "requires_payment_method"
    /\ intents[i].attempts < MaxAttempts
    /\ intents' = [intents EXCEPT ![i].state = "processing", ![i].attempts = @ + 1]
    /\ UNCHANGED <<dbVars, locks, req, hook, keyed, events, acked, handed, faults>>

Succeed(i) ==
    /\ intents[i].state = "processing"
    /\ StripeStep(i, "succeeded", {"succeeded"})

(* A declined attempt leaves the intent open for another card.             *)
Decline(i) ==
    /\ intents[i].state = "processing"
    /\ StripeStep(i, "requires_payment_method", {"payment_failed"})

(* The intent is canceled from outside, as from Stripe's dashboard.        *)
CancelIntent(i) ==
    /\ intents[i].state = "requires_payment_method"
    /\ StripeStep(i, "canceled", {"canceled"})

-----------------------------------------------------------------------------
(* handleWebhookEvent                                                      *)

OnlyHook(h, new) ==
    /\ hook' = [hook EXCEPT ![h] = new]
    /\ UNCHANGED <<locks, req, intents, keyed, events, handed>>

(* Mutant of Deliver: every event is acknowledged before it is processed.  *)
DeliverAckingFirst(h, e) ==
    /\ hook[h].pc = "idle"
    /\ acked' = acked \cup {e}
    /\ OnlyHook(h, IF e.kind = "canceled" THEN hook[h] ELSE [pc |-> "finding", event |-> e])
    /\ UNCHANGED <<dbVars, faults>>

(* Stripe delivers any event, as often as it likes and in any order; an    *)
(* event type the shop does not handle is acknowledged at once.            *)
Deliver(h, e) ==
    /\ hook[h].pc = "idle"
    /\ IF e.kind = "canceled"
         THEN /\ acked' = acked \cup {e}
              /\ OnlyHook(h, hook[h])
         ELSE /\ OnlyHook(h, [pc |-> "finding", event |-> e])
              /\ UNCHANGED acked
    /\ UNCHANGED <<dbVars, faults>>

(* findByPaymentIntentId and the checks on metadata and amount: an event   *)
(* that matches no order is acknowledged and dropped.                      *)
Concerns(e, o) ==
    /\ intentId[o] = e.intent
    /\ intents[e.intent].order = o
    /\ e.kind = "succeeded" => intents[e.intent].amount = Total[o]

FindByIntent(h) ==
    /\ hook[h].pc = "finding"
    /\ IF \E o \in Orders : Concerns(hook[h].event, o)
         THEN /\ OnlyHook(h, [hook[h] EXCEPT !.pc = "processing"])
              /\ UNCHANGED acked
         ELSE /\ acked' = acked \cup {hook[h].event}
              /\ OnlyHook(h, NoHook)
    /\ UNCHANGED <<dbVars, faults>>

(* Mutants of Outcome: every event confirms; the event's own word is the   *)
(* status.                                                                 *)
OutcomeOptimistic(e) == "CONFIRMED"
OutcomeVerbatim(e) == e.kind

Outcome(e) == IF e.kind = "succeeded" THEN "CONFIRMED" ELSE "CANCELLED"

(* processPaymentEvent, one transaction: the unique event id serialises    *)
(* deliveries of the same event, and the update takes PENDING orders only. *)
ProcessPaymentEvent(h) ==
    LET e == hook[h].event
    IN  /\ hook[h].pc = "processing"
        /\ IF e \in processed
             THEN UNCHANGED <<status, processed>>
             ELSE /\ processed' = processed \cup {e}
                  /\ status' = [o \in Orders |->
                        IF intentId[o] = e.intent /\ status[o] = "PENDING"
                          THEN Outcome(e) ELSE status[o]]
        /\ OnlyHook(h, [hook[h] EXCEPT !.pc = "acking"])
        /\ UNCHANGED <<intentId, acked, faults>>

(* Stripe receives the 200.                                                *)
Ack(h) ==
    /\ hook[h].pc = "acking"
    /\ acked' = acked \cup {hook[h].event}
    /\ OnlyHook(h, NoHook)
    /\ UNCHANGED <<dbVars, faults>>

(* Mutant of HookFails: the event is recorded in a statement of its own,   *)
(* which stays when the handler fails.                                     *)
HookFailsRecorded(h) ==
    /\ faults < MaxFaults
    /\ hook[h].pc # "idle"
    /\ faults' = faults + 1
    /\ processed' = processed \cup {hook[h].event}
    /\ OnlyHook(h, NoHook)
    /\ UNCHANGED <<status, intentId, acked>>

(* The handler fails, before or after its transaction, or its 200 is lost. *)
HookFails(h) ==
    /\ faults < MaxFaults
    /\ hook[h].pc # "idle"
    /\ faults' = faults + 1
    /\ OnlyHook(h, NoHook)
    /\ UNCHANGED <<dbVars, acked>>

(* The process dies with its requests, its deliveries and its locks.       *)
Crash ==
    /\ faults < MaxFaults
    /\ faults' = faults + 1
    /\ req' = [r \in Requests |->
                 IF req[r].pc \in {"idle"} \cup Final THEN req[r] ELSE Ended("failed")]
    /\ hook' = [h \in Hooks |-> NoHook]
    /\ locks' = [o \in Orders |-> None]
    /\ UNCHANGED <<dbVars, stripeVars, handed>>

-----------------------------------------------------------------------------
RequestStep(r) ==
    \/ RejectOrder(r) \/ UseStoredIntent(r) \/ AwaitCreation(r) \/ TakeLock(r)
    \/ ReReadAfterWait(r) \/ ReReadWithLock(r)
    \/ RetrieveIntent(r)
    \/ \E i \in Intents : CreateIntent(r, i)
    \/ ReplayIntent(r)
    \/ StoreIntent(r) \/ RestoreIntent(r) \/ Unlock(r) \/ Reply(r)

HookStep(h) == FindByIntent(h) \/ ProcessPaymentEvent(h) \/ Ack(h)

CustomerStep(i) == Pay(i) \/ Succeed(i) \/ Decline(i) \/ CancelIntent(i)

Next ==
    \/ \E r \in Requests :
         \/ \E o \in Orders : FindOrder(r, o)
         \/ RequestStep(r)
         \/ Fail(r)
    \/ \E h \in Hooks :
         \/ \E e \in events : Deliver(h, e)
         \/ HookStep(h)
         \/ HookFails(h)
    \/ \E i \in Intents : CustomerStep(i)
    \/ \E o \in Orders : ForgetKey(o)
    \/ Crash

Spec == Init /\ [][Next]_vars

(* The event loop runs every request and delivery it has begun, and Stripe *)
(* delivers an event until it is acknowledged, however many other          *)
(* deliveries occupy the process in between (stated for the events of      *)
(* captured payments, the ones a property depends on).                     *)
Redeliver(i) ==
    \E e \in events \ acked, h \in Hooks :
        e.intent = i /\ e.kind = "succeeded" /\ Deliver(h, e)

Fairness ==
    /\ \A r \in Requests : WF_vars(RequestStep(r))
    /\ \A h \in Hooks : WF_vars(HookStep(h))
    /\ \A i \in Intents : SF_vars(Redeliver(i))

FairSpec == Spec /\ Fairness
-----------------------------------------------------------------------------
(* What must hold                                                          *)

(* A client secret leaves the server only once its intent is the order's   *)
(* stored intent, and stays so: a customer never holds two payable intents *)
(* of one order, and no payment is ever for an intent the webhook cannot   *)
(* find.  The lock with its second read, the write before the reply and    *)
(* the rewrite of a retrieved intent all have a part in it.                *)
SecretsAreStored == \A o \in Orders : handed[o] \subseteq {intentId[o]}

(* A confirmed order was paid: its own intent has captured exactly its     *)
(* total.                                                                  *)
ConfirmedIsPaid ==
    \A o \in Orders : status[o] = "CONFIRMED" =>
        /\ intentId[o] # None
        /\ intents[intentId[o]].state = "succeeded"
        /\ intents[intentId[o]].order = o
        /\ intents[intentId[o]].amount = Total[o]

(* An event about an order's payment that Stripe no longer delivers has    *)
(* been recorded and has settled the order: no 200 drops a payment, in     *)
(* whatever order deliveries, failures and crashes come.                   *)
AckedIsApplied ==
    \A e \in acked :
        (e.kind # "canceled" /\ intents[e.intent].order # None) =>
            /\ e \in processed
            /\ status[intents[e.intent].order] # "PENDING"

(* While Stripe remembers idempotency keys an order never has two intents, *)
(* not even after a crash between the creation and its record.             *)
OneIntentPerOrder ==
    KeysLast => \A i, j \in Intents :
        (intents[i].order # None /\ intents[i].order = intents[j].order) => i = j

(* The lock of an order is held by one request that is still at work on    *)
(* it: no error path, and no crash, leaves a lock that nobody releases.    *)
LocksAreLive ==
    /\ \A o \in Orders : locks[o] # None =>
          /\ req[locks[o]].order = o
          /\ req[locks[o]].pc \in Locked \cup {"retrieving"}
    /\ \A r \in Requests : req[r].pc \in Locked => HasLock(r)

(* An order's intent is written once: no request that raced its creation,  *)
(* and no retry after a failure or a forgotten key, puts another in its    *)
(* place and cuts a customer's payment off from the order.                 *)
IntentWrittenOnce ==
    [][\A o \in Orders : intentId[o] # None => intentId'[o] = intentId[o]]_vars

(* Every request that has begun is answered: nobody waits for a lock for   *)
(* ever, whatever happens to its holder.                                   *)
RequestsAnswered ==
    \A r \in Requests : req[r].pc # "idle" ~> req[r].pc \in Final

(* A captured payment settles its order in the end.                        *)
PaymentsSettle ==
    \A o \in Orders, i \in Intents :
        (intents[i].order = o /\ intents[i].state = "succeeded") ~> status[o] # "PENDING"

(* Until a captured payment has settled its order, Stripe still has its    *)
(* event to deliver, and the handler that receives it finds the order and  *)
(* applies it: nothing is left that would have to happen first, and no     *)
(* other request or event is needed to put things right.                   *)
CapturesAreDue ==
    \A o \in Orders, i \in Intents :
        intents[i].order = o /\ intents[i].state = "succeeded" /\ status[o] = "PENDING" =>
            \E e \in events \ (acked \cup processed) :
                e.intent = i /\ e.kind = "succeeded" /\ Concerns(e, o)

(* "Do NOT cancel the order on payment_failed ... (money charged, order    *)
(* canceled)" (payments.service.ts:186-188).                               *)
PaidIsNotCancelled ==
    \A o \in Orders : intentId[o] # None =>
        ~(intents[intentId[o]].state = "succeeded" /\ status[o] = "CANCELLED")

(* The requests, webhooks and failures implement the ledger of payments:   *)
(* an order is charged at most once, also when a key was forgotten, is     *)
(* confirmed only when charged, cancelled only after a refusal, and once   *)
(* settled stays so, whatever late, repeated or reordered event arrives.   *)
Captured == [o \in Orders |->
    {i \in Intents : intents[i].order = o /\ intents[i].state = "succeeded"}]
Declined == [o \in Orders |->
    \E e \in events : e.kind = "payment_failed" /\ intents[e.intent].order = o]
L == INSTANCE PaymentLedger WITH captured <- Captured, declined <- Declined
ChargedOnce == L!LSpec
=============================================================================

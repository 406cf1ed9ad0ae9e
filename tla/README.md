# Verification of the shop's API

TLA+ specifications of the e-commerce API in this repository (NestJS, Prisma on
PostgreSQL, Stripe, Cloudinary), the TLC configurations that check them on
small instances, and proofs, checked by TLAPS, of what holds for every instance.

Paths below are relative to the repository; `prisma-order.repository.ts` is
`src/orders/infrastructure/prisma-order.repository.ts`, and so on.

## 1. The system

| Component | State it keeps | Operations | What is hard |
|---|---|---|---|
| Checkout and orders (`orders/`) | `Order`, `OrderItem`; takes from `Product.stock`, empties `CartItem` | `checkout` (one interactive transaction), reads | concurrent transactions at READ COMMITTED, row locks and deadlocks, rollback half-way, the cart changing under the checkout |
| Payments (`payments/`) | in-process map of creation locks; `Order.status`, `Order.stripePaymentIntentId`, `ProcessedStripeEvent`; intents, idempotency keys and events at Stripe | `createPaymentIntent`, `handleWebhookEvent` | what was read before an `await` is stale after it; failed calls whose effect took place; crashes; events late, twice, out of order, concurrent |
| Cart (`cart/`) | `Cart`, `CartItem` | get (creates it), add, set quantity, remove, clear | creation on first use by two requests, cart against checkout |
| Products (`products/`, `cloudinary/`) | `Product`, `ProductImage`; assets at Cloudinary | create, update, delete, reads | two stores without a common transaction: which images survive which failure |
| Auth and users (`auth/`, `users/`) | `User`: password, hash of the refresh token, verification and reset tokens | register, login, Google login, refresh, logout, verify, resend, forgot, reset, profile | sessions revoked while another request is between its read and its write; single use of tokens |
| Categories (`categories/`) | `Category` | create, update, delete | deletion against products |
| Maintenance scripts (`prisma/seed.ts`, `prisma/clean-old-catalog.ts`) | `Category`, `Product`, `ProductImage`, `CartItem`; what they have listed | seed (upserts, no transaction), cleanup (a list, then one transaction) | stopped half-way and run again; rows that change between list and deletion; locks that checkouts take in another order |
| Guards, throttling, configuration, e-mail, health, Swagger | none, or a library's | | pure input and output |

The components share the database and call each other only through it: a
checkout reads the cart and takes stock that an administrator edits; payments
read the orders that a checkout created; deleting a product removes it from
carts; the scripts are processes of their own that change the catalog and carts
while the server runs. The server is one Node.js event loop, so code between two `await`s is
atomic, and everything else interleaves.

What makes each component correct:

- Checkout: no product is oversold, an order is all or nothing, its total is the
  sum of its lines, units neither appear nor vanish, every checkout is answered.
- Payments: a client secret belongs to the intent the order stores, an order is
  charged at most once and confirmed only when its full total was captured, no
  acknowledged event is lost, every capture settles its order.
- Cart: one cart per user, each request takes effect once and at once whatever
  overlaps it, no item outlives its product, what is not ordered is not cleared.
- Catalog: what a product shows exists at Cloudinary, what is rejected or
  replaced does not stay there.
- Accounts: an address is verified and a password changed only by proof of the
  address, ended sessions stay ended, tokens work once, a Google account is one
  account.
- Scripts: the cleanup is all or nothing and orphans nothing, a seed that was
  interrupted converges when it is run again, nobody waits for ever.

## 2. The modules

| Module | What it is |
|---|---|
| `Purchases` | abstract: atomic purchases of goods on the shelf |
| `Checkout` | the checkout transaction, statement by statement, beside cart operations and administrator edits |
| `MCCheckout` | instances of `Checkout` for TLC |
| `CheckoutProofs` | proofs about `Checkout`, and that it implements `Purchases` |
| `Carts` | abstract: carts that every request changes at once, and is then shown |
| `Cart` | the cart service: reads, creation on first use, the one write, the answer |
| `MCCart` | instances of `Cart` for TLC |
| `CartProofs` | proofs about `Cart`, and that it implements `Carts` |
| `PaymentLedger` | abstract: an order is charged at most once, confirmed only after that, cancelled only after a refusal |
| `Payments` | the payment service, Stripe, the customer, failures and crashes |
| `MCPayments` | instances of `Payments` for TLC |
| `PaymentsProofs` | proofs about `Payments`, and that it implements `PaymentLedger` |
| `Identities` | abstract: accounts that change at once, by whoever has proved the right to |
| `Accounts` | accounts, sessions, e-mail tokens and Google logins, await by await |
| `MCAccounts` | instances of `Accounts` for TLC |
| `AccountsProofs` | proofs about `Accounts`, and that it implements `Identities` |
| `Catalog` | products with their images at Cloudinary, and categories |
| `MCCatalog` | instances of `Catalog` for TLC |
| `CatalogProofs` | proofs about `Catalog` |
| `Maintenance` | the seed and the cleanup, statement by statement, beside checkouts, customers and the administrator |
| `MCMaintenance` | instances of `Maintenance` for TLC |
| `MaintenanceProofs` | proofs about `Maintenance` |
| `FiniteFacts` | facts about finite sets that the proofs share: induction over subsets, cycles, sums |

`Checkout` composes what the checkout shares with others: the cart's items, the
stock and price that an administrator edits, the deletion of a product from
carts. `Payments` starts where `Checkout` ends, at orders that are pending.

Operators whose comment begins with "Mutant of" are plausible mistakes in the
operator that follows them. No specification uses them; each shows, put in that
operator's place, that a property can fail.

### Checkout

One action per statement of the transaction in `prisma-order.repository.ts:17-67`:
`ReadCart` and `ReadProducts` (the two queries behind `include`), `PickItem` and
`Decrement` for each round of the loop, `Commit` (order, items, `deleteMany` and
commit, which nobody can see between; the request answers "ordered", or, when the
answer to COMMIT is lost and `$transaction` rejects, 500 although the order
exists), `Abort` (an end without effect: lost connection, crash, Prisma's time
limit, an overflowing column) and `BreakDeadlock`. `stock` is the committed
level; a transaction's own decrements are the items of the rows it has locked,
which take effect at `Commit` and vanish in `Rollback`. `updateMany` waits for a
locked row that it matches and evaluates its condition again when it gets it,
and gives up at once on a row that does not match. Beside it run the four cart
operations, each a statement of its own, and an administrator's `PATCH` (an
absolute stock level and price) and `DELETE`.

The proof of `AtomicPurchases` maps a commit to one purchase of everything the
request read, an edit to a level being written and everything else to nothing.

### Cart

A request of `cart.service.ts` first gets or creates the cart (`FindByUserId`,
`FoundProducts`, `CreateForUser`), then makes its one write (`AddItem`,
`UpdateItemQuantity`, `RemoveItem`, `Clear`), then reads the cart for its answer
(`ReadBack`, `ReadProducts`). A read is two actions, as Prisma queries the items
and then their products, and a product deleted in between makes it fail. The
upsert of `addItem` adds to the row as it is then; `P2003` and `P2025` are the
refusals; a sum beyond the column's largest `Int` (`MaxInt`) is an error of the
statement. The unique `userId` decides who creates a cart, and the loser's
request ends with 500. `DeleteProduct` cascades to items, `CheckOut` is the commit
of a checkout, and `Fail` ends a request at any point.

The proof of `AtomicCarts` maps the write to one change of the abstract cart, the
read that the answer is made of to one look at it, and everything else to
nothing.

### Payments

`createPaymentIntent` is one action per `await` (`FindOrder`, `AwaitCreation`,
`ReReadAfterWait`, `ReReadWithLock`, `RetrieveIntent`, `CreateIntent` or
`ReplayIntent`, `StoreIntent`, `RestoreIntent`, `Reply`) and one for the code of
`finally` with the checks behind it (`Unlock`). `req[r]` holds the locals of a
request; `locks` is `paymentIntentCreationLocks`. `Fail` makes a call fail: at a
program point before a call it had no effect, at the one after it its answer was
lost. `Crash` ends all requests, deliveries and locks. Stripe keeps one intent
per idempotency key (`keyed`) until it forgets the key (`ForgetKey`). An intent
is tried (`Pay`), declined, which leaves it open for another card, succeeds, or
is canceled from outside; `Deliver` hands any event over, any number of times,
in any order, to any of several concurrent handlers. The handler is `FindByIntent`
with its checks, `ProcessPaymentEvent` (one transaction) and `Ack`.

`handed` is a history variable: whose client secret has left the server.

### Accounts

One action per `await` of `auth.service.ts` that something else can come before:
the read that decides (`Register`, `Login`, `Refresh`, `VerifyEmail`,
`ResendVerification`, `ForgotPassword`, `ResetPassword`, `LoginWithGoogle`,
`FindGoogleEmail`) and the write that follows it (`CreateUser`,
`UpdateRefreshTokenHash` after `Sign`, `MarkVerified`, `StoreVerification`,
`UpdatePasswordReset`, `UpdatePassword`, `LinkGoogle`, `VerifyLinked`,
`CreateGoogleUser`). A request that is refused writes nothing, so only accepted
ones are actions; a unique constraint is an `IF` in the write. `Fail` ends a
request anywhere, for a database error or a crash. `users` is the table, by
address; `req[r]` holds what a request read, with the right by which it signs
tokens; `mail` and `held` are what mailboxes and clients have received.

A refresh token is its user and the second in which it was signed, as the code
signs nothing else into it: two tokens of one user signed in one second are
equal. Hashes are injective. The access token is not modelled: no state depends
on it.

The proof of `ProvenIdentities` maps the write that ends a request's first part
to one change of the abstract account: an insert to a registration, the storing
of a fresh token to a letter, the marking, resetting and linking writes to their
namesakes. Sessions, tokens and reads are not seen. The second write of a Google
login is a verification of its own, as the link may be all that is stored.

### Catalog

A request is one `create`, `update` or `delete` of `products.service.ts`:
`Create`, `Update` and `Delete` read what the code reads first, `UploadImage`
uploads one file after the other, `Save` is the statement, whose foreign key and
row may have gone in the meantime, `Saved` is its answer, and `DeleteImage` with
`Cleaned` is `cleanupCloudinaryImages`, whose destructions run at once and whose
failures are ignored. `delete` destroys the images before the row
(`DeleteProduct`), as the code does. `UploadFails`, `SaveFails`,
`DeleteImageFails` and `DeleteProductFails` are calls that fail, with or without
effect; `Crash` ends every request. Categories are one statement each: their
reads beforehand only choose the error that is answered.

Two properties have named exceptions, each a behaviour of this code.
`Disturbed`: while a deletion is under way, or after it failed, the product has
lost its images; and a statement that was committed but whose answer was lost
makes the `catch` block destroy images that the database shows. `overtaken`: a
deletion or update that read the product before another update stored its
images never learns of those, and they stay at Cloudinary for good. The history
variable `overtaken` holds exactly these: what a statement took out of the
catalog without its request having read it. An asset whose upload answer was
lost has no `public_id` in any request; it stays too, and `RejectedLeavesNothing`
speaks only of uploads that a request knows of.

### Maintenance

`seed.ts` is one action per statement, each of which commits: `UpsertCategory`
(which `Promise.all` sends in any order), then for each product `UpsertProduct`,
`DropImages` and `CreateImage`. A category or a product that disappears in the
meantime ends the run by its foreign key. `clean-old-catalog.ts` is its two
queries (`ListCategories`, `ListProducts`, which ends the run without
`--execute`) and its transaction: `DeleteItems`, `DeleteImages`, `PickRow` and
`DeleteRow` for each row of `product.deleteMany`, and `CommitClean` for
`category.deleteMany` with the commit. An open transaction's deletions are not
seen by others: they are the cart items in `run.held` and the product rows that
`Script` has locked, and take effect at the commit. Checkouts lock product rows
first and cart items last, the cleanup the other way round; `BreakDeadlock` is
PostgreSQL ending one of them. `RunFails` is a failed call or a death of the
script. The operator runs one script at a time. `edited` is a history variable:
what the administrator has touched since a seed began.

## 3. What is checked

`CHECK_DEADLOCK FALSE` throughout: each request runs once, or bounded counters
run out, so a model stops when all is done. That requests do not wait for ever
is checked as liveness.

| Run | Instance | Properties | Shows |
|---|---|---|---|
| `checkout_races` | 3 requests, 1 cart, 2 products, stock 1 or 2, quantities to 1, fair | `PendingUnitsCovered`, `SomebodyRuns`, `CheckoutsAdvance`, `AtomicPurchases`, `CheckoutsAnswered` | no oversell; every behaviour is one of atomic purchases; waiting for rows ends, because somebody can always run and nobody runs for ever |
| `checkout_edits` | 2 requests, 1 cart, 2 products, quantities to 2, 2 prices, 1 edit | `TypeOK`, `StockConserved`, `AllOrNothing`, `OrderTotalsMatch` | units, orders and totals add up whatever fails or is edited |
| `checkout_converts` | 2 requests, 1 cart, 1 product, fair | `ConvertsTheCart` (violated) | section 6 |
| `payments_events` | 1 order, 3 requests, 2 deliveries at a time, 2 intents, 2 attempts, 2 faults, keys forgotten | `TypeOK`, `SecretsAreStored`, `LocksAreLive`, `IntentWrittenOnce`, `ConfirmedIsPaid`, `AckedIsApplied`, `ChargedOnce` | the lock, the second read and the order of store and reply do their work, so that an order is charged at most once although keys are forgotten, and settled for good; no event is lost, applied twice or applied wrongly |
| `payments_ledger` | 2 orders, 2 requests, 2 intents, 2 attempts, 1 fault, fair | `OneIntentPerOrder`, `CapturesAreDue`, `RequestsAnswered`, `PaymentsSettle` | an order has one intent, every request is answered, every captured payment settles its order, and until then has an event to come that will |
| `payments_declined` | 1 order, 1 request, 2 attempts | `PaidIsNotCancelled` (violated) | section 6 |
| `accounts_races` | 2 addresses, 2 passwords, 2 Google accounts with either address, 2 requests, 2 e-mail tokens that last for the second they are issued in | `TypeOK`, `OneAccountPerGoogle`, `SignInsAreEarned`, `VerifiedByProof`, `PasswordsChangeByMail`, `VerifiedForGood`, `ProvenIdentities` | no race verifies an address, changes a password, gives a Google account a second account or signs anybody in to an account he has not earned; every behaviour is one of accounts that change at once and by right |
| `accounts_logout` | 1 address, 2 requests, 1 e-mail token | `EndedSessionsStayEnded` (violated) | section 6 |
| `accounts_twice` | 1 address, 2 passwords, 2 requests, 2 e-mail tokens | `ResetTokensWorkOnce` (violated) | section 6 |
| `cart_races` | 3 requests of one user, 1 product, quantities to 2, a column that holds 3, 1 fault | `TypeOK`, `ItemsHaveProducts`, `AtomicCarts` | overlapping requests, from the first one on, take effect one after the other |
| `catalog_images` | 3 requests, a product with an image and a new one, 2 more images, 2 categories, 2 names, 1 fault | `TypeOK`, `ImagesExist`, `RejectedLeavesNothing`, `NothingLeaks` | images in the catalog exist, rejected and replaced ones are destroyed |
| `maintenance_scripts` | 2 runs of scripts, a product of the seed and a legacy one, 3 category ids, 1 customer with 1 checkout, 1 edit, 1 fault, fair | `TypeOK`, `NoOrphans`, `SeedConverges`, `SomebodyRuns`, `CleanIsAtomic`, `EverybodyEnds` | the cleanup is atomic, the seed converges, deadlocks with checkouts are broken |

Why the bounds are enough. A race over a row needs two transactions, a deadlock
two rows, and a third request shows that the loser of a race, and whoever waits
behind it, is served properly; the three requests of `checkout_races` share one
cart, which is edited between their reads, so that they come with different
items as those of three customers do. A lock needs a holder, a waiter and one
that arrives after its release. Two deliveries give every overlap of two
events, two attempts a declined card followed by a good one, and two faults a
failure during the recovery from another. The actors of `Accounts` are requests
that may be repeated without end; two at a time give every overlap of a read
and a write with what others write, two tokens a stale one beside a fresh one.
The e-mail tokens of `accounts_races` outlive the second they are issued in and
expire in the next; its two Google accounts may come with either address, at any
time, so that a link can be taken over while a login with the older one is under
way.
In `Catalog` two updates can each store an image, or one two, and the third
request is a deletion or an update that comes before, between or after. In
`Cart` three requests give a creation that overtakes another while a third is
already past it, and a column that holds 3 is exceeded by the second addition of
2. In `Maintenance` two runs are an interrupted one and its repetition, or a seed
and a cleanup in either order; each script's statements meet one edit of every
kind, and the two products are the two rows a deadlock needs. `payments_events`
has no intents of another application (`Foreign`): that such events are ignored
is left to the proofs. What
does not depend on the bounds is proved (section 5).

## 4. Fairness

Runs marked fair use `FairSpec`; all others show safety of `Spec`.

`Checkout!Fairness`: the server goes on with a transaction it has begun, and
PostgreSQL looks for deadlocks (weak fairness per request). No new request, cart
operation, edit or failure is promised. `Payments!Fairness`: the event loop runs
each request and each delivery it has begun (weak fairness), and Stripe delivers
the event of a captured payment until it is answered with 200 (strong fairness,
as a free handler comes and goes), which is Stripe's documented behaviour for
webhooks. Faults are bounded by `MaxFaults`, so they end. `Maintenance!Fairness`: a script
and a checkout go on once begun, and PostgreSQL looks for deadlocks (weak
fairness); that suffices because a row is locked by a transaction that ends, or
by one in a cycle that is broken. Runs, edits, customers and failures are
promised nothing. `Accounts`, `Catalog` and `Cart` state no liveness: nobody
waits for anybody there.

## 5. What is proved

For every value of the constants that satisfies the named assumptions
(`CheckoutAssumption`, `NoneIsNoOrder`, `FiniteCatalog`, `PaymentsAssumption`,
`AccountsAssumption`, `NoneIsNoRecord`, `CatalogAssumption`, `CartAssumption`,
`NoneIsNoWish`, `MaintenanceAssumption`: numbers are natural numbers, `None` and
`Gone` are nothing else, products start with images of their own, a request asks
for no more than the column holds, a shop has finitely many products, and the
seed's list, a constant of `seed.ts`, is not empty). Each component's invariant
begins with its `TypeOK`, which is a theorem of its own (`CheckoutTypes` and so
on).

`CheckoutProofs`: the inductive invariant `CheckoutInv` is `TypeOK`, `PointsOK`
(what a transaction has read and has left to do at each point), `AllOrNothing`
and `PendingUnitsCovered`. The units of a locked row stay covered because nobody
else can change a locked row's stock, and `AllOrNothing` says which rows those
are. It says too that who was told of an order has one, and that who was refused
or is under way has none; after a 500 either may be. Theorems: `CheckoutInvariant`, `NoOversell`, `CheckoutIsAtomic`,
`CheckoutImplementsPurchases`.

Sums: `UnitsAreConserved` and `TotalsAreSums` are about sums over all orders and
over an order's lines, which the model writes with `SumFunctionOnSet`. The sum
of the orders changes by one order at a commit, and only requests that have begun
have one; these are finitely many at any time (`FewBegun`), however many requests
there may be. A total is compared with the sum of the lines priced so far, which
grows by one line at a time.

Liveness cut to its safety: under fairness a checkout is answered because
somebody among those who wait for one another can run or is in a deadlock that
PostgreSQL finds (`NobodyIsStuck`), and because every step of a transaction
shortens it (`NobodyRunsForEver`: `StepsLeft` falls). These two are proved; that
together with the fairness of section 4 they give `CheckoutsAnswered` is left to
TLC. `CanStep` says by hand what a transaction needs to go on, as `ENABLED` is
out of the prover's reach. The argument of `NobodyIsStuck`: whoever cannot run
waits for the holder of a row, who has begun and is not done; finitely many who
all wait for one of themselves contain a cycle.

`FiniteFacts`: an induction over the subsets of a finite set in which the
property is given as a set of sets, so that using it is first-order logic; it
rests on the library's theorem that a well-founded relation has minimal elements.
From it: a finite set whose members all wait for members has a cycle
(`CycleExists`), and a sum over a finite set counts the units of its summands
(`SumCountsUnits`), hence how a sum changes with its set or a summand.

`PaymentsProofs`: `PaymentsInv` adds to the properties what a request knows at
each point (`RequestOK`: whoever is about to create or store an intent under the
lock, the order has none), whose intents are whose (`IntentsOK`), and that an
event's intent was handed out (`EventsOK`, `WebhooksOK`). The argument: only the
holder of the lock, who has read the order again, writes an intent when none is
stored; so a stored intent never changes, every secret is that intent's, no other
intent of the order can be paid, and the webhook finds every payment. Theorems:
`PaymentsInvariant`, `SecretsBelongToOrders`, `NoUnpaidConfirmation`,
`NoEventDropped`, `NoLockLeaks`, `IntentsAreUnique`, `IntentsArePermanent`,
`PaymentsImplementLedger`. `EveryCaptureIsDue` is the safety
half of `PaymentsSettle`: while a captured payment has not settled its order, its
event has not been applied (an applied or acknowledged event has settled the
order), and whoever handles it now finds the order by the intent and the amount
right. `NoLockLeaks` is that of `RequestsAnswered`: a lock that somebody awaits
has a holder who is under way.

`AccountsProofs`: `AccountsInv` is `TypeOK`, what a request knows at each point
(`RequestsOK`) and what a row holds (`RowsOK`). The argument: a token in a row
has been mailed to the row's address, a request remembers the token by which it
found the row, and neither accounts nor mails go away, so what was found is
still a proof when the request writes. Theorems: `AccountsInvariant`,
`VerificationNeedsProof`, `PasswordsNeedMail`, `VerificationLasts`,
`AccountsImplementIdentities`, `GoogleAccountsAreUnique`, `EverySignInIsEarned`.

A Google account never has two accounts here, although its owner may change its
address and other Google accounts may come with that address: nothing is assumed
about who has which address when. An account may lose its Google account to
another that comes with the same address (`auth.service.ts:278-286`), so a
sign-in that is under way may be to an account with another link by then.
`EverySignInIsEarned` says what remains true: the account exists, is linked, and
Google vouched for its address to this Google account. Its invariant, `RightsOK`,
adds to `AccountsInv` what a request that is about to sign has earned, and rests
on `RightsLast`: no write takes a row, a verification or a link to some Google
account away, and a password changes only by a mailed token. The refinement
needs `LinkedOK`, that a login which has stored its link finds the account linked,
to this or another Google account.

`CatalogProofs`: `CatalogInv` adds to `TypeOK` and `ImagesExist` what requests
know (`RequestsOK`), that an upload is its uploader's (`OwnersOK`), that what is
shown was stored by its uploader (`ShownOK`), and that what a request has read
is shown by its product or never again (`OldOK`). The argument: a `public_id`
enters the database once, so an update destroys only what its own statement has
replaced for good, and a failed request only what was never shown. Theorems:
`CatalogInvariant`, `ShownImagesExist`, `RejectedUploadsAreUndone`. `NothingLeaks`
needs more, and holds while nothing has failed (`LeakInv`): every asset is shown,
overtaken, or on the way to be stored or destroyed by a request (`KeptOK`); an
image that a statement takes out of the catalog was read by its request, which
destroys it, or is recorded as overtaken by that very statement. Theorem: `AssetsDoNotLeak`.

`CartProofs`: `CartInv` adds to `TypeOK` and `ItemsHaveProducts` what a request
knows (`RequestsOK`: after the first step its user has a cart, for good, and only
writers come to the write). `AtomicCarts` needs no history: what a request has
asked, how far it is and what it is shown are functions of its record, so each
lemma shows for one action which of the three change. Theorems: `CartInvariant`,
`ItemsAreNoOrphans`, `CartImplementsCarts`.

`MaintenanceProofs`: `MaintenanceInv` adds to `TypeOK` and `NoOrphans` what the
script knows at each point (`RunOK`), that a row it has locked is still there and
on its list (`LocksOK`), that every listed product is still to come, locked or
gone for good (`CleanOK`), and what the seed has put in order so far but for
products edited since (`SeedOK`). The argument for atomicity: nobody can delete a
locked row, nobody brings a deleted product back while the cleanup runs, and its
last statement fails if a product that it did not list is in a listed category.
Theorems: `MaintenanceInvariant`, `NothingIsOrphaned`, `SeedStoresItsList`,
`CleanupIsAtomic`. `NobodyWaitsForEver` is the safety half of `EverybodyEnds`: the
cleanup and the checkouts wait for each other's rows and items, the seed waits
for rows but nobody for it, so that any of them who wait only for one another
have somebody who can go on, or a cycle that PostgreSQL breaks.

Only model-checked: the four liveness properties `CheckoutsAnswered`,
`RequestsAnswered`, `PaymentsSettle` and `EverybodyEnds` (TLAPS does not prove
liveness under fairness), and what section 6 shows to be violated.

## 6. Where code and documentation disagree

`payments_declined`: a declined card cancels the order, and the customer's second
card is charged for a cancelled order. The comment at `payments.service.ts:186-190`
says that this must not happen.

`checkout_converts`: a checkout orders what the cart held when it was read, and
empties the cart as it is at the end, without a lock in between. An item removed
meanwhile is ordered all the same (the trace of the run), an item added meanwhile
is cleared without being ordered, and two overlapping checkouts of one cart order
the same items twice. `README.md:273` promises an atomic conversion of the cart.

`accounts_logout`: a refresh that read the account before a logout, or a login
that compared with the old password before a reset, stores its session after it;
`README.md:261` promises instant revocation upon logout or password reset.

`accounts_twice`: two resets with one token both change the password, as the
token is dropped only when the new password is hashed; `README.md:263` calls the
tokens single-use.

## 7. What is not modelled

- Guards, roles, throttling: decided per request from its token and route, with
  no state of the service.
- Configuration, start-up, health, Swagger, database access: nothing changes
  after the start.
- The reads of profiles, products (with their filters and pages), categories and
  orders, and the change of a profile's name: no other state depends on them.
- E-mail templates and providers: `mail` records what was sent; that it may be
  lost is that nobody need use it.
- Validation of input: the inputs of the models are those that pass it.
- The two accounts that `seed.ts:29-78` upserts before the catalog, and the
  assets of images whose rows the scripts delete: the scripts do not talk to
  Cloudinary.

## 8. Plan

1. The promise of `products.controller.ts:301` that a deletion removes the
   product's images, which `overtaken` shows not to hold against a concurrent
   update.
2. An abstract specification of sessions (one per account, ended by logout and
   reset) that `Accounts` refines but for the disagreements of section 6, beside
   `Identities`, which leaves sessions out.
3. An abstract specification of product galleries that `Catalog` refines but for
   `Disturbed` and `overtaken`.
4. Orders from checkout to settlement in one specification: `Checkout` and
   `Payments` share `Order.status`, and a cancelled order does not give its
   units back to the stock.
5. The filters, sorting and pages of product lists as operators against a
   reference definition.

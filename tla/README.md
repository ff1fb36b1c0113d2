# Maison Essence: what the store promises, specified

Maison Essence is an online shop: a NestJS API over MongoDB that runs as
serverless functions (`backend/`), and a React application that is both the
shop window and the owner's panel (`frontend/`). This directory holds TLA+
modules translated from that code, TLC configurations that check them on small
instances, and theorems that the TLA+ proof system checks for every instance.

Paths below are relative to `backend/src/modules` unless they say otherwise.
The file `PROJECT.json` maps every definition to the lines it stands for.

## 1. The system

Every route is a function invocation. Any number of them run at once, they
share nothing but the database, each can be killed at its time limit, and the
database has no transactions here: the schemas turn mongoose's version key off
(`backend/src/database/base.schema.ts`), so `save()` writes the modified paths
with the `_id` alone in the filter. What protects the data is therefore the
filter of each update, the order of the calls and the compensation written in
the code. In the browser the same happens between a click and its answer: the
bag, the session and the forms go on changing while a request is under way.
That is what the modules are about.

| Component | State it keeps | Operations | Interacts with |
|---|---|---|---|
| orders | `orders` documents (status, lines, notes, stockRestoredAt), units in `products.variants.stock` | create (quote, take, persist, give back), setStatus, cancel, setNotes, list | cart, products, settings, rate-limit, audit |
| cart | nothing: a quote is a read | mergeLines, quoteItems, quote | products, delivery, payments, settings |
| products | `products` documents with their variants | create, update (variant diff), setStatus, remove, public catalogue | orders (was it sold?), categories, audit |
| categories | the tree, each category's address and the addresses it had | create, update, move, remove, findPublicBySlug | products |
| catalog-import | products and categories, from a file | validate, merge, report | products, categories |
| auth | refresh tokens, `users.credentialVersion`, login attempts, bootstrap state | login, refresh with rotation, logout, logoutAll, change password, bootstrap | users, audit |
| users | staff accounts, roles, active flag | create, update, setStatus, resetPassword | auth (sessions are revoked) |
| customers | customer accounts, sessions, addresses, reset links | register, login, refresh, reset password, addresses, adopt guest orders | orders, mail |
| payments | the rules (one document): PIX key, tables of fees, limits of the instalments | update, instalment options, PIX discount | cart, the panel |
| delivery | cities and their rules | create, update, remove, fee of a city | cart |
| settings | store settings (one document) | current, update, gift, banners, pages | orders, cart |
| rate-limit | one counter per rule and identity | hit of a fixed window | every public route |
| audit | the trail | record (never throws), list | orders, products, users |
| uploads, mail, health, system, seeds | files at Cloudinary, messages, probes | pure I/O around the rest | |
| frontend: HTTP client | the pair of tokens of each tab, the shared renewal | call, renew once, sign in and out | auth |
| frontend: bag and checkout | the bag, the bags put away under a name, the quote on the screen, the orders sent | add, change, merge at login, quote, order, retry | cart, orders |
| frontend: payment panel | the cached rules, the form opened from them | edit, send what changed, answer | payments |

### What is hard here

* **Interleaving of round trips.** A checkout is a read of the catalogue, one
  update per line and a save; a cancellation is a read, an update and one
  update per line; a product edit is two reads and a save of the whole variant
  list; a category is placed after up to three reads that look at other
  documents. Nothing is locked between two of them.
* **Compensation.** A line that cannot be taken undoes the lines before it, a
  save that fails undoes all of them, and each of those updates can fail too.
* **Crashes.** An invocation can be killed between any two calls and nobody
  resumes it.
* **Stale reads.** Status moves, product edits, password changes, session
  rotations, category moves and the payment form write what they read some
  awaits, or some minutes, earlier.
* **Late answers.** The answer of an order, of a renewal or of a saved form
  comes to a screen that is no longer the one that asked.
* **Limits.** Counters of attempts, windows that expire, codes that collide a
  bounded number of times, addresses remembered a bounded number of times.
* **Arithmetic in cents.** Discounts, fees and instalments round.

### What makes each component correct

* orders: no unit is sold twice; units are neither invented nor lost; a live
  order has its units off the shelf; stock comes back once; a cancelled order
  stays cancelled; a checkout is always answered.
* products: editing a product loses no sale that happened meanwhile; a variant
  that some order points to is never deleted.
* categories: the tree has one level; an address that was printed keeps leading
  to its category; no product keeps a category that is gone. The import puts a
  file in place whatever the order of its lines.
* rate-limit, login limit: no window lets more through than its limit.
* auth, customers: a refresh token works once; reuse, logout-all and password
  changes end every session they should; at most one reset link works.
* users: there is always an active super administrator.
* payments: the stored rules fit together; a save undoes nobody else's; what
  the shop window promises is what the checkout offers; instalments add up.
* cart, delivery: an item that fell out of the quote weighs on nothing, each
  line has its best discount, "so much is missing for free delivery" is true.
* bag and checkout: units are neither doubled nor lost by signing in, out or
  ordering; a bag is ordered once; an order costs what was on the screen.
* HTTP client: nobody is signed out without cause.

## 2. Modules

### How the code becomes actions

Every call to the database is one action: MongoDB applies an update to one
document atomically and nothing else is atomic here. An invocation is a
process with a step (`cpc`, `ppc`, `epc`, `rpc`, `phase`, `job[r].at`), the
local values it carries from one `await` to the next are per-process variables,
and between any two of its actions any other process may run. A loop over the
lines of an order is one action per line. Loops visit the lines in any order,
because the order is the customer's. An invocation that is killed takes no
further step; where the kill matters for a property under fairness it is an
action of its own. In the browser a handler that runs to its end without an
`await` is one action, and an answer that arrives is another.

Variables under the heading "history" are kept by no line of the code. They
record what a property needs to say (who won a claim, which tokens were signed
before a bump, whether a save wrote from a document that had changed since it
was read) and no guard reads them. Where the
code promises something only as long as two requests do not overlap, the
property says so with such a variable, and a configuration of the table of
counterexamples below shows the same property without that escape violated.

Definitions introduced by "Mutant of ..." or by a comment that names a
plausible slip are variants of a definition with one bug. No specification uses
them: each property of each passing run is accompanied in PROJECT.json by one
of them that violates it, so that every property is known to be able to fail.

### Orders (`orders/orders.service.ts`, `orders/order-stock.service.ts`)

| In the code | In the module |
|---|---|
| `products.variants[].stock`, `isActive`, `allowBackorder` | `stock`, `listed`, `active`, `shown`, `backorder` |
| `orders.status`, `notes`, entries of `audit` | `status`, `notes`, `trail` |
| `OrdersService.create` up to the quote, and `assertQuoteHolds` | `Quote` |
| `OrderStockService.take`, one `$inc` with its filter | `TakeLine`, `TakeRefused`, `TakeThrows` |
| `giveBack` of a checkout | `UndoLine`, `UndoLineFails` |
| `persist`: `save`, the code that collides, the retry | `Save`, `CodeCollides`, `SaveThrows`, `SaveAnswerLost` |
| `setStatus` up to the read; `moveTo`; `cancel` | `ReadForStatus`; `Move`; `Claim` |
| `giveBack` of a cancellation, the audit entry | `RestoreLine`, `RestoreLineFails`, `Audit` |
| `setNotes` | `ReadForNotes`, `SaveNotes` |
| the time limit of the platform | `CheckoutDies`, `RequestDies` |

`Faults` says which calls the environment may make fail. A variant is the pair
product/variant of a line; the price, the totals and the customer's data are
abstracted to "the quote holds or it does not", a free choice.

`StockLedger` is the abstract specification: a shelf, holders that gather units
while open, owe them while live and hand each line back whole once closed. In
`Orders`, `Ledger` is its instance under the refinement mapping `HeldBy`,
`PhaseOf`, and `KeepsLedger` says that `Orders` implements it up to the first
status move that lands on a cancelled order.

`OrdersInvariant` holds the inductive invariant, `OrdersProofs` the proofs and
`MCOrders` the constants for TLC.

### Catalog (`products/products.service.ts`, `products/variants.diff.ts`)

Extends `Orders`: an EDIT is a run of `update`, `setStatus` or `remove`. The
read (`ReadForEdit`, `ReadForSwitch`, `ReadToRemove`), the question to the
orders (`CheckSold`, `CountOrders`) and the write (`SaveEdit`, `SaveEditFails`,
`DeleteProduct`) are separate steps, and what was read is kept in `snap`.
`Retired`, `Kept`, `StockAfter`, `FlagAfter`, `ListDiffers` and `Valid` are
`planVariants`, `merge`, mongoose's change detection and the schema's
validation. `CatalogProofs` holds its proofs, `MCCatalog` six bodies a panel
sends: prices only, a variant dropped, a stock typed, flags turned, the product
switched off and on.

### RateLimit (`rate-limit/`)

The counter of one key. `CountIn` is `increment`; `NoWindow`, `Reopen`,
`FindNone`, `Insert` and `Collide` are the upsert of `openWindow`, taken apart
because MongoDB looks for the document and inserts it in two steps; `Share` and
`ShareNone` are the branch of the duplicated key; `Sweep` is the TTL index,
which may come at any time after the window ended. Time is a clock of ticks.

### Sessions (`auth/`, `users/users.service.ts`)

One account and its refresh tokens. A RUN is one invocation and issues at most
one pair of tokens, so the pair carries its name. `Claim` is the update that
revokes the token a refresh presents, `ClaimFails` and `CheckReuse` the second
reading when it revoked nothing, `RevokeAll` and `Bump` are the two halves of
`revokeAllSessions`, in that order; `WritePassword` and `SweepTokens` are
`changePassword`; `SaveActive`, `SaveTemporary` and `SaveRole` are what another
administrator does. `Expire` ends the life of a token and sweeps it. The same
service serves the customers of the shop, with another audience.

### PasswordReset (`customers/password-reset.service.ts`)

Extends `Sessions` with the reset links of one customer: an ASK is a run of
`request` (`FindCustomer`, then the two calls of `openRequest`, `CloseOlder` and
`CreateLink`), a RESET is a run of `reset` (`FindLink`, `CountAttempt` for a link
that does not `Works`, `FindOwner`, `ClaimLink`, `SetPassword`,
`SweepSessions`; or `WrongToken`, whose hash is of no document). `LinkExpires` is the end of a link and then the TTL index. Of
the runs of `Sessions`, `CustomerStep` takes those the shop has: login, refresh
and change of password; it signs nobody out and deactivates nobody. `password`
names who set the hash the customer has, the history variable `under` the
password each run read, and `wrong` the wrong tokens that came while a link
worked.

### HttpClient (`frontend/src/lib/http/client.ts`, `frontend/src/features/auth/session-store.ts`)

The calls of a page, the pair of tokens each tab keeps in memory and the
renewal the calls share. The server is what `Sessions` establishes about it: a
refresh token is exchanged once and one that comes again ends every session of
its owner. The browser is one that keeps no cross-site cookie, the case the
session store exists for. `RenewalLost` covers three moments: before the server
had the request, while it still may get it (`stray`, served later by
`ServeStray`) and after it answered.

### Installments (`payments/installments.ts` and the copy in `frontend/src/features/payments/`)

Functions over whole cents and fees in hundredths of a percent. `GrossUp` is
what is charged for the store to be left with the price, `InstallmentOptions`
the list of the checkout, `BestInterestFree` the line of the shop window,
`PixQuote` the discount of a PIX payment. A table of fees is a function on the
numbers of instalments it has a line for, which keeps "no fee for 11x" and "no
charge in 11x" apart as the code does. The one division the code makes in
floating point is exact here.

### PaymentPanel (`payments/payments.service.ts`, its schema, `frontend/src/features/admin/payment-settings.ts`, `frontend/src/pages/admin/admin-payments-page.tsx`)

Extends `Installments`. An EDITOR is a browser tab.

| In the code | In the module |
|---|---|
| the query of the page, which may run again at any time | `FetchRead`, `FetchArrives` |
| `toDraft` when the page opens, the tab that closes, "discard" | `OpenForm`, `CloseForm`, `Discard` |
| a field of the form | `EditField` |
| `changesOf` and the PATCH it makes | `Changed`, `ChangesOf`, `Submit` |
| `update`: the reading, `applyPixKey` with the merge, hook and `save()` | `SaveReads`, `Acceptable`, `SaveWrites` |
| the answer into cache and form; a refusal or a lost call | `AnswerSaved`, `SaveFails` |

`Written` says which paths `save()` writes: what changed since the reading and
both tables of fees always, because the validation hook sorts them in place.

### Pricing (`cart/cart-lines.ts`, `cart/cart-quote.service.ts`, `products/quantity-discount.ts`, `delivery/delivery-fee.ts`)

Extends `Installments`: the quote as a function of a bag, a choice of delivery
and payment and a catalogue. `Gone` are the lines that fell out, `LadderOf` and
`PercentFor` the discount by quantity, which counts the units of the product
(`UnitsOf`), `DeliveryFee` the fee and what is missing for it to be free.

### Storefront (`frontend/src/features/cart`, `frontend/src/features/checkout`, `frontend/src/pages/checkout`)

Extends `Pricing`: one browser and the server it asks. `StorefrontProofs` holds
the proofs about both.

| In the code | In the module |
|---|---|
| `cart.store`: add, set the quantity | `AddLine`, `SetQuantity` |
| `cart-session` and `cart-merge` at sign-in and sign-out | `Login` (`MergeCartLines`), `Logout` |
| the page is opened and left; the form | `OpenCheckout`, `LeaveCheckout`, `Choose` |
| the 400 ms wait and the query of the quote, which keeps the older answer on the screen meanwhile | `LinesSettle`, `QuoteArrives` |
| `useCreateOrder`: send, accept the new total, repeat; close the window or take out what is gone | `Finish`, `AcceptConflict`, `Retry`; `DismissConflict`, `RemoveUnavailable` |
| `POST /orders` at the server, its answers, the calls that are lost | `Receive`, `AnswerCreated`, `AnswerRefused`, `GoesWrong` |
| the owner changes a price or withdraws an item | `ShopChanges` |

The take of the stock is one step of `Receive`: its interleavings are those of
`Orders`, and the total the server compares with is `Quote` in both.

### CategoryTree (`categories/`, `catalog-import/`, `backend/src/database/slug.ts`)

| In the code | In the module |
|---|---|
| `create`, `update` up to the first read | `Create`, `Update` |
| `assertParent`, the count of children, `assertSlugIsFree` | `CheckParent`, `CheckChildren`, `CheckSlug` |
| the hook that finds an address for a name; the insert; the save | `NameIt`, `Insert`, `Save` |
| `remove`: read, the two counts, `$pull` from the products, delete | `RemoveCategory`, `Count`, `Pull`, `Delete` |
| the categories of a product the panel saves | `EditProduct`, `SaveProduct` |
| the import: a category of the file (parent, the stored one, a new one, the second look), a product, its save | `Import`, `ImportParent`, `ImportStored`, `ImportNew`, `ImportStill`, `ImportProduct`, `ImportSaveProduct` |

Only the unique index on the address refuses a write. `age` counts, for every
category and address, the changes of address since the category answered there;
`treeClash`, `deadClash` and `excused` mark the overlaps the properties set
aside. `nested` marks what an import does by itself: `resolveParent` looks at
the parent of a line and never at the category the line is about, so a category
that has children can go under another, one can go under itself, and one that
an earlier line of the file put at the root can go under another while later
lines still take it for a root.

## 3. Runs

Twelve runs, ten that hold and two that show a line of the repository and the
code in disagreement. States are distinct states as TLC counts them.

| Run | Instance | Shows |
|---|---|---|
| `orders` | 2 variants with 1 and 2 units, 2 checkouts, 2 requests; updates that throw, saves that fail, kills; 1.3M states | no unit sold twice or lost, live orders have their lines, one return per order; `Orders` implements `StockLedger` until a move lands on a cancelled order, failures included |
| `orders_live` | 2 variants with 1 unit each, 2 checkouts, 2 requests, saves whose answer is lost, 1 order code per checkout, fairness; 494K | every checkout is answered, also two carts that hold each other's last unit; a cancelled order gives its units back whatever the other request does to it; nothing is left behind |
| `catalog` | 1 product of 2 variants, 2 checkouts, 1 request, 1 edit of any of 6 bodies; 1.9M | where units can appear or disappear, that what never sold on backorder is never owed, that an edit keeps the variants of the orders it saw |
| `rate_limit` | 3 calls, limit 1, window of 2 ticks, 6 ticks, fairness; 143K | places are distinct, refusals are deserved, the time announced holds, every call is answered |
| `sessions` | 5 runs of any kind; 1.7M | rotation is exclusive, what is closed stays closed, access tokens follow the credential version, a refusal has a reason |
| `password_reset` | 2 asks, 2 resets, 2 runs on the customer, 1 refusal ends a link; 358K | a link sets one password, is dead once a later one exists; a new ask stops the resets of an older link; a reset ends what was signed before it |
| `http_client` | 1 tab, 3 calls, 2 expiries, 1 sign-in, losses, fairness; 480K | one renewal serves all, nobody is signed out without cause, every call ends |
| `payment_panel` | 2 tabs, 3 edits, 2 saves, 1 query that runs again; purchases of 19 and 30001 cents; 961K | the stored rules fit together until a save writes from a document that changed after it was read, a save writes what its own page changed (or what moved under it), shop window and checkout agree, instalments add up |
| `storefront` | 2 items, 1 customer with a bag put away, 1 pick, 2 visits, 2 sign-ins, 2 orders, 1 change in the shop, lost calls; 2.0M | units are neither doubled nor lost, no bag is ordered twice, an order costs what was seen, the quote adds up for every bag reached |
| `category_tree` | 3 categories and 2 to come, 4 addresses, 1 product, 3 requests of which 2 overlap with each other or with an import; 2.0M | one level, printed addresses lead to their category, no product keeps a removed category, a file is put in place |
| `orders_returned_once` | 3 requests, no failure | `stockRestoredAt` is written and never read: a late status move revives a cancelled order and a second cancellation returns its stock again |
| `password_reset_wrong_tokens` | 1 ask, 3 resets, 2 wrong tokens enough | "poucas tentativas erradas encerram o pedido" (`password-reset-token.schema.ts:67`): a wrong token is counted on no document, so the link works on |

### Why the bounds are enough to be interesting

* Two carts over the last unit, two cancellations of one order, a cancellation
  and a move of one order: each hazard of `Orders` needs two processes of a
  kind. Three requests are needed to return a stock twice (a move that read
  early, a first and a second cancellation), and that run has them.
  `MaxQuantity = 1` loses nothing there: a line is taken and returned whole, and
  the theorems cover the other quantities. One variant has one unit and the
  other two, so that carts compete for one line and not for the other, which is
  what makes `take` undo. Backorder is chosen freely for each variant at the
  start.
* `orders_live` gives both variants one unit, so that each of two carts can hold
  the last unit the other one wants, and has two requests, so that one moves,
  cancels or annotates an order between two steps of the cancellation of
  another. To pay for that, its checkouts try one order code
  (`ORDER_CODE_ATTEMPTS` is a constant, three in the other configurations):
  liveness asks that the retry ends, not how often it runs, and the safety runs
  keep the three.
* Three calls of `RateLimit` with limit 1 are the least that tell "twice the
  limit" from "any number". `Horizon` leaves time for two windows, their sweep
  and late insertions. Every behaviour ends.
* Five runs of `Sessions` are a login, two refreshes that present one token, a
  revocation and a change of password, or any other five: the shortest
  interleavings that violate the mutants take three or four.
* Two asks and two resets are a later link beside an older one and two clicks on
  one link; two runs are a login and a refresh of its pair, or a login and a
  change of password. `MAX_RESET_ATTEMPTS = 1` makes the count refuse a link from
  the first refusal on.
* Three calls of `HttpClient`: one starts the renewal, one joins it and one
  arrives after it; two expiries give a renewal of a renewed pair.
* Two editors of `PaymentPanel` with three edits and two saves: each changes
  one field and one of them another, so that a save meets a form opened before
  it, a query that runs again under an open form, and another save. The tables
  have the fees of the schema's defaults and a hole (no line for 3x in one plan,
  none for 4x in the other); the two totals are one whose instalments fall
  below the minimum and one that leaves cents to the first instalment. The edits
  cross each rule the hook and the service check.
* `Storefront`: two sizes of one perfume share the discount by quantity, one of
  them can run out and the other cannot, the four discount rules make a ladder
  with a step that is dropped, and the city delivers free from a minimum that
  two bags of the instance straddle. Two visits and two orders are what it
  takes to order again while an order is under way; two sign-ins to merge a bag
  twice. `MAX_LINE_QUANTITY = MAX_CART_LINES = 2` so that both limits are met.
* `CategoryTree`: five documents are a root with a child, another root and two
  to create; three requests are two that cross and one before or after; files
  have a child before its root, a root that becomes a child, a child that
  becomes a root, a category under itself, a category given twice with a child
  to come, and no category at all. `MaxHistory = 1` makes an address forgotten
  at the second change, and not before.

`CHECK_DEADLOCK FALSE` is said of every run because in all of them the
processes are finite: every invocation is answered and the system stops.

### Symmetry

Checkouts, requests, edits, runs, calls and editors are interchangeable and
appear in no constant with a name of their own, so safety runs take symmetry
over them. Runs with liveness properties do not, since TLC does not support it
there; neither does `storefront`, where nothing is interchangeable.

### Counterexamples kept beside the runs

TLC finds each property below violated. The configurations document
disagreements met while modelling and are not in the list of runs. TLC stops at
the first property it finds violated: to see another of a `...Said`
configuration, leave only that one.

| Configuration (module) | Property | What it shows |
|---|---|---|
| `OrdersLostAnswer.cfg` (MCOrders) | `LiveOrderHoldsItsLines` | a save that landed and whose answer was lost leaves a live order whose stock was given back |
| `OrdersTrail.cfg` (MCOrders) | `TrailTellsWhatHappened`, `CancelledIsFinal` | the loser of two cancellations writes an entry for a change it did not make; a move that read before a cancellation brings the order back |
| `OrdersFailedTake.cfg` (MCOrders) | `FailedTakeKeepsNothing` | "takes all or nothing" (`order-stock.service.ts:41`): `take` undoes nothing when an update throws |
| `CatalogBackorder.cfg` (MCCatalog) | `BackorderIsNoDefect` | a product with a variant sold on backorder below zero is not valid for `save()`: edits without a stock fail |
| `CatalogOrderedVariants.cfg` (MCCatalog) | `OrderedVariantsStay` | an order placed between the question and the write loses its variant from the catalogue |
| `CatalogOmittedStock.cfg` (MCCatalog) | `OmittedStockStays` | a PATCH without stock writes back the stock it read (`products.service.ts:459`) |
| `RateLimitTwice.cfg` (MCRateLimit) | `AtMostTwicePerWindow` | calls that found no open window each set the count to one, so more than twice the limit passes in a window (`mongo-rate-limit.storage.ts:29`) |
| `PasswordResetSaid.cfg` (MCPasswordReset) | `OneLinkAlive` | two requests that overlap each close what is open before either creates its own link |
| | `ResetEndsEverySession` | a login or a refresh that read the customer before a reset leaves an open refresh token after its sweep |
| `HttpClientTabs.cfg` (MCHttpClient) | `TwoTabsLiveTogether` | the shared renewal is per tab: a second tab sends the refresh token the first has used |
| `HttpClientLoss.cfg` (MCHttpClient) | `LossIsForgiven` | after a renewal whose answer was lost the next try is taken for a reuse |
| `HttpClientShared.cfg` (MCHttpClient) | `UserAndPairTogether` | a renewal that answers after a sign-out and a sign-in writes the pair of the user before; a refusal that arrives then clears the new session |
| `PaymentPanelSaid.cfg` (MCPaymentPanel) | `PixKeyIsOfItsType` | two saves that read the same rules write one half of the pair each |
| | `OnlyTypedIsSaved` | a query that runs again under an open form, or a save between reading and writing: a colleague's change is written over |
| | `TypingSurvivesTheAnswer` | what is typed during a save is replaced by its answer |
| `StorefrontSaid.cfg` (MCStorefront) | `PickedIsNeverLost` | what was added after the click goes with the bag when the answer comes; a bag put away while its order was under way comes back whole |
| | `OneOrderPerBag` | a retry after a lost answer, or a second visit while the first order is under way, orders the bag again |
| | `ModalComparesWhatWasSeen` | the second conflict in a row is compared with the first total |
| | `OrderIsOfTheQuote` | the order sent while the new quote is on its way carries the lines of now and the total of before (the server answers it with a conflict) |
| `CategoryTreeSaid.cfg` (MCCategoryTree) | `OneLevelAlways` | "uma subcategoria não pode ter filhos" (`docs/Maison Essence.md:296`): two moves that cross, a child created under a category that moves, or an import by itself make one |
| | `AddressIsGivenOnce` | the hook that names a category and the import give an address somebody else gave up |
| | `NoAddressIsForgotten` | two changes of address that overlap forget the one between them |
| | `RemovalSparesProducts` | a product that becomes active between the count and the `$pull` loses its category |

## 4. Fairness

Nothing obliges a customer to start a checkout or the panel to send a request,
so the first step of a process is never fair. Once started:

* `Orders`: weak fairness of each invocation that is not killed. The platform
  runs an invocation until it answers, each `await` is on a call with a driver
  timeout, and no step waits for another invocation (there are no locks), so a
  step that is enabled stays enabled until somebody takes it. Kills are excluded
  from the fair steps and from the liveness run.
* `RateLimit`: the same, per call. Ticks and sweeps are not fair: the database
  promises no time.
* `HttpClient`: weak fairness of a call that started and of a renewal on its
  way. Every `fetch` carries `AbortSignal.timeout`, so it is answered or ends.

The other modules state safety only, and no fairness.

## 5. Proofs

TLAPS checks every obligation of `OrdersProofs`, `CatalogProofs`,
`RateLimitProofs`, `PasswordResetProofs` (which holds those of `Sessions` too),
`HttpClientProofs`, `PaymentPanelProofs`, `StorefrontProofs` and
`CategoryTreeProofs`. Every safety property of a run is stated by a theorem
there. The theorems hold for every value of the constants that satisfies the
named assumptions:

* `Orders`: finite sets of variants and checkouts, a positive `MaxQuantity`,
  natural initial stocks, targets among the statuses, faults among the known.
* `RateLimit`: positive limit and length. `Sessions`: a finite set of runs.
  `PasswordReset`: asks and resets that are not runs.
* `PaymentPanel`: rules to begin with that fit, and `ValuesFit`: a field is a
  number of instalments, an amount or a table of fees of the schema; what is
  typed may leave a table half filled, what is stored to begin with does not;
  totals are whole cents.
* `Storefront`: `KeptFits` (finite items and customers; the bags the browser
  kept are whole quantities within the cap, as `cart.store` sanitizes them),
  `CapsArePositive`, `ShopFits` (prices and fees are whole cents, discounts
  whole percents), `RequestsAreNumbers` and `BoundsAreNatural`.
* `CategoryTree`: `FirstFits` (a tree of one level to begin with),
  `BodiesPlace`, `AddressesFit` (addresses are addresses, and no two categories
  begin with a common one, of now or of before), `FilesHaveLines` (a file has
  lines of categories, any number of them, each with an address; two of them
  may give the same one, which nothing in `catalog-file.ts` prevents),
  `HistoryIsPositive`.

| Theorem | Says | Rests on |
|---|---|---|
| `OrdersProofs!TypeCorrect` | `Spec => []Typed`: types, and each request holds an order that exists and a value that fits its write | inductive by itself |
| `NeverOversold` | `Spec => []NoOversell`, with every failure, the lost answer included | `Typed`: the filter of the update and "a lenient line is on backorder" |
| `AccountsKept` | `Spec => []IInv` while no save loses its answer | see below |
| `UnitsConserved`, `LiveOrdersReserved`, `ReturnedByOne`, `NothingIsLeftBehind` | the four safety properties of `orders` and `orders_live` beside `NoOversell` | `IInv` |
| `OrdersKeepLedger`, `OrderlyImplementsLedger` | `KeepsLedger`: every step is a step of `StockLedger` or none, under `HeldBy`, `PhaseOf`, until a move lands on a cancelled order; the behaviours without one (`OrderlySpec`) implement it whole | `IInv`, and `Typed` |
| `CatalogTypeCorrect` | types of `Orders` and `Catalog` together | `StepTyped` of Orders, reused |
| `NeverOwedUnlessLent` | `NeverLentNeverOwed` with any catalogue and any bodies | `LentAccount` |
| `OnlyStaleListsLoseUnits` | `UnitsAddUpWithEdits`: the units add up for every variant whose stock no edit wrote back after it moved | `CheckoutAccounts` and `RequestAccounts` of Orders, reused; `EditedBalance` |
| `EditsOneByOneKeepSeenVariants` | `OrdersSeenKeepTheirVariants` for any number of edits of which no two overlap (`OneAtATime`) | `SeenInv` |
| `RateLimitTyped`, `PlacesAccounted`, `PlacesNeverShared` | no two calls of an opening share a place, for any number of calls and any limit | `PlacesInv /\ OpenedBefore` |
| `RefusedForTheLimit`, `RefusedIsToldTheTruth` | `RefusedAreOverLimit`, `RetryAfterIsHonest` | `RefusalInv`, `RetryInv` |
| `SessionsTyped`, `SessionsAccounted` | types and `SessionInv` | see below |
| `RotationIsExclusive`, `ClosedForGood`, `AccessFollowsVersion`, `RefusalHasAReason` | the four properties of the run `sessions` | `SessionInv` |
| `ResetTyped`, `LinksAccounted`, `LaterLinkEndsTheOlder`, `NewAskOvertakesResets` | types; `LinkSetsOnePassword`, `OlderLinkIsDead`, `NewAskStopsOlderResets` | `LinksInv` |
| `SessionsFollowThePassword`, `SweptForGood` | `AccessEndsWithThePassword`, `SweptStaysSwept` | `CustomerInv` and the types of `Sessions`, by `StepTyped` |
| `PagesTyped` | types of `HttpClient` with any number of tabs, and a refused access token stays refused | `Fits` |
| `RenewalHasACause`, `SessionSurvivesTheNetwork` | `RenewedForCause`, `KeptUntilRefused` with any number of tabs and losses | `Fits` |
| `OneTabIsNotThrownOut` | `NobodyIsThrownOut` in a browser with one tab | `TabInv` |
| `RulesStayFitting` | `RulesFitTogether` for any number of pages and any bodies: until a save writes from a document that changed after it was read (`overtaken`), and not after it | `PanelInv` |
| `NobodyIsUndone` | `ColleagueIsNotUndone`, likewise: a save changes what its editor touched, what had moved under her draft, or a table changed since the save read it | `PanelInv` |
| `InstalmentsAlwaysClose` | `InstalmentsClose`: for any total and any table of fees that can come to be stored, instalments add up and the fee leaves the price of the label | `Values` (`ValuesHold`), and the arithmetic of `GrossUp` and `NetOf` |
| `ShopAlwaysKeepsItsWord` | `ShopKeepsItsWord`: what the window promises is offered, and the preview is the list | `PanelInv`, `Values` |
| `ShopHolds`, `ShopTypes` | the invariant of the bag and the checkout, its types | see below |
| `UnitsKept`, `OrderedOnce`, `ChargedAsSeen` | `UnitsAreKept`, `NothingOrderedTwice`, `ChargedWhatWasSeen` for any items, customers, limits and number of requests | `ShopInv` |
| `QuotesHold` | `PricesHold`: the quote of any bag, with any catalogue and rules | the types alone: it is arithmetic |
| `NoProductIsLeftBehind` | `NoDeadReference` for any tree, files and number of requests | `DeadInv` |
| `TreeStaysOneLevel` | `OneLevel`, likewise | `TreeInv` |
| `LinkInvariant`, `LinksAlwaysLead` | `LinksStillLead` for any tree, addresses, length of the history and number of requests: of categories on the menu and addresses that are not `excused` | `LinkInv` |
| `FileInvariant`, `FileIsAlwaysPlaced` | `FileIsPlaced` for any file that names a category once, in any order of its lines | `FileInv`, on `LinkInv` and `LinesDone` |

**Why `IInv`.** That every unit is in one place is not inductive: a state where
a loop is about to return a line that is not out satisfies it and the next step
does not. `CheckoutAccount` ties what is out to the place the checkout is in and
to the lines its loop still has, `ClaimAccount` says who may return the lines of
an order (nobody while it is live, one claimant afterwards, and only what is
still out), `RestorersClaimed` that a request that returns lines won the claim.
The sum is handled by `LineWeighs`: adding a line to what is out adds exactly
its quantity to the number of units held. `OneReturnPerOrder` leaves aside
orders in `revived`, which the code allows and the run `orders_returned_once`
shows. The theorems but `TypeCorrect` and `NeverOversold` assume `NoLostAnswer`,
because `OrdersLostAnswer.cfg` shows that they fail without it.

**Why `LentAccount`, `EditedBalance` and `SeenInv`.** An edit writes back what it
read, so the invariants must speak of what is read and held: snapshots are not
below zero, every flag anyone holds (the catalogue, a snapshot, the lenient
lines of a quote) was once on, and the units of a variant add up unless an edit
wrote its stock after it moved (`crossed`). `SeenInv` follows one edit from its
reading to its write: what it read is still the list there is, and the orders it
looked at have none of the variants it is about to drop. An edit that is not
under way holds nothing the others could make stale (`OtherSeen`). Two more
edits between the reading and the write can take a variant out of the list and
bring it back, which is why the theorem is of edits that do not overlap.

**Why `PlacesInv`.** The count of the document is the last place given in the
current opening, and a document that was swept comes back only with a new one.

**Why `SessionInv`.** The token of a session and the right to issue its next one
are a single thing that passes from hand to hand (`Carries`, `OneCarrier`);
nobody carries a closed session; the version a run read is never ahead of the
account's, is behind it exactly when a bump overtook it.

**Why `LinksInv` and `CustomerInv`.** A link opens once and what ends it is for
good, so a reset past its claim holds a link that is not open, and an ask about
to create leaves none of the older ones open. For the sessions: what a run may
sign with was read under the password there is unless a version overtook it, and
the session a run carries was not swept, because the sweep sees every session
but those in flight. `ChangeOpensItsOwn` is needed there: the session of a
change of password has no token yet.

**Why `TabInv`.** As long as every answer was heard (`Heard`), the one tab holds
the pair its session has open, or that pair was exchanged and the next is on its
way to it; the server ended no session and has no renewal still to come.
`ChainsFit` says that what a tab holds or sent is of a session somebody opened,
so that a new session starts clean.

**Why `PanelInv`.** A PATCH is checked against the document its request read and
written over the one stored by then. That the result fits needs the two to be
the same until a save was overtaken (`Server`), and that a save touches only what
was typed needs the draft to differ from the cache just in what was typed since
it was opened, unless the cache moved under it (`Form`).

**Why `TreeInv` and `DeadInv`.** A request goes by what it has checked: while no
other change of the tree overlaps, the parent it will write is still a root and
the category it will move still has no children. A removal has the same with
the products: whoever holds a list of categories to save holds living ones,
unless the removal overlapped (`deadClash`).

**Why `Values`.** The arithmetic of an instalment needs numbers, and a form
holds tables that are half filled. `Values` says where those can be: in a draft,
never in a PATCH (`changesOf` leaves an unfinished table out), so never in what
is stored or cached. A rounded charge leaves exactly the price because a fee
that raises it is below one hundred percent: rounding up by less than half a
cent moves the fee by less than the half cent the second rounding takes back
(`Rounded`).

**Why `ShopInv`.** That units are kept is not inductive: an answer empties the
bag, and nothing in the property says that the bag is the one of the order.
`Kept` does, until the bag is disturbed, and that the bag put away of the
customer who is signed in is empty. `OneAtATime` says that while the page sees
the end of its orders the only request under way is the last, of the visit on
the screen, with the guard of the second click up; `Ledger` that the units
bought are those of the orders whose answer arrived, as a sum over them. From
the two, an order that is made while its answer is under way is the only one
that is not in `bought`, and it holds what is in the bag. `VisitsFit` keeps an
answer to an older visit from becoming a conflict of the present one.

**Why `LinkInv`.** An address leads to its category as long as it is in its
history and nobody else has it. The first needs the position: an address given
up n changes ago is among the last n of the history (`Recalled`), which
`slice(-MAX_PREVIOUS_SLUGS)` keeps and the filter does not break, because it
takes out only the address that is adopted. The second (`Apart`) needs what a
request under way has asked: that nobody had the address it will write is still
true when it writes it, unless another change of address came in between
(`Asked`), and then the address is excused.

**Why `FileInv`.** Every line that is done stands where it was put, with the id
the map has for it, or failed for a parent that is no root (`LinesPlaced`); the
line under way goes by a parent that is a root, at the address the line gives
(`LineRead`). Roots come first (`InOrderLines`), so a root of the file that a
line names was done before it. A line that is moved to the root breaks no
earlier one, and one that is moved under another has no children, or `nested`
says so. No two categories share an address (`OneEach`, from `LinkInv`). The
file is one that names every category once (`NamesOnce`, in `FileIsPlaced` and
in `Undisturbed`): of two lines with one address the later one has the say, and
the first is then not where it says. The tree, the addresses and the references
need no such condition.

**Sums and sequences.** What a fold or a filter computes for every input is
proved without an induction on the data: among the finite sets (or the prefixes)
on which a statement fails there would be a least one (`WFMin` of the library on
the strict inclusion of finite sets, or on the order of the naturals), and it
cannot be. `StorefrontProofs` has the laws of a sum obtained this way (one term
more, one term changed, terms of zero dropped), `CategoryTreeProofs` what `Only`
keeps of a sequence and in which order, `PaymentPanelProofs` the greatest number
of instalments without interest.

Type invariants and inductive invariants were checked by TLC before they were
proved and are not repeated in the runs: `TreeInv`, `LinkInv` and `FileInv` on
the whole of the run `category_tree`.

Only model-checked: the liveness properties (`CheckoutIsAnswered`,
`CancelledStockComesBack`, `CallsAreAnswered`, `CallsEnd`), because liveness and
ENABLED are outside the prover; and that the properties of the table of
counterexamples fail, which is a matter of a behaviour and not of a proof.

## 6. Not modelled

* `users` beyond what ends sessions: who may act on whom, and the count of the
  active super administrators (`users.service.ts:257` reads it before it saves;
  the comment there states the race and accepts it).
* `login-rate-limit.service.ts`: a read of the counter before the password is
  verified and a write after, so parallel attempts pass together; it promises
  nothing about them. The document is the one `RateLimit` models.
* `bootstrap`: one insertion that the unique index decides. `settings`: one
  document, the last writer wins.
* `uploads`, `mail`, `health`, `system`, `seeds`: input and output around the
  rest. `audit`: append-only; what orders write to it is in `Orders`.
* Of the import: the transaction it uses where the database has transactions,
  the simulation, and the merge of variants into stored products. Of the
  categories: names, images, the order of the menu. Of the products: creation,
  slugs, SKUs and photos. Of the customers: registration, addresses and the
  adoption of guest orders. Of the delivery: the editing of the cities.
* Most of the repository's lines are pages, styles, forms and texts of the
  frontend. They show what the queries hold and keep no state that outlives a
  render; what does (session, bag, checkout, payment form) is modelled. The
  share of all lines that the map covers is small for that reason.
* In the modelled parts: formatting, validation of bodies, search and listing
  queries.

## 7. Plan

What is left, in the order of what it would add:

1. `Administrators`: two accounts and the rule of the last active one, beside
   `Sessions`.
2. The settings form of the panel as a second instance of what `PaymentPanel`
   says of drafts, caches and late answers.
3. `Storefront` with several tabs of one browser, which share the stored bag.
4. Proofs: abstract specifications of the rotation of tokens and of the counter
   of a window, and that `Sessions` and `RateLimit` implement them step by step,
   as `Orders` does with `StockLedger`.

# A TLA+ model of the POS and inventory system

The repository is a multi-tenant point of sale: a NestJS back end
(`src/backend`) on PostgreSQL through TypeORM, an Angular front end
(`src/frontend`), and an external payment gateway (PayMongo). This directory
models the parts in which concurrency, failure and time decide whether the data
stay right: the tables a store sells from, the subscription an organization pays
for, the people and stores it may have, and the browser in front of them, from
the cart on a till to the payment that survives a redirect.

## 1. The system

| Component | State | Operations | Where it meets others |
|---|---|---|---|
| Sales (`backend/src/sales`) | `sales`, `sale_items` | `create`, `voidSale`; two queries | writes `products`, `inventory_batches`, `stock_movements`, `customers` in one transaction |
| Inventory (`inventory`) | `inventory_batches`, `stock_movements` | `adjust` (stock-in, stock-out); two queries | writes `products.current_stock` |
| Products, categories (`products`, `categories`) | `products`, `categories` | create, update, remove | an update saves the entity with the `current_stock` it loaded |
| Customers (`customers`) | `customers`, `credit_payments` | create, update, deactivate, `recordPayment`, statement | the balance is also written by sales and voids |
| Subscriptions (`billing/subscription.service.ts`, guard) | `subscriptions` | upgrade, downgrade, cancel, cancel-downgrade | reads payments, asks the gateway |
| Renewal jobs (`billing/subscription-renewal.service.ts`) | `subscriptions` | three cron jobs | run among the requests and the webhook |
| Payments and webhook (`payments`) | `payments`, `invoices` | open a checkout session, pay an invoice, `payment.paid`, `payment.failed` | gateway outside; activates the subscription |
| Platform administration (`admin-subscriptions`) | `subscriptions` | suspend, reactivate, change plan | not stopped by the subscription guard |
| Low-stock alerts (`alerts`, `email`) | `low_stock_alerts` | daily job: find, resolve, create, mail | reads `products` among the sales; mail server |
| Reports (`reports`) | — | sales, profit, best sellers, inventory, credit statement | read what the writers above committed |
| Authentication (`auth`) | account at Supabase, `users`, `organizations`, reset token | register, login, reset, profile | external account service |
| Users, stores (`users`, `stores`) | `user_stores`, `stores` | invite, role, permissions, deactivate; create, update, remove | rows every guard looks at |
| Guards (`common/guards`) | — | tenant, subscription, role and permission, usage limit, feature | in front of every handler; the limit is counted before the insert behind it |
| POS front end (`frontend/.../pos`) | cart, held orders, tax settings | add, hold, recall, discount, pay | `GET /products`, `GET /stores`, `POST /sales`, each answered late or never |
| Session in the browser (`frontend/.../core`) | local storage, signals of each tab | log in and out, switch store, profile | its interceptors sign every request |
| Billing front end (`frontend/.../billing`) | pending payment in local storage | upgrade with a redirect, downgrade, cancel | checkout, then upgrade; storage events between tabs |
| Suppliers, receipts, other pages | — | CRUD and rendering | — |

**What is hard here.** Node serves many requests at once and every `await` is a
point where another request may run. `create`, `voidSale`, `adjust` and
`recordPayment` run in database transactions at READ COMMITTED, but without row
locks on what they read: a value is read, changed in memory and written back.
`save(entity)` reads the row a second time, compares and updates only the
columns that differ. The handlers of billing have no transactions at all, the
gateway sends events late, repeatedly and in any order, cron jobs run in
between, and a process may stop after any statement. Registration and
invitation are five saves and an external account without a transaction. In the
browser an answer finds another page, another cart or another user than the one
that asked, and tabs share what is stored but not what they show.
`PROJECT.json` lists each of these places under `hazards`, with the property
that watches it.

**What makes each part correct.** *Sales*: numbers of a day without gaps,
batches deducted once and oldest first, a void brings back what the sale took,
finished sales do not change, every request ends. *Inventory and products*: the
cached stock is the sum of the batches, and the movements add up to it.
*Customers*: a balance agrees with sales and payments, limits hold.
*Subscriptions*: a plan above the trial was paid for, books claim no money that
did not come, an event counts once, nobody is past due, suspended or cancelled
who did not ask for it or whose time is not over, everything that ends is noticed. *Alerts*: one mail for a shortage. *Reports*: figures that agree
with each other, and days that are over do not grow. *Accounts*: whoever was told
it worked can work, a removal lasts, a link works once, a limit is overrun by the
requests in flight at most. *Till*: booked as shown, what can be paid is accepted,
one cart is one sale. *Browser*: a tab acts for the user and store it shows and
upgrades for the period that was paid.
Section 3 says where the code keeps each of these and where it does not.

## 2. Modules

Store (point of sale):

| Module | Models |
|---|---|
| `RowStore` | PostgreSQL rows as the services use them: a committed and an uncommitted version, the row lock, commit, rollback |
| `Entities` | the comparison and the patch of TypeORM's `save` |
| `StoreTables` | the tables, the workers, and the steps all handlers share: `Begin`, `SaveSelect`, `SaveUpdate`, `Commit`, `Abort`, deadlock detection, `Midnight`, `Disconnect` |
| `SalesService` | `create` and `voidSale` |
| `InventoryService`, `ProductsService`, `CustomersService` | the other writers of the same tables |
| `StoreProperties` | what must be true of the tables, and the refinement mapping |
| `SalesBook` | the abstract specification: a sale, a void, a receipt, an issue, each one step |
| `Checkout` | composition: concurrent sales only |
| `PointOfSale` | composition: all handlers |
| `LowStockAlerts` | the daily job, over `PointOfSale`; it reads the rows the requests commit; and its invariant |
| `ReportsService` | the queries of the reports, on the tables of `PointOfSale` |
| `CheckoutInvariant`, `StoreInvariant` | the inductive invariants of `Checkout` and `PointOfSale`: who owns an open sale number, what every handler knows at its statement |
| `StoreProofs` | theorems: the order of checkouts; types, numbering and finality of sales beside every handler; the mails of the daily job; the figures of the reports |
| `TillsInvariant`, `TillsProofs` | a day of tills and deliveries: exact movements, what is in stock, oldest first, exact deductions; what the cached balance and the cached stock may miss; every step is a step of `SalesBook` |
| `SerialProofs` | one request at a time: stock and batches, restocking, balances and credit limits |
| `SumLemmas` | sums over finite sets |

Billing:

| Module | Models |
|---|---|
| `BillingTables` | subscription, invoices, payments, gateway sessions, clock, guard, the shared steps |
| `SubscriptionService` | upgrade, downgrade, cancel, cancel-downgrade; the administrator's three writes |
| `PaymentsService` | opening sessions, the gateway and its mock, both webhook events |
| `RenewalJobs` | the three cron jobs |
| `Billing` | composition, fairness and properties |
| `BillingProofs` | the inductive invariants, the theorems about the books and those about the subscription |

Accounts:

| Module | Models |
|---|---|
| `TenantTables` | accounts, `users`, `user_stores`, `stores`, `organizations`, counted products, and the guards |
| `AuthService`, `UsersService`, `StoresService` | the handlers, cut at their awaits |
| `Accounts` | composition, failures and properties |
| `AccountsProofs` | the inductive invariants and the theorems: types, who can work, removals, links, limits of the plan |

Browser:

| Module | Models |
|---|---|
| `CartService` | the cart, its computed totals in exact arithmetic, held orders |
| `PosPage` | the page, the payment dialog, the answers; the server as far as it checks and computes a sale |
| `TillPageProofs` | the till: types, how often a cart is sold, what the dialog lets pass, what is booked |
| `BrowserSession` | local storage and the signals of each tab, interceptors and guards |
| `BillingPage` | the upgrade dialog, the keys kept over the redirect, storage events; composed with `BrowserSession` |
| `BrowserProofs` | the inductive invariants and the theorems about tabs and paid periods |

Each `MC` module gives the constants of its namesake their values; `MCLowStock`
and `MCReports` extend the instance of `PointOfSale`, so the daily job and the
reports are checked together with the writers they read from.

### How state and actions correspond to the code

*A worker* is one request (or webhook call, or cron run). In the store `pc[w]`
is the next SQL statement of its handler and `tx[w]` its local variables: `prod`
and `cust` are the entities it loaded, `list` and `left` the batch loop, `moves`
the stock movements it inserted, and `tbl`, `key`, `ent`, `cols`, `then` the
`save` in progress. In billing `job[w]` holds the same. One action is one SQL
statement with the code up to the next one; inserts of rows nobody else can see
before the commit (sale items, movements) belong to the step that computes them.

*`save(entity)`* is two statements, `SaveSelect` (or `SelectSub`,
`SelectPayment`) and `SaveUpdate`: the columns to write are chosen from the row
as it is at the SELECT and written to the row as it is at the UPDATE. That is
why a product edit can write back an old stock and why a renewal can leave a
mixture of two writers in one row. For a subscription the plan object that was
loaded decides about `plan_id` when it is there (`ToColumns`); the jobs and the
webhook differ in whether they load it.

*Locks.* A row with an open writer makes another writer wait. The unique index on
(store, sale number) makes the second INSERT of a number wait for the first
transaction and fail when that commits; this is `InsertSale`, and it is what
serialises checkouts. A cycle of waiting workers lets the database abort one of
them (`DeadlockVictim`). `Disconnect` aborts a transaction at any statement.

*Abstractions of data.* In the store prices, discounts, tax and change are gone;
a cart carries its items and the `credit_amount` that `create` computes from them
(the arithmetic is in `CartService` and `PosPage`), and method
`credit` stands for credit and partial payment. A sale number is a pair (day,
number). Batches are numbered by age, so `ORDER BY purchase_date` is the order of
their numbers. A form edit stands for columns the model does not keep. A customer
and a product are found or inactive; requests name existing ones, as the
controllers' tenants do. In billing there is one organization; an invoice has the
identity of the payment it was first opened for, and plans are their
`sort_order`. Whether a payment is still within its 30 minutes is undetermined in
the quarter of a day it was opened and in the next, and it is too old afterwards.
That the usage fits a smaller plan only refuses requests and is left out.

*Accounts.* A worker is a request, `job[w]` its next statement and its local
variables. An admin row, a cashier's and none are told apart, permissions only as
none, the default and all. `row` in a membership stands for its primary key: a
`save` of a row that is gone inserts it again, a `DELETE` by an old key finds
nothing. The subscription is live or not (`Lapse`); what makes it so is `Billing`. That a
registration finds no plan for the trial (`auth.service.ts:393-395`) cannot happen with
the seeded plans and is left out.
`Break` ends a handler at any await.

*Till.* Prices are in centavos, totals in ten-thousandths of a centavo, so that
percentages and tax stay integers; binary floating point is left out. The dialog
from its opening to the button is one action, because nothing but a late answer
changes the cart behind it. The settings of a store do not change, and the server
is `SalesService.create` reduced to what it checks and computes, with all its
refusals (`Refused`). Everybody else is `Elsewhere`: other tills that sell
(`SoldElsewhere`), two of them that lose an update of `current_stock`
(`UpdateLost`, the finding of `overlapping_sales`, so that the batches run out
first), and the removal of a product or of the customer. Each product and the
customer belong to one store; a held order survives log-out and may be recalled in
another. A tax setting is there, missing (`Unset`) or emptied (`Null`); a
`tax_enabled` of null has no control that makes it and is left out.

*Billing page.* An instance of the page is a record; one that was left goes on
listening to its requests, and matters if it has `?payment=success` in its address
(`left`). `ngOnInit` runs again (`NgOnInit`) after an upgrade, a downgrade, its
cancellation and a storage event, and looks for the keys each time
(`CheckForPendingPayment`); without the parameter there is nothing to find, and the
run is left out. `refreshSubscription`, which comes between the answer and
`ngOnInit`, is part of the answer. The card a plan is chosen from is not filtered
by the current plan, the signal of the subscription is left out, and every checkout
needs the redirect (`requires_action`), as the real gateway's do. Left out too: a
click on the menu's own link to the page or the browser's Back button, which
change the address of a page that is open, and storage listeners of a page that
was left, which `ngOnDestroy` removes.

*The billing clock* counts quarters of a day, the interval of the shortest cron.
It advances only when no handler is running (`Quiet`) and the jobs of the last
quarter were started: handlers last seconds. `Crash` cuts a handler short,
`MissCron` is a process that was down when a job was due.

## 3. Runs

Each property is described at its definition.

| Run | Question | Bounds |
|---|---|---|
| `checkout` | Do concurrent sales keep order, to which side do the cached stock and balance err, is each sale one step of `SalesBook`, and is nobody left in a deadlock? | 2 tills, 3 requests, 2 products (one with two batches, so a sale spans batches), 1 credit customer, carts that name the products in opposite orders |
| `store_serial` | Is every kind of request right by itself and after any other? | 1 worker, 4 requests out of 12 (sales, voids, deliveries, stock-outs, payments, edits, removals), 2 days |
| `tills_and_deliveries` | Do overlapping sales and deliveries use the oldest batch first, deduct exactly what they sold and book it? What does the daily job make of the stock it reads in between? | 2 workers, 3 requests, a product with two batches; the job runs up to three times and dies anywhere |
| `back_office` | What survives when everything overlaps, over midnight? Do the reports agree? Does every request end? | 2 workers, 3 requests out of 6, opposite lock orders, 2 days, one product sold at a profit and one at a loss |
| `billing_serial` | Are events counted once and never lost? For what reasons does a subscription become past due, suspended or cancelled? | 1 handler at a time, 2 sessions, 3 requests, 7 quarters: trial of 2, period of 2, 1 day of grace |
| `billing_overlap` | Are plans paid for when two handlers overlap and one crashes? | 2 workers, 1 session, 2 requests, 5 quarters, 1 crash |
| `billing_managed` | With the administrator and the settings of development: who can revive a blocked organization, and is an overdue one noticed? | 1 handler at a time, 3 requests, 12 quarters (an overdue end, a missed midnight and the next one), 1 crash or missed job |
| `accounts` | Who can work after which requests and failures? How far is a limit overrun? | 1 organization, 2 workers, 3 people, 3 requests, 2 links; the plan allows 2 users, 2 stores and 2 products |
| `till` | Does the server book what the till showed, once, and accept what the dialog let through? | 3 stores: one without settings (a product at 9.99 with 2 in stock, and the customer, who has less credit than two cost), one without tax, one whose rate was emptied (a product with 1 in stock each); one amount typed (enough for one without tax, a partial payment within or above the credit otherwise), one fixed discount larger than one unit, 3 events: visits, sales, held or cleared carts, sales and removals elsewhere |
| `browser` | Does a tab act for whom it shows? Is the upgrade for the period paid? | 2 tabs, 2 users with and without a second store, 1 plan, 3 events: log-ins, session requests, checkouts, downgrades and cancellations, and requests under way of pages that were left with the parameter |

*Why the bounds are enough to meet the interesting cases.* All races of the store
are between two transactions on one row; a third would only repeat one of them.
Three requests let a third one see what two overlapping ones left. Two batches
are the least that make FIFO and a split sale item possible. `BatchSlots` leaves
room for every delivery and `MaxSales` for every sale of a run, so neither bound
cuts a behaviour short. In billing a trial, a period and a grace shorter than a
day and a half make every job fire before, at and after each of these ends
within the bounded clock; seven quarters hold a purchase, the end of its period,
the midnight job and the retries that follow. `Sessions` permutes the checkout
sessions, which differ in nothing, and only in a run without liveness.
On a till three events are the fewest in which a sale is lost, sold again and
something is held, visited or sold elsewhere in between; editing a cart is not
counted, so every cart of the catalogue is tried. In the browser three events are
two log-ins around a request, or a log-in and two checkouts, or a log-in, a
checkout and a downgrade whose answer runs `ngOnInit` again; reloading, opening
dialogs, paying and returning are not counted. `Tabs` is a symmetry set there, and
`MCView` leaves out what no later step and no property can see: the signals of a tab
that is signed out and waits for nothing (signing in sets them all, as every user of
the run has a store), the plan and payment a closed dialog was left with, which
opening it replaces, the user of requests whose answer does not look at it,
payments that nothing names any more, and `granted` but for whether
`PeriodIsPaidFor` holds of it. Deadlock checking is on in every run but `till` and
`browser`, where people simply stop when the events are used up: in the others
`Closed` and `Over` stutter in the states where the bounded behaviour is over and
nowhere else.

### Where the program departs from what it says

Two runs expect a violation; `findings` in `PROJECT.json` quotes the text each
one contradicts.

| Run | What the code does |
|---|---|
| `overlapping_sales` | two sales of one product lose a deduction of `current_stock` |
| `downgrade_ignored` | the renewal job clears a pending downgrade and the plan stays |

The other properties are claimed for what the code does keep, and the run says
where. The model also shows the limits of some of them:
`CreditWithinLimit` is for one request at a time (two overlapping credit sales
exceed the limit); `BatchesMatchSales` is for a day (a sale numbered before
midnight and one numbered after it are not ordered); `BatchLedger` is without
stock-outs (a stock-out over two batches is booked on the first);
`ProcessedIsApplied` is without crashes (an event saved as processed before the
crash is skipped afterwards); `ActiveIsDated` and `OnlyMoneyOrAdminRevives` are
for handlers that do not overlap (the retry job writes back the status it read,
so an organization that cancels in between is past due again). `PlanIsPaidFor`
leaves out the administrator, who may give a plan away, and `BYPASS_PAYMENT`.
`RestockedOnce` and `AppliedOnce` are for one request or handler at a time: two
overlapping voids of one sale both restock it, and two overlapping deliveries of
one event both carry it out. `RemovedStaysAway` and `LinkWorksOnce` likewise: a
`save` of a row loaded before its removal inserts it again, and two requests with
one link both set a password. `ReportsAgree` leaves out the arrow of a profit that
is compared with a loss, which `calculateTrend` turns over, and speaks of figures
read at one moment (the service reads them in several statements).
`ActsAsShown` leaves out tabs in which another tab or an answer to an earlier
session interfered.

*Retries.* `NoEarlySuspension` says for what reasons a subscription stops being on,
and that arrears are suspended only when `retryFailedPayments` gives up. It does
not say how long that takes. The comment at `subscription-renewal.service.ts:87`
and `docs/subscription-status.md:268` say three retries, nine days, and
`docs/subscription-guide.md:188` three failures. The job counts its own runs, which
come every six hours, so a first arrears is suspended at the fourth run, within a
day or so; the count is kept in `usage_stats` and never reset, so a second arrears may
be suspended at the first run. The count and its survival are in `RenewalJobs`.

*The emptied rate.* The number field of the store settings can be cleared, and
`updateSettings` stores the null. `pos.ts:94-95` asks whether the rate is
undefined and computes with null / 100 = 0; `sales.service.ts:97-98` asks whether it
is null and takes 12 %. In such a store the till shows one total and the server
books another, unless tax is off. `BookedAsShown` excludes it (`RateAgreed`), and
the run finds the difference when the exclusion is dropped. It also leaves out a
till whose tax settings came from two stores since it was loaded and a discount
larger than the goods (the page shows zero, the server books a negative total).
`docs/user-guide.md:103` and `docs/project-summary.md:221` promise the default of
12 % without saying to whom.

*Refusals the page cannot foresee.* The page does not look again at what it sells.
A product or a customer removed since the page loaded it, an order of another store
that was held and recalled (`sales.service.ts:46-67`), stock or credit that somebody
else used up, and batches that hold less than `current_stock` says (`215-219`, after a
lost update) are refused although the dialog let them through. `PayableIsAccepted`
leaves these out (`Current`), and free sales and amounts with fractions of a centavo,
which the dialog sends for digital payments and the server refuses.

*The parameter that stays.* `billing.ts:113` clears `?payment=success` only when the
keys were found. Left in the address, every later `ngOnInit` finds the payment
that is pending by then and verifies it with the switch as the customer left it;
`isAnnual` is set for an annual payment and never reset for a monthly one
(`billing.ts:123-124`). A payment of a month is then carried out as one of a year,
and so is one whose page had its switch used while it loaded. `PeriodIsPaidFor`
leaves these upgrades out (`late`); the model reaches them, and the run finds them
when the exclusion is dropped.

## 4. Fairness

`PointOfSale!FairSpec` assumes weak fairness of each worker's own steps: Node
continues a handler when its statement has returned, and PostgreSQL hands a
released lock to a waiter and breaks cycles (`DeadlockVictim` is part of the
step). Nobody is obliged to send a request or to disconnect.

`Billing!FairSpec` adds strong fairness of `Tick` and of each worker's cron
jobs. A worker slot is a bound of the model and not of the program; an event the
gateway repeats for ever could occupy it, while real repetitions are finite and
the scheduler does not wait for them. Strong fairness says no more than that: a
job that is due again and again is started and time passes.

The other specifications are about safety and assume no fairness: nobody promises
that a mail arrives, a request is answered or a tab is used again.

## 5. Proofs

Every theorem is about a specification of section 2 with arbitrary constants: any
number of workers, products, batches, customers, plans, sessions and requests, and
any value of the bounds. The assumptions are those of the modules, which TLC
evaluates in each run (`TablesAssumption`, `OpeningAssumption`,
`RequestsAssumption` and `FormsAssumption` of `StoreTables`, `BillingAssumption`
and `KindsAssumption` of the billing modules, `TenantAssumption` and
`RequestsAssumption` of `TenantTables`: finite sets, a first store and founder,
and requests of the forms the controllers accept; `AlertsAssumption`,
`SessionAssumption`, `PageAssumption`, `CartAssumption` and `PosAssumption`), and the
hypotheses named with a theorem. `MaxSales <= 9999` is an assumption because the code finds the last
number by the order of strings.

| Theorem | States | When |
|---|---|---|
| `StoreProofs!CheckoutInvariance`, `CheckoutTypes`, `CheckoutNumbering` | `CheckoutsOrdered`, `TypeOK`, `GapFreeNumbers` of `Checkout` | always |
| `CheckoutExclusion` | at most one sale of a day is between INSERT and commit | always |
| `CheckoutNoDeadlock` | `NoDeadlock` | `LastDay = 1` |
| `StoreInvariance`, `StoreTypes`, `StoreNumbering`, `SalesStayFinal` | `StoreSound`, `TypeOK`, `GapFreeNumbers`, `SalesAreFinal` of `PointOfSale` | always: every handler beside every other, over midnight |
| `ReportsAddUp`, `ReportsClose` | `ReportsAgree`, `ClosedDaysShrink` | always |
| `MailedOncePerEvent` | `OneMailPerEvent` | always: beside every handler of the store, wherever the job dies |
| `TillsProofs!BatchesBooked` | `BatchLedger` | `OnlyTillsAndDeliveries` |
| `ProductsBooked`, `SoldOldestFirst`, `DeductionsMatchSales` | `ProductLedger`, `OldestFirst`, `BatchesMatchSales` | `OnlyTillsAndDeliveries` |
| `BalancesWithinDebt` | `BalanceWithinDebt` | `OnlyCharges` |
| `StockCoversBatches` | `StockNeverUnderstates` | `OnlyTills` |
| `SalesBookKept` | `ImplementsSalesBook` | `OnlyTillsAndDeliveries` |
| `SerialProofs!SerialStockMatches`, `SerialRestocksOnce`, `SerialBalanceCovers` | `StockMatchesBatches`, `RestockedOnce`, `BalanceCoversDebt` | `Serial` |
| `SerialCreditWithin` | `CreditWithinLimit` | `Serial`, `LimitsNotRaised` |
| `BillingProofs!BillingInvariance`, `BillingTypes`, `BillingReceipts` | `BooksSound`, `TypeOK`, `NoFalseReceipt` | always |
| `PaidPlans` | `PlanIsPaidFor` | `OnlyForMoney`, `OnePlanAboveTrial` |
| `ActiveHasEnd` | `ActiveIsDated` | `OneAtATime`, `NoAdmin` |
| `SuspendedInTime` | `NoEarlySuspension` | `OneAtATime`; not how long arrears last |
| `RevivedByMoneyOrAdmin`, `EventsAppliedOnce` | `OnlyMoneyOrAdminRevives`, `AppliedOnce` | `OneAtATime` |
| `EventsAreApplied` | `ProcessedIsApplied` | `OneAtATime`, no crash |
| `AccountsProofs!AccountTypes`, `WelcomeHolds`, `StrandingNeedsFailure` | `TypeOK`, `WelcomedCanWork`, `StrandedOnlyByFailure` of `Accounts` | always |
| `RemovalHolds`, `LinkSetsOnePassword` | `RemovedStaysAway`, `LinkWorksOnce` | always; the properties speak of behaviours in which no two requests met |
| `PlanLimitsHold` | `OverrunBounded` | always, for any number of requests in progress |
| `BrowserProofs!TabsActAsShown`, `PeriodsArePaidFor` | `ActsAsShown`, `PeriodIsPaidFor` of `BillingPage` | always; the first speaks of tabs nobody interfered with, the second of upgrades that are not late |
| `TillPageProofs!TillTypes`, `CartSoldOnce`, `PayablePasses` | the types of `PosPage`, `SoldTwiceOnlyIfLost`, `PayableIsAccepted` | always; the last speaks of sales whose goods and customer are as the page knew them |
| `SalesBookedAsShown` | `BookedAsShown` | `SameDefaults`; the property leaves out stores that tax and whose rate was emptied, tax of two stores, and discounts above the goods |

*The hypotheses* are where the code keeps the property, and no narrower than the
runs. `OnlyTillsAndDeliveries`: one day and neither voids nor stock-outs (edits of
products and customers and payments go on). A void or a stock-out beside a
checkout reads and writes a batch without the lock that keeps two checkouts apart
and loses an update; a stock-out books all it took on its first batch; around
midnight two checkouts hold numbers of different days. `OnlyTills` excludes
deliveries too: the stock a delivery commits between a checkout's read and its
save is overwritten, and then the cached stock is below the batches.
`OnlyCharges`: neither voids nor payments, whose decrease of a balance would be
overwritten in the same way; everything else, over any number of days, may
overlap. `Serial` is one worker, as in the run `store_serial`, with every kind of
request and over any number of days; `LimitsNotRaised` leaves out an edit that
gives a customer more credit than the property counts. `SameDefaults` is in the
sources: the page starts with tax enabled at 12 (`cart.service.ts`), and the
server takes 12 when a store has no rate. `OneAtATime` is the claim of the runs `billing_serial` and
`billing_managed`: section 3 says what two overlapping handlers do to these
properties. `OnePlanAboveTrial` is the product: the trial is on the second of
three plans (`auth.service.ts:390`,
`1707400000000-AddSubscriptionTables.ts:88-122`). With two plans above the trial
an upgrade could be granted for the session of another, which the invariant would
have to exclude by the order of events rather than by what is in the tables.

### The arguments

*Numbers (`Checkout`).* `GapFreeNumbers` is not inductive: a worker that holds
number *n* says nothing about *n-1*. `CheckoutsOrdered` adds who owns what. An
open row of `sales` belongs to the worker that was given its number
(`OpenSaleOwned`); a worker past `generateSaleNumber` has a number and past its
INSERT holds the row (`NumberHeld`); when a number was given out, all smaller ones
of the day were committed already (`NumbersFollow`), and they are never taken
back; only a worker that holds a sale row locks products, batches or customers
(`LocksHeldBySales`). So a number that commits follows committed ones. Two open
sales of a day would have different numbers, and the larger one says the smaller
is committed, which an open row is not: `OneOpenSale`. A worker that waits, waits
for one that holds a sale; in a cycle each would be waiting and holding, so two of
them would hold sales of one day.

*The whole back office (`StoreSound`).* The same facts no longer suffice when
voids write sales and deliveries write batches. `HandlersKnow` says for each
statement what the handler there has read and what its locals are (`Knows`): which
form of request it serves, that an entity it is saving fits its table
(`SaveTyped`), that a sale it is voiding is taken and differs from the row in its
status at most (`SameSale`). `OpenSalesOwned` tells the two writers of `sales`
apart: a row somebody inserted (`Inserted`) or one that a void is about to mark
(`Marked`). `SalesAreFinal` follows from these with the relation `SalesKept`,
which every step satisfies and which makes `Knows` stable for all other workers.

*Batches (`LedgerSound`).* A checkout reads the open batches of an item, computes
and saves each of them some statements later. That this is exact needs the rows
not to change in between, and no lock on them says so. The argument is the sale
number: to be in this section a checkout must have inserted its sale, only one
worker a day can have done that (`OneHolder`), and a delivery writes a row that no
list contains, as it does not exist yet. So what a worker's list holds is what it
still sees (`ListFresh`), what it writes is what it computed (`SaveFresh`), and
its movements plus the committed ones are what it will leave in the row (`Tally`).

*What was sold (`RowsSound`, `FifoSound`, `LinesSound`).* Three layers on top of
it. Only active batches hold anything, so the batches a search skips are empty.
What a worker would leave in the batches is in FIFO order (`TakesOldest`), because
a batch that is not on its list any more, or never was, is used up (`UsedUp`).
What it took from each batch is on the lines of its open sale (`LinesBooked`), and
what is missing in the batches is on the committed ones (`SalesAddUp`).

*The cached sums.* `StockNeverUnderstates` and `BalanceWithinDebt` hold although
updates are lost, and the invariants say to which side. A balance a handler has
read, or a version of the row it is writing, is at most the committed credit sales
plus the one this worker is going to commit (`BalanceSound`): losing a charge of
somebody else only lowers it, and a rollback takes charge and sale together. A
stock it has read, or is writing, is at least what the movements leave in the
batches, with those this worker is going to book, and what it took from the
batches and not yet from the product (`StockSound`): the committed sales of others
only lower the right-hand side.

*The abstract book.* `ImplementsSalesBook` adds to these invariants that the book
is what has been committed. A step that is no commit does not show there. The
commit of a checkout turns the moves of its worker into committed ones: by
`LinesBooked` they are the lines of its sale, by `TakesOldest` they come off the
oldest batches, and as no batch falls below zero there was enough on hand, so
`SalesBook` can make the sale in one step. The commit of a delivery is a receipt
in a slot nobody used. All other commits leave the book alone.

*One request at a time (`SerialSound`).* Between two requests stock and batches,
batches and sales, balances and sales agree; within one they do not, since a
handler writes them one after another. `Agrees` says for each statement what is
half done in the tables as the open transaction sees them, with the entity it is
saving already applied: units taken of the batches and not yet of the product, or
put back into the product and not into the batch (`AheadBy`); lines a void has
restocked (`PutBack`); credit that is on the sale and not in the balance, or gone
from the balance before the sale is void, or paid and not committed (`Pending`).
`Fresh` says that what the handler has read is what is in the table, which holds
for one worker and is what a second one would break, and that a checkout past the
check has room for its credit. At `commit` nothing is half done, and a rollback
returns to tables of which the same was known (`Accounts` of the committed rows).
A save writes what was computed because the row it selects is the one the handler
read (`SavedAsComputed`). The invariant was checked by TLC on the instance of
`store_serial` before it was proved.

*The reports.* `ReportsAgree` holds of any tables of their types: the figures are
sums over sales, and sums split over days and over two halves of a period
(`TotalOver`, `TotalPlus`). `ClosedDaysShrink` needs that no sale is dated before
the day of its number (`DatesFollow`): a day that is over takes no new sale, and
by `SalesKept` its sales change to void at most.

*Sums.* The properties add over sets with `MapThenSumSet`, a recursion over an
arbitrary choice. `SumLemmas` shows what is needed of it (`TotalSame`,
`TotalChange`, `TotalPlus`, `TotalOver`, `TotalUp`) without induction: a smallest
subset for which a statement fails exists by the well-foundedness of the subsets
of a finite set, and its own choice contradicts it.

*Billing.* `BooksSound` gives each statement of each handler its knowledge of the
records it works on: whoever opens a session is the only one to record its
payment, a recorded payment keeps its identity, and money is recorded only behind
the gateway's answer or event. That is independent of everything the other
handlers do, so it needs no hypothesis. `PaidPlans` adds that every plan a handler
is about to write is `Funded`: it is not above the trial or some paid session was
for it, which no step takes back. `Proper` and `EventKnown` are about one handler
at a time: a subscription that is active or past due has an end, an entity that is
saved follows from the row that is there, and an event that will be skipped was
carried out or is being carried out by the handler at work (`InFlight`).

*Alerts.* A product is owed one mail for each spell below its level (`MailBudget`):
the mail of the present spell is spent by the one that was sent or by the one the
job is about to send (`Due`), and an alert is closed only for a product the job
read above its level, when the next spell has a mail of its own (`Recovered`).
That what the job read is still in the table (`LocalsFresh`) holds because nobody
else writes alerts. The requests of the store occur in one lemma, as any step that
may lift or lower the stock.

*Accounts.* Four layers, each inductive on top of the types (`Typed`, which says
for each await what the handler there has loaded). `Opened` and `Untouched`: until
a store has its first admin nobody has anything to do with it, so only the
registration that made it can take part in its beginning. `People`: for each
account, which of the rows a registration or an invitation makes exist at which
statement; `WelcomedCanWork` is what is left when the handler has answered.
`Removed` and `Alone`: as long as no two requests met, the one handler at work is
the only one with a row in its hand, so nobody can insert again what was removed.
`InHand`: for every account with something missing there is a worker that is going
to make it or was cut off; with nobody at work, somebody was cut off.
`LinksSound`: while requests come one at a time, a link that set a password was
consumed before the next request read it.

*Limits of a plan.* The guard counts, and some statements later the handler
inserts. What is bounded is therefore not the rows but the rows and the places
promised: `Reserved` and `Inviting` for users, `Held` and `Founding` for stores,
`Kept` and `Adding` for products. Only a count below the limit promises a place,
every worker holds one at most, and all of them were in progress together
(`crowd`), so a count that lets the last one in leaves at most `crowd - 1` others
above the limit. A registration is not counted; it inserts an owner's first store
(`FoundersLandless`), and a store that is saved keeps its owner (`SaverSound`).

*Browser.* `SessionSound`: the token of the storage, the user stored with it and
the user a tab shows are one person, in every tab nobody interfered with, and its
store is one of that person's. A tab gets back into this state by a reload only
when what is stored belongs together, and then a store is active if there is one
(`StoreChosen`). `PagesSound`: the three keys, every upgrade request and whatever
was carried out name the period of the payment they name (`PeriodsAgree`), and no
step changes what a payment was for. That is not inductive without the pages: the
period of a dialog may be switched while it is closed. A page waits for one request
at most and switches nothing meanwhile, so an open dialog shows the period of the
checkout it asked for, and later of the payment it is going to verify
(`PageSound`). That leaves the switch of a page that comes back from the checkout:
it starts at monthly and `ngOnInit` looks for the keys before anybody can have used
it, unless it was used while the page loaded or the keys are found in a later run of
`ngOnInit`. The invariant carries this in `late`: a page, shown or left, that has the
parameter and is not late has its switch at monthly as long as it loads for the first
time.

*The till.* Three invariants, apart from the types. `SalesBudget`: the sales of a
cart, its requests on their way and the cart itself, as long as it may still be
sent, are together at most one more than the lost answers; holding a cart and
taking it back moves it, and an answer from an earlier visit empties a cart with
another number or none that was sent (`CartsNumbered`, `WaitsForItsCart`).
`StockSeen`: the stock that a page, a cart line or a request remembers was true
once, and the stock only falls while the till is open. `ShownInv`: the tax of the
page follows from the stores it loaded settings of (`TaxKnown`), settings applied
twice change nothing, and then every request carries the total and the change
that the server is going to compute (`RequestAgrees`), unless the store's rate was emptied; the one place where the two
round differently is a partial payment, and its two parts round to the whole.

*Only model-checked.* `Answered` and `OverdueIsHandled`, which are liveness and
out of the prover's reach like `ENABLED`, and the two runs that expect a
violation. Every other property of a passing run is stated by a theorem above,
under the hypotheses named there.

## 6. Not modelled

Suppliers, categories and receipts neither race nor keep anything that depends on
order; the pages that list and edit rows are forms around single requests. Of the
guards, single permissions and the feature flags of a plan are predicates of the
request that change nothing, and the modelled requests are an administrator's.
That a smaller plan must fit the usage only refuses downgrades. Rendering,
routing, migrations and seed scripts have no behaviour to check. The order of
sale numbers as strings matters from the ten-thousandth sale of a day on
(`MaxSales <= 9999`). The tax settings a store changes while a till is open and
binary floating point are left out of the till, and so are deliveries and payments
elsewhere during its session, which only raise what is in stock or may be owed; the
signal of the subscription is left out of the browser.

## 7. Plan

The safety and action properties of all passing runs are proved. Liveness and
`ENABLED` stay with TLC. What could be said beyond them: which two kinds of
requests may overlap without breaking the accounts of `SerialProofs` (two payments
of different customers, say), in place of one request at a time.

In the model: tax settings that change while a till is open, the downgrade that
must fit the usage together with the limits, and the composition of `PosPage` with
`Checkout` instead of its own server.

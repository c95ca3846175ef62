------------------------------ MODULE PosPage -------------------------------
(***************************************************************************)
(* frontend features/pos/pos.ts with the payment dialog, and what it       *)
(* reaches on the server.  A page that was left is a component nobody sees,*)
(* but the answers to its requests still come and change the cart, which   *)
(* is the application's.  The server is sales.service.ts seen from here:   *)
(* what it checks and what it computes.  Meanwhile other tills sell, and   *)
(* products and customers are removed.  Deliveries and payments, which     *)
(* only make more pass, are left out.                                      *)
(***************************************************************************)
EXTENDS CartService

CONSTANTS
    Stores,       \* stores the users of this browser work in
    FirstStore,   \* the one they start in
    Settings,     \* Settings[s]: [enabled, rate], Unset where the store has no such key
    Unset,
    Null,         \* the rate of a store whose field was emptied
    StoreOf,      \* StoreOf[p]: the store that product p belongs to
    CustomerStore,\* the store of the customer
    OpeningStock, \* OpeningStock[p] in the database
    OpeningCredit,\* credit left to the customer
    Notes,        \* amounts a cashier types, in centavos
    MaxEvents     \* bound: visits, sale requests, orders held, carts thrown away and
                  \*        sales elsewhere, together

ASSUME PosAssumption ==
    /\ FirstStore \in Stores
    /\ OpeningStock \in [Products -> Nat] /\ OpeningCredit \in Nat
    /\ StoreOf \in [Products -> Stores] /\ CustomerStore \in Stores
    /\ Settings \in [Stores -> [enabled : BOOLEAN \cup {Unset}, rate : Nat \cup {Unset, Null}]]
    /\ Unset \notin BOOLEAN \cup Nat /\ Null \notin Nat \cup {Unset}
    /\ Notes \subseteq Nat \ {0}

VARIABLES
    store,        \* storeContext.storeId
    visit,        \* which instance of the page is shown
    since,        \* the first one since the browser loaded the application
    settings,     \* settings requests: [visit, store]
    taxFrom,      \* history: stores whose settings were applied since then
    flight,       \* sale requests whose answer is awaited
    stock,        \* the database: current_stock of each product,
    batches,      \*   what its batches hold,
    removed,      \*   the products that are not active any more,
    credit,       \*   the credit left to the customer,
    listed,       \*   whether the customer is active
    booked,       \* history: sales the server recorded, [cart, off]: what differs from
                  \*          the dialog, of a cashier who was told the store's tax
    refused,      \* history: what it refused although the page knew no better,
                  \*          [method, amounts]
    lost,         \* history: lost[c] answers of cart c that did not come
    events        \* how many there were

pageVars == <<store, visit, since, settings, taxFrom, tax, shown>>
baseVars == <<stock, batches, removed, credit, listed>>
dataVars == <<baseVars, booked, refused>>
vars == <<cartVars, pageVars, dataVars, flight, lost, events>>

Empties == [p \in Products |-> 0]

Init ==
    /\ shown = Empties /\ items = Empty /\ customer = NoCustomer
    /\ discount = NoDiscount /\ method = "cash" /\ held = <<>> /\ cartNo = 1 /\ cartsBegun = 1
    /\ tax = DefaultTax /\ taxFrom = {}
    /\ store = FirstStore /\ visit = 1 /\ since = 1
    /\ settings = {[visit |-> 1, store |-> store]}
    /\ flight = {} /\ events = 0
    /\ stock = OpeningStock /\ batches = OpeningStock /\ removed = {}
    /\ credit = OpeningCredit /\ listed = TRUE
    /\ booked = <<>> /\ refused = {} /\ lost = [c \in 1 .. 2 * MaxEvents + 1 |-> 0]

\* One more of what is bounded.  What only prepares a sale waits for room for it.
Room  == events < MaxEvents
Count == Room /\ events' = events + 1

Loading == \E r \in flight : r.visit = visit     \* the signal of the shown page
-----------------------------------------------------------------------------
(* The page: ngOnInit, loadProducts, loadStore.                            *)

OpenPage(s) ==
    /\ Count
    /\ visit' = visit + 1 /\ store' = s /\ shown' = Empties

\* Away and back in the application, possibly as another user (logout and login
\* navigate without a reload): the services live on.
Visit(s) ==
    /\ OpenPage(s) /\ Cleared
    /\ settings' = settings \cup {[visit |-> visit + 1, store |-> s]}
    /\ UNCHANGED <<held, since, taxFrom, tax, dataVars, flight, lost>>

\* The header reloads the window after switching the store.
Reload(s) ==
    /\ s # store
    /\ OpenPage(s) /\ Cleared /\ held' = <<>>
    /\ since' = visit + 1 /\ settings' = {[visit |-> visit + 1, store |-> s]}
    /\ tax' = DefaultTax /\ taxFrom' = {}
    /\ UNCHANGED <<dataVars, flight, lost>>

\* What the store s finds: its active products and customers.
HasProduct(s, p) == StoreOf[p] = s /\ p \notin removed
HasCustomer(s)   == CustomerStore = s /\ listed

\* GET /products, as the database has them when it answers; what is not in the grid
\* cannot be added, like what has no stock.
Catalogue == [p \in Products |-> IF HasProduct(store, p) THEN stock[p] ELSE 0]

LoadProducts ==
    /\ Room /\ shown # Catalogue /\ shown' = Catalogue
    /\ UNCHANGED <<cartVars, store, visit, since, settings, taxFrom, tax,
                   dataVars, flight, lost, events>>

Or(setting, otherwise) == IF setting = Unset THEN otherwise ELSE setting

\* null / 100 = 0
PageRate(s, kept) == IF Settings[s].rate = Null THEN 0 ELSE Or(Settings[s].rate, kept)

LoadStore ==
    Room /\ \E r \in settings :
        /\ settings' = settings \ {r}
        /\ taxFrom' = taxFrom \cup {r.store}
        /\ tax' = [enabled |-> Or(Settings[r.store].enabled, tax.enabled),
                   rate |-> PageRate(r.store, tax.rate)]
        /\ UNCHANGED <<cartVars, store, visit, since, shown,
                       dataVars, flight, lost, events>>

\* The payment dialog is modal and cannot be closed while a sale is processed.
EditCart ==
    /\ Room /\ ~Loading
    /\ \/ /\ \/ \E p \in Products : AddItem(p) \/ Increment(p) \/ Decrement(p)
             \/ (HasCustomer(store) /\ SelectCustomer(credit)) \/ SelectCustomer(NoCustomer)
             \/ (\E d \in Discounts : ApplyDiscount(d)) \/ RemoveDiscount
             \/ RecallOrder
          /\ UNCHANGED events
       \/ Count /\ (HoldOrder \/ ClearCart)
    /\ UNCHANGED <<pageVars, dataVars, flight, lost>>
-----------------------------------------------------------------------------
(* The payment dialog and completeSale.                                    *)

OnCredit == {"credit", "partial"}

\* What the keypad and the notes make, and the total itself, which the dialog
\* offers; in the unit of a total.
Typed   == {n * Unit : n \in Notes}
Amounts == Typed \cup {Total}

CreditAmount(m, paid) == CASE m = "credit"  -> Total
                           [] m = "partial" -> AtLeastZero(Total - paid)
                           [] OTHER         -> 0

CreditExceeded(m, paid) ==
    CreditAmount(m, paid) > Unit * IF customer = NoCustomer THEN 0 ELSE customer

\* Mutant: a partial payment is not held to the credit left.
CanCompletePartial(m, paid) ==
    /\ ~Loading
    /\ CASE m = "cash"    -> paid >= Total
         [] m = "credit"  -> ~CreditExceeded(m, paid)
         [] m = "partial" -> paid > 0 /\ paid < Total
         [] OTHER         -> TRUE

CanComplete(m, paid) ==
    /\ ~Loading
    /\ CASE m = "cash"    -> paid >= Total
         [] m = "credit"  -> ~CreditExceeded(m, paid)
         [] m = "partial" -> paid > 0 /\ paid < Total /\ ~CreditExceeded(m, paid)
         [] OTHER         -> TRUE                \* digital

\* The tabs: credit and partial are there only for a customer, but a method that
\* was left chosen stays when the customer is removed.
Selectable(m) == m \in OnCredit => customer # NoCustomer

\* A rate that was emptied is 0 for the page and 12 for the server.
RateAgreed(s) == Settings[s].rate = Null => Settings[s].enabled = FALSE

\* What is sent, and what the cashier is shown when the button is pressed: the
\* discount as entered, the credit rounded, the amount as it is.
Payload(m, paid) == [
    visit |-> visit, cart |-> cartNo, store |-> store, state |-> "sent",
    lines |-> [p \in DOMAIN items |-> items[p].qty], discount |-> discount,
    paid |-> paid, method |-> m, charged |-> Round(CreditAmount(m, paid)),
    shown |-> Round(Total), change |-> Round(AtLeastZero(paid - Total)),
    told |-> /\ taxFrom = {store} /\ RateAgreed(store)
             /\ DiscountOf(Subtotal, discount) <= 100 * Subtotal,
    seen |-> [p \in DOMAIN items |-> items[p].stock], creditSeen |-> customer]

\* The dialog from its opening to the button; it is modal.
CompleteSale(m, amount) ==
    /\ items # Empty /\ Count
    /\ m = method \/ Selectable(m)
    /\ LET paid == CASE m = "credit" -> 0 [] m = "digital" -> Total [] OTHER -> amount
       IN CanComplete(m, paid) /\ flight' = flight \cup {Payload(m, paid)}
    /\ method' = m
    /\ UNCHANGED <<items, customer, discount, held, cartNo, cartsBegun,
                   pageVars, dataVars, lost>>
-----------------------------------------------------------------------------
(* The server: CreateSaleDto and SalesService.create.                      *)

\* @IsNumber({ maxDecimalPlaces: 2 })
TwoDecimals(amount) == amount % Unit = 0

\* A rate that is missing or null is the default.
ServerRate(s) ==
    IF Settings[s].enabled = FALSE THEN 0
    ELSE IF Settings[s].rate \in {Unset, Null} THEN 12 ELSE Settings[s].rate

\* Mutant: the tax of the whole subtotal.
ServerTotalUndiscountedTax(r) ==
    LET sub == MapThenSumSet(LAMBDA p : Price[p] * r.lines[p], DOMAIN r.lines)
    IN 100 * (100 * sub - DiscountOf(sub, r.discount)) + 100 * sub * ServerRate(r.store)

\* Not cut off at zero, other than the page's.
ServerTotal(r) ==
    LET sub == MapThenSumSet(LAMBDA p : Price[p] * r.lines[p], DOMAIN r.lines)
    IN (100 * sub - DiscountOf(sub, r.discount)) * (100 + ServerRate(r.store))

\* The amounts; the customer; a product; the credit; the batches.
Refused(r) ==
    \/ ~TwoDecimals(r.paid)
    \/ r.creditSeen # NoCustomer /\ ~HasCustomer(r.store)
    \/ \E p \in DOMAIN r.lines : ~HasProduct(r.store, p) \/ stock[p] < r.lines[p]
    \/ r.method \in OnCredit /\ (r.creditSeen = NoCustomer \/ r.charged > credit)
    \/ \E p \in DOMAIN r.lines : batches[p] < r.lines[p]

Agreed == [total |-> 0, change |-> 0, open |-> 0]

\* What the page went by is still so, and the batches hold what current_stock says.
Current(r) ==
    /\ \A p \in DOMAIN r.seen :
         HasProduct(r.store, p) /\ r.seen[p] = stock[p] /\ stock[p] = batches[p]
    /\ r.creditSeen = NoCustomer \/ (r.creditSeen = credit /\ HasCustomer(r.store))

Reply(r, s) == (flight \ {r}) \cup {[visit |-> r.visit, cart |-> r.cart, state |-> s]}

Refuse(r) ==
    /\ flight' = Reply(r, "refused")
    /\ refused' = IF Current(r) /\ r.shown > 0
                  THEN refused \cup {[method |-> r.method, amounts |-> TwoDecimals(r.paid)]}
                  ELSE refused
    /\ UNCHANGED <<baseVars, booked>>

Record(r) ==
    /\ flight' = Reply(r, "booked")
    /\ LET Sold(p) == IF p \in DOMAIN r.lines THEN r.lines[p] ELSE 0 IN
       /\ stock' = [p \in Products |-> stock[p] - Sold(p)]
       /\ batches' = [p \in Products |-> batches[p] - Sold(p)]
    /\ credit' = credit - IF r.method \in OnCredit THEN r.charged ELSE 0
    /\ LET total  == Round(ServerTotal(r))
           change == Round(AtLeastZero(r.paid - ServerTotal(r)))
       IN booked' = Append(booked, [
            cart |-> r.cart,
            off |-> IF r.told THEN [total |-> total - r.shown, change |-> change - r.change,
                                    open |-> AtLeastZero(total - Round(r.paid) - r.charged)]
                    ELSE Agreed])
    /\ UNCHANGED <<removed, listed, refused>>

Serve(r) ==
    /\ r.state = "sent"
    /\ IF Refused(r) THEN Refuse(r) ELSE Record(r)
    /\ UNCHANGED <<cartVars, pageVars, lost, events>>

\* Another till sells a unit to the same customer, on what credit is left.
SoldElsewhere(p) ==
    /\ HasProduct(StoreOf[p], p) /\ stock[p] > 0 /\ batches[p] > 0
    /\ stock' = [stock EXCEPT ![p] = @ - 1] /\ batches' = [batches EXCEPT ![p] = @ - 1]
    /\ credit' = 0
    /\ UNCHANGED <<removed, listed>>

\* Two tills sell a unit each, and one of the two updates of current_stock is lost
\* (PointOfSale, run overlapping_sales).
UpdateLost(p) ==
    /\ HasProduct(StoreOf[p], p) /\ stock[p] > 0 /\ batches[p] > 1
    /\ stock' = [stock EXCEPT ![p] = @ - 1] /\ batches' = [batches EXCEPT ![p] = @ - 2]
    /\ UNCHANGED <<removed, credit, listed>>

\* DELETE /products/:id and /customers/:id: is_active becomes false.
RemoveProduct(p) ==
    /\ p \notin removed /\ removed' = removed \cup {p}
    /\ UNCHANGED <<stock, batches, credit, listed>>

RemoveCustomer ==
    /\ listed /\ listed' = FALSE
    /\ UNCHANGED <<stock, batches, removed, credit>>

Elsewhere ==
    /\ Count
    /\ \/ \E p \in Products : SoldElsewhere(p) \/ UpdateLost(p) \/ RemoveProduct(p)
       \/ RemoveCustomer
    /\ UNCHANGED <<cartVars, pageVars, booked, refused, flight, lost>>
-----------------------------------------------------------------------------
(* The answers, wherever the browser is by then.                           *)

Listening(r) == r.visit >= since       \* the browser that asked is still running

\* next: the cart is cleared, whichever cart it is; the page that asked loads
\* its products again.
Completed(r) ==
    /\ r.state = "booked" /\ flight' = flight \ {r}
    /\ IF Listening(r)
       THEN /\ Cleared
            /\ shown' = IF r.visit = visit THEN Catalogue ELSE shown
       ELSE UNCHANGED <<items, customer, discount, method, cartNo, cartsBegun, shown>>
    /\ UNCHANGED <<held, store, visit, since, settings, taxFrom, tax, dataVars,
                   lost, events>>

\* error: the server refused; the dialog and the cart stay.
Failed(r) ==
    /\ r.state = "refused" /\ flight' = flight \ {r}
    /\ UNCHANGED <<cartVars, pageVars, dataVars, lost, events>>

\* error: no answer.  The request was carried out, never came, or is still on
\* its way.
Lost(r) ==
    /\ r.state \in {"sent", "booked"} /\ r.visit > 0
    /\ \/ flight' = flight \ {r}
       \/ r.state = "sent" /\ flight' = (flight \ {r}) \cup {[r EXCEPT !.visit = -events]}
    /\ lost' = [lost EXCEPT ![r.cart] = @ + 1]
    /\ UNCHANGED <<cartVars, pageVars, dataVars, events>>

Answer == \E r \in flight : Serve(r) \/ Completed(r) \/ Failed(r) \/ Lost(r)

Next ==
    \/ \E s \in Stores : Visit(s) \/ Reload(s)
    \/ LoadProducts \/ LoadStore \/ EditCart
    \/ \E m \in {"cash", "digital", "credit", "partial"}, a \in Amounts : CompleteSale(m, a)
    \/ Answer \/ Elsewhere

Spec == Init /\ [][Next]_vars
-----------------------------------------------------------------------------
\* What the cashier read out is what is recorded: total and change of the recorded
\* sale are those of the dialog, to the centavo, and what was paid and put on credit
\* covers them; page and server compute them apart (cart.service.ts computed,
\* sales.service.ts create).  For a dialog that had this store's tax and no other
\* since the browser loaded the application, and a discount of no more than the
\* goods.  It does NOT hold in a store that taxes and whose rate was emptied (null):
\* the page shows no tax (pos.ts:94-95), the server books 12 % (sales.service.ts:97-98).
BookedAsShown == \A i \in DOMAIN booked : booked[i].off = Agreed

\* The page lets nothing pass that the server will refuse, as long as what it knows
\* is still so: a sale that costs something, with amounts in centavos, is not refused
\* while its goods and its customer are in the store and active, its stock and credit
\* are as they were seen, and the batches hold what current_stock says.  The page
\* looks at none of this again: what was removed or sold meanwhile, an order of
\* another store that was recalled and a shortage of the batches are refused
\* (sales.service.ts:46-67, 215-219).
PayableIsAccepted == \A r \in refused : ~r.amounts

\* One cart, one sale: a cart is recorded again only after an answer about it was
\* lost and the cashier was told to try again; neither holding and recalling it
\* nor leaving the page in the middle of a sale records it twice.
SoldTwiceOnlyIfLost ==
    \A c \in DOMAIN lost :
        Cardinality({i \in DOMAIN booked : booked[i].cart = c}) <= 1 + lost[c]
=============================================================================

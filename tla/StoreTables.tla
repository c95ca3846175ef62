---------------------------- MODULE StoreTables -----------------------------
(***************************************************************************)
(* The tables of one store, and what every request handler does with them. *)
(* A worker is one HTTP request being served by the NestJS backend; each   *)
(* await of a handler is a point where other workers may run, so a handler *)
(* is cut at its SQL statements.  The services (SalesService, ...) extend  *)
(* this module with their handlers.                                        *)
(***************************************************************************)
EXTENDS Integers, Sequences, FiniteSets, FiniteSetsExt, RowStore, Entities

CONSTANTS
    Workers,        \* requests that may be served at the same time
    Products,       \* products of the store
    Customers,      \* customers of the store
    NoCustomer,     \* a walk-in sale has no customer_id
    Requests,       \* the requests the clients send
    Opening,        \* Opening[p]: quantities of p's batches at the start, oldest first
    OpeningStock,   \* OpeningStock[p]: current_stock of p at the start, the sum of its batches
    CreditLimit,    \* CreditLimit[c]: credit limit of c at the start
    BatchSlots,     \* bound: batches a product may ever have
    MaxSales,       \* bound: sale numbers of a day
    LastDay,        \* bound: days a behaviour may span
    MaxRequests     \* bound: requests served in a behaviour

VARIABLES
    product,    \* table products: current_stock and is_active
    batch,      \* table inventory_batches: current_quantity and is_active
    customer,   \* table customers: current_balance, credit_limit and is_active
    sale,       \* table sales, by sale number, with its sale_items
    moved,      \* table stock_movements: sum of the quantities of a batch
    paid,       \* table credit_payments: sum of the payments of a customer
    today,      \* the day on the server's clock
    served,     \* how many requests were taken so far
    pc,         \* next statement of each worker
    num,        \* sale number a worker generated, NoNumber when it has none
    tx          \* local variables of each worker's handler

tables == <<product, batch, customer, sale, moved, paid>>
vars == <<product, batch, customer, sale, moved, paid, today, served, pc, num, tx>>

-----------------------------------------------------------------------------
Slots    == 1 .. BatchSlots
BatchIds == Products \X Slots          \* <<p, k>>: the k-th oldest batch of p
SaleIds  == (1 .. LastDay) \X (1 .. MaxSales)    \* <<day, n>>: SALE-<day>-<n>
NoNumber == <<0, 0>>

ProductRow  == [stock : Int, active : BOOLEAN]
BatchRow    == [qty : Nat, active : BOOLEAN, made : BOOLEAN]
CustomerRow == [balance : Int, limit : Nat, active : BOOLEAN]
Line        == [batch : BatchIds, qty : Nat]          \* a sale item
SaleRow     == [status : {"none", "completed", "void"}, lines : Seq(Line),
                customer : Customers \cup {NoCustomer}, credit : Nat, date : Nat]

\* What CreateSaleDto lets through, with credit for the credit_amount that create
\* takes from it or computes; method "credit" stands for credit and partial.
CartItem == [product : Products, qty : Nat \ {0}]
SaleForm == [kind : {"sale"}, items : Seq(CartItem), customer : Customers \cup {NoCustomer},
             method : {"cash", "credit"}, credit : Nat]

\* The other requests: their path parameters, and what their DTOs let through.
VoidForm    == [kind : {"void"}, sale : SaleIds]
StockForm   == [kind : {"stockIn", "stockOut"}, product : Products, qty : Nat \ {0}]
ProductForm == [kind : {"editProduct", "removeProduct"}, product : Products]
LimitForm   == [kind : {"editCustomer"}, customer : Customers, limit : Nat]
AccountForm == [kind : {"deactivateCustomer"}, customer : Customers]
PaymentForm == [kind : {"payment"}, customer : Customers, amount : Nat \ {0}]

NoProduct  == [stock |-> 0, active |-> FALSE]
NoBatch    == [qty |-> 0, active |-> FALSE, made |-> FALSE]
NoAccount  == [balance |-> 0, limit |-> 0, active |-> FALSE]
NoSale     == [status |-> "none", lines |-> <<>>, customer |-> NoCustomer, credit |-> 0,
               date |-> 0]
NoRequest  == [kind |-> "none"]
NoList     == [k \in {} |-> NoBatch]
NoMoves    == [b \in BatchIds |-> 0]

\* The variables of a handler that has not started.
NoLocals == [req |-> NoRequest, i |-> 1, prod |-> [p \in Products |-> NoProduct],
             cust |-> NoAccount, sold |-> NoSale, todo |-> {}, list |-> NoList, left |-> 0,
             moves |-> NoMoves, pay |-> 0,
             tbl |-> "none", key |-> 0, ent |-> 0, cols |-> {}, then |-> "idle"]

BatchesOf(p) == {b \in BatchIds : b[1] = p}

OpeningBatch(b) ==
    IF b[2] \in DOMAIN Opening[b[1]]
    THEN [qty |-> Opening[b[1]][b[2]], active |-> TRUE, made |-> TRUE]
    ELSE NoBatch

ASSUME TablesAssumption ==
    /\ NoTx \notin Workers
    /\ NoCustomer \notin Customers
    /\ BatchSlots \in Nat /\ MaxSales \in Nat /\ LastDay \in Nat \ {0} /\ MaxRequests \in Nat
    /\ MaxSales <= 9999        \* up to there the order of the numbers is that of the strings
    /\ Opening \in [Products -> Seq(Nat \ {0})]
    /\ OpeningStock \in [Products -> Nat]
    /\ CreditLimit \in [Customers -> Nat]

\* The cached stock starts as the sum of the batches, and all of them fit.
ASSUME OpeningAssumption == \A p \in Products :
    /\ Len(Opening[p]) <= BatchSlots
    /\ OpeningStock[p] = MapThenSumSet(LAMBDA b : OpeningBatch(b).qty, BatchesOf(p))

ASSUME RequestsAssumption == \A r \in Requests : r.kind = "sale" =>
    r \in SaleForm /\ r.items # <<>> /\ (r.method = "cash" => r.credit = 0)

\* There is no other kind of request.
ASSUME FormsAssumption ==
    Requests \subseteq SaleForm \cup VoidForm \cup StockForm \cup ProductForm \cup LimitForm
                     \cup AccountForm \cup PaymentForm

Init ==
    /\ batch = [b \in BatchIds |-> Stored(OpeningBatch(b))]
    /\ product = [p \in Products |->
                    Stored([stock |-> OpeningStock[p], active |-> TRUE])]
    /\ customer = [c \in Customers |->
                    Stored([balance |-> 0, limit |-> CreditLimit[c], active |-> TRUE])]
    /\ sale = [n \in SaleIds |-> Stored(NoSale)]
    /\ moved = [b \in BatchIds |-> OpeningBatch(b).qty]
    /\ paid = [c \in Customers |-> 0]
    /\ today = 1
    /\ served = 0
    /\ pc = [w \in Workers |-> "idle"]
    /\ num = [w \in Workers |-> NoNumber]
    /\ tx = [w \in Workers |-> NoLocals]

-----------------------------------------------------------------------------
(* Steps every handler shares.                                             *)

\* The local variables of worker w become t and its next statement is l.
Goto(w, l, t) == pc' = [pc EXCEPT ![w] = l] /\ tx' = [tx EXCEPT ![w] = t]

\* A request arrives; its handler starts at its first statement.
Entry(r) == CASE r.kind = "sale" -> "findCustomer"
              [] r.kind = "void" -> "findSale"
              [] r.kind \in {"stockIn", "stockOut"} -> "findStock"
              [] r.kind \in {"editProduct", "removeProduct"} -> "findProduct"
              [] r.kind \in {"editCustomer", "deactivateCustomer"} -> "findAccount"
              [] r.kind = "payment" -> "findDebtor"

Begin(w, r) ==
    /\ pc[w] = "idle" /\ served < MaxRequests
    /\ served' = served + 1
    /\ Goto(w, Entry(r), [NoLocals EXCEPT !.req = r])
    /\ UNCHANGED <<tables, today, num>>

\* The end of a request: w has no transaction and no locals any more.
Leave(w) == /\ Goto(w, "idle", NoLocals)
            /\ num' = [num EXCEPT ![w] = NoNumber]
            /\ UNCHANGED <<today, served>>

Commit(w) ==
    /\ pc[w] = "commit"
    /\ product' = CommitTable(product, w) /\ batch' = CommitTable(batch, w)
    /\ customer' = CommitTable(customer, w) /\ sale' = CommitTable(sale, w)
    /\ moved' = [b \in BatchIds |-> moved[b] + tx[w].moves[b]]
    /\ paid' = [c \in Customers |-> IF tx[w].pay > 0 /\ tx[w].req.customer = c
                                    THEN paid[c] + tx[w].pay ELSE paid[c]]
    /\ Leave(w)

\* Mutants of Abort: a write made through an injected repository instead of the
\* transaction's manager is committed on its own and survives the rollback, and
\* a hand-written transaction that is never rolled back keeps its locks.
AbortExcept(w, kept) ==
    LET End(table, name) == IF name \in kept THEN CommitTable(table, w) ELSE RollbackTable(table, w) IN
    /\ product' = End(product, "product") /\ batch' = End(batch, "batch")
    /\ customer' = End(customer, "customer") /\ sale' = End(sale, "sale")
    /\ UNCHANGED <<moved, paid>>
    /\ Leave(w)
AbortKeepsBatches(w)   == AbortExcept(w, {"batch"})
AbortKeepsProducts(w)  == AbortExcept(w, {"product"})
AbortKeepsCustomers(w) == AbortExcept(w, {"customer"})
AbortKeepsLocks(w) == UNCHANGED tables /\ Leave(w)

\* An exception thrown in the callback of dataSource.transaction rolls back.
Abort(w) ==
    /\ product' = RollbackTable(product, w) /\ batch' = RollbackTable(batch, w)
    /\ customer' = RollbackTable(customer, w) /\ sale' = RollbackTable(sale, w)
    /\ UNCHANGED <<moved, paid>>
    /\ Leave(w)

\* manager.save(entity): from here w selects the row key of table tbl, updates
\* the columns that changed, and goes on at statement l; t are its locals.
Saving(tbl, key, ent, l, t) == [t EXCEPT !.tbl = tbl, !.key = key, !.ent = ent, !.then = l]
Save(w, tbl, key, ent, l, t) == Goto(w, "select", Saving(tbl, key, ent, l, t))

RowOf(t) == CASE t.tbl = "product"  -> product[t.key]
              [] t.tbl = "batch"    -> batch[t.key]
              [] t.tbl = "customer" -> customer[t.key]
              [] t.tbl = "sale"     -> sale[t.key]

Saved(t) == [t EXCEPT !.cols = {}, !.tbl = "none", !.key = 0, !.ent = 0, !.then = "idle"]

\* A form that edits the master data also changes columns the model leaves out.
Details(r) == IF r.kind \in {"editProduct", "editCustomer"} THEN {"details"} ELSE {}

SaveSelect(w) == LET t == tx[w]
                     cols == Changed(t.ent, Seen(RowOf(t), w)) \cup Details(t.req) IN
    /\ pc[w] = "select"
    /\ IF cols = {} THEN Goto(w, t.then, Saved(t))
                    ELSE Goto(w, "update", [t EXCEPT !.cols = cols])
    /\ UNCHANGED <<tables, today, served, num>>

\* UPDATE ... SET cols WHERE id: waits for the row lock, then patches the row
\* as it is now.
Updated(table, name, w) == LET t == tx[w] IN
    IF t.tbl = name
    THEN [table EXCEPT ![t.key] = Written(@, w, Patched(Seen(@, w), t.ent, t.cols))]
    ELSE table

SaveUpdate(w) == LET t == tx[w] IN
    /\ pc[w] = "update"
    /\ Writable(RowOf(t), w)
    /\ product' = Updated(product, "product", w) /\ batch' = Updated(batch, "batch", w)
    /\ customer' = Updated(customer, "customer", w) /\ sale' = Updated(sale, "sale", w)
    /\ Goto(w, t.then, Saved(t))
    /\ UNCHANGED <<moved, paid, today, served, num>>

\* The row a blocked worker waits for, and the worker that holds it.
WaitsFor(w) ==
    IF pc[w] = "update" /\ ~Writable(RowOf(tx[w]), w) THEN RowOf(tx[w]).xid
    ELSE IF pc[w] = "insertSale" /\ ~Writable(sale[num[w]], w) THEN sale[num[w]].xid
    ELSE NoTx

\* PostgreSQL finds a cycle of waiting transactions and aborts one of them.
Deadlocked(w) == \E S \in SUBSET Workers : w \in S /\ {WaitsFor(u) : u \in S} = S
DeadlockVictim(w) == Deadlocked(w) /\ Abort(w)

\* Nobody's request: the clock passes midnight, and sale numbers start again.
Midnight ==
    /\ today < LastDay
    /\ today' = today + 1
    /\ UNCHANGED <<tables, served, pc, num, tx>>

\* The process or its connection dies in the middle of a request.
Disconnect(w) == pc[w] # "idle" /\ Abort(w)
=============================================================================

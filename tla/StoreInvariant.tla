--------------------------- MODULE StoreInvariant ---------------------------
(***************************************************************************)
(* The inductive invariant of PointOfSale: what every handler of the back  *)
(* office keeps about the tables, the sale numbers and its own variables,  *)
(* whichever of them run at the same time.                                 *)
(***************************************************************************)
EXTENDS PointOfSale

LocalNames == {"req", "i", "prod", "cust", "sold", "todo", "list", "left", "moves", "pay",
               "tbl", "key", "ent", "cols", "then"}

\* The statements of each kind of handler, but for the ones they share.
BeforeNumber  == {"findCustomer", "checkStock", "generateSaleNumber"}
BatchSection  == {"findBatches", "takeBatch", "chargeCustomer"}
Selling       == BeforeNumber \cup {"insertSale"} \cup BatchSection
Restocking    == {"restock", "restockBatch", "setVoid"}
Voiding       == {"findSale"} \cup Restocking
Adjusting     == {"findStock", "stockIn", "stockOut", "drainBatch"}
Editing       == {"findProduct", "editProduct", "removeProduct"}
Accounting    == {"findAccount", "editCustomer", "deactivateCustomer", "findDebtor", "insertPayment"}
Saves         == {"select", "update"}
Statements    == {"idle", "commit"} \cup Saves \cup Selling \cup Voiding \cup Adjusting \cup Editing
                 \cup Accounting

\* Where a handler goes on after a save.
AfterSave == {"commit", "findBatches", "takeBatch", "chargeCustomer", "restock", "restockBatch",
              "setVoid", "drainBatch"}

\* The handler's own statement: the one it goes on at when it is saving.
At(l, t) == IF l \in Saves THEN t.then ELSE l

\* A sale as it was read, and as it is now: only the status may have changed.
SameSale(s, row) == [s EXCEPT !.status = "void"] = [row EXCEPT !.status = "void"]

\* The entity of an open save fits the table it goes to.  Only a void saves a sale.
SaveTyped(t) ==
    /\ t.then \in AfterSave
    /\ \/ t.tbl = "product" /\ t.key \in Products /\ t.ent \in ProductRow
       \/ t.tbl = "batch" /\ t.key \in BatchIds /\ t.ent \in BatchRow
       \/ t.tbl = "customer" /\ t.key \in Customers /\ t.ent \in CustomerRow
       \/ /\ t.tbl = "sale" /\ t.ent \in SaleRow /\ t.ent.status = "void" /\ t.then = "commit"
          /\ t.req \in VoidForm /\ t.key = t.req.sale
          /\ Taken(t.key) /\ SameSale(t.ent, sale[t.key].cur)

LocalsTyped(t) ==
    /\ DOMAIN t = LocalNames
    /\ t.i \in Nat \ {0}
    /\ t.prod \in [Products -> ProductRow]
    /\ t.cust \in CustomerRow
    /\ t.sold \in SaleRow /\ t.todo \subseteq DOMAIN t.sold.lines
    /\ DOMAIN t.list \subseteq Slots /\ \A k \in DOMAIN t.list : t.list[k] \in BatchRow
    /\ t.left \in Nat
    /\ t.moves \in [BatchIds -> Int]
    /\ t.pay \in Nat

\* What a handler with the locals t knows at statement l.
Knows(l, t) ==
    /\ l \in Statements
    /\ LocalsTyped(t)
    /\ l # "idle" => t.req \in Requests
    /\ l \in Saves => SaveTyped(t)
    /\ At(l, t) \in Selling => t.req \in SaleForm /\ t.i <= Len(t.req.items)
    /\ At(l, t) \in Voiding => t.req \in VoidForm
    /\ At(l, t) \in Restocking => Taken(t.req.sale) /\ SameSale(t.sold, sale[t.req.sale].cur)
    /\ At(l, t) = "restockBatch" => t.i \in DOMAIN t.sold.lines
    /\ At(l, t) \in Adjusting => t.req \in StockForm
    /\ At(l, t) \in Editing => t.req \in ProductForm
    /\ At(l, t) \in {"findAccount", "deactivateCustomer"} => t.req \in LimitForm \cup AccountForm
    /\ At(l, t) = "editCustomer" => t.req \in LimitForm
    /\ At(l, t) \in {"findDebtor", "insertPayment"} => t.req \in PaymentForm

HandlersKnow ==
    /\ pc \in [Workers -> Statements]
    /\ DOMAIN tx = Workers
    /\ \A w \in Workers : Knows(pc[w], tx[w])

\* A checkout has a number from generateSaleNumber on, and nobody else has one; a
\* void that commits a sale has none either.
Numberless == {"idle"} \cup BeforeNumber \cup Voiding \cup Adjusting \cup Editing \cup Accounting
NumberFits(l, t, n) ==
    /\ At(l, t) \in {"insertSale"} \cup BatchSection => n \in SaleIds
    /\ At(l, t) \in Numberless => n = NoNumber
    /\ l \in Saves /\ t.tbl = "sale" => n = NoNumber

\* Past the INSERT a checkout holds its number.
Holds(w) == num[w] \in SaleIds /\ pc[w] # "insertSale"
NumbersHeld ==
    \A w \in Workers : /\ NumberFits(pc[w], tx[w], num[w])
                       /\ Holds(w) => sale[num[w]].xid = w

\* A row of sales with an open writer is one that a checkout inserted, or one that
\* a void has just marked.
Inserted(s) == LET w == sale[s].xid IN
    Holds(w) /\ num[w] = s /\ ~Taken(s) /\ sale[s].new.status = "completed"
Marked(s) == LET w == sale[s].xid IN
    /\ pc[w] = "commit" /\ num[w] = NoNumber /\ Taken(s)
    /\ sale[s].new \in {sale[s].cur, [sale[s].cur EXCEPT !.status = "void"]}
OpenSalesOwned == \A s \in SaleIds : sale[s].xid # NoTx => Inserted(s) \/ Marked(s)

\* When a number was given out, all smaller ones of its day were committed.
NumbersFollow ==
    \A w \in Workers : num[w] \in SaleIds =>
        \A m \in 1 .. num[w][2] - 1 : Taken(<<num[w][1], m>>)

\* The inductive invariant.
StoreSound ==
    /\ TypeOK
    /\ HandlersKnow
    /\ NumbersHeld
    /\ OpenSalesOwned
    /\ NumbersFollow
    /\ GapFreeNumbers

\* No sale is dated before the day of its number: the date is taken after it.
DatesFollow ==
    \A s \in SaleIds : /\ Taken(s) => s[1] <= sale[s].cur.date
                       /\ sale[s].xid # NoTx => s[1] <= sale[s].new.date

\* The units of p on the lines ls of a sale.
UnitsOf(ls, p) ==
    MapThenSumSet(LAMBDA i : IF ls[i].batch[1] = p THEN ls[i].qty ELSE 0, DOMAIN ls)

-----------------------------------------------------------------------------
(* The batches of one day while nothing but checkouts and deliveries        *)
(* touches them; products and customers may be edited and may pay.          *)

OnlyTillsAndDeliveries ==
    LastDay = 1 /\ \A r \in Requests : r.kind \notin {"void", "stockOut"}

\* The product a checkout is at, and whether it is saving batch b.
ProductOf(t) == t.req.items[t.i].product
SavesBatch(l, t, b) == l \in Saves /\ t.tbl = "batch" /\ t.key = b

\* What a handler has done to a batch, and is just saving, is what it will book.
Tally(w, l, t) ==
    \A b \in BatchIds :
        moved[b] + t.moves[b] = IF SavesBatch(l, t, b) THEN t.ent.qty ELSE Seen(batch[b], w).qty

\* The batches a checkout has found and not used yet are as they were.
ListFresh(w, l, t) ==
    /\ DOMAIN t.list # {} => At(l, t) = "takeBatch"
    /\ \A k \in DOMAIN t.list :
          LET b == <<ProductOf(t), k>> IN
          t.list[k] = Seen(batch[b], w) /\ t.list[k].made /\ batch[b].cur.made

\* Only checkouts save batches, each one after it took it off its list, and what is
\* written is what the checkout computed.
SaveFresh(w, l, t) ==
    l \in Saves /\ t.tbl = "batch" =>
        /\ t.then = "takeBatch" /\ batch[t.key].cur.made /\ t.ent.made
        /\ t.key[1] = ProductOf(t) /\ t.key[2] \notin DOMAIN t.list
        /\ l = "update" => Patched(Seen(batch[t.key], w), t.ent, t.cols) = t.ent

Books(w, l, t) ==
    /\ At(l, t) \notin {"stockOut", "drainBatch"}
    /\ Tally(w, l, t) /\ ListFresh(w, l, t) /\ SaveFresh(w, l, t)

\* A batch that was in the table is written by the checkout that holds the number
\* of the day, a new one by its delivery.
BatchOwned(b) ==
    /\ batch[b].xid # NoTx =>
        LET w == batch[b].xid IN
        /\ batch[b].new.made
        /\ IF batch[b].cur.made THEN Holds(w) ELSE At(pc[w], tx[w]) = "commit"
    /\ ~batch[b].cur.made => batch[b].cur.qty = 0

LedgerSound ==
    /\ BatchLedger
    /\ \A b \in BatchIds : BatchOwned(b)
    /\ \A w \in Workers : Books(w, pc[w], tx[w])
=============================================================================

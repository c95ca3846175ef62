--------------------------- MODULE TillsInvariant ---------------------------
(***************************************************************************)
(* What the handlers of PointOfSale keep, on top of LedgerSound, on one day *)
(* of tills and deliveries: which batches are empty, which one is next, and *)
(* which sale items were written; and what they keep about the sums that   *)
(* the tables cache.                                                       *)
(***************************************************************************)
EXTENDS StoreInvariant, SumLemmas

\* Only an active batch holds anything: in the table, in a row being written and in
\* an entity being saved.
Emptied(row) == row.active \/ row.qty = 0
OnlyActiveHold ==
    /\ \A b \in BatchIds : Emptied(batch[b].cur) /\ (batch[b].xid # NoTx => Emptied(batch[b].new))
    /\ \A w \in Workers : pc[w] \in Saves /\ tx[w].tbl = "batch" => Emptied(tx[w].ent)

\* A batch that was there at the start stays in the table.
StartsMade == \A b \in BatchIds : OpeningBatch(b).made => batch[b].cur.made

RowsSound == OnlyActiveHold /\ StartsMade

-----------------------------------------------------------------------------
(* Oldest first                                                            *)

\* What batch b holds once worker w commits.
Booked(w, b) == moved[b] + tx[w].moves[b]

\* No worker has taken a unit of a batch while an older one has any.
TakesOldest(w) ==
    \A p \in Products : \A j, k \in Slots :
        j < k /\ Booked(w, <<p, k>>) < OpeningBatch(<<p, k>>).qty => Booked(w, <<p, j>>) = 0

\* A checkout that needs more has used up every batch that is not on its list.
UsedUp(w) ==
    At(pc[w], tx[w]) = "takeBatch" /\ tx[w].left > 0 =>
        \A k \in Slots \ DOMAIN tx[w].list : LET b == <<ProductOf(tx[w]), k>> IN
            OpeningBatch(b).made => Booked(w, b) = 0

FifoSound ==
    /\ \A w \in Workers : TakesOldest(w) /\ UsedUp(w)
    /\ OldestFirst

-----------------------------------------------------------------------------
(* Sale items                                                              *)

\* A row of sales is only written by the checkout that has its number.
OpenSalesInserted == \A s \in SaleIds : sale[s].xid # NoTx => num[sale[s].xid] = s

\* What a checkout takes from the batches is on the lines of its sale.
LinesBooked ==
    \A w \in Workers : Holds(w) =>
        \A b \in BatchIds : tx[w].moves[b] = - LineUnits(sale[num[w]].new.lines, b)

\* What left a batch is on the lines of completed sales.
UnitsGone(b) == SumOf([s \in SaleIds |-> UnitsOut(s, b)], SaleIds)
SalesAddUp ==
    \A b \in BatchIds : OpeningBatch(b).made =>
        batch[b].cur.qty = OpeningBatch(b).qty - UnitsGone(b)

LinesSound ==
    /\ OpenSalesInserted
    /\ LinesBooked
    /\ SalesAddUp

-----------------------------------------------------------------------------
(* The two sums that the tables cache, products.current_stock and          *)
(* customers.current_balance, are saved from values read before the rows   *)
(* were locked.  First the balance, while nothing but sales, of any day,   *)
(* changes it.                                                             *)

OnlyCharges == \A r \in Requests : r.kind \notin {"void", "payment"}

\* What customer c owes for completed sales, and for the one that w is about to commit.
CreditOf(s, c) ==
    IF sale[s].cur.customer = c /\ sale[s].cur.status = "completed" THEN sale[s].cur.credit ELSE 0
Owed(c) == SumOf([s \in SaleIds |-> CreditOf(s, c)], SaleIds)
Coming(w, c) ==
    IF Holds(w) /\ sale[num[w]].new.customer = c THEN sale[num[w]].new.credit ELSE 0

\* The statements of a handler that has loaded its customer.
CustomerLoaded == (Selling \ {"findCustomer"}) \cup {"editCustomer", "deactivateCustomer"}

\* A handler with the locals t at statement l charges no more than its own sale to a
\* balance it has read.
Charges(w, l, t) ==
    /\ t.pay = 0
    /\ Holds(w) => /\ sale[num[w]].new.customer = t.req.customer
                   /\ sale[num[w]].new.credit = t.req.credit
    /\ At(l, t) \in CustomerLoaded /\ t.req.customer \in Customers =>
          t.cust.balance <= Owed(t.req.customer)
    /\ l \in Saves /\ t.tbl = "customer" => t.ent.balance <= Owed(t.key) + Coming(w, t.key)

\* A balance that was committed, and one that is about to be.
WithinOwed(c) ==
    /\ paid[c] = 0
    /\ customer[c].cur.balance <= Owed(c)
    /\ LET w == customer[c].xid IN w # NoTx => customer[c].new.balance <= Owed(c) + Coming(w, c)

BalanceSound ==
    /\ OpenSalesInserted
    /\ \A c \in Customers : WithinOwed(c)
    /\ \A w \in Workers : Charges(w, pc[w], tx[w])

-----------------------------------------------------------------------------
(* The stock while only sales, of one day, change it; products may be      *)
(* edited, and customers may do anything.                                  *)

OnlyTills == OnlyTillsAndDeliveries /\ \A r \in Requests : r.kind # "stockIn"

\* The units of p that the movements leave in its batches, and what w adds to them.
Held(p)      == SumOf(moved, BatchesOf(p))
Taking(w, p) == SumOf(tx[w].moves, BatchesOf(p))

\* The products a handler has loaded, and the units of q that a checkout took from
\* the batches for its item and not yet from the product.
ProductsLoaded(l, t) ==
    CASE At(l, t) = "checkStock" -> {t.req.items[j].product : j \in 1 .. t.i - 1}
      [] At(l, t) \in {"generateSaleNumber", "insertSale"} \cup BatchSection ->
            {t.req.items[j].product : j \in DOMAIN t.req.items}
      [] At(l, t) \in {"editProduct", "removeProduct"} -> {t.req.product}
      [] OTHER -> {}
Undeducted(l, t, q) ==
    IF At(l, t) = "takeBatch" /\ q = ProductOf(t) THEN t.req.items[t.i].qty - t.left ELSE 0

\* No handler has loaded, or saves, less than what it will leave in the batches.
Deducts(w, l, t) ==
    /\ l = "findCustomer" => t.i = 1
    /\ \A b \in BatchIds : t.moves[b] <= 0
    /\ \A q \in ProductsLoaded(l, t) :
          t.prod[q].stock >= Held(q) + Taking(w, q) + Undeducted(l, t, q)
    /\ l \in Saves /\ t.tbl = "product" => t.ent.stock >= Held(t.key) + Taking(w, t.key)

\* The stock that was committed, and the one that is about to be.
CoversHeld(p) ==
    /\ product[p].cur.stock >= Held(p)
    /\ LET w == product[p].xid IN w # NoTx => product[p].new.stock >= Held(p) + Taking(w, p)

StockSound ==
    /\ \A p \in Products : CoversHeld(p)
    /\ \A w \in Workers : Deducts(w, pc[w], tx[w])

-----------------------------------------------------------------------------
(* What one request does to the stock of each product, for SalesBook       *)

\* The units of p in the first n items of the cart r.
CartUnits(r, n, p) ==
    SumOf([j \in 1 .. n |-> IF r.items[j].product = p THEN r.items[j].qty ELSE 0], 1 .. n)

\* The statements at which a checkout has a row of sales.
Booking(l, t) == At(l, t) \in BatchSection \/ (At(l, t) = "commit" /\ t.req.kind = "sale")

\* What a checkout has taken of p: the items before this one, what it found of this
\* one, and at the end the whole cart.
Sold(l, t, p) ==
    CASE At(l, t) = "findBatches" -> CartUnits(t.req, t.i - 1, p)
      [] At(l, t) = "takeBatch"   -> CartUnits(t.req, t.i - 1, p) + Undeducted(l, t, p)
      [] OTHER                    -> CartUnits(t.req, Len(t.req.items), p)

\* What a handler has done to the units of p.
Net(l, t, p) ==
    IF Booking(l, t) THEN - Sold(l, t, p)
    ELSE IF At(l, t) = "commit" /\ t.req.kind = "stockIn" /\ t.req.product = p THEN t.req.qty
    ELSE 0

\* That is what the movements of a handler with the number n add up to.
Carts(n, l, t) ==
    /\ At(l, t) \in {"generateSaleNumber", "insertSale"} => t.i = 1
    /\ At(l, t) = "commit" => (n \in SaleIds <=> t.req.kind = "sale")
    /\ \A p \in Products : SumOf(t.moves, BatchesOf(p)) = Net(l, t, p)

CartSound == \A w \in Workers : Carts(num[w], pc[w], tx[w])

\* What a sale can take is what the movements add up to, and never less than nothing.
StockHeld == \A p \in Products : OnHand(p) = Held(p) /\ Held(p) \in Nat
=============================================================================

---------------------------- MODULE SalesService ----------------------------
(***************************************************************************)
(* backend/src/sales/sales.service.ts: create (a checkout) and voidSale,   *)
(* each one dataSource.transaction, cut at its SQL statements.  Unit price *)
(* and totals are not modelled: a request carries the credit_amount that   *)
(* create computes from them.  The inserts of a sale item and a stock      *)
(* movement touch rows nobody else sees before the commit, so they are     *)
(* part of the step that computes them.                                    *)
(***************************************************************************)
EXTENDS StoreTables

\* The rows find(InventoryBatch) returns for p, by age: active and not empty.
OpenBatches(p, w) ==
    [k \in {k \in Slots : Seen(batch[<<p, k>>], w).active /\ Seen(batch[<<p, k>>], w).qty > 0} |->
        Seen(batch[<<p, k>>], w)]

\* Mutants: the search sorted by purchase_date DESC, and a deduction that does
\* not stop at what the batch holds.
IsNewest(k, list)        == k \in DOMAIN list /\ \A j \in DOMAIN list : j <= k
SmallerUnchecked(x, y)   == y

\* The next batch of the loop is the oldest one left.
IsOldest(k, list) == k \in DOMAIN list /\ \A j \in DOMAIN list : k <= j
Without(list, k)  == [j \in DOMAIN list \ {k} |-> list[j]]
Smaller(x, y)     == IF x <= y THEN x ELSE y
Positive(x)       == IF x < 0 THEN 0 ELSE x

\* A batch entity after the handler took d of it.
Deducted(row, d) == [row EXCEPT !.qty = @ - d, !.active = IF row.qty = d THEN FALSE ELSE @]

-----------------------------------------------------------------------------
(* create                                                                  *)

FindCustomer(w) == LET r == tx[w].req IN
    /\ pc[w] = "findCustomer"
    /\ IF r.customer = NoCustomer
       THEN Goto(w, "checkStock", tx[w]) /\ UNCHANGED <<tables, today, served, num>>
       ELSE LET c == Seen(customer[r.customer], w) IN
            IF c.active
            THEN Goto(w, "checkStock", [tx[w] EXCEPT !.cust = c]) /\ UNCHANGED <<tables, today, served, num>>
            ELSE Abort(w)

\* The locals after product q was found as p; j is the next item.
Checked(t, j, q, p) == [t EXCEPT !.i = j, !.prod[q] = p]

\* findOne(Product) for item i of the cart, and the stock check.
CheckStock(w) == LET t == tx[w]
                     it == t.req.items[t.i]
                     p == Seen(product[it.product], w) IN
    /\ pc[w] = "checkStock"
    /\ IF ~p.active \/ p.stock < it.qty
       THEN Abort(w)
       ELSE /\ IF t.i < Len(t.req.items)
               THEN Goto(w, "checkStock", Checked(t, t.i + 1, it.product, p))
               ELSE Goto(w, "generateSaleNumber", Checked(t, 1, it.product, p))
            /\ UNCHANGED <<tables, today, served, num>>

\* Mutant: the limit is compared with the new credit alone.
CreditRefusedIgnoringBalance(t) ==
    /\ t.req.method = "credit"
    /\ t.req.customer = NoCustomer \/ t.req.credit > t.cust.limit

\* Credit or partial payment needs a customer with room under the limit.
CreditRefused(t) ==
    /\ t.req.method = "credit"
    /\ t.req.customer = NoCustomer \/ t.cust.balance + t.req.credit > t.cust.limit

\* Mutant: the number comes from a counter that other open sales already moved.
IsNextNumberDirty(n, w) ==
    LET Used(m) == sale[<<today, m>>].new.status # "none" IN
    /\ \A m \in 1 .. MaxSales : Used(m) => m < n
    /\ n > 1 => Used(n - 1)

\* One more than the last of today's numbers that w sees.
IsNextNumber(n, w) ==
    LET Used(m) == Seen(sale[<<today, m>>], w).status # "none" IN
    /\ \A m \in 1 .. MaxSales : Used(m) => m < n
    /\ n > 1 => Used(n - 1)

GenerateSaleNumber(w) ==
    /\ pc[w] = "generateSaleNumber"
    /\ IF CreditRefused(tx[w])
       THEN Abort(w)
       ELSE /\ \E n \in 1 .. MaxSales :
                 IsNextNumber(n, w) /\ num' = [num EXCEPT ![w] = <<today, n>>]
            /\ Goto(w, "insertSale", tx[w])
            /\ UNCHANGED <<tables, today, served>>

NewSale(r, d) == [status |-> "completed", lines |-> <<>>, customer |-> r.customer,
                  credit |-> r.credit, date |-> d]

\* Mutant: the date is the one the client put on the sale.
DatesSent(w) == 1 .. today

\* sale_date is new Date(), taken after the number and before the row is inserted.
Dates(w) == num[w][1] .. today

\* Mutant: no unique index, the second sale of a number replaces the first.
InsertSaleWithoutIndex(w) == LET n == num[w] IN
    /\ pc[w] = "insertSale"
    /\ Writable(sale[n], w)
    /\ \E d \in Dates(w) : sale' = [sale EXCEPT ![n] = Written(@, w, NewSale(tx[w].req, d))]
    /\ Goto(w, "findBatches", tx[w])
    /\ UNCHANGED <<product, batch, customer, moved, paid, today, served, num>>

\* INSERT INTO sales: the unique index on (store_id, sale_number) makes it wait
\* for an open insert of the same number and fail on a committed one.
InsertSale(w) == LET n == num[w] IN
    /\ pc[w] = "insertSale"
    /\ Writable(sale[n], w)
    /\ IF sale[n].cur.status # "none"
       THEN Abort(w)
       ELSE /\ \E d \in Dates(w) : sale' = [sale EXCEPT ![n] = Written(@, w, NewSale(tx[w].req, d))]
            /\ Goto(w, "findBatches", tx[w])
            /\ UNCHANGED <<product, batch, customer, moved, paid, today, served, num>>

FindBatches(w) == LET t == tx[w]
                      it == t.req.items[t.i] IN
    /\ pc[w] = "findBatches"
    /\ Goto(w, "takeBatch", [t EXCEPT !.list = OpenBatches(it.product, w), !.left = it.qty])
    /\ UNCHANGED <<tables, today, served, num>>

\* A sale with one more item, and the locals after d units came from batch b.
WithItem(s, b, d)   == [s EXCEPT !.lines = Append(@, [batch |-> b, qty |-> d])]
Took(t, k, b, d)    == [t EXCEPT !.list = Without(@, k), !.left = @ - d, !.moves[b] = @ - d]

\* One round of the loop over the batches: sale item, movement, save(batch).
TakeBatch(w) == LET t == tx[w] IN
    /\ pc[w] = "takeBatch" /\ t.left > 0
    /\ \E k \in Slots : IsOldest(k, t.list) /\
         LET b == <<t.req.items[t.i].product, k>>
             d == Smaller(t.list[k].qty, t.left) IN
         /\ sale' = [sale EXCEPT ![num[w]] = Written(@, w, WithItem(@.new, b, d))]
         /\ Save(w, "batch", b, Deducted(t.list[k], d), "takeBatch", Took(t, k, b, d))
    /\ UNCHANGED <<product, batch, customer, moved, paid, today, served, num>>

\* Mutant: the sale goes through with what the batches had.
ShortOfBatchesAccepted(w) ==
    /\ pc[w] = "takeBatch" /\ tx[w].left > 0 /\ DOMAIN tx[w].list = {}
    /\ Goto(w, "takeBatch", [tx[w] EXCEPT !.left = 0])
    /\ UNCHANGED <<tables, today, served, num>>

\* "Insufficient FIFO batch quantity": the batches ran out before the item.
ShortOfBatches(w) ==
    /\ pc[w] = "takeBatch" /\ tx[w].left > 0 /\ DOMAIN tx[w].list = {}
    /\ Abort(w)

\* current_stock is lowered from the value read in CheckStock.
DeductProduct(w) == LET t == tx[w]
                        it == t.req.items[t.i]
                        ent == [t.prod[it.product] EXCEPT !.stock = @ - it.qty]
                        u == [t EXCEPT !.prod[it.product] = ent, !.list = NoList] IN
    /\ pc[w] = "takeBatch" /\ t.left = 0
    /\ IF t.i < Len(t.req.items)
       THEN Save(w, "product", it.product, ent, "findBatches", [u EXCEPT !.i = @ + 1])
       ELSE Save(w, "product", it.product, ent, "chargeCustomer", u)
    /\ UNCHANGED <<tables, today, served, num>>

ChargeCustomer(w) == LET t == tx[w]  r == tx[w].req IN
    /\ pc[w] = "chargeCustomer"
    /\ IF r.customer # NoCustomer /\ r.credit > 0
       THEN Save(w, "customer", r.customer, [t.cust EXCEPT !.balance = @ + r.credit], "commit", t)
       ELSE Goto(w, "commit", t)
    /\ UNCHANGED <<tables, today, served, num>>

Create(w) ==
    \/ FindCustomer(w) \/ CheckStock(w) \/ GenerateSaleNumber(w) \/ InsertSale(w)
    \/ FindBatches(w) \/ TakeBatch(w) \/ ShortOfBatches(w) \/ DeductProduct(w)
    \/ ChargeCustomer(w)

-----------------------------------------------------------------------------
(* voidSale                                                                *)

\* Mutant: the status of the sale is not looked at.
FindSaleUnchecked(w) == LET s == Seen(sale[tx[w].req.sale], w) IN
    /\ pc[w] = "findSale"
    /\ IF s.status = "none"
       THEN Abort(w)
       ELSE /\ Goto(w, "restock", [tx[w] EXCEPT !.sold = s, !.todo = DOMAIN s.lines])
            /\ UNCHANGED <<tables, today, served, num>>

\* The sale, which must not be void yet, and its items.
FindSale(w) == LET s == Seen(sale[tx[w].req.sale], w) IN
    /\ pc[w] = "findSale"
    /\ IF s.status # "completed"
       THEN Abort(w)
       ELSE /\ Goto(w, "restock", [tx[w] EXCEPT !.sold = s, !.todo = DOMAIN s.lines])
            /\ UNCHANGED <<tables, today, served, num>>

\* One sale item (find gives them in no particular order): save(product) first.
RestockProduct(w) == LET t == tx[w] IN
    /\ pc[w] = "restock"
    /\ \E i \in t.todo :
         LET p == t.sold.lines[i].batch[1] IN
         Save(w, "product", p, [Seen(product[p], w) EXCEPT !.stock = @ + t.sold.lines[i].qty],
              "restockBatch", [t EXCEPT !.i = i, !.todo = @ \ {i}])
    /\ UNCHANGED <<tables, today, served, num>>

\* Mutant: only the product is restocked.
RestockBatchSkipped(w) ==
    /\ pc[w] = "restockBatch"
    /\ Goto(w, "restock", tx[w])
    /\ UNCHANGED <<tables, today, served, num>>

\* ... then save(batch), and the RETURN movement.
RestockBatch(w) == LET t == tx[w]
                       l == t.sold.lines[t.i] IN
    /\ pc[w] = "restockBatch"
    /\ Save(w, "batch", l.batch,
            [Seen(batch[l.batch], w) EXCEPT !.qty = @ + l.qty, !.active = TRUE],
            "restock", [t EXCEPT !.moves[l.batch] = @ + l.qty])
    /\ UNCHANGED <<tables, today, served, num>>

\* The credit is taken back, but the balance never goes below zero.
ReverseCredit(w) == LET t == tx[w]
                        c == t.sold.customer IN
    /\ pc[w] = "restock" /\ t.todo = {}
    /\ IF c # NoCustomer /\ t.sold.credit > 0
       THEN Save(w, "customer", c,
                 [Seen(customer[c], w) EXCEPT !.balance = Positive(@ - t.sold.credit)],
                 "setVoid", t)
       ELSE Goto(w, "setVoid", t)
    /\ UNCHANGED <<tables, today, served, num>>

SetVoid(w) == LET t == tx[w] IN
    /\ pc[w] = "setVoid"
    /\ Save(w, "sale", t.req.sale, [t.sold EXCEPT !.status = "void"], "commit", t)
    /\ UNCHANGED <<tables, today, served, num>>

VoidSale(w) ==
    \/ FindSale(w) \/ RestockProduct(w) \/ RestockBatch(w) \/ ReverseCredit(w) \/ SetVoid(w)
=============================================================================

-------------------------- MODULE StoreProperties --------------------------
(***************************************************************************)
(* What must be true of the tables of a store, whoever is writing them.    *)
(* Everything here is about the committed versions of the rows.            *)
(***************************************************************************)
EXTENDS StoreTables

\* Units of p a sale can take and the inventory report values: in active batches.
OnHand(p) == MapThenSumSet(LAMBDA b : batch[b].cur.qty,
                           {b \in BatchesOf(p) : batch[b].cur.active})

\* Units of product p on the lines of the committed sale s.
UnitsSold(s, p) == LET ls == sale[s].cur.lines IN
    MapThenSumSet(LAMBDA i : IF ls[i].batch[1] = p THEN ls[i].qty ELSE 0, DOMAIN ls)

\* Units of batch b on the lines ls, and on those of the sale s while it is completed.
LineUnits(ls, b) == MapThenSumSet(LAMBDA i : IF ls[i].batch = b THEN ls[i].qty ELSE 0, DOMAIN ls)
UnitsOut(s, b) ==
    IF sale[s].cur.status # "completed" THEN 0 ELSE LineUnits(sale[s].cur.lines, b)

\* What customer c owes: completed credit sales less the payments.
Debt(c) == MapThenSumSet(LAMBDA s : IF sale[s].cur.customer = c /\ sale[s].cur.status = "completed"
                                    THEN sale[s].cur.credit ELSE 0, SaleIds) - paid[c]

Taken(s) == sale[s].cur.status # "none"

-----------------------------------------------------------------------------
\* Types of the tables.
TypeOK ==
    /\ product \in [Products -> Versions(ProductRow, Workers)]
    /\ batch \in [BatchIds -> Versions(BatchRow, Workers)]
    /\ customer \in [Customers -> Versions(CustomerRow, Workers)]
    /\ sale \in [SaleIds -> Versions(SaleRow, Workers)]
    /\ moved \in [BatchIds -> Int]
    /\ paid \in [Customers -> Nat]
    /\ today \in 1 .. LastDay
    /\ served \in 0 .. MaxRequests
    /\ num \in [Workers -> SaleIds \cup {NoNumber}]

\* The sale numbers of a day have no gaps: a number is in the table only if
\* all smaller ones are, whatever the interleaving, rollbacks and lost
\* connections (sales.service.ts:368-395 and the unique index of Sale).
GapFreeNumbers ==
    \A d \in 1 .. LastDay : \A n \in 1 .. MaxSales :
        Taken(<<d, n>>) => \A m \in 1 .. n - 1 : Taken(<<d, m>>)

\* Each batch row agrees with the stock movements booked on it.
BatchLedger == \A b \in BatchIds : batch[b].cur.qty = moved[b]

\* The movements of a product add up to what its batches hold.
ProductLedger ==
    \A p \in Products : OnHand(p) = MapThenSumSet(LAMBDA b : moved[b], BatchesOf(p))

\* products.current_stock is the cached sum of the batches.
StockMatchesBatches == \A p \in Products : product[p].cur.stock = OnHand(p)

\* docs/plans/product-import.md:19-20: a product with stock has at least one
\* active batch with a quantity above zero.
StockHasActiveBatch ==
    \A p \in Products : product[p].cur.stock > 0 =>
        \E b \in BatchesOf(p) : batch[b].cur.active /\ batch[b].cur.qty > 0

\* A void brings back what the sale took and no more ("Sale is already voided",
\* sales.service.ts:302-304): a batch never holds more than it came with.
RestockedOnce ==
    \A b \in BatchIds : OpeningBatch(b).made => batch[b].cur.qty <= OpeningBatch(b).qty

\* A completed sale keeps its lines and its credit, and a void one stays void.
SalesAreFinal ==
    [][\A s \in SaleIds : Taken(s) =>
         /\ [sale[s].cur EXCEPT !.status = "void"] = [sale'[s].cur EXCEPT !.status = "void"]
         /\ sale[s].cur.status = "void" => sale'[s].cur.status = "void"]_sale

\* The balance of a customer covers what completed credit sales and payments
\* leave open; it exceeds it when a sale was voided after it was paid, because
\* voidSale stops at zero (sales.service.ts:358).
BalanceCoversDebt == \A c \in Customers : customer[c].cur.balance >= Debt(c)

\* docs/project-summary.md:226-228: a credit sale that would exceed the limit is
\* rejected, so what a customer owes stays within the limit given to him.
CreditWithinLimit == \A c \in Customers : Debt(c) <= CreditLimit[c]

\* No deduction of a concurrent checkout is lost or applied twice: what left a
\* batch that was there at the start is what the sale items of the completed
\* sales name (sales.service.ts:196-236).
BatchesMatchSales ==
    \A b \in BatchIds : OpeningBatch(b).made =>
        batch[b].cur.qty = OpeningBatch(b).qty - MapThenSumSet(LAMBDA s : UnitsOut(s, b), SaleIds)

\* FIFO: no unit of a batch was sold while an older batch of the product had any.
OldestFirst ==
    \A p \in Products : \A j, k \in Slots :
        j < k /\ batch[<<p, k>>].cur.qty < OpeningBatch(<<p, k>>).qty
            => batch[<<p, j>>].cur.qty = 0

\* The stock a checkout is checked against is written from a value read before
\* the batches were locked; it may be too high, but never below what the batches
\* hold, so a sale the batches can serve is not turned away.
StockNeverUnderstates == \A p \in Products : product[p].cur.stock >= OnHand(p)

\* The same for the credit balance: it can lose charges, never invent them.
BalanceWithinDebt == \A c \in Customers : customer[c].cur.balance <= Debt(c)

\* Every request is answered: it commits or fails, and never hangs on row locks.
Answered == \A w \in Workers : pc[w] # "idle" ~> pc[w] = "idle"

\* To the outside each committed request is one indivisible step of SalesBook.
CartTotal(r) ==
    [p \in Products |-> MapThenSumSet(LAMBDA i : IF r.items[i].product = p THEN r.items[i].qty ELSE 0,
                                      DOMAIN r.items)]
Book == INSTANCE SalesBook WITH
    Baskets <- {CartTotal(r) : r \in {q \in Requests : q.kind = "sale"}},
    Amounts <- {r.qty : r \in {q \in Requests : q.kind \in {"stockIn", "stockOut"}}},
    onHand  <- [p \in Products |-> OnHand(p)],
    book    <- [s \in SaleIds |-> [status |-> sale[s].cur.status,
                                   lines  |-> [p \in Products |-> UnitsSold(s, p)]]]
ImplementsSalesBook == Book!Spec
=============================================================================

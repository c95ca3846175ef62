------------------------- MODULE CheckoutInvariant --------------------------
(***************************************************************************)
(* The inductive invariant of Checkout: what the handlers of create keep   *)
(* about the sale numbers, the row locks and their own variables.          *)
(***************************************************************************)
EXTENDS Checkout

\* The statements of create after its INSERT INTO sales, but for its saves.
AfterInsert == {"findBatches", "takeBatch", "chargeCustomer", "commit"}

CheckoutStatements == {"idle", "findCustomer", "checkStock", "generateSaleNumber", "insertSale",
               "select", "update"} \cup AfterInsert

\* CheckoutStatements between INSERT INTO sales and the end of the transaction.
WithSale == AfterInsert \cup {"select", "update"}
HasSale(w) == pc[w] \in WithSale

CheckoutLocalNames == {"req", "i", "prod", "cust", "sold", "todo", "list", "left", "moves", "pay",
               "tbl", "key", "ent", "cols", "then"}

\* The entity of an open save fits the table it goes to.
CheckoutSaveTyped(t) ==
    /\ t.then \in AfterInsert
    /\ \/ t.tbl = "product" /\ t.key \in Products /\ t.ent \in ProductRow
       \/ t.tbl = "batch" /\ t.key \in BatchIds /\ t.ent \in BatchRow
       \/ t.tbl = "customer" /\ t.key \in Customers /\ t.ent \in CustomerRow

\* The locals t of a handler at statement l.
CheckoutLocalsTyped(l, t) ==
    /\ DOMAIN t = CheckoutLocalNames
    /\ t.i \in Nat \ {0}
    /\ t.prod \in [Products -> ProductRow]
    /\ t.cust \in CustomerRow
    /\ t.left \in Nat
    /\ t.moves \in [BatchIds -> Int]
    /\ t.pay = 0
    /\ DOMAIN t.list \subseteq Slots
    /\ \A k \in DOMAIN t.list : t.list[k] \in BatchRow
    /\ l # "idle" => t.req \in SaleForm /\ t.i <= Len(t.req.items)
    /\ l \in {"select", "update"} => CheckoutSaveTyped(t)

WorkersTyped ==
    /\ pc \in [Workers -> CheckoutStatements]
    /\ DOMAIN tx = Workers
    /\ \A w \in Workers : CheckoutLocalsTyped(pc[w], tx[w])

\* An open row of sales belongs to the worker that was given its number, and is
\* not in the table yet.
OpenSaleOwned ==
    \A s \in SaleIds : sale[s].xid # NoTx =>
        /\ HasSale(sale[s].xid)
        /\ num[sale[s].xid] = s
        /\ sale[s].cur.status = "none"
        /\ sale[s].new.status = "completed"

\* A worker past generateSaleNumber has a number, and past the INSERT holds it.
NumberHeld ==
    \A w \in Workers :
        /\ pc[w] = "insertSale" => num[w] \in SaleIds
        /\ HasSale(w) => num[w] \in SaleIds /\ sale[num[w]].xid = w

\* When a number was given out, all smaller ones of its day were committed.
CheckoutNumbersFollow ==
    \A w \in Workers : num[w] \in SaleIds =>
        \A m \in 1 .. num[w][2] - 1 : Taken(<<num[w][1], m>>)

\* Only a worker that holds a sale number locks products, batches and customers.
LocksHeldBySales ==
    /\ \A p \in Products  : product[p].xid # NoTx => HasSale(product[p].xid)
    /\ \A b \in BatchIds  : batch[b].xid # NoTx => HasSale(batch[b].xid)
    /\ \A c \in Customers : customer[c].xid # NoTx => HasSale(customer[c].xid)

\* The inductive invariant: the sale number a checkout holds (sales.service.ts:135)
\* orders it against every other checkout of its day.
CheckoutsOrdered ==
    /\ TypeOK
    /\ WorkersTyped
    /\ OpenSaleOwned
    /\ NumberHeld
    /\ CheckoutNumbersFollow
    /\ LocksHeldBySales
    /\ GapFreeNumbers
=============================================================================

-------------------------- MODULE InventoryService --------------------------
(***************************************************************************)
(* backend/src/inventory/inventory.service.ts: adjust, a manual stock-in   *)
(* or stock-out.  The product is read before the transaction starts.       *)
(***************************************************************************)
EXTENDS SalesService

FindStock(w) == LET t == tx[w] IN
    /\ pc[w] = "findStock"
    /\ Goto(w, t.req.kind, [t EXCEPT !.prod[t.req.product] = Seen(product[t.req.product], w)])
    /\ UNCHANGED <<tables, today, served, num>>

\* A stock-in inserts a new batch, the newest of its product, and adds the
\* quantity to the stock it read.
Unmade(b) == batch[b].xid = NoTx /\ ~batch[b].cur.made
\* Mutant: the stock-in books no movement.
StockInUnbooked(w) == LET t == tx[w]
                          p == t.req.product
                          ent == [t.prod[p] EXCEPT !.stock = @ + t.req.qty] IN
    /\ pc[w] = "stockIn"
    /\ \E k \in Slots : Unmade(<<p, k>>) /\ (\A j \in 1 .. k - 1 : ~Unmade(<<p, j>>)) /\
         /\ batch' = [batch EXCEPT ![<<p, k>>] =
                        Written(@, w, [qty |-> t.req.qty, active |-> TRUE, made |-> TRUE])]
         /\ Save(w, "product", p, ent, "commit", t)
    /\ UNCHANGED <<product, customer, sale, moved, paid, today, served, num>>
StockIn(w) == LET t == tx[w]
                  p == t.req.product
                  ent == [t.prod[p] EXCEPT !.stock = @ + t.req.qty] IN
    /\ pc[w] = "stockIn"
    /\ \E k \in Slots : Unmade(<<p, k>>) /\ (\A j \in 1 .. k - 1 : ~Unmade(<<p, j>>)) /\
         /\ batch' = [batch EXCEPT ![<<p, k>>] =
                        Written(@, w, [qty |-> t.req.qty, active |-> TRUE, made |-> TRUE])]
         /\ Save(w, "product", p, ent, "commit", [t EXCEPT !.moves[<<p, k>>] = t.req.qty])
    /\ UNCHANGED <<product, customer, sale, moved, paid, today, served, num>>

\* A stock-out takes from the oldest batches.
StockOut(w) == LET t == tx[w]
                   p == t.req.product IN
    /\ pc[w] = "stockOut"
    /\ IF t.prod[p].stock < t.req.qty
       THEN Abort(w)
       ELSE /\ Goto(w, "drainBatch", [t EXCEPT !.list = OpenBatches(p, w), !.left = t.req.qty])
            /\ UNCHANGED <<tables, today, served, num>>

\* Mutant: the one movement carries only what the first batch gave.
DrainBatchPartMove(w) == LET t == tx[w] IN
    /\ pc[w] = "drainBatch" /\ t.left > 0
    /\ \E k \in Slots : IsOldest(k, t.list) /\
         LET b == <<t.req.product, k>>
             d == Smaller(t.list[k].qty, t.left) IN
         Save(w, "batch", b, Deducted(t.list[k], d), "drainBatch",
              [t EXCEPT !.list = Without(@, k), !.left = @ - d,
                        !.moves[b] = IF t.left = t.req.qty THEN - d ELSE @])
    /\ UNCHANGED <<tables, today, served, num>>

\* All of it is booked as one movement of the first batch.
DrainBatch(w) == LET t == tx[w] IN
    /\ pc[w] = "drainBatch" /\ t.left > 0
    /\ \E k \in Slots : IsOldest(k, t.list) /\
         LET b == <<t.req.product, k>>
             d == Smaller(t.list[k].qty, t.left) IN
         Save(w, "batch", b, Deducted(t.list[k], d), "drainBatch",
              [t EXCEPT !.list = Without(@, k), !.left = @ - d,
                        !.moves[b] = IF t.left = t.req.qty THEN - t.req.qty ELSE @])
    /\ UNCHANGED <<tables, today, served, num>>

BatchesExhausted(w) ==
    /\ pc[w] = "drainBatch" /\ tx[w].left > 0 /\ DOMAIN tx[w].list = {}
    /\ Abort(w)

DeductStock(w) == LET t == tx[w]
                      p == t.req.product IN
    /\ pc[w] = "drainBatch" /\ t.left = 0
    /\ Save(w, "product", p, [t.prod[p] EXCEPT !.stock = @ - t.req.qty], "commit",
            [t EXCEPT !.list = NoList])
    /\ UNCHANGED <<tables, today, served, num>>

Adjust(w) ==
    \/ FindStock(w) \/ StockIn(w) \/ StockOut(w) \/ DrainBatch(w)
    \/ BatchesExhausted(w) \/ DeductStock(w)
=============================================================================

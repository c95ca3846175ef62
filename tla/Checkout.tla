------------------------------ MODULE Checkout ------------------------------
(***************************************************************************)
(* Cashiers at several tills of one store ring up sales at the same time:  *)
(* only SalesService.create runs, in any number of concurrent requests.    *)
(***************************************************************************)
EXTENDS SalesService, StoreProperties

SaleRequests == {r \in Requests : r.kind = "sale"}

\* All requests are served and the store is quiet.
CheckoutClosed == served = MaxRequests /\ (\A w \in Workers : pc[w] = "idle") /\ UNCHANGED vars

\* What worker w does by itself once it took a request.
CheckoutStep(w) == Create(w) \/ SaveSelect(w) \/ SaveUpdate(w) \/ Commit(w) \/ DeadlockVictim(w)

CheckoutNext ==
    \/ \E w \in Workers :
         \/ \E r \in SaleRequests : Begin(w, r)
         \/ CheckoutStep(w)
         \/ Disconnect(w)
    \/ Midnight
    \/ CheckoutClosed

CheckoutSpec == Init /\ [][CheckoutNext]_vars

-----------------------------------------------------------------------------
\* At most one sale of a day is between its INSERT and its commit: the number
\* it holds keeps every other checkout of that day out of the batch section
\* (sales.service.ts:135-155, unique index sale.entity.ts:21).
OneOpenSale ==
    \A s1, s2 \in SaleIds :
        s1[1] = s2[1] /\ sale[s1].xid # NoTx /\ sale[s2].xid # NoTx => s1 = s2

\* The single unique-number lock orders all checkouts of a day, so none
\* deadlocks although they update products and batches in cart order.
NoDeadlock == \A w \in Workers : ~Deadlocked(w)
=============================================================================

---------------------------- MODULE PointOfSale -----------------------------
(***************************************************************************)
(* The whole back office of one store: checkouts, voids, stock             *)
(* adjustments, product and customer maintenance and credit payments, all  *)
(* on the same tables.  Which of them meet is chosen by the constant       *)
(* Requests, how many at a time by Workers.                                *)
(***************************************************************************)
EXTENDS InventoryService, ProductsService, CustomersService, StoreProperties

Closed == served = MaxRequests /\ (\A w \in Workers : pc[w] = "idle") /\ UNCHANGED vars

\* What worker w does by itself once it took a request.
Step(w) ==
    \/ Create(w) \/ VoidSale(w) \/ Adjust(w) \/ MaintainProducts(w) \/ MaintainCustomers(w)
    \/ SaveSelect(w) \/ SaveUpdate(w) \/ Commit(w) \/ DeadlockVictim(w)

Next ==
    \/ \E w \in Workers :
         \/ \E r \in Requests : Begin(w, r)
         \/ Step(w)
         \/ Disconnect(w)
    \/ Midnight
    \/ Closed

Spec == Init /\ [][Next]_vars

\* A handler that can go on does: Node runs its continuation when the statement
\* returns, and PostgreSQL hands a released lock to a waiter and breaks cycles.
FairSpec == Spec /\ \A w \in Workers : WF_vars(Step(w))
=============================================================================

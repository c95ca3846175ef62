-------------------------- MODULE CustomersService --------------------------
(***************************************************************************)
(* backend/src/customers/customers.service.ts: update, deactivate (each a  *)
(* load and a save) and recordPayment (one transaction).                   *)
(***************************************************************************)
EXTENDS StoreTables

FindAccount(w) == LET t == tx[w] IN
    /\ pc[w] = "findAccount"
    /\ Goto(w, t.req.kind, [t EXCEPT !.cust = Seen(customer[t.req.customer], w)])
    /\ UNCHANGED <<tables, today, served, num>>

EditCustomer(w) == LET t == tx[w] IN
    /\ pc[w] = "editCustomer"
    /\ Save(w, "customer", t.req.customer, [t.cust EXCEPT !.limit = t.req.limit], "commit", t)
    /\ UNCHANGED <<tables, today, served, num>>

DeactivateCustomer(w) == LET t == tx[w] IN
    /\ pc[w] = "deactivateCustomer"
    /\ Save(w, "customer", t.req.customer, [t.cust EXCEPT !.active = FALSE], "commit", t)
    /\ UNCHANGED <<tables, today, served, num>>

\* recordPayment reads the balance; a payment may not exceed it.
FindDebtor(w) == LET c == Seen(customer[tx[w].req.customer], w) IN
    /\ pc[w] = "findDebtor"
    /\ IF tx[w].req.amount > c.balance
       THEN Abort(w)
       ELSE /\ Goto(w, "insertPayment", [tx[w] EXCEPT !.cust = c])
            /\ UNCHANGED <<tables, today, served, num>>

\* Mutant: the balance is lowered but no payment is recorded.
InsertPaymentUnrecorded(w) == LET t == tx[w] IN
    /\ pc[w] = "insertPayment"
    /\ Save(w, "customer", t.req.customer, [t.cust EXCEPT !.balance = @ - t.req.amount], "commit", t)
    /\ UNCHANGED <<tables, today, served, num>>

\* The payment row, then save(customer) with the balance lowered.
InsertPayment(w) == LET t == tx[w] IN
    /\ pc[w] = "insertPayment"
    /\ Save(w, "customer", t.req.customer, [t.cust EXCEPT !.balance = @ - t.req.amount], "commit",
            [t EXCEPT !.pay = t.req.amount])
    /\ UNCHANGED <<tables, today, served, num>>

MaintainCustomers(w) ==
    \/ FindAccount(w) \/ EditCustomer(w) \/ DeactivateCustomer(w)
    \/ FindDebtor(w) \/ InsertPayment(w)
=============================================================================

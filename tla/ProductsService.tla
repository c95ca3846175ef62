-------------------------- MODULE ProductsService ---------------------------
(***************************************************************************)
(* backend/src/products/products.service.ts: update and remove load the    *)
(* product, change it in memory and save the whole entity.  current_stock  *)
(* is not in the form, but the entity carries the value that was loaded.   *)
(***************************************************************************)
EXTENDS StoreTables

FindProduct(w) == LET t == tx[w] IN
    /\ pc[w] = "findProduct"
    /\ Goto(w, t.req.kind, [t EXCEPT !.prod[t.req.product] = Seen(product[t.req.product], w)])
    /\ UNCHANGED <<tables, today, served, num>>

EditProduct(w) == LET t == tx[w] IN
    /\ pc[w] = "editProduct"
    /\ Save(w, "product", t.req.product, t.prod[t.req.product], "commit", t)
    /\ UNCHANGED <<tables, today, served, num>>

RemoveProduct(w) == LET t == tx[w] IN
    /\ pc[w] = "removeProduct"
    /\ Save(w, "product", t.req.product, [t.prod[t.req.product] EXCEPT !.active = FALSE], "commit", t)
    /\ UNCHANGED <<tables, today, served, num>>

MaintainProducts(w) == FindProduct(w) \/ EditProduct(w) \/ RemoveProduct(w)
=============================================================================

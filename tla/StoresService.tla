--------------------------- MODULE StoresService ----------------------------
(***************************************************************************)
(* backend/src/stores/stores.service.ts, and products.service.ts as far as *)
(* the plan counts its rows.  A store's content other than the first       *)
(* one's products is left out.                                             *)
(***************************************************************************)
EXTENDS UsersService

\* Mutant: an owner is not asked for.
InsertStoreLegacy(w) == LET j == job[w] IN
    /\ Running(w, "insertStore")
    /\ \E s \in Stores :
            /\ store[s].state = "none" /\ \A t \in 1 .. s - 1 : store[t].state # "none"
            /\ store' = [store EXCEPT ![s] = [state |-> "open", owner |-> j.owner]]
            /\ Continue(w, "insertManager", [j EXCEPT !.store = s])
            /\ UNCHANGED <<accounts, user, member, org, shelf, links, history, outside>>

\* create, and the first store of a registration.
InsertStore(w) == LET j == job[w] IN
    /\ Running(w, "insertStore")
    /\ IF j.owner = NoOne THEN Refuse(w)
       ELSE \E s \in Stores :
            /\ store[s].state = "none" /\ \A t \in 1 .. s - 1 : store[t].state # "none"
            /\ store' = [store EXCEPT ![s] = [state |-> "open", owner |-> j.owner]]
            /\ Continue(w, "insertManager", [j EXCEPT !.store = s])
            /\ UNCHANGED <<accounts, user, member, org, shelf, links, history, outside>>

\* Mutant: the admin is whoever sent the request.
InsertManagerByToken(w) == LET j == job[w]  e == j.req.by IN
    /\ Running(w, "insertManager")
    /\ IF store[j.store].state # "open" THEN Refuse(w)
       ELSE /\ member' = [member EXCEPT ![e][j.store] = [role |-> "admin", rights |-> "none", row |-> 1]]
            /\ IF j.req.kind = "register" THEN Continue(w, "insertTrial", j) ELSE Finish(w)
            /\ UNCHANGED <<accounts, user, store, org, shelf, links, history, outside>>

\* The row that makes its creator an admin of it.
InsertManager(w) ==
    LET j == job[w]
        e == IF j.req.kind = "register" THEN Newcomer(j) ELSE j.req.by IN
    /\ Running(w, "insertManager")
    /\ IF store[j.store].state # "open" THEN Refuse(w)
       ELSE /\ member' = [member EXCEPT ![e][j.store] = [role |-> "admin", rights |-> "none", row |-> 1]]
            /\ IF j.req.kind = "register" THEN Continue(w, "insertTrial", j) ELSE Finish(w)
            /\ UNCHANGED <<accounts, user, store, org, shelf, links, history, outside>>

\* update, updateSettings and remove load the store first.
FindStore(w) == LET j == job[w]  s == j.req.at IN
    /\ Running(w, "findStore")
    /\ IF store[s].state # "open" THEN Refuse(w)
       ELSE Reads(w, IF j.req.kind = "removeStore" THEN "deleteStore" ELSE "saveStore",
                  [j EXCEPT !.owner = store[s].owner])

\* Mutant: the assignments are left behind.
DeleteStoreAlone(w) == LET j == job[w]  s == j.req.at IN
    /\ Running(w, "deleteStore")
    /\ store' = [store EXCEPT ![s].state = "gone"]
    /\ shelf' = IF s # First THEN shelf
                ELSE [k \in Slots |-> IF shelf[k] = "none" THEN "none" ELSE "gone"]
    /\ dismissed' = dismissed \cup {<<e, s>> : e \in {f \in Emails : member[f][s].role # "none"}}
    /\ closed' = closed \cup {s}
    /\ Finish(w)
    /\ UNCHANGED <<accounts, user, member, org, links, welcomed, spent, outside>>

\* ON DELETE CASCADE takes its assignments and its products along.
DeleteStore(w) == LET j == job[w]  s == j.req.at IN
    /\ Running(w, "deleteStore")
    /\ store' = [store EXCEPT ![s].state = "gone"]
    /\ member' = [e \in Emails |-> [member[e] EXCEPT ![s] = [NoMember EXCEPT !.row = member[e][s].row]]]
    /\ shelf' = IF s # First THEN shelf
                ELSE [k \in Slots |-> IF shelf[k] = "none" THEN "none" ELSE "gone"]
    /\ dismissed' = dismissed \cup {<<e, s>> : e \in {f \in Emails : member[f][s].role # "none"}}
    /\ closed' = closed \cup {s}
    /\ Finish(w)
    /\ UNCHANGED <<accounts, user, org, links, welcomed, spent, outside>>

\* save(store): a store that is gone is inserted again, without assignments.
SaveStore(w) == LET j == job[w]  s == j.req.at IN
    /\ Running(w, "saveStore")
    /\ store' = [store EXCEPT ![s] = [state |-> "open", owner |-> j.owner]]
    /\ Finish(w)
    /\ UNCHANGED <<accounts, user, member, org, shelf, links, history, outside>>

-----------------------------------------------------------------------------
ShelfState(active) == IF active THEN "active" ELSE "removed"

InsertProduct(w) ==
    /\ Running(w, "insertProduct")
    /\ IF store[First].state # "open" THEN Refuse(w)
       ELSE \E k \in Slots :
            /\ shelf[k] = "none" /\ \A i \in 1 .. k - 1 : shelf[i] # "none"
            /\ shelf' = [shelf EXCEPT ![k] = "active"]
            /\ Finish(w)
            /\ UNCHANGED <<accounts, user, member, store, org, links, history, outside>>

FindProduct(w) == LET j == job[w]  k == j.req.slot IN
    /\ Running(w, "findProduct")
    /\ IF shelf[k] \in {"none", "gone"} THEN Refuse(w)
       ELSE Reads(w, "saveProduct",
                  [j EXCEPT !.ent = shelf[k] = "active" /\ j.req.kind = "editProduct"])

\* save(product): is_active as it was loaded, and a row that is gone is
\* inserted again if its store is there.
SaveProduct(w) == LET j == job[w] IN
    /\ Running(w, "saveProduct")
    /\ shelf' = IF store[First].state = "open"
                THEN [shelf EXCEPT ![j.req.slot] = ShelfState(j.ent)] ELSE shelf
    /\ Finish(w)
    /\ UNCHANGED <<accounts, user, member, store, org, links, history, outside>>

Premises(w) == \/ InsertStore(w) \/ InsertManager(w) \/ FindStore(w) \/ DeleteStore(w)
               \/ SaveStore(w) \/ InsertProduct(w) \/ FindProduct(w) \/ SaveProduct(w)
=============================================================================

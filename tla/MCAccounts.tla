----------------------------- MODULE MCAccounts -----------------------------
(***************************************************************************)
(* Small instances of Accounts: one organization with one store, room for  *)
(* one more user, store and product, and two people who may join.          *)
(***************************************************************************)
EXTENDS Accounts, TLC

CONSTANTS ana, ben, cyd

MCLimit == [users |-> 2, stores |-> 2, products |-> 2]

R(k, fields) == [kind |-> k, by |-> ana, at |-> First] @@ fields

EveryRequest ==
    {R("register", [who |-> cyd])}
    \cup {R("invite", [who |-> e, role |-> "cashier"]) : e \in {ben, cyd}}
    \cup {R("changeRole", [who |-> ben, role |-> r]) : r \in {"admin", "cashier"}}
    \cup {R("setRights", [who |-> ben, rights |-> "none"]), R("dismiss", [who |-> ben])}
    \cup {R(k, <<>>) : k \in {"createStore", "editStore", "removeStore", "createProduct"}}
    \cup {R(k, [slot |-> 1]) : k \in {"editProduct", "removeProduct"}}
    \cup {R("forgot", [who |-> ana]), R("profile", <<>>)}
    \cup {R("reset", [link |-> l]) : l \in Links}
=============================================================================

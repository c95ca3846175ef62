--------------------------- MODULE MCPointOfSale ----------------------------
EXTENDS PointOfSale, TLC

CONSTANTS p1, p2, c1, w1, w2

MCOpening == (p1 :> <<1, 2>>) @@ (p2 :> <<1>>)
OneBatchEach == (p1 :> <<2>>) @@ (p2 :> <<1>>)
OneBatchStock == (p1 :> 2) @@ (p2 :> 1)
MCOpeningStock == (p1 :> 3) @@ (p2 :> 1)
MCCreditLimit == (c1 :> 2)

Item(p, q) == [product |-> p, qty |-> q]
CashSale(items) ==
    [kind |-> "sale", items |-> items, customer |-> NoCustomer, method |-> "cash", credit |-> 0]
CreditSale(items, a) ==
    [kind |-> "sale", items |-> items, customer |-> c1, method |-> "credit", credit |-> a]
VoidOf(n)      == [kind |-> "void", sale |-> <<1, n>>]
StockInOf(q)   == [kind |-> "stockIn", product |-> p1, qty |-> q]
StockOutOf(q)  == [kind |-> "stockOut", product |-> p1, qty |-> q]
Payment(a)     == [kind |-> "payment", customer |-> c1, amount |-> a]
EditOf(p)      == [kind |-> "editProduct", product |-> p]
RemoveOf(p)    == [kind |-> "removeProduct", product |-> p]
LimitTo(x)     == [kind |-> "editCustomer", customer |-> c1, limit |-> x]
Deactivate     == [kind |-> "deactivateCustomer", customer |-> c1]

\* Every kind of request, one after the other.
AllRequests ==
    {CashSale(<<Item(p1, 2)>>), CreditSale(<<Item(p1, 1), Item(p2, 1)>>, 1),
     CreditSale(<<Item(p1, 1), Item(p1, 2)>>, 2),
     VoidOf(1), VoidOf(2), StockInOf(1), StockOutOf(2), Payment(1),
     EditOf(p1), RemoveOf(p2), LimitTo(1), Deactivate}

\* Deliveries arrive while the tills are open.
TillsAndDeliveries ==
    {CashSale(<<Item(p1, 2)>>), CashSale(<<Item(p1, 1), Item(p2, 1)>>), StockInOf(1)}

\* Sales, voids and stock-outs of the same batches, edits of their products and
\* payments; the sale of two products locks them in another order than its void.
Contended ==
    {CashSale(<<Item(p1, 1), Item(p2, 1)>>), CreditSale(<<Item(p1, 2)>>, 1),
     VoidOf(1), StockOutOf(1), EditOf(p1), Payment(1)}

CashOnly   == {CashSale(<<Item(p1, 1)>>)}
=============================================================================

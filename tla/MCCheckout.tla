----------------------------- MODULE MCCheckout -----------------------------
EXTENDS CheckoutInvariant, TLC

CONSTANTS p1, p2, c1, w1, w2

MCOpening == (p1 :> <<1, 2>>) @@ (p2 :> <<1>>)
MCOpeningStock == (p1 :> 3) @@ (p2 :> 1)
MCCreditLimit == (c1 :> 2)

Item(p, q) == [product |-> p, qty |-> q]
CashSale(items) ==
    [kind |-> "sale", items |-> items, customer |-> NoCustomer, method |-> "cash", credit |-> 0]
CreditSale(items, c, a) ==
    [kind |-> "sale", items |-> items, customer |-> c, method |-> "credit", credit |-> a]

MCRequests == {CashSale(<<Item(p1, 2)>>),
               CreditSale(<<Item(p1, 1), Item(p2, 1)>>, c1, 1),
               CreditSale(<<Item(p2, 1), Item(p1, 1)>>, c1, 2)}

=============================================================================

---------------------------- MODULE CartService -----------------------------
(***************************************************************************)
(* frontend features/pos/services/cart.service.ts and the components that  *)
(* change the cart: product grid and search, cart panel and items,         *)
(* customer and discount dialogs.  The service lives as long as the page   *)
(* is not reloaded; the tills' screen (PosPage) comes and goes.            *)
(* Prices are in centavos.  A total has four more decimals (percentage and *)
(* tax), so it is an integer in ten-thousandths of a centavo; that the     *)
(* code computes it in binary floating point is left out.                  *)
(***************************************************************************)
EXTENDS Integers, Sequences, FiniteSets, FiniteSetsExt

CONSTANTS
    Products,     \* products of the catalogue
    Price,        \* Price[p]: retail_price
    Discounts,    \* what cashiers enter: [type, amount], percent or centavos
    DefaultTax    \* [enabled, rate] before any store was loaded

VARIABLES
    shown,        \* the grid: current_stock of each product as last loaded
    items,        \* the cart: product -> [qty, stock], stock as it was when added
    customer,     \* credit left to the chosen customer when chosen, NoCustomer without
    discount,     \* [type, amount]
    method,       \* paymentMethod
    tax,          \* [enabled, rate]
    held,         \* held orders, oldest first
    cartNo,       \* history: which cart this is; a held order keeps its number
    cartsBegun    \* history: the numbers given out

cartVars == <<items, customer, discount, method, held, cartNo, cartsBegun>>

Unit       == 10000
NoCustomer == -1
NoDiscount == [type |-> "fixed", amount |-> 0]
Empty      == <<>>

ASSUME CartAssumption ==
    /\ IsFiniteSet(Products)
    /\ Price \in [Products -> Nat \ {0}]
    /\ Discounts \subseteq [type : {"fixed", "percentage"}, amount : Nat \ {0}]
    /\ DefaultTax \in [enabled : BOOLEAN, rate : Nat]

-----------------------------------------------------------------------------
(* The computed signals, in hundredths and ten-thousandths of a centavo.   *)

SubtotalOf(its)       == MapThenSumSet(LAMBDA p : Price[p] * its[p].qty, DOMAIN its)
DiscountOf(sub, d)    == IF d.type = "percentage" THEN sub * d.amount ELSE 100 * d.amount
TotalOf(sub, d, t) ==
    LET taxable == 100 * sub - DiscountOf(sub, d)
    IN taxable * (100 + IF t.enabled THEN t.rate ELSE 0)
AtLeastZero(n) == IF n < 0 THEN 0 ELSE n
Round(n)       == (n + Unit \div 2) \div Unit    \* Math.round(x * 100) / 100, in centavos

Subtotal == SubtotalOf(items)
Total    == AtLeastZero(TotalOf(Subtotal, discount, tax))

-----------------------------------------------------------------------------
\* clear(): the held orders, the tax and the catalogue stay.
Cleared == /\ items' = Empty /\ customer' = NoCustomer
           /\ discount' = NoDiscount /\ method' = "cash"
           /\ IF items = Empty THEN UNCHANGED <<cartNo, cartsBegun>>
              ELSE cartsBegun' = cartsBegun + 1 /\ cartNo' = cartsBegun + 1

InCart(p) == p \in DOMAIN items
SetQty(p, n, stock) == items' = [q \in DOMAIN items \cup {p} |->
                                   IF q = p THEN [qty |-> n, stock |-> stock] ELSE items[q]]
Drop(p) == items' = [q \in DOMAIN items \ {p} |-> items[q]]

\* addItem asks the product that was clicked, a line keeps the one it was made of.
AddItem(p) ==
    /\ shown[p] > IF InCart(p) THEN items[p].qty ELSE 0
    /\ IF InCart(p) THEN SetQty(p, items[p].qty + 1, items[p].stock) ELSE SetQty(p, 1, shown[p])
    /\ UNCHANGED <<customer, discount, method, held, cartNo, cartsBegun>>

Increment(p) ==
    /\ InCart(p) /\ items[p].qty < items[p].stock
    /\ SetQty(p, items[p].qty + 1, items[p].stock)
    /\ UNCHANGED <<customer, discount, method, held, cartNo, cartsBegun>>

Decrement(p) ==
    /\ InCart(p)
    /\ IF items[p].qty = 1 THEN Drop(p) ELSE SetQty(p, items[p].qty - 1, items[p].stock)
    /\ UNCHANGED <<customer, discount, method, held, cartNo, cartsBegun>>

\* The customer's row as the search found it, or nobody (walk-in, removeCustomer).
SelectCustomer(credit) ==
    /\ customer # credit /\ customer' = credit
    /\ UNCHANGED <<items, discount, method, held, cartNo, cartsBegun>>

\* The dialog takes a fixed discount up to the subtotal; nothing looks at it
\* again when lines go.
ApplyDiscount(d) ==
    /\ items # Empty /\ discount # d
    /\ d.type = "fixed" => d.amount <= Subtotal
    /\ discount' = d
    /\ UNCHANGED <<items, customer, method, held, cartNo, cartsBegun>>

RemoveDiscount ==
    /\ discount # NoDiscount /\ discount' = NoDiscount
    /\ UNCHANGED <<items, customer, method, held, cartNo, cartsBegun>>

HoldOrder ==
    /\ items # Empty
    /\ held' = Append(held, [items |-> items, customer |-> customer, cart |-> cartNo])
    /\ Cleared

\* Mutant: the order stays in the list.
RecallOrderKept ==
    /\ held # <<>>
    /\ LET order == held[Len(held)] IN
       /\ items' = order.items /\ customer' = order.customer /\ cartNo' = order.cart
    /\ UNCHANGED <<discount, method, held, cartsBegun>>

\* The latest held order replaces what is in the cart, but not its discount and
\* its payment method.
RecallOrder ==
    /\ held # <<>>
    /\ LET order == held[Len(held)] IN
       /\ items' = order.items /\ customer' = order.customer /\ cartNo' = order.cart
    /\ held' = SubSeq(held, 1, Len(held) - 1)
    /\ UNCHANGED <<discount, method, cartsBegun>>

ClearCart == items # Empty /\ Cleared /\ UNCHANGED held
=============================================================================

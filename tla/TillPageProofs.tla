--------------------------- MODULE TillPageProofs ---------------------------
(***************************************************************************)
(* Theorems about the till's page (PosPage with CartService), for any      *)
(* catalogue, prices, discounts, stores, settings and number of visits.    *)
(***************************************************************************)
EXTENDS PosPage, SumLemmas

-----------------------------------------------------------------------------
(* Types                                                                   *)

Credits    == Nat \cup {NoCustomer}
Line       == [qty : Nat \ {0}, stock : Nat]
Carts      == UNION {[D -> Line] : D \in SUBSET Products}
Quantities == UNION {[D -> Nat] : D \in SUBSET Products}
Orders     == [items : Carts, customer : Credits, cart : Nat \ {0}]
Methods    == {"cash", "digital", "credit", "partial"}
Reductions == Discounts \cup {NoDiscount}

\* A sale request on its way, and an answer on its way back.
Request == [visit : Int, cart : Nat \ {0}, store : Stores, state : {"sent"}, lines : Quantities,
            discount : Reductions, paid : Nat, method : Methods, charged : Nat, shown : Nat,
            change : Nat, told : BOOLEAN, seen : Quantities, creditSeen : Credits]
Answered == [visit : Int, cart : Nat \ {0}, state : {"booked", "refused"}]

CartTyped ==
    /\ items \in Carts /\ customer \in Credits /\ discount \in Reductions /\ method \in Methods
    /\ held \in Seq(Orders)
    /\ cartNo \in Nat \ {0} /\ cartsBegun \in Nat \ {0}
    /\ tax \in [enabled : BOOLEAN, rate : Nat]

PageTyped ==
    /\ store \in Stores /\ visit \in Nat \ {0} /\ since \in Nat \ {0} /\ since <= visit
    /\ taxFrom \subseteq Stores
    /\ settings \subseteq [visit : Nat, store : Stores]
    /\ shown \in [Products -> Nat]

ServerTyped ==
    /\ stock \in [Products -> Nat] /\ batches \in [Products -> Nat] /\ removed \subseteq Products
    /\ credit \in Nat /\ listed \in BOOLEAN
    /\ flight \subseteq Request \cup Answered
    /\ IsFiniteSet(flight)
    /\ \A r \in flight : r.visit <= visit
    /\ booked \in Seq([cart : Nat \ {0}, off : [total : Int, change : Int, open : Int]])
    /\ \A c \in DOMAIN lost : lost[c] \in Nat
    /\ events \in Nat

TillTyped == CartTyped /\ PageTyped /\ ServerTyped

-----------------------------------------------------------------------------
(* What the computed signals are                                           *)

\* A cart is a function of a set of products.
LEMMA InCarts == \A its : its \in Carts <=> DOMAIN its \subseteq Products /\ its \in [DOMAIN its -> Line]
  BY DEF Carts

\* The quantities of a request are a function of a set of products.
LEMMA InQuantities ==
    \A q : q \in Quantities <=> DOMAIN q \subseteq Products /\ q \in [DOMAIN q -> Nat]
  BY DEF Quantities

\* The empty cart is one.
LEMMA EmptyIsCart == Empty \in Carts /\ DOMAIN Empty = {}
<1>1. DOMAIN Empty = {} /\ Empty = [p \in {} |-> 0]
  BY DEF Empty
<1> QED
  BY <1>1, InCarts

\* The page's sum and the server's sum are sums of the same terms.
LEMMA SubtotalIs ==
    ASSUME NEW its, NEW S, S = DOMAIN its, IsFiniteSet(S), NEW f, f = [p \in S |-> Price[p] * its[p].qty]
    PROVE  SubtotalOf(its) = SumOf(f, S)
<1> DEFINE P(it) == it = [s \in SUBSET S |-> IF s = {} THEN 0
                            ELSE Price[Next1(s)] * its[Next1(s)].qty + it[s \ {Next1(s)}]]
<1>1. ASSUME NEW it PROVE P(it) <=> Sums(f, S, it)
  <2>1. \A s \in SUBSET S : s # {} => f[Next1(s)] = Price[Next1(s)] * its[Next1(s)].qty
    BY Next1In
  <2> QED
    BY <2>1 DEF Sums
<1>2. PICK jt : Sums(f, S, jt)
  BY SumsExist
<1>3. P(CHOOSE it : P(it))
  BY <1>1, <1>2
<1>4. SubtotalOf(its) = (CHOOSE it : P(it))[S]
  BY DEF SubtotalOf, MapThenSumSet, MapThenFoldSet, Next1
<1> HIDE DEF P
<1> QED
  BY <1>1, <1>3, <1>4, TotalIs

\* The subtotal is an amount.
LEMMA SubtotalInt == ASSUME NEW its \in Carts PROVE SubtotalOf(its) \in Int
<1>1. PICK S : S = DOMAIN its
  OBVIOUS
<1>2. S \subseteq Products /\ its \in [S -> Line]
  BY <1>1, InCarts
<1>3. IsFiniteSet(S)
  BY <1>2, CartAssumption, FS_Subset
<1>4. PICK f : f = [p \in S |-> Price[p] * its[p].qty]
  OBVIOUS
<1>5. \A p \in S : f[p] \in Int
  BY <1>2, <1>4, CartAssumption DEF Line
<1>6. SumOf(f, S) \in Int
  BY <1>3, <1>5, TotalInt
<1> QED
  BY <1>1, <1>3, <1>4, <1>6, SubtotalIs

\* So is a discount of it.
LEMMA DiscountInt ==
    ASSUME NEW sub \in Int, NEW d \in Reductions
    PROVE  DiscountOf(sub, d) \in Int
<1>1. d.amount \in Nat
  BY CartAssumption DEF Reductions, NoDiscount
<1> QED
  BY <1>1 DEF DiscountOf

\* The total is not negative.
LEMMA TotalNat == ASSUME CartTyped PROVE Subtotal \in Int /\ Total \in Nat
<1>1. Subtotal \in Int
  BY SubtotalInt DEF CartTyped, Subtotal
<1>2. DiscountOf(Subtotal, discount) \in Int
  BY <1>1, DiscountInt DEF CartTyped
<1>3. (IF tax.enabled THEN tax.rate ELSE 0) \in Int
  BY DEF CartTyped
<1>4. TotalOf(Subtotal, discount, tax) \in Int
  BY <1>1, <1>2, <1>3 DEF TotalOf
<1> QED
  BY <1>1, <1>4 DEF Total, AtLeastZero

\* Rounding an amount that is not negative gives one.
LEMMA RoundNat == ASSUME NEW n \in Nat PROVE Round(n) \in Nat
  BY DEF Round, Unit

\* Rounding any amount gives one.
LEMMA RoundInt == ASSUME NEW n \in Int PROVE Round(n) \in Int
  BY DEF Round, Unit

-----------------------------------------------------------------------------
(* Every operation keeps the types                                         *)

\* The page as the browser loads it.
LEMMA TillStart == Init => TillTyped
<1> SUFFICES ASSUME Init PROVE TillTyped
  OBVIOUS
<1>1. CartTyped
  BY EmptyIsCart, CartAssumption DEF Init, CartTyped, Reductions, Methods, Credits
<1>2. PageTyped
  BY PosAssumption DEF Init, PageTyped, Empties
<1>3. ServerTyped
  BY PosAssumption, FS_EmptySet DEF Init, ServerTyped
<1> QED
  BY <1>1, <1>2, <1>3 DEF TillTyped

\* clear() leaves an empty cart.
LEMMA ClearedTyped ==
    ASSUME CartTyped, Cleared, held' \in Seq(Orders), tax' \in [enabled : BOOLEAN, rate : Nat]
    PROVE  CartTyped'
  BY EmptyIsCart DEF CartTyped, Cleared, Reductions, Methods, Credits

\* A line that is set makes a cart.
LEMMA SetQtyTyped ==
    ASSUME items \in Carts, NEW p \in Products, NEW n \in Nat \ {0}, NEW s \in Nat, SetQty(p, n, s)
    PROVE  items' \in Carts
<1>1. DOMAIN items \subseteq Products /\ items \in [DOMAIN items -> Line]
  BY InCarts
<1>2. PICK D : D = DOMAIN items \cup {p}
  OBVIOUS
<1>3. items' = [q \in D |-> IF q = p THEN [qty |-> n, stock |-> s] ELSE items[q]]
  BY <1>2 DEF SetQty
<1>4. [qty |-> n, stock |-> s] \in Line
  BY DEF Line
<1>5. items' \in [D -> Line]
  BY <1>1, <1>2, <1>3, <1>4
<1> QED
  BY <1>1, <1>2, <1>5, InCarts

\* So does a line that is dropped.
LEMMA DropTyped ==
    ASSUME items \in Carts, NEW p, Drop(p)
    PROVE  items' \in Carts
<1>1. DOMAIN items \subseteq Products /\ items \in [DOMAIN items -> Line]
  BY InCarts
<1>2. PICK D : D = DOMAIN items \ {p}
  OBVIOUS
<1>3. items' = [q \in D |-> items[q]]
  BY <1>2 DEF Drop
<1>4. items' \in [D -> Line]
  BY <1>1, <1>2, <1>3
<1> QED
  BY <1>1, <1>2, <1>4, InCarts

\* What the cashier does to the cart.
LEMMA EditTyped == ASSUME TillTyped, EditCart PROVE TillTyped'
<1>1. CartTyped /\ PageTyped /\ ServerTyped
  BY DEF TillTyped
<1>2. UNCHANGED <<pageVars, dataVars, flight, lost>>
  BY DEF EditCart
<1>3. PageTyped'
  BY <1>1, <1>2 DEF pageVars, PageTyped
<1>4. ServerTyped'
  <2>1. events' \in Nat
    BY <1>1 DEF EditCart, Count, ServerTyped
  <2> QED
    BY <1>1, <1>2, <2>1 DEF dataVars, baseVars, pageVars, ServerTyped
<1>5. tax' = tax
  BY <1>2 DEF pageVars
<1>6. items \in Carts /\ shown \in [Products -> Nat] /\ credit \in Nat
  BY <1>1 DEF CartTyped, PageTyped, ServerTyped
<1>7. ASSUME NEW p \in Products, AddItem(p) PROVE CartTyped'
  <2>1. items' \in Carts
    <3>1. CASE InCart(p)
      <4>1. items[p] \in Line
        BY <1>6, <3>1, InCarts DEF InCart
      <4> QED
        BY <1>6, <1>7, <3>1, <4>1, SetQtyTyped DEF AddItem, Line
    <3>2. CASE ~InCart(p)
      BY <1>6, <1>7, <3>2, SetQtyTyped DEF AddItem
    <3> QED
      BY <3>1, <3>2
  <2> QED
    BY <1>1, <1>5, <1>7, <2>1 DEF AddItem, CartTyped
<1>8. ASSUME NEW p \in Products, Increment(p) PROVE CartTyped'
  <2>1. items[p] \in Line
    BY <1>6, <1>8, InCarts DEF InCart, Increment
  <2>2. items' \in Carts
    BY <1>6, <1>8, <2>1, SetQtyTyped DEF Increment, Line
  <2> QED
    BY <1>1, <1>5, <1>8, <2>2 DEF Increment, CartTyped
<1>9. ASSUME NEW p \in Products, Decrement(p) PROVE CartTyped'
  <2>1. items[p] \in Line
    BY <1>6, <1>9, InCarts DEF InCart, Decrement
  <2>2. items' \in Carts
    <3>1. CASE items[p].qty = 1
      BY <1>6, <1>9, <3>1, DropTyped DEF Decrement
    <3>2. CASE items[p].qty # 1
      BY <1>6, <1>9, <2>1, <3>2, SetQtyTyped DEF Decrement, Line
    <3> QED
      BY <3>1, <3>2
  <2> QED
    BY <1>1, <1>5, <1>9, <2>2 DEF Decrement, CartTyped
<1>10. ASSUME NEW c \in Credits, SelectCustomer(c) PROVE CartTyped'
  BY <1>1, <1>5, <1>10 DEF SelectCustomer, CartTyped
<1>11. ASSUME NEW d \in Discounts, ApplyDiscount(d) PROVE CartTyped'
  BY <1>1, <1>5, <1>11 DEF ApplyDiscount, CartTyped, Reductions
<1>12. ASSUME RemoveDiscount PROVE CartTyped'
  BY <1>1, <1>5, <1>12 DEF RemoveDiscount, CartTyped, Reductions
<1>13. ASSUME RecallOrder PROVE CartTyped'
  <2>1. held[Len(held)] \in Orders /\ SubSeq(held, 1, Len(held) - 1) \in Seq(Orders)
    BY <1>1, <1>13 DEF CartTyped, RecallOrder
  <2> QED
    BY <1>1, <1>5, <1>13, <2>1 DEF RecallOrder, CartTyped, Orders
<1>14. ASSUME HoldOrder PROVE CartTyped'
  <2>1. [items |-> items, customer |-> customer, cart |-> cartNo] \in Orders
    BY <1>1 DEF CartTyped, Orders
  <2>2. held' \in Seq(Orders)
    BY <1>1, <1>14, <2>1 DEF CartTyped, HoldOrder
  <2> QED
    BY <1>1, <1>5, <1>14, <2>2, ClearedTyped DEF HoldOrder, CartTyped
<1>15. ASSUME ClearCart PROVE CartTyped'
  BY <1>1, <1>5, <1>15, ClearedTyped DEF ClearCart, CartTyped
<1>16. CartTyped'
  BY <1>6, <1>7, <1>8, <1>9, <1>10, <1>11, <1>12, <1>13, <1>14, <1>15 DEF EditCart, Credits
<1> QED
  BY <1>3, <1>4, <1>16 DEF TillTyped

\* A setting, or what stands in for it.
LEMMA OrTyped ==
    ASSUME NEW T, NEW s \in T \cup {Unset}, NEW o \in T
    PROVE  Or(s, o) \in T
  BY DEF Or

\* The rate of a store, or what stands in for it.
LEMMA PageRateTyped ==
    ASSUME NEW s \in Stores, NEW o \in Nat
    PROVE  PageRate(s, o) \in Nat
  BY PosAssumption DEF PageRate, Or

\* Leaving the page, and the reload after a switch of the store.
LEMMA VisitsTyped ==
    ASSUME TillTyped, NEW s \in Stores, Visit(s) \/ Reload(s)
    PROVE  TillTyped'
<1>1. CartTyped /\ PageTyped /\ ServerTyped
  BY DEF TillTyped
<1>2. OpenPage(s) /\ Cleared /\ UNCHANGED <<dataVars, flight, lost>>
  BY DEF Visit, Reload
<1>3. CartTyped'
  <2>1. held' \in Seq(Orders)
    <3>1. held \in Seq(Orders)
      BY <1>1 DEF CartTyped
    <3>2. held' = held \/ held' = <<>>
      BY DEF Visit, Reload
    <3>3. <<>> \in Seq(Orders)
      OBVIOUS
    <3> QED
      BY <3>1, <3>2, <3>3
  <2>2. tax' \in [enabled : BOOLEAN, rate : Nat]
    BY <1>1, CartAssumption DEF Visit, Reload, CartTyped
  <2> QED
    BY <1>1, <1>2, <2>1, <2>2, ClearedTyped
<1>4. PageTyped'
  BY <1>1, <1>2 DEF Visit, Reload, OpenPage, PageTyped, Empties
<1>5. ServerTyped'
  <2>1. visit' = visit + 1 /\ events' \in Nat
    BY <1>1, <1>2 DEF OpenPage, Count, ServerTyped
  <2>2. \A r \in flight' : r.visit <= visit'
    <3>1. \A r \in flight : r.visit \in Int
      BY <1>1 DEF ServerTyped, Request, Answered
    <3> QED
      BY <1>1, <1>2, <2>1, <3>1 DEF ServerTyped, PageTyped
  <2> QED
    BY <1>1, <1>2, <2>1, <2>2 DEF dataVars, baseVars, ServerTyped
<1> QED
  BY <1>3, <1>4, <1>5 DEF TillTyped

\* The answers of GET /products and of the settings.
LEMMA LoadsTyped ==
    ASSUME TillTyped, LoadProducts \/ LoadStore
    PROVE  TillTyped'
<1>1. CartTyped /\ PageTyped /\ ServerTyped
  BY DEF TillTyped
<1>2. CASE LoadProducts
  <2>1. shown' \in [Products -> Nat]
    BY <1>1, <1>2 DEF LoadProducts, Catalogue, ServerTyped
  <2> QED
    BY <1>1, <1>2, <2>1 DEF LoadProducts, cartVars, dataVars, baseVars, TillTyped, CartTyped, PageTyped, ServerTyped
<1>3. CASE LoadStore
  <2>1. PICK r \in settings :
          /\ settings' = settings \ {r}
          /\ taxFrom' = taxFrom \cup {r.store}
          /\ tax' = [enabled |-> Or(Settings[r.store].enabled, tax.enabled),
                     rate |-> PageRate(r.store, tax.rate)]
    BY <1>3 DEF LoadStore
  <2>2. r.store \in Stores
    BY <1>1 DEF PageTyped
  <2>3. tax' \in [enabled : BOOLEAN, rate : Nat]
    <3>1. Or(Settings[r.store].enabled, tax.enabled) \in BOOLEAN
      BY <1>1, <2>2, OrTyped, PosAssumption DEF CartTyped
    <3>2. PageRate(r.store, tax.rate) \in Nat
      BY <1>1, <2>2, PageRateTyped DEF CartTyped
    <3> QED
      BY <2>1, <3>1, <3>2
  <2> QED
    BY <1>1, <1>3, <2>1, <2>2, <2>3
       DEF LoadStore, cartVars, dataVars, baseVars, TillTyped, CartTyped, PageTyped, ServerTyped
<1> QED
  BY <1>2, <1>3

-----------------------------------------------------------------------------
(* The dialog and the request                                              *)

\* What the dialog makes of the total and the amount that was entered.
PaidFor(m, amount) == CASE m = "credit" -> 0 [] m = "digital" -> Total [] OTHER -> amount

\* What is paid and what is put on credit are amounts.
LEMMA PaidTyped ==
    ASSUME CartTyped, NEW m \in Methods, NEW a \in Amounts
    PROVE  PaidFor(m, a) \in Nat /\ CreditAmount(m, PaidFor(m, a)) \in Nat
<1>1. Total \in Nat
  BY TotalNat
<1>2. a \in Nat
  BY <1>1, PosAssumption DEF Amounts, Typed, Unit
<1>3. PaidFor(m, a) \in Nat
  BY <1>1, <1>2 DEF PaidFor
<1> QED
  BY <1>1, <1>3 DEF CreditAmount, AtLeastZero

\* The parts of a request.
LEMMA PayloadParts ==
    ASSUME TillTyped, NEW m \in Methods, NEW n \in Nat, CreditAmount(m, n) \in Nat
    PROVE  /\ Payload(m, n) \in Request
           /\ DOMAIN Payload(m, n).lines = DOMAIN items /\ DOMAIN Payload(m, n).seen = DOMAIN items
           /\ \A p \in DOMAIN items : /\ Payload(m, n).lines[p] = items[p].qty
                                      /\ Payload(m, n).seen[p] = items[p].stock
<1>1. CartTyped /\ PageTyped
  BY DEF TillTyped
<1>2. PICK ls, ss : /\ ls = [p \in DOMAIN items |-> items[p].qty]
                    /\ ss = [p \in DOMAIN items |-> items[p].stock]
  OBVIOUS
<1>3. items \in Carts
  BY <1>1 DEF CartTyped
<1>4. DOMAIN items \subseteq Products /\ \A p \in DOMAIN items : items[p] \in Line
  BY <1>3, InCarts
<1>5. ls \in Quantities /\ ss \in Quantities
  <2>1. \A p \in DOMAIN items : items[p].qty \in Nat /\ items[p].stock \in Nat
    BY <1>4 DEF Line
  <2>2. /\ DOMAIN ls = DOMAIN items /\ ls \in [DOMAIN items -> Nat]
        /\ DOMAIN ss = DOMAIN items /\ ss \in [DOMAIN items -> Nat]
    BY <1>2, <2>1
  <2>3. DOMAIN ls \subseteq Products /\ DOMAIN ss \subseteq Products
    BY <1>4, <2>2
  <2> QED
    BY <2>2, <2>3, InQuantities
<1>6. Total \in Nat /\ AtLeastZero(n - Total) \in Nat
  BY <1>1, TotalNat DEF AtLeastZero
<1>7. /\ Round(CreditAmount(m, n)) \in Nat /\ Round(Total) \in Nat
      /\ Round(AtLeastZero(n - Total)) \in Nat
  BY <1>6, RoundNat
<1>8. PICK c, t, g, y : /\ c = Round(CreditAmount(m, n)) /\ t = Round(Total)
                        /\ g = Round(AtLeastZero(n - Total))
                        /\ y = (/\ taxFrom = {store} /\ RateAgreed(store)
                                /\ DiscountOf(Subtotal, discount) <= 100 * Subtotal)
  OBVIOUS
<1>9. PICK r : r = [visit |-> visit, cart |-> cartNo, store |-> store, state |-> "sent", lines |-> ls,
                    discount |-> discount, paid |-> n, method |-> m, charged |-> c, shown |-> t,
                    change |-> g, told |-> y, seen |-> ss, creditSeen |-> customer]
  OBVIOUS
<1>10. Payload(m, n) = r
  BY <1>2, <1>8, <1>9 DEF Payload
<1>11. y \in BOOLEAN
  BY <1>8
<1>12. r \in Request
  BY <1>1, <1>5, <1>7, <1>8, <1>9, <1>11 DEF Request, CartTyped, PageTyped
<1> QED
  BY <1>2, <1>9, <1>10, <1>12

\* The button that completes a sale.
LEMMA CompleteTyped ==
    ASSUME TillTyped, NEW m \in Methods, NEW a \in Amounts, CompleteSale(m, a)
    PROVE  TillTyped'
<1>1. CartTyped /\ PageTyped /\ ServerTyped
  BY DEF TillTyped
<1>2. PaidFor(m, a) \in Nat /\ CreditAmount(m, PaidFor(m, a)) \in Nat
  BY <1>1, PaidTyped
<1>3. PICK n \in Nat : n = PaidFor(m, a)
  BY <1>2
<1>4. flight' = flight \cup {Payload(m, n)}
  BY <1>3 DEF CompleteSale, PaidFor
<1>5. Payload(m, n) \in Request
  BY <1>2, <1>3, PayloadParts
<1>6. Payload(m, n).visit = visit
  BY DEF Payload
<1>7. /\ flight' \subseteq Request \cup Answered
      /\ \A r \in flight' : r.visit <= visit
  BY <1>1, <1>4, <1>5, <1>6 DEF ServerTyped, PageTyped
<1>8. IsFiniteSet(flight')
  BY <1>1, <1>4, FS_AddElement DEF ServerTyped
<1>9. /\ UNCHANGED <<items, customer, discount, held, cartNo, cartsBegun, tax>> /\ method' = m
      /\ UNCHANGED <<store, visit, since, taxFrom, settings, shown>>
      /\ UNCHANGED <<stock, batches, removed, credit, listed, booked, lost>> /\ events' \in Nat
  BY <1>1 DEF CompleteSale, pageVars, dataVars, baseVars, Count, ServerTyped
<1>10. CartTyped'
  BY <1>1, <1>9 DEF CartTyped
<1>11. PageTyped'
  BY <1>1, <1>9 DEF PageTyped
<1>12. ServerTyped'
  BY <1>1, <1>7, <1>8, <1>9 DEF ServerTyped
<1> QED
  BY <1>10, <1>11, <1>12 DEF TillTyped

\* The types of the page are not touched by the server.
LEMMA PageKept ==
    ASSUME TillTyped, UNCHANGED <<cartVars, pageVars>>
    PROVE  CartTyped' /\ PageTyped'
<1>1. CartTyped /\ PageTyped
  BY DEF TillTyped
<1>2. /\ UNCHANGED <<items, customer, discount, held, cartNo, cartsBegun, tax, method>>
      /\ UNCHANGED <<store, visit, since, taxFrom, settings, shown>>
  BY DEF cartVars, pageVars
<1>3. CartTyped'
  BY <1>1, <1>2 DEF CartTyped
<1>4. PageTyped'
  BY <1>1, <1>2 DEF PageTyped
<1> QED
  BY <1>3, <1>4

\* An answer takes the place of its request.
LEMMA ReplyTyped ==
    ASSUME TillTyped, NEW r \in flight, NEW s \in {"booked", "refused"}
    PROVE  /\ Reply(r, s) \subseteq Request \cup Answered
           /\ IsFiniteSet(Reply(r, s))
           /\ \A q \in Reply(r, s) : q.visit <= visit
<1>1. ServerTyped
  BY DEF TillTyped
<1>2. r.visit \in Int /\ r.cart \in Nat \ {0} /\ r.visit <= visit
  BY <1>1 DEF ServerTyped, Request, Answered
<1>3. [visit |-> r.visit, cart |-> r.cart, state |-> s] \in Answered
  BY <1>2 DEF Answered
<1>4. IsFiniteSet(flight \ {r}) /\ \A q \in flight : q.visit <= visit
  BY <1>1, FS_RemoveElement DEF ServerTyped
<1> QED
  <2>1. PICK y : y = [visit |-> r.visit, cart |-> r.cart, state |-> s]
    OBVIOUS
  <2>2. Reply(r, s) = (flight \ {r}) \cup {y}
    BY <2>1 DEF Reply
  <2>3. y \in Answered /\ y.visit <= visit
    BY <1>2, <1>3, <2>1
  <2>4. IsFiniteSet(Reply(r, s))
    BY <1>4, <2>2, FS_AddElement
  <2>5. flight \subseteq Request \cup Answered
    BY <1>1 DEF ServerTyped
  <2> QED
    BY <1>4, <2>2, <2>3, <2>4, <2>5

\* The server's subtotal.
LinesTotal(lines) == MapThenSumSet(LAMBDA p : Price[p] * lines[p], DOMAIN lines)

\* The server adds up the terms of the lines.
LEMMA LinesTotalIs ==
    ASSUME NEW q, NEW S, S = DOMAIN q, IsFiniteSet(S), NEW f, f = [p \in S |-> Price[p] * q[p]]
    PROVE  LinesTotal(q) = SumOf(f, S)
<1> DEFINE P(it) == it = [s \in SUBSET S |-> IF s = {} THEN 0
                            ELSE Price[Next1(s)] * q[Next1(s)] + it[s \ {Next1(s)}]]
<1>1. ASSUME NEW it PROVE P(it) <=> Sums(f, S, it)
  <2>1. \A s \in SUBSET S : s # {} => f[Next1(s)] = Price[Next1(s)] * q[Next1(s)]
    BY Next1In
  <2> QED
    BY <2>1 DEF Sums
<1>2. PICK jt : Sums(f, S, jt)
  BY SumsExist
<1>3. P(CHOOSE it : P(it))
  BY <1>1, <1>2
<1>4. LinesTotal(q) = (CHOOSE it : P(it))[S]
  BY DEF LinesTotal, MapThenSumSet, MapThenFoldSet, Next1
<1> HIDE DEF P
<1> QED
  BY <1>1, <1>3, <1>4, TotalIs

\* The server's subtotal is an amount.
LEMMA LinesTotalInt == ASSUME NEW q \in Quantities PROVE LinesTotal(q) \in Int
<1>1. PICK S : S = DOMAIN q
  OBVIOUS
<1>2. S \subseteq Products /\ q \in [S -> Nat]
  BY <1>1, InQuantities
<1>3. IsFiniteSet(S)
  BY <1>2, CartAssumption, FS_Subset
<1>4. PICK f : f = [p \in S |-> Price[p] * q[p]]
  OBVIOUS
<1>5. \A p \in S : f[p] \in Int
  BY <1>2, <1>4, CartAssumption
<1>6. SumOf(f, S) \in Int
  BY <1>3, <1>5, TotalInt
<1> QED
  BY <1>1, <1>3, <1>4, <1>6, LinesTotalIs

\* The server's tax rate is one.
LEMMA RateNat == ASSUME NEW s \in Stores PROVE ServerRate(s) \in Nat
  BY PosAssumption DEF ServerRate

\* The server's total, of its parts.
LEMMA ServerTotalIs ==
    ASSUME NEW r
    PROVE  ServerTotal(r) = (100 * LinesTotal(r.lines) - DiscountOf(LinesTotal(r.lines), r.discount))
                            * (100 + ServerRate(r.store))
  BY DEF ServerTotal, LinesTotal

\* The server's total is an amount, negative when the discount is more than the goods.
LEMMA ServerTotalInt == ASSUME NEW r \in Request PROVE ServerTotal(r) \in Int
<1>1. r.lines \in Quantities /\ r.discount \in Reductions /\ r.store \in Stores
  BY DEF Request
<1>2. LinesTotal(r.lines) \in Int /\ ServerRate(r.store) \in Nat
  BY <1>1, LinesTotalInt, RateNat
<1>3. DiscountOf(LinesTotal(r.lines), r.discount) \in Int
  BY <1>1, <1>2, DiscountInt
<1> QED
  BY <1>2, <1>3, ServerTotalIs

-----------------------------------------------------------------------------
(* The server and its answers                                              *)

\* The server refuses or records.
LEMMA ServeTyped ==
    ASSUME TillTyped, NEW r \in flight, Serve(r)
    PROVE  TillTyped'
<1>1. ServerTyped
  BY DEF TillTyped
<1>2. UNCHANGED <<cartVars, pageVars, lost, events>> /\ r.state = "sent"
  BY DEF Serve
<1>3. CartTyped' /\ PageTyped' /\ visit' = visit
  BY <1>2, PageKept DEF pageVars
<1>4. r \in Request
  BY <1>1, <1>2 DEF ServerTyped, Answered
<1>5. CASE Refused(r)
  <2>1. /\ flight' = Reply(r, "refused")
        /\ UNCHANGED <<stock, batches, removed, credit, listed, booked>>
    BY <1>2, <1>5 DEF Serve, Refuse, baseVars
  <2> QED
    BY <1>1, <1>2, <1>3, <2>1, ReplyTyped DEF ServerTyped, TillTyped
<1>6. CASE ~Refused(r)
  <2>1. Record(r)
    BY <1>2, <1>6 DEF Serve
  <2>2. flight' = Reply(r, "booked")
    BY <2>1 DEF Record
  <2>3. r.lines \in Quantities /\ r.charged \in Nat /\ r.paid \in Nat /\ r.shown \in Nat /\ r.change \in Nat
        /\ r.cart \in Nat \ {0}
    BY <1>4 DEF Request
  <2>4. DOMAIN r.lines \subseteq Products /\ \A p \in DOMAIN r.lines : r.lines[p] \in Nat
    BY <2>3, InQuantities
  <2>5. stock' \in [Products -> Nat] /\ batches' \in [Products -> Nat]
    <3>1. /\ stock' = [p \in Products |-> stock[p] - IF p \in DOMAIN r.lines THEN r.lines[p] ELSE 0]
          /\ batches' = [p \in Products |-> batches[p] - IF p \in DOMAIN r.lines THEN r.lines[p] ELSE 0]
      BY <2>1 DEF Record
    <3>2. \A p \in DOMAIN r.lines : stock[p] >= r.lines[p] /\ batches[p] >= r.lines[p]
      BY <1>1, <1>6, <2>4 DEF Refused, ServerTyped
    <3>3. stock \in [Products -> Nat] /\ batches \in [Products -> Nat]
      BY <1>1 DEF ServerTyped
    <3> QED
      BY <2>4, <3>1, <3>2, <3>3
  <2>6. credit' \in Nat
    <3>1. r.method \in OnCredit => r.charged <= credit
      BY <1>1, <1>6, <2>3 DEF Refused, ServerTyped
    <3> QED
      BY <1>1, <2>1, <2>3, <3>1 DEF Record, ServerTyped
  <2>7. booked' \in Seq([cart : Nat \ {0}, off : [total : Int, change : Int, open : Int]])
    <3>1. PICK t, c : t = Round(ServerTotal(r)) /\ c = Round(AtLeastZero(r.paid - ServerTotal(r)))
      OBVIOUS
    <3>2. ServerTotal(r) \in Int
      BY <1>4, ServerTotalInt
    <3>3. AtLeastZero(r.paid - ServerTotal(r)) \in Int
      BY <2>3, <3>2 DEF AtLeastZero
    <3>4. t \in Int /\ c \in Int /\ Round(r.paid) \in Int
      BY <2>3, <3>1, <3>2, <3>3, RoundInt
    <3>5. AtLeastZero(t - Round(r.paid) - r.charged) \in Int
      BY <2>3, <3>4 DEF AtLeastZero
    <3>6. PICK o : o = IF r.told THEN [total |-> t - r.shown, change |-> c - r.change,
                                       open |-> AtLeastZero(t - Round(r.paid) - r.charged)]
                       ELSE Agreed
      OBVIOUS
    <3>7. o \in [total : Int, change : Int, open : Int]
      BY <2>3, <3>4, <3>5, <3>6 DEF Agreed
    <3>8. booked' = Append(booked, [cart |-> r.cart, off |-> o])
      BY <2>1, <3>1, <3>6 DEF Record
    <3> QED
      BY <1>1, <2>3, <3>7, <3>8 DEF ServerTyped
  <2> QED
    <3>1. UNCHANGED <<removed, listed, lost, events>>
      BY <1>2, <2>1 DEF Record
    <3> QED
      BY <1>1, <1>3, <2>2, <2>5, <2>6, <2>7, <3>1, ReplyTyped DEF ServerTyped, TillTyped
<1> QED
  BY <1>5, <1>6

\* Other tills sell, products and customers are removed.
LEMMA ElsewhereTyped == ASSUME TillTyped, Elsewhere PROVE TillTyped'
<1>1. ServerTyped
  BY DEF TillTyped
<1>2. CartTyped' /\ PageTyped' /\ visit' = visit
  BY PageKept DEF Elsewhere, pageVars
<1>3. ASSUME NEW p \in Products, SoldElsewhere(p) \/ UpdateLost(p)
      PROVE  /\ stock' \in [Products -> Nat] /\ batches' \in [Products -> Nat]
             /\ credit' \in Nat /\ UNCHANGED <<removed, listed>>
  <2>1. stock \in [Products -> Nat] /\ batches \in [Products -> Nat] /\ credit \in Nat
    BY <1>1 DEF ServerTyped
  <2>2. CASE SoldElsewhere(p)
    BY <2>1, <2>2 DEF SoldElsewhere
  <2>3. CASE UpdateLost(p)
    BY <2>1, <2>3 DEF UpdateLost
  <2> QED
    BY <1>3, <2>2, <2>3
<1>4. /\ stock' \in [Products -> Nat] /\ batches' \in [Products -> Nat] /\ removed' \subseteq Products
      /\ credit' \in Nat /\ listed' \in BOOLEAN /\ events' \in Nat
  <2>1. events' \in Nat
    BY <1>1 DEF Elsewhere, Count, ServerTyped
  <2>2. CASE \E p \in Products : SoldElsewhere(p) \/ UpdateLost(p)
    BY <1>1, <1>3, <2>1, <2>2 DEF ServerTyped
  <2>3. CASE \E p \in Products : RemoveProduct(p)
    BY <1>1, <2>1, <2>3 DEF RemoveProduct, ServerTyped
  <2>4. CASE RemoveCustomer
    BY <1>1, <2>1, <2>4 DEF RemoveCustomer, ServerTyped
  <2> QED
    BY <2>2, <2>3, <2>4 DEF Elsewhere
<1>5. ServerTyped'
  BY <1>1, <1>2, <1>4 DEF Elsewhere, ServerTyped
<1> QED
  BY <1>2, <1>5 DEF TillTyped

\* The answer of a sale that was recorded.
LEMMA CompletedTyped ==
    ASSUME TillTyped, NEW r \in flight, Completed(r)
    PROVE  TillTyped'
<1>1. CartTyped /\ PageTyped /\ ServerTyped
  BY DEF TillTyped
<1>2. /\ UNCHANGED <<held, store, visit, since, settings, taxFrom, tax, dataVars, lost, events>>
      /\ flight' = flight \ {r}
  BY DEF Completed
<1>3. CartTyped'
  <2>1. CASE Cleared
    BY <1>1, <1>2, <2>1, ClearedTyped DEF CartTyped
  <2>2. CASE UNCHANGED <<items, customer, discount, method, cartNo, cartsBegun>>
    BY <1>1, <1>2, <2>2 DEF CartTyped
  <2> QED
    BY <2>1, <2>2 DEF Completed
<1>4. shown' \in [Products -> Nat]
  <2>1. Catalogue \in [Products -> Nat]
    BY <1>1 DEF Catalogue, ServerTyped
  <2>2. shown' = Catalogue \/ shown' = shown
    BY DEF Completed
  <2> QED
    BY <1>1, <2>1, <2>2 DEF PageTyped
<1>5. PageTyped'
  BY <1>1, <1>2, <1>4 DEF PageTyped
<1>6. ServerTyped'
  <2>1. IsFiniteSet(flight')
    BY <1>1, <1>2, FS_RemoveElement DEF ServerTyped
  <2> QED
    BY <1>1, <1>2, <2>1 DEF ServerTyped, dataVars, baseVars
<1> QED
  BY <1>3, <1>5, <1>6 DEF TillTyped

\* The answer of a sale that was refused.
LEMMA FailedTyped ==
    ASSUME TillTyped, NEW r \in flight, Failed(r)
    PROVE  TillTyped'
<1>1. ServerTyped
  BY DEF TillTyped
<1>2. CartTyped' /\ PageTyped' /\ visit' = visit
  BY PageKept DEF Failed, pageVars
<1>3. flight' = flight \ {r} /\ UNCHANGED <<dataVars, lost, events>>
  BY DEF Failed
<1>4. ServerTyped'
  <2>1. IsFiniteSet(flight')
    BY <1>1, <1>3, FS_RemoveElement DEF ServerTyped
  <2> QED
    BY <1>1, <1>2, <1>3, <2>1 DEF ServerTyped, dataVars, baseVars
<1> QED
  BY <1>2, <1>4 DEF TillTyped

\* A request that is still on its way though no page waits for it.
LEMMA AdriftTyped ==
    ASSUME NEW r \in Request, NEW v \in Int
    PROVE  [r EXCEPT !.visit = v] \in Request
  BY DEF Request

\* No answer.
LEMMA LostTyped ==
    ASSUME TillTyped, NEW r \in flight, Lost(r)
    PROVE  TillTyped'
<1>1. ServerTyped
  BY DEF TillTyped
<1>2. CartTyped' /\ PageTyped' /\ visit' = visit
  BY PageKept DEF Lost, pageVars
<1>3. UNCHANGED <<dataVars, events>>
  BY DEF Lost
<1>4. \A c \in DOMAIN lost' : lost'[c] \in Nat
  BY <1>1 DEF Lost, ServerTyped
<1>5. flight' \subseteq Request \cup Answered /\ IsFiniteSet(flight') /\ \A q \in flight' : q.visit <= visit
  <2>1. IsFiniteSet(flight \ {r}) /\ \A q \in flight : q.visit <= visit
    BY <1>1, FS_RemoveElement DEF ServerTyped
  <2>2. CASE flight' = flight \ {r}
    BY <1>1, <2>1, <2>2 DEF ServerTyped
  <2>3. CASE r.state = "sent" /\ flight' = (flight \ {r}) \cup {[r EXCEPT !.visit = -events]}
    <3>1. r \in Request
      BY <1>1, <2>3 DEF ServerTyped, Answered
    <3>2. PICK y : y = [r EXCEPT !.visit = -events]
      OBVIOUS
    <3>3. -events \in Int /\ -events <= visit
      BY <1>1 DEF ServerTyped, TillTyped, PageTyped
    <3>4. y \in Request /\ y.visit <= visit
      BY <3>1, <3>2, <3>3, AdriftTyped DEF Request
    <3> QED
      BY <1>1, <2>1, <2>3, <3>2, <3>4, FS_AddElement DEF ServerTyped
  <2> QED
    BY <2>2, <2>3 DEF Lost
<1>6. ServerTyped'
  BY <1>1, <1>2, <1>3, <1>4, <1>5 DEF ServerTyped, dataVars, baseVars
<1> QED
  BY <1>2, <1>6 DEF TillTyped

\* Every step keeps the types.
LEMMA TillStep == ASSUME TillTyped, [Next]_vars PROVE TillTyped'
<1>1. CASE UNCHANGED vars
  <2>1. UNCHANGED <<cartVars, pageVars>> /\ UNCHANGED dataVars /\ UNCHANGED <<flight, lost, events>>
    BY <1>1 DEF vars
  <2>2. CartTyped' /\ PageTyped' /\ visit' = visit
    BY <2>1, PageKept DEF pageVars
  <2> QED
    BY <2>1, <2>2 DEF ServerTyped, TillTyped, dataVars, baseVars
<1>2. CASE Next
  BY <1>2, VisitsTyped, LoadsTyped, EditTyped, CompleteTyped, ServeTyped, CompletedTyped, FailedTyped,
     LostTyped, ElsewhereTyped DEF Next, Answer, Methods
<1> QED
  BY <1>1, <1>2

\* The till's page, its cart and its requests keep their types.
THEOREM TillTypes == Spec => []TillTyped
  BY TillStart, TillStep, PTL DEF Spec

-----------------------------------------------------------------------------
(* One cart, one sale.  Whoever may still send a cart counts as a sale of   *)
(* it: the till as long as it shows or holds the cart and awaits no answer  *)
(* about it, and each request on its way.                                   *)

SalesOf(c)   == {i \in DOMAIN booked : booked[i].cart = c}
SentOf(c)    == {r \in flight : r.state = "sent" /\ r.cart = c}
Live(c)      == c = cartNo \/ \E i \in DOMAIN held : held[i].cart = c
Awaiting(r)  == r.visit = visit /\ r.state \in {"sent", "booked"}
Awaited(c)   == \E r \in flight : Awaiting(r) /\ r.cart = c
Sendable(c)  == IF Live(c) /\ ~Awaited(c) THEN 1 ELSE 0

\* A cart has one number, and a new one has not been sent.
CartsNumbered ==
    /\ cartNo <= cartsBegun
    /\ \A i \in DOMAIN held : held[i].cart <= cartsBegun /\ held[i].cart # cartNo
    /\ \A i, j \in DOMAIN held : held[i].cart = held[j].cart => i = j
    /\ \A i \in DOMAIN booked : booked[i].cart <= cartsBegun
    /\ \A r \in flight : r.cart <= cartsBegun

\* The page waits about the cart it shows, or about one that is gone.
WaitsForItsCart ==
    \A r \in flight : Awaiting(r) => (r.cart = cartNo /\ items # Empty) \/ ~Live(r.cart)

SalesBudget ==
    \A c \in DOMAIN lost :
        Cardinality(SalesOf(c)) + Cardinality(SentOf(c)) + Sendable(c) <= 1 + lost[c]

CartsInv == CartsNumbered /\ WaitsForItsCart /\ SalesBudget

-----------------------------------------------------------------------------
(* What the page knows when it lets a sale pass                             *)

\* A line is no longer than the stock it was made of, which only fell since.
LineSeen(p, l) == l.qty <= l.stock /\ shown[p] <= l.stock /\ stock[p] <= l.stock

StockSeen ==
    /\ \A p \in Products : shown[p] = 0 \/ stock[p] <= shown[p]
    /\ \A p \in DOMAIN items : LineSeen(p, items[p])
    /\ \A i \in DOMAIN held : \A p \in DOMAIN held[i].items : LineSeen(p, held[i].items[p])

\* A request stays within the stock and the credit that were seen.
RequestSeen(r) ==
    /\ DOMAIN r.seen = DOMAIN r.lines
    /\ \A p \in DOMAIN r.lines : r.lines[p] <= r.seen[p]
    /\ r.method \in OnCredit /\ r.shown > 0 => r.creditSeen # NoCustomer /\ r.charged <= r.creditSeen

KnownInv ==
    /\ StockSeen
    /\ \A r \in flight : r.state = "sent" => RequestSeen(r)
    /\ PayableIsAccepted

-----------------------------------------------------------------------------
(* What the cashier is shown                                                *)

TaxOf(s) == [enabled |-> Or(Settings[s].enabled, DefaultTax.enabled),
             rate |-> PageRate(s, DefaultTax.rate)]

\* The tax the page goes by, as long as it was told one store's at most.
TaxKnown ==
    /\ taxFrom = {} => tax = DefaultTax
    /\ \A s \in Stores : taxFrom = {s} => tax = TaxOf(s)

\* A request whose cashier was told the store's tax says what the server will record.
RequestAgrees(r) ==
    r.told =>
        /\ ServerTotal(r) >= 0
        /\ r.shown = Round(ServerTotal(r))
        /\ r.change = Round(AtLeastZero(r.paid - ServerTotal(r)))
        /\ r.shown <= Round(r.paid) + r.charged

ShownInv ==
    /\ TaxKnown
    /\ \A r \in flight : r.state = "sent" => RequestAgrees(r)
    /\ BookedAsShown
-----------------------------------------------------------------------------
(* Counting sales and requests of a cart                                   *)

\* The recorded sales, without what is compared of them.
LEMMA BookedRows ==
    ASSUME ServerTyped
    PROVE  /\ Len(booked) \in Nat /\ DOMAIN booked = 1 .. Len(booked)
           /\ \A i \in DOMAIN booked : booked[i].cart \in Nat
<1>1. PICK B : B = [cart : Nat \ {0}, off : [total : Int, change : Int, open : Int]]
  OBVIOUS
<1>2. booked \in Seq(B)
  BY <1>1 DEF ServerTyped
<1>3. \A b \in B : b.cart \in Nat
  BY <1>1
<1> QED
  BY <1>2, <1>3

\* The numbers of carts are numbers.
LEMMA CartNumbers ==
    ASSUME TillTyped
    PROVE  /\ cartNo \in Nat /\ cartsBegun \in Nat
           /\ \A i \in DOMAIN held : held[i].cart \in Nat
           /\ \A i \in DOMAIN booked : booked[i].cart \in Nat
           /\ \A r \in flight : r.cart \in Nat
<1>1. CartTyped /\ ServerTyped
  BY DEF TillTyped
<1>2. cartNo \in Nat /\ cartsBegun \in Nat
  BY <1>1 DEF CartTyped
<1>3. \A i \in DOMAIN held : held[i].cart \in Nat
  <2>1. held \in Seq(Orders)
    BY <1>1 DEF CartTyped
  <2>2. \A o \in Orders : o.cart \in Nat
    BY DEF Orders
  <2> QED
    BY <2>1, <2>2
<1>4. \A r \in flight : r.cart \in Nat
  BY <1>1 DEF ServerTyped, Request, Answered
<1> QED
  BY <1>1, <1>2, <1>3, <1>4, BookedRows

\* A cart has finitely many sales and requests.
LEMMA CartsFinite ==
    ASSUME ServerTyped, NEW c
    PROVE  /\ IsFiniteSet(SalesOf(c)) /\ Cardinality(SalesOf(c)) \in Nat
           /\ IsFiniteSet(SentOf(c)) /\ Cardinality(SentOf(c)) \in Nat
<1>1. IsFiniteSet(1 .. Len(booked)) /\ SalesOf(c) \subseteq 1 .. Len(booked)
  BY BookedRows, FS_Interval DEF SalesOf
<1>2. SentOf(c) \subseteq flight /\ IsFiniteSet(flight)
  BY DEF ServerTyped, SentOf
<1> QED
  BY <1>1, <1>2, FS_Subset, FS_CardinalityType

\* A step that sends and records nothing keeps the budget when it makes no cart
\* sendable but a new one.
LEMMA BudgetKept ==
    ASSUME TillTyped, CartsInv, UNCHANGED <<booked, lost>>,
           \A c : SentOf(c)' = SentOf(c),
           \A c : Live(c)' /\ ~Awaited(c)' => (Live(c) /\ ~Awaited(c)) \/ c > cartsBegun
    PROVE  SalesBudget'
<1>1. SUFFICES ASSUME NEW c \in DOMAIN lost
               PROVE  Cardinality(SalesOf(c))' + Cardinality(SentOf(c))' + Sendable(c)' <= 1 + lost'[c]
  BY DEF SalesBudget
<1>2. SalesOf(c)' = SalesOf(c) /\ SentOf(c)' = SentOf(c) /\ lost' = lost
  BY DEF SalesOf
<1>3. PICK a, b : /\ a = Cardinality(SalesOf(c)) /\ a \in Nat
                  /\ b = Cardinality(SentOf(c)) /\ b \in Nat
  BY CartsFinite DEF TillTyped
<1>4. Cardinality(SalesOf(c))' = a /\ Cardinality(SentOf(c))' = b
  BY <1>2, <1>3
<1>5. a + b + Sendable(c) <= 1 + lost[c] /\ lost[c] \in Nat
  BY <1>1, <1>3 DEF CartsInv, SalesBudget, TillTyped, ServerTyped
<1>6. Sendable(c) \in {0, 1} /\ Sendable(c)' \in {0, 1}
  BY DEF Sendable
<1>7. CASE c > cartsBegun
  <2>1. /\ \A i \in DOMAIN booked : booked[i].cart <= cartsBegun /\ booked[i].cart \in Nat
        /\ \A r \in flight : r.cart <= cartsBegun /\ r.cart \in Nat
    BY CartNumbers DEF CartsInv, CartsNumbered
  <2>2. cartsBegun \in Nat
    BY DEF TillTyped, CartTyped
  <2>3. ~ (\E i \in DOMAIN booked : booked[i].cart = c) /\ ~ (\E r \in flight : r.cart = c)
    BY <1>7, <2>1, <2>2
  <2>4. SalesOf(c) = {} /\ SentOf(c) = {}
    BY <2>3 DEF SalesOf, SentOf
  <2>5. a = 0 /\ b = 0
    BY <1>3, <2>4, FS_EmptySet
  <2> QED
    BY <1>2, <1>4, <1>5, <1>6, <2>5
<1>8. CASE ~(c > cartsBegun)
  <2>1. Sendable(c)' <= Sendable(c)
    BY <1>6, <1>8 DEF Sendable
  <2> QED
    BY <1>2, <1>3, <1>4, <1>5, <1>6, <2>1
<1> QED
  BY <1>7, <1>8

\* A cart that is held, or empty, is not waited for.
LEMMA FreeToSend ==
    ASSUME TillTyped, CartsInv, NEW c, Live(c), c # cartNo \/ items = Empty
    PROVE  ~Awaited(c)
  BY DEF CartsInv, WaitsForItsCart, Awaited

\* The carts after one was thrown away: the same, or without it and with a new one.
LEMMA ClearedCarts ==
    ASSUME TillTyped, CartsInv, Cleared, booked' = booked, flight' \subseteq flight,
           held' = held \/ held' = <<>>
    PROVE  /\ CartsNumbered'
           /\ \A c : Live(c)' => \/ Live(c) /\ (c # cartNo \/ items = Empty)
                                 \/ c > cartsBegun
           /\ \A c : Live(c)' /\ c <= cartsBegun => Live(c)
<1>1. /\ cartNo \in Nat /\ cartsBegun \in Nat /\ cartNo <= cartsBegun
      /\ \A i \in DOMAIN held : held[i].cart <= cartsBegun /\ held[i].cart # cartNo /\ held[i].cart \in Nat
      /\ \A i, j \in DOMAIN held : held[i].cart = held[j].cart => i = j
      /\ \A i \in DOMAIN booked : booked[i].cart <= cartsBegun /\ booked[i].cart \in Nat
      /\ \A r \in flight : r.cart <= cartsBegun /\ r.cart \in Nat
  BY CartNumbers DEF CartsInv, CartsNumbered
<1>2. DOMAIN held' \subseteq DOMAIN held /\ \A i \in DOMAIN held' : held'[i] = held[i]
  OBVIOUS
<1>3. CASE items = Empty
  <2>1. cartNo' = cartNo /\ cartsBegun' = cartsBegun
    BY <1>3 DEF Cleared
  <2> QED
    BY <1>1, <1>2, <1>3, <2>1 DEF CartsNumbered, Live
<1>4. CASE items # Empty
  <2>1. cartNo' = cartsBegun + 1 /\ cartsBegun' = cartsBegun + 1
    BY <1>4 DEF Cleared
  <2>2. CartsNumbered'
    BY <1>1, <1>2, <2>1 DEF CartsNumbered
  <2> QED
    BY <1>1, <1>2, <2>1, <2>2 DEF Live
<1> QED
  BY <1>3, <1>4

-----------------------------------------------------------------------------
(* The page keeps the budget                                               *)

\* At first there is one cart, and nothing was sent.
LEMMA CartsStart == Init => CartsInv
<1> SUFFICES ASSUME Init PROVE CartsInv
  OBVIOUS
<1>1. CartsNumbered /\ WaitsForItsCart
  BY DEF Init, CartsNumbered, WaitsForItsCart
<1>2. ASSUME NEW c \in DOMAIN lost
      PROVE  Cardinality(SalesOf(c)) + Cardinality(SentOf(c)) + Sendable(c) <= 1 + lost[c]
  <2>1. SalesOf(c) = {} /\ SentOf(c) = {} /\ lost[c] = 0
    BY DEF Init, SalesOf, SentOf
  <2>2. Cardinality(SalesOf(c)) = 0 /\ Cardinality(SentOf(c)) = 0
    BY <2>1, FS_EmptySet
  <2> QED
    BY <2>1, <2>2 DEF Sendable
<1> QED
  BY <1>1, <1>2 DEF CartsInv, SalesBudget

\* What the cashier does to a cart: the page waits for nothing then.
LEMMA EditCarts == ASSUME TillTyped, CartsInv, EditCart PROVE CartsInv'
<1>1. UNCHANGED <<visit, flight, booked, lost>>
  BY DEF EditCart, pageVars, dataVars, baseVars
<1>2. \A r \in flight : ~Awaiting(r)
  BY DEF EditCart, Loading, Awaiting
<1>3. /\ \A r : Awaiting(r)' <=> Awaiting(r)
      /\ \A c : ~Awaited(c) /\ ~Awaited(c)' /\ SentOf(c)' = SentOf(c)
  BY <1>1, <1>2 DEF Awaiting, Awaited, SentOf
<1>4. WaitsForItsCart'
  BY <1>1, <1>2, <1>3 DEF WaitsForItsCart
<1>5. ASSUME UNCHANGED <<held, cartNo, cartsBegun>>
      PROVE  CartsNumbered' /\ \A c : Live(c)' => Live(c)
  BY <1>1, <1>5 DEF CartsInv, CartsNumbered, Live
<1>6. ASSUME RecallOrder
      PROVE  CartsNumbered' /\ \A c : Live(c)' => Live(c)
  <2>1. PICK n : n = Len(held)
    OBVIOUS
  <2>2. held \in Seq(Orders)
    BY DEF TillTyped, CartTyped
  <2>3. n \in Nat \ {0} /\ DOMAIN held = 1 .. n
    BY <1>6, <2>1, <2>2 DEF RecallOrder
  <2>4. DOMAIN held' = 1 .. n - 1 /\ \A i \in 1 .. n - 1 : held'[i] = held[i]
    BY <1>6, <2>1, <2>2, <2>3 DEF RecallOrder
  <2>5. cartNo' = held[n].cart /\ cartsBegun' = cartsBegun
    BY <1>6, <2>1 DEF RecallOrder
  <2>6. /\ \A i \in 1 .. n : held[i].cart <= cartsBegun /\ held[i].cart # cartNo
        /\ \A i, j \in 1 .. n : held[i].cart = held[j].cart => i = j
    BY <2>3 DEF CartsInv, CartsNumbered
  <2>7. /\ cartNo' <= cartsBegun'
        /\ \A i \in DOMAIN held' : held'[i].cart <= cartsBegun' /\ held'[i].cart # cartNo'
        /\ \A i, j \in DOMAIN held' : held'[i].cart = held'[j].cart => i = j
    BY <2>3, <2>4, <2>5, <2>6
  <2>8. CartsNumbered'
    BY <1>1, <2>5, <2>7 DEF CartsInv, CartsNumbered
  <2>9. \A c : Live(c)' => Live(c)
    BY <2>3, <2>4, <2>5 DEF Live
  <2> QED
    BY <2>8, <2>9
<1>7. ASSUME HoldOrder
      PROVE  CartsNumbered' /\ \A c : Live(c)' => Live(c) \/ c > cartsBegun
  <2>1. PICK n, o : n = Len(held) /\ o = [items |-> items, customer |-> customer, cart |-> cartNo]
    OBVIOUS
  <2>2. held \in Seq(Orders)
    BY DEF TillTyped, CartTyped
  <2>3. n \in Nat /\ DOMAIN held = 1 .. n
    BY <2>1, <2>2
  <2>4. held' = Append(held, o) /\ o.cart = cartNo
    BY <1>7, <2>1 DEF HoldOrder
  <2>5. DOMAIN held' = 1 .. n + 1 /\ held'[n + 1] = o /\ \A i \in 1 .. n : held'[i] = held[i]
    BY <2>1, <2>2, <2>3, <2>4
  <2>6. cartNo' = cartsBegun + 1 /\ cartsBegun' = cartsBegun + 1
    BY <1>7 DEF HoldOrder, Cleared
  <2>7. /\ \A i \in 1 .. n : held[i].cart <= cartsBegun /\ held[i].cart # cartNo /\ held[i].cart \in Nat
        /\ \A i, j \in 1 .. n : held[i].cart = held[j].cart => i = j
        /\ cartNo <= cartsBegun /\ cartNo \in Nat /\ cartsBegun \in Nat
    BY <2>3, CartNumbers DEF CartsInv, CartsNumbered
  <2>8. \A i \in 1 .. n + 1 : (i \in 1 .. n /\ held'[i].cart = held[i].cart) \/ (i = n + 1 /\ held'[i].cart = cartNo)
    BY <2>3, <2>4, <2>5
  <2>9. /\ cartNo' <= cartsBegun'
        /\ \A i \in DOMAIN held' : held'[i].cart <= cartsBegun' /\ held'[i].cart # cartNo'
        /\ \A i, j \in DOMAIN held' : held'[i].cart = held'[j].cart => i = j
    BY <2>5, <2>6, <2>7, <2>8
  <2>10. /\ \A i \in DOMAIN booked : booked[i].cart <= cartsBegun'
         /\ \A r \in flight : r.cart <= cartsBegun'
    BY <2>6, <2>7, CartNumbers DEF CartsInv, CartsNumbered
  <2>11. CartsNumbered'
    BY <1>1, <2>9, <2>10 DEF CartsNumbered
  <2>12. \A c : Live(c)' => Live(c) \/ c > cartsBegun
    BY <2>3, <2>5, <2>6, <2>7, <2>8 DEF Live
  <2> QED
    BY <2>11, <2>12
<1>8. ASSUME ClearCart
      PROVE  CartsNumbered' /\ \A c : Live(c)' => Live(c) \/ c > cartsBegun
  BY <1>1, <1>8, ClearedCarts DEF ClearCart
<1>9. CartsNumbered' /\ \A c : Live(c)' => Live(c) \/ c > cartsBegun
  <2>1. CASE UNCHANGED <<held, cartNo, cartsBegun>>
    BY <1>5, <2>1
  <2>2. CASE RecallOrder \/ HoldOrder \/ ClearCart
    BY <1>6, <1>7, <1>8, <2>2
  <2> QED
    BY <2>1, <2>2 DEF EditCart, AddItem, Increment, Decrement, SelectCustomer, ApplyDiscount, RemoveDiscount
<1>10. SalesBudget'
  BY <1>1, <1>3, <1>9, BudgetKept
<1> QED
  BY <1>4, <1>9, <1>10 DEF CartsInv

\* A visit starts with nothing to wait for, and with the cart emptied.
LEMMA VisitCarts ==
    ASSUME TillTyped, CartsInv, NEW s \in Stores, Visit(s) \/ Reload(s)
    PROVE  CartsInv'
<1>1. Cleared /\ visit' = visit + 1 /\ UNCHANGED <<flight, booked, lost>> /\ (held' = held \/ held' = <<>>)
  BY DEF Visit, Reload, OpenPage, dataVars, baseVars
<1>2. \A r \in flight : r.visit <= visit /\ r.visit \in Int /\ visit \in Int
  BY DEF TillTyped, ServerTyped, PageTyped, Request, Answered
<1>3. \A r \in flight : ~Awaiting(r)'
  BY <1>1, <1>2 DEF Awaiting
<1>4. WaitsForItsCart'
  BY <1>1, <1>3 DEF WaitsForItsCart
<1>5. /\ CartsNumbered'
      /\ \A c : Live(c)' => (Live(c) /\ (c # cartNo \/ items = Empty)) \/ c > cartsBegun
  BY <1>1, ClearedCarts
<1>6. \A c : SentOf(c)' = SentOf(c)
  BY <1>1 DEF SentOf
<1>7. SalesBudget'
  BY <1>1, <1>5, <1>6, BudgetKept, FreeToSend
<1> QED
  BY <1>4, <1>5, <1>7 DEF CartsInv

\* The answer about a sale takes the cart from the screen.
LEMMA CompletedCarts ==
    ASSUME TillTyped, CartsInv, NEW r \in flight, Completed(r)
    PROVE  CartsInv'
<1>1. r.state = "booked" /\ flight' = flight \ {r} /\ UNCHANGED <<held, visit, booked, lost>>
  BY DEF Completed, dataVars, baseVars
<1>2. /\ \A q : Awaiting(q)' <=> Awaiting(q)
      /\ \A c : SentOf(c)' = SentOf(c)
  BY <1>1 DEF Awaiting, SentOf
<1>3. CASE Listening(r)
  <2>1. Cleared
    BY <1>3 DEF Completed
  <2>2. /\ CartsNumbered'
        /\ \A c : Live(c)' => (Live(c) /\ (c # cartNo \/ items = Empty)) \/ c > cartsBegun
        /\ \A c : Live(c)' /\ c <= cartsBegun => Live(c)
    BY <1>1, <2>1, ClearedCarts
  <2>3. \A q \in flight : q.cart <= cartsBegun
    BY DEF CartsInv, CartsNumbered
  <2>4. WaitsForItsCart'
    <3>1. SUFFICES ASSUME NEW q \in flight, Awaiting(q) PROVE ~Live(q.cart)'
      BY <1>1, <1>2 DEF WaitsForItsCart
    <3>2. q.cart <= cartsBegun /\ ~(q.cart > cartsBegun)
      <4>1. q.cart \in Nat /\ cartsBegun \in Nat
        BY CartNumbers
      <4> QED
        BY <2>3, <4>1
    <3>3. SUFFICES ASSUME Live(q.cart)' PROVE FALSE
      OBVIOUS
    <3>4. Live(q.cart) /\ (q.cart # cartNo \/ items = Empty)
      BY <2>2, <3>2, <3>3
    <3> QED
      BY <3>1, <3>4, FreeToSend DEF Awaited
  <2>5. \A c : Live(c)' => (Live(c) /\ ~Awaited(c)) \/ c > cartsBegun
    BY <2>2, FreeToSend
  <2>6. SalesBudget'
    BY <1>1, <1>2, <2>5, BudgetKept
  <2> QED
    BY <2>2, <2>4, <2>6 DEF CartsInv
<1>4. CASE ~Listening(r)
  <2>1. UNCHANGED <<items, cartNo, cartsBegun>>
    BY <1>4 DEF Completed
  <2>2. ~Awaiting(r)
    BY <1>4 DEF Awaiting, Listening, TillTyped, PageTyped
  <2>3. \A c : (Live(c)' <=> Live(c)) /\ (Awaited(c)' <=> Awaited(c))
    BY <1>1, <1>2, <2>1, <2>2 DEF Live, Awaited
  <2>4. CartsNumbered' /\ WaitsForItsCart'
    BY <1>1, <1>2, <2>1, <2>3 DEF CartsInv, CartsNumbered, WaitsForItsCart
  <2>5. SalesBudget'
    BY <1>1, <1>2, <2>3, BudgetKept
  <2> QED
    BY <2>4, <2>5 DEF CartsInv
<1> QED
  BY <1>3, <1>4

-----------------------------------------------------------------------------
(* The server keeps it, whatever is lost                                   *)

\* A request that leaves, and one that comes, count as one at most.
LEMMA CountReplaced ==
    ASSUME NEW S, IsFiniteSet(S), NEW x \in S, NEW T
    PROVE  /\ T = S \ {x} => Cardinality(T) = Cardinality(S) - 1 /\ IsFiniteSet(T)
           /\ \A y : T = (S \ {x}) \cup {y} => Cardinality(T) <= Cardinality(S)
<1>1. IsFiniteSet(S \ {x}) /\ Cardinality(S \ {x}) = Cardinality(S) - 1
  BY FS_RemoveElement
<1>2. Cardinality(S) \in Nat /\ Cardinality(S \ {x}) \in Nat
  BY <1>1, FS_CardinalityType
<1>3. ASSUME NEW y PROVE Cardinality((S \ {x}) \cup {y}) <= Cardinality(S)
  <2>1. PICK R : R = S \ {x}
    OBVIOUS
  <2>2. /\ IsFiniteSet(R) /\ Cardinality(R) = Cardinality(S) - 1
        /\ Cardinality(R) \in Nat /\ Cardinality(S) \in Nat
    BY <1>1, <1>2, <2>1
  <2>3. Cardinality(R \cup {y}) = IF y \in R THEN Cardinality(R) ELSE Cardinality(R) + 1
    BY <2>2, FS_AddElement
  <2> QED
    BY <2>1, <2>2, <2>3
<1> QED
  BY <1>1, <1>3

\* The numbers of the carts are still right when an answer or a request for one of
\* them joins the others.
LEMMA NumberedStill ==
    ASSUME CartsNumbered, UNCHANGED <<cartNo, cartsBegun, held>>,
           \A i \in DOMAIN booked' : booked'[i].cart <= cartsBegun,
           \A q \in flight' : q.cart <= cartsBegun
    PROVE  CartsNumbered'
  BY DEF CartsNumbered

\* The till refuses: the cart may be sent again, the request no longer.
LEMMA RefuseCarts ==
    ASSUME TillTyped, CartsInv, NEW r \in flight, Serve(r), Refused(r)
    PROVE  CartsInv'
<1>1. /\ flight' = Reply(r, "refused") /\ r.state = "sent"
      /\ UNCHANGED <<items, held, cartNo, cartsBegun, visit, booked, lost>>
  BY DEF Serve, Refuse, cartVars, pageVars
<1>2. PICK y : y = [visit |-> r.visit, cart |-> r.cart, state |-> "refused"]
  OBVIOUS
<1>3. flight' = (flight \ {r}) \cup {y} /\ y.cart = r.cart /\ y.state = "refused"
  BY <1>1, <1>2 DEF Reply
<1>4. CartsNumbered'
  BY <1>1, <1>3, NumberedStill DEF CartsInv, CartsNumbered
<1>5. /\ \A q : Awaiting(q)' <=> Awaiting(q)
      /\ \A c : Live(c)' <=> Live(c)
      /\ ~Awaiting(y)
  BY <1>1, <1>3 DEF Awaiting, Live
<1>6. WaitsForItsCart'
  BY <1>1, <1>3, <1>5 DEF CartsInv, WaitsForItsCart
<1>7. ASSUME NEW c \in DOMAIN lost
      PROVE  Cardinality(SalesOf(c))' + Cardinality(SentOf(c))' + Sendable(c)' <= 1 + lost'[c]
  <2>1. SalesOf(c)' = SalesOf(c) /\ lost' = lost
    BY <1>1 DEF SalesOf
  <2>2. PICK a, b : /\ a = Cardinality(SalesOf(c)) /\ a \in Nat
                    /\ b = Cardinality(SentOf(c)) /\ b \in Nat
    BY CartsFinite DEF TillTyped
  <2>3. a + b + Sendable(c) <= 1 + lost[c] /\ lost[c] \in Nat
    BY <2>2 DEF CartsInv, SalesBudget, TillTyped, ServerTyped
  <2>4. Sendable(c) \in {0, 1} /\ Sendable(c)' \in {0, 1}
    BY DEF Sendable
  <2>5. CASE c = r.cart
    <3>1. r \in SentOf(c) /\ SentOf(c)' = SentOf(c) \ {r}
      BY <1>1, <1>3, <2>5 DEF SentOf
    <3>2. Cardinality(SentOf(c))' = b - 1
      BY <2>2, <3>1, CartsFinite, CountReplaced DEF TillTyped
    <3> QED
      BY <2>1, <2>2, <2>3, <2>4, <3>2
  <2>6. CASE c # r.cart
    <3>1. SentOf(c)' = SentOf(c)
      BY <1>1, <1>3, <2>6 DEF SentOf
    <3>2. Sendable(c)' = Sendable(c)
      BY <1>3, <1>5, <2>6 DEF Sendable, Awaited
    <3> QED
      BY <2>1, <2>2, <2>3, <3>1, <3>2
  <2> QED
    BY <2>5, <2>6
<1>8. SalesBudget'
  BY <1>1, <1>7 DEF SalesBudget
<1> QED
  BY <1>4, <1>6, <1>8 DEF CartsInv

\* The till records: the sale takes the place of its request.
LEMMA RecordCarts ==
    ASSUME TillTyped, CartsInv, NEW r \in flight, Serve(r), ~Refused(r)
    PROVE  CartsInv'
<1>1. /\ flight' = Reply(r, "booked") /\ r.state = "sent"
      /\ UNCHANGED <<items, held, cartNo, cartsBegun, visit, lost>>
  BY DEF Serve, Record, cartVars, pageVars
<1>2. PICK y : y = [visit |-> r.visit, cart |-> r.cart, state |-> "booked"]
  OBVIOUS
<1>3. /\ flight' = (flight \ {r}) \cup {y}
      /\ y.cart = r.cart /\ y.visit = r.visit /\ y.state = "booked"
  BY <1>1, <1>2 DEF Reply
<1>4. PICK o : booked' = Append(booked, [cart |-> r.cart, off |-> o])
  BY DEF Serve, Record
<1>5. PICK n : n = Len(booked) + 1
  OBVIOUS
<1>6. /\ n \in Nat /\ n \notin DOMAIN booked /\ DOMAIN booked' = DOMAIN booked \cup {n}
      /\ booked'[n].cart = r.cart /\ \A i \in DOMAIN booked : booked'[i] = booked[i]
  <2>1. PICK B, x : B = [cart : Nat \ {0}, off : [total : Int, change : Int, open : Int]]
                    /\ x = [cart |-> r.cart, off |-> o]
    OBVIOUS
  <2>2. booked \in Seq(B)
    BY <2>1 DEF TillTyped, ServerTyped
  <2>3. booked' = Append(booked, x) /\ x.cart = r.cart
    BY <1>4, <2>1
  <2> QED
    BY <1>5, <2>2, <2>3
<1>7. CartsNumbered'
  BY <1>1, <1>3, <1>6, NumberedStill DEF CartsInv, CartsNumbered
<1>8. /\ \A q : Awaiting(q)' <=> Awaiting(q)
      /\ \A c : Live(c)' <=> Live(c)
      /\ Awaiting(y) <=> Awaiting(r)
  BY <1>1, <1>3 DEF Awaiting, Live
<1>9. WaitsForItsCart'
  BY <1>1, <1>3, <1>8 DEF CartsInv, WaitsForItsCart
<1>10. ASSUME NEW c \in DOMAIN lost
       PROVE  Cardinality(SalesOf(c))' + Cardinality(SentOf(c))' + Sendable(c)' <= 1 + lost'[c]
  <2>1. Sendable(c)' = Sendable(c) /\ lost' = lost
    BY <1>1, <1>3, <1>8 DEF Sendable, Awaited
  <2>2. PICK a, b : /\ a = Cardinality(SalesOf(c)) /\ a \in Nat
                    /\ b = Cardinality(SentOf(c)) /\ b \in Nat
    BY CartsFinite DEF TillTyped
  <2>3. a + b + Sendable(c) <= 1 + lost[c]
    BY <2>2 DEF CartsInv, SalesBudget
  <2>4. Sendable(c) \in {0, 1} /\ lost[c] \in Nat
    BY DEF Sendable, TillTyped, ServerTyped
  <2>5. CASE c = r.cart
    <3>1. r \in SentOf(c) /\ SentOf(c)' = SentOf(c) \ {r}
      BY <1>1, <1>3, <2>5 DEF SentOf
    <3>2. Cardinality(SentOf(c))' = b - 1
      BY <2>2, <3>1, CartsFinite, CountReplaced DEF TillTyped
    <3>3. SalesOf(c)' = SalesOf(c) \cup {n} /\ n \notin SalesOf(c)
      BY <1>6, <2>5 DEF SalesOf
    <3>4. Cardinality(SalesOf(c))' = a + 1
      BY <2>2, <3>3, CartsFinite, FS_AddElement DEF TillTyped
    <3> QED
      BY <2>1, <2>2, <2>3, <2>4, <3>2, <3>4
  <2>6. CASE c # r.cart
    <3>1. SentOf(c)' = SentOf(c) /\ SalesOf(c)' = SalesOf(c)
      BY <1>1, <1>3, <1>6, <2>6 DEF SentOf, SalesOf
    <3> QED
      BY <2>1, <2>2, <2>3, <3>1
  <2> QED
    BY <2>5, <2>6
<1>11. SalesBudget'
  BY <1>1, <1>10 DEF SalesBudget
<1> QED
  BY <1>7, <1>9, <1>11 DEF CartsInv

\* The cashier presses the button: the cart is sent, and waited for.
LEMMA CompleteCarts ==
    ASSUME TillTyped, CartsInv, NEW m, NEW a, CompleteSale(m, a)
    PROVE  CartsInv'
<1>1. /\ UNCHANGED <<items, held, cartNo, cartsBegun, visit, booked, lost>>
      /\ items # Empty /\ ~Loading
      /\ flight' = flight \cup {Payload(m, PaidFor(m, a))}
  BY DEF CompleteSale, CanComplete, PaidFor, pageVars, dataVars, baseVars
<1>2. PICK y : y = Payload(m, PaidFor(m, a))
  OBVIOUS
<1>3. y.visit = visit /\ y.cart = cartNo /\ y.state = "sent"
  BY <1>2 DEF Payload
<1>4. \A r \in flight : ~Awaiting(r)
  BY <1>1 DEF Loading, Awaiting
<1>5. /\ \A q : Awaiting(q)' <=> Awaiting(q)
      /\ \A c : Live(c)' <=> Live(c)
      /\ Awaiting(y)
  BY <1>1, <1>3 DEF Awaiting, Live
<1>6. CartsNumbered'
  BY <1>1, <1>2, <1>3, NumberedStill DEF CartsInv, CartsNumbered
<1>7. WaitsForItsCart'
  BY <1>1, <1>2, <1>3, <1>4, <1>5 DEF WaitsForItsCart
<1>8. ASSUME NEW c \in DOMAIN lost
      PROVE  Cardinality(SalesOf(c))' + Cardinality(SentOf(c))' + Sendable(c)' <= 1 + lost'[c]
  <2>1. SalesOf(c)' = SalesOf(c) /\ lost' = lost
    BY <1>1 DEF SalesOf
  <2>2. PICK k, b : /\ k = Cardinality(SalesOf(c)) /\ k \in Nat
                    /\ b = Cardinality(SentOf(c)) /\ b \in Nat
    BY CartsFinite DEF TillTyped
  <2>3. k + b + Sendable(c) <= 1 + lost[c] /\ lost[c] \in Nat
    BY <2>2 DEF CartsInv, SalesBudget, TillTyped, ServerTyped
  <2>4. CASE c = cartNo
    <3>1. Sendable(c) = 1 /\ Sendable(c)' = 0
      BY <1>1, <1>2, <1>3, <1>4, <1>5, <2>4 DEF Sendable, Awaited, Live
    <3>2. SentOf(c)' = SentOf(c) \cup {y}
      BY <1>1, <1>2, <1>3, <2>4 DEF SentOf
    <3>3. Cardinality(SentOf(c))' \in {b, b + 1}
      BY <2>2, <3>2, CartsFinite, FS_AddElement DEF TillTyped
    <3> QED
      BY <2>1, <2>2, <2>3, <3>1, <3>3
  <2>5. CASE c # cartNo
    <3>1. Sendable(c)' = Sendable(c) /\ SentOf(c)' = SentOf(c)
      BY <1>1, <1>2, <1>3, <1>5, <2>5 DEF Sendable, Awaited, SentOf
    <3> QED
      BY <2>1, <2>2, <2>3, <3>1
  <2> QED
    BY <2>4, <2>5
<1>9. SalesBudget'
  BY <1>1, <1>8 DEF SalesBudget
<1> QED
  BY <1>6, <1>7, <1>9 DEF CartsInv

\* An answer that does not come: the cashier may send the cart again, and the
\* request may still be carried out.
LEMMA LostCarts ==
    ASSUME TillTyped, CartsInv, NEW r \in flight, Lost(r)
    PROVE  CartsInv'
<1>1. /\ UNCHANGED <<items, held, cartNo, cartsBegun, visit, booked>>
      /\ lost' = [lost EXCEPT ![r.cart] = @ + 1]
  BY DEF Lost, cartVars, pageVars, dataVars, baseVars
<1>2. PICK y : y = [r EXCEPT !.visit = -events]
  OBVIOUS
<1>3. \/ flight' = flight \ {r}
      \/ r.state = "sent" /\ flight' = (flight \ {r}) \cup {y}
  BY <1>2 DEF Lost
<1>4. r.state = "sent" => y.cart = r.cart /\ y.state = "sent" /\ y.visit = -events
  <2>1. SUFFICES ASSUME r.state = "sent" PROVE y.cart = r.cart /\ y.state = "sent" /\ y.visit = -events
    OBVIOUS
  <2>2. r \in Request
    BY <2>1 DEF TillTyped, ServerTyped, Answered
  <2> QED
    BY <1>2, <2>2 DEF Request
<1>5. r.state = "sent" => ~Awaiting(y)
  <2>1. events \in Nat /\ visit \in Nat \ {0}
    BY DEF TillTyped, ServerTyped, PageTyped
  <2> QED
    BY <1>4, <2>1 DEF Awaiting
<1>6. /\ \A q : Awaiting(q)' <=> Awaiting(q)
      /\ \A c : Live(c)' <=> Live(c)
  BY <1>1 DEF Awaiting, Live
<1>7. CartsNumbered'
  BY <1>1, <1>3, <1>4, NumberedStill DEF CartsInv, CartsNumbered
<1>8. WaitsForItsCart'
  BY <1>1, <1>3, <1>5, <1>6 DEF CartsInv, WaitsForItsCart
<1>9. ASSUME NEW c \in DOMAIN lost
      PROVE  Cardinality(SalesOf(c))' + Cardinality(SentOf(c))' + Sendable(c)' <= 1 + lost'[c]
  <2>1. SalesOf(c)' = SalesOf(c)
    BY <1>1 DEF SalesOf
  <2>2. PICK a, b : /\ a = Cardinality(SalesOf(c)) /\ a \in Nat
                    /\ b = Cardinality(SentOf(c)) /\ b \in Nat
    BY CartsFinite DEF TillTyped
  <2>3. a + b + Sendable(c) <= 1 + lost[c] /\ lost[c] \in Nat
    BY <2>2 DEF CartsInv, SalesBudget, TillTyped, ServerTyped
  <2>4. Sendable(c) \in {0, 1} /\ Sendable(c)' \in {0, 1}
    BY DEF Sendable
  <2>5. CASE c = r.cart
    <3>1. lost'[c] = lost[c] + 1
      BY <1>1, <2>5
    <3>2. Cardinality(SentOf(c))' \in Nat /\ Cardinality(SentOf(c))' <= b
      <4>1. CASE r.state = "sent"
        <5>1. r \in SentOf(c)
          BY <2>5, <4>1 DEF SentOf
        <5>2. SentOf(c)' = SentOf(c) \ {r} \/ SentOf(c)' = (SentOf(c) \ {r}) \cup {y}
          BY <1>3, <1>4, <2>5, <4>1 DEF SentOf
        <5>3. PICK S, T : S = SentOf(c) /\ T = SentOf(c)'
          OBVIOUS
        <5>4. IsFiniteSet(S) /\ IsFiniteSet(S \ {r})
          BY <5>3, CartsFinite, FS_RemoveElement DEF TillTyped
        <5>5. IsFiniteSet(T)
          <6>1. CASE T = S \ {r}
            BY <5>4, <6>1
          <6>2. CASE T = (S \ {r}) \cup {y}
            <7>1. PICK R : R = S \ {r}
              OBVIOUS
            <7> QED
              BY <5>4, <6>2, <7>1, FS_AddElement
          <6> QED
            BY <5>2, <5>3, <6>1, <6>2
        <5>6. Cardinality(T) \in Nat /\ Cardinality(T) <= Cardinality(S)
          BY <5>1, <5>2, <5>3, <5>4, <5>5, CountReplaced, FS_CardinalityType
        <5> QED
          BY <2>2, <5>3, <5>6
      <4>2. CASE r.state # "sent"
        <5>1. SentOf(c)' = SentOf(c)
          BY <1>3, <4>2 DEF SentOf
        <5> QED
          BY <2>2, <5>1
      <4> QED
        BY <4>1, <4>2
    <3> QED
      BY <2>1, <2>2, <2>3, <2>4, <3>1, <3>2
  <2>6. CASE c # r.cart
    <3>1. lost'[c] = lost[c]
      BY <1>1, <2>6
    <3>2. SentOf(c)' = SentOf(c)
      BY <1>3, <1>4, <2>6 DEF SentOf
    <3>3. Sendable(c)' = Sendable(c)
      BY <1>3, <1>4, <1>6, <2>6 DEF Sendable, Awaited
    <3> QED
      BY <2>1, <2>2, <2>3, <3>1, <3>2, <3>3
  <2> QED
    BY <2>5, <2>6
<1>10. SalesBudget'
  BY <1>1, <1>9 DEF SalesBudget
<1> QED
  BY <1>7, <1>8, <1>10 DEF CartsInv

\* What moves no cart, request or sale.
LEMMA CartsSame ==
    ASSUME CartsInv,
           UNCHANGED <<items, held, cartNo, cartsBegun, visit, flight, booked, lost>>
    PROVE  CartsInv'
  BY DEF CartsInv, CartsNumbered, WaitsForItsCart, SalesBudget, SalesOf, SentOf, Sendable, Live,
         Awaited, Awaiting

\* A refusal was counted when it was given.
LEMMA FailedCarts ==
    ASSUME TillTyped, CartsInv, NEW r \in flight, Failed(r)
    PROVE  CartsInv'
<1>1. /\ flight' = flight \ {r} /\ r.state = "refused"
      /\ UNCHANGED <<items, held, cartNo, cartsBegun, visit, booked, lost>>
  BY DEF Failed, cartVars, pageVars, dataVars, baseVars
<1>2. /\ \A q : Awaiting(q)' <=> Awaiting(q)
      /\ \A c : SentOf(c)' = SentOf(c) /\ (Live(c)' <=> Live(c))
      /\ ~Awaiting(r)
  BY <1>1 DEF Awaiting, SentOf, Live
<1>3. \A c : Awaited(c)' <=> Awaited(c)
  BY <1>1, <1>2 DEF Awaited
<1>4. CartsNumbered' /\ WaitsForItsCart'
  BY <1>1, <1>2 DEF CartsInv, CartsNumbered, WaitsForItsCart
<1>5. SalesBudget'
  BY <1>1, <1>2, <1>3, BudgetKept
<1> QED
  BY <1>4, <1>5 DEF CartsInv

\* Every step keeps the budget of every cart.
LEMMA CartsStep == ASSUME TillTyped, CartsInv, [Next]_vars PROVE CartsInv'
<1>1. CASE UNCHANGED vars \/ LoadProducts \/ LoadStore \/ Elsewhere
  BY <1>1, CartsSame DEF vars, LoadProducts, LoadStore, Elsewhere, cartVars, pageVars, dataVars, baseVars
<1>2. ASSUME NEW r \in flight, Serve(r) \/ Completed(r) \/ Failed(r) \/ Lost(r) PROVE CartsInv'
  BY <1>2, RefuseCarts, RecordCarts, CompletedCarts, FailedCarts, LostCarts
<1>3. CASE Next
  BY <1>1, <1>2, <1>3, VisitCarts, EditCarts, CompleteCarts DEF Next, Answer
<1> QED
  BY <1>1, <1>3

\* The budget bounds the sales.
LEMMA CartsOnce == ASSUME TillTyped, CartsInv PROVE SoldTwiceOnlyIfLost
<1>1. SUFFICES ASSUME NEW c \in DOMAIN lost PROVE Cardinality(SalesOf(c)) <= 1 + lost[c]
  BY DEF SoldTwiceOnlyIfLost, SalesOf
<1>2. PICK a, b : /\ a = Cardinality(SalesOf(c)) /\ a \in Nat
                  /\ b = Cardinality(SentOf(c)) /\ b \in Nat
  BY CartsFinite DEF TillTyped
<1>3. a + b + Sendable(c) <= 1 + lost[c] /\ lost[c] \in Nat
  BY <1>2 DEF CartsInv, SalesBudget, TillTyped, ServerTyped
<1>4. Sendable(c) \in {0, 1}
  BY DEF Sendable
<1> QED
  BY <1>2, <1>3, <1>4

\* A cart is recorded at most once more than answers about it were lost: whatever is
\* held and recalled, from whichever visit the answer comes (pos.ts completeSale).
THEOREM CartSoldOnce == Spec => []SoldTwiceOnlyIfLost
<1>1. TillTyped /\ CartsInv /\ [Next]_vars => TillTyped' /\ CartsInv'
  BY TillStep, CartsStep
<1>2. TillTyped /\ CartsInv => SoldTwiceOnlyIfLost
  BY CartsOnce
<1> QED
  BY <1>1, <1>2, TillStart, CartsStart, PTL DEF Spec

-----------------------------------------------------------------------------
(* What is seen stays within the cart                                      *)

\* A line that was seen stays seen while the stock and the grid show less.
LEMMA LessIsSeen ==
    ASSUME NEW p \in Products, NEW l, l.qty \in Nat, l.stock \in Nat, LineSeen(p, l),
           shown[p] \in Nat, shown'[p] \in Nat, stock[p] \in Nat, stock'[p] \in Nat,
           stock'[p] <= stock[p],
           shown'[p] = shown[p] \/ shown'[p] = 0 \/ shown'[p] = stock[p]
    PROVE  LineSeen(p, l)'
  BY DEF LineSeen

\* The lines of the carts.
LEMMA LinesTyped ==
    ASSUME TillTyped
    PROVE  /\ \A p \in DOMAIN items : p \in Products /\ items[p] \in Line
           /\ \A i \in DOMAIN held : \A p \in DOMAIN held[i].items :
                 p \in Products /\ held[i].items[p] \in Line
<1>1. items \in Carts /\ held \in Seq(Orders)
  BY DEF TillTyped, CartTyped
<1>2. \A o \in Orders : o.items \in Carts
  BY DEF Orders
<1>3. \A i \in DOMAIN held : held[i].items \in Carts
  BY <1>1, <1>2
<1> QED
  BY <1>1, <1>3, InCarts

\* Stock and grid fall, the carts stay: what is known stays known.
LEMMA SeenStays ==
    ASSUME TillTyped, TillTyped', StockSeen,
           items' = items \/ items' = Empty,
           held' = held \/ held' = <<>>,
           \A p \in Products : stock'[p] <= stock[p],
           \A p \in Products : shown'[p] = shown[p] \/ shown'[p] = 0 \/ shown'[p] = stock[p]
    PROVE  StockSeen'
<1>1. /\ \A p \in Products : shown[p] \in Nat /\ stock[p] \in Nat
      /\ \A p \in Products : shown'[p] \in Nat /\ stock'[p] \in Nat
  BY DEF TillTyped, PageTyped, ServerTyped
<1>2. \A p \in Products : shown'[p] = 0 \/ stock'[p] <= shown'[p]
  BY <1>1 DEF StockSeen
<1>3. ASSUME NEW p \in DOMAIN items' PROVE LineSeen(p, items[p])' /\ items' = items
  <2>1. items' = items
    BY <1>3, EmptyIsCart
  <2>2. p \in Products /\ items[p].qty \in Nat /\ items[p].stock \in Nat
    BY <1>3, <2>1, LinesTyped DEF Line
  <2>3. LineSeen(p, items[p])
    BY <1>3, <2>1 DEF StockSeen
  <2>4. PICK l : l = items[p]
    OBVIOUS
  <2>5. LineSeen(p, l)'
    BY <1>1, <2>2, <2>3, <2>4, LessIsSeen
  <2> QED
    BY <2>1, <2>4, <2>5 DEF LineSeen
<1>4. ASSUME NEW i \in DOMAIN held', NEW p \in DOMAIN held'[i].items
      PROVE  LineSeen(p, held[i].items[p])'
  <2>1. held' = held
    BY <1>4
  <2>2. /\ p \in Products
        /\ held[i].items[p].qty \in Nat /\ held[i].items[p].stock \in Nat
    BY <1>4, <2>1, LinesTyped DEF Line
  <2>3. LineSeen(p, held[i].items[p])
    BY <1>4, <2>1 DEF StockSeen
  <2>4. PICK l : l = held[i].items[p]
    OBVIOUS
  <2>5. LineSeen(p, l)'
    BY <1>1, <2>2, <2>3, <2>4, LessIsSeen
  <2> QED
    BY <2>1, <2>4, <2>5 DEF LineSeen
<1> QED
  BY <1>2, <1>3, <1>4 DEF StockSeen

\* A line that is made, or changed, from what is seen.
LEMMA SetQtySeen ==
    ASSUME TillTyped, StockSeen, NEW p \in Products, NEW n \in Nat, NEW s \in Nat,
           SetQty(p, n, s), n <= s, shown[p] <= s, stock[p] <= s, UNCHANGED <<held, shown, stock>>
    PROVE  StockSeen'
<1>1. /\ DOMAIN items' = DOMAIN items \cup {p}
      /\ items'[p] = [qty |-> n, stock |-> s]
      /\ \A q \in DOMAIN items \ {p} : items'[q] = items[q]
  BY DEF SetQty
<1>2. \A q \in DOMAIN items' : LineSeen(q, items'[q])
  BY <1>1 DEF StockSeen, LineSeen
<1>3. \A q \in DOMAIN items' : LineSeen(q, items[q])'
  BY <1>2 DEF LineSeen
<1>4. \A i \in DOMAIN held : \A q \in DOMAIN held[i].items : LineSeen(q, held[i].items[q])'
  BY DEF StockSeen, LineSeen
<1> QED
  BY <1>3, <1>4 DEF StockSeen

\* What the cashier does to the cart stays within what was seen.
LEMMA EditSeen == ASSUME TillTyped, KnownInv, EditCart PROVE KnownInv'
<1>1. /\ UNCHANGED <<shown, stock, flight, refused>> /\ StockSeen
      /\ \A p \in Products : shown[p] \in Nat /\ stock[p] \in Nat
      /\ \A p \in Products : shown[p] = 0 \/ stock[p] <= shown[p]
  BY DEF EditCart, pageVars, dataVars, baseVars, KnownInv, StockSeen, TillTyped, PageTyped, ServerTyped
<1>2. TillTyped'
  BY EditTyped
<1>3. ASSUME NEW p \in Products, AddItem(p) PROVE StockSeen'
  <2>1. CASE InCart(p)
    <3>1. items[p] \in Line /\ LineSeen(p, items[p])
      BY <1>1, <2>1, LinesTyped DEF InCart, StockSeen
    <3>2. PICK n, s : n = items[p].qty + 1 /\ s = items[p].stock
      OBVIOUS
    <3>3. n \in Nat /\ s \in Nat /\ SetQty(p, n, s) /\ shown[p] >= n
      BY <1>1, <1>3, <2>1, <3>1, <3>2 DEF AddItem, Line
    <3>4. shown[p] <= s /\ stock[p] <= s /\ n <= s
      BY <1>1, <3>1, <3>2, <3>3 DEF LineSeen
    <3> QED
      BY <1>1, <1>3, <3>3, <3>4, SetQtySeen DEF AddItem
  <2>2. CASE ~InCart(p)
    <3>1. SetQty(p, 1, shown[p]) /\ shown[p] > 0
      BY <1>3, <2>2 DEF AddItem
    <3>2. stock[p] <= shown[p] /\ 1 <= shown[p] /\ shown[p] <= shown[p]
      BY <1>1, <3>1
    <3> QED
      BY <1>1, <1>3, <3>1, <3>2, SetQtySeen DEF AddItem
  <2> QED
    BY <2>1, <2>2
<1>4. ASSUME NEW p \in Products, Increment(p) PROVE StockSeen'
  <2>1. items[p] \in Line /\ LineSeen(p, items[p])
    BY <1>1, <1>4, LinesTyped DEF InCart, Increment, StockSeen
  <2>2. PICK n, s : n = items[p].qty + 1 /\ s = items[p].stock
    OBVIOUS
  <2>3. n \in Nat /\ s \in Nat /\ SetQty(p, n, s) /\ n <= s
    BY <1>4, <2>1, <2>2 DEF Increment, Line
  <2>4. shown[p] <= s /\ stock[p] <= s
    BY <2>1, <2>2 DEF LineSeen
  <2> QED
    BY <1>1, <1>4, <2>3, <2>4, SetQtySeen DEF Increment
<1>5. ASSUME NEW p \in Products, Decrement(p) PROVE StockSeen'
  <2>1. items[p] \in Line /\ LineSeen(p, items[p]) /\ held' = held
    BY <1>1, <1>5, LinesTyped DEF InCart, Decrement, StockSeen
  <2>2. CASE items[p].qty = 1
    <3>1. Drop(p)
      BY <1>5, <2>2 DEF Decrement
    <3>2. DOMAIN items' \subseteq DOMAIN items /\ \A q \in DOMAIN items' : items'[q] = items[q]
      BY <3>1 DEF Drop
    <3>3. \A q \in DOMAIN items' : LineSeen(q, items[q])'
      BY <1>1, <3>2 DEF StockSeen, LineSeen
    <3>4. \A i \in DOMAIN held : \A q \in DOMAIN held[i].items : LineSeen(q, held[i].items[q])'
      BY <1>1, <2>1 DEF StockSeen, LineSeen
    <3> QED
      BY <1>1, <2>1, <3>3, <3>4 DEF StockSeen
  <2>3. CASE items[p].qty # 1
    <3>1. PICK n, s : n = items[p].qty - 1 /\ s = items[p].stock
      OBVIOUS
    <3>2. n \in Nat /\ s \in Nat /\ SetQty(p, n, s) /\ n <= s /\ shown[p] <= s /\ stock[p] <= s
      <4>1. items[p].qty \in Nat \ {0} /\ items[p].stock \in Nat
        BY <2>1 DEF Line
      <4> QED
        BY <1>1, <1>5, <2>1, <2>3, <3>1, <4>1 DEF Decrement, LineSeen
    <3> QED
      BY <1>1, <2>1, <3>2, SetQtySeen
  <2> QED
    BY <2>2, <2>3
<1>6. ASSUME UNCHANGED <<items, held>> PROVE StockSeen'
  BY <1>1, <1>2, <1>6, SeenStays DEF TillTyped
<1>7. ASSUME RecallOrder PROVE StockSeen'
  <2>1. PICK n : n = Len(held)
    OBVIOUS
  <2>2. held \in Seq(Orders)
    BY DEF TillTyped, CartTyped
  <2>3. n \in Nat \ {0} /\ DOMAIN held = 1 .. n
    BY <1>7, <2>1, <2>2 DEF RecallOrder
  <2>4. DOMAIN held' = 1 .. n - 1 /\ \A i \in 1 .. n - 1 : held'[i] = held[i] /\ i \in 1 .. n
    BY <1>7, <2>1, <2>2, <2>3 DEF RecallOrder
  <2>5. items' = held[n].items /\ n \in 1 .. n
    BY <1>7, <2>1, <2>3 DEF RecallOrder
  <2>6. \A i \in DOMAIN held : \A p \in DOMAIN held[i].items : LineSeen(p, held[i].items[p])
    BY <1>1 DEF StockSeen
  <2>7. \A i \in 1 .. n : \A p \in DOMAIN held[i].items :
           /\ held[i].items[p].qty <= held[i].items[p].stock
           /\ shown[p] <= held[i].items[p].stock
           /\ stock[p] <= held[i].items[p].stock
    BY <2>3, <2>6 DEF LineSeen
  <2>8. \A p \in DOMAIN items' : LineSeen(p, items[p])'
    BY <1>1, <2>5, <2>7 DEF LineSeen
  <2>9. \A i \in DOMAIN held' : \A p \in DOMAIN held'[i].items : LineSeen(p, held[i].items[p])'
    BY <1>1, <2>4, <2>7 DEF LineSeen
  <2> QED
    BY <1>1, <2>8, <2>9 DEF StockSeen
<1>8. ASSUME HoldOrder PROVE StockSeen'
  <2>1. PICK n, o : n = Len(held) /\ o = [items |-> items, customer |-> customer, cart |-> cartNo]
    OBVIOUS
  <2>2. held \in Seq(Orders)
    BY DEF TillTyped, CartTyped
  <2>3. n \in Nat /\ DOMAIN held = 1 .. n /\ held' = Append(held, o) /\ o.items = items
    BY <1>8, <2>1, <2>2 DEF HoldOrder
  <2>4. DOMAIN held' = 1 .. n + 1 /\ held'[n + 1] = o /\ \A i \in 1 .. n : held'[i] = held[i]
    BY <2>1, <2>2, <2>3
  <2>5. \A p \in DOMAIN items :
           /\ items[p].qty <= items[p].stock
           /\ shown[p] <= items[p].stock
           /\ stock[p] <= items[p].stock
    BY <1>1 DEF StockSeen, LineSeen
  <2>6. \A i \in 1 .. n : \A p \in DOMAIN held[i].items :
           /\ held[i].items[p].qty <= held[i].items[p].stock
           /\ shown[p] <= held[i].items[p].stock
           /\ stock[p] <= held[i].items[p].stock
    BY <1>1, <2>3 DEF StockSeen, LineSeen
  <2>7. \A i \in 1 .. n + 1 : i \in 1 .. n \/ i = n + 1
    BY <2>3
  <2>8. \A i \in DOMAIN held' : \A p \in DOMAIN held'[i].items :
           /\ held'[i].items[p].qty <= held'[i].items[p].stock
           /\ shown[p] <= held'[i].items[p].stock
           /\ stock[p] <= held'[i].items[p].stock
    BY <2>3, <2>4, <2>5, <2>6, <2>7
  <2>9. DOMAIN items' = {}
    BY <1>8, EmptyIsCart DEF HoldOrder, Cleared
  <2> QED
    BY <1>1, <2>8, <2>9 DEF StockSeen, LineSeen
<1>9. ASSUME ClearCart PROVE StockSeen'
  BY <1>1, <1>2, <1>9, SeenStays DEF ClearCart, Cleared, TillTyped
<1>10. StockSeen'
  <2>1. CASE UNCHANGED <<items, held>>
    BY <1>6, <2>1
  <2>2. CASE ~UNCHANGED <<items, held>>
    BY <1>3, <1>4, <1>5, <1>7, <1>8, <1>9, <2>2
       DEF EditCart, SelectCustomer, ApplyDiscount, RemoveDiscount
  <2> QED
    BY <2>1, <2>2
<1> QED
  BY <1>1, <1>10 DEF KnownInv, RequestSeen, PayableIsAccepted

-----------------------------------------------------------------------------
(* What is sent is within what was seen                                    *)

\* At first nothing is known or asked.
LEMMA KnownStart == Init => KnownInv
  BY EmptyIsCart DEF Init, KnownInv, StockSeen, PayableIsAccepted, Empties

\* Rounding does not lift what is owed above a whole limit.
LEMMA RoundWithin ==
    ASSUME NEW n \in Nat, NEW c \in Nat, n <= Unit * c
    PROVE  Round(n) <= c
<1>1. n + 5000 < 10000 * (c + 1)
  BY DEF Unit
<1>2. (n + 5000) \div 10000 <= c
  BY <1>1
<1> QED
  BY <1>2 DEF Round, Unit

\* What the dialog lets pass is within the credit that was seen.
LEMMA CreditSeenHolds ==
    ASSUME TillTyped, NEW m \in Methods, NEW a \in Amounts, CanComplete(m, PaidFor(m, a)),
           m \in OnCredit, Round(Total) > 0
    PROVE  customer # NoCustomer /\ Round(CreditAmount(m, PaidFor(m, a))) <= customer
<1>1. CartTyped /\ Total \in Nat /\ customer \in Credits
  BY TotalNat DEF TillTyped, CartTyped
<1>2. PICK n, k : n = PaidFor(m, a) /\ k = CreditAmount(m, n) /\ n \in Nat /\ k \in Nat
  BY <1>1, PaidTyped
<1>3. ~CreditExceeded(m, n)
  BY <1>2 DEF CanComplete, OnCredit
<1>4. k <= Unit * IF customer = NoCustomer THEN 0 ELSE customer
  BY <1>1, <1>2, <1>3 DEF CreditExceeded, Credits, NoCustomer, Unit
<1>5. Total > 0
  <2>1. Round(0) = 0
    BY DEF Round, Unit
  <2> QED
    BY <1>1, <2>1
<1>6. k > 0
  <2>1. CASE m = "credit"
    BY <1>2, <1>5, <2>1 DEF CreditAmount
  <2>2. CASE m = "partial"
    <3>1. n < Total
      BY <1>2, <2>2 DEF CanComplete
    <3>2. k = AtLeastZero(Total - n)
      BY <1>2, <2>2 DEF CreditAmount
    <3> QED
      BY <1>1, <1>2, <3>1, <3>2 DEF AtLeastZero
  <2> QED
    BY <2>1, <2>2 DEF OnCredit
<1>7. customer # NoCustomer
  BY <1>2, <1>4, <1>6 DEF Unit
<1>8. customer \in Nat /\ k <= Unit * customer
  BY <1>1, <1>4, <1>7 DEF Credits
<1> QED
  BY <1>2, <1>7, <1>8, RoundWithin

\* A request is made of what the page knows.
LEMMA CompleteSeen ==
    ASSUME TillTyped, KnownInv, NEW m \in Methods, NEW a \in Amounts, CompleteSale(m, a)
    PROVE  KnownInv'
<1>1. /\ UNCHANGED <<items, held, shown, stock, refused>>
      /\ flight' = flight \cup {Payload(m, PaidFor(m, a))}
      /\ CanComplete(m, PaidFor(m, a))
  BY DEF CompleteSale, PaidFor, pageVars, dataVars, baseVars
<1>2. PICK n : n = PaidFor(m, a) /\ n \in Nat /\ CreditAmount(m, n) \in Nat
  BY PaidTyped DEF TillTyped
<1>3. PICK r : r = Payload(m, n)
  OBVIOUS
<1>4. /\ DOMAIN r.lines = DOMAIN items /\ DOMAIN r.seen = DOMAIN items
      /\ \A p \in DOMAIN items : r.lines[p] = items[p].qty /\ r.seen[p] = items[p].stock
  BY <1>2, <1>3, PayloadParts
<1>5. r.method = m /\ r.shown = Round(Total) /\ r.creditSeen = customer /\ r.charged = Round(CreditAmount(m, n))
  BY <1>3 DEF Payload
<1>6. RequestSeen(r)
  <2>1. \A p \in DOMAIN items : items[p].qty <= items[p].stock
    BY DEF KnownInv, StockSeen, LineSeen
  <2>2. r.method \in OnCredit /\ r.shown > 0 => r.creditSeen # NoCustomer /\ r.charged <= r.creditSeen
    BY <1>1, <1>2, <1>5, CreditSeenHolds
  <2> QED
    BY <1>4, <2>1, <2>2 DEF RequestSeen
<1>7. \A q \in flight' : q.state = "sent" => RequestSeen(q)
  BY <1>1, <1>2, <1>3, <1>6 DEF KnownInv
<1>8. StockSeen' /\ PayableIsAccepted'
  BY <1>1 DEF KnownInv, StockSeen, LineSeen, PayableIsAccepted
<1> QED
  BY <1>7, <1>8 DEF KnownInv, RequestSeen

\* The server: what it refuses although nothing changed is an amount that is no money.
LEMMA ServeSeen ==
    ASSUME TillTyped, KnownInv, NEW r \in flight, Serve(r)
    PROVE  KnownInv'
<1>1. UNCHANGED <<items, held, shown>> /\ r.state = "sent"
  BY DEF Serve, cartVars, pageVars
<1>2. TillTyped'
  BY ServeTyped
<1>3. r \in Request /\ RequestSeen(r)
  BY <1>1 DEF TillTyped, ServerTyped, Answered, KnownInv
<1>4. /\ r.lines \in Quantities /\ r.charged \in Nat /\ r.shown \in Nat /\ r.creditSeen \in Credits
      /\ \A p \in DOMAIN r.lines : p \in Products /\ r.lines[p] \in Nat
      /\ credit \in Nat /\ \A p \in Products : stock[p] \in Nat
  BY <1>3, InQuantities DEF Request, TillTyped, ServerTyped
<1>5. /\ \A p \in Products : stock'[p] <= stock[p]
      /\ \E s \in {"booked", "refused"} : flight' = Reply(r, s)
  <2>1. CASE Refused(r)
    BY <1>1, <1>4, <2>1 DEF Serve, Refuse, baseVars
  <2>2. CASE ~Refused(r)
    BY <1>1, <1>4, <2>2 DEF Serve, Record
  <2> QED
    BY <2>1, <2>2
<1>6. \A q \in flight' : q.state = "sent" => RequestSeen(q)
  BY <1>5 DEF Reply, KnownInv
<1>7. PayableIsAccepted'
  <2>1. CASE UNCHANGED refused
    BY <2>1 DEF KnownInv, PayableIsAccepted
  <2>2. CASE refused' # refused
    <3>1. Refused(r) /\ Current(r) /\ r.shown > 0
      BY <2>2 DEF Serve, Refuse, Record
    <3>2. refused' = refused \cup {[method |-> r.method, amounts |-> TwoDecimals(r.paid)]}
      BY <2>2, <3>1 DEF Serve, Refuse
    <3>3. ASSUME NEW p \in DOMAIN r.lines
          PROVE  HasProduct(r.store, p) /\ ~(stock[p] < r.lines[p]) /\ ~(batches[p] < r.lines[p])
      <4>1. /\ HasProduct(r.store, p) /\ r.seen[p] = stock[p] /\ stock[p] = batches[p]
            /\ r.lines[p] <= r.seen[p] /\ stock[p] \in Nat /\ r.lines[p] \in Nat
        BY <1>3, <1>4, <3>1 DEF Current, RequestSeen
      <4> QED
        BY <4>1
    <3>4. /\ r.creditSeen = NoCustomer \/ HasCustomer(r.store)
          /\ ~ (r.method \in OnCredit /\ (r.creditSeen = NoCustomer \/ r.charged > credit))
      BY <1>3, <1>4, <3>1 DEF Current, RequestSeen
    <3>5. ~TwoDecimals(r.paid)
      BY <3>1, <3>3, <3>4 DEF Refused
    <3> QED
      BY <3>2, <3>5 DEF KnownInv, PayableIsAccepted
  <2> QED
    BY <2>1, <2>2
<1>8. StockSeen'
  BY <1>1, <1>2, <1>5, SeenStays DEF KnownInv
<1> QED
  BY <1>6, <1>7, <1>8 DEF KnownInv, RequestSeen

\* What else happens: nothing is asked, the grid and the stock fall.
LEMMA RestSeen ==
    ASSUME TillTyped, TillTyped', KnownInv, refused' = refused,
           \A q \in flight' : q.state = "sent" => RequestSeen(q),
           items' = items \/ items' = Empty,
           held' = held \/ held' = <<>>,
           \A p \in Products : stock'[p] <= stock[p],
           \A p \in Products : shown'[p] = shown[p] \/ shown'[p] = 0 \/ shown'[p] = stock[p]
    PROVE  KnownInv'
<1>1. StockSeen'
  BY SeenStays DEF KnownInv
<1> QED
  BY <1>1 DEF KnownInv, RequestSeen, PayableIsAccepted

\* A request that is still on its way says what it said.
LEMMA LostSeen ==
    ASSUME TillTyped, KnownInv, NEW r \in flight, Lost(r)
    PROVE  \A q \in flight' : q.state = "sent" => RequestSeen(q)
<1>1. PICK y : y = [r EXCEPT !.visit = -events]
  OBVIOUS
<1>2. r.state = "sent" => RequestSeen(y)
  <2>1. SUFFICES ASSUME r.state = "sent" PROVE RequestSeen(y)
    OBVIOUS
  <2>2. r \in Request /\ RequestSeen(r)
    BY <2>1 DEF TillTyped, ServerTyped, Answered, KnownInv
  <2>3. /\ y.seen = r.seen /\ y.lines = r.lines /\ y.method = r.method /\ y.shown = r.shown
        /\ y.charged = r.charged /\ y.creditSeen = r.creditSeen
    BY <1>1, <2>2 DEF Request
  <2> QED
    BY <2>2, <2>3 DEF RequestSeen
<1>3. flight' = flight \ {r} \/ (r.state = "sent" /\ flight' = (flight \ {r}) \cup {y})
  BY <1>1 DEF Lost
<1> QED
  BY <1>2, <1>3 DEF KnownInv

\* Every step keeps what the page knows true.
LEMMA KnownStep == ASSUME TillTyped, KnownInv, [Next]_vars PROVE KnownInv'
<1>1. TillTyped'
  BY TillStep
<1>2. \A p \in Products : stock[p] \in Nat /\ shown[p] \in Nat
  BY DEF TillTyped, PageTyped, ServerTyped
<1>3. \A q \in flight : q.state = "sent" => RequestSeen(q)
  BY DEF KnownInv
<1>4. CASE UNCHANGED vars
  BY <1>1, <1>2, <1>3, <1>4, RestSeen DEF vars, cartVars, pageVars, dataVars, baseVars
<1>5. ASSUME NEW s \in Stores, Visit(s) \/ Reload(s) PROVE KnownInv'
  <2>1. /\ items' = Empty /\ (held' = held \/ held' = <<>>) /\ UNCHANGED <<flight, refused, stock>>
        /\ \A p \in Products : shown'[p] = 0
    BY <1>5 DEF Visit, Reload, OpenPage, Cleared, Empties, dataVars, baseVars
  <2> QED
    BY <1>1, <1>2, <1>3, <2>1, RestSeen
<1>6. CASE LoadProducts
  <2>1. /\ UNCHANGED <<items, held, flight, refused, stock>>
        /\ \A p \in Products : shown'[p] = 0 \/ shown'[p] = stock[p]
    BY <1>6 DEF LoadProducts, Catalogue, cartVars, dataVars, baseVars
  <2> QED
    BY <1>1, <1>2, <1>3, <2>1, RestSeen
<1>7. CASE LoadStore
  <2>1. UNCHANGED <<items, held, flight, refused, stock, shown>>
    BY <1>7 DEF LoadStore, cartVars, dataVars, baseVars
  <2> QED
    BY <1>1, <1>2, <1>3, <2>1, RestSeen
<1>8. CASE Elsewhere
  <2>1. UNCHANGED <<items, held, flight, refused, shown>>
    BY <1>8 DEF Elsewhere, cartVars, pageVars
  <2>2. \A p \in Products : stock'[p] <= stock[p]
    <3>1. UNCHANGED stock \/ \E p \in Products : stock' = [stock EXCEPT ![p] = @ - 1]
      BY <1>8 DEF Elsewhere, SoldElsewhere, UpdateLost, RemoveProduct, RemoveCustomer
    <3>2. stock \in [Products -> Nat]
      BY DEF TillTyped, ServerTyped
    <3> QED
      BY <1>2, <3>1, <3>2
  <2> QED
    BY <1>1, <1>2, <1>3, <2>1, <2>2, RestSeen
<1>9. ASSUME NEW r \in flight, Completed(r) PROVE KnownInv'
  <2>1. UNCHANGED <<held, refused, stock>> /\ flight' = flight \ {r}
    BY <1>9 DEF Completed, dataVars, baseVars
  <2>2. items' = items \/ items' = Empty
    BY <1>9 DEF Completed, Cleared
  <2>3. \A p \in Products : shown'[p] = shown[p] \/ shown'[p] = 0 \/ shown'[p] = stock[p]
    BY <1>9 DEF Completed, Catalogue
  <2> QED
    BY <1>1, <1>2, <1>3, <2>1, <2>2, <2>3, RestSeen
<1>10. ASSUME NEW r \in flight, Failed(r) PROVE KnownInv'
  <2>1. UNCHANGED <<items, held, refused, stock, shown>> /\ flight' = flight \ {r}
    BY <1>10 DEF Failed, cartVars, pageVars, dataVars, baseVars
  <2> QED
    BY <1>1, <1>2, <1>3, <2>1, RestSeen
<1>11. ASSUME NEW r \in flight, Lost(r) PROVE KnownInv'
  <2>1. UNCHANGED <<items, held, refused, stock, shown>>
    BY <1>11 DEF Lost, cartVars, pageVars, dataVars, baseVars
  <2>2. \A q \in flight' : q.state = "sent" => RequestSeen(q)
    BY <1>11, LostSeen
  <2> QED
    BY <1>1, <1>2, <2>1, <2>2, RestSeen
<1> QED
  BY <1>4, <1>5, <1>6, <1>7, <1>8, <1>9, <1>10, <1>11, EditSeen, CompleteSeen, ServeSeen DEF Next, Answer, Methods

\* What the dialog lets pass (payment-dialog canComplete, cart.service.ts addItem and
\* increment) the server accepts, as long as goods and customer are there, stock and
\* credit are as they were seen, and the batches hold what current_stock says.
THEOREM PayablePasses == Spec => []PayableIsAccepted
<1>1. TillTyped /\ KnownInv /\ [Next]_vars => TillTyped' /\ KnownInv'
  BY TillStep, KnownStep
<1>2. KnownInv => PayableIsAccepted
  BY DEF KnownInv
<1> QED
  BY <1>1, <1>2, TillStart, KnownStart, PTL DEF Spec

-----------------------------------------------------------------------------
(* Page and server compute the same                                        *)

\* What the page assumes before a store is loaded is what the server assumes of a
\* store without settings.
SameDefaults == DefaultTax = [enabled |-> TRUE, rate |-> 12]

\* At first the tax is the default.
LEMMA ShownStart == Init => ShownInv
  BY DEF Init, ShownInv, TaxKnown, BookedAsShown

\* A second answer of the same store changes nothing.
LEMMA TaxLoaded == ASSUME TillTyped, TaxKnown, LoadStore PROVE TaxKnown'
<1>1. PICK r \in settings :
        /\ taxFrom' = taxFrom \cup {r.store}
        /\ tax' = [enabled |-> Or(Settings[r.store].enabled, tax.enabled),
                   rate |-> PageRate(r.store, tax.rate)]
  BY DEF LoadStore
<1>2. taxFrom' # {}
  BY <1>1
<1>3. ASSUME NEW s \in Stores, taxFrom' = {s} PROVE tax' = TaxOf(s)
  <2>1. r.store = s /\ (taxFrom = {} \/ taxFrom = {s})
    BY <1>1, <1>3
  <2>2. tax = DefaultTax \/ tax = TaxOf(s)
    BY <2>1 DEF TaxKnown
  <2>3. /\ Or(Settings[s].enabled, tax.enabled) = Or(Settings[s].enabled, DefaultTax.enabled)
        /\ PageRate(s, tax.rate) = PageRate(s, DefaultTax.rate)
    BY <2>2 DEF TaxOf, PageRate, Or
  <2> QED
    BY <1>1, <2>1, <2>3 DEF TaxOf
<1> QED
  BY <1>2, <1>3 DEF TaxKnown, TaxOf

\* The rate the page takes is the server's.
LEMMA SameRate ==
    ASSUME SameDefaults, TillTyped, TaxKnown, taxFrom = {store}, RateAgreed(store)
    PROVE  (IF tax.enabled THEN tax.rate ELSE 0) = ServerRate(store)
<1>1. store \in Stores
  BY DEF TillTyped, PageTyped
<1>2. tax = TaxOf(store)
  BY <1>1 DEF TaxKnown
<1>3. PICK e, t : e = Settings[store].enabled /\ t = Settings[store].rate
  OBVIOUS
<1>4. /\ e \in BOOLEAN \cup {Unset} /\ t \in Nat \cup {Unset, Null} /\ Unset \notin BOOLEAN \cup Nat
      /\ Null \notin Nat \cup {Unset} /\ (t = Null => e = FALSE)
  BY <1>1, <1>3, PosAssumption DEF RateAgreed
<1>5. tax.enabled = Or(e, TRUE) /\ tax.rate = IF t = Null THEN 0 ELSE Or(t, 12)
  BY <1>2, <1>3 DEF TaxOf, PageRate, SameDefaults
<1>6. CASE e = FALSE
  BY <1>3, <1>4, <1>5, <1>6 DEF ServerRate, Or
<1>7. CASE e = TRUE
  BY <1>3, <1>4, <1>5, <1>7 DEF ServerRate, Or
<1>8. CASE e = Unset
  BY <1>3, <1>4, <1>5, <1>8 DEF ServerRate, Or
<1> QED
  BY <1>4, <1>6, <1>7, <1>8

\* Both sum up the same lines.
LEMMA SameSubtotal ==
    ASSUME TillTyped, NEW q, DOMAIN q = DOMAIN items, \A p \in DOMAIN items : q[p] = items[p].qty
    PROVE  LinesTotal(q) = Subtotal
<1>1. PICK S : S = DOMAIN items
  OBVIOUS
<1>2. S \subseteq Products
  BY <1>1, LinesTyped
<1>3. IsFiniteSet(S)
  BY <1>2, CartAssumption, FS_Subset
<1>4. PICK f, g : f = [p \in S |-> Price[p] * q[p]] /\ g = [p \in S |-> Price[p] * items[p].qty]
  OBVIOUS
<1>5. SumOf(f, S) = SumOf(g, S)
  <2>1. \A p \in S : f[p] = g[p]
    BY <1>1, <1>4
  <2> QED
    BY <1>3, <2>1, TotalSame
<1>6. LinesTotal(q) = SumOf(f, S)
  BY <1>1, <1>3, <1>4, LinesTotalIs
<1>7. Subtotal = SumOf(g, S)
  BY <1>1, <1>3, <1>4, SubtotalIs DEF Subtotal
<1> QED
  BY <1>5, <1>6, <1>7

\* Rounding keeps the order.
LEMMA RoundUp == ASSUME NEW x \in Nat, NEW y \in Nat, x <= y PROVE Round(x) <= Round(y)
  BY DEF Round, Unit

\* Whole centavos leave the rounding of the rest alone.
LEMMA RoundSplit ==
    ASSUME NEW k \in Nat, NEW x \in Nat
    PROVE  Round(Unit * k) = k /\ Round(x + Unit * k) = Round(x) + k
<1>1. (10000 * k + 5000) \div 10000 = k
  OBVIOUS
<1>2. (x + 10000 * k + 5000) \div 10000 = (x + 5000) \div 10000 + k
  OBVIOUS
<1> QED
  BY <1>1, <1>2 DEF Round, Unit

\* What is paid and put on credit covers what is shown.
LEMMA Covered ==
    ASSUME TillTyped, NEW m \in Methods, NEW a \in Amounts, CanComplete(m, PaidFor(m, a))
    PROVE  Round(Total) <= Round(PaidFor(m, a)) + Round(CreditAmount(m, PaidFor(m, a)))
<1>1. CartTyped /\ Total \in Nat
  BY TotalNat DEF TillTyped
<1>2. PICK n, k : n = PaidFor(m, a) /\ k = CreditAmount(m, n) /\ n \in Nat /\ k \in Nat
  BY <1>1, PaidTyped
<1>3. Round(n) \in Nat /\ Round(k) \in Nat /\ Round(Total) \in Nat
  BY <1>1, <1>2, RoundNat
<1>4. CASE m = "cash"
  <2>1. n >= Total
    BY <1>2, <1>4 DEF CanComplete
  <2>2. Round(Total) <= Round(n)
    BY <1>1, <1>2, <2>1, RoundUp
  <2> QED
    BY <1>2, <1>3, <2>2
<1>5. CASE m = "credit"
  <2>1. k = Total
    BY <1>2, <1>5 DEF CreditAmount
  <2> QED
    BY <1>2, <1>3, <2>1
<1>6. CASE m = "digital"
  <2>1. n = Total
    BY <1>2, <1>6 DEF PaidFor
  <2> QED
    BY <1>2, <1>3, <2>1
<1>7. CASE m = "partial"
  <2>1. n = a /\ n < Total
    BY <1>2, <1>7 DEF CanComplete, PaidFor
  <2>2. PICK c \in Notes : n = c * Unit
    BY <1>1, <2>1 DEF Amounts, Typed
  <2>3. c \in Nat /\ n = Unit * c
    BY <2>2, PosAssumption DEF Unit
  <2>4. k = Total - n
    BY <1>1, <1>2, <1>7, <2>1 DEF CreditAmount, AtLeastZero
  <2>5. Round(n) = c /\ Round(k + n) = Round(k) + c
    BY <1>2, <2>3, RoundSplit
  <2>6. k + n = Total
    BY <1>1, <1>2, <2>4
  <2> QED
    BY <1>2, <1>3, <2>3, <2>5, <2>6
<1> QED
  BY <1>4, <1>5, <1>6, <1>7 DEF Methods

\* A request says what the server will record, when the cashier was told the tax.
LEMMA CompleteShown ==
    ASSUME SameDefaults, TillTyped, ShownInv, NEW m \in Methods, NEW a \in Amounts, CompleteSale(m, a)
    PROVE  \A q \in flight' : q.state = "sent" => RequestAgrees(q)
<1>1. /\ flight' = flight \cup {Payload(m, PaidFor(m, a))}
      /\ CanComplete(m, PaidFor(m, a))
  BY DEF CompleteSale, PaidFor
<1>2. PICK n : n = PaidFor(m, a) /\ n \in Nat /\ CreditAmount(m, n) \in Nat
  BY PaidTyped DEF TillTyped
<1>3. PICK r : r = Payload(m, n)
  OBVIOUS
<1>4. /\ DOMAIN r.lines = DOMAIN items /\ \A p \in DOMAIN items : r.lines[p] = items[p].qty
  BY <1>2, <1>3, PayloadParts
<1>5. /\ r.store = store /\ r.discount = discount /\ r.paid = n
      /\ r.charged = Round(CreditAmount(m, n)) /\ r.shown = Round(Total)
      /\ r.change = Round(AtLeastZero(n - Total))
      /\ r.told = (/\ taxFrom = {store} /\ RateAgreed(store)
                   /\ DiscountOf(Subtotal, discount) <= 100 * Subtotal)
  BY <1>3 DEF Payload
<1>6. ASSUME r.told PROVE RequestAgrees(r)
  <2>1. taxFrom = {store} /\ RateAgreed(store) /\ DiscountOf(Subtotal, discount) <= 100 * Subtotal
    BY <1>5, <1>6
  <2>2. LinesTotal(r.lines) = Subtotal
    BY <1>4, SameSubtotal
  <2>3. PICK k, d, e : k = Subtotal /\ d = DiscountOf(Subtotal, discount) /\ e = ServerRate(store)
    OBVIOUS
  <2>4. (IF tax.enabled THEN tax.rate ELSE 0) = e
    BY <2>1, <2>3, SameRate DEF ShownInv
  <2>5. /\ k \in Int /\ d \in Int /\ e \in Nat /\ d <= 100 * k
    <3>1. CartTyped /\ store \in Stores /\ discount \in Reductions
      BY DEF TillTyped, PageTyped, CartTyped
    <3>2. k \in Int
      BY <2>3, <3>1, TotalNat
    <3> QED
      BY <2>1, <2>3, <3>1, <3>2, DiscountInt, RateNat
  <2>6. PICK t : t = (100 * k - d) * (100 + e)
    OBVIOUS
  <2>7. ServerTotal(r) = t
    BY <1>5, <2>2, <2>3, <2>6, ServerTotalIs
  <2>8. TotalOf(Subtotal, discount, tax) = t
    BY <2>3, <2>4, <2>6 DEF TotalOf
  <2>9. t \in Int /\ t >= 0
    <3>1. PICK x, y : x = 100 * k - d /\ y = 100 + e
      OBVIOUS
    <3>2. x \in Nat /\ y \in Nat
      BY <2>5, <3>1
    <3>3. x * y \in Nat
      BY <3>2
    <3> QED
      BY <2>6, <3>1, <3>3
  <2>10. Total = t
    BY <2>8, <2>9 DEF Total, AtLeastZero
  <2>11. r.shown <= Round(r.paid) + r.charged
    BY <1>1, <1>2, <1>5, Covered
  <2> QED
    BY <1>5, <2>7, <2>9, <2>10, <2>11 DEF RequestAgrees
<1>7. RequestAgrees(r)
  BY <1>6 DEF RequestAgrees
<1> QED
  BY <1>1, <1>2, <1>3, <1>7 DEF ShownInv

\* The server records what the request says.
LEMMA ServeShown ==
    ASSUME TillTyped, ShownInv, NEW r \in flight, Serve(r)
    PROVE  BookedAsShown'
<1>1. r.state = "sent" /\ RequestAgrees(r)
  BY DEF Serve, ShownInv
<1>2. r \in Request
  BY <1>1 DEF TillTyped, ServerTyped, Answered
<1>3. CASE booked' = booked
  BY <1>3 DEF ShownInv, BookedAsShown
<1>4. CASE booked' # booked
  <2>1. Record(r)
    BY <1>4 DEF Serve, Refuse
  <2>2. PICK t, c : t = Round(ServerTotal(r)) /\ c = Round(AtLeastZero(r.paid - ServerTotal(r)))
    OBVIOUS
  <2>3. PICK o : o = IF r.told THEN [total |-> t - r.shown, change |-> c - r.change,
                                     open |-> AtLeastZero(t - Round(r.paid) - r.charged)]
                     ELSE Agreed
    OBVIOUS
  <2>4. booked' = Append(booked, [cart |-> r.cart, off |-> o])
    BY <2>1, <2>2, <2>3 DEF Record
  <2>5. o = Agreed
    <3>1. SUFFICES ASSUME r.told PROVE o = Agreed
      BY <2>3
    <3>2. t = r.shown /\ c = r.change /\ r.shown <= Round(r.paid) + r.charged
      BY <1>1, <2>2, <3>1 DEF RequestAgrees
    <3>3. r.shown \in Nat /\ r.change \in Nat /\ r.paid \in Nat /\ r.charged \in Nat
      BY <1>2 DEF Request
    <3>4. Round(r.paid) \in Nat
      BY <3>3, RoundNat
    <3>5. AtLeastZero(t - Round(r.paid) - r.charged) = 0
      BY <3>2, <3>3, <3>4 DEF AtLeastZero
    <3> QED
      BY <2>3, <3>1, <3>2, <3>3, <3>5 DEF Agreed
  <2>6. PICK B, x : B = [cart : Nat \ {0}, off : [total : Int, change : Int, open : Int]]
                    /\ x = [cart |-> r.cart, off |-> o]
    OBVIOUS
  <2>7. booked \in Seq(B)
    BY <2>6 DEF TillTyped, ServerTyped
  <2>8. booked' = Append(booked, x) /\ x.off = Agreed
    BY <2>4, <2>5, <2>6
  <2>9. \A i \in DOMAIN booked' : booked'[i] = x \/ (i \in DOMAIN booked /\ booked'[i] = booked[i])
    BY <2>7, <2>8
  <2> QED
    BY <2>8, <2>9 DEF ShownInv, BookedAsShown
<1> QED
  BY <1>3, <1>4

\* Every step keeps what the cashier is shown true.
LEMMA ShownStep == ASSUME SameDefaults, TillTyped, ShownInv, [Next]_vars PROVE ShownInv'
<1>1. TaxKnown /\ BookedAsShown /\ \A q \in flight : q.state = "sent" => RequestAgrees(q)
  BY DEF ShownInv
<1>2. TaxKnown'
  <2>1. CASE UNCHANGED <<tax, taxFrom>>
    BY <1>1, <2>1 DEF TaxKnown, TaxOf
  <2>2. CASE tax' = DefaultTax /\ taxFrom' = {}
    BY <2>2 DEF TaxKnown
  <2>3. CASE LoadStore
    BY <1>1, <2>3, TaxLoaded
  <2> QED
    BY <2>1, <2>2, <2>3 DEF Next, Visit, Reload, LoadProducts, EditCart, CompleteSale, Answer, Serve,
       Completed, Failed, Lost, Elsewhere, pageVars, vars
<1>3. BookedAsShown'
  <2>1. CASE UNCHANGED booked
    BY <1>1, <2>1 DEF BookedAsShown
  <2>2. CASE \E r \in flight : Serve(r)
    BY <2>2, ServeShown
  <2> QED
    BY <2>1, <2>2 DEF Next, Visit, Reload, LoadProducts, LoadStore, EditCart, CompleteSale, Answer,
       Completed, Failed, Lost, Elsewhere, dataVars, baseVars, vars
<1>4. \A q \in flight' : q.state = "sent" => RequestAgrees(q)
  <2>1. CASE flight' \subseteq flight
    BY <1>1, <2>1
  <2>2. ASSUME NEW m \in Methods, NEW a \in Amounts, CompleteSale(m, a)
        PROVE  \A q \in flight' : q.state = "sent" => RequestAgrees(q)
    BY <2>2, CompleteShown
  <2>3. ASSUME NEW r \in flight, Serve(r)
        PROVE  \A q \in flight' : q.state = "sent" => RequestAgrees(q)
    BY <1>1, <2>3 DEF Serve, Refuse, Record, Reply
  <2>4. ASSUME NEW r \in flight, Lost(r)
        PROVE  \A q \in flight' : q.state = "sent" => RequestAgrees(q)
    <3>1. PICK y : y = [r EXCEPT !.visit = -events]
      OBVIOUS
    <3>2. r.state = "sent" => RequestAgrees(y)
      <4>1. SUFFICES ASSUME r.state = "sent" PROVE RequestAgrees(y)
        OBVIOUS
      <4>2. r \in Request /\ RequestAgrees(r)
        BY <1>1, <4>1 DEF TillTyped, ServerTyped, Answered
      <4>3. /\ y.told = r.told /\ y.shown = r.shown /\ y.change = r.change /\ y.paid = r.paid
            /\ y.charged = r.charged /\ y.lines = r.lines /\ y.discount = r.discount /\ y.store = r.store
        BY <3>1, <4>2 DEF Request
      <4>4. ServerTotal(y) = ServerTotal(r)
        BY <4>3, ServerTotalIs
      <4> QED
        BY <4>2, <4>3, <4>4 DEF RequestAgrees
    <3>3. flight' = flight \ {r} \/ (r.state = "sent" /\ flight' = (flight \ {r}) \cup {y})
      BY <2>4, <3>1 DEF Lost
    <3> QED
      BY <1>1, <3>2, <3>3
  <2> QED
    BY <2>1, <2>2, <2>3, <2>4 DEF Next, Visit, Reload, LoadProducts, LoadStore, EditCart, Answer,
       Completed, Failed, Elsewhere, dataVars, baseVars, vars, Methods
<1> QED
  BY <1>2, <1>3, <1>4 DEF ShownInv, RequestAgrees

\* Total, change and what is left open of a recorded sale are those the cashier was
\* shown, for every cart, payment method and discount of no more than the goods, with
\* the tax of the store alone and in a store whose rate, if it taxes, was not emptied
\* (RateAgreed): page and server start from the same tax (SameDefaults), and settings
\* that are applied twice change nothing (cart.service.ts, sales.service.ts).
THEOREM SalesBookedAsShown == ASSUME SameDefaults PROVE Spec => []BookedAsShown
<1>1. TillTyped /\ ShownInv /\ [Next]_vars => TillTyped' /\ ShownInv'
  BY TillStep, ShownStep
<1>2. ShownInv => BookedAsShown
  BY DEF ShownInv
<1> QED
  BY <1>1, <1>2, TillStart, ShownStart, PTL DEF Spec
=============================================================================

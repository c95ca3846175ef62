----------------------------- MODULE SalesBook ------------------------------
(***************************************************************************)
(* What the store promises its users, each request an indivisible step:    *)
(* a sale takes the next number of the day and its quantities leave the    *)
(* stock, voiding it brings them back once, adjustments receive or issue   *)
(* stock, and no quantity ever goes below zero.                            *)
(***************************************************************************)
EXTENDS Integers

CONSTANTS
    Products,
    Baskets,    \* what customers may buy at once: functions from Products to Nat
    Amounts,    \* quantities of a stock adjustment
    LastDay, MaxSales

VARIABLES onHand,   \* onHand[p]: units of p the store can sell
          book      \* book[<<d, n>>]: status and quantities of sale number n of day d

vars == <<onHand, book>>

SaleIds == (1 .. LastDay) \X (1 .. MaxSales)
NoLines == [p \in Products |-> 0]
Unused  == [status |-> "none", lines |-> NoLines]

Init == onHand \in [Products -> Nat] /\ book = [s \in SaleIds |-> Unused]

\* Sale n of day d: every smaller number of the day is taken.
Sell(d, n, lines) ==
    /\ book[<<d, n>>].status = "none"
    /\ \A m \in 1 .. n - 1 : book[<<d, m>>].status # "none"
    /\ \A p \in Products : lines[p] <= onHand[p]
    /\ onHand' = [p \in Products |-> onHand[p] - lines[p]]
    /\ book' = [book EXCEPT ![<<d, n>>] = [status |-> "completed", lines |-> lines]]

Void(s) ==
    /\ book[s].status = "completed"
    /\ onHand' = [p \in Products |-> onHand[p] + book[s].lines[p]]
    /\ book' = [book EXCEPT ![s].status = "void"]

Receive(p, q) == onHand' = [onHand EXCEPT ![p] = @ + q] /\ UNCHANGED book

Issue(p, q) == q <= onHand[p] /\ onHand' = [onHand EXCEPT ![p] = @ - q] /\ UNCHANGED book

Next ==
    \/ \E s \in SaleIds, lines \in Baskets : Sell(s[1], s[2], lines)
    \/ \E s \in SaleIds : Void(s)
    \/ \E p \in Products, q \in Amounts : Receive(p, q) \/ Issue(p, q)

Spec == Init /\ [][Next]_vars
=============================================================================

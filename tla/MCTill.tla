------------------------------- MODULE MCTill -------------------------------
EXTENDS PosPage, TLC

CONSTANTS p1, p2, p3, s1, s2, s3

\* The price makes an uneven total with tax.  The first store has the default tax
\* and two of its product left, the second has none, and the third emptied its rate.
MCPrice         == p1 :> 999 @@ p2 :> 1250 @@ p3 :> 999
MCStoreOf       == p1 :> s1 @@ p2 :> s2 @@ p3 :> s3
MCOpeningStock  == p1 :> 2 @@ p2 :> 1 @@ p3 :> 1
MCDiscounts     == {[type |-> "fixed", amount |-> 1250]}
MCDefaultTax    == [enabled |-> TRUE, rate |-> 12]
MCSettings      == s1 :> [enabled |-> Unset, rate |-> Unset]
                @@ s2 :> [enabled |-> FALSE, rate |-> 8]
                @@ s3 :> [enabled |-> TRUE, rate |-> Null]
=============================================================================

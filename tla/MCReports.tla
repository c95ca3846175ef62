----------------------------- MODULE MCReports ------------------------------
(* The instances of MCPointOfSale with the reports read at every moment.    *)
EXTENDS MCPointOfSale, ReportsService

\* p1 is sold at a profit, p2 at a loss.
MCRetailPrice == [p \in Products |-> 2]
MCUnitCost == [b \in BatchIds |-> IF b[1] = p1 THEN 1 ELSE 4]
=============================================================================

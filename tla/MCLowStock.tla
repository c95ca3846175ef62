----------------------------- MODULE MCLowStock -----------------------------
(* The instances of MCPointOfSale with the daily stock check beside them.   *)
EXTENDS MCPointOfSale, LowStockAlerts

MCReorderLevel == [p \in Products |-> 0]
=============================================================================

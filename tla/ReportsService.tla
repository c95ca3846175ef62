--------------------------- MODULE ReportsService ---------------------------
(***************************************************************************)
(* backend/src/reports/reports.service.ts: what the reports of a period    *)
(* show of the committed tables.  A period is a range of days; an amount   *)
(* is made of units, their price and their cost, which create copies from  *)
(* the batch into the sale item (no discounts, no tax).                    *)
(***************************************************************************)
EXTENDS PointOfSale

CONSTANTS
    RetailPrice,  \* RetailPrice[p]: price of a unit of p
    UnitCost      \* UnitCost[b]: unit_cost of batch b

Days == 1 .. LastDay
ASSUME ReportsAssumption ==
    /\ IsFiniteSet(Products)
    /\ RetailPrice \in [Products -> Nat] /\ UnitCost \in [BatchIds -> Nat]

-----------------------------------------------------------------------------
\* sale_date BETWEEN start AND end, both ends included, and not void.
InPeriod(from, to) == {s \in SaleIds : /\ sale[s].cur.status = "completed"
                                       /\ sale[s].cur.date \in from .. to}

\* getSalesSummaryForPeriod, and the rows of daily_breakdown.
Transactions(from, to)   == Cardinality(InPeriod(from, to))
DailyBreakdown(from, to) == [d \in from .. to |->
    Cardinality({s \in InPeriod(from, to) : sale[s].cur.date = d})]

\* getBestSelling, and the cost of goods of getProfitSummaryForPeriod.
QuantitySold(p, from, to) == MapThenSumSet(LAMBDA s : UnitsSold(s, p), InPeriod(from, to))
CostOf(s) == LET ls == sale[s].cur.lines IN
    MapThenSumSet(LAMBDA i : ls[i].qty * UnitCost[ls[i].batch], DOMAIN ls)
TotalCost(from, to) == MapThenSumSet(CostOf, InPeriod(from, to))
RevenueOf(s) == MapThenSumSet(LAMBDA p : RetailPrice[p] * UnitsSold(s, p), Products)
TotalRevenue(from, to) == MapThenSumSet(RevenueOf, InPeriod(from, to))

\* Mutant: the period before ends on the day this one starts.
PreviousRangeTouching(from, to) == <<from - (to - from), from>>

\* getPreviousDateRange: as long, and ending a millisecond before the start.
PreviousRange(from, to) == <<from - 1 - (to - from), from - 1>>

\* calculateTrend: half a per cent either way is no change.  The division by a
\* loss turns the sign of the percentage over.
Trend(now, before) ==
    LET change == 200 * (now - before) IN
    CASE before = 0 -> IF now > 0 THEN "up" ELSE "neutral"
      [] before > 0 -> IF change > before THEN "up" ELSE IF change < -before THEN "down" ELSE "neutral"
      [] before < 0 -> IF change < before THEN "up" ELSE IF change > -before THEN "down" ELSE "neutral"

\* getProfitReport.
GrossProfit(from, to) == TotalRevenue(from, to) - TotalCost(from, to)
ProfitReport(from, to) == LET before == PreviousRange(from, to) IN
    [profit |-> GrossProfit(from, to), previous |-> GrossProfit(before[1], before[2]),
     trend |-> Trend(GrossProfit(from, to), GrossProfit(before[1], before[2]))]

-----------------------------------------------------------------------------
\* The figures a report reads at one moment add up: its days to its total, both
\* periods to the whole they are the halves of, so that nothing is counted twice
\* or left out, and the arrow at the profit points the way the profit went --
\* unless it is compared with a loss, when the percentage has the wrong sign.
ReportsAgree == \A from \in Days : \A to \in from .. LastDay :
    LET before == PreviousRange(from, to) IN
    /\ MapThenSumSet(LAMBDA d : DailyBreakdown(from, to)[d], from .. to) = Transactions(from, to)
    /\ Transactions(from, to) + Transactions(before[1], before[2]) = Transactions(before[1], to)
    /\ GrossProfit(from, to) + GrossProfit(before[1], before[2]) = GrossProfit(before[1], to)
    /\ LET r == ProfitReport(from, to) IN
       r.previous >= 0 => /\ r.trend = "up" => r.profit > r.previous
                          /\ r.trend = "down" => r.profit < r.previous

\* The reports of a day that is over are final but for voids: once no checkout
\* that took its number by that day is still under way, no figure of the day
\* grows any more.  (Until then it does: a sale rung up before midnight is
\* committed after it.)
ClosedDaysShrink == [][\A d \in Days :
    d < today /\ (\A w \in Workers : num[w] = NoNumber \/ num[w][1] > d) =>
        /\ Transactions(d, d)' <= Transactions(d, d)
        /\ TotalCost(d, d)' <= TotalCost(d, d)
        /\ \A p \in Products : QuantitySold(p, d, d)' <= QuantitySold(p, d, d)]_vars
=============================================================================

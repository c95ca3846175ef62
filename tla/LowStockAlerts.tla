--------------------------- MODULE LowStockAlerts ---------------------------
(***************************************************************************)
(* backend/src/alerts/alerts.service.ts: the job that looks every morning  *)
(* for products at or below their reorder level and mails the store once.  *)
(* It runs beside the requests of PointOfSale and reads the rows they      *)
(* commit.  That the mail was sent is recorded in columns nobody reads, and *)
(* left out.                                                               *)
(***************************************************************************)
EXTENDS PointOfSale

CONSTANTS
    ReorderLevel,  \* ReorderLevel[p]: reorder_level of product p
    MaxRuns        \* bound: days the job is started on

VARIABLES
    open,    \* table low_stock_alerts: unresolved alerts of a product
    check,   \* the job: next step and its local variables
    runs,    \* how often it was started
    mails,   \* history: mails a product was named in
    rises    \* history: how often a product's committed stock left the low range

alertVars == <<open, check, runs, mails, rises>>
allVars   == <<vars, alertVars>>

ASSUME AlertsAssumption == ReorderLevel \in [Products -> Nat] /\ MaxRuns \in Nat

IsLow(p) == product[p].cur.active /\ product[p].cur.stock <= ReorderLevel[p]
Asleep   == [at |-> "idle", low |-> {}, found |-> {}, fresh |-> {}]

InitAlerts == /\ Init
              /\ open = [p \in Products |-> 0] /\ check = Asleep /\ runs = 0
              /\ mails = [p \in Products |-> 0] /\ rises = [p \in Products |-> 0]

-----------------------------------------------------------------------------
RunDailyCheck ==
    /\ check.at = "idle" /\ runs < MaxRuns
    /\ runs' = runs + 1
    /\ check' = [Asleep EXCEPT !.at = "findStores"]
    /\ UNCHANGED <<open, mails, rises>>

\* getKadenaStoreIds: the plan has the feature and is live that day, or not.
FindStores ==
    /\ check.at = "findStores"
    /\ check' = [check EXCEPT !.at = "findLow"] \/ check' = Asleep
    /\ UNCHANGED <<open, runs, mails, rises>>

FindLow ==
    /\ check.at = "findLow"
    /\ check' = [check EXCEPT !.at = "findUnresolved", !.low = {p \in Products : IsLow(p)}]
    /\ UNCHANGED <<open, runs, mails, rises>>

FindUnresolved ==
    /\ check.at = "findUnresolved"
    /\ check' = [check EXCEPT !.at = "resolve", !.found = {p \in Products : open[p] > 0}]
    /\ UNCHANGED <<open, runs, mails, rises>>

\* Mutant: every alert that was found is closed.
ResolveEvery ==
    /\ check.at = "resolve"
    /\ open' = [p \in Products |-> IF p \in check.found THEN 0 ELSE open[p]]
    /\ check' = [check EXCEPT !.at = "create", !.fresh = check.low]
    /\ UNCHANGED <<runs, mails, rises>>

\* Alerts of products that are back in stock are closed.
Resolve ==
    /\ check.at = "resolve"
    /\ open' = [p \in Products |-> IF p \in check.found \ check.low THEN 0 ELSE open[p]]
    /\ check' = [check EXCEPT !.at = "create", !.fresh = check.low \ check.found]
    /\ UNCHANGED <<runs, mails, rises>>

CreateAlerts ==
    /\ check.at = "create"
    /\ open' = [p \in Products |-> IF p \in check.fresh THEN open[p] + 1 ELSE open[p]]
    /\ check' = IF check.fresh = {} THEN Asleep ELSE [check EXCEPT !.at = "mail"]
    /\ UNCHANGED <<runs, mails, rises>>

\* A mail that fails, and a store without a recipient, are only logged.
SendAlertsEmail ==
    /\ check.at = "mail"
    /\ \/ mails' = [p \in Products |-> IF p \in check.fresh THEN mails[p] + 1 ELSE mails[p]]
       \/ mails' = mails
    /\ check' = Asleep
    /\ UNCHANGED <<open, runs, rises>>

\* The process restarts, or a statement fails and runDailyCheck logs it: the
\* rest waits for the next morning.
JobDies == /\ check.at # "idle" /\ check' = Asleep
           /\ UNCHANGED <<open, runs, mails, rises>>

DailyCheck == RunDailyCheck \/ FindStores \/ FindLow \/ FindUnresolved \/ Resolve \/ CreateAlerts
              \/ SendAlertsEmail \/ JobDies

\* A request takes its next step while the job is wherever it is.
Trade == /\ Next
         /\ rises' = [p \in Products |-> IF IsLow(p) /\ ~IsLow(p)' THEN rises[p] + 1 ELSE rises[p]]
         /\ UNCHANGED <<open, check, runs, mails>>

NextAlerts == Trade \/ (DailyCheck /\ UNCHANGED vars)

SpecAlerts == InitAlerts /\ [][NextAlerts]_allVars

-----------------------------------------------------------------------------
\* "email is sent only once when the alert is first created" (memory/features/
\* low-stock-alerts.md:37): between two mails about a product its stock really
\* rose above the reorder level, whatever was sold while the job ran and
\* wherever it died.
OneMailPerEvent == \A p \in Products : open[p] <= 1 /\ mails[p] <= 1 + rises[p]
=============================================================================

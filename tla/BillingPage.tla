---------------------------- MODULE BillingPage -----------------------------
(***************************************************************************)
(* frontend features/billing/billing.ts: buying a bigger plan through a    *)
(* checkout page of PayMongo, from any tab.  The payment that is under way *)
(* is in three keys of localStorage, so that the tab PayMongo sends the    *)
(* customer back to, with ?payment=success in its address, can finish what *)
(* another tab began.  The parameter stays in the address until the keys   *)
(* were found, and every ngOnInit looks for them as long as it is there.   *)
(* The server (subscription.service.ts upgradePlan) compares the payment's *)
(* plan with the request's, but takes the billing period from the request. *)
(***************************************************************************)
EXTENDS BrowserSession

CONSTANTS
    Plans,         \* a set of numbers, in the order of the plans
    NoPlan

ASSUME PageAssumption == Plans \subseteq Nat \ {0} /\ NoPlan = 0

VARIABLES
    bill,          \* the billing page of each tab
    keys,          \* pos_pending_upgrade_payment_id, _plan_id and _billing_period
    sent,          \* requests under way
    notices,       \* storage events under way: tabs that will hear the key is gone
    payments,      \* the server's payments: whose, for what, and whether paid
    granted        \* history: upgrades carried out, [pay, annual, late]

pageVars == <<bill, keys, sent, notices, payments, granted>>
vars == <<sessionVars, pageVars>>

NoPayment == 0
NoKeys == [pay |-> NoPayment, plan |-> NoPlan, annual |-> FALSE]

\* A new instance of the component; url: with ?payment=success.  late is history:
\* its period may be another one than that of the payment it verifies, because
\* the switch was used while it loaded for the first time, or because it found the
\* keys only when ngOnInit ran again.
Page(open, url) == [open |-> open, url |-> url, plan |-> NoPlan, annual |-> FALSE, late |-> FALSE,
                    visible |-> FALSE, step |-> FALSE, latest |-> NoPayment, busy |-> FALSE]

\* What matters of an instance that was left: only one with the parameter still looks.
Nowhere == [url |-> FALSE, plan |-> NoPlan, annual |-> FALSE, late |-> FALSE]
Left(page) == IF page.url THEN [url |-> TRUE, plan |-> page.plan, annual |-> page.annual, late |-> page.late]
                          ELSE Nowhere

Init ==
    /\ InitSession
    /\ bill = [t \in Tabs |-> Page(FALSE, FALSE)] /\ keys = NoKeys
    /\ sent = {} /\ notices = {} /\ payments = <<>> /\ granted = {}

With(t, page) == bill' = [bill EXCEPT ![t] = page]

\* A request of the page t shows; kinds: intent, leave, upgrade, refresh (the
\* subscription, after a storage event), and the two GETs of ngOnInit, load the
\* first time and again later.
Request(kind, t, user, pay, page) ==
    [kind |-> kind, tab |-> t, live |-> TRUE, left |-> Nowhere, user |-> user,
     pay |-> pay, plan |-> page.plan, annual |-> page.annual, late |-> page.late]

\* One by the page that sent r, whether it is shown or was left.
Following(r, kind) ==
    [Request(kind, r.tab, Nobody, NoPayment, Nowhere) EXCEPT !.live = r.live, !.left = r.left]

PageOf(r) == IF r.live THEN bill[r.tab] ELSE r.left

\* ngOnInit runs again: without the parameter there will be nothing to look for.
NgOnInit(r) == IF PageOf(r).url THEN {Following(r, "again")} ELSE {}

\* The components of these tabs are gone, their requests are not.  What is answered
\* to most of them concerns nobody any more.
Orphaned(ts) ==
    LET gone == {[r EXCEPT !.live = FALSE, !.left = Left(bill[r.tab])] : r \in {q \in sent : q.live /\ q.tab \in ts}}
    IN {r \in sent : ~(r.live /\ r.tab \in ts)}
         \cup {r \in gone : r.kind \in {"intent", "upgrade"} \/ r.left.url}

\* Bound: those of pages left with the parameter count among the events.
FewLeft == events' + Cardinality({r \in sent' : r.left.url}) <= MaxEvents

Loading(t, kinds) == \E r \in sent : r.live /\ r.tab = t /\ r.kind \in kinds

\* The buttons of the page are there and enabled.
On(t) == bill[t].open /\ ~bill[t].busy /\ ~Loading(t, {"load", "again"})
-----------------------------------------------------------------------------
(* The page and its dialog.                                                *)

Open(t) == /\ tab[t].inside /\ ~bill[t].open /\ With(t, Page(TRUE, FALSE))
           /\ UNCHANGED <<keys, sent, notices, payments, granted>>

Leave(t) == /\ bill[t].open /\ With(t, Page(FALSE, FALSE)) /\ sent' = Orphaned({t})
            /\ UNCHANGED <<keys, notices, payments, granted>>

\* The dialog is modal: the switch between monthly and annual is behind it.
ToggleAnnual(t) ==
    /\ bill[t].open /\ ~bill[t].visible
    /\ With(t, [bill[t] EXCEPT !.annual = ~@, !.late = @ \/ Loading(t, {"load"})])
    /\ UNCHANGED <<keys, sent, notices, payments, granted>>

\* Mutant: the dialog opens where it was left.
OpenUpgradeDialogAsLeft(t, plan) ==
    /\ On(t) /\ ~bill[t].visible
    /\ With(t, [bill[t] EXCEPT !.plan = plan, !.visible = TRUE])
    /\ UNCHANGED <<keys, sent, notices, payments, granted>>

OpenUpgradeDialog(t, plan) ==
    /\ On(t) /\ ~bill[t].visible
    /\ With(t, [bill[t] EXCEPT !.plan = plan, !.step = FALSE, !.visible = TRUE])
    /\ UNCHANGED <<keys, sent, notices, payments, granted>>

\* Cancel or the cross; it can be closed while a request is under way.
CloseDialog(t) ==
    /\ bill[t].open /\ bill[t].visible
    /\ \/ With(t, [bill[t] EXCEPT !.visible = FALSE])
       \/ bill[t].step /\ With(t, [bill[t] EXCEPT !.step = FALSE])     \* Back
    /\ UNCHANGED <<keys, sent, notices, payments, granted>>

\* The buttons of the dialog.
Ready(t) == bill[t].open /\ bill[t].visible /\ ~bill[t].busy

\* confirmUpgrade: POST /payments/intents.
StartUpgradePayment(t) ==
    /\ Ready(t) /\ ~bill[t].step /\ Count
    /\ sent' = sent \cup {Request("intent", t, disk.token, NoPayment, bill[t])}
    /\ With(t, [bill[t] EXCEPT !.busy = TRUE])
    /\ UNCHANGED <<keys, notices, payments, granted>>

\* confirmDowngrade, cancelPendingDowngrade and cancelSubscription.
LeavePlan(t) ==
    /\ On(t) /\ ~bill[t].visible /\ Count
    /\ sent' = sent \cup {Request("leave", t, disk.token, NoPayment, Nowhere)}
    /\ With(t, [bill[t] EXCEPT !.busy = TRUE])
    /\ UNCHANGED <<keys, notices, payments, granted>>

\* doUpgrade: POST /billing/upgrade with what the page shows.
Upgrade(t, page, pay) == Request("upgrade", t, disk.token, pay, page)
Upgrading(page, pay)  == [page EXCEPT !.latest = pay, !.visible = FALSE, !.busy = TRUE]

\* verifyPayment, the button "I've paid".
VerifyPayment(t) ==
    /\ Ready(t) /\ bill[t].step
    /\ LET pay == IF bill[t].latest # NoPayment THEN bill[t].latest ELSE keys.pay
       IN /\ pay # NoPayment /\ With(t, Upgrading(bill[t], pay))
          /\ sent' = sent \cup {Upgrade(t, bill[t], pay)}
    /\ UNCHANGED <<keys, notices, payments, granted>>
-----------------------------------------------------------------------------
(* The answers.  They are followed by a page nobody sees, too.             *)

Answered(r) == sent' = sent \ {r}

\* The checkout is there: its keys replace those of another one.
IntentMade(r) ==
    /\ r.kind = "intent" /\ r.user # Nobody /\ Answered(r)
    /\ payments' = Append(payments, [user |-> r.user, plan |-> r.plan, annual |-> r.annual, paid |-> FALSE])
    /\ keys' = [pay |-> Len(payments'), plan |-> r.plan, annual |-> r.annual]
    /\ bill' = IF r.live
               THEN [bill EXCEPT ![r.tab] = [@ EXCEPT !.busy = FALSE, !.step = TRUE, !.latest = Len(payments')]]
               ELSE bill
    /\ UNCHANGED <<notices, granted>>

Idle(r) == IF r.live THEN [bill EXCEPT ![r.tab].busy = FALSE] ELSE bill

\* An error, or the answer to cancelSubscription.
RequestFailed(r) ==
    /\ r.kind \in {"intent", "leave", "upgrade"} /\ Answered(r) /\ bill' = Idle(r)
    /\ UNCHANGED <<keys, notices, payments, granted>>

\* The answer to a downgrade, or to its cancellation.
PlanLeft(r) ==
    /\ r.kind = "leave" /\ bill' = Idle(r)
    /\ sent' = (sent \ {r}) \cup NgOnInit(r)
    /\ UNCHANGED <<keys, notices, payments, granted>>

\* The answer to refreshSubscription after a storage event, or an error.
Refreshed(r) ==
    /\ r.kind = "refresh"
    /\ sent' = (sent \ {r}) \cup NgOnInit(r) \/ Answered(r)
    /\ UNCHANGED <<bill, keys, notices, payments, granted>>

\* What upgradePlan wants of the payment.
Payable(r) == LET p == payments[r.pay] IN p.user = r.user /\ p.plan = r.plan /\ p.paid

\* upgradePlan did it, or found that the webhook had; the keys go, the other tabs
\* hear of it.  Or the answer is lost and the keys stay.
UpgradeMade(r) ==
    /\ r.kind = "upgrade" /\ r.user # Nobody /\ bill' = Idle(r)
    /\ \E done \in BOOLEAN, answer \in BOOLEAN :
        /\ done => Payable(r)
        /\ ~done => answer /\ payments[r.pay].user = r.user     \* already on the plan
        /\ granted' = IF done THEN granted \cup {[pay |-> r.pay, annual |-> r.annual, late |-> r.late]}
                      ELSE granted
        /\ sent' = (sent \ {r}) \cup IF answer THEN NgOnInit(r) ELSE {}
        /\ keys' = IF answer THEN NoKeys ELSE keys
        /\ notices' = IF answer /\ keys.pay # NoPayment THEN notices \cup (Tabs \ {r.tab}) ELSE notices
    /\ UNCHANGED payments

\* onStorageChange: another tab completed an upgrade; the dialog closes.
StorageEvent(t) ==
    /\ t \in notices /\ notices' = notices \ {t}
    /\ IF bill[t].open /\ bill[t].visible
       THEN /\ With(t, [bill[t] EXCEPT !.visible = FALSE, !.plan = NoPlan, !.step = FALSE])
            /\ sent' = sent \cup IF bill[t].url THEN {Request("refresh", t, disk.token, NoPayment, Nowhere)} ELSE {}
       ELSE UNCHANGED <<bill, sent>>
    /\ UNCHANGED <<keys, payments, granted>>

\* The page as checkForPendingPayment makes it when it found the keys: the plan is
\* restored if none was chosen and the plans could be loaded, the switch is only
\* ever set.
Restored(page, loaded, again) == [page EXCEPT
    !.plan   = IF page.plan = NoPlan /\ loaded THEN keys.plan ELSE page.plan,
    !.annual = page.annual \/ keys.annual,
    !.late   = page.late \/ again]

\* verifyPayment, by the page that sent r.
Posted(r, page) == [Upgrade(r.tab, page, keys.pay) EXCEPT
    !.live = r.live, !.left = IF r.live THEN Nowhere ELSE page]

\* The answers to ngOnInit, or errors: with the parameter and a payment under way
\* the address is cleared and the payment verified.  Without a plan nothing is sent.
CheckForPendingPayment(r) ==
    /\ r.kind \in {"load", "again"}
    /\ IF ~PageOf(r).url \/ keys.pay = NoPayment THEN Answered(r) /\ UNCHANGED bill
       ELSE \E loaded \in BOOLEAN :
           LET page   == Restored(PageOf(r), loaded, r.kind = "again")
               shown  == [page EXCEPT !.url = FALSE, !.latest = keys.pay]
               posted == IF page.plan = NoPlan THEN {} ELSE {Posted(r, page)}
           IN /\ sent' = (sent \ {r}) \cup posted
              /\ bill' = IF ~r.live THEN bill
                         ELSE [bill EXCEPT ![r.tab] = IF posted = {} THEN shown ELSE Upgrading(shown, keys.pay)]
    /\ UNCHANGED <<keys, notices, payments, granted>>
-----------------------------------------------------------------------------
(* The checkout page, in a tab of its own or in one of these.              *)

Pay(p) == /\ ~payments[p].paid /\ payments' = [payments EXCEPT ![p].paid = TRUE]
          /\ UNCHANGED <<sessionVars, bill, keys, sent, notices, granted>>

\* /billing?payment=success: the tab loads the application again.  So does a reload
\* while the parameter is in the address.
Return(t) ==
    /\ \E p \in DOMAIN payments : payments[p].paid
    /\ Reload(t)
    /\ With(t, Page(tab'[t].inside, tab'[t].inside))
    /\ sent' = {r \in sent : r.tab # t}
         \cup IF tab'[t].inside THEN {Request("load", t, Nobody, NoPayment, Nowhere)} ELSE {}
    /\ notices' = notices \ {t}
    /\ UNCHANGED <<keys, payments, granted>>

\* Signing out and loading the application again end the page.
SessionStep ==
    /\ Session
    /\ LET ended == {t \in Tabs : ~tab'[t].inside \/ tab'[t].active # tab[t].active} IN
       /\ bill' = [t \in Tabs |-> IF t \in ended THEN Page(FALSE, FALSE) ELSE bill[t]]
       /\ sent' = Orphaned(ended)
    /\ UNCHANGED <<keys, notices, payments, granted>>

PageStep(t) ==
    \/ Open(t) \/ Leave(t) \/ ToggleAnnual(t) \/ (\E p \in Plans : OpenUpgradeDialog(t, p))
    \/ CloseDialog(t) \/ VerifyPayment(t) \/ StorageEvent(t)

Answer(r) ==
    \/ IntentMade(r) \/ RequestFailed(r) \/ PlanLeft(r) \/ Refreshed(r) \/ UpgradeMade(r)
    \/ CheckForPendingPayment(r)

Next ==
    /\ \/ SessionStep
       \/ (\E t \in Tabs : StartUpgradePayment(t) \/ LeavePlan(t)) /\ UNCHANGED <<disk, tab, calls, crossed>>
       \/ ((\E t \in Tabs : PageStep(t)) \/ (\E r \in sent : Answer(r))) /\ UNCHANGED sessionVars
       \/ (\E p \in DOMAIN payments : Pay(p))
       \/ (\E t \in Tabs : Return(t))
    /\ FewLeft

Spec == Init /\ [][Next]_vars
-----------------------------------------------------------------------------
\* The interceptors send what the tab shows: a tab whose session was not disturbed by
\* another tab nor by an answer to an earlier session sends the token of the user it
\* shows and, if that user has a store at all, one of the user's stores.
ActsAsShown == \A t \in Tabs \ crossed : tab[t].inside =>
    /\ disk.token = tab[t].user
    /\ StoreList(tab[t].user) # <<>> => IsStoreOf(tab[t].active, disk.token)

\* An upgrade is carried out for the period it was paid for.  The server does not look:
\* it rests on the keys being written together, on the dialog starting over whenever
\* it opens and on the switch being out of reach while it is open.  It is not so, and
\* not claimed, for a page whose switch is used while it loads after the redirect, or
\* that finds the keys when ngOnInit runs again with ?payment=success still in the
\* address: isAnnual is then what the customer left it at (billing.ts:113-123).
PeriodIsPaidFor == \A g \in granted : g.late \/ payments[g.pay].annual = g.annual
=============================================================================

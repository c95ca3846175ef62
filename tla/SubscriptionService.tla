------------------------ MODULE SubscriptionService -------------------------
(***************************************************************************)
(* backend/src/billing/subscription.service.ts: upgradePlan, downgradePlan, *)
(* cancelDowngrade and cancelSubscription; and the three writes of         *)
(* admin-subscriptions.service.ts.  Each one loads the subscription with   *)
(* its plan, decides, and saves what it loaded.                            *)
(***************************************************************************)
EXTENDS BillingTables

\* What the handlers make of the row they loaded.
Upgraded(s, p) == [s EXCEPT !.status = "active", !.plan = p, !.end = now + Period, !.trialEnd = NoDate]
WithPending(s, p) == [s EXCEPT !.stats.pending = p]

-----------------------------------------------------------------------------
(* upgradePlan                                                             *)

\* Already there, or not an upgrade, or free of charge, or to be validated.
Upgrade(w) == LET j == job[w]  p == job[w].req.plan IN
    /\ Running(w, "upgrade")
    /\ IF (sub.plan = p /\ sub.status = "active") \/ p <= sub.plan
       THEN Refuse(w)
       ELSE IF BypassPayment
       THEN SaveSub(w, Entity(Upgraded(sub, p), p), "idle", j)
       ELSE Read(w, "validate", [j EXCEPT !.sub = sub])

\* A payment is accepted for 30 minutes: it may be that young in the quarter in
\* which its session was opened and in the next, and too old in both.
MayBeFresh(p) == now - payment[p].made <= 1

Validate(w) == LET j == job[w]  p == job[w].req.pay IN
    /\ Running(w, "validate")
    /\ \/ Refuse(w)
       \/ /\ p # NoPayment
          /\ payment[p].status # "none" /\ payment[p].target = j.req.plan /\ MayBeFresh(p)
          /\ IF payment[p].status = "succeeded"
             THEN Read(w, "confirm", j)
             ELSE Read(w, "verify", [j EXCEPT !.pay = p, !.ent = payment[p]])

\* getCheckoutSession: the status of the payment intent in the session, or an
\* error of the gateway.
CheckoutStatus(p) == {"error"} \cup (IF session[p] = "paid" THEN {"succeeded"} ELSE {"awaiting"})

\* Mutant: the answer of the gateway is not looked at.
VerifyUnchecked(w) == LET j == job[w] IN
    /\ Running(w, "verify")
    /\ SavePayment(w, [j.ent EXCEPT !.status = "succeeded"], "settle", j)

\* A pending payment is asked for at the gateway.
Verify(w) == LET j == job[w] IN
    /\ Running(w, "verify")
    /\ \E status \in CheckoutStatus(j.pay) :
        IF status = "succeeded"
        THEN SavePayment(w, [j.ent EXCEPT !.status = "succeeded"], "settle", j)
        ELSE Refuse(w)

\* UPDATE invoices, then upgradePlan goes on.
Settle(w) == LET j == job[w] IN
    /\ Running(w, "settle")
    /\ MarkInvoice(j.ent.invoice, "paid")
    /\ Continue(w, "confirm", j)
    /\ UNCHANGED <<sub, payment, outside, history>>

\* The subscription that was loaded before the payment was validated is saved.
Confirm(w) == LET j == job[w] IN
    /\ Running(w, "confirm")
    /\ SaveSub(w, Entity(Upgraded(j.sub, j.req.plan), j.req.plan), "idle", j)

-----------------------------------------------------------------------------
(* downgradePlan, cancelDowngrade, cancelSubscription                      *)

\* The usage fits the smaller plan (or the request is refused and changes nothing).
Downgrade(w) == LET j == job[w]  p == job[w].req.plan IN
    /\ Running(w, "downgrade")
    /\ IF p >= sub.plan THEN Refuse(w)
       ELSE IF sub.status = "trial"
       THEN SaveSub(w, Entity([sub EXCEPT !.plan = p], p), "idle", j)
       ELSE SaveSub(w, Entity(WithPending(sub, p), sub.plan), "idle", j)

CancelDowngrade(w) ==
    /\ Running(w, "cancelDowngrade")
    /\ IF sub.stats.pending = NoPlan THEN Refuse(w)
       ELSE SaveSub(w, Entity(WithPending(sub, NoPlan), sub.plan), "idle", job[w])

\* kind "cancel" asks for the end of the period, "cancelNow" for this moment.
Cancel(w) == LET j == job[w] IN
    /\ Running(w, "cancel") \/ Running(w, "cancelNow")
    /\ IF sub.status = "cancelled" THEN Refuse(w)
       ELSE IF j.req.kind = "cancelNow" \/ sub.status = "trial"
       THEN SaveSub(w, Entity([sub EXCEPT !.status = "cancelled"], sub.plan), "idle", j)
       ELSE SaveSub(w, Entity([sub EXCEPT !.cancelAtEnd = TRUE], sub.plan), "idle", j)

-----------------------------------------------------------------------------
(* The platform administrator                                              *)

Suspend(w) ==
    /\ Running(w, "suspend")
    /\ SaveSub(w, Entity([sub EXCEPT !.status = "suspended"], sub.plan), "idle", job[w])

Reactivate(w) ==
    /\ Running(w, "reactivate")
    /\ SaveSub(w, Entity([sub EXCEPT !.status = "active"], sub.plan), "idle", job[w])

ChangePlan(w) == LET p == job[w].req.plan IN
    /\ Running(w, "changePlan")
    /\ SaveSub(w, Entity([sub EXCEPT !.plan = p], p), "idle", job[w])

ManageSubscription(w) ==
    \/ Upgrade(w) \/ Validate(w) \/ Verify(w) \/ Settle(w) \/ Confirm(w)
    \/ Downgrade(w) \/ CancelDowngrade(w) \/ Cancel(w)
Administer(w) == Suspend(w) \/ Reactivate(w) \/ ChangePlan(w)
=============================================================================

-------------------------- MODULE PaymentsService ---------------------------
(***************************************************************************)
(* backend/src/payments: createUpgradePaymentIntent and payInvoice of      *)
(* payments.service.ts, the PayMongo webhook handlers, and the gateway     *)
(* itself.  The gateway is outside: a user who was sent the checkout URL   *)
(* pays or fails to pay there, and the gateway sends the event, possibly   *)
(* several times, late, and in any order.  MockPaymentService takes every  *)
(* payment at once and sends nothing.                                      *)
(***************************************************************************)
EXTENDS BillingTables

\* createUpgradePaymentIntent, before the guard of the target plan and after it
OpenCheckout(w) == LET j == job[w] IN
    /\ Running(w, "checkout")
    /\ IF j.req.plan <= sub.plan THEN Refuse(w) ELSE Read(w, "createInvoice", j)

CreateInvoice(w) == LET j == job[w] IN
    /\ Running(w, "createInvoice")
    /\ invoice' = [invoice EXCEPT ![j.pay] =
                      [status |-> "pending", plan |-> j.req.plan, until |-> now + Period]]
    /\ Continue(w, "createSession", j)
    /\ UNCHANGED <<sub, payment, outside, history>>

\* payInvoice: any invoice will do, whatever its status.
PayInvoice(w) == LET j == job[w] IN
    /\ Running(w, "payInvoice")
    /\ IF invoice[j.req.pay].status = "none" THEN Refuse(w) ELSE Read(w, "createSession", j)

\* The gateway opens a checkout session, or the call fails.
CreateSession(w) == LET j == job[w] IN
    /\ Running(w, "createSession")
    /\ \/ Refuse(w)
       \/ /\ session' = [session EXCEPT ![j.pay] = IF MockGateway THEN "paid" ELSE "created"]
          /\ Continue(w, "recordPayment", j)
          /\ UNCHANGED <<rows, now, sent, due, requests, crashes, history>>

InvoiceOf(j) == IF j.req.kind = "checkout" THEN j.pay ELSE j.req.pay

\* payInvoice leaves the target plan out of the metadata.
RecordPayment(w) == LET j == job[w] IN
    /\ Running(w, "recordPayment")
    /\ payment' = [payment EXCEPT ![j.pay] =
                      [status |-> IF MockGateway THEN "succeeded" ELSE "pending",
                       invoice |-> InvoiceOf(j), target |-> j.req.plan,
                       events |-> {}, made |-> now]]
    /\ Continue(w, "answer", j)
    /\ UNCHANGED <<sub, invoice, outside, history>>

\* The invoice is saved as the handler knows it, and the user gets the URL.
AnswerUrl(w) == LET j == job[w] IN
    /\ Running(w, "answer")
    /\ IF MockGateway THEN MarkInvoice(InvoiceOf(j), "paid")
       ELSE IF j.req.kind = "checkout" THEN MarkInvoice(j.pay, "pending")
       ELSE UNCHANGED invoice
    /\ session' = [session EXCEPT ![j.pay] = IF MockGateway THEN "paid" ELSE "open"]
    /\ Finish(w)
    /\ UNCHANGED <<sub, payment, now, sent, due, requests, crashes, history>>

-----------------------------------------------------------------------------
(* The gateway                                                             *)

PayAtGateway(p) ==
    /\ session[p] = "open"
    /\ session' = [session EXCEPT ![p] = "paid"]
    /\ sent' = sent \cup {<<p, "paid">>}
    /\ UNCHANGED <<rows, job, now, due, requests, crashes, history>>

FailAtGateway(p) ==
    /\ session[p] = "open" /\ <<p, "failed">> \notin sent
    /\ sent' = sent \cup {<<p, "failed">>}
    /\ UNCHANGED <<rows, job, now, session, due, requests, crashes, history>>

\* The webhook is called; what was sent may be sent again.
Deliver(w, e) ==
    /\ Running(w, "idle") /\ e \in sent
    /\ Continue(w, e[2], [Idle EXCEPT !.req.kind = "webhook", !.pay = e[1]])
    /\ UNCHANGED <<rows, outside, history>>

-----------------------------------------------------------------------------
(* handlePaymentPaid, handlePaymentFailed                                  *)

\* Mutant: isAlreadyProcessed is not asked.
HandlePaidAgain(w) == LET j == job[w]  pay == payment[job[w].pay] IN
    /\ Running(w, "paid")
    /\ IF pay.status = "none" THEN Refuse(w)
       ELSE SavePayment(w, [pay EXCEPT !.status = "succeeded", !.events = pay.events \cup {"paid"}],
                        "paidInvoice", j)

HandlePaid(w) == LET j == job[w]  pay == payment[job[w].pay] IN
    /\ Running(w, "paid")
    /\ IF pay.status = "none" \/ "paid" \in pay.events THEN Refuse(w)
       ELSE SavePayment(w, [pay EXCEPT !.status = "succeeded", !.events = pay.events \cup {"paid"}],
                        "paidInvoice", j)

\* Mutant: an invoice that the user's own upgrade request settled ends the event.
PaidInvoiceOnce(w) == LET j == job[w]  i == payment[job[w].pay].invoice IN
    /\ Running(w, "paidInvoice")
    /\ IF invoice[i].status = "paid" THEN Finish(w) ELSE Continue(w, "activate", j)
    /\ MarkInvoice(i, "paid")
    /\ UNCHANGED <<sub, payment, outside, history>>

PaidInvoice(w) == LET j == job[w] IN
    /\ Running(w, "paidInvoice")
    /\ MarkInvoice(payment[j.pay].invoice, "paid")
    /\ Continue(w, "activate", j)
    /\ UNCHANGED <<sub, payment, outside, history>>

\* The subscription is loaded without its plan object, so plan_id counts.
Activated(s, inv) ==
    [s EXCEPT !.status = "active", !.plan = inv.plan, !.end = inv.until, !.trialEnd = NoDate]

\* Mutant: the period is left as it was.
ActivateUndated(w) == LET j == job[w]  inv == invoice[payment[job[w].pay].invoice] IN
    /\ Running(w, "activate")
    /\ SaveSub(w, Entity([Activated(sub, inv) EXCEPT !.end = sub.end], NoPlan), "received", j)

Activate(w) == LET j == job[w]  inv == invoice[payment[job[w].pay].invoice] IN
    /\ Running(w, "activate")
    /\ SaveSub(w, Entity(Activated(sub, inv), NoPlan), "received", j)

\* The webhook answers { received: true }.
Received(w) ==
    /\ Running(w, "received")
    /\ applied' = [applied EXCEPT ![job[w].pay] = @ + 1]
    /\ Finish(w)
    /\ UNCHANGED <<rows, outside>>

HandleFailed(w) == LET j == job[w]  pay == payment[job[w].pay] IN
    /\ Running(w, "failed")
    /\ IF pay.status = "none" \/ "failed" \in pay.events THEN Refuse(w)
       ELSE SavePayment(w, [pay EXCEPT !.status = "failed", !.events = pay.events \cup {"failed"}],
                        "failedInvoice", j)

FailedInvoice(w) == LET j == job[w] IN
    /\ Running(w, "failedInvoice")
    /\ MarkInvoice(payment[j.pay].invoice, "failed")
    /\ Finish(w)
    /\ UNCHANGED <<sub, payment, outside, history>>

Pay(w) == \/ OpenCheckout(w) \/ CreateInvoice(w) \/ PayInvoice(w) \/ CreateSession(w)
          \/ RecordPayment(w) \/ AnswerUrl(w)
Webhook(w) == \/ HandlePaid(w) \/ PaidInvoice(w) \/ Activate(w) \/ Received(w)
              \/ HandleFailed(w) \/ FailedInvoice(w)
Gateway == \E p \in Payments : PayAtGateway(p) \/ FailAtGateway(p)
=============================================================================

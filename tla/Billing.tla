------------------------------ MODULE Billing -------------------------------
(***************************************************************************)
(* Billing of one organization: its users' requests, the administrator of  *)
(* the platform, the payment gateway with its webhook, and the cron jobs,  *)
(* all on the same subscription, invoices and payments.                    *)
(***************************************************************************)
EXTENDS SubscriptionService, PaymentsService, RenewalJobs

\* What a worker does by itself once it was started.
Step(w) == ManageSubscription(w) \/ Administer(w) \/ Pay(w) \/ Webhook(w) \/ Saves(w)

Over == now = LastTick /\ due = {} /\ Quiet /\ UNCHANGED vars

Next ==
    \/ \E w \in Workers :
         \/ \E r \in Requests : Request(w, r)
         \/ \E e \in sent : Deliver(w, e)
         \/ Jobs(w)
         \/ Step(w)
         \/ Crash(w)
    \/ Gateway
    \/ Tick
    \/ \E c \in Crons : MissCron(c)
    \/ Over

Spec == Init /\ [][Next]_vars

\* Node runs a handler on when its statement returns.  The scheduler starts what
\* is due and time passes, whatever else goes on (a worker that is busy with
\* repeated events does not hold them up, hence SF).  Nobody has to send a
\* request, to pay, or to deliver an event.
FairSpec == Spec /\ SF_vars(Tick)
                 /\ \A w \in Workers : WF_vars(Step(w)) /\ SF_vars(Jobs(w))

-----------------------------------------------------------------------------
\* Types of the tables and of what is outside.
TypeOK ==
    /\ sub \in SubRow
    /\ invoice \in [Payments -> InvoiceRow]
    /\ payment \in [Payments -> PaymentRow]
    /\ session \in [Payments -> {"none", "created", "open", "paid"}]
    /\ sent \subseteq Payments \X {"paid", "failed"}
    /\ now \in 1 .. LastTick /\ due \subseteq Crons
    /\ requests \in 0 .. MaxRequests /\ crashes \in 0 .. MaxCrashes
    /\ applied \in [Payments -> Nat]

PaidSession(p) == session[p] = "paid"
PaidFor(i) == \E p \in Payments : payment[p].invoice = i /\ PaidSession(p)

\* The organization is on a plan above the trial's only if a checkout session
\* for that plan was paid, whichever of the webhook and the user's own upgrade
\* request comes first and whatever is saved over it (subscription.service.ts:
\* 182-188 and 220-240, paymongo-webhook.controller.ts:107-110).  Without the
\* administrator, who may give a plan away, and without BYPASS_PAYMENT.
PlanIsPaidFor ==
    sub.plan > TrialPlan => \E i \in Payments : PaidFor(i) /\ invoice[i].plan = sub.plan

\* The books never claim money that did not come: a payment that succeeded has a
\* paid session, and a paid invoice has one of some payment on it
\* (paymongo-webhook.controller.ts:84-93, subscription.service.ts:253-263).
NoFalseReceipt ==
    /\ \A p \in Payments : payment[p].status = "succeeded" => PaidSession(p)
    /\ \A i \in Payments : invoice[i].status = "paid" => PaidFor(i)

\* Between requests: a subscription that is active or past due has an end, so
\* that some cron job gets hold of it; no sequence of trials, payments,
\* cancellations and renewals makes one that runs for ever
\* (subscription-renewal.service.ts:31-34, subscription.guard.ts:121-124).
ActiveIsDated == sub.status \in {"active", "past_due"} => sub.end # NoDate

\* The webhook carries a payment out once, however often the gateway repeats the
\* event (docs/subscription-status.md:430-431, isAlreadyProcessed).
AppliedOnce == \A p \in Payments : applied[p] <= 1

\* An event is in processed_events only if its effects are there, because it is
\* skipped from then on: when nobody is at work, the subscription was activated.
ProcessedIsApplied ==
    Quiet => \A p \in Payments : "paid" \in payment[p].events => applied[p] > 0

\* Somebody asked for it: the administrator, or the owner who cancels at once or
\* in the trial (subscription.service.ts:386-387, admin-subscriptions.service.ts:158).
AskedFor(kind) == kind \in {"suspend", "cancelNow"} \/ (kind = "cancel" /\ sub.status = "trial")

\* The trial is over, or the period is: then the subscription is cancelled if the
\* owner said so, and otherwise past due until it is given up.
RanOut(status) ==
    IF sub.status = "trial"
    THEN status = "suspended" /\ TrialOver(sub)
    ELSE /\ sub.end # NoDate /\ sub.end < now
         /\ status = "cancelled" => sub.cancelAtEnd
         /\ status = "suspended" => sub.status = "past_due" /\ GivenUp(sub)

\* A subscription that is on becomes past due, suspended or cancelled only because
\* somebody asked for it or because its trial or its period is over; a period that
\* is over is suspended by way of past due, and cancelled only if that was asked
\* for.  How long the arrears last is NOT claimed.  subscription-renewal.service.ts:87,
\* docs/subscription-status.md:268 and docs/subscription-guide.md:188 speak of three
\* retries over days; GivenUp counts runs of a job that comes every six hours, and
\* nothing resets the count, so that a first arrears ends at the fourth run and a
\* second one may end at its first.
NoEarlySuspension ==
    [][/\ sub.status \in {"trial", "active", "past_due"}
       /\ sub'.status \in {"past_due", "suspended", "cancelled"} /\ sub'.status # sub.status
       => \/ \E w \in Workers : Running(w, "updateSub") /\ AskedFor(job[w].req.kind)
          \/ RanOut(sub'.status)]_vars

\* An organization that is suspended or cancelled is let in again by the
\* administrator or by the webhook of a payment, never by a request of its own or
\* by a cron job (subscription.guard.ts:80-94, and what the jobs look for).  For
\* handlers that do not overlap: the retry job writes back the status it read.
OnlyMoneyOrAdminRevives ==
    [][sub.status \in {"suspended", "cancelled"} /\ sub'.status \notin {"suspended", "cancelled"}
       => \E w \in Workers : Running(w, "updateSub") /\ job[w].req.kind \in {"reactivate", "webhook"}]_vars

\* subscription-renewal.service.ts:23 "Process pending downgrades": a downgrade
\* that is taken off the list at the end of the period is in force.
DowngradeTakesEffect ==
    [][/\ sub.stats.pending # NoPlan /\ sub'.stats.pending = NoPlan
       /\ sub.end # NoDate /\ sub.end < now
       => sub'.plan = sub.stats.pending]_vars

\* An active subscription whose period is over does not stay so: midnight makes
\* it past due or cancelled, or moves the end of the period.  (The clock ends at
\* LastTick; what is overdue less than two days before it is not watched.)
OverdueIsHandled ==
    \A e \in 1 .. LastTick - 2 * Day - 1 :
        (sub.status = "active" /\ sub.end = e /\ e < now /\ now + 2 * Day <= LastTick)
            ~> (sub.status # "active" \/ sub.end # e)
=============================================================================

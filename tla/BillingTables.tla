--------------------------- MODULE BillingTables ----------------------------
(***************************************************************************)
(* The subscription of one organization with its invoices and payments,    *)
(* the payment gateway outside, and what all workers that touch them share. *)
(* A worker is one HTTP request, one webhook call or one run of a cron job; *)
(* it is cut at its SQL statements and gateway calls.  No handler of       *)
(* billing opens a transaction: each statement is committed by itself.     *)
(*                                                                         *)
(* The clock counts quarters of a day, the interval of the shortest cron.  *)
(***************************************************************************)
EXTENDS Integers, FiniteSets, Entities

CONSTANTS
    Workers,        \* requests, webhook calls and cron runs at the same time
    Plans,          \* sort_order of the active plans
    TrialPlan,      \* the plan a registration starts with
    Payments,       \* bound: checkout sessions (and invoices) ever opened
    Kinds,          \* the kinds of request that are sent
    Period,         \* length of a billing period (30 days, or 365)
    Trial,          \* length of the trial
    Grace,          \* days a subscription may be past due (14)
    LastTick,       \* bound: quarters of a day in a behaviour
    MaxRequests,    \* bound: requests of users and administrators
    MaxCrashes,     \* bound: handlers cut short, or cron runs missed
    BypassPayment,  \* the setting BYPASS_PAYMENT
    MockGateway     \* MockPaymentService is wired in instead of PayMongo

VARIABLES
    now,        \* the server's clock
    sub,        \* the row of table subscriptions
    invoice,    \* table invoices
    payment,    \* table payments, under their gateway_payment_id
    session,    \* the checkout sessions at the gateway
    sent,       \* the webhook events the gateway may deliver, again and again
    due,        \* cron jobs that still have to start
    job,        \* what each worker is doing
    requests,   \* how many requests were sent
    crashes,    \* how many crashes happened
    applied     \* history: how often a webhook of a payment activated the subscription

rows    == <<sub, invoice, payment>>
outside == <<now, session, sent, due, requests, crashes>>
history == <<applied>>
vars    == <<rows, outside, job, history>>

-----------------------------------------------------------------------------
NoPlan    == 0
NoDate    == 0
NoPayment == "none"

\* usage_stats is one jsonb column, written as a whole.
Stats   == [pending : Plans \cup {NoPlan}, retries : Nat]
NoStats == [pending |-> NoPlan, retries |-> 0]

SubRow == [status : {"trial", "active", "past_due", "suspended", "cancelled"},
           plan : Plans, end : Nat, trialEnd : Nat, cancelAtEnd : BOOLEAN, stats : Stats]
InvoiceRow == [status : {"none", "pending", "paid", "failed"}, plan : Plans \cup {NoPlan}, until : Nat]
PaymentRow == [status : {"none", "pending", "succeeded", "failed"},
               invoice : Payments \cup {NoPayment}, target : Plans \cup {NoPlan},
               events : SUBSET {"paid", "failed"}, made : Nat]

UnusedInvoice == [status |-> "none", plan |-> NoPlan, until |-> NoDate]
UnusedPayment == [status |-> "none", invoice |-> NoPayment, target |-> NoPlan,
                  events |-> {}, made |-> NoDate]

\* A handler between requests, and its local variables: the request, the payment
\* it works on, the entity being saved and the columns to update, the subscription
\* as loaded, and where it goes on after the save.
NoRequest == [kind |-> "none", plan |-> NoPlan, pay |-> NoPayment]
Unloaded  == [status |-> "none"]
Idle == [at |-> "idle", req |-> NoRequest, pay |-> NoPayment, ent |-> Unloaded,
         cols |-> {}, sub |-> Unloaded, then |-> "idle"]

Crons == {"renew", "retry", "remind"}
Day   == 4
\* Midnight, every six hours, and 10 AM, which falls into the second quarter.
Scheduled(t) == {"retry"} \cup (IF t % Day = 0 THEN {"renew"} ELSE {})
                          \cup (IF t % Day = 1 THEN {"remind"} ELSE {})

ASSUME BillingAssumption ==
    /\ Plans \subseteq Nat \ {0} /\ TrialPlan \in Plans
    /\ Payments # {} /\ NoPayment \notin Payments
    /\ Period \in Nat \ {0} /\ Trial \in Nat \ {0} /\ Grace \in Nat
    /\ LastTick \in Nat \ {0} /\ MaxRequests \in Nat /\ MaxCrashes \in Nat
    /\ BypassPayment \in BOOLEAN /\ MockGateway \in BOOLEAN

Init ==
    /\ now = 1
    /\ sub = [status |-> "trial", plan |-> TrialPlan, end |-> NoDate, trialEnd |-> 1 + Trial,
              cancelAtEnd |-> FALSE, stats |-> NoStats]
    /\ invoice = [p \in Payments |-> UnusedInvoice]
    /\ payment = [p \in Payments |-> UnusedPayment]
    /\ session = [p \in Payments |-> "none"]
    /\ sent = {} /\ due = {}
    /\ job = [w \in Workers |-> Idle]
    /\ requests = 0 /\ crashes = 0
    /\ applied = [p \in Payments |-> 0]

-----------------------------------------------------------------------------
Running(w, l) == job[w].at = l
Continue(w, l, j) == job' = [job EXCEPT ![w] = [j EXCEPT !.at = l]]
Finish(w) == job' = [job EXCEPT ![w] = Idle]
GoOn(w) == IF job[w].then = "idle" THEN Finish(w) ELSE Continue(w, job[w].then, job[w])

\* A step that only reads ends in one of these.
Read(w, l, j) == Continue(w, l, j) /\ UNCHANGED <<rows, outside, history>>
Refuse(w) == Finish(w) /\ UNCHANGED <<rows, outside, history>>

\* Mutant of Blocked: only the dates are looked at.
LapsedOnly(s) == \/ s.status = "trial" /\ s.trialEnd # NoDate /\ now > s.trialEnd
                 \/ s.status = "active" /\ s.end # NoDate /\ now > s.end

\* SubscriptionGuard, in front of every handler of billing and payments.
Lapsed(s) == \/ s.status = "trial" /\ s.trialEnd # NoDate /\ now > s.trialEnd
             \/ s.status = "active" /\ s.end # NoDate /\ now > s.end
Blocked(s) == Lapsed(s) \/ s.status \in {"suspended", "cancelled"}

\* An entity of table subscriptions: its columns, and the plan object the query
\* loaded (NoPlan when it loaded none).  On save the object decides, not plan_id.
Entity(row, rel) == [row |-> row, rel |-> rel]
ToColumns(e) == IF e.rel = NoPlan THEN e.row ELSE [e.row EXCEPT !.plan = e.rel]

\* repository.save(entity) selects the row, and updates the columns that differ.
SaveSub(w, e, l, j) == Read(w, "selectSub", [j EXCEPT !.ent = ToColumns(e), !.then = l])
SelectSub(w) == LET j == job[w]
                    cols == Changed(j.ent, sub) IN
    /\ Running(w, "selectSub")
    /\ IF cols = {} THEN GoOn(w) ELSE Continue(w, "updateSub", [j EXCEPT !.cols = cols])
    /\ UNCHANGED <<rows, outside, history>>

UpdateSub(w) == LET j == job[w] IN
    /\ Running(w, "updateSub")
    /\ sub' = Patched(sub, j.ent, j.cols)
    /\ GoOn(w)
    /\ UNCHANGED <<invoice, payment, outside, applied>>

SavePayment(w, e, l, j) == Read(w, "selectPayment", [j EXCEPT !.ent = e, !.then = l])
SelectPayment(w) == LET j == job[w]
                        cols == Changed(j.ent, payment[j.pay]) IN
    /\ Running(w, "selectPayment")
    /\ IF cols = {} THEN GoOn(w) ELSE Continue(w, "updatePayment", [j EXCEPT !.cols = cols])
    /\ UNCHANGED <<rows, outside, history>>

UpdatePayment(w) == LET j == job[w] IN
    /\ Running(w, "updatePayment")
    /\ payment' = [payment EXCEPT ![j.pay] = Patched(payment[j.pay], j.ent, j.cols)]
    /\ GoOn(w)
    /\ UNCHANGED <<sub, invoice, outside, history>>

\* Mutant: the status of a payment is written into the invoice.
MarkInvoiceSucceeded(i, s) ==
    invoice' = [invoice EXCEPT ![i].status = IF s = "paid" THEN "succeeded" ELSE s]

\* UPDATE invoices SET status
MarkInvoice(i, s) == invoice' = [invoice EXCEPT ![i].status = s]

Saves(w) == SelectSub(w) \/ UpdateSub(w) \/ SelectPayment(w) \/ UpdatePayment(w)

-----------------------------------------------------------------------------
ByAdmin  == {"suspend", "reactivate", "changePlan"}
WithPlan == {"checkout", "downgrade", "changePlan"}
Opening  == {"checkout", "payInvoice"}      \* opens a checkout session
OfOwner  == {"upgrade", "downgrade", "cancelDowngrade", "cancel", "cancelNow"}

\* There is a handler for every kind of request that is sent.
ASSUME KindsAssumption == Kinds \subseteq Opening \cup OfOwner \cup ByAdmin

Requests ==
    {r \in [kind : Kinds, plan : Plans \cup {NoPlan}, pay : Payments \cup {NoPayment}] :
        CASE r.kind = "upgrade"    -> r.plan # NoPlan
          [] r.kind \in WithPlan   -> r.plan # NoPlan /\ r.pay = NoPayment
          [] r.kind = "payInvoice" -> r.plan = NoPlan /\ r.pay # NoPayment
          [] OTHER                 -> r.plan = NoPlan /\ r.pay = NoPayment}

\* An id for a new session (and for its invoice, if it gets one).
Unused(p) == invoice[p].status = "none" /\ session[p] = "none" /\ \A w \in Workers : job[w].pay # p

\* A request arrives; the guard looks at the subscription first, except before
\* the platform administrator's handlers.
Request(w, r) ==
    /\ Running(w, "idle") /\ requests < MaxRequests
    /\ r.kind \in ByAdmin \/ ~Blocked(sub)
    /\ requests' = requests + 1
    /\ IF r.kind \in Opening
       THEN \E p \in Payments : Unused(p) /\ Continue(w, r.kind, [Idle EXCEPT !.req = r, !.pay = p])
       ELSE Continue(w, r.kind, [Idle EXCEPT !.req = r])
    /\ UNCHANGED <<rows, now, session, sent, due, crashes, history>>

Quiet == \A w \in Workers : Running(w, "idle")

\* The clock.  The cron jobs of the last quarter have run, and no handler lasts
\* longer than the quarter in which it started.
Tick ==
    /\ now < LastTick /\ due = {} /\ Quiet
    /\ now' = now + 1 /\ due' = Scheduled(now + 1)
    /\ UNCHANGED <<rows, job, session, sent, requests, crashes, history>>

\* A handler is cut short, or the process was down when a cron job was due.
Crash(w) ==
    /\ ~Running(w, "idle") /\ crashes < MaxCrashes
    /\ crashes' = crashes + 1
    /\ Finish(w)
    /\ UNCHANGED <<rows, now, session, sent, due, requests, history>>

MissCron(c) ==
    /\ c \in due /\ crashes < MaxCrashes
    /\ crashes' = crashes + 1 /\ due' = due \ {c}
    /\ UNCHANGED <<rows, job, now, session, sent, requests, history>>
=============================================================================

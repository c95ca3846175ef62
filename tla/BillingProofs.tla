--------------------------- MODULE BillingProofs ----------------------------
(***************************************************************************)
(* Theorems about Billing, for any number of handlers, users, sessions and *)
(* plans.                                                                  *)
(***************************************************************************)
EXTENDS Billing, TLAPS

-----------------------------------------------------------------------------
(* What the handlers know about the row, the payment and the session they   *)
(* work on: the inductive invariants.                                       *)

JobNames == {"at", "req", "pay", "ent", "cols", "sub", "then"}

\* Where a handler that opens a checkout session stands.
Openers    == Opening \cup {"createInvoice", "createSession", "recordPayment", "answer"}
Unopened   == Opening \cup {"createInvoice", "createSession"}
SavingSub  == {"selectSub", "updateSub"}
SavingPay  == {"selectPayment", "updatePayment"}
PaidEvent  == {"paid", "paidInvoice", "activate"}
Statements == {"idle"} \cup Openers \cup OfOwner \cup {"validate", "verify", "settle", "confirm"}
              \cup ByAdmin \cup SavingSub \cup SavingPay \cup PaidEvent
              \cup {"received", "failed", "failedInvoice"}

Recorded(p) == payment[p].status # "none"

\* A payment entity was loaded from the table: what identifies it is as stored,
\* and it claims success only for money that came.
LoadedPayment(p, e) ==
    /\ p \in Payments /\ Recorded(p)
    /\ e \in PaymentRow /\ e.status # "none"
    /\ e.invoice = payment[p].invoice /\ e.target = payment[p].target /\ e.made = payment[p].made
    /\ e.status = "succeeded" => PaidSession(p)

\* The request of an opener, and the invoice it opens a session for.
OpenerRequest(r) ==
    \/ r.kind = "checkout" /\ r.plan \in Plans
    \/ r.kind = "payInvoice" /\ r.plan = NoPlan /\ r.pay \in Payments

\* An opener has its payment id for itself.
OpenerKnows(j) ==
    /\ j.pay \in Payments /\ OpenerRequest(j.req)
    /\ j.at \in Unopened => session[j.pay] = "none"
    /\ j.at # "answer" => ~Recorded(j.pay)
    /\ j.at \in {"checkout", "createInvoice"} => j.req.kind = "checkout" /\ invoice[j.pay].status = "none"
    /\ j.at = "payInvoice" => j.req.kind = "payInvoice"
    /\ j.at \in {"createSession", "recordPayment", "answer"} => invoice[InvoiceOf(j)].status # "none"
    /\ j.at \in {"createSession", "recordPayment"} /\ j.req.kind = "checkout"
       => invoice[j.pay].plan = j.req.plan
    /\ j.at \in {"recordPayment", "answer"}
       => session[j.pay] = IF MockGateway THEN "paid" ELSE "created"
    /\ j.at = "answer" => Recorded(j.pay) /\ payment[j.pay].invoice = InvoiceOf(j)

\* Every other handler, at the statement where it stands.
HandlerKnows(j) ==
    /\ j.at \in {"upgrade", "downgrade", "changePlan", "validate", "verify", "settle", "confirm"}
       => j.req.plan \in Plans
    /\ j.at \in {"validate", "verify", "settle", "confirm"} => j.sub \in SubRow
    /\ j.at \in {"verify", "settle"} \cup SavingPay => LoadedPayment(j.pay, j.ent)
    /\ j.at \in SavingPay => j.then \in {"settle", "paidInvoice", "failedInvoice"}
    /\ j.at = "verify" => j.ent.target = j.req.plan
    /\ j.at = "settle" \/ (j.at \in SavingPay /\ j.then = "settle")
       => /\ j.req.plan \in Plans /\ j.sub \in SubRow
          /\ j.ent.target = j.req.plan /\ j.ent.status = "succeeded"
    /\ j.at \in SavingPay /\ j.then = "paidInvoice" => j.ent.status = "succeeded"
    /\ j.at \in PaidEvent => j.pay \in Payments /\ PaidSession(j.pay)
    /\ j.at \in {"paidInvoice", "activate", "failedInvoice"} => j.pay \in Payments /\ Recorded(j.pay)
    /\ j.at \in {"received", "failed"} => j.pay \in Payments
    /\ j.at \in SavingSub => /\ j.ent \in SubRow /\ j.then \in {"idle", "received"}
                             /\ j.then = "received" => j.pay \in Payments

\* A handler with its request and its local variables.
JobSound(j) ==
    /\ DOMAIN j = JobNames /\ DOMAIN j.req = {"kind", "plan", "pay"}
    /\ j.at \in Statements
    /\ j.req.plan \in Plans \cup {NoPlan} /\ j.req.pay \in Payments \cup {NoPayment}
    /\ IF j.at \in Openers THEN OpenerKnows(j) ELSE HandlerKnows(j)

JobsSound ==
    /\ DOMAIN job = Workers
    /\ \A w \in Workers : JobSound(job[w])

\* No two openers have one payment id.
OpenersApart ==
    \A u, v \in Workers :
        (u # v /\ job[u].at \in Openers /\ job[v].at \in Openers) => job[u].pay # job[v].pay

\* An invoice that was created keeps its plan and its date.
InvoicesDated == \A i \in Payments : invoice[i].status # "none" => invoice[i].plan \in Plans /\ invoice[i].until > 0

\* A recorded payment is on an invoice, and belongs to a session; the one of an
\* upgrade is on the invoice that was created for it.
PaymentsBooked ==
    \A p \in Payments :
        /\ ~Recorded(p) => payment[p] = UnusedPayment
        /\ Recorded(p) => /\ payment[p].invoice \in Payments
                          /\ invoice[payment[p].invoice].status # "none"
                          /\ session[p] # "none"
        /\ payment[p].target # NoPlan => /\ payment[p].invoice = p
                                         /\ invoice[p].plan = payment[p].target

\* The gateway speaks of sessions whose address it gave out.
EventsTrue ==
    \A e \in sent : /\ session[e[1]] \in {"open", "paid"}
                    /\ e[2] = "paid" => PaidSession(e[1])

\* The inductive invariant of Billing, for handlers that overlap in any way.
BooksSound ==
    /\ TypeOK
    /\ JobsSound
    /\ OpenersApart
    /\ InvoicesDated
    /\ PaymentsBooked
    /\ EventsTrue
    /\ NoFalseReceipt

-----------------------------------------------------------------------------
(* Plans that are paid for                                                 *)

\* Nobody gives a plan away: no administrator at work, payments not bypassed.
OnlyForMoney == ~BypassPayment /\ Kinds \cap ByAdmin = {}

\* The trial is on the second of three plans (auth.service.ts:390,
\* 1707400000000-AddSubscriptionTables.ts:88-122).
OnePlanAboveTrial == \A p, q \in Plans : p > TrialPlan /\ q > TrialPlan => p = q

\* A plan the organization may be put on.
Funded(q) == q > TrialPlan => \E i \in Payments : PaidFor(i) /\ invoice[i].plan = q

PlanKnown(j) ==
    /\ j.at \in SavingSub => Funded(j.ent.plan)
    /\ j.at = "confirm" => Funded(j.req.plan)
    /\ j.at \notin ByAdmin

\* The plan of the row, and every plan that a handler is about to write, is paid.
PlansFunded ==
    /\ Funded(sub.plan)
    /\ \A w \in Workers : PlanKnown(job[w])

-----------------------------------------------------------------------------
(* One handler at a time                                                   *)

OneAtATime == \A u, v \in Workers : u = v
NoAdmin    == Kinds \cap ByAdmin = {}

Off      == {"suspended", "cancelled"}
Revivers == {"reactivate", "webhook"}

\* A handler of this kind may make the row s of the one that is there.
Proper(kind, s) ==
    /\ sub.status \in Off /\ kind \notin Revivers => s.status \in Off
    /\ NoAdmin /\ s.status = "active" => s.end # NoDate
    /\ s.status = "past_due" => s.end # NoDate /\ s.end < now
    /\ sub.status \notin Off /\ s.status \in Off \cup {"past_due"} /\ s.status # sub.status
       => AskedFor(kind) \/ RanOut(s.status)

\* From the guard to the end of an upgrade.
Upgrading(j) == \/ j.at \in {"upgrade", "validate", "verify", "settle", "confirm"}
                \/ j.at \in SavingPay /\ j.then = "settle"

\* What a handler knows of the subscription while no other one runs.
SubKnown(j) ==
    /\ j.at \in SavingSub => Proper(j.req.kind, j.ent)
    /\ j.at = "updateSub" => j.cols = Changed(j.ent, sub)
    /\ Upgrading(j) => sub.status \notin Off
    /\ j.at \in PaidEvent \/ (j.at \in SavingPay /\ j.then = "paidInvoice") => j.req.kind = "webhook"
    /\ j.at \in ByAdmin => ~NoAdmin
    /\ j.at \in ByAdmin \cup {"cancel", "cancelNow"} => j.req.kind = j.at

SubscriptionProper ==
    /\ Proper("none", sub)
    /\ \A w \in Workers : SubKnown(job[w])

\* The webhook has saved the event of its payment and not yet counted it.
InFlight(j) == \/ j.at \in {"paidInvoice", "activate", "received"}
               \/ j.at \in SavingSub /\ j.then = "received"

\* A payment entity has the event "paid" if the row has it or the webhook adds it.
EventKnown(j) ==
    /\ j.at = "verify" => ("paid" \in j.ent.events <=> "paid" \in payment[j.pay].events)
    /\ j.at \in SavingPay /\ j.then # "paidInvoice" =>
         ("paid" \in j.ent.events <=> "paid" \in payment[j.pay].events)
    /\ j.at \in SavingPay /\ j.then = "paidInvoice" =>
         "paid" \in j.ent.events /\ "paid" \notin payment[j.pay].events
    /\ j.at = "updatePayment" => j.cols = Changed(j.ent, payment[j.pay])
    /\ InFlight(j) => "paid" \in payment[j.pay].events /\ applied[j.pay] = 0

\* Every event in the table was carried out once, or its handler is at it (or was
\* cut short).
EventsCarriedOut ==
    /\ \A w \in Workers : EventKnown(job[w])
    /\ \A p \in Payments :
         /\ applied[p] \in {0, 1}
         /\ applied[p] = 1 => "paid" \in payment[p].events
         /\ MaxCrashes = 0 /\ "paid" \in payment[p].events =>
              applied[p] = 1 \/ \E w \in Workers : InFlight(job[w]) /\ job[w].pay = p

-----------------------------------------------------------------------------
(* Tables                                                                  *)

\* What no step takes back: recorded payments stay what they are for, what was
\* paid stays paid, and a created invoice keeps its plan and its date.
Kept ==
    /\ \A p \in Payments : Recorded(p) =>
         /\ Recorded(p)'
         /\ payment'[p].invoice = payment[p].invoice
         /\ payment'[p].target = payment[p].target
         /\ payment'[p].made = payment[p].made
    /\ \A p \in Payments : PaidSession(p) => PaidSession(p)'
    /\ \A i \in Payments : invoice[i].status # "none" =>
         /\ invoice'[i].status # "none"
         /\ invoice'[i].plan = invoice[i].plan
         /\ invoice'[i].until = invoice[i].until

\* A step leaves alone what an opener has for itself.
LeftAlone(p) ==
    /\ session'[p] = session[p]
    /\ ~Recorded(p) => ~Recorded(p)'
    /\ invoice[p].status = "none" => invoice'[p].status = "none"

\* What a handler knows stays true while the others work.
LEMMA KnowledgeStays ==
    ASSUME TypeOK, NEW j, JobSound(j), Kept,
           j.at \in Openers => LeftAlone(j.pay)
    PROVE  JobSound(j)'
<1>1. CASE j.at \in Openers
  <2>1. OpenerKnows(j)
    BY <1>1 DEF JobSound
  <2>2. LeftAlone(j.pay) /\ j.pay \in Payments /\ (j.at \notin {"checkout", "createInvoice", "payInvoice"} => InvoiceOf(j) \in Payments)
    BY <1>1, <2>1 DEF OpenerKnows, InvoiceOf, OpenerRequest
  <2>3. OpenerKnows(j)'
    BY <2>1, <2>2 DEF OpenerKnows, LeftAlone, Kept, InvoiceOf, OpenerRequest, Recorded
  <2> QED
    BY <1>1, <2>3 DEF JobSound
<1>2. CASE j.at \notin Openers
  <2>1. HandlerKnows(j)
    BY <1>2 DEF JobSound
  <2>2. HandlerKnows(j)'
    BY <2>1 DEF HandlerKnows, LoadedPayment, Kept
  <2> QED
    BY <1>2, <2>2 DEF JobSound
<1> QED
  BY <1>1, <1>2

\* One handler goes on to k while the others stay where they are.
LEMMA OneMoves ==
    ASSUME BooksSound, NEW w \in Workers, NEW k, Kept,
           job' = [job EXCEPT ![w] = k], JobSound(k)',
           \A u \in Workers \ {w} : job[u].at \in Openers => LeftAlone(job[u].pay),
           k.at \in Openers =>
              \/ job[w].at \in Openers /\ k.pay = job[w].pay
              \/ \A u \in Workers : job[u].pay # k.pay
    PROVE  JobsSound' /\ OpenersApart'
<1>1. \A u \in Workers \ {w} : JobSound(job[u])'
  BY KnowledgeStays DEF BooksSound, JobsSound
<1>2. DOMAIN job' = Workers /\ job'[w] = k /\ \A u \in Workers \ {w} : job'[u] = job[u]
  BY DEF BooksSound, JobsSound
<1>3. JobsSound'
  BY <1>1, <1>2 DEF JobsSound
<1>4. OpenersApart'
  BY <1>2 DEF OpenersApart, BooksSound
<1> QED
  BY <1>3, <1>4

\* A step that reads: only the handler's own variables change.
LEMMA ReadKeepsBooks ==
    ASSUME BooksSound, NEW w \in Workers, NEW k,
           UNCHANGED <<rows, outside>>, applied' \in [Payments -> Nat],
           job' = [job EXCEPT ![w] = k], JobSound(k),
           k.at \in Openers => job[w].at \in Openers /\ k.pay = job[w].pay
    PROVE  BooksSound' /\ Kept
<1> USE DEF rows, outside
<1>1. Kept /\ \A p \in Payments : LeftAlone(p)
  BY DEF Kept, LeftAlone, Recorded, PaidSession
<1>2. \A u \in Workers : job[u].at \in Openers => job[u].pay \in Payments
  BY DEF BooksSound, JobsSound, JobSound, OpenerKnows
<1>3. JobSound(k)'
  BY <1>1, KnowledgeStays DEF BooksSound, JobSound, OpenerKnows
<1>4. JobsSound' /\ OpenersApart'
  BY <1>1, <1>2, <1>3, OneMoves
<1>5. TypeOK'
  BY DEF BooksSound, TypeOK
<1>6. InvoicesDated' /\ PaymentsBooked' /\ EventsTrue' /\ NoFalseReceipt'
  BY DEF BooksSound, InvoicesDated, PaymentsBooked, EventsTrue, NoFalseReceipt, Recorded, PaidSession, PaidFor
<1> QED
  BY <1>1, <1>4, <1>5, <1>6 DEF BooksSound

\* Between requests a handler knows nothing.
LEMMA IdleSound == JobSound(Idle)
  BY DEF JobSound, Idle, JobNames, NoRequest, Statements, Openers, Opening, HandlerKnows,
         SavingPay, SavingSub, PaidEvent

\* A request that is refused.
LEMMA RefuseKeepsBooks ==
    ASSUME BooksSound, NEW w \in Workers, Refuse(w)
    PROVE  BooksSound' /\ Kept
<1>1. Idle.at \notin Openers
  BY DEF Idle, Openers, Opening
<1> QED
  BY <1>1, IdleSound, ReadKeepsBooks DEF Refuse, Finish, history, BooksSound, TypeOK

\* Loading a row and going on.
LEMMA ContinueKeepsBooks ==
    ASSUME BooksSound, NEW w \in Workers, NEW l, NEW j, Read(w, l, j),
           JobSound([j EXCEPT !.at = l]), DOMAIN j = JobNames,
           l \in Openers => job[w].at \in Openers /\ j.pay = job[w].pay
    PROVE  BooksSound' /\ Kept
<1> DEFINE k == [j EXCEPT !.at = l]
<1>1. k.at = l /\ k.pay = j.pay
  BY DEF JobNames
<1> QED
  BY <1>1, ReadKeepsBooks DEF Read, Continue, history, BooksSound, TypeOK

\* Saving a subscription entity that fits its table.
LEMMA SaveSubKeepsBooks ==
    ASSUME BooksSound, NEW w \in Workers, NEW row \in SubRow, NEW rel \in Plans \cup {NoPlan},
           NEW l \in {"idle", "received"}, l = "received" => job[w].pay \in Payments,
           SaveSub(w, Entity(row, rel), l, job[w])
    PROVE  BooksSound' /\ Kept
<1> DEFINE e == ToColumns(Entity(row, rel))
           j == [job[w] EXCEPT !.ent = e, !.then = l]
           k == [j EXCEPT !.at = "selectSub"]
<1>1. e \in SubRow
  BY DEF Entity, ToColumns, SubRow
<1> HIDE DEF e
<1>2. JobSound(job[w])
  BY DEF BooksSound, JobsSound
<1>3. /\ DOMAIN j = JobNames /\ DOMAIN k = JobNames /\ k.at = "selectSub" /\ k.req = job[w].req
      /\ k.ent = e /\ k.then = l /\ k.pay = job[w].pay
  BY <1>2 DEF JobSound, JobNames
<1> HIDE DEF j, k
<1>4. JobSound(k)
  BY <1>1, <1>2, <1>3 DEF JobSound, HandlerKnows, Statements, SavingSub, SavingPay, PaidEvent, Openers, Opening
<1>5. Read(w, "selectSub", j)
  BY DEF SaveSub, j, e
<1> QED
  BY <1>3, <1>4, <1>5, ContinueKeepsBooks DEF Openers, Opening, k

\* Saving a payment entity.
LEMMA SavePaymentKeepsBooks ==
    ASSUME BooksSound, NEW w \in Workers, NEW e, NEW l, NEW j, SavePayment(w, e, l, j),
           JobSound(job[w]) , j = job[w],
           LoadedPayment(j.pay, e),
           l \in {"settle", "paidInvoice", "failedInvoice"},
           l \in {"settle", "paidInvoice"} => e.status = "succeeded",
           l = "settle" => j.req.plan \in Plans /\ j.sub \in SubRow /\ e.target = j.req.plan
    PROVE  BooksSound' /\ Kept
<1> DEFINE i == [j EXCEPT !.ent = e, !.then = l]
           k == [i EXCEPT !.at = "selectPayment"]
<1>1. /\ DOMAIN i = JobNames /\ DOMAIN k = JobNames /\ k.at = "selectPayment" /\ k.req = j.req
      /\ k.ent = e /\ k.then = l /\ k.pay = j.pay /\ k.sub = j.sub
  BY DEF JobSound, JobNames
<1>2. Read(w, "selectPayment", i)
  BY DEF SavePayment
<1> HIDE DEF i
<1> HIDE DEF k
<1>3. JobSound(k)
  BY <1>1 DEF JobSound, HandlerKnows, Statements, SavingSub, SavingPay, PaidEvent, Openers, Opening
<1> QED
  BY <1>1, <1>2, <1>3, ContinueKeepsBooks DEF Openers, Opening, k

-----------------------------------------------------------------------------
(* Requests about the subscription                                         *)

LEMMA UpgradeKeepsBooks ==
    ASSUME BooksSound, NEW w \in Workers, Upgrade(w)
    PROVE  BooksSound' /\ Kept
<1> DEFINE p == job[w].req.plan
           j == [job[w] EXCEPT !.sub = sub]
<1>1. JobSound(job[w]) /\ job[w].at = "upgrade" /\ p \in Plans
  BY DEF BooksSound, JobsSound, JobSound, Upgrade, Running, HandlerKnows, Openers, Opening
<1>2. sub \in SubRow
  BY DEF BooksSound, TypeOK
<1>3. CASE Refuse(w)
  BY <1>3, RefuseKeepsBooks
<1>4. CASE SaveSub(w, Entity(Upgraded(sub, p), p), "idle", job[w])
  <2>1. now + Period \in Nat /\ NoDate \in Nat
    BY BillingAssumption DEF NoDate, BooksSound, TypeOK
  <2>2. Upgraded(sub, p) \in SubRow
    BY <1>1, <1>2, <2>1 DEF Upgraded, SubRow
  <2> QED
    BY <1>1, <1>4, <2>2, SaveSubKeepsBooks
<1>5. CASE Read(w, "validate", j)
  <2>1. /\ DOMAIN j = JobNames /\ DOMAIN [j EXCEPT !.at = "validate"] = JobNames
        /\ j.sub = sub /\ j.req = job[w].req
        /\ [j EXCEPT !.at = "validate"].at = "validate"
        /\ [j EXCEPT !.at = "validate"].req = job[w].req /\ [j EXCEPT !.at = "validate"].sub = sub
    BY <1>1 DEF JobSound, JobNames
  <2>2. JobSound([j EXCEPT !.at = "validate"])
    BY <1>1, <1>2, <2>1 DEF JobSound, HandlerKnows, Statements, SavingSub, SavingPay, PaidEvent, Openers, Opening
  <2> QED
    BY <1>5, <2>1, <2>2, ContinueKeepsBooks DEF Openers, Opening
<1> QED
  BY <1>3, <1>4, <1>5 DEF Upgrade

\* The payment of an upgrade is checked before the plan is given.
LEMMA ValidateKeepsBooks ==
    ASSUME BooksSound, NEW w \in Workers, Validate(w)
    PROVE  BooksSound' /\ Kept
<1> DEFINE j == job[w]
           p == j.req.pay
           e == payment[p]
<1>1. JobSound(j) /\ j.at = "validate" /\ j.req.plan \in Plans /\ j.sub \in SubRow
  BY DEF BooksSound, JobsSound, JobSound, Validate, Running, HandlerKnows, Openers, Opening
<1>2. CASE Refuse(w)
  BY <1>2, RefuseKeepsBooks
<1>3. CASE Read(w, "confirm", j)
  <2> DEFINE k == [j EXCEPT !.at = "confirm"]
  <2>1. DOMAIN j = JobNames /\ DOMAIN k = JobNames /\ k.at = "confirm" /\ k.req = j.req /\ k.sub = j.sub
    BY <1>1 DEF JobSound, JobNames
  <2>2. JobSound(k)
    BY <1>1, <2>1 DEF JobSound, HandlerKnows, Statements, SavingSub, SavingPay, PaidEvent, Openers, Opening
  <2> QED
    BY <1>3, <2>1, <2>2, ContinueKeepsBooks DEF Openers, Opening
<1>4. CASE /\ p # NoPayment /\ Recorded(p) /\ e.target = j.req.plan
           /\ Read(w, "verify", [j EXCEPT !.pay = p, !.ent = e])
  <2> DEFINE i == [j EXCEPT !.pay = p, !.ent = e]
             k == [i EXCEPT !.at = "verify"]
  <2>1. /\ DOMAIN i = JobNames /\ DOMAIN k = JobNames /\ k.at = "verify" /\ k.req = j.req
        /\ k.sub = j.sub /\ k.pay = p /\ k.ent = e
    BY <1>1 DEF JobSound, JobNames
  <2>2. LoadedPayment(p, e)
    <3>1. p \in Payments /\ e \in PaymentRow
      BY <1>1, <1>4 DEF JobSound, BooksSound, TypeOK
    <3> QED
      BY <1>4, <3>1 DEF LoadedPayment, Recorded, BooksSound, NoFalseReceipt
  <2>3. e.target = j.req.plan /\ Read(w, "verify", i)
    BY <1>4
  <2> HIDE DEF p, e, j, i, k
  <2>4. JobSound(k)
    BY <1>1, <2>1, <2>2, <2>3 DEF JobSound, HandlerKnows, Statements, SavingSub, SavingPay, PaidEvent, Openers, Opening
  <2> QED
    BY <2>1, <2>3, <2>4, ContinueKeepsBooks DEF Openers, Opening, k
<1> QED
  BY <1>2, <1>3, <1>4 DEF Validate, Recorded

LEMMA VerifyKeepsBooks ==
    ASSUME BooksSound, NEW w \in Workers, Verify(w)
    PROVE  BooksSound' /\ Kept
<1> DEFINE j == job[w]
           e == [j.ent EXCEPT !.status = "succeeded"]
<1>1. /\ JobSound(j) /\ j.at = "verify" /\ j.req.plan \in Plans /\ j.sub \in SubRow
      /\ LoadedPayment(j.pay, j.ent) /\ j.ent.target = j.req.plan
  BY DEF BooksSound, JobsSound, JobSound, Verify, Running, HandlerKnows, Openers, Opening
<1>2. CASE Refuse(w)
  BY <1>2, RefuseKeepsBooks
<1>3. CASE PaidSession(j.pay) /\ SavePayment(w, e, "settle", j)
  <2>1. LoadedPayment(j.pay, e) /\ e.status = "succeeded" /\ e.target = j.req.plan
    BY <1>1, <1>3 DEF LoadedPayment, PaymentRow
  <2> QED
    BY <1>1, <1>3, <2>1, SavePaymentKeepsBooks
<1>4. CheckoutStatus(j.pay) \subseteq {"error", "awaiting"} \cup (IF PaidSession(j.pay) THEN {"succeeded"} ELSE {})
  BY DEF CheckoutStatus, PaidSession
<1> QED
  BY <1>2, <1>3, <1>4 DEF Verify

\* The subscription as it was loaded is saved with the new plan.
LEMMA ConfirmKeepsBooks ==
    ASSUME BooksSound, NEW w \in Workers, Confirm(w)
    PROVE  BooksSound' /\ Kept
<1> DEFINE j == job[w]
<1>1. j.at = "confirm" /\ j.req.plan \in Plans /\ j.sub \in SubRow
  BY DEF BooksSound, JobsSound, JobSound, Confirm, Running, HandlerKnows, Openers, Opening
<1>2. now + Period \in Nat /\ NoDate \in Nat
  BY BillingAssumption DEF NoDate, BooksSound, TypeOK
<1>3. Upgraded(j.sub, j.req.plan) \in SubRow
  BY <1>1, <1>2 DEF Upgraded, SubRow
<1> QED
  BY <1>1, <1>3, SaveSubKeepsBooks DEF Confirm

\* The requests that save what they loaded at once.
LEMMA ManagedKeepBooks ==
    ASSUME BooksSound, NEW w \in Workers,
           Downgrade(w) \/ CancelDowngrade(w) \/ Cancel(w) \/ Administer(w)
    PROVE  BooksSound' /\ Kept
<1> DEFINE p == job[w].req.plan
<1>1. sub \in SubRow /\ NoPlan \in Plans \cup {NoPlan} /\ sub.plan \in Plans
  BY DEF BooksSound, TypeOK, SubRow
<1>2. job[w].at \in {"downgrade", "changePlan"} => p \in Plans
  BY DEF BooksSound, JobsSound, JobSound, HandlerKnows, Openers, Opening
<1>3. SUFFICES ASSUME NEW row \in SubRow, NEW rel \in Plans, SaveSub(w, Entity(row, rel), "idle", job[w])
               PROVE  BooksSound' /\ Kept
  <2>1. \A q \in Plans \cup {NoPlan} : WithPending(sub, q) \in SubRow
    BY <1>1 DEF WithPending, SubRow, Stats
  <2>2. \A q \in Plans : [sub EXCEPT !.plan = q] \in SubRow
    BY <1>1 DEF SubRow
  <2>3. \A st \in {"active", "suspended", "cancelled"} : [sub EXCEPT !.status = st] \in SubRow
    BY <1>1 DEF SubRow
  <2>4. [sub EXCEPT !.cancelAtEnd = TRUE] \in SubRow
    BY <1>1 DEF SubRow
  <2>5. CASE Downgrade(w)
    BY <1>1, <1>2, <1>3, <2>1, <2>2, <2>5, RefuseKeepsBooks DEF Downgrade, Running
  <2>6. CASE CancelDowngrade(w)
    BY <1>1, <1>3, <2>1, <2>6, RefuseKeepsBooks DEF CancelDowngrade
  <2>7. CASE Cancel(w)
    BY <1>1, <1>3, <2>3, <2>4, <2>7, RefuseKeepsBooks DEF Cancel
  <2>8. CASE Administer(w)
    BY <1>1, <1>2, <1>3, <2>2, <2>3, <2>8 DEF Administer, Suspend, Reactivate, ChangePlan, Running
  <2> QED
    BY <2>5, <2>6, <2>7, <2>8
<1> QED
  BY <1>3, SaveSubKeepsBooks

-----------------------------------------------------------------------------
(* Marking an invoice                                                      *)

\* An invoice that was created is marked; it is marked paid only for a paid
\* session of a payment on it.
LEMMA MarkKeepsBooks ==
    ASSUME BooksSound, NEW w \in Workers, NEW i \in Payments, NEW s \in {"pending", "paid", "failed"},
           MarkInvoice(i, s), invoice[i].status # "none", s = "paid" => PaidFor(i),
           UNCHANGED <<sub, payment, outside, history>>,
           NEW k, job' = [job EXCEPT ![w] = k], JobSound(k), k.at \notin Openers
    PROVE  BooksSound' /\ Kept
<1> USE DEF outside, history
<1>1. /\ invoice' \in [Payments -> InvoiceRow] /\ invoice'[i].status = s
      /\ invoice'[i].plan = invoice[i].plan /\ invoice'[i].until = invoice[i].until
      /\ \A q \in Payments \ {i} : invoice'[q] = invoice[q]
  BY DEF MarkInvoice, BooksSound, TypeOK, InvoiceRow
<1>2. Kept /\ \A p \in Payments : LeftAlone(p)
  BY <1>1 DEF Kept, LeftAlone, Recorded, PaidSession
<1>3. \A u \in Workers : job[u].at \in Openers => job[u].pay \in Payments
  BY DEF BooksSound, JobsSound, JobSound, OpenerKnows
<1>4. JobSound(k)'
  BY <1>2, KnowledgeStays DEF BooksSound
<1>5. JobsSound' /\ OpenersApart'
  BY <1>2, <1>3, <1>4, OneMoves
<1>6. TypeOK'
  BY <1>1 DEF BooksSound, TypeOK
<1>7. InvoicesDated'
  BY <1>1 DEF BooksSound, InvoicesDated
<1>8. PaymentsBooked' /\ EventsTrue'
  BY <1>1 DEF BooksSound, PaymentsBooked, EventsTrue, Recorded, PaidSession
<1>9. NoFalseReceipt'
  BY <1>1 DEF BooksSound, NoFalseReceipt, PaidFor, PaidSession
<1> QED
  BY <1>2, <1>5, <1>6, <1>7, <1>8, <1>9 DEF BooksSound

\* Going on to the next statement of a webhook or of an upgrade.
LEMMA NextStatementSound ==
    ASSUME NEW j, JobSound(j), j.at \notin Openers,
           NEW l, \/ j.at = "settle" /\ l = "confirm"
                  \/ j.at = "paidInvoice" /\ l = "activate"
    PROVE  JobSound([j EXCEPT !.at = l])
<1> DEFINE k == [j EXCEPT !.at = l]
<1>1. DOMAIN k = JobNames /\ k.at = l /\ k.req = j.req /\ k.sub = j.sub /\ k.pay = j.pay
  BY DEF JobSound, JobNames
<1> HIDE DEF k
<1>2. JobSound(k)
  BY <1>1 DEF JobSound, HandlerKnows, Statements, SavingSub, SavingPay, PaidEvent, Openers, Opening
<1> QED
  BY <1>2 DEF k

LEMMA MarkingKeepsBooks ==
    ASSUME BooksSound, NEW w \in Workers, Settle(w) \/ PaidInvoice(w) \/ FailedInvoice(w)
    PROVE  BooksSound' /\ Kept
<1> DEFINE j == job[w]
<1>1. JobSound(j) /\ PaymentsBooked
  BY DEF BooksSound, JobsSound
<1>2. CASE Settle(w)
  <2>1. /\ j.at = "settle" /\ LoadedPayment(j.pay, j.ent) /\ j.ent.status = "succeeded"
    BY <1>1, <1>2 DEF JobSound, Settle, Running, HandlerKnows, Openers, Opening
  <2> DEFINE i == j.ent.invoice
  <2>2. i \in Payments /\ invoice[i].status # "none" /\ PaidFor(i)
    BY <1>1, <2>1 DEF PaymentsBooked, LoadedPayment, PaidFor
  <2>3. JobSound([j EXCEPT !.at = "confirm"]) /\ [j EXCEPT !.at = "confirm"].at = "confirm"
    BY <1>1, <2>1, NextStatementSound DEF Openers, Opening, JobSound, JobNames
  <2> QED
    BY <1>2, <2>2, <2>3, MarkKeepsBooks DEF Settle, Continue, Openers, Opening
<1>3. CASE PaidInvoice(w)
  <2>1. j.at = "paidInvoice" /\ j.pay \in Payments /\ Recorded(j.pay) /\ PaidSession(j.pay)
    BY <1>1, <1>3 DEF JobSound, PaidInvoice, Running, HandlerKnows, PaidEvent, Openers, Opening
  <2> DEFINE i == payment[j.pay].invoice
  <2>2. i \in Payments /\ invoice[i].status # "none" /\ PaidFor(i)
    BY <1>1, <2>1 DEF PaymentsBooked, PaidFor
  <2>3. JobSound([j EXCEPT !.at = "activate"]) /\ [j EXCEPT !.at = "activate"].at = "activate"
    BY <1>1, <2>1, NextStatementSound DEF Openers, Opening, JobSound, JobNames
  <2> QED
    BY <1>3, <2>2, <2>3, MarkKeepsBooks DEF PaidInvoice, Continue, Openers, Opening
<1>4. CASE FailedInvoice(w)
  <2>1. j.at = "failedInvoice" /\ j.pay \in Payments /\ Recorded(j.pay)
    BY <1>1, <1>4 DEF JobSound, FailedInvoice, Running, HandlerKnows, PaidEvent, Openers, Opening
  <2>2. payment[j.pay].invoice \in Payments /\ invoice[payment[j.pay].invoice].status # "none"
    BY <1>1, <2>1 DEF PaymentsBooked
  <2> QED
    BY <1>4, <2>2, IdleSound, MarkKeepsBooks DEF FailedInvoice, Finish, Openers, Opening, Idle
<1> QED
  BY <1>2, <1>3, <1>4

-----------------------------------------------------------------------------
(* The webhook                                                             *)

\* A recorded payment that is changed only in its status and its events.
LEMMA PaymentLoaded ==
    ASSUME BooksSound, NEW p \in Payments, Recorded(p), NEW st \in {"succeeded", "failed"},
           st = "succeeded" => PaidSession(p), NEW ev \in SUBSET {"paid", "failed"}
    PROVE  LoadedPayment(p, [payment[p] EXCEPT !.status = st, !.events = ev])
<1>1. payment[p] \in PaymentRow
  BY DEF BooksSound, TypeOK
<1> QED
  BY <1>1 DEF LoadedPayment, PaymentRow

LEMMA HandleEventKeepsBooks ==
    ASSUME BooksSound, NEW w \in Workers, HandlePaid(w) \/ HandleFailed(w)
    PROVE  BooksSound' /\ Kept
<1> DEFINE j == job[w]
           row == payment[j.pay]
<1>1. JobSound(j)
  BY DEF BooksSound, JobsSound
<1>2. j.pay \in Payments /\ (j.at = "paid" => PaidSession(j.pay)) /\ row.events \subseteq {"paid", "failed"}
  BY <1>1 DEF JobSound, HandlePaid, HandleFailed, Running, HandlerKnows, PaidEvent, Openers, Opening,
              BooksSound, TypeOK, PaymentRow
<1>3. CASE Refuse(w)
  BY <1>3, RefuseKeepsBooks
<1>4. CASE /\ j.at = "paid" /\ Recorded(j.pay)
           /\ SavePayment(w, [row EXCEPT !.status = "succeeded", !.events = row.events \cup {"paid"}],
                          "paidInvoice", j)
  <2> DEFINE e == [row EXCEPT !.status = "succeeded", !.events = row.events \cup {"paid"}]
  <2>1. LoadedPayment(j.pay, e)
    BY <1>2, <1>4, PaymentLoaded
  <2>2. row \in PaymentRow
    BY <1>2 DEF BooksSound, TypeOK
  <2>3. e.status = "succeeded"
    BY <2>2 DEF PaymentRow
  <2> QED
    BY <1>1, <1>4, <2>1, <2>3, SavePaymentKeepsBooks
<1>5. CASE /\ Recorded(j.pay)
           /\ SavePayment(w, [row EXCEPT !.status = "failed", !.events = row.events \cup {"failed"}],
                          "failedInvoice", j)
  <2>1. LoadedPayment(j.pay, [row EXCEPT !.status = "failed", !.events = row.events \cup {"failed"}])
    BY <1>2, <1>5, PaymentLoaded
  <2> QED
    BY <1>1, <1>5, <2>1, SavePaymentKeepsBooks
<1> QED
  BY <1>3, <1>4, <1>5 DEF HandlePaid, HandleFailed, Recorded, Running

\* The subscription is activated as the invoice says.
LEMMA ActivateKeepsBooks ==
    ASSUME BooksSound, NEW w \in Workers, Activate(w)
    PROVE  BooksSound' /\ Kept
<1> DEFINE j == job[w]
           inv == invoice[payment[j.pay].invoice]
<1>1. j.pay \in Payments /\ Recorded(j.pay)
  BY DEF BooksSound, JobsSound, JobSound, Activate, Running, HandlerKnows, PaidEvent, Openers, Opening
<1>2. inv.plan \in Plans /\ inv.until \in Nat /\ sub \in SubRow
  BY <1>1 DEF BooksSound, TypeOK, PaymentsBooked, InvoicesDated, InvoiceRow
<1>3. Activated(sub, inv) \in SubRow
  BY <1>2 DEF Activated, SubRow, NoDate
<1> QED
  BY <1>1, <1>3, SaveSubKeepsBooks DEF Activate

LEMMA ReceivedKeepsBooks ==
    ASSUME BooksSound, NEW w \in Workers, Received(w)
    PROVE  BooksSound' /\ Kept
<1>1. job[w].pay \in Payments
  BY DEF BooksSound, JobsSound, JobSound, Received, Running, HandlerKnows, Openers, Opening
<1>2. applied' \in [Payments -> Nat]
  BY <1>1 DEF Received, BooksSound, TypeOK
<1> QED
  BY <1>2, IdleSound, ReadKeepsBooks DEF Received, Finish, Idle, Openers, Opening

-----------------------------------------------------------------------------
(* Saving                                                                  *)

\* Where a handler goes on after its save, knowing what it knew.
LEMMA GoOnSound ==
    ASSUME NEW w \in Workers, JobSound(job[w]), job[w].at \in SavingSub \cup SavingPay, GoOn(w)
    PROVE  \E k : /\ job' = [job EXCEPT ![w] = k] /\ JobSound(k) /\ k.at \notin Openers
                  /\ k.at = job[w].then /\ (k.at # "idle" => k = [job[w] EXCEPT !.at = job[w].then])
                  /\ (k.at = "idle" => k = Idle)
<1> DEFINE j == job[w]
           k == [j EXCEPT !.at = j.then]
<1>1. CASE j.then = "idle"
  BY <1>1, IdleSound DEF GoOn, Finish, Idle, Openers, Opening
<1>2. CASE j.then # "idle"
  <2>1. DOMAIN k = JobNames /\ k.at = j.then /\ k.req = j.req /\ k.sub = j.sub /\ k.pay = j.pay /\ k.ent = j.ent
    BY DEF JobSound, JobNames
  <2>2. job' = [job EXCEPT ![w] = k]
    BY <1>2 DEF GoOn, Continue
  <2> HIDE DEF k
  <2>3. JobSound(k)
    BY <1>2, <2>1 DEF JobSound, HandlerKnows, Statements, SavingSub, SavingPay, PaidEvent, Openers,
                      Opening, LoadedPayment
  <2>4. k.at \notin Openers
    BY <2>1 DEF JobSound, HandlerKnows, SavingSub, SavingPay, Openers, Opening
  <2> QED
    BY <1>2, <2>1, <2>2, <2>3, <2>4 DEF k
<1> QED
  BY <1>1, <1>2

\* The columns to update are found.
LEMMA SelectKeepsBooks ==
    ASSUME BooksSound, NEW w \in Workers, SelectSub(w) \/ SelectPayment(w)
    PROVE  BooksSound' /\ Kept
<1> DEFINE j == job[w]
<1>1. JobSound(j) /\ j.at \in {"selectSub", "selectPayment"} /\ applied' \in [Payments -> Nat]
  BY DEF BooksSound, JobsSound, SelectSub, SelectPayment, Running, history, TypeOK
<1>2. CASE GoOn(w)
  <2>1. PICK k : job' = [job EXCEPT ![w] = k] /\ JobSound(k) /\ k.at \notin Openers
    BY <1>1, <1>2, GoOnSound DEF SavingSub, SavingPay
  <2> QED
    BY <1>1, <2>1, ReadKeepsBooks DEF SelectSub, SelectPayment
<1>3. ASSUME NEW cols, NEW l, Continue(w, l, [j EXCEPT !.cols = cols]),
             \/ j.at = "selectSub" /\ l = "updateSub"
             \/ j.at = "selectPayment" /\ l = "updatePayment"
      PROVE  BooksSound' /\ Kept
  <2> DEFINE k == [[j EXCEPT !.cols = cols] EXCEPT !.at = l]
  <2>1. /\ DOMAIN k = JobNames /\ k.at = l /\ k.req = j.req /\ k.sub = j.sub /\ k.pay = j.pay
        /\ k.ent = j.ent /\ k.then = j.then /\ job' = [job EXCEPT ![w] = k]
    BY <1>1, <1>3 DEF JobSound, JobNames, Continue
  <2> HIDE DEF k
  <2>2. JobSound(k) /\ k.at \notin Openers
    BY <1>1, <1>3, <2>1 DEF JobSound, HandlerKnows, Statements, SavingSub, SavingPay, PaidEvent, Openers, Opening
  <2> QED
    BY <1>1, <2>1, <2>2, ReadKeepsBooks DEF SelectSub, SelectPayment
<1> QED
  BY <1>2, <1>3 DEF SelectSub, SelectPayment, Running

\* The columns found earlier are written to the row as it is now.
LEMMA UpdateSubKeepsBooks ==
    ASSUME BooksSound, NEW w \in Workers, UpdateSub(w)
    PROVE  BooksSound' /\ Kept
<1> DEFINE j == job[w]
<1> USE DEF outside
<1>1. JobSound(j) /\ j.at = "updateSub" /\ GoOn(w)
  BY DEF BooksSound, JobsSound, UpdateSub, Running
<1>2. PICK k : job' = [job EXCEPT ![w] = k] /\ JobSound(k) /\ k.at \notin Openers
  BY <1>1, GoOnSound DEF SavingSub
<1>3. Kept /\ \A p \in Payments : LeftAlone(p)
  BY DEF Kept, LeftAlone, Recorded, PaidSession, UpdateSub
<1>4. \A u \in Workers : job[u].at \in Openers => job[u].pay \in Payments
  BY DEF BooksSound, JobsSound, JobSound, OpenerKnows
<1>5. JobSound(k)'
  BY <1>2, <1>3, KnowledgeStays DEF BooksSound
<1>6. JobsSound' /\ OpenersApart'
  BY <1>2, <1>3, <1>4, <1>5, OneMoves
<1>7. sub' \in SubRow
  <2>1. j.ent \in SubRow /\ sub \in SubRow
    BY <1>1 DEF JobSound, HandlerKnows, SavingSub, Openers, Opening, BooksSound, TypeOK
  <2> QED
    BY <2>1 DEF UpdateSub, Patched, SubRow
<1>8. TypeOK'
  BY <1>7 DEF BooksSound, TypeOK, UpdateSub
<1>9. InvoicesDated' /\ PaymentsBooked' /\ EventsTrue' /\ NoFalseReceipt'
  BY DEF BooksSound, InvoicesDated, PaymentsBooked, EventsTrue, NoFalseReceipt, Recorded, PaidSession,
         PaidFor, UpdateSub
<1> QED
  BY <1>3, <1>6, <1>8, <1>9 DEF BooksSound

LEMMA UpdatePaymentKeepsBooks ==
    ASSUME BooksSound, NEW w \in Workers, UpdatePayment(w)
    PROVE  BooksSound' /\ Kept
<1> DEFINE j == job[w]
<1> USE DEF outside
<1>1. JobSound(j) /\ j.at = "updatePayment" /\ GoOn(w)
  BY DEF BooksSound, JobsSound, UpdatePayment, Running
<1>0. PICK q \in Payments : q = j.pay /\ LoadedPayment(q, j.ent)
  BY <1>1 DEF JobSound, HandlerKnows, SavingPay, Openers, Opening, LoadedPayment
<1> DEFINE row == Patched(payment[q], j.ent, j.cols)
<1>2. PICK k : job' = [job EXCEPT ![w] = k] /\ JobSound(k) /\ k.at \notin Openers
  BY <1>1, GoOnSound DEF SavingPay
<1>3. LoadedPayment(q, j.ent) /\ payment[q] \in PaymentRow
  BY <1>0 DEF BooksSound, TypeOK
<1>4. /\ row \in PaymentRow
      /\ row.status \in {payment[q].status, j.ent.status}
      /\ row.invoice = payment[q].invoice /\ row.target = payment[q].target /\ row.made = payment[q].made
  BY <1>3 DEF Patched, PaymentRow, LoadedPayment
<1> HIDE DEF row
<1>5. payment' = [payment EXCEPT ![q] = row]
  BY <1>0 DEF UpdatePayment, row
<1>6. Kept /\ \A p \in Payments : Recorded(q) /\ LeftAlone(p) /\ (p # q => payment'[p] = payment[p])
  BY <1>3, <1>4, <1>5 DEF Kept, LeftAlone, Recorded, PaidSession, UpdatePayment, LoadedPayment, BooksSound, TypeOK
<1>7. \A u \in Workers : job[u].at \in Openers => job[u].pay \in Payments
  BY DEF BooksSound, JobsSound, JobSound, OpenerKnows
<1>8. JobSound(k)'
  BY <1>2, <1>6, KnowledgeStays DEF BooksSound
<1>9. JobsSound' /\ OpenersApart'
  BY <1>2, <1>6, <1>7, <1>8, OneMoves
<1>10. TypeOK'
  BY <1>4, <1>5 DEF BooksSound, TypeOK, UpdatePayment, history
<1>11. InvoicesDated' /\ EventsTrue'
  BY DEF BooksSound, InvoicesDated, EventsTrue, PaidSession, UpdatePayment
<1>12. payment'[q] = row /\ Recorded(q) /\ Recorded(q)'
  <2>1. payment \in [Payments -> PaymentRow]
    BY DEF BooksSound, TypeOK
  <2>2. payment'[q] = row
    BY <1>5, <2>1
  <2>3. Recorded(q)
    BY <1>3 DEF LoadedPayment
  <2>4. row.status # "none"
    BY <1>3, <1>4 DEF LoadedPayment, Recorded
  <2> QED
    BY <2>2, <2>3, <2>4 DEF Recorded
<1>13. PaymentsBooked'
  <2>1. PaymentsBooked /\ UNCHANGED <<invoice, session>>
    BY DEF BooksSound, UpdatePayment
  <2>2. \A p \in Payments \ {q} : payment'[p] = payment[p]
    BY <1>6
  <2> QED
    BY <1>4, <1>12, <2>1, <2>2 DEF PaymentsBooked, Recorded
<1>14. NoFalseReceipt'
  BY <1>3, <1>4, <1>6, <1>12 DEF BooksSound, NoFalseReceipt, PaidSession, PaidFor, UpdatePayment, LoadedPayment
<1> QED
  BY <1>6, <1>9, <1>10, <1>11, <1>13, <1>14 DEF BooksSound

-----------------------------------------------------------------------------
(* Opening a checkout session                                              *)

\* What a handler knows of its own payment id when it opens a session.
LEMMA OpenerHolds ==
    ASSUME BooksSound, NEW w \in Workers, job[w].at \in Openers
    PROVE  /\ JobSound(job[w]) /\ OpenerKnows(job[w]) /\ DOMAIN job[w] = JobNames
           /\ \A u \in Workers \ {w} : job[u].at \in Openers =>
                 job[u].pay \in Payments /\ job[u].pay # job[w].pay
  BY DEF BooksSound, JobsSound, JobSound, OpenersApart, OpenerKnows

LEMMA OpenCheckoutKeepsBooks ==
    ASSUME BooksSound, NEW w \in Workers, OpenCheckout(w) \/ PayInvoice(w)
    PROVE  BooksSound' /\ Kept
<1> DEFINE j == job[w]
<1>1. /\ JobSound(j) /\ OpenerKnows(j) /\ DOMAIN j = JobNames
      /\ j.at \in {"checkout", "payInvoice"} /\ j.at \in Openers
  BY OpenerHolds DEF OpenCheckout, PayInvoice, Running, Openers, Opening
<1>2. CASE Refuse(w)
  BY <1>2, RefuseKeepsBooks
<1>3. ASSUME NEW l, Read(w, l, j),
             \/ j.at = "checkout" /\ l = "createInvoice"
             \/ j.at = "payInvoice" /\ l = "createSession" /\ invoice[j.req.pay].status # "none"
      PROVE  BooksSound' /\ Kept
  <2> DEFINE k == [j EXCEPT !.at = l]
  <2>1. DOMAIN k = JobNames /\ k.at = l /\ k.req = j.req /\ k.pay = j.pay
    BY <1>1 DEF JobNames
  <2> HIDE DEF k
  <2>2. OpenerKnows(k)
    BY <1>1, <1>3, <2>1 DEF OpenerKnows, InvoiceOf, OpenerRequest, Unopened, Opening
  <2>3. JobSound(k)
    BY <1>1, <1>3, <2>1, <2>2 DEF JobSound, Statements, Openers, Opening
  <2> QED
    BY <1>1, <1>3, <2>3, ContinueKeepsBooks DEF k
<1> QED
  BY <1>2, <1>3 DEF OpenCheckout, PayInvoice, Running

LEMMA CreateInvoiceKeepsBooks ==
    ASSUME BooksSound, NEW w \in Workers, CreateInvoice(w)
    PROVE  BooksSound' /\ Kept
<1> DEFINE j == job[w]
<1>0. PICK k : k = [j EXCEPT !.at = "createSession"]
  OBVIOUS
<1> USE DEF outside, history
<1>1. /\ JobSound(j) /\ OpenerKnows(j) /\ DOMAIN j = JobNames
      /\ j.at = "createInvoice" /\ j.at \in Openers
      /\ \A u \in Workers \ {w} : job[u].at \in Openers => job[u].pay \in Payments /\ job[u].pay # j.pay
  BY OpenerHolds DEF CreateInvoice, Running, Openers
<1>2. PICK p, row : /\ p \in Payments /\ p = j.pay
                    /\ row = [status |-> "pending", plan |-> j.req.plan, until |-> now + Period]
  BY <1>1 DEF OpenerKnows
<1>3. /\ j.req.kind = "checkout" /\ invoice[p].status = "none" /\ session[p] = "none" /\ ~Recorded(p)
      /\ j.req.plan \in Plans /\ now + Period \in Nat \ {0}
  BY <1>1, <1>2, BillingAssumption DEF OpenerKnows, OpenerRequest, Unopened, BooksSound, TypeOK
<1>4. row \in InvoiceRow /\ row.status = "pending" /\ row.plan = j.req.plan /\ row.until > 0
  BY <1>2, <1>3 DEF InvoiceRow
<1>5. invoice' = [invoice EXCEPT ![p] = row] /\ invoice \in [Payments -> InvoiceRow]
  BY <1>2 DEF CreateInvoice, BooksSound, TypeOK
<1>6. invoice'[p] = row /\ \A q \in Payments \ {p} : invoice'[q] = invoice[q]
  BY <1>2, <1>5
<1>7. UNCHANGED <<sub, payment, outside, applied>> /\ job' = [job EXCEPT ![w] = k]
  BY <1>0 DEF CreateInvoice, Continue
<1>8. Kept /\ \A q \in Payments \ {p} : LeftAlone(q)
  BY <1>3, <1>6, <1>7 DEF Kept, LeftAlone, Recorded, PaidSession
<1>9. k.at = "createSession" /\ k.req = j.req /\ k.pay = p /\ DOMAIN k = JobNames
  BY <1>0, <1>1, <1>2 DEF JobNames
<1>10. OpenerKnows(k)'
  BY <1>1, <1>2, <1>3, <1>4, <1>6, <1>7, <1>9 DEF OpenerKnows, InvoiceOf, OpenerRequest, Unopened, Opening, Recorded
<1>11. JobSound(k)'
  BY <1>1, <1>9, <1>10 DEF JobSound, Statements, Openers, Opening
<1>12. JobsSound' /\ OpenersApart'
  BY <1>1, <1>2, <1>7, <1>8, <1>9, <1>11, OneMoves
<1>13. TypeOK'
  BY <1>4, <1>5, <1>7 DEF BooksSound, TypeOK
<1>14. InvoicesDated'
  BY <1>3, <1>4, <1>6 DEF BooksSound, InvoicesDated
<1>15. PaymentsBooked'
  <2>1. PaymentsBooked
    BY DEF BooksSound
  <2>2. \A q \in Payments : payment[q].invoice = p => ~Recorded(q)
    BY <1>3, <2>1 DEF PaymentsBooked
  <2>3. payment[p] = UnusedPayment
    BY <1>2, <1>3, <2>1 DEF PaymentsBooked
  <2>4. UNCHANGED <<payment, session>>
    BY <1>7
  <2>5. invoice'[p].status # "none"
    BY <1>4, <1>6
  <2> QED
    BY <1>2, <1>6, <2>1, <2>2, <2>3, <2>4, <2>5 DEF PaymentsBooked, Recorded, UnusedPayment
<1>16. EventsTrue' /\ NoFalseReceipt'
  BY <1>4, <1>6, <1>7 DEF BooksSound, EventsTrue, NoFalseReceipt, PaidSession, PaidFor
<1> QED
  BY <1>8, <1>12, <1>13, <1>14, <1>15, <1>16 DEF BooksSound

LEMMA CreateSessionKeepsBooks ==
    ASSUME BooksSound, NEW w \in Workers, CreateSession(w)
    PROVE  BooksSound' /\ Kept
<1> DEFINE j == job[w]
<1> USE DEF outside, history
<1>1. /\ JobSound(j) /\ OpenerKnows(j) /\ DOMAIN j = JobNames
      /\ j.at = "createSession" /\ j.at \in Openers
      /\ \A u \in Workers \ {w} : job[u].at \in Openers => job[u].pay \in Payments /\ job[u].pay # j.pay
  BY OpenerHolds DEF CreateSession, Running, Openers
<1>2. CASE Refuse(w)
  BY <1>2, RefuseKeepsBooks
<1>3. CASE ~Refuse(w)
  <2>0. PICK k : k = [j EXCEPT !.at = "recordPayment"]
    OBVIOUS
  <2>1. PICK p \in Payments, s \in {"created", "paid"} : p = j.pay /\ s = IF MockGateway THEN "paid" ELSE "created"
    BY <1>1 DEF OpenerKnows
  <2>2. session[p] = "none" /\ ~Recorded(p)
    BY <1>1, <2>1 DEF OpenerKnows, Unopened
  <2>3. session' = [session EXCEPT ![p] = s] /\ session \in [Payments -> {"none", "created", "open", "paid"}]
    BY <1>3, <2>1 DEF CreateSession, BooksSound, TypeOK
  <2>4. session'[p] = s /\ \A q \in Payments \ {p} : session'[q] = session[q]
    BY <2>3
  <2>5. UNCHANGED <<rows, now, sent, due, requests, crashes, applied>> /\ job' = [job EXCEPT ![w] = k]
    BY <1>3, <2>0 DEF CreateSession, Continue
  <2> USE DEF rows
  <2>6. Kept /\ \A q \in Payments \ {p} : LeftAlone(q)
    BY <2>2, <2>4, <2>5 DEF Kept, LeftAlone, Recorded, PaidSession
  <2>7. k.at = "recordPayment" /\ k.req = j.req /\ k.pay = p /\ DOMAIN k = JobNames
    BY <1>1, <2>0, <2>1 DEF JobNames
  <2>8. OpenerKnows(k)'
    BY <1>1, <2>1, <2>2, <2>4, <2>5, <2>7
    DEF OpenerKnows, InvoiceOf, OpenerRequest, Unopened, Opening, Recorded
  <2>9. JobSound(k)'
    BY <1>1, <2>7, <2>8 DEF JobSound, Statements, Openers, Opening
  <2>10. JobsSound' /\ OpenersApart'
    BY <1>1, <2>1, <2>5, <2>6, <2>7, <2>9, OneMoves
  <2>11. TypeOK'
    BY <2>3, <2>5 DEF BooksSound, TypeOK
  <2>12. InvoicesDated'
    BY <2>5 DEF BooksSound, InvoicesDated
  <2>13. PaymentsBooked'
    BY <2>1, <2>2, <2>4, <2>5 DEF BooksSound, PaymentsBooked, Recorded
  <2>14. EventsTrue'
    BY <2>2, <2>4, <2>5 DEF BooksSound, EventsTrue, PaidSession, TypeOK
  <2>15. NoFalseReceipt'
    BY <2>2, <2>4, <2>5 DEF BooksSound, NoFalseReceipt, PaidSession, PaidFor
  <2> QED
    BY <2>6, <2>10, <2>11, <2>12, <2>13, <2>14, <2>15 DEF BooksSound
<1> QED
  BY <1>2, <1>3

LEMMA RecordPaymentKeepsBooks ==
    ASSUME BooksSound, NEW w \in Workers, RecordPayment(w)
    PROVE  BooksSound' /\ Kept
<1> DEFINE j == job[w]
<1> USE DEF outside, history
<1>0. PICK k : k = [j EXCEPT !.at = "answer"]
  OBVIOUS
<1>1. /\ JobSound(j) /\ OpenerKnows(j) /\ DOMAIN j = JobNames
      /\ j.at = "recordPayment" /\ j.at \in Openers
      /\ \A u \in Workers \ {w} : job[u].at \in Openers => job[u].pay \in Payments /\ job[u].pay # j.pay
  BY OpenerHolds DEF RecordPayment, Running, Openers
<1>2. PICK p, i, row :
           /\ p \in Payments /\ i \in Payments
           /\ p = j.pay /\ i = InvoiceOf(j)
           /\ row = [status |-> IF MockGateway THEN "succeeded" ELSE "pending",
                     invoice |-> i, target |-> j.req.plan, events |-> {}, made |-> now]
  BY <1>1 DEF OpenerKnows, InvoiceOf, OpenerRequest
<1>3. /\ ~Recorded(p) /\ invoice[i].status # "none"
      /\ session[p] = IF MockGateway THEN "paid" ELSE "created"
      /\ j.req.plan # NoPlan => i = p /\ invoice[p].plan = j.req.plan
  BY <1>1, <1>2 DEF OpenerKnows, OpenerRequest, InvoiceOf
<1>4. /\ row \in PaymentRow /\ row.status \in {"succeeded", "pending"}
      /\ row.status = "succeeded" => MockGateway
      /\ row.invoice = i /\ row.target = j.req.plan
  BY <1>1, <1>2 DEF PaymentRow, JobSound, BooksSound, TypeOK
<1>5. payment' = [payment EXCEPT ![p] = row] /\ payment \in [Payments -> PaymentRow]
  BY <1>2 DEF RecordPayment, BooksSound, TypeOK
<1>6. payment'[p] = row /\ \A q \in Payments \ {p} : payment'[q] = payment[q]
  BY <1>2, <1>5
<1>7. UNCHANGED <<sub, invoice, outside, applied>> /\ job' = [job EXCEPT ![w] = k]
  BY <1>0 DEF RecordPayment, Continue
<1>8. Kept /\ \A q \in Payments \ {p} : LeftAlone(q)
  BY <1>3, <1>6, <1>7 DEF Kept, LeftAlone, Recorded, PaidSession
<1>9. k.at = "answer" /\ k.req = j.req /\ k.pay = p /\ DOMAIN k = JobNames
  BY <1>0, <1>1, <1>2 DEF JobNames
<1>10. OpenerKnows(k)'
  BY <1>1, <1>2, <1>3, <1>4, <1>6, <1>7, <1>9
  DEF OpenerKnows, InvoiceOf, OpenerRequest, Unopened, Opening, Recorded
<1>11. JobSound(k)'
  BY <1>1, <1>9, <1>10 DEF JobSound, Statements, Openers, Opening
<1>12. JobsSound' /\ OpenersApart'
  BY <1>1, <1>2, <1>7, <1>8, <1>9, <1>11, OneMoves
<1>13. TypeOK'
  BY <1>4, <1>5, <1>7 DEF BooksSound, TypeOK
<1>14. InvoicesDated' /\ EventsTrue'
  BY <1>7 DEF BooksSound, InvoicesDated, EventsTrue, PaidSession
<1>15. PaymentsBooked'
  BY <1>2, <1>3, <1>4, <1>6, <1>7 DEF BooksSound, PaymentsBooked, Recorded
<1>16. NoFalseReceipt'
  <2>1. NoFalseReceipt /\ payment[p] = UnusedPayment
    BY <1>2, <1>3 DEF BooksSound, PaymentsBooked
  <2>2. \A n \in Payments : PaidFor(n) => PaidFor(n)'
    BY <1>6, <1>7, <2>1, BillingAssumption DEF PaidFor, PaidSession, UnusedPayment
  <2> QED
    BY <1>3, <1>4, <1>6, <1>7, <2>1, <2>2 DEF NoFalseReceipt, PaidSession
<1> QED
  BY <1>8, <1>12, <1>13, <1>14, <1>15, <1>16 DEF BooksSound

LEMMA AnswerKeepsBooks ==
    ASSUME BooksSound, NEW w \in Workers, AnswerUrl(w)
    PROVE  BooksSound' /\ Kept
<1> DEFINE j == job[w]
<1> USE DEF outside, history
<1>1. /\ OpenerKnows(j) /\ j.at = "answer" /\ j.at \in Openers
      /\ \A u \in Workers \ {w} : job[u].at \in Openers => job[u].pay \in Payments /\ job[u].pay # j.pay
  BY OpenerHolds DEF AnswerUrl, Running, Openers
<1>2. PICK p \in Payments, i \in Payments : p = j.pay /\ i = InvoiceOf(j)
  BY <1>1 DEF OpenerKnows, InvoiceOf, OpenerRequest
<1>3. /\ Recorded(p) /\ payment[p].invoice = i /\ invoice[i].status # "none"
      /\ session[p] = IF MockGateway THEN "paid" ELSE "created"
      /\ j.req.kind = "checkout" => i = p
  BY <1>1, <1>2 DEF OpenerKnows, InvoiceOf
<1>4. PICK s \in {"open", "paid"} : s = (IF MockGateway THEN "paid" ELSE "open") /\ session' = [session EXCEPT ![p] = s]
  BY <1>2 DEF AnswerUrl
<1>5. /\ session \in [Payments -> {"none", "created", "open", "paid"}]
      /\ session'[p] = s /\ \A q \in Payments \ {p} : session'[q] = session[q]
  BY <1>4 DEF BooksSound, TypeOK
<1>6. UNCHANGED <<sub, payment, now, sent, due, requests, crashes, applied>> /\ job' = [job EXCEPT ![w] = Idle]
  BY DEF AnswerUrl, Finish
<1>7. /\ invoice' \in [Payments -> InvoiceRow]
      /\ \A n \in Payments : /\ n # i => invoice'[n] = invoice[n]
                             /\ invoice'[n].plan = invoice[n].plan /\ invoice'[n].until = invoice[n].until
                             /\ invoice[n].status = "none" <=> invoice'[n].status = "none"
                             /\ invoice'[n].status = "paid" => invoice[n].status = "paid" \/ (n = i /\ MockGateway)
  <2>1. invoice \in [Payments -> InvoiceRow]
    BY DEF BooksSound, TypeOK
  <2>2. \/ UNCHANGED invoice
        \/ MarkInvoice(i, "paid") /\ MockGateway
        \/ MarkInvoice(i, "pending")
    BY <1>2, <1>3 DEF AnswerUrl
  <2>3. CASE UNCHANGED invoice
    BY <2>1, <2>3
  <2>4. ASSUME NEW st \in {"paid", "pending"}, MarkInvoice(i, st), st = "paid" => MockGateway
        PROVE  <1>7!1 /\ <1>7!2
    <3>1. invoice' = [invoice EXCEPT ![i].status = st]
      BY <2>4 DEF MarkInvoice
    <3>2. /\ invoice'[i].status = st /\ invoice'[i].plan = invoice[i].plan
          /\ invoice'[i].until = invoice[i].until /\ invoice'[i] \in InvoiceRow
          /\ \A n \in Payments \ {i} : invoice'[n] = invoice[n]
      BY <2>1, <3>1 DEF InvoiceRow
    <3>3. invoice' \in [Payments -> InvoiceRow]
      BY <2>1, <3>1, <3>2
    <3> QED
      BY <1>3, <2>4, <3>2, <3>3
  <2> QED
    BY <2>2, <2>3, <2>4
<1>8. Kept /\ \A q \in Payments \ {p} : LeftAlone(q)
  BY <1>3, <1>4, <1>5, <1>6, <1>7 DEF Kept, LeftAlone, Recorded, PaidSession
<1>9. JobSound(Idle)' /\ Idle.at \notin Openers
  BY IdleSound, <1>8, KnowledgeStays DEF BooksSound, Idle, Openers, Opening
<1>10. JobsSound' /\ OpenersApart'
  BY <1>1, <1>2, <1>6, <1>8, <1>9, OneMoves
<1>11. TypeOK'
  BY <1>4, <1>5, <1>6, <1>7 DEF BooksSound, TypeOK
<1>12. InvoicesDated'
  BY <1>7 DEF BooksSound, InvoicesDated
<1>13. PaymentsBooked'
  BY <1>5, <1>6, <1>7 DEF BooksSound, PaymentsBooked, Recorded
<1>14. EventsTrue'
  BY <1>3, <1>4, <1>5, <1>6 DEF BooksSound, EventsTrue, PaidSession, TypeOK
<1>15. NoFalseReceipt'
  <2>1. \A q \in Payments : PaidSession(q) => PaidSession(q)'
    BY <1>8 DEF Kept
  <2>2. MockGateway => PaidFor(i)'
    BY <1>3, <1>4, <1>5, <1>6 DEF PaidFor, PaidSession
  <2>3. \A n \in Payments : PaidFor(n) => PaidFor(n)'
    BY <1>6, <2>1 DEF PaidFor
  <2> QED
    BY <1>6, <1>7, <2>1, <2>2, <2>3 DEF BooksSound, NoFalseReceipt
<1> QED
  BY <1>8, <1>10, <1>11, <1>12, <1>13, <1>14, <1>15 DEF BooksSound

-----------------------------------------------------------------------------
(* What comes from outside                                                 *)

\* A worker that is free starts a handler, and the counters move.
LEMMA StartKeepsBooks ==
    ASSUME BooksSound, NEW w \in Workers, job[w].at = "idle", NEW k,
           job' = [job EXCEPT ![w] = k], JobSound(k),
           k.at \in Openers => \A u \in Workers : job[u].pay # k.pay,
           UNCHANGED <<rows, now, session, sent, applied>>,
           requests' \in 0 .. MaxRequests, crashes' \in 0 .. MaxCrashes, due' \subseteq Crons
    PROVE  BooksSound' /\ Kept
<1> USE DEF rows
<1>1. Kept /\ \A p \in Payments : LeftAlone(p)
  BY DEF Kept, LeftAlone, Recorded, PaidSession
<1>2. \A u \in Workers : job[u].at \in Openers => job[u].pay \in Payments
  BY DEF BooksSound, JobsSound, JobSound, OpenerKnows
<1>3. JobSound(k)'
  BY <1>1, KnowledgeStays DEF BooksSound, JobSound, OpenerKnows
<1>4. JobsSound' /\ OpenersApart'
  BY <1>1, <1>2, <1>3, OneMoves
<1>5. TypeOK'
  BY DEF BooksSound, TypeOK
<1>6. InvoicesDated' /\ PaymentsBooked' /\ EventsTrue' /\ NoFalseReceipt'
  BY DEF BooksSound, InvoicesDated, PaymentsBooked, EventsTrue, NoFalseReceipt, Recorded, PaidSession, PaidFor
<1> QED
  BY <1>1, <1>4, <1>5, <1>6 DEF BooksSound

\* The clock and the counters move, and nobody does anything.
LEMMA StillKeepsBooks ==
    ASSUME BooksSound, UNCHANGED <<rows, job, session, sent, applied>>, TypeOK'
    PROVE  BooksSound' /\ Kept
<1> USE DEF rows
<1>1. Kept /\ \A p \in Payments : LeftAlone(p)
  BY DEF Kept, LeftAlone, Recorded, PaidSession
<1>2. \A u \in Workers : job[u].at \in Openers => job[u].pay \in Payments
  BY DEF BooksSound, JobsSound, JobSound, OpenerKnows
<1>3. JobsSound'
  BY <1>1, <1>2, KnowledgeStays DEF BooksSound, JobsSound
<1>4. OpenersApart' /\ InvoicesDated' /\ PaymentsBooked' /\ EventsTrue' /\ NoFalseReceipt'
  BY DEF BooksSound, OpenersApart, InvoicesDated, PaymentsBooked, EventsTrue, NoFalseReceipt,
         Recorded, PaidSession, PaidFor
<1> QED
  BY <1>1, <1>3, <1>4 DEF BooksSound

LEMMA RequestKeepsBooks ==
    ASSUME BooksSound, NEW w \in Workers, NEW r \in Requests, Request(w, r)
    PROVE  BooksSound' /\ Kept
<1>1. /\ job[w].at = "idle" /\ requests' \in 0 .. MaxRequests
      /\ UNCHANGED <<rows, now, session, sent, due, crashes, applied>>
  <2>1. /\ job[w].at = "idle" /\ requests < MaxRequests /\ requests' = requests + 1
        /\ UNCHANGED <<rows, now, session, sent, due, crashes, history>>
    BY DEF Request, Running
  <2>2. requests \in 0 .. MaxRequests
    BY DEF BooksSound, TypeOK
  <2> QED
    BY <2>1, <2>2, BillingAssumption DEF history
<1>2. /\ DOMAIN r = {"kind", "plan", "pay"}
      /\ r.kind \in Opening \cup OfOwner \cup ByAdmin
      /\ r.plan \in Plans \cup {NoPlan} /\ r.pay \in Payments \cup {NoPayment}
      /\ r.kind \in {"upgrade", "downgrade", "changePlan", "checkout"} => r.plan \in Plans
      /\ r.kind = "payInvoice" => r.plan = NoPlan /\ r.pay \in Payments
  BY KindsAssumption DEF Requests, WithPlan
<1>3. CASE r.kind \in Opening
  <2>1. PICK p \in Payments : Unused(p) /\ Continue(w, r.kind, [Idle EXCEPT !.req = r, !.pay = p])
    BY <1>3 DEF Request
  <2> DEFINE k == [[Idle EXCEPT !.req = r, !.pay = p] EXCEPT !.at = r.kind]
  <2>2. DOMAIN k = JobNames /\ k.at = r.kind /\ k.req = r /\ k.pay = p /\ job' = [job EXCEPT ![w] = k]
    BY <2>1 DEF Idle, JobNames, Continue
  <2> HIDE DEF k
  <2>3. ~Recorded(p)
    BY <2>1 DEF Unused, BooksSound, PaymentsBooked
  <2>4. OpenerKnows(k)
    BY <1>2, <1>3, <2>1, <2>2, <2>3 DEF OpenerKnows, OpenerRequest, Unused, Opening
  <2>5. JobSound(k)
    BY <1>2, <1>3, <2>2, <2>4 DEF JobSound, Statements, Openers
  <2> QED
    BY <1>1, <2>1, <2>2, <2>5, StartKeepsBooks DEF Unused, BooksSound, TypeOK
<1>4. CASE r.kind \notin Opening
  <2> DEFINE k == [[Idle EXCEPT !.req = r] EXCEPT !.at = r.kind]
  <2>1. DOMAIN k = JobNames /\ k.at = r.kind /\ k.req = r /\ job' = [job EXCEPT ![w] = k]
    BY <1>4 DEF Idle, JobNames, Continue, Request
  <2> HIDE DEF k
  <2>2. k.at \in OfOwner \cup ByAdmin
    BY <1>2, <1>4, <2>1
  <2>3. JobSound(k) /\ k.at \notin Openers
    BY <1>2, <2>1, <2>2 DEF JobSound, HandlerKnows, Statements, Openers, Opening, OfOwner, ByAdmin,
                            SavingSub, SavingPay, PaidEvent
  <2> QED
    BY <1>1, <2>1, <2>3, StartKeepsBooks DEF BooksSound, TypeOK
<1> QED
  BY <1>3, <1>4

LEMMA DeliverKeepsBooks ==
    ASSUME BooksSound, NEW w \in Workers, NEW e \in sent, Deliver(w, e)
    PROVE  BooksSound' /\ Kept
<1> DEFINE k == [[Idle EXCEPT !.req.kind = "webhook", !.pay = e[1]] EXCEPT !.at = e[2]]
<1>1. /\ DOMAIN k = JobNames /\ k.at = e[2] /\ k.pay = e[1] /\ job' = [job EXCEPT ![w] = k]
      /\ DOMAIN k.req = {"kind", "plan", "pay"} /\ k.req.plan = NoPlan /\ k.req.pay = NoPayment
  BY DEF Idle, NoRequest, JobNames, Continue, Deliver
<1>2. e[1] \in Payments /\ e[2] \in {"paid", "failed"} /\ (e[2] = "paid" => PaidSession(e[1]))
  BY DEF BooksSound, TypeOK, EventsTrue
<1> HIDE DEF k
<1>3. JobSound(k) /\ k.at \notin Openers
  BY <1>1, <1>2 DEF JobSound, HandlerKnows, Statements, Openers, Opening, SavingSub, SavingPay, PaidEvent
<1> QED
  BY <1>1, <1>3, ReadKeepsBooks DEF Deliver, BooksSound, TypeOK, history

LEMMA JobsKeepBooks ==
    ASSUME BooksSound, NEW w \in Workers, Jobs(w)
    PROVE  BooksSound' /\ Kept
<1>1. sub \in SubRow /\ NoPlan \in Plans \cup {NoPlan}
  BY DEF BooksSound, TypeOK
<1>2. ASSUME NEW c \in Crons, NEW found, NEW row \in SubRow, NEW rel \in Plans \cup {NoPlan},
             RunJob(w, c, found, Entity(row, rel))
      PROVE  BooksSound' /\ Kept
  <2> DEFINE e == ToColumns(Entity(row, rel))
  <2>1. e \in SubRow
    BY DEF Entity, ToColumns, SubRow
  <2> HIDE DEF e
  <2> DEFINE k == [[Idle EXCEPT !.req.kind = c, !.ent = e] EXCEPT !.at = "selectSub"]
  <2>2. /\ DOMAIN k = JobNames /\ k.at = "selectSub" /\ k.ent = e /\ k.then = "idle"
        /\ DOMAIN k.req = {"kind", "plan", "pay"} /\ k.req.plan = NoPlan /\ k.req.pay = NoPayment
    BY DEF Idle, NoRequest, JobNames
  <2>3. /\ job[w].at = "idle" /\ UNCHANGED <<rows, now, session, sent, requests, crashes, applied>>
        /\ due' \subseteq Crons
        /\ job' = [job EXCEPT ![w] = k] \/ UNCHANGED job
    BY <1>2 DEF RunJob, Running, Continue, history, BooksSound, TypeOK, e
  <2> HIDE DEF k
  <2>4. JobSound(k) /\ k.at \notin Openers
    BY <2>1, <2>2 DEF JobSound, HandlerKnows, Statements, Openers, Opening, SavingSub, SavingPay, PaidEvent
  <2>5. CASE job' = [job EXCEPT ![w] = k]
    BY <2>3, <2>4, <2>5, StartKeepsBooks DEF BooksSound, TypeOK
  <2>6. CASE UNCHANGED job
    <3>1. TypeOK'
      BY <2>3 DEF BooksSound, TypeOK, rows
    <3> QED
      BY <2>3, <2>6, <3>1, StillKeepsBooks
  <2> QED
    BY <2>3, <2>5, <2>6
<1>3. \A st \in {"cancelled", "past_due", "suspended"} : [sub EXCEPT !.status = st] \in SubRow
  BY <1>1 DEF SubRow
<1>4. sub.plan \in Plans /\ sub.end \in Nat /\ sub.stats \in Stats /\ sub.stats.pending \in Plans \cup {NoPlan}
  BY <1>1 DEF SubRow, Stats
<1>5. CASE ProcessRenewals(w)
  <2>1. sub.stats.pending \in Plans =>
        [sub EXCEPT !.plan = sub.stats.pending, !.stats.pending = NoPlan, !.end = sub.end + Period] \in SubRow
    <3>1. sub.end + Period \in Nat /\ [sub.stats EXCEPT !.pending = NoPlan] \in Stats
      BY <1>4, BillingAssumption DEF Stats
    <3> QED
      BY <1>1, <1>4, <3>1 DEF SubRow
  <2>2. PICK row \in SubRow : Renewed(sub) = Entity(row, sub.plan)
    BY <1>3, <1>4, <2>1 DEF Renewed
  <2> QED
    BY <1>2, <1>4, <1>5, <2>2 DEF ProcessRenewals, Crons
<1>6. CASE RetryFailedPayments(w)
  <2>1. [sub EXCEPT !.stats.retries = sub.stats.retries + 1] \in SubRow
    <3>1. [sub.stats EXCEPT !.retries = sub.stats.retries + 1] \in Stats
      BY <1>4 DEF Stats
    <3> QED
      BY <1>1, <3>1 DEF SubRow
  <2> QED
    BY <1>2, <1>3, <1>4, <1>6, <2>1 DEF RetryFailedPayments, Retried, Crons
<1>7. CASE SendTrialReminders(w)
  BY <1>1, <1>2, <1>3, <1>7 DEF SendTrialReminders, Crons
<1> QED
  BY <1>5, <1>6, <1>7 DEF Jobs

\* The user pays or fails to pay at the gateway.
LEMMA GatewayKeepsBooks ==
    ASSUME BooksSound, Gateway
    PROVE  BooksSound' /\ Kept
<1> USE DEF rows, history
<1>1. PICK p \in Payments : PayAtGateway(p) \/ FailAtGateway(p)
  BY DEF Gateway
<1>2. /\ session[p] = "open" /\ UNCHANGED <<rows, job, now, due, requests, crashes, applied>>
      /\ \/ session' = [session EXCEPT ![p] = "paid"] /\ sent' = sent \cup {<<p, "paid">>}
         \/ session' = session /\ sent' = sent \cup {<<p, "failed">>}
  BY <1>1 DEF PayAtGateway, FailAtGateway
<1>3. session \in [Payments -> {"none", "created", "open", "paid"}]
  BY DEF BooksSound, TypeOK
<1>4. /\ session'[p] \in {"open", "paid"} /\ \A q \in Payments \ {p} : session'[q] = session[q]
      /\ session' \in [Payments -> {"none", "created", "open", "paid"}]
  BY <1>2, <1>3
<1>5. Kept /\ \A q \in Payments \ {p} : LeftAlone(q)
  BY <1>2, <1>4 DEF Kept, LeftAlone, Recorded, PaidSession
<1>6. \A u \in Workers : job[u].at \in Openers => job[u].pay \in Payments \ {p}
  BY <1>2 DEF BooksSound, JobsSound, JobSound, OpenerKnows, Unopened, Openers, Opening
<1>7. JobsSound'
  BY <1>2, <1>5, <1>6, KnowledgeStays DEF BooksSound, JobsSound
<1>8. TypeOK'
  BY <1>2, <1>4 DEF BooksSound, TypeOK
<1>9. OpenersApart' /\ InvoicesDated'
  BY <1>2 DEF BooksSound, OpenersApart, InvoicesDated
<1>10. PaymentsBooked'
  BY <1>2, <1>4 DEF BooksSound, PaymentsBooked, Recorded
<1>11. EventsTrue'
  BY <1>2, <1>3, <1>4 DEF BooksSound, TypeOK, EventsTrue, PaidSession
<1>12. NoFalseReceipt'
  BY <1>2, <1>5 DEF BooksSound, NoFalseReceipt, PaidFor, Kept
<1> QED
  BY <1>5, <1>7, <1>8, <1>9, <1>10, <1>11, <1>12 DEF BooksSound

\* Time passes, a handler is cut short, a cron job is missed.
LEMMA TimeAndCrashesKeepBooks ==
    ASSUME BooksSound, Tick \/ (\E w \in Workers : Crash(w)) \/ (\E c \in Crons : MissCron(c)) \/ UNCHANGED vars
    PROVE  BooksSound' /\ Kept
<1> USE DEF rows, history
<1>1. CASE \E w \in Workers : Crash(w)
  <2>1. PICK w \in Workers : Crash(w)
    BY <1>1
  <2>2. /\ UNCHANGED <<rows, now, session, sent, requests, due, applied>>
        /\ crashes' \in 0 .. MaxCrashes /\ job' = [job EXCEPT ![w] = Idle]
    BY <2>1, BillingAssumption DEF Crash, Finish, BooksSound, TypeOK
  <2>3. Kept /\ \A p \in Payments : LeftAlone(p)
    BY <2>2 DEF Kept, LeftAlone, Recorded, PaidSession
  <2>4. \A u \in Workers : job[u].at \in Openers => job[u].pay \in Payments
    BY DEF BooksSound, JobsSound, JobSound, OpenerKnows
  <2>5. JobSound(Idle)' /\ Idle.at \notin Openers
    BY IdleSound, <2>3, KnowledgeStays DEF BooksSound, Idle, Openers, Opening
  <2>6. JobsSound' /\ OpenersApart'
    BY <2>2, <2>3, <2>4, <2>5, OneMoves
  <2>7. TypeOK'
    BY <2>2 DEF BooksSound, TypeOK
  <2>8. InvoicesDated' /\ PaymentsBooked' /\ EventsTrue' /\ NoFalseReceipt'
    BY <2>2 DEF BooksSound, InvoicesDated, PaymentsBooked, EventsTrue, NoFalseReceipt, Recorded, PaidSession, PaidFor
  <2> QED
    BY <2>3, <2>6, <2>7, <2>8 DEF BooksSound
<1>2. CASE Tick \/ (\E c \in Crons : MissCron(c)) \/ UNCHANGED vars
  <2>1. UNCHANGED <<rows, job, session, sent, applied>> /\ TypeOK'
    <3>1. CASE Tick
      BY <3>1, BillingAssumption DEF Tick, Scheduled, Crons, BooksSound, TypeOK
    <3>2. CASE \E c \in Crons : MissCron(c)
      BY <3>2, BillingAssumption DEF MissCron, BooksSound, TypeOK
    <3>3. CASE UNCHANGED vars
      BY <3>3 DEF vars, outside, BooksSound, TypeOK
    <3> QED
      BY <1>2, <3>1, <3>2, <3>3
  <2> QED
    BY <2>1, StillKeepsBooks
<1> QED
  BY <1>1, <1>2

-----------------------------------------------------------------------------
(* The theorems                                                            *)

LEMMA InitBooks == Init => BooksSound
<1> SUFFICES ASSUME Init PROVE BooksSound
  OBVIOUS
<1>1. TypeOK
  <2>1. sub \in SubRow
    BY BillingAssumption DEF Init, SubRow, Stats, NoStats, NoDate, NoPlan
  <2>2. UnusedInvoice \in InvoiceRow /\ UnusedPayment \in PaymentRow
    BY DEF UnusedInvoice, UnusedPayment, InvoiceRow, PaymentRow, NoDate
  <2> QED
    BY <2>1, <2>2, BillingAssumption DEF Init, TypeOK
<1>2. JobsSound /\ OpenersApart
  BY IdleSound DEF Init, JobsSound, OpenersApart, Idle, Openers, Opening
<1>3. InvoicesDated /\ PaymentsBooked /\ EventsTrue /\ NoFalseReceipt
  BY DEF Init, InvoicesDated, PaymentsBooked, EventsTrue, NoFalseReceipt, Recorded, UnusedInvoice, UnusedPayment
<1> QED
  BY <1>1, <1>2, <1>3 DEF BooksSound

LEMMA StepKeepsBooks == BooksSound /\ [Next]_vars => BooksSound' /\ Kept
<1> SUFFICES ASSUME BooksSound, [Next]_vars PROVE BooksSound' /\ Kept
  OBVIOUS
<1>1. ASSUME NEW w \in Workers, Step(w) PROVE BooksSound' /\ Kept
  <2>1. CASE ManageSubscription(w)
    BY <2>1, UpgradeKeepsBooks, ValidateKeepsBooks, VerifyKeepsBooks, MarkingKeepsBooks, ConfirmKeepsBooks,
       ManagedKeepBooks DEF ManageSubscription
  <2>2. CASE Administer(w)
    BY <2>2, ManagedKeepBooks
  <2>3. CASE Pay(w)
    BY <2>3, OpenCheckoutKeepsBooks, CreateInvoiceKeepsBooks, CreateSessionKeepsBooks,
       RecordPaymentKeepsBooks, AnswerKeepsBooks DEF Pay
  <2>4. CASE Webhook(w)
    BY <2>4, HandleEventKeepsBooks, MarkingKeepsBooks, ActivateKeepsBooks, ReceivedKeepsBooks DEF Webhook
  <2>5. CASE Saves(w)
    BY <2>5, SelectKeepsBooks, UpdateSubKeepsBooks, UpdatePaymentKeepsBooks DEF Saves
  <2> QED
    BY <1>1, <2>1, <2>2, <2>3, <2>4, <2>5 DEF Step
<1> QED
  BY <1>1, RequestKeepsBooks, DeliverKeepsBooks, JobsKeepBooks, GatewayKeepsBooks, TimeAndCrashesKeepBooks
  DEF Next, Over

\* Whatever overlaps or is cut short, the rows and what the handlers hold of them
\* fit together.
THEOREM BillingInvariance == Spec => []BooksSound
  BY InitBooks, StepKeepsBooks, PTL DEF Spec

\* The tables of billing keep their types.
THEOREM BillingTypes == Spec => []TypeOK
<1>1. BooksSound => TypeOK
  BY DEF BooksSound
<1> QED
  BY <1>1, BillingInvariance, PTL

\* The books never claim money that did not come (paymongo-webhook.controller.ts:
\* 84-93, subscription.service.ts:253-263), for any number of overlapping handlers,
\* crashes and repeated events, with either gateway and all settings.
THEOREM BillingReceipts == Spec => []NoFalseReceipt
<1>1. BooksSound => NoFalseReceipt
  BY DEF BooksSound
<1> QED
  BY <1>1, BillingInvariance, PTL

-----------------------------------------------------------------------------
(* Plans that are paid for                                                 *)

\* A plan that was paid stays paid.
LEMMA FundedStays ==
    ASSUME BooksSound, Kept, NEW q, Funded(q)
    PROVE  Funded(q)'
<1>1. CASE ~(q > TrialPlan)
  BY <1>1 DEF Funded
<1>2. CASE q > TrialPlan
  <2>1. PICK i \in Payments, p \in Payments :
           payment[p].invoice = i /\ PaidSession(p) /\ invoice[i].plan = q
    BY <1>2 DEF Funded, PaidFor
  <2>2. Recorded(p)
    BY <2>1, BillingAssumption DEF BooksSound, PaymentsBooked, UnusedPayment
  <2>3. invoice[i].status # "none"
    BY <2>1, <2>2 DEF BooksSound, PaymentsBooked
  <2>4. payment'[p].invoice = i /\ PaidSession(p)' /\ invoice'[i].plan = q
    BY <2>1, <2>2, <2>3 DEF Kept
  <2> QED
    BY <2>4 DEF Funded, PaidFor
<1> QED
  BY <1>1, <1>2

\* One handler goes on, and the plan of the row is one that was paid.
LEMMA OneMovesFunded ==
    ASSUME BooksSound, PlansFunded, Kept, NEW w \in Workers, NEW k,
           job' = [job EXCEPT ![w] = k], PlanKnown(k),
           UNCHANGED sub \/ Funded(sub'.plan)
    PROVE  PlansFunded'
<1>1. PICK q : q = sub'.plan /\ Funded(q)
  BY DEF PlansFunded
<1>2. Funded(sub.plan)'
  BY <1>1, FundedStays DEF Funded
<1>3. DOMAIN job = Workers
  BY DEF BooksSound, JobsSound
<1>4. \A j : PlanKnown(j) => PlanKnown(j)'
  <2>1. SUFFICES ASSUME NEW j, PlanKnown(j) PROVE PlanKnown(j)'
    OBVIOUS
  <2> QED
    BY <2>1, FundedStays DEF PlanKnown
<1>5. \A u \in Workers : PlanKnown(job[u])'
  <2>1. SUFFICES ASSUME NEW u \in Workers PROVE PlanKnown(job[u])'
    OBVIOUS
  <2>2. PICK j : j = job'[u] /\ PlanKnown(j)
    BY <1>3 DEF PlansFunded
  <2> QED
    BY <1>4, <2>2 DEF PlanKnown
<1> QED
  BY <1>2, <1>5 DEF PlansFunded

\* Nobody goes on and the subscription stays.
LEMMA StillFunded ==
    ASSUME BooksSound, PlansFunded, Kept, UNCHANGED <<sub, job>>
    PROVE  PlansFunded'
<1>1. ASSUME NEW u \in Workers PROVE PlanKnown(job[u])'
  <2>1. PICK j : j = job[u] /\ PlanKnown(j)
    BY DEF PlansFunded
  <2>2. job'[u] = j
    BY <2>1
  <2> QED
    BY <2>1, <2>2, FundedStays DEF PlanKnown
<1>2. PICK q : q = sub.plan
  OBVIOUS
<1>3. Funded(sub.plan)'
  BY <1>2, FundedStays DEF Funded, PlansFunded
<1> QED
  BY <1>1, <1>3 DEF PlansFunded

\* The entity of a save, as SaveSub leaves it with the handler.
LEMMA SavedEntity ==
    ASSUME NEW row \in SubRow, NEW rel
    PROVE  /\ ToColumns(Entity(row, rel)).plan = IF rel = NoPlan THEN row.plan ELSE rel
           /\ \A c \in DOMAIN row \ {"plan"} : ToColumns(Entity(row, rel))[c] = row[c]
           /\ DOMAIN ToColumns(Entity(row, rel)) = DOMAIN row
  BY DEF ToColumns, Entity, SubRow

\* A funded plan is saved.
LEMMA SaveKeepsFunded ==
    ASSUME BooksSound, PlansFunded, Kept, NEW w \in Workers, NEW row \in SubRow, NEW rel, NEW l,
           SaveSub(w, Entity(row, rel), l, job[w]),
           Funded(IF rel = NoPlan THEN row.plan ELSE rel)
    PROVE  PlansFunded'
<1>1. PICK j : j = [job[w] EXCEPT !.ent = ToColumns(Entity(row, rel)), !.then = l]
  OBVIOUS
<1>2. PICK k : k = [j EXCEPT !.at = "selectSub"]
  OBVIOUS
<1>3. DOMAIN job[w] = JobNames
  BY DEF BooksSound, JobsSound, JobSound
<1>4. k.at = "selectSub" /\ k.ent.plan = IF rel = NoPlan THEN row.plan ELSE rel
  BY <1>1, <1>2, <1>3, SavedEntity DEF JobNames
<1>5. PlanKnown(k)
  BY <1>4 DEF PlanKnown, SavingSub, ByAdmin
<1>6. job' = [job EXCEPT ![w] = k] /\ UNCHANGED sub
  BY <1>1, <1>2 DEF SaveSub, Read, Continue, rows
<1> QED
  BY <1>5, <1>6, OneMovesFunded

\* A step after which its handler is neither saving a subscription nor confirming.
LEMMA OtherStepKeepsFunded ==
    ASSUME BooksSound, PlansFunded, Kept, NEW w \in Workers, NEW k,
           job' = [job EXCEPT ![w] = k], k.at \notin SavingSub \cup ByAdmin \cup {"confirm"},
           UNCHANGED sub \/ Funded(sub'.plan)
    PROVE  PlansFunded'
<1>1. PlanKnown(k)
  BY DEF PlanKnown
<1> QED
  BY <1>1, OneMovesFunded

\* A payment that succeeded pays for the plan it was made for.
LEMMA TargetFunded ==
    ASSUME BooksSound, NEW p \in Payments, PaidSession(p), payment[p].target # NoPlan
    PROVE  Funded(payment[p].target)
  BY DEF BooksSound, PaymentsBooked, Funded, PaidFor

LEMMA UpgradeFunded ==
    ASSUME BooksSound, PlansFunded, Kept, ~BypassPayment, NEW w \in Workers,
           Upgrade(w) \/ Validate(w) \/ Verify(w) \/ Settle(w) \/ Confirm(w)
    PROVE  PlansFunded'
<1> DEFINE j == job[w]
<1>1. JobSound(j) /\ DOMAIN j = JobNames
  BY DEF BooksSound, JobsSound, JobSound
<1>2. CASE Refuse(w)
  BY <1>2, OtherStepKeepsFunded DEF Refuse, Finish, Idle, SavingSub, ByAdmin, rows
<1>3. ASSUME NEW i, NEW l, Read(w, l, i), DOMAIN i = JobNames, l \in {"validate", "verify", "selectPayment"}
      PROVE  PlansFunded'
  <2>1. PICK k : k = [i EXCEPT !.at = l]
    OBVIOUS
  <2>2. k.at = l
    BY <1>3, <2>1 DEF JobNames
  <2> QED
    BY <1>3, <2>1, <2>2, OtherStepKeepsFunded DEF Read, Continue, SavingSub, ByAdmin, rows
<1>4. ASSUME NEW l, Continue(w, "confirm", j), UNCHANGED sub, Funded(j.req.plan)
      PROVE  PlansFunded'
  <2>1. PICK k : k = [j EXCEPT !.at = "confirm"]
    OBVIOUS
  <2>2. PlanKnown(k)
    <3>1. k.at = "confirm" /\ k.req = j.req
      BY <1>1, <2>1 DEF JobNames
    <3> QED
      BY <1>4, <3>1 DEF PlanKnown, SavingSub, ByAdmin
  <2> QED
    BY <1>4, <2>1, <2>2, OneMovesFunded DEF Continue
<1>5. CASE Upgrade(w)
  BY <1>1, <1>2, <1>3, <1>5 DEF Upgrade, JobNames
<1>6. CASE Validate(w)
  <2>1. j.req.plan \in Plans
    BY <1>1, <1>6 DEF JobSound, HandlerKnows, Validate, Running, Openers, Opening
  <2>2. CASE Read(w, "confirm", j) /\ payment[j.req.pay].status = "succeeded" /\ payment[j.req.pay].target = j.req.plan
              /\ j.req.pay # NoPayment
    <3>1. j.req.pay \in Payments
      BY <1>1, <2>2 DEF JobSound
    <3>2. PaidSession(j.req.pay) /\ j.req.plan # NoPlan
      BY <2>1, <2>2, <3>1, BillingAssumption DEF BooksSound, NoFalseReceipt, NoPlan
    <3>3. Funded(j.req.plan)
      BY <2>2, <3>1, <3>2, TargetFunded
    <3> QED
      BY <1>4, <2>2, <3>3 DEF Read, rows
  <2>3. CASE Read(w, "verify", [j EXCEPT !.pay = j.req.pay, !.ent = payment[j.req.pay]])
    BY <1>1, <1>3, <2>3 DEF JobNames
  <2> QED
    BY <1>2, <1>6, <2>2, <2>3 DEF Validate
<1>7. CASE Verify(w)
  BY <1>1, <1>2, <1>3, <1>7 DEF Verify, SavePayment, JobNames
<1>8. CASE Settle(w)
  <2>1. /\ LoadedPayment(j.pay, j.ent) /\ j.req.plan \in Plans /\ j.ent.target = j.req.plan
        /\ j.ent.status = "succeeded"
    BY <1>1, <1>8 DEF JobSound, HandlerKnows, Settle, Running, Openers, Opening
  <2>2. Funded(j.req.plan)
    BY <2>1, TargetFunded, BillingAssumption DEF LoadedPayment, NoPlan
  <2> QED
    BY <1>4, <1>8, <2>2 DEF Settle
<1>9. CASE Confirm(w)
  <2>1. j.at = "confirm" /\ j.req.plan \in Plans /\ j.sub \in SubRow
    BY <1>1, <1>9 DEF JobSound, HandlerKnows, Confirm, Running, Openers, Opening
  <2>2. Funded(j.req.plan) /\ j.req.plan # NoPlan
    BY <2>1, BillingAssumption DEF PlansFunded, PlanKnown, NoPlan
  <2>3. now + Period \in Nat /\ NoDate \in Nat
    BY BillingAssumption DEF NoDate, BooksSound, TypeOK
  <2>4. Upgraded(j.sub, j.req.plan) \in SubRow
    BY <2>1, <2>3 DEF Upgraded, SubRow
  <2> QED
    BY <1>9, <2>2, <2>4, SaveKeepsFunded DEF Confirm
<1> QED
  BY <1>5, <1>6, <1>7, <1>8, <1>9

\* Requests that leave the plan alone or take a smaller one: the only plan below
\* another one that has to be paid is the trial's, or none.
LEMMA ManagedFunded ==
    ASSUME BooksSound, PlansFunded, Kept, OnePlanAboveTrial, NEW w \in Workers,
           Downgrade(w) \/ CancelDowngrade(w) \/ Cancel(w)
    PROVE  PlansFunded'
<1> DEFINE p == job[w].req.plan
<1>1. sub \in SubRow /\ sub.plan \in Plans /\ sub.plan # NoPlan /\ Funded(sub.plan)
  BY BillingAssumption DEF BooksSound, TypeOK, SubRow, PlansFunded, NoPlan
<1>2. CASE Refuse(w)
  BY <1>2, OtherStepKeepsFunded DEF Refuse, Finish, Idle, SavingSub, ByAdmin, rows
<1>3. ASSUME NEW row \in SubRow, SaveSub(w, Entity(row, sub.plan), "idle", job[w])
      PROVE  PlansFunded'
  BY <1>1, <1>3, SaveKeepsFunded
<1>4. \A q \in Plans \cup {NoPlan} : WithPending(sub, q) \in SubRow
  BY <1>1 DEF WithPending, SubRow, Stats
<1>5. CASE Downgrade(w)
  <2>1. p \in Plans /\ p # NoPlan
    BY <1>5, BillingAssumption DEF BooksSound, JobsSound, JobSound, HandlerKnows, Openers, Opening, Downgrade, Running, NoPlan
  <2>2. CASE p < sub.plan /\ SaveSub(w, Entity([sub EXCEPT !.plan = p], p), "idle", job[w])
    <3>1. ~(p > TrialPlan)
      BY <1>1, <2>1, <2>2, BillingAssumption DEF OnePlanAboveTrial
    <3>2. Funded(p) /\ [sub EXCEPT !.plan = p] \in SubRow
      BY <1>1, <2>1, <3>1 DEF Funded, SubRow
    <3> QED
      BY <2>1, <2>2, <3>2, SaveKeepsFunded
  <2>3. sub.plan \in Nat /\ p \in Nat
    BY <1>1, <2>1, BillingAssumption
  <2> QED
    BY <1>2, <1>3, <1>4, <1>5, <2>1, <2>2, <2>3 DEF Downgrade
<1>6. CASE CancelDowngrade(w)
  BY <1>2, <1>3, <1>4, <1>6 DEF CancelDowngrade
<1>7. CASE Cancel(w)
  <2>1. [sub EXCEPT !.status = "cancelled"] \in SubRow /\ [sub EXCEPT !.cancelAtEnd = TRUE] \in SubRow
    BY <1>1 DEF SubRow
  <2> QED
    BY <1>2, <1>3, <1>7, <2>1 DEF Cancel
<1> QED
  BY <1>5, <1>6, <1>7

\* Sessions, events and saves: only Activate and UpdateSub touch the plan.
LEMMA PaidForFunded ==
    ASSUME BooksSound, PlansFunded, Kept, NEW w \in Workers, Pay(w) \/ Webhook(w) \/ Saves(w)
    PROVE  PlansFunded'
<1> DEFINE j == job[w]
<1> USE DEF rows
<1>1. JobSound(j) /\ DOMAIN j = JobNames
  BY DEF BooksSound, JobsSound, JobSound
<1>2. ASSUME Finish(w), UNCHANGED sub \/ Funded(sub'.plan)
      PROVE  PlansFunded'
  BY <1>2, OtherStepKeepsFunded DEF Finish, Idle, SavingSub, ByAdmin
<1>3. ASSUME NEW i, NEW l, Continue(w, l, i), DOMAIN i = JobNames, UNCHANGED sub \/ Funded(sub'.plan),
             l \notin SavingSub \cup ByAdmin \cup {"confirm"}
      PROVE  PlansFunded'
  <2>1. PICK k : k = [i EXCEPT !.at = l]
    OBVIOUS
  <2>2. k.at = l
    BY <1>3, <2>1 DEF JobNames
  <2> QED
    BY <1>3, <2>1, <2>2, OtherStepKeepsFunded DEF Continue
<1>4. CASE Pay(w)
  <2>1. UNCHANGED sub
    BY <1>4 DEF Pay, OpenCheckout, CreateInvoice, PayInvoice, CreateSession, RecordPayment, AnswerUrl, Refuse, Read
  <2>2. \/ Finish(w)
        \/ \E l \in {"createInvoice", "createSession", "recordPayment", "answer"} : Continue(w, l, j)
    BY <1>4 DEF Pay, OpenCheckout, CreateInvoice, PayInvoice, CreateSession, RecordPayment, AnswerUrl, Refuse, Read
  <2> QED
    BY <1>1, <1>2, <1>3, <2>1, <2>2 DEF SavingSub, ByAdmin
<1>5. CASE HandlePaid(w) \/ HandleFailed(w)
  <2>1. UNCHANGED sub
    BY <1>5 DEF HandlePaid, HandleFailed, Refuse, SavePayment, Read
  <2>2. Finish(w) \/ \E i : DOMAIN i = DOMAIN j /\ Continue(w, "selectPayment", i)
    BY <1>5 DEF HandlePaid, HandleFailed, Refuse, SavePayment, Read
  <2> QED
    BY <1>1, <1>2, <1>3, <2>1, <2>2 DEF SavingSub, ByAdmin
<1>6. CASE PaidInvoice(w) \/ FailedInvoice(w) \/ Received(w)
  BY <1>1, <1>2, <1>3, <1>6 DEF PaidInvoice, FailedInvoice, Received, SavingSub, ByAdmin
<1>7. CASE Activate(w)
  <2> DEFINE inv == invoice[payment[j.pay].invoice]
  <2>1. j.pay \in Payments /\ Recorded(j.pay) /\ PaidSession(j.pay)
    BY <1>1, <1>7 DEF JobSound, HandlerKnows, Activate, Running, PaidEvent, Openers, Opening
  <2>2. /\ payment[j.pay].invoice \in Payments
        /\ inv.plan \in Plans /\ inv.until \in Nat /\ sub \in SubRow
    BY <2>1 DEF BooksSound, TypeOK, PaymentsBooked, InvoicesDated, InvoiceRow
  <2>3. Activated(sub, inv) \in SubRow /\ Activated(sub, inv).plan = inv.plan
    BY <2>2 DEF Activated, SubRow, NoDate
  <2>4. Funded(inv.plan)
    BY <2>1, <2>2 DEF Funded, PaidFor
  <2> QED
    BY <1>7, <2>3, <2>4, SaveKeepsFunded DEF Activate
<1>8. CASE Saves(w)
  <2>1. ASSUME GoOn(w), j.at \in SavingSub \cup SavingPay, UNCHANGED sub \/ Funded(sub'.plan) PROVE PlansFunded'
    <3>1. j.then \notin SavingSub \cup ByAdmin \cup {"confirm"}
      BY <1>1, <2>1 DEF JobSound, HandlerKnows, SavingSub, SavingPay, ByAdmin, Openers, Opening
    <3> QED
      BY <1>1, <1>2, <1>3, <2>1, <3>1 DEF GoOn
  <2>2. CASE SelectSub(w)
    <3>1. CASE GoOn(w)
      BY <2>1, <2>2, <3>1 DEF SelectSub, Running, SavingSub
    <3>2. CASE ~GoOn(w)
      <4>1. PICK cols : Continue(w, "updateSub", [j EXCEPT !.cols = cols])
        BY <2>2, <3>2 DEF SelectSub
      <4>2. PICK i : i = [j EXCEPT !.cols = cols]
        OBVIOUS
      <4>3. PICK k : k = [i EXCEPT !.at = "updateSub"]
        OBVIOUS
      <4>4. k.at = "updateSub" /\ k.ent = j.ent
        BY <1>1, <4>2, <4>3 DEF JobNames
      <4>5. Funded(j.ent.plan)
        BY <2>2 DEF PlansFunded, PlanKnown, SelectSub, Running, SavingSub
      <4>6. PlanKnown(k)
        BY <4>4, <4>5 DEF PlanKnown, ByAdmin
      <4>7. job' = [job EXCEPT ![w] = k] /\ UNCHANGED sub
        BY <2>2, <4>1, <4>2, <4>3 DEF Continue, SelectSub
      <4> QED
        BY <4>6, <4>7, OneMovesFunded
    <3> QED
      BY <3>1, <3>2
  <2>3. CASE UpdateSub(w)
    <3>1. Funded(j.ent.plan) /\ Funded(sub.plan) /\ sub \in SubRow
      BY <2>3 DEF PlansFunded, PlanKnown, UpdateSub, Running, SavingSub, BooksSound, TypeOK
    <3>2. sub'.plan \in {sub.plan, j.ent.plan}
      BY <2>3, <3>1 DEF UpdateSub, Patched, SubRow
    <3> QED
      BY <2>1, <2>3, <3>1, <3>2 DEF UpdateSub, Running, SavingSub
  <2>4. CASE SelectPayment(w)
    <3>1. CASE GoOn(w)
      BY <2>1, <2>4, <3>1 DEF SelectPayment, Running, SavingPay
    <3>2. CASE ~GoOn(w)
      <4>1. PICK i : DOMAIN i = DOMAIN j /\ Continue(w, "updatePayment", i)
        BY <2>4, <3>2 DEF SelectPayment
      <4> QED
        BY <1>1, <1>3, <2>4, <4>1 DEF SelectPayment, SavingSub, ByAdmin
    <3> QED
      BY <3>1, <3>2
  <2>5. CASE UpdatePayment(w)
    BY <2>1, <2>5 DEF UpdatePayment, Running, SavingPay
  <2> QED
    BY <1>8, <2>2, <2>3, <2>4, <2>5 DEF Saves
<1> QED
  BY <1>4, <1>5, <1>6, <1>7, <1>8 DEF Webhook

\* Handlers that start: no request of the administrator, and the jobs save the
\* plan that is there.
LEMMA StartsFunded ==
    ASSUME BooksSound, PlansFunded, Kept, Kinds \cap ByAdmin = {}, NEW w \in Workers,
           \/ \E r \in Requests : Request(w, r)
           \/ \E e \in sent : Deliver(w, e)
           \/ Jobs(w)
           \/ Crash(w)
    PROVE  PlansFunded'
<1> USE DEF rows
<1>1. CASE \E r \in Requests : Request(w, r)
  <2>1. PICK r \in Requests : Request(w, r)
    BY <1>1
  <2>2. r.kind \in Opening \cup OfOwner
    BY KindsAssumption DEF Requests
  <2>3. PICK i : DOMAIN i = JobNames /\ Continue(w, r.kind, i)
    BY <2>1 DEF Request, Idle, JobNames
  <2>4. PICK k : k = [i EXCEPT !.at = r.kind]
    OBVIOUS
  <2>5. k.at = r.kind
    BY <2>3, <2>4 DEF JobNames
  <2>6. k.at \notin SavingSub \cup ByAdmin \cup {"confirm"}
    BY <2>2, <2>5 DEF Opening, OfOwner, SavingSub, ByAdmin
  <2> QED
    BY <2>1, <2>3, <2>4, <2>6, OtherStepKeepsFunded DEF Request, Continue
<1>2. CASE \E e \in sent : Deliver(w, e)
  <2>1. PICK e \in sent : Deliver(w, e)
    BY <1>2
  <2>2. e[2] \in {"paid", "failed"}
    BY DEF BooksSound, TypeOK
  <2>3. PICK i : DOMAIN i = JobNames /\ Continue(w, e[2], i)
    BY <2>1 DEF Deliver, Idle, JobNames
  <2>4. PICK k : k = [i EXCEPT !.at = e[2]]
    OBVIOUS
  <2>5. k.at = e[2]
    BY <2>3, <2>4 DEF JobNames
  <2>6. k.at \notin SavingSub \cup ByAdmin \cup {"confirm"}
    BY <2>2, <2>5 DEF SavingSub, ByAdmin
  <2> QED
    BY <2>1, <2>3, <2>4, <2>6, OtherStepKeepsFunded DEF Deliver, Continue
<1>3. CASE Jobs(w)
  <2>1. sub \in SubRow /\ sub.plan \in Plans /\ sub.plan # NoPlan /\ Funded(sub.plan)
    BY BillingAssumption DEF BooksSound, TypeOK, SubRow, PlansFunded, NoPlan
  <2>2. PICK c, e : /\ e.plan = sub.plan
                    /\ \/ UNCHANGED job
                       \/ Continue(w, "selectSub", [Idle EXCEPT !.req.kind = c, !.ent = e])
    <3>1. \A row \in SubRow : ToColumns(Entity(row, sub.plan)).plan = sub.plan
      BY <2>1, SavedEntity
    <3>2. \A st \in {"cancelled", "past_due", "suspended"} : [sub EXCEPT !.status = st] \in SubRow
      BY <2>1 DEF SubRow
    <3>3. [sub EXCEPT !.stats.retries = sub.stats.retries + 1] \in SubRow
      BY <2>1 DEF SubRow, Stats
    <3>4. sub.stats.pending # NoPlan =>
          [sub EXCEPT !.plan = sub.stats.pending, !.stats.pending = NoPlan, !.end = sub.end + Period] \in SubRow
      <4>1. sub.end + Period \in Nat /\ [sub.stats EXCEPT !.pending = NoPlan] \in Stats
            /\ sub.stats.pending \in Plans \cup {NoPlan}
        BY <2>1, BillingAssumption DEF SubRow, Stats
      <4> QED
        BY <2>1, <4>1 DEF SubRow
    <3>5. CASE ProcessRenewals(w)
      <4>1. ToColumns(Renewed(sub)).plan = sub.plan
        BY <3>1, <3>2, <3>4 DEF Renewed
      <4> QED
        BY <3>5, <4>1 DEF ProcessRenewals, RunJob
    <3>6. CASE RetryFailedPayments(w)
      <4>1. ToColumns(Entity(Retried(sub), sub.plan)).plan = sub.plan
        BY <3>1, <3>2, <3>3 DEF Retried
      <4> QED
        BY <3>6, <4>1 DEF RetryFailedPayments, RunJob
    <3>7. CASE SendTrialReminders(w)
      <4>1. ToColumns(Entity([sub EXCEPT !.status = "suspended"], NoPlan)).plan = sub.plan
        BY <2>1, <3>2, SavedEntity DEF SubRow
      <4> QED
        BY <3>7, <4>1 DEF SendTrialReminders, RunJob
    <3> QED
      BY <1>3, <3>5, <3>6, <3>7 DEF Jobs
  <2>3. UNCHANGED sub
    BY <1>3 DEF Jobs, ProcessRenewals, RetryFailedPayments, SendTrialReminders, RunJob
  <2>4. CASE UNCHANGED job
    BY <2>3, <2>4, StillFunded
  <2>5. CASE Continue(w, "selectSub", [Idle EXCEPT !.req.kind = c, !.ent = e])
    <3>1. PICK k : k = [[Idle EXCEPT !.req.kind = c, !.ent = e] EXCEPT !.at = "selectSub"]
      OBVIOUS
    <3>2. k.at = "selectSub" /\ k.ent = e
      BY <3>1 DEF Idle
    <3>3. PlanKnown(k)
      BY <2>1, <2>2, <3>2 DEF PlanKnown, SavingSub, ByAdmin
    <3> QED
      BY <2>3, <2>5, <3>1, <3>3, OneMovesFunded DEF Continue
  <2> QED
    BY <2>2, <2>4, <2>5
<1>4. CASE Crash(w)
  BY <1>4, OtherStepKeepsFunded DEF Crash, Finish, Idle, SavingSub, ByAdmin
<1> QED
  BY <1>1, <1>2, <1>3, <1>4

\* The organization is on a plan above the trial's only if a checkout session for
\* that plan was paid: the user's upgrade request, the webhook and the jobs may
\* overlap, be repeated and be cut short in any way (subscription.service.ts:
\* 182-275, paymongo-webhook.controller.ts:84-110).
THEOREM PaidPlans ==
    ASSUME OnlyForMoney, OnePlanAboveTrial
    PROVE  Spec => []PlanIsPaidFor
<1>1. Init => PlansFunded
  <2>1. SUFFICES ASSUME Init PROVE PlansFunded
    OBVIOUS
  <2>2. ~(sub.plan > TrialPlan)
    BY <2>1, BillingAssumption DEF Init
  <2>3. \A w \in Workers : PlanKnown(job[w])
    BY <2>1 DEF Init, PlanKnown, Idle, SavingSub, ByAdmin
  <2> QED
    BY <2>2, <2>3 DEF PlansFunded, Funded
<1>2. BooksSound /\ PlansFunded /\ [Next]_vars => PlansFunded'
  <2>1. SUFFICES ASSUME BooksSound, PlansFunded, [Next]_vars, Kept PROVE PlansFunded'
    BY StepKeepsBooks
  <2>2. ASSUME NEW w \in Workers, Step(w) PROVE PlansFunded'
    <3>1. ~Administer(w)
      BY <2>1, <2>2 DEF PlansFunded, PlanKnown, Administer, Suspend, Reactivate, ChangePlan, Running, ByAdmin
    <3> QED
      BY <2>1, <2>2, <3>1, UpgradeFunded, ManagedFunded, PaidForFunded DEF OnlyForMoney, Step, ManageSubscription
  <2>3. CASE Gateway \/ Tick \/ (\E c \in Crons : MissCron(c)) \/ UNCHANGED vars
    <3>1. UNCHANGED <<sub, job>>
      BY <2>3 DEF Gateway, PayAtGateway, FailAtGateway, Tick, MissCron, vars, rows
    <3> QED
      BY <2>1, <3>1, StillFunded
  <2> QED
    BY <2>1, <2>2, <2>3, StartsFunded DEF OnlyForMoney, Next, Over
<1>3. PlansFunded => PlanIsPaidFor
  BY DEF PlansFunded, Funded, PlanIsPaidFor
<1> QED
  BY <1>1, <1>2, <1>3, BillingInvariance, PTL DEF Spec

-----------------------------------------------------------------------------
(* One handler at a time: the subscription                                 *)

\* The one handler goes on, and the subscription and the clock stay.
LEMMA OneGoesOn ==
    ASSUME BooksSound, OneAtATime, SubscriptionProper, NEW w \in Workers, NEW k,
           job' = [job EXCEPT ![w] = k], UNCHANGED <<sub, now>>, SubKnown(k)
    PROVE  SubscriptionProper'
<1>1. \A u \in Workers : u = w
  BY DEF OneAtATime
<1>2. job'[w] = k
  BY DEF BooksSound, JobsSound
<1>3. SubKnown(job[w])'
  BY <1>2 DEF SubKnown, Proper, Upgrading, AskedFor, RanOut, TrialOver, GivenUp, DaysPastDue
<1>4. Proper("none", sub)'
  BY DEF SubscriptionProper, Proper, Off
<1> QED
  BY <1>1, <1>3, <1>4 DEF SubscriptionProper

\* The same for a step that ends the handler.
LEMMA OneEnds ==
    ASSUME BooksSound, OneAtATime, SubscriptionProper, NEW w \in Workers, Finish(w), UNCHANGED <<sub, now>>
    PROVE  SubscriptionProper'
<1>1. SubKnown(Idle)
  BY DEF SubKnown, Idle, SavingSub, SavingPay, PaidEvent, ByAdmin, Upgrading
<1> QED
  BY <1>1, OneGoesOn DEF Finish

\* The same for a statement after which little is known.
LEMMA OneContinues ==
    ASSUME BooksSound, OneAtATime, SubscriptionProper, NEW w \in Workers,
           NEW l, NEW i, Continue(w, l, i), UNCHANGED <<sub, now>>, DOMAIN i = JobNames,
           l \notin SavingSub \cup ByAdmin \cup {"cancel", "cancelNow"},
           l \in {"upgrade", "validate", "verify", "settle", "confirm"} => sub.status \notin Off,
           l \in SavingPay /\ i.then = "settle" => sub.status \notin Off,
           l \in PaidEvent => i.req.kind = "webhook",
           l \in SavingPay /\ i.then = "paidInvoice" => i.req.kind = "webhook"
    PROVE  SubscriptionProper'
<1>1. PICK k : k = [i EXCEPT !.at = l]
  OBVIOUS
<1>2. k.at = l /\ k.req = i.req /\ k.then = i.then
  BY <1>1 DEF JobNames
<1>3. SubKnown(k)
  BY <1>2 DEF SubKnown, Upgrading, SavingSub
<1> QED
  BY <1>1, <1>3, OneGoesOn DEF Continue

\* A proper row is saved.
LEMMA SaveKeepsProper ==
    ASSUME BooksSound, OneAtATime, SubscriptionProper, NEW w \in Workers, NEW row \in SubRow, NEW rel, NEW l,
           SaveSub(w, Entity(row, rel), l, job[w]), Proper(job[w].req.kind, row)
    PROVE  SubscriptionProper'
<1>1. PICK e : e = ToColumns(Entity(row, rel))
  OBVIOUS
<1>2. e.status = row.status /\ e.end = row.end
  BY <1>1, SavedEntity DEF SubRow
<1>3. PICK j : j = [job[w] EXCEPT !.ent = e, !.then = l]
  OBVIOUS
<1>4. PICK k : k = [j EXCEPT !.at = "selectSub"]
  OBVIOUS
<1>5. DOMAIN job[w] = JobNames
  BY DEF BooksSound, JobsSound, JobSound
<1>6. k.at = "selectSub" /\ k.ent = e /\ k.req = job[w].req
  BY <1>3, <1>4, <1>5 DEF JobNames
<1>7. SubKnown(k)
  BY <1>2, <1>6 DEF SubKnown, Proper, Upgrading, SavingPay, PaidEvent, ByAdmin
<1>8. job' = [job EXCEPT ![w] = k] /\ UNCHANGED <<sub, now>>
  BY <1>1, <1>3, <1>4 DEF SaveSub, Read, Continue, rows, outside
<1> QED
  BY <1>7, <1>8, OneGoesOn

\* The requests of the owner and of the administrator.
LEMMA ManagedProper ==
    ASSUME BooksSound, OneAtATime, SubscriptionProper, NEW w \in Workers, ManageSubscription(w) \/ Administer(w)
    PROVE  SubscriptionProper'
<1> DEFINE j == job[w]
           p == j.req.plan
<1>1. /\ JobSound(j) /\ DOMAIN j = JobNames /\ SubKnown(j)
      /\ sub \in SubRow /\ Proper("none", sub)
  BY DEF BooksSound, JobsSound, JobSound, SubscriptionProper, TypeOK
<1>2. CASE Refuse(w)
  BY <1>2, OneEnds DEF Refuse, rows, outside
<1>3. ASSUME NEW row \in SubRow, NEW rel, NEW l, SaveSub(w, Entity(row, rel), l, j),
             row.status = sub.status /\ row.end = sub.end
      PROVE  SubscriptionProper'
  <2>1. Proper(j.req.kind, row)
    BY <1>1, <1>3 DEF Proper
  <2> QED
    BY <1>3, <2>1, SaveKeepsProper
<1>4. now + Period \in Nat \ {0} /\ NoDate = 0
  BY BillingAssumption DEF NoDate, BooksSound, TypeOK
<1>5. ASSUME NEW s \in SubRow, NEW q \in Plans, sub.status \notin Off
      PROVE  Upgraded(s, q) \in SubRow /\ Proper(j.req.kind, Upgraded(s, q))
  <2>1. /\ Upgraded(s, q) \in SubRow /\ Upgraded(s, q).status = "active"
        /\ Upgraded(s, q).end = now + Period
    BY <1>4, <1>5 DEF Upgraded, SubRow
  <2> QED
    BY <1>4, <1>5, <2>1 DEF Proper, Off
<1>6. CASE Upgrade(w)
  <2>1. p \in Plans /\ sub.status \notin Off /\ j.at = "upgrade"
    BY <1>1, <1>6 DEF JobSound, HandlerKnows, Upgrade, Running, Openers, Opening, SubKnown, Upgrading
  <2>2. CASE SaveSub(w, Entity(Upgraded(sub, p), p), "idle", j)
    BY <1>1, <1>5, <2>1, <2>2, SaveKeepsProper
  <2>3. CASE Read(w, "validate", [j EXCEPT !.sub = sub])
    BY <1>1, <2>1, <2>3, OneContinues DEF Read, rows, outside, JobNames, SavingSub, SavingPay, ByAdmin, PaidEvent
  <2> QED
    BY <1>2, <1>6, <2>2, <2>3 DEF Upgrade
<1>7. CASE Validate(w) \/ Verify(w) \/ Settle(w)
  <2>1. sub.status \notin Off
    BY <1>1, <1>7 DEF Validate, Verify, Settle, Running, SubKnown, Upgrading
  <2>2. \/ Refuse(w)
        \/ /\ UNCHANGED <<sub, now>>
           /\ \E i, l : /\ Continue(w, l, i) /\ DOMAIN i = DOMAIN j
                        /\ l \in {"confirm", "verify"} \/ (l = "selectPayment" /\ i.then = "settle")
    <3>1. ASSUME Settle(w) PROVE Continue(w, "confirm", j) /\ UNCHANGED <<sub, now>>
      BY <3>1 DEF Settle, outside
    <3>2. ASSUME Validate(w), ~Refuse(w)
          PROVE  /\ UNCHANGED <<sub, now>>
                 /\ \/ Continue(w, "confirm", j)
                    \/ Continue(w, "verify", [j EXCEPT !.pay = j.req.pay, !.ent = payment[j.req.pay]])
      BY <3>2 DEF Validate, Read, rows, outside
    <3>3. ASSUME Verify(w), ~Refuse(w)
          PROVE  /\ UNCHANGED <<sub, now>>
                 /\ Continue(w, "selectPayment",
                             [j EXCEPT !.ent = [j.ent EXCEPT !.status = "succeeded"], !.then = "settle"])
      BY <3>3 DEF Verify, SavePayment, Read, rows, outside
    <3>4. [j EXCEPT !.ent = [j.ent EXCEPT !.status = "succeeded"], !.then = "settle"].then = "settle"
      BY <1>1 DEF JobNames
    <3> QED
      BY <1>7, <3>1, <3>2, <3>3, <3>4
  <2>3. CASE Refuse(w)
    BY <1>2, <2>3
  <2>4. CASE ~Refuse(w)
    <3>1. PICK i, l : /\ Continue(w, l, i) /\ DOMAIN i = DOMAIN j
                      /\ l \in {"confirm", "verify"} \/ (l = "selectPayment" /\ i.then = "settle")
      BY <2>2, <2>4
    <3> QED
      BY <1>1, <2>1, <2>2, <2>4, <3>1, OneContinues DEF SavingSub, SavingPay, ByAdmin, PaidEvent
  <2> QED
    BY <2>3, <2>4
<1>8. CASE Confirm(w)
  <2>1. p \in Plans /\ sub.status \notin Off /\ j.sub \in SubRow
    BY <1>1, <1>8 DEF JobSound, HandlerKnows, Confirm, Running, Openers, Opening, SubKnown, Upgrading
  <2>2. Upgraded(j.sub, p) \in SubRow /\ Proper(j.req.kind, Upgraded(j.sub, p))
    BY <1>5, <2>1
  <2> QED
    BY <1>8, <2>2, SaveKeepsProper DEF Confirm
<1>9. CASE Downgrade(w) \/ CancelDowngrade(w)
  <2>1. \A q \in Plans \cup {NoPlan} :
           /\ WithPending(sub, q) \in SubRow
           /\ WithPending(sub, q).status = sub.status /\ WithPending(sub, q).end = sub.end
    BY <1>1 DEF WithPending, SubRow, Stats
  <2>2. \A q \in Plans : /\ [sub EXCEPT !.plan = q] \in SubRow
                         /\ [sub EXCEPT !.plan = q].status = sub.status /\ [sub EXCEPT !.plan = q].end = sub.end
    BY <1>1 DEF SubRow
  <2>3. Downgrade(w) => p \in Plans
    BY <1>1 DEF JobSound, HandlerKnows, Downgrade, Running, Openers, Opening
  <2>4. CASE Downgrade(w)
    BY <1>2, <1>3, <2>1, <2>2, <2>3, <2>4 DEF Downgrade
  <2>5. CASE CancelDowngrade(w)
    BY <1>2, <1>3, <2>1, <2>5 DEF CancelDowngrade
  <2> QED
    BY <1>9, <2>4, <2>5
<1>10. CASE Cancel(w)
  <2>1. /\ [sub EXCEPT !.cancelAtEnd = TRUE] \in SubRow
        /\ [sub EXCEPT !.cancelAtEnd = TRUE].status = sub.status
        /\ [sub EXCEPT !.cancelAtEnd = TRUE].end = sub.end
        /\ [sub EXCEPT !.status = "cancelled"] \in SubRow
        /\ [sub EXCEPT !.status = "cancelled"].status = "cancelled"
    BY <1>1 DEF SubRow
  <2>2. j.req.kind = j.at /\ j.at \in {"cancel", "cancelNow"}
    BY <1>1, <1>10 DEF Cancel, Running, SubKnown
  <2>3. j.req.kind = "cancelNow" \/ sub.status = "trial" => Proper(j.req.kind, [sub EXCEPT !.status = "cancelled"])
    BY <2>1, <2>2 DEF Proper, Off, AskedFor
  <2> QED
    BY <1>2, <1>3, <1>10, <2>1, <2>3, SaveKeepsProper DEF Cancel
<1>11. CASE Administer(w)
  <2>1. j.req.kind = j.at /\ ~NoAdmin
    BY <1>1, <1>11 DEF Administer, Suspend, Reactivate, ChangePlan, Running, SubKnown, ByAdmin
  <2>2. \A st \in {"suspended", "active"} :
           [sub EXCEPT !.status = st] \in SubRow /\ [sub EXCEPT !.status = st].status = st
    BY <1>1 DEF SubRow
  <2>3. CASE Suspend(w)
    <3>1. Proper(j.req.kind, [sub EXCEPT !.status = "suspended"])
      BY <2>1, <2>2, <2>3 DEF Proper, Off, AskedFor, Suspend, Running
    <3> QED
      BY <2>2, <2>3, <3>1, SaveKeepsProper DEF Suspend
  <2>4. CASE Reactivate(w)
    <3>1. Proper(j.req.kind, [sub EXCEPT !.status = "active"])
      BY <1>1, <2>1, <2>2, <2>4 DEF Proper, Off, Revivers, Reactivate, Running
    <3> QED
      BY <2>2, <2>4, <3>1, SaveKeepsProper DEF Reactivate
  <2>5. CASE ChangePlan(w)
    <3>1. p \in Plans
      BY <1>1, <2>5 DEF JobSound, HandlerKnows, ChangePlan, Running, Openers, Opening
    <3>2. /\ [sub EXCEPT !.plan = p] \in SubRow
          /\ [sub EXCEPT !.plan = p].status = sub.status /\ [sub EXCEPT !.plan = p].end = sub.end
      BY <1>1, <3>1 DEF SubRow
    <3> QED
      BY <1>3, <2>5, <3>2 DEF ChangePlan
  <2> QED
    BY <1>11, <2>3, <2>4, <2>5 DEF Administer
<1> QED
  BY <1>6, <1>7, <1>8, <1>9, <1>10, <1>11 DEF ManageSubscription

\* Sessions and events leave the subscription to Activate.
LEMMA PaymentsProper ==
    ASSUME BooksSound, OneAtATime, SubscriptionProper, NEW w \in Workers, Pay(w) \/ Webhook(w)
    PROVE  SubscriptionProper'
<1> DEFINE j == job[w]
<1> USE DEF rows, outside
<1>1. JobSound(j) /\ DOMAIN j = JobNames /\ SubKnown(j) /\ Proper("none", sub)
  BY DEF BooksSound, JobsSound, JobSound, SubscriptionProper
<1>2. CASE Finish(w) /\ UNCHANGED <<sub, now>>
  BY <1>2, OneEnds
<1>3. CASE Pay(w)
  <2>1. /\ UNCHANGED <<sub, now>>
        /\ \/ Finish(w)
           \/ \E l \in {"createInvoice", "createSession", "recordPayment", "answer"} : Continue(w, l, j)
    BY <1>3 DEF Pay, OpenCheckout, CreateInvoice, PayInvoice, CreateSession, RecordPayment, AnswerUrl, Refuse, Read
  <2> QED
    BY <1>1, <1>2, <2>1, OneContinues DEF SavingSub, SavingPay, ByAdmin, PaidEvent
<1>4. CASE HandlePaid(w) \/ HandleFailed(w)
  <2>1. UNCHANGED <<sub, now>>
    BY <1>4 DEF HandlePaid, HandleFailed, Refuse, SavePayment, Read
  <2>2. \/ Finish(w)
        \/ \E i : /\ DOMAIN i = DOMAIN j /\ Continue(w, "selectPayment", i) /\ i.req = j.req
                  /\ \/ i.then = "paidInvoice" /\ j.at = "paid"
                     \/ i.then = "failedInvoice"
    <3>2. \/ Finish(w)
          \/ \E e, l : /\ Continue(w, "selectPayment", [j EXCEPT !.ent = e, !.then = l])
                       /\ \/ l = "paidInvoice" /\ j.at = "paid"
                          \/ l = "failedInvoice"
      BY <1>4 DEF HandlePaid, HandleFailed, Refuse, SavePayment, Read, Running
    <3>3. ASSUME NEW e, NEW l, Continue(w, "selectPayment", [j EXCEPT !.ent = e, !.then = l]),
                 \/ l = "paidInvoice" /\ j.at = "paid"
                 \/ l = "failedInvoice"
          PROVE  <2>2!2
      <4>1. PICK i : i = [j EXCEPT !.ent = e, !.then = l]
        OBVIOUS
      <4>2. DOMAIN i = DOMAIN j /\ i.req = j.req /\ i.then = l
        BY <1>1, <4>1 DEF JobNames
      <4> QED
        BY <3>3, <4>1, <4>2
    <3> QED
      BY <3>2, <3>3
  <2>3. CASE Finish(w)
    BY <1>2, <2>1, <2>3
  <2>4. CASE ~Finish(w)
    <3>1. PICK i : /\ DOMAIN i = DOMAIN j /\ Continue(w, "selectPayment", i) /\ i.req = j.req
                   /\ \/ i.then = "paidInvoice" /\ j.at = "paid"
                      \/ i.then = "failedInvoice"
      BY <2>2, <2>4
    <3>2. i.then = "paidInvoice" => i.req.kind = "webhook"
      BY <1>1, <3>1 DEF SubKnown, PaidEvent
    <3> QED
      BY <1>1, <2>1, <3>1, <3>2, OneContinues DEF SavingSub, SavingPay, ByAdmin, PaidEvent
  <2> QED
    BY <2>3, <2>4
<1>5. CASE PaidInvoice(w)
  <2>1. j.req.kind = "webhook"
    BY <1>1, <1>5 DEF PaidInvoice, Running, SubKnown, PaidEvent
  <2> QED
    BY <1>1, <1>5, <2>1, OneContinues DEF PaidInvoice, SavingSub, SavingPay, ByAdmin, PaidEvent
<1>6. CASE FailedInvoice(w) \/ Received(w)
  BY <1>2, <1>6 DEF FailedInvoice, Received
<1>7. CASE Activate(w)
  <2> DEFINE inv == invoice[payment[j.pay].invoice]
  <2>1. j.pay \in Payments /\ Recorded(j.pay) /\ j.req.kind = "webhook"
    BY <1>1, <1>7 DEF JobSound, HandlerKnows, Activate, Running, PaidEvent, Openers, Opening, SubKnown
  <2>2. inv.plan \in Plans /\ inv.until \in Nat /\ inv.until > 0 /\ sub \in SubRow
    BY <2>1 DEF BooksSound, TypeOK, PaymentsBooked, InvoicesDated, InvoiceRow
  <2>3. /\ Activated(sub, inv) \in SubRow
        /\ Activated(sub, inv).status = "active" /\ Activated(sub, inv).end = inv.until
    BY <2>2 DEF Activated, SubRow, NoDate
  <2>4. Proper(j.req.kind, Activated(sub, inv))
    BY <2>1, <2>2, <2>3 DEF Proper, Off, Revivers, NoDate
  <2> QED
    BY <1>7, <2>3, <2>4, SaveKeepsProper DEF Activate
<1> QED
  BY <1>3, <1>4, <1>5, <1>6, <1>7 DEF Webhook

\* A row patched with all the columns in which an entity differs is that entity.
LEMMA PatchedWithAll ==
    ASSUME NEW row \in SubRow, NEW e \in SubRow
    PROVE  Patched(row, e, Changed(e, row)) = e
  BY DEF Patched, Changed, SubRow

\* What an update that nobody disturbs writes.
LEMMA UpdateWrites ==
    ASSUME BooksSound, OneAtATime, SubscriptionProper, NEW w \in Workers, UpdateSub(w)
    PROVE  sub' = job[w].ent /\ Proper(job[w].req.kind, sub') /\ UNCHANGED now
<1>1. job[w].at = "updateSub" /\ JobSound(job[w]) /\ SubKnown(job[w]) /\ sub \in SubRow
  BY DEF BooksSound, JobsSound, SubscriptionProper, UpdateSub, Running, TypeOK
<1>2. job[w].ent \in SubRow /\ job[w].cols = Changed(job[w].ent, sub) /\ Proper(job[w].req.kind, job[w].ent)
  BY <1>1 DEF JobSound, HandlerKnows, SubKnown, SavingSub, Openers, Opening
<1> QED
  BY <1>1, <1>2, PatchedWithAll DEF UpdateSub, outside

LEMMA SavesProper ==
    ASSUME BooksSound, OneAtATime, SubscriptionProper, NEW w \in Workers, Saves(w)
    PROVE  SubscriptionProper'
<1> DEFINE j == job[w]
<1> USE DEF rows, outside
<1>1. JobSound(j) /\ DOMAIN j = JobNames /\ SubKnown(j) /\ Proper("none", sub)
  BY DEF BooksSound, JobsSound, JobSound, SubscriptionProper
<1>2. ASSUME GoOn(w), j.at \in SavingSub \cup SavingPay, UNCHANGED <<sub, now>>
      PROVE  SubscriptionProper'
  <2>1. CASE j.then = "idle"
    BY <1>2, <2>1, OneEnds DEF GoOn
  <2>2. CASE j.then # "idle"
    <3>1. Continue(w, j.then, j)
      BY <1>2, <2>2 DEF GoOn
    <3>2. /\ j.then \in {"received", "settle", "paidInvoice", "failedInvoice"}
          /\ j.then \in {"settle", "paidInvoice"} => j.at \in SavingPay
      BY <1>1, <1>2, <2>2 DEF JobSound, HandlerKnows, SavingSub, SavingPay, Openers, Opening
    <3>3. /\ j.then = "settle" => sub.status \notin Off
          /\ j.then = "paidInvoice" => j.req.kind = "webhook"
      BY <1>1, <3>2 DEF SubKnown, Upgrading
    <3> QED
      BY <1>1, <1>2, <3>1, <3>2, <3>3, OneContinues DEF SavingSub, SavingPay, ByAdmin, PaidEvent
  <2> QED
    BY <2>1, <2>2
<1>3. CASE SelectSub(w)
  <2>1. CASE GoOn(w)
    BY <1>2, <1>3, <2>1 DEF SelectSub, Running, SavingSub
  <2>2. CASE ~GoOn(w)
    <3>1. PICK i : i = [j EXCEPT !.cols = Changed(j.ent, sub)]
      OBVIOUS
    <3>2. PICK k : k = [i EXCEPT !.at = "updateSub"]
      OBVIOUS
    <3>3. k.at = "updateSub" /\ k.ent = j.ent /\ k.req = j.req /\ k.cols = Changed(j.ent, sub)
      BY <1>1, <3>1, <3>2 DEF JobNames
    <3>4. job' = [job EXCEPT ![w] = k] /\ UNCHANGED <<sub, now>> /\ j.at = "selectSub"
      BY <1>3, <2>2, <3>1, <3>2 DEF SelectSub, Continue, Running
    <3>5. SubKnown(k)
      BY <1>1, <3>3, <3>4 DEF SubKnown, Upgrading, SavingSub, SavingPay, PaidEvent, ByAdmin
    <3> QED
      BY <3>4, <3>5, OneGoesOn
  <2> QED
    BY <2>1, <2>2
<1>4. CASE UpdateSub(w)
  <2>1. j.at = "updateSub" /\ GoOn(w) /\ Proper(j.req.kind, sub') /\ UNCHANGED now
    BY <1>4, UpdateWrites DEF UpdateSub, Running
  <2>2. Proper("none", sub)'
    BY <2>1 DEF Proper
  <2>3. PICK k : /\ job' = [job EXCEPT ![w] = k] /\ k.at \in {"idle", "received"}
    <3>1. JobSound(job[w]) /\ job[w].at \in SavingSub \cup SavingPay /\ job[w].then \in {"idle", "received"}
      BY <1>1, <2>1 DEF JobSound, HandlerKnows, SavingSub, Openers, Opening
    <3> QED
      BY <2>1, <3>1, GoOnSound
  <2>4. \A u \in Workers : u = w /\ job'[u].at \in {"idle", "received"}
    BY <2>3 DEF OneAtATime, BooksSound, JobsSound
  <2>5. \A u \in Workers : SubKnown(job[u])'
    BY <2>4 DEF SubKnown, Upgrading, SavingSub, SavingPay, PaidEvent, ByAdmin
  <2> QED
    BY <2>2, <2>5 DEF SubscriptionProper
<1>5. CASE SelectPayment(w)
  <2>1. CASE GoOn(w)
    BY <1>2, <1>5, <2>1 DEF SelectPayment, Running, SavingPay
  <2>2. CASE ~GoOn(w)
    <3>1. PICK i : i = [j EXCEPT !.cols = Changed(j.ent, payment[j.pay])]
      OBVIOUS
    <3>2. /\ DOMAIN i = JobNames /\ i.then = j.then /\ i.req = j.req
          /\ Continue(w, "updatePayment", i) /\ UNCHANGED <<sub, now>> /\ j.at = "selectPayment"
      BY <1>1, <1>5, <2>2, <3>1 DEF SelectPayment, Running, JobNames
    <3>3. /\ i.then = "settle" => sub.status \notin Off
          /\ i.then = "paidInvoice" => i.req.kind = "webhook"
      BY <1>1, <3>2 DEF SubKnown, Upgrading, SavingPay
    <3> QED
      BY <3>2, <3>3, OneContinues DEF SavingSub, SavingPay, ByAdmin, PaidEvent
  <2> QED
    BY <2>1, <2>2
<1>6. CASE UpdatePayment(w)
  BY <1>2, <1>6 DEF UpdatePayment, Running, SavingPay
<1> QED
  BY <1>3, <1>4, <1>5, <1>6 DEF Saves

\* A request that the guard lets through, an event, a job, a handler cut short.
LEMMA StartsProper ==
    ASSUME BooksSound, OneAtATime, SubscriptionProper, NEW w \in Workers,
           \/ \E r \in Requests : Request(w, r)
           \/ \E e \in sent : Deliver(w, e)
           \/ Jobs(w)
           \/ Crash(w)
    PROVE  SubscriptionProper'
<1> USE DEF rows, outside
<1>0. Proper("none", sub) /\ sub \in SubRow /\ now \in Nat
  BY BillingAssumption DEF SubscriptionProper, BooksSound, TypeOK
<1>1. CASE \E r \in Requests : Request(w, r)
  <2>1. PICK r \in Requests : Request(w, r)
    BY <1>1
  <2>2. r.kind \in Opening \cup OfOwner \cup ByAdmin /\ r.kind \in Kinds
    BY KindsAssumption DEF Requests
  <2>3. PICK i : DOMAIN i = JobNames /\ Continue(w, r.kind, i) /\ i.req = r
    <3>1. \/ Continue(w, r.kind, [Idle EXCEPT !.req = r])
          \/ \E p : Continue(w, r.kind, [Idle EXCEPT !.req = r, !.pay = p])
      BY <2>1 DEF Request
    <3>2. DOMAIN [Idle EXCEPT !.req = r] = JobNames /\ [Idle EXCEPT !.req = r].req = r
      BY DEF Idle, JobNames
    <3>3. \A p : /\ DOMAIN [Idle EXCEPT !.req = r, !.pay = p] = JobNames
                 /\ [Idle EXCEPT !.req = r, !.pay = p].req = r
      BY DEF Idle, JobNames
    <3> QED
      BY <3>1, <3>2, <3>3
  <2>4. PICK k : k = [i EXCEPT !.at = r.kind]
    OBVIOUS
  <2>5. k.at = r.kind /\ k.req = r
    BY <2>3, <2>4 DEF JobNames
  <2>6. r.kind = "upgrade" => sub.status \notin Off
    BY <2>1 DEF Request, Blocked, Off, ByAdmin
  <2>7. SubKnown(k)
    BY <2>2, <2>5, <2>6 DEF SubKnown, Upgrading, SavingSub, SavingPay, PaidEvent, Opening, OfOwner, ByAdmin, NoAdmin
  <2>8. job' = [job EXCEPT ![w] = k] /\ UNCHANGED <<sub, now>>
    BY <2>1, <2>3, <2>4 DEF Request, Continue
  <2> QED
    BY <2>7, <2>8, OneGoesOn
<1>2. CASE \E e \in sent : Deliver(w, e)
  <2>1. PICK e \in sent : Deliver(w, e)
    BY <1>2
  <2>2. e[2] \in {"paid", "failed"}
    BY DEF BooksSound, TypeOK
  <2>3. PICK i : i = [Idle EXCEPT !.req.kind = "webhook", !.pay = e[1]]
    OBVIOUS
  <2>0. DOMAIN i = JobNames /\ Continue(w, e[2], i) /\ i.req.kind = "webhook"
    BY <2>1, <2>3 DEF Deliver, Idle, NoRequest, JobNames
  <2>4. UNCHANGED <<sub, now>>
    BY <2>1 DEF Deliver
  <2> QED
    BY <2>0, <2>2, <2>4, OneContinues DEF SavingSub, SavingPay, ByAdmin, PaidEvent
<1>3. CASE Jobs(w)
  <2>1. ASSUME NEW c \in Crons, NEW found \in BOOLEAN, NEW row \in SubRow, NEW rel, RunJob(w, c, found, Entity(row, rel)),
               found => Proper(c, row)
        PROVE  SubscriptionProper'
    <3>1. CASE ~found
      <4>1. UNCHANGED <<sub, now, job>>
        BY <2>1, <3>1 DEF RunJob
      <4> QED
        BY <4>1 DEF SubscriptionProper, SubKnown, Proper, Upgrading, AskedFor, RanOut, TrialOver, GivenUp, DaysPastDue
    <3>2. CASE found
      <4>1. PICK e : e = ToColumns(Entity(row, rel))
        OBVIOUS
      <4>2. e.status = row.status /\ e.end = row.end
        BY <4>1, SavedEntity DEF SubRow
      <4>3. PICK k : k = [[Idle EXCEPT !.req.kind = c, !.ent = e] EXCEPT !.at = "selectSub"]
        OBVIOUS
      <4>4. k.at = "selectSub" /\ k.ent = e /\ k.req.kind = c
        BY <4>3 DEF Idle, NoRequest
      <4>5. SubKnown(k)
        BY <2>1, <3>2, <4>2, <4>4 DEF SubKnown, Proper, Upgrading, SavingPay, PaidEvent, ByAdmin
      <4>6. job' = [job EXCEPT ![w] = k] /\ UNCHANGED <<sub, now>>
        BY <2>1, <3>2, <4>1, <4>3 DEF RunJob, Continue
      <4> QED
        BY <4>5, <4>6, OneGoesOn
    <3> QED
      BY <3>1, <3>2
  <2>2. \A st \in {"cancelled", "past_due", "suspended"} :
           /\ [sub EXCEPT !.status = st] \in SubRow
           /\ [sub EXCEPT !.status = st].status = st /\ [sub EXCEPT !.status = st].end = sub.end
    BY <1>0 DEF SubRow
  <2>3. CASE ProcessRenewals(w)
    <3> DEFINE moved == [sub EXCEPT !.plan = sub.stats.pending, !.stats.pending = NoPlan, !.end = sub.end + Period]
    <3>1. sub.stats.pending # NoPlan => moved \in SubRow /\ moved.status = sub.status /\ moved.end > sub.end
      <4>1. /\ sub.end \in Nat /\ sub.end + Period \in Nat /\ sub.end + Period > sub.end
            /\ [sub.stats EXCEPT !.pending = NoPlan] \in Stats
            /\ sub.stats.pending \in Plans \cup {NoPlan}
        BY <1>0, BillingAssumption DEF SubRow, Stats
      <4> QED
        BY <1>0, <4>1 DEF SubRow
    <3>2. PICK row \in SubRow :
             /\ Renewed(sub) = Entity(row, sub.plan)
             /\ \/ row.status = "cancelled" /\ sub.cancelAtEnd
                \/ row.status = "past_due" /\ row.end = sub.end
                \/ row.status = sub.status /\ row.end > sub.end
      BY <2>2, <3>1 DEF Renewed
    <3>3. Expired(sub) => Proper("renew", row)
      <4>1. row.end \in Nat /\ sub.end \in Nat
        BY <1>0 DEF SubRow
      <4> QED
        BY <1>0, <3>2, <4>1 DEF Expired, Proper, Off, NoDate, RanOut
    <3>4. Expired(sub) \in BOOLEAN
      BY DEF Expired
    <3> QED
      BY <2>1, <2>3, <3>2, <3>3, <3>4 DEF ProcessRenewals, Crons
  <2>4. CASE RetryFailedPayments(w)
    <3>1. /\ [sub EXCEPT !.stats.retries = sub.stats.retries + 1] \in SubRow
          /\ [sub EXCEPT !.stats.retries = sub.stats.retries + 1].status = sub.status
          /\ [sub EXCEPT !.stats.retries = sub.stats.retries + 1].end = sub.end
      <4>1. [sub.stats EXCEPT !.retries = sub.stats.retries + 1] \in Stats
        BY <1>0 DEF SubRow, Stats
      <4> QED
        BY <1>0, <4>1 DEF SubRow
    <3>2. PICK row \in SubRow : /\ Retried(sub) = row /\ row.end = sub.end
                                /\ row.status = sub.status \/ (row.status = "suspended" /\ GivenUp(sub))
      BY <2>2, <3>1 DEF Retried
    <3>3. sub.status = "past_due" => Proper("retry", row)
      BY <1>0, <3>2 DEF Proper, Off, RanOut
    <3> QED
      BY <2>1, <2>4, <3>2, <3>3 DEF RetryFailedPayments, Crons
  <2>5. CASE SendTrialReminders(w)
    <3>1. TrialOver(sub) => Proper("remind", [sub EXCEPT !.status = "suspended"])
      BY <2>2 DEF Proper, TrialOver, RanOut, Off
    <3>2. TrialOver(sub) \in BOOLEAN
      BY DEF TrialOver
    <3> QED
      BY <2>1, <2>2, <2>5, <3>1, <3>2 DEF SendTrialReminders, Crons
  <2> QED
    BY <1>3, <2>3, <2>4, <2>5 DEF Jobs
<1>4. CASE Crash(w)
  BY <1>4, OneEnds DEF Crash
<1> QED
  BY <1>1, <1>2, <1>3, <1>4

LEMMA SubscriptionStaysProper ==
    ASSUME OneAtATime
    PROVE  /\ Init => SubscriptionProper
           /\ BooksSound /\ SubscriptionProper /\ [Next]_vars => SubscriptionProper'
<1>1. Init => SubscriptionProper
  <2> SUFFICES ASSUME Init PROVE SubscriptionProper
    OBVIOUS
  <2>1. sub.status = "trial"
    BY DEF Init
  <2>2. \A w \in Workers : SubKnown(job[w])
    BY DEF Init, SubKnown, Idle, SavingSub, SavingPay, PaidEvent, ByAdmin, Upgrading
  <2> QED
    BY <2>1, <2>2 DEF SubscriptionProper, Proper, Off
<1>2. ASSUME BooksSound, SubscriptionProper, [Next]_vars PROVE SubscriptionProper'
  <2>1. ASSUME NEW w \in Workers, Step(w) PROVE SubscriptionProper'
    BY <1>2, <2>1, ManagedProper, PaymentsProper, SavesProper DEF Step
  <2>2. CASE Gateway \/ (\E c \in Crons : MissCron(c)) \/ UNCHANGED vars
    <3>1. UNCHANGED <<sub, job, now>>
      BY <2>2 DEF Gateway, PayAtGateway, FailAtGateway, MissCron, vars, rows, outside
    <3> QED
      BY <1>2, <3>1 DEF SubscriptionProper, SubKnown, Proper, Upgrading, AskedFor, RanOut, TrialOver, GivenUp, DaysPastDue
  <2>3. CASE Tick
    <3>1. UNCHANGED <<sub, job>> /\ now' = now + 1 /\ now \in Nat /\ sub.end \in Nat
      BY <1>2, <2>3, BillingAssumption DEF Tick, rows, BooksSound, TypeOK, SubRow
    <3>2. \A w \in Workers : SubKnown(job[w])'
      BY <2>3, <3>1 DEF Tick, Quiet, Running, SubKnown, Upgrading, SavingSub, SavingPay, PaidEvent, ByAdmin
    <3>3. Proper("none", sub)'
      BY <1>2, <3>1 DEF SubscriptionProper, Proper, Off
    <3> QED
      BY <3>2, <3>3 DEF SubscriptionProper
  <2> QED
    BY <1>2, <2>1, <2>2, <2>3, StartsProper DEF Next, Over
<1> QED
  BY <1>1, <1>2

\* Only a save of the subscription changes it.
LEMMA OnlySavesWrite ==
    ASSUME Next, ~UNCHANGED sub
    PROVE  \E w \in Workers : UpdateSub(w)
<1>1. ASSUME NEW w \in Workers, Step(w) PROVE UpdateSub(w)
  BY <1>1 DEF Step, ManageSubscription, Administer, Pay, Webhook, Saves, rows, outside,
     Upgrade, Validate, Verify, Settle, Confirm, Downgrade, CancelDowngrade, Cancel, Suspend, Reactivate,
     ChangePlan, OpenCheckout, CreateInvoice, PayInvoice, CreateSession, RecordPayment, AnswerUrl,
     HandlePaid, PaidInvoice, Activate, Received, HandleFailed, FailedInvoice,
     SelectSub, SelectPayment, UpdatePayment, Refuse, Read, SaveSub, SavePayment
<1>2. ASSUME NEW w \in Workers,
             (\E r \in Requests : Request(w, r)) \/ (\E e \in sent : Deliver(w, e)) \/ Jobs(w) \/ Crash(w)
      PROVE  FALSE
  BY <1>2 DEF Request, Deliver, Jobs, ProcessRenewals, RetryFailedPayments, SendTrialReminders, RunJob, Crash, rows
<1>3. CASE Gateway \/ Tick \/ (\E c \in Crons : MissCron(c)) \/ Over
  BY <1>3 DEF Gateway, PayAtGateway, FailAtGateway, Tick, MissCron, Over, vars, rows
<1> QED
  BY <1>1, <1>2, <1>3 DEF Next

\* An active or past due subscription has an end, so that a cron job gets hold of
\* it (subscription-renewal.service.ts:31-34): no sequence of trials, payments,
\* cancellations and renewals makes one that runs for ever.
THEOREM ActiveHasEnd ==
    ASSUME OneAtATime, NoAdmin
    PROVE  Spec => []ActiveIsDated
<1>1. SubscriptionProper => ActiveIsDated
  BY DEF SubscriptionProper, Proper, ActiveIsDated
<1> QED
  BY <1>1, SubscriptionStaysProper, BillingInvariance, PTL DEF Spec

\* A subscription that is on becomes past due, suspended or cancelled only because
\* somebody asked for it or because its trial or its period is over; suspended for
\* arrears only by way of past due, cancelled at the end only if the owner said so
\* (subscription-renewal.service.ts:31-61, 93-113, 156-190).  How long the arrears
\* are retried is not claimed.
THEOREM SuspendedInTime ==
    ASSUME OneAtATime
    PROVE  Spec => NoEarlySuspension
<1>1. BooksSound /\ SubscriptionProper /\ [Next]_vars =>
      [/\ sub.status \in {"trial", "active", "past_due"}
          /\ sub'.status \in {"past_due", "suspended", "cancelled"} /\ sub'.status # sub.status
       => \/ \E w \in Workers : Running(w, "updateSub") /\ AskedFor(job[w].req.kind)
          \/ RanOut(sub'.status)]_vars
  <2>1. SUFFICES ASSUME BooksSound, SubscriptionProper, Next,
                        sub.status \in {"trial", "active", "past_due"},
                        sub'.status \in {"past_due", "suspended", "cancelled"}, sub'.status # sub.status
                 PROVE  \/ \E w \in Workers : Running(w, "updateSub") /\ AskedFor(job[w].req.kind)
                        \/ RanOut(sub'.status)
    OBVIOUS
  <2>2. PICK w \in Workers : UpdateSub(w)
    BY <2>1, OnlySavesWrite
  <2>3. PICK kind, s : Proper(kind, s) /\ s = sub' /\ kind = job[w].req.kind
    BY <2>1, <2>2, UpdateWrites
  <2>4. AskedFor(kind) \/ RanOut(sub'.status)
    BY <2>1, <2>3 DEF Proper, Off
  <2> QED
    BY <2>2, <2>3, <2>4 DEF UpdateSub
<1> QED
  BY <1>1, SubscriptionStaysProper, BillingInvariance, PTL DEF Spec, NoEarlySuspension

\* An organization that is off is let in again by the administrator or by the
\* webhook of a payment, never by a request of its own or by a cron job
\* (subscription.guard.ts:80-94).
THEOREM RevivedByMoneyOrAdmin ==
    ASSUME OneAtATime
    PROVE  Spec => OnlyMoneyOrAdminRevives
<1>1. BooksSound /\ SubscriptionProper /\ [Next]_vars =>
      [sub.status \in {"suspended", "cancelled"} /\ sub'.status \notin {"suspended", "cancelled"}
       => \E w \in Workers : Running(w, "updateSub") /\ job[w].req.kind \in {"reactivate", "webhook"}]_vars
  <2>1. SUFFICES ASSUME BooksSound, SubscriptionProper, Next,
                        sub.status \in {"suspended", "cancelled"}, sub'.status \notin {"suspended", "cancelled"}
                 PROVE  \E w \in Workers : Running(w, "updateSub") /\ job[w].req.kind \in {"reactivate", "webhook"}
    OBVIOUS
  <2>2. PICK w \in Workers : UpdateSub(w)
    BY <2>1, OnlySavesWrite
  <2>3. PICK kind, s : Proper(kind, s) /\ s = sub' /\ kind = job[w].req.kind
    BY <2>1, <2>2, UpdateWrites
  <2> QED
    BY <2>1, <2>2, <2>3 DEF Proper, Off, Revivers, UpdateSub
<1> QED
  BY <1>1, SubscriptionStaysProper, BillingInvariance, PTL DEF Spec, OnlyMoneyOrAdminRevives

-----------------------------------------------------------------------------
(* One handler at a time: the events of the webhook                        *)

\* A handler that works on no payment that was loaded and no event.
Uneventful(j) == /\ j.at \notin {"verify", "paidInvoice", "activate", "received"} \cup SavingPay
                 /\ j.at \in SavingSub => j.then # "received"

\* The one handler goes on, and the payments and what was applied stay.
LEMMA EventsGoOn ==
    ASSUME BooksSound, OneAtATime, EventsCarriedOut, NEW w \in Workers, NEW k,
           job' = [job EXCEPT ![w] = k], UNCHANGED <<payment, applied>>, EventKnown(k),
           MaxCrashes = 0 /\ InFlight(job[w]) => InFlight(k) /\ k.pay = job[w].pay
    PROVE  EventsCarriedOut'
<1>1. \A u \in Workers : u = w
  BY DEF OneAtATime
<1>2. job'[w] = k
  BY DEF BooksSound, JobsSound
<1>3. EventKnown(job[w])'
  BY <1>2 DEF EventKnown, InFlight
<1>4. MaxCrashes = 0 /\ InFlight(job[w]) => InFlight(job[w])' /\ job'[w].pay = job[w].pay
  BY <1>2 DEF InFlight
<1> QED
  BY <1>1, <1>3, <1>4 DEF EventsCarriedOut

\* The same between two statements that have nothing to do with an event.
LEMMA UneventfulStep ==
    ASSUME BooksSound, OneAtATime, EventsCarriedOut, NEW w \in Workers, NEW k,
           job' = [job EXCEPT ![w] = k], UNCHANGED <<payment, applied>>,
           Uneventful(k), ~InFlight(job[w])
    PROVE  EventsCarriedOut'
<1>1. EventKnown(k)
  BY DEF EventKnown, Uneventful, InFlight, SavingPay
<1> QED
  BY <1>1, EventsGoOn

\* The same for a handler that ends.
LEMMA UneventfulEnd ==
    ASSUME BooksSound, OneAtATime, EventsCarriedOut, NEW w \in Workers,
           Finish(w), UNCHANGED <<payment, applied>>, ~InFlight(job[w])
    PROVE  EventsCarriedOut'
<1>1. Uneventful(Idle)
  BY DEF Uneventful, Idle, SavingPay, SavingSub
<1> QED
  BY <1>1, UneventfulStep DEF Finish

\* The same for a handler that saves the subscription and then ends, or goes on
\* to a statement that has nothing to do with an event.
LEMMA UneventfulRead ==
    ASSUME BooksSound, OneAtATime, EventsCarriedOut, NEW w \in Workers, NEW l, NEW i,
           Continue(w, l, i), DOMAIN i = JobNames, UNCHANGED <<payment, applied>>, ~InFlight(job[w]),
           l \notin {"verify", "paidInvoice", "activate", "received"} \cup SavingPay,
           l \in SavingSub => i.then # "received"
    PROVE  EventsCarriedOut'
<1>1. PICK k : k = [i EXCEPT !.at = l]
  OBVIOUS
<1>2. k.at = l /\ k.then = i.then
  BY <1>1 DEF JobNames
<1>3. Uneventful(k)
  BY <1>2 DEF Uneventful
<1> QED
  BY <1>1, <1>3, UneventfulStep DEF Continue

\* Requests about the subscription, and the administrator's.
LEMMA ManagedEvents ==
    ASSUME BooksSound, OneAtATime, EventsCarriedOut, NEW w \in Workers, ManageSubscription(w) \/ Administer(w)
    PROVE  EventsCarriedOut'
<1> DEFINE j == job[w]
<1> USE DEF rows, history
<1>1. JobSound(j) /\ DOMAIN j = JobNames /\ EventKnown(j)
  BY DEF BooksSound, JobsSound, JobSound, EventsCarriedOut
<1>2. ~InFlight(j)
  BY DEF InFlight, SavingSub, ManageSubscription, Administer, Running, Upgrade, Validate, Verify, Settle,
         Confirm, Downgrade, CancelDowngrade, Cancel, Suspend, Reactivate, ChangePlan
<1>3. CASE Refuse(w)
  BY <1>2, <1>3, UneventfulEnd DEF Refuse
<1>4. ASSUME NEW e, SaveSub(w, e, "idle", j) PROVE EventsCarriedOut'
  <2>1. PICK i : i = [j EXCEPT !.ent = ToColumns(e), !.then = "idle"]
    OBVIOUS
  <2>2. DOMAIN i = JobNames /\ i.then = "idle"
    BY <1>1, <2>1 DEF JobNames
  <2>3. Continue(w, "selectSub", i) /\ UNCHANGED <<payment, applied>>
    BY <1>4, <2>1 DEF SaveSub, Read
  <2> QED
    BY <1>2, <2>2, <2>3, UneventfulRead DEF SavingPay
<1>5. ASSUME NEW l \in {"validate", "confirm"}, NEW i, DOMAIN i = JobNames, Continue(w, l, i),
             UNCHANGED <<payment, applied>>
      PROVE  EventsCarriedOut'
  BY <1>2, <1>5, UneventfulRead DEF SavingPay, SavingSub
<1>6. CASE Upgrade(w)
  <2>1. ASSUME Read(w, "validate", [j EXCEPT !.sub = sub]) PROVE EventsCarriedOut'
    BY <1>1, <1>5, <2>1 DEF Read, JobNames
  <2> QED
    BY <1>3, <1>4, <1>6, <2>1 DEF Upgrade
<1>7. CASE Validate(w)
  <2>1. CASE Read(w, "confirm", j)
    BY <1>1, <1>5, <2>1 DEF Read
  <2>2. CASE Read(w, "verify", [j EXCEPT !.pay = j.req.pay, !.ent = payment[j.req.pay]])
    <3>1. PICK k : k = [[j EXCEPT !.pay = j.req.pay, !.ent = payment[j.req.pay]] EXCEPT !.at = "verify"]
      OBVIOUS
    <3>2. k.at = "verify" /\ k.pay = j.req.pay /\ k.ent = payment[j.req.pay]
      BY <1>1, <3>1 DEF JobNames
    <3>3. EventKnown(k)
      BY <3>2 DEF EventKnown, SavingPay, InFlight, SavingSub
    <3> QED
      BY <1>2, <2>2, <3>1, <3>3, EventsGoOn DEF Read, Continue
  <2> QED
    BY <1>3, <1>7, <2>1, <2>2 DEF Validate
<1>8. CASE Verify(w)
  <2>1. CASE SavePayment(w, [j.ent EXCEPT !.status = "succeeded"], "settle", j)
    <3>1. j.at = "verify" /\ j.ent \in PaymentRow
      BY <1>1, <1>8 DEF Verify, Running, JobSound, HandlerKnows, LoadedPayment, Openers, Opening
    <3>2. PICK e : e = [j.ent EXCEPT !.status = "succeeded"]
      OBVIOUS
    <3>3. e.events = j.ent.events
      BY <3>1, <3>2 DEF PaymentRow
    <3>4. PICK k : k = [[j EXCEPT !.ent = e, !.then = "settle"] EXCEPT !.at = "selectPayment"]
      OBVIOUS
    <3>5. k.at = "selectPayment" /\ k.then = "settle" /\ k.ent = e /\ k.pay = j.pay
      BY <1>1, <3>4 DEF JobNames
    <3>6. EventKnown(k)
      BY <1>1, <3>1, <3>3, <3>5 DEF EventKnown, SavingPay, InFlight, SavingSub
    <3> QED
      BY <1>2, <2>1, <3>2, <3>4, <3>6, EventsGoOn DEF SavePayment, Read, Continue
  <2> QED
    BY <1>3, <1>8, <2>1 DEF Verify
<1>9. CASE Settle(w)
  BY <1>1, <1>5, <1>9 DEF Settle
<1>10. CASE Confirm(w) \/ Downgrade(w) \/ CancelDowngrade(w) \/ Cancel(w) \/ Administer(w)
  BY <1>3, <1>4, <1>10 DEF Confirm, Downgrade, CancelDowngrade, Cancel, Administer, Suspend, Reactivate, ChangePlan
<1> QED
  BY <1>6, <1>7, <1>8, <1>9, <1>10 DEF ManageSubscription

\* Opening a checkout session: the payment that is recorded had no event.
LEMMA OpenersEvents ==
    ASSUME BooksSound, OneAtATime, EventsCarriedOut, NEW w \in Workers, Pay(w)
    PROVE  EventsCarriedOut'
<1> DEFINE j == job[w]
<1> USE DEF rows, history, outside
<1>1. JobSound(j) /\ DOMAIN j = JobNames
  BY DEF BooksSound, JobsSound, JobSound
<1>2. j.at \in Openers /\ ~InFlight(j)
  BY DEF InFlight, SavingSub, Pay, Running, OpenCheckout, CreateInvoice, PayInvoice, CreateSession,
         RecordPayment, AnswerUrl, Openers, Opening
<1>3. CASE RecordPayment(w)
  <2>1. j.pay \in Payments /\ payment[j.pay] = UnusedPayment
    BY <1>1, <1>2, <1>3 DEF JobSound, OpenerKnows, RecordPayment, Running, BooksSound, PaymentsBooked
  <2>2. PICK k : k = [j EXCEPT !.at = "answer"]
    OBVIOUS
  <2>3. k.at = "answer" /\ job' = [job EXCEPT ![w] = k]
    BY <1>1, <1>3, <2>2 DEF JobNames, RecordPayment, Continue
  <2>4. \A u \in Workers : u = w /\ job'[u].at = "answer"
    BY <2>3 DEF OneAtATime, BooksSound, JobsSound
  <2>5. \A u \in Workers : EventKnown(job[u])'
    BY <2>4 DEF EventKnown, InFlight, SavingPay, SavingSub
  <2>6. \A p \in Payments : payment'[p].events = payment[p].events
    <3>1. payment' = [payment EXCEPT ![j.pay] =
                      [status |-> IF MockGateway THEN "succeeded" ELSE "pending",
                       invoice |-> InvoiceOf(j), target |-> j.req.plan, events |-> {}, made |-> now]]
      BY <1>3 DEF RecordPayment
    <3>2. DOMAIN payment = Payments /\ payment[j.pay].events = {}
      BY <2>1 DEF BooksSound, TypeOK, UnusedPayment
    <3> QED
      BY <3>1, <3>2
  <2>7. UNCHANGED applied /\ \A u \in Workers : ~InFlight(job[u])
    BY <1>2, <1>3 DEF RecordPayment, OneAtATime
  <2> QED
    BY <2>5, <2>6, <2>7 DEF EventsCarriedOut
<1>4. CASE ~RecordPayment(w)
  <2>1. Finish(w) \/ \E l \in {"createInvoice", "createSession", "recordPayment"} : Continue(w, l, j)
    BY <1>4 DEF Pay, OpenCheckout, CreateInvoice, PayInvoice, CreateSession, AnswerUrl, Refuse, Read
  <2>2. UNCHANGED <<payment, applied>>
    BY <1>4 DEF Pay, OpenCheckout, CreateInvoice, PayInvoice, CreateSession, AnswerUrl, Refuse, Read
  <2>3. ASSUME NEW l \in {"createInvoice", "createSession", "recordPayment"}, Continue(w, l, j)
        PROVE  EventsCarriedOut'
    BY <1>1, <1>2, <2>2, <2>3, UneventfulRead DEF SavingSub, SavingPay
  <2> QED
    BY <1>2, <2>1, <2>2, <2>3, UneventfulEnd
<1> QED
  BY <1>3, <1>4

\* The webhook: the event is added to the payment it saves, and counted at the end.
LEMMA WebhookEvents ==
    ASSUME BooksSound, OneAtATime, EventsCarriedOut, NEW w \in Workers, Webhook(w)
    PROVE  EventsCarriedOut'
<1> DEFINE j == job[w]
<1> USE DEF rows, history, outside
<1>1. JobSound(j) /\ DOMAIN j = JobNames /\ EventKnown(j)
  BY DEF BooksSound, JobsSound, JobSound, EventsCarriedOut
<1>2. /\ j.at \in {"paid", "failed", "paidInvoice", "activate", "received", "failedInvoice"}
      /\ j.at \in {"paid", "failed", "failedInvoice"} => ~InFlight(j)
      /\ j.pay \in Payments
  BY <1>1 DEF JobSound, HandlerKnows, PaidEvent, InFlight, SavingSub, Openers, Opening, Webhook, Running, HandlePaid, PaidInvoice, Activate, Received,
         HandleFailed, FailedInvoice
<1>3. payment[j.pay] \in PaymentRow
  BY <1>2 DEF BooksSound, TypeOK
<1>4. ASSUME NEW e, NEW l \in {"paidInvoice", "failedInvoice"}, SavePayment(w, e, l, j), ~InFlight(j),
             IF l = "paidInvoice" THEN "paid" \in e.events /\ "paid" \notin payment[j.pay].events
             ELSE "paid" \in e.events <=> "paid" \in payment[j.pay].events
      PROVE  EventsCarriedOut'
  <2>1. PICK k : k = [[j EXCEPT !.ent = e, !.then = l] EXCEPT !.at = "selectPayment"]
    OBVIOUS
  <2>2. k.at = "selectPayment" /\ k.then = l /\ k.ent = e /\ k.pay = j.pay
    BY <1>1, <2>1 DEF JobNames
  <2>3. EventKnown(k)
    BY <1>4, <2>2 DEF EventKnown, SavingPay, InFlight, SavingSub
  <2> QED
    BY <1>4, <2>1, <2>3, EventsGoOn DEF SavePayment, Read, Continue
<1>5. CASE HandlePaid(w)
  <2>1. j.at = "paid"
    BY <1>5 DEF HandlePaid, Running
  <2>2. CASE Refuse(w)
    BY <1>2, <2>1, <2>2, UneventfulEnd DEF Refuse
  <2>3. CASE ~Refuse(w)
    <3>1. PICK e : e = [payment[j.pay] EXCEPT !.status = "succeeded", !.events = payment[j.pay].events \cup {"paid"}]
      OBVIOUS
    <3>2. "paid" \in e.events
      BY <1>3, <3>1 DEF PaymentRow
    <3>3. SavePayment(w, e, "paidInvoice", j) /\ "paid" \notin payment[j.pay].events
      BY <1>5, <2>3, <3>1 DEF HandlePaid
    <3> QED
      BY <1>2, <1>4, <2>1, <3>2, <3>3
  <2> QED
    BY <2>2, <2>3
<1>6. CASE HandleFailed(w)
  <2>1. j.at = "failed"
    BY <1>6 DEF HandleFailed, Running
  <2>2. CASE Refuse(w)
    BY <1>2, <2>1, <2>2, UneventfulEnd DEF Refuse
  <2>3. CASE ~Refuse(w)
    <3>1. PICK e : e = [payment[j.pay] EXCEPT !.status = "failed", !.events = payment[j.pay].events \cup {"failed"}]
      OBVIOUS
    <3>2. "paid" \in e.events <=> "paid" \in payment[j.pay].events
      BY <1>3, <3>1 DEF PaymentRow
    <3>3. SavePayment(w, e, "failedInvoice", j)
      BY <1>6, <2>3, <3>1 DEF HandleFailed
    <3> QED
      BY <1>2, <1>4, <2>1, <3>2, <3>3
  <2> QED
    BY <2>2, <2>3
<1>7. CASE PaidInvoice(w)
  <2>1. PICK k : k = [j EXCEPT !.at = "activate"]
    OBVIOUS
  <2>2. k.at = "activate" /\ k.pay = j.pay /\ j.at = "paidInvoice"
    BY <1>1, <1>7, <2>1 DEF JobNames, PaidInvoice, Running
  <2>3. EventKnown(k) /\ InFlight(k)
    BY <1>1, <2>2 DEF EventKnown, InFlight, SavingPay
  <2> QED
    BY <1>7, <2>1, <2>2, <2>3, EventsGoOn DEF PaidInvoice, Continue
<1>8. CASE Activate(w)
  <2>1. PICK e : SaveSub(w, e, "received", j)
    BY <1>8 DEF Activate
  <2>2. PICK k : k = [[j EXCEPT !.ent = ToColumns(e), !.then = "received"] EXCEPT !.at = "selectSub"]
    OBVIOUS
  <2>3. k.at = "selectSub" /\ k.then = "received" /\ k.pay = j.pay /\ j.at = "activate"
    BY <1>1, <1>8, <2>2 DEF JobNames, Activate, Running
  <2>4. EventKnown(k) /\ InFlight(k)
    BY <1>1, <2>3 DEF EventKnown, InFlight, SavingPay, SavingSub
  <2> QED
    BY <2>1, <2>2, <2>3, <2>4, EventsGoOn DEF SaveSub, Read, Continue
<1>9. CASE Received(w)
  <2>1. j.at = "received" /\ applied' = [applied EXCEPT ![j.pay] = @ + 1] /\ UNCHANGED payment
    BY <1>9 DEF Received, Running
  <2>2. applied[j.pay] = 0 /\ "paid" \in payment[j.pay].events
    BY <1>1, <2>1 DEF EventKnown, InFlight
  <2>3. applied'[j.pay] = 1 /\ \A p \in Payments : p # j.pay => applied'[p] = applied[p]
    BY <1>2, <2>1, <2>2 DEF BooksSound, TypeOK
  <2>4. \A u \in Workers : u = w /\ job'[u] = Idle
    BY <1>9 DEF Received, Finish, OneAtATime, BooksSound, JobsSound
  <2>5. \A u \in Workers : EventKnown(job[u])'
    BY <2>4 DEF EventKnown, InFlight, SavingPay, SavingSub, Idle
  <2> QED
    BY <2>1, <2>2, <2>3, <2>4, <2>5 DEF EventsCarriedOut
<1>10. CASE FailedInvoice(w)
  BY <1>2, <1>10, UneventfulEnd DEF FailedInvoice, Running
<1> QED
  BY <1>5, <1>6, <1>7, <1>8, <1>9, <1>10 DEF Webhook

\* Saving: an event of a payment is in the table when its columns are written, and
\* the handler goes on to count it.
LEMMA SavesEvents ==
    ASSUME BooksSound, OneAtATime, EventsCarriedOut, NEW w \in Workers, Saves(w)
    PROVE  EventsCarriedOut'
<1> DEFINE j == job[w]
<1> USE DEF rows, history, outside
<1>1. JobSound(j) /\ DOMAIN j = JobNames /\ EventKnown(j) /\ j.at \in SavingSub \cup SavingPay
  BY DEF BooksSound, JobsSound, JobSound, EventsCarriedOut, Saves, SelectSub, UpdateSub, SelectPayment,
         UpdatePayment, Running, SavingSub, SavingPay
<1>2. PICK k : /\ GoOn(w) => job' = [job EXCEPT ![w] = k]
               /\ k.at = j.then /\ (k.at # "idle" => k.pay = j.pay) /\ k.at # "verify" /\ k.at \notin SavingPay
               /\ k.at \in {"idle", "received", "settle", "paidInvoice", "failedInvoice"}
  <2>1. CASE GoOn(w)
    <3>1. PICK k : /\ job' = [job EXCEPT ![w] = k]
                   /\ k.at = j.then /\ (k.at # "idle" => k = [j EXCEPT !.at = j.then])
      BY <1>1, <2>1, GoOnSound
    <3>2. k.at # "idle" => k.pay = j.pay
      BY <1>1, <3>1 DEF JobNames
    <3> QED
      BY <1>1, <3>1, <3>2 DEF JobSound, HandlerKnows, SavingSub, SavingPay, Openers, Opening
  <2>2. CASE ~GoOn(w)
    <3>1. PICK k : k = [j EXCEPT !.at = j.then]
      OBVIOUS
    <3>2. k.at = j.then /\ k.pay = j.pay
      BY <1>1, <3>1 DEF JobNames
    <3> QED
      BY <1>1, <2>2, <3>2 DEF JobSound, HandlerKnows, SavingSub, SavingPay, Openers, Opening
  <2> QED
    BY <2>1, <2>2
<1>3. ASSUME GoOn(w), UNCHANGED <<payment, applied>>, j.at \in SavingSub PROVE EventsCarriedOut'
  <2>1. j.then \in {"idle", "received"} /\ (InFlight(j) <=> j.then = "received")
    BY <1>1, <1>3 DEF JobSound, HandlerKnows, InFlight, SavingSub, Openers, Opening
  <2>2. (InFlight(j) => InFlight(k) /\ k.pay = j.pay) /\ (InFlight(k) => InFlight(j) /\ k.pay = j.pay)
    BY <1>2, <2>1 DEF InFlight, SavingSub
  <2>3. EventKnown(k)
    BY <1>1, <1>2, <2>2 DEF EventKnown, SavingPay
  <2> QED
    BY <1>2, <1>3, <2>2, <2>3, EventsGoOn
<1>4. CASE SelectSub(w)
  <2>1. CASE GoOn(w)
    BY <1>3, <1>4, <2>1 DEF SelectSub, Running, SavingSub
  <2>2. CASE ~GoOn(w)
    <3>1. PICK i : i = [j EXCEPT !.cols = Changed(j.ent, sub)]
      OBVIOUS
    <3>2. PICK m : m = [i EXCEPT !.at = "updateSub"]
      OBVIOUS
    <3>3. m.at = "updateSub" /\ m.then = j.then /\ m.pay = j.pay
      BY <1>1, <3>1, <3>2 DEF JobNames
    <3>4. job' = [job EXCEPT ![w] = m] /\ UNCHANGED <<payment, applied>> /\ j.at = "selectSub"
      BY <1>4, <2>2, <3>1, <3>2 DEF SelectSub, Continue, Running
    <3>5. EventKnown(m) /\ (InFlight(j) => InFlight(m))
      BY <1>1, <3>3, <3>4 DEF EventKnown, InFlight, SavingSub, SavingPay
    <3> QED
      BY <3>3, <3>4, <3>5, EventsGoOn
  <2> QED
    BY <2>1, <2>2
<1>5. CASE UpdateSub(w)
  BY <1>3, <1>5 DEF UpdateSub, Running, SavingSub
<1>6. ASSUME j.at \in SavingPay
      PROVE  ~InFlight(j) /\ j.pay \in Payments /\ j.ent \in PaymentRow /\ payment[j.pay] \in PaymentRow
             /\ j.then \in {"settle", "paidInvoice", "failedInvoice"}
  BY <1>1, <1>6 DEF InFlight, SavingPay, SavingSub, JobSound, HandlerKnows, LoadedPayment, Openers, Opening,
                    BooksSound, TypeOK
<1>7. CASE SelectPayment(w)
  <2>0. j.at = "selectPayment" /\ UNCHANGED <<payment, applied>>
    BY <1>7 DEF SelectPayment, Running
  <2>1. CASE Changed(j.ent, payment[j.pay]) = {}
    <3>1. j.ent.events = payment[j.pay].events
      BY <1>6, <2>0, <2>1 DEF Changed, PaymentRow, SavingPay
    <3>2. j.then # "paidInvoice" /\ GoOn(w)
      BY <1>1, <1>7, <2>0, <2>1, <3>1 DEF EventKnown, SavingPay, SelectPayment
    <3>3. Uneventful(k)
      BY <1>2, <1>6, <2>0, <3>2 DEF Uneventful, SavingPay, SavingSub
    <3> QED
      BY <1>2, <1>6, <2>0, <3>2, <3>3, UneventfulStep DEF SavingPay
  <2>2. CASE Changed(j.ent, payment[j.pay]) # {}
    <3>1. PICK i : i = [j EXCEPT !.cols = Changed(j.ent, payment[j.pay])]
      OBVIOUS
    <3>2. PICK m : m = [i EXCEPT !.at = "updatePayment"]
      OBVIOUS
    <3>3. m.at = "updatePayment" /\ m.then = j.then /\ m.pay = j.pay /\ m.ent = j.ent
          /\ m.cols = Changed(j.ent, payment[j.pay])
      BY <1>1, <3>1, <3>2 DEF JobNames
    <3>4. job' = [job EXCEPT ![w] = m]
      BY <1>7, <2>2, <3>1, <3>2 DEF SelectPayment, Continue
    <3>5. EventKnown(m)
      BY <1>1, <2>0, <3>3 DEF EventKnown, InFlight, SavingSub, SavingPay
    <3> QED
      BY <1>6, <2>0, <3>4, <3>5, EventsGoOn DEF SavingPay
  <2> QED
    BY <2>1, <2>2
<1>8. CASE UpdatePayment(w)
  <2>1. j.at = "updatePayment" /\ GoOn(w) /\ UNCHANGED applied
    BY <1>8 DEF UpdatePayment, Running
  <2>2. j.cols = Changed(j.ent, payment[j.pay])
    BY <1>1, <2>1 DEF EventKnown
  <2>3. Patched(payment[j.pay], j.ent, j.cols) = j.ent
    BY <1>6, <2>1, <2>2 DEF Patched, Changed, PaymentRow, SavingPay
  <2>4. payment' = [payment EXCEPT ![j.pay] = j.ent] /\ DOMAIN payment = Payments
    BY <1>8, <2>3 DEF UpdatePayment, BooksSound, TypeOK
  <2>5. \A p \in Payments : p # j.pay => payment'[p] = payment[p]
    BY <2>4
  <2>6. j.pay \in Payments /\ payment'[j.pay].events = j.ent.events
    BY <1>6, <2>1, <2>4 DEF SavingPay
  <2>7. IF j.then = "paidInvoice" THEN "paid" \in j.ent.events /\ "paid" \notin payment[j.pay].events
        ELSE ("paid" \in j.ent.events <=> "paid" \in payment[j.pay].events)
    BY <1>1, <2>1 DEF EventKnown, SavingPay
  <2>8. \A u \in Workers : u = w /\ job'[u] = k
    BY <1>2, <2>1 DEF OneAtATime, BooksSound, JobsSound
  <2>9. \A p \in Payments : "paid" \in payment[p].events => "paid" \in payment'[p].events
    BY <2>5, <2>6, <2>7
  <2>10. k.at \in {"settle", "paidInvoice", "failedInvoice"} /\ k.pay = j.pay
    BY <1>2, <1>6, <2>1 DEF SavingPay
  <2>11. k.at = "paidInvoice" => "paid" \in payment'[j.pay].events /\ applied[j.pay] = 0
    <3>1. applied[j.pay] \in {0, 1} /\ (applied[j.pay] = 1 => "paid" \in payment[j.pay].events)
      BY <2>6 DEF EventsCarriedOut
    <3> QED
      BY <1>2, <2>6, <2>7, <3>1
  <2>12. \A u \in Workers : EventKnown(job[u])'
    BY <2>1, <2>8, <2>10, <2>11 DEF EventKnown, InFlight, SavingPay, SavingSub
  <2>13. ASSUME MaxCrashes = 0, NEW p \in Payments, "paid" \in payment'[p].events
         PROVE  applied'[p] = 1 \/ \E u \in Workers : InFlight(job[u])' /\ job'[u].pay = p
    <3>1. CASE "paid" \in payment[p].events
      <4>1. \A u \in Workers : ~InFlight(job[u])
        BY <1>6, <2>1 DEF OneAtATime, SavingPay
      <4> QED
        BY <2>1, <2>13, <3>1, <4>1 DEF EventsCarriedOut
    <3>2. CASE "paid" \notin payment[p].events
      <4>1. p = j.pay /\ j.then = "paidInvoice"
        BY <2>5, <2>6, <2>7, <2>13, <3>2
      <4>2. InFlight(job[w])' /\ job'[w].pay = p
        BY <1>2, <2>8, <2>10, <4>1 DEF InFlight
      <4> QED
        BY <4>2
    <3> QED
      BY <3>1, <3>2
  <2> QED
    BY <2>1, <2>9, <2>12, <2>13 DEF EventsCarriedOut
<1> QED
  BY <1>4, <1>5, <1>7, <1>8 DEF Saves

\* Requests, events, jobs and crashes.
LEMMA StartsEvents ==
    ASSUME BooksSound, OneAtATime, EventsCarriedOut, NEW w \in Workers,
           \/ \E r \in Requests : Request(w, r)
           \/ \E e \in sent : Deliver(w, e)
           \/ Jobs(w)
           \/ Crash(w)
    PROVE  EventsCarriedOut'
<1> USE DEF rows, outside, history
<1>1. ASSUME Running(w, "idle") PROVE ~InFlight(job[w])
  BY <1>1 DEF Running, InFlight, SavingSub
<1>2. ASSUME NEW l, NEW i, Continue(w, l, i), DOMAIN i = JobNames, UNCHANGED <<payment, applied>>, Running(w, "idle"),
             \/ l \in Opening \cup OfOwner \cup ByAdmin \cup {"paid", "failed"}
             \/ l = "selectSub" /\ i.then = "idle"
      PROVE  EventsCarriedOut'
  BY <1>1, <1>2, UneventfulRead DEF SavingSub, SavingPay, Opening, OfOwner, ByAdmin
<1>3. CASE \E r \in Requests : Request(w, r)
  <2>1. PICK r \in Requests : Request(w, r)
    BY <1>3
  <2>2. r.kind \in Opening \cup OfOwner \cup ByAdmin
    BY KindsAssumption DEF Requests
  <2>3. DOMAIN [Idle EXCEPT !.req = r] = JobNames /\ \A p : DOMAIN [Idle EXCEPT !.req = r, !.pay = p] = JobNames
    BY DEF Idle, JobNames
  <2>4. \/ Continue(w, r.kind, [Idle EXCEPT !.req = r])
        \/ \E p : Continue(w, r.kind, [Idle EXCEPT !.req = r, !.pay = p])
    BY <2>1 DEF Request
  <2> QED
    BY <1>2, <2>1, <2>2, <2>3, <2>4 DEF Request
<1>4. CASE \E e \in sent : Deliver(w, e)
  <2>1. PICK e \in sent : Deliver(w, e)
    BY <1>4
  <2>2. e[2] \in {"paid", "failed"}
    BY DEF BooksSound, TypeOK
  <2>3. DOMAIN [Idle EXCEPT !.req.kind = "webhook", !.pay = e[1]] = JobNames
    BY DEF Idle, JobNames
  <2> QED
    BY <1>2, <2>1, <2>2, <2>3 DEF Deliver
<1>5. CASE Jobs(w)
  <2>1. ASSUME NEW c, NEW found, NEW e, RunJob(w, c, found, e) PROVE EventsCarriedOut'
    <3>1. CASE UNCHANGED job
      BY <2>1, <3>1 DEF RunJob, EventsCarriedOut, EventKnown, InFlight
    <3>2. CASE Continue(w, "selectSub", [Idle EXCEPT !.req.kind = c, !.ent = ToColumns(e)])
      <4>1. PICK i : i = [Idle EXCEPT !.req.kind = c, !.ent = ToColumns(e)]
        OBVIOUS
      <4>2. DOMAIN i = JobNames /\ i.then = "idle"
        BY <4>1 DEF Idle, JobNames
      <4> QED
        BY <1>2, <2>1, <3>2, <4>1, <4>2 DEF RunJob
    <3> QED
      BY <2>1, <3>1, <3>2 DEF RunJob
  <2> QED
    BY <1>5, <2>1 DEF Jobs, ProcessRenewals, RetryFailedPayments, SendTrialReminders
<1>6. CASE Crash(w)
  <2>1. MaxCrashes # 0
    BY <1>6, BillingAssumption DEF Crash, BooksSound, TypeOK
  <2>2. \A u \in Workers : u = w /\ job'[u] = Idle
    BY <1>6 DEF Crash, Finish, OneAtATime, BooksSound, JobsSound
  <2>3. \A u \in Workers : EventKnown(job[u])'
    BY <2>2 DEF EventKnown, InFlight, SavingPay, SavingSub, Idle
  <2> QED
    BY <1>6, <2>1, <2>3 DEF EventsCarriedOut, Crash
<1> QED
  BY <1>3, <1>4, <1>5, <1>6

LEMMA EventsStayCarriedOut ==
    ASSUME OneAtATime
    PROVE  /\ Init => EventsCarriedOut
           /\ BooksSound /\ EventsCarriedOut /\ [Next]_vars => EventsCarriedOut'
<1>1. Init => EventsCarriedOut
  BY DEF Init, EventsCarriedOut, EventKnown, InFlight, Idle, SavingSub, SavingPay, UnusedPayment
<1>2. ASSUME BooksSound, EventsCarriedOut, [Next]_vars PROVE EventsCarriedOut'
  <2>1. ASSUME NEW w \in Workers, Step(w) PROVE EventsCarriedOut'
    BY <1>2, <2>1, ManagedEvents, OpenersEvents, WebhookEvents, SavesEvents DEF Step
  <2>2. CASE Gateway \/ Tick \/ (\E c \in Crons : MissCron(c)) \/ UNCHANGED vars
    <3>1. UNCHANGED <<payment, job, applied>>
      BY <2>2 DEF Gateway, PayAtGateway, FailAtGateway, Tick, MissCron, vars, rows, outside, history
    <3> QED
      BY <1>2, <3>1 DEF EventsCarriedOut, EventKnown, InFlight
  <2> QED
    BY <1>2, <2>1, <2>2, StartsEvents DEF Next, Over
<1> QED
  BY <1>1, <1>2

\* However often the gateway repeats an event, the webhook carries it out once
\* (paymongo-webhook.controller.ts:79-82, isAlreadyProcessed).
THEOREM EventsAppliedOnce ==
    ASSUME OneAtATime
    PROVE  Spec => []AppliedOnce
<1>1. EventsCarriedOut => AppliedOnce
  BY DEF EventsCarriedOut, AppliedOnce
<1> QED
  BY <1>1, EventsStayCarriedOut, BillingInvariance, PTL DEF Spec

\* When nobody is at work, an event that will be skipped from now on was carried
\* out, unless the process died (paymongo-webhook.controller.ts:79-116).
THEOREM EventsAreApplied ==
    ASSUME OneAtATime, MaxCrashes = 0
    PROVE  Spec => []ProcessedIsApplied
<1>1. EventsCarriedOut => ProcessedIsApplied
  BY DEF EventsCarriedOut, ProcessedIsApplied, InFlight, Quiet, Running, SavingSub
<1> QED
  BY <1>1, EventsStayCarriedOut, BillingInvariance, PTL DEF Spec
=============================================================================

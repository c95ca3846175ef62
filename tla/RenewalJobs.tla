---------------------------- MODULE RenewalJobs -----------------------------
(***************************************************************************)
(* backend/src/billing/subscription-renewal.service.ts: the three cron     *)
(* jobs.  Each one finds its subscriptions in one query and then saves the *)
(* entities it found, one by one.                                          *)
(***************************************************************************)
EXTENDS BillingTables

\* A worker takes up a cron job that is due: the query, and the entity to save
\* when the row of the organization is in its result.
RunJob(w, c, found, e) ==
    /\ Running(w, "idle") /\ c \in due
    /\ due' = due \ {c}
    /\ IF found
       THEN Continue(w, "selectSub", [Idle EXCEPT !.req.kind = c, !.ent = ToColumns(e)])
       ELSE UNCHANGED job
    /\ UNCHANGED <<rows, now, session, sent, requests, crashes, history>>

-----------------------------------------------------------------------------
(* processRenewals, at midnight                                            *)

\* Mutant: the end of the period is not looked at; every active one is overdue.
ExpiredEarly(s) == s.status = "active" /\ s.end # NoDate

Expired(s) == s.status = "active" /\ s.end # NoDate /\ s.end < now

\* Mutant: the past-due branch is missing.
RenewedNothing(s) ==
    IF s.cancelAtEnd THEN Entity([s EXCEPT !.status = "cancelled"], s.plan)
    ELSE IF s.stats.pending # NoPlan
    THEN Entity([s EXCEPT !.plan = s.stats.pending, !.stats.pending = NoPlan,
                          !.end = s.end + Period], s.plan)
    ELSE Entity(s, s.plan)

\* The pending downgrade moves plan_id, but not the plan object that was loaded.
Renewed(s) ==
    IF s.cancelAtEnd THEN Entity([s EXCEPT !.status = "cancelled"], s.plan)
    ELSE IF s.stats.pending # NoPlan
    THEN Entity([s EXCEPT !.plan = s.stats.pending, !.stats.pending = NoPlan,
                          !.end = s.end + Period], s.plan)
    ELSE Entity([s EXCEPT !.status = "past_due"], s.plan)

ProcessRenewals(w) == RunJob(w, "renew", Expired(sub), Renewed(sub))

-----------------------------------------------------------------------------
(* retryFailedPayments, every six hours                                    *)

MaxRetries == 3
DaysPastDue(s) == IF s.end = NoDate THEN Grace + 1 ELSE (now - s.end) \div Day

GivenUp(s)     == s.stats.retries >= MaxRetries \/ DaysPastDue(s) > Grace
Retried(s) == IF GivenUp(s) THEN [s EXCEPT !.status = "suspended"]
                            ELSE [s EXCEPT !.stats.retries = s.stats.retries + 1]

RetryFailedPayments(w) ==
    RunJob(w, "retry", sub.status = "past_due", Entity(Retried(sub), sub.plan))

-----------------------------------------------------------------------------
(* sendTrialReminders, at ten; it loads the organization and not the plan  *)

TrialOver(s) == s.status = "trial" /\ s.trialEnd # NoDate /\ s.trialEnd <= now

SendTrialReminders(w) ==
    RunJob(w, "remind", TrialOver(sub), Entity([sub EXCEPT !.status = "suspended"], NoPlan))

Jobs(w) == ProcessRenewals(w) \/ RetryFailedPayments(w) \/ SendTrialReminders(w)
=============================================================================

----------------------------- MODULE MCBrowser ------------------------------
EXTENDS BillingPage, TLC

CONSTANTS u1, u2, s1, s2, t1, t2

\* Both users work in s2; the first one has another store by default.
MCStoresOf == (u1 :> <<s1, s2>>) @@ (u2 :> <<s2>>)
Symmetric  == Permutations({t1, t2})

\* What the next steps and the properties can tell apart: not what a tab shows that is
\* signed out and waits for nothing (every user has a store), what a closed dialog was
\* left with, every field of every request nor the period of a late one, payments
\* nothing refers to any more, and the history but for what is asked of it.
Idling == {t \in Tabs : ~tab[t].inside /\ \A c \in calls : c.tab # t}
PageView(p) == [p EXCEPT
    !.latest = IF p.step THEN p.latest ELSE NoPayment,
    !.plan   = IF p.visible \/ p.url THEN p.plan ELSE NoPlan]
RequestView(r) == [r EXCEPT
    !.user   = IF r.kind \in {"intent", "upgrade"} THEN r.user ELSE Nobody,
    !.late   = r.kind = "upgrade" /\ r.late,
    !.annual = r.annual /\ ~(r.kind = "upgrade" /\ r.late)]
Requests  == [v \in {RequestView(r) : r \in sent} |-> Cardinality({r \in sent : RequestView(r) = v})]
Referred  == {keys.pay} \cup {r.pay : r \in sent} \cup {bill[t].latest : t \in {u \in Tabs : bill[u].step}}
Forgotten == [user |-> Nobody, plan |-> NoPlan, annual |-> FALSE,
              paid |-> \E p \in DOMAIN payments : payments[p].paid]
MCView ==
    LET idling == Idling  referred == Referred  forgotten == Forgotten
    IN <<disk, calls, events, crossed \ idling, [t \in Tabs \ idling |-> tab[t]],
         [t \in Tabs |-> PageView(bill[t])], keys, Requests, notices,
         [p \in DOMAIN payments |-> IF p \in referred THEN payments[p] ELSE forgotten], PeriodIsPaidFor>>
=============================================================================

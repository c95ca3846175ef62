---------------------------- MODULE BrowserProofs ---------------------------
(***************************************************************************)
(* Proofs about the browser (BrowserSession, BillingPage), for any number  *)
(* of tabs, users, stores, plans and events: a tab that nobody interfered  *)
(* with acts for the user and the store it shows, and an upgrade is for    *)
(* the period that was paid for.                                           *)
(***************************************************************************)
EXTENDS BillingPage, TLAPS

-----------------------------------------------------------------------------
(* What a session and a page consist of                                    *)

Persons     == Users \cup {Nobody}
StoresIn(u) == {StoreList(u)[i] : i \in DOMAIN StoreList(u)}
AnyStore    == {NoStore} \cup UNION {StoresIn(u) : u \in Users}

Storage == [token : Persons, user : Persons, stores : Persons, active : AnyStore]
Signals == [user : Persons, stores : Persons, active : AnyStore, inside : BOOLEAN]

SessionTyped ==
    /\ disk \in Storage
    /\ tab \in [Tabs -> Signals]
    /\ calls \subseteq [tab : Tabs, kind : {"switch", "profile"}, store : AnyStore, user : Persons]
    /\ crossed \subseteq Tabs

SomePlan == Plans \cup {NoPlan}
Waits    == {"intent", "leave", "upgrade"}
Kinds    == Waits \cup {"refresh", "load", "again"}

LeftRow    == [url : BOOLEAN, plan : SomePlan, annual : BOOLEAN, late : BOOLEAN]
RequestRow == [kind : Kinds, tab : Tabs, live : BOOLEAN, left : LeftRow, user : Persons,
               pay : Nat, plan : SomePlan, annual : BOOLEAN, late : BOOLEAN]
PageRow    == [open : BOOLEAN, url : BOOLEAN, plan : SomePlan, annual : BOOLEAN, late : BOOLEAN,
               visible : BOOLEAN, step : BOOLEAN, latest : Nat, busy : BOOLEAN]
KeysRow    == [pay : Nat, plan : SomePlan, annual : BOOLEAN]
GrantRow   == [pay : Nat, annual : BOOLEAN, late : BOOLEAN]
PaymentRow == [user : Persons, plan : SomePlan, annual : BOOLEAN, paid : BOOLEAN]

PageTyped ==
    /\ bill \in [Tabs -> PageRow]
    /\ keys \in KeysRow
    /\ sent \subseteq RequestRow
    /\ notices \subseteq Tabs
    /\ payments \in Seq(PaymentRow)
    /\ granted \subseteq GrantRow

-----------------------------------------------------------------------------
(* The inductive invariants                                                *)

\* Whoever signed in with stores has one of them as the active store, until an
\* answer to another session puts a store of somebody else there: never none.
StoreChosen == disk.token # Nobody /\ StoreList(disk.token) # <<>> => disk.active # NoStore

\* A tab that nobody interfered with shows the user of the token, whose name is
\* stored with it, and a store of that user.
Undisturbed(t) == tab[t].user # Nobody =>
    /\ disk.token = tab[t].user /\ disk.user = tab[t].user
    /\ StoreList(tab[t].user) # <<>> => IsStoreOf(tab[t].active, tab[t].user)

SessionSound ==
    /\ SessionTyped /\ StoreChosen
    /\ \A t \in Tabs : tab[t].inside => tab[t].user # Nobody
    /\ \A t \in Tabs \ crossed : Undisturbed(t)

\* The payment p was made for the period annual.
MadeFor(p, annual) == p \in DOMAIN payments /\ payments[p].annual = annual

\* Requests are followed by a page as long as it is open.  But for what is late: a
\* page waits for one request at most, an open dialog shows the period of the
\* checkout it asked for and of the one it is going to verify, and a page that loads
\* after the redirect stands as it began.
PageSound(t) ==
    /\ \A r \in sent : r.tab = t /\ r.live => bill[t].open
    /\ ~bill[t].late =>
         /\ bill[t].visible /\ bill[t].step => ~bill[t].busy /\ MadeFor(bill[t].latest, bill[t].annual)
         /\ \A r \in sent : r.tab = t /\ r.live =>
              /\ r.kind = "load" =>
                   /\ ~(bill[t].annual \/ bill[t].visible \/ bill[t].busy)
                   /\ \A q \in sent : q.tab = t /\ q.live /\ q.kind = "load" => q = r
              /\ r.kind \in Waits =>
                   /\ bill[t].busy
                   /\ bill[t].visible => r.kind # "intent" \/ r.annual = bill[t].annual
                   /\ \A q \in sent : q.tab = t /\ q.live /\ q.kind \in Waits => q = r

\* The three keys, the requests and what was carried out name the period of the
\* payment they name, but for what is late; so will a page that was left loading.
RequestSound(r) ==
    /\ r.kind = "upgrade" => r.late \/ MadeFor(r.pay, r.annual)
    /\ r.kind = "load" /\ ~r.live => r.left.late \/ ~r.left.annual

PeriodsAgree ==
    /\ keys.pay # NoPayment => MadeFor(keys.pay, keys.annual)
    /\ \A r \in sent : RequestSound(r)
    /\ \A g \in granted : g.late \/ MadeFor(g.pay, g.annual)

PagesSound == PageTyped /\ PeriodsAgree /\ \A t \in Tabs : PageSound(t)

-----------------------------------------------------------------------------
(* The session                                                             *)

USE DEF Storage, Signals, PageRow, LeftRow, KeysRow, PaymentRow

\* What a list of stores says: it is empty or has a first store, and none of them
\* is no store.
LEMMA Lists ==
    ASSUME NEW u \in Persons
    PROVE  /\ \A s : IsStoreOf(s, u) <=> s \in StoresIn(u)
           /\ StoresIn(u) \subseteq AnyStore /\ NoStore \notin StoresIn(u)
           /\ StoreList(u) # <<>> => StoreList(u)[1] \in StoresIn(u)
           /\ \A s \in AnyStore : Default(u, s) \in AnyStore
<1>1. \A s : IsStoreOf(s, u) <=> s \in StoresIn(u)
  BY DEF IsStoreOf, StoresIn
<1>2. CASE u = Nobody
  BY <1>1, <1>2 DEF StoreList, StoresIn, Default
<1>3. CASE u # Nobody
  <2>1. u \in Users /\ StoreList(u) = StoresOf[u]
    BY <1>3 DEF Persons, StoreList
  <2>2. StoresIn(u) \subseteq AnyStore
    BY <2>1 DEF AnyStore
  <2>3. StoresOf[u] \in Seq(StoresIn(u)) /\ NoStore \notin StoresIn(u)
    BY <2>1, SessionAssumption DEF StoresIn
  <2>4. StoreList(u) # <<>> => StoreList(u)[1] \in StoresIn(u)
    BY <2>1, <2>3
  <2> QED
    BY <1>1, <2>2, <2>3, <2>4 DEF Default
<1> QED
  BY <1>2, <1>3

\* What a tab shows after it loaded the application.
LEMMA Loaded ==
    ASSUME NEW d \in Storage
    PROVE  /\ FromDisk(d) \in Signals
           /\ FromDisk(d).user = d.user /\ FromDisk(d).active = d.active
           /\ FromDisk(d).inside => d.user # Nobody
  BY DEF FromDisk

\* A log-in or registration writes token, user, stores and active store together.
LEMMA SignInKeepsSession ==
    ASSUME SessionSound, NEW t \in Tabs, NEW u \in Users, SignIn(t, u)
    PROVE  SessionSound'
<1>1. u \in Persons /\ u # Nobody
  BY SessionAssumption DEF Persons
<1>2. /\ disk' = [token |-> u, user |-> u, stores |-> u, active |-> Default(u, disk.active)]
      /\ tab' = [tab EXCEPT ![t] = [user |-> u, stores |-> u, active |-> Default(u, tab[t].active),
                                    inside |-> TRUE]]
      /\ crossed' = Tabs \ {t} /\ calls' = calls
  BY DEF SignIn
<1>3. SessionTyped /\ \A x \in Tabs : tab[x].inside => tab[x].user # Nobody
  BY DEF SessionSound
<1>4. SessionTyped'
  BY <1>1, <1>2, <1>3, Lists DEF SessionTyped
<1>5. StoreList(u) # <<>> => \A s : Default(u, s) \in StoresIn(u) /\ Default(u, s) # NoStore
  BY <1>1, Lists DEF Default
<1>6. StoreChosen'
  BY <1>2, <1>5 DEF StoreChosen
<1>7. \A x \in Tabs : tab'[x].inside => tab'[x].user # Nobody
  BY <1>1, <1>2, <1>3 DEF SessionTyped
<1>8. Undisturbed(t)'
  BY <1>1, <1>2, <1>3, <1>5, Lists DEF Undisturbed, SessionTyped
<1> QED
  BY <1>2, <1>4, <1>6, <1>7, <1>8 DEF SessionSound

\* A log-out, and so a 401, empties the storage and the tab it happens in.
LEMMA LogoutKeepsSession ==
    ASSUME SessionSound, NEW t \in Tabs, calls' \subseteq calls,
           disk' = SignedOut, tab' = LoggedOut(t), crossed' = crossed \cup (Tabs \ {t})
    PROVE  SessionSound'
<1>1. SessionTyped /\ \A x \in Tabs : tab[x].inside => tab[x].user # Nobody
  BY DEF SessionSound
<1>2. SessionTyped'
  <2>1. SignedOut \in Storage
    BY DEF SignedOut, Persons, AnyStore
  <2>2. tab' \in [Tabs -> Signals]
    BY <1>1 DEF SessionTyped, LoggedOut, Persons
  <2> QED
    BY <1>1, <2>1, <2>2 DEF SessionTyped
<1>3. tab'[t].user = Nobody /\ ~tab'[t].inside /\ \A x \in Tabs \ {t} : tab'[x] = tab[x]
  BY <1>1 DEF SessionTyped, LoggedOut
<1>4. StoreChosen'
  BY DEF StoreChosen, SignedOut
<1> QED
  BY <1>1, <1>2, <1>3, <1>4 DEF SessionSound, Undisturbed

\* A reload shows what is stored, which belongs together unless it is muddled.
LEMMA ReloadKeepsSession ==
    ASSUME SessionSound, NEW t \in Tabs, Reload(t)
    PROVE  SessionSound'
<1>1. SessionTyped /\ StoreChosen /\ \A x \in Tabs : tab[x].inside => tab[x].user # Nobody
  BY DEF SessionSound
<1>2. /\ disk' = disk /\ tab' = [tab EXCEPT ![t] = FromDisk(disk)] /\ calls' \subseteq calls
      /\ crossed' = IF Muddled THEN crossed \cup {t} ELSE crossed \ {t}
  BY DEF Reload
<1>3. SessionTyped'
  BY <1>1, <1>2, Loaded DEF SessionTyped
<1>4. tab'[t] = FromDisk(disk) /\ \A x \in Tabs \ {t} : tab'[x] = tab[x]
  BY <1>1, <1>2 DEF SessionTyped
<1>5. StoreChosen'
  BY <1>1, <1>2 DEF StoreChosen
<1>6. \A x \in Tabs : tab'[x].inside => tab'[x].user # Nobody
  BY <1>1, <1>4, Loaded DEF SessionTyped
<1>7. ~Muddled => Undisturbed(t)'
  BY <1>1, <1>2, <1>4, Loaded DEF SessionTyped, StoreChosen, Undisturbed, Muddled
<1>8. \A x \in Tabs \ {t} : x \notin crossed => Undisturbed(x)'
  BY <1>2, <1>4 DEF SessionSound, Undisturbed
<1> QED
  BY <1>2, <1>3, <1>5, <1>6, <1>7, <1>8 DEF SessionSound

\* The answer to switching the store, in time or to an earlier session.
LEMMA SwitchedKeepsSession ==
    ASSUME SessionSound, NEW c \in calls, Switched(c)
    PROVE  SessionSound'
<1>1. SessionTyped /\ StoreChosen /\ \A x \in Tabs : tab[x].inside => tab[x].user # Nobody
  BY DEF SessionSound
<1>2. /\ c.user # Nobody /\ IsStoreOf(c.store, c.user)
      /\ disk' = [disk EXCEPT !.active = c.store]
      /\ tab' = [tab EXCEPT ![c.tab] = FromDisk(disk')]
      /\ calls' \subseteq calls /\ crossed' = IF Late(c) THEN Tabs ELSE crossed
  BY DEF Switched
<1>3. c.tab \in Tabs /\ c.user \in Persons /\ c.store \in AnyStore /\ c.store # NoStore
  BY <1>1, <1>2, Lists DEF SessionTyped
<1>4. /\ disk' \in Storage
      /\ disk'.token = disk.token /\ disk'.user = disk.user /\ disk'.active = c.store
  BY <1>1, <1>2, <1>3 DEF SessionTyped
<1>5. tab'[c.tab] = FromDisk(disk') /\ \A x \in Tabs \ {c.tab} : tab'[x] = tab[x]
  BY <1>1, <1>2, <1>3 DEF SessionTyped
<1>6. SessionTyped'
  BY <1>1, <1>2, <1>3, <1>4, Loaded DEF SessionTyped
<1>7. StoreChosen'
  BY <1>3, <1>4 DEF StoreChosen
<1>8. \A x \in Tabs : tab'[x].inside => tab'[x].user # Nobody
  BY <1>1, <1>4, <1>5, Loaded
<1>9. ASSUME NEW x \in Tabs \ crossed' PROVE Undisturbed(x)'
  <2>1. crossed' = crossed /\ c.user = disk.token /\ c.user = tab[c.tab].user /\ Undisturbed(x)
    BY <1>2, <1>9 DEF SessionSound, Late
  <2>2. CASE x = c.tab
    BY <1>2, <1>4, <1>5, <2>1, <2>2, Loaded DEF Undisturbed
  <2>3. CASE x # c.tab
    BY <1>4, <1>5, <2>1, <2>3 DEF Undisturbed
  <2> QED
    BY <2>2, <2>3
<1> QED
  BY <1>6, <1>7, <1>8, <1>9 DEF SessionSound

\* The answer to saving the profile, in time or to an earlier session.
LEMMA ProfileSavedKeepsSession ==
    ASSUME SessionSound, NEW c \in calls, ProfileSaved(c)
    PROVE  SessionSound'
<1>1. SessionTyped /\ StoreChosen /\ \A x \in Tabs : tab[x].inside => tab[x].user # Nobody
  BY DEF SessionSound
<1>2. /\ c.user # Nobody /\ disk' = [disk EXCEPT !.user = c.user]
      /\ tab' = [tab EXCEPT ![c.tab] = [@ EXCEPT !.user = c.user]]
      /\ calls' \subseteq calls /\ crossed' = IF Late(c) THEN Tabs ELSE crossed
  BY DEF ProfileSaved
<1>3. c.tab \in Tabs /\ c.user \in Persons
  BY <1>1 DEF SessionTyped
<1>4. /\ disk'.token = disk.token /\ disk'.user = c.user /\ disk'.active = disk.active
      /\ tab'[c.tab].user = c.user /\ tab'[c.tab].active = tab[c.tab].active
      /\ \A x \in Tabs \ {c.tab} : tab'[x] = tab[x]
  BY <1>1, <1>2, <1>3 DEF SessionTyped
<1>5. SessionTyped'
  BY <1>1, <1>2, <1>3 DEF SessionTyped
<1>6. StoreChosen' /\ \A x \in Tabs : tab'[x].inside => tab'[x].user # Nobody
  BY <1>1, <1>2, <1>4 DEF StoreChosen
<1>7. ASSUME NEW x \in Tabs \ crossed' PROVE Undisturbed(x)'
  <2>1. crossed' = crossed /\ c.user = disk.token /\ c.user = tab[c.tab].user /\ Undisturbed(x)
    BY <1>2, <1>7 DEF SessionSound, Late
  <2> QED
    BY <1>4, <2>1 DEF Undisturbed
<1> QED
  BY <1>5, <1>6, <1>7 DEF SessionSound

\* A request that may change the session later changes nothing yet.
LEMMA CallKeepsSession ==
    ASSUME SessionSound, NEW t \in Tabs, SwitchStore(t) \/ UpdateProfile(t)
    PROVE  SessionSound'
<1>1. SessionTyped
  BY DEF SessionSound
<1>2. \E s \in AnyStore : Call(t, "switch", s) \/ Call(t, "profile", s)
  <2>1. CASE SwitchStore(t)
    <3>1. PICK i \in DOMAIN StoreList(tab[t].stores) :
            Call(t, "switch", StoreList(tab[t].stores)[i])
      BY <2>1 DEF SwitchStore
    <3>2. tab[t].stores \in Persons /\ StoreList(tab[t].stores)[i] \in StoresIn(tab[t].stores)
      BY <1>1 DEF SessionTyped, StoresIn
    <3> QED
      BY <3>1, <3>2, Lists
  <2>2. CASE UpdateProfile(t)
    BY <2>2 DEF UpdateProfile, AnyStore
  <2> QED
    BY <2>1, <2>2
<1>3. UNCHANGED <<disk, tab, crossed>>
  BY <1>2 DEF Call
<1>4. calls' \subseteq [tab : Tabs, kind : {"switch", "profile"},
                        store : AnyStore, user : Persons]
  BY <1>1, <1>2 DEF Call, SessionTyped
<1> QED
  BY <1>1, <1>3, <1>4 DEF SessionSound, SessionTyped, StoreChosen, Undisturbed

\* Every step of the session keeps its invariant.
LEMMA SessionKept == SessionSound /\ Session => SessionSound'
<1> SUFFICES ASSUME SessionSound, Session PROVE SessionSound'
  OBVIOUS
<1>1. ASSUME NEW t \in Tabs, NEW u \in Users, SignIn(t, u) PROVE SessionSound'
  BY <1>1, SignInKeepsSession
<1>2. ASSUME NEW t \in Tabs, Logout(t) PROVE SessionSound'
  BY <1>2, LogoutKeepsSession DEF Logout
<1>3. ASSUME NEW t \in Tabs, Reload(t) PROVE SessionSound'
  BY <1>3, ReloadKeepsSession
<1>4. ASSUME NEW t \in Tabs, SwitchStore(t) \/ UpdateProfile(t) PROVE SessionSound'
  BY <1>4, CallKeepsSession
<1>5. ASSUME NEW c \in calls, Switched(c) PROVE SessionSound'
  BY <1>5, SwitchedKeepsSession
<1>6. ASSUME NEW c \in calls, ProfileSaved(c) PROVE SessionSound'
  BY <1>6, ProfileSavedKeepsSession
<1>7. ASSUME NEW c \in calls, Unauthorized(c) \/ Failed(c) PROVE SessionSound'
  <2>1. CASE UNCHANGED <<disk, tab, crossed>>
    <3>1. calls' \subseteq calls
      BY <1>7 DEF Unauthorized, Failed
    <3> QED
      BY <2>1, <3>1 DEF SessionSound, SessionTyped, StoreChosen, Undisturbed
  <2>2. CASE ~UNCHANGED <<disk, tab, crossed>>
    <3>1. /\ c.tab \in Tabs /\ calls' \subseteq calls
          /\ disk' = SignedOut /\ tab' = LoggedOut(c.tab)
          /\ crossed' = crossed \cup (Tabs \ {c.tab})
      BY <1>7, <2>2 DEF Unauthorized, Failed, SessionSound, SessionTyped
    <3> QED
      BY <3>1, LogoutKeepsSession
  <2> QED
    BY <2>1, <2>2
<1> QED
  BY <1>1, <1>2, <1>3, <1>4, <1>5, <1>6, <1>7 DEF Session

\* The billing page reads the session and never writes it.
LEMMA NextKeepsSession == SessionSound /\ [Next]_vars => SessionSound'
<1> SUFFICES ASSUME SessionSound, [Next]_vars PROVE SessionSound'
  OBVIOUS
<1>1. Session \/ UNCHANGED <<disk, tab, calls, crossed>>
  BY DEF Next, SessionStep, Return, Session, Pay, vars, sessionVars
<1>2. ASSUME UNCHANGED <<disk, tab, calls, crossed>> PROVE SessionSound'
  BY <1>2 DEF SessionSound, SessionTyped, StoreChosen, Undisturbed
<1> QED
  BY <1>1, <1>2, SessionKept

\* Nobody is signed in at first.
LEMMA InitKeepsSession == Init => SessionSound
<1> SUFFICES ASSUME Init PROVE SessionSound
  OBVIOUS
<1>1. /\ disk = SignedOut /\ tab = [t \in Tabs |-> FromDisk(SignedOut)]
      /\ calls = {} /\ crossed = {}
  BY DEF Init, InitSession
<1>2. SignedOut \in Storage
  BY DEF SignedOut, Persons, AnyStore
<1>3. \A t \in Tabs : tab[t].user = Nobody /\ ~tab[t].inside
  BY <1>1 DEF SignedOut, FromDisk
<1>4. SessionTyped
  BY <1>1, <1>2, Loaded DEF SessionTyped
<1> QED
  BY <1>1, <1>3, <1>4 DEF SessionSound, StoreChosen, Undisturbed, SignedOut

\* The interceptors take the token from the storage, which the tabs share, and the
\* store from the tab: in a tab that no other tab and no answer to another session
\* interfered with they belong together.
THEOREM TabsActAsShown == Spec => []ActsAsShown
<1>1. SessionSound => ActsAsShown
  BY DEF SessionSound, Undisturbed, ActsAsShown
<1> QED
  BY <1>1, InitKeepsSession, NextKeepsSession, PTL DEF Spec

-----------------------------------------------------------------------------
(* The page and the period                                                 *)

\* Payments are added and marked paid; what they were for does not change.
LEMMA PaymentsGrow ==
    ASSUME PageTyped,
           \/ UNCHANGED payments
           \/ \E p \in DOMAIN payments : payments' = [payments EXCEPT ![p].paid = TRUE]
           \/ \E u \in Persons, l \in SomePlan, a \in BOOLEAN :
                payments' = Append(payments, [user |-> u, plan |-> l, annual |-> a, paid |-> FALSE])
    PROVE  /\ payments' \in Seq(PaymentRow)
           /\ \A p, a : MadeFor(p, a) => MadeFor(p, a)'
<1>1. payments \in Seq(PaymentRow)
  BY DEF PageTyped
<1>2. CASE UNCHANGED payments
  BY <1>1, <1>2 DEF MadeFor
<1>3. ASSUME NEW p \in DOMAIN payments, payments' = [payments EXCEPT ![p].paid = TRUE]
      PROVE  payments' \in Seq(PaymentRow) /\ \A x, a : MadeFor(x, a) => MadeFor(x, a)'
  <2>1. payments[p] \in PaymentRow
    <3> HIDE DEF PaymentRow
    <3> QED
      BY <1>1
  <2>2. [payments[p] EXCEPT !.paid = TRUE] \in PaymentRow
      /\ [payments[p] EXCEPT !.paid = TRUE].annual = payments[p].annual
    BY <2>1
  <2>3. payments' = [payments EXCEPT ![p] = [payments[p] EXCEPT !.paid = TRUE]]
    BY <1>3
  <2> HIDE DEF PaymentRow
  <2>4. payments' \in Seq(PaymentRow) /\ DOMAIN payments' = DOMAIN payments
    BY <1>1, <2>2, <2>3
  <2>5. \A x \in DOMAIN payments : payments'[x].annual = payments[x].annual
    BY <1>1, <2>2, <2>3
  <2> QED
    BY <2>4, <2>5 DEF MadeFor
<1>4. ASSUME NEW r \in PaymentRow, payments' = Append(payments, r)
      PROVE  payments' \in Seq(PaymentRow) /\ \A x, a : MadeFor(x, a) => MadeFor(x, a)'
  BY <1>1, <1>4 DEF MadeFor
<1> QED
  BY <1>2, <1>3, <1>4

\* What a request of a page, and one that follows another, consist of.
LEMMA Requests ==
    ASSUME NEW kind \in Kinds, NEW t \in Tabs, NEW user \in Persons, NEW pay \in Nat, NEW page,
           page.plan \in SomePlan, page.annual \in BOOLEAN, page.late \in BOOLEAN
    PROVE  LET r == Request(kind, t, user, pay, page)
           IN /\ r \in RequestRow /\ r.kind = kind /\ r.tab = t /\ r.live
              /\ r.pay = pay /\ r.annual = page.annual /\ r.late = page.late
  BY DEF Request, RequestRow, Nowhere, SomePlan

LEMMA Follows ==
    ASSUME NEW r \in RequestRow, NEW kind \in Kinds
    PROVE  LET q == Following(r, kind)
           IN /\ q \in RequestRow /\ q.kind = kind /\ q.tab = r.tab /\ q.live = r.live
              /\ q.left = r.left
<1>1. r.tab \in Tabs /\ r.live \in BOOLEAN /\ r.left \in LeftRow
  BY DEF RequestRow
<1>2. Nobody \in Persons /\ NoPayment \in Nat /\ NoPlan \in SomePlan
  BY DEF Persons, NoPayment, SomePlan
<1> QED
  BY <1>1, <1>2 DEF Following, Request, RequestRow, Nowhere

\* A page as it begins.
LEMMA Begins ==
    ASSUME NEW open \in BOOLEAN, NEW url \in BOOLEAN
    PROVE  LET page == Page(open, url)
           IN /\ page \in PageRow /\ page.open = open
              /\ ~page.visible /\ ~page.busy /\ ~page.annual /\ ~page.late
  BY DEF Page, NoPayment, SomePlan

\* A step of one page that sends nothing, or nothing it waits for.
LEMMA PageChanges ==
    ASSUME PagesSound, NEW t \in Tabs, NEW page, With(t, page), NEW r \in RequestRow,
           page \in PageRow,
           page.open = bill[t].open, page.busy = bill[t].busy, bill[t].late => page.late,
           ~page.late =>
             /\ page.visible => \/ ~bill[t].busy
                                \/ bill[t].visible /\ page.annual = bill[t].annual
             /\ page.visible /\ page.step =>
                  /\ bill[t].visible /\ bill[t].step
                  /\ page.annual = bill[t].annual /\ page.latest = bill[t].latest
             /\ Loading(t, {"load"}) => /\ page.annual = bill[t].annual
                                        /\ page.visible => bill[t].visible,
           \/ sent' = sent
           \/ sent' = sent \cup {r} /\ r.kind = "refresh" /\ r.tab = t /\ page.open,
           UNCHANGED <<keys, payments, granted>>, notices' \subseteq Tabs
    PROVE  PagesSound'
<1>1. PageTyped /\ PeriodsAgree /\ bill' = [bill EXCEPT ![t] = page]
  BY DEF PagesSound, With
<1>2. bill'[t] = page /\ \A u \in Tabs \ {t} : bill'[u] = bill[u]
  BY <1>1 DEF PageTyped
<1>3. PageTyped'
  BY <1>1 DEF PageTyped
<1>4. \A p, a : MadeFor(p, a) => MadeFor(p, a)'
  BY DEF MadeFor
<1>5. PeriodsAgree'
  BY <1>1, <1>4 DEF PeriodsAgree, RequestSound
<1>6. \A q \in sent' : q \in sent \/ (q.kind = "refresh" /\ q.tab = t)
  OBVIOUS
<1>7. ASSUME NEW u \in Tabs PROVE PageSound(u)'
  <2>1. PageSound(u)
    BY DEF PagesSound
  <2>2. CASE u = t
    <3>1. \A q \in sent' : q.tab = t /\ q.live => page.open
      BY <2>1, <2>2 DEF PageSound
    <3>2. ASSUME ~page.late
          PROVE  /\ page.visible /\ page.step => ~page.busy /\ MadeFor(page.latest, page.annual)'
                 /\ \A q \in sent : q.tab = t /\ q.live /\ q.kind \in Waits =>
                      /\ page.busy /\ (page.visible => q.kind # "intent" \/ q.annual = page.annual)
                      /\ \A z \in sent : z.tab = t /\ z.live /\ z.kind \in Waits => z = q
      BY <1>4, <2>1, <2>2, <3>2 DEF PageSound
    <3>3. ASSUME ~page.late, NEW q \in sent, q.tab = t, q.live, q.kind = "load"
          PROVE  /\ ~(page.annual \/ page.visible \/ page.busy)
                 /\ \A z \in sent : z.tab = t /\ z.live /\ z.kind = "load" => z = q
      <4>1. Loading(t, {"load"})
        BY <3>3 DEF Loading
      <4> QED
        BY <2>1, <2>2, <3>3, <4>1 DEF PageSound
    <3>4. "refresh" \notin Waits /\ "refresh" # "load"
      BY DEF Waits
    <3> QED
      BY <1>2, <1>6, <2>2, <3>1, <3>2, <3>3, <3>4 DEF PageSound
  <2>3. CASE u # t
    <3>1. bill'[u] = bill[u] /\ \A q \in sent' : q.tab = u => q \in sent
      BY <1>2, <1>6, <2>3
    <3>2. sent \subseteq sent'
      OBVIOUS
    <3> QED
      BY <1>4, <2>1, <3>1, <3>2 DEF PageSound
  <2> QED
    BY <2>2, <2>3
<1> QED
  BY <1>3, <1>5, <1>7 DEF PagesSound

\* The pages that are over wait for nothing; their requests are followed apart.
LEMMA PagesEnd ==
    ASSUME PagesSound, NEW E \in SUBSET Tabs, NEW page,
           page \in PageRow, ~page.visible,
           bill' = [t \in Tabs |-> IF t \in E THEN page ELSE bill[t]],
           sent' \subseteq {r \in sent : ~(r.live /\ r.tab \in E)}
             \cup {[r EXCEPT !.live = FALSE, !.left = Left(bill[r.tab])] :
                     r \in {q \in sent : q.live /\ q.tab \in E}},
           UNCHANGED <<keys, notices, payments, granted>>
    PROVE  PagesSound'
<1>1. PageTyped /\ PeriodsAgree
  BY DEF PagesSound
<1>2. ASSUME NEW r \in sent'
      PROVE  /\ r \in RequestRow /\ RequestSound(r)'
             /\ r.live => r \in sent /\ r.tab \notin E
  <2>1. CASE r \in sent /\ ~(r.live /\ r.tab \in E)
    BY <1>1, <2>1 DEF PageTyped, PeriodsAgree, RequestSound, MadeFor
  <2>2. ASSUME NEW q \in sent, q.live, q.tab \in E,
               r = [q EXCEPT !.live = FALSE, !.left = Left(bill[q.tab])]
        PROVE  r \in RequestRow /\ ~r.live /\ RequestSound(r)'
    <3> DEFINE l == Left(bill[q.tab])
    <3>1. /\ q \in RequestRow /\ RequestSound(q) /\ q.tab \in Tabs
          /\ bill[q.tab] \in PageRow /\ PageSound(q.tab)
      <4>1. q \in RequestRow /\ RequestSound(q) /\ q.tab \in Tabs
        BY <1>1, <2>2 DEF PageTyped, PeriodsAgree
      <4> QED
        BY <1>1, <4>1 DEF PagesSound, PageTyped
    <3>2. l \in LeftRow /\ (l.annual => bill[q.tab].annual) /\ (l.annual => l.late = bill[q.tab].late)
      BY <3>1 DEF Left, Nowhere, SomePlan
    <3>3. q.kind = "load" => l.late \/ ~l.annual
      BY <2>2, <3>1, <3>2 DEF PageSound
    <3> HIDE DEF l
    <3>4. /\ r \in RequestRow /\ ~r.live /\ r.kind = q.kind /\ r.left = l
          /\ r.pay = q.pay /\ r.annual = q.annual /\ r.late = q.late
      BY <2>2, <3>1, <3>2 DEF RequestRow, l
    <3> QED
      BY <3>1, <3>3, <3>4 DEF RequestSound, MadeFor
  <2> QED
    BY <1>2, <2>1, <2>2
<1>3. PageTyped'
  BY <1>1, <1>2 DEF PageTyped
<1>4. PeriodsAgree' /\ \A p, a : MadeFor(p, a) => MadeFor(p, a)'
  BY <1>1, <1>2 DEF PeriodsAgree, MadeFor
<1>5. ASSUME NEW t \in Tabs PROVE PageSound(t)'
  <2>1. PageSound(t) /\ bill'[t] = IF t \in E THEN page ELSE bill[t]
    BY DEF PagesSound
  <2>2. \A r \in sent' : r.tab = t /\ r.live => r \in sent /\ t \notin E
    BY <1>2
  <2> QED
    BY <1>4, <2>1, <2>2 DEF PageSound
<1> QED
  BY <1>3, <1>4, <1>5 DEF PagesSound

\* A page that waits for nothing sends a request and waits.
LEMMA PageSends ==
    ASSUME PagesSound, NEW t \in Tabs, NEW page, With(t, page), ~bill[t].busy,
           page \in PageRow,
           page.open, page.busy, page.late = bill[t].late, ~(page.visible /\ page.step),
           page.late \/ ~Loading(t, {"load"}),
           NEW r \in RequestRow, r.tab = t, r.live, r.kind \in Waits, sent' = sent \cup {r},
           r.kind = "intent" => r.annual = page.annual,
           r.kind = "upgrade" => r.late \/ MadeFor(r.pay, r.annual),
           UNCHANGED <<keys, notices, payments, granted>>
    PROVE  PagesSound'
<1>1. PageTyped /\ PeriodsAgree /\ bill' = [bill EXCEPT ![t] = page]
  BY DEF PagesSound, With
<1>2. bill'[t] = page /\ \A u \in Tabs \ {t} : bill'[u] = bill[u]
  BY <1>1 DEF PageTyped
<1>3. PageTyped'
  BY <1>1 DEF PageTyped
<1>4. PeriodsAgree' /\ \A p, a : MadeFor(p, a) => MadeFor(p, a)'
  BY <1>1 DEF PeriodsAgree, RequestSound, MadeFor, Waits
<1>5. ASSUME NEW u \in Tabs PROVE PageSound(u)'
  <2>1. PageSound(u) /\ PageSound(t)
    BY DEF PagesSound
  <2>2. CASE u = t
    <3>1. ~page.late => \A q \in sent : q.tab = t /\ q.live => q.kind \notin Waits /\ q.kind # "load"
      BY <2>1 DEF PageSound, Loading
    <3>2. "load" \notin Waits
      BY DEF Waits
    <3> QED
      BY <1>2, <2>2, <3>1, <3>2 DEF PageSound
  <2>3. CASE u # t
    BY <1>2, <1>4, <2>1, <2>3 DEF PageSound
  <2> QED
    BY <2>2, <2>3
<1> QED
  BY <1>3, <1>4, <1>5 DEF PagesSound

\* The tab comes back from the checkout page: what it waited for is gone, and it
\* loads.
LEMMA ReturnKeepsPages ==
    ASSUME PagesSound, SessionSound, NEW t \in Tabs, Return(t)
    PROVE  PagesSound'
<1> DEFINE in   == tab'[t].inside
           page == Page(in, in)
           r    == Request("load", t, Nobody, NoPayment, Nowhere)
<1>1. PageTyped /\ PeriodsAgree
  BY DEF PagesSound
<1>2. in \in BOOLEAN
  <2>1. disk \in Storage /\ tab \in [Tabs -> Signals]
    BY DEF SessionSound, SessionTyped
  <2>2. tab' = [tab EXCEPT ![t] = FromDisk(disk)]
    BY DEF Return, Reload
  <2> QED
    BY <2>1, <2>2, Loaded
<1>3. /\ page \in PageRow /\ page.open = in
      /\ ~page.visible /\ ~page.busy /\ ~page.annual /\ ~page.late
  BY <1>2, Begins
<1>4. r \in RequestRow /\ r.kind = "load" /\ r.tab = t /\ r.live
  <2>1. "load" \in Kinds /\ Nobody \in Persons /\ NoPayment \in Nat /\ Nowhere \in LeftRow
    BY DEF Kinds, Persons, NoPayment, Nowhere, SomePlan
  <2> QED
    BY <2>1, Requests
<1>5. /\ bill' = [bill EXCEPT ![t] = page]
      /\ sent' = {q \in sent : q.tab # t} \cup IF in THEN {r} ELSE {}
      /\ notices' \subseteq notices /\ UNCHANGED <<keys, payments, granted>>
  BY DEF Return, With
<1> HIDE DEF in, page, r
<1>6. bill'[t] = page /\ \A u \in Tabs \ {t} : bill'[u] = bill[u]
  BY <1>1, <1>5 DEF PageTyped
<1>7. \A q \in sent' : (q \in sent /\ q.tab # t) \/ (q = r /\ in)
  BY <1>5
<1>8. PageTyped'
  BY <1>1, <1>3, <1>4, <1>5, <1>7 DEF PageTyped
<1>9. \A p, a : MadeFor(p, a) => MadeFor(p, a)'
  BY <1>5 DEF MadeFor
<1>10. PeriodsAgree'
  BY <1>1, <1>4, <1>5, <1>7, <1>9 DEF PeriodsAgree, RequestSound
<1>11. ASSUME NEW u \in Tabs PROVE PageSound(u)'
  <2>1. PageSound(u)
    BY DEF PagesSound
  <2>2. CASE u = t
    <3>1. \A q \in sent' : q.tab = t => q = r /\ in
      BY <1>7
    <3>2. "load" \notin Waits
      BY DEF Waits
    <3> QED
      BY <1>3, <1>4, <1>6, <2>2, <3>1, <3>2 DEF PageSound
  <2>3. CASE u # t
    <3>1. \A q \in sent' : q.tab = u => q \in sent
      BY <1>4, <1>7, <2>3
    <3> QED
      BY <1>6, <1>9, <2>1, <2>3, <3>1 DEF PageSound
  <2> QED
    BY <2>2, <2>3
<1> QED
  BY <1>8, <1>10, <1>11 DEF PagesSound

\* What a customer does on the page.
LEMMA PageStepKeepsPages ==
    ASSUME PagesSound, SessionSound, NEW t \in Tabs,
           PageStep(t) \/ StartUpgradePayment(t) \/ LeavePlan(t)
    PROVE  PagesSound'
<1> DEFINE old == bill[t]
<1>1. PageTyped /\ PeriodsAgree /\ PageSound(t) /\ old \in PageRow /\ disk.token \in Persons
  BY DEF PagesSound, PageTyped, SessionSound, SessionTyped
<1>2. /\ NoPayment \in Nat /\ Nowhere \in LeftRow /\ Plans \subseteq SomePlan /\ NoPlan \in SomePlan
      /\ "intent" \in Kinds /\ "leave" \in Kinds /\ "upgrade" \in Kinds /\ "refresh" \in Kinds
      /\ "intent" \in Waits /\ "leave" \in Waits /\ "upgrade" \in Waits
  BY DEF NoPayment, Nowhere, SomePlan, Kinds, Waits
<1> DEFINE fresh == Request("refresh", t, disk.token, NoPayment, Nowhere)
<1>3. fresh \in RequestRow /\ fresh.kind = "refresh" /\ fresh.tab = t
  BY <1>1, <1>2, Requests
<1> HIDE DEF fresh
<1>4. old.visible /\ ~old.late => ~Loading(t, {"load"})
  BY <1>1 DEF PageSound, Loading
<1>5. CASE Open(t) \/ Leave(t)
  <2>1. PICK open \in BOOLEAN : With(t, Page(open, FALSE))
    BY <1>5 DEF Open, Leave
  <2> DEFINE page == Page(open, FALSE)
  <2>2. page \in PageRow /\ ~page.visible
    BY Begins
  <2>3. sent' \subseteq {r \in sent : ~(r.live /\ r.tab \in {t})}
          \cup {[r EXCEPT !.live = FALSE, !.left = Left(bill[r.tab])] :
                  r \in {q \in sent : q.live /\ q.tab \in {t}}}
    <3>1. CASE Open(t)
      BY <1>1, <3>1 DEF Open, PageSound
    <3>2. CASE Leave(t)
      BY <3>2 DEF Leave, Orphaned
    <3> QED
      BY <1>5, <3>1, <3>2
  <2>4. bill' = [u \in Tabs |-> IF u \in {t} THEN page ELSE bill[u]]
    BY <1>1, <2>1 DEF With, PageTyped
  <2>5. UNCHANGED <<keys, notices, payments, granted>> /\ {t} \in SUBSET Tabs
    BY <1>5 DEF Open, Leave
  <2> HIDE DEF page
  <2> QED
    BY <2>2, <2>3, <2>4, <2>5, PagesEnd
<1>6. CASE ToggleAnnual(t)
  <2> DEFINE page == [old EXCEPT !.annual = ~@, !.late = @ \/ Loading(t, {"load"})]
  <2>1. /\ page \in PageRow /\ ~page.visible /\ page.open = old.open /\ page.busy = old.busy
        /\ old.late => page.late
        /\ Loading(t, {"load"}) => page.late
    <3>1. Loading(t, {"load"}) \in BOOLEAN
      BY DEF Loading
    <3> QED
      BY <1>1, <1>6, <3>1 DEF ToggleAnnual
  <2>2. With(t, page) /\ UNCHANGED <<keys, sent, notices, payments, granted>>
    BY <1>6 DEF ToggleAnnual
  <2> HIDE DEF page
  <2> QED
    BY <1>1, <1>3, <2>1, <2>2, PageChanges DEF PageTyped
<1>7. ASSUME NEW plan \in Plans, OpenUpgradeDialog(t, plan) PROVE PagesSound'
  <2> DEFINE page == [old EXCEPT !.plan = plan, !.step = FALSE, !.visible = TRUE]
  <2>1. /\ page \in PageRow /\ ~page.step /\ ~old.busy /\ page.late = old.late
        /\ page.open = old.open /\ page.busy = old.busy /\ ~Loading(t, {"load"})
    BY <1>1, <1>2, <1>7 DEF OpenUpgradeDialog, On, Loading
  <2>2. With(t, page) /\ UNCHANGED <<keys, sent, notices, payments, granted>>
    BY <1>7 DEF OpenUpgradeDialog
  <2> HIDE DEF page
  <2> QED
    BY <1>1, <1>3, <2>1, <2>2, PageChanges DEF PageTyped
<1>8. CASE CloseDialog(t)
  <2>1. PICK page : /\ page = [old EXCEPT !.visible = FALSE] \/ page = [old EXCEPT !.step = FALSE]
                    /\ old.visible /\ With(t, page)
                    /\ UNCHANGED <<keys, sent, notices, payments, granted>>
    BY <1>8 DEF CloseDialog
  <2>2. /\ page \in PageRow /\ page.open = old.open /\ page.busy = old.busy /\ page.late = old.late
        /\ page.annual = old.annual /\ ~(page.visible /\ page.step)
    BY <1>1, <2>1
  <2> QED
    BY <1>1, <1>3, <2>1, <2>2, PageChanges DEF PageTyped
<1>9. CASE StartUpgradePayment(t)
  <2> DEFINE page == [old EXCEPT !.busy = TRUE]
             r    == Request("intent", t, disk.token, NoPayment, old)
  <2>1. /\ page \in PageRow /\ page.busy /\ ~page.step /\ ~old.busy /\ old.visible /\ old.open
        /\ page.annual = old.annual /\ page.late = old.late /\ page.open = old.open
    BY <1>1, <1>9 DEF StartUpgradePayment, Ready
  <2>2. r \in RequestRow /\ r.tab = t /\ r.live /\ r.kind = "intent" /\ r.annual = old.annual
    BY <1>1, <1>2, Requests
  <2>3. With(t, page) /\ sent' = sent \cup {r} /\ UNCHANGED <<keys, notices, payments, granted>>
    BY <1>9 DEF StartUpgradePayment
  <2>4. page.open /\ ~(page.visible /\ page.step) /\ (page.late \/ ~Loading(t, {"load"}))
    BY <1>4, <2>1
  <2>5. r.kind \in Waits /\ r.annual = page.annual /\ r.kind # "upgrade"
    BY <1>2, <2>1, <2>2
  <2> HIDE DEF page, r
  <2> QED
    BY <2>1, <2>2, <2>3, <2>4, <2>5, PageSends
<1>10. CASE LeavePlan(t)
  <2> DEFINE page == [old EXCEPT !.busy = TRUE]
             r    == Request("leave", t, disk.token, NoPayment, Nowhere)
  <2>1. /\ page \in PageRow /\ page.open /\ page.busy /\ ~page.visible /\ ~old.busy
        /\ page.late = old.late /\ ~Loading(t, {"load"})
    BY <1>1, <1>10 DEF LeavePlan, On, Loading
  <2>2. r \in RequestRow /\ r.tab = t /\ r.live /\ r.kind = "leave"
    BY <1>1, <1>2, Requests
  <2>3. With(t, page) /\ sent' = sent \cup {r} /\ UNCHANGED <<keys, notices, payments, granted>>
    BY <1>10 DEF LeavePlan
  <2> HIDE DEF page, r
  <2> QED
    BY <1>2, <2>1, <2>2, <2>3, PageSends
<1>11. CASE VerifyPayment(t)
  <2> DEFINE pay  == IF old.latest # NoPayment THEN old.latest ELSE keys.pay
             page == Upgrading(old, pay)
             r    == Upgrade(t, old, pay)
  <2>1. old.open /\ old.visible /\ old.step /\ ~old.busy
    BY <1>11 DEF VerifyPayment, Ready
  <2>2. old.late \/ MadeFor(old.latest, old.annual)
    BY <1>1, <2>1 DEF PageSound
  <2>3. old.late \/ pay = old.latest
    BY <1>1, <2>2 DEF MadeFor, PageTyped, NoPayment
  <2>4. pay \in Nat
    BY <1>1 DEF PageTyped
  <2>5. With(t, page) /\ sent' = sent \cup {r} /\ UNCHANGED <<keys, notices, payments, granted>>
    BY <1>11 DEF VerifyPayment
  <2> HIDE DEF pay
  <2>6. /\ page \in PageRow /\ page.busy /\ ~page.visible /\ page.late = old.late
        /\ page.open = old.open
    BY <1>1, <2>4 DEF Upgrading
  <2>7. /\ r \in RequestRow /\ r.tab = t /\ r.live /\ r.kind = "upgrade"
        /\ r.late \/ MadeFor(r.pay, r.annual)
    BY <1>1, <1>2, <2>2, <2>3, <2>4, Requests DEF Upgrade
  <2> HIDE DEF page, r
  <2> QED
    BY <1>2, <1>4, <2>1, <2>5, <2>6, <2>7, PageSends
<1>12. CASE StorageEvent(t)
  <2>1. PICK page : /\ \/ page = old
                       \/ page = [old EXCEPT !.visible = FALSE, !.plan = NoPlan, !.step = FALSE]
                    /\ With(t, page) /\ UNCHANGED <<keys, payments, granted>>
                    /\ sent' = sent \/ (sent' = sent \cup {fresh} /\ old.open)
                    /\ notices' \subseteq notices
    <3>1. CASE old.open /\ old.visible
      BY <1>12, <3>1 DEF StorageEvent, fresh
    <3>2. CASE ~(old.open /\ old.visible)
      BY <1>1, <1>12, <3>2 DEF StorageEvent, With, PageTyped
    <3> QED
      BY <3>1, <3>2
  <2>2. /\ page \in PageRow /\ page.open = old.open /\ page.busy = old.busy
        /\ page.annual = old.annual /\ page.late = old.late
        /\ page.visible => old.visible /\ page.step = old.step /\ page.latest = old.latest
    BY <1>1, <1>2, <2>1
  <2>3. notices' \subseteq Tabs
    BY <1>1, <2>1 DEF PageTyped
  <2> QED
    BY <1>1, <1>3, <2>1, <2>2, <2>3, PageChanges
<1> QED
  BY <1>5, <1>6, <1>7, <1>8, <1>9, <1>10, <1>11, <1>12 DEF PageStep

\* An answer that ends the waiting of its page, if it is still there, after which
\* ngOnInit may run again.
LEMMA AnswerEnds ==
    ASSUME PagesSound, NEW r \in sent,
           bill' = bill \/ (bill' = Idle(r) /\ r.kind \in Waits),
           sent' \subseteq (sent \ {r}) \cup NgOnInit(r),
           keys' = keys \/ keys' = NoKeys, UNCHANGED payments, notices' \subseteq Tabs,
           granted' \subseteq granted \cup {g \in GrantRow : g.late \/ MadeFor(g.pay, g.annual)}
    PROVE  PagesSound'
<1> DEFINE again == Following(r, "again")
<1>1. PageTyped /\ PeriodsAgree /\ r \in RequestRow /\ r.tab \in Tabs /\ bill[r.tab] \in PageRow
  BY DEF PagesSound, PageTyped, RequestRow
<1>2. "again" \in Kinds /\ "again" \notin Waits
  BY DEF Kinds, Waits
<1>3. /\ again \in RequestRow /\ again.kind = "again"
      /\ again.tab = r.tab /\ again.live = r.live
  BY <1>1, <1>2, Follows
<1>4. ASSUME NEW q \in sent' PROVE (q \in sent /\ q # r) \/ q = again
  BY <1>4 DEF NgOnInit
<1> HIDE DEF again
<1>5. \A p, a : MadeFor(p, a) <=> MadeFor(p, a)'
  BY DEF MadeFor
<1>6. PageTyped'
  <2>1. bill' \in [Tabs -> PageRow]
    <3>1. bill \in [Tabs -> PageRow] /\ r.tab \in Tabs
      BY <1>1 DEF PageTyped
    <3>2. CASE r.live
      <4>1. Idle(r) = [bill EXCEPT ![r.tab] = [bill[r.tab] EXCEPT !.busy = FALSE]]
        BY <3>2 DEF Idle
      <4>2. [bill[r.tab] EXCEPT !.busy = FALSE] \in PageRow
        BY <1>1
      <4> HIDE DEF PageRow
      <4> QED
        BY <3>1, <4>1, <4>2
    <3>3. CASE ~r.live
      BY <3>1, <3>3 DEF Idle
    <3> QED
      BY <3>2, <3>3
  <2>2. keys' \in KeysRow
    <3>1. NoKeys \in KeysRow
      BY DEF NoKeys, NoPayment, SomePlan
    <3> QED
      BY <1>1, <3>1 DEF PageTyped
  <2>3. sent' \subseteq RequestRow
    BY <1>1, <1>3, <1>4 DEF PageTyped
  <2>4. granted' \subseteq GrantRow
    BY <1>1 DEF PageTyped
  <2> QED
    BY <1>1, <2>1, <2>2, <2>3, <2>4 DEF PageTyped
<1>7. PeriodsAgree'
  <2>1. keys'.pay # NoPayment => MadeFor(keys'.pay, keys'.annual)
    BY <1>1 DEF PeriodsAgree, NoKeys
  <2>2. \A q \in sent' : RequestSound(q)'
    BY <1>1, <1>3, <1>4, <1>5 DEF PeriodsAgree, RequestSound
  <2>3. \A g \in granted' : g.late \/ MadeFor(g.pay, g.annual)
    BY <1>1 DEF PeriodsAgree
  <2> QED
    BY <1>5, <2>1, <2>2, <2>3 DEF PeriodsAgree
<1>8. ASSUME NEW t \in Tabs PROVE PageSound(t)'
  <2>1. PageSound(t) /\ bill[t] \in PageRow
    BY <1>1 DEF PagesSound, PageTyped
  <2>2. \A q \in sent' : q.tab = t /\ q.live => bill[t].open
    BY <1>3, <1>4, <2>1 DEF PageSound
  <2>3. CASE bill'[t] = bill[t]
    BY <1>2, <1>3, <1>4, <1>5, <2>1, <2>2, <2>3 DEF PageSound
  <2>4. CASE bill'[t] # bill[t]
    <3>1. r.live /\ r.tab = t /\ r.kind \in Waits
      BY <1>1, <2>4 DEF Idle, PageTyped
    <3>2. /\ bill'[t].visible = bill[t].visible /\ bill'[t].step = bill[t].step
          /\ bill'[t].latest = bill[t].latest /\ bill'[t].annual = bill[t].annual
          /\ bill'[t].late = bill[t].late /\ bill'[t].open = bill[t].open /\ ~bill'[t].busy
      BY <1>1, <2>4, <3>1 DEF Idle, PageTyped
    <3>3. ~bill[t].late => \A q \in sent' : q.tab = t /\ q.live => q.kind \notin Waits
      BY <1>2, <1>3, <1>4, <2>1, <3>1 DEF PageSound
    <3>4. ~bill[t].late => \A q \in sent' : q.tab = t /\ q.live => q.kind # "load"
      BY <1>3, <1>4, <2>1, <3>1 DEF PageSound
    <3> QED
      BY <1>5, <2>1, <2>2, <3>2, <3>3, <3>4 DEF PageSound
  <2> QED
    BY <2>3, <2>4
<1> QED
  BY <1>6, <1>7, <1>8 DEF PagesSound

\* The answer to a checkout: its keys and the dialog that waits for it name its period.
LEMMA IntentKeepsPages ==
    ASSUME PagesSound, NEW r \in sent, IntentMade(r)
    PROVE  PagesSound'
<1> DEFINE new == [user |-> r.user, plan |-> r.plan, annual |-> r.annual, paid |-> FALSE]
<1>1. PageTyped /\ PeriodsAgree /\ r \in RequestRow /\ r.tab \in Tabs /\ bill[r.tab] \in PageRow
  BY DEF PagesSound, PageTyped, RequestRow
<1>2. /\ r.kind = "intent" /\ sent' = sent \ {r} /\ payments' = Append(payments, new)
      /\ keys' = [pay |-> Len(payments'), plan |-> r.plan, annual |-> r.annual]
      /\ bill' = IF r.live
                 THEN [bill EXCEPT ![r.tab] = [@ EXCEPT !.busy = FALSE, !.step = TRUE,
                                                        !.latest = Len(payments')]]
                 ELSE bill
      /\ UNCHANGED <<notices, granted>>
  BY DEF IntentMade, Answered
<1>3. r.user \in Persons /\ r.plan \in SomePlan /\ r.annual \in BOOLEAN
  BY <1>1 DEF RequestRow
<1>4. payments' \in Seq(PaymentRow) /\ \A p, a : MadeFor(p, a) => MadeFor(p, a)'
  BY <1>1, <1>2, <1>3, PaymentsGrow
<1>5. /\ Len(payments') \in Nat /\ Len(payments') # NoPayment
      /\ \A p : p = Len(payments') => MadeFor(p, r.annual)'
  <2>1. payments' \in Seq(PaymentRow) /\ payments \in Seq(PaymentRow)
    BY <1>1, <1>4 DEF PageTyped
  <2>2. Len(payments') = Len(payments) + 1 /\ payments'[Len(payments) + 1] = new
    BY <1>2, <2>1
  <2> QED
    BY <2>1, <2>2 DEF MadeFor, NoPayment
<1>6. PageTyped'
  <2>1. bill' \in [Tabs -> PageRow]
    BY <1>1, <1>2, <1>5 DEF PageTyped
  <2>2. keys' \in KeysRow
    BY <1>2, <1>3, <1>5
  <2> QED
    BY <1>1, <1>2, <1>4, <2>1, <2>2 DEF PageTyped
<1>7. PeriodsAgree'
  <2>1. keys'.pay = Len(payments') /\ keys'.annual = r.annual
    BY <1>2
  <2> QED
    BY <1>1, <1>2, <1>4, <1>5, <2>1 DEF PeriodsAgree, RequestSound
<1>8. ASSUME NEW t \in Tabs PROVE PageSound(t)'
  <2>1. PageSound(t) /\ "intent" \in Waits /\ "load" \notin Waits
    BY DEF PagesSound, Waits
  <2>2. CASE r.live /\ r.tab = t
    <3>1. /\ bill'[t].visible = bill[t].visible /\ bill'[t].annual = bill[t].annual
          /\ bill'[t].latest = Len(payments') /\ ~bill'[t].busy
          /\ bill'[t].late = bill[t].late /\ bill'[t].open = bill[t].open
      BY <1>1, <1>2, <2>2 DEF PageTyped
    <3>2. ~bill[t].late =>
            /\ bill[t].visible => r.annual = bill[t].annual
            /\ \A q \in sent' : q.tab = t /\ q.live => q.kind \notin Waits /\ q.kind # "load"
      BY <1>2, <2>1, <2>2 DEF PageSound
    <3> QED
      BY <1>2, <1>5, <2>1, <3>1, <3>2 DEF PageSound
  <2>3. CASE ~(r.live /\ r.tab = t)
    <3>1. bill'[t] = bill[t]
      BY <1>1, <1>2, <2>3 DEF PageTyped
    <3> QED
      BY <1>2, <1>4, <2>1, <3>1 DEF PageSound
  <2> QED
    BY <2>2, <2>3
<1> QED
  BY <1>6, <1>7, <1>8 DEF PagesSound

\* What a page sends that found the keys names the payment and the period of the
\* keys, unless it is late.
LEMMA Verified ==
    ASSUME PagesSound, disk.token \in Persons,
           NEW r \in sent, r.kind \in {"load", "again"}, keys.pay # NoPayment,
           NEW loaded \in BOOLEAN,
           NEW page, page = Restored(PageOf(r), loaded, r.kind = "again")
    PROVE  /\ r.live => page \in PageRow
           /\ page.late \in BOOLEAN
           /\ ~page.late => /\ page.annual = keys.annual /\ r.kind = "load"
                            /\ r.live => ~bill[r.tab].late
           /\ Posted(r, page) \in RequestRow /\ Posted(r, page).kind = "upgrade"
           /\ Posted(r, page).tab = r.tab /\ Posted(r, page).live = r.live
           /\ RequestSound(Posted(r, page))
<1> DEFINE from == PageOf(r)
           v    == Upgrade(r.tab, page, keys.pay)
           mine == IF r.live THEN Nowhere ELSE page
           u    == Posted(r, page)
<1>1. /\ PageTyped /\ PeriodsAgree /\ r \in RequestRow /\ r.tab \in Tabs /\ r.live \in BOOLEAN
      /\ bill[r.tab] \in PageRow /\ r.left \in LeftRow /\ keys \in KeysRow
  BY DEF PagesSound, PageTyped, RequestRow
<1>2. PageSound(r.tab) /\ RequestSound(r)
  BY <1>1 DEF PagesSound, PeriodsAgree
<1>3. (r.live => from = bill[r.tab]) /\ (~r.live => from = r.left)
  BY DEF PageOf
<1>4. /\ from.plan \in SomePlan /\ from.annual \in BOOLEAN /\ from.late \in BOOLEAN
      /\ ~from.late /\ r.kind = "load" => ~from.annual
  <2>1. CASE r.live
    BY <1>1, <1>2, <1>3, <2>1 DEF PageSound
  <2>2. CASE ~r.live
    BY <1>1, <1>2, <1>3, <2>2 DEF RequestSound
  <2> QED
    BY <2>1, <2>2
<1>5. (r.live => page \in PageRow) /\ (~r.live => page \in LeftRow)
  BY <1>1, <1>3 DEF Restored
<1>6. (r.live => from \in PageRow) /\ (~r.live => from \in LeftRow)
  BY <1>1, <1>3
<1>7. /\ page.late = (from.late \/ r.kind = "again")
      /\ page.annual = (from.annual \/ keys.annual)
  BY <1>1, <1>6 DEF Restored
<1>8. page.plan \in SomePlan /\ page.annual \in BOOLEAN /\ page.late \in BOOLEAN
  BY <1>1, <1>5
<1>9. mine \in LeftRow
  BY <1>5 DEF Nowhere, SomePlan
<1> HIDE DEF from, mine
<1>10. ~page.late => /\ page.annual = keys.annual /\ r.kind = "load"
                     /\ r.live => ~bill[r.tab].late
  BY <1>1, <1>3, <1>4, <1>7
<1>11. /\ u \in RequestRow /\ u.kind = "upgrade" /\ u.tab = r.tab /\ u.live = r.live
       /\ RequestSound(u)
  <2>1. "upgrade" \in Kinds /\ keys.pay \in Nat
    BY <1>1 DEF Kinds, Waits
  <2>2. /\ v \in RequestRow /\ v.kind = "upgrade" /\ v.tab = r.tab
        /\ v.pay = keys.pay /\ v.annual = page.annual /\ v.late = page.late
    BY <1>1, <1>8, <2>1, Requests DEF Upgrade
  <2> HIDE DEF v
  <2>3. /\ u \in RequestRow /\ u.kind = "upgrade" /\ u.tab = r.tab /\ u.live = r.live
        /\ u.pay = v.pay /\ u.annual = v.annual /\ u.late = v.late
    <3>1. u = [v EXCEPT !.live = r.live, !.left = mine]
      BY DEF v, Posted, mine
    <3> QED
      BY <1>1, <1>9, <2>2, <3>1 DEF RequestRow
  <2>4. MadeFor(keys.pay, keys.annual)
    BY <1>1 DEF PeriodsAgree
  <2> QED
    BY <1>10, <2>2, <2>3, <2>4 DEF RequestSound
<1> QED
  BY <1>5, <1>8, <1>10, <1>11

\* The answer to what a page loads, for the first time or again.
LEMMA CheckKeepsPages ==
    ASSUME PagesSound, SessionSound, NEW r \in sent, CheckForPendingPayment(r)
    PROVE  PagesSound'
<1>1. /\ PageTyped /\ PeriodsAgree /\ r \in RequestRow /\ r.tab \in Tabs /\ r.live \in BOOLEAN
      /\ disk.token \in Persons /\ r.kind \in {"load", "again"}
      /\ UNCHANGED <<keys, notices, payments, granted>>
  BY DEF PagesSound, PageTyped, RequestRow, SessionSound, SessionTyped, CheckForPendingPayment
<1>2. CASE ~PageOf(r).url \/ keys.pay = NoPayment
  <2>1. bill' = bill /\ sent' = sent \ {r}
    BY <1>2 DEF CheckForPendingPayment, Answered
  <2> QED
    BY <1>1, <2>1, AnswerEnds DEF PageTyped
<1>3. CASE PageOf(r).url /\ keys.pay # NoPayment
  <2>1. PICK loaded \in BOOLEAN :
          LET page   == Restored(PageOf(r), loaded, r.kind = "again")
              shown  == [page EXCEPT !.url = FALSE, !.latest = keys.pay]
              posted == IF page.plan = NoPlan THEN {} ELSE {Posted(r, page)}
          IN /\ sent' = (sent \ {r}) \cup posted
             /\ bill' = IF ~r.live THEN bill
                        ELSE [bill EXCEPT ![r.tab] = IF posted = {} THEN shown ELSE Upgrading(shown, keys.pay)]
    BY <1>3 DEF CheckForPendingPayment
  <2> DEFINE page  == Restored(PageOf(r), loaded, r.kind = "again")
             shown == [page EXCEPT !.url = FALSE, !.latest = keys.pay]
             u     == Posted(r, page)
             next  == IF page.plan = NoPlan THEN shown ELSE Upgrading(shown, keys.pay)
  <2>2. /\ sent' = (sent \ {r}) \cup IF page.plan = NoPlan THEN {} ELSE {u}
        /\ bill' = IF ~r.live THEN bill ELSE [bill EXCEPT ![r.tab] = next]
    BY <2>1
  <2>4. /\ (r.live => page \in PageRow) /\ page.late \in BOOLEAN
        /\ ~page.late => /\ page.annual = keys.annual /\ r.kind = "load"
                         /\ r.live => ~bill[r.tab].late
        /\ u \in RequestRow /\ u.kind = "upgrade" /\ u.tab = r.tab /\ u.live = r.live
        /\ RequestSound(u)
    <3>1. page = Restored(PageOf(r), loaded, r.kind = "again")
      OBVIOUS
    <3> HIDE DEF page, PageRow
    <3> QED
      BY <1>1, <1>3, <3>1, Verified
  <2> HIDE DEF u
  <2>5. r.live => /\ page.open = bill[r.tab].open /\ page.visible = bill[r.tab].visible
                  /\ page.busy = bill[r.tab].busy /\ (bill[r.tab].late => page.late)
    BY <1>1 DEF Restored, PageOf, PageTyped
  <2> HIDE DEF page
  <2>6. r.live => /\ next \in PageRow /\ next.open = page.open /\ next.late = page.late
                  /\ next.annual = page.annual
                  /\ next.visible => page.visible
                  /\ next.busy = (page.busy \/ page.plan # NoPlan)
    BY <1>1, <2>4 DEF Upgrading, PageTyped
  <2> HIDE DEF next
  <2>7. \A p, a : MadeFor(p, a) <=> MadeFor(p, a)'
    BY <1>1 DEF MadeFor
  <2>8. \A q \in sent' : (q \in sent /\ q # r) \/ (q = u /\ page.plan # NoPlan)
    BY <2>2
  <2>9. PageTyped' /\ PeriodsAgree'
    <3>1. bill' \in [Tabs -> PageRow]
      <4> HIDE DEF PageRow
      <4> QED
        BY <1>1, <2>2, <2>6 DEF PageTyped
    <3>2. sent' \subseteq RequestRow
      BY <1>1, <2>4, <2>8 DEF PageTyped
    <3>3. \A q \in sent' : RequestSound(q)'
      BY <1>1, <2>4, <2>7, <2>8 DEF PeriodsAgree, RequestSound
    <3> QED
      BY <1>1, <2>7, <3>1, <3>2, <3>3 DEF PageTyped, PeriodsAgree
  <2>10. ASSUME NEW t \in Tabs PROVE PageSound(t)'
    <3>1. PageSound(t) /\ "upgrade" # "load" /\ "upgrade" # "intent" /\ "upgrade" \in Waits
          /\ "load" \notin Waits
      BY DEF PagesSound, Waits
    <3>2. CASE r.live /\ r.tab = t
      <4>1. bill'[t] = next
        BY <1>1, <2>2, <3>2 DEF PageTyped
      <4>2. \A q \in sent' : q.tab = t /\ q.live => bill[t].open
        BY <2>4, <2>8, <3>1, <3>2 DEF PageSound
      <4>3. ~page.late =>
              /\ ~page.visible /\ ~page.busy
              /\ \A q \in sent : q.tab = t /\ q.live /\ q # r => q.kind \notin Waits /\ q.kind # "load"
        BY <2>4, <2>5, <3>1, <3>2 DEF PageSound
      <4>4. ~page.late => \A q \in sent' : q.tab = t /\ q.live =>
              (q.kind # "load" /\ (q.kind \in Waits => q = u /\ page.plan # NoPlan))
        BY <2>4, <2>8, <3>1, <4>3
      <4> QED
        BY <2>5, <2>6, <3>1, <3>2, <4>1, <4>2, <4>3, <4>4 DEF PageSound
    <3>3. CASE ~(r.live /\ r.tab = t)
      <4>1. bill'[t] = bill[t]
        BY <1>1, <2>2, <3>3 DEF PageTyped
      <4>2. \A q \in sent' : q.tab = t /\ q.live => q \in sent
        BY <2>4, <2>8, <3>3
      <4> QED
        BY <2>7, <3>1, <4>1, <4>2 DEF PageSound
    <3> QED
      BY <3>2, <3>3
  <2> QED
    BY <2>9, <2>10 DEF PagesSound
<1> QED
  BY <1>2, <1>3

\* An answer ends the waiting of the page that asked, if it is still there.
LEMMA AnswerKeepsPages ==
    ASSUME PagesSound, SessionSound, NEW r \in sent, Answer(r)
    PROVE  PagesSound'
<1>1. PageTyped /\ PeriodsAgree /\ r \in RequestRow
  BY DEF PagesSound, PageTyped
<1>2. "intent" \in Waits /\ "leave" \in Waits /\ "upgrade" \in Waits
  BY DEF Waits
<1>3. CASE RequestFailed(r) \/ PlanLeft(r)
  BY <1>1, <1>2, <1>3, AnswerEnds DEF RequestFailed, PlanLeft, Answered, PageTyped
<1>4. CASE Refreshed(r)
  BY <1>1, <1>4, AnswerEnds DEF Refreshed, Answered, PageTyped
<1>5. CASE UpgradeMade(r)
  <2> DEFINE g == [pay |-> r.pay, annual |-> r.annual, late |-> r.late]
  <2>1. /\ r.kind = "upgrade" /\ bill' = Idle(r) /\ UNCHANGED payments
        /\ keys' = keys \/ keys' = NoKeys
        /\ notices' \subseteq notices \cup Tabs
        /\ granted' \subseteq granted \cup {g}
        /\ sent' \subseteq (sent \ {r}) \cup NgOnInit(r)
    BY <1>5 DEF UpgradeMade
  <2>2. g \in GrantRow /\ (g.late \/ MadeFor(g.pay, g.annual))
    <3>1. RequestSound(r) /\ r.pay \in Nat /\ r.annual \in BOOLEAN /\ r.late \in BOOLEAN
      BY <1>1 DEF PeriodsAgree, RequestRow
    <3> QED
      BY <2>1, <3>1 DEF RequestSound, GrantRow
  <2>3. notices' \subseteq Tabs
    BY <1>1, <2>1 DEF PageTyped
  <2> HIDE DEF g
  <2> QED
    BY <1>2, <2>1, <2>2, <2>3, AnswerEnds
<1> QED
  BY <1>3, <1>4, <1>5, IntentKeepsPages, CheckKeepsPages DEF Answer

\* Every step keeps the invariant of the pages.
LEMMA NextKeepsPages == SessionSound /\ PagesSound /\ [Next]_vars => PagesSound'
<1> SUFFICES ASSUME SessionSound, PagesSound, [Next]_vars PROVE PagesSound'
  OBVIOUS
<1>1. CASE SessionStep
  <2> DEFINE E == {t \in Tabs : ~tab'[t].inside \/ tab'[t].active # tab[t].active}
             page == Page(FALSE, FALSE)
  <2>1. /\ bill' = [t \in Tabs |-> IF t \in E THEN page ELSE bill[t]]
        /\ sent' = Orphaned(E) /\ UNCHANGED <<keys, notices, payments, granted>>
    BY <1>1 DEF SessionStep
  <2>2. page \in PageRow /\ ~page.visible
    BY Begins
  <2>3. E \in SUBSET Tabs
    OBVIOUS
  <2> HIDE DEF E, page
  <2>4. sent' \subseteq {r \in sent : ~(r.live /\ r.tab \in E)}
          \cup {[r EXCEPT !.live = FALSE, !.left = Left(bill[r.tab])] :
                  r \in {q \in sent : q.live /\ q.tab \in E}}
    BY <2>1 DEF Orphaned
  <2> QED
    BY <2>1, <2>2, <2>3, <2>4, PagesEnd
<1>2. ASSUME NEW t \in Tabs, PageStep(t) \/ StartUpgradePayment(t) \/ LeavePlan(t) PROVE PagesSound'
  BY <1>2, PageStepKeepsPages
<1>3. ASSUME NEW r \in sent, Answer(r) PROVE PagesSound'
  BY <1>3, AnswerKeepsPages
<1>4. ASSUME NEW p \in DOMAIN payments, Pay(p) PROVE PagesSound'
  <2>1. /\ payments' = [payments EXCEPT ![p].paid = TRUE]
        /\ UNCHANGED <<bill, keys, sent, notices, granted>>
    BY <1>4 DEF Pay
  <2>2. PageTyped /\ PeriodsAgree
    BY DEF PagesSound
  <2>3. /\ payments' \in Seq(PaymentRow)
        /\ \A x, a : MadeFor(x, a) => MadeFor(x, a)'
    BY <2>1, <2>2, PaymentsGrow
  <2>4. PageTyped'
    BY <2>1, <2>2, <2>3 DEF PageTyped
  <2>5. PeriodsAgree'
    BY <2>1, <2>2, <2>3 DEF PeriodsAgree, RequestSound
  <2>6. \A t \in Tabs : PageSound(t)'
    BY <2>1, <2>3 DEF PagesSound, PageSound
  <2> QED
    BY <2>4, <2>5, <2>6 DEF PagesSound
<1>5. ASSUME NEW t \in Tabs, Return(t) PROVE PagesSound'
  BY <1>5, ReturnKeepsPages
<1>6. CASE UNCHANGED vars
  BY <1>6 DEF vars, pageVars, PagesSound, PageTyped, PeriodsAgree, PageSound, RequestSound, MadeFor
<1> QED
  BY <1>1, <1>2, <1>3, <1>4, <1>5, <1>6 DEF Next

\* No page is open and nothing is paid at first.
LEMMA InitKeepsPages == Init => PagesSound
<1> SUFFICES ASSUME Init PROVE PagesSound
  OBVIOUS
<1>1. /\ bill = [t \in Tabs |-> Page(FALSE, FALSE)] /\ keys = NoKeys
      /\ sent = {} /\ notices = {} /\ payments = <<>> /\ granted = {}
  BY DEF Init
<1>2. Page(FALSE, FALSE) \in PageRow /\ ~Page(FALSE, FALSE).visible
  BY Begins
<1>3. NoKeys.pay = NoPayment /\ NoKeys \in KeysRow
  BY DEF NoPayment, NoKeys, SomePlan
<1>4. PageTyped
  <2>1. payments \in Seq(PaymentRow)
    BY <1>1
  <2> QED
    BY <1>1, <1>2, <1>3, <2>1 DEF PageTyped
<1>5. PeriodsAgree
  BY <1>1, <1>3 DEF PeriodsAgree
<1>6. \A t \in Tabs : PageSound(t)
  BY <1>1, <1>2 DEF PageSound
<1> QED
  BY <1>4, <1>5, <1>6 DEF PagesSound

\* The server takes the period of an upgrade from the request and does not compare
\* it with the payment.  The page does, but for what is late: the three keys are
\* written together, a dialog that opens starts over, the switch is behind it while it
\* is open, and a page that comes from the checkout starts with the switch at monthly.
\* Late is an upgrade by a page whose switch was used while it loaded, or that found
\* the keys when ngOnInit ran again (billing.ts:113-123): its period may be another.
THEOREM PeriodsArePaidFor == Spec => []PeriodIsPaidFor
<1>1. PagesSound => PeriodIsPaidFor
  BY DEF PagesSound, PeriodsAgree, MadeFor, PeriodIsPaidFor
<1>2. SessionSound /\ PagesSound /\ [Next]_vars => (SessionSound /\ PagesSound)'
  BY NextKeepsSession, NextKeepsPages
<1> QED
  BY <1>1, <1>2, InitKeepsSession, InitKeepsPages, PTL DEF Spec
=============================================================================

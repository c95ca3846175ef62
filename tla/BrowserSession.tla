--------------------------- MODULE BrowserSession ---------------------------
(***************************************************************************)
(* frontend core/services: AuthService, StoreContextService and            *)
(* SubscriptionService with the interceptors and guards that use them, in  *)
(* one browser.  localStorage is shared by the tabs; the signals are each  *)
(* tab's own, set at start-up and by the answers to its requests, and no   *)
(* tab hears of what another one stores (the billing page's keys, module   *)
(* BillingPage, apart).                                                    *)
(***************************************************************************)
EXTENDS Integers, Sequences, FiniteSets

CONSTANTS
    Tabs,
    Users,
    Nobody,
    StoresOf,      \* StoresOf[u]: the user's stores, the default one first
    NoStore,
    MaxEvents      \* bound: sign-ins, requests that change the session or the plan,
                   \*        checkouts started and requests of pages left with the
                   \*        parameter of BillingPage, together

ASSUME SessionAssumption ==
    /\ Nobody \notin Users
    /\ \A u \in Users : LET stores == {StoresOf[u][i] : i \in DOMAIN StoresOf[u]}
                        IN StoresOf[u] \in Seq(stores) /\ NoStore \notin stores

VARIABLES
    disk,          \* localStorage: access_token's user, user, stores' owner, active_store
    tab,           \* signals of each tab, and whether it is behind the auth guard
    calls,         \* requests whose answer changes the session: switch-store, profile
    events,        \* how many there were
    crossed        \* history: tabs that another tab or a late answer interfered with

sessionVars == <<disk, tab, calls, events, crossed>>

SignedOut == [token |-> Nobody, user |-> Nobody, stores |-> Nobody, active |-> NoStore]

\* Signals as the services' constructors set them; authGuard lets the tab in.
FromDisk(d) == [user |-> d.user, stores |-> d.stores, active |-> d.active,
                inside |-> d.user # Nobody /\ d.token # Nobody]

InitSession ==
    /\ disk = SignedOut /\ tab = [t \in Tabs |-> FromDisk(SignedOut)]
    /\ calls = {} /\ events = 0 /\ crossed = {}

Count == events < MaxEvents /\ events' = events + 1

StoreList(u) == IF u = Nobody THEN <<>> ELSE StoresOf[u]
IsStoreOf(s, u) == \E i \in DOMAIN StoreList(u) : StoreList(u)[i] = s
Default(u, otherwise) == IF StoreList(u) = <<>> THEN otherwise ELSE StoreList(u)[1]
-----------------------------------------------------------------------------
\* Mutant: the login page does not initialise the store.
SignInOldStore(t, u) ==
    /\ ~tab[t].inside /\ Count
    /\ disk' = [disk EXCEPT !.token = u, !.user = u, !.stores = u]
    /\ tab' = [tab EXCEPT ![t] = [@ EXCEPT !.user = u, !.stores = u, !.inside = TRUE]]
    /\ crossed' = Tabs \ {t}
    /\ UNCHANGED calls

\* AuthService.login or register, then initializeStore: without a store to begin
\* with the active store stays what it was.
SignIn(t, u) ==
    /\ ~tab[t].inside /\ Count
    /\ LET s == [user |-> u, stores |-> u, active |-> Default(u, tab[t].active)] IN
       /\ disk' = [token |-> u, user |-> u, stores |-> u, active |-> Default(u, disk.active)]
       /\ tab' = [tab EXCEPT ![t] = [user |-> u, stores |-> u, active |-> s.active, inside |-> TRUE]]
    /\ crossed' = Tabs \ {t}
    /\ UNCHANGED calls

\* logout(): the storage goes and the signals, but not the active store's.
LoggedOut(t) == [tab EXCEPT ![t] = [@ EXCEPT !.user = Nobody, !.stores = Nobody, !.inside = FALSE]]

Logout(t) ==
    /\ tab[t].inside
    /\ disk' = SignedOut /\ tab' = LoggedOut(t) /\ crossed' = crossed \cup (Tabs \ {t})
    /\ UNCHANGED <<calls, events>>

\* An answer to the last session changed the storage too.
Muddled == disk.token # disk.user \/ (disk.active # NoStore /\ ~IsStoreOf(disk.active, disk.user))

\* The tab loads the application again.
Reload(t) ==
    /\ tab' = [tab EXCEPT ![t] = FromDisk(disk)]
    /\ calls' = {c \in calls : c.tab # t}
    /\ crossed' = IF Muddled THEN crossed \cup {t} ELSE crossed \ {t}
    /\ UNCHANGED <<disk, events>>

\* The interceptors add the stored token and the tab's store.
Call(t, kind, store) ==
    /\ tab[t].inside /\ Count
    /\ calls' = calls \cup {[tab |-> t, kind |-> kind, store |-> store, user |-> disk.token]}
    /\ UNCHANGED <<disk, tab, crossed>>

SwitchStore(t) == \E u \in {tab[t].stores} : \E i \in DOMAIN StoreList(u) :
    StoreList(u)[i] # tab[t].active /\ Call(t, "switch", StoreList(u)[i])
UpdateProfile(t) == Call(t, "profile", NoStore)

Late(c) == c.user # disk.token \/ c.user # tab[c.tab].user

\* switchStore: kept if the token's user is in the store; the header then loads
\* the application again.
Switched(c) ==
    /\ c.kind = "switch" /\ c.user # Nobody /\ IsStoreOf(c.store, c.user)
    /\ disk' = [disk EXCEPT !.active = c.store]
    /\ tab' = [tab EXCEPT ![c.tab] = FromDisk(disk')]
    /\ calls' = {d \in calls : d.tab # c.tab}
    /\ crossed' = IF Late(c) THEN Tabs ELSE crossed

\* updateProfile: the user's row as the server has it.
ProfileSaved(c) ==
    /\ c.kind = "profile" /\ c.user # Nobody
    /\ disk' = [disk EXCEPT !.user = c.user]
    /\ tab' = [tab EXCEPT ![c.tab] = [@ EXCEPT !.user = c.user]]
    /\ calls' = calls \ {c}
    /\ crossed' = IF Late(c) THEN Tabs ELSE crossed

\* 401 on anything but the login: signed out, whoever is signed in by now, unless
\* nobody is.
Unauthorized(c) ==
    /\ calls' = calls \ {c}
    /\ IF disk.token = Nobody
       THEN UNCHANGED <<disk, tab, crossed>>
       ELSE disk' = SignedOut /\ tab' = LoggedOut(c.tab) /\ crossed' = crossed \cup (Tabs \ {c.tab})

\* Any other error changes nothing.
Failed(c) == calls' = calls \ {c} /\ UNCHANGED <<disk, tab, crossed>>

Session ==
    \/ \E t \in Tabs :
        \/ (\E u \in Users : SignIn(t, u))
        \/ Logout(t) \/ Reload(t) \/ SwitchStore(t) \/ UpdateProfile(t)
    \/ \E c \in calls : (Switched(c) \/ ProfileSaved(c) \/ Unauthorized(c) \/ Failed(c)) /\ UNCHANGED events
=============================================================================

---------------------------- MODULE TenantTables ----------------------------
(***************************************************************************)
(* Who may work in which store: the accounts at Supabase Auth, the tables  *)
(* users, user_stores, stores and organizations, the products that count   *)
(* against the plan, and the guards every request passes before its        *)
(* handler (backend/src/common/guards).  A worker is one HTTP request; it  *)
(* is cut at its awaits.  Every request of a page names the store it is    *)
(* sent from, in the header and in the path.                               *)
(***************************************************************************)
EXTENDS Integers, FiniteSets, Entities

CONSTANTS
    Workers,      \* requests that may be served at the same time
    Emails,       \* people; Supabase gives an e-mail one user id
    Founder,      \* the one who is registered at the start
    NoOne,        \* not an e-mail
    Stores,       \* bound: stores that may ever exist, 1 .. n
    Slots,        \* bound: products the first store may ever have
    MaxLinks,     \* bound: reset links that may ever be sent
    Limit,        \* what the plan allows: [users, stores, products]
    Requests,     \* the requests the clients send
    MaxRequests   \* bound: requests served in a behaviour

VARIABLES
    accounts,     \* Supabase Auth: e-mails that have an account
    user,         \* table users, by e-mail
    member,       \* table user_stores, by e-mail and store
    store,        \* table stores
    org,          \* table organizations, by owner, with its subscription
    shelf,        \* table products of the first store
    links,        \* how many reset links were made
    expired,      \* links made more than an hour ago
    served, job,  \* requests taken so far; the handler of each worker
    welcomed,     \* history: <<kind, e-mail>> of the registrations and invitations that succeeded
    dismissed,    \* history: memberships that were taken away, until given again
    closed,       \* history: stores that were removed
    spent,        \* history: how often a password was set with a link
    crowd, cut    \* history: most requests in progress at once; a request died half way

tables  == <<accounts, user, member, store, org, shelf, links>>
history == <<welcomed, dismissed, closed, spent>>
outside == <<expired, served, crowd, cut>>
vars    == <<tables, history, outside, job>>

-----------------------------------------------------------------------------
First  == 1
NoLink == 0
Links  == 1 .. MaxLinks

UserRow   == [made : BOOLEAN, link : Links \cup {NoLink}]
\* row counts the rows a pair ever had: TypeORM finds a row by its id.
MemberRow == [role : {"none", "admin", "cashier"}, rights : {"none", "default", "all"}, row : Nat]

Nobody     == [made |-> FALSE, link |-> NoLink]
NoMember   == [role |-> "none", rights |-> "none", row |-> 0]
NoStore    == [state |-> "none", owner |-> NoOne]
StoreRow   == [state : {"open", "gone"}, owner : Emails] \cup {NoStore}
Idle == [at |-> "idle", req |-> [kind |-> "none"], seen |-> NoMember, owner |-> NoOne,
         store |-> First, who |-> NoOne, ent |-> Nobody, cols |-> {}]

\* The forms the controllers accept.  Products are those of the first store.
RequestForm ==
    [kind : {"register", "forgot", "dismiss"}, by : Emails, at : Stores, who : Emails]
    \cup [kind : {"invite", "changeRole"}, by : Emails, at : Stores, who : Emails,
          role : {"admin", "cashier"}]
    \cup [kind : {"setRights"}, by : Emails, at : Stores, who : Emails,
          rights : {"none", "default", "all"}]
    \cup [kind : {"profile", "createStore", "editStore", "removeStore"}, by : Emails, at : Stores]
    \cup [kind : {"createProduct"}, by : Emails, at : {First}]
    \cup [kind : {"editProduct", "removeProduct"}, by : Emails, at : {First}, slot : Slots]
    \cup [kind : {"reset"}, by : Emails, at : Stores, link : Links]

ASSUME TenantAssumption ==
    /\ Founder \in Emails /\ NoOne \notin Emails
    /\ IsFiniteSet(Workers) /\ IsFiniteSet(Emails) /\ IsFiniteSet(Stores) /\ IsFiniteSet(Slots)
    /\ MaxLinks \in Nat /\ MaxRequests \in Nat
    /\ Stores = 1 .. Cardinality(Stores) /\ Cardinality(Stores) > MaxRequests
    /\ Slots = 1 .. Cardinality(Slots) /\ Cardinality(Slots) > MaxRequests
    /\ Limit \in [users : Nat \ {0}, stores : Nat \ {0}, products : Nat \ {0}]

ASSUME RequestsAssumption == Requests \subseteq RequestForm

Init ==
    /\ accounts = {Founder}
    /\ user = [e \in Emails |-> IF e = Founder THEN [Nobody EXCEPT !.made = TRUE] ELSE Nobody]
    /\ member = [e \in Emails |-> [s \in Stores |->
                   IF e = Founder /\ s = First THEN [NoMember EXCEPT !.role = "admin", !.row = 1]
                   ELSE NoMember]]
    /\ store = [s \in Stores |-> IF s = First THEN [state |-> "open", owner |-> Founder] ELSE NoStore]
    /\ org = [e \in Emails |-> IF e = Founder THEN "live" ELSE "none"]
    /\ shelf = [k \in Slots |-> IF k = 1 THEN "active" ELSE "none"]
    /\ links = 0 /\ expired = {} /\ served = 0
    /\ job = [w \in Workers |-> Idle]
    /\ welcomed = {} /\ dismissed = {} /\ closed = {} /\ spent = [l \in Links |-> 0]
    /\ crowd = 0 /\ cut = FALSE

-----------------------------------------------------------------------------
(* Steps every handler shares.                                             *)

Running(w, l)     == job[w].at = l
Continue(w, l, j) == job' = [job EXCEPT ![w] = [j EXCEPT !.at = l]]
Finish(w)         == job' = [job EXCEPT ![w] = Idle]
Refuse(w)         == Finish(w) /\ UNCHANGED <<tables, history, outside>>
Reads(w, l, j)    == Continue(w, l, j) /\ UNCHANGED <<tables, history, outside>>
Quiet             == \A w \in Workers : Running(w, "idle")

\* What a page of the application asks for.  The public requests carry no
\* token; the others need one, which only a user of the table can have got.
Public == {"register", "forgot", "reset"}
Self   == {"profile"}
Entry(k) == CASE k = "register" -> "findUser"    [] k = "invite" -> "findInvitee"
              [] k = "forgot" -> "findEmail"     [] k = "reset" -> "findLink"
              [] k = "profile" -> "findSelf"
              [] k \in {"changeRole", "setRights", "dismiss"} -> "findMember"
              [] k = "createStore" -> "insertStore"
              [] k \in {"editStore", "removeStore"} -> "findStore"
              [] k = "createProduct" -> "insertProduct"
              [] k \in {"editProduct", "removeProduct"} -> "findProduct"

Begin(w, r) ==
    /\ Running(w, "idle") /\ served < MaxRequests
    /\ r.kind \notin Public => user[r.by].made
    /\ r.kind = "forgot" => links < MaxLinks
    /\ r.kind = "reset" => r.link <= links
    /\ served' = served + 1
    /\ LET n == 1 + Cardinality({v \in Workers : ~Running(v, "idle")})
       IN crowd' = IF n > crowd THEN n ELSE crowd
    /\ Continue(w, IF r.kind \in Public \cup Self THEN Entry(r.kind) ELSE "tenant",
                [Idle EXCEPT !.req = r])
    /\ UNCHANGED <<tables, history, expired, cut>>

\* TenantGuard: the token's user must be assigned to the store of the header.
TenantGuard(w) == LET r == job[w].req IN
    /\ Running(w, "tenant")
    /\ IF member[r.by][r.at].role = "none" THEN Refuse(w)
       ELSE Reads(w, "subscription", [job[w] EXCEPT !.seen = member[r.by][r.at]])

\* RolesGuard and PermissionsGuard: every route of these controllers wants an
\* admin, who passes any permission check.
AdminOnly(seen) == seen.role = "admin"
Counted == {"invite", "createStore", "createProduct"}

\* SubscriptionGuard: a store that is gone passes without a plan; otherwise the
\* organization's subscription must be live.  Roles and permissions follow.
SubscriptionGuard(w) == LET j == job[w]  s == store[j.req.at] IN
    /\ Running(w, "subscription")
    /\ IF (s.state = "open" /\ org[s.owner] # "live") \/ ~AdminOnly(j.seen) THEN Refuse(w)
       ELSE Reads(w, IF j.req.kind \in Counted THEN "count" ELSE Entry(j.req.kind),
                  [j EXCEPT !.owner = IF s.state = "open" THEN s.owner ELSE NoOne])

\* What UsageLimitGuard counts for the route.
UsersOf(s)      == Cardinality({e \in Emails : member[e][s].role # "none"})
StoresOf(o)     == Cardinality({s \in Stores : store[s].state = "open" /\ store[s].owner = o})
ActiveProducts  == Cardinality({k \in Slots : shelf[k] = "active"})
\* Mutant: the comparison is off by one.
AtLimitLate(j) == CASE j.req.kind = "invite"        -> UsersOf(j.req.at) > Limit.users
                    [] j.req.kind = "createStore"   -> StoresOf(j.owner) > Limit.stores
                    [] j.req.kind = "createProduct" -> ActiveProducts > Limit.products

AtLimit(j) == CASE j.req.kind = "invite"        -> UsersOf(j.req.at) >= Limit.users
                [] j.req.kind = "createStore"   -> StoresOf(j.owner) >= Limit.stores
                [] j.req.kind = "createProduct" -> ActiveProducts >= Limit.products

\* UsageLimitGuard: at the limit of the plan the request is refused; without a
\* plan nothing is counted.
UsageLimitGuard(w) == LET j == job[w] IN
    /\ Running(w, "count")
    /\ IF j.owner # NoOne /\ AtLimit(j) THEN Refuse(w) ELSE Reads(w, Entry(j.req.kind), j)

Guards(w) == TenantGuard(w) \/ SubscriptionGuard(w) \/ UsageLimitGuard(w)

-----------------------------------------------------------------------------
\* Nobody's request: an hour passes for a link; a plan lapses or is paid again.
Expire(l) == /\ l <= links /\ l \notin expired
             /\ expired' = expired \cup {l}
             /\ UNCHANGED <<tables, history, served, crowd, cut, job>>
Lapse(o)  == /\ org[o] \in {"live", "lapsed"}
             /\ org' = [org EXCEPT ![o] = IF @ = "live" THEN "lapsed" ELSE "live"]
             /\ UNCHANGED <<accounts, user, member, store, shelf, links, history, outside, job>>

\* An await throws: the database, Supabase or the connection fails.
Break(w) == /\ ~Running(w, "idle")
            /\ Finish(w) /\ cut' = TRUE
            /\ UNCHANGED <<tables, history, expired, served, crowd>>
=============================================================================

------------------------------ MODULE Accounts ------------------------------
(***************************************************************************)
(* People, stores and the limits of the plan: every request that passes    *)
(* the guards, the handlers of auth, users, stores and products, and the   *)
(* failures that leave a handler half done.                                *)
(***************************************************************************)
EXTENDS StoresService

Step(w) == Guards(w) \/ Register(w) \/ Passwords(w) \/ Staff(w) \/ Premises(w)

\* No more requests are taken and none is in progress.
Closed == served = MaxRequests /\ Quiet /\ UNCHANGED vars

Next == \/ \E w \in Workers : Step(w) \/ Break(w) \/ \E r \in Requests : Begin(w, r)
        \/ \E l \in Links : Expire(l)
        \/ \E e \in Emails : Lapse(e)
        \/ Closed

Spec == Init /\ [][Next]_vars

-----------------------------------------------------------------------------
\* Every row and every history has its type.
TypeOK ==
    /\ accounts \subseteq Emails
    /\ user \in [Emails -> UserRow] /\ member \in [Emails -> [Stores -> MemberRow]]
    /\ store \in [Stores -> StoreRow]
    /\ org \in [Emails -> {"none", "bare", "live", "lapsed"}]
    /\ shelf \in [Slots -> {"none", "active", "removed", "gone"}]
    /\ links \in 0 .. MaxLinks /\ expired \subseteq 1 .. links
    /\ served \in 0 .. MaxRequests /\ crowd \in 0 .. Cardinality(Workers)
    /\ welcomed \subseteq {"register", "invite"} \X Emails
    /\ dismissed \subseteq Emails \X Stores /\ closed \subseteq Stores
    /\ spent \in [Links -> Nat]

\* Somebody who was told that the registration or the invitation succeeded can
\* sign in and has a store to work in, until taken off it; a registration has
\* its trial as well.  Requests overlap and fail at every await of both.
WelcomedCanWork == \A w \in welcomed :
    /\ CanLogin(w[2]) \/ \E s \in Stores : <<w[2], s>> \in dismissed
    /\ w[1] = "register" => org[w[2]] \in {"live", "lapsed"}

\* Only a request that died half way, or a store that went away meanwhile,
\* leaves somebody with an account and nothing to sign in to: two invitations
\* or an invitation and a registration at the same time do not.
StrandedOnlyByFailure ==
    Quiet /\ ~cut /\ closed = {} =>
        \A e \in accounts : /\ user[e].made
                            /\ CanLogin(e) \/ \E s \in Stores : <<e, s>> \in dismissed
                            /\ org[e] # "bare"

\* UsageLimitGuard counts before the handler inserts, so requests in progress
\* together overrun the plan, by at most one row for each request but the first;
\* one request at a time never does.
Overrun(n) == n + 1 - crowd
OverrunBounded == crowd > 0 =>
    /\ \A s \in Stores : Overrun(UsersOf(s)) <= Limit.users
    /\ \A e \in Emails : Overrun(StoresOf(e)) <= Limit.stores
    /\ Overrun(ActiveProducts) <= Limit.products

\* While requests come one at a time, who was taken off a store stays off it
\* until invited again, and a removed store stays removed; a handler that saves
\* a row it loaded before the removal would bring it back.
RemovedStaysAway == crowd <= 1 =>
    /\ \A d \in dismissed : member[d[1]][d[2]].role = "none"
    /\ \A s \in closed : store[s].state = "gone"

\* While requests come one at a time and none fails, a reset link sets one
\* password.
LinkWorksOnce == crowd <= 1 /\ ~cut => \A l \in Links : spent[l] <= 1
=============================================================================

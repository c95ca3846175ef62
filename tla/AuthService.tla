---------------------------- MODULE AuthService -----------------------------
(***************************************************************************)
(* backend/src/auth/auth.service.ts: registration, sign-in, password reset *)
(* and profile.  There is no transaction: every save is committed alone.   *)
(* changePassword alters nothing but the password at Supabase.             *)
(***************************************************************************)
EXTENDS TenantTables

\* Whom a registration or an invitation makes an account for.
Newcomer(j) == j.req.who

FindUser(w) == LET j == job[w] IN
    /\ Running(w, "findUser")
    /\ IF user[Newcomer(j)].made THEN Refuse(w) ELSE Reads(w, "createAccount", j)

\* Supabase refuses a second account for an e-mail.
CreateAccount(w) == LET j == job[w] IN
    /\ Running(w, "createAccount")
    /\ IF Newcomer(j) \in accounts THEN Refuse(w)
       ELSE /\ accounts' = accounts \cup {Newcomer(j)}
            /\ Continue(w, "insertUser", j)
            /\ UNCHANGED <<user, member, store, org, shelf, links, history, outside>>

InsertUser(w) == LET j == job[w] IN
    /\ Running(w, "insertUser")
    /\ user' = [user EXCEPT ![Newcomer(j)].made = TRUE]
    /\ Continue(w, IF j.req.kind = "register" THEN "insertOrganization" ELSE "assign", j)
    /\ UNCHANGED <<accounts, member, store, org, shelf, links, history, outside>>

InsertOrganization(w) == LET j == job[w] IN
    /\ Running(w, "insertOrganization")
    /\ org' = [org EXCEPT ![Newcomer(j)] = "bare"]
    /\ Continue(w, "insertStore", [j EXCEPT !.owner = Newcomer(j)])
    /\ UNCHANGED <<accounts, user, member, store, shelf, links, history, outside>>

\* Mutant: the trial is left to the first payment.
InsertTrialEarly(w) == LET j == job[w] IN
    /\ Running(w, "insertTrial")
    /\ Continue(w, "signIn", j)
    /\ UNCHANGED <<tables, history, outside>>

\* The 30-day trial on the plan "negosyo".
InsertTrial(w) == LET j == job[w] IN
    /\ Running(w, "insertTrial")
    /\ org' = [org EXCEPT ![Newcomer(j)] = "live"]
    /\ Continue(w, "signIn", j)
    /\ UNCHANGED <<accounts, user, member, store, shelf, links, history, outside>>

\* The automatic sign-in; then the client has its tokens.
SignIn(w) == LET j == job[w] IN
    /\ Running(w, "signIn")
    /\ welcomed' = welcomed \cup {<<"register", Newcomer(j)>>}
    /\ Finish(w)
    /\ UNCHANGED <<tables, dismissed, closed, spent, outside>>

\* login: the right password at Supabase, a row in users and a store.
StoresOfUser(e) == {s \in Stores : member[e][s].role # "none"}
CanLogin(e)     == e \in accounts /\ user[e].made /\ StoresOfUser(e) # {}

Register(w) == FindUser(w) \/ InsertOrganization(w) \/ InsertTrial(w) \/ SignIn(w)

-----------------------------------------------------------------------------
\* save(user): SELECT by id, then UPDATE of the columns that differ.
SelectUser(w) == LET j == job[w] IN
    /\ Running(w, "selectUser")
    /\ IF Changed(j.ent, user[j.who]) = {} THEN Refuse(w) ELSE Reads(w, "updateUser", j)

UpdateUser(w) == LET j == job[w] IN
    /\ Running(w, "updateUser")
    /\ user' = [user EXCEPT ![j.who] = Patched(@, j.ent, {"link"})]
    /\ Finish(w)
    /\ UNCHANGED <<accounts, member, store, org, shelf, links, history, outside>>

\* forgotPassword: an unknown e-mail is answered all the same.
FindEmail(w) == LET j == job[w] IN
    /\ Running(w, "findEmail")
    /\ IF ~user[j.req.who].made \/ links = MaxLinks THEN Refuse(w)
       ELSE /\ links' = links + 1
            /\ Continue(w, "selectUser", [j EXCEPT !.who = j.req.who,
                                            !.ent = [user[j.req.who] EXCEPT !.link = links + 1]])
            /\ UNCHANGED <<accounts, user, member, store, org, shelf, history, outside>>

\* resetPassword: the user with this link, unless it has expired.
FindLink(w) == LET j == job[w]
                   owners == {e \in Emails : user[e].link = j.req.link} IN
    /\ Running(w, "findLink")
    /\ IF owners = {} \/ j.req.link \in expired THEN Refuse(w)
       ELSE \E e \in owners : Reads(w, "setPassword", [j EXCEPT !.who = e, !.ent = user[e]])

\* Mutant: the link stays in the row.
SetPasswordKeepingLink(w) == LET j == job[w] IN
    /\ Running(w, "setPassword")
    /\ spent' = [spent EXCEPT ![j.req.link] = @ + 1]
    /\ Continue(w, "selectUser", j)
    /\ UNCHANGED <<tables, welcomed, dismissed, closed, outside>>

\* The password at Supabase first, then the link is cleared.
SetPassword(w) == LET j == job[w] IN
    /\ Running(w, "setPassword")
    /\ spent' = [spent EXCEPT ![j.req.link] = @ + 1]
    /\ Continue(w, "selectUser", [j EXCEPT !.ent.link = NoLink])
    /\ UNCHANGED <<tables, welcomed, dismissed, closed, outside>>

\* updateProfile saves the whole entity, the link as it was loaded included.
FindSelf(w) == LET j == job[w] IN
    /\ Running(w, "findSelf")
    /\ Reads(w, "selectUser", [j EXCEPT !.who = j.req.by, !.ent = user[j.req.by]])

Passwords(w) == \/ FindEmail(w) \/ FindLink(w) \/ SetPassword(w) \/ FindSelf(w)
                \/ SelectUser(w) \/ UpdateUser(w)
=============================================================================

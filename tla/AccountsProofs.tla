--------------------------- MODULE AccountsProofs ---------------------------
(***************************************************************************)
(* Theorems about Accounts, for any number of people, stores, products,    *)
(* links and requests in progress, and any limits of the plan.             *)
(***************************************************************************)
EXTENDS Accounts, FiniteSetTheorems, TLAPS

-----------------------------------------------------------------------------
(* What a handler's local variables are at each statement.                 *)

\* The requests that reach a statement.
Kinds == {"register", "forgot", "dismiss", "invite", "changeRole", "setRights", "profile",
          "createStore", "editStore", "removeStore", "createProduct", "editProduct",
          "removeProduct", "reset"}
Reach(l) ==
    CASE l \in {"tenant", "subscription"} -> Kinds \ (Public \cup Self)
      [] l = "count" -> Counted
      [] l \in {"findUser", "insertOrganization", "insertTrial", "signIn"} -> {"register"}
      [] l \in {"createAccount", "insertUser"} -> {"register", "invite"}
      [] l \in {"findInvitee", "findAssignment", "assign"} -> {"invite"}
      [] l = "findMember" -> {"changeRole", "setRights", "dismiss"}
      [] l \in {"selectMember", "updateMember", "insertMember"} -> {"changeRole", "setRights"}
      [] l = "deleteMember" -> {"dismiss"}
      [] l \in {"insertStore", "insertManager"} -> {"register", "createStore"}
      [] l = "findStore" -> {"editStore", "removeStore"}
      [] l = "saveStore" -> {"editStore"}
      [] l = "deleteStore" -> {"removeStore"}
      [] l = "insertProduct" -> {"createProduct"}
      [] l \in {"findProduct", "saveProduct"} -> {"editProduct", "removeProduct"}
      [] l = "findEmail" -> {"forgot"}
      [] l \in {"findLink", "setPassword"} -> {"reset"}
      [] l = "findSelf" -> {"profile"}
      [] l \in {"selectUser", "updateUser"} -> {"forgot", "reset", "profile"}

Statements == {"tenant", "subscription", "count", "findUser", "insertOrganization", "insertTrial",
               "signIn", "createAccount", "insertUser", "findInvitee", "findAssignment", "assign",
               "findMember", "selectMember", "updateMember", "insertMember", "deleteMember",
               "insertStore", "insertManager", "findStore", "saveStore", "deleteStore",
               "insertProduct", "findProduct", "saveProduct", "findEmail", "findLink",
               "setPassword", "findSelf", "selectUser", "updateUser"}
MemberStatements == {"selectMember", "updateMember", "insertMember", "deleteMember"}

JobRow == [at : Statements \cup {"idle"}, req : Requests \cup {[kind |-> "none"]},
           seen : MemberRow, owner : Emails \cup {NoOne}, store : Stores,
           who : Emails \cup {NoOne}, ent : UserRow \cup BOOLEAN,
           cols : SUBSET {"role", "rights", "row"}]

\* What the handler knows of its own variables.
JobSound(j) ==
    /\ j.at # "idle" => j.req \in Requests /\ j.req.kind \in Reach(j.at)
    /\ j.at \in {"setPassword", "selectUser", "updateUser"} => j.who \in Emails /\ j.ent \in UserRow
    /\ j.at \in MemberStatements => j.seen.role # "none"
    /\ j.at \in {"insertStore", "insertManager"} /\ j.req.kind = "register" => j.owner = j.req.who
    /\ j.at = "saveStore" => j.owner \in Emails
    /\ j.at = "saveProduct" => j.ent \in BOOLEAN

Busy == {w \in Workers : ~Running(w, "idle")}

Typed == /\ TypeOK
         /\ job \in [Workers -> JobRow]
         /\ \A w \in Workers : JobSound(job[w])
         /\ \A w \in Workers : job[w].at \in {"saveStore", "deleteStore"}
              => store[job[w].req.at].state # "none"
         /\ Cardinality(Busy) <= crowd
-----------------------------------------------------------------------------
(* What the tables and the handlers guarantee together.                    *)

OnStaff(e, s) == member[e][s].role # "none"
Placed(e)     == \E s \in Stores : OnStaff(e, s) \/ <<e, s>> \in dismissed

\* A registration or an invitation that made its account and is not over yet.
Creating(j) == \/ j.at \in {"insertUser", "insertOrganization", "insertTrial", "signIn"}
               \/ j.at \in {"insertStore", "insertManager"} /\ j.req.kind = "register"

\* People: an account is made once, and what its maker has done stays done.
MakerKnows(j) == Creating(j) =>
    /\ j.req.who \in accounts /\ <<"register", j.req.who>> \notin welcomed
    /\ j.at # "insertUser" => user[j.req.who].made
    /\ j.at \in {"insertTrial", "signIn"} => Placed(j.req.who)
    /\ j.at = "signIn" => org[j.req.who] \in {"live", "lapsed"}
InviterKnows(j) == j.at \in {"findAssignment", "assign"} => user[j.req.who].made

People ==
    /\ \A e \in Emails : user[e].made => e \in accounts
    /\ \A x \in welcomed : /\ x[2] \in accounts /\ user[x[2]].made /\ Placed(x[2])
                           /\ x[1] = "register" => org[x[2]] \in {"live", "lapsed"}
    /\ \A w \in Workers : MakerKnows(job[w]) /\ InviterKnows(job[w])
    /\ \A v, w \in Workers : v # w /\ Creating(job[v]) /\ Creating(job[w])
                               => job[v].req.who # job[w].req.who

\* Stores: nobody has anything to do with a store before its first admin.
Inside(j) == j.at \notin {"idle", "tenant"} /\ j.req.kind \notin Public \cup Self
Untouched(s) ==
    /\ s \notin closed
    /\ \A e \in Emails : ~OnStaff(e, s) /\ <<e, s>> \notin dismissed
    /\ \A w \in Workers : Inside(job[w]) => job[w].req.at # s
Opened ==
    /\ \A s \in Stores : store[s].state = "none" => Untouched(s)
    /\ \A s \in Stores : store[s].state = "gone" => s \in closed
    /\ \A e \in Emails, s \in Stores : OnStaff(e, s) => store[s].state = "open"
    /\ store[First].state # "none"
    /\ \A w \in Workers : job[w].at = "insertManager" =>
         /\ store[job[w].store].state = "open" /\ Untouched(job[w].store)
         /\ \A v \in Workers \ {w} : job[v].at = "insertManager" => job[v].store # job[w].store

\* While nothing failed, somebody is at work on whatever is missing.
For(e, l) == \E w \in Workers : job[w].at \in l /\ job[w].req.kind \in {"register", "invite"}
                                /\ job[w].req.who = e
Registering(e, l) == \E w \in Workers : job[w].at \in l /\ job[w].req.kind = "register"
                                /\ job[w].req.who = e
InHand == ~cut /\ closed = {} =>
    /\ \A e \in accounts :
         /\ user[e].made \/ For(e, {"insertUser"})
         /\ user[e].made => \/ Placed(e) \/ For(e, {"assign"})
                            \/ Registering(e, {"insertOrganization", "insertStore", "insertManager"})
    /\ \A e \in Emails : org[e] = "bare" =>
         Registering(e, {"insertStore", "insertManager", "insertTrial"})

\* One request at a time reads what is still so when it writes.
Alone(j) ==
    /\ j.at \in MemberStatements => j.at # "insertMember" /\ RowStays(j)
    /\ j.at = "saveStore" => store[j.req.at].state = "open"
Removed == crowd <= 1 => /\ RemovedStaysAway
                         /\ \A w \in Workers : Alone(job[w])

\* A link is in the row of one user until the reset that uses it is over.
Clearing(e, l) == \E w \in Workers : /\ job[w].at \in {"selectUser", "updateUser"}
                                     /\ job[w].req.kind = "reset"
                                     /\ job[w].who = e /\ job[w].req.link = l
SaverKnows(j) ==
    /\ j.at = "setPassword" => user[j.who].link = j.req.link
                               /\ spent[j.req.link] = 0
    /\ j.at \in {"selectUser", "updateUser"} =>
         CASE j.req.kind = "reset"   -> j.ent.link = NoLink /\ user[j.who].link = j.req.link
           [] j.req.kind = "forgot"  -> /\ j.ent.link = links /\ links \in Links /\ spent[links] = 0
                                        /\ \A e \in Emails : user[e].link # links
           [] j.req.kind = "profile" -> j.ent.link = user[j.who].link
LinksSound == crowd <= 1 /\ ~cut =>
    /\ \A l \in Links : spent[l] <= 1 /\ (spent[l] > 0 => l <= links)
    /\ \A e \in Emails : user[e].link <= links
    /\ \A e, f \in Emails : user[e].link = user[f].link /\ user[e].link # NoLink => e = f
    /\ \A w \in Workers : SaverKnows(job[w])
    /\ \A e \in Emails, l \in Links : user[e].link = l /\ spent[l] > 0 => Clearing(e, l)

-----------------------------------------------------------------------------
(* Types                                                                   *)

\* There is a first store.
LEMMA FirstStore == First \in Stores
  BY TenantAssumption, FS_CardinalityType DEF First

\* What the forms of the requests contain.
LEMMA Forms ==
    ASSUME NEW r \in Requests
    PROVE  /\ r.kind \in Kinds /\ r.by \in Emails /\ r.at \in Stores
           /\ r.kind \in {"register", "forgot", "dismiss", "invite", "changeRole", "setRights"}
                => r.who \in Emails
           /\ r.kind \in {"invite", "changeRole"} => r.role \in {"admin", "cashier"}
           /\ r.kind = "setRights" => r.rights \in {"none", "default", "all"}
           /\ r.kind \in {"createProduct", "editProduct", "removeProduct"} => r.at = First
           /\ r.kind \in {"editProduct", "removeProduct"} => r.slot \in Slots
           /\ r.kind = "reset" => r.link \in Links
  BY FirstStore, RequestsAssumption DEF RequestForm, Kinds

\* A worker without a request runs no statement.
LEMMA IdleAt == Idle.at = "idle"
  BY DEF Idle

\* A handler that is over keeps nothing.
LEMMA Retired == Idle \in JobRow /\ JobSound(Idle) /\ Idle.at = "idle" /\ Idle.owner = NoOne
                 /\ Idle.req.kind = "none"
  BY FirstStore DEF Idle, JobRow, JobSound, NoMember, MemberRow, UserRow, Nobody, NoLink, Statements,
              MemberStatements, Links

\* One handler goes on, the others stay where they are.
Moves(w) == /\ job' = [job EXCEPT ![w] = job'[w]]
            /\ job'[w] \in JobRow /\ JobSound(job'[w])
            /\ job[w].at # "idle"

\* When one handler moves, the others and their variables stay sound.
LEMMA Onward ==
    ASSUME Typed, NEW w \in Workers, Moves(w), crowd' = crowd
    PROVE  /\ job' \in [Workers -> JobRow] /\ \A v \in Workers : JobSound(job'[v])
           /\ Cardinality(Busy') <= crowd'
           /\ \A v \in Workers \ {w} : job'[v] = job[v]
<1>1. job' \in [Workers -> JobRow] /\ \A v \in Workers \ {w} : job'[v] = job[v]
  BY DEF Moves, Typed
<1>2. \A v \in Workers : JobSound(job'[v])
  BY <1>1 DEF Typed, Moves
<1>3. Busy' \in SUBSET Busy /\ IsFiniteSet(Busy) /\ Cardinality(Busy) \in Nat
  <2>1. Busy \in SUBSET Workers /\ IsFiniteSet(Workers)
    BY TenantAssumption DEF Busy
  <2>2. IsFiniteSet(Busy)
    BY <2>1, FS_Subset
  <2>3. Busy' \in SUBSET Busy
    BY <1>1 DEF Busy, Running, Moves
  <2> QED
    BY <2>2, <2>3, FS_CardinalityType
<1>4. Cardinality(Busy') <= Cardinality(Busy) /\ Cardinality(Busy') \in Nat
  BY <1>3, FS_Subset, FS_CardinalityType
<1>5. crowd \in Nat
  BY TenantAssumption, FS_CardinalityType DEF Typed, TypeOK
<1> QED
  BY <1>1, <1>2, <1>3, <1>4, <1>5 DEF Typed

\* The handler goes on to a statement it may reach.
LEMMA Goes ==
    ASSUME Typed, NEW w \in Workers, job[w].at # "idle", NEW k, k \in JobRow, JobSound(k),
           job' = [job EXCEPT ![w] = k]
    PROVE  Moves(w)
  BY DEF Typed, Moves

\* A handler that answers is over.
LEMMA Finishes ==
    ASSUME Typed, NEW w \in Workers, job[w].at # "idle", Finish(w)
    PROVE  Moves(w)
  BY Goes, Retired DEF Finish

\* Every statement leaves the handler at one it may reach, or done.
LEMMA StepMoves ==
    ASSUME Typed, NEW w \in Workers, Step(w)
    PROVE  Moves(w) /\ UNCHANGED outside
<1> DEFINE j == job[w]
<1>0. /\ job \in [Workers -> JobRow] /\ j \in JobRow /\ JobSound(j)
      /\ j.at # "idle" => j.req \in Requests
  BY DEF Typed, JobSound
<1>1. CASE TenantGuard(w)
  <2>1. /\ j.at = "tenant" /\ j.req.kind \in Kinds \ (Public \cup Self) /\ UNCHANGED outside
        /\ member[j.req.by][j.req.at] \in MemberRow
    BY <1>0, <1>1, Forms DEF TenantGuard, Running, Refuse, Reads, JobSound, Reach, Typed, TypeOK
  <2>2. CASE member[j.req.by][j.req.at].role = "none"
    BY <2>1, <2>2, <1>1, Finishes DEF TenantGuard, Refuse
  <2>3. CASE member[j.req.by][j.req.at].role # "none"
    <3> DEFINE k == [j EXCEPT !.seen = member[j.req.by][j.req.at], !.at = "subscription"]
    <3>1. k \in JobRow /\ k.at = "subscription" /\ k.req = j.req
      BY <1>0, <2>1 DEF JobRow, Statements
    <3>2. JobSound(k)
      BY <1>0, <2>1, <3>1 DEF JobSound, Reach, MemberStatements
    <3>3. job' = [job EXCEPT ![w] = k]
      BY <1>0, <1>1, <2>3 DEF TenantGuard, Reads, Continue, JobRow
    <3> QED
      BY <2>1, <3>1, <3>2, <3>3, Goes
  <2> QED
    BY <2>2, <2>3
<1>2. CASE SubscriptionGuard(w)
  <2>1. /\ j.at = "subscription" /\ j.req.kind \in Kinds \ (Public \cup Self) /\ UNCHANGED outside
        /\ store[j.req.at] \in StoreRow
    BY <1>0, <1>2, Forms DEF SubscriptionGuard, Running, Refuse, Reads, JobSound, Reach, Typed, TypeOK
  <2>2. CASE (store[j.req.at].state = "open" /\ org[store[j.req.at].owner] # "live") \/
               ~AdminOnly(j.seen)
    BY <2>1, <2>2, <1>2, Finishes DEF SubscriptionGuard, Refuse
  <2>3. CASE ~((store[j.req.at].state = "open" /\ org[store[j.req.at].owner] # "live") \/
               ~AdminOnly(j.seen))
    <3> DEFINE l == IF j.req.kind \in Counted THEN "count" ELSE Entry(j.req.kind)
               k == [j EXCEPT !.owner = IF store[j.req.at].state = "open"
                                        THEN store[j.req.at].owner ELSE NoOne, !.at = l]
    <3>1. l \in Statements \ {"idle"} /\ j.req.kind \in Reach(l) /\ (l \in {"insertStore",
            "insertManager"} => j.req.kind = "createStore")
          /\ l \notin MemberStatements \cup {"setPassword", "selectUser", "updateUser",
               "saveStore", "saveProduct"}
      BY <2>1 DEF Statements, Reach, Entry, Counted, Kinds, Public, Self, MemberStatements
    <3>0. (IF store[j.req.at].state = "open" THEN store[j.req.at].owner ELSE NoOne) \in Emails \cup {NoOne}
      BY <2>1 DEF StoreRow, NoStore
    <3>2. k \in JobRow /\ k.at = l /\ k.req = j.req
      BY <1>0, <3>0, <3>1 DEF JobRow
    <3>3. JobSound(k)
      BY <1>0, <2>1, <3>1, <3>2 DEF JobSound
    <3>4. job' = [job EXCEPT ![w] = k]
      BY <1>0, <1>2, <2>3 DEF SubscriptionGuard, Reads, Continue, JobRow
    <3> QED
      BY <2>1, <3>2, <3>3, <3>4, Goes
  <2> QED
    BY <2>1, <2>2, <2>3
<1>3. CASE UsageLimitGuard(w)
  BY <1>0, <1>3, Retired, Forms DEF UsageLimitGuard, Running, Continue, Reads, Finish, Refuse,
     Moves, JobSound, Statements,
     MemberStatements, JobRow, Reach, Entry, Counted
<1>4. CASE FindUser(w)
  BY <1>0, <1>4, Retired, Forms DEF FindUser, Running, Continue, Reads, Finish, Refuse, Moves,
     JobSound, Statements,
     MemberStatements, JobRow, Reach
<1>5. CASE CreateAccount(w)
  BY <1>0, <1>5, Retired, Forms DEF CreateAccount, Running, Continue, Reads, Finish, Refuse, Moves,
     JobSound, Statements,
     MemberStatements, JobRow, Reach
<1>6. CASE InsertUser(w)
  BY <1>0, <1>6, Retired, Forms DEF InsertUser, Running, Continue, Reads, Finish, Refuse, Moves,
     JobSound, Statements,
     MemberStatements, JobRow, Reach
<1>7. CASE InsertOrganization(w)
  <2>1. /\ j.at = "insertOrganization" /\ j.req.kind \in {"register"} /\ UNCHANGED outside
        /\ Newcomer(j) = j.req.who /\ j.req.who \in Emails
    BY <1>0, <1>7, Forms DEF InsertOrganization, Running, Refuse, Reads, JobSound, Reach, Typed,
       TypeOK, Newcomer
  <2> DEFINE k == [j EXCEPT !.owner = Newcomer(j), !.at = "insertStore"]
  <2>2. k \in JobRow /\ k.at = "insertStore" /\ k.req = j.req
    BY <1>0, <2>1 DEF JobRow, Statements
  <2>3. JobSound(k)
    BY <1>0, <2>1, <2>2 DEF JobSound, Reach, MemberStatements, JobRow
  <2>4. job' = [job EXCEPT ![w] = k]
    BY <1>0, <1>7, <2>1 DEF InsertOrganization, Reads, Continue, JobRow
  <2> QED
    BY <2>1, <2>2, <2>3, <2>4, Goes
<1>8. CASE InsertTrial(w)
  BY <1>0, <1>8, Retired, Forms DEF InsertTrial, Running, Continue, Reads, Finish, Refuse, Moves,
     JobSound, Statements,
     MemberStatements, JobRow, Reach
<1>9. CASE SignIn(w)
  BY <1>0, <1>9, Retired, Forms DEF SignIn, Running, Continue, Reads, Finish, Refuse, Moves,
     JobSound, Statements,
     MemberStatements, JobRow, Reach
<1>10. CASE FindEmail(w)
  <2>1. /\ j.at = "findEmail" /\ j.req.kind \in {"forgot"} /\ UNCHANGED outside
        /\ j.req.who \in Emails /\ user[j.req.who] \in UserRow
        /\ links \in 0 .. MaxLinks
    BY <1>0, <1>10, Forms DEF FindEmail, Running, Refuse, Reads, JobSound, Reach, Typed, TypeOK
  <2>2. CASE ~user[j.req.who].made \/ links = MaxLinks
    BY <2>1, <2>2, <1>10, Finishes DEF FindEmail, Refuse
  <2>3. CASE ~(~user[j.req.who].made \/ links = MaxLinks)
    <3>0. [user[j.req.who] EXCEPT !.link = links + 1] \in UserRow
      <4>1. links + 1 \in Links
        BY <2>1, <2>3, TenantAssumption DEF Links
      <4> QED
        BY <2>1, <4>1 DEF UserRow
    <3> DEFINE k == [j EXCEPT !.who = j.req.who, !.ent = [user[j.req.who]
                 EXCEPT !.link = links + 1], !.at = "selectUser"]
    <3>1. k \in JobRow /\ k.at = "selectUser" /\ k.req = j.req
          /\ k.who = j.req.who /\ k.ent \in UserRow
      BY <1>0, <2>1, <2>3, <3>0 DEF JobRow, Statements
    <3>2. JobSound(k)
      BY <1>0, <2>1, <2>3, <3>0, <3>1 DEF JobSound, Reach, MemberStatements
    <3>3. job' = [job EXCEPT ![w] = k]
      BY <1>0, <1>10, <2>1, <2>3, <3>0 DEF FindEmail, Reads, Continue, JobRow
    <3> QED
      BY <2>1, <3>1, <3>2, <3>3, Goes
  <2> QED
    BY <2>2, <2>3
<1>11. CASE FindSelf(w)
  <2>1. /\ j.at = "findSelf" /\ j.req.kind \in {"profile"} /\ UNCHANGED outside
        /\ j.req.by \in Emails /\ user[j.req.by] \in UserRow
    BY <1>0, <1>11, Forms DEF FindSelf, Running, Refuse, Reads, JobSound, Reach, Typed, TypeOK
  <2> DEFINE k == [j EXCEPT !.who = j.req.by, !.ent = user[j.req.by], !.at = "selectUser"]
  <2>2. k \in JobRow /\ k.at = "selectUser" /\ k.req = j.req
         /\ k.who = j.req.by /\ k.ent \in UserRow
    BY <1>0, <2>1 DEF JobRow, Statements
  <2>3. JobSound(k)
    BY <1>0, <2>1, <2>2 DEF JobSound, Reach, MemberStatements
  <2>4. job' = [job EXCEPT ![w] = k]
    BY <1>0, <1>11, <2>1 DEF FindSelf, Reads, Continue, JobRow
  <2> QED
    BY <2>1, <2>2, <2>3, <2>4, Goes
<1>12. CASE FindLink(w)
  <2>1. /\ j.at = "findLink" /\ j.req.kind \in {"reset"} /\ UNCHANGED outside
        /\ \A e \in Emails : user[e] \in UserRow
    BY <1>0, <1>12, Forms DEF FindLink, Running, Refuse, Reads, JobSound, Reach, Typed, TypeOK
  <2>2. CASE {e \in Emails : user[e].link = j.req.link} = {} \/ j.req.link \in expired
    BY <2>1, <2>2, <1>12, Finishes DEF FindLink, Refuse
  <2>3. CASE ~({e \in Emails : user[e].link = j.req.link} = {} \/ j.req.link \in expired)
    <3>0. PICK e \in Emails : job' = [job EXCEPT ![w] = [[j EXCEPT !.who = e,
                 !.ent = user[e]] EXCEPT !.at = "setPassword"]]
      BY <2>1, <2>3, <1>12 DEF FindLink, Reads, Continue
    <3> DEFINE k == [j EXCEPT !.who = e, !.ent = user[e], !.at = "setPassword"]
    <3>1. k \in JobRow /\ k.at = "setPassword" /\ k.req = j.req
          /\ k.who = e /\ k.ent = user[e]
      BY <1>0, <2>1, <3>0 DEF JobRow, Statements
    <3>2. JobSound(k)
      BY <1>0, <2>1, <3>0, <3>1 DEF JobSound, Reach, MemberStatements
    <3>3. job' = [job EXCEPT ![w] = k]
      BY <1>0, <1>12, <2>1, <3>0 DEF FindLink, Reads, Continue, JobRow
    <3> QED
      BY <2>1, <3>1, <3>2, <3>3, Goes
  <2> QED
    BY <2>2, <2>3
<1>13. CASE SetPassword(w)
  <2>1. /\ j.at = "setPassword" /\ j.req.kind \in {"reset"} /\ UNCHANGED outside
        /\ j.who \in Emails /\ j.ent \in UserRow
        /\ job' = [job EXCEPT ![w] = [[j EXCEPT !.ent.link = NoLink] EXCEPT !.at = "selectUser"]]
    BY <1>0, <1>13, Forms DEF SetPassword, Running, Refuse, Reads, JobSound, Reach, Typed, TypeOK,
       Continue
  <2>2. [j.ent EXCEPT !.link = NoLink] \in UserRow
    BY <2>1 DEF UserRow
  <2> DEFINE k == [j EXCEPT !.ent = [j.ent EXCEPT !.link = NoLink], !.at = "selectUser"]
  <2>3. k \in JobRow /\ k.at = "selectUser" /\ k.req = j.req /\ k.who = j.who /\ k.ent \in UserRow
    BY <1>0, <2>1, <2>2 DEF JobRow, Statements
  <2>4. JobSound(k)
    BY <1>0, <2>1, <2>3 DEF JobSound, Reach, MemberStatements
  <2>5. job' = [job EXCEPT ![w] = k]
    BY <1>0, <2>1 DEF JobRow
  <2> QED
    BY <2>1, <2>3, <2>4, <2>5, Goes
<1>14. CASE SelectUser(w)
  BY <1>0, <1>14, Retired, Forms DEF SelectUser, Running, Continue, Reads, Finish, Refuse, Moves,
     JobSound, Statements,
     MemberStatements, JobRow, Reach
<1>15. CASE UpdateUser(w)
  BY <1>0, <1>15, Retired, Forms DEF UpdateUser, Running, Continue, Reads, Finish, Refuse, Moves,
     JobSound, Statements,
     MemberStatements, JobRow, Reach
<1>16. CASE FindInvitee(w)
  BY <1>0, <1>16, Retired, Forms DEF FindInvitee, Running, Continue, Reads, Finish, Refuse, Moves,
     JobSound, Statements,
     MemberStatements, JobRow, Reach
<1>17. CASE FindAssignment(w)
  BY <1>0, <1>17, Retired, Forms DEF FindAssignment, Running, Continue, Reads, Finish, Refuse,
     Moves, JobSound, Statements,
     MemberStatements, JobRow, Reach
<1>18. CASE Assign(w)
  BY <1>0, <1>18, Retired, Forms DEF Assign, Running, Continue, Reads, Finish, Refuse, Moves,
     JobSound, Statements,
     MemberStatements, JobRow, Reach
<1>19. CASE FindMember(w)
  <2>0. j.at = "findMember" /\ j.req.kind \in {"changeRole", "setRights", "dismiss"}
    BY <1>0, <1>19 DEF FindMember, Running, JobSound, Reach
  <2>1. /\ j.at = "findMember" /\ j.req.kind \in {"changeRole", "setRights", "dismiss"}
        /\ member[j.req.who][j.req.at] \in MemberRow
        /\ j.req.kind = "changeRole" => j.req.role \in {"admin", "cashier"}
        /\ j.req.kind = "setRights" => j.req.rights \in {"none", "default", "all"}
    BY <1>0, <2>0, Forms DEF Typed, TypeOK
  <2>6. UNCHANGED outside
    BY <1>19, <2>0 DEF FindMember, Refuse, Reads
  <2>2. CASE member[j.req.who][j.req.at].role = "none" \/ (j.req.kind = "setRights" /\
               member[j.req.who][j.req.at].role = "admin")
    BY <2>1, <2>6, <2>2, <1>19, Finishes DEF FindMember, Refuse
  <2>3. CASE ~(member[j.req.who][j.req.at].role = "none" \/ (j.req.kind = "setRights" /\
               member[j.req.who][j.req.at].role = "admin")) /\ j.req.kind = "changeRole"
    <3>0. WithRole(member[j.req.who][j.req.at], j.req.role) \in MemberRow /\
            WithRole(member[j.req.who][j.req.at], j.req.role).role # "none"
      BY <2>1, <2>3 DEF MemberRow, WithRole
    <3> DEFINE k == [j EXCEPT !.seen = WithRole(member[j.req.who][j.req.at], j.req.role),
                 !.at = "selectMember"]
    <3>1. k \in JobRow /\ k.at = "selectMember" /\ k.req = j.req /\ k.seen.role # "none"
      BY <1>0, <2>1, <2>3, <3>0 DEF JobRow, Statements
    <3>2. JobSound(k)
      BY <1>0, <2>1, <2>3, <3>0, <3>1 DEF JobSound, Reach, MemberStatements, JobRow
    <3>3. job' = [job EXCEPT ![w] = k]
      BY <1>0, <1>19, <2>1, <2>3, <3>0 DEF FindMember, Reads, Continue, JobRow
    <3> QED
      BY <2>1, <2>6, <3>1, <3>2, <3>3, Goes
  <2>4. CASE ~(member[j.req.who][j.req.at].role = "none" \/ (j.req.kind = "setRights" /\
               member[j.req.who][j.req.at].role = "admin")) /\ j.req.kind = "setRights"
    <3>0. [role |-> member[j.req.who][j.req.at].role, rights |-> j.req.rights,
            row |-> member[j.req.who][j.req.at].row] \in MemberRow /\
              [role |-> member[j.req.who][j.req.at].role, rights |-> j.req.rights,
                row |-> member[j.req.who][j.req.at].row].role # "none"
      BY <2>1, <2>4 DEF MemberRow, WithRole
    <3> DEFINE k == [j EXCEPT !.seen.role = member[j.req.who][j.req.at].role,
                 !.seen.rights = j.req.rights,
                              !.seen.row = member[j.req.who][j.req.at].row, !.at = "selectMember"]
    <3>1. k \in JobRow /\ k.at = "selectMember" /\ k.req = j.req /\ k.seen.role # "none"
      BY <1>0, <2>1, <2>4, <3>0 DEF JobRow, Statements, MemberRow
    <3>2. JobSound(k)
      BY <1>0, <2>1, <2>4, <3>0, <3>1 DEF JobSound, Reach, MemberStatements, JobRow
    <3>3. job' = [job EXCEPT ![w] = k]
      BY <1>0, <1>19, <2>1, <2>4, <3>0 DEF FindMember, Reads, Continue, JobRow
    <3> QED
      BY <2>1, <2>6, <3>1, <3>2, <3>3, Goes
  <2>5. CASE ~(member[j.req.who][j.req.at].role = "none" \/ (j.req.kind = "setRights" /\
               member[j.req.who][j.req.at].role = "admin")) /\ j.req.kind = "dismiss"
    <3>0. member[j.req.who][j.req.at] \in MemberRow /\ member[j.req.who][j.req.at].role # "none"
      BY <2>1, <2>5 DEF MemberRow, WithRole
    <3> DEFINE k == [j EXCEPT !.seen = member[j.req.who][j.req.at], !.at = "deleteMember"]
    <3>1. k \in JobRow /\ k.at = "deleteMember" /\ k.req = j.req /\ k.seen.role # "none"
      BY <1>0, <2>1, <2>5, <3>0 DEF JobRow, Statements
    <3>2. JobSound(k)
      BY <1>0, <2>1, <2>5, <3>0, <3>1 DEF JobSound, Reach, MemberStatements, JobRow
    <3>3. job' = [job EXCEPT ![w] = k]
      BY <1>0, <1>19, <2>1, <2>5, <3>0 DEF FindMember, Reads, Continue, JobRow
    <3> QED
      BY <2>1, <2>6, <3>1, <3>2, <3>3, Goes
  <2> QED
    BY <2>1, <2>2, <2>3, <2>4, <2>5
<1>20. CASE SelectMember(w)
  <2>0. j.at = "selectMember" /\ UNCHANGED outside
    BY <1>20 DEF SelectMember, Running, Refuse, Reads
  <2>1. /\ j.at = "selectMember" /\ j.req.kind \in {"changeRole", "setRights"} /\ UNCHANGED outside
        /\ j.seen.role # "none" /\ member[j.req.who][j.req.at] \in MemberRow
    BY <1>0, <2>0, Forms DEF JobSound, Reach, MemberStatements, Typed, TypeOK
  <2>2. CASE ~RowStays(j)
    BY <1>0, <1>20, <2>1, <2>2 DEF SelectMember, Reads, Continue, Moves, JobRow, JobSound, Reach,
       Statements, MemberStatements
  <2>3. CASE RowStays(j) /\ Changed(j.seen, member[j.req.who][j.req.at]) = {}
    BY <2>1, <2>3, <1>20, Finishes DEF SelectMember, Refuse
  <2>4. CASE RowStays(j) /\ Changed(j.seen, member[j.req.who][j.req.at]) # {}
    <3> DEFINE k == [j EXCEPT !.cols = Changed(j.seen, member[j.req.who][j.req.at]),
                 !.at = "updateMember"]
    <3>0. Changed(j.seen, member[j.req.who][j.req.at]) \in SUBSET {"role", "rights", "row"}
      BY <2>1 DEF Changed, MemberRow
    <3>1. k \in JobRow /\ k.at = "updateMember" /\ k.req = j.req /\ k.seen = j.seen
      BY <1>0, <2>1, <2>4, <3>0 DEF JobRow, Statements
    <3>2. JobSound(k)
      BY <1>0, <2>1, <2>4, <3>1 DEF JobSound, Reach, MemberStatements, JobRow
    <3>3. job' = [job EXCEPT ![w] = k]
      BY <1>0, <1>20, <2>1, <2>4 DEF SelectMember, Reads, Continue, JobRow
    <3> QED
      BY <2>1, <3>1, <3>2, <3>3, Goes
  <2> QED
    BY <2>2, <2>3, <2>4
<1>21. CASE UpdateMember(w)
  BY <1>0, <1>21, Retired, Forms DEF UpdateMember, Running, Continue, Reads, Finish, Refuse, Moves,
     JobSound, Statements,
     MemberStatements, JobRow, Reach
<1>22. CASE InsertMember(w)
  BY <1>0, <1>22, Retired, Forms DEF InsertMember, Running, Continue, Reads, Finish, Refuse, Moves,
     JobSound, Statements,
     MemberStatements, JobRow, Reach
<1>23. CASE DeleteMember(w)
  BY <1>0, <1>23, Retired, Forms DEF DeleteMember, Running, Continue, Reads, Finish, Refuse, Moves,
     JobSound, Statements,
     MemberStatements, JobRow, Reach
<1>24. CASE InsertStore(w)
  <2>1. /\ j.at = "insertStore" /\ j.req.kind \in {"register", "createStore"}
        /\ j.req.kind = "register" => j.owner = j.req.who
    BY <1>0, <1>24, Forms DEF InsertStore, Running, Refuse, Reads, JobSound, Reach, Typed, TypeOK
  <2>4. UNCHANGED outside
    BY <1>24 DEF InsertStore, Refuse
  <2>2. CASE j.owner = NoOne
    BY <2>1, <2>4, <2>2, <1>24, Finishes DEF InsertStore, Refuse
  <2>3. CASE j.owner # NoOne
    <3>0. PICK s \in Stores : job' = [job EXCEPT ![w] = [[j EXCEPT !.store = s]
                 EXCEPT !.at = "insertManager"]]
      BY <2>3, <1>24 DEF InsertStore, Continue
    <3> DEFINE k == [j EXCEPT !.store = s, !.at = "insertManager"]
    <3>1. k \in JobRow /\ k.at = "insertManager" /\ k.req = j.req /\ k.owner = j.owner
      BY <1>0, <2>1, <3>0 DEF JobRow, Statements
    <3>2. JobSound(k)
      BY <1>0, <2>1, <3>0, <3>1 DEF JobSound, Reach, MemberStatements
    <3>3. job' = [job EXCEPT ![w] = k]
      BY <1>0, <2>1, <3>0 DEF JobRow
    <3> QED
      BY <2>1, <2>4, <3>1, <3>2, <3>3, Goes
  <2> QED
    BY <2>2, <2>3
<1>25. CASE InsertManager(w)
  BY <1>0, <1>25, Retired, Forms DEF InsertManager, Running, Continue, Reads, Finish, Refuse,
     Moves, JobSound, Statements,
     MemberStatements, JobRow, Reach
<1>26. CASE FindStore(w)
  <2>1. /\ j.at = "findStore" /\ j.req.kind \in {"editStore", "removeStore"} /\ UNCHANGED outside
        /\ j.req.at \in Stores /\ store[j.req.at] \in StoreRow
    BY <1>0, <1>26, Forms DEF FindStore, Running, Refuse, Reads, JobSound, Reach, Typed, TypeOK
  <2>2. CASE store[j.req.at].state # "open"
    BY <2>1, <2>2, <1>26, Finishes DEF FindStore, Refuse
  <2>3. CASE store[j.req.at].state = "open"
    <3>0. store[j.req.at].owner \in Emails
      BY <2>1, <2>3 DEF StoreRow, NoStore
    <3> DEFINE l == IF j.req.kind = "removeStore" THEN "deleteStore" ELSE "saveStore"
               k == [j EXCEPT !.owner = store[j.req.at].owner, !.at = l]
    <3>1. k \in JobRow /\ k.at = l /\ k.req = j.req /\ k.owner \in Emails
      BY <1>0, <2>1, <3>0 DEF JobRow, Statements
    <3>2. JobSound(k)
      BY <1>0, <2>1, <3>1 DEF JobSound, Reach, MemberStatements
    <3>3. job' = [job EXCEPT ![w] = k]
      BY <1>0, <1>26, <2>1, <2>3 DEF FindStore, Reads, Continue, JobRow
    <3> QED
      BY <2>1, <3>1, <3>2, <3>3, Goes
  <2> QED
    BY <2>2, <2>3
<1>27. CASE DeleteStore(w)
  BY <1>0, <1>27, Retired, Forms DEF DeleteStore, Running, Continue, Reads, Finish, Refuse, Moves,
     JobSound, Statements,
     MemberStatements, JobRow, Reach
<1>28. CASE SaveStore(w)
  BY <1>0, <1>28, Retired, Forms DEF SaveStore, Running, Continue, Reads, Finish, Refuse, Moves,
     JobSound, Statements,
     MemberStatements, JobRow, Reach
<1>29. CASE InsertProduct(w)
  BY <1>0, <1>29, Retired, Forms DEF InsertProduct, Running, Continue, Reads, Finish, Refuse,
     Moves, JobSound, Statements,
     MemberStatements, JobRow, Reach
<1>30. CASE FindProduct(w)
  <2>1. /\ j.at = "findProduct" /\ j.req.kind \in {"editProduct", "removeProduct"} /\ UNCHANGED outside
    BY <1>0, <1>30, Forms DEF FindProduct, Running, Refuse, Reads, JobSound, Reach, Typed, TypeOK
  <2>2. CASE shelf[j.req.slot] \in {"none", "gone"}
    BY <2>1, <2>2, <1>30, Finishes DEF FindProduct, Refuse
  <2>3. CASE shelf[j.req.slot] \notin {"none", "gone"}
    <3> DEFINE k == [j EXCEPT !.ent = (shelf[j.req.slot] = "active" /\
                 j.req.kind = "editProduct"), !.at = "saveProduct"]
    <3>1. k \in JobRow /\ k.at = "saveProduct" /\ k.req = j.req /\ k.ent \in BOOLEAN
      BY <1>0, <2>1, <2>3 DEF JobRow, Statements
    <3>2. JobSound(k)
      BY <1>0, <2>1, <2>3, <3>1 DEF JobSound, Reach, MemberStatements
    <3>3. job' = [job EXCEPT ![w] = k]
      BY <1>0, <1>30, <2>1, <2>3 DEF FindProduct, Reads, Continue, JobRow
    <3> QED
      BY <2>1, <3>1, <3>2, <3>3, Goes
  <2> QED
    BY <2>2, <2>3
<1>31. CASE SaveProduct(w)
  BY <1>0, <1>31, Retired, Forms DEF SaveProduct, Running, Continue, Reads, Finish, Refuse, Moves,
     JobSound, Statements,
     MemberStatements, JobRow, Reach
<1> QED
  BY <1>1, <1>2, <1>3, <1>4, <1>5, <1>6, <1>7, <1>8, <1>9, <1>10, <1>11, <1>12, <1>13, <1>14,
     <1>15, <1>16, <1>17, <1>18, <1>19, <1>20, <1>21, <1>22, <1>23, <1>24, <1>25, <1>26, <1>27,
       <1>28, <1>29, <1>30, <1>31 DEF Step, Guards, Register, Passwords, Staff, Premises, NewAccount

\* What the statements write has the types of the tables.
LEMMA TablesTyped ==
    ASSUME Typed, NEW w \in Workers, Step(w)
    PROVE  TypeOK'
<1> DEFINE j == job[w]
<1>0. /\ j \in JobRow /\ JobSound(j) /\ TypeOK
      /\ j.at # "idle" => j.req \in Requests
  BY DEF Typed, JobSound
<1>32. ASSUME UNCHANGED <<tables, history, outside>> PROVE TypeOK'
  BY <1>0, <1>32 DEF TypeOK, tables, history, outside
<1>1. CASE TenantGuard(w)
  BY <1>1, <1>32 DEF TenantGuard, Refuse, Reads
<1>2. CASE SubscriptionGuard(w)
  BY <1>2, <1>32 DEF SubscriptionGuard, Refuse, Reads
<1>3. CASE UsageLimitGuard(w)
  BY <1>3, <1>32 DEF UsageLimitGuard, Refuse, Reads
<1>4. CASE FindUser(w)
  BY <1>4, <1>32 DEF FindUser, Refuse, Reads
<1>5. CASE FindSelf(w)
  BY <1>5, <1>32 DEF FindSelf, Refuse, Reads
<1>6. CASE FindLink(w)
  BY <1>6, <1>32 DEF FindLink, Refuse, Reads
<1>7. CASE SelectUser(w)
  BY <1>7, <1>32 DEF SelectUser, Refuse, Reads
<1>8. CASE FindInvitee(w)
  BY <1>8, <1>32 DEF FindInvitee, Refuse, Reads
<1>9. CASE FindAssignment(w)
  BY <1>9, <1>32 DEF FindAssignment, Refuse, Reads
<1>10. CASE FindMember(w)
  BY <1>0, <1>10, <1>32 DEF FindMember, Refuse, Reads, Running, JobSound, Reach
<1>11. CASE SelectMember(w)
  BY <1>0, <1>11, <1>32 DEF SelectMember, Refuse, Reads, Running, JobSound, Reach
<1>12. CASE FindStore(w)
  BY <1>12, <1>32 DEF FindStore, Refuse, Reads
<1>13. CASE FindProduct(w)
  BY <1>13, <1>32 DEF FindProduct, Refuse, Reads
<1>14. CASE CreateAccount(w)
  BY <1>0, <1>14, Forms DEF CreateAccount, Running, Refuse, Newcomer, JobSound, Reach, JobRow,
     TypeOK, tables,
     history, outside
<1>15. CASE InsertUser(w)
  <2>1. /\ UNCHANGED <<accounts, member, store, org, shelf, links, welcomed, dismissed, closed,
             spent, expired, served, crowd>>
        /\ j.req.who \in Emails
        /\ user' = [user EXCEPT ![j.req.who].made = TRUE]
    BY <1>0, <1>15, Forms DEF InsertUser, Running, Newcomer, JobSound, Reach, JobRow, TypeOK, tables,
       history, outside
  <2>2. user' \in [Emails -> UserRow]
    BY <1>0, <2>1 DEF TypeOK, UserRow
  <2> QED
    BY <1>0, <2>1, <2>2 DEF TypeOK
<1>16. CASE InsertOrganization(w)
  BY <1>0, <1>16, Forms DEF InsertOrganization, Running, Refuse, Newcomer, JobSound, Reach, JobRow,
     TypeOK, tables,
     history, outside
<1>17. CASE InsertTrial(w)
  BY <1>0, <1>17, Forms DEF InsertTrial, Running, Refuse, Newcomer, JobSound, Reach, JobRow,
     TypeOK, tables,
     history, outside
<1>18. CASE SignIn(w)
  BY <1>0, <1>18, Forms DEF SignIn, Running, Refuse, Newcomer, JobSound, Reach, JobRow, TypeOK, tables,
     history, outside
<1>19. CASE UpdateUser(w)
  <2>1. /\ UNCHANGED <<accounts, member, store, org, shelf, links, history, outside>>
        /\ j.who \in Emails /\ j.ent \in UserRow
        /\ user' = [user EXCEPT ![j.who] = Patched(user[j.who], j.ent, {"link"})]
    BY <1>0, <1>19 DEF UpdateUser, Running, JobSound
  <2>2. Patched(user[j.who], j.ent, {"link"}) \in UserRow
    BY <1>0, <2>1 DEF TypeOK, UserRow, Patched
  <2>3. user' \in [Emails -> UserRow]
    BY <1>0, <2>1, <2>2 DEF TypeOK
  <2> QED
    BY <1>0, <2>1, <2>3 DEF TypeOK, history, outside
<1>20. CASE FindEmail(w)
  <2>0. ASSUME ~user[j.req.who].made \/ links = MaxLinks PROVE TypeOK'
    BY <1>20, <1>32, <2>0 DEF FindEmail, Refuse
  <2>1. CASE ~(~user[j.req.who].made \/ links = MaxLinks)
    <3>1. /\ UNCHANGED <<accounts, user, member, store, org, shelf, welcomed, dismissed, closed,
               spent, expired, served, crowd>>
          /\ links' = links + 1
      BY <1>0, <1>20, <2>1, Forms DEF FindEmail, Running, Newcomer, JobSound, Reach, JobRow,
         TypeOK, tables,
         history, outside
    <3>2. links' \in 0 .. MaxLinks /\ expired' \subseteq 1 .. links'
      BY <1>0, <2>1, <3>1, TenantAssumption DEF TypeOK
    <3> QED
      BY <1>0, <3>1, <3>2 DEF TypeOK
  <2> QED
    BY <2>0, <2>1
<1>21. CASE SetPassword(w)
  BY <1>0, <1>21, Forms DEF SetPassword, Running, Refuse, Newcomer, JobSound, Reach, JobRow,
     TypeOK, tables,
     history, outside
<1>22. CASE Assign(w)
  <2>0. ASSUME member[j.req.who][j.req.at].role # "none" \/ store[j.req.at].state # "open" PROVE TypeOK'
    BY <1>22, <1>32, <2>0 DEF Assign, Refuse, Newcomer
  <2>1. CASE ~(member[j.req.who][j.req.at].role # "none" \/ store[j.req.at].state # "open")
    <3>1. /\ UNCHANGED <<accounts, user, store, org, shelf, links, closed, spent, expired,
               served, crowd>>
          /\ j.req.who \in Emails /\ j.req.at \in Stores /\ j.req.role \in {"admin", "cashier"}
          /\ member' = [member EXCEPT ![j.req.who][j.req.at] =
                        [role |-> j.req.role, rights |-> DefaultRights(j.req.role),
                        row |-> member[j.req.who][j.req.at].row + 1]]
          /\ welcomed' = welcomed \cup {<<"invite", j.req.who>>} /\ dismissed' \subseteq dismissed
      BY <1>0, <1>22, <2>1, Forms DEF Assign, Running, Newcomer, JobSound, Reach, JobRow, TypeOK,
         tables,
         history, outside
    <3>2. [role |-> j.req.role, rights |-> DefaultRights(j.req.role),
            row |-> member[j.req.who][j.req.at].row + 1] \in MemberRow
      BY <1>0, <2>1, <3>1 DEF TypeOK, MemberRow, DefaultRights
    <3>3. member' \in [Emails -> [Stores -> MemberRow]]
      BY <1>0, <2>1, <3>1, <3>2 DEF TypeOK
    <3>4. welcomed' \subseteq {"register", "invite"} \X Emails /\ dismissed' \subseteq Emails \X Stores
      BY <1>0, <3>1 DEF TypeOK
    <3> QED
      BY <1>0, <3>1, <3>3, <3>4 DEF TypeOK
  <2> QED
    BY <2>0, <2>1
<1>23. CASE UpdateMember(w)
  <2>0. j.at = "updateMember" /\ UNCHANGED <<accounts, user, store, org, shelf, links, welcomed,
          dismissed, closed, spent, expired, served, crowd>>
    BY <1>23 DEF UpdateMember, Running, history, outside
  <2>1. /\ UNCHANGED <<accounts, user, store, org, shelf, links, welcomed, dismissed, closed,
             spent, expired, served, crowd>>
        /\ j.req.who \in Emails /\ j.req.at \in Stores /\ j.seen \in MemberRow
        /\ member' = member \/ member' = [member
             EXCEPT ![j.req.who][j.req.at] = Patched(member[j.req.who][j.req.at], j.seen, j.cols)]
    <3>1. j.req \in Requests /\ j.req.kind \in {"changeRole", "setRights"}
      BY <1>0, <2>0 DEF JobSound, Reach
    <3>2. j.req.who \in Emails /\ j.req.at \in Stores /\ j.seen \in MemberRow
      BY <1>0, <3>1, Forms DEF JobRow
    <3>3. member' = member \/ member' = [member
            EXCEPT ![j.req.who][j.req.at] = Patched(member[j.req.who][j.req.at], j.seen, j.cols)]
      BY <1>23 DEF UpdateMember
    <3> QED
      BY <2>0, <3>2, <3>3
  <2>2. Patched(member[j.req.who][j.req.at], j.seen, j.cols) \in MemberRow
    <3>1. member[j.req.who][j.req.at] \in MemberRow
      BY <1>0, <2>1 DEF TypeOK
    <3> QED
      BY <2>1, <3>1 DEF MemberRow, Patched
  <2>3. member' \in [Emails -> [Stores -> MemberRow]]
    <3>1. member \in [Emails -> [Stores -> MemberRow]]
      BY <1>0 DEF TypeOK
    <3>2. CASE member' = member
      BY <3>1, <3>2
    <3> DEFINE row == Patched(member[j.req.who][j.req.at], j.seen, j.cols)
    <3>3. CASE member' = [member EXCEPT ![j.req.who][j.req.at] = row]
      <4> HIDE DEF row
      <4> QED
        BY <2>1, <2>2, <3>1, <3>3
    <3> QED
      BY <2>1, <3>2, <3>3
  <2> QED
    BY <1>0, <2>1, <2>2, <2>3 DEF TypeOK
<1>24. CASE InsertMember(w)
  BY <1>0, <1>24, Forms DEF InsertMember, Running, Refuse, Newcomer, JobSound, Reach, JobRow,
     TypeOK, tables,
     history, outside, MemberRow
<1>25. CASE DeleteMember(w)
  BY <1>0, <1>25, Forms DEF DeleteMember, Running, Refuse, Newcomer, JobSound, Reach, JobRow,
     TypeOK, tables,
     history, outside, MemberRow, NoMember
<1>26. CASE InsertStore(w)
  <2>0. ASSUME j.owner = NoOne PROVE TypeOK'
    BY <1>26, <1>32, <2>0 DEF InsertStore, Refuse
  <2>1. CASE ~(j.owner = NoOne)
    <3>1. /\ UNCHANGED <<accounts, user, member, org, shelf, links, welcomed, dismissed, closed,
               spent, expired, served, crowd>>
          /\ j.owner \in Emails
          /\ \E s \in Stores : store' = [store EXCEPT ![s] = [state |-> "open", owner |-> j.owner]]
      BY <1>0, <1>26, <2>1, Forms DEF InsertStore, Running, Newcomer, JobSound, Reach, JobRow,
         TypeOK, tables,
         history, outside
    <3>2. store' \in [Stores -> StoreRow]
      BY <1>0, <2>1, <3>1 DEF TypeOK, StoreRow
    <3> QED
      BY <1>0, <3>1, <3>2 DEF TypeOK
  <2> QED
    BY <2>0, <2>1
<1>27. CASE InsertManager(w)
  <2>0. ASSUME store[j.store].state # "open" PROVE TypeOK'
    BY <1>27, <1>32, <2>0 DEF InsertManager, Refuse
  <2>1. CASE ~(store[j.store].state # "open")
    <3>1. /\ UNCHANGED <<accounts, user, store, org, shelf, links, welcomed, dismissed, closed,
               spent, expired, served, crowd>>
          /\ j.store \in Stores
          /\ \E e \in Emails : member' = [member EXCEPT ![e][j.store] = [role |-> "admin",
               rights |-> "none", row |-> 1]]
      BY <1>0, <1>27, <2>1, Forms DEF InsertManager, Running, Newcomer, JobSound, Reach, JobRow,
         TypeOK, tables,
         history, outside
    <3>2. [role |-> "admin", rights |-> "none", row |-> 1] \in MemberRow
      BY <1>0, <2>1, <3>1 DEF TypeOK, MemberRow
    <3>3. member' \in [Emails -> [Stores -> MemberRow]]
      BY <1>0, <2>1, <3>1, <3>2 DEF TypeOK
    <3> QED
      BY <1>0, <3>1, <3>2, <3>3 DEF TypeOK
  <2> QED
    BY <2>0, <2>1
<1>28. CASE DeleteStore(w)
  <2>1. /\ UNCHANGED <<accounts, user, org, links, welcomed, spent, expired, served, crowd>>
        /\ j.req.at \in Stores
        /\ store' = [store EXCEPT ![j.req.at].state = "gone"]
        /\ store[j.req.at] \in StoreRow /\ store[j.req.at].state # "none"
        /\ member' = [e \in Emails |-> [member[e] EXCEPT ![j.req.at] = [NoMember
             EXCEPT !.row = member[e][j.req.at].row]]]
        /\ shelf' \in [Slots -> {"none", "active", "removed", "gone"}]
        /\ dismissed' \subseteq Emails \X Stores /\ closed' \subseteq Stores
    BY <1>0, <1>28, Forms DEF DeleteStore, Typed, Running, Newcomer, JobSound, Reach, JobRow,
       TypeOK, tables,
       history, outside
  <2>2. \A e \in Emails : [NoMember EXCEPT !.row = member[e][j.req.at].row] \in MemberRow
    BY <1>0, <2>1 DEF TypeOK, MemberRow, NoMember
  <2>3. member' \in [Emails -> [Stores -> MemberRow]]
    BY <1>0, <2>1, <2>2 DEF TypeOK
  <2>4. store' \in [Stores -> StoreRow]
    <3>1. store[j.req.at] \in [state : {"open", "gone"}, owner : Emails]
      BY <2>1 DEF StoreRow, NoStore
    <3>2. [store[j.req.at] EXCEPT !.state = "gone"] \in StoreRow
      BY <3>1 DEF StoreRow
    <3> QED
      BY <1>0, <2>1, <3>2 DEF TypeOK
  <2> QED
    BY <1>0, <2>1, <2>2, <2>3, <2>4 DEF TypeOK
<1>29. CASE SaveStore(w)
  BY <1>0, <1>29, Forms DEF SaveStore, Running, Refuse, Newcomer, JobSound, Reach, JobRow, TypeOK,
     tables,
     history, outside, StoreRow
<1>30. CASE InsertProduct(w)
  BY <1>0, <1>30, Forms DEF InsertProduct, Running, Refuse, Newcomer, JobSound, Reach, JobRow,
     TypeOK, tables,
     history, outside
<1>31. CASE SaveProduct(w)
  BY <1>0, <1>31, Forms DEF SaveProduct, Running, Refuse, Newcomer, JobSound, Reach, JobRow,
     TypeOK, tables,
     history, outside, ShelfState
<1> QED
  BY <1>1, <1>2, <1>3, <1>4, <1>5, <1>6, <1>7, <1>8, <1>9, <1>10, <1>11, <1>12, <1>13, <1>14,
     <1>15, <1>16, <1>17, <1>18, <1>19, <1>20, <1>21, <1>22, <1>23, <1>24, <1>25, <1>26, <1>27,
       <1>28, <1>29, <1>30, <1>31
     DEF Step, Guards, Register, Passwords, Staff, Premises, NewAccount

\* Which statements write which table.
Writes(w) ==
    /\ UNCHANGED accounts \/ CreateAccount(w)
    /\ UNCHANGED user \/ InsertUser(w) \/ UpdateUser(w)
    /\ UNCHANGED member \/ Assign(w) \/ UpdateMember(w) \/ InsertMember(w) \/ DeleteMember(w)
                        \/ InsertManager(w) \/ DeleteStore(w)
    /\ UNCHANGED store \/ InsertStore(w) \/ DeleteStore(w) \/ SaveStore(w)
    /\ UNCHANGED org \/ InsertOrganization(w) \/ InsertTrial(w)
    /\ UNCHANGED shelf \/ InsertProduct(w) \/ SaveProduct(w) \/ DeleteStore(w)
    /\ UNCHANGED links \/ FindEmail(w)
    /\ UNCHANGED welcomed \/ SignIn(w) \/ Assign(w)
    /\ UNCHANGED dismissed \/ Assign(w) \/ DeleteMember(w) \/ DeleteStore(w)
    /\ UNCHANGED closed \/ DeleteStore(w)
    /\ UNCHANGED spent \/ SetPassword(w)

\* Which statements write which table: the statement of a step decides.
LEMMA StepWrites ==
    ASSUME Typed, NEW w \in Workers, Step(w)
    PROVE  Writes(w)
<1>0. JobSound(job[w])
  BY DEF Typed
<1>1. CASE TenantGuard(w)
  BY <1>1 DEF Writes, TenantGuard, Refuse, Reads, tables, history
<1>2. CASE SubscriptionGuard(w)
  BY <1>2 DEF Writes, SubscriptionGuard, Refuse, Reads, tables, history
<1>3. CASE UsageLimitGuard(w)
  BY <1>3 DEF Writes, UsageLimitGuard, Refuse, Reads, tables, history
<1>4. CASE FindUser(w)
  BY <1>4 DEF Writes, FindUser, Refuse, Reads, tables, history
<1>5. CASE FindSelf(w)
  BY <1>5 DEF Writes, FindSelf, Refuse, Reads, tables, history
<1>6. CASE FindLink(w)
  BY <1>6 DEF Writes, FindLink, Refuse, Reads, tables, history
<1>7. CASE SelectUser(w)
  BY <1>7 DEF Writes, SelectUser, Refuse, Reads, tables, history
<1>8. CASE FindInvitee(w)
  BY <1>8 DEF Writes, FindInvitee, Refuse, Reads, tables, history
<1>9. CASE FindAssignment(w)
  BY <1>9 DEF Writes, FindAssignment, Refuse, Reads, tables, history
<1>10. CASE FindMember(w)
  BY <1>0, <1>10 DEF Writes, FindMember, Refuse, Reads, tables, history, Running, JobSound, Reach
<1>11. CASE SelectMember(w)
  BY <1>0, <1>11 DEF Writes, SelectMember, Refuse, Reads, tables, history, Running, JobSound, Reach
<1>12. CASE FindStore(w)
  BY <1>12 DEF Writes, FindStore, Refuse, Reads, tables, history
<1>13. CASE FindProduct(w)
  BY <1>13 DEF Writes, FindProduct, Refuse, Reads, tables, history
<1>14. CASE CreateAccount(w)
  BY <1>14 DEF Writes, CreateAccount, Refuse, Reads, tables, history
<1>15. CASE InsertUser(w)
  BY <1>15 DEF Writes, InsertUser, Refuse, Reads, tables, history
<1>16. CASE InsertOrganization(w)
  BY <1>16 DEF Writes, InsertOrganization, Refuse, Reads, tables, history
<1>17. CASE InsertTrial(w)
  BY <1>17 DEF Writes, InsertTrial, Refuse, Reads, tables, history
<1>18. CASE SignIn(w)
  BY <1>18 DEF Writes, SignIn, Refuse, Reads, tables, history
<1>19. CASE UpdateUser(w)
  BY <1>19 DEF Writes, UpdateUser, Refuse, Reads, tables, history
<1>20. CASE FindEmail(w)
  BY <1>20 DEF Writes, FindEmail, Refuse, Reads, tables, history
<1>21. CASE SetPassword(w)
  BY <1>21 DEF Writes, SetPassword, Refuse, Reads, tables, history
<1>22. CASE Assign(w)
  BY <1>22 DEF Writes, Assign, Refuse, Reads, tables, history
<1>23. CASE UpdateMember(w)
  BY <1>23 DEF Writes, UpdateMember, Refuse, Reads, tables, history
<1>24. CASE InsertMember(w)
  BY <1>24 DEF Writes, InsertMember, Refuse, Reads, tables, history
<1>25. CASE DeleteMember(w)
  BY <1>25 DEF Writes, DeleteMember, Refuse, Reads, tables, history
<1>26. CASE InsertStore(w)
  BY <1>26 DEF Writes, InsertStore, Refuse, Reads, tables, history
<1>27. CASE InsertManager(w)
  BY <1>27 DEF Writes, InsertManager, Refuse, Reads, tables, history
<1>28. CASE DeleteStore(w)
  BY <1>28 DEF Writes, DeleteStore, Refuse, Reads, tables, history
<1>29. CASE SaveStore(w)
  BY <1>29 DEF Writes, SaveStore, Refuse, Reads, tables, history
<1>30. CASE InsertProduct(w)
  BY <1>30 DEF Writes, InsertProduct, Refuse, Reads, tables, history
<1>31. CASE SaveProduct(w)
  BY <1>31 DEF Writes, SaveProduct, Refuse, Reads, tables, history
<1> QED
  BY <1>1, <1>2, <1>3, <1>4, <1>5, <1>6, <1>7, <1>8, <1>9, <1>10, <1>11, <1>12, <1>13, <1>14,
     <1>15, <1>16, <1>17, <1>18, <1>19, <1>20, <1>21, <1>22, <1>23, <1>24, <1>25, <1>26, <1>27,
       <1>28, <1>29, <1>30, <1>31
     DEF Step, Guards, Register, Passwords, Staff, Premises, NewAccount

\* Which statement comes before which, and that the request stays the same.
Comes(w) ==
    LET k == job'[w] IN
    /\ k.at # "idle" => k.req = job[w].req
    /\ k.at # "tenant"
    /\ k.at = "subscription" => TenantGuard(w)
    /\ k.at = "count" => SubscriptionGuard(w)
    /\ k.at = "createAccount" => FindUser(w) \/ FindInvitee(w)
    /\ k.at = "insertUser" => CreateAccount(w)
    /\ k.at = "insertOrganization" => InsertUser(w)
    /\ k.at = "insertStore" => InsertOrganization(w) \/ SubscriptionGuard(w) \/ UsageLimitGuard(w)
    /\ k.at = "insertManager" => InsertStore(w)
    /\ k.at = "insertTrial" => InsertManager(w)
    /\ k.at = "signIn" => InsertTrial(w)
    /\ k.at = "findAssignment" => FindInvitee(w)
    /\ k.at = "assign" => FindAssignment(w) \/ InsertUser(w)
    /\ k.at = "deleteMember" => FindMember(w)
    /\ k.at = "selectMember" => FindMember(w)
    /\ k.at \in {"updateMember", "insertMember"} => SelectMember(w)
    /\ k.at \in {"saveStore", "deleteStore"} => FindStore(w)
    /\ k.at = "saveProduct" => FindProduct(w)
    /\ k.at = "setPassword" => FindLink(w)
    /\ k.at = "selectUser" => FindEmail(w) \/ SetPassword(w) \/ FindSelf(w)
    /\ k.at = "updateUser" => SelectUser(w)

\* Every step follows the order of its handler.
LEMMA StepComes ==
    ASSUME Typed, NEW w \in Workers, Step(w)
    PROVE  Comes(w)
<1> DEFINE j == job[w]
<1>0. job \in [Workers -> JobRow] /\ j \in JobRow /\ JobSound(j)
  BY DEF Typed
<1>1. CASE TenantGuard(w)
  <2>1. job'[w].at \in {"subscription"} \cup {"idle"} /\ (job'[w].at # "idle" => job'[w].req = j.req)
    <3>1. CASE job' = [job EXCEPT ![w] = Idle]
      BY <1>0, <3>1, IdleAt
    <3>2. CASE job' = [job EXCEPT ![w] = [[j EXCEPT !.seen = member[j.req.by][j.req.at]]
                 EXCEPT !.at = "subscription"]]
      BY <1>0, <3>2 DEF JobRow
    <3> QED
      BY <1>1, <3>1, <3>2 DEF TenantGuard, Refuse, Reads, Finish, Continue
  <2> QED
    BY <1>1, <2>1 DEF Comes
<1>2. CASE SubscriptionGuard(w)
  <2> DEFINE l == IF j.req.kind \in Counted THEN "count" ELSE Entry(j.req.kind)
  <2>1. (job'[w].at = "idle" \/ job'[w].at = l) /\ (job'[w].at # "idle" => job'[w].req = j.req)
    <3>1. CASE job' = [job EXCEPT ![w] = Idle]
      BY <1>0, <3>1, IdleAt
    <3>2. CASE job' = [job EXCEPT ![w] = [[j EXCEPT
                !.owner = IF store[j.req.at].state = "open" THEN store[j.req.at].owner ELSE NoOne]
                EXCEPT !.at = l]]
      BY <1>0, <3>2 DEF JobRow
    <3> QED
      BY <1>2, <3>1, <3>2 DEF SubscriptionGuard, Refuse, Reads, Finish, Continue
  <2>2. j.req.kind \in Kinds \ (Public \cup Self)
    BY <1>0, <1>2 DEF SubscriptionGuard, Running, JobSound, Reach
  <2>3. l \in {"count", "insertStore", "findMember", "findStore", "insertProduct", "findProduct"}
    BY <2>2 DEF Kinds, Public, Self, Counted, Entry
  <2> QED
    BY <1>2, <2>1, <2>3 DEF Comes
<1>3. CASE UsageLimitGuard(w)
  BY <1>0, <1>3, Retired DEF Comes, UsageLimitGuard, Running, Continue, Finish, Refuse, Reads,
     JobRow, JobSound, Reach, Entry, Counted, Kinds, Public, Self
<1>4. CASE FindUser(w)
  BY <1>0, <1>4, Retired DEF Comes, FindUser, Running, Continue, Finish, Refuse, Reads, JobRow
<1>5. CASE FindSelf(w)
  BY <1>0, <1>5, Retired DEF Comes, FindSelf, Running, Continue, Finish, Refuse, Reads, JobRow
<1>6. CASE FindLink(w)
  <2>1. job'[w].at \in {"setPassword"} \cup {"idle"} /\ (job'[w].at # "idle" => job'[w].req = j.req)
    <3>1. CASE job' = [job EXCEPT ![w] = Idle]
      BY <1>0, <3>1, IdleAt
    <3>2. ASSUME NEW e \in Emails,
               job' = [job EXCEPT ![w] = [[j EXCEPT !.who = e, !.ent = user[e]]
                 EXCEPT !.at = "setPassword"]]
          PROVE  job'[w].at \in {"setPassword"} \cup {"idle"} /\ (job'[w].at # "idle" =>
                   job'[w].req = j.req)
      BY <1>0, <3>2 DEF JobRow
    <3> QED
      BY <1>6, <3>1, <3>2 DEF FindLink, Refuse, Reads, Finish, Continue
  <2> QED
    BY <1>6, <2>1 DEF Comes
<1>7. CASE SelectUser(w)
  BY <1>0, <1>7, Retired DEF Comes, SelectUser, Running, Continue, Finish, Refuse, Reads, JobRow
<1>8. CASE FindInvitee(w)
  BY <1>0, <1>8, Retired DEF Comes, FindInvitee, Running, Continue, Finish, Refuse, Reads, JobRow
<1>9. CASE FindAssignment(w)
  BY <1>0, <1>9, Retired DEF Comes, FindAssignment, Running, Continue, Finish, Refuse, Reads, JobRow
<1>10. CASE FindMember(w)
  <2>1. job'[w].at \in {"selectMember", "deleteMember"} \cup {"idle"} /\ (job'[w].at # "idle" =>
          job'[w].req = j.req)
    <3>1. CASE job' = [job EXCEPT ![w] = Idle]
      BY <1>0, <3>1, IdleAt
    <3>2. CASE job' = [job EXCEPT ![w] = [[j EXCEPT
                !.seen = WithRole(member[j.req.who][j.req.at], j.req.role)]
                EXCEPT !.at = "selectMember"]]
      BY <1>0, <3>2 DEF JobRow
    <3>3. CASE job' = [job EXCEPT ![w] = [[j EXCEPT !.seen.role = member[j.req.who][j.req.at].role,
      !.seen.rights = j.req.rights, !.seen.row = member[j.req.who][j.req.at].row]
        EXCEPT !.at = "selectMember"]]
      BY <1>0, <3>3 DEF JobRow
    <3>4. CASE job' = [job EXCEPT ![w] = [[j EXCEPT !.seen = member[j.req.who][j.req.at]]
                 EXCEPT !.at = "deleteMember"]]
      BY <1>0, <3>4 DEF JobRow
    <3> QED
      BY <1>0, <1>10, <3>1, <3>2, <3>3, <3>4 DEF FindMember, Refuse, Reads, Finish, Continue,
         Running, JobSound, Reach
  <2> QED
    BY <1>10, <2>1 DEF Comes
<1>11. CASE SelectMember(w)
  <2>1. job'[w].at \in {"insertMember", "updateMember"} \cup {"idle"} /\ (job'[w].at # "idle" =>
          job'[w].req = j.req)
    <3>1. CASE job' = [job EXCEPT ![w] = Idle]
      BY <1>0, <3>1, IdleAt
    <3>2. CASE job' = [job EXCEPT ![w] = [j EXCEPT !.at = "insertMember"]]
      BY <1>0, <3>2 DEF JobRow
    <3>3. CASE job' = [job EXCEPT ![w] = [[j EXCEPT !.cols = Changed(j.seen,
                 member[j.req.who][j.req.at])] EXCEPT !.at = "updateMember"]]
      BY <1>0, <3>3 DEF JobRow
    <3> QED
      BY <1>0, <1>11, <3>1, <3>2, <3>3 DEF SelectMember, Refuse, Reads, Finish, Continue, Running,
         JobSound, Reach
  <2> QED
    BY <1>11, <2>1 DEF Comes
<1>12. CASE FindStore(w)
  <2>1. job'[w].at \in {"saveStore", "deleteStore"} \cup {"idle"} /\ (job'[w].at # "idle" =>
          job'[w].req = j.req)
    <3>1. CASE job' = [job EXCEPT ![w] = Idle]
      BY <1>0, <3>1, IdleAt
    <3>2. CASE job' = [job EXCEPT ![w] = [[j EXCEPT !.owner = store[j.req.at].owner]
                 EXCEPT !.at = IF j.req.kind = "removeStore" THEN "deleteStore" ELSE "saveStore"]]
      BY <1>0, <3>2 DEF JobRow
    <3> QED
      BY <1>12, <3>1, <3>2 DEF FindStore, Refuse, Reads, Finish, Continue
  <2> QED
    BY <1>12, <2>1 DEF Comes
<1>13. CASE FindProduct(w)
  <2>1. job'[w].at \in {"saveProduct"} \cup {"idle"} /\ (job'[w].at # "idle" => job'[w].req = j.req)
    <3>1. CASE job' = [job EXCEPT ![w] = Idle]
      BY <1>0, <3>1, IdleAt
    <3>2. CASE job' = [job EXCEPT ![w] = [[j EXCEPT !.ent = (shelf[j.req.slot] = "active" /\
                 j.req.kind = "editProduct")] EXCEPT !.at = "saveProduct"]]
      BY <1>0, <3>2 DEF JobRow
    <3> QED
      BY <1>13, <3>1, <3>2 DEF FindProduct, Refuse, Reads, Finish, Continue
  <2> QED
    BY <1>13, <2>1 DEF Comes
<1>14. CASE CreateAccount(w)
  BY <1>0, <1>14, Retired DEF Comes, CreateAccount, Running, Continue, Finish, Refuse, Reads, JobRow
<1>15. CASE InsertUser(w)
  BY <1>0, <1>15, Retired DEF Comes, InsertUser, Running, Continue, Finish, Refuse, Reads, JobRow,
     JobSound, Reach
<1>16. CASE InsertOrganization(w)
  BY <1>0, <1>16, Retired DEF Comes, InsertOrganization, Running, Continue, Finish, Refuse, Reads,
     JobRow
<1>17. CASE InsertTrial(w)
  BY <1>0, <1>17, Retired DEF Comes, InsertTrial, Running, Continue, Finish, Refuse, Reads, JobRow
<1>18. CASE SignIn(w)
  BY <1>0, <1>18, Retired DEF Comes, SignIn, Running, Continue, Finish, Refuse, Reads, JobRow
<1>19. CASE UpdateUser(w)
  BY <1>0, <1>19, Retired DEF Comes, UpdateUser, Running, Continue, Finish, Refuse, Reads, JobRow
<1>20. CASE FindEmail(w)
  <2>1. job'[w].at \in {"selectUser"} \cup {"idle"} /\ (job'[w].at # "idle" => job'[w].req = j.req)
    <3>1. CASE job' = [job EXCEPT ![w] = Idle]
      BY <1>0, <3>1, IdleAt
    <3>2. CASE job' = [job EXCEPT ![w] = [[j EXCEPT !.who = j.req.who,
      !.ent = [user[j.req.who] EXCEPT !.link = links + 1]] EXCEPT !.at = "selectUser"]]
      BY <1>0, <3>2 DEF JobRow
    <3> QED
      BY <1>20, <3>1, <3>2 DEF FindEmail, Refuse, Reads, Finish, Continue
  <2> QED
    BY <1>20, <2>1 DEF Comes
<1>21. CASE SetPassword(w)
  BY <1>0, <1>21, Retired DEF Comes, SetPassword, Running, Continue, Finish, Refuse, Reads, JobRow
<1>22. CASE Assign(w)
  BY <1>0, <1>22, Retired DEF Comes, Assign, Running, Continue, Finish, Refuse, Reads, JobRow
<1>23. CASE UpdateMember(w)
  BY <1>0, <1>23, Retired DEF Comes, UpdateMember, Running, Continue, Finish, Refuse, Reads, JobRow
<1>24. CASE InsertMember(w)
  BY <1>0, <1>24, Retired DEF Comes, InsertMember, Running, Continue, Finish, Refuse, Reads, JobRow
<1>25. CASE DeleteMember(w)
  BY <1>0, <1>25, Retired DEF Comes, DeleteMember, Running, Continue, Finish, Refuse, Reads, JobRow
<1>26. CASE InsertStore(w)
  <2>1. job'[w].at \in {"insertManager"} \cup {"idle"} /\ (job'[w].at # "idle" => job'[w].req = j.req)
    <3>1. CASE job' = [job EXCEPT ![w] = Idle]
      BY <1>0, <3>1, IdleAt
    <3>2. ASSUME NEW s \in Stores,
               job' = [job EXCEPT ![w] = [[j EXCEPT !.store = s] EXCEPT !.at = "insertManager"]]
          PROVE  job'[w].at \in {"insertManager"} \cup {"idle"} /\ (job'[w].at # "idle" =>
                   job'[w].req = j.req)
      BY <1>0, <3>2 DEF JobRow
    <3> QED
      BY <1>26, <3>1, <3>2 DEF InsertStore, Refuse, Reads, Finish, Continue
  <2> QED
    BY <1>26, <2>1 DEF Comes
<1>27. CASE InsertManager(w)
  BY <1>0, <1>27, Retired DEF Comes, InsertManager, Running, Continue, Finish, Refuse, Reads,
     JobRow, JobSound, Reach
<1>28. CASE DeleteStore(w)
  BY <1>0, <1>28, Retired DEF Comes, DeleteStore, Running, Continue, Finish, Refuse, Reads, JobRow
<1>29. CASE SaveStore(w)
  BY <1>0, <1>29, Retired DEF Comes, SaveStore, Running, Continue, Finish, Refuse, Reads, JobRow
<1>30. CASE InsertProduct(w)
  BY <1>0, <1>30, Retired DEF Comes, InsertProduct, Running, Continue, Finish, Refuse, Reads, JobRow
<1>31. CASE SaveProduct(w)
  BY <1>0, <1>31, Retired DEF Comes, SaveProduct, Running, Continue, Finish, Refuse, Reads, JobRow
<1> QED
  BY <1>1, <1>2, <1>3, <1>4, <1>5, <1>6, <1>7, <1>8, <1>9, <1>10, <1>11, <1>12, <1>13, <1>14,
     <1>15, <1>16, <1>17, <1>18, <1>19, <1>20, <1>21, <1>22, <1>23, <1>24, <1>25, <1>26, <1>27,
       <1>28, <1>29, <1>30, <1>31
     DEF Step, Guards, Register, Passwords, Staff, Premises, NewAccount

\* A row that once was there never looks as if it had not been.
LEMMA StoresStay ==
    ASSUME Typed, NEW w \in Workers, Step(w)
    PROVE  /\ \A s \in Stores : store[s].state # "none" => store'[s].state # "none"
           /\ job'[w].at \in {"saveStore", "deleteStore"}
                => store'[job'[w].req.at].state # "none"
<1> DEFINE j == job[w]
<1>0. /\ job \in [Workers -> JobRow] /\ j \in JobRow /\ JobSound(j) /\ store \in [Stores -> StoreRow]
      /\ j.at # "idle" => j.req \in Requests
  BY DEF Typed, TypeOK, JobSound
<1>1. \A s \in Stores : store[s].state # "none" => store'[s].state # "none"
  <2>1. CASE InsertStore(w)
    BY <1>0, <2>1 DEF InsertStore, Refuse, tables
  <2>2. CASE DeleteStore(w)
    BY <1>0, <2>2 DEF DeleteStore
  <2>3. CASE SaveStore(w)
    BY <1>0, <2>3 DEF SaveStore
  <2> QED
    BY <2>1, <2>2, <2>3, StepWrites DEF Writes
<1>2. ASSUME job'[w].at \in {"saveStore", "deleteStore"}
      PROVE  store'[job'[w].req.at].state # "none"
  <2>1. FindStore(w) /\ job'[w].req = j.req
    BY <1>2, StepComes DEF Comes
  <2>2. (j.req.at \in Stores /\ store'[j.req.at].state # "none") \/ job'[w].at = "idle"
    BY <1>0, <1>1, <2>1, Finishes, Forms, IdleAt DEF FindStore, Running, Refuse, Finish
  <2> QED
    BY <1>2, <2>1, <2>2
<1> QED
  BY <1>1, <1>2

\* A statement keeps the tables and the handlers typed.
LEMMA StepTyped ==
    ASSUME Typed, NEW w \in Workers, Step(w)
    PROVE  Typed'
<1>1. Moves(w) /\ crowd' = crowd
  BY StepMoves DEF outside
<1>2. ASSUME NEW v \in Workers, job'[v].at \in {"saveStore", "deleteStore"}
      PROVE  store'[job'[v].req.at].state # "none"
  <2>1. CASE v = w
    BY <1>2, <2>1, StoresStay
  <2>2. CASE v # w
    <3>1. job'[v] = job[v] /\ store[job[v].req.at].state # "none"
      BY <1>1, <1>2, <2>2, Onward DEF Typed
    <3>2. job[v].req.at \in Stores
      BY <1>2, <3>1, Forms DEF Typed, JobSound
    <3> QED
      BY <3>1, <3>2, StoresStay
  <2> QED
    BY <2>1, <2>2
<1> QED
  BY <1>1, <1>2, Onward, TablesTyped DEF Typed

\* A request that dies changes nothing but its own handler.
LEMMA BreakTyped ==
    ASSUME Typed, NEW w \in Workers, Break(w)
    PROVE  Typed' /\ Moves(w) /\ job'[w] = Idle
<1>1. Moves(w) /\ crowd' = crowd /\ job'[w] = Idle
  BY Finishes, Retired DEF Break, Running, Finish, Moves, Typed
<1>2. TypeOK'
  BY DEF Break, Typed, TypeOK, tables, history
<1>3. \A v \in Workers : job'[v].at \in {"saveStore", "deleteStore"}
        => store'[job'[v].req.at].state # "none"
  BY <1>1, Onward, IdleAt DEF Break, tables, Typed
<1> QED
  BY <1>1, <1>2, <1>3, Onward DEF Typed

\* A request that comes in finds its handler idle and changes no table.
LEMMA BeginTyped ==
    ASSUME Typed, NEW w \in Workers, NEW r \in Requests, Begin(w, r)
    PROVE  /\ Typed' /\ UNCHANGED <<tables, history, cut>>
           /\ job[w].at = "idle" /\ \A v \in Workers \ {w} : job'[v] = job[v]
           /\ job'[w].req = r /\ job'[w].owner = NoOne
           /\ job'[w].at = IF r.kind \in Public \cup Self THEN Entry(r.kind) ELSE "tenant"
           /\ crowd \in Nat /\ crowd' \in Nat /\ crowd' >= crowd /\ crowd' >= 1
           /\ Cardinality(Busy) < crowd'
<1> DEFINE l == IF r.kind \in Public \cup Self THEN Entry(r.kind) ELSE "tenant"
           k == [[Idle EXCEPT !.req = r] EXCEPT !.at = l]
<1>1. /\ l \in {"tenant", "findUser", "findEmail", "findLink", "findSelf"} /\ r.kind \in Reach(l)
  <2>1. CASE r.kind \in Public \cup Self
    BY <2>1 DEF Public, Self, Entry, Reach
  <2>2. CASE r.kind \notin Public \cup Self
    BY <2>2, Forms DEF Reach, Kinds
  <2> QED
    BY <2>1, <2>2
<1>2. k \in JobRow /\ k.at = l /\ k.req = r /\ k.owner = NoOne
  <2> HIDE DEF l
  <2>1. l \in Statements \cup {"idle"}
    BY <1>1 DEF Statements
  <2> QED
    BY <2>1, Retired DEF JobRow
<1>3. JobSound(k)
  BY <1>1, <1>2 DEF JobSound, MemberStatements
<1>4. /\ job[w].at = "idle" /\ job' \in [Workers -> JobRow] /\ job'[w] = k
      /\ \A v \in Workers \ {w} : job'[v] = job[v]
  BY <1>2 DEF Begin, Running, Continue, Typed
<1>5. \A v \in Workers : JobSound(job'[v])
  BY <1>3, <1>4 DEF Typed
<1>6. Busy' = Busy \cup {w} /\ w \notin Busy /\ Busy \in SUBSET Workers
  BY <1>1, <1>2, <1>4 DEF Busy, Running
<1>7. /\ IsFiniteSet(Busy) /\ Cardinality(Busy) \in Nat /\ Cardinality(Busy') = 1 + Cardinality(Busy)
      /\ 1 + Cardinality(Busy) <= Cardinality(Workers) /\ Cardinality(Workers) \in Nat
  <2>1. IsFiniteSet(Workers) /\ IsFiniteSet(Busy) /\ (Busy \cup {w}) \in SUBSET Workers
    BY <1>6, FS_Subset, TenantAssumption
  <2>2. Cardinality(Busy \cup {w}) = 1 + Cardinality(Busy) /\ Cardinality(Busy) \in Nat
    BY <1>6, <2>1, FS_AddElement, FS_CardinalityType
  <2>3. Cardinality(Busy \cup {w}) <= Cardinality(Workers) /\ Cardinality(Workers) \in Nat
    BY <2>1, FS_Subset, FS_CardinalityType
  <2> QED
    BY <1>6, <2>1, <2>2, <2>3
<1>8. crowd' = IF 1 + Cardinality(Busy) > crowd THEN 1 + Cardinality(Busy) ELSE crowd
  BY DEF Begin, Busy
<1>9. crowd \in 0 .. Cardinality(Workers)
  BY DEF Typed, TypeOK
<1>10. /\ crowd \in Nat /\ crowd' \in 0 .. Cardinality(Workers) /\ Cardinality(Busy') <= crowd'
       /\ crowd' >= crowd /\ crowd' >= 1 /\ Cardinality(Busy) < crowd'
  BY <1>7, <1>8, <1>9
<1>11. UNCHANGED <<tables, history, cut>> /\ served' \in 0 .. MaxRequests /\ expired' = expired
  BY TenantAssumption DEF Begin, Typed, TypeOK
<1>12. TypeOK'
  BY <1>10, <1>11 DEF Typed, TypeOK, tables, history
<1>13. \A v \in Workers : job'[v].at \in {"saveStore", "deleteStore"}
        => store'[job'[v].req.at].state # "none"
  <2>1. job'[w].at \notin {"saveStore", "deleteStore"} /\ store' = store
    BY <1>1, <1>2, <1>4, <1>11 DEF tables
  <2> QED
    BY <1>4, <2>1 DEF Typed
<1> QED
  BY <1>2, <1>4, <1>5, <1>7, <1>10, <1>11, <1>12, <1>13 DEF Typed

\* Time, the plan and a worker that does nothing keep the types.
LEMMA OutsideTyped ==
    ASSUME Typed, \/ \E l \in Links : Expire(l)
                  \/ \E e \in Emails : Lapse(e)
                  \/ UNCHANGED vars
    PROVE  Typed'
<1>1. UNCHANGED <<job, store, crowd>> /\ TypeOK'
  <2>1. CASE \E l \in Links : Expire(l)
    BY <2>1 DEF Expire, Typed, TypeOK, tables, history, Links
  <2>2. CASE \E e \in Emails : Lapse(e)
    BY <2>2 DEF Lapse, Typed, TypeOK, history, outside
  <2>3. CASE UNCHANGED vars
    BY <2>3 DEF vars, Typed, TypeOK, tables, history, outside
  <2> QED
    BY <2>1, <2>2, <2>3
<1> QED
  BY <1>1 DEF Typed, Busy, Running

\* The start is typed.
LEMMA InitTyped == Init => Typed
<1> SUFFICES ASSUME Init PROVE Typed
  OBVIOUS
<1>1. Cardinality(Workers) \in Nat /\ Founder \in Emails /\ NoOne \notin Emails
      /\ MaxLinks \in Nat /\ MaxRequests \in Nat
  BY FS_CardinalityType, TenantAssumption
<1>2. user \in [Emails -> UserRow] /\ member \in [Emails -> [Stores -> MemberRow]]
  BY <1>1 DEF Init, UserRow, MemberRow, Nobody, NoMember, NoLink
<1>3. store \in [Stores -> StoreRow]
  BY <1>1 DEF Init, StoreRow, NoStore
<1>4. TypeOK
  <2>1. /\ org \in [Emails -> {"none", "bare", "live", "lapsed"}] /\ spent \in [Links -> Nat]
        /\ shelf \in [Slots -> {"none", "active", "removed", "gone"}] /\ accounts \subseteq Emails
    BY <1>1 DEF Init
  <2>2. /\ links = 0 /\ expired = {} /\ served = 0 /\ crowd = 0
        /\ welcomed = {} /\ dismissed = {} /\ closed = {}
    BY DEF Init
  <2> QED
    BY <1>1, <1>2, <1>3, <2>1, <2>2 DEF TypeOK
<1>5. \A w \in Workers : job[w] = Idle
  BY DEF Init
<1>6. Busy = {} /\ crowd = 0
  BY <1>5, IdleAt DEF Init, Busy, Running
<1>7. Cardinality(Busy) <= crowd
  BY <1>6, FS_EmptySet
<1> QED
  BY <1>4, <1>5, <1>7, Retired, IdleAt DEF Init, Typed

\* Every step keeps the types.
LEMMA NextTyped == Typed /\ [Next]_vars => Typed'
  BY StepTyped, BreakTyped, BeginTyped, OutsideTyped DEF Next, Closed

\* Every row, every history and every handler's variables keep their types,
\* with any number of people, stores, links and requests in progress.
THEOREM AccountTypes == Spec => []TypeOK
<1>1. Typed => TypeOK
  BY DEF Typed
<1> QED
  BY <1>1, InitTyped, NextTyped, PTL DEF Spec

-----------------------------------------------------------------------------
(* Whoever was welcomed can work.                                          *)

\* Only the insertion of a user's row makes somebody a user.
LEMMA MadeOnce ==
    ASSUME Typed, NEW w \in Workers, Step(w), NEW e \in Emails
    PROVE  user'[e].made <=> user[e].made \/ (InsertUser(w) /\ e = job[w].req.who)
<1>0. user \in [Emails -> UserRow]
  BY DEF Typed, TypeOK
<1>1. CASE InsertUser(w)
  BY <1>0, <1>1 DEF InsertUser, Newcomer, UserRow
<1>2. CASE UpdateUser(w)
  <2>1. job[w].at = "updateUser" /\ user' = [user
          EXCEPT ![job[w].who] = Patched(user[job[w].who], job[w].ent, {"link"})]
    BY <1>2 DEF UpdateUser, Running
  <2>2. Patched(user[e], job[w].ent, {"link"}).made = user[e].made
    BY <1>0 DEF Patched, UserRow
  <2>3. ~InsertUser(w)
    BY <2>1 DEF InsertUser, Running
  <2> QED
    BY <1>0, <2>1, <2>2, <2>3
<1>3. CASE UNCHANGED user /\ ~InsertUser(w)
  BY <1>3
<1> QED
  BY <1>1, <1>2, <1>3, StepWrites DEF Writes

\* An organization changes only with its founder's registration.
LEMMA OrgBy ==
    ASSUME Typed, NEW w \in Workers, Step(w), NEW e \in Emails
    PROVE  \/ org'[e] = org[e]
           \/ InsertOrganization(w) /\ e = job[w].req.who /\ org'[e] = "bare"
           \/ InsertTrial(w) /\ e = job[w].req.who /\ org'[e] = "live"
<1>0. org \in [Emails -> {"none", "bare", "live", "lapsed"}]
  BY DEF Typed, TypeOK
<1>1. CASE InsertOrganization(w)
  BY <1>0, <1>1 DEF InsertOrganization, Newcomer
<1>2. CASE InsertTrial(w)
  BY <1>0, <1>2 DEF InsertTrial, Newcomer
<1> QED
  BY <1>1, <1>2, StepWrites DEF Writes

\* Who has a store, or had one taken away, is not forgotten.
Tied(e, s) == OnStaff(e, s) \/ <<e, s>> \in dismissed

\* No statement forgets that somebody was on the staff of a store.
LEMMA TiesStay ==
    ASSUME Typed, NEW w \in Workers, Step(w), NEW e \in Emails, NEW s \in Stores, Tied(e, s)
    PROVE  Tied(e, s)'
<1> DEFINE j == job[w]
<1>0. /\ member \in [Emails -> [Stores -> MemberRow]] /\ JobSound(j) /\ j \in JobRow
      /\ j.at # "idle" => j.req \in Requests
  BY DEF Typed, TypeOK, JobSound
<1>1. CASE Assign(w)
  <2>1. j.at = "assign" /\ (j.req.role = "none" => FALSE)
    BY <1>0, <1>1, Forms DEF Assign, Running, JobSound, Reach
  <2> QED
    BY <1>0, <1>1, <2>1 DEF Assign, Refuse, tables, history, Tied, OnStaff, Newcomer
<1>2. CASE UpdateMember(w)
  <2>1. /\ j.at = "updateMember" /\ j.seen.role # "none" /\ dismissed' = dismissed
        /\ \/ member' = member
           \/ member' = [member EXCEPT ![j.req.who][j.req.at] = Patched(member[j.req.who][j.req.at], j.seen, j.cols)]
    BY <1>0, <1>2 DEF UpdateMember, Running, JobSound, MemberStatements, history
  <2>2. Patched(member[e][s], j.seen, j.cols).role \in {member[e][s].role, j.seen.role}
    BY <1>0 DEF Patched, MemberRow
  <2> QED
    BY <1>0, <2>1, <2>2 DEF Tied, OnStaff
<1>3. CASE InsertMember(w)
  BY <1>0, <1>3 DEF InsertMember, Running, JobSound, MemberStatements, history, Tied, OnStaff
<1>4. CASE DeleteMember(w)
  BY <1>0, <1>4 DEF DeleteMember, Tied, OnStaff
<1>5. CASE InsertManager(w)
  BY <1>0, <1>5 DEF InsertManager, Refuse, tables, history, Tied, OnStaff
<1>6. CASE DeleteStore(w)
  BY <1>0, <1>6 DEF DeleteStore, Tied, OnStaff
<1>7. CASE UNCHANGED member /\ ~DeleteMember(w) /\ ~DeleteStore(w) /\ ~Assign(w)
  BY <1>7, StepWrites DEF Writes, Tied, OnStaff
<1> QED
  BY <1>1, <1>2, <1>3, <1>4, <1>5, <1>6, <1>7, StepWrites DEF Writes

\* Whoever had a store keeps it, or the mark that it was taken away.
LEMMA PlacedStays ==
    ASSUME Typed, NEW w \in Workers, Step(w), NEW e \in Emails, Placed(e)
    PROVE  Placed(e)'
  BY TiesStay DEF Placed, Tied

\* A registration or an account for an invitation is begun by whoever got the
\* account, and nobody else joins in.
LEMMA CreatorsStart ==
    ASSUME Typed, NEW w \in Workers, Step(w), Creating(job'[w])
    PROVE  /\ job'[w].req = job[w].req /\ job[w].req.who \in Emails
           /\ \/ CreateAccount(w) /\ job'[w].at = "insertUser"
              \/ Creating(job[w]) /\ job'[w].at # "insertUser"
<1> DEFINE j == job[w]
<1>1. /\ job'[w].req = j.req /\ j.req \in Requests
      /\ j.at # "idle" /\ JobSound(j) /\ JobSound(job'[w]) /\ j.req.kind \in Reach(j.at)
  BY StepMoves, StepComes DEF Comes, Moves, Creating, Typed, JobSound
<1>2. j.req.kind \in Reach(job'[w].at)
  BY <1>1 DEF JobSound, Creating
<1>3. j.req.who \in Emails
  BY <1>1, <1>2, Forms DEF Creating, Reach
<1>4. CASE job'[w].at = "insertUser"
  BY <1>1, <1>3, <1>4, StepComes DEF Comes
<1>5. CASE job'[w].at # "insertUser"
  <2>1. \/ job'[w].at \in {"insertOrganization", "insertTrial", "signIn"}
        \/ (job'[w].at \in {"insertStore", "insertManager"} /\ j.req.kind = "register")
    BY <1>1, <1>5 DEF Creating
  <2>2. \/ InsertUser(w) \/ InsertOrganization(w) \/ InsertTrial(w)
        \/ (InsertStore(w) /\ j.req.kind = "register")
        \/ (InsertManager(w) /\ j.req.kind = "register")
        \/ (SubscriptionGuard(w) /\ j.req.kind = "register")
        \/ (UsageLimitGuard(w) /\ j.req.kind = "register")
    BY <1>1, <1>2, <2>1, StepComes DEF Comes, Reach
  <2>3. Creating(j)
    BY <1>1, <2>2 DEF Creating, Reach, Public, Counted, InsertUser, InsertOrganization, InsertTrial,
       InsertStore, InsertManager, SubscriptionGuard, UsageLimitGuard, Running
  <2> QED
    BY <1>1, <1>3, <1>5, <2>3
<1> QED
  BY <1>4, <1>5

\* Whom a statement welcomes.
LEMMA WelcomedBy ==
    ASSUME Typed, NEW w \in Workers, Step(w)
    PROVE  \/ welcomed' = welcomed
           \/ /\ SignIn(w) /\ job'[w].at = "idle"
              /\ welcomed' = welcomed \cup {<<"register", job[w].req.who>>}
           \/ /\ Assign(w) /\ job'[w].at = "idle"
              /\ member'[job[w].req.who][job[w].req.at].role # "none"
              /\ welcomed' = welcomed \cup {<<"invite", job[w].req.who>>}
<1> DEFINE j == job[w]
<1>0. /\ member \in [Emails -> [Stores -> MemberRow]] /\ JobSound(j) /\ j \in JobRow
      /\ job \in [Workers -> JobRow]
      /\ j.at # "idle" => j.req \in Requests
  BY DEF Typed, TypeOK, JobSound
<1>1. CASE SignIn(w)
  <2>1. job' = [job EXCEPT ![w] = Idle] /\ welcomed' = welcomed \cup {<<"register", j.req.who>>}
    BY <1>1 DEF SignIn, Finish, Newcomer
  <2>2. job'[w].at = "idle"
    BY <1>0, <2>1, IdleAt
  <2> QED
    BY <1>1, <2>1, <2>2
<1>2. CASE Assign(w)
  <2>1. /\ j.at = "assign" /\ j.req.who \in Emails /\ j.req.at \in Stores
        /\ j.req.role \in {"admin", "cashier"}
    BY <1>0, <1>2, Forms DEF Assign, Running, JobSound, Reach
  <2>2. CASE member[j.req.who][j.req.at].role # "none" \/ store[j.req.at].state # "open"
    BY <1>2, <2>2 DEF Assign, Refuse, history, Newcomer
  <2>3. CASE ~(member[j.req.who][j.req.at].role # "none" \/ store[j.req.at].state # "open")
    <3>1. /\ Finish(w) /\ welcomed' = welcomed \cup {<<"invite", j.req.who>>}
          /\ member' = [member EXCEPT ![j.req.who][j.req.at] =
               [role |-> j.req.role, rights |-> DefaultRights(j.req.role),
                row |-> member[j.req.who][j.req.at].row + 1]]
      BY <1>2, <2>3 DEF Assign, Newcomer
    <3>2. member'[j.req.who][j.req.at].role # "none"
      BY <1>0, <2>1, <3>1
    <3>3. job'[w].at = "idle"
      BY <1>0, <3>1, IdleAt DEF Finish
    <3> QED
      BY <1>2, <3>1, <3>2, <3>3
  <2> QED
    BY <2>2, <2>3
<1> QED
  BY <1>1, <1>2, StepWrites DEF Writes

\* A statement keeps what is known of the accounts and of their makers.
LEMMA StepPeople ==
    ASSUME Typed, People, NEW w \in Workers, Step(w)
    PROVE  People'
<1> DEFINE j == job[w]
<1>0. /\ JobSound(j) /\ j \in JobRow /\ job \in [Workers -> JobRow]
      /\ j.at # "idle" => j.req \in Requests
      /\ \A v \in Workers \ {w} : job'[v] = job[v]
  BY StepMoves, Onward DEF Typed, JobSound, outside
<1>1. accounts \subseteq accounts' /\ (CreateAccount(w) /\ job'[w].at # "idle" =>
        j.req.who \in accounts' \ accounts)
  <2>1. CASE CreateAccount(w)
    BY <1>0, <2>1, IdleAt DEF CreateAccount, Newcomer, Refuse, Finish, tables
  <2> QED
    BY <2>1, StepWrites DEF Writes
<1>2. /\ \A e \in Emails : user[e].made => user'[e].made
      /\ \A e \in Emails : Placed(e) => Placed(e)'
  BY MadeOnce, PlacedStays
<1>3. MakerKnows(j) /\ InviterKnows(j)
  BY DEF People
<1>4. \A x \in welcomed : x[2] \in Emails /\ x = <<x[1], x[2]>>
  BY DEF Typed, TypeOK
\* An organization that was complete is not overwritten.
<1>5. ASSUME NEW e \in Emails, org[e] \in {"live", "lapsed"},
             Creating(j) => j.req.who # e
      PROVE  org'[e] \in {"live", "lapsed"}
  <2>1. InsertOrganization(w) => Creating(j)
    BY DEF InsertOrganization, Running, Creating
  <2> QED
    BY <1>5, <2>1, OrgBy
<1>6. \A e \in Emails : user'[e].made => e \in accounts'
  <2>1. InsertUser(w) => j.req.who \in accounts
    BY <1>3 DEF InsertUser, Running, MakerKnows, Creating
  <2> QED
    BY <1>1, <2>1, MadeOnce DEF People
<1>7. ASSUME NEW x \in welcomed'
      PROVE  /\ x[2] \in accounts' /\ user'[x[2]].made /\ Placed(x[2])'
             /\ x[1] = "register" => org'[x[2]] \in {"live", "lapsed"}
  <2>1. CASE x \in welcomed
    <3>1. /\ x[2] \in Emails /\ x[2] \in accounts /\ user[x[2]].made /\ Placed(x[2])
          /\ x[1] = "register" => org[x[2]] \in {"live", "lapsed"}
      BY <1>4, <2>1 DEF People
    <3>2. x[1] = "register" /\ Creating(j) => j.req.who # x[2]
      BY <1>3, <1>4, <2>1 DEF MakerKnows
    <3> QED
      BY <1>1, <1>2, <1>5, <3>1, <3>2
  <2>2. CASE SignIn(w) /\ x = <<"register", j.req.who>>
    <3>1. j.at = "signIn" /\ Creating(j) /\ org' = org
      BY <2>2 DEF SignIn, Running, Creating, tables
    <3>2. j.req.who \in Emails
      BY <1>0, <3>1, Forms DEF JobSound, Reach
    <3> QED
      BY <1>1, <1>2, <1>3, <2>2, <3>1, <3>2 DEF MakerKnows
  <2>3. CASE Assign(w) /\ member'[j.req.who][j.req.at].role # "none" /\ x = <<"invite", j.req.who>>
    <3>1. j.at = "assign" /\ j.req.who \in Emails /\ j.req.at \in Stores /\ user[j.req.who].made
      BY <1>0, <1>3, <2>3, Forms DEF Assign, Running, JobSound, Reach, InviterKnows
    <3>2. Placed(x[2])' /\ user'[x[2]].made /\ x[2] \in accounts'
      BY <1>2, <1>6, <2>3, <3>1 DEF Placed, OnStaff
    <3> QED
      BY <2>3, <3>2
  <2> QED
    BY <1>7, <2>1, <2>2, <2>3, WelcomedBy
<1>8. ASSUME NEW v \in Workers
      PROVE  MakerKnows(job[v])'
  <2>1. SUFFICES ASSUME Creating(job'[v]), NEW e, e = job'[v].req.who
        PROVE  /\ e \in accounts' /\ <<"register", e>> \notin welcomed'
               /\ job'[v].at # "insertUser" => user'[e].made
               /\ job'[v].at \in {"insertTrial", "signIn"} => Placed(e)'
               /\ job'[v].at = "signIn" => org'[e] \in {"live", "lapsed"}
    BY DEF MakerKnows, Placed, OnStaff, Creating
  <2>2. CASE v # w
    <3>1. job'[v] = job[v] /\ job[v].req.who = e /\ MakerKnows(job[v]) /\ e \in accounts
      BY <1>0, <2>1, <2>2 DEF People, MakerKnows
    <3>2. e \in Emails /\ (Creating(j) => j.req.who # e)
      BY <2>1, <2>2, <3>1 DEF People, Typed, TypeOK
    <3>3. <<"register", e>> \notin welcomed'
      <4>1. SignIn(w) => Creating(j)
        BY DEF SignIn, Running, Creating
      <4> QED
        BY <2>1, <3>1, <3>2, <4>1, WelcomedBy DEF MakerKnows
    <3> QED
      BY <1>1, <1>2, <1>5, <2>1, <3>1, <3>2, <3>3 DEF MakerKnows
  <2>3. CASE v = w
    <3>1. /\ job'[w].req = j.req /\ j.req.who = e /\ e \in Emails
          /\ \/ CreateAccount(w) /\ job'[w].at = "insertUser"
             \/ Creating(j) /\ job'[w].at # "insertUser"
      BY <2>1, <2>3, CreatorsStart
    <3>2. job'[w].at # "idle" /\ ~SignIn(w)
      BY <2>1, <2>3, IdleAt, <1>0 DEF Creating, SignIn, Finish
    <3>3. e \in accounts' /\ <<"register", e>> \notin welcomed'
      <4>1. CASE CreateAccount(w)
        <5>1. e \in accounts' \ accounts
          BY <1>1, <3>1, <3>2, <4>1
        <5>2. <<"register", e>> \notin welcomed
          BY <5>1 DEF People
        <5> QED
          BY <3>2, <5>1, <5>2, WelcomedBy
      <4>2. CASE Creating(j)
        <5>1. e \in accounts' /\ <<"register", e>> \notin welcomed
          BY <1>1, <1>3, <3>1, <4>2 DEF MakerKnows
        <5> QED
          BY <3>2, <5>1, WelcomedBy
      <4> QED
        BY <3>1, <4>1, <4>2
    <3>4. job'[w].at # "insertUser" => user'[e].made
      <4>1. CASE InsertUser(w)
        BY <3>1, <4>1, MadeOnce
      <4>2. CASE ~InsertUser(w) /\ job'[w].at # "insertUser"
        <5>0. /\ Creating(j)
              /\ job'[w].at \in {"insertStore", "insertManager", "insertTrial", "signIn"}
          <6>1. job'[w].at # "insertOrganization"
            BY <4>2, StepComes DEF Comes
          <6> QED
            BY <2>1, <2>3, <3>1, <4>2, <6>1 DEF Creating
        <5>1. \/ InsertOrganization(w) \/ InsertStore(w) \/ InsertManager(w) \/ InsertTrial(w)
              \/ SubscriptionGuard(w) \/ UsageLimitGuard(w)
          BY <5>0, StepComes DEF Comes
        <5>2. j.at # "insertUser"
          BY <5>1 DEF InsertOrganization, InsertStore, InsertManager, InsertTrial, SubscriptionGuard,
             UsageLimitGuard, Running
        <5> QED
          BY <1>2, <1>3, <3>1, <5>0, <5>2 DEF MakerKnows
      <4> QED
        BY <4>1, <4>2
    <3>5. job'[w].at \in {"insertTrial", "signIn"} => Placed(e)'
      <4>1. CASE job'[w].at = "insertTrial"
        <5>1. InsertManager(w) /\ j.at = "insertManager"
          BY <4>1, StepComes DEF Comes, InsertManager, Running
        <5>2. j.req.kind = "register" /\ j.store \in Stores
          BY <1>0, <3>1, <4>1, <5>1 DEF Creating, JobRow
        <5>3. CASE store[j.store].state # "open"
          <6>1. job' = [job EXCEPT ![w] = Idle]
            BY <5>1, <5>3 DEF InsertManager, Refuse, Finish
          <6>2. job'[w].at = "idle"
            BY <1>0, <6>1, IdleAt
          <6> QED
            BY <3>2, <6>2
        <5>4. CASE store[j.store].state = "open"
          <6>1. member' = [member EXCEPT ![e][j.store] =
                             [role |-> "admin", rights |-> "none", row |-> 1]]
            BY <3>1, <5>1, <5>2, <5>4 DEF InsertManager, Newcomer
          <6>2. \E s \in Stores : member'[e][s].role # "none"
            BY <3>1, <5>2, <6>1 DEF Typed, TypeOK
          <6> QED
            BY <6>2 DEF Placed, OnStaff
        <5> QED
          BY <5>3, <5>4
      <4>2. CASE job'[w].at = "signIn"
        <5>1. j.at = "insertTrial" /\ Creating(j)
          BY <4>2, StepComes DEF Comes, InsertTrial, Running, Creating
        <5> QED
          BY <1>2, <1>3, <3>1, <5>1 DEF MakerKnows
      <4> QED
        BY <4>1, <4>2
    <3>6. job'[w].at = "signIn" => org'[e] \in {"live", "lapsed"}
      BY <3>1, StepComes DEF Comes, InsertTrial, Newcomer, Typed, TypeOK
    <3> QED
      BY <2>3, <3>1, <3>3, <3>4, <3>5, <3>6
  <2> QED
    BY <2>2, <2>3
<1>9. ASSUME NEW v \in Workers
      PROVE  InviterKnows(job[v])'
  <2>1. SUFFICES ASSUME job'[v].at \in {"findAssignment", "assign"}
        PROVE  user'[job'[v].req.who].made
    BY DEF InviterKnows
  <2>2. CASE v # w
    <3>1. job'[v] = job[v] /\ user[job[v].req.who].made
      BY <1>0, <2>1, <2>2 DEF People, InviterKnows
    <3>2. job[v].req.who \in Emails
      BY <2>1, <3>1, Forms DEF Typed, JobSound, Reach
    <3> QED
      BY <1>2, <3>1, <3>2
  <2>3. CASE v = w
    <3>1. /\ job'[w].req = j.req
          /\ FindInvitee(w) \/ FindAssignment(w) \/ InsertUser(w)
      BY <2>1, <2>3, StepComes DEF Comes
    <3>2. j.req.who \in Emails
      BY <1>0, <3>1, Forms DEF JobSound, Reach, FindInvitee, FindAssignment, InsertUser, Running
    <3>3. CASE FindInvitee(w)
      <4>1. user[j.req.who].made
        <5>1. CASE ~user[j.req.who].made
          <6>1. job' = [job EXCEPT ![w] = [j EXCEPT !.at = "createAccount"]]
            BY <3>3, <5>1 DEF FindInvitee, Reads, Continue, Newcomer
          <6>2. job'[w].at = "createAccount"
            BY <1>0, <6>1 DEF JobRow
          <6> QED
            BY <2>1, <2>3, <6>2
        <5> QED
          BY <5>1
      <4> QED
        BY <1>2, <2>3, <3>1, <3>2, <4>1
    <3>4. CASE FindAssignment(w)
      BY <1>2, <1>3, <2>3, <3>1, <3>2, <3>4 DEF FindAssignment, Running, InviterKnows
    <3>5. CASE InsertUser(w)
      BY <2>3, <3>1, <3>2, <3>5, MadeOnce
    <3> QED
      BY <3>1, <3>3, <3>4, <3>5
  <2> QED
    BY <2>2, <2>3
<1>10. ASSUME NEW u \in Workers, NEW v \in Workers, u # v, Creating(job'[u]), Creating(job'[v])
       PROVE  job'[u].req.who # job'[v].req.who
  <2>1. ASSUME NEW x \in Workers \ {w}, Creating(job'[x]), Creating(job'[w])
        PROVE  job'[x].req.who # job'[w].req.who
    <3>1. job'[x] = job[x] /\ job[x].req.who \in accounts
      BY <1>0, <2>1 DEF People, MakerKnows
    <3>2. CASE CreateAccount(w)
      <4>1. job'[w].at # "idle" /\ job'[w].req = j.req
        BY <2>1, CreatorsStart DEF Creating
      <4> QED
        BY <1>1, <3>1, <3>2, <4>1
    <3>3. CASE Creating(j)
      BY <2>1, <3>1, <3>3, CreatorsStart DEF People
    <3> QED
      BY <2>1, <3>2, <3>3, CreatorsStart
  <2>2. CASE u # w /\ v # w
    BY <1>0, <1>10, <2>2 DEF People
  <2> QED
    BY <1>10, <2>1, <2>2
<1> QED
  BY <1>6, <1>7, <1>8, <1>9, <1>10 DEF People, Placed, OnStaff, MakerKnows, InviterKnows, Creating

\* Steps that change no table and begin no registration keep it too.
LEMMA PeopleStay ==
    ASSUME Typed, People, UNCHANGED <<tables, history>>,
           \A v \in Workers : Creating(job'[v]) \/ job'[v].at \in {"findAssignment", "assign"}
                                => job'[v] = job[v]
    PROVE  People'
<1>1. UNCHANGED <<accounts, user, member, org, welcomed, dismissed>>
  BY DEF tables, history
<1>2. \A e : Placed(e)' <=> Placed(e)
  BY <1>1 DEF Placed, OnStaff
<1>3. ASSUME NEW v \in Workers PROVE InviterKnows(job[v])'
  BY <1>1 DEF InviterKnows, People
<1>4. ASSUME NEW v \in Workers PROVE MakerKnows(job[v])'
  <2>1. CASE Creating(job'[v])
    <3>1. job'[v] = job[v] /\ MakerKnows(job[v])
      BY <2>1 DEF People
    <3> QED
      BY <1>1, <2>1, <3>1 DEF MakerKnows, Placed, OnStaff, Creating
  <2>2. CASE ~Creating(job'[v])
    BY <2>2 DEF MakerKnows, Creating
  <2> QED
    BY <2>1, <2>2
<1> QED
  BY <1>1, <1>2, <1>3, <1>4 DEF People, Creating

\* A request that dies takes nothing back.
LEMMA BreakPeople ==
    ASSUME Typed, People, NEW w \in Workers, Break(w)
    PROVE  People'
<1>1. /\ \A v \in Workers \ {w} : job'[v] = job[v]
      /\ job'[w].at = "idle" /\ UNCHANGED <<tables, history>>
  BY BreakTyped, Onward, IdleAt DEF Break
<1> QED
  BY <1>1, PeopleStay DEF Creating

\* A request that comes in has made no account yet.
LEMMA BeginPeople ==
    ASSUME Typed, People, NEW w \in Workers, NEW r \in Requests, Begin(w, r)
    PROVE  People'
<1>1. /\ \A v \in Workers \ {w} : job'[v] = job[v]
      /\ job'[w].at \in {"tenant", "findUser", "findInvitee", "findEmail", "findLink", "findSelf"}
      /\ UNCHANGED <<tables, history>>
  BY BeginTyped DEF Public, Self, Entry
<1> QED
  BY <1>1, PeopleStay DEF Creating

\* Neither time nor the plan touches the accounts.
LEMMA OutsidePeople ==
    ASSUME Typed, People, \/ \E l \in Links : Expire(l)
                          \/ \E e \in Emails : Lapse(e)
                          \/ UNCHANGED vars
    PROVE  People'
<1>1. /\ UNCHANGED <<job, accounts, user, member, welcomed, dismissed>>
      /\ \A e \in Emails : org[e] \in {"live", "lapsed"} => org'[e] \in {"live", "lapsed"}
  <2>1. CASE \E l \in Links : Expire(l)
    BY <2>1 DEF Expire, tables, history
  <2>2. CASE \E e \in Emails : Lapse(e)
    BY <2>2 DEF Lapse, history, Typed, TypeOK
  <2>3. CASE UNCHANGED vars
    BY <2>3 DEF vars, tables, history
  <2> QED
    BY <2>1, <2>2, <2>3
<1>2. \A e \in accounts : e \in Emails
  BY DEF Typed, TypeOK
<1>3. \A v \in Workers : MakerKnows(job[v])' /\ InviterKnows(job[v])'
  BY <1>1, <1>2 DEF MakerKnows, InviterKnows, People, Placed, OnStaff, Creating
<1> QED
  BY <1>1, <1>2, <1>3 DEF People, Placed, OnStaff, Creating

\* The founder has an account, a store and a plan.
LEMMA InitPeople == Init => People
<1> SUFFICES ASSUME Init PROVE People
  OBVIOUS
<1>1. accounts = {Founder} /\ welcomed = {} /\ \A w \in Workers : job[w] = Idle
  BY DEF Init
<1>2. \A e \in Emails : user[e].made => e = Founder
  BY DEF Init, Nobody
<1> QED
  BY <1>1, <1>2, IdleAt DEF People, MakerKnows, InviterKnows, Creating

\* Every step keeps what is known of the accounts.
LEMMA NextPeople == Typed /\ People /\ [Next]_vars => People'
  BY StepPeople, BreakPeople, BeginPeople, OutsidePeople DEF Next, Closed

\* Whoever was told that the registration or the invitation succeeded can sign
\* in and has a store, unless taken off it; a registration has its trial.
THEOREM WelcomeHolds == Spec => []WelcomedCanWork
<1>1. Typed /\ People => WelcomedCanWork
  <2> SUFFICES ASSUME Typed, People, NEW x \in welcomed
      PROVE  /\ CanLogin(x[2]) \/ \E s \in Stores : <<x[2], s>> \in dismissed
             /\ x[1] = "register" => org[x[2]] \in {"live", "lapsed"}
    BY DEF WelcomedCanWork
  <2> QED
    BY DEF People, Placed, OnStaff, CanLogin, StoresOfUser
<1>2. Typed /\ People /\ [Next]_vars => (Typed /\ People)'
  BY NextTyped, NextPeople
<1>3. Init => Typed /\ People
  BY InitTyped, InitPeople
<1> QED
  BY <1>1, <1>2, <1>3, PTL DEF Spec

-----------------------------------------------------------------------------
(* A store is used by nobody before its first admin.                       *)

\* A handler runs the statement it is at.
LEMMA Proceeds ==
    ASSUME NEW w \in Workers, Step(w)
    PROVE  /\ job[w].at = "tenant" => TenantGuard(w)
           /\ job[w].at = "subscription" => SubscriptionGuard(w)
           /\ job[w].at = "count" => UsageLimitGuard(w)
           /\ job[w].at = "insertUser" => InsertUser(w)
           /\ job[w].at = "insertOrganization" => InsertOrganization(w)
           /\ job[w].at = "insertStore" => InsertStore(w)
           /\ job[w].at = "insertManager" => InsertManager(w)
           /\ job[w].at = "insertTrial" => InsertTrial(w)
           /\ job[w].at = "assign" => Assign(w)
           /\ job[w].at = "selectUser" => SelectUser(w)
           /\ job[w].at = "updateUser" => UpdateUser(w)
<1> DEFINE S == {"tenant", "subscription", "count", "insertUser", "insertOrganization",
             "insertStore", "insertManager",
                 "insertTrial", "assign", "selectUser", "updateUser"}
<1>1. job[w].at \in S /\ Guards(w) =>
        \/ job[w].at = "tenant" /\ TenantGuard(w)
        \/ job[w].at = "subscription" /\ SubscriptionGuard(w)
        \/ job[w].at = "count" /\ UsageLimitGuard(w)
  BY DEF Guards, TenantGuard, SubscriptionGuard, UsageLimitGuard, Running
<1>2. job[w].at \in S /\ Passwords(w) =>
        \/ job[w].at = "selectUser" /\ SelectUser(w)
        \/ job[w].at = "updateUser" /\ UpdateUser(w)
  BY DEF Passwords, FindEmail, FindLink, SetPassword, FindSelf, SelectUser, UpdateUser, Running
<1>3. job[w].at \in S /\ Register(w) =>
        \/ job[w].at = "insertOrganization" /\ InsertOrganization(w)
        \/ job[w].at = "insertTrial" /\ InsertTrial(w)
  BY DEF Register, FindUser, InsertOrganization, InsertTrial, SignIn, Running
<1>4. job[w].at \in S /\ Staff(w) =>
        \/ job[w].at = "insertUser" /\ InsertUser(w)
        \/ job[w].at = "assign" /\ Assign(w)
  BY DEF Staff, NewAccount, CreateAccount, InsertUser, FindInvitee, FindAssignment, Assign, FindMember,
     SelectMember, UpdateMember, InsertMember, DeleteMember, Running
<1>5. job[w].at \in S /\ Premises(w) =>
        \/ job[w].at = "insertStore" /\ InsertStore(w)
        \/ job[w].at = "insertManager" /\ InsertManager(w)
  BY DEF Premises, InsertStore, InsertManager, FindStore, DeleteStore, SaveStore, InsertProduct,
     FindProduct, SaveProduct, Running
<1> QED
  BY <1>1, <1>2, <1>3, <1>4, <1>5 DEF Step

\* A request is past its guards only for a store it works in.
LEMMA InsideBy ==
    ASSUME Typed, NEW w \in Workers, Step(w), Inside(job'[w])
    PROVE  /\ job'[w].req = job[w].req
           /\ Inside(job[w]) \/ OnStaff(job[w].req.by, job[w].req.at)
<1> DEFINE j == job[w]
<1>1. job'[w].req = j.req /\ j.at # "idle" /\ job \in [Workers -> JobRow]
  BY StepMoves, StepComes DEF Comes, Inside, Moves, Typed
<1>2. CASE j.at = "tenant"
  <2>1. TenantGuard(w)
    BY <1>2, Proceeds
  <2>2. CASE member[j.req.by][j.req.at].role = "none"
    <3>1. job' = [job EXCEPT ![w] = Idle]
      BY <2>1, <2>2 DEF TenantGuard, Refuse, Finish
    <3>2. job'[w].at = "idle"
      BY <1>1, <3>1, IdleAt
    <3> QED
      BY <3>2 DEF Inside
  <2> QED
    BY <1>1, <2>2 DEF OnStaff
<1>3. CASE j.at # "tenant"
  BY <1>1, <1>3 DEF Inside
<1> QED
  BY <1>1, <1>2, <1>3

\* Who comes onto the staff of a store.
LEMMA StaffBy ==
    ASSUME Typed, NEW w \in Workers, Step(w), NEW e \in Emails, NEW s \in Stores, OnStaff(e, s)'
    PROVE  /\ ~(DeleteStore(w) /\ s = job[w].req.at)
           /\ \/ OnStaff(e, s)
              \/ /\ store[s].state = "open" /\ UNCHANGED store
                 /\ \/ Inside(job[w]) /\ s = job[w].req.at
                    \/ InsertManager(w) /\ s = job[w].store
<1> DEFINE j == job[w]
<1>0. /\ member \in [Emails -> [Stores -> MemberRow]] /\ JobSound(j) /\ j \in JobRow
      /\ j.at # "idle" => j.req \in Requests
  BY DEF Typed, TypeOK, JobSound
<1>1. CASE DeleteStore(w)
  BY <1>0, <1>1 DEF DeleteStore, OnStaff, NoMember
<1>2. CASE Assign(w)
  <2>1. Inside(j) /\ ~DeleteStore(w)
    BY <1>0, <1>2, Forms DEF Assign, Running, JobSound, Reach, DeleteStore, Inside, Public, Self
  <2>2. CASE OnStaff(e, s) \/ UNCHANGED member
    BY <2>1, <2>2 DEF OnStaff
  <2>3. CASE ~(OnStaff(e, s) \/ UNCHANGED member)
    <3>1. /\ store[j.req.at].state = "open" /\ UNCHANGED store
          /\ member' = [member EXCEPT ![j.req.who][j.req.at] =
               [role |-> j.req.role, rights |-> DefaultRights(j.req.role),
                row |-> member[j.req.who][j.req.at].row + 1]]
      BY <1>2, <2>3 DEF Assign, Refuse, tables, Newcomer
    <3>2. s = j.req.at
      BY <1>0, <2>3, <3>1 DEF OnStaff
    <3> QED
      BY <2>1, <3>1, <3>2
  <2> QED
    BY <2>2, <2>3
<1>3. CASE UpdateMember(w)
  <2>1. ~DeleteStore(w)
    BY <1>3 DEF UpdateMember, Running, DeleteStore
  <2> QED
    BY <1>0, <1>3, <2>1 DEF UpdateMember, RowStays, OnStaff
<1>4. CASE InsertMember(w)
  <2>1. Inside(j) /\ ~DeleteStore(w)
    BY <1>0, <1>4 DEF InsertMember, Running, DeleteStore, Inside, JobSound, Reach, Public, Self
  <2> QED
    BY <1>0, <1>4, <2>1 DEF InsertMember, OnStaff
<1>5. CASE DeleteMember(w)
  <2>1. ~DeleteStore(w)
    BY <1>5 DEF DeleteMember, Running, DeleteStore
  <2> QED
    BY <1>0, <1>5, <2>1 DEF DeleteMember, OnStaff, NoMember
<1>6. CASE InsertManager(w)
  <2>1. ~DeleteStore(w)
    BY <1>6 DEF InsertManager, Running, DeleteStore
  <2> QED
    BY <1>0, <1>6, <2>1 DEF InsertManager, Refuse, tables, OnStaff
<1>7. CASE UNCHANGED member /\ ~DeleteStore(w)
  BY <1>7 DEF OnStaff
<1> QED
  BY <1>1, <1>2, <1>3, <1>4, <1>5, <1>6, <1>7, StepWrites DEF Writes

\* Which memberships and stores end.
LEMMA EndedBy ==
    ASSUME Typed, NEW w \in Workers, Step(w)
    PROVE  /\ closed' = closed \/ (DeleteStore(w) /\ Inside(job[w]) /\ closed' = closed \cup
                {job[w].req.at})
           /\ \A e \in Emails, s \in Stores : <<e, s>> \in dismissed' =>
                <<e, s>> \in dismissed \/ (Inside(job[w]) /\ s = job[w].req.at)
           /\ \A s \in Stores : store'[s].state # store[s].state =>
                \/ InsertStore(w) /\ store[s].state = "none" /\ store'[s].state = "open"
                \/ DeleteStore(w) /\ Inside(job[w]) /\ s = job[w].req.at /\ store'[s].state = "gone"
                \/ SaveStore(w) /\ Inside(job[w]) /\ s = job[w].req.at /\ store'[s].state = "open"
<1> DEFINE j == job[w]
<1>0. /\ store \in [Stores -> StoreRow] /\ JobSound(j) /\ j \in JobRow
      /\ j.at # "idle" => j.req \in Requests
  BY DEF Typed, TypeOK, JobSound
<1>1. DeleteMember(w) \/ DeleteStore(w) \/ SaveStore(w) => Inside(j)
  BY <1>0 DEF DeleteMember, DeleteStore, SaveStore, Running, JobSound, Reach, Inside, Public, Self
<1>2. closed' = closed \/ (DeleteStore(w) /\ Inside(j) /\ closed' = closed \cup {j.req.at})
  BY <1>1, StepWrites DEF Writes, DeleteStore
<1>3. ASSUME NEW e \in Emails, NEW s \in Stores, <<e, s>> \in dismissed'
      PROVE  <<e, s>> \in dismissed \/ (Inside(j) /\ s = j.req.at)
  <2>1. CASE Assign(w)
    BY <1>3, <2>1 DEF Assign, Refuse, history
  <2>2. CASE DeleteMember(w)
    BY <1>1, <1>3, <2>2 DEF DeleteMember
  <2>3. CASE DeleteStore(w)
    BY <1>1, <1>3, <2>3 DEF DeleteStore
  <2> QED
    BY <1>3, <2>1, <2>2, <2>3, StepWrites DEF Writes
<1>4. ASSUME NEW s \in Stores, store'[s].state # store[s].state
      PROVE  \/ InsertStore(w) /\ store[s].state = "none" /\ store'[s].state = "open"
             \/ DeleteStore(w) /\ Inside(j) /\ s = j.req.at /\ store'[s].state = "gone"
             \/ SaveStore(w) /\ Inside(j) /\ s = j.req.at /\ store'[s].state = "open"
  <2>1. CASE InsertStore(w)
    <3>1. \/ UNCHANGED store
          \/ \E t \in Stores : /\ store[t].state = "none"
                               /\ store' = [store EXCEPT ![t] = [state |-> "open", owner |-> j.owner]]
      BY <2>1 DEF InsertStore, Refuse, tables
    <3> QED
      BY <1>0, <1>4, <2>1, <3>1
  <2>2. CASE DeleteStore(w)
    BY <1>0, <1>1, <1>4, <2>2 DEF DeleteStore
  <2>3. CASE SaveStore(w)
    BY <1>0, <1>1, <1>4, <2>3 DEF SaveStore
  <2> QED
    BY <1>4, <2>1, <2>2, <2>3, StepWrites DEF Writes
<1> QED
  BY <1>2, <1>3, <1>4

\* What has to do with a store nobody used yet is its first admin alone.
LEMMA UntouchedStays ==
    ASSUME Typed, NEW w \in Workers, Step(w), NEW s \in Stores, Untouched(s),
           ~(InsertManager(w) /\ s = job[w].store)
    PROVE  Untouched(s)'
<1>1. Inside(job[w]) => job[w].req.at # s
  BY DEF Untouched
<1>2. s \notin closed'
  BY <1>1, EndedBy DEF Untouched
<1>3. ASSUME NEW e \in Emails PROVE ~OnStaff(e, s)' /\ <<e, s>> \notin dismissed'
  BY <1>1, EndedBy, StaffBy DEF Untouched
<1>4. ASSUME NEW v \in Workers, Inside(job'[v]) PROVE job'[v].req.at # s
  <2>1. CASE v # w
    <3>1. job'[v] = job[v]
      BY <2>1, StepMoves, Onward DEF outside
    <3> QED
      BY <1>4, <3>1 DEF Untouched
  <2>2. CASE v = w
    <3>1. job[w].at # "idle" /\ job[w].req \in Requests
      BY StepMoves DEF Moves, Typed, JobSound
    <3>2. job[w].req.by \in Emails
      BY <3>1, Forms
    <3> QED
      BY <1>1, <1>4, <2>2, <3>2, InsideBy DEF Untouched
  <2> QED
    BY <2>1, <2>2
<1> QED
  BY <1>2, <1>3, <1>4 DEF Untouched, OnStaff, Inside

\* A statement keeps a store closed to everybody until its first admin.
LEMMA StepOpened ==
    ASSUME Typed, Opened, NEW w \in Workers, Step(w)
    PROVE  Opened'
<1> DEFINE j == job[w]
<1>0. /\ JobSound(j) /\ j \in JobRow /\ job \in [Workers -> JobRow] /\ j.at # "idle"
      /\ job' \in [Workers -> JobRow]
      /\ \A v \in Workers \ {w} : job'[v] = job[v]
  BY StepMoves, Onward DEF Typed, outside, Moves
<1>1. ASSUME NEW s \in Stores, store'[s].state = "none" PROVE Untouched(s)'
  <2>1. store[s].state = "none" /\ Untouched(s)
    BY <1>1, StoresStay DEF Opened
  <2>2. ~(InsertManager(w) /\ s = j.store)
    BY <2>1 DEF Opened, InsertManager, Running
  <2> QED
    BY <2>1, <2>2, UntouchedStays
<1>2. ASSUME NEW s \in Stores, store'[s].state = "gone" PROVE s \in closed'
  BY <1>2, EndedBy DEF Opened, DeleteStore
<1>3. ASSUME NEW e \in Emails, NEW s \in Stores, OnStaff(e, s)' PROVE store'[s].state = "open"
  <2>1. store[s].state = "open" /\ ~(DeleteStore(w) /\ s = j.req.at)
    BY <1>3, StaffBy DEF Opened
  <2> QED
    BY <2>1, EndedBy
<1>4. store'[First].state # "none"
  BY StoresStay, FirstStore DEF Opened
<1>5. ASSUME NEW v \in Workers, NEW s \in Stores, v # w, job[v].at = "insertManager", s = job[v].store
      PROVE  store'[s].state = "open" /\ Untouched(s)'
  <2>1. store[s].state = "open" /\ Untouched(s)
    BY <1>5 DEF Opened
  <2>2. ~(InsertManager(w) /\ s = j.store)
    BY <1>5 DEF Opened, InsertManager, Running
  <2>3. Untouched(s)'
    BY <2>1, <2>2, UntouchedStays
  <2>4. ~(Inside(j) /\ s = j.req.at)
    BY <2>1 DEF Untouched
  <2> QED
    BY <2>1, <2>3, <2>4, EndedBy
<1>6. ASSUME job'[w].at = "insertManager", NEW s \in Stores, s = job'[w].store
      PROVE  /\ store[s].state = "none" /\ store'[s].state = "open" /\ Untouched(s)'
  <2>1. InsertStore(w)
    BY <1>6, StepComes DEF Comes
  <2>2. j.owner # NoOne
    <3>1. CASE j.owner = NoOne
      <4>1. job' = [job EXCEPT ![w] = Idle]
        BY <2>1, <3>1 DEF InsertStore, Refuse, Finish
      <4> QED
        BY <1>0, <1>6, <4>1, IdleAt
    <3> QED
      BY <3>1
  <2>3. PICK t \in Stores : /\ store[t].state = "none"
                            /\ store' = [store EXCEPT ![t] = [state |-> "open", owner |-> j.owner]]
                            /\ job' = [job EXCEPT ![w] = [[j EXCEPT !.store = t]
                                                EXCEPT !.at = "insertManager"]]
    BY <2>1, <2>2 DEF InsertStore, Continue
  <2>4. s = t
    BY <1>0, <1>6, <2>3 DEF JobRow
  <2>5. ~InsertManager(w)
    BY <2>1 DEF InsertStore, InsertManager, Running
  <2>6. Untouched(s)'
    BY <2>3, <2>4, <2>5, UntouchedStays DEF Opened
  <2> QED
    BY <2>3, <2>4, <2>6 DEF Typed, TypeOK
<1>7. ASSUME NEW v \in Workers, job'[v].at = "insertManager"
      PROVE  /\ store'[job'[v].store].state = "open" /\ Untouched(job[v].store)'
             /\ \A u \in Workers \ {v} : job'[u].at = "insertManager" => job'[u].store # job'[v].store
  <2> PICK s \in Stores : s = job'[v].store
    BY <1>0 DEF JobRow
  <2>1. store'[s].state = "open" /\ Untouched(s)'
    BY <1>0, <1>5, <1>6, <1>7
  <2>2. ASSUME NEW u \in Workers \ {v}, job'[u].at = "insertManager" PROVE job'[u].store # s
    <3>1. CASE u # w /\ v # w
      BY <1>0, <1>7, <2>2, <3>1 DEF Opened
    <3>2. ASSUME NEW x \in Workers \ {w}, job'[x].at = "insertManager", job'[w].at = "insertManager"
          PROVE  job'[x].store # job'[w].store
      <4>1. store[job'[x].store].state = "open"
        BY <1>0, <3>2 DEF Opened
      <4>2. store[job'[w].store].state = "none" /\ job'[w].store \in Stores
        BY <1>0, <1>6, <3>2 DEF JobRow
      <4> QED
        BY <4>1, <4>2
    <3> QED
      BY <1>7, <2>2, <3>1, <3>2
  <2> QED
    BY <2>1, <2>2 DEF Untouched, OnStaff, Inside
<1> QED
  BY <1>1, <1>2, <1>3, <1>4, <1>7 DEF Opened, Untouched, OnStaff, Inside

\* A request that begins or dies has nothing to do with a store.
LEMMA OpenedStays ==
    ASSUME Typed, Opened, UNCHANGED <<store, member, dismissed, closed>>,
           \A v \in Workers : Inside(job'[v]) \/ job'[v].at = "insertManager" => job'[v] = job[v]
    PROVE  Opened'
<1>1. ASSUME NEW s, Untouched(s) PROVE Untouched(s)'
  BY <1>1 DEF Untouched, OnStaff, Inside
<1>2. ASSUME NEW v \in Workers, job'[v].at = "insertManager"
      PROVE  /\ store'[job'[v].store].state = "open" /\ Untouched(job[v].store)'
             /\ \A u \in Workers \ {v} : job'[u].at = "insertManager" => job'[u].store # job'[v].store
  <2> PICK s : s = job'[v].store
    OBVIOUS
  <2>1. job'[v] = job[v] /\ store'[s].state = "open" /\ Untouched(s)
    BY <1>2 DEF Opened
  <2>2. Untouched(s)'
    BY <1>1, <2>1
  <2>3. \A u \in Workers \ {v} : job'[u].at = "insertManager" => job'[u].store # s
    BY <1>2, <2>1 DEF Opened
  <2> QED
    BY <2>1, <2>2, <2>3 DEF Untouched, OnStaff, Inside
<1> QED
  BY <1>1, <1>2 DEF Opened, OnStaff

\* Every step keeps it.
LEMMA NextOpened == Typed /\ Opened /\ [Next]_vars => Opened'
<1> SUFFICES ASSUME Typed, Opened, [Next]_vars PROVE Opened'
  OBVIOUS
<1>1. ASSUME NEW w \in Workers, Break(w) PROVE Opened'
  <2>1. /\ \A v \in Workers \ {w} : job'[v] = job[v]
        /\ job'[w].at = "idle" /\ UNCHANGED <<tables, history>>
    BY <1>1, BreakTyped, Onward, IdleAt DEF Break
  <2> QED
    BY <2>1, OpenedStays DEF tables, history, Inside
<1>2. ASSUME NEW w \in Workers, NEW r \in Requests, Begin(w, r) PROVE Opened'
  <2>1. /\ \A v \in Workers \ {w} : job'[v] = job[v]
        /\ job'[w].at \in {"tenant", "findUser", "findInvitee", "findEmail", "findLink", "findSelf"}
        /\ job'[w].req = r /\ (job'[w].at # "tenant" => r.kind \in Public \cup Self)
        /\ UNCHANGED <<tables, history>>
    BY <1>2, BeginTyped DEF Public, Self, Entry
  <2> QED
    BY <2>1, OpenedStays DEF tables, history, Inside
<1>3. CASE \/ \E l \in Links : Expire(l)
           \/ \E e \in Emails : Lapse(e)
           \/ UNCHANGED vars
  <2>1. UNCHANGED <<store, member, dismissed, closed, job>>
    BY <1>3 DEF Expire, Lapse, vars, tables, history
  <2> QED
    BY <2>1, OpenedStays
<1> QED
  BY <1>1, <1>2, <1>3, StepOpened DEF Next, Closed

\* At the start one store is open and the others were never used.
LEMMA InitOpened == Init => Opened
<1> SUFFICES ASSUME Init PROVE Opened
  OBVIOUS
<1>1. /\ \A s \in Stores : store[s].state = IF s = First THEN "open" ELSE "none"
      /\ \A e \in Emails, s \in Stores : OnStaff(e, s) => s = First
      /\ closed = {} /\ dismissed = {} /\ \A w \in Workers : job[w].at = "idle"
  BY IdleAt DEF Init, OnStaff, NoMember, NoStore
<1> QED
  BY <1>1, FirstStore DEF Opened, Untouched, Inside

-----------------------------------------------------------------------------
(* One request at a time.                                                  *)

\* While at most one request is in progress the other workers are idle.
LEMMA OneAtATime ==
    ASSUME Typed, crowd <= 1, NEW w \in Workers, job[w].at # "idle", NEW v \in Workers, v # w
    PROVE  job[v].at = "idle"
<1> SUFFICES ASSUME job[v].at # "idle" PROVE FALSE
  OBVIOUS
<1>1. IsFiniteSet(Busy) /\ {v} \cup {w} \in SUBSET Busy
  <2>1. Busy \in SUBSET Workers /\ IsFiniteSet(Workers)
    BY TenantAssumption DEF Busy
  <2>2. {v} \cup {w} \in SUBSET Busy
    BY DEF Busy, Running
  <2> QED
    BY <2>1, <2>2, FS_Subset
<1>2. Cardinality({v} \cup {w}) = 2
  <2>1. IsFiniteSet({v}) /\ Cardinality({v}) = 1 /\ w \notin {v}
    BY FS_Singleton
  <2>2. ASSUME NEW V, IsFiniteSet(V), w \notin V PROVE Cardinality(V \cup {w}) = Cardinality(V) + 1
    BY <2>2, FS_AddElement
  <2> QED
    BY <2>1, <2>2
<1>3. 2 <= Cardinality(Busy) /\ Cardinality(Busy) \in Nat
  BY <1>1, <1>2, FS_Subset, FS_CardinalityType
<1>4. crowd \in Nat
  BY TenantAssumption, FS_CardinalityType DEF Typed, TypeOK
<1> QED
  BY <1>3, <1>4 DEF Typed

\* What a lone request read is still so at its next statement.
LEMMA StepAlone ==
    ASSUME Typed, Removed, crowd <= 1, NEW w \in Workers, Step(w)
    PROVE  Alone(job[w])'
<1> DEFINE j == job[w]
<1>0. /\ JobSound(j) /\ j \in JobRow /\ job \in [Workers -> JobRow] /\ j.at # "idle"
      /\ j.req \in Requests /\ Alone(j)
      /\ member \in [Emails -> [Stores -> MemberRow]]
  BY StepMoves DEF Typed, TypeOK, Moves, JobSound, Removed
<1>1. CASE FindMember(w)
  <2>1. /\ j.at = "findMember" /\ j.req.who \in Emails /\ j.req.at \in Stores
        /\ j.req.kind \in {"changeRole", "setRights", "dismiss"} /\ UNCHANGED member
    BY <1>0, <1>1, Forms DEF FindMember, Running, JobSound, Reach, Refuse, Reads, tables
  <2> DEFINE m == member[j.req.who][j.req.at]
  <2>2. CASE job' = [job EXCEPT ![w] = Idle]
    <3>1. job'[w].at = "idle"
      BY <1>0, <2>2, IdleAt
    <3> QED
      BY <3>1 DEF Alone, MemberStatements
  <2>3. CASE job' # [job EXCEPT ![w] = Idle]
    <3>1. m.role # "none" /\ m \in MemberRow
      BY <1>0, <1>1, <2>1, <2>3 DEF FindMember, Refuse, Finish
    <3>2. /\ job'[w].req = j.req /\ job'[w].seen.row = m.row
          /\ job'[w].at \in {"selectMember", "deleteMember"}
      <4>1. CASE j.req.kind = "changeRole"
        <5>1. job' = [job EXCEPT ![w] = [[j EXCEPT !.seen = WithRole(m, j.req.role)]
                EXCEPT !.at = "selectMember"]]
          BY <1>1, <2>3, <4>1 DEF FindMember, Refuse, Finish, Reads, Continue
        <5> QED
          BY <1>0, <3>1, <5>1 DEF JobRow, WithRole, MemberRow
      <4>2. CASE j.req.kind = "setRights"
        <5>1. job' = [job EXCEPT ![w] = [[j EXCEPT !.seen.role = m.role, !.seen.rights = j.req.rights,
                                                   !.seen.row = m.row] EXCEPT !.at = "selectMember"]]
          BY <1>1, <2>3, <4>2 DEF FindMember, Refuse, Finish, Reads, Continue
        <5> QED
          BY <1>0, <3>1, <5>1 DEF JobRow, MemberRow
      <4>3. CASE j.req.kind = "dismiss"
        <5>1. job' = [job EXCEPT ![w] = [[j EXCEPT !.seen = m] EXCEPT !.at = "deleteMember"]]
          BY <1>1, <2>3, <4>3 DEF FindMember, Refuse, Finish, Reads, Continue
        <5> QED
          BY <1>0, <3>1, <5>1 DEF JobRow, MemberRow
      <4> QED
        BY <2>1, <4>1, <4>2, <4>3
    <3> QED
      BY <2>1, <3>1, <3>2 DEF Alone, RowStays, MemberStatements
  <2> QED
    BY <2>2, <2>3
<1>2. CASE SelectMember(w)
  <2>1. j.at = "selectMember" /\ RowStays(j) /\ UNCHANGED member
    BY <1>0, <1>2 DEF SelectMember, Running, Alone, MemberStatements, Refuse, Reads, tables
  <2>2. CASE job' = [job EXCEPT ![w] = Idle]
    <3>1. job'[w].at = "idle"
      BY <1>0, <2>2, IdleAt
    <3> QED
      BY <3>1 DEF Alone, MemberStatements
  <2>3. CASE job' # [job EXCEPT ![w] = Idle]
    <3>1. PICK c : job' = [job EXCEPT ![w] = [[j EXCEPT !.cols = c] EXCEPT !.at = "updateMember"]]
      BY <1>2, <2>1, <2>3 DEF SelectMember, Refuse, Finish, Reads, Continue
    <3>2. job'[w].req = j.req /\ job'[w].seen = j.seen /\ job'[w].at = "updateMember"
      BY <1>0, <3>1 DEF JobRow
    <3> QED
      BY <2>1, <3>2 DEF Alone, RowStays, MemberStatements
  <2> QED
    BY <2>2, <2>3
<1>3. CASE FindStore(w)
  <2>1. UNCHANGED store
    BY <1>3 DEF FindStore, Refuse, Reads, tables
  <2>2. CASE job' = [job EXCEPT ![w] = Idle]
    <3>1. job'[w].at = "idle"
      BY <1>0, <2>2, IdleAt
    <3> QED
      BY <3>1 DEF Alone, MemberStatements
  <2>3. CASE job' # [job EXCEPT ![w] = Idle]
    <3>1. /\ store[j.req.at].state = "open"
          /\ job' = [job EXCEPT ![w] = [[j EXCEPT !.owner = store[j.req.at].owner] EXCEPT
               !.at = IF j.req.kind = "removeStore" THEN "deleteStore" ELSE "saveStore"]]
      BY <1>3, <2>3 DEF FindStore, Refuse, Finish, Reads, Continue
    <3>2. job'[w].req = j.req /\ job'[w].at \in {"deleteStore", "saveStore"}
      BY <1>0, <3>1 DEF JobRow
    <3> QED
      BY <2>1, <3>1, <3>2 DEF Alone, MemberStatements
  <2> QED
    BY <2>2, <2>3
<1>4. CASE ~FindMember(w) /\ ~SelectMember(w) /\ ~FindStore(w)
  <2>1. job'[w].at \notin MemberStatements \cup {"saveStore"}
    BY <1>4, StepComes DEF Comes, MemberStatements
  <2> QED
    BY <2>1 DEF Alone
<1> QED
  BY <1>1, <1>2, <1>3, <1>4

\* A statement of a lone request keeps what was removed away.
LEMMA StepRemoved ==
    ASSUME Typed, Opened, Removed, NEW w \in Workers, Step(w)
    PROVE  Removed'
<1> DEFINE j == job[w]
<1>0. crowd' = crowd /\ \A v \in Workers \ {w} : job'[v] = job[v]
  BY StepMoves, Onward DEF outside
<1> SUFFICES ASSUME crowd <= 1
             PROVE  RemovedStaysAway' /\ \A v \in Workers : Alone(job[v])'
  BY <1>0 DEF Removed, Alone, RowStays
<1>1. /\ JobSound(j) /\ j \in JobRow /\ j.at # "idle" /\ j.req \in Requests /\ Alone(j)
      /\ member \in [Emails -> [Stores -> MemberRow]] /\ store \in [Stores -> StoreRow]
      /\ \A d \in dismissed : member[d[1]][d[2]].role = "none"
      /\ \A s \in closed : store[s].state = "gone"
  BY StepMoves DEF Typed, TypeOK, Moves, JobSound, Removed, RemovedStaysAway
<1>2. ASSUME NEW v \in Workers PROVE Alone(job[v])'
  <2>1. CASE v = w
    BY <2>1, StepAlone
  <2>2. CASE v # w
    <3>1. job'[v].at = "idle"
      BY <1>0, <1>1, <2>2, OneAtATime
    <3> QED
      BY <3>1 DEF Alone, MemberStatements
  <2> QED
    BY <2>1, <2>2
<1>3. ASSUME NEW e \in Emails, NEW s \in Stores, <<e,
               s>> \in dismissed' PROVE member'[e][s].role = "none"
  <2>1. CASE Assign(w)
    <3>1. j.req.who \in Emails /\ j.req.at \in Stores
      BY <1>1, <2>1, Forms DEF Assign, Running, JobSound, Reach
    <3>2. CASE UNCHANGED <<member, dismissed>>
      BY <1>1, <1>3, <3>2
    <3>3. CASE ~UNCHANGED <<member, dismissed>>
      <4>1. /\ dismissed' = dismissed \ {<<j.req.who, j.req.at>>}
            /\ \E m : member' = [member EXCEPT ![j.req.who][j.req.at] = m]
        BY <2>1, <3>3 DEF Assign, Refuse, tables, history, Newcomer
      <4>2. <<e, s>> \in dismissed /\ ~(e = j.req.who /\ s = j.req.at)
        BY <1>3, <4>1
      <4> QED
        BY <1>1, <3>1, <4>1, <4>2
    <3> QED
      BY <3>2, <3>3
  <2>2. CASE UpdateMember(w)
    BY <1>1, <1>3, <2>2 DEF UpdateMember, RowStays, history
  <2>3. CASE InsertMember(w)
    BY <1>1, <2>3 DEF InsertMember, Running, Alone, MemberStatements
  <2>4. CASE DeleteMember(w)
    BY <1>1, <1>3, <2>4 DEF DeleteMember, NoMember
  <2>5. CASE InsertManager(w)
    <3> DEFINE f == IF j.req.kind = "register" THEN Newcomer(j) ELSE j.req.by
    <3>1. /\ <<e, s>> \in dismissed /\ Untouched(j.store)
          /\ \/ UNCHANGED member
             \/ member' = [member EXCEPT ![f][j.store] = [role |-> "admin", rights |-> "none",
                  row |-> 1]]
      BY <1>3, <2>5 DEF InsertManager, Running, Refuse, tables, history, Opened
    <3>2. s # j.store
      BY <3>1 DEF Untouched
    <3> QED
      BY <1>1, <3>1, <3>2
  <2>6. CASE DeleteStore(w)
    BY <1>1, <1>3, <2>6 DEF DeleteStore, NoMember
  <2>7. CASE UNCHANGED <<member, dismissed>>
    BY <1>1, <1>3, <2>7
  <2> QED
    BY <2>1, <2>2, <2>3, <2>4, <2>5, <2>6, <2>7, StepWrites DEF Writes
<1>4. ASSUME NEW s \in closed' PROVE store'[s].state = "gone"
  <2>1. CASE DeleteStore(w)
    <3>1. j.req.at \in Stores
      BY <1>1, Forms
    <3>2. CASE s = j.req.at
      BY <1>1, <2>1, <3>1, <3>2 DEF DeleteStore, StoreRow
    <3>3. CASE s # j.req.at
      <4>1. s \in closed /\ store' = [store EXCEPT ![j.req.at].state = "gone"]
        BY <1>4, <2>1, <3>3 DEF DeleteStore
      <4> QED
        BY <1>1, <3>3, <4>1
    <3> QED
      BY <3>2, <3>3
  <2>2. CASE ~DeleteStore(w)
    <3>1. s \in closed /\ store[s].state = "gone"
      BY <1>1, <1>4, <2>2, EndedBy
    <3>2. SaveStore(w) => store[j.req.at].state = "open"
      BY <1>1 DEF SaveStore, Running, Alone
    <3>3. s \in Stores
      BY <3>1 DEF Typed, TypeOK
    <3> QED
      BY <2>2, <3>1, <3>2, <3>3, EndedBy
  <2> QED
    BY <2>1, <2>2
<1>5. dismissed' \subseteq Emails \X Stores
  BY TablesTyped DEF TypeOK
<1>6. RemovedStaysAway'
  BY <1>3, <1>4, <1>5 DEF RemovedStaysAway
<1> QED
  BY <1>2, <1>6

\* Every step keeps what was removed away.
LEMMA NextRemoved == Typed /\ Opened /\ Removed /\ [Next]_vars => Removed'
<1> SUFFICES ASSUME Typed, Opened, Removed, [Next]_vars PROVE Removed'
  OBVIOUS
<1>1. ASSUME crowd' >= crowd, crowd \in Nat, crowd' \in Nat, UNCHANGED <<member, store,
               dismissed, closed>>,
             \A v \in Workers : job'[v].at \in MemberStatements \cup {"saveStore"} => job'[v] = job[v]
      PROVE  Removed'
  <2>1. SUFFICES ASSUME crowd' <= 1
                 PROVE  RemovedStaysAway' /\ \A v \in Workers : Alone(job[v])'
    BY DEF Removed, Alone, RowStays
  <2>2. RemovedStaysAway /\ \A v \in Workers : Alone(job[v])
    BY <1>1, <2>1 DEF Removed
  <2>3. RemovedStaysAway'
    BY <1>1, <2>1, <2>2 DEF RemovedStaysAway
  <2>4. ASSUME NEW v \in Workers PROVE Alone(job[v])'
    BY <1>1, <2>2 DEF Alone, RowStays
  <2> QED
    BY <2>3, <2>4
<1>0. crowd \in Nat
  BY TenantAssumption, FS_CardinalityType DEF Typed, TypeOK
<1>2. ASSUME NEW w \in Workers, Break(w) PROVE Removed'
  <2>1. /\ \A v \in Workers \ {w} : job'[v] = job[v]
        /\ job'[w].at = "idle" /\ UNCHANGED <<tables, history, crowd>>
    BY <1>2, BreakTyped, Onward, IdleAt DEF Break
  <2> QED
    BY <1>0, <1>1, <2>1 DEF tables, history, MemberStatements
<1>3. ASSUME NEW w \in Workers, NEW r \in Requests, Begin(w, r) PROVE Removed'
  <2>1. /\ \A v \in Workers \ {w} : job'[v] = job[v]
        /\ job'[w].at \in {"tenant", "findUser", "findInvitee", "findEmail", "findLink", "findSelf"}
        /\ UNCHANGED <<tables, history>> /\ crowd' >= crowd /\ crowd' \in Nat
    BY <1>3, BeginTyped DEF Public, Self, Entry
  <2> QED
    BY <1>0, <1>1, <2>1 DEF tables, history, MemberStatements
<1>4. CASE \/ \E l \in Links : Expire(l)
           \/ \E e \in Emails : Lapse(e)
           \/ UNCHANGED vars
  <2>1. UNCHANGED <<store, member, dismissed, closed, job, crowd>>
    BY <1>4 DEF Expire, Lapse, vars, tables, history, outside
  <2> QED
    BY <1>0, <1>1, <2>1
<1> QED
  BY <1>2, <1>3, <1>4, StepRemoved DEF Next, Closed

\* Nothing was removed yet.
LEMMA InitRemoved == Init => Removed
<1> SUFFICES ASSUME Init PROVE Removed
  OBVIOUS
<1>1. closed = {} /\ dismissed = {} /\ \A w \in Workers : job[w].at = "idle"
  BY IdleAt DEF Init
<1> QED
  BY <1>1 DEF Removed, RemovedStaysAway, Alone, MemberStatements

\* Requests one at a time never bring back a membership or a store that was
\* taken away: what a handler saves it has read since the removal.
THEOREM RemovalHolds == Spec => []RemovedStaysAway
<1>1. Removed => RemovedStaysAway
  BY DEF Removed, RemovedStaysAway
<1>2. Typed /\ Opened /\ Removed /\ [Next]_vars => (Typed /\ Opened /\ Removed)'
  BY NextTyped, NextOpened, NextRemoved
<1>3. Init => Typed /\ Opened /\ Removed
  BY InitTyped, InitOpened, InitRemoved
<1> QED
  BY <1>1, <1>2, <1>3, PTL DEF Spec

-----------------------------------------------------------------------------
(* While nothing fails, nobody is left half way.                           *)

\* What each statement of a registration or an invitation leaves behind when
\* no store goes away.
LEMMA Advances ==
    ASSUME Typed, Opened, NEW w \in Workers, Step(w), closed = {},
           job[w].req.kind \in {"register", "invite"}, NEW e, e = job[w].req.who
    PROVE  /\ job[w].at = "insertUser" =>
                /\ user'[e].made /\ job'[w].req = job[w].req
                /\ job'[w].at = IF job[w].req.kind = "register" THEN "insertOrganization" ELSE "assign"
           /\ job[w].at = "insertOrganization" => job'[w].req = job[w].req /\ job'[w].at = "insertStore"
           /\ job[w].at = "insertStore" => job'[w].req = job[w].req /\ job'[w].at = "insertManager"
           /\ job[w].at = "insertManager" =>
                Placed(e)' /\ job'[w].req = job[w].req /\ job'[w].at = "insertTrial"
           /\ job[w].at = "insertTrial" => org'[e] = "live"
           /\ job[w].at = "assign" => Placed(e)'
<1> DEFINE j == job[w]
<1>0. /\ JobSound(j) /\ j \in JobRow /\ job \in [Workers -> JobRow] /\ j.at # "idle"
      /\ j.req \in Requests /\ e \in Emails /\ j.req.at \in Stores /\ j.req.kind \in Reach(j.at)
      /\ j.req.kind = "invite" => j.req.role \in {"admin", "cashier"}
      /\ member \in [Emails -> [Stores -> MemberRow]]
  BY StepMoves, Forms DEF Typed, TypeOK, Moves, JobSound
<1>1. CASE j.at = "insertUser"
  <2>1. /\ InsertUser(w)
        /\ job' = [job EXCEPT ![w] = [j EXCEPT !.at = IF j.req.kind = "register"
                                                      THEN "insertOrganization" ELSE "assign"]]
    BY <1>1, Proceeds DEF InsertUser, Continue
  <2>2. user'[e].made
    BY <1>0, <2>1, MadeOnce
  <2> QED
    BY <1>0, <1>1, <2>1, <2>2 DEF JobRow
<1>2. CASE j.at = "insertOrganization"
  <2>1. job' = [job EXCEPT ![w] = [[j EXCEPT !.owner = Newcomer(j)] EXCEPT !.at = "insertStore"]]
    BY <1>2, Proceeds DEF InsertOrganization, Continue
  <2> QED
    BY <1>0, <1>2, <2>1 DEF JobRow
<1>3. CASE j.at = "insertStore"
  <2>1. InsertStore(w) /\ j.owner # NoOne
    BY <1>0, <1>3, Proceeds, TenantAssumption DEF JobSound, Reach
  <2>2. PICK t \in Stores :
          job' = [job EXCEPT ![w] = [[j EXCEPT !.store = t] EXCEPT !.at = "insertManager"]]
    BY <2>1 DEF InsertStore, Continue
  <2> QED
    BY <1>0, <1>3, <2>2 DEF JobRow
<1>4. CASE j.at = "insertManager"
  <2>1. InsertManager(w) /\ store[j.store].state = "open" /\ j.req.kind = "register" /\
          j.store \in Stores
    BY <1>0, <1>4, Proceeds DEF Opened, Reach, JobRow
  <2>2. /\ job' = [job EXCEPT ![w] = [j EXCEPT !.at = "insertTrial"]]
        /\ member' = [member EXCEPT ![e][j.store] = [role |-> "admin", rights |-> "none", row |-> 1]]
    BY <2>1 DEF InsertManager, Continue, Newcomer
  <2>3. \E s \in Stores : member'[e][s].role # "none"
    BY <1>0, <2>1, <2>2
  <2> QED
    BY <1>0, <1>4, <2>2, <2>3 DEF JobRow, Placed, OnStaff
<1>5. CASE j.at = "insertTrial"
  BY <1>0, <1>5, Proceeds DEF InsertTrial, Newcomer, Typed, TypeOK
<1>6. CASE j.at = "assign"
  <2>1. Assign(w) /\ j.req.kind = "invite"
    BY <1>0, <1>6, Proceeds DEF Reach
  <2>2. store[j.req.at].state = "open"
    <3>1. Inside(j)
      BY <1>6, <2>1 DEF Inside, Public, Self
    <3>2. store[j.req.at] \in StoreRow
      BY <1>0 DEF Typed, TypeOK
    <3> QED
      BY <1>0, <3>1, <3>2 DEF Opened, Untouched, StoreRow, NoStore
  <2>3. CASE member[e][j.req.at].role # "none"
    BY <1>0, <2>3, PlacedStays, <1>6 DEF Placed, OnStaff
  <2>4. CASE member[e][j.req.at].role = "none"
    <3>1. member' = [member EXCEPT ![e][j.req.at] =
            [role |-> j.req.role, rights |-> DefaultRights(j.req.role),
              row |-> member[e][j.req.at].row + 1]]
      BY <2>1, <2>2, <2>4 DEF Assign, Newcomer
    <3>2. \E s \in Stores : member'[e][s].role # "none"
      BY <1>0, <2>1, <3>1
    <3> QED
      BY <1>6, <3>2 DEF Placed, OnStaff
  <2> QED
    BY <2>3, <2>4
<1> QED
  BY <1>1, <1>2, <1>3, <1>4, <1>5, <1>6

\* A statement leaves nothing missing that nobody is at work on.
LEMMA StepInHand ==
    ASSUME Typed, Opened, People, InHand, NEW w \in Workers, Step(w)
    PROVE  InHand'
<1> DEFINE j == job[w]
<1>0. /\ JobSound(j) /\ j \in JobRow /\ job \in [Workers -> JobRow] /\ j.at # "idle"
      /\ j.req \in Requests /\ j.req.kind \in Reach(j.at) /\ cut' = cut
      /\ \A v \in Workers \ {w} : job'[v] = job[v]
  BY StepMoves, Onward DEF Typed, Moves, JobSound, outside
<1> SUFFICES ASSUME ~cut, closed' = {}
    PROVE  /\ \A e \in accounts' :
                /\ user'[e].made \/ For(e, {"insertUser"})'
                /\ user'[e].made => \/ Placed(e)' \/ For(e, {"assign"})'
                                    \/ Registering(e, {"insertOrganization", "insertStore",
                                                       "insertManager"})'
           /\ \A e \in Emails : org'[e] = "bare" =>
                Registering(e, {"insertStore", "insertManager", "insertTrial"})'
  BY <1>0 DEF InHand
<1>1. closed = {}
  BY EndedBy
<1>2. ASSUME NEW e \in accounts' PROVE user'[e].made \/ For(e, {"insertUser"})'
  <2>1. e \in Emails
    BY TablesTyped DEF TypeOK
  <2>2. CASE e \in accounts /\ user[e].made
    BY <2>1, <2>2, MadeOnce
  <2>3. CASE e \in accounts /\ ~user[e].made
    <3>1. PICK u \in Workers : /\ job[u].at = "insertUser" /\ job[u].req.kind \in {"register", "invite"}
                               /\ job[u].req.who = e
      BY <1>1, <2>3 DEF InHand, For
    <3>2. CASE u = w
      BY <1>1, <3>1, <3>2, Advances
    <3>3. CASE u # w
      BY <1>0, <3>1, <3>3 DEF For
    <3> QED
      BY <3>2, <3>3
  <2>4. CASE e \notin accounts
    <3>1. CreateAccount(w) /\ e = j.req.who /\ Continue(w, "insertUser", j)
      BY <1>2, <2>4, StepWrites DEF Writes, CreateAccount, Newcomer, Refuse, tables
    <3>2. j.req.kind \in {"register", "invite"}
      BY <1>0, <3>1 DEF CreateAccount, Running, Reach
    <3>3. job'[w].at = "insertUser" /\ job'[w].req = j.req
      BY <1>0, <3>1 DEF Continue, JobRow
    <3> QED
      BY <3>1, <3>2, <3>3 DEF For
  <2> QED
    BY <2>2, <2>3, <2>4
<1>3. ASSUME NEW e \in accounts', user'[e].made
      PROVE  \/ Placed(e)' \/ For(e, {"assign"})'
             \/ Registering(e, {"insertOrganization", "insertStore", "insertManager"})'
  <2>1. e \in Emails
    BY TablesTyped DEF TypeOK
  <2>2. CASE user[e].made
    <3>1. e \in accounts
      BY <2>1, <2>2 DEF People
    <3>2. CASE Placed(e)
      BY <2>1, <3>2, PlacedStays
    <3>3. CASE For(e, {"assign"})
      <4>1. PICK u \in Workers : /\ job[u].at = "assign" /\ job[u].req.kind \in {"register", "invite"}
                                 /\ job[u].req.who = e
        BY <3>3 DEF For
      <4>2. CASE u = w
        BY <1>1, <4>1, <4>2, Advances
      <4>3. CASE u # w
        BY <1>0, <4>1, <4>3 DEF For
      <4> QED
        BY <4>2, <4>3
    <3>4. CASE Registering(e, {"insertOrganization", "insertStore", "insertManager"})
      <4>1. PICK u \in Workers : /\ job[u].at \in {"insertOrganization", "insertStore", "insertManager"}
                                 /\ job[u].req.kind = "register" /\ job[u].req.who = e
        BY <3>4 DEF Registering
      <4>2. CASE u = w
        <5>1. \/ Placed(e)'
              \/ job'[w].req = j.req /\ job'[w].at \in {"insertStore", "insertManager"}
          BY <1>1, <4>1, <4>2, Advances
        <5> QED
          BY <4>1, <4>2, <5>1 DEF Registering
      <4>3. CASE u # w
        BY <1>0, <4>1, <4>3 DEF Registering
      <4> QED
        BY <4>2, <4>3
    <3> QED
      BY <1>1, <2>2, <3>1, <3>2, <3>3, <3>4 DEF InHand
  <2>3. CASE ~user[e].made
    <3>1. InsertUser(w) /\ e = j.req.who /\ j.at = "insertUser" /\ j.req.kind \in {"register", "invite"}
      BY <1>0, <1>3, <2>1, <2>3, MadeOnce DEF InsertUser, Running, Reach
    <3>2. /\ job'[w].req = j.req
          /\ job'[w].at = IF j.req.kind = "register" THEN "insertOrganization" ELSE "assign"
      BY <1>1, <3>1, Advances
    <3> QED
      BY <3>1, <3>2 DEF For, Registering
  <2> QED
    BY <2>2, <2>3
<1>4. ASSUME NEW e \in Emails, org'[e] = "bare"
      PROVE  Registering(e, {"insertStore", "insertManager", "insertTrial"})'
  <2>1. CASE org[e] = "bare"
    <3>1. PICK u \in Workers : /\ job[u].at \in {"insertStore", "insertManager", "insertTrial"}
                               /\ job[u].req.kind = "register" /\ job[u].req.who = e
      BY <1>1, <2>1 DEF InHand, Registering
    <3>2. CASE u = w
      <4>1. job'[w].req = j.req /\ job'[w].at \in {"insertManager", "insertTrial"}
        BY <1>1, <1>4, <3>1, <3>2, Advances
      <4> QED
        BY <3>1, <3>2, <4>1 DEF Registering
    <3>3. CASE u # w
      BY <1>0, <3>1, <3>3 DEF Registering
    <3> QED
      BY <3>2, <3>3
  <2>2. CASE org[e] # "bare"
    <3>1. /\ InsertOrganization(w) /\ e = j.req.who /\ j.at = "insertOrganization"
          /\ j.req.kind = "register"
      BY <1>0, <1>4, <2>2, OrgBy DEF InsertOrganization, Running, Reach
    <3>2. job'[w].req = j.req /\ job'[w].at = "insertStore"
      BY <1>1, <3>1, Advances
    <3> QED
      BY <3>1, <3>2 DEF Registering
  <2> QED
    BY <2>1, <2>2
<1> QED
  BY <1>2, <1>3, <1>4

\* What does not run one of these statements leaves them in progress.
LEMMA InHandStays ==
    ASSUME InHand, UNCHANGED <<accounts, user, member, dismissed, closed, cut>>,
           \A e \in Emails : org'[e] = "bare" => org[e] = "bare",
           \A v \in Workers : job[v].at # "idle" => job'[v] = job[v]
    PROVE  InHand'
<1>1. ASSUME NEW e, NEW l, "idle" \notin l
      PROVE  (For(e, l) => For(e, l)') /\ (Registering(e, l) => Registering(e, l)')
  BY <1>1 DEF For, Registering
<1>2. \A e : Placed(e)' <=> Placed(e)
  BY DEF Placed, OnStaff
<1> QED
  BY <1>1, <1>2 DEF InHand

\* Every step leaves whatever is missing in hand.
LEMMA NextInHand == Typed /\ Opened /\ People /\ InHand /\ [Next]_vars => InHand'
<1> SUFFICES ASSUME Typed, Opened, People, InHand, [Next]_vars PROVE InHand'
  OBVIOUS
<1>1. ASSUME NEW w \in Workers, Break(w) PROVE InHand'
  BY <1>1 DEF Break, InHand
<1>2. ASSUME NEW w \in Workers, NEW r \in Requests, Begin(w, r) PROVE InHand'
  BY <1>2, BeginTyped, InHandStays DEF tables, history
<1>3. CASE \/ \E l \in Links : Expire(l)
           \/ \E e \in Emails : Lapse(e)
           \/ UNCHANGED vars
  <2>1. /\ UNCHANGED <<accounts, user, member, dismissed, closed, cut, job>>
        /\ \A e \in Emails : org'[e] = "bare" => org[e] = "bare"
    BY <1>3 DEF Expire, Lapse, vars, tables, history, outside, Typed, TypeOK
  <2> QED
    BY <2>1, InHandStays
<1> QED
  BY <1>1, <1>2, <1>3, StepInHand DEF Next, Closed

\* Nothing is missing at the start.
LEMMA InitInHand == Init => InHand
<1> SUFFICES ASSUME Init PROVE InHand
  OBVIOUS
<1>1. /\ accounts = {Founder} /\ user[Founder].made /\ \A e \in Emails : org[e] # "bare"
      /\ member[Founder][First].role # "none"
  BY TenantAssumption, FirstStore DEF Init, Nobody, NoMember
<1> QED
  BY <1>1, FirstStore DEF InHand, Placed, OnStaff

\* Only a request that died half way, or a store that went away, leaves an
\* account nobody can sign in with or an organization without its trial.
THEOREM StrandingNeedsFailure == Spec => []StrandedOnlyByFailure
<1>1. Typed /\ InHand => StrandedOnlyByFailure
  <2> SUFFICES ASSUME Typed, InHand, Quiet, ~cut, closed = {}, NEW e \in accounts
      PROVE  /\ user[e].made /\ org[e] # "bare"
             /\ CanLogin(e) \/ \E s \in Stores : <<e, s>> \in dismissed
    BY DEF StrandedOnlyByFailure
  <2>1. \A l : "idle" \notin l => ~For(e, l) /\ ~Registering(e, l)
    BY DEF Quiet, Running, For, Registering
  <2>2. user[e].made /\ Placed(e) /\ org[e] # "bare"
    BY <2>1 DEF InHand, Typed, TypeOK
  <2> QED
    BY <2>2 DEF Placed, OnStaff, CanLogin, StoresOfUser
<1>2. Typed /\ Opened /\ People /\ InHand /\ [Next]_vars => (Typed /\ Opened /\ People /\ InHand)'
  BY NextTyped, NextOpened, NextPeople, NextInHand
<1>3. Init => Typed /\ Opened /\ People /\ InHand
  BY InitTyped, InitOpened, InitPeople, InitInHand
<1> QED
  BY <1>1, <1>2, <1>3, PTL DEF Spec

-----------------------------------------------------------------------------
(* A reset link sets one password.                                         *)

\* A statement of a lone request keeps the links sound.
LEMMA StepLinks ==
    ASSUME Typed, LinksSound, NEW w \in Workers, Step(w)
    PROVE  LinksSound'
<1> DEFINE j == job[w]
<1>0. /\ JobSound(j) /\ j \in JobRow /\ job \in [Workers -> JobRow] /\ j.at # "idle"
      /\ j.req \in Requests /\ j.req.kind \in Reach(j.at)
      /\ crowd' = crowd /\ cut' = cut
      /\ \A v \in Workers \ {w} : job'[v] = job[v]
      /\ user \in [Emails -> UserRow] /\ spent \in [Links -> Nat] /\ links \in 0 .. MaxLinks
  BY StepMoves, Onward DEF Typed, TypeOK, Moves, JobSound, outside
<1> DEFINE Once(l)  == spent[l] <= 1 /\ (spent[l] > 0 => l <= links)
           Known(e) == user[e].link <= links
           Alike(e, f) == user[e].link = user[f].link /\ user[e].link # NoLink => e = f
           Used(e, l)  == user[e].link = l /\ spent[l] > 0
<1> SUFFICES ASSUME crowd <= 1, ~cut
    PROVE  /\ \A l \in Links : Once(l)'
           /\ \A e \in Emails : Known(e)'
           /\ \A e, f \in Emails : Alike(e, f)'
           /\ \A v \in Workers : SaverKnows(job[v])'
           /\ \A e \in Emails, l \in Links : Used(e, l)' => Clearing(e, l)'
  BY <1>0 DEF LinksSound, SaverKnows, Clearing
<1>1. /\ \A l \in Links : Once(l)
      /\ \A e \in Emails : Known(e)
      /\ \A e, f \in Emails : Alike(e, f)
      /\ SaverKnows(j)
  BY DEF LinksSound
<1>2. ASSUME NEW v \in Workers \ {w} PROVE job[v].at = "idle" /\ job'[v].at = "idle"
  BY <1>0, OneAtATime
<1>3. ASSUME NEW e \in Emails, NEW l \in Links, Used(e, l)
      PROVE  j.at \in {"selectUser", "updateUser"} /\ j.req.kind = "reset" /\ j.who = e /\
               j.req.link = l
  <2>1. Clearing(e, l)
    BY <1>3 DEF LinksSound
  <2> QED
    BY <1>2, <2>1 DEF Clearing
<1>4. SaverKnows(job[w])' => \A v \in Workers : SaverKnows(job[v])'
  BY <1>2 DEF SaverKnows
<1>5. 0 \notin Links /\ \A l \in Links : l \in Nat
  BY TenantAssumption DEF Links
<1>6. CASE UpdateUser(w)
  <2>1. /\ j.at = "updateUser" /\ j.who \in Emails /\ j.ent \in UserRow
        /\ UNCHANGED <<spent, links>>
        /\ user' = [user EXCEPT ![j.who] = Patched(user[j.who], j.ent, {"link"})]
        /\ job' = [job EXCEPT ![w] = Idle]
    BY <1>0, <1>6 DEF UpdateUser, Running, JobSound, history, Finish
  <2>2. /\ user'[j.who].link = j.ent.link
        /\ \A e \in Emails \ {j.who} : user'[e] = user[e]
    <3>1. Patched(user[j.who], j.ent, {"link"}).link = j.ent.link
      BY <1>0, <2>1 DEF Patched, UserRow
    <3> QED
      BY <1>0, <2>1, <3>1
  <2>3. job'[w].at = "idle"
    BY <1>0, <2>1, IdleAt
  <2>4. SaverKnows(job[w])'
    BY <2>3 DEF SaverKnows
  <2>5. j.req.kind \in {"reset", "forgot", "profile"}
    BY <1>0, <2>1 DEF Reach
  <2>6. ASSUME NEW e \in Emails \ {j.who}, NEW l \in Links PROVE ~Used(e, l)
    BY <1>3
  <2>7. CASE j.req.kind = "reset"
    <3>1. j.ent.link = 0
      BY <1>1, <2>1, <2>7 DEF SaverKnows, NoLink
    <3> QED
      BY <1>0, <1>1, <1>4, <1>5, <2>1, <2>2, <2>4, <2>6, <3>1 DEF NoLink
  <2>8. CASE j.req.kind = "forgot"
    <3>1. j.ent.link = links /\ spent[links] = 0 /\ \A e \in Emails : user[e].link # links
      BY <1>1, <2>1, <2>8 DEF SaverKnows
    <3> QED
      BY <1>0, <1>1, <1>4, <1>5, <2>1, <2>2, <2>4, <2>6, <3>1 DEF NoLink
  <2>9. CASE j.req.kind = "profile"
    <3>1. j.ent.link = user[j.who].link
      BY <1>1, <2>1, <2>9 DEF SaverKnows
    <3>2. \A e \in Emails : user'[e].link = user[e].link
      BY <2>2, <3>1
    <3>3. \A e \in Emails, l \in Links : ~Used(e, l)
      BY <1>3, <2>9
    <3> QED
      BY <1>0, <1>1, <1>4, <2>1, <2>4, <3>2, <3>3 DEF NoLink
  <2> QED
    BY <2>5, <2>7, <2>8, <2>9
<1>7. CASE SetPassword(w)
  <2>1. /\ j.at = "setPassword" /\ j.req.kind = "reset" /\ j.req.link \in Links
        /\ j.who \in Emails /\ j.ent \in UserRow /\ UNCHANGED <<user, links>>
        /\ spent' = [spent EXCEPT ![j.req.link] = @ + 1]
        /\ job' = [job EXCEPT ![w] = [[j EXCEPT !.ent.link = NoLink] EXCEPT !.at = "selectUser"]]
    BY <1>0, <1>7, Forms DEF SetPassword, Running, JobSound, Reach, tables, Continue
  <2>2. user[j.who].link = j.req.link /\ spent[j.req.link] = 0
    BY <1>1, <2>1 DEF SaverKnows
  <2>3. /\ job'[w].at = "selectUser" /\ job'[w].req = j.req /\ job'[w].who = j.who
        /\ job'[w].ent.link = NoLink
    BY <1>0, <2>1 DEF JobRow, UserRow
  <2>4. spent'[j.req.link] = 1 /\ \A l \in Links \ {j.req.link} : spent'[l] = spent[l]
    BY <1>0, <2>1, <2>2
  <2>5. SaverKnows(job[w])'
    BY <2>1, <2>2, <2>3 DEF SaverKnows
  <2>6. ASSUME NEW e \in Emails, NEW l \in Links, Used(e, l)' PROVE Clearing(e, l)'
    <3>1. l = j.req.link
      BY <1>3, <2>1, <2>4, <2>6
    <3>2. e = j.who
      BY <1>1, <1>5, <2>1, <2>2, <2>6, <3>1 DEF NoLink
    <3> QED
      BY <2>1, <2>3, <3>1, <3>2 DEF Clearing
  <2>7. \A l \in Links : Once(l)'
    BY <1>1, <2>1, <2>2, <2>4
  <2> QED
    BY <1>1, <1>4, <2>1, <2>5, <2>6, <2>7
<1>8. CASE ~UpdateUser(w) /\ ~SetPassword(w)
  <2>1. /\ UNCHANGED spent /\ \A e \in Emails : user'[e].link = user[e].link
    <3>1. InsertUser(w) => \A e \in Emails : user'[e].link = user[e].link
      BY <1>0 DEF InsertUser, Newcomer, UserRow
    <3> QED
      BY <1>8, <3>1, StepWrites DEF Writes
  <2>2. links' >= links /\ links' \in Nat /\ (~FindEmail(w) => links' = links)
    <3>1. UNCHANGED links \/ FindEmail(w)
      BY StepWrites DEF Writes
    <3>2. links \in Nat
      BY <1>0, TenantAssumption
    <3>3. FindEmail(w) => links' \in {links, links + 1}
      BY DEF FindEmail, Refuse, tables
    <3> QED
      BY <3>1, <3>2, <3>3
  <2>3. CASE SelectUser(w)
    <3>1. j.at = "selectUser" /\ j.who \in Emails /\ UNCHANGED links
      BY <1>0, <2>3 DEF SelectUser, Running, JobSound, Refuse, Reads, tables
    <3>2. CASE job' = [job EXCEPT ![w] = [j EXCEPT !.at = "updateUser"]]
      <4>1. /\ job'[w].at = "updateUser" /\ job'[w].req = j.req /\ job'[w].who = j.who
            /\ job'[w].ent = j.ent
        BY <1>0, <3>2 DEF JobRow
      <4>2. SaverKnows(job[w])'
        BY <1>1, <2>1, <3>1, <4>1 DEF SaverKnows
      <4>3. \A e \in Emails, l \in Links : Used(e, l)' => Clearing(e, l)'
        BY <1>3, <2>1, <4>1 DEF Clearing
      <4> QED
        BY <1>1, <1>4, <2>1, <3>1, <4>2, <4>3
    <3>3. CASE job' # [job EXCEPT ![w] = [j EXCEPT !.at = "updateUser"]]
      <4>1. Changed(j.ent, user[j.who]) = {} /\ job' = [job EXCEPT ![w] = Idle]
        BY <2>3, <3>3 DEF SelectUser, Refuse, Finish, Reads, Continue
      <4>2. j.ent.link = user[j.who].link
        BY <1>0, <3>1, <4>1 DEF Changed, UserRow, JobSound
      <4>3. \A e \in Emails, l \in Links : ~Used(e, l)
        <5>1. SUFFICES ASSUME NEW e \in Emails, NEW l \in Links, Used(e, l) PROVE FALSE
          OBVIOUS
        <5>2. j.req.kind = "reset" /\ j.who = e /\ user[e].link = l
          BY <1>3, <5>1
        <5>3. j.ent.link = 0
          BY <1>1, <3>1, <5>2 DEF SaverKnows, NoLink
        <5> QED
          BY <1>5, <4>2, <5>2, <5>3
      <4>4. job'[w].at = "idle"
        BY <1>0, <4>1, IdleAt
      <4>5. SaverKnows(job[w])'
        BY <4>4 DEF SaverKnows
      <4> QED
        BY <1>1, <1>4, <2>1, <3>1, <4>3, <4>5
    <3> QED
      BY <3>2, <3>3
  <2>4. CASE ~SelectUser(w)
    <3>1. \A e \in Emails, l \in Links : ~Used(e, l)
      BY <1>3, <1>8, <2>4, Proceeds
    <3>2. SaverKnows(job[w])'
      <4>1. CASE FindEmail(w) /\ job'[w].at # "idle"
        <5>1. j.at = "findEmail" /\ j.req.kind = "forgot" /\ j.req.who \in Emails
          BY <1>0, <4>1, Forms DEF FindEmail, Running, Reach
        <5>2. CASE job' = [job EXCEPT ![w] = Idle]
          BY <1>0, <4>1, <5>2, IdleAt
        <5>3. CASE job' # [job EXCEPT ![w] = Idle]
          <6>1. /\ links # MaxLinks /\ links' = links + 1
                /\ job' = [job EXCEPT ![w] = [[j EXCEPT !.who = j.req.who,
                     !.ent = [user[j.req.who] EXCEPT !.link = links + 1]] EXCEPT !.at = "selectUser"]]
            BY <4>1, <5>3 DEF FindEmail, Refuse, Finish, Continue
          <6>2. job'[w].at = "selectUser" /\ job'[w].req = j.req /\ job'[w].ent.link = links'
            BY <1>0, <5>1, <6>1 DEF JobRow, UserRow
          <6>3. /\ links' \in Links /\ spent'[links'] = 0
                /\ \A e \in Emails : user'[e].link # links'
            <7>1. links' \in Links /\ \A e \in Emails : user[e].link # links'
              BY <1>0, <1>1, <6>1, TenantAssumption DEF Links, UserRow, NoLink
            <7>2. spent[links'] = 0
              BY <1>0, <1>1, <6>1, <7>1
            <7> QED
              BY <2>1, <7>1, <7>2
          <6> QED
            BY <5>1, <6>2, <6>3 DEF SaverKnows
        <5> QED
          BY <5>2, <5>3
      <4>2. CASE FindLink(w) /\ job'[w].at # "idle"
        <5>1. j.at = "findLink" /\ j.req.kind = "reset" /\ j.req.link \in Links
          BY <1>0, <4>2, Forms DEF FindLink, Running, Reach
        <5>2. CASE job' = [job EXCEPT ![w] = Idle]
          BY <1>0, <4>2, <5>2, IdleAt
        <5>3. CASE job' # [job EXCEPT ![w] = Idle]
          <6>1. PICK e \in Emails : /\ user[e].link = j.req.link
                  /\ job' = [job EXCEPT ![w] = [[j EXCEPT !.who = e, !.ent = user[e]]
                       EXCEPT !.at = "setPassword"]]
            BY <4>2, <5>3 DEF FindLink, Refuse, Finish, Reads, Continue
          <6>2. job'[w].at = "setPassword" /\ job'[w].req = j.req /\ job'[w].who = e
            BY <1>0, <6>1 DEF JobRow
          <6>3. spent[j.req.link] = 0
            BY <1>0, <3>1, <5>1, <6>1
          <6> QED
            BY <2>1, <6>1, <6>2, <6>3 DEF SaverKnows
        <5> QED
          BY <5>2, <5>3
      <4>3. CASE FindSelf(w)
        <5>1. j.at = "findSelf" /\ j.req.kind = "profile" /\ j.req.by \in Emails
          BY <1>0, <4>3, Forms DEF FindSelf, Running, Reach
        <5>2. job' = [job EXCEPT ![w] = [[j EXCEPT !.who = j.req.by,
                !.ent = user[j.req.by]] EXCEPT !.at = "selectUser"]]
          BY <4>3 DEF FindSelf, Reads, Continue
        <5>3. /\ job'[w].at = "selectUser" /\ job'[w].req = j.req /\ job'[w].who = j.req.by
              /\ job'[w].ent = user[j.req.by]
          BY <1>0, <5>2 DEF JobRow
        <5> QED
          BY <2>1, <5>1, <5>3 DEF SaverKnows
      <4>4. CASE job'[w].at \notin {"setPassword", "selectUser", "updateUser"}
        BY <4>4 DEF SaverKnows
      <4> QED
        BY <1>8, <2>4, <4>1, <4>2, <4>3, <4>4, StepComes DEF Comes
    <3>3. \A e \in Emails : Known(e)' /\ user[e].link \in Nat
      <4>1. \A e \in Emails : user[e].link \in Nat
        BY <1>0, <1>5 DEF UserRow, NoLink
      <4> QED
        BY <1>0, <1>1, <2>1, <2>2, <4>1
    <3>4. \A l \in Links : Once(l)'
      BY <1>0, <1>1, <1>5, <2>1, <2>2
    <3>5. \A e, f \in Emails : Alike(e, f)'
      BY <1>1, <2>1
    <3>6. \A e \in Emails, l \in Links : ~Used(e, l)'
      BY <2>1, <3>1
    <3> QED
      BY <1>4, <3>2, <3>3, <3>4, <3>5, <3>6
  <2> QED
    BY <2>3, <2>4
<1> QED
  BY <1>6, <1>7, <1>8

\* Every step keeps the links sound.
LEMMA NextLinks == Typed /\ LinksSound /\ [Next]_vars => LinksSound'
<1> SUFFICES ASSUME Typed, LinksSound, [Next]_vars PROVE LinksSound'
  OBVIOUS
<1>0. crowd \in Nat
  BY TenantAssumption, FS_CardinalityType DEF Typed, TypeOK
<1>1. ASSUME crowd' >= crowd, crowd' \in Nat, UNCHANGED <<user, links, spent, cut>>,
             \A v \in Workers : job[v].at # "idle" => job'[v] = job[v],
             \A v \in Workers : job'[v].at \in {"setPassword", "selectUser", "updateUser"} =>
               job'[v] = job[v]
      PROVE  LinksSound'
  <2>1. SUFFICES ASSUME crowd' <= 1, ~cut'
        PROVE  /\ \A l \in Links : spent'[l] <= 1 /\ (spent'[l] > 0 => l <= links')
               /\ \A e \in Emails : user'[e].link <= links'
               /\ \A e, f \in Emails : user'[e].link = user'[f].link /\ user'[e].link # NoLink => e = f
               /\ \A v \in Workers : SaverKnows(job[v])'
               /\ \A e \in Emails, l \in Links : user'[e].link = l /\ spent'[l] > 0 => Clearing(e, l)'
    BY DEF LinksSound, SaverKnows, Clearing
  <2>2. crowd <= 1 /\ ~cut
    BY <1>0, <1>1, <2>1
  <2>3. ASSUME NEW v \in Workers PROVE SaverKnows(job[v])'
    BY <1>1, <2>2 DEF SaverKnows, LinksSound
  <2>4. ASSUME NEW e, NEW l, Clearing(e, l) PROVE Clearing(e, l)'
    BY <1>1, <2>4 DEF Clearing
  <2> QED
    BY <1>1, <2>2, <2>3, <2>4 DEF LinksSound
<1>2. ASSUME NEW w \in Workers, Break(w) PROVE LinksSound'
  BY <1>2 DEF Break, LinksSound
<1>3. ASSUME NEW w \in Workers, NEW r \in Requests, Begin(w, r) PROVE LinksSound'
  <2>1. /\ \A v \in Workers \ {w} : job'[v] = job[v]
        /\ job[w].at = "idle"
        /\ job'[w].at \in {"tenant", "findUser", "findInvitee", "findEmail", "findLink", "findSelf"}
        /\ UNCHANGED <<tables, history, cut>> /\ crowd' >= crowd /\ crowd' \in Nat
    BY <1>3, BeginTyped DEF Public, Self, Entry
  <2> QED
    BY <1>1, <2>1 DEF tables, history
<1>4. CASE \/ \E l \in Links : Expire(l)
           \/ \E e \in Emails : Lapse(e)
           \/ UNCHANGED vars
  <2>1. UNCHANGED <<user, links, spent, cut, crowd, job>>
    BY <1>4 DEF Expire, Lapse, vars, tables, history, outside
  <2> QED
    BY <1>0, <1>1, <2>1
<1> QED
  BY <1>2, <1>3, <1>4, StepLinks DEF Next, Closed

\* No link was sent yet.
LEMMA InitLinks == Init => LinksSound
<1> SUFFICES ASSUME Init PROVE LinksSound
  OBVIOUS
<1>1. /\ \A e \in Emails : user[e].link = 0
      /\ links = 0 /\ \A l \in Links : spent[l] = 0
      /\ \A w \in Workers : job[w].at = "idle"
  BY IdleAt DEF Init, Nobody, NoLink
<1>2. \A w \in Workers : SaverKnows(job[w])
  BY <1>1 DEF SaverKnows
<1> QED
  BY <1>1, <1>2 DEF LinksSound, NoLink

\* While requests come one at a time and none fails, a link sets one password:
\* it is in one user's row, and its first use clears the row.
THEOREM LinkSetsOnePassword == Spec => []LinkWorksOnce
<1>1. LinksSound => LinkWorksOnce
  BY DEF LinksSound, LinkWorksOnce
<1>2. Typed /\ LinksSound /\ [Next]_vars => (Typed /\ LinksSound)'
  BY NextTyped, NextLinks
<1>3. Init => Typed /\ LinksSound
  BY InitTyped, InitLinks
<1> QED
  BY <1>1, <1>2, <1>3, PTL DEF Spec

-----------------------------------------------------------------------------
(* The limits of the plan.  A request that passed its count, or needs none, *)
(* holds a place until it has inserted its row: rows and places together    *)
(* are at most the limit and one for each other request that may have been  *)
(* in progress, because only a count below the limit adds a place, and a    *)
(* worker holds one place.                                                  *)

Extra == IF crowd = 0 THEN 0 ELSE crowd - 1

\* Nobody counts for this request any more.
Admitted(j) == \/ j.at \notin {"idle", "tenant", "subscription", "count"}
               \/ j.at = "count" /\ j.owner = NoOne

\* Users: who is on the staff or about to be saved there, and the invitations.
Wanted(e, s) == \E w \in Workers : /\ job[w].at \in {"selectMember", "insertMember"}
                                   /\ job[w].req.who = e /\ job[w].req.at = s
Reserved(s)  == {e \in Emails : OnStaff(e, s) \/ Wanted(e, s)}
Inviting(s)  == {w \in Workers : /\ job[w].req.kind = "invite" /\ job[w].req.at = s
                                 /\ Admitted(job[w])}
UsersCounted == \A s \in Stores :
    Cardinality(Reserved(s)) + Cardinality(Inviting(s)) <= Limit.users + Extra

\* Stores: those of the owner, those about to be saved, and those about to be
\* inserted.  Before somebody's first store nobody works for that owner.
Reopened(s) == store[s].state = "gone" /\ \E w \in Workers :
                 job[w].at = "saveStore" /\ job[w].req.at = s
Held(o)     == {s \in Stores : store[s].owner = o /\ (store[s].state = "open" \/ Reopened(s))}
Founding(o) == {w \in Workers : /\ job[w].req.kind = "createStore" /\ job[w].at = "insertStore"
                                /\ job[w].owner = o}
Landless(o) == /\ \A s \in Stores : store[s].owner # o
               /\ \A w \in Workers : /\ job[w].req.kind # "register"
                                    /\ job[w].at \in {"count", "insertStore", "saveStore"}
                                    => job[w].owner # o
\* Whoever saves a store writes its owner as it is.
SaverSound == \A w \in Workers : job[w].at = "saveStore" => store[job[w].req.at].owner = job[w].owner
\* A registration has nobody's stores before its own.
FoundersLandless ==
    /\ \A o \in Emails \ accounts : Landless(o)
    /\ \A w \in Workers, o \in Emails :
         /\ job[w].req.kind = "register" /\ job[w].req.who = o
         /\ job[w].at \in {"insertUser", "insertOrganization", "insertStore"}
         => Landless(o)
StoresCounted ==
    /\ SaverSound /\ FoundersLandless
    /\ \A o \in Emails : Cardinality(Held(o)) + Cardinality(Founding(o)) <= Limit.stores + Extra

\* Products: the active ones, those about to be saved active, and the new ones.
Restored(k) == \E w \in Workers : job[w].at = "saveProduct" /\ job[w].req.slot = k /\ job[w].ent
Kept        == {k \in Slots : shelf[k] = "active" \/ Restored(k)}
Adding      == {w \in Workers : job[w].req.kind = "createProduct" /\ Admitted(job[w])}
ProductsCounted ==
    /\ Cardinality(Kept) + Cardinality(Adding) <= Limit.products + Extra
    /\ store[First].state # "open" => \A k \in Slots : shelf[k] # "active"

-----------------------------------------------------------------------------
(* Counting places.                                                        *)

\* A place is held by one worker.
LEMMA Places ==
    ASSUME NEW B, IsFiniteSet(B), NEW A \in SUBSET B, NEW D \in SUBSET B, A \cap D = {},
           NEW R, NEW f \in [R -> D], \A x, y \in R : f[x] = f[y] => x = y
    PROVE  IsFiniteSet(R) /\ Cardinality(A) + Cardinality(R) <= Cardinality(B)
<1>1. IsFiniteSet(A) /\ IsFiniteSet(D)
  BY FS_Subset
<1>2. f \in Injection(R, D)
  BY DEF Injection, IsInjective
<1>3. IsFiniteSet(R) /\ Cardinality(R) <= Cardinality(D)
  BY <1>1, <1>2, FS_Injection
<1>4. Cardinality(A \cup D) = Cardinality(A) + Cardinality(D) - 0
  BY <1>1, FS_Union, FS_EmptySet
<1>5. A \cup D \in SUBSET B
  OBVIOUS
<1>6. Cardinality(A \cup D) <= Cardinality(B)
  BY <1>5, FS_Subset
<1> QED
  BY <1>1, <1>3, <1>4, <1>6, FS_CardinalityType

\* The rows and places of one kind before a step, P and I, and after it, Q and
\* J: nothing was added, or a place was used up for a row.
LEMMA NothingAdded ==
    ASSUME NEW P, IsFiniteSet(P), NEW I, IsFiniteSet(I), NEW Q \in SUBSET P, NEW J \in SUBSET I
    PROVE  Cardinality(Q) + Cardinality(J) <= Cardinality(P) + Cardinality(I)
  BY FS_Subset, FS_CardinalityType

\* A row was added and the place it was counted under is gone.
LEMMA PlaceUsed ==
    ASSUME NEW P, IsFiniteSet(P), NEW I, IsFiniteSet(I), NEW w \in I, NEW x,
           NEW Q \in SUBSET (P \cup {x}), NEW J \in SUBSET (I \ {w})
    PROVE  Cardinality(Q) + Cardinality(J) <= Cardinality(P) + Cardinality(I)
<1>1. /\ IsFiniteSet(P \cup {x}) /\ Cardinality(P \cup {x}) <= Cardinality(P) + 1
      /\ IsFiniteSet(I \ {w}) /\ Cardinality(I \ {w}) = Cardinality(I) - 1
  BY FS_AddElement, FS_RemoveElement, FS_CardinalityType
<1>2. Cardinality(Q) <= Cardinality(P \cup {x}) /\ Cardinality(J) <= Cardinality(I \ {w})
  BY <1>1, FS_Subset
<1> QED
  BY <1>1, <1>2, FS_Subset, FS_CardinalityType

\* The rows, A, are few, and whoever holds a place is one of the crowd.
LEMMA FewRows ==
    ASSUME NEW A, IsFiniteSet(A), NEW R, IsFiniteSet(R), NEW Q \in SUBSET (A \cup R),
           NEW c \in Nat, NEW p \in Nat, NEW n \in Nat, Cardinality(A) < n, p + Cardinality(R) <= c
    PROVE  Cardinality(Q) + p <= n + (IF c = 0 THEN 0 ELSE c - 1)
<1>1. /\ IsFiniteSet(A \cup R) /\ Cardinality(A \cap R) \in Nat
      /\ Cardinality(A \cup R) = Cardinality(A) + Cardinality(R) - Cardinality(A \cap R)
  BY FS_Union, FS_Intersection, FS_CardinalityType
<1>2. Cardinality(Q) <= Cardinality(A \cup R) /\ Cardinality(Q) \in Nat
  BY <1>1, FS_Subset, FS_CardinalityType
<1>3. Cardinality(A) \in Nat /\ Cardinality(R) \in Nat /\ Cardinality(A \cup R) \in Nat
  BY <1>1, FS_CardinalityType
<1> QED
  BY <1>1, <1>2, <1>3

\* What is known of the crowd and of the limits.
LEMMA Crowd ==
    ASSUME Typed
    PROVE  /\ IsFiniteSet(Busy) /\ Cardinality(Busy) \in Nat /\ Cardinality(Busy) <= crowd
           /\ crowd \in Nat /\ Extra \in Nat
           /\ Limit.users \in Nat \ {0} /\ Limit.stores \in Nat \ {0} /\ Limit.products \in Nat \ {0}
<1>1. Busy \in SUBSET Workers /\ IsFiniteSet(Workers)
  BY TenantAssumption DEF Busy
<1>2. IsFiniteSet(Busy) /\ Cardinality(Busy) \in Nat
  BY <1>1, FS_Subset, FS_CardinalityType
<1>3. crowd \in Nat
  BY TenantAssumption, FS_CardinalityType DEF Typed, TypeOK
<1> QED
  BY <1>2, <1>3, TenantAssumption DEF Typed, Extra

\* A counted request gets its place for a store that is gone, or below the limit.
LEMMA AdmittedBy ==
    ASSUME Typed, NEW w \in Workers, Step(w), Admitted(job'[w]), job[w].req.kind \in Counted
    PROVE  /\ job'[w].req = job[w].req
           /\ \/ Admitted(job[w])
              \/ UNCHANGED tables /\ store[job[w].req.at].state # "open"
              \/ UNCHANGED tables /\ job[w].at = "count" /\ ~AtLimit(job[w])
<1> DEFINE j == job[w]
<1>1. /\ job \in [Workers -> JobRow] /\ j \in JobRow /\ j.at # "idle" /\ job'[w].at # "idle"
      /\ job'[w].req = j.req
  BY StepMoves, StepComes DEF Moves, Comes, Typed, Admitted
<1>2. CASE j.at = "tenant"
  <2>1. TenantGuard(w)
    BY <1>2, Proceeds
  <2>2. CASE member[j.req.by][j.req.at].role = "none"
    <3>1. job' = [job EXCEPT ![w] = Idle]
      BY <2>1, <2>2 DEF TenantGuard, Refuse, Finish
    <3> QED
      BY <1>1, <3>1, IdleAt
  <2>3. CASE member[j.req.by][j.req.at].role # "none"
    <3>1. job' = [job EXCEPT ![w] = [[j EXCEPT !.seen = member[j.req.by][j.req.at]]
            EXCEPT !.at = "subscription"]]
      BY <2>1, <2>3 DEF TenantGuard, Reads, Continue
    <3>2. job'[w].at = "subscription"
      BY <1>1, <3>1 DEF JobRow
    <3> QED
      BY <3>2 DEF Admitted
  <2> QED
    BY <2>2, <2>3
<1>3. CASE j.at = "subscription"
  <2>1. SubscriptionGuard(w) /\ UNCHANGED tables
    BY <1>3, Proceeds DEF SubscriptionGuard, Refuse, Reads
  <2>2. CASE job' = [job EXCEPT ![w] = Idle]
    BY <1>1, <2>2, IdleAt
  <2>3. CASE job' # [job EXCEPT ![w] = Idle]
    <3>1. job' = [job EXCEPT ![w] = [[j EXCEPT
            !.owner = IF store[j.req.at].state = "open" THEN store[j.req.at].owner ELSE NoOne]
            EXCEPT !.at = "count"]]
      BY <2>1, <2>3 DEF SubscriptionGuard, Refuse, Finish, Reads, Continue
    <3>2. /\ job'[w].at = "count"
          /\ job'[w].owner = IF store[j.req.at].state = "open" THEN store[j.req.at].owner ELSE NoOne
      BY <1>1, <3>1 DEF JobRow
    <3>3. store[j.req.at].state = "open" => store[j.req.at].owner # NoOne
      <4>1. j.req.at \in Stores
        BY <1>1, Forms DEF Typed, JobSound
      <4> QED
        BY <4>1, TenantAssumption DEF Typed, TypeOK, StoreRow, NoStore
    <3> QED
      BY <1>1, <2>1, <3>2, <3>3 DEF Admitted
  <2> QED
    BY <2>2, <2>3
<1>4. CASE j.at = "count"
  <2>1. UsageLimitGuard(w) /\ UNCHANGED tables
    BY <1>4, Proceeds DEF UsageLimitGuard, Refuse, Reads
  <2>2. CASE j.owner = NoOne
    BY <1>1, <1>4, <2>2 DEF Admitted
  <2>3. CASE j.owner # NoOne /\ AtLimit(j)
    <3>1. job' = [job EXCEPT ![w] = Idle]
      BY <2>1, <2>3 DEF UsageLimitGuard, Refuse, Finish
    <3> QED
      BY <1>1, <3>1, IdleAt
  <2> QED
    BY <1>1, <1>4, <2>1, <2>2, <2>3
<1> QED
  BY <1>1, <1>2, <1>3, <1>4 DEF Admitted

-----------------------------------------------------------------------------
(* Products                                                                *)

Active == {k \in Slots : shelf[k] = "active"}

\* Places for products are held by workers.
ProductRoom == /\ IsFiniteSet(Kept) /\ IsFiniteSet(Active) /\ IsFiniteSet(Adding)
               /\ \E R : /\ IsFiniteSet(R) /\ Kept \subseteq Active \cup R
                         /\ Cardinality(Adding) + Cardinality(R) <= crowd

\* A product in the making is written by one worker, which holds no other place.
LEMMA ProductPlaces == Typed => ProductRoom
<1> SUFFICES ASSUME Typed PROVE ProductRoom
  OBVIOUS
<1> DEFINE D == {w \in Workers : job[w].at = "saveProduct"}
           R == {k \in Slots : Restored(k)}
           f == [k \in R |-> CHOOSE w \in D : job[w].req.slot = k]
<1>1. IsFiniteSet(Slots) /\ Kept \in SUBSET Slots /\ Active \in SUBSET Slots
  BY TenantAssumption DEF Kept, Active
<1>2. Adding \in SUBSET Busy /\ D \in SUBSET Busy /\ Adding \cap D = {}
  <2>1. \A w \in Adding : job[w].at # "idle"
    BY DEF Adding, Admitted
  <2>2. \A w \in D : job[w].req.kind # "createProduct"
    BY DEF Typed, JobSound, Reach
  <2> QED
    BY <2>1, <2>2 DEF Adding, Busy, Running
<1>3. \A k \in R : f[k] \in D /\ job[f[k]].req.slot = k
  BY DEF Restored
<1>4. f \in [R -> D] /\ \A x, y \in R : f[x] = f[y] => x = y
  BY <1>3
<1>5. IsFiniteSet(R) /\ Cardinality(Adding) + Cardinality(R) <= Cardinality(Busy)
  <2> HIDE DEF f, R, D
  <2> QED
    BY <1>2, <1>4, Crowd, Places
<1>6. IsFiniteSet(Adding) /\ Cardinality(Adding) \in Nat /\ Cardinality(R) \in Nat
  BY <1>2, <1>5, Crowd, FS_Subset, FS_CardinalityType
<1>7. Kept \subseteq Active \cup R
  BY DEF Kept, Active
<1> QED
  BY <1>1, <1>5, <1>6, <1>7, Crowd, FS_Subset DEF ProductRoom

\* What a step does to the products and the places for them.
LEMMA StepProducts ==
    ASSUME Typed, ProductsCounted, NEW w \in Workers, Step(w)
    PROVE  ProductsCounted'
<1> DEFINE j == job[w]
<1>0. /\ JobSound(j) /\ j \in JobRow /\ job \in [Workers -> JobRow] /\ j.at # "idle"
      /\ j.req \in Requests /\ j.req.kind \in Reach(j.at) /\ crowd' = crowd /\ Extra' = Extra
      /\ \A v \in Workers \ {w} : job'[v] = job[v]
      /\ shelf \in [Slots -> {"none", "active", "removed", "gone"}]
      /\ job'[w].at # "idle" => job'[w].req = j.req
  BY StepMoves, StepComes, Onward DEF Typed, TypeOK, Moves, JobSound, outside, Comes, Extra
<1>1. ASSUME NEW k \in Slots, Restored(k)', ~Restored(k) PROVE shelf[k] = "active"
  <2>1. /\ job'[w].at = "saveProduct" /\ job'[w].req.slot = k /\ job'[w].ent
        /\ FindProduct(w) /\ j.at = "findProduct" /\ j.req.slot = k
    BY <1>0, <1>1, StepComes DEF Restored, Comes, FindProduct, Running
  <2>2. job' = [job EXCEPT ![w] = [[j EXCEPT !.ent = shelf[j.req.slot] = "active" /\
          j.req.kind = "editProduct"]
                                    EXCEPT !.at = "saveProduct"]]
    <3>1. CASE job' = [job EXCEPT ![w] = Idle]
      BY <1>0, <2>1, <3>1, IdleAt
    <3> QED
      BY <2>1, <3>1 DEF FindProduct, Refuse, Finish, Reads, Continue
  <2>3. job'[w].ent = (shelf[j.req.slot] = "active" /\ j.req.kind = "editProduct")
    BY <1>0, <2>2 DEF JobRow
  <2> QED
    BY <2>1, <2>3
<1>2. ASSUME NEW v \in Adding', v \notin Adding
      PROVE  UNCHANGED tables /\ Cardinality(Active) < Limit.products
  <2>1. v = w /\ Admitted(job'[w]) /\ job'[w].req.kind = "createProduct" /\ job'[w].req = j.req
    BY <1>0, <1>2 DEF Adding, Admitted
  <2>2. j.req.at = First /\ ~Admitted(j)
    BY <1>0, <1>2, <2>1, Forms DEF Adding
  <2>3. \/ UNCHANGED tables /\ store[First].state # "open"
        \/ UNCHANGED tables /\ ~AtLimit(j)
    BY <2>1, <2>2, AdmittedBy DEF Counted
  <2>4. CASE UNCHANGED tables /\ store[First].state # "open"
    <3>1. Active = {}
      BY <2>4 DEF ProductsCounted, Active
    <3> QED
      BY <2>4, <3>1, FS_EmptySet, Crowd
  <2>5. CASE UNCHANGED tables /\ ~AtLimit(j)
    <3>1. Cardinality(Active) \in Nat /\ Limit.products \in Nat
      BY ProductPlaces, Crowd, FS_CardinalityType DEF ProductRoom
    <3>2. j.req.kind = "createProduct"
      BY <2>1
    <3>3. ~(Cardinality(Active) >= Limit.products)
      BY <2>5, <3>2 DEF AtLimit, ActiveProducts, Active
    <3> QED
      BY <2>5, <3>1, <3>3
  <2> QED
    BY <2>3, <2>4, <2>5
<1>3. ProductRoom /\ ProductRoom'
  <2>1. Typed' => ProductRoom'
    BY ProductPlaces, PTL
  <2> QED
    BY <2>1, ProductPlaces, StepTyped
\* Below the limit there is room for the whole crowd.
<1>4. ASSUME Cardinality(Active') < Limit.products
      PROVE  Cardinality(Kept') + Cardinality(Adding') <= Limit.products + Extra'
  <2>1. PICK R : /\ IsFiniteSet(R) /\ Kept' \subseteq Active' \cup R
                 /\ Cardinality(Adding') + Cardinality(R) <= crowd'
    BY <1>3 DEF ProductRoom
  <2>2. IsFiniteSet(Active') /\ Cardinality(Adding') \in Nat
    BY <1>3, FS_CardinalityType DEF ProductRoom
  <2> QED
    BY <1>0, <1>4, <2>1, <2>2, Crowd, FewRows DEF Extra
<1>5. IsFiniteSet(Kept) /\ IsFiniteSet(Adding)
  BY <1>3 DEF ProductRoom
<1>6. CASE DeleteStore(w)
  <2>1. /\ j.req.at = First => \A k \in Slots : shelf'[k] # "active"
        /\ j.req.at # First => shelf' = shelf /\ store'[First] = store[First]
        /\ job' = [job EXCEPT ![w] = Idle]
    BY <1>0, <1>6, FirstStore DEF DeleteStore, Finish, Typed, TypeOK
  <2>2. CASE j.req.at = First
    <3>1. Active' = {}
      BY <2>1, <2>2 DEF Active
    <3> QED
      BY <1>4, <2>1, <2>2, <3>1, FS_EmptySet, Crowd DEF ProductsCounted
  <2>3. CASE j.req.at # First
    <3>1. job'[w].at = "idle"
      BY <1>0, <2>1, IdleAt
    <3>2. Kept' \in SUBSET Kept
      BY <1>1, <2>1, <2>3 DEF Kept
    <3>3. Adding' \in SUBSET Adding
      BY <1>0, <3>1 DEF Adding, Admitted
    <3>4. Cardinality(Kept') + Cardinality(Adding') <= Cardinality(Kept) + Cardinality(Adding)
      BY <1>5, <3>2, <3>3, NothingAdded
    <3> QED
      BY <1>0, <1>5, <2>1, <2>3, <3>2, <3>3, <3>4, Crowd, FS_Subset, FS_CardinalityType
         DEF ProductsCounted
  <2> QED
    BY <2>2, <2>3
<1>7. CASE ~DeleteStore(w)
  <2>1. store'[First].state # "open" => store[First].state # "open" /\ shelf' = shelf
    <3>1. store'[First].state # "open" => store[First].state # "open"
      BY <1>7, FirstStore, EndedBy
    <3>2. store[First].state # "open" => shelf' = shelf
      BY <1>7, StepWrites DEF Writes, InsertProduct, SaveProduct, Refuse, tables
    <3> QED
      BY <3>1, <3>2
  <2>2. CASE Adding' \subseteq Adding /\ ~InsertProduct(w)
    <3>1. ASSUME NEW k \in Slots, shelf'[k] = "active", shelf[k] # "active" PROVE Restored(k)
      <4>1. SaveProduct(w) /\ shelf' # shelf
        BY <1>7, <2>2, <3>1, StepWrites DEF Writes
      <4>2. j.at = "saveProduct" /\ k = j.req.slot /\ j.ent
        BY <1>0, <3>1, <4>1, Forms DEF SaveProduct, Running, ShelfState, Reach
      <4> QED
        BY <4>2 DEF Restored
    <3>2. Kept' \in SUBSET Kept
      BY <1>1, <3>1 DEF Kept
    <3>3. Cardinality(Kept') + Cardinality(Adding') <= Cardinality(Kept) + Cardinality(Adding)
      BY <1>5, <2>2, <3>2, NothingAdded
    <3> QED
      BY <1>0, <1>5, <2>1, <2>2, <3>2, <3>3, Crowd, FS_Subset, FS_CardinalityType DEF ProductsCounted
  <2>3. CASE ~(Adding' \subseteq Adding)
    <3>1. UNCHANGED tables /\ Cardinality(Active) < Limit.products
      BY <1>2, <2>3
    <3>2. Active' = Active
      BY <3>1 DEF tables, Active
    <3> QED
      BY <1>4, <2>1, <3>1, <3>2 DEF ProductsCounted
  <2>4. CASE InsertProduct(w) /\ Adding' \subseteq Adding
    <3>1. j.at = "insertProduct" /\ j.req.kind = "createProduct" /\ w \in Adding
      BY <1>0, <2>4 DEF InsertProduct, Running, Reach, Adding, Admitted
    <3>2. job' = [job EXCEPT ![w] = Idle]
      BY <2>4 DEF InsertProduct, Refuse, Finish
    <3>3. job'[w].at = "idle"
      BY <1>0, <3>2, IdleAt
    <3>4. Adding' \in SUBSET (Adding \ {w})
      BY <2>4, <3>3 DEF Adding, Admitted
    <3>5. PICK x \in Slots : shelf' = shelf \/ shelf' = [shelf EXCEPT ![x] = "active"]
      <4>1. 1 \in Slots
        BY TenantAssumption, FS_CardinalityType
      <4> QED
        BY <2>4, <4>1 DEF InsertProduct, Refuse, tables
    <3>6. Kept' \in SUBSET (Kept \cup {x})
      BY <1>0, <1>1, <3>5 DEF Kept
    <3>7. Cardinality(Kept') + Cardinality(Adding') <= Cardinality(Kept) + Cardinality(Adding)
      BY <1>5, <3>1, <3>4, <3>6, PlaceUsed
    <3>8. IsFiniteSet(Kept') /\ IsFiniteSet(Adding')
      BY <1>3 DEF ProductRoom
    <3> QED
      BY <1>0, <1>5, <2>1, <3>7, <3>8, Crowd, FS_CardinalityType DEF ProductsCounted
  <2> QED
    BY <2>2, <2>3, <2>4
<1> QED
  BY <1>6, <1>7

-----------------------------------------------------------------------------
(* Users                                                                   *)

Present(s) == {e \in Emails : OnStaff(e, s)}

\* Places on the staff of a store are held by workers.
UserRoom(s) == /\ IsFiniteSet(Reserved(s)) /\ IsFiniteSet(Present(s)) /\ IsFiniteSet(Inviting(s))
               /\ \E R : /\ IsFiniteSet(R) /\ Reserved(s) \subseteq Present(s) \cup R
                         /\ Cardinality(Inviting(s)) + Cardinality(R) <= crowd

UserRooms == \A s \in Stores : UserRoom(s)

\* An invitation is in the hands of one worker, which holds no other place.
LEMMA UserPlaces == Typed => UserRooms
<1> SUFFICES ASSUME Typed, NEW s \in Stores PROVE UserRoom(s)
  BY DEF UserRooms
<1> DEFINE D == {w \in Workers : job[w].at \in {"selectMember", "insertMember"}}
           R == {e \in Emails : Wanted(e, s)}
           f == [e \in R |-> CHOOSE w \in D : job[w].req.who = e /\ job[w].req.at = s]
<1>1. IsFiniteSet(Emails) /\ Reserved(s) \in SUBSET Emails /\ Present(s) \in SUBSET Emails
  BY TenantAssumption DEF Reserved, Present
<1>2. Inviting(s) \in SUBSET Busy /\ D \in SUBSET Busy /\ Inviting(s) \cap D = {}
  <2>1. \A w \in Inviting(s) : job[w].at # "idle"
    BY DEF Inviting, Admitted
  <2>2. \A w \in D : job[w].req.kind # "invite"
    BY DEF Typed, JobSound, Reach
  <2> QED
    BY <2>1, <2>2 DEF Inviting, Busy, Running
<1>3. \A e \in R : f[e] \in D /\ job[f[e]].req.who = e
  BY DEF Wanted
<1>4. f \in [R -> D] /\ \A x, y \in R : f[x] = f[y] => x = y
  BY <1>3
<1>5. IsFiniteSet(R) /\ Cardinality(Inviting(s)) + Cardinality(R) <= Cardinality(Busy)
  <2> HIDE DEF f, R, D
  <2> QED
    BY <1>2, <1>4, Crowd, Places
<1>6. IsFiniteSet(Inviting(s)) /\ Cardinality(Inviting(s)) \in Nat /\ Cardinality(R) \in Nat
  BY <1>2, <1>5, Crowd, FS_Subset, FS_CardinalityType
<1>7. Reserved(s) \subseteq Present(s) \cup R
  BY DEF Reserved, Present
<1> QED
  BY <1>1, <1>5, <1>6, <1>7, Crowd, FS_Subset DEF UserRoom

\* Who comes onto the staff had a place, or is the first admin of a new store.
LEMMA StaffPlace ==
    ASSUME Typed, NEW w \in Workers, Step(w), NEW e \in Emails, NEW s \in Stores, OnStaff(e, s)'
    PROVE  \/ OnStaff(e, s) \/ Wanted(e, s)
           \/ Assign(w) /\ e = job[w].req.who /\ s = job[w].req.at
           \/ InsertManager(w) /\ s = job[w].store
<1> DEFINE j == job[w]
<1>0. /\ member \in [Emails -> [Stores -> MemberRow]] /\ JobSound(j) /\ j \in JobRow
      /\ j.at # "idle" => j.req \in Requests
  BY DEF Typed, TypeOK, JobSound
<1>1. CASE Assign(w)
  <2>1. CASE UNCHANGED member
    BY <1>1, <2>1 DEF OnStaff
  <2>2. CASE ~UNCHANGED member
    <3>1. member' = [member EXCEPT ![j.req.who][j.req.at] =
               [role |-> j.req.role, rights |-> DefaultRights(j.req.role),
                row |-> member[j.req.who][j.req.at].row + 1]]
      BY <1>1, <2>2 DEF Assign, Refuse, tables, Newcomer
    <3> QED
      BY <1>0, <1>1, <3>1 DEF OnStaff
  <2> QED
    BY <2>1, <2>2
<1>2. CASE UpdateMember(w)
  BY <1>0, <1>2 DEF UpdateMember, RowStays, OnStaff
<1>3. CASE InsertMember(w)
  BY <1>0, <1>3 DEF InsertMember, Running, OnStaff, Wanted
<1>4. CASE DeleteMember(w)
  BY <1>0, <1>4 DEF DeleteMember, OnStaff, NoMember
<1>5. CASE InsertManager(w)
  BY <1>0, <1>5 DEF InsertManager, Refuse, tables, OnStaff
<1>6. CASE DeleteStore(w)
  BY <1>0, <1>6 DEF DeleteStore, OnStaff, NoMember
<1>7. CASE UNCHANGED member
  BY <1>7 DEF OnStaff
<1> QED
  BY <1>1, <1>2, <1>3, <1>4, <1>5, <1>6, <1>7, StepWrites DEF Writes

\* What a step does to the staff and the places on it.
LEMMA StepUsers ==
    ASSUME Typed, Opened, UsersCounted, NEW w \in Workers, Step(w)
    PROVE  UsersCounted'
<1> SUFFICES ASSUME NEW s \in Stores
             PROVE  Cardinality(Reserved(s)') + Cardinality(Inviting(s)') <= Limit.users + Extra'
  BY DEF UsersCounted
<1> DEFINE j == job[w]
<1>0. /\ JobSound(j) /\ j \in JobRow /\ job \in [Workers -> JobRow] /\ j.at # "idle"
      /\ j.req \in Requests /\ j.req.kind \in Reach(j.at) /\ crowd' = crowd /\ Extra' = Extra
      /\ \A v \in Workers \ {w} : job'[v] = job[v]
      /\ job'[w].at # "idle" => job'[w].req = j.req
  BY StepMoves, StepComes, Onward DEF Typed, TypeOK, Moves, JobSound, outside, Comes, Extra
<1>1. ASSUME NEW e \in Emails, Wanted(e, s)' PROVE Wanted(e, s) \/ OnStaff(e, s)
  <2>1. CASE \E v \in Workers \ {w} : /\ job'[v].at \in {"selectMember", "insertMember"}
                                      /\ job'[v].req.who = e /\ job'[v].req.at = s
    BY <1>0, <2>1 DEF Wanted
  <2>2. CASE job'[w].at \in {"selectMember", "insertMember"} /\ job'[w].req.who = e /\
               job'[w].req.at = s
    <3>1. j.req.who = e /\ j.req.at = s /\ (FindMember(w) \/ SelectMember(w))
      BY <1>0, <2>2, StepComes DEF Comes
    <3>2. CASE SelectMember(w)
      BY <3>1, <3>2 DEF SelectMember, Running, Wanted
    <3>3. CASE FindMember(w) /\ member[e][s].role = "none"
      <4>1. job' = [job EXCEPT ![w] = Idle]
        BY <3>1, <3>3 DEF FindMember, Refuse, Finish
      <4> QED
        BY <1>0, <2>2, <4>1, IdleAt
    <3> QED
      BY <3>1, <3>2, <3>3 DEF OnStaff
  <2> QED
    BY <1>1, <2>1, <2>2 DEF Wanted
<1>2. ASSUME NEW e \in Emails, OnStaff(e, s)'
      PROVE  \/ e \in Reserved(s)
             \/ Assign(w) /\ e = j.req.who /\ s = j.req.at
             \/ InsertManager(w) /\ s = j.store
  BY <1>2, StaffPlace DEF Reserved
<1>3. ASSUME NEW v \in Inviting(s)', v \notin Inviting(s)
      PROVE  UNCHANGED tables /\ Cardinality(Present(s)) < Limit.users
  <2>1. v = w /\ Admitted(job'[w]) /\ job'[w].req.kind = "invite" /\ job'[w].req = j.req /\ j.req.at = s
    BY <1>0, <1>3 DEF Inviting, Admitted
  <2>2. ~Admitted(j) /\ j.req.kind = "invite"
    BY <1>3, <2>1 DEF Inviting
  <2>3. \/ UNCHANGED tables /\ store[s].state # "open"
        \/ UNCHANGED tables /\ ~AtLimit(j)
    BY <2>1, <2>2, AdmittedBy DEF Counted
  <2>4. CASE UNCHANGED tables /\ store[s].state # "open"
    <3>1. Present(s) = {}
      BY <2>4 DEF Opened, Present
    <3> QED
      BY <2>4, <3>1, FS_EmptySet, Crowd
  <2>5. CASE UNCHANGED tables /\ ~AtLimit(j)
    <3>1. Cardinality(Present(s)) \in Nat /\ Limit.users \in Nat
      BY UserPlaces, Crowd, FS_CardinalityType DEF UserRoom, UserRooms
    <3>2. ~(Cardinality(Present(s)) >= Limit.users)
      BY <2>1, <2>2, <2>5 DEF AtLimit, UsersOf, Present, OnStaff
    <3> QED
      BY <2>5, <3>1, <3>2
  <2> QED
    BY <2>3, <2>4, <2>5
<1>4. UserRoom(s) /\ UserRoom(s)'
  <2>1. Typed' => UserRooms'
    BY UserPlaces, PTL
  <2> QED
    BY <2>1, UserPlaces, StepTyped DEF UserRooms
<1>5. IsFiniteSet(Reserved(s)) /\ IsFiniteSet(Inviting(s))
  BY <1>4 DEF UserRoom
<1>6. Cardinality(Reserved(s)) + Cardinality(Inviting(s)) <= Limit.users + Extra
  BY DEF UsersCounted
<1>7. CASE ~(Inviting(s)' \subseteq Inviting(s))
  <2>1. UNCHANGED tables /\ Cardinality(Present(s)) < Limit.users
    BY <1>3, <1>7
  <2>2. Present(s)' = Present(s)
    BY <2>1 DEF tables, Present, OnStaff
  <2>3. PICK R : /\ IsFiniteSet(R) /\ Reserved(s)' \subseteq Present(s)' \cup R
                 /\ Cardinality(Inviting(s)') + Cardinality(R) <= crowd'
    BY <1>4 DEF UserRoom
  <2>4. IsFiniteSet(Present(s)') /\ Cardinality(Inviting(s)') \in Nat
    BY <1>4, FS_CardinalityType DEF UserRoom
  <2> QED
    BY <1>0, <2>1, <2>2, <2>3, <2>4, Crowd, FewRows DEF Extra
<1>8. CASE InsertManager(w) /\ s = j.store /\ Inviting(s)' \subseteq Inviting(s)
  <2>1. Untouched(s)
    BY <1>8 DEF Opened, InsertManager, Running
  <2>2. Reserved(s) = {} /\ Inviting(s) = {}
    <3>1. \A v \in Workers : job[v].at \in {"selectMember", "insertMember"} => Inside(job[v])
      BY DEF Typed, JobSound, Reach, Inside, Public, Self
    <3>2. \A v \in Inviting(s) : Inside(job[v]) /\ job[v].req.at = s
      BY DEF Inviting, Admitted, Inside, Public, Self
    <3> QED
      BY <2>1, <3>1, <3>2 DEF Untouched, Reserved, Wanted, Inviting
  <2>3. PICK x : \A e \in Emails : OnStaff(e, s)' => OnStaff(e, s) \/ e = x
    <3> DEFINE n == IF j.req.kind = "register" THEN j.req.who ELSE j.req.by
    <3>1. \/ member' = member
          \/ member' = [member EXCEPT ![n][j.store] = [role |-> "admin", rights |-> "none", row |-> 1]]
      BY <1>8 DEF InsertManager, Refuse, tables, Newcomer
    <3>2. \A e \in Emails : e # n => (OnStaff(e, s)' => OnStaff(e, s))
      BY <3>1 DEF OnStaff, Typed, TypeOK
    <3> QED
      BY <3>2
  <2>4. Reserved(s)' \in SUBSET {x} /\ Inviting(s)' = {}
    BY <1>1, <1>8, <2>2, <2>3 DEF Reserved
  <2>5. Cardinality({x}) = 1 /\ IsFiniteSet({x})
    BY FS_Singleton
  <2>6. Cardinality(Reserved(s)') <= 1 /\ Cardinality(Reserved(s)') \in Nat
    BY <2>4, <2>5, FS_Subset, FS_CardinalityType
  <2> QED
    BY <1>0, <2>4, <2>6, FS_EmptySet, Crowd
<1>9. CASE Assign(w) /\ s = j.req.at /\ Inviting(s)' \subseteq Inviting(s)
  <2>1. w \in Inviting(s)
    BY <1>0, <1>9 DEF Assign, Running, Reach, Inviting, Admitted
  <2>2. job' = [job EXCEPT ![w] = Idle]
    BY <1>9 DEF Assign, Refuse, Finish
  <2>3. job'[w].at = "idle"
    BY <1>0, <2>2, IdleAt
  <2>4. Inviting(s)' \in SUBSET (Inviting(s) \ {w})
    BY <1>9, <2>3 DEF Inviting, Admitted
  <2>5. ~InsertManager(w)
    BY <1>9 DEF Assign, InsertManager, Running
  <2>6. Reserved(s)' \in SUBSET (Reserved(s) \cup {j.req.who})
    BY <1>1, <1>2, <2>5 DEF Reserved
  <2>7. Cardinality(Reserved(s)') + Cardinality(Inviting(s)')
          <= Cardinality(Reserved(s)) + Cardinality(Inviting(s))
    BY <1>5, <2>1, <2>4, <2>6, PlaceUsed
  <2>8. IsFiniteSet(Reserved(s)') /\ IsFiniteSet(Inviting(s)')
    BY <1>4 DEF UserRoom
  <2> QED
    BY <1>0, <1>5, <1>6, <2>7, <2>8, Crowd, FS_CardinalityType
<1>10. CASE /\ Inviting(s)' \subseteq Inviting(s)
            /\ ~(InsertManager(w) /\ s = j.store) /\ ~(Assign(w) /\ s = j.req.at)
  <2>1. Reserved(s)' \in SUBSET Reserved(s)
    BY <1>1, <1>2, <1>10 DEF Reserved
  <2>2. Cardinality(Reserved(s)') + Cardinality(Inviting(s)')
          <= Cardinality(Reserved(s)) + Cardinality(Inviting(s))
    BY <1>5, <1>10, <2>1, NothingAdded
  <2>3. IsFiniteSet(Reserved(s)') /\ IsFiniteSet(Inviting(s)')
    BY <1>4 DEF UserRoom
  <2> QED
    BY <1>0, <1>5, <1>6, <2>2, <2>3, Crowd, FS_CardinalityType
<1> QED
  BY <1>7, <1>8, <1>9, <1>10

-----------------------------------------------------------------------------
(* Stores                                                                  *)

Owned(o) == {s \in Stores : store[s].state = "open" /\ store[s].owner = o}

\* Places for stores are held by workers.
StoreRoom(o) == /\ IsFiniteSet(Held(o)) /\ IsFiniteSet(Owned(o)) /\ IsFiniteSet(Founding(o))
                /\ \E R : /\ IsFiniteSet(R) /\ Held(o) \subseteq Owned(o) \cup R
                          /\ Cardinality(Founding(o)) + Cardinality(R) <= crowd
StoreRooms == \A o \in Emails : StoreRoom(o)

\* A store in the making is in the hands of one worker, which holds no other place.
LEMMA StorePlaces == Typed => StoreRooms
<1> SUFFICES ASSUME Typed, NEW o \in Emails PROVE StoreRoom(o)
  BY DEF StoreRooms
<1> DEFINE D == {w \in Workers : job[w].at = "saveStore"}
           R == {s \in Stores : Reopened(s)}
           f == [s \in R |-> CHOOSE w \in D : job[w].req.at = s]
<1>1. IsFiniteSet(Stores) /\ Held(o) \in SUBSET Stores /\ Owned(o) \in SUBSET Stores
  BY TenantAssumption DEF Held, Owned
<1>2. Founding(o) \in SUBSET Busy /\ D \in SUBSET Busy /\ Founding(o) \cap D = {}
  BY DEF Founding, Busy, Running
<1>3. \A s \in R : f[s] \in D /\ job[f[s]].req.at = s
  BY DEF Reopened
<1>4. f \in [R -> D] /\ \A x, y \in R : f[x] = f[y] => x = y
  BY <1>3
<1>5. IsFiniteSet(R) /\ Cardinality(Founding(o)) + Cardinality(R) <= Cardinality(Busy)
  <2> HIDE DEF f, R, D
  <2> QED
    BY <1>2, <1>4, Crowd, Places
<1>6. /\ IsFiniteSet(Founding(o)) /\ Cardinality(Founding(o)) \in Nat /\ Cardinality(R) \in Nat
  BY <1>2, <1>5, Crowd, FS_Subset, FS_CardinalityType
<1>7. Held(o) \subseteq Owned(o) \cup R
  BY DEF Held, Owned
<1> QED
  BY <1>1, <1>5, <1>6, <1>7, Crowd, FS_Subset DEF StoreRoom

\* A store keeps its owner; a new one has its founder's.
LEMMA StoreMoves ==
    ASSUME Typed, SaverSound, NEW w \in Workers, Step(w), NEW s \in Stores
    PROVE  /\ store[s].state # "none" => store'[s].owner = store[s].owner
           /\ store[s].state = "none" => \/ store'[s] = store[s]
                                         \/ /\ InsertStore(w) /\ store'[s].owner = job[w].owner
                                            /\ store' = [store EXCEPT ![s] = store'[s]]
           /\ store'[s].state = "open" => \/ store[s].state = "open"
                                          \/ SaveStore(w) /\ s = job[w].req.at
                                          \/ InsertStore(w) /\ store[s].state = "none"
           /\ store'[s].state = "gone" => store[s].state # "none"
<1> DEFINE j == job[w]
<1>0. /\ store \in [Stores -> StoreRow] /\ JobSound(j) /\ j \in JobRow
      /\ j.at # "idle" => j.req \in Requests
      /\ j.at \in {"saveStore", "deleteStore"} => store[j.req.at].state # "none"
  BY DEF Typed, TypeOK, JobSound
<1>1. CASE InsertStore(w)
  <2>1. \/ UNCHANGED store
        \/ \E t \in Stores : /\ store[t].state = "none"
                             /\ store' = [store EXCEPT ![t] = [state |-> "open", owner |-> j.owner]]
    BY <1>1 DEF InsertStore, Refuse, tables
  <2>2. CASE UNCHANGED store
    BY <1>1, <2>2
  <2>3. ASSUME NEW t \in Stores, store[t].state = "none",
               store' = [store EXCEPT ![t] = [state |-> "open", owner |-> j.owner]]
        PROVE  /\ store[s].state # "none" => store'[s].owner = store[s].owner
               /\ store[s].state = "none" => \/ store'[s] = store[s]
                                             \/ /\ store'[s].owner = j.owner
                                                /\ store' = [store EXCEPT ![s] = store'[s]]
               /\ store'[s].state = "open" => store[s].state = "open" \/ store[s].state = "none"
               /\ store'[s].state = "gone" => store[s].state # "none"
    BY <1>0, <2>3
  <2> QED
    BY <1>1, <2>1, <2>2, <2>3
<1>2. CASE DeleteStore(w)
  BY <1>0, <1>2, Forms DEF DeleteStore, Running, StoreRow, NoStore
<1>3. CASE SaveStore(w)
  BY <1>0, <1>3, Forms DEF SaveStore, Running, SaverSound
<1> QED
  BY <1>1, <1>2, <1>3, StepWrites DEF Writes

\* Whoever saves a store keeps the owner it loaded; no step changes an owner.
LEMMA StepSaver ==
    ASSUME Typed, SaverSound, NEW w \in Workers, Step(w)
    PROVE  SaverSound'
<1> DEFINE j == job[w]
<1>0. /\ job \in [Workers -> JobRow] /\ \A v \in Workers \ {w} : job'[v] = job[v]
      /\ j \in JobRow /\ j.req \in Requests
  BY StepMoves, Onward DEF Typed, JobSound, outside, Moves
<1>1. ASSUME NEW v \in Workers, v # w, job'[v].at = "saveStore"
      PROVE  store'[job'[v].req.at].owner = job'[v].owner
  <2>1. job'[v] = job[v] /\ job[v].req.at \in Stores /\ store[job[v].req.at].state # "none"
    BY <1>0, <1>1, Forms DEF Typed, JobSound
  <2> QED
    BY <1>1, <2>1, StoreMoves DEF SaverSound
<1>2. ASSUME job'[w].at = "saveStore"
      PROVE  store'[job'[w].req.at].owner = job'[w].owner
  <2>1. FindStore(w) /\ job'[w].req = j.req
    BY <1>2, StepComes DEF Comes
  <2>2. job' # [job EXCEPT ![w] = Idle]
    BY <1>0, <1>2, IdleAt
  <2>3. /\ job' = [job EXCEPT ![w] = [[j EXCEPT !.owner = store[j.req.at].owner]
                     EXCEPT !.at = IF j.req.kind = "removeStore" THEN "deleteStore" ELSE "saveStore"]]
        /\ UNCHANGED store
    BY <2>1, <2>2 DEF FindStore, Refuse, Finish, Reads, Continue, tables
  <2>4. job'[w].owner = store[j.req.at].owner
    BY <1>0, <2>3 DEF JobRow
  <2> QED
    BY <2>1, <2>3, <2>4
<1> QED
  BY <1>1, <1>2 DEF SaverSound

\* Nobody begins to work for somebody without a store.
LEMMA LandlessStays ==
    ASSUME Typed, SaverSound, NEW w \in Workers, Step(w), NEW o \in Emails, Landless(o),
           ~(InsertStore(w) /\ job[w].owner = o)
    PROVE  Landless(o)'
<1> DEFINE j == job[w]
<1>0. /\ job \in [Workers -> JobRow] /\ \A v \in Workers \ {w} : job'[v] = job[v]
      /\ j \in JobRow /\ j.req \in Requests /\ JobSound(j) /\ j.req.kind \in Reach(j.at)
      /\ store \in [Stores -> StoreRow]
      /\ job'[w].at # "idle" => job'[w].req = j.req
  BY StepMoves, StepComes, Onward DEF Typed, TypeOK, JobSound, outside, Moves, Comes
<1>1. ASSUME NEW s \in Stores PROVE store'[s].owner # o
  BY StoreMoves DEF Landless
<1>2. ASSUME job'[w].req.kind # "register", job'[w].at \in {"count", "insertStore", "saveStore"}
      PROVE  job'[w].owner # o
  <2>1. /\ job' # [job EXCEPT ![w] = Idle] /\ j.req.kind # "register" /\ j.req.at \in Stores
    BY <1>0, <1>2, IdleAt, Forms
  <2>2. CASE SubscriptionGuard(w)
    <3>1. job' = [job EXCEPT ![w] = [[j EXCEPT
            !.owner = IF store[j.req.at].state = "open" THEN store[j.req.at].owner ELSE NoOne]
            EXCEPT !.at = IF j.req.kind \in Counted THEN "count" ELSE Entry(j.req.kind)]]
      BY <2>1, <2>2 DEF SubscriptionGuard, Refuse, Finish, Reads, Continue
    <3>2. job'[w].owner = IF store[j.req.at].state = "open" THEN store[j.req.at].owner ELSE NoOne
      BY <1>0, <3>1 DEF JobRow
    <3> QED
      BY <2>1, <3>2, TenantAssumption DEF Landless
  <2>3. CASE UsageLimitGuard(w)
    <3>1. /\ job' = [job EXCEPT ![w] = [j EXCEPT !.at = Entry(j.req.kind)]] /\ j.at = "count"
      BY <2>1, <2>3 DEF UsageLimitGuard, Refuse, Finish, Reads, Continue, Running
    <3>2. job'[w].owner = j.owner
      BY <1>0, <3>1 DEF JobRow
    <3> QED
      BY <2>1, <3>1, <3>2 DEF Landless
  <2>4. CASE FindStore(w)
    <3>1. job' = [job EXCEPT ![w] = [[j EXCEPT !.owner = store[j.req.at].owner]
                     EXCEPT !.at = IF j.req.kind = "removeStore" THEN "deleteStore" ELSE "saveStore"]]
      BY <2>1, <2>4 DEF FindStore, Refuse, Finish, Reads, Continue
    <3>2. job'[w].owner = store[j.req.at].owner
      BY <1>0, <3>1 DEF JobRow
    <3> QED
      BY <2>1, <3>2 DEF Landless
  <2>5. ~InsertOrganization(w)
    BY <1>0, <2>1 DEF InsertOrganization, Running, Reach
  <2> QED
    BY <1>2, <2>2, <2>3, <2>4, <2>5, StepComes DEF Comes
<1> QED
  BY <1>0, <1>1, <1>2 DEF Landless

\* Until a registration inserts its store, its owner has none.
LEMMA StepFounders ==
    ASSUME Typed, People, SaverSound, FoundersLandless, NEW w \in Workers, Step(w)
    PROVE  FoundersLandless'
<1> DEFINE j == job[w]
<1>0. /\ job \in [Workers -> JobRow] /\ \A v \in Workers \ {w} : job'[v] = job[v]
      /\ j \in JobRow /\ j.req \in Requests /\ JobSound(j) /\ j.req.kind \in Reach(j.at)
      /\ job'[w].at # "idle" => job'[w].req = j.req
      /\ accounts \subseteq accounts'
  <2>1. accounts \subseteq accounts'
    BY StepWrites DEF Writes, CreateAccount, Refuse, tables
  <2> QED
    BY <2>1, StepMoves, StepComes, Onward DEF Typed, TypeOK, JobSound, outside, Moves, Comes
<1>1. ASSUME NEW o \in Emails, Landless(o), InsertStore(w), j.owner = o
      PROVE  j.req.kind = "register" /\ j.req.who = o /\ Creating(j) /\ o \in accounts
  <2>1. j.at = "insertStore" /\ j.req.kind = "register"
    BY <1>1 DEF InsertStore, Running, Landless
  <2>2. j.req.who = o /\ Creating(j)
    BY <1>0, <1>1, <2>1 DEF JobSound, Creating
  <2> QED
    BY <2>1, <2>2 DEF People, MakerKnows
<1>2. ASSUME NEW o \in Emails, o \notin accounts' PROVE Landless(o)'
  BY <1>0, <1>1, <1>2, LandlessStays DEF FoundersLandless
<1>3. ASSUME NEW v \in Workers, NEW o \in Emails, o = job'[v].req.who, job'[v].req.kind = "register",
             job'[v].at \in {"insertUser", "insertOrganization", "insertStore"}
      PROVE  Landless(o)'
  <2>1. Creating(job'[v])
    BY <1>3 DEF Creating
  <2>2. CASE v # w
    <3>1. job'[v] = job[v] /\ Creating(job[v]) /\ Landless(o)
      BY <1>0, <1>3, <2>1, <2>2 DEF FoundersLandless
    <3>2. ~(InsertStore(w) /\ j.owner = o)
      BY <1>1, <1>3, <2>2, <3>1 DEF People
    <3> QED
      BY <3>1, <3>2, LandlessStays
  <2>3. CASE v = w
    <3>1. job'[w].req = j.req /\ j.req.who = o
          /\ \/ CreateAccount(w) /\ job'[w].at = "insertUser"
             \/ Creating(j) /\ job'[w].at # "insertUser"
      BY <1>3, <2>1, <2>3, CreatorsStart
    <3>2. CASE CreateAccount(w) /\ job'[w].at = "insertUser"
      <4>1. o \notin accounts /\ ~InsertStore(w)
        <5>1. CASE j.req.who \in accounts
          <6>1. job' = [job EXCEPT ![w] = Idle]
            BY <3>2, <5>1 DEF CreateAccount, Refuse, Finish, Newcomer
          <6> QED
            BY <1>0, <3>2, <6>1, IdleAt
        <5> QED
          BY <3>1, <3>2, <5>1 DEF CreateAccount, InsertStore, Running
      <4> QED
        BY <4>1, LandlessStays DEF FoundersLandless
    <3>3. CASE Creating(j) /\ job'[w].at # "insertUser"
      <4>1. /\ InsertUser(w) \/ InsertOrganization(w)
            /\ j.req.kind = "register"
        BY <1>0, <1>3, <2>3, <3>1, <3>3, StepComes DEF Comes, Reach, Public, Counted, SubscriptionGuard,
           UsageLimitGuard, Running
      <4>2. j.at \in {"insertUser", "insertOrganization"} /\ ~InsertStore(w)
        BY <4>1 DEF InsertUser, InsertOrganization, InsertStore, Running
      <4>3. Landless(o)
        BY <3>1, <4>1, <4>2 DEF FoundersLandless
      <4> QED
        BY <4>2, <4>3, LandlessStays
    <3> QED
      BY <3>1, <3>2, <3>3
  <2> QED
    BY <2>2, <2>3
<1> QED
  BY <1>2, <1>3 DEF FoundersLandless

\* What a step does to the stores of an owner and the places for them.
LEMMA StepStores ==
    ASSUME Typed, People, StoresCounted, NEW w \in Workers, Step(w)
    PROVE  StoresCounted'
<1> SUFFICES ASSUME NEW o \in Emails
             PROVE  Cardinality(Held(o)') + Cardinality(Founding(o)') <= Limit.stores + Extra'
  BY StepSaver, StepFounders DEF StoresCounted
<1> DEFINE j == job[w]
<1>0. /\ JobSound(j) /\ j \in JobRow /\ job \in [Workers -> JobRow] /\ j.at # "idle"
      /\ j.req \in Requests /\ j.req.kind \in Reach(j.at) /\ crowd' = crowd /\ Extra' = Extra
      /\ \A v \in Workers \ {w} : job'[v] = job[v]
      /\ job'[w].at # "idle" => job'[w].req = j.req
      /\ SaverSound
  BY StepMoves, StepComes, Onward DEF Typed, TypeOK, Moves, JobSound, outside, Comes, Extra,
     StoresCounted
<1>1. ASSUME NEW s \in Held(o)', ~(InsertStore(w) /\ store[s].state = "none")
      PROVE  s \in Held(o)
  <2>1. /\ s \in Stores /\ store'[s].owner = o
        /\ store'[s].state = "open" \/ Reopened(s)'
    BY DEF Held
  <2>2. store[s].state = "open" \/ Reopened(s)
    <3>1. CASE store'[s].state = "open"
      <4>1. store[s].state = "open" \/ (SaveStore(w) /\ s = j.req.at)
        BY <1>0, <1>1, <2>1, <3>1, StoreMoves
      <4>2. CASE SaveStore(w) /\ s = j.req.at
        <5>1. store[s].state \in {"open", "gone"}
          BY <2>1, <4>2 DEF SaveStore, Running, Typed, TypeOK, StoreRow, NoStore
        <5> QED
          BY <4>2, <5>1 DEF SaveStore, Running, Reopened
      <4> QED
        BY <4>1, <4>2
    <3>2. CASE Reopened(s)'
      <4>1. PICK v \in Workers : job'[v].at = "saveStore" /\ job'[v].req.at = s
        BY <3>2 DEF Reopened
      <4>2. store[s].state \in {"open", "gone"}
        BY <1>0, <2>1, <3>2, StoreMoves DEF Reopened, Typed, TypeOK, StoreRow, NoStore
      <4>3. CASE v # w
        BY <1>0, <4>1, <4>2, <4>3 DEF Reopened
      <4>4. CASE v = w
        <5>1. FindStore(w) /\ j.req.at = s
          BY <1>0, <4>1, <4>4, StepComes DEF Comes
        <5>2. job' # [job EXCEPT ![w] = Idle]
          BY <1>0, <4>1, <4>4, IdleAt
        <5>3. store[s].state = "open"
          BY <5>1, <5>2 DEF FindStore, Refuse, Finish
        <5> QED
          BY <5>3
      <4> QED
        BY <4>3, <4>4
    <3> QED
      BY <2>1, <3>1, <3>2
  <2>3. store[s].owner = o
    <3>1. store[s].state # "none"
      BY <2>2 DEF Reopened
    <3> QED
      BY <1>0, <2>1, <3>1, StoreMoves
  <2> QED
    BY <2>1, <2>2, <2>3 DEF Held
<1>2. ASSUME NEW v \in Founding(o)', v \notin Founding(o)
      PROVE  UNCHANGED tables /\ Cardinality(Owned(o)) < Limit.stores
  <2>1. /\ v = w /\ job'[w].req.kind = "createStore" /\ job'[w].at = "insertStore"
        /\ job'[w].owner = o /\ job'[w].req = j.req
    BY <1>0, <1>2 DEF Founding
  <2>2. UsageLimitGuard(w)
    <3>1. ~InsertOrganization(w)
      BY <1>0, <2>1 DEF InsertOrganization, Running, Reach
    <3>2. ~SubscriptionGuard(w)
      <4>1. CASE job' = [job EXCEPT ![w] = Idle]
        BY <1>0, <2>1, <4>1, IdleAt
      <4>2. CASE \E x : job' = [job EXCEPT ![w] = [[j EXCEPT !.owner = x] EXCEPT !.at = "count"]]
        BY <1>0, <2>1, <4>2 DEF JobRow
      <4> QED
        BY <2>1, <4>1, <4>2 DEF SubscriptionGuard, Refuse, Finish, Reads, Continue, Counted
    <3> QED
      BY <2>1, <3>1, <3>2, StepComes DEF Comes
  <2>3. job' # [job EXCEPT ![w] = Idle]
    BY <1>0, <2>1, IdleAt
  <2>4. job' = [job EXCEPT ![w] = [j EXCEPT !.at = Entry(j.req.kind)]] /\ UNCHANGED tables
        /\ ~(j.owner # NoOne /\ AtLimit(j))
    BY <2>2, <2>3 DEF UsageLimitGuard, Refuse, Finish, Reads, Continue
  <2>5. j.owner = o
    BY <1>0, <2>1, <2>4 DEF JobRow
  <2>6. j.req.kind = "createStore" /\ ~AtLimit(j)
    BY <2>1, <2>4, <2>5, TenantAssumption
  <2>7. ~(Cardinality(Owned(o)) >= Limit.stores)
    BY <2>5, <2>6 DEF AtLimit, StoresOf, Owned
  <2>8. Cardinality(Owned(o)) \in Nat /\ Limit.stores \in Nat
    BY StorePlaces, Crowd, FS_CardinalityType DEF StoreRoom, StoreRooms
  <2> QED
    BY <2>4, <2>7, <2>8
<1>3. StoreRoom(o) /\ StoreRoom(o)'
  <2>1. Typed' => StoreRooms'
    BY StorePlaces, PTL
  <2> QED
    BY <2>1, StorePlaces, StepTyped DEF StoreRooms
<1>4. /\ IsFiniteSet(Held(o)) /\ IsFiniteSet(Founding(o))
      /\ IsFiniteSet(Held(o)') /\ IsFiniteSet(Founding(o)')
  BY <1>3 DEF StoreRoom
<1>5. Cardinality(Held(o)) + Cardinality(Founding(o)) <= Limit.stores + Extra
  BY DEF StoresCounted
<1>6. CASE ~(Founding(o)' \subseteq Founding(o))
  <2>1. UNCHANGED tables /\ Cardinality(Owned(o)) < Limit.stores
    BY <1>2, <1>6
  <2>2. Owned(o)' = Owned(o)
    BY <2>1 DEF tables, Owned
  <2>3. PICK R : /\ IsFiniteSet(R) /\ Held(o)' \subseteq Owned(o)' \cup R
                 /\ Cardinality(Founding(o)') + Cardinality(R) <= crowd'
    BY <1>3 DEF StoreRoom
  <2>4. IsFiniteSet(Owned(o)') /\ Cardinality(Founding(o)') \in Nat
    BY <1>3, FS_CardinalityType DEF StoreRoom
  <2> QED
    BY <1>0, <2>1, <2>2, <2>3, <2>4, Crowd, FewRows DEF Extra
<1>7. CASE InsertStore(w) /\ j.owner = o /\ Founding(o)' \subseteq Founding(o)
  <2>1. PICK x : \A s \in Held(o)' : s \in Held(o) \/ s = x
    <3>1. CASE \E y \in Stores : y \in Held(o)' /\ y \notin Held(o)
      <4>1. PICK y \in Stores : y \in Held(o)' /\ y \notin Held(o)
        BY <3>1
      <4>2. store[y].state = "none"
        BY <1>1, <4>1
      <4>3. store' = [store EXCEPT ![y] = store'[y]]
        <5>1. store'[y] # store[y]
          BY <4>1, <4>2 DEF Held, Reopened
        <5> QED
          BY <1>0, <4>2, <5>1, StoreMoves
      <4>4. ASSUME NEW s \in Held(o)', s # y PROVE s \in Held(o)
        <5>1. s \in Stores /\ store'[s] = store[s] /\ store'[s].owner = o
              /\ (store'[s].state = "open" \/ store'[s].state = "gone")
          <6>1. s \in Stores /\ store \in [Stores -> StoreRow]
            BY <4>4 DEF Held, Typed, TypeOK
          <6>2. store'[s] = store[s]
            BY <4>3, <4>4, <6>1
          <6> QED
            BY <4>4, <6>1, <6>2 DEF Held, Reopened
        <5>2. store[s].state # "none"
          BY <5>1
        <5> QED
          BY <1>1, <4>4, <5>2
      <4> QED
        BY <4>4
    <3> QED
      BY <3>1 DEF Held
  <2>2. CASE j.req.kind = "createStore"
    <3>1. w \in Founding(o)
      BY <1>7, <2>2 DEF Founding, InsertStore, Running
    <3>2. w \notin Founding(o)'
      <4>1. job'[w].at \in {"idle", "insertManager"}
        <5>1. CASE job' = [job EXCEPT ![w] = Idle]
          BY <1>0, <5>1, IdleAt
        <5>2. CASE \E s \in Stores : job' = [job EXCEPT ![w] = [[j EXCEPT !.store = s]
                     EXCEPT !.at = "insertManager"]]
          BY <1>0, <5>2 DEF JobRow
        <5> QED
          BY <1>7, <5>1, <5>2 DEF InsertStore, Refuse, Finish, Continue
      <4> QED
        BY <4>1 DEF Founding
    <3>3. Held(o)' \in SUBSET (Held(o) \cup {x}) /\ Founding(o)' \in SUBSET (Founding(o) \ {w})
      BY <1>7, <2>1, <3>2
    <3>4. Cardinality(Held(o)') + Cardinality(Founding(o)') <= Cardinality(Held(o)) + Cardinality(Founding(o))
      BY <1>4, <3>1, <3>3, PlaceUsed
    <3> QED
      BY <1>0, <1>4, <1>5, <3>4, Crowd, FS_CardinalityType
  <2>3. CASE j.req.kind # "createStore"
    <3>1. j.at = "insertStore" /\ j.req.kind = "register" /\ j.req.who = o
      BY <1>0, <1>7, <2>3 DEF InsertStore, Running, Reach, JobSound
    <3>2. Landless(o)
      BY <3>1 DEF StoresCounted, FoundersLandless
    <3>3. Held(o) = {} /\ Founding(o) = {}
      BY <3>2 DEF Landless, Held, Founding
    <3>4. Held(o)' \in SUBSET {x} /\ Founding(o)' = {}
      BY <1>7, <2>1, <3>3
    <3>5. Cardinality({x}) = 1 /\ IsFiniteSet({x})
      BY FS_Singleton
    <3>6. Cardinality(Held(o)') <= 1 /\ Cardinality(Held(o)') \in Nat
      BY <3>4, <3>5, FS_Subset, FS_CardinalityType
    <3> QED
      BY <1>0, <3>4, <3>6, FS_EmptySet, Crowd
  <2> QED
    BY <2>2, <2>3
<1>8. CASE ~(InsertStore(w) /\ j.owner = o) /\ Founding(o)' \subseteq Founding(o)
  <2>1. ASSUME NEW s \in Held(o)', InsertStore(w), store[s].state = "none" PROVE FALSE
    <3>1. store'[s].owner = o /\ s \in Stores
      BY <2>1 DEF Held
    <3>2. store[s].owner = NoOne \/ store[s].state # "none"
      BY <3>1 DEF Typed, TypeOK, StoreRow, NoStore
    <3>3. store'[s] = store[s] \/ store'[s].owner = j.owner
      BY <1>0, <2>1, <3>1, StoreMoves
    <3> QED
      BY <1>8, <2>1, <3>1, <3>2, <3>3, TenantAssumption
  <2>2. Held(o)' \in SUBSET Held(o)
    BY <1>1, <2>1
  <2>3. Cardinality(Held(o)') + Cardinality(Founding(o)') <= Cardinality(Held(o)) + Cardinality(Founding(o))
    BY <1>4, <1>8, <2>2, NothingAdded
  <2> QED
    BY <1>0, <1>4, <1>5, <2>3, Crowd, FS_CardinalityType
<1> QED
  BY <1>6, <1>7, <1>8

-----------------------------------------------------------------------------
(* Every step                                                              *)

Plans == UsersCounted /\ StoresCounted /\ ProductsCounted

\* A request that comes or dies adds no place.
Fresh(j) == \/ j.at \in {"idle", "tenant"}
            \/ /\ j.at \in {"findUser", "findEmail", "findLink", "findSelf"}
               /\ j.req.kind \in Public \cup Self

\* A step that touches no table and gives no worker a new place.
LEMMA PlansStay ==
    ASSUME Typed, Plans, UNCHANGED <<accounts, member, store, shelf>>, crowd' \in Nat, crowd' >= crowd,
           \A v \in Workers : job'[v] = job[v] \/ Fresh(job'[v])
    PROVE  Plans'
<1>1. Extra \in Nat /\ Extra' \in Nat /\ Extra <= Extra'
  <2>1. \A c, d \in Nat : /\ (IF c = 0 THEN 0 ELSE c - 1) \in Nat
                          /\ d >= c => (IF c = 0 THEN 0 ELSE c - 1) <= (IF d = 0 THEN 0 ELSE d - 1)
    OBVIOUS
  <2>2. crowd \in Nat /\ crowd' \in Nat /\ crowd' >= crowd
    BY Crowd
  <2> QED
    BY <2>1, <2>2 DEF Extra
<1>2. ASSUME NEW P, IsFiniteSet(P), NEW I, IsFiniteSet(I), NEW Q \in SUBSET P, NEW J \in SUBSET I,
             NEW n \in Nat, Cardinality(P) + Cardinality(I) <= n + Extra
      PROVE  Cardinality(Q) + Cardinality(J) <= n + Extra'
  <2>1. Cardinality(Q) + Cardinality(J) <= Cardinality(P) + Cardinality(I)
    BY <1>2, NothingAdded
  <2>2. IsFiniteSet(Q) /\ IsFiniteSet(J)
    BY <1>2, FS_Subset
  <2>3. /\ Cardinality(Q) \in Nat /\ Cardinality(J) \in Nat
        /\ Cardinality(P) \in Nat /\ Cardinality(I) \in Nat
    BY <1>2, <2>2, FS_CardinalityType
  <2> QED
    BY <1>1, <1>2, <2>1, <2>3
<1>3. UsersCounted'
  <2> SUFFICES ASSUME NEW s \in Stores
               PROVE  Cardinality(Reserved(s)') + Cardinality(Inviting(s)') <= Limit.users + Extra'
    BY DEF UsersCounted
  <2>1. Reserved(s)' \in SUBSET Reserved(s)
    BY DEF Reserved, OnStaff, Wanted, Fresh
  <2>2. Inviting(s)' \in SUBSET Inviting(s)
    BY DEF Inviting, Admitted, Fresh, Public, Self
  <2>3. IsFiniteSet(Reserved(s)) /\ IsFiniteSet(Inviting(s))
    BY UserPlaces DEF UserRooms, UserRoom
  <2> QED
    BY <1>2, <2>1, <2>2, <2>3, Crowd DEF Plans, UsersCounted
<1>4. StoresCounted'
  <2>1. SaverSound' /\ \A o \in Emails : Landless(o) => Landless(o)'
    BY DEF Plans, StoresCounted, SaverSound, Landless, Fresh
  <2>2. FoundersLandless'
    BY <2>1 DEF Plans, StoresCounted, FoundersLandless, Fresh
  <2>3. ASSUME NEW o \in Emails
        PROVE  Cardinality(Held(o)') + Cardinality(Founding(o)') <= Limit.stores + Extra'
    <3>1. Held(o)' \in SUBSET Held(o)
      BY DEF Held, Reopened, Fresh
    <3>2. Founding(o)' \in SUBSET Founding(o)
      BY DEF Founding, Fresh
    <3>3. IsFiniteSet(Held(o)) /\ IsFiniteSet(Founding(o))
      BY StorePlaces DEF StoreRooms, StoreRoom
    <3> QED
      BY <1>2, <3>1, <3>2, <3>3, Crowd DEF Plans, StoresCounted
  <2> QED
    BY <2>1, <2>2, <2>3 DEF StoresCounted
<1>5. ProductsCounted'
  <2>1. Kept' \in SUBSET Kept
    BY DEF Kept, Restored, Fresh
  <2>2. Adding' \in SUBSET Adding
    BY DEF Adding, Admitted, Fresh, Public, Self
  <2>3. IsFiniteSet(Kept) /\ IsFiniteSet(Adding)
    BY ProductPlaces DEF ProductRoom
  <2> QED
    BY <1>2, <2>1, <2>2, <2>3, Crowd DEF Plans, ProductsCounted
<1> QED
  BY <1>3, <1>4, <1>5 DEF Plans

\* Every step: the handlers one by one, and what interrupts or admits them.
LEMMA NextPlans == Typed /\ Opened /\ People /\ Plans /\ [Next]_vars => Plans'
<1> SUFFICES ASSUME Typed, Opened, People, Plans, [Next]_vars PROVE Plans'
  OBVIOUS
<1>1. ASSUME NEW w \in Workers, Step(w) PROVE Plans'
  BY <1>1, StepUsers, StepStores, StepProducts DEF Plans
<1>2. ASSUME NEW w \in Workers, Break(w) PROVE Plans'
  <2>1. /\ \A v \in Workers \ {w} : job'[v] = job[v]
        /\ job'[w].at = "idle" /\ UNCHANGED tables /\ crowd' = crowd
    BY <1>2, BreakTyped, Onward, IdleAt DEF Break
  <2> QED
    BY <2>1, PlansStay, Crowd DEF tables, Fresh
<1>3. ASSUME NEW w \in Workers, NEW r \in Requests, Begin(w, r) PROVE Plans'
  <2>1. /\ \A v \in Workers \ {w} : job'[v] = job[v]
        /\ UNCHANGED tables /\ crowd' \in Nat /\ crowd' >= crowd /\ job'[w].req = r
        /\ job'[w].at = IF r.kind \in Public \cup Self THEN Entry(r.kind) ELSE "tenant"
    BY <1>3, BeginTyped
  <2>2. Fresh(job'[w])
    BY <2>1 DEF Fresh, Public, Self, Entry
  <2> QED
    BY <2>1, <2>2, PlansStay DEF tables
<1>4. CASE \/ \E l \in Links : Expire(l)
           \/ \E e \in Emails : Lapse(e)
           \/ UNCHANGED vars
  <2>1. UNCHANGED <<accounts, member, store, shelf, job, crowd>>
    BY <1>4 DEF Expire, Lapse, vars, tables, history, outside
  <2> QED
    BY <2>1, PlansStay, Crowd
<1> QED
  BY <1>1, <1>2, <1>3, <1>4 DEF Next, Closed

\* At first there is one member, one store and one product.
LEMMA InitPlans == Init => Plans
<1> SUFFICES ASSUME Init PROVE Plans
  OBVIOUS
<1>1. Extra = 0 /\ Typed /\ \A w \in Workers : job[w].at = "idle"
  BY InitTyped, IdleAt DEF Init, Extra
<1>2. ASSUME NEW x, NEW Q \in SUBSET {x}, NEW n \in Nat \ {0}
      PROVE  Cardinality(Q) + Cardinality({}) <= n + Extra
  <2>1. Cardinality({x}) = 1 /\ IsFiniteSet({x}) /\ Cardinality({}) = 0
    BY FS_Singleton, FS_EmptySet
  <2>2. Cardinality(Q) <= 1 /\ Cardinality(Q) \in Nat
    BY <2>1, FS_Subset, FS_CardinalityType
  <2> QED
    BY <1>1, <2>1, <2>2
<1>3. UsersCounted
  <2> SUFFICES ASSUME NEW s \in Stores
               PROVE  Cardinality(Reserved(s)) + Cardinality(Inviting(s)) <= Limit.users + Extra
    BY DEF UsersCounted
  <2>1. Reserved(s) \in SUBSET {Founder}
    BY <1>1 DEF Init, Reserved, OnStaff, Wanted, NoMember
  <2>2. Inviting(s) = {}
    BY <1>1 DEF Inviting, Admitted
  <2> QED
    BY <1>2, <2>1, <2>2, Crowd, <1>1
<1>4. StoresCounted
  <2>1. SaverSound /\ FoundersLandless
    BY <1>1, TenantAssumption DEF Init, SaverSound, FoundersLandless, Landless, NoStore
  <2>2. ASSUME NEW o \in Emails
        PROVE  Cardinality(Held(o)) + Cardinality(Founding(o)) <= Limit.stores + Extra
    <3>1. Held(o) \in SUBSET {First}
      BY <1>1, TenantAssumption DEF Init, Held, NoStore
    <3>2. Founding(o) = {}
      BY <1>1 DEF Founding
    <3> QED
      BY <1>2, <3>1, <3>2, Crowd, <1>1
  <2> QED
    BY <2>1, <2>2 DEF StoresCounted
<1>5. ProductsCounted
  <2>1. Kept \in SUBSET {1} /\ store[First].state = "open"
    BY <1>1, FirstStore DEF Init, Kept, Restored
  <2>2. Adding = {}
    BY <1>1 DEF Adding, Admitted
  <2> QED
    BY <1>2, <2>1, <2>2, Crowd, <1>1 DEF ProductsCounted
<1> QED
  BY <1>3, <1>4, <1>5 DEF Plans

\* UsageLimitGuard counts before the handler inserts: requests in progress
\* together overrun each limit of the plan by at most one row for every request
\* but the first, and one request at a time never does.
THEOREM PlanLimitsHold == Spec => []OverrunBounded
<1>1. Typed /\ Plans => OverrunBounded
  <2> SUFFICES ASSUME Typed, Plans, crowd > 0
               PROVE  /\ \A s \in Stores : Overrun(UsersOf(s)) <= Limit.users
                      /\ \A o \in Emails : Overrun(StoresOf(o)) <= Limit.stores
                      /\ Overrun(ActiveProducts) <= Limit.products
    BY DEF OverrunBounded
  <2>1. Extra = crowd - 1 /\ crowd \in Nat
    BY Crowd DEF Extra
  <2>2. ASSUME NEW P, IsFiniteSet(P), NEW I, IsFiniteSet(I), NEW Q \in SUBSET P,
               NEW n \in Nat, Cardinality(P) + Cardinality(I) <= n + Extra
        PROVE  Overrun(Cardinality(Q)) <= n
    <3>1. Cardinality(Q) <= Cardinality(P) /\ Cardinality(Q) \in Nat
          /\ Cardinality(P) \in Nat /\ Cardinality(I) \in Nat
      BY <2>2, FS_Subset, FS_CardinalityType
    <3> QED
      BY <2>1, <2>2, <3>1 DEF Overrun
  <2>3. ASSUME NEW s \in Stores PROVE Overrun(UsersOf(s)) <= Limit.users
    <3>1. /\ IsFiniteSet(Reserved(s)) /\ IsFiniteSet(Inviting(s)) /\ Present(s) \in SUBSET Reserved(s)
          /\ UsersOf(s) = Cardinality(Present(s))
      BY UserPlaces DEF UserRooms, UserRoom, Present, Reserved, UsersOf, OnStaff
    <3> QED
      BY <2>2, <3>1, Crowd DEF Plans, UsersCounted
  <2>4. ASSUME NEW o \in Emails PROVE Overrun(StoresOf(o)) <= Limit.stores
    <3>1. /\ IsFiniteSet(Held(o)) /\ IsFiniteSet(Founding(o)) /\ Owned(o) \in SUBSET Held(o)
          /\ StoresOf(o) = Cardinality(Owned(o))
      BY StorePlaces DEF StoreRooms, StoreRoom, Held, Owned, StoresOf
    <3> QED
      BY <2>2, <3>1, Crowd DEF Plans, StoresCounted
  <2>5. Overrun(ActiveProducts) <= Limit.products
    <3>1. /\ IsFiniteSet(Kept) /\ IsFiniteSet(Adding) /\ Active \in SUBSET Kept
          /\ ActiveProducts = Cardinality(Active)
      BY ProductPlaces DEF ProductRoom, Kept, Active, ActiveProducts
    <3> QED
      BY <2>2, <3>1, Crowd DEF Plans, ProductsCounted
  <2> QED
    BY <2>3, <2>4, <2>5
<1> QED
  BY <1>1, InitTyped, NextTyped, InitOpened, NextOpened, InitPeople, NextPeople, InitPlans,
     NextPlans, PTL
     DEF Spec
=============================================================================

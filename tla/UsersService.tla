---------------------------- MODULE UsersService ----------------------------
(***************************************************************************)
(* backend/src/users/users.service.ts: an admin invites somebody to the    *)
(* store, changes a role or the permissions, and takes somebody off the    *)
(* store.  The user's row and account stay.                                *)
(***************************************************************************)
EXTENDS AuthService

\* create: a known user is only assigned, an unknown one gets an account first,
\* by the same two statements as in a registration.
NewAccount(w) == CreateAccount(w) \/ InsertUser(w)

FindInvitee(w) == LET j == job[w] IN
    /\ Running(w, "findInvitee")
    /\ Reads(w, IF user[Newcomer(j)].made THEN "findAssignment" ELSE "createAccount", j)

FindAssignment(w) == LET j == job[w] IN
    /\ Running(w, "findAssignment")
    /\ IF member[Newcomer(j)][j.req.at].role # "none" THEN Refuse(w) ELSE Reads(w, "assign", j)

DefaultRights(role) == IF role = "cashier" THEN "default" ELSE "all"

\* save(userStore): INSERT, under UNIQUE(user_id, store_id) and the foreign keys.
Assign(w) == LET j == job[w]  e == Newcomer(j)  s == j.req.at IN
    /\ Running(w, "assign")
    /\ IF member[e][s].role # "none" \/ store[s].state # "open" THEN Refuse(w)
       ELSE /\ member' = [member EXCEPT ![e][s] = [role |-> j.req.role,
                                                   rights |-> DefaultRights(j.req.role),
                                                   row |-> member[e][s].row + 1]]
            /\ welcomed' = welcomed \cup {<<"invite", e>>}
            /\ dismissed' = dismissed \ {<<e, s>>}
            /\ Finish(w)
            /\ UNCHANGED <<accounts, user, store, org, shelf, links, closed, spent, outside>>

-----------------------------------------------------------------------------
\* updateRole: a new cashier gets the default permissions only if there are none.
WithRole(m, r) == [m EXCEPT !.role = r,
                   !.rights = IF r = "cashier" /\ @ = "none" THEN "default" ELSE @]

\* updateRole, updatePermissions (not of an admin) and deactivate.
FindMember(w) == LET j == job[w]  r == j.req  m == member[r.who][r.at] IN
    /\ Running(w, "findMember")
    /\ IF m.role = "none" \/ (r.kind = "setRights" /\ m.role = "admin") THEN Refuse(w)
       ELSE CASE r.kind = "changeRole" -> Reads(w, "selectMember", [j EXCEPT !.seen = WithRole(m, r.role)])
              [] r.kind = "setRights"  -> Reads(w, "selectMember", [j EXCEPT !.seen.role = m.role,
                                                  !.seen.rights = r.rights, !.seen.row = m.row])
              [] r.kind = "dismiss"    -> Reads(w, "deleteMember", [j EXCEPT !.seen = m])

\* The row of the entity is still there.
RowStays(j) == member[j.req.who][j.req.at].role # "none"
               /\ member[j.req.who][j.req.at].row = j.seen.row

\* save(userStore): SELECT by id; a row that is gone is inserted again.
SelectMember(w) == LET j == job[w]
                       cols == Changed(j.seen, member[j.req.who][j.req.at]) IN
    /\ Running(w, "selectMember")
    /\ CASE ~RowStays(j) -> Reads(w, "insertMember", j)
         [] RowStays(j) /\ cols = {} -> Refuse(w)
         [] OTHER -> Reads(w, "updateMember", [j EXCEPT !.cols = cols])

UpdateMember(w) == LET j == job[w]  r == j.req IN
    /\ Running(w, "updateMember")
    /\ member' = IF RowStays(j)
                 THEN [member EXCEPT ![r.who][r.at] = Patched(member[r.who][r.at], j.seen, j.cols)]
                 ELSE member
    /\ Finish(w)
    /\ UNCHANGED <<accounts, user, store, org, shelf, links, history, outside>>

InsertMember(w) == LET j == job[w]  r == j.req IN
    /\ Running(w, "insertMember")
    /\ member' = IF member[r.who][r.at].role = "none" /\ store[r.at].state = "open"
                 THEN [member EXCEPT ![r.who][r.at] = j.seen] ELSE member
    /\ Finish(w)
    /\ UNCHANGED <<accounts, user, store, org, shelf, links, history, outside>>

\* deactivate: DELETE by id.
DeleteMember(w) == LET j == job[w]  r == j.req IN
    /\ Running(w, "deleteMember")
    /\ member' = IF RowStays(j) THEN [member EXCEPT ![r.who][r.at] = [NoMember EXCEPT !.row = j.seen.row]]
                 ELSE member
    /\ dismissed' = IF RowStays(j) THEN dismissed \cup {<<r.who, r.at>>} ELSE dismissed
    /\ Finish(w)
    /\ UNCHANGED <<accounts, user, store, org, shelf, links, welcomed, closed, spent, outside>>

Staff(w) == \/ NewAccount(w) \/ FindInvitee(w) \/ FindAssignment(w) \/ Assign(w)
            \/ FindMember(w) \/ SelectMember(w) \/ UpdateMember(w) \/ InsertMember(w)
            \/ DeleteMember(w)
=============================================================================

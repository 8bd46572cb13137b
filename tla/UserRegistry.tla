---------------------------- MODULE UserRegistry ----------------------------
(* Who may book and who administers: the users table against the admins      *)
(* table.  The two are tied by email address only, and by statements that    *)
(* follow one another: a promotion inserts the admin, then deletes or        *)
(* activates the user; a confirmation link is read, then burned, then acted  *)
(* on.  Handlers of several statements run as requests; each statement may   *)
(* fail, and the process may stop between two of them.                       *)
EXTENDS Integers

CONSTANTS
  Users,       \* ids the users table may hand out
  Accounts,    \* ids the admins table may hand out
  Emails,      \* addresses; an admin's username is one of them
  Seed,        \* the account the migration seeds ...
  SeedEmail,   \* ... and its username
  Requests,    \* requests being handled
  None,        \* no row, no user, no account, no address
  Ops          \* the handlers a run admits

AdminRoles == {"general_admin", "super_admin"}
Roles == AdminRoles \cup {"normal_user"}

UserRow == [email: Emails, status: {"pending", "active", "rejected", "revoked"},
            role: Roles, token: {"none", "valid", "expired"}, deleted: BOOLEAN]
AccountRow == [email: Emails, role: AdminRoles, deleted: BOOLEAN]

RequestOps == {"confirm", "promote", "update", "create", "setrole", "deladmin"}
Arg == [op: RequestOps, user: Users \cup {None}, account: Accounts \cup {None},
        email: Emails \cup {None}, role: Roles, seen: AdminRoles \cup {None}]

ASSUME RegistryAssumption ==
  /\ None \notin Users \cup Accounts \cup Emails \cup Roles
  /\ None \notin UserRow /\ None \notin AccountRow /\ None \notin Arg
  /\ Seed \in Accounts /\ SeedEmail \in Emails

VARIABLES
  user,        \* the users table
  account,     \* the admins table
  pc,          \* per request: the statement it executes next
  arg,         \* per request: the values it holds
  overlooked,  \* history: users beside a super admin for a known reason
  open,        \* history: users barred while a link of theirs was in use
  vetted       \* history: users an admin invited or let in

vars == <<user, account, pc, arg, overlooked, open, vetted>>

Stages == {"idle", "burn", "activate", "insert", "sync", "lookup", "write",
           "delete", "remove"}

InFlight == {r \in Requests : pc[r] # "idle"}
Live(row) == row # None /\ ~row.deleted

UserOf(e) == {u \in Users : Live(user[u]) /\ user[u].email = e}
AccountOf(e) == {a \in Accounts : Live(account[a]) /\ account[a].email = e}
SuperAdmin(e) == \E a \in AccountOf(e) : account[a].role = "super_admin"

TablesTypeOK ==
  /\ user \in [Users -> UserRow \cup {None}]
  /\ account \in [Accounts -> AccountRow \cup {None}]
  /\ overlooked \subseteq Users /\ open \subseteq Users /\ vetted \subseteq Users

RequestsTypeOK ==
  /\ pc \in [Requests -> Stages]
  /\ arg \in [Requests -> Arg \cup {None}]
  /\ \A r \in InFlight :
       /\ arg[r] \in Arg
       /\ arg[r].user # None => user[arg[r].user] # None
       /\ arg[r].account # None => account[arg[r].account] # None

TypeOK == TablesTypeOK /\ RequestsTypeOK

SeedRow == [email |-> SeedEmail, role |-> "super_admin", deleted |-> FALSE]

Init ==
  /\ user = [u \in Users |-> None]
  /\ account = [a \in Accounts |-> IF a = Seed THEN SeedRow ELSE None]
  /\ pc = [r \in Requests |-> "idle"]
  /\ arg = [r \in Requests |-> None]
  /\ overlooked = {} /\ open = {} /\ vetted = {}

-----------------------------------------------------------------------------
(* One request.                                                              *)

histories == <<overlooked, open, vetted>>

Enter(r, a, stage) == /\ pc' = [pc EXCEPT ![r] = stage]
                      /\ arg' = [arg EXCEPT ![r] = a]
GoTo(r, stage) == Enter(r, arg[r], stage)
Return(r) == Enter(r, None, "idle")

Blank(op, role) == [op |-> op, user |-> None, account |-> None, email |-> None,
                    role |-> role, seen |-> None]

(* A super admin's users row is let be in these rows.                        *)
Overlook(rows) == overlooked' = overlooked \cup rows

-----------------------------------------------------------------------------
(* Statements on one user.                                                   *)

(* INSERT INTO users; the index on live addresses refuses a second one.      *)
Insert(u, row) == /\ user[u] = None /\ UserOf(row.email) = {}
                  /\ user' = [user EXCEPT ![u] = row]
                  /\ Overlook(IF SuperAdmin(row.email) THEN {u} ELSE {})

(* A slip: the column's default, which is active.                            *)
Register_DefaultStatus(u, e) ==
  /\ "register" \in Ops
  /\ Insert(u, [email |-> e, status |-> "active", role |-> "normal_user",
                token |-> "none", deleted |-> FALSE])
  /\ UNCHANGED <<account, pc, arg, open, vetted>>

(* Register, after the code sent to the address has been given back.         *)
Register(u, e) ==
  /\ "register" \in Ops
  /\ Insert(u, [email |-> e, status |-> "pending", role |-> "normal_user",
                token |-> "none", deleted |-> FALSE])
  /\ UNCHANGED <<account, pc, arg, open, vetted>>

(* A slip: inviting a known address sends its user a new link.               *)
Invite_Again(u, e, role) ==
  /\ "invite" \in Ops /\ vetted' = vetted \cup {u}
  /\ \/ Insert(u, [email |-> e, status |-> "pending", role |-> role,
                   token |-> "valid", deleted |-> FALSE])
     \/ /\ u \in UserOf(e)
        /\ user' = [user EXCEPT ![u].token = "valid"] /\ UNCHANGED overlooked
  /\ UNCHANGED <<account, pc, arg, open>>

(* UserModel.Create, on an admin's invitation.                               *)
Invite(u, e, role) ==
  /\ "invite" \in Ops /\ vetted' = vetted \cup {u}
  /\ Insert(u, [email |-> e, status |-> "pending", role |-> role,
                token |-> "valid", deleted |-> FALSE])
  /\ UNCHANGED <<account, pc, arg, open>>

(* UserModel.SetStatus and Reject, whatever the status is by now.            *)
SetStatus(u, status) ==
  user' = IF Live(user[u]) THEN [user EXCEPT ![u].status = status] ELSE user

(* Approve as a normal user, or restore.                                     *)
LetIn(u) ==
  /\ "letin" \in Ops
  /\ Live(user[u]) /\ SetStatus(u, "active") /\ vetted' = vetted \cup {u}
  /\ UNCHANGED <<account, pc, arg, overlooked, open>>

(* Requests that hold a confirmation link of this user.                      *)
Clicks(u) == {r \in InFlight : arg[r].op = "confirm" /\ arg[r].user = u}

(* Reject or revoke.                                                         *)
Bar(u, status) ==
  /\ "bar" \in Ops
  /\ Live(user[u]) /\ SetStatus(u, status)
  /\ open' = IF user[u].token # "none" \/ Clicks(u) # {} THEN open \cup {u}
                                                         ELSE open \ {u}
  /\ UNCHANGED <<account, pc, arg, overlooked, vetted>>

(* A slip: the row itself is removed.                                        *)
DeleteUser_Hard(u) ==
  /\ Live(user[u]) /\ user' = [user EXCEPT ![u] = None]
  /\ UNCHANGED <<account, pc, arg, histories>>

(* UserModel.Delete.                                                         *)
DeleteUser(u) ==
  /\ Live(user[u]) /\ user' = [user EXCEPT ![u].deleted = TRUE]
  /\ UNCHANGED <<account, pc, arg, histories>>

(* Seven days pass since the invitation.                                     *)
Expire(u) ==
  /\ user[u] # None /\ user[u].token = "valid"
  /\ user' = [user EXCEPT ![u].token = "expired"]
  /\ UNCHANGED <<account, pc, arg, histories>>

-----------------------------------------------------------------------------
(* A confirmation link.                                                      *)

(* The SELECT of ConsumeConfirmToken, which finds deleted users too.         *)
ReadLink(r, u) ==
  /\ pc[r] = "idle" /\ "confirm" \in Ops
  /\ user[u] # None /\ user[u].token # "none"
  /\ Enter(r, [Blank("confirm", user[u].role) EXCEPT
                 !.user = u, !.email = user[u].email], "burn")
  /\ UNCHANGED <<user, account, histories>>

(* A slip: a link works as long as it is there.                              *)
Burn_AnyAge(r) ==
  /\ pc[r] = "burn" /\ user' = [user EXCEPT ![arg[r].user].token = "none"]
  /\ GoTo(r, IF arg[r].role = "normal_user" THEN "activate" ELSE "insert")
  /\ UNCHANGED <<account, histories>>

(* The UPDATE that clears the token, its error ignored, then the expiry.     *)
Burn(r) ==
  LET u == arg[r].user IN
  /\ pc[r] = "burn"
  /\ \/ UNCHANGED user
     \/ user' = [user EXCEPT ![u].token = "none"]
  /\ \/ user[u].token # "valid" /\ Return(r)
     \/ /\ user[u].token # "expired"
        /\ GoTo(r, IF arg[r].role = "normal_user" THEN "activate" ELSE "insert")
  /\ UNCHANGED <<account, histories>>

(* SetStatus active for an invited normal user.                              *)
Activate(r) ==
  /\ pc[r] = "activate" /\ SetStatus(arg[r].user, "active") /\ Return(r)
  /\ UNCHANGED <<account, histories>>

-----------------------------------------------------------------------------
(* Promotion, by approval with an admin role, by an edit on the Users page,  *)
(* or by a link.                                                             *)

(* approveUser reads the user it promotes.                                   *)
Promote(r, u, role) ==
  /\ pc[r] = "idle" /\ "promote" \in Ops /\ Live(user[u])
  /\ Enter(r, [Blank("promote", role) EXCEPT
                 !.user = u, !.email = user[u].email], "insert")
  /\ vetted' = vetted \cup {u}
  /\ UNCHANGED <<user, account, overlooked, open>>

(* UserModel.Update: the user moves to an address no live user has; then the *)
(* role asked for is compared with what the address's admin has.             *)
UpdateUser(r, u, e, role) ==
  /\ pc[r] = "idle" /\ "update" \in Ops
  /\ Live(user[u]) /\ UserOf(e) \subseteq {u}
  /\ user' = [user EXCEPT ![u].email = e]
  /\ overlooked' = IF e = user[u].email THEN overlooked
                   ELSE IF SuperAdmin(e) THEN overlooked \cup {u}
                                         ELSE overlooked \ {u}
  /\ Enter(r, [Blank("update", role) EXCEPT !.user = u, !.email = e], "lookup")
  /\ UNCHANGED <<account, open, vetted>>

(* GetByUsername: whoever is no admin, or cannot be read, is promoted, and a *)
(* general admin who shall be a normal user is demoted.  An admin is not     *)
(* promoted, a super admin not demoted, a lost session may do neither.       *)
Lookup(r) ==
  /\ pc[r] = "lookup"
  /\ \/ Return(r) /\ UNCHANGED vetted
     \/ /\ arg[r].role # "normal_user" /\ GoTo(r, "insert")
        /\ vetted' = vetted \cup {arg[r].user}
     \/ /\ arg[r].role = "normal_user" /\ UNCHANGED vetted
        /\ \E a \in AccountOf(arg[r].email) :
             /\ account[a].role = "general_admin"
             /\ Enter(r, [arg[r] EXCEPT !.account = a], "delete")
  /\ UNCHANGED <<user, account, overlooked, open>>

(* CreateAdmin starts with the INSERT.                                       *)
CreateAdmin(r, e, role) ==
  /\ pc[r] = "idle" /\ "create" \in Ops
  /\ Enter(r, [Blank("create", role) EXCEPT !.email = e], "insert")
  /\ UNCHANGED <<user, account, histories>>

(* The statement after a super admin appeared at an address.                 *)
ThenRemove(r) ==
  IF arg[r].role = "super_admin" THEN GoTo(r, "remove") ELSE Return(r)

(* INSERT INTO admins.  A user who moved away between the read of the        *)
(* address and this is not the one that has to go.                           *)
InsertAdmin(r) ==
  LET e == arg[r].email IN
  /\ pc[r] = "insert"
  /\ \/ AccountOf(e) # {} /\ Return(r) /\ UNCHANGED <<account, overlooked>>
     \/ /\ AccountOf(e) = {}
        /\ \E a \in Accounts :
             /\ account[a] = None
             /\ account' = [account EXCEPT ![a] =
                   [email |-> e, role |-> arg[r].role, deleted |-> FALSE]]
        /\ IF arg[r].op = "create" THEN ThenRemove(r) /\ UNCHANGED overlooked
           ELSE /\ GoTo(r, "sync")
                /\ Overlook(IF arg[r].role = "super_admin"
                            THEN UserOf(e) \ {arg[r].user} ELSE {})
  /\ UNCHANGED <<user, open, vetted>>

(* A slip: every promoted user keeps booking.                                *)
Sync_KeepUser(r) ==
  /\ pc[r] = "sync" /\ SetStatus(arg[r].user, "active") /\ Return(r)
  /\ UNCHANGED <<account, histories>>

(* A super admin's users row is deleted, a general admin's is activated.     *)
Sync(r) ==
  LET u == arg[r].user IN
  /\ pc[r] = "sync" /\ Return(r)
  /\ IF arg[r].role # "super_admin" THEN SetStatus(u, "active")
     ELSE user' = IF Live(user[u]) THEN [user EXCEPT ![u].deleted = TRUE] ELSE user
  /\ UNCHANGED <<account, histories>>

-----------------------------------------------------------------------------
(* The Admins page.                                                          *)

(* UpdateAdmin and DeleteAdmin read the account first, and go on without it. *)
ReadAccount(r, a, op, role) ==
  LET row == account[a]
      seen == IF Live(row) THEN row.role ELSE None
      known == IF Live(row) THEN row.email ELSE None
  IN
  /\ pc[r] = "idle" /\ op \in Ops /\ row # None
  /\ \/ /\ op = "setrole"
        /\ \E s \in {seen, None} :
             Enter(r, [Blank(op, role) EXCEPT !.account = a, !.email = row.email,
                         !.seen = s], "write")
     \/ /\ op = "deladmin" /\ role = "general_admin"
        /\ \E e \in {known, None} :
             Enter(r, [Blank(op, role) EXCEPT !.account = a, !.email = e],
                   "delete")
  /\ UNCHANGED <<user, account, histories>>

(* AdminModel.Update has no deleted_at filter; syncNormalUserAccess follows  *)
(* when the role differs from the one read before.                           *)
WriteRole(r) ==
  LET a == arg[r].account
      missed == Live(account[a]) /\ arg[r].role = "super_admin"
                  /\ arg[r].seen = "super_admin"
                  /\ account[a].role # "super_admin"
  IN
  /\ pc[r] = "write"
  /\ account' = [account EXCEPT ![a].role = arg[r].role]
  /\ IF arg[r].seen = arg[r].role THEN Return(r) ELSE ThenRemove(r)
  /\ Overlook(IF missed THEN UserOf(arg[r].email) ELSE {})
  /\ UNCHANGED <<user, open, vetted>>

(* AdminModel.Delete, on the Admins page or by a demotion; the Admins page   *)
(* takes the linked user along.                                              *)
DeleteAccount(r) ==
  LET a == arg[r].account IN
  /\ pc[r] = "delete"
  /\ \/ ~Live(account[a]) /\ Return(r) /\ UNCHANGED account
     \/ /\ Live(account[a]) /\ account' = [account EXCEPT ![a].deleted = TRUE]
        /\ IF arg[r].op = "deladmin" THEN GoTo(r, "remove") ELSE Return(r)
  /\ UNCHANGED <<user, histories>>

(* RemoveNormalUserAccess.                                                   *)
Remove(r) ==
  /\ pc[r] = "remove" /\ Return(r)
  /\ user' = [u \in Users |-> IF u \in UserOf(arg[r].email)
                              THEN [user[u] EXCEPT !.deleted = TRUE] ELSE user[u]]
  /\ UNCHANGED <<account, histories>>

-----------------------------------------------------------------------------
(* Failures.                                                                 *)

(* The users that this request was about to clear from beside a super admin. *)
Doomed(r) == IF pc[r] = "remove" THEN UserOf(arg[r].email)
             ELSE IF pc[r] = "sync" /\ arg[r].role = "super_admin"
             THEN {arg[r].user} ELSE {}

(* A statement fails, and the handler returns or only logs it.               *)
Fail(r) ==
  /\ pc[r] \notin {"idle", "burn", "lookup"}
  /\ Overlook(Doomed(r)) /\ Return(r)
  /\ UNCHANGED <<user, account, open, vetted>>

(* The process stops and starts again: requests are cut off, and the seed    *)
(* comes back if no live account has its username.                           *)
Restart ==
  /\ "restart" \in Ops
  /\ pc' = [r \in Requests |-> "idle"] /\ arg' = [r \in Requests |-> None]
  /\ \/ AccountOf(SeedEmail) # {} /\ UNCHANGED account
        /\ Overlook(UNION {Doomed(r) : r \in InFlight})
     \/ /\ AccountOf(SeedEmail) = {}
        /\ \E a \in Accounts : /\ account[a] = None
                               /\ account' = [account EXCEPT ![a] = SeedRow]
        /\ Overlook(UserOf(SeedEmail) \cup UNION {Doomed(r) : r \in InFlight})
  /\ UNCHANGED <<user, open, vetted>>

-----------------------------------------------------------------------------
OnUser(u) ==
  \/ \E e \in Emails : Register(u, e)
  \/ \E e \in Emails, role \in Roles : Invite(u, e, role)
  \/ LetIn(u) \/ Bar(u, "rejected") \/ Bar(u, "revoked")
  \/ DeleteUser(u) \/ Expire(u)

Handle(r) ==
  \/ \E u \in Users : ReadLink(r, u)
  \/ \E u \in Users, role \in AdminRoles : Promote(r, u, role)
  \/ \E u \in Users, e \in Emails, role \in Roles : UpdateUser(r, u, e, role)
  \/ \E e \in Emails, role \in AdminRoles : CreateAdmin(r, e, role)
  \/ \E a \in Accounts, op \in {"setrole", "deladmin"}, role \in AdminRoles :
       ReadAccount(r, a, op, role)
  \/ Burn(r) \/ Activate(r) \/ Lookup(r) \/ InsertAdmin(r) \/ Sync(r)
  \/ WriteRole(r) \/ DeleteAccount(r) \/ Remove(r) \/ Fail(r)

Next == (\E u \in Users : OnUser(u)) \/ (\E r \in Requests : Handle(r)) \/ Restart

Spec == Init /\ [][Next]_vars

-----------------------------------------------------------------------------
(* Properties.                                                               *)

(* About to be deleted by the next statement of a promotion, or of a change  *)
(* on the Admins page.                                                       *)
Leaving(u) == \E r \in InFlight : u \in Doomed(r)

(* "Super Admins have no row here at all", as far as the code keeps it: a    *)
(* super admin's row is about to go, or came to an address that had a super  *)
(* admin already, or its removal was lost, missed by an outdated read or     *)
(* aimed at a user who had moved, or the migration seeded the admin.         *)
SuperAdminsDoNotBook ==
  \A u \in Users : Live(user[u]) /\ SuperAdmin(user[u].email)
    => u \in overlooked \/ Leaving(u)

(* "An admin must approve before they can book": an active user was invited, *)
(* approved, restored or promoted, whatever happened in between.             *)
ActiveUsersAreVetted ==
  \A u \in Users : Live(user[u]) /\ user[u].status = "active" => u \in vetted

Barred == {"rejected", "revoked"}

(* Revocation and rejection last: only an admin lets the user in again,      *)
(* unless a link was still open, or being followed, when it was barred.      *)
BarredStayOut ==
  [][\A u \in Users \ open :
       /\ Live(user[u]) /\ user[u].status \in Barred
       /\ user'[u].status = "active"
       => LetIn(u) \/ \E r \in Requests : Sync(r) /\ arg[r].op # "confirm"]_vars

(* Requests that follow a link, or carry out a promotion, are what decides   *)
(* who may book: one ticket each, from when the link was read, or the user   *)
(* was vetted, until the request ends.                                       *)
LinkOf(a, stage) == IF stage # "idle" /\ a.op = "confirm" THEN a.user ELSE None
WordOf(a, stage) == IF stage \in {"insert", "sync"} /\ a.op # "confirm"
                    THEN a.user ELSE None
Link == [r \in Requests |-> LinkOf(arg[r], pc[r])]
Word == [r \in Requests |-> WordOf(arg[r], pc[r])]

Members == INSTANCE Membership
             WITH Row <- UserRow, Tickets <- Requests, link <- Link, word <- Word

(* The handlers, statement by statement and failing anywhere, decide who may *)
(* book as Membership does.                                                  *)
MembershipSpec == Members!Spec

-----------------------------------------------------------------------------
(* The inductive invariant behind these properties.                          *)

(* What a request holds at a stage: the rows it found are still there, and   *)
(* whoever it is about to activate was vetted and not barred.                *)
Fits(a, stage) ==
  LET byUser == stage \in {"burn", "activate", "sync"}
                  \/ (stage = "insert" /\ a.op # "create")
  IN
  /\ a \in Arg /\ stage \in Stages \ {"idle"}
  /\ a.user # None => user[a.user] # None
  /\ a.account # None => account[a.account] # None
  /\ byUser => a.user \in vetted
  /\ stage = "lookup" => a.op = "update" /\ a.user \in Users
  /\ stage \in {"burn", "insert", "lookup"} => a.email \in Emails
  /\ stage \in {"insert", "sync", "write"} => a.role \in AdminRoles
  /\ stage \in {"burn", "activate"} => a.op = "confirm"
  /\ stage \in {"write", "delete"} => a.account \in Accounts
  /\ stage = "write" => account[a.account].email = a.email
  /\ a.op = "confirm" => /\ a.user \in Users
                         /\ a.user \in open \/ user[a.user].status \notin Barred

RequestsFit == \A r \in InFlight : Fits(arg[r], pc[r])

(* Links and access are for vetted users, and a barred user's link is gone.  *)
RowsFit ==
  \A u \in Users : user[u] # None =>
    /\ user[u].token # "none" \/ user[u].status = "active" => u \in vetted
    /\ user[u].status \in Barred => u \in open \/ user[u].token = "none"

RegistryInv == TypeOK /\ RequestsFit /\ RowsFit
=============================================================================

---------------------------- MODULE AdminSessions ---------------------------
(* Who is logged in while admins are managed.  A session is a snapshot of an *)
(* admin's row taken at login, and no handler compares the two again, so the *)
(* handlers that dismiss an admin delete its sessions instead.  Login and    *)
(* the managing handlers run as requests, one stage per statement: reads,    *)
(* the write and the deletion of sessions interleave, statements fail, the   *)
(* process restarts and forgets its failure counters.                        *)
EXTENDS Integers

CONSTANTS
  Admins,      \* ids the admins table may hand out
  Nobody,      \* id 0, and the zero session of a handler that found none
  Usernames,   \* usernames, which are email addresses
  Seed,        \* the id and ...
  SeedName,    \* ... the username of the account the migration seeds
  Sids,        \* session ids; a random id is never handed out twice
  NoSid,       \* a request without a session cookie
  NoRow,       \* no row in the admins or in the sessions table
  Requests,    \* requests being handled
  NoArg,       \* an idle request has no argument
  MaxLoginAttempts,
  Ops          \* the handlers a run admits

Roles == {"super_admin", "general_admin"}
Row == [user: Usernames, role: Roles, status: {"active", "revoked", "locked"},
        temp: BOOLEAN, deleted: BOOLEAN]
Session == [admin: Admins, role: Roles, temp: BOOLEAN]

SuperOps == {"update", "delete", "resetpw", "revoke", "restore"}
AnyOps == {"unlock", "demote", "changepw"}
Arg == [op: {"login"} \cup SuperOps \cup AnyOps, sid: Sids \cup {NoSid},
        target: Admins \cup {Nobody}, user: Usernames, role: Roles,
        seen: Row \cup {NoRow}, by: Admins \cup {Nobody}]

ASSUME SessionsAssumption ==
  /\ Nobody \notin Admins /\ NoSid \notin Sids /\ NoArg \notin Arg
  /\ NoRow \notin Row /\ NoRow \notin Session
  /\ Seed \in Admins /\ SeedName \in Usernames
  /\ MaxLoginAttempts \in Nat \ {0}

VARIABLES
  admin,      \* the admins table
  session,    \* the sessions table
  failures,   \* AttemptStore: failed logins per username, in memory
  pc,         \* per request: the statement it executes next
  arg,        \* per request: the values it holds
  overtaken,  \* history: sessions whose admin's row changed during the login
  lapsed      \* history: admins whose sessions should have been deleted

vars == <<admin, session, failures, pc, arg, overtaken, lapsed>>

Stages == {"idle", "row", "verify", "miss", "setlocked", "create",
           "before", "me", "write", "kick", "clear"}

InFlight == {r \in Requests : pc[r] # "idle"}
Live(row) == row # NoRow /\ ~row.deleted

ReqTypeOK ==
  /\ pc \in [Requests -> Stages]
  /\ arg \in [Requests -> Arg \cup {NoArg}]
  /\ \A r \in InFlight : arg[r] \in Arg

StoreTypeOK ==
  /\ admin \in [Admins -> Row \cup {NoRow}]
  /\ session \in [Sids -> Session \cup {NoRow}]
  /\ \A s \in Sids : session[s] # NoRow => admin[session[s].admin] # NoRow
  /\ failures \in [Usernames -> 0 .. MaxLoginAttempts]
  /\ overtaken \subseteq Sids /\ lapsed \subseteq Admins

TypeOK == ReqTypeOK /\ StoreTypeOK

SeedRow == [user |-> SeedName, role |-> "super_admin", status |-> "active",
            temp |-> FALSE, deleted |-> FALSE]

Init ==
  /\ admin = [a \in Admins |-> IF a = Seed THEN SeedRow ELSE NoRow]
  /\ session = [s \in Sids |-> NoRow]
  /\ failures = [u \in Usernames |-> 0]
  /\ pc = [r \in Requests |-> "idle"]
  /\ arg = [r \in Requests |-> NoArg]
  /\ overtaken = {} /\ lapsed = {}

-----------------------------------------------------------------------------
(* One request.                                                              *)

tables == <<admin, session, failures, overtaken, lapsed>>

Enter(r, a, stage) == /\ pc' = [pc EXCEPT ![r] = stage]
                      /\ arg' = [arg EXCEPT ![r] = a]
GoTo(r, stage) == Enter(r, arg[r], stage)
Return(r) == Enter(r, NoArg, "idle")

Blank(op, u) == [op |-> op, sid |-> NoSid, target |-> Nobody, user |-> u,
                 role |-> "general_admin", seen |-> NoRow, by |-> Nobody]

(* A random session id: unused, and in no request's cookie.                  *)
FreshSids == {s \in Sids : session[s] = NoRow
                             /\ \A r \in InFlight : arg[r].sid # s}

-----------------------------------------------------------------------------
(* Login.                                                                    *)

(* A username the counter has locked is turned away before any statement.    *)
LoginStart(r) ==
  /\ pc[r] = "idle" /\ "login" \in Ops
  /\ \E u \in Usernames :
       failures[u] < MaxLoginAttempts /\ Enter(r, Blank("login", u), "row")
  /\ UNCHANGED tables

(* A slip: only the counter in memory is asked whether an account is locked. *)
LoginRead_NoLockCheck(r) ==
  /\ pc[r] = "row"
  /\ \/ "miss" \in Ops /\ GoTo(r, "miss")
     \/ \E a \in Admins :
          /\ Live(admin[a]) /\ admin[a].user = arg[r].user
          /\ Enter(r, [arg[r] EXCEPT !.target = a, !.seen = admin[a]], "verify")
  /\ UNCHANGED tables

(* GetByUsername; a statement that fails counts as an unknown username.      *)
LoginRead(r) ==
  /\ pc[r] = "row"
  /\ \/ "miss" \in Ops /\ GoTo(r, "miss")
     \/ \E a \in Admins :
          /\ Live(admin[a]) /\ admin[a].user = arg[r].user
          /\ IF admin[a].status = "locked" THEN Return(r)
             ELSE Enter(r, [arg[r] EXCEPT !.target = a, !.seen = admin[a]],
                        "verify")
  /\ UNCHANGED tables

(* A slip: revocation is left to the deletion of the sessions.               *)
Verify_AnyStatus(r) ==
  /\ pc[r] = "verify" /\ GoTo(r, "create")
  /\ failures' = [failures EXCEPT ![arg[r].user] = 0]
  /\ UNCHANGED <<admin, session, overtaken, lapsed>>

(* The password is wrong, or right; a right one resets the counter unless    *)
(* the row read was revoked.                                                 *)
Verify(r) ==
  /\ pc[r] = "verify"
  /\ \/ "miss" \in Ops /\ GoTo(r, "miss") /\ UNCHANGED failures
     \/ arg[r].seen.status = "revoked" /\ Return(r) /\ UNCHANGED failures
     \/ /\ arg[r].seen.status # "revoked" /\ GoTo(r, "create")
        /\ failures' = [failures EXCEPT ![arg[r].user] = 0]
  /\ UNCHANGED <<admin, session, overtaken, lapsed>>

(* A slip: reaching the limit locks the account whatever its status was.     *)
Miss_AnyStatus(r) ==
  LET u == arg[r].user
      nowLocked == failures[u] + 1 >= MaxLoginAttempts
  IN
  /\ pc[r] = "miss"
  /\ failures' = [failures EXCEPT ![u] = IF nowLocked THEN MaxLoginAttempts
                                                      ELSE @ + 1]
  /\ IF nowLocked /\ arg[r].target # Nobody THEN GoTo(r, "setlocked") ELSE Return(r)
  /\ UNCHANGED <<admin, session, overtaken, lapsed>>

(* recordFailedLoginAttempt: the counter stops mattering at its limit, and   *)
(* reaching it locks the account if the row read was active.                 *)
Miss(r) ==
  LET u == arg[r].user
      nowLocked == failures[u] + 1 >= MaxLoginAttempts
  IN
  /\ pc[r] = "miss"
  /\ failures' = [failures EXCEPT ![u] = IF nowLocked THEN MaxLoginAttempts
                                                      ELSE @ + 1]
  /\ IF nowLocked /\ arg[r].target # Nobody /\ arg[r].seen.status = "active"
     THEN GoTo(r, "setlocked") ELSE Return(r)
  /\ UNCHANGED <<admin, session, overtaken, lapsed>>

(* AdminModel.SetStatus: whatever the status is by now.                      *)
SetStatus(a, status) ==
  admin' = IF Live(admin[a]) THEN [admin EXCEPT ![a].status = status] ELSE admin

SetLocked(r) ==
  /\ pc[r] = "setlocked" /\ SetStatus(arg[r].target, "locked") /\ Return(r)
  /\ UNCHANGED <<session, failures, overtaken, lapsed>>

(* Sessions.Create, from the row read at the start.                          *)
CreateSession(r) ==
  LET a == arg[r].target IN
  /\ pc[r] = "create"
  /\ \E s \in FreshSids :
       /\ session' = [session EXCEPT ![s] = [admin |-> a,
                        role |-> arg[r].seen.role, temp |-> arg[r].seen.temp]]
       /\ overtaken' = IF admin[a] = arg[r].seen THEN overtaken \ {s}
                                                 ELSE overtaken \cup {s}
  /\ Return(r)
  /\ UNCHANGED <<admin, failures, lapsed>>

-----------------------------------------------------------------------------
(* Managing handlers.                                                        *)

FirstStage(op) == IF op \in {"update", "unlock", "demote"} THEN "before"
                  ELSE IF op \in {"resetpw", "restore"} THEN "write" ELSE "me"

(* The middleware's read of the session, and the handler's own second read   *)
(* of the role for revoke and restore, which ends a request the same way.    *)
(* "by" remembers whose session it was; changepw is about that admin.        *)
Gate(r) ==
  /\ pc[r] = "idle"
  /\ \E op \in Ops \cap (SuperOps \cup AnyOps), s \in Sids, a \in Admins,
        role \in Roles :
       /\ session[s] # NoRow /\ admin[a] # NoRow
       /\ session[s].temp => op = "changepw"
       /\ op \in SuperOps => session[s].role = "super_admin"
       /\ op = "changepw" => a = session[s].admin
       /\ op # "update" => role = "general_admin"
       /\ Enter(r, [Blank(op, SeedName) EXCEPT !.sid = s, !.target = a,
                      !.role = role, !.by = session[s].admin], FirstStage(op))
  /\ UNCHANGED tables

(* GetByID or GetByUsername before the write.  Update and unlock go on       *)
(* without the row, for lack of one or because the read failed; a demotion   *)
(* wants a general admin's.                                                  *)
ReadBefore(r) ==
  LET row == admin[arg[r].target]
      seen == IF Live(row) THEN row ELSE NoRow
      next == IF arg[r].op = "unlock" THEN "write" ELSE "me"
  IN
  /\ pc[r] = "before"
  /\ \/ arg[r].op # "demote" /\ GoTo(r, next)
     \/ arg[r].op # "demote" /\ Enter(r, [arg[r] EXCEPT !.seen = seen], next)
     \/ /\ arg[r].op = "demote"
        /\ IF Live(row) /\ row.role = "general_admin" THEN GoTo(r, next)
                                                      ELSE Return(r)
  /\ UNCHANGED tables

(* What getSession may answer now: the session, or the zero session when it  *)
(* is gone or the read fails.                                                *)
SessionNow(r) == {NoRow, session[arg[r].sid]}

(* Delete and revoke refuse their own sender; demote and changepw want one.  *)
Refused(r, sess) ==
  IF sess = NoRow THEN arg[r].op \in {"demote", "changepw"}
  ELSE arg[r].op \in {"delete", "revoke"} /\ sess.admin = arg[r].target

(* An update of oneself keeps the role, which is to say the session's role.  *)
RoleToWrite(r, sess) ==
  IF arg[r].op = "update" /\ sess # NoRow /\ sess.admin = arg[r].target
  THEN sess.role ELSE arg[r].role

ReadMe(r) ==
  /\ pc[r] = "me"
  /\ \E sess \in SessionNow(r) :
       IF Refused(r, sess) THEN Return(r)
       ELSE Enter(r, [arg[r] EXCEPT !.role = RoleToWrite(r, sess)], "write")
  /\ UNCHANGED tables

(* The update changes the role, but the read before it saw the new one.      *)
Missed(r) == /\ arg[r].seen # NoRow /\ arg[r].seen.role = arg[r].role
             /\ admin[arg[r].target].role # arg[r].role

(* A slip: only an admin who gains rights is signed out.                     *)
RoleChanged_GainOnly(r) ==
  arg[r].role = "super_admin"
    /\ (arg[r].seen = NoRow \/ arg[r].seen.role # arg[r].role)

(* before.Role # admin.Role, where before.Role is empty if nothing was read. *)
RoleChanged(r) == arg[r].seen = NoRow \/ arg[r].seen.role # arg[r].role

(* AdminModel.Update, on a deleted row too; then the sessions go if the role *)
(* differs from the one read before.                                         *)
Update(r) ==
  LET a == arg[r].target IN
  /\ pc[r] = "write" /\ arg[r].op = "update"
  /\ admin' = [admin EXCEPT ![a].role = arg[r].role]
  /\ lapsed' = IF Missed(r) THEN lapsed \cup {a} ELSE lapsed
  /\ IF RoleChanged(r) THEN GoTo(r, "kick") ELSE Return(r)
  /\ UNCHANGED <<session, failures, overtaken>>

(* SetStatus: revoke goes on to delete sessions, unlock to reset the counter.*)
ChangeStatus(r) ==
  /\ pc[r] = "write" /\ arg[r].op \in {"revoke", "restore", "unlock"}
  /\ SetStatus(arg[r].target,
               IF arg[r].op = "revoke" THEN "revoked" ELSE "active")
  /\ IF ~Live(admin[arg[r].target]) \/ arg[r].op = "restore" THEN Return(r)
     ELSE GoTo(r, IF arg[r].op = "revoke" THEN "kick" ELSE "clear")
  /\ UNCHANGED <<session, failures, overtaken, lapsed>>

(* A slip: the row is removed, as when the sessions went with it by CASCADE. *)
Delete_Hard(r) ==
  LET a == arg[r].target IN
  /\ pc[r] = "write" /\ arg[r].op \in {"delete", "demote"}
  /\ \/ ~Live(admin[a]) /\ Return(r) /\ UNCHANGED admin
     \/ /\ Live(admin[a]) /\ GoTo(r, "kick")
        /\ admin' = [admin EXCEPT ![a] = NoRow]
  /\ UNCHANGED <<session, failures, overtaken, lapsed>>

(* AdminModel.Delete, from the Admins page or by a demotion.                 *)
Delete(r) ==
  LET a == arg[r].target IN
  /\ pc[r] = "write" /\ arg[r].op \in {"delete", "demote"}
  /\ \/ ~Live(admin[a]) /\ Return(r) /\ UNCHANGED admin
     \/ /\ Live(admin[a]) /\ GoTo(r, "kick")
        /\ admin' = [admin EXCEPT ![a].deleted = TRUE]
  /\ UNCHANGED <<session, failures, overtaken, lapsed>>

(* A password set by another admin is temporary; the sessions are deleted.   *)
ResetAdminPassword(r) ==
  /\ pc[r] = "write" /\ arg[r].op = "resetpw" /\ GoTo(r, "kick")
  /\ admin' = [admin EXCEPT ![arg[r].target].temp = TRUE]
  /\ UNCHANGED <<session, failures, overtaken, lapsed>>

(* One's own new password ends the temporary one.                            *)
ChangeOwnPassword(r) ==
  /\ pc[r] = "write" /\ arg[r].op = "changepw" /\ GoTo(r, "clear")
  /\ admin' = [admin EXCEPT ![arg[r].target].temp = FALSE]
  /\ UNCHANGED <<session, failures, overtaken, lapsed>>

-----------------------------------------------------------------------------
(* What follows the write.                                                   *)

SessionsOf(a) == {s \in Sids : session[s] # NoRow /\ session[s].admin = a}

(* DeleteByAdminID.                                                          *)
Kick(r) ==
  LET gone == SessionsOf(arg[r].target) IN
  /\ pc[r] = "kick" /\ Return(r)
  /\ session' = [s \in Sids |-> IF s \in gone THEN NoRow ELSE session[s]]
  /\ overtaken' = overtaken \ gone /\ lapsed' = lapsed \ {arg[r].target}
  /\ UNCHANGED <<admin, failures>>

(* ClearMustResetPassword on the session of the request.                     *)
ClearMustReset(r) ==
  LET s == arg[r].sid IN
  /\ pc[r] = "clear" /\ arg[r].op = "changepw" /\ Return(r)
  /\ session' = IF session[s] = NoRow THEN session
                ELSE [session EXCEPT ![s].temp = FALSE]
  /\ UNCHANGED <<admin, failures, overtaken, lapsed>>

(* LoginAttempts.Reset of the username read before the unlock, if it was.    *)
ClearFailures(r) ==
  /\ pc[r] = "clear" /\ arg[r].op = "unlock" /\ Return(r)
  /\ failures' = IF arg[r].seen = NoRow THEN failures
                 ELSE [failures EXCEPT ![arg[r].seen.user] = 0]
  /\ UNCHANGED <<admin, session, overtaken, lapsed>>

(* A write fails: the handler returns, and sessions it should have deleted   *)
(* stay.                                                                     *)
Fail(r) ==
  /\ \/ pc[r] \in {"write", "create", "setlocked", "kick"}
     \/ pc[r] = "clear" /\ arg[r].op = "changepw"
  /\ lapsed' = IF pc[r] = "kick" THEN lapsed \cup {arg[r].target} ELSE lapsed
  /\ Return(r)
  /\ UNCHANGED <<admin, session, failures, overtaken>>

-----------------------------------------------------------------------------
(* Around the requests.                                                      *)

(* An account is made: by a super admin, by promotion, by confirmation.      *)
Create(a, u, role) ==
  /\ "create" \in Ops /\ admin[a] = NoRow
  /\ \A b \in Admins : ~(Live(admin[b]) /\ admin[b].user = u)
  /\ admin' = [admin EXCEPT ![a] = [user |-> u, role |-> role, temp |-> TRUE,
                                   status |-> "active", deleted |-> FALSE]]
  /\ UNCHANGED <<session, failures, pc, arg, overtaken, lapsed>>

(* ApplyPasswordReset through a mailed token, which outlives a revocation:   *)
(* the temporary password ends, the sessions stay.                           *)
ResetByToken(a) ==
  /\ "token" \in Ops /\ admin[a] # NoRow
  /\ admin' = [admin EXCEPT ![a].temp = FALSE]
  /\ UNCHANGED <<session, failures, pc, arg, overtaken, lapsed>>

(* Logout, or half an hour gone by.                                          *)
EndSession(s) ==
  /\ session[s] # NoRow
  /\ session' = [session EXCEPT ![s] = NoRow] /\ overtaken' = overtaken \ {s}
  /\ UNCHANGED <<admin, failures, pc, arg, lapsed>>

(* A failure counter idle for its attemptTTL is evicted.                     *)
Forget(u) ==
  /\ failures[u] > 0 /\ failures' = [failures EXCEPT ![u] = 0]
  /\ UNCHANGED <<admin, session, pc, arg, overtaken, lapsed>>

(* The process restarts: memory is empty, and the migration seeds its admin  *)
(* again unless a live row has the name.                                     *)
Restart ==
  /\ "restart" \in Ops
  /\ failures' = [u \in Usernames |-> 0]
  /\ pc' = [r \in Requests |-> "idle"] /\ arg' = [r \in Requests |-> NoArg]
  /\ lapsed' = lapsed \cup {arg[r].target : r \in {q \in InFlight : pc[q] = "kick"}}
  /\ IF \E b \in Admins : Live(admin[b]) /\ admin[b].user = SeedName
     THEN UNCHANGED admin
     ELSE \E a \in Admins : /\ admin[a] = NoRow
                            /\ admin' = [admin EXCEPT ![a] = SeedRow]
  /\ UNCHANGED <<session, overtaken>>

-----------------------------------------------------------------------------
Login(r) == \/ LoginStart(r) \/ LoginRead(r) \/ Verify(r) \/ Miss(r)
            \/ SetLocked(r) \/ CreateSession(r)

Manage(r) == \/ Gate(r) \/ ReadBefore(r) \/ ReadMe(r)
             \/ Update(r) \/ ChangeStatus(r) \/ Delete(r)
             \/ ResetAdminPassword(r) \/ ChangeOwnPassword(r)
             \/ Kick(r) \/ ClearMustReset(r) \/ ClearFailures(r)

Next == \/ \E r \in Requests : Login(r) \/ Manage(r) \/ Fail(r)
        \/ \E a \in Admins, u \in Usernames, role \in Roles : Create(a, u, role)
        \/ \E a \in Admins : ResetByToken(a)
        \/ \E s \in Sids : EndSession(s)
        \/ \E u \in Usernames : Forget(u)
        \/ Restart

Spec == Init /\ [][Next]_vars

-----------------------------------------------------------------------------
(* Properties.                                                               *)

(* A session that is still what its admin's row says.                        *)
Fits(sess, row) == /\ Live(row) /\ row.status # "revoked"
                   /\ sess.role = row.role
                   /\ row.temp => sess.temp

KickPending(a) == \E r \in Requests : pc[r] = "kick" /\ arg[r].target = a

(* "Cut off access immediately", as far as the code keeps it: a session of a *)
(* dismissed, re-roled or reset admin lives on only until the handler's next *)
(* statement, unless that statement was lost or not reached, or the login    *)
(* had read the row before.                                                  *)
SessionsFollowRows ==
  \A s \in Sids \ overtaken :
    session[s] # NoRow => LET a == session[s].admin IN
      a \in lapsed \/ KickPending(a) \/ Fits(session[s], admin[a])

(* The counters are lost at a restart, the locked status is not: an account  *)
(* that is locked gains a session only from a login that read its row before.*)
LockOutlivesRestart ==
  [][\A s \in Sids : session[s] = NoRow /\ session'[s] # NoRow
       => admin[session'[s].admin].status # "locked" \/ s \in overtaken']_vars

(* "Only 'active' accounts get locked", as far as the code keeps it: wrong   *)
(* passwords never turn a revocation into a lock, which any admin may lift,  *)
(* unless the last of them was tried at a row read before the revocation.    *)
RevocationOutlivesLogins ==
  [][\A a \in Admins :
       admin[a] # NoRow /\ admin[a].status = "revoked" /\ admin'[a].status # "revoked"
       => \E r \in InFlight : arg[r].target = a /\
            \/ ChangeStatus(r) /\ arg[r].op \in {"restore", "unlock"}
            \/ SetLocked(r) /\ arg[r].seen.status = "active"]_vars

(* "revoke and restore are super_admin-only": only restore ends a revocation.*)
OnlyRestoreEndsRevocation ==
  [][\A a \in Admins :
       admin[a] # NoRow /\ admin[a].status = "revoked"
         /\ admin'[a].status = "active"
       => \E r \in Requests : ChangeStatus(r) /\ arg[r].op = "restore"]_vars

(* "Super admin access can only be removed from the Admins page": a demotion *)
(* from the Users page deletes no super admin.                               *)
DemotionSparesSuperAdmins ==
  [][\A r \in Requests : Delete(r) /\ arg[r].op = "demote"
       /\ admin[arg[r].target].role = "super_admin" => UNCHANGED admin]_vars

(* "an admin cannot delete their own account".                               *)
NoSelfDelete ==
  [][\A r \in Requests : Delete(r) /\ arg[r].op = "delete"
       /\ arg[r].by = arg[r].target => UNCHANGED admin]_vars

-----------------------------------------------------------------------------
(* The inductive invariant behind SessionsFollowRows.                        *)

LoginStages == {"row", "verify", "miss", "setlocked", "create"}
ManageStages == {"before", "me", "write", "kick", "clear"}

(* What a request holds at each stage.                                       *)
HoldsRow(r) ==
  /\ pc[r] \in LoginStages => arg[r].sid = NoSid
  /\ pc[r] = "row" => arg[r].target = Nobody
  /\ arg[r].target # Nobody => admin[arg[r].target] # NoRow
  /\ pc[r] \in {"verify", "create", "setlocked"} =>
       arg[r].target \in Admins /\ arg[r].seen \in Row
  /\ pc[r] = "miss" /\ arg[r].target # Nobody => arg[r].seen \in Row
  /\ pc[r] \in {"verify", "create"} =>
       ~arg[r].seen.deleted /\ arg[r].seen.status # "locked"
  /\ pc[r] = "create" => arg[r].seen.status # "revoked"
  /\ pc[r] = "setlocked" => arg[r].seen.status = "active"
  /\ pc[r] \in ManageStages => arg[r].target \in Admins /\ arg[r].sid \in Sids
RequestsHoldRows == \A r \in InFlight : HoldsRow(r)

(* The cookie of a request to change one's password is one's own session.    *)
OwnCookie ==
  \A r \in InFlight :
    LET s == arg[r].sid IN
    s \in Sids /\ arg[r].op = "changepw" /\ session[s] # NoRow
      => session[s].admin = arg[r].target

(* Between its two writes, no one but an admin about to sign the session out *)
(* has set a temporary password.                                             *)
ClearIsDue ==
  \A r \in InFlight :
    LET a == arg[r].target IN
    pc[r] = "clear" /\ arg[r].op = "changepw" /\ session[arg[r].sid] # NoRow
      => a \in lapsed \/ KickPending(a) \/ ~admin[a].temp

SessionInv == TypeOK /\ RequestsHoldRows /\ OwnCookie /\ ClearIsDue
              /\ SessionsFollowRows
=============================================================================

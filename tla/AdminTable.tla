----------------------------- MODULE AdminTable -----------------------------
(* The admins table as the password resets and the migration see it: who has *)
(* a row, under which username and which address, and the statements of      *)
(* admin management on it.  An admin is created with the address as its      *)
(* username; a later edit changes the address and leaves the username.       *)
EXTENDS Integers

CONSTANTS
  Staff,      \* ids the admins table may hand out
  Mails,      \* normalised addresses, which are usernames too
  SeedMail,   \* username and address of the account the migration seeds
  Secrets,    \* what a password can have been set by
  Initial,    \* the password a row is created with
  Absent      \* no row, no address

StaffRow == [username: Mails, email: Mails \cup {Absent}, password: Secrets,
             deleted: BOOLEAN, status: {"active", "locked", "revoked"}]

ASSUME StaffAssumption ==
  Staff \subseteq Nat /\ Absent \notin Mails /\ SeedMail \in Mails /\ Initial \in Secrets /\ Absent \notin StaffRow

VARIABLE staff   \* the admins table

StaffTypeOK == staff \in [Staff -> StaffRow \cup {Absent}]

NewStaff(m) == [username |-> m, email |-> m, password |-> Initial,
                deleted |-> FALSE, status |-> "active"]

LiveStaff == {a \in Staff : staff[a] # Absent /\ ~staff[a].deleted}
WithUsername(m) == {a \in LiveStaff : staff[a].username = m}
WithEmail(m) == {a \in LiveStaff : m # Absent /\ staff[a].email = m}

(* The id the table hands out next.                                          *)
NextStaff == {a \in Staff : \A b \in Staff : (b < a) = (staff[b] # Absent)}

(* INSERT INTO admins: both unique indexes on live rows may refuse it.       *)
InsertStaff(m) ==
  /\ WithUsername(m) = {} /\ WithEmail(m) = {}
  /\ \E a \in NextStaff : staff' = [staff EXCEPT ![a] = NewStaff(m)]

(* AdminModel.Update, by id: the address of a row, deleted ones included, is *)
(* changed or removed, its username never.                                   *)
ChangeMail(a, m) ==
  /\ staff[a] # Absent
  /\ a \in LiveStaff => WithEmail(m) = {}
  /\ staff' = [staff EXCEPT ![a].email = m]

(* AdminModel.SetStatus, lock and unlock.                                    *)
SetStaffStatus(a, s) ==
  /\ a \in LiveStaff /\ staff[a].status # s
  /\ staff' = [staff EXCEPT ![a].status = s]

DeleteStaff(a) ==
  /\ a \in LiveStaff
  /\ staff' = [staff EXCEPT ![a].deleted = TRUE]

(* UPDATE ... WHERE id: a row of any standing, deleted ones included.        *)
SetPassword(a, secret) ==
  staff' = [staff EXCEPT ![a].password = secret]

ManageStaff ==
  \/ \E m \in Mails : InsertStaff(m)
  \/ \E a \in Staff :
       \/ \E m \in Mails \cup {Absent} : ChangeMail(a, m)
       \/ \E s \in {"active", "locked", "revoked"} : SetStaffStatus(a, s)
       \/ DeleteStaff(a)
=============================================================================

------------------------ MODULE AdminSessions_proofs ------------------------
(* Proofs about AdminSessions, for every set of admins, usernames, sessions  *)
(* and requests, every failure limit and every choice of handlers.           *)
EXTENDS AdminSessions, TLAPS

USE SessionsAssumption

(* One step of one request.                                                  *)
Handle(r) == Login(r) \/ Manage(r) \/ Fail(r)

(* One step of what surrounds the requests.                                  *)
Around == \/ \E a \in Admins, u \in Usernames, role \in Roles : Create(a, u, role)
          \/ \E a \in Admins : ResetByToken(a)
          \/ \E s \in Sids : EndSession(s)
          \/ \E u \in Usernames : Forget(u)

-----------------------------------------------------------------------------
(* Type correctness.  Rows are found through the ids requests hold, so       *)
(* TypeOK is inductive only together with RequestsHoldRows.                  *)

LEMMA EnterTyped ==
  ASSUME NEW r \in Requests, NEW a \in Arg, NEW stage \in Stages,
         ReqTypeOK, Enter(r, a, stage)
  PROVE  ReqTypeOK'
BY DEF ReqTypeOK, Enter, InFlight

LEMMA GoToTyped ==
  ASSUME NEW r \in Requests, NEW stage \in Stages, ReqTypeOK, GoTo(r, stage),
         pc[r] # "idle"
  PROVE  ReqTypeOK'
BY EnterTyped DEF ReqTypeOK, GoTo, InFlight

LEMMA ReturnTyped ==
  ASSUME NEW r \in Requests, ReqTypeOK, Return(r)
  PROVE  ReqTypeOK'
BY DEF ReqTypeOK, Return, Enter, InFlight, Stages

(* What a statement that sets one column leaves of a row.                    *)
LEMMA RowWithRole ==
  ASSUME NEW row \in Row, NEW role \in Roles
  PROVE  LET new == [row EXCEPT !.role = role] IN
         /\ new \in Row /\ new.role = role /\ new.user = row.user
         /\ new.status = row.status /\ new.temp = row.temp
         /\ new.deleted = row.deleted
BY DEF Row

LEMMA RowWithStatus ==
  ASSUME NEW row \in Row, NEW status \in {"active", "revoked", "locked"}
  PROVE  LET new == [row EXCEPT !.status = status] IN
         /\ new \in Row /\ new.status = status /\ new.user = row.user
         /\ new.role = row.role /\ new.temp = row.temp
         /\ new.deleted = row.deleted
BY DEF Row

LEMMA RowWithTemp ==
  ASSUME NEW row \in Row, NEW temp \in BOOLEAN
  PROVE  LET new == [row EXCEPT !.temp = temp] IN
         /\ new \in Row /\ new.temp = temp /\ new.user = row.user
         /\ new.role = row.role /\ new.status = row.status
         /\ new.deleted = row.deleted
BY DEF Row

LEMMA RowDeleted ==
  ASSUME NEW row \in Row
  PROVE  LET new == [row EXCEPT !.deleted = TRUE] IN
         new \in Row /\ new.status = row.status /\ new.role = row.role
BY DEF Row

LEMMA ArgFields ==
  ASSUME NEW x \in Arg
  PROVE  /\ x.target \in Admins \cup {Nobody}
         /\ x.seen \in Row \cup {NoRow}
         /\ x.sid \in Sids \cup {NoSid}
         /\ x.user \in Usernames
         /\ x.role \in Roles
BY DEF Arg

LEMMA BlankTyped ==
  ASSUME NEW op \in {"login"} \cup SuperOps \cup AnyOps, NEW u \in Usernames
  PROVE  /\ Blank(op, u) \in Arg
         /\ Blank(op, u).target = Nobody /\ Blank(op, u).sid = NoSid
         /\ Blank(op, u).op = op /\ Blank(op, u).user = u
         /\ Blank(op, u).seen = NoRow
BY DEF Blank, Arg, Roles

LEMMA ArgWithRow ==
  ASSUME NEW x \in Arg, NEW a \in Admins, NEW row \in Row
  PROVE  LET y == [x EXCEPT !.target = a, !.seen = row] IN
         /\ y \in Arg
         /\ y.target = a /\ y.seen = row /\ y.sid = x.sid /\ y.op = x.op
BY DEF Arg

LEMMA ArgWithSeen ==
  ASSUME NEW x \in Arg, NEW row \in Row \cup {NoRow}
  PROVE  LET y == [x EXCEPT !.seen = row] IN
         /\ y \in Arg
         /\ y.target = x.target /\ y.sid = x.sid /\ y.op = x.op
BY DEF Arg

LEMMA ArgWithRole ==
  ASSUME NEW x \in Arg, NEW role \in Roles
  PROVE  LET y == [x EXCEPT !.role = role] IN
         /\ y \in Arg
         /\ y.target = x.target /\ y.sid = x.sid /\ y.op = x.op
         /\ y.seen = x.seen
BY DEF Arg

LEMMA ArgOfGate ==
  ASSUME NEW op \in SuperOps \cup AnyOps, NEW s \in Sids, NEW a \in Admins,
         NEW role \in Roles, NEW by \in Admins
  PROVE  LET y == [Blank(op, SeedName) EXCEPT !.sid = s, !.target = a,
                                              !.role = role, !.by = by] IN
         /\ y \in Arg
         /\ y.target = a /\ y.sid = s /\ y.op = op
BY DEF Blank, Arg

(* A request past its reads has the row of its target to write to.           *)
LEMMA TargetHasRow ==
  ASSUME NEW r \in Requests, TypeOK, RequestsHoldRows,
         pc[r] \in ManageStages \cup {"verify", "setlocked", "create"}
  PROVE  /\ arg[r] \in Arg
         /\ arg[r].target \in Admins
         /\ admin[arg[r].target] \in Row
<1>1. r \in InFlight
  BY DEF InFlight, ManageStages
<1>2. HoldsRow(r)
  BY <1>1 DEF RequestsHoldRows
<1>3. arg[r].target \in Admins
  BY <1>2 DEF HoldsRow
<1>4. admin[arg[r].target] # NoRow
  BY <1>2, <1>3 DEF HoldsRow
<1> QED BY <1>1, <1>3, <1>4 DEF TypeOK, ReqTypeOK, StoreTypeOK

(* A statement that replaces one admin's row by another row.                 *)
LEMMA RowWritten ==
  ASSUME StoreTypeOK, NEW a \in Admins, NEW new \in Row,
         admin' = [admin EXCEPT ![a] = new]
  PROVE  /\ admin' \in [Admins -> Row \cup {NoRow}]
         /\ \A b \in Admins : admin[b] # NoRow => admin'[b] # NoRow
         /\ admin'[a] = new
         /\ \A b \in Admins \ {a} : admin'[b] = admin[b]
BY DEF StoreTypeOK

(* SetStatus, on whatever row is there.                                      *)
LEMMA StatusWritten ==
  ASSUME StoreTypeOK, NEW a \in Admins, admin[a] \in Row,
         NEW status \in {"active", "revoked", "locked"}, SetStatus(a, status)
  PROVE  \E new \in Row :
           /\ admin' = [admin EXCEPT ![a] = new]
           /\ new.user = admin[a].user /\ new.role = admin[a].role
           /\ new.temp = admin[a].temp /\ new.deleted = admin[a].deleted
           /\ new.status = IF Live(admin[a]) THEN status ELSE admin[a].status
<1>1. CASE Live(admin[a])
  <2> DEFINE new == [admin[a] EXCEPT !.status = status]
  <2>1. admin' = [admin EXCEPT ![a] = new]
    BY <1>1 DEF SetStatus
  <2>2. /\ new \in Row /\ new.status = status /\ new.user = admin[a].user
        /\ new.role = admin[a].role /\ new.temp = admin[a].temp
        /\ new.deleted = admin[a].deleted
    BY RowWithStatus
  <2> QED BY <1>1, <2>1, <2>2
<1>2. CASE ~Live(admin[a])
  <2>1. admin' = admin
    BY <1>2 DEF SetStatus
  <2>2. admin' = [admin EXCEPT ![a] = admin[a]]
    BY <2>1 DEF StoreTypeOK
  <2> QED BY <1>2, <2>2
<1> QED BY <1>1, <1>2

(* The writes of the managing handlers and of a login to the admins table:   *)
(* one row, its username and all that the statement does not name kept.      *)
LEMMA WriteStep ==
  ASSUME NEW r \in Requests, TypeOK, RequestsHoldRows,
         \/ Update(r) \/ ChangeStatus(r) \/ Delete(r)
         \/ ResetAdminPassword(r) \/ ChangeOwnPassword(r) \/ SetLocked(r)
  PROVE  \E new \in Row : admin' = [admin EXCEPT ![arg[r].target] = new]
<1> DEFINE a == arg[r].target
<1>1. pc[r] \in {"write", "setlocked"}
  BY DEF Update, ChangeStatus, Delete, ResetAdminPassword, ChangeOwnPassword,
         SetLocked
<1>2. arg[r] \in Arg /\ a \in Admins /\ admin[a] \in Row
  BY <1>1, TargetHasRow DEF ManageStages
<1>3. StoreTypeOK
  BY DEF TypeOK
<1>4. admin = [admin EXCEPT ![a] = admin[a]]
  BY <1>3 DEF StoreTypeOK
<1>5. CASE Update(r)
  <2>1. [admin[a] EXCEPT !.role = arg[r].role] \in Row
    BY <1>2, RowWithRole, ArgFields
  <2>2. admin' = [admin EXCEPT ![a] = [admin[a] EXCEPT !.role = arg[r].role]]
    BY <1>5 DEF Update
  <2> QED BY <2>1, <2>2
<1>6. CASE ChangeStatus(r)
  BY <1>2, <1>3, <1>6, StatusWritten DEF ChangeStatus
<1>7. CASE SetLocked(r)
  BY <1>2, <1>3, <1>7, StatusWritten DEF SetLocked
<1>8. CASE Delete(r)
  <2>1. \/ admin' = admin
        \/ admin' = [admin EXCEPT ![a] = [admin[a] EXCEPT !.deleted = TRUE]]
    BY <1>8 DEF Delete
  <2> QED BY <1>2, <1>4, <2>1, RowDeleted
<1>9. CASE ResetAdminPassword(r)
  <2>1. admin' = [admin EXCEPT ![a] = [admin[a] EXCEPT !.temp = TRUE]]
    BY <1>9 DEF ResetAdminPassword
  <2> QED BY <1>2, <2>1, RowWithTemp
<1>10. CASE ChangeOwnPassword(r)
  <2>1. admin' = [admin EXCEPT ![a] = [admin[a] EXCEPT !.temp = FALSE]]
    BY <1>10 DEF ChangeOwnPassword
  <2> QED BY <1>2, <2>1, RowWithTemp
<1> QED BY <1>5, <1>6, <1>7, <1>8, <1>9, <1>10

(* A request's own variables are typed after its step.                       *)
LEMMA HandleReqTyped ==
  ASSUME NEW r \in Requests, TypeOK, RequestsHoldRows, Handle(r)
  PROVE  ReqTypeOK'
<1> USE DEF TypeOK
<1>stages. {"row", "verify", "miss", "setlocked", "create", "before", "me",
            "write", "kick", "clear"} \subseteq Stages
  BY DEF Stages
<1>arg. pc[r] # "idle" => arg[r] \in Arg
  BY DEF ReqTypeOK, InFlight
<1>1. CASE LoginStart(r)
  <2>1. PICK u \in Usernames : Enter(r, Blank("login", u), "row")
    BY <1>1 DEF LoginStart
  <2> QED BY <2>1, BlankTyped, EnterTyped, <1>stages
<1>2. CASE LoginRead(r)
  <2>1. CASE GoTo(r, "miss") \/ Return(r)
    BY <1>2, <2>1, <1>stages, GoToTyped, ReturnTyped DEF LoginRead
  <2>2. ASSUME NEW a \in Admins, Live(admin[a]),
               Enter(r, [arg[r] EXCEPT !.target = a, !.seen = admin[a]],
                     "verify")
        PROVE  ReqTypeOK'
    <3>1. admin[a] \in Row /\ arg[r] \in Arg
      BY <1>2, <1>arg, <2>2 DEF Live, StoreTypeOK, LoginRead
    <3> QED BY <2>2, <3>1, <1>stages, ArgWithRow, EnterTyped
  <2> QED BY <1>2, <2>1, <2>2 DEF LoginRead
<1>3. CASE \/ Verify(r) \/ Miss(r) \/ SetLocked(r) \/ CreateSession(r) \/ Fail(r)
  BY <1>3, <1>stages, GoToTyped, ReturnTyped
     DEF Verify, Miss, SetLocked, CreateSession, Fail
<1>4. CASE Gate(r)
  <2>1. PICK op \in Ops \cap (SuperOps \cup AnyOps), s \in Sids, a \in Admins,
             role \in Roles :
          /\ session[s] # NoRow
          /\ Enter(r, [Blank(op, SeedName) EXCEPT !.sid = s, !.target = a,
                         !.role = role, !.by = session[s].admin], FirstStage(op))
    BY <1>4 DEF Gate
  <2>2. session[s].admin \in Admins
    BY <2>1 DEF StoreTypeOK, Session
  <2>3. FirstStage(op) \in Stages
    BY <1>stages DEF FirstStage
  <2> DEFINE y == [Blank(op, SeedName) EXCEPT !.sid = s, !.target = a,
                    !.role = role, !.by = session[s].admin]
  <2>4. y \in Arg
    BY <2>2, ArgOfGate
  <2> HIDE DEF y
  <2>5. Enter(r, y, FirstStage(op))
    BY <2>1 DEF y
  <2> QED BY <2>3, <2>4, <2>5, EnterTyped
<1>5. CASE ReadBefore(r)
  <2>1. arg[r] \in Arg /\ admin[arg[r].target] \in Row
    BY <1>5, TargetHasRow DEF ReadBefore, ManageStages
  <2>2. ASSUME NEW seen \in Row \cup {NoRow}, NEW stage \in {"me", "write"},
               Enter(r, [arg[r] EXCEPT !.seen = seen], stage)
        PROVE  ReqTypeOK'
    BY <2>1, <2>2, <1>stages, ArgWithSeen, EnterTyped
  <2>3. ASSUME NEW stage \in {"me", "write"}, GoTo(r, stage) \/ Return(r)
        PROVE  ReqTypeOK'
    BY <1>5, <2>3, <1>stages, GoToTyped, ReturnTyped DEF ReadBefore
  <2> QED BY <1>5, <2>1, <2>2, <2>3 DEF ReadBefore
<1>6. CASE ReadMe(r)
  <2>1. arg[r] \in Arg /\ arg[r].target \in Admins
    BY <1>6, TargetHasRow DEF ReadMe, ManageStages
  <2>2. PICK sess \in SessionNow(r) :
          \/ Return(r)
          \/ Enter(r, [arg[r] EXCEPT !.role = RoleToWrite(r, sess)], "write")
    BY <1>6 DEF ReadMe
  <2>3. RoleToWrite(r, sess) \in Roles
    <3>1. r \in InFlight /\ pc[r] \in ManageStages
      BY <1>6 DEF InFlight, ReadMe, ManageStages
    <3>2. arg[r].sid \in Sids
      BY <3>1 DEF RequestsHoldRows, HoldsRow
    <3>3. sess \in Session \cup {NoRow}
      BY <2>2, <3>2 DEF SessionNow, StoreTypeOK
    <3> QED BY <2>1, <3>3, ArgFields DEF RoleToWrite, Session
  <2> QED BY <2>1, <2>2, <2>3, <1>stages, ArgWithRole, EnterTyped, ReturnTyped
<1>7. CASE \/ Update(r) \/ ChangeStatus(r) \/ Delete(r)
           \/ ResetAdminPassword(r) \/ ChangeOwnPassword(r)
  BY <1>7, <1>stages, GoToTyped, ReturnTyped
     DEF Update, ChangeStatus, Delete, ResetAdminPassword, ChangeOwnPassword
<1>8. CASE Kick(r) \/ ClearMustReset(r) \/ ClearFailures(r)
  BY <1>8, ReturnTyped DEF Kick, ClearMustReset, ClearFailures
<1> QED
  BY <1>1, <1>2, <1>3, <1>4, <1>5, <1>6, <1>7, <1>8 DEF Handle, Login, Manage

(* The tables are typed after a step of a request, and no row is removed.    *)
LEMMA HandleStoreTyped ==
  ASSUME NEW r \in Requests, TypeOK, RequestsHoldRows, Handle(r)
  PROVE  /\ StoreTypeOK'
         /\ \A a \in Admins : admin[a] # NoRow => admin'[a] # NoRow
<1> USE DEF TypeOK
<1>1. CASE LoginStart(r) \/ LoginRead(r) \/ Gate(r) \/ ReadBefore(r) \/ ReadMe(r)
  BY <1>1 DEF LoginStart, LoginRead, Gate, ReadBefore, ReadMe, tables, StoreTypeOK
<1>2. CASE Verify(r) \/ Miss(r)
  <2>1. arg[r] \in Arg /\ arg[r].user \in Usernames
    BY <1>2, ArgFields DEF Verify, Miss, InFlight, ReqTypeOK
  <2>2. failures' \in [Usernames -> 0 .. MaxLoginAttempts]
    BY <1>2, <2>1 DEF Verify, Miss, StoreTypeOK
  <2>3. UNCHANGED <<admin, session, overtaken, lapsed>>
    BY <1>2 DEF Verify, Miss
  <2> QED BY <2>2, <2>3 DEF StoreTypeOK
<1>3. CASE \/ Update(r) \/ ChangeStatus(r) \/ Delete(r)
           \/ ResetAdminPassword(r) \/ ChangeOwnPassword(r) \/ SetLocked(r)
  <2>1. arg[r].target \in Admins
    BY <1>3, TargetHasRow
       DEF Update, ChangeStatus, Delete, ResetAdminPassword, ChangeOwnPassword,
           SetLocked, ManageStages
  <2>2. PICK new \in Row : admin' = [admin EXCEPT ![arg[r].target] = new]
    BY <1>3, WriteStep
  <2>3. /\ admin' \in [Admins -> Row \cup {NoRow}]
        /\ \A b \in Admins : admin[b] # NoRow => admin'[b] # NoRow
    BY <2>1, <2>2, RowWritten
  <2>4. /\ UNCHANGED <<session, failures, overtaken>>
        /\ lapsed' \subseteq lapsed \cup {arg[r].target}
    BY <1>3 DEF Update, ChangeStatus, Delete, ResetAdminPassword,
                ChangeOwnPassword, SetLocked
  <2>5. \A s \in Sids : session[s] # NoRow => session[s].admin \in Admins
    BY DEF StoreTypeOK, Session
  <2> QED BY <2>1, <2>3, <2>4, <2>5 DEF StoreTypeOK
<1>4. CASE CreateSession(r)
  <2>1. /\ arg[r].target \in Admins /\ admin[arg[r].target] \in Row
        /\ arg[r].seen \in Row
    <3>1. pc[r] = "create" /\ r \in InFlight
      BY <1>4 DEF CreateSession, InFlight
    <3> QED BY <3>1, TargetHasRow DEF RequestsHoldRows, HoldsRow
  <2>2. PICK s \in FreshSids :
          /\ session' = [session EXCEPT ![s] = [admin |-> arg[r].target,
                           role |-> arg[r].seen.role, temp |-> arg[r].seen.temp]]
          /\ overtaken' \subseteq overtaken \cup {s}
    BY <1>4 DEF CreateSession
  <2>3. [admin |-> arg[r].target, role |-> arg[r].seen.role,
         temp |-> arg[r].seen.temp] \in Session
    BY <2>1 DEF Session, Row
  <2>4. UNCHANGED <<admin, failures, lapsed>> /\ s \in Sids
    BY <1>4 DEF CreateSession, FreshSids
  <2> QED BY <2>1, <2>2, <2>3, <2>4 DEF StoreTypeOK
<1>5. CASE Kick(r)
  <2>1. /\ UNCHANGED <<admin, failures>>
        /\ overtaken' \subseteq overtaken /\ lapsed' \subseteq lapsed
        /\ session' \in [Sids -> Session \cup {NoRow}]
        /\ \A s \in Sids : session'[s] # NoRow => session'[s] = session[s]
    BY <1>5 DEF Kick, StoreTypeOK
  <2> QED BY <2>1 DEF StoreTypeOK
<1>6. CASE ClearMustReset(r)
  <2> DEFINE s == arg[r].sid
  <2>1. UNCHANGED <<admin, failures, overtaken, lapsed>>
    BY <1>6 DEF ClearMustReset
  <2>2. s \in Sids
    BY <1>6 DEF ClearMustReset, RequestsHoldRows, HoldsRow, InFlight, ManageStages
  <2>3. CASE session[s] = NoRow
    BY <1>6, <2>1, <2>3 DEF ClearMustReset, StoreTypeOK
  <2>4. CASE session[s] # NoRow
    <3>1. session' = [session EXCEPT ![s] = [session[s] EXCEPT !.temp = FALSE]]
      BY <1>6, <2>4 DEF ClearMustReset
    <3>2. /\ [session[s] EXCEPT !.temp = FALSE] \in Session
          /\ [session[s] EXCEPT !.temp = FALSE].admin = session[s].admin
      BY <2>2, <2>4 DEF StoreTypeOK, Session
    <3>3. /\ session' \in [Sids -> Session \cup {NoRow}]
          /\ \A z \in Sids : session'[z] # NoRow =>
                session[z] # NoRow /\ session'[z].admin = session[z].admin
      BY <2>2, <2>4, <3>1, <3>2 DEF StoreTypeOK
    <3> QED BY <2>1, <3>3 DEF StoreTypeOK
  <2> QED BY <2>3, <2>4
<1>7. CASE ClearFailures(r)
  <2>1. failures' \in [Usernames -> 0 .. MaxLoginAttempts]
    <3>1. \/ failures' = failures
          \/ failures' = [failures EXCEPT ![arg[r].seen.user] = 0]
      BY <1>7 DEF ClearFailures
    <3>2. 0 \in 0 .. MaxLoginAttempts
      OBVIOUS
    <3> QED BY <3>1, <3>2 DEF StoreTypeOK
  <2>2. UNCHANGED <<admin, session, overtaken, lapsed>>
    BY <1>7 DEF ClearFailures
  <2> QED BY <2>1, <2>2 DEF StoreTypeOK
<1>8. CASE Fail(r)
  <2>1. pc[r] = "kick" => arg[r].target \in Admins
    BY TargetHasRow DEF ManageStages
  <2> QED BY <1>8, <2>1 DEF Fail, StoreTypeOK
<1> QED
  BY <1>1, <1>2, <1>3, <1>4, <1>5, <1>6, <1>7, <1>8 DEF Handle, Login, Manage

(* The surroundings write whole rows, or one column of a row.                *)
LEMMA AroundTyped ==
  ASSUME TypeOK, Around
  PROVE  /\ TypeOK'
         /\ \A a \in Admins : admin[a] # NoRow => admin'[a] # NoRow
<1> USE DEF TypeOK
<1>1. UNCHANGED <<pc, arg, lapsed>> /\ ReqTypeOK'
  BY DEF Around, Create, ResetByToken, EndSession, Forget, ReqTypeOK, InFlight
<1>2. ASSUME NEW a \in Admins, NEW u \in Usernames, NEW role \in Roles,
             Create(a, u, role)
      PROVE  StoreTypeOK' /\ \A b \in Admins : admin[b] # NoRow => admin'[b] # NoRow
  <2> DEFINE new == [user |-> u, role |-> role, temp |-> TRUE,
                     status |-> "active", deleted |-> FALSE]
  <2>1. new \in Row /\ admin' = [admin EXCEPT ![a] = new]
    BY <1>2 DEF Create, Row
  <2> HIDE DEF new
  <2>2. /\ admin' \in [Admins -> Row \cup {NoRow}]
        /\ \A b \in Admins : admin[b] # NoRow => admin'[b] # NoRow
    BY <2>1, RowWritten
  <2>3. \A s \in Sids : session[s] # NoRow => session[s].admin \in Admins
    BY DEF StoreTypeOK, Session
  <2> QED BY <1>1, <1>2, <2>2, <2>3 DEF Create, StoreTypeOK
<1>3. ASSUME NEW a \in Admins, ResetByToken(a)
      PROVE  StoreTypeOK' /\ \A b \in Admins : admin[b] # NoRow => admin'[b] # NoRow
  <2>1. admin[a] \in Row
    BY <1>3 DEF ResetByToken, StoreTypeOK
  <2>2. [admin[a] EXCEPT !.temp = FALSE] \in Row
    BY <2>1, RowWithTemp
  <2>3. admin' = [admin EXCEPT ![a] = [admin[a] EXCEPT !.temp = FALSE]]
    BY <1>3 DEF ResetByToken
  <2>4. /\ admin' \in [Admins -> Row \cup {NoRow}]
        /\ \A b \in Admins : admin[b] # NoRow => admin'[b] # NoRow
    BY <2>2, <2>3, RowWritten
  <2>5. \A s \in Sids : session[s] # NoRow => session[s].admin \in Admins
    BY DEF StoreTypeOK, Session
  <2> QED BY <1>1, <1>3, <2>4, <2>5 DEF ResetByToken, StoreTypeOK
<1>4. ASSUME NEW s \in Sids, EndSession(s)
      PROVE  StoreTypeOK' /\ \A b \in Admins : admin[b] # NoRow => admin'[b] # NoRow
  BY <1>1, <1>4 DEF EndSession, StoreTypeOK
<1>5. ASSUME NEW u \in Usernames, Forget(u)
      PROVE  StoreTypeOK' /\ \A b \in Admins : admin[b] # NoRow => admin'[b] # NoRow
  <2>1. 0 \in 0 .. MaxLoginAttempts
    OBVIOUS
  <2> QED BY <1>1, <1>5, <2>1 DEF Forget, StoreTypeOK
<1> QED BY <1>1, <1>2, <1>3, <1>4, <1>5 DEF Around

(* A restart empties memory and may seed an admin into an unused id.         *)
LEMMA RestartTyped ==
  ASSUME TypeOK, RequestsHoldRows, Restart
  PROVE  /\ TypeOK'
         /\ \A a \in Admins : admin[a] # NoRow => admin'[a] = admin[a]
<1> USE DEF TypeOK
<1>1. ReqTypeOK'
  BY DEF Restart, ReqTypeOK, InFlight, Stages
<1>2. lapsed' \subseteq Admins
  <2>1. \A r \in InFlight : pc[r] = "kick" => arg[r].target \in Admins
    BY DEF RequestsHoldRows, HoldsRow, ManageStages
  <2> QED BY <2>1 DEF Restart, StoreTypeOK
<1>3. /\ admin' \in [Admins -> Row \cup {NoRow}]
      /\ \A a \in Admins : admin[a] # NoRow => admin'[a] = admin[a]
  <2>1. \/ admin' = admin
        \/ \E a \in Admins : admin[a] = NoRow /\ admin' = [admin EXCEPT ![a] = SeedRow]
    BY DEF Restart
  <2>2. SeedRow \in Row
    BY DEF SeedRow, Row, Roles
  <2> QED BY <2>1, <2>2 DEF StoreTypeOK
<1>4. UNCHANGED <<session, overtaken>> /\ failures' \in [Usernames -> 0 .. MaxLoginAttempts]
  <2>1. 0 \in 0 .. MaxLoginAttempts
    OBVIOUS
  <2> QED BY <2>1 DEF Restart
<1>5. \A s \in Sids : session[s] # NoRow => session[s].admin \in Admins
  BY DEF StoreTypeOK, Session
<1> QED BY <1>1, <1>2, <1>3, <1>4, <1>5 DEF StoreTypeOK

LEMMA NextSplit ==
  [Next]_vars => (\E r \in Requests : Handle(r)) \/ Around \/ Restart \/ UNCHANGED vars
BY DEF Next, Handle, Around

(* No step removes a row from the admins table.                              *)
LEMMA TypeStep ==
  ASSUME TypeOK, RequestsHoldRows, [Next]_vars
  PROVE  /\ TypeOK'
         /\ \A a \in Admins : admin[a] # NoRow => admin'[a] # NoRow
<1>1. CASE UNCHANGED vars
  BY <1>1 DEF vars, TypeOK, ReqTypeOK, StoreTypeOK, InFlight
<1> QED
  BY <1>1, NextSplit, HandleReqTyped, HandleStoreTyped, AroundTyped, RestartTyped
     DEF TypeOK

-----------------------------------------------------------------------------
(* What requests hold.                                                       *)

(* A request's step leaves every other request alone.                        *)
LEMMA OthersStay ==
  ASSUME NEW r \in Requests, NEW q \in Requests, q # r, TypeOK, Handle(r)
  PROVE  pc'[q] = pc[q] /\ arg'[q] = arg[q]
<1>1. \E a, stage : Enter(r, a, stage)
  BY DEF Handle, Login, Manage, Fail, LoginStart, LoginRead, Verify, Miss,
         SetLocked, CreateSession, Gate, ReadBefore, ReadMe, Update,
         ChangeStatus, Delete, ResetAdminPassword, ChangeOwnPassword, Kick,
         ClearMustReset, ClearFailures, GoTo, Return
<1> QED BY <1>1 DEF Enter, TypeOK, ReqTypeOK

LEMMA EnterGives ==
  ASSUME NEW r \in Requests, NEW a, NEW stage, TypeOK, Enter(r, a, stage)
  PROVE  pc'[r] = stage /\ arg'[r] = a
BY DEF Enter, TypeOK, ReqTypeOK

LEMMA MovesGive ==
  ASSUME NEW r \in Requests, TypeOK
  PROVE  /\ \A stage : GoTo(r, stage) => pc'[r] = stage /\ arg'[r] = arg[r]
         /\ Return(r) => pc'[r] = "idle"
BY EnterGives DEF GoTo, Return

(* The request that takes the step still holds rows.                         *)
LEMMA ActorHoldsRow ==
  ASSUME NEW r \in Requests, TypeOK, RequestsHoldRows, [Next]_vars, Handle(r),
         pc'[r] # "idle"
  PROVE  HoldsRow(r)'
<1>stay. \A a \in Admins : admin[a] # NoRow => admin'[a] # NoRow
  BY TypeStep
<1>here. pc[r] # "idle" => HoldsRow(r) /\ arg[r] \in Arg
  BY DEF RequestsHoldRows, InFlight, TypeOK, ReqTypeOK
<1>target. pc[r] # "idle" => arg[r].target \in Admins \cup {Nobody}
  BY <1>here, ArgFields
<1>1. CASE LoginStart(r)
  <2>1. PICK u \in Usernames : Enter(r, Blank("login", u), "row")
    BY <1>1 DEF LoginStart
  <2>2. pc'[r] = "row" /\ arg'[r].target = Nobody /\ arg'[r].sid = NoSid
    BY <2>1, EnterGives, BlankTyped
  <2> QED BY <2>2 DEF HoldsRow, ManageStages, LoginStages
<1>2. CASE LoginRead(r)
  <2>1. CASE GoTo(r, "miss")
    <3>1. pc'[r] = "miss" /\ arg'[r].target = Nobody /\ arg'[r].sid = NoSid
      BY <1>2, <1>here, <2>1, MovesGive DEF LoginRead, HoldsRow, LoginStages
    <3> QED BY <3>1 DEF HoldsRow, ManageStages, LoginStages
  <2>2. CASE Return(r)
    BY <2>2, MovesGive
  <2>3. ASSUME NEW a \in Admins, Live(admin[a]), admin[a].status # "locked",
               Enter(r, [arg[r] EXCEPT !.target = a, !.seen = admin[a]],
                     "verify")
        PROVE  HoldsRow(r)'
    <3>1. admin[a] \in Row /\ ~admin[a].deleted
      BY <2>3 DEF Live, TypeOK, StoreTypeOK
    <3> DEFINE y == [arg[r] EXCEPT !.target = a, !.seen = admin[a]]
    <3>arg. arg[r] \in Arg /\ arg[r].sid = NoSid
      BY <1>2, <1>here DEF LoginRead, HoldsRow, LoginStages
    <3>y. y.target = a /\ y.seen = admin[a] /\ y.sid = NoSid
      BY <3>arg DEF Arg
    <3> HIDE DEF y
    <3>2. /\ pc'[r] = "verify" /\ arg'[r].target = a
          /\ arg'[r].seen = admin[a] /\ arg'[r].sid = NoSid
      BY <2>3, <3>y, EnterGives DEF y
    <3>3. admin'[a] # NoRow
      BY <1>stay, <2>3 DEF Live
    <3> QED BY <2>3, <3>1, <3>2, <3>3 DEF HoldsRow, ManageStages, LoginStages
  <2> QED BY <1>2, <2>1, <2>2, <2>3 DEF LoginRead
<1>3. CASE Verify(r) \/ Miss(r)
  <2>1. /\ pc[r] \in {"verify", "miss"} /\ arg'[r] = arg[r]
        /\ \/ pc[r] = "verify" /\ pc'[r] = "miss"
           \/ pc[r] = "verify" /\ pc'[r] = "create" /\ arg[r].seen.status # "revoked"
           \/ pc[r] = "miss" /\ pc'[r] = "setlocked" /\ arg[r].target # Nobody
              /\ arg[r].seen.status = "active"
    BY <1>3, MovesGive DEF Verify, Miss
  <2> QED BY <2>1, <1>here, <1>stay, <1>target DEF HoldsRow, ManageStages, LoginStages
<1>4. CASE Gate(r)
  <2>1. PICK op \in Ops \cap (SuperOps \cup AnyOps), s \in Sids, a \in Admins,
             role \in Roles :
          /\ session[s] # NoRow /\ admin[a] # NoRow
          /\ Enter(r, [Blank(op, SeedName) EXCEPT !.sid = s, !.target = a,
                         !.role = role, !.by = session[s].admin], FirstStage(op))
    BY <1>4 DEF Gate
  <2>2. session[s].admin \in Admins
    BY <2>1 DEF TypeOK, StoreTypeOK, Session
  <2> DEFINE y == [Blank(op, SeedName) EXCEPT !.sid = s, !.target = a,
                    !.role = role, !.by = session[s].admin]
  <2>3. y.target = a /\ y.sid = s
    BY DEF Blank
  <2> HIDE DEF y
  <2>4. Enter(r, y, FirstStage(op))
    BY <2>1 DEF y
  <2>5. arg'[r] = y /\ pc'[r] = FirstStage(op) /\ FirstStage(op) \in {"before", "me", "write"}
    BY <2>4, EnterGives DEF FirstStage
  <2>6. admin'[a] # NoRow
    BY <1>stay, <2>1
  <2> QED BY <2>3, <2>5, <2>6 DEF HoldsRow, ManageStages, LoginStages
<1>5. CASE ReadBefore(r) \/ ReadMe(r)
  <2>1. pc[r] \in {"before", "me"} /\ arg[r] \in Arg /\ admin[arg[r].target] \in Row
    BY <1>5, TargetHasRow DEF ReadBefore, ReadMe, ManageStages, LoginStages
  <2>2. arg'[r].target = arg[r].target /\ arg'[r].sid = arg[r].sid
        /\ pc'[r] \in {"me", "write"}
    <3>1. CASE ReadBefore(r)
      <4>1. ASSUME NEW seen \in Row \cup {NoRow}, NEW stage \in {"me", "write"},
                   Enter(r, [arg[r] EXCEPT !.seen = seen], stage)
            PROVE  <2>2
        <5> DEFINE y == [arg[r] EXCEPT !.seen = seen]
        <5>1. y.target = arg[r].target /\ y.sid = arg[r].sid
          BY <2>1, ArgWithSeen
        <5> HIDE DEF y
        <5> QED BY <4>1, <5>1, EnterGives DEF y
      <4>2. ASSUME NEW stage \in {"me", "write"}, GoTo(r, stage) \/ Return(r)
            PROVE  <2>2
        BY <2>1, <4>2, MovesGive
      <4> QED BY <2>1, <3>1, <4>1, <4>2 DEF ReadBefore
    <3>2. CASE ReadMe(r)
      <4>1. PICK sess \in SessionNow(r) :
              \/ Return(r)
              \/ Enter(r, [arg[r] EXCEPT !.role = RoleToWrite(r, sess)], "write")
        BY <3>2 DEF ReadMe
      <4>2. [arg[r] EXCEPT !.role = RoleToWrite(r, sess)].target = arg[r].target
            /\ [arg[r] EXCEPT !.role = RoleToWrite(r, sess)].sid = arg[r].sid
        BY <2>1 DEF Arg
      <4> QED BY <4>1, <4>2, EnterGives, MovesGive
    <3> QED BY <1>5, <3>1, <3>2
  <2> QED BY <2>1, <2>2, <1>here, <1>stay DEF HoldsRow, ManageStages, LoginStages
<1>6. CASE \/ Update(r) \/ ChangeStatus(r) \/ Delete(r)
           \/ ResetAdminPassword(r) \/ ChangeOwnPassword(r)
  <2>1. pc[r] = "write" /\ pc'[r] \in {"kick", "clear"} /\ arg'[r] = arg[r]
    BY <1>6, MovesGive
       DEF Update, ChangeStatus, Delete, ResetAdminPassword, ChangeOwnPassword
  <2> QED BY <2>1, <1>here, <1>stay DEF HoldsRow, ManageStages, LoginStages
<1>7. CASE \/ SetLocked(r) \/ CreateSession(r) \/ Kick(r) \/ ClearMustReset(r)
           \/ ClearFailures(r) \/ Fail(r)
  BY <1>7, MovesGive
     DEF SetLocked, CreateSession, Kick, ClearMustReset, ClearFailures, Fail
<1> QED
  BY <1>1, <1>2, <1>3, <1>4, <1>5, <1>6, <1>7 DEF Handle, Login, Manage

LEMMA RequestsHoldRowsStep ==
  ASSUME TypeOK, RequestsHoldRows, [Next]_vars
  PROVE  RequestsHoldRows'
<1> SUFFICES ASSUME NEW q \in Requests, pc'[q] # "idle"
             PROVE  HoldsRow(q)'
  BY DEF RequestsHoldRows, InFlight
<1>1. CASE pc'[q] = pc[q] /\ arg'[q] = arg[q]
  <2>1. HoldsRow(q) /\ arg[q] \in Arg
    BY <1>1 DEF RequestsHoldRows, InFlight, TypeOK, ReqTypeOK
  <2>2. arg[q].target \in Admins \cup {Nobody}
    BY <2>1, ArgFields
  <2>3. \A a \in Admins : admin[a] # NoRow => admin'[a] # NoRow
    BY TypeStep
  <2> QED BY <1>1, <2>1, <2>2, <2>3 DEF HoldsRow
<1>2. CASE Handle(q)
  BY <1>2, ActorHoldsRow
<1>3. ASSUME NEW r \in Requests, Handle(r), r # q
      PROVE  pc'[q] = pc[q] /\ arg'[q] = arg[q]
  BY <1>3, OthersStay
<1>4. CASE Around \/ UNCHANGED vars
  BY <1>1, <1>4 DEF Around, Create, ResetByToken, EndSession, Forget, vars
<1>5. CASE Restart
  BY <1>5 DEF Restart
<1> QED BY <1>1, <1>2, <1>3, <1>4, <1>5, NextSplit

-----------------------------------------------------------------------------
(* The cookie of a change of one's password.                                 *)

(* What a step may do to one session: nothing, end it, make it for the row a *)
(* login read, or clear its temporary password.                              *)
LEMMA SessionStep ==
  ASSUME NEW s \in Sids, TypeOK, RequestsHoldRows, [Next]_vars,
         session'[s] # NoRow
  PROVE  \/ session'[s] = session[s]
         \/ \E r \in Requests : CreateSession(r) /\ s \in FreshSids
         \/ \E r \in Requests :
              /\ ClearMustReset(r) /\ arg[r].sid = s /\ session[s] # NoRow
              /\ session'[s] = [session[s] EXCEPT !.temp = FALSE]
<1>1. CASE Around \/ Restart \/ UNCHANGED vars
  BY <1>1 DEF Around, Create, ResetByToken, EndSession, Forget, Restart, vars,
              TypeOK, StoreTypeOK
<1>2. ASSUME NEW r \in Requests, CreateSession(r)
      PROVE  session'[s] = session[s] \/ s \in FreshSids
  BY <1>2 DEF CreateSession, TypeOK, StoreTypeOK
<1>3. ASSUME NEW r \in Requests, Kick(r)
      PROVE  session'[s] = session[s]
  BY <1>3 DEF Kick
<1>4. ASSUME NEW r \in Requests, ClearMustReset(r)
      PROVE  \/ session'[s] = session[s]
             \/ /\ arg[r].sid = s /\ session[s] # NoRow
                /\ session'[s] = [session[s] EXCEPT !.temp = FALSE]
  BY <1>4 DEF ClearMustReset, TypeOK, StoreTypeOK
<1>5. ASSUME NEW r \in Requests, Handle(r), ~CreateSession(r), ~Kick(r),
             ~ClearMustReset(r)
      PROVE  session'[s] = session[s]
  BY <1>5 DEF Handle, Login, Manage, Fail, LoginStart, LoginRead, Verify, Miss,
         SetLocked, Gate, ReadBefore, ReadMe, Update, ChangeStatus, Delete,
         ResetAdminPassword, ChangeOwnPassword, ClearFailures, tables
<1> QED BY <1>1, <1>2, <1>3, <1>4, <1>5, NextSplit

(* What a request's own step does to its cookie and target.                  *)
LEMMA CookieStays ==
  ASSUME NEW q \in Requests, TypeOK, RequestsHoldRows, [Next]_vars, Handle(q),
         pc'[q] # "idle", arg'[q].op = "changepw", arg'[q].sid \in Sids
  PROVE  \/ /\ pc[q] # "idle" /\ arg'[q].op = arg[q].op
            /\ arg'[q].sid = arg[q].sid /\ arg'[q].target = arg[q].target
         \/ /\ Gate(q) /\ UNCHANGED session
            /\ session[arg'[q].sid].admin = arg'[q].target
<1>here. pc[q] # "idle" => arg[q] \in Arg
  BY DEF TypeOK, ReqTypeOK, InFlight
<1>1. CASE Login(q)
  <2>1. pc'[q] \in LoginStages
    BY <1>1, MovesGive, EnterGives
       DEF Login, LoginStart, LoginRead, Verify, Miss, SetLocked, CreateSession,
           LoginStages
  <2>2. arg'[q].sid = NoSid
    BY <2>1, ActorHoldsRow DEF HoldsRow
  <2> QED BY <2>2
<1>2. CASE Gate(q)
  <2>1. PICK op \in Ops \cap (SuperOps \cup AnyOps), s \in Sids, a \in Admins,
             role \in Roles :
          /\ session[s] # NoRow
          /\ op = "changepw" => a = session[s].admin
          /\ Enter(q, [Blank(op, SeedName) EXCEPT !.sid = s, !.target = a,
                         !.role = role, !.by = session[s].admin], FirstStage(op))
    BY <1>2 DEF Gate
  <2> DEFINE y == [Blank(op, SeedName) EXCEPT !.sid = s, !.target = a,
                    !.role = role, !.by = session[s].admin]
  <2>2. y.target = a /\ y.sid = s /\ y.op = op
    BY DEF Blank
  <2> HIDE DEF y
  <2>3. Enter(q, y, FirstStage(op))
    BY <2>1 DEF y
  <2>4. arg'[q] = y
    BY <2>3, EnterGives
  <2> QED BY <1>2, <2>1, <2>2, <2>4 DEF Gate, tables
<1>3. CASE ReadBefore(q)
  <2>1. arg[q] \in Arg /\ pc[q] # "idle"
    BY <1>3, <1>here DEF ReadBefore
  <2>2. ASSUME NEW seen \in Row \cup {NoRow}, NEW stage,
               Enter(q, [arg[q] EXCEPT !.seen = seen], stage)
        PROVE  /\ arg'[q].op = arg[q].op /\ arg'[q].sid = arg[q].sid
               /\ arg'[q].target = arg[q].target
    <3> DEFINE y == [arg[q] EXCEPT !.seen = seen]
    <3>1. y.target = arg[q].target /\ y.sid = arg[q].sid /\ y.op = arg[q].op
      BY <2>1, ArgWithSeen
    <3> HIDE DEF y
    <3> QED BY <2>2, <3>1, EnterGives DEF y
  <2>3. admin[arg[q].target] \in Row
    BY <1>3, TargetHasRow DEF ReadBefore, ManageStages
  <2> QED BY <1>3, <2>1, <2>2, <2>3, MovesGive DEF ReadBefore
<1>4. CASE ReadMe(q)
  <2>1. arg[q] \in Arg /\ pc[q] # "idle"
    BY <1>4, <1>here DEF ReadMe
  <2>2. ASSUME NEW role, Enter(q, [arg[q] EXCEPT !.role = role], "write")
        PROVE  /\ arg'[q].op = arg[q].op /\ arg'[q].sid = arg[q].sid
               /\ arg'[q].target = arg[q].target
    <3> DEFINE y == [arg[q] EXCEPT !.role = role]
    <3>1. y.target = arg[q].target /\ y.sid = arg[q].sid /\ y.op = arg[q].op
      BY <2>1 DEF Arg
    <3> HIDE DEF y
    <3> QED BY <2>2, <3>1, EnterGives DEF y
  <2> QED BY <1>4, <2>1, <2>2, MovesGive DEF ReadMe
<1>5. CASE \/ Update(q) \/ ChangeStatus(q) \/ Delete(q)
           \/ ResetAdminPassword(q) \/ ChangeOwnPassword(q)
           \/ Kick(q) \/ ClearMustReset(q) \/ ClearFailures(q) \/ Fail(q)
  <2>1. pc[q] # "idle" /\ arg'[q] = arg[q]
    BY <1>5, MovesGive
       DEF Update, ChangeStatus, Delete, ResetAdminPassword, ChangeOwnPassword,
           Kick, ClearMustReset, ClearFailures, Fail
  <2> QED BY <2>1
<1> QED BY <1>1, <1>2, <1>3, <1>4, <1>5 DEF Handle, Manage

LEMMA OwnCookieStep ==
  ASSUME TypeOK, RequestsHoldRows, OwnCookie, [Next]_vars
  PROVE  OwnCookie'
<1> SUFFICES ASSUME NEW q \in Requests, pc'[q] # "idle",
                    arg'[q].sid \in Sids, arg'[q].op = "changepw",
                    session'[arg'[q].sid] # NoRow
             PROVE  session'[arg'[q].sid].admin = arg'[q].target
  BY DEF OwnCookie, InFlight
<1> DEFINE s == arg'[q].sid
<1>1. ASSUME pc[q] # "idle", arg'[q].op = arg[q].op, arg[q].sid = s,
             arg'[q].target = arg[q].target
      PROVE  session'[s].admin = arg'[q].target
  <2>1. s \notin FreshSids
    BY <1>1 DEF FreshSids, InFlight
  <2>2. session[s] # NoRow => session[s].admin = arg[q].target
    BY <1>1 DEF OwnCookie, InFlight
  <2>3. session[s] # NoRow => session[s] \in Session
    BY DEF TypeOK, StoreTypeOK
  <2>4. CASE session'[s] = session[s]
    BY <1>1, <2>2, <2>4
  <2>5. CASE /\ session[s] # NoRow
             /\ session'[s] = [session[s] EXCEPT !.temp = FALSE]
    BY <1>1, <2>2, <2>3, <2>5 DEF Session
  <2> QED BY <2>1, <2>4, <2>5, SessionStep
<1>2. CASE Handle(q)
  BY <1>1, <1>2, CookieStays
<1>3. CASE pc'[q] = pc[q] /\ arg'[q] = arg[q]
  BY <1>1, <1>3
<1>4. ASSUME NEW r \in Requests, Handle(r), r # q
      PROVE  pc'[q] = pc[q] /\ arg'[q] = arg[q]
  BY <1>4, OthersStay
<1>5. CASE Around \/ UNCHANGED vars
  BY <1>3, <1>5 DEF Around, Create, ResetByToken, EndSession, Forget, vars
<1>6. CASE Restart
  BY <1>6 DEF Restart
<1> QED BY <1>2, <1>3, <1>4, <1>5, <1>6, NextSplit

-----------------------------------------------------------------------------
(* Sessions and rows.  An admin whose row has left its sessions behind is    *)
(* due to be signed out, and stays due until it is.                          *)

Due(a) == a \in lapsed \/ KickPending(a)

LEMMA KickEmpties ==
  ASSUME NEW r \in Requests, Kick(r), NEW s \in Sids, session'[s] # NoRow
  PROVE  session[s].admin # arg[r].target
BY DEF Kick, SessionsOf

(* A request about to delete sessions does that or fails.                    *)
LEMMA KickOrFail ==
  ASSUME NEW r \in Requests, pc[r] = "kick", Handle(r)
  PROVE  Kick(r) \/ Fail(r)
BY DEF Handle, Login, Manage, LoginStart, LoginRead, Verify, Miss, SetLocked,
       CreateSession, Gate, ReadBefore, ReadMe, Update, ChangeStatus, Delete,
       ResetAdminPassword, ChangeOwnPassword, ClearMustReset, ClearFailures

LEMMA DueStays ==
  ASSUME NEW a \in Admins, TypeOK, RequestsHoldRows, [Next]_vars, Due(a)
  PROVE  Due(a)' \/ \E r \in Requests : Kick(r) /\ arg[r].target = a
<1>1. CASE a \in lapsed
  <2>1. CASE Around \/ Restart \/ UNCHANGED vars
    BY <1>1, <2>1 DEF Around, Create, ResetByToken, EndSession, Forget, Restart,
                      vars, Due
  <2>2. ASSUME NEW r \in Requests, Handle(r), ~Kick(r)
        PROVE  a \in lapsed'
    BY <1>1, <2>2
       DEF Handle, Login, Manage, Fail, LoginStart, LoginRead, Verify, Miss,
           SetLocked, CreateSession, Gate, ReadBefore, ReadMe, Update,
           ChangeStatus, Delete, ResetAdminPassword, ChangeOwnPassword,
           ClearMustReset, ClearFailures, tables
  <2>3. ASSUME NEW r \in Requests, Kick(r), arg[r].target # a
        PROVE  a \in lapsed'
    BY <1>1, <2>3 DEF Kick
  <2> QED BY <2>1, <2>2, <2>3, NextSplit DEF Due
<1>2. CASE KickPending(a)
  <2>1. PICK q \in Requests : pc[q] = "kick" /\ arg[q].target = a
    BY <1>2 DEF KickPending
  <2>2. CASE pc'[q] = pc[q] /\ arg'[q] = arg[q]
    BY <2>1, <2>2 DEF Due, KickPending
  <2>3. CASE Handle(q)
    <3>1. CASE Fail(q)
      BY <2>1, <3>1 DEF Fail, Due
    <3> QED BY <2>1, <2>3, <3>1, KickOrFail
  <2>4. ASSUME NEW r \in Requests, Handle(r), r # q
        PROVE  pc'[q] = pc[q] /\ arg'[q] = arg[q]
    BY <2>4, OthersStay
  <2>5. CASE Around \/ UNCHANGED vars
    BY <2>2, <2>5 DEF Around, Create, ResetByToken, EndSession, Forget, vars
  <2>6. CASE Restart
    BY <2>1, <2>6 DEF Restart, InFlight, Due
  <2> QED BY <2>2, <2>3, <2>4, <2>5, <2>6, NextSplit
<1> QED BY <1>1, <1>2 DEF Due

(* A write either suits every session of the row it changes, or leaves the   *)
(* admin due to be signed out.                                               *)
LEMMA RowStep ==
  ASSUME NEW a \in Admins, admin[a] \in Row, TypeOK, RequestsHoldRows, [Next]_vars
  PROVE  \/ /\ \A sess : Fits(sess, admin[a]) => Fits(sess, admin'[a])
            /\ ~admin[a].temp => ~admin'[a].temp
         \/ Due(a)'
<1> DEFINE Suits == /\ \A sess : Fits(sess, admin[a]) => Fits(sess, admin'[a])
                    /\ ~admin[a].temp => ~admin'[a].temp
<1>same. ASSUME admin'[a] = admin[a]
         PROVE  Suits
  BY <1>same
<1>row. admin[a] # NoRow
  OBVIOUS
<1> HIDE DEF Suits
<1>1. ASSUME NEW r \in Requests,
             \/ Update(r) \/ ChangeStatus(r) \/ Delete(r)
             \/ ResetAdminPassword(r) \/ ChangeOwnPassword(r) \/ SetLocked(r)
      PROVE  Suits \/ Due(a)'
  <2>0. /\ arg[r].target \in Admins /\ pc[r] \in {"write", "setlocked"}
        /\ admin[arg[r].target] \in Row /\ arg[r] \in Arg
    BY <1>1, TargetHasRow
       DEF Update, ChangeStatus, Delete, ResetAdminPassword, ChangeOwnPassword,
           SetLocked, ManageStages
  <2>1. PICK new \in Row : admin' = [admin EXCEPT ![arg[r].target] = new]
    BY <1>1, WriteStep
  <2>2. CASE arg[r].target # a
    BY <1>same, <2>0, <2>1, <2>2, RowWritten DEF TypeOK
  <2>3. CASE arg[r].target = a
    <3>kick. GoTo(r, "kick") => Due(a)'
      BY <2>3, MovesGive DEF Due, KickPending
    <3>1. CASE Update(r)
      <4> DEFINE row == [admin[a] EXCEPT !.role = arg[r].role]
      <4>1. admin'[a] = row
        BY <2>3, <3>1 DEF Update, TypeOK, StoreTypeOK
      <4>2. /\ row.role = arg[r].role /\ row.status = admin[a].status
            /\ row.temp = admin[a].temp /\ row.deleted = admin[a].deleted
            /\ row \in Row
        BY <2>0, <2>3, RowWithRole, ArgFields
      <4> HIDE DEF row
      <4>3. CASE RoleChanged(r)
        BY <3>kick, <3>1, <4>3 DEF Update
      <4>4. CASE Missed(r)
        BY <2>3, <3>1, <4>4 DEF Update, Due
      <4>5. CASE ~RoleChanged(r) /\ ~Missed(r)
        <5>1. admin[a].role = arg[r].role
          BY <2>3, <4>5 DEF RoleChanged, Missed
        <5>2. row # NoRow
          BY <4>2
        <5> QED BY <1>row, <4>1, <4>2, <5>1, <5>2 DEF Suits, Fits, Live
      <4> QED BY <4>3, <4>4, <4>5
    <3>2. CASE ChangeStatus(r) \/ SetLocked(r)
      <4>1. PICK status \in {"active", "revoked", "locked"} :
              /\ SetStatus(a, status)
              /\ status = "revoked" /\ Live(admin[a]) => GoTo(r, "kick")
        BY <2>3, <3>2 DEF ChangeStatus, SetLocked
      <4>2. PICK row \in Row :
              /\ admin' = [admin EXCEPT ![a] = row]
              /\ row.role = admin[a].role /\ row.temp = admin[a].temp
              /\ row.deleted = admin[a].deleted
              /\ row.status = IF Live(admin[a]) THEN status ELSE admin[a].status
        BY <4>1, StatusWritten DEF TypeOK
      <4>3. admin'[a] = row /\ row # NoRow
        BY <4>2 DEF TypeOK, StoreTypeOK
      <4>4. CASE status # "revoked"
        BY <1>row, <4>2, <4>3, <4>4 DEF Suits, Fits, Live
      <4>5. CASE ~Live(admin[a])
        BY <1>row, <4>2, <4>3, <4>5 DEF Suits, Fits
      <4> QED BY <3>kick, <4>1, <4>4, <4>5
    <3>3. CASE Delete(r)
      <4>1. admin' = admin \/ GoTo(r, "kick")
        BY <3>3 DEF Delete
      <4> QED BY <1>same, <3>kick, <4>1
    <3>4. CASE ResetAdminPassword(r)
      BY <3>kick, <3>4 DEF ResetAdminPassword
    <3>5. CASE ChangeOwnPassword(r)
      <4>1. admin'[a] = [admin[a] EXCEPT !.temp = FALSE]
        BY <2>3, <3>5 DEF ChangeOwnPassword, TypeOK, StoreTypeOK
      <4>2. /\ admin'[a] \in Row /\ ~admin'[a].temp
            /\ admin'[a].role = admin[a].role /\ admin'[a].status = admin[a].status
            /\ admin'[a].deleted = admin[a].deleted
        BY <4>1, RowWithTemp
      <4> QED BY <1>row, <4>2 DEF Suits, Fits, Live
    <3> QED BY <1>1, <3>1, <3>2, <3>3, <3>4, <3>5
  <2> QED BY <2>2, <2>3
<1>2. ASSUME NEW r \in Requests, Handle(r),
             ~ \/ Update(r) \/ ChangeStatus(r) \/ Delete(r)
               \/ ResetAdminPassword(r) \/ ChangeOwnPassword(r) \/ SetLocked(r)
      PROVE  Suits
  <2>1. UNCHANGED admin
    BY <1>2 DEF Handle, Login, Manage, Fail, LoginStart, LoginRead, Verify, Miss,
         CreateSession, Gate, ReadBefore, ReadMe, Kick, ClearMustReset,
         ClearFailures, tables
  <2> QED BY <1>same, <2>1
<1>3. CASE Restart
  BY <1>same, <1>row, <1>3, RestartTyped
<1>4. CASE Around
  <2>1. ASSUME NEW b \in Admins, NEW u \in Usernames, NEW role \in Roles,
               Create(b, u, role)
        PROVE  Suits
    <3>1. admin'[a] = admin[a]
      BY <1>row, <2>1 DEF Create, TypeOK, StoreTypeOK
    <3> QED BY <1>same, <3>1
  <2>2. ASSUME NEW b \in Admins, ResetByToken(b)
        PROVE  Suits
    <3>1. CASE b # a
      BY <1>same, <2>2, <3>1 DEF ResetByToken, TypeOK, StoreTypeOK
    <3>2. CASE b = a
      <4>1. admin'[a] = [admin[a] EXCEPT !.temp = FALSE]
        BY <2>2, <3>2 DEF ResetByToken, TypeOK, StoreTypeOK
      <4>2. /\ admin'[a] \in Row /\ ~admin'[a].temp
            /\ admin'[a].role = admin[a].role /\ admin'[a].status = admin[a].status
            /\ admin'[a].deleted = admin[a].deleted
        BY <4>1, RowWithTemp
      <4> QED BY <1>row, <4>2 DEF Suits, Fits, Live
    <3> QED BY <3>1, <3>2
  <2>3. CASE (\E s \in Sids : EndSession(s)) \/ (\E u \in Usernames : Forget(u))
    BY <1>same, <2>3 DEF EndSession, Forget
  <2> QED BY <1>4, <2>1, <2>2, <2>3 DEF Around, Suits
<1>5. CASE UNCHANGED vars
  BY <1>same, <1>5 DEF vars
<1> QED BY <1>1, <1>2, <1>3, <1>4, <1>5, NextSplit DEF Suits

(* The history of a session ends with the session.                           *)
LEMMA OvertakenStays ==
  ASSUME NEW s \in Sids, TypeOK, [Next]_vars, s \in overtaken, session[s] # NoRow,
         session'[s] # NoRow
  PROVE  s \in overtaken'
<1>1. CASE Around \/ Restart \/ UNCHANGED vars
  BY <1>1 DEF Around, Create, ResetByToken, EndSession, Forget, Restart, vars,
              TypeOK, StoreTypeOK
<1>2. ASSUME NEW r \in Requests, CreateSession(r)
      PROVE  s \in overtaken'
  BY <1>2 DEF CreateSession, FreshSids
<1>3. ASSUME NEW r \in Requests, Kick(r)
      PROVE  s \in overtaken'
  BY <1>3 DEF Kick
<1>4. ASSUME NEW r \in Requests, Handle(r), ~CreateSession(r), ~Kick(r)
      PROVE  s \in overtaken'
  BY <1>4 DEF Handle, Login, Manage, Fail, LoginStart, LoginRead, Verify, Miss,
         SetLocked, Gate, ReadBefore, ReadMe, Update, ChangeStatus, Delete,
         ResetAdminPassword, ChangeOwnPassword, ClearMustReset, ClearFailures,
         tables
<1> QED BY <1>1, <1>2, <1>3, <1>4, NextSplit

(* A session made from a row that has not changed is what the row says.      *)
LEMMA CreatedFits ==
  ASSUME NEW r \in Requests, TypeOK, RequestsHoldRows, CreateSession(r),
         NEW s \in FreshSids, session'[s] # NoRow
  PROVE  \/ s \in overtaken'
         \/ /\ admin[session'[s].admin] = arg[r].seen
            /\ Fits(session'[s], admin'[session'[s].admin])
<1> DEFINE a == arg[r].target
<1>1. /\ arg[r].seen \in Row /\ ~arg[r].seen.deleted
      /\ arg[r].seen.status # "revoked"
  BY DEF CreateSession, InFlight, RequestsHoldRows, HoldsRow
<1>2. PICK z \in FreshSids :
        /\ session' = [session EXCEPT ![z] = [admin |-> a,
                         role |-> arg[r].seen.role, temp |-> arg[r].seen.temp]]
        /\ overtaken' = IF admin[a] = arg[r].seen THEN overtaken \ {z}
                                                  ELSE overtaken \cup {z}
  BY DEF CreateSession
<1>3. z = s
  BY <1>2 DEF FreshSids, TypeOK, StoreTypeOK
<1>4. /\ session'[s].admin = a /\ session'[s].role = arg[r].seen.role
      /\ session'[s].temp = arg[r].seen.temp
  BY <1>2, <1>3 DEF FreshSids, TypeOK, StoreTypeOK
<1>5. UNCHANGED admin
  BY DEF CreateSession
<1>6. CASE admin[a] = arg[r].seen
  <2>1. admin'[a] # NoRow
    BY <1>1, <1>5, <1>6
  <2> QED BY <1>1, <1>4, <1>5, <1>6, <2>1 DEF Fits, Live
<1>7. CASE admin[a] # arg[r].seen
  BY <1>2, <1>3, <1>7
<1> QED BY <1>6, <1>7

(* Between the two writes of a change of password, its admin is due to be    *)
(* signed out or has no temporary password.                                  *)
LEMMA ClearIsDueStep ==
  ASSUME TypeOK, RequestsHoldRows, OwnCookie, ClearIsDue, [Next]_vars
  PROVE  ClearIsDue'
<1> SUFFICES ASSUME NEW q \in Requests, pc'[q] = "clear",
                    arg'[q].op = "changepw", session'[arg'[q].sid] # NoRow,
                    NEW a, a = arg'[q].target
             PROVE  Due(a)' \/ ~admin'[a].temp
  BY DEF ClearIsDue, InFlight, Due, KickPending
<1>1. CASE pc'[q] = pc[q] /\ arg'[q] = arg[q]
  <2>1. q \in InFlight /\ pc[q] \in ManageStages
    BY <1>1 DEF InFlight, ManageStages
  <2>2. arg[q].sid \in Sids /\ a \in Admins /\ admin[a] \in Row
    BY <1>1, <2>1, TargetHasRow DEF RequestsHoldRows, HoldsRow
  <2>3. session[arg[q].sid] # NoRow
    <3>1. arg[q].sid \notin FreshSids
      BY <2>1 DEF FreshSids
    <3> QED BY <1>1, <2>2, <3>1, SessionStep
  <2>4. session[arg[q].sid].admin = a
    BY <1>1, <2>1, <2>2, <2>3 DEF OwnCookie
  <2>5. Due(a) \/ ~admin[a].temp
    BY <1>1, <2>1, <2>3 DEF ClearIsDue, Due
  <2>6. CASE Due(a)
    BY <1>1, <2>2, <2>4, <2>6, DueStays, KickEmpties
  <2>7. CASE ~admin[a].temp
    BY <2>2, <2>7, RowStep
  <2> QED BY <2>5, <2>6, <2>7
<1>2. CASE Handle(q)
  <2>1. CASE ChangeOwnPassword(q)
    <3>1. /\ arg'[q] = arg[q] /\ a \in Admins /\ admin[a] \in Row
      BY <2>1, TargetHasRow, MovesGive DEF ChangeOwnPassword, ManageStages
    <3>2. admin'[a] = [admin[a] EXCEPT !.temp = FALSE]
      BY <2>1, <3>1 DEF ChangeOwnPassword, TypeOK, StoreTypeOK
    <3> QED BY <3>1, <3>2, RowWithTemp
  <2>2. CASE ChangeStatus(q)
    <3>1. arg'[q] = arg[q] /\ arg[q].op # "changepw"
      BY <2>2, MovesGive DEF ChangeStatus
    <3> QED BY <3>1
  <2>3. CASE Login(q)
    <3>1. pc'[q] \in LoginStages \cup {"idle"}
      BY <2>3, MovesGive, EnterGives
         DEF Login, LoginStart, LoginRead, Verify, Miss, SetLocked, CreateSession,
             LoginStages
    <3> QED BY <3>1 DEF LoginStages
  <2>4. CASE Gate(q) \/ ReadBefore(q) \/ ReadMe(q)
    <3>1. \E x, stage : /\ Enter(q, x, stage)
                        /\ stage \in {"idle", "before", "me", "write"}
      BY <2>4 DEF Gate, FirstStage, ReadBefore, ReadMe, GoTo, Return
    <3> QED BY <3>1, EnterGives
  <2>5. CASE \/ Update(q) \/ Delete(q) \/ ResetAdminPassword(q) \/ Kick(q)
             \/ ClearMustReset(q) \/ ClearFailures(q) \/ Fail(q)
    <3>1. pc'[q] # "clear"
      BY <2>5, MovesGive
         DEF Update, Delete, ResetAdminPassword, Kick, ClearMustReset,
             ClearFailures, Fail
    <3> QED BY <3>1
  <2> QED BY <1>2, <2>1, <2>2, <2>3, <2>4, <2>5 DEF Handle, Manage
<1>3. ASSUME NEW r \in Requests, Handle(r), r # q
      PROVE  pc'[q] = pc[q] /\ arg'[q] = arg[q]
  BY <1>3, OthersStay
<1>4. CASE Around \/ UNCHANGED vars
  BY <1>1, <1>4 DEF Around, Create, ResetByToken, EndSession, Forget, vars
<1>5. CASE Restart
  BY <1>5 DEF Restart
<1> QED BY <1>1, <1>2, <1>3, <1>4, <1>5, NextSplit

LEMMA FollowStep ==
  ASSUME TypeOK, RequestsHoldRows, OwnCookie, ClearIsDue, SessionsFollowRows,
         [Next]_vars
  PROVE  SessionsFollowRows'
<1> SUFFICES ASSUME NEW s \in Sids, s \notin overtaken', session'[s] # NoRow,
                    NEW a, a = session'[s].admin
             PROVE  Due(a)' \/ Fits(session'[s], admin'[a])
  BY DEF SessionsFollowRows, Due, KickPending
<1>1. CASE session[s] # NoRow
  <2>1. s \notin overtaken
    BY <1>1, OvertakenStays
  <2>2. session[s] \in Session /\ session[s].admin \in Admins
        /\ admin[session[s].admin] \in Row
    BY <1>1 DEF TypeOK, StoreTypeOK, Session
  <2>3. session[s].admin = a /\ a \in Admins /\ admin[a] \in Row
    <3>1. s \notin FreshSids
      BY <1>1 DEF FreshSids
    <3>2. session'[s] = [session[s] EXCEPT !.temp = FALSE]
            => session'[s].admin = session[s].admin
      BY <2>2 DEF Session
    <3> QED BY <2>2, <3>1, <3>2, SessionStep
  <2>4. Due(a) \/ Fits(session[s], admin[a])
    BY <1>1, <2>1, <2>3 DEF SessionsFollowRows, Due
  <2>5. CASE Due(a)
    BY <2>3, <2>5, DueStays, KickEmpties
  <2>6. CASE session'[s] = session[s] /\ Fits(session[s], admin[a])
    BY <2>3, <2>6, RowStep
  <2>7. ASSUME NEW r \in Requests, ClearMustReset(r), arg[r].sid = s,
               session'[s] = [session[s] EXCEPT !.temp = FALSE],
               Fits(session[s], admin[a])
        PROVE  Due(a)' \/ Fits(session'[s], admin'[a])
    <3>1. arg[r].target = a /\ (Due(a) \/ ~admin[a].temp)
      BY <1>1, <2>7 DEF ClearMustReset, InFlight, OwnCookie, ClearIsDue, Due
    <3>2. CASE Due(a)
      BY <2>3, <3>2, DueStays, KickEmpties
    <3>3. CASE ~admin[a].temp
      <4>1. UNCHANGED admin
        BY <2>7 DEF ClearMustReset
      <4>2. session'[s].role = session[s].role
        BY <2>2, <2>7 DEF Session
      <4> QED BY <2>7, <3>3, <4>1, <4>2 DEF Fits
    <3> QED BY <3>1, <3>2, <3>3
  <2>8. s \notin FreshSids
    BY <1>1 DEF FreshSids
  <2> QED BY <2>3, <2>4, <2>5, <2>6, <2>7, <2>8, SessionStep
<1>2. CASE session[s] = NoRow
  <2>1. PICK r \in Requests : CreateSession(r) /\ s \in FreshSids
    BY <1>2, SessionStep
  <2> QED BY <2>1, CreatedFits
<1> QED BY <1>1, <1>2

-----------------------------------------------------------------------------
(* The theorems.                                                             *)

LEMMA SessionInvInit == Init => SessionInv
<1> SUFFICES ASSUME Init PROVE SessionInv
  OBVIOUS
<1>1. ReqTypeOK /\ InFlight = {}
  BY DEF Init, ReqTypeOK, Stages, InFlight
<1>2. StoreTypeOK
  <2>1. SeedRow \in Row
    BY DEF SeedRow, Row, Roles
  <2>2. 0 \in 0 .. MaxLoginAttempts
    OBVIOUS
  <2> QED BY <2>1, <2>2 DEF Init, StoreTypeOK
<1>3. SessionsFollowRows
  BY DEF Init, SessionsFollowRows
<1> QED
  BY <1>1, <1>2, <1>3
     DEF SessionInv, TypeOK, RequestsHoldRows, OwnCookie, ClearIsDue

LEMMA SessionInvStep == SessionInv /\ [Next]_vars => SessionInv'
BY TypeStep, RequestsHoldRowsStep, OwnCookieStep, ClearIsDueStep, FollowStep
   DEF SessionInv

(* The inductive invariant.                                                  *)
THEOREM SessionInvariance == Spec => []SessionInv
BY SessionInvInit, SessionInvStep, PTL DEF Spec

(* Every session belongs to a row of the admins table, and what a request    *)
(* carries is typed.                                                         *)
THEOREM TypeCorrect == Spec => []TypeOK
<1>1. SessionInv => TypeOK
  BY DEF SessionInv
<1> QED BY <1>1, SessionInvariance, PTL

(* A session of a dismissed, re-roled or reset admin is about to be deleted, *)
(* or one of the named statements was lost, or the login was overtaken.      *)
THEOREM SessionSafety == Spec => []SessionsFollowRows
<1>1. SessionInv => SessionsFollowRows
  BY DEF SessionInv
<1> QED BY <1>1, SessionInvariance, PTL

(* The counters die with the process, the locked status does not: a login    *)
(* that read a locked row ends there, whatever the counters say.             *)
THEOREM LockSafety == Spec => LockOutlivesRestart
<1>1. ASSUME SessionInv, [Next]_vars, NEW s \in Sids,
             session[s] = NoRow, session'[s] # NoRow
      PROVE  admin[session'[s].admin].status # "locked" \/ s \in overtaken'
  <2>1. TypeOK /\ RequestsHoldRows
    BY <1>1 DEF SessionInv
  <2>2. PICK r \in Requests : CreateSession(r) /\ s \in FreshSids
    BY <1>1, <2>1, SessionStep
  <2>3. arg[r].seen.status # "locked"
    BY <2>1, <2>2 DEF CreateSession, InFlight, RequestsHoldRows, HoldsRow
  <2> QED BY <1>1, <2>1, <2>2, <2>3, CreatedFits
<1>2. SessionInv /\ [Next]_vars =>
        [\A s \in Sids : session[s] = NoRow /\ session'[s] # NoRow
          => admin[session'[s].admin].status # "locked" \/ s \in overtaken']_vars
  BY <1>1
<1> QED BY <1>2, SessionInvariance, PTL DEF Spec, LockOutlivesRestart

(* Of the rows there are, SetStatus alone writes the status, and Update the  *)
(* role.                                                                     *)
LEMMA ColumnStep ==
  ASSUME TypeOK, RequestsHoldRows, [Next]_vars, NEW a \in Admins, admin[a] # NoRow
  PROVE  /\ admin'[a].status # admin[a].status =>
              \E r \in InFlight : /\ arg[r].target = a
                                  /\ ChangeStatus(r) \/ SetLocked(r)
         /\ admin'[a].role # admin[a].role =>
              \E r \in InFlight : /\ arg[r].target = a /\ Update(r)
                                  /\ admin'[a].role = arg[r].role
<1> DEFINE Same == admin'[a].status = admin[a].status /\ admin'[a].role = admin[a].role
<1>row. admin[a] \in Row
  BY DEF TypeOK, StoreTypeOK
<1>same. ASSUME admin'[a] = admin[a] PROVE Same
  BY <1>same
<1>temp. ASSUME NEW temp \in BOOLEAN, admin'[a] = [admin[a] EXCEPT !.temp = temp]
         PROVE  Same
  BY <1>row, <1>temp, RowWithTemp
<1> HIDE DEF Same
<1>1. ASSUME NEW r \in Requests,
             \/ Update(r) \/ ChangeStatus(r) \/ Delete(r)
             \/ ResetAdminPassword(r) \/ ChangeOwnPassword(r) \/ SetLocked(r)
      PROVE  \/ Same
             \/ /\ r \in InFlight /\ arg[r].target = a
                /\ \/ /\ ChangeStatus(r) \/ SetLocked(r)
                      /\ admin'[a].role = admin[a].role
                   \/ /\ Update(r) /\ admin'[a].role = arg[r].role
                      /\ admin'[a].status = admin[a].status
  <2>1. /\ r \in InFlight /\ arg[r].target \in Admins /\ arg[r] \in Arg
        /\ admin[arg[r].target] \in Row
    <3>1. pc[r] \in {"write", "setlocked"}
      BY <1>1 DEF Update, ChangeStatus, Delete, ResetAdminPassword,
           ChangeOwnPassword, SetLocked
    <3> QED BY <3>1, TargetHasRow DEF InFlight, ManageStages
  <2>2. CASE arg[r].target # a
    <3>1. PICK new \in Row : admin' = [admin EXCEPT ![arg[r].target] = new]
      BY <1>1, WriteStep
    <3> QED BY <1>same, <2>1, <2>2, <3>1, RowWritten DEF TypeOK
  <2>3. CASE arg[r].target = a /\ Update(r)
    <3>1. admin'[a] = [admin[a] EXCEPT !.role = arg[r].role]
      BY <2>3 DEF Update, TypeOK, StoreTypeOK
    <3> QED BY <1>row, <2>1, <2>3, <3>1, RowWithRole, ArgFields
  <2>4. CASE arg[r].target = a /\ (ChangeStatus(r) \/ SetLocked(r))
    <3>1. PICK status \in {"active", "revoked", "locked"} : SetStatus(a, status)
      BY <2>4 DEF ChangeStatus, SetLocked
    <3>2. PICK new \in Row : /\ admin' = [admin EXCEPT ![a] = new]
                             /\ new.role = admin[a].role
      BY <1>row, <3>1, StatusWritten DEF TypeOK
    <3> QED BY <2>1, <2>4, <3>2 DEF TypeOK, StoreTypeOK
  <2>5. CASE arg[r].target = a /\ Delete(r)
    <3>1. admin'[a] = admin[a] \/ admin'[a] = [admin[a] EXCEPT !.deleted = TRUE]
      BY <2>5 DEF Delete, TypeOK, StoreTypeOK
    <3> QED BY <1>row, <3>1, RowDeleted DEF Same
  <2>6. CASE arg[r].target = a /\ (ResetAdminPassword(r) \/ ChangeOwnPassword(r))
    BY <1>temp, <2>6 DEF ResetAdminPassword, ChangeOwnPassword, TypeOK, StoreTypeOK
  <2> QED BY <1>1, <2>2, <2>3, <2>4, <2>5, <2>6
<1>2. ASSUME NEW r \in Requests, Handle(r),
             ~ \/ Update(r) \/ ChangeStatus(r) \/ Delete(r)
               \/ ResetAdminPassword(r) \/ ChangeOwnPassword(r) \/ SetLocked(r)
      PROVE  Same
  <2>1. UNCHANGED admin
    BY <1>2 DEF Handle, Login, Manage, Fail, LoginStart, LoginRead, Verify, Miss,
         CreateSession, Gate, ReadBefore, ReadMe, Kick, ClearMustReset,
         ClearFailures, tables
  <2> QED BY <1>same, <2>1
<1>3. CASE Restart \/ UNCHANGED vars
  BY <1>same, <1>3, RestartTyped DEF vars
<1>4. CASE Around
  <2>1. ASSUME NEW b \in Admins, NEW u \in Usernames, NEW role \in Roles,
               Create(b, u, role)
        PROVE  Same
    BY <1>same, <2>1 DEF Create, TypeOK, StoreTypeOK
  <2>2. ASSUME NEW b \in Admins, ResetByToken(b)
        PROVE  Same
    BY <1>same, <1>temp, <2>2 DEF ResetByToken, TypeOK, StoreTypeOK
  <2>3. CASE (\E s \in Sids : EndSession(s)) \/ (\E u \in Usernames : Forget(u))
    BY <1>same, <2>3 DEF EndSession, Forget
  <2> QED BY <1>4, <2>1, <2>2, <2>3 DEF Around, Same
<1> QED BY <1>1, <1>2, <1>3, <1>4, NextSplit DEF Same

(* However many passwords are tried, a revocation ends by an admin's word or *)
(* by a login that had read the row as active (recordFailedLoginAttempt).    *)
THEOREM RevocationSafety == Spec => RevocationOutlivesLogins
<1>1. ASSUME SessionInv, [Next]_vars, NEW a \in Admins, admin[a] # NoRow,
             admin[a].status = "revoked", admin'[a].status # "revoked"
      PROVE  \E r \in InFlight : arg[r].target = a /\
               \/ ChangeStatus(r) /\ arg[r].op \in {"restore", "unlock"}
               \/ SetLocked(r) /\ arg[r].seen.status = "active"
  <2>1. TypeOK /\ RequestsHoldRows
    BY <1>1 DEF SessionInv
  <2>2. PICK r \in InFlight : arg[r].target = a /\ (ChangeStatus(r) \/ SetLocked(r))
    BY <1>1, <2>1, ColumnStep
  <2>3. CASE SetLocked(r)
    BY <2>1, <2>2, <2>3 DEF SetLocked, RequestsHoldRows, HoldsRow
  <2>4. CASE ChangeStatus(r)
    <3>1. arg[r].op # "revoke"
      <4> SUFFICES ASSUME arg[r].op = "revoke" PROVE FALSE
        OBVIOUS
      <4>1. SetStatus(a, "revoked") /\ admin[a] \in Row
        BY <1>1, <2>1, <2>2, <2>4 DEF ChangeStatus, TypeOK, StoreTypeOK
      <4>2. PICK new \in Row : /\ admin' = [admin EXCEPT ![a] = new]
                               /\ new.status = "revoked"
        BY <1>1, <2>1, <4>1, StatusWritten DEF TypeOK
      <4> QED BY <1>1, <2>1, <4>2 DEF TypeOK, StoreTypeOK
    <3> QED BY <2>2, <2>4, <3>1 DEF ChangeStatus
  <2> QED BY <2>2, <2>3, <2>4
<1>2. SessionInv /\ [Next]_vars =>
        [\A a \in Admins :
           admin[a] # NoRow /\ admin[a].status = "revoked" /\ admin'[a].status # "revoked"
           => \E r \in InFlight : arg[r].target = a /\
                \/ ChangeStatus(r) /\ arg[r].op \in {"restore", "unlock"}
                \/ SetLocked(r) /\ arg[r].seen.status = "active"]_vars
  BY <1>1
<1> QED BY <1>2, SessionInvariance, PTL DEF Spec, RevocationOutlivesLogins

(* An unlock that finds its admin revoked, which ToggleAdminStatus allows.   *)
UnlocksRevoked == \E r \in InFlight : /\ ChangeStatus(r) /\ arg[r].op = "unlock"
                                      /\ admin[arg[r].target].status = "revoked"

(* Revoke and restore are the super admins', as the comment says, but for    *)
(* the unlock that looks at no status: nothing else ends a revocation.       *)
THEOREM RestoreSafety ==
  Spec /\ [][~UnlocksRevoked]_vars => OnlyRestoreEndsRevocation
<1>1. ASSUME SessionInv, [Next]_vars, ~UnlocksRevoked, NEW a \in Admins,
             admin[a] # NoRow, admin[a].status = "revoked", admin'[a].status = "active"
      PROVE  \E r \in Requests : ChangeStatus(r) /\ arg[r].op = "restore"
  <2>1. TypeOK /\ RequestsHoldRows /\ admin[a] \in Row
    BY <1>1 DEF SessionInv, TypeOK, StoreTypeOK
  <2>2. PICK r \in InFlight : arg[r].target = a /\ (ChangeStatus(r) \/ SetLocked(r))
    BY <1>1, <2>1, ColumnStep
  <2>3. PICK status \in {"active", "revoked", "locked"} :
          /\ SetStatus(a, status)
          /\ status = "active" => ChangeStatus(r) /\ arg[r].op \in {"restore", "unlock"}
    BY <2>2 DEF ChangeStatus, SetLocked
  <2>4. status = "active"
    <3>1. PICK new \in Row :
            /\ admin' = [admin EXCEPT ![a] = new]
            /\ new.status = IF Live(admin[a]) THEN status ELSE admin[a].status
      BY <2>1, <2>3, StatusWritten DEF TypeOK
    <3> QED BY <1>1, <2>1, <3>1 DEF TypeOK, StoreTypeOK
  <2> QED BY <1>1, <2>2, <2>3, <2>4 DEF UnlocksRevoked, InFlight
<1>2. SessionInv /\ [Next]_vars /\ [~UnlocksRevoked]_vars =>
        [\A a \in Admins :
           admin[a] # NoRow /\ admin[a].status = "revoked" /\ admin'[a].status = "active"
           => \E r \in Requests : ChangeStatus(r) /\ arg[r].op = "restore"]_vars
  BY <1>1
<1> QED BY <1>2, SessionInvariance, PTL DEF Spec, OnlyRestoreEndsRevocation

-----------------------------------------------------------------------------
(* Demotions from the Users page.                                            *)

(* A promotion to super admin between a demotion's read of the role and its  *)
(* deletion by id, which UpdateUser does not repeat the check in.            *)
PromotesDemoted ==
  \E r, q \in InFlight :
    /\ Update(r) /\ arg[r].role = "super_admin"
    /\ pc[q] \in {"me", "write"} /\ arg[q].op = "demote"
    /\ arg[q].target = arg[r].target

(* Who is about to be demoted is a general admin.                            *)
DemotesGeneral ==
  \A q \in InFlight : pc[q] \in {"me", "write"} /\ arg[q].op = "demote"
                        => admin[arg[q].target].role = "general_admin"

LEMMA DemotesGeneralStep ==
  ASSUME SessionInv, DemotesGeneral, ~PromotesDemoted, [Next]_vars
  PROVE  DemotesGeneral'
<1> USE DEF SessionInv
<1> SUFFICES ASSUME NEW q \in Requests, pc'[q] \in {"me", "write"},
                    arg'[q].op = "demote"
             PROVE  admin'[arg'[q].target].role = "general_admin"
  BY DEF DemotesGeneral, InFlight
<1> DEFINE a == arg[q].target
<1>1. CASE pc'[q] = pc[q] /\ arg'[q] = arg[q]
  <2>1. q \in InFlight /\ a \in Admins /\ admin[a] \in Row
    BY <1>1, TargetHasRow DEF InFlight, ManageStages
  <2>2. admin[a].role = "general_admin"
    BY <1>1, <2>1 DEF DemotesGeneral
  <2>3. ASSUME NEW r \in InFlight, arg[r].target = a, Update(r),
               admin'[a].role = arg[r].role
        PROVE  admin'[a].role = "general_admin"
    <3>1. arg[r].role \in Roles
      BY ArgFields DEF TypeOK, ReqTypeOK
    <3>2. arg[r].role # "super_admin"
      BY <1>1, <2>1, <2>3 DEF PromotesDemoted
    <3> QED BY <2>3, <3>1, <3>2 DEF Roles
  <2>4. admin[a] # NoRow
    BY <2>1
  <2> QED BY <1>1, <2>1, <2>2, <2>3, <2>4, ColumnStep
<1>2. CASE ReadBefore(q)
  <2>1. arg[q] \in Arg /\ pc[q] = "before" /\ UNCHANGED admin
    BY <1>2 DEF ReadBefore, tables, TypeOK, ReqTypeOK, InFlight
  <2>2. \/ arg'[q].op # "demote"
        \/ GoTo(q, "me") /\ admin[a].role = "general_admin"
        \/ Return(q)
    <3>1. [arg[q] EXCEPT !.seen = IF Live(admin[a]) THEN admin[a] ELSE NoRow].op = arg[q].op
      BY <2>1 DEF Arg
    <3> QED BY <1>2, <3>1, MovesGive, EnterGives DEF ReadBefore
  <2> QED BY <2>1, <2>2, MovesGive
<1>3. CASE ReadMe(q)
  <2>1. arg[q] \in Arg /\ pc[q] = "me" /\ UNCHANGED admin /\ q \in InFlight
    BY <1>3 DEF ReadMe, tables, TypeOK, ReqTypeOK, InFlight
  <2>2. PICK sess \in SessionNow(q) :
          \/ Return(q)
          \/ Enter(q, [arg[q] EXCEPT !.role = RoleToWrite(q, sess)], "write")
    BY <1>3 DEF ReadMe
  <2> DEFINE y == [arg[q] EXCEPT !.role = RoleToWrite(q, sess)]
  <2>3. y.op = arg[q].op /\ y.target = a
    BY <2>1 DEF Arg
  <2> HIDE DEF y
  <2>4. arg'[q].op = arg[q].op /\ arg'[q].target = a
    BY <2>2, <2>3, MovesGive, EnterGives DEF y
  <2> QED BY <2>1, <2>4 DEF DemotesGeneral
<1>4. CASE Gate(q)
  <2>1. PICK op \in Ops \cap (SuperOps \cup AnyOps), s \in Sids, b \in Admins,
             role \in Roles :
          Enter(q, [Blank(op, SeedName) EXCEPT !.sid = s, !.target = b,
                      !.role = role, !.by = session[s].admin], FirstStage(op))
    BY <1>4 DEF Gate
  <2> DEFINE y == [Blank(op, SeedName) EXCEPT !.sid = s, !.target = b,
                      !.role = role, !.by = session[s].admin]
  <2>2. y.op = op
    BY DEF Blank
  <2> HIDE DEF y
  <2>3. op = "demote" /\ pc'[q] = FirstStage(op)
    BY <2>1, <2>2, EnterGives DEF y
  <2> QED BY <2>3 DEF FirstStage
<1>5. \/ pc'[q] = pc[q] /\ arg'[q] = arg[q]
      \/ ReadBefore(q) \/ ReadMe(q) \/ Gate(q)
  <2>1. ASSUME Handle(q), ~ReadBefore(q), ~ReadMe(q), ~Gate(q)
        PROVE  FALSE
    <3> DEFINE Elsewhere == \E y, stage : Enter(q, y, stage) /\ stage \notin {"me", "write"}
    <3>1. ASSUME NEW y, NEW stage, Enter(q, y, stage), stage \notin {"me", "write"}
          PROVE  Elsewhere
      BY <3>1
    <3>2. ASSUME NEW stage, GoTo(q, stage), stage \notin {"me", "write"}
          PROVE  Elsewhere
      BY <3>2 DEF GoTo
    <3>3. ASSUME Return(q) PROVE Elsewhere
      BY <3>3 DEF Return
    <3> HIDE DEF Elsewhere
    <3>4. ASSUME Login(q) PROVE Elsewhere
      <4>1. CASE LoginStart(q)
        BY <3>1, <4>1 DEF LoginStart
      <4>2. CASE LoginRead(q)
        <5>1. CASE GoTo(q, "miss")
          BY <3>2, <5>1
        <5>2. ASSUME NEW y, Enter(q, y, "verify") PROVE Elsewhere
          BY <3>1, <5>2
        <5> QED BY <3>3, <4>2, <5>1, <5>2 DEF LoginRead
      <4>3. CASE Verify(q)
        BY <3>2, <3>3, <4>3 DEF Verify
      <4>4. CASE Miss(q)
        BY <3>2, <3>3, <4>4 DEF Miss
      <4>5. CASE SetLocked(q)
        BY <3>2, <3>3, <4>5 DEF SetLocked
      <4>6. CASE CreateSession(q)
        BY <3>2, <3>3, <4>6 DEF CreateSession
      <4> QED BY <3>4, <4>1, <4>2, <4>3, <4>4, <4>5, <4>6 DEF Login
    <3>5. ASSUME Manage(q) \/ Fail(q) PROVE Elsewhere
      BY <2>1, <3>2, <3>3, <3>5 DEF Manage, Fail, Update, ChangeStatus, Delete,
           ResetAdminPassword, ChangeOwnPassword, Kick, ClearMustReset, ClearFailures
    <3>6. Elsewhere
      BY <2>1, <3>4, <3>5 DEF Handle
    <3> QED BY <3>6, EnterGives DEF Elsewhere
  <2>2. ASSUME NEW r \in Requests, Handle(r), r # q
        PROVE  pc'[q] = pc[q] /\ arg'[q] = arg[q]
    BY <2>2, OthersStay
  <2>3. CASE Around \/ UNCHANGED vars
    BY <2>3 DEF Around, Create, ResetByToken, EndSession, Forget, vars
  <2>4. CASE Restart
    BY <2>4 DEF Restart
  <2> QED BY <2>1, <2>2, <2>3, <2>4, NextSplit
<1> QED BY <1>1, <1>2, <1>3, <1>4, <1>5

(* The Users page takes no super admin's access, as its comment says, unless *)
(* the promotion came between a demotion's read and its write.               *)
THEOREM DemotionSafety ==
  Spec /\ [][~PromotesDemoted]_vars => DemotionSparesSuperAdmins
<1>1. Init => DemotesGeneral
  BY DEF Init, DemotesGeneral, InFlight
<1>2. SessionInv /\ DemotesGeneral /\ [Next]_vars /\ [~PromotesDemoted]_vars
        => DemotesGeneral'
  <2>1. CASE UNCHANGED vars
    BY <2>1 DEF vars, DemotesGeneral, InFlight
  <2> QED BY <2>1, DemotesGeneralStep
<1>3. DemotesGeneral =>
        [\A r \in Requests : Delete(r) /\ arg[r].op = "demote"
           /\ admin[arg[r].target].role = "super_admin" => UNCHANGED admin]_vars
  BY DEF DemotesGeneral, Delete, InFlight
<1> QED BY <1>1, <1>2, <1>3, SessionInvariance, PTL DEF Spec, DemotionSparesSuperAdmins
=============================================================================

------------------------ MODULE UserRegistry_proofs ------------------------
(* Proofs about UserRegistry, for every set of users, accounts, addresses    *)
(* and requests, and every choice of handlers.                               *)
EXTENDS UserRegistry, TLAPS

USE RegistryAssumption

-----------------------------------------------------------------------------
(* Frames: what a step leaves of what requests hold.                         *)

Harmless(u) == u \in open \/ user[u].status \notin Barred

(* Rows stay, addresses of accounts do too, and nobody whose link is being   *)
(* followed is barred unseen.                                                *)
Kept ==
  /\ \A u \in Users : user[u] # None => user'[u] # None
  /\ \A c \in Accounts : account[c] # None =>
       account'[c] # None /\ account'[c].email = account[c].email
  /\ vetted \subseteq vetted'
  /\ \A u \in Users : Clicks(u) # {} /\ Harmless(u) => Harmless(u)'

LEMMA OtherFits ==
  ASSUME RequestsTypeOK, RequestsFit, Kept, NEW q \in InFlight,
         pc'[q] = pc[q], arg'[q] = arg[q]
  PROVE  Fits(arg[q], pc[q])'
<1>1. q \in Requests /\ arg[q] \in Arg
  BY DEF RequestsTypeOK, InFlight
<1>2. Fits(arg[q], pc[q])
  BY DEF RequestsFit
<1>3. /\ arg[q].user \in Users \cup {None}
      /\ arg[q].account \in Accounts \cup {None}
  BY <1>1 DEF Arg
<1>4. arg[q].user # None => user'[arg[q].user] # None
  BY <1>2, <1>3 DEF Fits, Kept
<1>5. arg[q].account # None => account'[arg[q].account] # None
  BY <1>2, <1>3 DEF Fits, Kept
<1>6. pc[q] = "write" => account'[arg[q].account].email = arg[q].email
  BY <1>2, <1>3 DEF Fits, Kept
<1>7. arg[q].op = "confirm" /\ arg[q].user \in Users
        => arg[q].user \in open' \/ user'[arg[q].user].status \notin Barred
  <2>1. SUFFICES ASSUME arg[q].op = "confirm", arg[q].user \in Users
                 PROVE  Harmless(arg[q].user)'
    BY DEF Harmless
  <2>2. q \in Clicks(arg[q].user)
    BY <2>1 DEF Clicks
  <2>3. Harmless(arg[q].user)
    BY <1>2, <2>1 DEF Fits, Harmless
  <2>4. PICK u \in Users : u = arg[q].user
    BY <2>1
  <2>5. Harmless(u)'
    BY <2>2, <2>3, <2>4 DEF Kept
  <2> QED BY <2>4, <2>5 DEF Harmless
<1>8. arg[q].op = "confirm" => arg[q].user \in Users
  BY <1>2, <1>3 DEF Fits
<1> QED BY <1>2, <1>4, <1>5, <1>6, <1>7, <1>8 DEF Fits, Kept

LEMMA OthersFit ==
  ASSUME RequestsTypeOK, RequestsFit, Kept, UNCHANGED <<pc, arg>>
  PROVE  RequestsTypeOK' /\ RequestsFit'
<1>1. InFlight' = InFlight
  BY DEF InFlight
<1>2. ASSUME NEW q \in InFlight
      PROVE  Fits(arg[q], pc[q])'
  BY <1>2, OtherFits
<1>3. RequestsFit'
  BY <1>1, <1>2 DEF RequestsFit
<1>4. ASSUME NEW q \in InFlight
      PROVE  /\ arg'[q] \in Arg
             /\ arg'[q].user # None => user'[arg'[q].user] # None
             /\ arg'[q].account # None => account'[arg'[q].account] # None
  BY <1>2 DEF Fits
<1> QED BY <1>1, <1>3, <1>4 DEF RequestsTypeOK

(* A request goes to a stage with what it needs there.                       *)
LEMMA EnterFits ==
  ASSUME RequestsTypeOK, RequestsFit, Kept,
         NEW r \in Requests, NEW a, NEW stage, Enter(r, a, stage),
         Fits(a, stage)'
  PROVE  RequestsTypeOK' /\ RequestsFit'
<1>1. a \in Arg /\ stage \in Stages \ {"idle"}
  BY DEF Fits
<1>2. pc' = [pc EXCEPT ![r] = stage] /\ arg' = [arg EXCEPT ![r] = a]
  BY DEF Enter
<1>3. pc'[r] = stage /\ arg'[r] = a
  BY <1>2 DEF RequestsTypeOK
<1>4. InFlight' = InFlight \cup {r}
  BY <1>1, <1>2 DEF RequestsTypeOK, InFlight
<1>5. ASSUME NEW q \in InFlight \ {r}
      PROVE  Fits(arg[q], pc[q])'
  <2>1. pc'[q] = pc[q] /\ arg'[q] = arg[q]
    BY <1>2 DEF RequestsTypeOK, InFlight
  <2> QED BY <2>1, OtherFits
<1>6. ASSUME NEW q \in InFlight'
      PROVE  Fits(arg[q], pc[q])'
  BY <1>3, <1>4, <1>5, <1>6
<1>7. RequestsFit'
  BY <1>6 DEF RequestsFit
<1>8. ASSUME NEW q \in InFlight'
      PROVE  /\ arg'[q] \in Arg
             /\ arg'[q].user # None => user'[arg'[q].user] # None
             /\ arg'[q].account # None => account'[arg'[q].account] # None
  BY <1>6, <1>8 DEF Fits
<1>9. pc' \in [Requests -> Stages] /\ arg' \in [Requests -> Arg \cup {None}]
  BY <1>1, <1>2 DEF RequestsTypeOK
<1> QED BY <1>7, <1>8, <1>9 DEF RequestsTypeOK

LEMMA ReturnFits ==
  ASSUME RequestsTypeOK, RequestsFit, Kept, NEW r \in Requests, Return(r)
  PROVE  RequestsTypeOK' /\ RequestsFit'
<1>1. pc' = [pc EXCEPT ![r] = "idle"] /\ arg' = [arg EXCEPT ![r] = None]
  BY DEF Return, Enter
<1>2. InFlight' = InFlight \ {r}
  BY <1>1 DEF RequestsTypeOK, InFlight
<1>3. ASSUME NEW q \in InFlight'
      PROVE  Fits(arg[q], pc[q])'
  <2>1. q \in InFlight /\ pc'[q] = pc[q] /\ arg'[q] = arg[q]
    BY <1>1, <1>2, <1>3 DEF RequestsTypeOK, InFlight
  <2> QED BY <2>1, OtherFits
<1>4. RequestsFit'
  BY <1>3 DEF RequestsFit
<1>5. ASSUME NEW q \in InFlight'
      PROVE  /\ arg'[q] \in Arg
             /\ arg'[q].user # None => user'[arg'[q].user] # None
             /\ arg'[q].account # None => account'[arg'[q].account] # None
  BY <1>3, <1>5 DEF Fits
<1>6. pc' \in [Requests -> Stages] /\ arg' \in [Requests -> Arg \cup {None}]
  BY <1>1 DEF RequestsTypeOK, Stages
<1> QED BY <1>4, <1>5, <1>6 DEF RequestsTypeOK

-----------------------------------------------------------------------------
(* Writes to the tables, and what the columns they leave keep.               *)

LEMMA UserWritten ==
  ASSUME TablesTypeOK, RowsFit, NEW u \in Users, NEW row \in UserRow,
         user' = [user EXCEPT ![u] = row], account' = account,
         overlooked' \subseteq Users, open' \subseteq Users, vetted' \subseteq Users,
         open \ {u} \subseteq open', vetted \subseteq vetted',
         row.token # "none" \/ row.status = "active" => u \in vetted',
         row.status \in Barred => u \in open' \/ row.token = "none",
         Clicks(u) # {} /\ Harmless(u) => u \in open' \/ row.status \notin Barred
  PROVE  TablesTypeOK' /\ Kept /\ RowsFit'
<1>1. /\ user \in [Users -> UserRow \cup {None}]
      /\ user'[u] = row /\ row # None
      /\ \A v \in Users \ {u} : user'[v] = user[v]
  BY DEF TablesTypeOK
<1>2. TablesTypeOK'
  BY DEF TablesTypeOK
<1>3. ASSUME NEW v \in Users, Clicks(v) # {}, Harmless(v)
      PROVE  Harmless(v)'
  BY <1>1, <1>3 DEF Harmless
<1>4. Kept
  BY <1>1, <1>3 DEF Kept
<1>5. RowsFit'
  BY <1>1 DEF RowsFit
<1> QED BY <1>2, <1>4, <1>5

LEMMA AccountWritten ==
  ASSUME TablesTypeOK, RowsFit, NEW c \in Accounts, NEW row \in AccountRow,
         account' = [account EXCEPT ![c] = row], UNCHANGED <<user, open, vetted>>,
         overlooked' \subseteq Users,
         account[c] # None => row.email = account[c].email
  PROVE  TablesTypeOK' /\ Kept /\ RowsFit'
<1>1. TablesTypeOK'
  BY DEF TablesTypeOK
<1>2. /\ account'[c] = row /\ row # None
      /\ \A d \in Accounts \ {c} : account'[d] = account[d]
  BY DEF TablesTypeOK
<1>3. ASSUME NEW v \in Users, Harmless(v)
      PROVE  Harmless(v)'
  BY <1>3 DEF Harmless
<1>4. Kept
  BY <1>2, <1>3 DEF Kept
<1> QED BY <1>1, <1>4 DEF RowsFit

LEMMA TablesLeft ==
  ASSUME TablesTypeOK, RowsFit, UNCHANGED <<user, account, open>>,
         overlooked' \subseteq Users, vetted' \subseteq Users, vetted \subseteq vetted'
  PROVE  TablesTypeOK' /\ Kept /\ RowsFit'
<1>1. ASSUME NEW v \in Users, Harmless(v)
      PROVE  Harmless(v)'
  BY <1>1 DEF Harmless
<1>2. Kept
  BY <1>1 DEF Kept
<1> QED BY <1>2 DEF TablesTypeOK, RowsFit

LEMMA UserWithStatus ==
  ASSUME NEW row \in UserRow,
         NEW status \in {"pending", "active", "rejected", "revoked"}
  PROVE  LET new == [row EXCEPT !.status = status] IN
         /\ new \in UserRow /\ new.status = status /\ new.token = row.token
         /\ new.email = row.email /\ new.deleted = row.deleted
BY DEF UserRow

LEMMA UserWithToken ==
  ASSUME NEW row \in UserRow, NEW token \in {"none", "valid", "expired"}
  PROVE  LET new == [row EXCEPT !.token = token] IN
         /\ new \in UserRow /\ new.token = token /\ new.status = row.status
         /\ new.email = row.email /\ new.deleted = row.deleted
BY DEF UserRow

LEMMA UserWithEmail ==
  ASSUME NEW row \in UserRow, NEW e \in Emails
  PROVE  LET new == [row EXCEPT !.email = e] IN
         /\ new \in UserRow /\ new.token = row.token /\ new.status = row.status
         /\ new.email = e /\ new.deleted = row.deleted
BY DEF UserRow

LEMMA UserDeleted ==
  ASSUME NEW row \in UserRow
  PROVE  LET new == [row EXCEPT !.deleted = TRUE] IN
         /\ new \in UserRow /\ new.token = row.token /\ new.status = row.status
         /\ new.email = row.email /\ new.deleted = TRUE
BY DEF UserRow

LEMMA AccountWithRole ==
  ASSUME NEW row \in AccountRow, NEW role \in AdminRoles
  PROVE  LET new == [row EXCEPT !.role = role] IN
         /\ new \in AccountRow /\ new.role = role /\ new.email = row.email
         /\ new.deleted = row.deleted
BY DEF AccountRow

LEMMA AccountDeleted ==
  ASSUME NEW row \in AccountRow
  PROVE  LET new == [row EXCEPT !.deleted = TRUE] IN
         /\ new \in AccountRow /\ new.role = row.role /\ new.email = row.email
         /\ new.deleted = TRUE
BY DEF AccountRow

(* The UPDATE of a status changes a live row, and no other.                  *)
LEMMA StatusSet ==
  ASSUME TablesTypeOK, NEW u \in Users,
         NEW status \in {"pending", "active", "rejected", "revoked"},
         SetStatus(u, status)
  PROVE  \/ ~Live(user[u]) /\ user' = user
         \/ /\ Live(user[u]) /\ user[u] \in UserRow
            /\ user' = [user EXCEPT ![u] = [user[u] EXCEPT !.status = status]]
BY DEF SetStatus, Live, TablesTypeOK

(* Soft deletion keeps every other column.                                   *)
LEMMA RowsDeleted ==
  ASSUME TablesTypeOK, RowsFit, RequestsFit, UNCHANGED <<account, open, vetted>>,
         overlooked' \subseteq Users, NEW gone \in SUBSET Users,
         \A u \in gone : user[u] # None,
         user' = [u \in Users |-> IF u \in gone THEN [user[u] EXCEPT !.deleted = TRUE]
                                  ELSE user[u]]
  PROVE  TablesTypeOK' /\ Kept /\ RowsFit'
<1>1. ASSUME NEW u \in Users
      PROVE  /\ user'[u] \in UserRow \cup {None}
             /\ user[u] = None <=> user'[u] = None
             /\ user[u] # None => /\ user'[u].status = user[u].status
                                  /\ user'[u].token = user[u].token
             /\ u \notin gone => user'[u] = user[u]
  <2>1. user[u] \in UserRow \cup {None}
    BY DEF TablesTypeOK
  <2>2. CASE u \notin gone
    BY <2>1, <2>2
  <2>3. CASE u \in gone
    <3>1. user[u] \in UserRow /\ user'[u] = [user[u] EXCEPT !.deleted = TRUE]
      BY <2>1, <2>3
    <3> QED BY <2>3, <3>1, UserDeleted
  <2> QED BY <2>2, <2>3
<1>2. TablesTypeOK'
  BY <1>1 DEF TablesTypeOK
<1>3. RowsFit'
  BY <1>1 DEF RowsFit
<1>4. ASSUME NEW u \in Users, Clicks(u) # {}, Harmless(u)
      PROVE  Harmless(u)'
  <2>1. PICK q \in InFlight : arg[q].op = "confirm" /\ arg[q].user = u
    BY <1>4 DEF Clicks
  <2>2. user[u] # None
    BY <1>4, <2>1 DEF RequestsFit, Fits
  <2> QED BY <1>1, <1>4, <2>2 DEF Harmless
<1> QED BY <1>1, <1>2, <1>3, <1>4 DEF Kept

-----------------------------------------------------------------------------
(* What handlers hold when they start.                                       *)

LEMMA ArgOfEmail ==
  ASSUME NEW op \in RequestOps, NEW role \in Roles, NEW e \in Emails
  PROVE  LET x == [Blank(op, role) EXCEPT !.email = e] IN
         /\ x \in Arg /\ x.op = op /\ x.role = role
         /\ x.user = None /\ x.email = e /\ x.account = None
BY DEF Blank, Arg

LEMMA ArgWithAccount ==
  ASSUME NEW x \in Arg, NEW c \in Accounts
  PROVE  LET y == [x EXCEPT !.account = c] IN
         /\ y \in Arg /\ y.op = x.op /\ y.role = x.role
         /\ y.user = x.user /\ y.email = x.email /\ y.account = c
BY DEF Arg

-----------------------------------------------------------------------------
(* Steps on one user keep the invariant.                                     *)

LEMMA Assembled ==
  ASSUME TablesTypeOK', RequestsTypeOK', RequestsFit', RowsFit'
  PROVE  RegistryInv'
BY DEF RegistryInv, TypeOK

LEMMA InsertStep ==
  ASSUME RegistryInv, NEW u \in Users, NEW row \in UserRow, Insert(u, row),
         UNCHANGED <<account, pc, arg, open>>,
         row.status = "pending",
         \/ row.token = "none" /\ vetted' = vetted
         \/ vetted' = vetted \cup {u}
  PROVE  RegistryInv'
<1>1. TablesTypeOK /\ RequestsTypeOK /\ RequestsFit /\ RowsFit
  BY DEF RegistryInv, TypeOK
<1>2. user' = [user EXCEPT ![u] = row] /\ overlooked' \subseteq Users
  BY <1>1 DEF Insert, Overlook, TablesTypeOK
<1>3. open \subseteq Users /\ vetted' \subseteq Users /\ vetted \subseteq vetted'
  BY <1>1 DEF TablesTypeOK
<1>4. row.status \notin Barred /\ row.status # "active"
  BY DEF Barred
<1>5. TablesTypeOK' /\ Kept /\ RowsFit'
  BY <1>1, <1>2, <1>3, <1>4, UserWritten
<1> QED BY <1>1, <1>5, OthersFit, Assembled

LEMMA UserStep ==
  ASSUME RegistryInv, NEW u \in Users, OnUser(u)
  PROVE  RegistryInv'
<1>1. TablesTypeOK /\ RequestsTypeOK /\ RequestsFit /\ RowsFit
  BY DEF RegistryInv, TypeOK
<1>2. user[u] # None => user[u] \in UserRow
  BY <1>1 DEF TablesTypeOK
<1>3. overlooked \subseteq Users /\ open \subseteq Users /\ vetted \subseteq Users
  BY <1>1 DEF TablesTypeOK
<1>4. user[u] # None => /\ user[u].token # "none" \/ user[u].status = "active"
                             => u \in vetted
                        /\ user[u].status \in Barred
                             => u \in open \/ user[u].token = "none"
  BY <1>1 DEF RowsFit
<1>5. ASSUME NEW e \in Emails, Register(u, e)
      PROVE  RegistryInv'
  <2>1. [email |-> e, status |-> "pending", role |-> "normal_user",
         token |-> "none", deleted |-> FALSE] \in UserRow
    BY DEF UserRow, Roles
  <2> QED BY <1>5, <2>1, InsertStep DEF Register
<1>6. ASSUME NEW e \in Emails, NEW role \in Roles, Invite(u, e, role)
      PROVE  RegistryInv'
  <2>1. [email |-> e, status |-> "pending", role |-> role,
         token |-> "valid", deleted |-> FALSE] \in UserRow
    BY DEF UserRow
  <2> QED BY <1>6, <2>1, InsertStep DEF Invite
<1>7. CASE LetIn(u)
  <2>1. user[u] \in UserRow
    BY <1>2, <1>7 DEF LetIn, Live
  <2>2. PICK row : row = [user[u] EXCEPT !.status = "active"]
    OBVIOUS
  <2>3. row \in UserRow /\ row.status = "active" /\ row.token = user[u].token
    BY <2>1, <2>2, UserWithStatus
  <2>4. user' = [user EXCEPT ![u] = row]
    BY <1>1, <1>7, <2>2, StatusSet DEF LetIn
  <2>5. row.status \notin Barred
    BY <2>3 DEF Barred
  <2>6. TablesTypeOK' /\ Kept /\ RowsFit'
    BY <1>1, <1>3, <1>7, <2>3, <2>4, <2>5, UserWritten DEF LetIn
  <2> QED BY <1>1, <1>7, <2>6, OthersFit, Assembled DEF LetIn
<1>8. ASSUME NEW status \in Barred, Bar(u, status)
      PROVE  RegistryInv'
  <2>1. user[u] \in UserRow
    BY <1>2, <1>8 DEF Bar, Live
  <2>0. status \in {"pending", "active", "rejected", "revoked"}
    BY <1>8 DEF Barred
  <2>2. PICK row : row = [user[u] EXCEPT !.status = status]
    OBVIOUS
  <2>3. row \in UserRow /\ row.status = status /\ row.token = user[u].token
    BY <2>0, <2>1, <2>2, UserWithStatus
  <2>4. user' = [user EXCEPT ![u] = row]
    BY <1>1, <1>8, <2>0, <2>2, StatusSet DEF Bar
  <2>5. row.status # "active" /\ (row.token # "none" => u \in vetted)
    BY <1>4, <2>1, <2>3 DEF Barred
  <2>6. /\ open' \subseteq Users /\ open \ {u} \subseteq open'
        /\ user[u].token # "none" \/ Clicks(u) # {} => u \in open'
    BY <1>3, <1>8 DEF Bar
  <2>7. TablesTypeOK' /\ Kept /\ RowsFit'
    BY <1>1, <1>3, <1>8, <2>3, <2>4, <2>5, <2>6, UserWritten DEF Bar
  <2> QED BY <1>1, <1>8, <2>7, OthersFit, Assembled DEF Bar
<1>9. CASE DeleteUser(u)
  <2>1. user[u] \in UserRow
    BY <1>2, <1>9 DEF DeleteUser, Live
  <2>2. PICK row : row = [user[u] EXCEPT !.deleted = TRUE]
    OBVIOUS
  <2>3. row \in UserRow /\ row.status = user[u].status /\ row.token = user[u].token
    BY <2>1, <2>2, UserDeleted
  <2>4. user' = [user EXCEPT ![u] = row]
    BY <1>9, <2>2 DEF DeleteUser
  <2>5. TablesTypeOK' /\ Kept /\ RowsFit'
    BY <1>1, <1>3, <1>4, <1>9, <2>1, <2>3, <2>4, UserWritten
       DEF DeleteUser, histories, Harmless
  <2> QED BY <1>1, <1>9, <2>5, OthersFit, Assembled DEF DeleteUser
<1>10. CASE Expire(u)
  <2>1. user[u] \in UserRow
    BY <1>2, <1>10 DEF Expire
  <2>2. PICK row : row = [user[u] EXCEPT !.token = "expired"]
    OBVIOUS
  <2>3. row \in UserRow /\ row.status = user[u].status
    BY <2>1, <2>2, UserWithToken
  <2>4. user' = [user EXCEPT ![u] = row]
    BY <1>10, <2>2 DEF Expire
  <2>5. u \in vetted /\ (row.status \in Barred => u \in open)
    BY <1>4, <1>10, <2>1, <2>3 DEF Expire
  <2>6. TablesTypeOK' /\ Kept /\ RowsFit'
    BY <1>1, <1>3, <1>10, <2>1, <2>3, <2>4, <2>5, UserWritten
       DEF Expire, histories, Harmless
  <2> QED BY <1>1, <1>10, <2>6, OthersFit, Assembled DEF Expire
<1> QED BY <1>5, <1>6, <1>7, <1>8, <1>9, <1>10 DEF OnUser, Barred

-----------------------------------------------------------------------------
(* Steps of one request keep the invariant.                                  *)

(* A request that only reads goes on, or starts.                             *)
LEMMA ReadStep ==
  ASSUME RegistryInv, NEW r \in Requests, NEW a, NEW stage, Enter(r, a, stage),
         UNCHANGED <<user, account, open>>, overlooked' \subseteq Users,
         vetted \subseteq vetted', vetted' \subseteq Users, Fits(a, stage)'
  PROVE  RegistryInv'
<1>1. TablesTypeOK /\ RequestsTypeOK /\ RequestsFit /\ RowsFit
  BY DEF RegistryInv, TypeOK
<1>2. TablesTypeOK' /\ Kept /\ RowsFit'
  BY <1>1, TablesLeft
<1> QED BY <1>1, <1>2, EnterFits, Assembled

LEMMA GiveUpStep ==
  ASSUME RegistryInv, NEW r \in Requests, Return(r),
         UNCHANGED <<user, account, open, vetted>>, overlooked' \subseteq Users
  PROVE  RegistryInv'
<1>1. TablesTypeOK /\ RequestsTypeOK /\ RequestsFit /\ RowsFit
  BY DEF RegistryInv, TypeOK
<1>2. TablesTypeOK' /\ Kept /\ RowsFit'
  BY <1>1, TablesLeft DEF TablesTypeOK
<1> QED BY <1>1, <1>2, ReturnFits, Assembled

(* What a request in flight holds.                                           *)
LEMMA Held ==
  ASSUME RegistryInv, NEW r \in Requests, pc[r] # "idle"
  PROVE  /\ arg[r] \in Arg /\ Fits(arg[r], pc[r])
         /\ arg[r].user \in Users \cup {None}
         /\ arg[r].account \in Accounts \cup {None}
         /\ arg[r].email \in Emails \cup {None}
         /\ arg[r].role \in Roles
BY DEF RegistryInv, TypeOK, RequestsTypeOK, RequestsFit, InFlight, Fits, Arg

LEMMA Histories ==
  ASSUME RegistryInv
  PROVE  /\ overlooked \subseteq Users /\ open \subseteq Users
         /\ vetted \subseteq Users
BY DEF RegistryInv, TypeOK, TablesTypeOK

LEMMA ReadLinkStep ==
  ASSUME RegistryInv, NEW r \in Requests, NEW u \in Users, ReadLink(r, u)
  PROVE  RegistryInv'
<1>1. user[u] \in UserRow /\ user[u].token # "none"
  BY DEF ReadLink, RegistryInv, TypeOK, TablesTypeOK
<1>2. user[u].role \in Roles /\ user[u].email \in Emails
  BY <1>1 DEF UserRow
<1>3. u \in vetted /\ (user[u].status \in Barred => u \in open)
  BY <1>1 DEF RegistryInv, RowsFit
<1>4. PICK a : a = [Blank("confirm", user[u].role) EXCEPT
                      !.user = u, !.email = user[u].email]
  OBVIOUS
<1>5. /\ a \in Arg /\ a.op = "confirm" /\ a.user = u /\ a.account = None
      /\ a.email \in Emails
  <2>1. "confirm" \in RequestOps
    BY DEF RequestOps
  <2> QED BY <1>2, <1>4, <2>1 DEF Blank, Arg
<1>6. UNCHANGED <<user, account, open, vetted, overlooked>>
  BY DEF ReadLink, histories
<1>7. Fits(a, "burn")'
  BY <1>1, <1>3, <1>5, <1>6 DEF Fits, Stages
<1>8. Enter(r, a, "burn")
  BY <1>4 DEF ReadLink
<1> QED BY <1>6, <1>7, <1>8, Histories, ReadStep

LEMMA PromoteStep ==
  ASSUME RegistryInv, NEW r \in Requests, NEW u \in Users, NEW role \in AdminRoles,
         Promote(r, u, role)
  PROVE  RegistryInv'
<1>1. user[u] \in UserRow
  BY DEF Promote, Live, RegistryInv, TypeOK, TablesTypeOK
<1>2. user[u].email \in Emails /\ role \in Roles
  BY <1>1 DEF UserRow, Roles
<1>3. PICK a : a = [Blank("promote", role) EXCEPT
                      !.user = u, !.email = user[u].email]
  OBVIOUS
<1>4. /\ a \in Arg /\ a.op = "promote" /\ a.user = u /\ a.account = None
      /\ a.email \in Emails /\ a.role = role
  <2>1. "promote" \in RequestOps
    BY DEF RequestOps
  <2> QED BY <1>2, <1>3, <2>1 DEF Blank, Arg
<1>5. UNCHANGED <<user, account, open, overlooked>> /\ vetted' = vetted \cup {u}
  BY DEF Promote
<1>6. Fits(a, "insert")'
  BY <1>1, <1>4, <1>5 DEF Fits, Stages
<1>7. Enter(r, a, "insert")
  BY <1>3 DEF Promote
<1> QED BY <1>5, <1>6, <1>7, Histories, ReadStep

LEMMA CreateAdminStep ==
  ASSUME RegistryInv, NEW r \in Requests, NEW e \in Emails, NEW role \in AdminRoles,
         CreateAdmin(r, e, role)
  PROVE  RegistryInv'
<1>1. PICK a : a = [Blank("create", role) EXCEPT !.email = e]
  OBVIOUS
<1>2. role \in Roles
  BY DEF Roles
<1>3. /\ a \in Arg /\ a.op = "create" /\ a.user = None /\ a.account = None
      /\ a.email = e /\ a.role = role
  BY <1>1, <1>2, ArgOfEmail DEF RequestOps
<1>4. Fits(a, "insert")'
  BY <1>3 DEF Fits, Stages
<1> QED BY <1>1, <1>4, Histories, ReadStep DEF CreateAdmin, histories

LEMMA ReadAccountStep ==
  ASSUME RegistryInv, NEW r \in Requests, NEW c \in Accounts,
         NEW op \in {"setrole", "deladmin"}, NEW role \in AdminRoles,
         ReadAccount(r, c, op, role)
  PROVE  RegistryInv'
<1>1. account[c] \in AccountRow /\ role \in Roles
  BY DEF ReadAccount, RegistryInv, TypeOK, TablesTypeOK, Roles
<1>2. account[c].email \in Emails /\ account[c].role \in AdminRoles
  BY <1>1 DEF AccountRow
<1>3. account[c] # None /\ UNCHANGED <<user, account, open, overlooked, vetted>>
  BY DEF ReadAccount, histories
<1>4. CASE op = "setrole"
  <2>1. PICK s \in AdminRoles \cup {None} :
          Enter(r, [Blank(op, role) EXCEPT !.account = c,
                      !.email = account[c].email, !.seen = s], "write")
    BY <1>2, <1>4 DEF ReadAccount
  <2>2. PICK a : a = [Blank(op, role) EXCEPT !.account = c,
                        !.email = account[c].email, !.seen = s]
    OBVIOUS
  <2>3. /\ a \in Arg /\ a.op = op /\ a.user = None /\ a.account = c
        /\ a.email = account[c].email /\ a.role = role
    <3>1. op \in RequestOps
      BY DEF RequestOps
    <3> QED BY <1>1, <1>2, <2>2, <3>1 DEF Blank, Arg
  <2>4. Fits(a, "write")'
    BY <1>3, <1>4, <2>3 DEF Fits, Stages
  <2> QED BY <1>3, <2>1, <2>2, <2>4, Histories, ReadStep
<1>5. CASE op = "deladmin"
  <2>1. PICK e \in Emails \cup {None} :
          Enter(r, [Blank(op, role) EXCEPT !.account = c, !.email = e], "delete")
    BY <1>2, <1>5 DEF ReadAccount
  <2>2. PICK a : a = [Blank(op, role) EXCEPT !.account = c, !.email = e]
    OBVIOUS
  <2>3. a \in Arg /\ a.op = op /\ a.user = None /\ a.account = c
    <3>1. op \in RequestOps
      BY DEF RequestOps
    <3> QED BY <1>1, <2>2, <3>1 DEF Blank, Arg
  <2>4. Fits(a, "delete")'
    BY <1>3, <1>5, <2>3 DEF Fits, Stages
  <2> QED BY <1>3, <2>1, <2>2, <2>4, Histories, ReadStep
<1> QED BY <1>4, <1>5

LEMMA LookupStep ==
  ASSUME RegistryInv, NEW r \in Requests, Lookup(r)
  PROVE  RegistryInv'
<1>1. PICK a : a = arg[r]
  OBVIOUS
<1>2. /\ a \in Arg /\ Fits(a, "lookup") /\ a.role \in Roles
      /\ UNCHANGED <<user, account, open, overlooked>>
  BY <1>1, Held DEF Lookup
<1>3. a.user \in Users /\ user[a.user] # None /\ a.email \in Emails
  BY <1>2 DEF Fits
<1>4. CASE Return(r) /\ UNCHANGED vetted
  BY <1>2, <1>4, Histories, GiveUpStep
<1>5. CASE /\ arg[r].role # "normal_user" /\ GoTo(r, "insert")
           /\ vetted' = vetted \cup {arg[r].user}
  <2>1. a.role \in AdminRoles
    BY <1>1, <1>2, <1>5 DEF Roles
  <2>2. Fits(a, "insert")'
    BY <1>1, <1>2, <1>3, <1>5, <2>1 DEF Fits, Stages
  <2> QED BY <1>1, <1>2, <1>3, <1>5, <2>2, Histories, ReadStep DEF GoTo
<1>6. ASSUME NEW c \in AccountOf(arg[r].email), UNCHANGED vetted,
             Enter(r, [arg[r] EXCEPT !.account = c], "delete")
      PROVE  RegistryInv'
  <2>1. c \in Accounts /\ account[c] # None
    BY DEF AccountOf, Live
  <2>2. PICK b : b = [a EXCEPT !.account = c]
    OBVIOUS
  <2>3. /\ b \in Arg /\ b.op = a.op /\ b.user = a.user /\ b.account = c
    BY <1>2, <2>1, <2>2, ArgWithAccount
  <2>4. Fits(b, "delete")'
    BY <1>2, <1>6, <2>1, <2>3 DEF Fits, Stages
  <2> QED BY <1>1, <1>2, <1>6, <2>2, <2>4, Histories, ReadStep
<1> QED BY <1>4, <1>5, <1>6 DEF Lookup

(* The UPDATE of Burn takes a token away, or fails.                          *)
LEMMA BurnStep ==
  ASSUME RegistryInv, NEW r \in Requests, Burn(r)
  PROVE  RegistryInv'
<1>1. TablesTypeOK /\ RequestsTypeOK /\ RequestsFit /\ RowsFit
  BY DEF RegistryInv, TypeOK
<1>2. PICK a : a = arg[r]
  OBVIOUS
<1>3. PICK u : u = a.user
  OBVIOUS
<1>4. a \in Arg /\ Fits(a, "burn") /\ a.role \in Roles /\ a.email \in Emails \cup {None}
  BY <1>2, Held DEF Burn
<1>5. u \in Users /\ user[u] \in UserRow /\ u \in vetted /\ a.op = "confirm"
  BY <1>1, <1>3, <1>4 DEF Fits, TablesTypeOK
<1>6. UNCHANGED <<account, open, vetted, overlooked>>
  BY DEF Burn, histories
<1>7. (TablesTypeOK' /\ Kept /\ RowsFit') /\ user'[u] # None
        /\ user'[u].status = user[u].status
  <2>1. CASE UNCHANGED user
    BY <1>1, <1>5, <1>6, <2>1, TablesLeft DEF TablesTypeOK
  <2>2. CASE user' = [user EXCEPT ![u].token = "none"]
    <3>1. PICK row : row = [user[u] EXCEPT !.token = "none"]
      OBVIOUS
    <3>2. row \in UserRow /\ row.token = "none" /\ row.status = user[u].status
      BY <1>5, <3>1, UserWithToken
    <3>3. user' = [user EXCEPT ![u] = row]
      BY <2>2, <3>1
    <3>4. user'[u] = row /\ row # None
      BY <1>1, <1>5, <3>2, <3>3 DEF TablesTypeOK
    <3>5. Clicks(u) # {} /\ Harmless(u) => u \in open' \/ row.status \notin Barred
      BY <1>6, <3>2 DEF Harmless
    <3>6. TablesTypeOK' /\ Kept /\ RowsFit'
      BY <1>1, <1>5, <1>6, <3>2, <3>3, <3>5, Histories, UserWritten
    <3> QED BY <3>2, <3>4, <3>6
  <2> QED BY <1>2, <1>3, <2>1, <2>2 DEF Burn
<1>8. CASE Return(r)
  BY <1>1, <1>7, <1>8, ReturnFits, Assembled
<1>9. CASE GoTo(r, IF arg[r].role = "normal_user" THEN "activate" ELSE "insert")
  <2>1. PICK stage : stage = IF a.role = "normal_user" THEN "activate" ELSE "insert"
    OBVIOUS
  <2>2. stage = "insert" => a.role \in AdminRoles
    BY <1>4, <2>1 DEF Roles
  <2>3. a.email \in Emails
    BY <1>4 DEF Fits
  <2>4. Fits(a, stage)'
    BY <1>3, <1>4, <1>5, <1>6, <1>7, <2>1, <2>2, <2>3 DEF Fits, Stages
  <2>5. Enter(r, a, stage)
    BY <1>2, <1>9, <2>1 DEF GoTo
  <2> QED BY <1>1, <1>7, <2>4, <2>5, EnterFits, Assembled
<1> QED BY <1>8, <1>9 DEF Burn

(* A vetted user becomes active, if the row is live.                         *)
LEMMA ActiveStep ==
  ASSUME RegistryInv, NEW r \in Requests, Return(r), NEW u \in vetted,
         SetStatus(u, "active"), UNCHANGED <<account, overlooked, open, vetted>>
  PROVE  RegistryInv'
<1>1. TablesTypeOK /\ RequestsTypeOK /\ RequestsFit /\ RowsFit /\ u \in Users
  BY DEF RegistryInv, TypeOK, TablesTypeOK
<1>2. CASE user' = user
  BY <1>2, Histories, GiveUpStep
<1>3. CASE /\ Live(user[u]) /\ user[u] \in UserRow
           /\ user' = [user EXCEPT ![u] = [user[u] EXCEPT !.status = "active"]]
  <2>1. PICK row : row = [user[u] EXCEPT !.status = "active"]
    OBVIOUS
  <2>2. row \in UserRow /\ row.status = "active" /\ row.token = user[u].token
    BY <1>3, <2>1, UserWithStatus
  <2>3. row.status \notin Barred
    BY <2>2 DEF Barred
  <2>4. TablesTypeOK' /\ Kept /\ RowsFit'
    BY <1>1, <1>3, <2>1, <2>2, <2>3, Histories, UserWritten
  <2> QED BY <1>1, <2>4, ReturnFits, Assembled
<1> QED BY <1>1, <1>2, <1>3, StatusSet

LEMMA ActivateStep ==
  ASSUME RegistryInv, NEW r \in Requests, Activate(r)
  PROVE  RegistryInv'
<1>1. arg[r].user \in vetted
  BY Held DEF Activate, Fits
<1> QED BY <1>1, ActiveStep DEF Activate, histories

LEMMA SyncStep ==
  ASSUME RegistryInv, NEW r \in Requests, Sync(r)
  PROVE  RegistryInv'
<1>1. TablesTypeOK /\ RequestsTypeOK /\ RequestsFit /\ RowsFit
  BY DEF RegistryInv, TypeOK
<1>2. PICK u : u = arg[r].user
  OBVIOUS
<1>3. u \in vetted
  BY <1>2, Held DEF Sync, Fits
<1>4. u \in Users
  BY <1>3, Histories
<1>5. Return(r) /\ UNCHANGED <<account, overlooked, open, vetted>>
  BY DEF Sync, histories
<1>6. CASE SetStatus(u, "active")
  BY <1>3, <1>5, <1>6, ActiveStep
<1>7. CASE user' = user
  BY <1>5, <1>7, Histories, GiveUpStep
<1>8. CASE Live(user[u]) /\ user' = [user EXCEPT ![u].deleted = TRUE]
  <2>1. user[u] \in UserRow
    BY <1>1, <1>4, <1>8 DEF TablesTypeOK, Live
  <2>2. PICK row : row = [user[u] EXCEPT !.deleted = TRUE]
    OBVIOUS
  <2>3. row \in UserRow /\ row.status = user[u].status /\ row.token = user[u].token
    BY <2>1, <2>2, UserDeleted
  <2>4. row.status \in Barred => u \in open \/ row.token = "none"
    BY <1>1, <1>4, <2>1, <2>3 DEF RowsFit
  <2>5. user' = [user EXCEPT ![u] = row]
    BY <1>8, <2>2
  <2>6. Clicks(u) # {} /\ Harmless(u) => u \in open' \/ row.status \notin Barred
    BY <1>5, <2>3 DEF Harmless
  <2>7. TablesTypeOK' /\ Kept /\ RowsFit'
    BY <1>1, <1>3, <1>4, <1>5, <2>3, <2>4, <2>5, <2>6, Histories, UserWritten
  <2> QED BY <1>1, <1>5, <2>7, ReturnFits, Assembled
<1> QED BY <1>2, <1>6, <1>7, <1>8 DEF Sync

(* A write to the admins table that keeps addresses, then the next stage.    *)
LEMMA AccountStep ==
  ASSUME RegistryInv, NEW r \in Requests, NEW c \in Accounts, NEW row \in AccountRow,
         account' = [account EXCEPT ![c] = row], UNCHANGED <<user, open, vetted>>,
         overlooked' \subseteq Users,
         account[c] # None => row.email = account[c].email,
         NEW a, NEW stage, Enter(r, a, stage),
         \/ Return(r)
         \/ Kept => Fits(a, stage)'
  PROVE  RegistryInv'
<1>1. TablesTypeOK /\ RequestsTypeOK /\ RequestsFit /\ RowsFit
  BY DEF RegistryInv, TypeOK
<1>2. TablesTypeOK' /\ Kept /\ RowsFit'
  BY <1>1, AccountWritten
<1>3. CASE Return(r)
  BY <1>1, <1>2, <1>3, ReturnFits, Assembled
<1>4. CASE Fits(a, stage)'
  BY <1>1, <1>2, <1>4, EnterFits, Assembled
<1> QED BY <1>2, <1>3, <1>4

LEMMA InsertAdminStep ==
  ASSUME RegistryInv, NEW r \in Requests, InsertAdmin(r)
  PROVE  RegistryInv'
<1>1. PICK a : a = arg[r]
  OBVIOUS
<1>2. /\ a \in Arg /\ Fits(a, "insert") /\ pc[r] = "insert"
      /\ a.user \in Users \cup {None} /\ a.account \in Accounts \cup {None}
  BY <1>1, Held DEF InsertAdmin
<1>3. a.email \in Emails /\ a.role \in AdminRoles
  BY <1>2 DEF Fits
<1>4. overlooked \subseteq Users /\ UserOf(a.email) \subseteq Users
  BY Histories DEF UserOf
<1>5. UNCHANGED <<user, open, vetted>>
  BY DEF InsertAdmin
<1>6. overlooked' \subseteq Users
  BY <1>1, <1>4 DEF InsertAdmin, Overlook
<1>7. CASE Return(r) /\ UNCHANGED account
  BY <1>5, <1>6, <1>7, GiveUpStep
<1>8. ASSUME NEW c \in Accounts, account[c] = None,
             account' = [account EXCEPT ![c] =
               [email |-> a.email, role |-> a.role, deleted |-> FALSE]],
             NEW stage \in {"remove", "sync", "idle"}, NEW b, Enter(r, b, stage),
             IF stage = "idle" THEN Return(r) ELSE b = a,
             stage = "sync" => a.op # "create"
      PROVE  RegistryInv'
  <2>1. PICK row : row = [email |-> a.email, role |-> a.role, deleted |-> FALSE]
    OBVIOUS
  <2>2. row \in AccountRow
    BY <1>3, <2>1 DEF AccountRow
  <2>3. stage # "idle" /\ Kept => Fits(a, stage)'
    BY <1>2, <1>3, <1>5, <1>8 DEF Fits, Stages, Kept
  <2> QED BY <1>5, <1>6, <1>8, <2>1, <2>2, <2>3, AccountStep
<1>9. CASE ~(Return(r) /\ UNCHANGED account)
  <2>1. PICK c \in Accounts :
          /\ account[c] = None
          /\ account' = [account EXCEPT ![c] =
               [email |-> a.email, role |-> a.role, deleted |-> FALSE]]
    BY <1>1, <1>9 DEF InsertAdmin
  <2>2. \/ Return(r)
        \/ GoTo(r, "remove")
        \/ GoTo(r, "sync") /\ a.op # "create"
    BY <1>1, <1>9 DEF InsertAdmin, ThenRemove
  <2>3. CASE Return(r)
    BY <1>8, <2>1, <2>3 DEF Return
  <2>4. CASE GoTo(r, "remove")
    BY <1>1, <1>8, <2>1, <2>4 DEF GoTo
  <2>5. CASE GoTo(r, "sync") /\ a.op # "create"
    BY <1>1, <1>8, <2>1, <2>5 DEF GoTo
  <2> QED BY <2>2, <2>3, <2>4, <2>5
<1> QED BY <1>7, <1>9

LEMMA WriteRoleStep ==
  ASSUME RegistryInv, NEW r \in Requests, WriteRole(r)
  PROVE  RegistryInv'
<1>1. PICK a : a = arg[r]
  OBVIOUS
<1>2. PICK c : c = a.account
  OBVIOUS
<1>3. a \in Arg /\ Fits(a, "write") /\ a.user \in Users \cup {None}
  BY <1>1, Held DEF WriteRole
<1>4. c \in Accounts /\ account[c] # None /\ a.role \in AdminRoles
  BY <1>2, <1>3 DEF Fits
<1>5. account[c] \in AccountRow
  BY <1>4 DEF RegistryInv, TypeOK, TablesTypeOK
<1>6. PICK row : row = [account[c] EXCEPT !.role = a.role]
  OBVIOUS
<1>7. row \in AccountRow /\ row.email = account[c].email
  BY <1>4, <1>5, <1>6, AccountWithRole
<1>8. account' = [account EXCEPT ![c] = row] /\ UNCHANGED <<user, open, vetted>>
  BY <1>1, <1>2, <1>6 DEF WriteRole
<1>9. overlooked' \subseteq Users
  <2>1. UserOf(arg[r].email) \subseteq Users
    BY DEF UserOf
  <2> QED BY <2>1, Histories DEF WriteRole, Overlook
<1>10. CASE Return(r)
  BY <1>4, <1>7, <1>8, <1>9, <1>10, AccountStep DEF Return
<1>11. CASE GoTo(r, "remove")
  <2>1. Enter(r, a, "remove")
    BY <1>1, <1>11 DEF GoTo
  <2>2. Kept => Fits(a, "remove")'
    BY <1>2, <1>3, <1>4, <1>8 DEF Fits, Stages, Kept
  <2> QED BY <1>4, <1>7, <1>8, <1>9, <2>1, <2>2, AccountStep
<1> QED BY <1>10, <1>11 DEF WriteRole, ThenRemove

LEMMA DeleteAccountStep ==
  ASSUME RegistryInv, NEW r \in Requests, DeleteAccount(r)
  PROVE  RegistryInv'
<1>1. PICK a : a = arg[r]
  OBVIOUS
<1>2. PICK c : c = a.account
  OBVIOUS
<1>3. a \in Arg /\ Fits(a, "delete") /\ a.user \in Users \cup {None}
  BY <1>1, Held DEF DeleteAccount
<1>4. c \in Accounts /\ account[c] # None
  BY <1>2, <1>3 DEF Fits
<1>5. account[c] \in AccountRow
  BY <1>4 DEF RegistryInv, TypeOK, TablesTypeOK
<1>6. PICK row : row = [account[c] EXCEPT !.deleted = TRUE]
  OBVIOUS
<1>7. row \in AccountRow /\ row.email = account[c].email
  BY <1>5, <1>6, AccountDeleted
<1>8. UNCHANGED <<user, open, vetted, overlooked>> /\ overlooked' \subseteq Users
  BY Histories DEF DeleteAccount, histories
<1>9. CASE Return(r) /\ UNCHANGED account
  BY <1>8, <1>9, GiveUpStep
<1>10. CASE account' = [account EXCEPT ![c] = row] /\ Return(r)
  BY <1>4, <1>7, <1>8, <1>10, AccountStep DEF Return
<1>11. CASE account' = [account EXCEPT ![c] = row] /\ GoTo(r, "remove")
  <2>1. Enter(r, a, "remove")
    BY <1>1, <1>11 DEF GoTo
  <2>2. Kept => Fits(a, "remove")'
    BY <1>2, <1>3, <1>4, <1>8 DEF Fits, Stages, Kept
  <2> QED BY <1>4, <1>7, <1>8, <1>11, <2>1, <2>2, AccountStep
<1> QED BY <1>1, <1>2, <1>6, <1>9, <1>10, <1>11 DEF DeleteAccount

LEMMA RemoveStep ==
  ASSUME RegistryInv, NEW r \in Requests, Remove(r)
  PROVE  RegistryInv'
<1>1. TablesTypeOK /\ RequestsTypeOK /\ RequestsFit /\ RowsFit
  BY DEF RegistryInv, TypeOK
<1>2. PICK gone : gone = UserOf(arg[r].email)
  OBVIOUS
<1>3. gone \in SUBSET Users /\ \A u \in gone : user[u] # None
  BY <1>2 DEF UserOf, Live
<1>4. TablesTypeOK' /\ Kept /\ RowsFit'
  BY <1>1, <1>2, <1>3, Histories, RowsDeleted DEF Remove, histories
<1> QED BY <1>1, <1>4, ReturnFits, Assembled DEF Remove

LEMMA DoomedUsers ==
  ASSUME RegistryInv, NEW r \in InFlight
  PROVE  Doomed(r) \subseteq Users
<1>1. r \in Requests /\ pc[r] # "idle"
  BY DEF InFlight
<1>2. pc[r] = "sync" => arg[r].user \in Users
  BY <1>1, Held, Histories DEF Fits
<1> QED BY <1>2 DEF Doomed, UserOf

LEMMA FailStep ==
  ASSUME RegistryInv, NEW r \in Requests, Fail(r)
  PROVE  RegistryInv'
<1>1. r \in InFlight
  BY DEF Fail, InFlight
<1>2. overlooked' \subseteq Users
  BY <1>1, DoomedUsers, Histories DEF Fail, Overlook
<1> QED BY <1>2, GiveUpStep DEF Fail

LEMMA RestartStep ==
  ASSUME RegistryInv, Restart
  PROVE  RegistryInv'
<1>1. TablesTypeOK /\ RequestsTypeOK /\ RequestsFit /\ RowsFit
  BY DEF RegistryInv, TypeOK
<1>2. UNION {Doomed(r) : r \in InFlight} \subseteq Users
  BY DoomedUsers
<1>3. UserOf(SeedEmail) \subseteq Users
  BY DEF UserOf
<1>4. UNCHANGED <<user, open, vetted>> /\ overlooked' \subseteq Users
  BY <1>2, <1>3, Histories DEF Restart, Overlook
<1>5. TablesTypeOK' /\ RowsFit'
  <2>1. CASE UNCHANGED account
    BY <1>1, <1>4, <2>1, TablesLeft DEF TablesTypeOK
  <2>2. ASSUME NEW c \in Accounts, account[c] = None,
               account' = [account EXCEPT ![c] = SeedRow]
        PROVE  TablesTypeOK' /\ RowsFit'
    <3>1. SeedRow \in AccountRow
      BY DEF SeedRow, AccountRow, AdminRoles
    <3> QED BY <1>1, <1>4, <2>2, <3>1, AccountWritten
  <2> QED BY <2>1, <2>2 DEF Restart
<1>6. pc' = [r \in Requests |-> "idle"] /\ arg' = [r \in Requests |-> None]
  BY DEF Restart
<1>7. InFlight' = {}
  BY <1>6 DEF InFlight
<1>8. RequestsTypeOK' /\ RequestsFit'
  BY <1>6, <1>7 DEF RequestsTypeOK, RequestsFit, Stages
<1> QED BY <1>5, <1>8, Assembled

LEMMA RequestStep ==
  ASSUME RegistryInv, NEW r \in Requests, Handle(r)
  PROVE  RegistryInv'
<1>1. CASE \E u \in Users : ReadLink(r, u)
  BY <1>1, ReadLinkStep
<1>2. CASE \E u \in Users, role \in AdminRoles : Promote(r, u, role)
  BY <1>2, PromoteStep
<1>3. ASSUME NEW u \in Users, NEW e \in Emails, NEW role \in Roles,
             UpdateUser(r, u, e, role)
      PROVE  RegistryInv'
  <2>1. TablesTypeOK /\ RequestsTypeOK /\ RequestsFit /\ RowsFit
    BY DEF RegistryInv, TypeOK
  <2>2. user[u] \in UserRow
    BY <1>3, <2>1 DEF UpdateUser, Live, TablesTypeOK
  <2>3. PICK row : row = [user[u] EXCEPT !.email = e]
    OBVIOUS
  <2>4. row \in UserRow /\ row.status = user[u].status /\ row.token = user[u].token
    BY <2>2, <2>3, UserWithEmail
  <2>5. /\ user' = [user EXCEPT ![u] = row]
        /\ UNCHANGED <<account, open, vetted>> /\ overlooked' \subseteq Users
    BY <1>3, <2>3, Histories DEF UpdateUser
  <2>6. /\ row.token # "none" \/ row.status = "active" => u \in vetted
        /\ row.status \in Barred => u \in open \/ row.token = "none"
    BY <2>1, <2>2, <2>4 DEF RowsFit
  <2>7. Clicks(u) # {} /\ Harmless(u) => u \in open' \/ row.status \notin Barred
    BY <2>4, <2>5 DEF Harmless
  <2>8. TablesTypeOK' /\ Kept /\ RowsFit'
    BY <2>1, <2>4, <2>5, <2>6, <2>7, Histories, UserWritten
  <2>9. PICK a : a = [Blank("update", role) EXCEPT !.user = u, !.email = e]
    OBVIOUS
  <2>10. "update" \in RequestOps
    BY DEF RequestOps
  <2>11. /\ a \in Arg /\ a.op = "update" /\ a.user = u /\ a.account = None
         /\ a.email = e
    BY <2>9, <2>10 DEF Blank, Arg
  <2>12. user'[u] # None
    BY <2>2, <2>8 DEF Kept
  <2>13. Fits(a, "lookup")'
    BY <2>11, <2>12 DEF Fits, Stages
  <2>14. Enter(r, a, "lookup")
    BY <1>3, <2>9 DEF UpdateUser
  <2> QED BY <2>1, <2>8, <2>13, <2>14, EnterFits, Assembled
<1>4. CASE \E e \in Emails, role \in AdminRoles : CreateAdmin(r, e, role)
  BY <1>4, CreateAdminStep
<1>5. CASE \E c \in Accounts, op \in {"setrole", "deladmin"}, role \in AdminRoles :
             ReadAccount(r, c, op, role)
  BY <1>5, ReadAccountStep
<1>6. CASE Burn(r) \/ Activate(r) \/ Lookup(r) \/ InsertAdmin(r) \/ Sync(r)
  BY <1>6, BurnStep, ActivateStep, LookupStep, InsertAdminStep, SyncStep
<1>7. CASE WriteRole(r) \/ DeleteAccount(r) \/ Remove(r) \/ Fail(r)
  BY <1>7, WriteRoleStep, DeleteAccountStep, RemoveStep, FailStep
<1> QED BY <1>1, <1>2, <1>3, <1>4, <1>5, <1>6, <1>7 DEF Handle

-----------------------------------------------------------------------------
(* The theorems.                                                             *)

(* What requests hold, and whom links and access are for, is as RegistryInv  *)
(* says in every state.                                                      *)
THEOREM RegistryInvariance == Spec => []RegistryInv
<1>1. Init => RegistryInv
  <2> SUFFICES ASSUME Init PROVE RegistryInv
    OBVIOUS
  <2>1. SeedRow \in AccountRow
    BY DEF SeedRow, AccountRow, AdminRoles
  <2>2. InFlight = {}
    BY DEF Init, InFlight
  <2> QED BY <2>1, <2>2 DEF Init, RegistryInv, TypeOK, TablesTypeOK, RequestsTypeOK,
             RequestsFit, RowsFit, Stages
<1>2. RegistryInv /\ [Next]_vars => RegistryInv'
  <2> SUFFICES ASSUME RegistryInv, [Next]_vars PROVE RegistryInv'
    OBVIOUS
  <2>1. CASE \E u \in Users : OnUser(u)
    BY <2>1, UserStep
  <2>2. CASE \E r \in Requests : Handle(r)
    BY <2>2, RequestStep
  <2>3. CASE Restart
    BY <2>3, RestartStep
  <2>4. CASE UNCHANGED vars
    <3>1. TablesTypeOK /\ RequestsTypeOK /\ RequestsFit /\ RowsFit
      BY DEF RegistryInv, TypeOK
    <3>2. UNCHANGED <<user, account, pc, arg, overlooked, open, vetted>>
      BY <2>4 DEF vars
    <3>3. TablesTypeOK' /\ Kept /\ RowsFit'
      BY <3>1, <3>2, TablesLeft DEF TablesTypeOK
    <3> QED BY <3>1, <3>2, <3>3, OthersFit, Assembled
  <2> QED BY <2>1, <2>2, <2>3, <2>4 DEF Next
<1> QED BY <1>1, <1>2, PTL DEF Spec

(* Every state is well typed: requests find rows by the ids they hold.       *)
THEOREM TypeCorrect == Spec => []TypeOK
<1>1. RegistryInv => TypeOK
  BY DEF RegistryInv
<1> QED BY <1>1, RegistryInvariance, PTL

(* Nobody books whom no admin invited, approved, restored or promoted.       *)
THEOREM VettedSafety == Spec => []ActiveUsersAreVetted
<1>1. RegistryInv => ActiveUsersAreVetted
  BY DEF RegistryInv, RowsFit, ActiveUsersAreVetted, Live
<1> QED BY <1>1, RegistryInvariance, PTL

-----------------------------------------------------------------------------
(* Barred users stay out.                                                    *)

(* The status of a row is kept by every step but the three that set it.      *)
LEMMA StatusSetters ==
  ASSUME RegistryInv, Next, NEW u \in Users, user[u] # None,
         user'[u].status # user[u].status
  PROVE  \/ LetIn(u)
         \/ \E status \in Barred : Bar(u, status)
         \/ \E r \in Requests : Activate(r) /\ arg[r].user = u
         \/ \E r \in Requests : Sync(r) /\ arg[r].user = u
<1> DEFINE Goal == \/ LetIn(u)
                   \/ \E status \in Barred : Bar(u, status)
                   \/ \E r \in Requests : Activate(r) /\ arg[r].user = u
                   \/ \E r \in Requests : Sync(r) /\ arg[r].user = u
<1>1. user \in [Users -> UserRow \cup {None}] /\ user[u] \in UserRow
  BY DEF RegistryInv, TypeOK, TablesTypeOK
<1>2. user'[u] # user[u]
  OBVIOUS
<1>3. ASSUME NEW v \in Users, OnUser(v)
      PROVE  Goal
  <2>1. ASSUME NEW row, Insert(v, row)
        PROVE  FALSE
    BY <1>1, <1>2, <2>1 DEF Insert
  <2>2. CASE LetIn(v)
    BY <1>1, <1>2, <2>2 DEF LetIn, SetStatus
  <2>3. ASSUME NEW status \in Barred, Bar(v, status)
        PROVE  Goal
    BY <1>1, <1>2, <2>3 DEF Bar, SetStatus
  <2>4. CASE DeleteUser(v)
    BY <1>1, <2>4 DEF DeleteUser, UserRow
  <2>5. CASE Expire(v)
    BY <1>1, <2>5 DEF Expire, UserRow
  <2> QED BY <1>3, <2>1, <2>2, <2>3, <2>4, <2>5
          DEF OnUser, Register, Invite, Barred
<1>4. ASSUME NEW r \in Requests, Handle(r)
      PROVE  Goal
  <2>1. CASE Activate(r)
    BY <1>1, <1>2, <2>1 DEF Activate, SetStatus
  <2>2. CASE Sync(r)
    <3>1. CASE arg[r].user = u
      BY <2>2, <3>1
    <3>2. CASE arg[r].user # u
      BY <1>1, <1>2, <2>2, <3>2 DEF Sync, SetStatus
    <3> QED BY <3>1, <3>2
  <2>3. CASE Burn(r)
    BY <1>1, <2>3 DEF Burn, UserRow
  <2>4. CASE Remove(r)
    <3>1. user'[u] = user[u] \/ user'[u] = [user[u] EXCEPT !.deleted = TRUE]
      BY <2>4 DEF Remove
    <3> QED BY <1>1, <3>1 DEF UserRow
  <2>5. ASSUME NEW v \in Users, NEW e \in Emails, NEW role \in Roles,
               UpdateUser(r, v, e, role)
        PROVE  Goal
    BY <1>1, <2>5 DEF UpdateUser, UserRow
  <2>6. CASE UNCHANGED user
    BY <1>2, <2>6
  <2> QED BY <1>4, <2>1, <2>2, <2>3, <2>4, <2>5, <2>6
          DEF Handle, ReadLink, Promote, CreateAdmin, ReadAccount, Lookup,
              InsertAdmin, WriteRole, DeleteAccount, Fail
<1>5. CASE Restart
  BY <1>2, <1>5 DEF Restart
<1> QED BY <1>3, <1>4, <1>5 DEF Next

(* A rejected or revoked user is active again only by an admin's decision,   *)
(* unless a link was open when the user was barred.                          *)
THEOREM BarredSafety == Spec => BarredStayOut
<1> DEFINE Back(u) == /\ Live(user[u]) /\ user[u].status \in Barred
                      /\ user'[u].status = "active"
           Decided(u) == LetIn(u) \/ \E r \in Requests : Sync(r) /\ arg[r].op # "confirm"
<1>1. RegistryInv /\ [Next]_vars => [\A u \in Users \ open : Back(u) => Decided(u)]_vars
  <2> SUFFICES ASSUME RegistryInv, Next, NEW u \in Users \ open, Back(u)
               PROVE  Decided(u)
    OBVIOUS
  <2>1. user[u] # None /\ user'[u].status # user[u].status
    BY DEF Barred, Live
  <2>2. ASSUME NEW r \in Requests, pc[r] \in {"activate", "sync"}, arg[r].user = u
        PROVE  arg[r].op # "confirm"
    BY <2>2, Held DEF Fits
  <2>3. ~ \E r \in Requests : Activate(r) /\ arg[r].user = u
    BY <2>2, Held DEF Activate, Fits
  <2>4. ~ \E status \in Barred : Bar(u, status)
    <3> SUFFICES ASSUME NEW status \in Barred, Bar(u, status) PROVE FALSE
      OBVIOUS
    <3>1. user[u] \in UserRow /\ user \in [Users -> UserRow \cup {None}]
      BY <2>1 DEF RegistryInv, TypeOK, TablesTypeOK
    <3>2. user'[u].status = status
      BY <3>1 DEF Bar, SetStatus, UserRow
    <3> QED BY <3>2 DEF Barred
  <2>5. \/ LetIn(u)
        \/ \E r \in Requests : Sync(r) /\ arg[r].user = u
    BY <2>1, <2>3, <2>4, StatusSetters
  <2> QED BY <2>2, <2>5 DEF Sync
<1> QED BY <1>1, RegistryInvariance, PTL DEF Spec, BarredStayOut

-----------------------------------------------------------------------------
(* Super admins do not book.                                                 *)

Beside(u) == Live(user[u]) /\ SuperAdmin(user[u].email)
Excused(u) == u \in overlooked \/ Leaving(u)

(* A step keeps the property if every user beside a super admin afterwards   *)
(* is excused or was there before, and a request that goes on to another     *)
(* stage leaves nobody whom it was about to clear.                           *)
LEMMA Covered ==
  ASSUME SuperAdminsDoNotBook,
         \A u \in Users : Beside(u)' =>
           \/ Excused(u)'
           \/ /\ Beside(u) /\ user'[u].email = user[u].email
              /\ u \in overlooked => u \in overlooked',
         \A q \in InFlight :
           \/ q \in Requests /\ pc'[q] = pc[q] /\ arg'[q] = arg[q]
           \/ \A u \in Doomed(q) : Beside(u)' => Excused(u)'
  PROVE  SuperAdminsDoNotBook'
<1> SUFFICES ASSUME NEW u \in Users, Beside(u)'
             PROVE  Excused(u)'
  BY DEF SuperAdminsDoNotBook, Beside, Excused
<1>1. CASE Excused(u)'
  BY <1>1
<1>2. CASE /\ Beside(u) /\ user'[u].email = user[u].email
           /\ u \in overlooked => u \in overlooked'
  <2>1. CASE u \in overlooked
    BY <1>2, <2>1 DEF Excused
  <2>2. CASE u \notin overlooked
    <3>1. PICK q \in InFlight : u \in Doomed(q)
      BY <1>2, <2>2 DEF SuperAdminsDoNotBook, Beside, Leaving
    <3>2. CASE q \in Requests /\ pc'[q] = pc[q] /\ arg'[q] = arg[q]
      <4>1. Live(user[u])'
        BY DEF Beside
      <4>2. u \in Doomed(q)'
        BY <1>2, <3>1, <3>2, <4>1 DEF Doomed, UserOf, Beside
      <4>3. q \in InFlight'
        BY <3>1, <3>2 DEF InFlight
      <4> QED BY <4>2, <4>3 DEF Excused, Leaving
    <3>3. CASE \A v \in Doomed(q) : Beside(v)' => Excused(v)'
      BY <3>1, <3>3
    <3> QED BY <3>1, <3>2, <3>3
  <2> QED BY <2>1, <2>2
<1> QED BY <1>1, <1>2

(* Nobody comes to be beside a super admin.                                  *)
Quiet ==
  /\ \A u \in Users : Live(user[u])' =>
       Live(user[u]) /\ user'[u].email = user[u].email
  /\ \A e \in Emails : SuperAdmin(e)' => SuperAdmin(e)

LEMMA OthersWait ==
  ASSUME RegistryInv, NEW r \in Requests, NEW a, NEW stage, Enter(r, a, stage)
  PROVE  /\ \A q \in InFlight \ {r} :
              q \in Requests /\ pc'[q] = pc[q] /\ arg'[q] = arg[q]
         /\ pc'[r] = stage /\ arg'[r] = a
         /\ stage # "idle" => r \in InFlight'
BY DEF RegistryInv, TypeOK, RequestsTypeOK, Enter, InFlight

LEMMA LiveRow ==
  ASSUME RegistryInv, NEW u \in Users, Live(user[u])
  PROVE  user[u] \in UserRow /\ user[u].email \in Emails
BY DEF RegistryInv, TypeOK, TablesTypeOK, Live, UserRow

LEMMA QuietBeside ==
  ASSUME RegistryInv, Quiet, NEW u \in Users, Beside(u)'
  PROVE  Beside(u) /\ user'[u].email = user[u].email
<1>1. Live(user[u]) /\ user'[u].email = user[u].email
  BY DEF Quiet, Beside
<1>2. user[u].email \in Emails
  BY <1>1, LiveRow
<1>3. PICK e : e = user[u].email
  OBVIOUS
<1>4. SuperAdmin(e)'
  BY <1>1, <1>3 DEF Beside, SuperAdmin, AccountOf
<1>5. SuperAdmin(e)
  BY <1>2, <1>3, <1>4 DEF Quiet
<1> QED BY <1>1, <1>3, <1>5 DEF Beside

(* A quiet step of one request that clears, or overlooks, whom it had to.    *)
LEMMA QuietStep ==
  ASSUME RegistryInv, SuperAdminsDoNotBook, Quiet, overlooked \subseteq overlooked',
         NEW r \in Requests, NEW a, NEW stage, Enter(r, a, stage),
         \A u \in Doomed(r) : Live(user[u])' => u \in overlooked'
  PROVE  SuperAdminsDoNotBook'
<1>1. \A u \in Users : Beside(u)' =>
           \/ Excused(u)'
           \/ /\ Beside(u) /\ user'[u].email = user[u].email
              /\ u \in overlooked => u \in overlooked'
  BY QuietBeside
<1>2. \A u \in Doomed(r) : Beside(u)' => Excused(u)'
  BY DEF Beside, Excused
<1>3. \A q \in InFlight :
        \/ q \in Requests /\ pc'[q] = pc[q] /\ arg'[q] = arg[q]
        \/ \A u \in Doomed(q) : Beside(u)' => Excused(u)'
  BY <1>2, OthersWait
<1> QED BY <1>1, <1>3, Covered

LEMMA NotDoomed ==
  ASSUME NEW r, pc[r] \notin {"remove", "sync"}
  PROVE  Doomed(r) = {}
BY DEF Doomed

(* Steps that only touch the users table, and how it looks to a super admin. *)
LEMMA SameAccounts ==
  ASSUME UNCHANGED account, NEW e
  PROVE  SuperAdmin(e)' <=> SuperAdmin(e)
BY DEF SuperAdmin, AccountOf

LEMMA StatusQuiet ==
  ASSUME RegistryInv, NEW u \in Users, NEW v \in Users,
         NEW status \in {"pending", "active", "rejected", "revoked"},
         SetStatus(u, status), Live(user[v])'
  PROVE  Live(user[v]) /\ user'[v].email = user[v].email
<1>1. TablesTypeOK
  BY DEF RegistryInv, TypeOK
<1>2. CASE user' = user
  BY <1>2
<1>3. CASE /\ Live(user[u]) /\ user[u] \in UserRow
           /\ user' = [user EXCEPT ![u] = [user[u] EXCEPT !.status = status]]
  BY <1>1, <1>3 DEF Live, TablesTypeOK, UserRow
<1> QED BY <1>1, <1>2, <1>3, StatusSet

LEMMA UserExclusive ==
  ASSUME RegistryInv, SuperAdminsDoNotBook, NEW u \in Users, OnUser(u)
  PROVE  SuperAdminsDoNotBook'
<1>1. UNCHANGED <<account, pc, arg>>
  BY DEF OnUser, Register, Invite, LetIn, Bar, DeleteUser, Expire
<1>2. user \in [Users -> UserRow \cup {None}] /\ InFlight \subseteq Requests
  BY DEF RegistryInv, TypeOK, TablesTypeOK, InFlight
<1>3. \A q \in InFlight : q \in Requests /\ pc'[q] = pc[q] /\ arg'[q] = arg[q]
  BY <1>1, <1>2
<1>4. ASSUME NEW e \in Emails, NEW row \in UserRow, row.email = e, Insert(u, row)
      PROVE  SuperAdminsDoNotBook'
  <2>1. user'[u] = row /\ \A v \in Users \ {u} : user'[v] = user[v]
    BY <1>2, <1>4 DEF Insert
  <2>2. overlooked' = overlooked \cup (IF SuperAdmin(e) THEN {u} ELSE {})
    BY <1>4 DEF Insert, Overlook
  <2>3. ASSUME NEW v \in Users, Beside(v)'
        PROVE  \/ Excused(v)'
               \/ /\ Beside(v) /\ user'[v].email = user[v].email
                  /\ v \in overlooked => v \in overlooked'
    <3>1. SuperAdmin(user[v].email)'
      BY <2>3 DEF Beside
    <3>2. PICK f : f = user'[v].email
      OBVIOUS
    <3>3. SuperAdmin(f)
      BY <1>1, <3>1, <3>2 DEF SuperAdmin, AccountOf
    <3>4. CASE v = u
      BY <1>4, <2>1, <2>2, <3>2, <3>3, <3>4 DEF Excused
    <3>5. CASE v # u
      BY <2>1, <2>2, <2>3, <3>2, <3>3, <3>5 DEF Beside
    <3> QED BY <3>4, <3>5
  <2> QED BY <1>3, <2>3, Covered
<1>5. ASSUME overlooked' = overlooked,
             \A v \in Users : Live(user[v])' =>
               Live(user[v]) /\ user'[v].email = user[v].email
      PROVE  SuperAdminsDoNotBook'
  <2>1. Quiet
    BY <1>1, <1>5, SameAccounts DEF Quiet
  <2> QED BY <1>3, <1>5, <2>1, QuietBeside, Covered
<1>6. ASSUME NEW e \in Emails, Register(u, e)
      PROVE  SuperAdminsDoNotBook'
  <2>1. PICK row : row = [email |-> e, status |-> "pending", role |-> "normal_user",
                          token |-> "none", deleted |-> FALSE]
    OBVIOUS
  <2>2. row \in UserRow /\ row.email = e
    BY <2>1 DEF UserRow, Roles
  <2> QED BY <1>4, <1>6, <2>1, <2>2 DEF Register
<1>7. ASSUME NEW e \in Emails, NEW role \in Roles, Invite(u, e, role)
      PROVE  SuperAdminsDoNotBook'
  <2>1. PICK row : row = [email |-> e, status |-> "pending", role |-> role,
                          token |-> "valid", deleted |-> FALSE]
    OBVIOUS
  <2>2. row \in UserRow /\ row.email = e
    BY <2>1 DEF UserRow
  <2> QED BY <1>4, <1>7, <2>1, <2>2 DEF Invite
<1>8. CASE LetIn(u) \/ Bar(u, "rejected") \/ Bar(u, "revoked")
  BY <1>5, <1>8, StatusQuiet DEF LetIn, Bar
<1>9. CASE DeleteUser(u) \/ Expire(u)
  <2>1. \A v \in Users : Live(user[v])' =>
               Live(user[v]) /\ user'[v].email = user[v].email
    BY <1>2, <1>9 DEF DeleteUser, Expire, Live, UserRow
  <2> QED BY <1>5, <1>9, <2>1 DEF DeleteUser, Expire, histories
<1> QED BY <1>6, <1>7, <1>8, <1>9 DEF OnUser

LEMMA UnchangedQuiet ==
  ASSUME UNCHANGED <<user, account>>
  PROVE  Quiet
BY SameAccounts DEF Quiet

(* Requests that read, and those that only touch the users table.            *)
LEMMA UserWriteExclusive ==
  ASSUME RegistryInv, SuperAdminsDoNotBook, NEW r \in Requests,
         Burn(r) \/ Activate(r) \/ Sync(r) \/ Remove(r)
  PROVE  SuperAdminsDoNotBook'
<1>1. user \in [Users -> UserRow \cup {None}]
  BY DEF RegistryInv, TypeOK, TablesTypeOK
<1>2. UNCHANGED <<account, overlooked>>
  BY DEF Burn, Activate, Sync, Remove, histories
<1>3. ASSUME \A v \in Users : Live(user[v])' =>
               Live(user[v]) /\ user'[v].email = user[v].email,
             \A v \in Doomed(r) : ~ Live(user[v])',
             NEW a, NEW stage, Enter(r, a, stage)
      PROVE  SuperAdminsDoNotBook'
  <2>1. Quiet
    BY <1>2, <1>3, SameAccounts DEF Quiet
  <2> QED BY <1>2, <1>3, <2>1, QuietStep
<1>4. CASE Burn(r)
  <2>1. arg[r].user \in Users
    BY <1>4, Held, Histories DEF Burn, Fits
  <2>2. \A v \in Users : Live(user[v])' =>
               Live(user[v]) /\ user'[v].email = user[v].email
    <3>1. PICK u \in Users : u = arg[r].user
      BY <2>1
    <3>2. user[u] \in UserRow
      BY <1>1, <1>4, <3>1, Held DEF Burn, Fits
    <3>3. CASE UNCHANGED user
      BY <3>3
    <3>4. CASE user' = [user EXCEPT ![u].token = "none"]
      BY <1>1, <3>2, <3>4 DEF Live, UserRow
    <3> QED BY <1>4, <3>1, <3>3, <3>4 DEF Burn
  <2>3. Doomed(r) = {}
    BY <1>4 DEF Burn, Doomed
  <2>4. CASE Return(r)
    BY <1>3, <2>2, <2>3, <2>4 DEF Return
  <2>5. CASE GoTo(r, IF arg[r].role = "normal_user" THEN "activate" ELSE "insert")
    BY <1>3, <2>2, <2>3, <2>5 DEF GoTo
  <2> QED BY <1>4, <2>4, <2>5 DEF Burn
<1>5. CASE Activate(r)
  <2>1. arg[r].user \in Users
    BY <1>5, Held, Histories DEF Activate, Fits
  <2>2. Doomed(r) = {}
    BY <1>5 DEF Activate, Doomed
  <2>3. PICK u \in Users : u = arg[r].user
    BY <2>1
  <2>4. SetStatus(u, "active") /\ Return(r)
    BY <1>5, <2>3 DEF Activate
  <2> QED BY <1>3, <2>2, <2>4, StatusQuiet DEF Return
<1>6. CASE Sync(r)
  <2>1. PICK u : u = arg[r].user
    OBVIOUS
  <2>2. u \in Users
    BY <1>6, <2>1, Held, Histories DEF Sync, Fits
  <2>3. CASE arg[r].role # "super_admin"
    <3>1. Doomed(r) = {}
      BY <1>6, <2>3 DEF Sync, Doomed
    <3>2. SetStatus(u, "active")
      BY <1>6, <2>1, <2>3 DEF Sync
    <3> QED BY <1>3, <1>6, <2>2, <3>1, <3>2, StatusQuiet DEF Sync, Return
  <2>4. CASE arg[r].role = "super_admin"
    <3>1. Doomed(r) = {u}
      BY <1>6, <2>1, <2>4 DEF Sync, Doomed
    <3>2. ~ Live(user'[u]) /\ \A v \in Users : Live(user[v])' =>
               Live(user[v]) /\ user'[v].email = user[v].email
      BY <1>1, <1>6, <2>1, <2>2, <2>4 DEF Sync, Live, UserRow
    <3>3. \A v \in Doomed(r) : ~ Live(user[v])'
      BY <3>1, <3>2
    <3> QED BY <1>3, <1>6, <3>2, <3>3 DEF Sync, Return
  <2> QED BY <2>3, <2>4
<1>7. CASE Remove(r)
  <2>1. Doomed(r) = UserOf(arg[r].email)
    BY <1>7 DEF Remove, Doomed
  <2>2. ASSUME NEW v \in Users
        PROVE  /\ v \in Doomed(r) => ~ Live(user'[v])
               /\ v \notin Doomed(r) => user'[v] = user[v]
    <3>1. CASE v \in Doomed(r)
      <4>1. user[v] \in UserRow
        BY <1>1, <2>1, <3>1 DEF UserOf, Live
      <4>2. user'[v] = [user[v] EXCEPT !.deleted = TRUE]
        BY <1>7, <2>1, <3>1 DEF Remove
      <4> QED BY <3>1, <4>1, <4>2, UserDeleted DEF Live
    <3>2. CASE v \notin Doomed(r)
      BY <1>7, <2>1, <3>2 DEF Remove
    <3> QED BY <3>1, <3>2
  <2>3. Doomed(r) \subseteq Users
    BY <2>1 DEF UserOf
  <2>4. \A v \in Users : Live(user[v])' =>
               Live(user[v]) /\ user'[v].email = user[v].email
    BY <2>2
  <2>5. \A v \in Doomed(r) : ~ Live(user[v])'
    BY <2>2, <2>3
  <2> QED BY <1>3, <1>7, <2>4, <2>5 DEF Remove, Return
<1> QED BY <1>4, <1>5, <1>6, <1>7

LEMMA ReadExclusive ==
  ASSUME RegistryInv, SuperAdminsDoNotBook, NEW r \in Requests,
         UNCHANGED <<user, account>>, overlooked \subseteq overlooked',
         Doomed(r) \subseteq overlooked',
         NEW a, NEW stage, Enter(r, a, stage)
  PROVE  SuperAdminsDoNotBook'
BY UnchangedQuiet, QuietStep

(* The edit of a user.                                                       *)
LEMMA UpdateExclusive ==
  ASSUME RegistryInv, SuperAdminsDoNotBook, NEW r \in Requests, NEW u \in Users,
         NEW e \in Emails, NEW role \in Roles, UpdateUser(r, u, e, role)
  PROVE  SuperAdminsDoNotBook'
<1>1. user \in [Users -> UserRow \cup {None}]
  BY DEF RegistryInv, TypeOK, TablesTypeOK
<1>2. PICK a : a = [Blank("update", role) EXCEPT !.user = u, !.email = e]
  OBVIOUS
<1>3. Enter(r, a, "lookup") /\ account' = account
  BY <1>2 DEF UpdateUser
<1>4. Doomed(r) = {}
  BY DEF UpdateUser, Doomed
<1>5. /\ Live(user[u]) /\ user'[u].email = e
      /\ \A v \in Users \ {u} : user'[v] = user[v]
  BY <1>1 DEF UpdateUser, Live, UserRow
<1>6. \A v \in Users \ {u} : v \in overlooked => v \in overlooked'
  BY DEF UpdateUser
<1>7. ASSUME NEW v \in Users, Beside(v)'
      PROVE  \/ Excused(v)'
             \/ /\ Beside(v) /\ user'[v].email = user[v].email
                /\ v \in overlooked => v \in overlooked'
  <2>1. PICK f : f = user'[v].email
    OBVIOUS
  <2>2. SuperAdmin(f)
    BY <1>3, <1>7, <2>1 DEF Beside, SuperAdmin, AccountOf
  <2>3. CASE v # u
    BY <1>5, <1>6, <1>7, <2>1, <2>2, <2>3 DEF Beside
  <2>4. CASE v = u /\ e = user[u].email
    BY <1>5, <2>1, <2>2, <2>4 DEF Beside, UpdateUser
  <2>5. CASE v = u /\ e # user[u].email
    BY <1>5, <2>1, <2>2, <2>5 DEF Excused, UpdateUser
  <2> QED BY <2>3, <2>4, <2>5
<1>8. \A q \in InFlight :
        \/ q \in Requests /\ pc'[q] = pc[q] /\ arg'[q] = arg[q]
        \/ \A v \in Doomed(q) : Beside(v)' => Excused(v)'
  BY <1>3, <1>4, OthersWait
<1> QED BY <1>7, <1>8, Covered

(* One account changes: no address gains a super admin but its own.          *)
LEMMA OneAccount ==
  ASSUME RegistryInv, NEW c \in Accounts, NEW row \in AccountRow,
         account' = [account EXCEPT ![c] = row], NEW e, SuperAdmin(e)'
  PROVE  SuperAdmin(e) \/ (row.email = e /\ row.role = "super_admin" /\ Live(row))
<1>1. account \in [Accounts -> AccountRow \cup {None}]
  BY DEF RegistryInv, TypeOK, TablesTypeOK
<1>2. PICK d \in Accounts : /\ Live(account'[d]) /\ account'[d].email = e
                            /\ account'[d].role = "super_admin"
  BY DEF SuperAdmin, AccountOf
<1>3. CASE d = c
  BY <1>1, <1>2, <1>3
<1>4. CASE d # c
  <2>1. account'[d] = account[d]
    BY <1>1, <1>4
  <2> QED BY <1>2, <2>1 DEF SuperAdmin, AccountOf
<1> QED BY <1>3, <1>4

(* ... so it suffices to excuse the users at that address.                   *)
LEMMA AccountExclusive ==
  ASSUME RegistryInv, SuperAdminsDoNotBook, NEW r \in Requests,
         NEW c \in Accounts, NEW row \in AccountRow,
         account' = [account EXCEPT ![c] = row], user' = user,
         overlooked \subseteq overlooked', Doomed(r) = {},
         NEW a, NEW stage, Enter(r, a, stage),
         row.role = "super_admin" /\ Live(row) /\ ~ SuperAdmin(row.email)
           => \A u \in UserOf(row.email) : Excused(u)'
  PROVE  SuperAdminsDoNotBook'
<1>1. ASSUME NEW u \in Users, Beside(u)'
      PROVE  \/ Excused(u)'
             \/ /\ Beside(u) /\ user'[u].email = user[u].email
                /\ u \in overlooked => u \in overlooked'
  <2>1. PICK e : e = user[u].email
    OBVIOUS
  <2>2. Live(user[u]) /\ SuperAdmin(e)'
    BY <1>1, <2>1 DEF Beside, SuperAdmin, AccountOf
  <2>3. CASE SuperAdmin(e)
    BY <2>1, <2>2, <2>3 DEF Beside
  <2>4. CASE ~ SuperAdmin(e)
    <3>1. row.email = e /\ row.role = "super_admin" /\ Live(row)
      BY <2>2, <2>4, OneAccount
    <3>2. u \in UserOf(e)
      BY <2>1, <2>2 DEF UserOf
    <3> QED BY <2>4, <3>1, <3>2
  <2> QED BY <2>3, <2>4
<1>2. \A q \in InFlight :
        \/ q \in Requests /\ pc'[q] = pc[q] /\ arg'[q] = arg[q]
        \/ \A u \in Doomed(q) : Beside(u)' => Excused(u)'
  BY OthersWait
<1> QED BY <1>1, <1>2, Covered

LEMMA InsertAdminExclusive ==
  ASSUME RegistryInv, SuperAdminsDoNotBook, NEW r \in Requests, InsertAdmin(r)
  PROVE  SuperAdminsDoNotBook'
<1>1. PICK a : a = arg[r]
  OBVIOUS
<1>2. pc[r] = "insert" /\ Doomed(r) = {} /\ user' = user
  BY DEF InsertAdmin, Doomed
<1>3. a.email \in Emails /\ a.role \in AdminRoles
  BY <1>1, <1>2, Held DEF Fits
<1>4. overlooked \subseteq overlooked'
  BY DEF InsertAdmin, Overlook
<1>5. CASE Return(r) /\ UNCHANGED account
  BY <1>2, <1>4, <1>5, ReadExclusive DEF Return
<1>6. CASE ~(Return(r) /\ UNCHANGED account)
  <2>1. PICK c \in Accounts :
          account' = [account EXCEPT ![c] =
               [email |-> a.email, role |-> a.role, deleted |-> FALSE]]
    BY <1>1, <1>6 DEF InsertAdmin
  <2>2. PICK row : row = [email |-> a.email, role |-> a.role, deleted |-> FALSE]
    OBVIOUS
  <2>3. row \in AccountRow /\ row.email = a.email /\ row.role = a.role
    BY <1>3, <2>2 DEF AccountRow
  <2>4. /\ \/ a.op = "create" /\ ThenRemove(r)
           \/ /\ a.op # "create" /\ GoTo(r, "sync")
              /\ Overlook(IF a.role = "super_admin"
                          THEN UserOf(a.email) \ {a.user} ELSE {})
    BY <1>1, <1>6 DEF InsertAdmin
  <2>5. ASSUME a.role = "super_admin", NEW u \in UserOf(a.email)
        PROVE  Excused(u)'
    <3>1. CASE a.op = "create"
      <4>1. Enter(r, a, "remove")
        BY <1>1, <2>4, <2>5, <3>1 DEF ThenRemove, GoTo
      <4>2. r \in InFlight' /\ pc'[r] = "remove" /\ arg'[r] = a
        BY <4>1, OthersWait
      <4>3. u \in Doomed(r)'
        BY <1>2, <2>5, <4>2 DEF Doomed, UserOf
      <4> QED BY <4>2, <4>3 DEF Excused, Leaving
    <3>2. CASE a.op # "create" /\ u # a.user
      BY <2>4, <2>5, <3>2 DEF Overlook, Excused
    <3>3. CASE a.op # "create" /\ u = a.user
      <4>1. Enter(r, a, "sync")
        BY <1>1, <2>4, <3>3 DEF GoTo
      <4>2. r \in InFlight' /\ pc'[r] = "sync" /\ arg'[r] = a
        BY <4>1, OthersWait
      <4>3. u \in Doomed(r)'
        BY <2>5, <3>3, <4>2 DEF Doomed
      <4> QED BY <4>2, <4>3 DEF Excused, Leaving
    <3> QED BY <3>1, <3>2, <3>3
  <2>6. \E b, stage : Enter(r, b, stage)
    BY <2>4 DEF ThenRemove, GoTo, Return
  <2> QED BY <1>2, <1>4, <2>1, <2>2, <2>3, <2>5, <2>6, AccountExclusive
<1> QED BY <1>5, <1>6

LEMMA WriteRoleExclusive ==
  ASSUME RegistryInv, SuperAdminsDoNotBook, NEW r \in Requests, WriteRole(r)
  PROVE  SuperAdminsDoNotBook'
<1>1. PICK a : a = arg[r]
  OBVIOUS
<1>2. PICK c : c = a.account
  OBVIOUS
<1>3. Fits(a, "write") /\ Doomed(r) = {} /\ user' = user
  BY <1>1, Held DEF WriteRole, Doomed
<1>4. c \in Accounts /\ account[c] # None /\ a.role \in AdminRoles
      /\ account[c].email = a.email
  BY <1>2, <1>3 DEF Fits
<1>5. account[c] \in AccountRow
  BY <1>4 DEF RegistryInv, TypeOK, TablesTypeOK
<1>6. PICK row : row = [account[c] EXCEPT !.role = a.role]
  OBVIOUS
<1>7. /\ row \in AccountRow /\ row.email = a.email /\ row.role = a.role
      /\ row.deleted = account[c].deleted
  BY <1>4, <1>5, <1>6, AccountWithRole
<1>8. account' = [account EXCEPT ![c] = row]
  BY <1>1, <1>2, <1>6 DEF WriteRole
<1>9. overlooked \subseteq overlooked'
  BY DEF WriteRole, Overlook
<1>10. \E b, stage : Enter(r, b, stage)
  BY DEF WriteRole, ThenRemove, GoTo, Return
<1>11. ASSUME a.role = "super_admin", Live(row), ~ SuperAdmin(a.email),
              NEW u \in UserOf(a.email)
       PROVE  Excused(u)'
  <2>1. Live(account[c])
    BY <1>4, <1>7, <1>11 DEF Live
  <2>2. account[c].role # "super_admin"
    BY <1>4, <1>11, <2>1 DEF SuperAdmin, AccountOf
  <2>3. CASE a.seen = "super_admin"
    BY <1>1, <1>2, <1>11, <2>1, <2>2, <2>3 DEF WriteRole, Overlook, Excused
  <2>4. CASE a.seen # "super_admin"
    <3>1. Enter(r, a, "remove")
      BY <1>1, <1>11, <2>4 DEF WriteRole, ThenRemove, GoTo
    <3>2. r \in InFlight' /\ pc'[r] = "remove" /\ arg'[r] = a
      BY <3>1, OthersWait
    <3>3. u \in Doomed(r)'
      BY <1>3, <1>11, <3>2 DEF Doomed, UserOf
    <3> QED BY <3>2, <3>3 DEF Excused, Leaving
  <2> QED BY <2>3, <2>4
<1> QED BY <1>3, <1>4, <1>7, <1>8, <1>9, <1>10, <1>11, AccountExclusive

LEMMA DeleteAccountExclusive ==
  ASSUME RegistryInv, SuperAdminsDoNotBook, NEW r \in Requests, DeleteAccount(r)
  PROVE  SuperAdminsDoNotBook'
<1>1. PICK c : c = arg[r].account
  OBVIOUS
<1>2. /\ user' = user /\ Doomed(r) = {} /\ overlooked' = overlooked
      /\ \E b, stage : Enter(r, b, stage)
  BY DEF DeleteAccount, Doomed, histories, GoTo, Return
<1>3. c \in Accounts /\ account[c] # None
  BY <1>1, Held DEF DeleteAccount, Fits
<1>4. account[c] \in AccountRow
  BY <1>3 DEF RegistryInv, TypeOK, TablesTypeOK
<1>5. PICK row : row = [account[c] EXCEPT !.deleted = TRUE]
  OBVIOUS
<1>6. row \in AccountRow /\ ~ Live(row)
  BY <1>4, <1>5, AccountDeleted DEF Live
<1>7. CASE UNCHANGED account
  BY <1>2, <1>7, ReadExclusive
<1>8. CASE account' = [account EXCEPT ![c] = row]
  BY <1>2, <1>3, <1>6, <1>8, AccountExclusive
<1> QED BY <1>1, <1>5, <1>7, <1>8 DEF DeleteAccount

LEMMA RequestExclusive ==
  ASSUME RegistryInv, SuperAdminsDoNotBook, NEW r \in Requests, Handle(r)
  PROVE  SuperAdminsDoNotBook'
<1>1. CASE pc[r] = "idle" /\ ~ \E u \in Users, e \in Emails, role \in Roles :
                                    UpdateUser(r, u, e, role)
  <2>1. UNCHANGED <<user, account, overlooked>> /\ \E a, stage : Enter(r, a, stage)
    BY <1>1 DEF Handle, ReadLink, Promote, CreateAdmin, ReadAccount, histories,
                Burn, Activate, Lookup, InsertAdmin, Sync, WriteRole,
                DeleteAccount, Remove, Fail
  <2> QED BY <1>1, <2>1, NotDoomed, ReadExclusive
<1>2. CASE \E u \in Users, e \in Emails, role \in Roles : UpdateUser(r, u, e, role)
  BY <1>2, UpdateExclusive
<1>3. CASE Burn(r) \/ Activate(r) \/ Sync(r) \/ Remove(r)
  BY <1>3, UserWriteExclusive
<1>4. CASE Lookup(r)
  <2>1. UNCHANGED <<user, account, overlooked>> /\ \E a, stage : Enter(r, a, stage)
    BY <1>4 DEF Lookup, GoTo, Return
  <2> QED BY <1>4, <2>1, NotDoomed, ReadExclusive DEF Lookup
<1>5. CASE InsertAdmin(r) \/ WriteRole(r) \/ DeleteAccount(r)
  BY <1>5, InsertAdminExclusive, WriteRoleExclusive, DeleteAccountExclusive
<1>6. CASE Fail(r)
  BY <1>6, ReadExclusive DEF Fail, Overlook, Return
<1> QED BY <1>1, <1>2, <1>3, <1>4, <1>5, <1>6
        DEF Handle, ReadLink, Promote, CreateAdmin, ReadAccount

LEMMA RestartExclusive ==
  ASSUME RegistryInv, SuperAdminsDoNotBook, Restart
  PROVE  SuperAdminsDoNotBook'
<1>1. user' = user /\ UNION {Doomed(r) : r \in InFlight} \subseteq overlooked'
      /\ overlooked \subseteq overlooked'
  BY DEF Restart, Overlook
<1>2. ASSUME NEW q \in InFlight, NEW u \in Doomed(q)
      PROVE  Excused(u)'
  BY <1>1, <1>2 DEF Excused
<1>3. ASSUME NEW u \in Users, Beside(u)'
      PROVE  \/ Excused(u)'
             \/ /\ Beside(u) /\ user'[u].email = user[u].email
                /\ u \in overlooked => u \in overlooked'
  <2>1. PICK e : e = user[u].email
    OBVIOUS
  <2>2. Live(user[u]) /\ SuperAdmin(e)'
    BY <1>1, <1>3, <2>1 DEF Beside, SuperAdmin, AccountOf
  <2>3. CASE SuperAdmin(e)
    BY <1>1, <2>1, <2>2, <2>3 DEF Beside
  <2>4. CASE ~ SuperAdmin(e)
    <3>1. account' # account
      BY <2>2, <2>4, SameAccounts
    <3>2. PICK c \in Accounts : account' = [account EXCEPT ![c] = SeedRow]
      BY <3>1 DEF Restart
    <3>3. SeedRow \in AccountRow /\ SeedRow.email = SeedEmail
      BY DEF SeedRow, AccountRow, AdminRoles
    <3>4. e = SeedEmail
      BY <2>2, <2>4, <3>2, <3>3, OneAccount
    <3>5. u \in UserOf(SeedEmail)
      BY <2>1, <2>2, <3>4 DEF UserOf
    <3>6. UserOf(SeedEmail) \subseteq overlooked'
      BY <3>1 DEF Restart, Overlook
    <3> QED BY <3>5, <3>6 DEF Excused
  <2> QED BY <2>3, <2>4
<1> QED BY <1>2, <1>3, Covered

(* A live users row beside a live super admin is on its way out, or was      *)
(* overlooked for one of the reasons SuperAdminsDoNotBook names.             *)
THEOREM ExclusiveSafety == Spec => []SuperAdminsDoNotBook
<1>1. Init => SuperAdminsDoNotBook
  BY DEF Init, SuperAdminsDoNotBook, Live
<1>2. RegistryInv /\ SuperAdminsDoNotBook /\ [Next]_vars => SuperAdminsDoNotBook'
  <2> SUFFICES ASSUME RegistryInv, SuperAdminsDoNotBook, [Next]_vars
               PROVE  SuperAdminsDoNotBook'
    OBVIOUS
  <2>1. CASE \E u \in Users : OnUser(u)
    BY <2>1, UserExclusive
  <2>2. CASE \E r \in Requests : Handle(r)
    BY <2>2, RequestExclusive
  <2>3. CASE Restart
    BY <2>3, RestartExclusive
  <2>4. CASE UNCHANGED vars
    BY <2>4 DEF vars, SuperAdminsDoNotBook, Leaving, Doomed, InFlight, UserOf,
                SuperAdmin, AccountOf
  <2> QED BY <2>1, <2>2, <2>3, <2>4 DEF Next
<1> QED BY <1>1, <1>2, RegistryInvariance, PTL DEF Spec

-----------------------------------------------------------------------------
(* The registry implements Membership.                                       *)

NoTicket(a, stage) == LinkOf(a, stage) = None /\ WordOf(a, stage) = None
SameTicket(r, a, stage) == /\ LinkOf(a, stage) = LinkOf(arg[r], pc[r])
                           /\ WordOf(a, stage) = WordOf(arg[r], pc[r])

LEMMA Entered ==
  ASSUME RequestsTypeOK, NEW r \in Requests, NEW a, NEW stage, Enter(r, a, stage)
  PROVE  /\ pc'[r] = stage /\ arg'[r] = a
         /\ \A q \in Requests \ {r} : pc'[q] = pc[q] /\ arg'[q] = arg[q]
BY DEF Enter, RequestsTypeOK

(* A request that goes on keeps its ticket, one that ends gives it back.     *)
LEMMA TicketKept ==
  ASSUME RequestsTypeOK, NEW r \in Requests, NEW a, NEW stage,
         Enter(r, a, stage), SameTicket(r, a, stage)
  PROVE  Members!Drop({})
BY Entered DEF Members!Drop, Link, Word, SameTicket

LEMMA TicketDropped ==
  ASSUME RequestsTypeOK, NEW r \in Requests, NEW a, NEW stage,
         Enter(r, a, stage), NoTicket(a, stage)
  PROVE  Members!Drop({r})
<1>1. LinkOf(arg'[r], pc'[r]) = None /\ WordOf(arg'[r], pc'[r]) = None
  BY Entered DEF NoTicket
<1>2. \A q \in Requests \ {r} : pc'[q] = pc[q] /\ arg'[q] = arg[q]
  BY Entered
<1> QED BY <1>1, <1>2 DEF Members!Drop, Link, Word

LEMMA TicketTaken ==
  ASSUME RequestsTypeOK, NEW r \in Requests, NEW a, NEW stage, Enter(r, a, stage)
  PROVE  /\ Link' = [Link EXCEPT ![r] = LinkOf(a, stage)]
         /\ Word' = [Word EXCEPT ![r] = WordOf(a, stage)]
<1>1. LinkOf(arg'[r], pc'[r]) = LinkOf(a, stage)
      /\ WordOf(arg'[r], pc'[r]) = WordOf(a, stage)
  BY Entered
<1>2. \A q \in Requests \ {r} : pc'[q] = pc[q] /\ arg'[q] = arg[q]
  BY Entered
<1> QED BY <1>1, <1>2 DEF Link, Word

LEMMA Returned ==
  ASSUME RequestsTypeOK, NEW r \in Requests, Return(r)
  PROVE  Members!Drop({r})
<1>1. NoTicket(None, "idle")
  BY DEF NoTicket, LinkOf, WordOf
<1>2. Enter(r, None, "idle")
  BY DEF Return
<1> QED BY <1>1, <1>2, TicketDropped

LEMMA TicketsKept ==
  ASSUME UNCHANGED <<pc, arg>>
  PROVE  Members!Drop({})
BY DEF Members!Drop, Link, Word

(* Soft deletions, and steps that change no row, are steps of Membership.    *)
LEMMA LeaveStep ==
  ASSUME NEW gone \in SUBSET Users, NEW done \in SUBSET Requests,
         Members!Leave(gone, done)
  PROVE  Members!Next
BY DEF Members!Next

LEMMA NobodyLeft ==
  ASSUME TablesTypeOK, NEW done \in SUBSET Requests, Members!Drop(done),
         UNCHANGED <<user, vetted, open>>
  PROVE  Members!Next
<1>1. user = [u \in Users |-> IF u \in {} THEN [user[u] EXCEPT !.deleted = TRUE]
                                          ELSE user[u]]
  BY DEF TablesTypeOK
<1>2. Members!Leave({}, done)
  BY <1>1 DEF Members!Leave
<1> QED BY <1>2, LeaveStep

LEMMA ReturnedOnly ==
  ASSUME RegistryInv, NEW r \in Requests, Return(r), UNCHANGED <<user, vetted, open>>
  PROVE  Members!Next
<1>1. RequestsTypeOK /\ TablesTypeOK
  BY DEF RegistryInv, TypeOK
<1> QED BY <1>1, Returned, NobodyLeft

LEMMA WentOn ==
  ASSUME RegistryInv, NEW r \in Requests, NEW a, NEW stage, Enter(r, a, stage),
         SameTicket(r, a, stage), UNCHANGED <<user, vetted, open>>
  PROVE  Members!Next
<1>1. RequestsTypeOK /\ TablesTypeOK
  BY DEF RegistryInv, TypeOK
<1> QED BY <1>1, TicketKept, NobodyLeft

(* Statements on one user.                                                   *)
LEMMA InsertMembers ==
  ASSUME RegistryInv, NEW u \in Users, NEW row \in UserRow, Insert(u, row),
         UNCHANGED <<pc, arg, open>>, row.status = "pending", ~row.deleted,
         \/ row.token = "none" /\ vetted' = vetted
         \/ row.token = "valid" /\ vetted' = vetted \cup {u}
  PROVE  Members!Next
<1>1. user \in [Users -> UserRow \cup {None}]
  BY DEF RegistryInv, TypeOK, TablesTypeOK
<1>2. /\ user[u] = None /\ user' = [user EXCEPT ![u] = row] /\ user'[u] = row
      /\ UserOf(row.email) = {}
  BY <1>1 DEF Insert
<1>3. Members!At(row.email) = {}
  BY <1>2 DEF UserOf, Live, Members!At, Members!Live
<1>4. Members!Join(u)
  BY <1>2, <1>3, TicketsKept DEF Members!Join
<1> QED BY <1>4 DEF Members!Next

LEMMA OnUserMembers ==
  ASSUME RegistryInv, NEW u \in Users, OnUser(u)
  PROVE  Members!Next
<1>1. user \in [Users -> UserRow \cup {None}]
  BY DEF RegistryInv, TypeOK, TablesTypeOK
<1>2. ASSUME NEW e \in Emails, Register(u, e)
      PROVE  Members!Next
  <2> DEFINE row == [email |-> e, status |-> "pending", role |-> "normal_user",
                     token |-> "none", deleted |-> FALSE]
  <2>1. row \in UserRow
    BY DEF UserRow, Roles
  <2>2. row.status = "pending" /\ ~row.deleted /\ row.token = "none"
    OBVIOUS
  <2>3. Insert(u, row) /\ UNCHANGED <<pc, arg, open, vetted>>
    BY <1>2 DEF Register
  <2> QED BY <2>1, <2>2, <2>3, InsertMembers
<1>3. ASSUME NEW e \in Emails, NEW role \in Roles, Invite(u, e, role)
      PROVE  Members!Next
  <2> DEFINE row == [email |-> e, status |-> "pending", role |-> role,
                     token |-> "valid", deleted |-> FALSE]
  <2>1. row \in UserRow
    BY DEF UserRow
  <2>2. row.status = "pending" /\ ~row.deleted /\ row.token = "valid"
    OBVIOUS
  <2>3. Insert(u, row) /\ UNCHANGED <<pc, arg, open>> /\ vetted' = vetted \cup {u}
    BY <1>3 DEF Invite
  <2> QED BY <2>1, <2>2, <2>3, InsertMembers
<1>4. CASE LetIn(u)
  <2>1. Members!LetIn(u)
    BY <1>4, TicketsKept DEF LetIn, SetStatus, Live, Members!LetIn, Members!Live
  <2> QED BY <2>1 DEF Members!Next
<1>5. ASSUME NEW status \in Barred, Bar(u, status)
      PROVE  Members!Next
  <2>1. Clicks(u) # {} <=> \E t \in Requests : Link[t] = u
    BY DEF Clicks, Link, LinkOf, InFlight
  <2>2. Members!Bar(u)
    BY <1>5, <2>1, TicketsKept
       DEF Bar, Barred, SetStatus, Live, Members!Bar, Members!Live
  <2> QED BY <2>2 DEF Members!Next
<1>6. CASE DeleteUser(u)
  <2>1. Members!Leave({u}, {})
    BY <1>1, <1>6, TicketsKept
       DEF DeleteUser, histories, Live, Members!Leave, Members!Live
  <2> QED BY <2>1, LeaveStep
<1>7. CASE Expire(u)
  <2>1. Members!Expire(u)
    BY <1>7, TicketsKept DEF Expire, histories, Members!Expire
  <2> QED BY <2>1 DEF Members!Next
<1> QED BY <1>2, <1>3, <1>4, <1>5, <1>6, <1>7 DEF OnUser, Barred


(* A link is opened, or an admin decides to promote a user.                  *)
LEMMA TakeStep ==
  ASSUME RegistryInv, NEW r \in Requests, NEW u \in Users,
         NEW a, NEW stage, Enter(r, a, stage), user[u] # None,
         LinkOf(arg[r], pc[r]) = None, WordOf(arg[r], pc[r]) = None,
         UNCHANGED <<user, open>>,
         \/ /\ LinkOf(a, stage) = u /\ WordOf(a, stage) = None
            /\ user[u].token # "none" /\ vetted' = vetted
         \/ /\ LinkOf(a, stage) = None /\ WordOf(a, stage) = u
            /\ vetted' = vetted \cup {u}
  PROVE  Members!Next
<1>1. Link[r] = None /\ Word[r] = None
  BY DEF Link, Word
<1>2. /\ Link' = [Link EXCEPT ![r] = LinkOf(a, stage)]
      /\ Word' = [Word EXCEPT ![r] = WordOf(a, stage)]
  BY TicketTaken DEF RegistryInv, TypeOK
<1>3. [Link EXCEPT ![r] = None] = Link /\ [Word EXCEPT ![r] = None] = Word
  BY <1>1 DEF Link, Word
<1>4. Members!Take(r, u)
  BY <1>1, <1>2, <1>3 DEF Members!Take
<1> QED BY <1>4 DEF Members!Next

LEMMA Idle ==
  ASSUME NEW r \in Requests, pc[r] = "idle"
  PROVE  LinkOf(arg[r], pc[r]) = None /\ WordOf(arg[r], pc[r]) = None
BY DEF LinkOf, WordOf

LEMMA Starts ==
  ASSUME RegistryInv, NEW r \in Requests, pc[r] = "idle", NEW a, NEW stage,
         Enter(r, a, stage), NoTicket(a, stage), UNCHANGED <<user, vetted, open>>
  PROVE  Members!Next
BY Idle, WentOn DEF NoTicket, SameTicket

LEMMA ReadLinkMembers ==
  ASSUME RegistryInv, NEW r \in Requests, NEW u \in Users, ReadLink(r, u)
  PROVE  Members!Next
<1> DEFINE a == [Blank("confirm", user[u].role) EXCEPT
                   !.user = u, !.email = user[u].email]
<1>1. LinkOf(a, "burn") = u /\ WordOf(a, "burn") = None
  BY DEF Blank, LinkOf, WordOf
<1>2. Enter(r, a, "burn") /\ pc[r] = "idle"
  BY DEF ReadLink
<1> HIDE DEF a
<1>3. user[u] # None /\ user[u].token # "none" /\ UNCHANGED <<user, open, vetted>>
  BY DEF ReadLink, histories
<1> QED BY <1>1, <1>2, <1>3, Idle, TakeStep

LEMMA PromoteMembers ==
  ASSUME RegistryInv, NEW r \in Requests, NEW u \in Users, NEW role \in AdminRoles,
         Promote(r, u, role)
  PROVE  Members!Next
<1> DEFINE a == [Blank("promote", role) EXCEPT !.user = u, !.email = user[u].email]
<1>1. LinkOf(a, "insert") = None /\ WordOf(a, "insert") = u
  BY DEF Blank, LinkOf, WordOf
<1>2. Enter(r, a, "insert") /\ pc[r] = "idle"
  BY DEF Promote
<1> HIDE DEF a
<1>3. user[u] # None /\ UNCHANGED <<user, open>> /\ vetted' = vetted \cup {u}
  BY DEF Promote, Live
<1> QED BY <1>1, <1>2, <1>3, Idle, TakeStep

LEMMA UpdateMembers ==
  ASSUME RegistryInv, NEW r \in Requests, NEW u \in Users, NEW e \in Emails,
         NEW role \in Roles, UpdateUser(r, u, e, role)
  PROVE  Members!Next
<1> DEFINE a == [Blank("update", role) EXCEPT !.user = u, !.email = e]
<1>1. NoTicket(a, "lookup")
  BY DEF Blank, LinkOf, WordOf, NoTicket
<1>2. Enter(r, a, "lookup") /\ pc[r] = "idle"
  BY DEF UpdateUser
<1> HIDE DEF a
<1>3. Members!Drop({})
  BY <1>1, <1>2, Idle, TicketKept DEF RegistryInv, TypeOK, NoTicket, SameTicket
<1>4. user \in [Users -> UserRow \cup {None}] /\ Live(user[u])
  BY DEF UpdateUser, RegistryInv, TypeOK, TablesTypeOK
<1>5. user[u] \in UserRow
  BY <1>4 DEF Live
<1>6. /\ user' = [user EXCEPT ![u] = [user[u] EXCEPT !.email = e]]
      /\ UserOf(e) \subseteq {u} /\ UNCHANGED <<vetted, open>>
  BY DEF UpdateUser
<1>7. user'[u] = [user[u] EXCEPT !.email = e]
  BY <1>4, <1>6
<1>8. user'[u] \in UserRow /\ user'[u].email = e
  BY <1>5, <1>7, UserWithEmail
<1>9. Members!At(e) \subseteq {u}
  BY <1>6 DEF UserOf, Live, Members!At, Members!Live
<1>10. Members!Move(u)
  BY <1>3, <1>4, <1>6, <1>8, <1>9 DEF Live, Members!Move, Members!Live
<1> QED BY <1>10 DEF Members!Next

LEMMA LookupMembers ==
  ASSUME RegistryInv, NEW r \in Requests, Lookup(r)
  PROVE  Members!Next
<1>1. arg[r] \in Arg /\ Fits(arg[r], "lookup") /\ arg[r].user \in Users
  BY Held DEF Lookup, Fits
<1>2. /\ LinkOf(arg[r], pc[r]) = None /\ WordOf(arg[r], pc[r]) = None
      /\ arg[r].op = "update"
  BY <1>1 DEF Lookup, LinkOf, WordOf, Fits
<1>3. UNCHANGED <<user, open>>
  BY DEF Lookup
<1>4. CASE Return(r) /\ UNCHANGED vetted
  BY <1>3, <1>4, ReturnedOnly
<1>5. CASE GoTo(r, "insert") /\ vetted' = vetted \cup {arg[r].user}
  <2>1. LinkOf(arg[r], "insert") = None /\ WordOf(arg[r], "insert") = arg[r].user
    BY <1>2 DEF LinkOf, WordOf
  <2>2. user[arg[r].user] # None
    BY <1>1 DEF Fits
  <2> QED BY <1>1, <1>2, <1>3, <1>5, <2>1, <2>2, TakeStep DEF GoTo
<1>6. ASSUME NEW c \in Accounts, Enter(r, [arg[r] EXCEPT !.account = c], "delete"),
             UNCHANGED vetted
      PROVE  Members!Next
  <2> DEFINE a == [arg[r] EXCEPT !.account = c]
  <2>1. a.op = arg[r].op
    BY <1>1 DEF Arg
  <2>2. SameTicket(r, a, "delete")
    BY <1>2, <2>1 DEF SameTicket, LinkOf, WordOf
  <2> HIDE DEF a
  <2>3. Enter(r, a, "delete")
    BY <1>6 DEF a
  <2> QED BY <1>3, <1>6, <2>2, <2>3, WentOn
<1>7. \/ Return(r) /\ UNCHANGED vetted
      \/ GoTo(r, "insert") /\ vetted' = vetted \cup {arg[r].user}
      \/ \E c \in Accounts :
           Enter(r, [arg[r] EXCEPT !.account = c], "delete") /\ UNCHANGED vetted
  BY DEF Lookup, AccountOf
<1> QED BY <1>4, <1>5, <1>6, <1>7


LEMMA ReadAccountMembers ==
  ASSUME RegistryInv, NEW r \in Requests, NEW c \in Accounts,
         NEW op \in {"setrole", "deladmin"}, NEW role \in AdminRoles,
         ReadAccount(r, c, op, role)
  PROVE  Members!Next
<1>1. pc[r] = "idle" /\ UNCHANGED <<user, vetted, open>>
  BY DEF ReadAccount, histories
<1>2. ASSUME NEW e, NEW s
      PROVE  NoTicket([Blank(op, role) EXCEPT !.account = c, !.email = e,
                         !.seen = s], "write")
  BY DEF Blank, NoTicket, LinkOf, WordOf
<1>3. ASSUME NEW e
      PROVE  NoTicket([Blank(op, role) EXCEPT !.account = c, !.email = e], "delete")
  BY DEF Blank, NoTicket, LinkOf, WordOf
<1>4. ASSUME NEW a, NEW stage, Enter(r, a, stage), NoTicket(a, stage)
      PROVE  Members!Next
  BY <1>1, <1>4, Starts
<1>5. \/ \E e, s : Enter(r, [Blank(op, role) EXCEPT !.account = c, !.email = e,
                               !.seen = s], "write")
      \/ \E e : Enter(r, [Blank(op, role) EXCEPT !.account = c, !.email = e],
                      "delete")
  BY DEF ReadAccount
<1> QED BY <1>2, <1>3, <1>4, <1>5

LEMMA CreateAdminMembers ==
  ASSUME RegistryInv, NEW r \in Requests, NEW e \in Emails, NEW role \in AdminRoles,
         CreateAdmin(r, e, role)
  PROVE  Members!Next
<1> DEFINE a == [Blank("create", role) EXCEPT !.email = e]
<1>1. NoTicket(a, "insert")
  BY DEF Blank, NoTicket, LinkOf, WordOf
<1>2. Enter(r, a, "insert") /\ pc[r] = "idle"
  BY DEF CreateAdmin
<1> HIDE DEF a
<1>3. UNCHANGED <<user, vetted, open>>
  BY DEF CreateAdmin, histories
<1> QED BY <1>1, <1>2, <1>3, Starts

(* A link is burned, and its request ends or goes on.                        *)
LEMMA BurnMembers ==
  ASSUME RegistryInv, NEW r \in Requests, Burn(r)
  PROVE  Members!Next
<1> DEFINE u == arg[r].user
<1>1. /\ arg[r].op = "confirm" /\ u \in Users /\ user[u] # None
      /\ pc[r] = "burn" /\ UNCHANGED <<vetted, open>>
  BY Held DEF Burn, Fits, histories
<1>2. Link[r] = u
  BY <1>1 DEF Link, LinkOf
<1>3. ASSUME NEW stage \in {"activate", "insert"}, GoTo(r, stage)
      PROVE  Enter(r, arg[r], stage) /\ SameTicket(r, arg[r], stage)
  BY <1>1, <1>3 DEF GoTo, SameTicket, LinkOf, WordOf
<1>4. Members!Drop({r}) \/ (user[u].token # "expired" /\ Members!Drop({}))
  <2>1. Return(r) \/ (user[u].token # "expired"
                       /\ \E stage \in {"activate", "insert"} : GoTo(r, stage))
    BY DEF Burn
  <2> QED BY <1>3, <2>1, Returned, TicketKept DEF RegistryInv, TypeOK
<1>5. CASE user' = user
  BY <1>1, <1>4, <1>5, NobodyLeft DEF RegistryInv, TypeOK
<1>6. CASE user' = [user EXCEPT ![u].token = "none"]
  <2>1. Members!Burn(r, u)
    BY <1>1, <1>2, <1>4, <1>6 DEF Members!Burn
  <2> QED BY <1>1, <2>1 DEF Members!Next
<1> QED BY <1>5, <1>6 DEF Burn

(* The UPDATE that a ticket was for.                                         *)
LEMMA AdmitStep ==
  ASSUME RegistryInv, NEW r \in Requests, pc[r] \in {"activate", "sync"},
         arg[r].user \in Users, SetStatus(arg[r].user, "active"), Return(r),
         UNCHANGED <<vetted, open>>
  PROVE  Members!Next
<1> DEFINE u == arg[r].user
<1>1. Fits(arg[r], pc[r])
  BY Held
<1>2. u \in {Link[r], Word[r]} /\ u \in vetted
  BY <1>1 DEF Fits, Link, Word, LinkOf, WordOf
<1>3. Link[r] = u => arg[r].op = "confirm"
  BY DEF Link, LinkOf
<1>4. Link[r] = u /\ Members!Barred(u) => u \in open
  BY <1>1, <1>3 DEF Fits, Members!Barred, Barred
<1>5. Members!Drop({r})
  BY Returned DEF RegistryInv, TypeOK
<1>6. CASE Live(user[u])
  <2>1. user' = [user EXCEPT ![u].status = "active"]
    BY <1>6 DEF SetStatus
  <2>2. Members!Admit(r, u)
    BY <1>2, <1>4, <1>5, <1>6, <2>1 DEF Members!Admit, Members!Live, Live
  <2> QED BY <2>2 DEF Members!Next
<1>7. CASE ~Live(user[u])
  BY <1>7, ReturnedOnly DEF SetStatus
<1> QED BY <1>6, <1>7

LEMMA SyncMembers ==
  ASSUME RegistryInv, NEW r \in Requests, Sync(r)
  PROVE  Members!Next
<1> DEFINE u == arg[r].user
<1>1. u \in Users
  BY Held, Histories DEF Sync, Fits
<1>2. pc[r] = "sync" /\ Return(r) /\ UNCHANGED <<vetted, open>>
  BY DEF Sync, histories
<1>3. CASE SetStatus(u, "active")
  BY <1>1, <1>2, <1>3, AdmitStep
<1>4. CASE Live(user[u]) /\ user' = [user EXCEPT ![u].deleted = TRUE]
  <2>1. user \in [Users -> UserRow \cup {None}]
    BY DEF RegistryInv, TypeOK, TablesTypeOK
  <2>2. Members!Drop({r})
    BY <1>2, Returned DEF RegistryInv, TypeOK
  <2>3. Members!Leave({u}, {r})
    BY <1>1, <1>2, <1>4, <2>1, <2>2 DEF Members!Leave, Members!Live, Live
  <2> QED BY <1>1, <2>3, LeaveStep
<1>5. CASE UNCHANGED user
  BY <1>2, <1>5, ReturnedOnly
<1> QED BY <1>3, <1>4, <1>5 DEF Sync

(* The rest of a promotion, and the Admins page.                             *)
LEMMA InsertAdminMembers ==
  ASSUME RegistryInv, NEW r \in Requests, InsertAdmin(r)
  PROVE  Members!Next
<1>1. pc[r] = "insert" /\ UNCHANGED <<user, vetted, open>>
  BY DEF InsertAdmin
<1>2. CASE Return(r)
  BY <1>1, <1>2, ReturnedOnly
<1>3. CASE GoTo(r, "sync")
  <2>1. Enter(r, arg[r], "sync") /\ SameTicket(r, arg[r], "sync")
    BY <1>1, <1>3 DEF GoTo, SameTicket, LinkOf, WordOf
  <2> QED BY <1>1, <2>1, WentOn
<1>4. CASE GoTo(r, "remove") /\ arg[r].op = "create"
  <2>1. Enter(r, arg[r], "remove") /\ NoTicket(arg[r], "remove")
    BY <1>4 DEF GoTo, NoTicket, LinkOf, WordOf
  <2>2. Members!Drop({r})
    BY <2>1, TicketDropped DEF RegistryInv, TypeOK
  <2> QED BY <1>1, <2>2, NobodyLeft DEF RegistryInv, TypeOK
<1> QED BY <1>2, <1>3, <1>4 DEF InsertAdmin, ThenRemove

LEMMA AdminsPageMembers ==
  ASSUME RegistryInv, NEW r \in Requests, WriteRole(r) \/ DeleteAccount(r)
  PROVE  Members!Next
<1>1. pc[r] \in {"write", "delete"} /\ UNCHANGED <<user, vetted, open>>
  BY DEF WriteRole, DeleteAccount, histories
<1>2. CASE Return(r)
  BY <1>1, <1>2, ReturnedOnly
<1>3. CASE GoTo(r, "remove")
  <2>1. Enter(r, arg[r], "remove") /\ SameTicket(r, arg[r], "remove")
    BY <1>1, <1>3 DEF GoTo, SameTicket, LinkOf, WordOf
  <2> QED BY <1>1, <2>1, WentOn
<1> QED BY <1>2, <1>3 DEF WriteRole, DeleteAccount, ThenRemove

LEMMA RemoveMembers ==
  ASSUME RegistryInv, NEW r \in Requests, Remove(r)
  PROVE  Members!Next
<1> DEFINE gone == UserOf(arg[r].email)
<1>1. gone \in SUBSET Users /\ \A u \in gone : Members!Live(user[u])
  BY DEF UserOf, Live, Members!Live
<1>2. Members!Drop({r})
  BY Returned DEF Remove, RegistryInv, TypeOK
<1>3. Members!Leave(gone, {r})
  BY <1>1, <1>2 DEF Remove, histories, Members!Leave
<1> QED BY <1>1, <1>3, LeaveStep

LEMMA RestartMembers ==
  ASSUME RegistryInv, Restart
  PROVE  Members!Next
<1>1. \A q \in Requests : pc'[q] = "idle" /\ arg'[q] = None
  BY DEF Restart
<1>2. Members!Drop(Requests)
  BY <1>1 DEF Members!Drop, Link, Word, LinkOf, WordOf
<1>3. UNCHANGED <<user, vetted, open>>
  BY DEF Restart
<1> QED BY <1>2, <1>3, NobodyLeft DEF RegistryInv, TypeOK

LEMMA HandleMembers ==
  ASSUME RegistryInv, NEW r \in Requests, Handle(r)
  PROVE  Members!Next
<1>1. CASE Activate(r)
  <2>1. pc[r] = "activate" /\ arg[r].user \in Users /\ UNCHANGED <<vetted, open>>
    BY <1>1, Held DEF Activate, Fits, histories
  <2> QED BY <1>1, <2>1, AdmitStep DEF Activate
<1>2. CASE Fail(r)
  BY <1>2, ReturnedOnly DEF Fail
<1> QED BY <1>1, <1>2, ReadLinkMembers, PromoteMembers, UpdateMembers,
           CreateAdminMembers, ReadAccountMembers, BurnMembers, LookupMembers,
           InsertAdminMembers, SyncMembers, AdminsPageMembers, RemoveMembers
        DEF Handle

(* The handlers, statement by statement and failing anywhere, implement the  *)
(* rules of Membership: every step is one of its steps, or changes nothing   *)
(* it knows of.                                                              *)
THEOREM MembershipRefinement == Spec => MembershipSpec
<1>1. Init => Members!Init
  BY DEF Init, Members!Init, Link, Word, LinkOf, WordOf
<1>2. RegistryInv /\ [Next]_vars => [Members!Next]_Members!members
  <2>1. CASE UNCHANGED vars
    BY <2>1 DEF vars, Members!members, Link, Word
  <2>2. CASE Next /\ RegistryInv
    BY <2>2, OnUserMembers, HandleMembers, RestartMembers DEF Next
  <2> QED BY <2>1, <2>2
<1> QED BY <1>1, <1>2, RegistryInvariance, PTL DEF Spec, MembershipSpec, Members!Spec

=============================================================================

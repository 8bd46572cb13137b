----------------------------- MODULE Membership -----------------------------
(* What the users table promises, with no admins table, no statements and no *)
(* failures: who may book is decided by admins, and by the links they send   *)
(* out.  A decision that is on its way holds a ticket, acts once, and gives  *)
(* the ticket back; a link let in only who was invited, and whoever was      *)
(* barred only if the link was in use at the time.                           *)
CONSTANTS
  Users,    \* ids
  Row,      \* rows: an address, a status, a link's state, deleted or not
  Tickets,  \* decisions that can be on their way at a time
  None      \* no row, no user

VARIABLES
  user,    \* the table
  vetted,  \* users an admin invited or let in
  open,    \* users barred while a link of theirs was in use
  link,    \* ticket -> the user whose link is being followed, or None
  word     \* ticket -> the user an admin is letting in, or None

members == <<user, vetted, open, link, word>>

Live(row) == row # None /\ ~row.deleted
At(e) == {u \in Users : Live(user[u]) /\ user[u].email = e}
Barred(u) == user[u].status \in {"rejected", "revoked"}

Init == /\ user = [u \in Users |-> None]
        /\ link = [t \in Tickets |-> None] /\ word = [t \in Tickets |-> None]
        /\ vetted = {} /\ open = {}

(* These tickets are given back, and no other.                               *)
Drop(done) ==
  /\ link' = [t \in Tickets |-> IF t \in done THEN None ELSE link[t]]
  /\ word' = [t \in Tickets |-> IF t \in done THEN None ELSE word[t]]

(* Someone registers, or an admin sends an invitation with a link.  No other *)
(* user has the address.                                                     *)
Join(u) ==
  LET row == user'[u] IN
  /\ user[u] = None /\ row \in Row /\ At(row.email) = {}
  /\ row.status = "pending" /\ ~row.deleted
  /\ user' = [user EXCEPT ![u] = row]
  /\ \/ row.token = "none" /\ UNCHANGED vetted
     \/ row.token = "valid" /\ vetted' = vetted \cup {u}
  /\ UNCHANGED open /\ Drop({})

(* An admin approves or restores.                                            *)
LetIn(u) ==
  /\ Live(user[u]) /\ user' = [user EXCEPT ![u].status = "active"]
  /\ vetted' = vetted \cup {u}
  /\ UNCHANGED open /\ Drop({})

(* An admin rejects or revokes.                                              *)
Bar(u) ==
  /\ Live(user[u])
  /\ \E status \in {"rejected", "revoked"} :
       user' = [user EXCEPT ![u].status = status]
  /\ open' = IF user[u].token # "none" \/ \E t \in Tickets : link[t] = u
             THEN open \cup {u} ELSE open \ {u}
  /\ UNCHANGED vetted /\ Drop({})

(* A link is opened, or an admin decides to promote the user.                *)
Take(t, u) ==
  /\ link[t] = None /\ word[t] = None /\ user[u] # None
  /\ \/ /\ user[u].token # "none"
        /\ link' = [link EXCEPT ![t] = u] /\ UNCHANGED <<vetted, word>>
     \/ /\ word' = [word EXCEPT ![t] = u] /\ vetted' = vetted \cup {u}
        /\ UNCHANGED link
  /\ UNCHANGED <<user, open>>

(* What the ticket was for: the user may book from now on.                   *)
Admit(t, u) ==
  /\ u \in {link[t], word[t]} /\ u \in vetted /\ Live(user[u])
  /\ link[t] = u /\ Barred(u) => u \in open
  /\ user' = [user EXCEPT ![u].status = "active"]
  /\ UNCHANGED <<vetted, open>> /\ Drop({t})

(* The link is used up; an expired one lets nobody in.                       *)
Burn(t, u) ==
  /\ link[t] = u /\ user[u] # None
  /\ user' = [user EXCEPT ![u].token = "none"]
  /\ \/ Drop({t})
     \/ user[u].token # "expired" /\ Drop({})
  /\ UNCHANGED <<vetted, open>>

(* The user gets an address nobody else has.                                 *)
Move(u) ==
  LET e == user'[u].email IN
  /\ Live(user[u]) /\ user'[u] \in Row /\ At(e) \subseteq {u}
  /\ user' = [user EXCEPT ![u].email = e]
  /\ UNCHANGED <<vetted, open>> /\ Drop({})

Expire(u) ==
  /\ user[u] # None /\ user[u].token = "valid"
  /\ user' = [user EXCEPT ![u].token = "expired"]
  /\ UNCHANGED <<vetted, open>> /\ Drop({})

(* Users are deleted softly: rows stay as they were, and never come back.    *)
Leave(gone, done) ==
  /\ \A u \in gone : Live(user[u])
  /\ user' = [u \in Users |-> IF u \in gone THEN [user[u] EXCEPT !.deleted = TRUE]
                                            ELSE user[u]]
  /\ UNCHANGED <<vetted, open>> /\ Drop(done)

Next ==
  \/ \E u \in Users : Join(u) \/ LetIn(u) \/ Bar(u) \/ Move(u) \/ Expire(u)
  \/ \E t \in Tickets, u \in Users : Take(t, u) \/ Admit(t, u) \/ Burn(t, u)
  \/ \E gone \in SUBSET Users, done \in SUBSET Tickets : Leave(gone, done)

Spec == Init /\ [][Next]_members
=============================================================================

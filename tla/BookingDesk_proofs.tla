------------------------- MODULE BookingDesk_proofs -------------------------
(* Proofs about BookingDesk, for any meetings, people, tickets and entries.  *)
EXTENDS BookingDesk, TLAPS

USE DeskAssumption

-----------------------------------------------------------------------------
(* The inductive invariant, by tickets and by meetings.                      *)

Held(row) == row.status = "Booked" /\ row.when \in {"over", "closed"}

(* A ticket about to write has read a row that is there and, unless it was   *)
(* outrun, still names the same people and, for minutes, a held meeting.     *)
WriteSound(t) ==
  LET old == ticket[t].row
      now == meeting[ticket[t].meeting]
  IN /\ Sits(t, "read") => old = Null
     /\ Sits(t, "write") =>
          /\ old = Null => ticket[t].op \in {"cancel", "delete"} /\ t \in lost
          /\ old # Null => now # Null
          /\ old # Null /\ t \notin outrun =>
               /\ now.owner = old.owner /\ now.parts = old.parts
               /\ ticket[t].op = "minutes" => Held(now)

(* Only tickets that changed a row come to be recorded.                      *)
ActSound(t) ==
  /\ Sits(t, "confirm") \/ Sits(t, "audit") \/ Sits(t, "refetch") => t \in acted
  /\ stamp[t] # 0 => t \in acted
  /\ t \in acted => \/ stamp[t] # 0 \/ t \in lost
                    \/ Sits(t, "confirm") \/ Sits(t, "audit")

(* Only creations send mails before they are done; a cancellation that knew  *)
(* the row will write, writes or has written to those it named.              *)
MailSound(t) ==
  /\ ticket[t] = Null \/ (ticket[t].op # "create" /\ ticket[t].step # "done") =>
       todo[t] = {} /\ told[t] = {}
  /\ t \in sure /\ t \notin lost =>
       /\ ticket[t] # Null /\ ticket[t].op = "cancel"
       /\ ticket[t].step \in {"audit", "done"}
       /\ ticket[t].step = "audit" =>
            ticket[t].row # Null /\ Recipients(ticket[t].row) = invited[t]
       /\ ticket[t].step = "done" => told[t] \cup todo[t] = invited[t]

(* Minutes were written by a ticket that has seen the meeting held.          *)
MinutesSound(m) ==
  LET t == meeting[m].minutes IN
  meeting[m] # Null /\ t # Null =>
    /\ ticket[t] # Null /\ ticket[t].op = "minutes" /\ ticket[t].meeting = m
    /\ ticket[t].step \notin {"read", "write"}
    /\ Held(meeting[m]) \/ t \in outrun

TicketsSound == \A t \in Tickets : WriteSound(t) /\ ActSound(t) /\ MailSound(t)
MeetingsSound == \A m \in Meetings : MinutesSound(m)

(* TrailTypeOK is not part of it: what the times are does not matter here.   *)
StampTyped == stamp = [e \in Entries |-> stamp[e]]

DeskInv == DeskTypeOK /\ StampTyped /\ TicketsSound /\ MeetingsSound

-----------------------------------------------------------------------------
(* What the values of a ticket and of a row are made of.                     *)

LEMMA TicketParts ==
  ASSUME NEW r \in Ticket
  PROVE  /\ r.op \in Ops /\ r.step \in Stages /\ r.meeting \in Meetings
         /\ r.by \in People \cup {Null} /\ r.parts \in SUBSET People
         /\ r.row \in MeetingRow \cup {Null}
BY DEF Ticket

LEMMA TicketMoved ==
  ASSUME NEW r \in Ticket, NEW step \in Stages
  PROVE  /\ [r EXCEPT !.step = step] \in Ticket
         /\ [r EXCEPT !.step = step].op = r.op
         /\ [r EXCEPT !.step = step].meeting = r.meeting
         /\ [r EXCEPT !.step = step].step = step
         /\ [r EXCEPT !.step = step].row = r.row
BY DEF Ticket

LEMMA TicketFinished ==
  ASSUME NEW r \in Ticket
  PROVE  /\ Finished(r) \in Ticket /\ Finished(r).op = r.op
         /\ Finished(r).meeting = r.meeting /\ Finished(r).step = "done"
BY DEF Ticket, Finished, Stages

LEMMA RowParts ==
  ASSUME NEW row \in MeetingRow
  PROVE  /\ row.owner \in People /\ row.parts \in SUBSET People /\ row.deleted \in BOOLEAN
         /\ row.status \in {"Booked", "Cancelled"}
         /\ row.when \in {"ahead", "running", "over", "closed"}
         /\ row.minutes \in Tickets \cup {Null}
BY DEF MeetingRow

LEMMA RowEdited ==
  ASSUME NEW row \in MeetingRow
  PROVE  /\ \A ps \in SUBSET People : /\ [row EXCEPT !.parts = ps] \in MeetingRow
                                      /\ [row EXCEPT !.parts = ps].minutes = row.minutes
         /\ [row EXCEPT !.status = "Cancelled"] \in MeetingRow
         /\ [row EXCEPT !.status = "Cancelled"].minutes = row.minutes
         /\ [row EXCEPT !.deleted = TRUE] \in MeetingRow
         /\ [row EXCEPT !.deleted = TRUE].minutes = row.minutes
BY DEF MeetingRow

LEMMA RowMinuted ==
  ASSUME NEW row \in MeetingRow, NEW t \in Tickets
  PROVE  /\ [row EXCEPT !.minutes = t] \in MeetingRow
         /\ [row EXCEPT !.minutes = t].minutes = t
         /\ [row EXCEPT !.minutes = t].status = row.status
         /\ [row EXCEPT !.minutes = t].when = row.when
BY DEF MeetingRow

LEMMA RowTicked ==
  ASSUME NEW row \in MeetingRow, row.when # "closed"
  PROVE  LET next == [row EXCEPT !.when = After[row.when]] IN
         /\ next \in MeetingRow /\ next.owner = row.owner /\ next.parts = row.parts
         /\ next.minutes = row.minutes
         /\ Held(row) => Held(next)
<1>1. After[row.when] \in {"ahead", "running", "over", "closed"}
  BY RowParts DEF After
<1>2. row.when = "over" => After[row.when] = "closed"
  BY DEF After
<1> QED BY <1>1, <1>2 DEF MeetingRow, Held

LEMMA SavedRow ==
  ASSUME NEW o \in People, NEW ps \in SUBSET People,
         NEW status \in {"Booked", "Cancelled"}, NEW old \in MeetingRow \cup {Null}
  PROVE  /\ Saved(o, ps, status, old) \in MeetingRow
         /\ Saved(o, ps, status, old).minutes = IF old = Null THEN Null ELSE old.minutes
BY RowParts DEF Saved, MeetingRow

LEMMA RecipientsTyped ==
  ASSUME NEW row \in MeetingRow \cup {Null}
  PROVE  Recipients(row) \subseteq People
BY RowParts DEF Recipients

-----------------------------------------------------------------------------
(* Frames: a step of one ticket does not touch what makes the others sound.  *)

OwnSound(t) == WriteSound(t) /\ ActSound(t) /\ MailSound(t)

HistoryTyped ==
  /\ todo \in [Tickets -> SUBSET People] /\ told \in [Tickets -> SUBSET People]
  /\ invited \in [Tickets -> SUBSET People]
  /\ acted \subseteq Tickets /\ outrun \subseteq Tickets
  /\ sure \subseteq acted /\ lost \subseteq Tickets

(* Everything that is kept per ticket stays as it is for all but t.          *)
Aside(t) == \A s \in Tickets \ {t} :
  /\ todo'[s] = todo[s] /\ told'[s] = told[s] /\ invited'[s] = invited[s]
  /\ stamp'[s] = stamp[s] /\ ticket'[s] = ticket[s]
  /\ s \in acted' <=> s \in acted
  /\ s \in sure' <=> s \in sure
  /\ s \in lost' <=> s \in lost

LEMMA Bystander ==
  ASSUME DeskInv, NEW t \in Tickets, NEW s \in Tickets \ {t}, Aside(t),
         outrun \subseteq outrun',
         \A m \in Meetings :
           \/ meeting'[m] = meeting[m]
           \/ /\ meeting[m] # Null => meeting'[m] # Null
              /\ ticket[s] # Null /\ ticket[s].meeting = m /\ ticket[s].step # "read"
                   => s \in outrun'
  PROVE  OwnSound(s)'
<1> USE DEF DeskInv, TicketsSound
<1>1. WriteSound(s)'
  <2> SUFFICES ASSUME ticket[s] # Null PROVE WriteSound(s)'
    BY DEF WriteSound, Aside, Sits
  <2>1. ticket'[s] = ticket[s] /\ (s \in lost' <=> s \in lost)
    BY DEF Aside
  <2>2. ticket[s].meeting \in Meetings
    BY TicketParts DEF DeskTypeOK
  <2>3. WriteSound(s)
    OBVIOUS
  <2> QED BY <2>1, <2>2, <2>3 DEF WriteSound, Sits
<1>2. ActSound(s)'
  <2>1. ActSound(s)
    OBVIOUS
  <2> QED BY <2>1 DEF ActSound, Aside, Sits
<1>3. MailSound(s)'
  <2>1. MailSound(s)
    OBVIOUS
  <2>2. /\ ticket'[s] = ticket[s] /\ todo'[s] = todo[s] /\ told'[s] = told[s]
        /\ invited'[s] = invited[s]
        /\ (s \in sure' <=> s \in sure) /\ (s \in lost' <=> s \in lost)
    BY DEF Aside
  <2> QED BY <2>1, <2>2 DEF MailSound, Recipients
<1> QED BY <1>1, <1>2, <1>3 DEF OwnSound

(* A step of one ticket that leaves the bookings alone.                      *)
LEMMA LocalStep ==
  ASSUME DeskInv, NEW t \in Tickets, NEW r \in Ticket,
         ticket' = [ticket EXCEPT ![t] = r], UNCHANGED <<meeting, outrun>>, Aside(t),
         ticket[t] # Null =>
           /\ r.op = ticket[t].op /\ r.meeting = ticket[t].meeting
           /\ ticket[t].step \notin {"read", "write"} => r.step \notin {"read", "write"},
         HistoryTyped', StampTyped', OwnSound(t)'
  PROVE  DeskInv'
<1> USE DEF DeskInv
<1>1. DeskTypeOK'
  BY DEF DeskTypeOK, HistoryTyped
<1>2. \A s \in Tickets \ {t} : OwnSound(s)'
  BY Bystander
<1>3. TicketsSound'
  BY <1>2 DEF TicketsSound, OwnSound
<1>4. ASSUME NEW m \in Meetings PROVE MinutesSound(m)'
  <2> SUFFICES ASSUME meeting[m] # Null, meeting[m].minutes # Null
               PROVE  MinutesSound(m)'
    BY DEF MinutesSound
  <2>1. meeting[m].minutes \in Tickets
    BY RowParts DEF DeskTypeOK
  <2>2. MinutesSound(m)
    BY DEF MeetingsSound
  <2>3. ticket'[meeting[m].minutes] =
          IF meeting[m].minutes = t THEN r ELSE ticket[meeting[m].minutes]
    BY <2>1 DEF DeskTypeOK
  <2> QED BY <2>1, <2>2, <2>3 DEF MinutesSound, Held
<1> QED BY <1>1, <1>3, <1>4 DEF MeetingsSound

(* A step that writes a row for t.                                           *)
LEMMA WriteStep ==
  ASSUME DeskInv, NEW t \in Tickets, NEW m \in Meetings, NEW row \in MeetingRow,
         NEW r \in Ticket, ticket' = [ticket EXCEPT ![t] = r], Writes(t, m, row), Aside(t),
         r.meeting = m, r.step \notin {"read", "write"},
         ticket[t] # Null => Sits(t, "write"),
         \/ row.minutes = Null
         \/ meeting[m] # Null /\ row.minutes = meeting[m].minutes
         \/ row.minutes = t /\ r.op = "minutes" /\ (Held(row) \/ t \in outrun),
         HistoryTyped', StampTyped', OwnSound(t)'
  PROVE  DeskInv'
<1> USE DEF DeskInv
<1>1. /\ meeting' = [meeting EXCEPT ![m] = row] /\ outrun \subseteq outrun'
      /\ \A s \in Tickets \ {t} : /\ ticket[s] # Null /\ ticket[s].meeting = m
                                 /\ ticket[s].step # "read"
                                 => s \in outrun'
  BY DEF Writes
<1>2. row # Null
  OBVIOUS
<1>3. DeskTypeOK'
  BY <1>1 DEF DeskTypeOK, HistoryTyped
<1>4. ASSUME NEW s \in Tickets \ {t} PROVE OwnSound(s)'
  BY <1>1, <1>2, Bystander DEF DeskTypeOK
<1>5. TicketsSound'
  BY <1>4 DEF TicketsSound, OwnSound
<1>6. ASSUME NEW n \in Meetings, meeting[n] # Null, meeting[n].minutes # Null
      PROVE  /\ meeting[n].minutes \in Tickets \ {t}
             /\ MinutesSound(n)
             /\ ticket'[meeting[n].minutes] = ticket[meeting[n].minutes]
  <2>1. meeting[n].minutes \in Tickets /\ MinutesSound(n)
    BY <1>6, RowParts DEF DeskTypeOK, MeetingsSound
  <2>2. meeting[n].minutes # t
    BY <1>6, <2>1 DEF MinutesSound, Sits
  <2> QED BY <2>1, <2>2 DEF Aside
<1>7. ASSUME NEW n \in Meetings PROVE MinutesSound(n)'
  <2>1. CASE n # m
    <3>1. meeting'[n] = meeting[n]
      BY <1>1, <2>1 DEF DeskTypeOK
    <3> QED BY <1>1, <1>6, <3>1 DEF MinutesSound, Held
  <2>2. CASE n = m
    <3>1. meeting'[m] = row
      BY <1>1 DEF DeskTypeOK
    <3>2. CASE row.minutes = Null
      BY <2>2, <3>1, <3>2 DEF MinutesSound
    <3>3. CASE meeting[m] # Null /\ row.minutes = meeting[m].minutes /\ row.minutes # Null
      <4>1. meeting[m].minutes \in outrun'
        BY <1>1, <1>6, <3>3 DEF MinutesSound
      <4> QED BY <1>6, <2>2, <3>1, <3>3, <4>1 DEF MinutesSound
    <3>4. CASE row.minutes = t /\ r.op = "minutes" /\ (Held(row) \/ t \in outrun)
      <4>1. ticket'[t] = r /\ r # Null
        BY DEF DeskTypeOK
      <4> QED BY <1>1, <2>2, <3>1, <3>4, <4>1 DEF MinutesSound, Held
    <3> QED BY <3>2, <3>3, <3>4
  <2> QED BY <2>1, <2>2
<1> QED BY <1>3, <1>5, <1>7 DEF MeetingsSound

-----------------------------------------------------------------------------
(* Requests up to the statement that writes.                                 *)

LEMMA WindowIsHeld ==
  ASSUME NEW row \in MeetingRow, InWindow(row)
  PROVE  Held(row)
<1>1. /\ row.status = "Booked" /\ LiveStatus[row.when] = "Completed"
      /\ row.when \in {"ahead", "running", "over"}
  BY RowParts DEF InWindow, ComputedStatus
<1>2. LiveStatus["ahead"] = "Booked" /\ LiveStatus["running"] = "In Progress"
  BY DEF LiveStatus
<1> QED BY <1>1, <1>2 DEF Held

LEMMA BeginStep ==
  ASSUME DeskInv, NEW t \in Tickets, NEW op \in Ops \ {"create", "update"},
         NEW m \in Meetings, NEW by \in People \cup {Null}, NEW ps \in SUBSET People,
         BeginRequest(t, op, m, by, ps)
  PROVE  DeskInv'
<1> USE DEF DeskInv, DeskTypeOK, HistoryTyped
<1>1. PICK r \in Ticket :
        /\ r = [op |-> op, step |-> "read", meeting |-> m, by |-> by, parts |-> ps,
                row |-> Null]
        /\ r.op = op /\ r.step = "read" /\ r.row = Null
  <2>1. [op |-> op, step |-> "read", meeting |-> m, by |-> by, parts |-> ps,
         row |-> Null] \in Ticket
    BY DEF Ticket, Stages
  <2> QED BY <2>1
<1>2. /\ ticket[t] = Null /\ ticket' = [ticket EXCEPT ![t] = r]
      /\ UNCHANGED <<stamp, meeting, todo, told, invited, acted, outrun, sure, lost>>
  BY <1>1 DEF BeginRequest, Asks, trailVars, deskHistory
<1>3. ticket'[t] = r /\ r # Null
  BY <1>2
<1>4. Aside(t) /\ HistoryTyped' /\ StampTyped'
  BY <1>2 DEF Aside, StampTyped
<1>5. OwnSound(t)'
  BY <1>1, <1>2, <1>3
     DEF TicketsSound, OwnSound, WriteSound, ActSound, MailSound, Sits
<1> QED BY <1>1, <1>2, <1>4, <1>5, LocalStep

LEMMA ReadStep ==
  ASSUME DeskInv, NEW t \in Tickets, ReadRow(t) \/ ReadFails(t)
  PROVE  DeskInv'
<1> USE DEF DeskInv, DeskTypeOK, HistoryTyped
<1>1. /\ ticket[t] \in Ticket /\ ticket[t].step = "read" /\ ticket[t].row = Null
      /\ UNCHANGED <<stamp, meeting, todo, told, invited, acted, outrun, sure>>
  BY DEF ReadRow, ReadFails, Sits, TicketsSound, WriteSound, trailVars, deskHistory
<1>2. PICK m \in Meetings : m = ticket[t].meeting
  BY <1>1, TicketParts
<1>3. ASSUME NEW r \in Ticket, ticket' = [ticket EXCEPT ![t] = r],
             r.op = ticket[t].op, r.meeting = m, r.step \in {"write", "done"},
             lost' \in {lost, lost \cup {t}}, WriteSound(t)'
      PROVE  DeskInv'
  <2>1. ticket'[t] = r /\ r # Null
    BY <1>3
  <2>2. Aside(t) /\ HistoryTyped' /\ StampTyped'
    BY <1>1, <1>3 DEF Aside, StampTyped
  <2>3. OwnSound(t)'
    BY <1>1, <1>3, <2>1 DEF TicketsSound, OwnSound, ActSound, MailSound, Sits
  <2> QED BY <1>1, <1>2, <1>3, <2>2, <2>3, LocalStep
<1>4. CASE ReadRow(t) /\ Passes(t)
  <2>1. PICK row \in MeetingRow : row = meeting[m]
    BY <1>2, <1>4 DEF ReadRow, LiveMeeting
  <2> DEFINE r == [ticket[t] EXCEPT !.step = "write", !.row = row]
  <2>2. /\ r \in Ticket /\ r.op = ticket[t].op /\ r.meeting = m /\ r.step = "write"
        /\ r.row = row
    BY <1>1, <1>2 DEF Ticket, Stages
  <2>3. ticket' = [ticket EXCEPT ![t] = r] /\ UNCHANGED lost
    BY <1>2, <1>4, <2>1 DEF ReadRow, deskHistory
  <2> HIDE DEF r
  <2>4. ticket'[t] = r
    BY <2>2, <2>3
  <2>5. ticket[t].op = "minutes" => Held(row)
    BY <1>2, <1>4, <2>1, WindowIsHeld DEF Passes
  <2>6. WriteSound(t)'
    BY <1>1, <2>1, <2>2, <2>4, <2>5 DEF WriteSound, Sits
  <2> QED BY <1>3, <2>2, <2>3, <2>6
<1>5. CASE ReadRow(t) /\ ~Passes(t)
  <2>1. ticket' = [ticket EXCEPT ![t] = Finished(ticket[t])] /\ UNCHANGED lost
    BY <1>5 DEF ReadRow, Moves, deskHistory
  <2>2. WriteSound(t)'
    BY <1>1, <2>1, TicketFinished DEF WriteSound, Sits
  <2> QED BY <1>1, <1>2, <1>3, <2>1, <2>2, TicketFinished
<1>6. CASE ReadFails(t)
  <2>1. CASE ticket[t].op \in {"cancel", "delete"}
    <3> DEFINE r == [ticket[t] EXCEPT !.step = "write"]
    <3>1. /\ r \in Ticket /\ r.op = ticket[t].op /\ r.meeting = m /\ r.step = "write"
          /\ r.row = Null
      BY <1>1, <1>2, TicketMoved DEF Stages
    <3>2. ticket' = [ticket EXCEPT ![t] = r] /\ lost' = lost \cup {t}
      BY <1>6, <2>1 DEF ReadFails, Moves
    <3> HIDE DEF r
    <3>3. ticket'[t] = r
      BY <3>1, <3>2
    <3>4. WriteSound(t)'
      BY <2>1, <3>1, <3>2, <3>3 DEF WriteSound, Sits
    <3> QED BY <1>3, <3>1, <3>2, <3>4
  <2>2. CASE ticket[t].op \notin {"cancel", "delete"}
    <3>1. ticket' = [ticket EXCEPT ![t] = Finished(ticket[t])] /\ lost' = lost \cup {t}
      BY <1>6, <2>2 DEF ReadFails, Moves
    <3>2. WriteSound(t)'
      BY <1>1, <3>1, TicketFinished DEF WriteSound, Sits
    <3> QED BY <1>1, <1>2, <1>3, <3>1, <3>2, TicketFinished
  <2> QED BY <2>1, <2>2
<1> QED BY <1>4, <1>5, <1>6

(* A request that ends at its statement, failed or with no row to change.    *)
LEMMA GiveUpStep ==
  ASSUME DeskInv, NEW t \in Tickets, Sits(t, "write"), Moves(t, "done"),
         UNCHANGED <<stamp, meeting, todo, told, invited, acted, outrun, sure, lost>>
  PROVE  DeskInv'
<1> USE DEF DeskInv, DeskTypeOK, HistoryTyped
<1> DEFINE r == Finished(ticket[t])
<1>1. /\ ticket[t] \in Ticket /\ ticket[t].step = "write"
      /\ ticket' = [ticket EXCEPT ![t] = r]
  BY DEF Sits, Moves
<1>2. r \in Ticket /\ r.op = ticket[t].op /\ r.meeting = ticket[t].meeting /\ r.step = "done"
  BY <1>1, TicketFinished
<1> HIDE DEF r
<1>3. ticket'[t] = r /\ r # Null
  BY <1>1, <1>2
<1>4. Aside(t) /\ HistoryTyped' /\ StampTyped'
  BY <1>1 DEF Aside, StampTyped
<1>5. OwnSound(t)'
  BY <1>1, <1>2, <1>3 DEF TicketsSound, OwnSound, WriteSound, ActSound, MailSound, Sits
<1> QED BY <1>1, <1>2, <1>4, <1>5, LocalStep

-----------------------------------------------------------------------------
(* Statements that write.                                                    *)

LEMMA CreateStep ==
  ASSUME DeskInv, NEW t \in Tickets, NEW m \in Meetings, NEW o \in People,
         NEW ps \in SUBSET People, NEW status \in {"Booked", "Cancelled"},
         CreateBooking(t, m, o, ps, status)
  PROVE  DeskInv'
<1> USE DEF DeskInv, DeskTypeOK, HistoryTyped
<1>1. PICK row \in MeetingRow : row = Saved(o, ps, status, Null) /\ row.minutes = Null
  <2>1. /\ Saved(o, ps, status, Null) \in MeetingRow
        /\ Saved(o, ps, status, Null).minutes = Null
    BY SavedRow
  <2> QED BY <2>1
<1>2. PICK r \in Ticket :
        /\ r = [op |-> "create", step |-> "confirm", meeting |-> m, by |-> Null,
                parts |-> ps, row |-> Null]
        /\ r.op = "create" /\ r.step = "confirm" /\ r.meeting = m
  <2>1. [op |-> "create", step |-> "confirm", meeting |-> m, by |-> Null,
         parts |-> ps, row |-> Null] \in Ticket
    BY DEF Ticket, Ops, Stages
  <2> QED BY <2>1
<1>3. /\ ticket[t] = Null /\ ticket' = [ticket EXCEPT ![t] = r] /\ Writes(t, m, row)
      /\ todo' = [todo EXCEPT ![t] = Recipients(row)]
      /\ UNCHANGED <<stamp, told, invited, sure, lost>>
  BY <1>1, <1>2 DEF CreateBooking, Asks, trailVars
<1>4. ticket'[t] = r /\ r # Null
  BY <1>3
<1>5. /\ acted' = acted \cup {t} /\ outrun' \subseteq Tickets
      /\ Recipients(row) \subseteq People
  BY <1>3, RecipientsTyped DEF Writes
<1>6. Aside(t) /\ HistoryTyped' /\ StampTyped'
  BY <1>3, <1>5 DEF Aside, StampTyped
<1>7. OwnSound(t)'
  BY <1>2, <1>3, <1>4, <1>5
     DEF TicketsSound, OwnSound, WriteSound, ActSound, MailSound, Sits
<1> QED BY <1>1, <1>2, <1>3, <1>6, <1>7, WriteStep

LEMMA UpdateStep ==
  ASSUME DeskInv, NEW t \in Tickets, NEW m \in Meetings, NEW o \in People,
         NEW ps \in SUBSET People, NEW status \in {"Booked", "Cancelled"},
         UpdateBooking(t, m, o, ps, status)
  PROVE  DeskInv'
<1>1. PICK row \in MeetingRow :
        /\ row = Saved(o, ps, status, meeting[m]) /\ row.minutes = meeting[m].minutes
        /\ meeting[m] # Null
  <2>1. meeting[m] # Null
    BY DEF UpdateBooking
  <2>2. PICK old \in MeetingRow : old = meeting[m]
    BY <2>1 DEF DeskInv, DeskTypeOK
  <2>3. /\ Saved(o, ps, status, old) \in MeetingRow
        /\ Saved(o, ps, status, old).minutes = IF old = Null THEN Null ELSE old.minutes
    BY SavedRow, old \in MeetingRow \cup {Null}
  <2> QED BY <2>1, <2>2, <2>3
<1> USE DEF DeskInv, DeskTypeOK, HistoryTyped
<1>2. PICK r \in Ticket :
        /\ r = [op |-> "update", step |-> "audit", meeting |-> m, by |-> Null,
                parts |-> ps, row |-> Null]
        /\ r.op = "update" /\ r.step = "audit" /\ r.meeting = m
  <2>1. [op |-> "update", step |-> "audit", meeting |-> m, by |-> Null,
         parts |-> ps, row |-> Null] \in Ticket
    BY DEF Ticket, Ops, Stages
  <2> QED BY <2>1
<1>3. /\ ticket[t] = Null /\ ticket' = [ticket EXCEPT ![t] = r] /\ Writes(t, m, row)
      /\ UNCHANGED <<stamp, todo, told, invited, sure, lost>>
  BY <1>1, <1>2 DEF UpdateBooking, Asks, Writes, trailVars, mails
<1>4. ticket'[t] = r /\ r # Null
  BY <1>3
<1>5. acted' = acted \cup {t} /\ outrun' \subseteq Tickets
  BY <1>3 DEF Writes
<1>6. Aside(t) /\ HistoryTyped' /\ StampTyped'
  BY <1>3, <1>5 DEF Aside, StampTyped
<1>7. OwnSound(t)'
  BY <1>2, <1>3, <1>4, <1>5
     DEF TicketsSound, OwnSound, WriteSound, ActSound, MailSound, Sits
<1> QED BY <1>1, <1>2, <1>3, <1>6, <1>7, WriteStep

(* What the statements of the other requests have in common: the ticket goes *)
(* on to its audit entry, and only a cancellation touches the mails' history. *)
LEMMA StatementStep ==
  ASSUME DeskInv, NEW t \in Tickets, Sits(t, "write"), Moves(t, "audit"),
         NEW m \in Meetings, m = ticket[t].meeting,
         NEW row \in MeetingRow, Writes(t, m, row), meeting[m] # Null,
         \/ row.minutes = meeting[m].minutes
         \/ row.minutes = t /\ ticket[t].op = "minutes" /\ (Held(row) \/ t \in outrun),
         UNCHANGED <<stamp, todo, told, lost>>,
         \/ UNCHANGED <<invited, sure>>
         \/ /\ ticket[t].op = "cancel"
            /\ invited' = [invited EXCEPT ![t] = {meeting[m].owner} \cup meeting[m].parts]
            /\ sure' = IF t \in outrun THEN sure ELSE sure \cup {t}
  PROVE  DeskInv'
<1> USE DEF DeskInv, DeskTypeOK, HistoryTyped
<1> DEFINE r == [ticket[t] EXCEPT !.step = "audit"]
<1>1. /\ ticket[t] \in Ticket /\ ticket[t].step = "write"
      /\ ticket' = [ticket EXCEPT ![t] = r]
  BY DEF Sits, Moves
<1>2. /\ r \in Ticket /\ r.op = ticket[t].op /\ r.meeting = m /\ r.step = "audit"
      /\ r.row = ticket[t].row
  BY <1>1, TicketMoved DEF Stages
<1> HIDE DEF r
<1>3. ticket'[t] = r /\ r # Null
  BY <1>1, <1>2
<1>4. acted' = acted \cup {t} /\ outrun' \subseteq Tickets
  BY DEF Writes
<1>5. {meeting[m].owner} \cup meeting[m].parts \subseteq People
  BY RowParts
<1>6. Aside(t) /\ HistoryTyped' /\ StampTyped'
  BY <1>1, <1>4, <1>5 DEF Aside, StampTyped
<1>7. WriteSound(t)' /\ ActSound(t)'
  BY <1>2, <1>3, <1>4 DEF WriteSound, ActSound, Sits
<1>8. MailSound(t)'
  <2>1. t \notin sure \/ t \in lost
    BY <1>1 DEF TicketsSound, MailSound
  <2>2. WriteSound(t) /\ MailSound(t)
    BY DEF TicketsSound
  <2>3. r.op # "create" => todo'[t] = {} /\ told'[t] = {}
    BY <1>1, <1>2, <2>2 DEF MailSound
  <2>4. ASSUME t \in sure', t \notin lost'
        PROVE  /\ r.op = "cancel" /\ r.row # Null
               /\ Recipients(r.row) = invited'[t]
    <3>1. /\ ticket[t].op = "cancel" /\ t \notin outrun
          /\ invited'[t] = {meeting[m].owner} \cup meeting[m].parts
      BY <2>1, <2>4
    <3>2. /\ r.row # Null
          /\ meeting[m].owner = r.row.owner /\ meeting[m].parts = r.row.parts
      BY <1>1, <1>2, <2>2, <2>4, <3>1 DEF WriteSound, Sits
    <3> QED BY <1>2, <3>1, <3>2 DEF Recipients
  <2> QED BY <1>2, <1>3, <2>3, <2>4 DEF MailSound
<1> QED BY <1>1, <1>2, <1>6, <1>7, <1>8, WriteStep DEF OwnSound

LEMMA WritingStep ==
  ASSUME DeskInv, NEW t \in Tickets,
         WriteEdit(t) \/ WriteCancel(t) \/ WriteDelete(t) \/ WriteMinutes(t)
  PROVE  DeskInv'
<1> USE DEF DeskInv, DeskTypeOK
<1>1. Sits(t, "write") /\ ticket[t] \in Ticket /\ UNCHANGED stamp
  BY DEF WriteEdit, WriteCancel, WriteDelete, WriteMinutes, At, Sits, trailVars
<1>2. PICK m \in Meetings : m = ticket[t].meeting
  BY <1>1, TicketParts
<1>3. ASSUME ticket[t].op \in {"edit", "minutes"}
      PROVE  /\ meeting[m] \in MeetingRow
             /\ ticket[t].op = "minutes" => Held(meeting[m]) \/ t \in outrun
  BY <1>1, <1>2, <1>3 DEF TicketsSound, WriteSound
<1>4. CASE WriteEdit(t)
  <2>1. PICK row \in MeetingRow :
          /\ row = [meeting[m] EXCEPT !.parts = ticket[t].parts]
          /\ row.minutes = meeting[m].minutes
    <3>1. ticket[t].parts \in SUBSET People
      BY <1>1, TicketParts
    <3> QED BY <1>3, <1>4, <3>1, RowEdited DEF WriteEdit, At
  <2>2. Writes(t, m, row) /\ Moves(t, "audit") /\ ticket[t].op = "edit"
        /\ UNCHANGED <<todo, told, lost, invited, sure>>
    BY <1>2, <1>4, <2>1 DEF WriteEdit, Writes, mails, At
  <2> QED BY <1>1, <1>2, <1>3, <2>1, <2>2, StatementStep
<1>5. CASE WriteCancel(t) /\ LiveMeeting(m) /\ (ticket[t].by # Null => Owner(t))
  <2>1. meeting[m] \in MeetingRow
    BY <1>5 DEF LiveMeeting
  <2>2. PICK row \in MeetingRow :
          /\ row = [meeting[m] EXCEPT !.status = "Cancelled"]
          /\ row.minutes = meeting[m].minutes
    BY <2>1, RowEdited
  <2>3. /\ Writes(t, m, row) /\ Moves(t, "audit") /\ ticket[t].op = "cancel"
        /\ invited' = [invited EXCEPT ![t] = {meeting[m].owner} \cup meeting[m].parts]
        /\ sure' = IF t \in outrun THEN sure ELSE sure \cup {t}
        /\ UNCHANGED <<todo, told, lost>>
    BY <1>2, <1>5, <2>2 DEF WriteCancel, Writes, At
  <2> QED BY <1>1, <1>2, <2>1, <2>2, <2>3, StatementStep
<1>6. CASE WriteCancel(t) /\ ~(LiveMeeting(m) /\ (ticket[t].by # Null => Owner(t)))
  BY <1>1, <1>2, <1>6, GiveUpStep DEF WriteCancel
<1>7. CASE WriteDelete(t) /\ LiveMeeting(m)
  <2>1. meeting[m] \in MeetingRow
    BY <1>7 DEF LiveMeeting
  <2>2. PICK row \in MeetingRow :
          /\ row = [meeting[m] EXCEPT !.deleted = TRUE]
          /\ row.minutes = meeting[m].minutes
    BY <2>1, RowEdited
  <2>3. /\ Writes(t, m, row) /\ Moves(t, "audit")
        /\ UNCHANGED <<todo, told, lost, invited, sure>>
    BY <1>2, <1>7, <2>2 DEF WriteDelete, Writes, mails
  <2> QED BY <1>1, <1>2, <2>1, <2>2, <2>3, StatementStep
<1>8. CASE WriteDelete(t) /\ ~LiveMeeting(m)
  BY <1>1, <1>2, <1>8, GiveUpStep DEF WriteDelete, mails
<1>9. CASE WriteMinutes(t)
  <2>1. ticket[t].op = "minutes"
    BY <1>9 DEF WriteMinutes, At
  <2>2. PICK row \in MeetingRow :
          /\ row = [meeting[m] EXCEPT !.minutes = t] /\ row.minutes = t
          /\ Held(row) \/ t \in outrun
    <3>1. /\ [meeting[m] EXCEPT !.minutes = t] \in MeetingRow
          /\ [meeting[m] EXCEPT !.minutes = t].minutes = t
          /\ Held(meeting[m]) => Held([meeting[m] EXCEPT !.minutes = t])
      BY <1>3, <2>1, RowMinuted DEF Held
    <3> QED BY <1>3, <2>1, <3>1
  <2>3. /\ Writes(t, m, row) /\ Moves(t, "audit")
        /\ UNCHANGED <<todo, told, lost, invited, sure>>
    BY <1>2, <1>9, <2>2 DEF WriteMinutes, Writes, mails
  <2> QED BY <1>1, <1>2, <1>3, <2>1, <2>2, <2>3, StatementStep
<1> QED BY <1>4, <1>5, <1>6, <1>7, <1>8, <1>9

-----------------------------------------------------------------------------
(* What follows the statement: the entry, a second read, and the mails.      *)

LEMMA RecordStep ==
  ASSUME DeskInv, NEW t \in Tickets, RecordAct(t) \/ RecordFails(t)
  PROVE  DeskInv'
<1> USE DEF DeskInv, DeskTypeOK, HistoryTyped
<1>1. /\ ticket[t] \in Ticket /\ ticket[t].step = "audit" /\ AfterAudit(t)
      /\ UNCHANGED <<meeting, told, invited, acted, outrun, sure>>
  BY DEF RecordAct, RecordFails, Sits, deskHistory
<1>2. PICK next \in {"refetch", "done"} :
        /\ next = IF ticket[t].op = "minutes" THEN "refetch" ELSE "done"
        /\ Moves(t, next)
  BY <1>1 DEF AfterAudit, Moves
<1>3. PICK r \in Ticket :
        /\ ticket' = [ticket EXCEPT ![t] = r] /\ r.op = ticket[t].op
        /\ r.meeting = ticket[t].meeting /\ r.step = next
  <2>1. CASE next = "done"
    BY <1>1, <1>2, <2>1, TicketFinished DEF Moves
  <2>2. CASE next = "refetch"
    <3>1. /\ [ticket[t] EXCEPT !.step = "refetch"] \in Ticket
          /\ [ticket[t] EXCEPT !.step = "refetch"].op = ticket[t].op
          /\ [ticket[t] EXCEPT !.step = "refetch"].meeting = ticket[t].meeting
          /\ [ticket[t] EXCEPT !.step = "refetch"].step = "refetch"
      BY <1>1, TicketMoved DEF Stages
    <3>2. ticket' = [ticket EXCEPT ![t] = [ticket[t] EXCEPT !.step = "refetch"]]
      BY <1>2, <2>2 DEF Moves
    <3> QED BY <2>2, <3>1, <3>2
  <2> QED BY <2>1, <2>2
<1>4. ticket'[t] = r /\ r # Null
  BY <1>3
<1>5. /\ todo' = IF ticket[t].op = "cancel"
                 THEN [todo EXCEPT ![t] = Recipients(ticket[t].row)] ELSE todo
      /\ Recipients(ticket[t].row) \subseteq People
  BY <1>1, TicketParts, RecipientsTyped DEF AfterAudit
<1>6. /\ lost \subseteq lost' /\ lost' \subseteq lost \cup {t}
      /\ t \in lost' \/ stamp'[t] # 0
      /\ \A s \in Tickets \ {t} : stamp'[s] = stamp[s]
      /\ StampTyped'
  <2>1. CASE RecordAct(t)
    <3>1. PICK x \in Stamps : stamp' = [stamp EXCEPT ![t] = x]
      BY <2>1 DEF RecordAct, Record
    <3>2. x # 0
      BY <3>1 DEF Stamps
    <3>3. StampTyped' /\ stamp'[t] = x /\ \A s \in Tickets \ {t} : stamp'[s] = stamp[s]
      BY <3>1 DEF StampTyped
    <3>4. UNCHANGED lost
      BY <2>1 DEF RecordAct, deskHistory
    <3> QED BY <3>2, <3>3, <3>4
  <2>2. CASE RecordFails(t)
    BY <2>2 DEF RecordFails, trailVars, StampTyped
  <2> QED BY <2>1, <2>2
<1>7. Aside(t) /\ HistoryTyped'
  BY <1>1, <1>3, <1>5, <1>6 DEF Aside
<1>8. WriteSound(t)'
  BY <1>3, <1>4 DEF WriteSound, Sits
<1>9. ActSound(t)'
  BY <1>1, <1>3, <1>4, <1>6 DEF TicketsSound, ActSound, Sits
<1>10. MailSound(t)'
  <2>1. MailSound(t)
    BY DEF TicketsSound
  <2>2. r.step # "done" => UNCHANGED <<todo, told>> /\ r.op = "minutes"
    BY <1>1, <1>2, <1>3, <1>5
  <2>3. ASSUME t \in sure', t \notin lost'
        PROVE  r.op = "cancel" /\ r.step = "done" /\ told'[t] \cup todo'[t] = invited'[t]
    <3>1. /\ ticket[t].op = "cancel" /\ told[t] = {}
          /\ Recipients(ticket[t].row) = invited[t]
      BY <1>1, <1>6, <2>1, <2>3 DEF MailSound
    <3> QED BY <1>1, <1>2, <1>3, <1>5, <3>1
  <2> QED BY <1>1, <1>3, <1>4, <2>1, <2>2, <2>3 DEF MailSound
<1> QED BY <1>1, <1>3, <1>6, <1>7, <1>8, <1>9, <1>10, LocalStep DEF OwnSound

LEMMA AnswerStep ==
  ASSUME DeskInv, NEW t \in Tickets, Refetch(t) \/ Confirmed(t)
  PROVE  DeskInv'
<1> USE DEF DeskInv, DeskTypeOK, HistoryTyped
<1>1. /\ ticket[t] \in Ticket /\ ticket[t].step \in {"refetch", "confirm"} /\ t \in acted
      /\ UNCHANGED <<stamp, meeting, told, invited, acted, outrun, sure, lost>>
  BY DEF Refetch, Confirmed, Sits, TicketsSound, ActSound, trailVars, deskHistory
<1>2. PICK r \in Ticket :
        /\ ticket' = [ticket EXCEPT ![t] = r] /\ r.op = ticket[t].op
        /\ r.meeting = ticket[t].meeting
        /\ r.step = IF Confirmed(t) THEN "audit" ELSE "done"
  <2>1. CASE Confirmed(t)
    <3>1. /\ [ticket[t] EXCEPT !.step = "audit"] \in Ticket
          /\ [ticket[t] EXCEPT !.step = "audit"].op = ticket[t].op
          /\ [ticket[t] EXCEPT !.step = "audit"].meeting = ticket[t].meeting
          /\ [ticket[t] EXCEPT !.step = "audit"].step = "audit"
      BY <1>1, TicketMoved DEF Stages
    <3>2. ticket' = [ticket EXCEPT ![t] = [ticket[t] EXCEPT !.step = "audit"]]
      BY <2>1 DEF Confirmed, Moves
    <3> QED BY <2>1, <3>1, <3>2
  <2>2. CASE ~Confirmed(t)
    BY <1>1, <2>2, TicketFinished DEF Refetch, Moves
  <2> QED BY <2>1, <2>2
<1>3. ticket'[t] = r /\ r # Null
  BY <1>2
<1>4. /\ todo' \in [Tickets -> SUBSET People]
      /\ \A s \in Tickets \ {t} : todo'[s] = todo[s]
      /\ Confirmed(t) => UNCHANGED todo
  <2>1. CASE Confirmed(t)
    BY <2>1 DEF Confirmed
  <2>2. CASE Refetch(t)
    <3>1. ticket[t].meeting \in Meetings
      BY <1>1, TicketParts
    <3>2. Recipients(meeting[ticket[t].meeting]) \subseteq People
      BY <3>1, RecipientsTyped
    <3>3. ~Confirmed(t)
      BY <2>2 DEF Refetch, Confirmed, Sits
    <3> QED BY <2>2, <3>2, <3>3 DEF Refetch
  <2> QED BY <2>1, <2>2
<1>5. Aside(t) /\ HistoryTyped' /\ StampTyped'
  BY <1>1, <1>2, <1>4 DEF Aside, StampTyped
<1>6. WriteSound(t)' /\ ActSound(t)'
  <2>1. ActSound(t) /\ (t \in acted => stamp[t] # 0 \/ t \in lost \/ Confirmed(t))
    BY <1>1 DEF TicketsSound, ActSound, Sits, Refetch
  <2> QED BY <1>1, <1>2, <1>3, <2>1 DEF WriteSound, ActSound, Sits
<1>7. MailSound(t)'
  BY <1>1, <1>2, <1>3, <1>4 DEF TicketsSound, MailSound
<1> QED BY <1>1, <1>2, <1>5, <1>6, <1>7, LocalStep DEF OwnSound

LEMMA MailStep ==
  ASSUME DeskInv, NEW t \in Tickets, Mail(t)
  PROVE  DeskInv'
<1> USE DEF DeskInv, DeskTypeOK, HistoryTyped
<1>1. PICK p \in People : SendTo(t, p) \/ SendFails(t, p)
  BY DEF Mail
<1>2. /\ p \in todo[t] /\ todo' = [todo EXCEPT ![t] = todo[t] \ {p}]
      /\ UNCHANGED <<stamp, meeting, ticket, invited, acted, outrun, sure>>
      /\ \/ told' = [told EXCEPT ![t] = told[t] \cup {p}] /\ UNCHANGED lost
         \/ UNCHANGED told /\ lost' = lost \cup {t}
  BY <1>1 DEF SendTo, SendFails, trailVars
<1>3. /\ ticket[t] \in Ticket
      /\ ticket[t].op = "create" \/ ticket[t].step = "done"
  BY <1>2 DEF TicketsSound, MailSound
<1>4. ticket' = [ticket EXCEPT ![t] = ticket[t]]
  BY <1>2
<1>5. Aside(t) /\ HistoryTyped' /\ StampTyped'
  BY <1>2 DEF Aside, StampTyped
<1>6. WriteSound(t)' /\ ActSound(t)'
  BY <1>2 DEF TicketsSound, WriteSound, ActSound, Sits, Held
<1>7. MailSound(t)'
  BY <1>2, <1>3 DEF TicketsSound, MailSound
<1> QED BY <1>2, <1>3, <1>4, <1>5, <1>6, <1>7, LocalStep DEF OwnSound

-----------------------------------------------------------------------------
(* Steps of no ticket in particular.                                         *)

LEMMA TickStep ==
  ASSUME DeskInv, NEW m \in Meetings, MeetingTick(m)
  PROVE  DeskInv'
<1> USE DEF DeskInv
<1>1. PICK old \in MeetingRow : old = meeting[m] /\ old.when # "closed"
  BY DEF MeetingTick, DeskTypeOK
<1>2. PICK next \in MeetingRow :
        /\ next = [old EXCEPT !.when = After[old.when]]
        /\ next.owner = old.owner /\ next.parts = old.parts
        /\ next.minutes = old.minutes /\ (Held(old) => Held(next))
  <2> DEFINE row == [old EXCEPT !.when = After[old.when]]
  <2>1. /\ row \in MeetingRow /\ row.owner = old.owner /\ row.parts = old.parts
        /\ row.minutes = old.minutes /\ (Held(old) => Held(row))
    BY <1>1, RowTicked
  <2> QED BY <2>1
<1>3. /\ meeting' = [meeting EXCEPT ![m] = next]
      /\ UNCHANGED <<stamp, ticket, todo, told, invited, acted, outrun, sure, lost>>
  BY <1>1, <1>2 DEF MeetingTick, trailVars, deskHistory
<1>4. /\ meeting'[m] = next /\ next # Null
      /\ \A n \in Meetings \ {m} : meeting'[n] = meeting[n]
  BY <1>3 DEF DeskTypeOK
<1>5. DeskTypeOK' /\ StampTyped'
  BY <1>3 DEF DeskTypeOK, StampTyped
<1>6. ASSUME NEW t \in Tickets PROVE WriteSound(t)' /\ ActSound(t)' /\ MailSound(t)'
  <2>1. WriteSound(t) /\ ActSound(t) /\ MailSound(t)
    BY DEF TicketsSound
  <2>2. ActSound(t)' /\ MailSound(t)'
    BY <1>3, <2>1 DEF ActSound, MailSound, Sits
  <2>3. WriteSound(t)'
    <3>1. CASE ticket[t] = Null
      BY <1>3, <2>1, <3>1 DEF WriteSound, Sits
    <3>2. CASE ticket[t] # Null
      <4>1. PICK n \in Meetings : n = ticket[t].meeting
        BY <3>2, TicketParts DEF DeskTypeOK
      <4>2. \/ meeting'[n] = meeting[n]
            \/ meeting[n] = old /\ meeting'[n] = next
        BY <1>1, <1>4
      <4>3. UNCHANGED <<ticket, outrun, lost>>
        BY <1>3
      <4>4. CASE meeting'[n] = meeting[n]
        BY <2>1, <4>1, <4>3, <4>4 DEF WriteSound, Sits, Held
      <4>5. CASE meeting[n] = old /\ meeting'[n] = next
        BY <1>2, <1>4, <2>1, <4>1, <4>3, <4>5 DEF WriteSound, Sits
      <4> QED BY <4>2, <4>4, <4>5
    <3> QED BY <3>1, <3>2
  <2> QED BY <2>2, <2>3
<1>7. ASSUME NEW n \in Meetings PROVE MinutesSound(n)'
  <2>1. MinutesSound(n)
    BY DEF MeetingsSound
  <2>2. CASE n = m
    BY <1>1, <1>2, <1>3, <1>4, <2>1, <2>2 DEF MinutesSound
  <2>3. CASE n # m
    BY <1>3, <1>4, <2>1, <2>3 DEF MinutesSound, Held
  <2> QED BY <2>2, <2>3
<1> QED BY <1>5, <1>6, <1>7 DEF TicketsSound, MeetingsSound

(* A restart ends every ticket in hand, and counts it among the lost.        *)
LEMMA RestartStep ==
  ASSUME DeskInv, DeskRestart
  PROVE  DeskInv'
<1> USE DEF DeskInv
<1>1. /\ UNCHANGED <<stamp, meeting, told, invited, acted, outrun, sure>>
      /\ todo' = [t \in Tickets |-> {}] /\ lost' = lost \cup InHand
      /\ InHand \subseteq Tickets
  BY DEF DeskRestart, trailVars, InHand
<1>2. ASSUME NEW t \in Tickets
      PROVE  /\ ticket'[t] \in Ticket \cup {Null}
             /\ ticket'[t] = Null <=> ticket[t] = Null
             /\ ticket[t] # Null => /\ ticket'[t].op = ticket[t].op
                                    /\ ticket'[t].meeting = ticket[t].meeting
                                    /\ ticket'[t].step = "done"
             /\ t \notin InHand => ticket'[t] = ticket[t]
  <2>1. ticket'[t] = IF t \in InHand THEN Finished(ticket[t]) ELSE ticket[t]
    BY DEF DeskRestart
  <2>2. CASE t \in InHand
    <3>1. ticket[t] \in Ticket
      BY <2>2 DEF InHand, DeskTypeOK
    <3>2. Finished(ticket[t]) # Null
      BY <3>1, TicketFinished
    <3> QED BY <2>1, <2>2, <3>1, <3>2, TicketFinished
  <2>3. CASE t \notin InHand
    BY <2>1, <2>3 DEF InHand, DeskTypeOK
  <2> QED BY <2>2, <2>3
<1>3. DeskTypeOK' /\ StampTyped'
  <2>1. ticket' = [t \in Tickets |-> ticket'[t]]
    BY DEF DeskRestart
  <2>2. ticket' \in [Tickets -> Ticket \cup {Null}]
    BY <1>2, <2>1
  <2> QED BY <1>1, <2>2 DEF DeskTypeOK, StampTyped
<1>4. ASSUME NEW t \in Tickets PROVE WriteSound(t)' /\ ActSound(t)' /\ MailSound(t)'
  <2>1. WriteSound(t) /\ ActSound(t) /\ MailSound(t)
    BY DEF TicketsSound
  <2>2. WriteSound(t)'
    BY <1>2 DEF WriteSound, Sits
  <2>3. ActSound(t)'
    BY <1>1, <1>2, <2>1 DEF ActSound, Sits
  <2>4. todo'[t] = {}
    BY <1>1
  <2>5. t \notin lost' => t \notin lost /\ ticket'[t] = ticket[t] /\ todo'[t] = todo[t]
    BY <1>1, <1>2, <2>4 DEF InHand, DeskTypeOK, MailSound, TicketsSound
  <2>6. ticket'[t] = Null \/ (ticket'[t].op # "create" /\ ticket'[t].step # "done") =>
          told'[t] = {}
    BY <1>1, <1>2, <2>1 DEF MailSound
  <2>7. MailSound(t)'
    BY <1>1, <2>1, <2>4, <2>5, <2>6 DEF MailSound, Recipients
  <2> QED BY <2>2, <2>3, <2>7
<1>5. ASSUME NEW m \in Meetings PROVE MinutesSound(m)'
  <2> SUFFICES ASSUME meeting[m] # Null, meeting[m].minutes # Null
               PROVE  MinutesSound(m)'
    BY <1>1 DEF MinutesSound
  <2>1. MinutesSound(m)
    BY DEF MeetingsSound
  <2>2. meeting[m].minutes \in Tickets
    BY RowParts DEF DeskTypeOK
  <2> QED BY <1>1, <1>2, <2>1, <2>2 DEF MinutesSound, Held
<1> QED BY <1>3, <1>4, <1>5 DEF TicketsSound, MeetingsSound

(* The trail goes on beside the tickets, or nothing happens at all.          *)
LEMMA BesideStep ==
  ASSUME DeskInv, UNCHANGED deskVars,
         \A t \in Tickets : stamp'[t] = stamp[t], StampTyped'
  PROVE  DeskInv'
<1> USE DEF DeskInv, deskVars
<1>1. DeskTypeOK'
  BY DEF DeskTypeOK
<1>2. ASSUME NEW t \in Tickets PROVE WriteSound(t)' /\ ActSound(t)' /\ MailSound(t)'
  <2>1. WriteSound(t) /\ ActSound(t) /\ MailSound(t)
    BY DEF TicketsSound
  <2> QED BY <2>1 DEF WriteSound, ActSound, MailSound, Sits, Recipients, Held
<1>3. ASSUME NEW m \in Meetings PROVE MinutesSound(m)'
  BY DEF MeetingsSound, MinutesSound, Held
<1> QED BY <1>1, <1>2, <1>3 DEF TicketsSound, MeetingsSound

LEMMA TrailBesideStep ==
  ASSUME DeskInv, TrailBeside
  PROVE  DeskInv'
<1> USE DEF DeskInv
<1>1. (\A t \in Tickets : stamp'[t] = stamp[t]) /\ StampTyped'
  <2>1. CASE TrailStep
    BY <2>1 DEF TrailStep, Open, Count, Select, Close, StampTyped
  <2>2. ASSUME NEW e \in Entries \ Tickets, Record(e)
        PROVE  (\A t \in Tickets : stamp'[t] = stamp[t]) /\ StampTyped'
    <3>1. PICK x \in Stamps : stamp' = [stamp EXCEPT ![e] = x]
      BY <2>2 DEF Record
    <3> QED BY <3>1 DEF StampTyped
  <2> QED BY <2>1, <2>2 DEF TrailBeside
<1> QED BY <1>1, BesideStep DEF TrailBeside

-----------------------------------------------------------------------------
(* The invariant.                                                            *)

LEMMA DeskInitInv ==
  ASSUME TrailInit, NEW o \in People, NEW ps \in SUBSET People, DeskInit(o, ps)
  PROVE  DeskInv
<1> USE DEF TrailInit, DeskInit
<1>1. \A m \in Meetings : meeting[m] \in FirstMeetings(o, ps)
  OBVIOUS
<1>2. \A row \in FirstMeetings(o, ps) :
        row \in MeetingRow \cup {Null} /\ (row # Null => row.minutes = Null)
  BY DEF FirstMeetings, MeetingRow
<1>3. meeting \in [Meetings -> MeetingRow \cup {Null}]
  <2>1. meeting = [m \in Meetings |-> meeting[m]]
    OBVIOUS
  <2> QED BY <1>1, <1>2, <2>1
<1>4. DeskTypeOK /\ StampTyped
  BY <1>3 DEF DeskTypeOK, StampTyped
<1>5. TicketsSound
  BY DEF TicketsSound, WriteSound, ActSound, MailSound, Sits
<1>6. MeetingsSound
  BY <1>1, <1>2 DEF MeetingsSound, MinutesSound
<1> QED BY <1>4, <1>5, <1>6 DEF DeskInv

LEMMA ServeStep ==
  ASSUME DeskInv, NEW t \in Tickets, Serve(t)
  PROVE  DeskInv'
<1>1. CASE FailWrite(t)
  BY <1>1, GiveUpStep DEF FailWrite, trailVars, deskHistory
<1> QED BY <1>1, ReadStep, WritingStep, RecordStep, AnswerStep DEF Serve

LEMMA ArriveStep ==
  ASSUME DeskInv, NEW t \in Tickets, Arrive(t)
  PROVE  DeskInv'
<1>1. PICK m \in Meetings, p \in People, ps \in SUBSET People :
        \/ \E status \in {"Booked", "Cancelled"} :
             CreateBooking(t, m, p, ps, status) \/ UpdateBooking(t, m, p, ps, status)
        \/ \E op \in Ops \ {"create", "update"}, by \in {p, Null} :
             BeginRequest(t, op, m, by, ps)
  BY DEF Arrive
<1>2. ASSUME NEW status \in {"Booked", "Cancelled"},
             CreateBooking(t, m, p, ps, status) \/ UpdateBooking(t, m, p, ps, status)
      PROVE  DeskInv'
  BY <1>2, CreateStep, UpdateStep
<1>3. ASSUME NEW op \in Ops \ {"create", "update"}, NEW by \in {p, Null},
             BeginRequest(t, op, m, by, ps)
      PROVE  DeskInv'
  BY <1>3, BeginStep
<1> QED BY <1>1, <1>2, <1>3

LEMMA DeskInvStep ==
  ASSUME DeskInv, DeskNext
  PROVE  DeskInv'
<1>1. ASSUME DeskStep PROVE DeskInv'
  BY <1>1, ArriveStep, ServeStep, MailStep, TickStep DEF DeskStep
<1> QED BY <1>1, RestartStep, TrailBesideStep DEF DeskNext

(* Whatever the requests, their order, the failures and the restarts: the    *)
(* tickets and the bookings stay in step with each other and with the trail. *)
THEOREM DeskInvariance == DeskSpec => []DeskInv
<1>1. TrailInit /\ (\E o \in People, ps \in SUBSET People : DeskInit(o, ps)) => DeskInv
  BY DeskInitInv
<1>2. DeskInv /\ [DeskNext]_<<deskVars, trailVars>> => DeskInv'
  <2>1. ASSUME DeskInv, UNCHANGED <<deskVars, trailVars>> PROVE DeskInv'
    BY <2>1, BesideStep DEF trailVars, DeskInv, StampTyped
  <2> QED BY <2>1, DeskInvStep
<1> QED BY <1>1, <1>2, PTL DEF DeskSpec

(* The variables of the booking handlers keep their types.                   *)
THEOREM DeskTypeCorrect == DeskSpec => []DeskTypeOK
<1>1. DeskInv => DeskTypeOK
  BY DEF DeskInv
<1> QED BY <1>1, DeskInvariance, PTL

(* Whoever is named when a booking is cancelled hears of it (CancelBooking,  *)
(* PublicCancelBooking), with the exceptions CancellationReachesInvited has. *)
THEOREM CancellationSafety == DeskSpec => []CancellationReachesInvited
<1>1. ASSUME DeskInv PROVE CancellationReachesInvited
  <2> SUFFICES ASSUME NEW t \in sure, t \notin lost
               PROVE  /\ told[t] \cup todo[t] \subseteq invited[t]
                      /\ Sits(t, "done") => invited[t] = told[t] \cup todo[t]
    BY DEF CancellationReachesInvited
  <2>1. t \in Tickets /\ MailSound(t)
    BY <1>1 DEF DeskInv, DeskTypeOK, TicketsSound
  <2> QED BY <2>1 DEF MailSound, Sits
<1> QED BY <1>1, DeskInvariance, PTL

(* The audit trail and what happened to the bookings agree (audit and        *)
(* auditPublic are called after the statement that changed the row).         *)
THEOREM TrailSafety == DeskSpec => []TrailMatchesActs
<1>1. ASSUME DeskInv PROVE TrailMatchesActs
  <2>1. \A t \in Tickets : ActSound(t)
    BY <1>1 DEF DeskInv, TicketsSound
  <2> QED BY <1>1, <2>1
          DEF TrailMatchesActs, ActSound, Recorded, ToBeRecorded, DeskInv, DeskTypeOK
<1> QED BY <1>1, DeskInvariance, PTL

(* Minutes belong to meetings that were held, unless the booking changed     *)
(* between the upload's read and its write (SetMinutesOfMeetingFile).        *)
THEOREM MinutesSafety == DeskSpec => []MinutesOfHeldMeetings
<1>1. ASSUME DeskInv PROVE MinutesOfHeldMeetings
  BY <1>1 DEF DeskInv, MeetingsSound, MinutesSound, MinutesOfHeldMeetings, Held
<1> QED BY <1>1, DeskInvariance, PTL
=============================================================================

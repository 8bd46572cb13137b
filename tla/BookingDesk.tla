----------------------------- MODULE BookingDesk ----------------------------
(* What a booking handler does around the statement that changes the row: it *)
(* reads the booking first, records an audit entry after, and tells everyone *)
(* invited by mail, before the answer or from a goroutine that outlives it.  *)
(* Other requests edit, cancel and delete the booking between those steps.   *)
(* Slots, rooms and the standing of users are BookingSlots' subject.         *)
EXTENDS AuditTrail

CONSTANTS
  Meetings,   \* ids the bookings table may hand out
  People,     \* addresses
  Tickets,    \* requests, each served once; a ticket names its audit entry
  Null        \* no row, no ticket, no owner to prove

MeetingRow == [owner: People, parts: SUBSET People, deleted: BOOLEAN,
               status: {"Booked", "Cancelled"},
               when: {"ahead", "running", "over", "closed"},
               minutes: Tickets \cup {Null}]

Ops == {"create", "update", "edit", "cancel", "delete", "minutes"}
Stages == {"read", "write", "confirm", "audit", "refetch", "done"}
Ticket == [op: Ops, step: Stages, meeting: Meetings, by: People \cup {Null},
           parts: SUBSET People, row: MeetingRow \cup {Null}]

ASSUME DeskAssumption ==
  /\ Tickets \subseteq Entries /\ Null \notin Tickets \cup People
  /\ Null \notin MeetingRow /\ Null \notin Ticket

VARIABLES
  meeting,  \* the bookings table
  ticket,   \* requests
  todo,     \* per request: who its mails still have to go to
  told,     \* history: whom they reached
  invited,  \* history: whom a cancelled booking named when it was cancelled
  acted,    \* history: requests whose statement changed the row
  outrun,   \* history: requests whose booking changed after they read it
  sure,     \* history: cancellations of a booking read just as it was
  lost      \* history: requests that lost a read, an entry, a mail or a restart

deskVars == <<meeting, ticket, todo, told, invited, acted, outrun, sure, lost>>

DeskTypeOK ==
  /\ meeting \in [Meetings -> MeetingRow \cup {Null}]
  /\ ticket \in [Tickets -> Ticket \cup {Null}]
  /\ todo \in [Tickets -> SUBSET People] /\ told \in [Tickets -> SUBSET People]
  /\ invited \in [Tickets -> SUBSET People]
  /\ acted \subseteq Tickets /\ outrun \subseteq Tickets
  /\ sure \subseteq acted /\ lost \subseteq Tickets

(* A database as some earlier requests left it.                              *)
FirstMeetings(o, ps) ==
  {Null} \cup [owner: {o}, parts: {ps}, deleted: {FALSE}, status: {"Booked"},
               when: {"ahead", "over"}, minutes: {Null}]

DeskInit(o, ps) ==
  /\ meeting \in [Meetings -> FirstMeetings(o, ps)]
  /\ ticket = [t \in Tickets |-> Null]
  /\ todo = [t \in Tickets |-> {}] /\ told = [t \in Tickets |-> {}]
  /\ invited = [t \in Tickets |-> {}]
  /\ acted = {} /\ outrun = {} /\ sure = {} /\ lost = {}

LiveMeeting(m) == meeting[m] # Null /\ ~meeting[m].deleted

(* A slip: the owner is added unless the participants are named.             *)
Recipients_PartsOnly(row) ==
  IF row = Null THEN {} ELSE IF row.parts = {} THEN {row.owner} ELSE row.parts

(* bookingRecipients; the zero booking of a failed read names only the       *)
(* empty address, which no mail reaches.                                     *)
Recipients(row) == IF row = Null THEN {} ELSE {row.owner} \cup row.parts

LiveStatus == [ahead |-> "Booked", running |-> "In Progress",
               over |-> "Completed", closed |-> "Completed"]

(* A slip: the stored status is not looked at.                               *)
ComputedStatus_ClockOnly(row) == LiveStatus[row.when]

(* ComputeBookingStatus, on what the clock says of the row's slot.           *)
ComputedStatus(row) ==
  IF row.status = "Cancelled" THEN "Cancelled" ELSE LiveStatus[row.when]

InWindow(row) == ComputedStatus(row) = "Completed" /\ row.when # "closed"

-----------------------------------------------------------------------------
(* One request.                                                              *)

At(t, op, step) == ticket[t] # Null /\ ticket[t].op = op /\ ticket[t].step = step
Sits(t, step) == ticket[t] # Null /\ ticket[t].step = step
(* An answered request holds no values any more.                             *)
Finished(state) == [state EXCEPT !.step = "done", !.by = Null, !.parts = {}, !.row = Null]

Moves(t, step) ==
  ticket' = [ticket EXCEPT ![t] = IF step = "done" THEN Finished(@)
                                  ELSE [@ EXCEPT !.step = step]]

Asks(t, op, m, by, ps, step) ==
  /\ ticket[t] = Null
  /\ ticket' = [ticket EXCEPT ![t] = [op |-> op, step |-> step, meeting |-> m,
                                      by |-> by, parts |-> ps, row |-> Null]]

(* The row of m is written for t: requests that have read it are outrun.     *)
Writes(t, m, row) ==
  /\ meeting' = [meeting EXCEPT ![m] = row]
  /\ acted' = acted \cup {t}
  /\ outrun' = outrun \cup {s \in Tickets \ {t} : /\ ticket[s] # Null
                                                 /\ ticket[s].meeting = m
                                                 /\ ticket[s].step # "read"}

mails == <<todo, told, invited, sure, lost>>
deskHistory == <<told, invited, acted, outrun, sure, lost>>

(* Save, for a start that is still ahead.                                    *)
Saved(o, ps, status, old) ==
  [owner |-> o, parts |-> ps, status |-> status, when |-> "ahead",
   deleted |-> old # Null /\ old.deleted,
   minutes |-> IF old = Null THEN Null ELSE old.minutes]

(* CreateBooking: saved, confirmed by mail before the answer, recorded.      *)
CreateBooking(t, m, o, ps, status) ==
  LET row == Saved(o, ps, status, Null) IN
  /\ meeting[m] = Null
  /\ Asks(t, "create", m, Null, ps, "confirm")
  /\ Writes(t, m, row)
  /\ todo' = [todo EXCEPT ![t] = Recipients(row)]
  /\ UNCHANGED <<trailVars, told, invited, sure, lost>>

(* UpdateBooking: any row, with any status, and nobody is told.              *)
UpdateBooking(t, m, o, ps, status) ==
  /\ meeting[m] # Null
  /\ Asks(t, "update", m, Null, ps, "audit")
  /\ Writes(t, m, Saved(o, ps, status, meeting[m]))
  /\ UNCHANGED <<trailVars, mails>>

(* The owner's edit, the cancellations, hard deletion and the minutes begin  *)
(* with a read.  An admin cancels and deletes without proof of ownership.    *)
BeginRequest(t, op, m, by, ps) ==
  /\ op \in {"edit", "minutes"} => by # Null
  /\ op = "delete" => by = Null
  /\ op # "edit" => ps = {}
  /\ Asks(t, op, m, by, ps, "read")
  /\ UNCHANGED <<trailVars, meeting, todo, deskHistory>>

Owner(t) == meeting[ticket[t].meeting].owner = ticket[t].by

(* What the read lets pass: PublicUpdate and SetMinutesOfMeetingFile judge   *)
(* the row, a cancellation or a deletion only keeps it.                      *)
Passes(t) ==
  LET row == meeting[ticket[t].meeting] IN
  CASE ticket[t].op = "edit" -> Owner(t) /\ ComputedStatus(row) = "Booked"
    [] ticket[t].op = "minutes" -> Owner(t) /\ InWindow(row)
    [] OTHER -> TRUE

ReadRow(t) ==
  /\ Sits(t, "read") /\ LiveMeeting(ticket[t].meeting)
  /\ IF Passes(t)
     THEN ticket' = [ticket EXCEPT ![t].step = "write", ![t].row = meeting[ticket[t].meeting]]
     ELSE Moves(t, "done")
  /\ UNCHANGED <<trailVars, meeting, todo, deskHistory>>

(* No row, or the read fails: an edit and an upload end, a cancellation or a *)
(* deletion goes on with a booking of zero values.                           *)
ReadFails(t) ==
  /\ Sits(t, "read")
  /\ Moves(t, IF ticket[t].op \in {"cancel", "delete"} THEN "write" ELSE "done")
  /\ lost' = lost \cup {t}
  /\ UNCHANGED <<trailVars, meeting, todo, told, invited, acted, outrun, sure>>

(* PublicUpdate's UPDATE, by id alone.                                       *)
WriteEdit(t) ==
  LET m == ticket[t].meeting IN
  /\ At(t, "edit", "write")
  /\ Writes(t, m, [meeting[m] EXCEPT !.parts = ticket[t].parts])
  /\ Moves(t, "audit")
  /\ UNCHANGED <<trailVars, mails>>

(* A slip: a cancellation that finds no row is recorded like any other.      *)
WriteCancel_Unchecked(t) ==
  LET m == ticket[t].meeting IN
  /\ At(t, "cancel", "write")
  /\ IF LiveMeeting(m) /\ (ticket[t].by # Null => Owner(t))
     THEN /\ Writes(t, m, [meeting[m] EXCEPT !.status = "Cancelled"])
          /\ invited' = [invited EXCEPT ![t] = {meeting[m].owner} \cup meeting[m].parts]
          /\ sure' = IF t \in outrun THEN sure ELSE sure \cup {t}
     ELSE UNCHANGED <<meeting, acted, outrun, invited, sure>>
  /\ Moves(t, "audit")
  /\ UNCHANGED <<trailVars, todo, told, lost>>

(* Cancel and PublicCancel: a live row of any status, and the owner's if an  *)
(* owner asks.                                                               *)
WriteCancel(t) ==
  LET m == ticket[t].meeting IN
  /\ At(t, "cancel", "write")
  /\ IF LiveMeeting(m) /\ (ticket[t].by # Null => Owner(t))
     THEN /\ Writes(t, m, [meeting[m] EXCEPT !.status = "Cancelled"])
          /\ invited' = [invited EXCEPT ![t] = {meeting[m].owner} \cup meeting[m].parts]
          /\ sure' = IF t \in outrun THEN sure ELSE sure \cup {t}
          /\ Moves(t, "audit")
     ELSE Moves(t, "done") /\ UNCHANGED <<meeting, acted, outrun, invited, sure>>
  /\ UNCHANGED <<trailVars, todo, told, lost>>

(* BookingModel.Delete, soft; nobody is told.                                *)
WriteDelete(t) ==
  LET m == ticket[t].meeting IN
  /\ At(t, "delete", "write")
  /\ IF LiveMeeting(m)
     THEN Writes(t, m, [meeting[m] EXCEPT !.deleted = TRUE]) /\ Moves(t, "audit")
     ELSE Moves(t, "done") /\ UNCHANGED <<meeting, acted, outrun>>
  /\ UNCHANGED <<trailVars, mails>>

(* SetMinutesOfMeetingFile's UPDATE, by id alone.                            *)
WriteMinutes(t) ==
  LET m == ticket[t].meeting IN
  /\ At(t, "minutes", "write")
  /\ Writes(t, m, [meeting[m] EXCEPT !.minutes = t])
  /\ Moves(t, "audit")
  /\ UNCHANGED <<trailVars, mails>>

(* The statement fails, and with it the request.                             *)
FailWrite(t) ==
  /\ Sits(t, "write") /\ Moves(t, "done")
  /\ UNCHANGED <<trailVars, meeting, todo, deskHistory>>

(* After the entry: a cancellation starts its mails from the row it read, an *)
(* upload reads the row once more.                                           *)
AfterAudit(t) ==
  /\ Moves(t, IF ticket[t].op = "minutes" THEN "refetch" ELSE "done")
  /\ todo' = IF ticket[t].op = "cancel"
             THEN [todo EXCEPT ![t] = Recipients(ticket[t].row)] ELSE todo

RecordAct(t) ==
  /\ Sits(t, "audit")
  /\ Record(t)
  /\ AfterAudit(t)
  /\ UNCHANGED <<meeting, deskHistory>>

(* The entry is lost, and nobody but the log hears of it.                    *)
RecordFails(t) ==
  /\ Sits(t, "audit")
  /\ lost' = lost \cup {t}
  /\ AfterAudit(t)
  /\ UNCHANGED <<trailVars, meeting, told, invited, acted, outrun, sure>>

Refetch(t) ==
  /\ Sits(t, "refetch")
  /\ Moves(t, "done")
  /\ todo' = [todo EXCEPT ![t] = IF LiveMeeting(ticket[t].meeting)
                                 THEN Recipients(meeting[ticket[t].meeting]) ELSE {}]
  /\ UNCHANGED <<trailVars, meeting, deskHistory>>

-----------------------------------------------------------------------------
(* Mails: notifyRecipients, one after the other.                             *)

SendTo(t, p) ==
  /\ p \in todo[t]
  /\ todo' = [todo EXCEPT ![t] = @ \ {p}]
  /\ told' = [told EXCEPT ![t] = @ \cup {p}]
  /\ UNCHANGED <<trailVars, meeting, ticket, invited, acted, outrun, sure, lost>>

(* The failure is logged, and the next recipient's turn comes.               *)
SendFails(t, p) ==
  /\ p \in todo[t]
  /\ todo' = [todo EXCEPT ![t] = @ \ {p}]
  /\ lost' = lost \cup {t}
  /\ UNCHANGED <<trailVars, meeting, ticket, told, invited, acted, outrun, sure>>

(* A slip: it answers once everybody was reached.                            *)
Confirmed_AllReached(t) ==
  /\ Sits(t, "confirm") /\ told[t] = Recipients(meeting[ticket[t].meeting])
  /\ Moves(t, "audit")
  /\ UNCHANGED <<trailVars, meeting, todo, deskHistory>>

(* A creation answers once everybody was written to.                         *)
Confirmed(t) ==
  /\ Sits(t, "confirm") /\ todo[t] = {}
  /\ Moves(t, "audit")
  /\ UNCHANGED <<trailVars, meeting, todo, deskHistory>>

-----------------------------------------------------------------------------
(* Meanwhile.                                                                *)

After == [ahead |-> "running", running |-> "over", over |-> "closed"]

(* The clock passes the start of a meeting, its end, and a day more.         *)
MeetingTick(m) ==
  /\ meeting[m] # Null /\ meeting[m].when # "closed"
  /\ meeting' = [meeting EXCEPT ![m].when = After[@]]
  /\ UNCHANGED <<trailVars, ticket, todo, deskHistory>>

InHand == {t \in Tickets : ticket[t] # Null /\ (ticket[t].step # "done" \/ todo[t] # {})}

(* The process stops; mails that were still to go out are forgotten.         *)
DeskRestart ==
  /\ ticket' = [t \in Tickets |->
                  IF t \in InHand THEN Finished(ticket[t]) ELSE ticket[t]]
  /\ todo' = [t \in Tickets |-> {}]
  /\ lost' = lost \cup InHand
  /\ UNCHANGED <<trailVars, meeting, told, invited, acted, outrun, sure>>

(* A request under way takes its next step.                                  *)
Serve(t) ==
  \/ ReadRow(t) \/ ReadFails(t) \/ FailWrite(t)
  \/ WriteEdit(t) \/ WriteCancel(t) \/ WriteDelete(t) \/ WriteMinutes(t)
  \/ Confirmed(t) \/ RecordAct(t) \/ RecordFails(t) \/ Refetch(t)

Mail(t) == \E p \in People : SendTo(t, p) \/ SendFails(t, p)

Arrive(t) ==
  \E m \in Meetings, p \in People, ps \in SUBSET People :
    \/ \E status \in {"Booked", "Cancelled"} :
         CreateBooking(t, m, p, ps, status) \/ UpdateBooking(t, m, p, ps, status)
    \/ \E op \in Ops \ {"create", "update"}, by \in {p, Null} :
         BeginRequest(t, op, m, by, ps)

DeskStep ==
  \/ \E t \in Tickets : Arrive(t) \/ Serve(t) \/ Mail(t)
  \/ \E m \in Meetings : MeetingTick(m)

(* Handlers that are no tickets record their entries, and the trail is read. *)
TrailBeside ==
  /\ TrailStep \/ \E e \in Entries \ Tickets : Record(e)
  /\ UNCHANGED deskVars

DeskNext == DeskStep \/ DeskRestart \/ TrailBeside

DeskSpec == /\ TrailInit /\ \E o \in People, ps \in SUBSET People : DeskInit(o, ps)
            /\ [][DeskNext]_<<deskVars, trailVars>>

-----------------------------------------------------------------------------
(* Properties.                                                               *)

(* Who is named on a booking when it is cancelled hears of it, or is about   *)
(* to, and nobody else does: unless the booking changed after the request    *)
(* read it, or a read, a mail or the process failed (CancelBooking,          *)
(* PublicCancelBooking: addressed from a row read before the cancellation).  *)
CancellationReachesInvited == \A t \in sure \ lost :
  /\ told[t] \cup todo[t] \subseteq invited[t]
  /\ Sits(t, "done") => invited[t] = told[t] \cup todo[t]

(* A ticket whose row nothing has touched yet is still to be recorded.       *)
ToBeRecorded == {t \in Tickets : Sits(t, "confirm") \/ Sits(t, "audit")}

(* The trail tells what happened to the bookings and nothing else: a request *)
(* has its entry only after it changed the row, and every change has one,    *)
(* or will, unless recording failed or the process stopped (audit,           *)
(* auditPublic).                                                             *)
TrailMatchesActs ==
  /\ Recorded \cap Tickets \subseteq acted
  /\ acted \subseteq Recorded \cup ToBeRecorded \cup lost

(* A booking with minutes was held: it is over and not cancelled, unless it  *)
(* was rescheduled, edited, cancelled or deleted after the upload had read   *)
(* it (SetMinutesOfMeetingFile updates by id).                               *)
MinutesOfHeldMeetings == \A m \in Meetings :
  (meeting[m] # Null /\ meeting[m].minutes # Null) =>
    \/ meeting[m].status = "Booked" /\ meeting[m].when \in {"over", "closed"}
    \/ meeting[m].minutes \in outrun

(* Every request is answered and all its mails are tried, as long as the     *)
(* mail service answers (notifyRecipients: one failure stops nothing).       *)
RequestsAreServed == \A t \in Tickets : t \in InHand ~> t \notin InHand
=============================================================================

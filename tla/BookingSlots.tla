---------------------------- MODULE BookingSlots ----------------------------
(* Booking a room while other people book, edit and cancel.  BookingModel's  *)
(* Save and PublicUpdate run as requests, one stage per database statement,  *)
(* so that every interleaving of their reads, of withRoomDateLock and of     *)
(* their writes is explored; the one-statement operations (Cancel,           *)
(* PublicCancel, Delete, PurgeOldBookings) are single steps.  The status of  *)
(* users, super admins and rooms, which Save reads before it locks, changes  *)
(* under the requests; the process may crash and any statement may fail.     *)
EXTENDS BookingRules, FiniteSets

CONSTANTS
  Requests,       \* requests being handled by Save or PublicUpdate
  NoBooking,      \* the id of a request to insert: id == 0
  NoArg,          \* an idle request has no argument
  Ops,            \* the operations on the table a run admits
  StatusInputs,   \* the stored statuses a Save request may ask for
  Unsettled,      \* the users and rooms whose standing may change in a run
  MaxConns,       \* SetMaxOpenConns of the pool
  RetentionDays,  \* BookingRetentionDays
  MaxNow          \* bound on the clock

Arg == [kind: {"save", "update"}, id: Bookings \cup {NoBooking}, user: Users,
        room: Rooms, date: Dates, start: Times, end: Times, status: Statuses]

ASSUME SlotsAssumption ==
  /\ NoBooking \notin Bookings /\ NoArg \notin Arg
  /\ Ops \subseteq {"save", "update", "cancel", "delete", "purge"}
  /\ StatusInputs \subseteq Statuses
  /\ MaxConns \in Nat \ {0} /\ RetentionDays \in Nat /\ MaxNow \in Nat

VARIABLES
  booking,      \* the bookings table
  activeUsers,  \* emails with a live users row of status "active"
  superAdmins,  \* emails of live admins rows of role "super_admin"
  openRooms,    \* rooms not deleted and of status "Active"
  now,          \* the clock
  pc,           \* per request: the statement it executes next
  arg,          \* per request: the values it holds
  stale,        \* history: bookings whose end was written for another slot
  barred        \* history, per Save: what has ruled it out ever since it came

vars == <<booking, activeUsers, superAdmins, openRooms, now, pc, arg, stale,
          barred>>

standing == <<activeUsers, superAdmins, openRooms>>

Before   == {"user", "super", "room", "begin"}  \* no transaction yet
Critical == {"check", "write", "commit"}        \* holds the advisory lock
InTx     == {"lock"} \cup Critical              \* holds a pool connection
Stages   == {"idle"} \cup Before \cup InTx

InFlight == {r \in Requests : pc[r] # "idle"}

StoreTypeOK ==
  /\ booking \in [Bookings -> Row \cup {NoRow}]
  /\ activeUsers \subseteq Users /\ superAdmins \subseteq Users
  /\ openRooms \subseteq Rooms
  /\ now \in 0 .. MaxNow
  /\ stale \subseteq Bookings

ReqTypeOK ==
  /\ pc \in [Requests -> Stages]
  /\ arg \in [Requests -> Arg \cup {NoArg}]
  /\ barred \in [Requests -> SUBSET {"user", "super", "room"}]
  /\ \A r \in InFlight : arg[r] \in Arg
  /\ \A r \in Requests : pc[r] = "commit" => arg[r].id \in Bookings

TypeOK == StoreTypeOK /\ ReqTypeOK

Init ==
  /\ booking = [b \in Bookings |-> NoRow]
  /\ activeUsers = Users /\ superAdmins = {} /\ openRooms = Rooms
  /\ now = 0
  /\ pc = [r \in Requests |-> "idle"]
  /\ arg = [r \in Requests |-> NoArg]
  /\ stale = {} /\ barred = [r \in Requests |-> {}]

-----------------------------------------------------------------------------
(* The resources a statement waits for.                                      *)

(* A pool connection: an open transaction keeps one until it ends.           *)
ConnFree == Cardinality({r \in Requests : pc[r] \in InTx}) < MaxConns

(* A slip to tell apart: a lock key that also names the start time.          *)
LockFree_KeyHasStart(r) ==
  \A q \in Requests \ {r} :
    pc[q] \in Critical =>
      ~(SameSlot(arg[q], arg[r]) /\ arg[q].start = arg[r].start)

(* pg_advisory_xact_lock on the (room, date) of r's argument.                *)
LockFree(r) == \A q \in Requests \ {r} :
                 pc[q] \in Critical => ~SameSlot(arg[q], arg[r])

(* The row lock an UPDATE takes and a transaction keeps until it ends.       *)
RowFree(b) == \A q \in Requests : pc[q] = "commit" => arg[q].id # b

(* r's write meets no row: it inserts one, or updates an id there is not.    *)
NoRowFor(r) == arg[r].id = NoBooking \/ booking[arg[r].id] = NoRow

(* A slip: the query inside the lock goes to the pool, not the transaction.  *)
Ready_OnPool(r) ==
  \/ pc[r] \in Before \cup {"check"} /\ ConnFree
  \/ pc[r] = "lock" /\ LockFree(r)
  \/ pc[r] = "write" /\ (NoRowFor(r) \/ RowFree(arg[r].id))
  \/ pc[r] = "commit"

(* r's next statement waits for nobody: outside a transaction it only wants  *)
(* a connection, inside one it has its own and may meet a lock.              *)
Ready(r) ==
  \/ pc[r] \in Before /\ ConnFree
  \/ pc[r] = "lock" /\ LockFree(r)
  \/ pc[r] = "write" /\ (NoRowFor(r) \/ RowFree(arg[r].id))
  \/ pc[r] \in {"check", "commit"}

(* Ids the sequence has not handed out, and inserts that still need one.     *)
FreeIds == {b \in Bookings : booking[b] = NoRow /\ RowFree(b)}
Inserts == {r \in InFlight : arg[r].id = NoBooking}

(* A slip: only a slot inside an occupied one counts as a conflict.          *)
HasConflict_InsideOnly(a) ==
  \E b \in Bookings \ {a.id} :
    LET row == booking[b] IN
    Blocks(row) /\ SameSlot(a, row) /\ a.start >= row.start /\ a.end <= row.end

(* The EXISTS query of the conflict check: committed rows of other bookings. *)
HasConflict(a) == \E b \in Bookings \ {a.id} :
                    Blocks(booking[b]) /\ Overlaps(a, booking[b])

-----------------------------------------------------------------------------
(* One request.                                                              *)

GoTo(r, stage) == /\ pc' = [pc EXCEPT ![r] = stage]
                  /\ UNCHANGED <<arg, barred>>

(* The handler returns; a transaction still open is rolled back.             *)
Return(r) == /\ pc' = [pc EXCEPT ![r] = "idle"]
             /\ arg' = [arg EXCEPT ![r] = NoArg]
             /\ barred' = [barred EXCEPT ![r] = {}]

Enter(r, a, stage, bars) == /\ pc' = [pc EXCEPT ![r] = stage]
                            /\ arg' = [arg EXCEPT ![r] = a]
                            /\ barred' = [barred EXCEPT ![r] = bars]

(* What speaks against a Save by user u of room ro at this moment.           *)
Bars(u, ro) == {x \in {"user", "super", "room"} :
                  \/ x = "user" /\ u \notin activeUsers
                  \/ x = "super" /\ u \in superAdmins
                  \/ x = "room" /\ ro \notin openRooms}

(* The order both handlers require of a slot; a slip lets it be empty.       *)
EndAfterStart_OrEqual(start, end) == end >= start
EndAfterStart(start, end) == end > start

(* Save, steps 1 to 6: input is clean, the slot runs forward and lies in the *)
(* future.  A rejected request changes nothing.  Bound: an insert is only    *)
(* admitted while an id is left for it.                                      *)
SaveStart(r) ==
  /\ pc[r] = "idle" /\ "save" \in Ops
  /\ \E a \in Arg :
       /\ a.kind = "save" /\ a.status \in StatusInputs
       /\ EndAfterStart(a.start, a.end)
       /\ Instant(a.date, a.start) > now
       /\ a.id = NoBooking => Cardinality(FreeIds) > Cardinality(Inserts)
       /\ Enter(r, a, "user", Bars(a.user, a.room))
  /\ UNCHANGED <<booking, standing, now, stale>>

(* Save, steps 7 to 9: three reads, each on a connection of its own.         *)
ReadUser(r) ==
  /\ pc[r] = "user" /\ Ready(r)
  /\ IF arg[r].user \in activeUsers THEN GoTo(r, "super") ELSE Return(r)
  /\ UNCHANGED <<booking, standing, now, stale>>

ReadSuperAdmin(r) ==
  /\ pc[r] = "super" /\ Ready(r)
  /\ IF arg[r].user \notin superAdmins THEN GoTo(r, "room") ELSE Return(r)
  /\ UNCHANGED <<booking, standing, now, stale>>

(* A slip: the room only has to exist.                                       *)
ReadRoom_AnyStatus(r) ==
  /\ pc[r] = "room" /\ Ready(r)
  /\ GoTo(r, "begin")
  /\ UNCHANGED <<booking, standing, now, stale>>

ReadRoom(r) ==
  /\ pc[r] = "room" /\ Ready(r)
  /\ IF arg[r].room \in openRooms THEN GoTo(r, "begin") ELSE Return(r)
  /\ UNCHANGED <<booking, standing, now, stale>>

(* PublicUpdate up to its lock: the owner of an upcoming booking asks for a  *)
(* new end; room, date and start are the ones read here.                     *)
PublicUpdateRead(r) ==
  /\ pc[r] = "idle" /\ "update" \in Ops /\ ConnFree
  /\ \E b \in Bookings, end \in Times :
       LET row == booking[b] IN
       /\ Live(row)
       /\ ComputeBookingStatus(row, now) = "Booked"
       /\ EndAfterStart(row.start, end)
       /\ Enter(r, [kind |-> "update", id |-> b, user |-> row.user,
                    room |-> row.room, date |-> row.date, start |-> row.start,
                    end |-> end, status |-> row.status], "begin", {})
  /\ UNCHANGED <<booking, standing, now, stale>>

(* withRoomDateLock: Begin takes a connection, then the advisory lock.       *)
BeginTx(r) ==
  /\ pc[r] = "begin" /\ Ready(r)
  /\ GoTo(r, "lock")
  /\ UNCHANGED <<booking, standing, now, stale>>

TakeLock(r) ==
  /\ pc[r] = "lock" /\ Ready(r)
  /\ GoTo(r, "check")
  /\ UNCHANGED <<booking, standing, now, stale>>

CheckConflict(r) ==
  /\ pc[r] = "check" /\ Ready(r)
  /\ IF HasConflict(arg[r]) THEN Return(r) ELSE GoTo(r, "write")
  /\ UNCHANGED <<booking, standing, now, stale>>

(* A slip: the drawn id is not read back.                                    *)
Insert_NoReturning(r) ==
  /\ pc[r] = "write" /\ arg[r].id = NoBooking
  /\ GoTo(r, "commit")
  /\ UNCHANGED <<booking, standing, now, stale>>

(* INSERT draws an id; UPDATE finds the row, deleted or not, and waits for   *)
(* its row lock, or finds none and the handler answers "not found".          *)
Insert(r) ==
  /\ pc[r] = "write" /\ arg[r].id = NoBooking
  /\ \E b \in FreeIds : arg' = [arg EXCEPT ![r].id = b]
  /\ pc' = [pc EXCEPT ![r] = "commit"]
  /\ UNCHANGED <<booking, standing, now, stale, barred>>

Update(r) ==
  /\ pc[r] = "write" /\ arg[r].id # NoBooking /\ Ready(r)
  /\ IF booking[arg[r].id] = NoRow THEN Return(r) ELSE GoTo(r, "commit")
  /\ UNCHANGED <<booking, standing, now, stale>>

(* A slip: the update clears deleted_at, as an upsert would.                 *)
SavedRow_Undeletes(a) ==
  [user |-> a.user, room |-> a.room, date |-> a.date, start |-> a.start,
   end |-> a.end, status |-> a.status, deleted |-> FALSE]

(* The row the transaction commits: Save writes every column but deleted_at, *)
(* PublicUpdate only the end (purpose and the like are left out).            *)
SavedRow(a) == [user |-> a.user, room |-> a.room, date |-> a.date,
                start |-> a.start, end |-> a.end, status |-> a.status,
                deleted |-> booking[a.id] # NoRow /\ booking[a.id].deleted]

MovedSince(a) == LET row == booking[a.id] IN
                 ~SameSlot(row, a) \/ row.start # a.start

SaveCommit(r) ==
  /\ pc[r] = "commit" /\ arg[r].kind = "save"
  /\ booking' = [booking EXCEPT ![arg[r].id] = SavedRow(arg[r])]
  /\ stale' = stale \ {arg[r].id}
  /\ Return(r)
  /\ UNCHANGED <<standing, now>>

(* A slip: the edit writes back the whole row it had read.                   *)
PublicUpdateCommit_WholeRow(r) ==
  /\ pc[r] = "commit" /\ arg[r].kind = "update"
  /\ booking' = [booking EXCEPT ![arg[r].id] = SavedRow(arg[r])]
  /\ stale' = stale \ {arg[r].id}
  /\ Return(r)
  /\ UNCHANGED <<standing, now>>

PublicUpdateCommit(r) ==
  /\ pc[r] = "commit" /\ arg[r].kind = "update"
  /\ booking' = [booking EXCEPT ![arg[r].id].end = arg[r].end]
  /\ stale' = IF MovedSince(arg[r]) THEN stale \cup {arg[r].id}
                                    ELSE stale \ {arg[r].id}
  /\ Return(r)
  /\ UNCHANGED <<standing, now>>

(* A statement fails: the handler returns the error.                         *)
Fail(r) ==
  /\ pc[r] # "idle"
  /\ Return(r)
  /\ UNCHANGED <<booking, standing, now, stale>>

(* Steps that wait for a connection or a lock, and steps that need neither.  *)
Acquire(r) == \/ ReadUser(r) \/ ReadSuperAdmin(r) \/ ReadRoom(r)
              \/ BeginTx(r) \/ TakeLock(r) \/ Update(r)
Proceed(r) == \/ CheckConflict(r) \/ Insert(r)
              \/ SaveCommit(r) \/ PublicUpdateCommit(r)

-----------------------------------------------------------------------------
(* One-statement operations: each waits for a connection and the row lock.   *)

Cancel(b) ==
  /\ "cancel" \in Ops /\ ConnFree /\ RowFree(b) /\ Live(booking[b])
  /\ booking' = [booking EXCEPT ![b].status = "Cancelled"]
  /\ UNCHANGED <<standing, now, pc, arg, stale, barred>>

PublicCancel(b, u) ==
  /\ "cancel" \in Ops /\ ConnFree /\ RowFree(b)
  /\ Live(booking[b]) /\ booking[b].user = u
  /\ booking' = [booking EXCEPT ![b].status = "Cancelled"]
  /\ UNCHANGED <<standing, now, pc, arg, stale, barred>>

Delete(b) ==
  /\ "delete" \in Ops /\ ConnFree /\ RowFree(b) /\ Live(booking[b])
  /\ booking' = [booking EXCEPT ![b].deleted = TRUE]
  /\ UNCHANGED <<standing, now, pc, arg, stale, barred>>

Expired == {b \in Bookings : /\ Live(booking[b])
                             /\ booking[b].date < Today(now) - RetentionDays}

PurgeOldBookings ==
  /\ "purge" \in Ops /\ ConnFree /\ Expired # {} /\ \A b \in Expired : RowFree(b)
  /\ booking' = [b \in Bookings |->
                   IF b \in Expired THEN [booking[b] EXCEPT !.deleted = TRUE]
                                    ELSE booking[b]]
  /\ UNCHANGED <<standing, now, pc, arg, stale, barred>>

-----------------------------------------------------------------------------
(* The standing Save reads, changed by the user, admin and room handlers.    *)

(* Requests of S are no longer ruled out by x.                               *)
Unbar(S, x) == barred' = [r \in Requests |-> IF r \in S THEN barred[r] \ {x}
                                                        ELSE barred[r]]
RequestsOf(u) == {r \in InFlight : arg[r].user = u}

ActivateUser(u) ==
  /\ u \notin activeUsers /\ activeUsers' = activeUsers \cup {u}
  /\ Unbar(RequestsOf(u), "user")
  /\ UNCHANGED <<booking, superAdmins, openRooms, now, pc, arg, stale>>

RevokeUser(u) ==
  /\ u \in activeUsers /\ activeUsers' = activeUsers \ {u}
  /\ UNCHANGED <<booking, superAdmins, openRooms, now, pc, arg, stale, barred>>

GrantSuperAdmin(u) ==
  /\ u \notin superAdmins /\ superAdmins' = superAdmins \cup {u}
  /\ UNCHANGED <<booking, activeUsers, openRooms, now, pc, arg, stale, barred>>

DropSuperAdmin(u) ==
  /\ u \in superAdmins /\ superAdmins' = superAdmins \ {u}
  /\ Unbar(RequestsOf(u), "super")
  /\ UNCHANGED <<booking, activeUsers, openRooms, now, pc, arg, stale>>

OpenRoom(ro) ==
  /\ ro \notin openRooms /\ openRooms' = openRooms \cup {ro}
  /\ Unbar({r \in InFlight : arg[r].room = ro}, "room")
  /\ UNCHANGED <<booking, activeUsers, superAdmins, now, pc, arg, stale>>

CloseRoom(ro) ==
  /\ ro \in openRooms /\ openRooms' = openRooms \ {ro}
  /\ UNCHANGED <<booking, activeUsers, superAdmins, now, pc, arg, stale,
                 barred>>

Tick == /\ now < MaxNow /\ now' = now + 1
        /\ UNCHANGED <<booking, standing, pc, arg, stale, barred>>

(* The process dies: Postgres rolls every open transaction back.             *)
Crash == /\ InFlight # {}
         /\ pc' = [r \in Requests |-> "idle"]
         /\ arg' = [r \in Requests |-> NoArg]
         /\ barred' = [r \in Requests |-> {}]
         /\ UNCHANGED <<booking, standing, now, stale>>

-----------------------------------------------------------------------------
Handle(r) == SaveStart(r) \/ PublicUpdateRead(r) \/ Acquire(r) \/ Proceed(r)
             \/ Fail(r)

Table == \/ \E b \in Bookings : \/ Cancel(b) \/ Delete(b)
                                \/ \E u \in Users : PublicCancel(b, u)
         \/ PurgeOldBookings

Standing ==
  \/ \E u \in Users \cap Unsettled : \/ ActivateUser(u) \/ RevokeUser(u)
                                     \/ GrantSuperAdmin(u) \/ DropSuperAdmin(u)
  \/ \E ro \in Rooms \cap Unsettled : OpenRoom(ro) \/ CloseRoom(ro)

Next == (\E r \in Requests : Handle(r)) \/ Table \/ Standing \/ Tick \/ Crash

Spec == Init /\ [][Next]_vars

(* A goroutine is always scheduled again, and no waiter is passed over for   *)
(* ever: Postgres queues lock requests, database/sql queues for connections. *)
Fairness == \A r \in Requests : WF_vars(Proceed(r)) /\ SF_vars(Acquire(r))
FairSpec == Spec /\ Fairness

-----------------------------------------------------------------------------
(* Properties.                                                               *)

Collide(b, c) == Blocks(booking[b]) /\ Blocks(booking[c])
                 /\ Overlaps(booking[b], booking[c])

(* withRoomDateLock's promise, as far as the code keeps it: two occupied     *)
(* slots of one room overlap only if one of the two bookings got its end     *)
(* time from a PublicUpdate that had locked and checked another slot.        *)
OverlapOnlyByStaleEdit ==
  \A b, c \in Bookings : b # c /\ Collide(b, c) => b \in stale \/ c \in stale

(* The promise as its comment makes it: requests for the same room and day   *)
(* serialize on the lock, so no two bookings share a slot.                   *)
NoDoubleBooking ==
  \A b, c \in Bookings : b # c => ~Collide(b, c)

(* Save and PublicUpdate both refuse an end that is not after the start; a   *)
(* stored row breaks this only when a stale PublicUpdate wrote its end.      *)
ForwardUnlessStale ==
  \A b \in Bookings : booking[b] # NoRow /\ b \notin stale =>
                        booking[b].start < booking[b].end

(* Save's checks outside the lock still bind: no Save reaches its            *)
(* transaction if its user was inactive, or a super admin, or its room was   *)
(* closed, during all of the request.                                        *)
AdmittedWhileEligible ==
  \A r \in Requests : pc[r] \in {"begin"} \cup InTx => barred[r] = {}

(* The updates of Save and PublicUpdate do not ask for deleted_at IS NULL:   *)
(* whatever they write, a deleted booking never comes back.                  *)
SoftDeleteIsFinal ==
  [][\A b \in Bookings : booking[b] # NoRow /\ booking[b].deleted
       => booking'[b] # NoRow /\ booking'[b].deleted]_vars

(* A PublicUpdate that races a cancellation or a deletion may still write    *)
(* the booking's end, but only a whole Save makes a released slot occupied.  *)
OnlySaveRevives ==
  [][\A b \in Bookings :
       ~Blocks(booking[b]) /\ Blocks(booking'[b])
         => \E r \in Requests : SaveCommit(r) /\ arg[r].id = b]_vars

(* Seen without its locks and transactions, the table does what BookingLedger*)
(* allows.                                                                   *)
Ledger == INSTANCE BookingLedger
LedgerSpec == Ledger!Spec

(* A request inside withRoomDateLock asks for no second connection, and takes*)
(* the advisory lock before any row: whatever requests hold and wait for,    *)
(* one of them can move, and none waits but for one that holds a transaction *)
(* and can move.                                                             *)
NoGridlock == \A r \in InFlight :
                Ready(r) \/ \E q \in InFlight : pc[q] \in InTx /\ Ready(q)

(* Pool, advisory locks and row locks never leave a request waiting forever. *)
RequestsFinish == \A r \in Requests : pc[r] # "idle" ~> pc[r] = "idle"

-----------------------------------------------------------------------------
(* The inductive invariant behind OverlapOnlyByStaleEdit.                    *)

(* Holders of the advisory lock of one (room, date) exclude each other.      *)
LockExclusion ==
  \A r, q \in Requests : r # q /\ pc[r] \in Critical /\ pc[q] \in Critical
                           => ~SameSlot(arg[r], arg[q])

ForwardArgs == \A r \in InFlight : arg[r].start < arg[r].end

(* A slot found free stays free of all but stale bookings until the commit.  *)
FreeFor(b, x) == \A c \in Bookings \ ({b} \cup stale) :
                   Blocks(booking[c]) => ~Overlaps(x, booking[c])
CheckedSlotStaysFree ==
  \A r \in Requests : pc[r] \in {"write", "commit"} => FreeFor(arg[r].id, arg[r])

(* An edit in flight is of a row the table has.                              *)
EditsHaveRows ==
  \A r \in InFlight : arg[r].kind = "update" =>
                        arg[r].id \in Bookings /\ booking[arg[r].id] # NoRow

SlotInv == /\ TypeOK
           /\ LockExclusion /\ ForwardArgs /\ CheckedSlotStaysFree
           /\ EditsHaveRows
           /\ OverlapOnlyByStaleEdit /\ ForwardUnlessStale
=============================================================================

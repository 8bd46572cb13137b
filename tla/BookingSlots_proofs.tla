------------------------ MODULE BookingSlots_proofs -------------------------
(* Proofs about BookingSlots, for every set of requests, bookings, users,    *)
(* rooms, dates and times, any pool size and any clock bound.                *)
EXTENDS BookingSlots, FiniteSetTheorems, TLAPS

USE RulesAssumption, SlotsAssumption

(* Times of day compare as integers.                                         *)
LEMMA TimesAreIntegers ==
  \A t \in Times : t \in Int
<1> TAKE t \in Times
<1>1. t \in 0 .. DayLength - 1 /\ DayLength - 1 \in Int
  OBVIOUS
<1> QED BY <1>1

-----------------------------------------------------------------------------
(* Type correctness.  TypeOK is not inductive alone: a PublicUpdateCommit    *)
(* needs the row its request read, so it goes with EditsHaveRows.            *)

(* The three ways a step of one request keeps the request variables typed.   *)
LEMMA GoToTyped ==
  ASSUME NEW r \in Requests, NEW stage \in Stages, ReqTypeOK, GoTo(r, stage),
         pc[r] # "idle",
         stage = "commit" => arg[r].id \in Bookings
  PROVE  ReqTypeOK'
BY DEF ReqTypeOK, GoTo, InFlight

LEMMA ReturnTyped ==
  ASSUME NEW r \in Requests, ReqTypeOK, Return(r)
  PROVE  ReqTypeOK'
BY DEF ReqTypeOK, Return, InFlight, Stages

LEMMA EnterTyped ==
  ASSUME NEW r \in Requests, NEW a \in Arg, NEW stage \in Stages \ {"commit"},
         NEW bars \in SUBSET {"user", "super", "room"},
         ReqTypeOK, Enter(r, a, stage, bars)
  PROVE  ReqTypeOK'
BY DEF ReqTypeOK, Enter, InFlight

(* One request's step is well typed when what it leaves in the table is.     *)
LEMMA HandleTyped ==
  ASSUME NEW r \in Requests, TypeOK, EditsHaveRows, Handle(r)
  PROVE  TypeOK'
<1> USE DEF TypeOK
<1> DEFINE Kept == UNCHANGED <<booking, standing, now, stale>>
<1>stages. /\ {"user", "super", "room", "begin", "lock", "check", "write",
               "commit"} \subseteq Stages
           /\ "idle" \notin {"user", "super", "room", "begin", "lock", "check",
                            "write", "commit"}
  BY DEF Stages, Before, InTx, Critical
<1>kept. Kept => StoreTypeOK'
  BY DEF StoreTypeOK, standing
<1> HIDE DEF Kept
<1>1. CASE SaveStart(r)
  <2>1. PICK a \in Arg : Enter(r, a, "user", Bars(a.user, a.room))
    BY <1>1 DEF SaveStart
  <2>2. Bars(a.user, a.room) \in SUBSET {"user", "super", "room"}
    BY DEF Bars
  <2>3. ReqTypeOK'
    BY <2>1, <2>2, <1>stages, EnterTyped
  <2> QED BY <2>3, <1>1, <1>kept DEF SaveStart, Kept
<1>2. CASE PublicUpdateRead(r)
  <2>1. PICK b \in Bookings, end \in Times :
          /\ Live(booking[b])
          /\ Enter(r, [kind |-> "update", id |-> b, user |-> booking[b].user,
                       room |-> booking[b].room, date |-> booking[b].date,
                       start |-> booking[b].start, end |-> end,
                       status |-> booking[b].status], "begin", {})
    BY <1>2 DEF PublicUpdateRead
  <2>2. booking[b] \in Row
    BY <2>1 DEF StoreTypeOK, Live
  <2>3. [kind |-> "update", id |-> b, user |-> booking[b].user,
         room |-> booking[b].room, date |-> booking[b].date,
         start |-> booking[b].start, end |-> end,
         status |-> booking[b].status] \in Arg
    BY <2>2 DEF Arg, Row
  <2>4. ReqTypeOK'
    BY <2>1, <2>3, <1>stages, EnterTyped
  <2> QED BY <2>4, <1>2, <1>kept DEF PublicUpdateRead, Kept
<1>3. CASE ReadUser(r) \/ ReadSuperAdmin(r) \/ ReadRoom(r)
  BY <1>3, <1>stages, <1>kept, GoToTyped, ReturnTyped
     DEF ReadUser, ReadSuperAdmin, ReadRoom, Kept
<1>4. CASE BeginTx(r) \/ TakeLock(r) \/ CheckConflict(r)
  BY <1>4, <1>stages, <1>kept, GoToTyped, ReturnTyped
     DEF BeginTx, TakeLock, CheckConflict, Kept
<1>5. CASE Insert(r)
  <2>1. PICK b \in FreeIds : arg' = [arg EXCEPT ![r].id = b]
    BY <1>5 DEF Insert
  <2>2. b \in Bookings /\ arg[r] \in Arg
    BY <1>5 DEF FreeIds, ReqTypeOK, InFlight, Insert
  <2>3. [arg[r] EXCEPT !.id = b] \in Arg
    BY <2>2 DEF Arg
  <2>4. arg' = [arg EXCEPT ![r] = [arg[r] EXCEPT !.id = b]]
    BY <2>1
  <2>5. [arg[r] EXCEPT !.id = b].id = b
    BY <2>2 DEF Arg
  <2>6. pc' = [pc EXCEPT ![r] = "commit"] /\ barred' = barred /\ pc[r] = "write"
    BY <1>5 DEF Insert
  <2> HIDE DEF Arg
  <2>7. ReqTypeOK'
    BY <2>2, <2>3, <2>4, <2>5, <2>6, <1>stages DEF ReqTypeOK, InFlight
  <2> QED BY <2>7, <1>5, <1>kept DEF Insert, Kept
<1>6. CASE Update(r)
  <2>1. arg[r].id # NoBooking /\ arg[r] \in Arg => arg[r].id \in Bookings
    BY DEF Arg
  <2> QED
    BY <1>6, <2>1, <1>stages, <1>kept, GoToTyped, ReturnTyped
       DEF Update, Kept, ReqTypeOK, InFlight
<1>7. CASE SaveCommit(r)
  <2>1. arg[r] \in Arg /\ arg[r].id \in Bookings
    BY <1>7 DEF SaveCommit, ReqTypeOK, InFlight
  <2>2. SavedRow(arg[r]) \in Row
    BY <2>1 DEF SavedRow, Arg, Row, StoreTypeOK
  <2>3. StoreTypeOK'
    BY <1>7, <2>1, <2>2 DEF SaveCommit, StoreTypeOK, standing
  <2> QED BY <1>7, <2>3, ReturnTyped DEF SaveCommit
<1>8. CASE PublicUpdateCommit(r)
  <2>1. arg[r] \in Arg /\ arg[r].id \in Bookings
    BY <1>8 DEF PublicUpdateCommit, ReqTypeOK, InFlight
  <2>2. booking[arg[r].id] \in Row
    BY <1>8, <2>1 DEF PublicUpdateCommit, EditsHaveRows, InFlight, StoreTypeOK
  <2>3. [booking[arg[r].id] EXCEPT !.end = arg[r].end] \in Row
    BY <2>1, <2>2 DEF Row, Arg
  <2>4. booking' = [booking EXCEPT ![arg[r].id] =
                     [booking[arg[r].id] EXCEPT !.end = arg[r].end]]
    BY <1>8 DEF PublicUpdateCommit
  <2>5. booking' \in [Bookings -> Row \cup {NoRow}]
    BY <2>1, <2>3, <2>4 DEF StoreTypeOK
  <2>6. StoreTypeOK'
    BY <1>8, <2>1, <2>5 DEF PublicUpdateCommit, StoreTypeOK, standing
  <2> QED BY <1>8, <2>6, ReturnTyped DEF PublicUpdateCommit
<1>9. CASE Fail(r)
  BY <1>9, <1>kept, ReturnTyped DEF Fail, Kept
<1> QED
  BY <1>1, <1>2, <1>3, <1>4, <1>5, <1>6, <1>7, <1>8, <1>9
     DEF Handle, Acquire, Proceed

(* The one-statement operations write whole rows over rows.                  *)
LEMMA TableTyped ==
  ASSUME TypeOK, Table
  PROVE  TypeOK'
<1> USE DEF TypeOK
<1>1. UNCHANGED <<standing, now, pc, arg, stale, barred>>
  BY DEF Table, Cancel, PublicCancel, Delete, PurgeOldBookings
<1>2. \A b \in Bookings : Live(booking[b]) =>
        /\ [booking[b] EXCEPT !.status = "Cancelled"] \in Row
        /\ [booking[b] EXCEPT !.deleted = TRUE] \in Row
  BY DEF StoreTypeOK, Live, Row, Statuses
<1>3. booking' \in [Bookings -> Row \cup {NoRow}]
  <2>1. ASSUME NEW b \in Bookings, NEW u \in Users,
               PublicCancel(b, u)
        PROVE  booking' \in [Bookings -> Row \cup {NoRow}]
    <3>1. /\ Live(booking[b])
          /\ booking' = [booking EXCEPT ![b] =
                           [booking[b] EXCEPT !.status = "Cancelled"]]
      BY <2>1 DEF PublicCancel
    <3> QED BY <3>1, <1>2 DEF StoreTypeOK
  <2>2. ASSUME NEW b \in Bookings, Cancel(b)
        PROVE  booking' \in [Bookings -> Row \cup {NoRow}]
    <3>1. /\ Live(booking[b])
          /\ booking' = [booking EXCEPT ![b] =
                           [booking[b] EXCEPT !.status = "Cancelled"]]
      BY <2>2 DEF Cancel
    <3> QED BY <3>1, <1>2 DEF StoreTypeOK
  <2>3. ASSUME NEW b \in Bookings, Delete(b)
        PROVE  booking' \in [Bookings -> Row \cup {NoRow}]
    <3>1. /\ Live(booking[b])
          /\ booking' = [booking EXCEPT ![b] =
                           [booking[b] EXCEPT !.deleted = TRUE]]
      BY <2>3 DEF Delete
    <3> QED BY <3>1, <1>2 DEF StoreTypeOK
  <2>4. CASE PurgeOldBookings
    BY <2>4, <1>2 DEF PurgeOldBookings, Expired, StoreTypeOK
  <2> QED BY <2>1, <2>2, <2>3, <2>4 DEF Table
<1>4. StoreTypeOK'
  BY <1>1, <1>3 DEF StoreTypeOK, standing
<1>5. ReqTypeOK'
  BY <1>1 DEF ReqTypeOK, InFlight
<1> QED BY <1>4, <1>5

(* The standing of users and rooms, the clock and a crash.                   *)
LEMMA SurroundingsTyped ==
  ASSUME TypeOK, Standing \/ Tick \/ Crash
  PROVE  TypeOK'
<1> USE DEF TypeOK
<1>1. CASE Standing
  <2>1. UNCHANGED <<booking, now, pc, arg, stale>>
    BY <1>1 DEF Standing, ActivateUser, RevokeUser, GrantSuperAdmin,
                DropSuperAdmin, OpenRoom, CloseRoom
  <2>2. /\ activeUsers' \subseteq Users /\ superAdmins' \subseteq Users
        /\ openRooms' \subseteq Rooms
    BY <1>1 DEF Standing, ActivateUser, RevokeUser, GrantSuperAdmin,
                DropSuperAdmin, OpenRoom, CloseRoom, StoreTypeOK
  <2>3. barred' \in [Requests -> SUBSET {"user", "super", "room"}]
    BY <1>1 DEF Standing, ActivateUser, RevokeUser, GrantSuperAdmin,
                DropSuperAdmin, OpenRoom, CloseRoom, Unbar, ReqTypeOK
  <2>4. StoreTypeOK'
    BY <2>1, <2>2 DEF StoreTypeOK
  <2>5. ReqTypeOK'
    BY <2>1, <2>3 DEF ReqTypeOK, InFlight
  <2> QED BY <2>4, <2>5
<1>2. CASE Tick
  BY <1>2 DEF Tick, StoreTypeOK, ReqTypeOK, InFlight, standing
<1>3. CASE Crash
  BY <1>3 DEF Crash, StoreTypeOK, ReqTypeOK, InFlight, standing, Stages
<1> QED BY <1>1, <1>2, <1>3

-----------------------------------------------------------------------------
(* What a step does to the table.                                            *)

(* No row appears or vanishes, and no slot moves or becomes occupied.        *)
Quiet ==
  /\ stale' = stale
  /\ \A b \in Bookings :
       /\ booking'[b] = NoRow <=> booking[b] = NoRow
       /\ booking[b] # NoRow =>
            /\ SameSlot(booking'[b], booking[b])
            /\ booking'[b].start = booking[b].start
            /\ booking'[b].end = booking[b].end
            /\ Blocks(booking'[b]) => Blocks(booking[b])
            /\ booking[b].deleted => booking'[b].deleted

(* Every step but the two commits is quiet.                                  *)
LEMMA QuietStep ==
  ASSUME TypeOK, [Next]_vars,
         \A r \in Requests : ~SaveCommit(r) /\ ~PublicUpdateCommit(r)
  PROVE  Quiet
<1> USE DEF TypeOK
<1>1. UNCHANGED <<booking, stale>> => Quiet
  BY DEF Quiet, SameSlot, Blocks
<1>2. ASSUME NEW r \in Requests, Handle(r)
      PROVE  UNCHANGED <<booking, stale>>
  BY <1>2 DEF Handle, Acquire, Proceed, SaveStart, PublicUpdateRead, ReadUser,
              ReadSuperAdmin, ReadRoom, BeginTx, TakeLock, CheckConflict,
              Insert, Update, Fail
<1>3. CASE Standing \/ Tick \/ Crash
  BY <1>1, <1>3 DEF Standing, Tick, Crash, ActivateUser, RevokeUser,
        GrantSuperAdmin, DropSuperAdmin, OpenRoom, CloseRoom
<1>4. CASE Table
  <2>1. stale' = stale
    BY <1>4 DEF Table, Cancel, PublicCancel, Delete, PurgeOldBookings
  <2>2. ASSUME NEW b \in Bookings
        PROVE  \/ booking'[b] = booking[b]
               \/ /\ Live(booking[b])
                  /\ \/ booking'[b] = [booking[b] EXCEPT !.status = "Cancelled"]
                     \/ booking'[b] = [booking[b] EXCEPT !.deleted = TRUE]
    BY <1>4 DEF Table, Cancel, PublicCancel, Delete, PurgeOldBookings, Expired,
                StoreTypeOK
  <2>3. ASSUME NEW b \in Bookings
        PROVE  booking[b] # NoRow => booking[b] \in Row
    BY DEF StoreTypeOK
  <2>5. ASSUME NEW b \in Bookings
        PROVE  /\ booking'[b] = NoRow <=> booking[b] = NoRow
               /\ booking[b] # NoRow =>
                    /\ SameSlot(booking'[b], booking[b])
                    /\ booking'[b].start = booking[b].start
                    /\ booking'[b].end = booking[b].end
                    /\ Blocks(booking'[b]) => Blocks(booking[b])
                    /\ booking[b].deleted => booking'[b].deleted
    <3>1. CASE booking'[b] = booking[b]
      BY <3>1 DEF SameSlot
    <3>2. CASE /\ Live(booking[b])
               /\ booking'[b] = [booking[b] EXCEPT !.status = "Cancelled"]
      <4>1. booking[b] # NoRow /\ booking[b] \in Row
        BY <3>2, <2>3 DEF Live
      <4>2. /\ booking'[b] \in Row
            /\ SameSlot(booking'[b], booking[b])
            /\ booking'[b].start = booking[b].start
            /\ booking'[b].end = booking[b].end
            /\ booking'[b].status = "Cancelled"
        BY <3>2, <4>1 DEF Row, SameSlot, Statuses
      <4> QED BY <3>2, <4>1, <4>2 DEF Blocks, Live
    <3>3. CASE /\ Live(booking[b])
               /\ booking'[b] = [booking[b] EXCEPT !.deleted = TRUE]
      <4>1. booking[b] # NoRow /\ booking[b] \in Row
        BY <3>3, <2>3 DEF Live
      <4>2. /\ booking'[b] \in Row
            /\ SameSlot(booking'[b], booking[b])
            /\ booking'[b].start = booking[b].start
            /\ booking'[b].end = booking[b].end
            /\ booking'[b].deleted
        BY <3>3, <4>1 DEF Row, SameSlot, Statuses
      <4> QED BY <3>3, <4>1, <4>2 DEF Blocks, Live
    <3> QED BY <2>2, <3>1, <3>2, <3>3
  <2> QED BY <2>1, <2>5 DEF Quiet
<1> QED BY <1>1, <1>2, <1>3, <1>4 DEF Next, vars

(* A commit writes one row, over a row or where there was none.              *)
LEMMA CommitStep ==
  ASSUME TypeOK, EditsHaveRows, NEW r \in Requests,
         SaveCommit(r) \/ PublicUpdateCommit(r)
  PROVE  /\ arg[r] \in Arg /\ arg[r].id \in Bookings
         /\ booking'[arg[r].id] \in Row
         /\ booking'[arg[r].id].end = arg[r].end
         /\ \A b \in Bookings \ {arg[r].id} : booking'[b] = booking[b]
         /\ booking[arg[r].id] # NoRow =>
              booking'[arg[r].id].deleted = booking[arg[r].id].deleted
         /\ SaveCommit(r) => /\ SameSlot(booking'[arg[r].id], arg[r])
                             /\ booking'[arg[r].id].start = arg[r].start
         /\ PublicUpdateCommit(r) =>
              /\ booking[arg[r].id] # NoRow
              /\ SameSlot(booking'[arg[r].id], booking[arg[r].id])
              /\ booking'[arg[r].id].start = booking[arg[r].id].start
              /\ booking'[arg[r].id].status = booking[arg[r].id].status
<1>1. arg[r] \in Arg /\ arg[r].id \in Bookings
  BY DEF SaveCommit, PublicUpdateCommit, TypeOK, ReqTypeOK, InFlight
<1>2. booking \in [Bookings -> Row \cup {NoRow}]
  BY DEF TypeOK, StoreTypeOK
<1>3. CASE SaveCommit(r)
  <2>1. booking' = [booking EXCEPT ![arg[r].id] = SavedRow(arg[r])]
    BY <1>3 DEF SaveCommit
  <2>2. /\ SavedRow(arg[r]) \in Row
        /\ SavedRow(arg[r]).end = arg[r].end
        /\ SameSlot(SavedRow(arg[r]), arg[r])
        /\ SavedRow(arg[r]).start = arg[r].start
        /\ booking[arg[r].id] # NoRow =>
             SavedRow(arg[r]).deleted = booking[arg[r].id].deleted
    BY <1>1, <1>2 DEF SavedRow, Arg, Row, SameSlot
  <2>3. ~PublicUpdateCommit(r)
    BY <1>3 DEF SaveCommit, PublicUpdateCommit
  <2> QED BY <1>1, <1>2, <2>1, <2>2, <2>3
<1>4. CASE PublicUpdateCommit(r)
  <2> DEFINE row == [booking[arg[r].id] EXCEPT !.end = arg[r].end]
  <2>1. booking[arg[r].id] \in Row
    BY <1>1, <1>2, <1>4 DEF PublicUpdateCommit, EditsHaveRows, InFlight
  <2>2. booking' = [booking EXCEPT ![arg[r].id] = row]
    BY <1>4 DEF PublicUpdateCommit
  <2>3. /\ row \in Row
        /\ row.end = arg[r].end
        /\ SameSlot(row, booking[arg[r].id])
        /\ row.start = booking[arg[r].id].start
        /\ row.status = booking[arg[r].id].status
        /\ row.deleted = booking[arg[r].id].deleted
    BY <1>1, <2>1 DEF Arg, Row, SameSlot
  <2>4. ~SaveCommit(r)
    BY <1>4 DEF SaveCommit, PublicUpdateCommit
  <2> HIDE DEF row
  <2> QED BY <1>1, <1>2, <2>1, <2>2, <2>3, <2>4
<1> QED BY <1>3, <1>4

(* A row, once inserted, stays in the table.                                 *)
LEMMA RowsStay ==
  ASSUME TypeOK, EditsHaveRows, [Next]_vars, NEW b \in Bookings,
         booking[b] # NoRow
  PROVE  booking'[b] # NoRow
<1>1. CASE \A r \in Requests : ~SaveCommit(r) /\ ~PublicUpdateCommit(r)
  BY <1>1, QuietStep DEF Quiet
<1>2. CASE \E r \in Requests : SaveCommit(r) \/ PublicUpdateCommit(r)
  BY <1>2, CommitStep
<1> QED BY <1>1, <1>2

-----------------------------------------------------------------------------
(* What a step does to a request.                                            *)

(* Request q goes on with the values it had, or has just come with an        *)
(* ordered slot, or has just drawn the id of its insert.                     *)
Carries(q) == pc[q] # "idle" /\ arg'[q] = arg[q]
Arrives(q) ==
  /\ pc'[q] \in {"user", "begin"} /\ arg'[q].start < arg'[q].end
  /\ arg'[q].kind = "update" =>
       /\ arg'[q].id \in Bookings /\ booking[arg'[q].id] # NoRow
       /\ SameSlot(booking[arg'[q].id], arg'[q])
       /\ booking[arg'[q].id].start = arg'[q].start
DrawsId(q) ==
  /\ pc[q] = "write" /\ arg[q].id = NoBooking
  /\ arg'[q].id \in Bookings /\ arg'[q].kind = arg[q].kind
  /\ SameSlot(arg'[q], arg[q])
  /\ arg'[q].start = arg[q].start /\ arg'[q].end = arg[q].end

LEMMA RequestStep ==
  ASSUME TypeOK, [Next]_vars, NEW q \in Requests, pc'[q] # "idle"
  PROVE  Carries(q) \/ Arrives(q) \/ DrawsId(q)
<1> USE DEF TypeOK, ReqTypeOK
<1>0. UNCHANGED <<pc, arg>> => Carries(q)
  BY DEF Carries
<1>1. ASSUME NEW r \in Requests, Handle(r), q # r
      PROVE  UNCHANGED <<pc[q], arg[q]>>
  BY <1>1 DEF Handle, Acquire, Proceed, SaveStart, PublicUpdateRead, ReadUser,
        ReadSuperAdmin, ReadRoom, BeginTx, TakeLock, CheckConflict, Insert,
        Update, SaveCommit, PublicUpdateCommit, Fail, Enter, GoTo, Return
<1>2. CASE Handle(q)
  <2>1. CASE SaveStart(q)
    <3>1. PICK a \in Arg : /\ a.kind = "save" /\ EndAfterStart(a.start, a.end)
                           /\ Enter(q, a, "user", Bars(a.user, a.room))
      BY <2>1 DEF SaveStart
    <3>2. a.start < a.end
      <4>1. a.start \in Times /\ a.end \in Times
        BY DEF Arg
      <4>2. a.start \in Int /\ a.end \in Int
        BY <4>1, TimesAreIntegers
      <4> QED BY <3>1, <4>2 DEF EndAfterStart
    <3> QED BY <3>1, <3>2 DEF Enter, Arrives
  <2>2. CASE PublicUpdateRead(q)
    <3>1. PICK b \in Bookings, end \in Times :
            /\ Live(booking[b]) /\ EndAfterStart(booking[b].start, end)
            /\ Enter(q, [kind |-> "update", id |-> b, user |-> booking[b].user,
                         room |-> booking[b].room, date |-> booking[b].date,
                         start |-> booking[b].start, end |-> end,
                         status |-> booking[b].status], "begin", {})
      BY <2>2 DEF PublicUpdateRead
    <3>2. booking[b].start < end
      <4>1. booking[b] \in Row
        BY <3>1 DEF Live, StoreTypeOK
      <4>2. booking[b].start \in Int /\ end \in Int
        BY <4>1, TimesAreIntegers DEF Row
      <4> QED BY <3>1, <4>2 DEF EndAfterStart
    <3> QED BY <3>1, <3>2 DEF Enter, Arrives, Live, SameSlot
  <2>3. CASE \/ ReadUser(q) \/ ReadSuperAdmin(q) \/ ReadRoom(q) \/ BeginTx(q)
             \/ TakeLock(q) \/ CheckConflict(q) \/ Update(q) \/ Fail(q)
             \/ SaveCommit(q) \/ PublicUpdateCommit(q)
    BY <2>3 DEF Carries, ReadUser, ReadSuperAdmin, ReadRoom, BeginTx, TakeLock,
          CheckConflict, Update, Fail, SaveCommit, PublicUpdateCommit, GoTo,
          Return
  <2>4. CASE Insert(q)
    <3>1. PICK b \in FreeIds : arg' = [arg EXCEPT ![q].id = b]
      BY <2>4 DEF Insert
    <3>2. b \in Bookings /\ arg[q] \in Arg
      BY <2>4 DEF FreeIds, InFlight, Insert
    <3>3. arg'[q] = [arg[q] EXCEPT !.id = b]
      BY <3>1
    <3>4. /\ arg'[q].id = b /\ arg'[q].kind = arg[q].kind
          /\ SameSlot(arg'[q], arg[q])
          /\ arg'[q].start = arg[q].start /\ arg'[q].end = arg[q].end
      BY <3>2, <3>3 DEF Arg, SameSlot
    <3> QED BY <2>4, <3>2, <3>4 DEF DrawsId, Insert
  <2> QED BY <1>2, <2>1, <2>2, <2>3, <2>4 DEF Handle, Acquire, Proceed
<1>3. CASE Table \/ Tick \/ Standing
  <2>1. UNCHANGED <<pc, arg>>
    BY <1>3 DEF Table, Tick, Standing, Cancel, PublicCancel, Delete,
          PurgeOldBookings, ActivateUser, RevokeUser, GrantSuperAdmin,
          DropSuperAdmin, OpenRoom, CloseRoom
  <2> QED BY <2>1, <1>0
<1>4. CASE Crash
  BY <1>4 DEF Crash
<1> QED BY <1>0, <1>1, <1>2, <1>3, <1>4 DEF Next, vars, Carries

(* A request enters its critical section by TakeLock, and the part of it     *)
(* after the conflict check by a CheckConflict that found none.              *)
LEMMA StageStep ==
  ASSUME TypeOK, [Next]_vars, NEW q \in Requests
  PROVE  /\ pc'[q] \in Critical => pc[q] \in Critical \/ TakeLock(q)
         /\ pc'[q] \in {"write", "commit"} =>
              \/ pc[q] \in {"write", "commit"}
              \/ CheckConflict(q) /\ ~HasConflict(arg[q])
<1> USE DEF TypeOK, ReqTypeOK, Critical
<1>1. ASSUME NEW r \in Requests, Handle(r), q # r
      PROVE  pc'[q] = pc[q]
  BY <1>1 DEF Handle, Acquire, Proceed, SaveStart, PublicUpdateRead, ReadUser,
        ReadSuperAdmin, ReadRoom, BeginTx, TakeLock, CheckConflict, Insert,
        Update, SaveCommit, PublicUpdateCommit, Fail, Enter, GoTo, Return
<1>2. CASE Handle(q) /\ ~TakeLock(q) /\ ~CheckConflict(q)
  BY <1>2 DEF Handle, Acquire, Proceed, SaveStart, PublicUpdateRead, ReadUser,
        ReadSuperAdmin, ReadRoom, BeginTx, Insert, Update, SaveCommit,
        PublicUpdateCommit, Fail, Enter, GoTo, Return
<1>3. CASE TakeLock(q) \/ CheckConflict(q)
  BY <1>3 DEF TakeLock, CheckConflict, GoTo, Return
<1>4. CASE Table \/ Tick \/ Standing \/ Crash
  BY <1>4 DEF Table, Tick, Standing, Crash, Cancel, PublicCancel, Delete,
        PurgeOldBookings, ActivateUser, RevokeUser, GrantSuperAdmin,
        DropSuperAdmin, OpenRoom, CloseRoom
<1> QED BY <1>1, <1>2, <1>3, <1>4 DEF Next, vars

-----------------------------------------------------------------------------
(* The inductive invariant.                                                  *)

LEMMA TypeStep ==
  ASSUME TypeOK, EditsHaveRows, [Next]_vars
  PROVE  TypeOK'
<1>1. CASE UNCHANGED vars
  BY <1>1 DEF vars, standing, TypeOK, StoreTypeOK, ReqTypeOK, InFlight
<1> QED
  BY <1>1, HandleTyped, TableTyped, SurroundingsTyped DEF Next

LEMMA EditsHaveRowsStep ==
  ASSUME TypeOK, EditsHaveRows, [Next]_vars
  PROVE  EditsHaveRows'
<1> SUFFICES ASSUME NEW q \in Requests, pc'[q] # "idle",
                    arg'[q].kind = "update"
             PROVE  arg'[q].id \in Bookings /\ booking'[arg'[q].id] # NoRow
  BY DEF EditsHaveRows, InFlight
<1>1. arg'[q].id \in Bookings /\ booking[arg'[q].id] # NoRow
  <2>1. pc[q] # "idle" /\ arg[q].kind = "update" =>
          arg[q].id \in Bookings /\ booking[arg[q].id] # NoRow
    BY DEF EditsHaveRows, InFlight
  <2> QED BY <2>1, RequestStep DEF Carries, Arrives, DrawsId
<1> QED BY <1>1, RowsStay

LEMMA ForwardArgsStep ==
  ASSUME TypeOK, ForwardArgs, [Next]_vars
  PROVE  ForwardArgs'
<1> SUFFICES ASSUME NEW q \in Requests, pc'[q] # "idle"
             PROVE  arg'[q].start < arg'[q].end
  BY DEF ForwardArgs, InFlight
<1>1. pc[q] # "idle" => arg[q].start < arg[q].end
  BY DEF ForwardArgs, InFlight
<1> QED BY <1>1, RequestStep DEF Carries, Arrives, DrawsId

(* Who is in the critical section keeps the slot it locked.                  *)
LEMMA LockedSlotStays ==
  ASSUME TypeOK, [Next]_vars, NEW q \in Requests, pc'[q] \in Critical
  PROVE  /\ SameSlot(arg'[q], arg[q])
         /\ arg'[q].start = arg[q].start /\ arg'[q].end = arg[q].end
BY RequestStep DEF Carries, Arrives, DrawsId, SameSlot, Critical

LEMMA LockExclusionStep ==
  ASSUME TypeOK, LockExclusion, [Next]_vars
  PROVE  LockExclusion'
<1> SUFFICES ASSUME NEW r \in Requests, NEW q \in Requests, r # q,
                    pc'[r] \in Critical, pc'[q] \in Critical
             PROVE  ~SameSlot(arg'[r], arg'[q])
  BY DEF LockExclusion, SameSlot
<1>1. ~SameSlot(arg[r], arg[q])
  <2>1. CASE pc[r] \in Critical /\ pc[q] \in Critical
    BY <2>1 DEF LockExclusion
  <2>2. CASE TakeLock(r)
    <3>1. pc'[q] = pc[q]
      BY <2>2 DEF TakeLock, GoTo, TypeOK, ReqTypeOK
    <3> QED BY <2>2, <3>1 DEF TakeLock, Ready, LockFree, Before, SameSlot
  <2>3. CASE TakeLock(q)
    <3>1. pc'[r] = pc[r]
      BY <2>3 DEF TakeLock, GoTo, TypeOK, ReqTypeOK
    <3> QED BY <2>3, <3>1 DEF TakeLock, Ready, LockFree, Before, SameSlot
  <2> QED BY <2>1, <2>2, <2>3, StageStep
<1> QED BY <1>1, LockedSlotStays DEF SameSlot

(* The slot a fresh commit leaves is the one its request checked.            *)
LEMMA CommittedSlot ==
  ASSUME TypeOK, EditsHaveRows, NEW r \in Requests,
         SaveCommit(r) \/ PublicUpdateCommit(r), arg[r].id \notin stale'
  PROVE  /\ SameSlot(booking'[arg[r].id], arg[r])
         /\ booking'[arg[r].id].start = arg[r].start
         /\ booking'[arg[r].id].end = arg[r].end
<1>1. CASE SaveCommit(r)
  BY <1>1, CommitStep
<1>2. CASE PublicUpdateCommit(r)
  <2>1. ~MovedSince(arg[r])
    BY <1>2, CommitStep DEF PublicUpdateCommit
  <2>2. /\ SameSlot(booking[arg[r].id], arg[r])
        /\ booking[arg[r].id].start = arg[r].start
    BY <2>1 DEF MovedSince
  <2> QED BY <1>2, <2>2, CommitStep DEF SameSlot
<1> QED BY <1>1, <1>2

(* What one commit leaves of a slot that request q, holding another lock or  *)
(* committing itself, has found free.                                        *)
LEMMA CheckedSlotStaysFreeStep ==
  ASSUME TypeOK, EditsHaveRows, LockExclusion, CheckedSlotStaysFree,
         [Next]_vars
  PROVE  CheckedSlotStaysFree'
<1> SUFFICES ASSUME NEW q \in Requests, pc'[q] \in {"write", "commit"},
                    NEW c \in Bookings, c # arg'[q].id, c \notin stale',
                    Blocks(booking'[c])
             PROVE  ~Overlaps(arg'[q], booking'[c])
  BY DEF CheckedSlotStaysFree, FreeFor
<1>1. /\ SameSlot(arg'[q], arg[q])
      /\ arg'[q].start = arg[q].start /\ arg'[q].end = arg[q].end
  BY LockedSlotStays DEF Critical
<1>2. c # arg[q].id
  BY RequestStep DEF Carries, Arrives, DrawsId
<1>3. Blocks(booking[c]) /\ c \notin stale => ~Overlaps(arg[q], booking[c])
  <2>1. CASE pc[q] \in {"write", "commit"}
    BY <2>1, <1>2 DEF CheckedSlotStaysFree, FreeFor
  <2>2. CASE ~HasConflict(arg[q])
    BY <2>2, <1>2 DEF HasConflict
  <2> QED BY <2>1, <2>2, StageStep
<1>4. CASE \A r \in Requests : ~SaveCommit(r) /\ ~PublicUpdateCommit(r)
  <2>1. Quiet
    BY <1>4, QuietStep
  <2> QED BY <2>1, <1>1, <1>3 DEF Quiet, Overlaps, SameSlot, Blocks
<1>5. ASSUME NEW r \in Requests, SaveCommit(r) \/ PublicUpdateCommit(r)
      PROVE  ~Overlaps(arg'[q], booking'[c])
  <2>1. pc[r] = "commit" /\ pc'[r] = "idle" /\ pc'[q] = pc[q]
    <3>1. r # q /\ pc' = [pc EXCEPT ![r] = "idle"] /\ pc[r] = "commit"
      BY <1>5 DEF SaveCommit, PublicUpdateCommit, Return, TypeOK, ReqTypeOK
    <3> QED BY <3>1 DEF TypeOK, ReqTypeOK
  <2>2. ~SameSlot(arg[r], arg[q])
    BY <2>1 DEF LockExclusion, Critical
  <2>3. CASE c # arg[r].id
    <3>1. booking'[c] = booking[c] /\ c \notin stale
      BY <1>5, <2>3, CommitStep DEF SaveCommit, PublicUpdateCommit
    <3> QED BY <3>1, <1>1, <1>3 DEF Overlaps, SameSlot
  <2>4. CASE c = arg[r].id
    <3>1. SameSlot(booking'[c], arg[r])
      BY <1>5, <2>4, CommittedSlot
    <3> QED BY <3>1, <2>2, <1>1 DEF Overlaps, SameSlot
  <2> QED BY <2>3, <2>4
<1> QED BY <1>4, <1>5

LEMMA ForwardStep ==
  ASSUME TypeOK, EditsHaveRows, ForwardArgs, ForwardUnlessStale, [Next]_vars
  PROVE  ForwardUnlessStale'
<1> SUFFICES ASSUME NEW b \in Bookings, booking'[b] # NoRow, b \notin stale'
             PROVE  booking'[b].start < booking'[b].end
  BY DEF ForwardUnlessStale
<1>1. CASE \A r \in Requests : ~SaveCommit(r) /\ ~PublicUpdateCommit(r)
  BY <1>1, QuietStep DEF Quiet, ForwardUnlessStale
<1>2. ASSUME NEW r \in Requests, SaveCommit(r) \/ PublicUpdateCommit(r)
      PROVE  booking'[b].start < booking'[b].end
  <2>1. CASE b # arg[r].id
    BY <1>2, <2>1, CommitStep
       DEF SaveCommit, PublicUpdateCommit, ForwardUnlessStale
  <2>2. CASE b = arg[r].id
    <3>1. arg[r].start < arg[r].end
      BY <1>2 DEF SaveCommit, PublicUpdateCommit, ForwardArgs, InFlight
    <3> QED BY <1>2, <2>2, <3>1, CommittedSlot
  <2> QED BY <2>1, <2>2
<1> QED BY <1>1, <1>2

LEMMA OverlapStep ==
  ASSUME TypeOK, EditsHaveRows, CheckedSlotStaysFree, OverlapOnlyByStaleEdit,
         [Next]_vars
  PROVE  OverlapOnlyByStaleEdit'
<1> SUFFICES ASSUME NEW b \in Bookings, NEW c \in Bookings, b # c,
                    b \notin stale', c \notin stale',
                    Blocks(booking'[b]), Blocks(booking'[c])
             PROVE  ~Overlaps(booking'[b], booking'[c])
  BY DEF OverlapOnlyByStaleEdit, Collide
<1>1. Blocks(booking[b]) /\ Blocks(booking[c]) /\ b \notin stale
        /\ c \notin stale => ~Overlaps(booking[b], booking[c])
  BY DEF OverlapOnlyByStaleEdit, Collide
<1>2. CASE \A r \in Requests : ~SaveCommit(r) /\ ~PublicUpdateCommit(r)
  <2>1. Quiet
    BY <1>2, QuietStep
  <2> QED BY <2>1, <1>1 DEF Quiet, Overlaps, SameSlot, Blocks
<1>3. ASSUME NEW r \in Requests, SaveCommit(r) \/ PublicUpdateCommit(r)
      PROVE  ~Overlaps(booking'[b], booking'[c])
  <2>1. \A d \in Bookings : d # arg[r].id =>
          booking'[d] = booking[d] /\ (d \in stale' <=> d \in stale)
    BY <1>3, CommitStep DEF SaveCommit, PublicUpdateCommit
  <2>2. FreeFor(arg[r].id, arg[r])
    BY <1>3 DEF SaveCommit, PublicUpdateCommit, CheckedSlotStaysFree
  <2>3. CASE b # arg[r].id /\ c # arg[r].id
    BY <2>3, <2>1, <1>1
  <2>4. CASE b = arg[r].id
    <3>1. ~Overlaps(arg[r], booking'[c])
      BY <2>1, <2>2, <2>4 DEF FreeFor
    <3> QED BY <1>3, <2>4, <3>1, CommittedSlot DEF Overlaps, SameSlot
  <2>5. CASE c = arg[r].id
    <3>1. ~Overlaps(arg[r], booking'[b])
      BY <2>1, <2>2, <2>5 DEF FreeFor
    <3>2. /\ SameSlot(booking'[c], arg[r])
          /\ booking'[c].start = arg[r].start /\ booking'[c].end = arg[r].end
      BY <1>3, <2>5, CommittedSlot
    <3>3. booking'[b] \in Row /\ arg[r] \in Arg
      BY <1>3, TypeStep, CommitStep DEF TypeOK, StoreTypeOK, Blocks
    <3>4. /\ booking'[b].start \in Int /\ booking'[b].end \in Int
          /\ arg[r].start \in Int /\ arg[r].end \in Int
      BY <3>3, TimesAreIntegers DEF Row, Arg
    <3> QED BY <3>1, <3>2, <3>4 DEF Overlaps, SameSlot
  <2> QED BY <2>3, <2>4, <2>5
<1> QED BY <1>2, <1>3

LEMMA SlotInvInit == Init => SlotInv
<1> SUFFICES ASSUME Init PROVE SlotInv
  OBVIOUS
<1>1. TypeOK
  BY DEF Init, TypeOK, StoreTypeOK, ReqTypeOK, InFlight, Stages
<1> QED
  BY <1>1 DEF Init, SlotInv, LockExclusion, ForwardArgs, CheckedSlotStaysFree,
        EditsHaveRows, OverlapOnlyByStaleEdit, ForwardUnlessStale, Collide,
        InFlight, Critical, Blocks

LEMMA SlotInvStep == SlotInv /\ [Next]_vars => SlotInv'
BY TypeStep, EditsHaveRowsStep, ForwardArgsStep, LockExclusionStep,
   CheckedSlotStaysFreeStep, ForwardStep, OverlapStep DEF SlotInv

(* TypeOK, LockExclusion and the rest of SlotInv hold in every state.        *)
THEOREM SlotInvariance == Spec => []SlotInv
BY SlotInvInit, SlotInvStep, PTL DEF Spec

(* Every variable of the table and of the requests keeps its type.           *)
THEOREM TypeCorrect == Spec => []TypeOK
BY SlotInvariance, PTL DEF SlotInv

(* With any number of requests, bookings, rooms and days, two bookings of a  *)
(* room overlap only through an owner's edit checked on another slot.        *)
THEOREM OverlapSafety == Spec => []OverlapOnlyByStaleEdit
BY SlotInvariance, PTL DEF SlotInv

(* No stored booking ends before it starts but through such an edit.         *)
THEOREM ForwardSafety == Spec => []ForwardUnlessStale
BY SlotInvariance, PTL DEF SlotInv

-----------------------------------------------------------------------------
(* What would make the promise of withRoomDateLock true.                     *)

(* Nobody saves a booking while its owner edits its end.                     *)
OneEditorPerBooking ==
  \A r, q \in InFlight :
    arg[r].kind = "save" /\ arg[q].kind = "update" => arg[r].id # arg[q].id

(* The slot an edit locks is still the one its booking has.                  *)
EditsAreCurrent ==
  \A q \in InFlight : arg[q].kind = "update" =>
    /\ SameSlot(booking[arg[q].id], arg[q])
    /\ booking[arg[q].id].start = arg[q].start

LEMMA CurrentStep ==
  ASSUME SlotInv, OneEditorPerBooking, EditsAreCurrent, stale = {}, [Next]_vars
  PROVE  EditsAreCurrent' /\ stale' = {}
<1> USE DEF SlotInv
<1>1. CASE \A r \in Requests : ~SaveCommit(r) /\ ~PublicUpdateCommit(r)
  <2>1. Quiet
    BY <1>1, QuietStep
  <2>2. ASSUME NEW q \in Requests, pc'[q] # "idle", arg'[q].kind = "update"
        PROVE  /\ SameSlot(booking'[arg'[q].id], arg'[q])
               /\ booking'[arg'[q].id].start = arg'[q].start
    <3>1. /\ arg'[q].id \in Bookings /\ booking[arg'[q].id] # NoRow
          /\ SameSlot(booking[arg'[q].id], arg'[q])
          /\ booking[arg'[q].id].start = arg'[q].start
      <4>1. CASE Carries(q)
        BY <2>2, <4>1 DEF Carries, EditsAreCurrent, EditsHaveRows, InFlight
      <4>2. CASE Arrives(q)
        BY <2>2, <4>2 DEF Arrives
      <4>3. CASE DrawsId(q)
        BY <2>2, <4>3 DEF DrawsId, EditsHaveRows, InFlight, TypeOK, ReqTypeOK
      <4> QED BY <2>2, <4>1, <4>2, <4>3, RequestStep
    <3> QED BY <2>1, <3>1 DEF Quiet, SameSlot
  <2> QED BY <2>1, <2>2 DEF EditsAreCurrent, InFlight, Quiet
<1>2. ASSUME NEW r \in Requests, SaveCommit(r) \/ PublicUpdateCommit(r)
      PROVE  EditsAreCurrent' /\ stale' = {}
  <2>1. r \in InFlight
    BY <1>2 DEF SaveCommit, PublicUpdateCommit, InFlight
  <2>2. ASSUME NEW q \in Requests, pc'[q] # "idle", arg'[q].kind = "update"
        PROVE  /\ SameSlot(booking'[arg'[q].id], arg'[q])
               /\ booking'[arg'[q].id].start = arg'[q].start
    <3>1. q \in InFlight /\ arg'[q] = arg[q]
      BY <1>2, <2>2 DEF SaveCommit, PublicUpdateCommit, Return, InFlight, TypeOK,
            ReqTypeOK
    <3>2. /\ arg[q].id \in Bookings
          /\ SameSlot(booking[arg[q].id], arg[q])
          /\ booking[arg[q].id].start = arg[q].start
      BY <2>2, <3>1 DEF EditsAreCurrent, EditsHaveRows
    <3>3. SaveCommit(r) => arg[r].id # arg[q].id
      BY <2>1, <2>2, <3>1 DEF OneEditorPerBooking, SaveCommit
    <3>4. /\ SameSlot(booking'[arg[q].id], booking[arg[q].id])
          /\ booking'[arg[q].id].start = booking[arg[q].id].start
      BY <1>2, <3>2, <3>3, CommitStep DEF SameSlot
    <3> QED BY <3>1, <3>2, <3>4 DEF SameSlot
  <2>3. CASE SaveCommit(r)
    BY <2>2, <2>3 DEF EditsAreCurrent, InFlight, SaveCommit
  <2>4. CASE PublicUpdateCommit(r)
    <3>1. ~MovedSince(arg[r])
      BY <2>1, <2>4 DEF PublicUpdateCommit, EditsAreCurrent, MovedSince
    <3> QED BY <2>2, <2>4, <3>1 DEF EditsAreCurrent, InFlight, PublicUpdateCommit
  <2> QED BY <1>2, <2>3, <2>4
<1> QED BY <1>1, <1>2

(* Two requests for one room and day serialize on the lock, as its comment   *)
(* says, if no Save of a booking overlaps its owner's edit: those two alone  *)
(* are what leaves an edit with the lock of a slot it no longer has.         *)
THEOREM SerializedSafety ==
  Spec /\ []OneEditorPerBooking => []NoDoubleBooking
<1>1. Init => EditsAreCurrent /\ stale = {}
  BY DEF Init, EditsAreCurrent, InFlight
<1>2. SlotInv /\ OneEditorPerBooking /\ EditsAreCurrent /\ stale = {} /\ [Next]_vars
        => (EditsAreCurrent /\ stale = {})'
  BY CurrentStep
<1>3. SlotInv /\ stale = {} => NoDoubleBooking
  BY DEF SlotInv, OverlapOnlyByStaleEdit, NoDoubleBooking
<1> QED BY <1>1, <1>2, <1>3, SlotInvariance, PTL DEF Spec

-----------------------------------------------------------------------------
(* Waiting.                                                                  *)

(* Connections, advisory locks and rows are taken in this order, so whoever  *)
(* is furthest with a transaction can move: no set of requests, however      *)
(* large, blocks itself on a pool of whatever size.                          *)
THEOREM GridlockFreedom == Spec => []NoGridlock
<1>1. ASSUME TypeOK, NEW r \in InFlight
      PROVE  Ready(r) \/ \E q \in InFlight : pc[q] \in InTx /\ Ready(q)
  <2> DEFINE At(stage) == \E q \in Requests : pc[q] = stage
  <2>1. /\ pc[r] \in Stages \ {"idle"}
        /\ \A q \in Requests : pc[q] \in InTx => q \in InFlight
    BY <1>1 DEF TypeOK, ReqTypeOK, InFlight, InTx, Critical
  <2>2. CASE At("commit") \/ At("check")
    BY <2>1, <2>2 DEF Ready, InTx, Critical
  <2>3. CASE ~At("commit") /\ At("write")
    <3>1. \A b : RowFree(b)
      BY <2>3 DEF RowFree
    <3> QED BY <2>1, <2>3, <3>1 DEF Ready, InTx, Critical
  <2>4. CASE ~At("commit") /\ ~At("check") /\ ~At("write") /\ At("lock")
    <3>1. \A q \in Requests : LockFree(q)
      BY <2>4 DEF LockFree, Critical
    <3> QED BY <2>1, <2>4, <3>1 DEF Ready, InTx
  <2>5. CASE ~At("commit") /\ ~At("check") /\ ~At("write") /\ ~At("lock")
    <3>1. {q \in Requests : pc[q] \in InTx} = {}
      BY <2>5 DEF InTx, Critical
    <3>2. ConnFree
      BY <3>1, FS_EmptySet DEF ConnFree
    <3>3. pc[r] \in Before
      BY <2>1, <2>5, <1>1 DEF Stages, InTx, Critical, InFlight
    <3> QED BY <3>2, <3>3 DEF Ready
  <2> QED BY <2>2, <2>3, <2>4, <2>5
<1>2. TypeOK => NoGridlock
  BY <1>1 DEF NoGridlock
<1> QED BY <1>2, TypeCorrect, PTL

-----------------------------------------------------------------------------
(* What a step may not do.                                                   *)

(* No step, not even a Save or an owner's edit of a deleted booking, brings  *)
(* a deleted booking back.                                                   *)
THEOREM SoftDeleteSafety == Spec => SoftDeleteIsFinal
<1>1. ASSUME SlotInv, [Next]_vars, NEW b \in Bookings,
             booking[b] # NoRow, booking[b].deleted
      PROVE  booking'[b] # NoRow /\ booking'[b].deleted
  <2>1. TypeOK /\ EditsHaveRows
    BY <1>1 DEF SlotInv
  <2>2. CASE \A r \in Requests : ~SaveCommit(r) /\ ~PublicUpdateCommit(r)
    BY <1>1, <2>1, <2>2, QuietStep DEF Quiet
  <2>3. ASSUME NEW r \in Requests, SaveCommit(r) \/ PublicUpdateCommit(r)
        PROVE  booking'[b] # NoRow /\ booking'[b].deleted
    BY <1>1, <2>1, <2>3, CommitStep
  <2> QED BY <2>2, <2>3
<1>2. SlotInv /\ [Next]_vars
        => [\A b \in Bookings : booking[b] # NoRow /\ booking[b].deleted
              => booking'[b] # NoRow /\ booking'[b].deleted]_vars
  BY <1>1
<1> QED BY <1>2, SlotInvariance, PTL DEF Spec, SoftDeleteIsFinal

(* Of all steps only a Save's commit makes a released slot occupied again.   *)
THEOREM RevivalSafety == Spec => OnlySaveRevives
<1>1. ASSUME SlotInv, [Next]_vars, NEW b \in Bookings,
             ~Blocks(booking[b]), Blocks(booking'[b])
      PROVE  \E r \in Requests : SaveCommit(r) /\ arg[r].id = b
  <2>1. TypeOK /\ EditsHaveRows
    BY <1>1 DEF SlotInv
  <2>2. CASE \A r \in Requests : ~SaveCommit(r) /\ ~PublicUpdateCommit(r)
    BY <1>1, <2>1, <2>2, QuietStep DEF Quiet, Blocks
  <2>3. ASSUME NEW r \in Requests, PublicUpdateCommit(r)
        PROVE  FALSE
    <3>1. b = arg[r].id
      BY <1>1, <2>1, <2>3, CommitStep DEF Blocks
    <3>2. /\ booking[b] # NoRow
          /\ booking'[b].status = booking[b].status
          /\ booking'[b].deleted = booking[b].deleted
      BY <2>1, <2>3, <3>1, CommitStep
    <3> QED BY <1>1, <3>2 DEF Blocks
  <2>4. ASSUME NEW r \in Requests, SaveCommit(r)
        PROVE  arg[r].id = b
    BY <1>1, <2>1, <2>4, CommitStep DEF Blocks
  <2> QED BY <2>2, <2>3, <2>4
<1>2. SlotInv /\ [Next]_vars
        => [\A b \in Bookings : ~Blocks(booking[b]) /\ Blocks(booking'[b])
              => \E r \in Requests : SaveCommit(r) /\ arg[r].id = b]_vars
  BY <1>1
<1> QED BY <1>2, SlotInvariance, PTL DEF Spec, OnlySaveRevives

-----------------------------------------------------------------------------
(* The table implements the ledger.                                          *)

LEMMA LedgerStep ==
  ASSUME SlotInv, [Next]_vars
  PROVE  [Ledger!Next]_(Ledger!ledgerVars)
<1> USE DEF SlotInv, TypeOK, StoreTypeOK
<1> SUFFICES Ledger!Next \/ UNCHANGED Ledger!ledgerVars
  OBVIOUS
<1>1. ASSUME UNCHANGED <<booking, stale>>
      PROVE  UNCHANGED Ledger!ledgerVars
  BY <1>1 DEF Ledger!ledgerVars
<1>2. ASSUME NEW r \in Requests, Handle(r), ~SaveCommit(r),
             ~PublicUpdateCommit(r)
      PROVE  UNCHANGED <<booking, stale>>
  BY <1>2 DEF Handle, Acquire, Proceed, SaveStart, PublicUpdateRead, ReadUser,
        ReadSuperAdmin, ReadRoom, BeginTx, TakeLock, CheckConflict, Insert,
        Update, Fail
<1>3. ASSUME NEW r \in Requests, SaveCommit(r)
      PROVE  Ledger!Place(arg[r].id)
  <2>1. /\ arg[r].id \in Bookings /\ arg[r] \in Arg
        /\ booking'[arg[r].id] = SavedRow(arg[r])
        /\ booking' = [booking EXCEPT ![arg[r].id] = SavedRow(arg[r])]
    BY <1>3, CommitStep DEF SaveCommit
  <2>2. /\ booking'[arg[r].id] \in Row
        /\ booking'[arg[r].id].start = arg[r].start
        /\ booking'[arg[r].id].end = arg[r].end
        /\ SameSlot(booking'[arg[r].id], arg[r])
    BY <1>3, CommitStep
  <2>3. arg[r].start < arg[r].end /\ FreeFor(arg[r].id, arg[r])
    BY <1>3 DEF SaveCommit, ForwardArgs, CheckedSlotStaysFree, InFlight
  <2>4. booking'[arg[r].id].deleted
          = (booking[arg[r].id] # NoRow /\ booking[arg[r].id].deleted)
    BY <2>1 DEF SavedRow
  <2>5. Ledger!FreeFor(arg[r].id, booking'[arg[r].id])
    BY <2>2, <2>3 DEF FreeFor, Ledger!FreeFor, Ledger!Blocks, Ledger!Overlaps,
          Ledger!SameSlot, Blocks, Overlaps, SameSlot
  <2>6. stale' = stale \ {arg[r].id}
    BY <1>3 DEF SaveCommit
  <2> QED
    BY <2>1, <2>2, <2>3, <2>4, <2>5, <2>6
       DEF Ledger!Place, Ledger!Row, Ledger!Statuses, Row, Statuses
<1>4. ASSUME NEW r \in Requests, PublicUpdateCommit(r)
      PROVE  arg[r].id \in Bookings /\ Ledger!Resize(arg[r].id)
  <2>1. /\ arg[r].id \in Bookings /\ booking[arg[r].id] # NoRow
        /\ booking'[arg[r].id] \in Row
        /\ booking'[arg[r].id].end = arg[r].end
    BY <1>4, CommitStep
  <2>2. booking' = [booking EXCEPT ![arg[r].id].end =
                     booking'[arg[r].id].end]
    BY <1>4, <2>1 DEF PublicUpdateCommit
  <2>3. \/ stale' = stale \cup {arg[r].id}
        \/ /\ stale' = stale \ {arg[r].id}
           /\ Ledger!FreeFor(arg[r].id, booking'[arg[r].id])
           /\ booking'[arg[r].id].start < booking'[arg[r].id].end
    <3>1. CASE MovedSince(arg[r])
      BY <1>4, <3>1 DEF PublicUpdateCommit
    <3>2. CASE ~MovedSince(arg[r])
      <4>1. stale' = stale \ {arg[r].id}
        BY <1>4, <3>2 DEF PublicUpdateCommit
      <4>2. /\ SameSlot(booking'[arg[r].id], arg[r])
            /\ booking'[arg[r].id].start = arg[r].start
            /\ booking'[arg[r].id].end = arg[r].end
        BY <1>4, <4>1, CommittedSlot
      <4>3. arg[r].start < arg[r].end /\ FreeFor(arg[r].id, arg[r])
        BY <1>4 DEF PublicUpdateCommit, ForwardArgs, CheckedSlotStaysFree,
              InFlight
      <4>4. Ledger!FreeFor(arg[r].id, booking'[arg[r].id])
        BY <4>2, <4>3 DEF FreeFor, Ledger!FreeFor, Ledger!Blocks,
              Ledger!Overlaps, Ledger!SameSlot, Blocks, Overlaps, SameSlot
      <4> QED BY <4>1, <4>2, <4>3, <4>4
    <3> QED BY <3>1, <3>2
  <2> QED
    BY <2>1, <2>2, <2>3
       DEF Ledger!Resize, Ledger!Row, Ledger!Statuses, Row, Statuses
<1>5. CASE Table
  <2>1. CASE \E b \in Bookings : Cancel(b) \/ \E u \in Users : PublicCancel(b, u)
    <3>1. \E b \in Bookings : Ledger!Release(b)
      BY <2>1 DEF Cancel, PublicCancel, Ledger!Release, Ledger!Live, Live
    <3> QED BY <3>1 DEF Ledger!Next
  <2>2. CASE PurgeOldBookings \/ \E b \in Bookings : Delete(b)
    <3>1. Ledger!Remove
      BY <2>2 DEF PurgeOldBookings, Delete, Expired, Ledger!Remove,
            Ledger!Live, Live
    <3> QED BY <3>1 DEF Ledger!Next
  <2> QED BY <1>5, <2>1, <2>2 DEF Table
<1>6. CASE Standing \/ Tick \/ Crash
  BY <1>6, <1>1 DEF Standing, Tick, Crash, ActivateUser, RevokeUser,
        GrantSuperAdmin, DropSuperAdmin, OpenRoom, CloseRoom
<1>7. CASE UNCHANGED vars
  BY <1>7, <1>1 DEF vars
<1>8. ASSUME NEW r \in Requests, Handle(r)
      PROVE  Ledger!Next \/ UNCHANGED Ledger!ledgerVars
  <2>1. SaveCommit(r) => arg[r].id \in Bookings
    BY DEF SaveCommit, ReqTypeOK
  <2> QED BY <1>1, <1>2, <1>3, <1>4, <1>8, <2>1 DEF Ledger!Next
<1> QED
  BY <1>5, <1>6, <1>7, <1>8 DEF Next

(* Without locks and transactions in sight, the bookings table only does     *)
(* what BookingLedger allows.                                                *)
THEOREM LedgerRefinement == Spec => LedgerSpec
<1>1. Init => Ledger!Init
  BY DEF Init, Ledger!Init
<1> QED
  BY <1>1, LedgerStep, SlotInvariance, PTL
     DEF Spec, LedgerSpec, Ledger!Spec

-----------------------------------------------------------------------------
(* Eligibility.  What still bars a request is true now, and a check a        *)
(* request has passed no longer bars it.                                     *)

Barred(r) ==
  /\ "user" \in barred[r] => arg[r].user \notin activeUsers
  /\ "super" \in barred[r] => arg[r].user \in superAdmins
  /\ "room" \in barred[r] => arg[r].room \notin openRooms
Passed(r) ==
  /\ pc[r] \notin {"idle", "user"} => "user" \notin barred[r]
  /\ pc[r] \notin {"idle", "user", "super"} => "super" \notin barred[r]
  /\ pc[r] \notin {"idle", "user", "super", "room"} => "room" \notin barred[r]
EligibilityInv == \A r \in InFlight : Barred(r) /\ Passed(r)

LEMMA EligibilityStep ==
  ASSUME TypeOK, EligibilityInv, [Next]_vars
  PROVE  EligibilityInv'
<1> USE DEF TypeOK, ReqTypeOK
<1> SUFFICES ASSUME NEW q \in Requests, pc'[q] # "idle"
             PROVE  Barred(q)' /\ Passed(q)'
  BY DEF EligibilityInv, InFlight
<1>1. pc[q] # "idle" => Barred(q) /\ Passed(q)
  BY DEF EligibilityInv, InFlight
<1>2. CASE UNCHANGED <<standing, pc[q], arg[q], barred[q]>>
  BY <1>1, <1>2 DEF Barred, Passed, standing
<1>3. ASSUME NEW r \in Requests, Handle(r), r # q
      PROVE  UNCHANGED <<standing, pc[q], arg[q], barred[q]>>
  BY <1>3 DEF Handle, Acquire, Proceed, SaveStart, PublicUpdateRead, ReadUser,
        ReadSuperAdmin, ReadRoom, BeginTx, TakeLock, CheckConflict, Insert,
        Update, SaveCommit, PublicUpdateCommit, Fail, Enter, GoTo, Return,
        standing
<1>4. CASE Handle(q)
  <2>1. CASE SaveStart(q)
    <3>1. PICK a \in Arg : Enter(q, a, "user", Bars(a.user, a.room))
      BY <2>1 DEF SaveStart
    <3>2. /\ pc'[q] = "user" /\ arg'[q] = a
          /\ barred'[q] = Bars(a.user, a.room)
          /\ UNCHANGED standing
      BY <2>1, <3>1 DEF Enter, SaveStart
    <3> QED BY <3>2 DEF Bars, Barred, Passed, standing
  <2>2. CASE PublicUpdateRead(q)
    <3>1. barred'[q] = {}
      BY <2>2 DEF PublicUpdateRead, Enter
    <3> QED BY <3>1 DEF Barred, Passed
  <2>3. CASE ReadUser(q) \/ ReadSuperAdmin(q) \/ ReadRoom(q)
    BY <1>1, <2>3 DEF ReadUser, ReadSuperAdmin, ReadRoom, GoTo, Return, Barred,
          Passed, standing
  <2>4. CASE \/ BeginTx(q) \/ TakeLock(q) \/ CheckConflict(q) \/ Update(q)
    BY <1>1, <2>4 DEF BeginTx, TakeLock, CheckConflict, Update, GoTo, Return,
          Barred, Passed, standing
  <2>5. CASE Insert(q)
    <3>1. PICK b \in FreeIds : arg' = [arg EXCEPT ![q].id = b]
      BY <2>5 DEF Insert
    <3>2. arg[q] \in Arg /\ arg'[q] = [arg[q] EXCEPT !.id = b]
      BY <2>5, <3>1 DEF InFlight, Insert
    <3>3. arg'[q].user = arg[q].user /\ arg'[q].room = arg[q].room
      BY <3>2 DEF Arg
    <3> QED BY <1>1, <2>5, <3>3 DEF Insert, Barred, Passed, standing
  <2>6. CASE Fail(q) \/ SaveCommit(q) \/ PublicUpdateCommit(q)
    BY <2>6 DEF Fail, SaveCommit, PublicUpdateCommit, Return
  <2> QED
    BY <1>4, <2>1, <2>2, <2>3, <2>4, <2>5, <2>6 DEF Handle, Acquire, Proceed
<1>5. CASE Table \/ Tick \/ UNCHANGED vars
  <2>1. UNCHANGED <<standing, pc, arg, barred>>
    BY <1>5 DEF Table, Tick, vars, Cancel, PublicCancel, Delete,
          PurgeOldBookings, standing
  <2> QED BY <1>2, <2>1
<1>6. CASE Standing
  <2>1. UNCHANGED <<pc, arg>>
    BY <1>6 DEF Standing, ActivateUser, RevokeUser, GrantSuperAdmin,
          DropSuperAdmin, OpenRoom, CloseRoom
  <2>2. barred'[q] \subseteq barred[q]
    BY <1>6 DEF Standing, ActivateUser, RevokeUser, GrantSuperAdmin,
          DropSuperAdmin, OpenRoom, CloseRoom, Unbar
  <2>3. Passed(q)'
    BY <1>1, <2>1, <2>2 DEF Passed
  <2>4. Barred(q)'
    <3>1. CASE \E u \in Users \cap Unsettled : ActivateUser(u)
      BY <1>1, <2>1, <3>1 DEF ActivateUser, Unbar, RequestsOf, InFlight, Barred
    <3>2. CASE \E u \in Users \cap Unsettled : DropSuperAdmin(u)
      BY <1>1, <2>1, <3>2 DEF DropSuperAdmin, Unbar, RequestsOf, InFlight,
            Barred
    <3>3. CASE \E ro \in Rooms \cap Unsettled : OpenRoom(ro)
      BY <1>1, <2>1, <3>3 DEF OpenRoom, Unbar, InFlight, Barred
    <3>4. CASE \E u \in Users \cap Unsettled : RevokeUser(u) \/ GrantSuperAdmin(u)
      BY <1>1, <2>1, <3>4 DEF RevokeUser, GrantSuperAdmin, Barred
    <3>5. CASE \E ro \in Rooms \cap Unsettled : CloseRoom(ro)
      BY <1>1, <2>1, <3>5 DEF CloseRoom, Barred
    <3> QED BY <1>6, <3>1, <3>2, <3>3, <3>4, <3>5 DEF Standing
  <2> QED BY <2>3, <2>4
<1>7. CASE Crash
  BY <1>7 DEF Crash
<1> QED BY <1>2, <1>3, <1>4, <1>5, <1>6, <1>7 DEF Next

(* A Save that reaches its transaction had an active user, no super admin,   *)
(* and an open room, each at some moment since it came.                      *)
THEOREM EligibilitySafety == Spec => []AdmittedWhileEligible
<1>1. Init => EligibilityInv
  BY DEF Init, EligibilityInv, InFlight
<1>2. TypeOK /\ EligibilityInv /\ [Next]_vars => EligibilityInv'
  BY EligibilityStep
<1>3. TypeOK /\ EligibilityInv => AdmittedWhileEligible
  <2> SUFFICES ASSUME TypeOK, EligibilityInv, NEW r \in Requests,
                      pc[r] \in {"begin"} \cup InTx
               PROVE  barred[r] = {}
    BY DEF AdmittedWhileEligible
  <2>1. pc[r] \notin {"idle", "user", "super", "room"}
    BY DEF InTx, Critical
  <2>2. Passed(r)
    BY <2>1 DEF EligibilityInv, InFlight
  <2>3. barred[r] \subseteq {"user", "super", "room"}
    BY DEF TypeOK, ReqTypeOK
  <2> QED BY <2>1, <2>2, <2>3 DEF Passed
<1> QED BY <1>1, <1>2, <1>3, TypeCorrect, PTL DEF Spec
=============================================================================

---------------------------- MODULE BookingRules ----------------------------
(* The bookings table and the rules every handler reads off one of its rows: *)
(* which rows occupy a slot, when two of them collide, and the live status   *)
(* computed from the clock.  Shared by the modules about bookings.           *)
EXTENDS Integers

CONSTANTS
  Bookings,   \* the ids the bookings table may hand out
  NoRow,      \* stands for an id no row has been inserted under
  Users,      \* normalised email addresses
  Rooms,      \* room ids
  Dates,      \* booking dates, as day numbers
  Times,      \* times of day, in clock units after midnight
  DayLength   \* clock units in a day

(* Every spelling of the stored status that some code path tells apart.      *)
(* "cancelled" stands for a client-supplied spelling that differs from       *)
(* "Cancelled" only by case.                                                 *)
Statuses == {"Booked", "Cancelled", "cancelled"}

Row == [user: Users, room: Rooms, date: Dates, start: Times, end: Times,
        status: Statuses, deleted: BOOLEAN]

ASSUME RulesAssumption ==
  /\ DayLength \in Nat \ {0}
  /\ Dates \subseteq Nat
  /\ Times \subseteq 0 .. DayLength - 1
  /\ NoRow \notin Row

(* The instant at which time t of day d falls; also today's date.            *)
Instant(d, t) == d * DayLength + t
Today(now) == now \div DayLength

(* The overlap test of the conflict queries, and their filter on the rows.   *)
SameSlot(x, y) == x.room = y.room /\ x.date = y.date
Overlaps(x, y) == SameSlot(x, y) /\ x.start < y.end /\ x.end > y.start
Blocks(row) == row # NoRow /\ row.status # "Cancelled" /\ ~row.deleted

(* A row a SELECT or UPDATE with "deleted_at IS NULL" finds.                 *)
Live(row) == row # NoRow /\ ~row.deleted

(* The live status: the stored one counts only when it says cancelled.       *)
ComputeBookingStatus(row, now) ==
  IF row.status \in {"Cancelled", "cancelled"} THEN "Cancelled"
  ELSE IF now < Instant(row.date, row.start) THEN "Booked"
  ELSE IF now < Instant(row.date, row.end) THEN "In Progress"
  ELSE "Completed"
=============================================================================

---------------------------- MODULE BookingLedger ---------------------------
(* What the bookings table promises, with no locks, no transactions and no   *)
(* requests in flight: a booking takes or changes its slot in one step, and  *)
(* only when no other occupied slot collides with it.  The one exception is  *)
(* an owner's edit decided on a slot the booking has since left: it marks    *)
(* the booking stale until the booking is saved as a whole again.            *)
EXTENDS BookingRules

VARIABLES
  booking,  \* the table: id -> row, or NoRow
  stale     \* bookings whose end time was written for another slot

ledgerVars == <<booking, stale>>

(* Slot x collides with no occupied slot but b's own and the stale ones.     *)
FreeFor(b, x) == \A c \in Bookings \ ({b} \cup stale) :
                   Blocks(booking[c]) => ~Overlaps(x, booking[c])

Init == booking = [b \in Bookings |-> NoRow] /\ stale = {}

(* A booking is made, moved, edited or revived as a whole: the step leaves   *)
(* any row of a free slot under b, and b no less deleted than it was.        *)
Place(b) ==
  LET row == booking'[b] IN
  /\ row \in Row /\ row.start < row.end /\ FreeFor(b, row)
  /\ row.deleted = (booking[b] # NoRow /\ booking[b].deleted)
  /\ booking' = [booking EXCEPT ![b] = row]
  /\ stale' = stale \ {b}

(* The owner gives a booking another end time.                               *)
Resize(b) ==
  LET row == booking'[b] IN
  /\ booking[b] # NoRow /\ row \in Row
  /\ booking' = [booking EXCEPT ![b].end = row.end]
  /\ \/ FreeFor(b, row) /\ row.start < row.end /\ stale' = stale \ {b}
     \/ stale' = stale \cup {b}

Release(b) ==
  /\ Live(booking[b])
  /\ booking' = [booking EXCEPT ![b].status = "Cancelled"]
  /\ UNCHANGED stale

(* Soft deletion, of one booking or of every booking a purge finds.          *)
Remove ==
  LET gone == {b \in Bookings : booking'[b] # booking[b]} IN
  /\ \A b \in gone : Live(booking[b])
  /\ booking' = [b \in Bookings |->
                   IF b \in gone THEN [booking[b] EXCEPT !.deleted = TRUE]
                                 ELSE booking[b]]
  /\ UNCHANGED stale

Next == (\E b \in Bookings : Place(b) \/ Resize(b) \/ Release(b)) \/ Remove

Spec == Init /\ [][Next]_ledgerVars
=============================================================================

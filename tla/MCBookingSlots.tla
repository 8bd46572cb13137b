--------------------------- MODULE MCBookingSlots ---------------------------
(* Small instances of BookingSlots for TLC.                                  *)
EXTENDS BookingSlots, TLC

CONSTANTS b1, b2, r1, r2, r3, u1, u2, roomA, roomB

OneBooking == {b1}
TwoBookings == {b1, b2}
TwoRequests == {r1, r2}
ThreeRequests == {r1, r2, r3}
OneRoom == {roomA}
TwoRooms == {roomA, roomB}
Today0 == {0}
ThreeTimes == 1 .. 3
TwoTimes == 1 .. 2

(* Requests, bookings and rooms are interchangeable: no expression names one.*)
SlotSymmetry == Permutations(TwoRequests) \cup Permutations(TwoBookings)
                \cup Permutations(TwoRooms)
=============================================================================

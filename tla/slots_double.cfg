SPECIFICATION Spec
CONSTANTS
  b1 = b1  b2 = b2  r1 = r1  r2 = r2  r3 = r3  u1 = u1  u2 = u2
  roomA = roomA  roomB = roomB
  NoRow = NoRow  NoBooking = NoBooking  NoArg = NoArg
  Bookings <- TwoBookings
  Requests <- TwoRequests
  Users = {u1}
  Rooms <- TwoRooms
  Dates <- Today0
  Times <- ThreeTimes
  DayLength = 4
  Ops = {"save", "update", "cancel"}
  StatusInputs = {"Booked"}
  Unsettled = {}
  MaxConns = 3
  RetentionDays = 1
  MaxNow = 0
INVARIANTS NoDoubleBooking
CHECK_DEADLOCK FALSE

SPECIFICATION FairSpec
CONSTANTS
  b1 = b1  b2 = b2  r1 = r1  r2 = r2  r3 = r3  u1 = u1  u2 = u2
  roomA = roomA  roomB = roomB
  NoRow = NoRow  NoBooking = NoBooking  NoArg = NoArg
  Bookings <- OneBooking
  Requests <- ThreeRequests
  Users = {u1}
  Rooms <- TwoRooms
  Dates <- Today0
  Times <- TwoTimes
  DayLength = 4
  Ops = {"save", "update"}
  StatusInputs = {"Booked"}
  Unsettled = {}
  MaxConns = 2
  RetentionDays = 0
  MaxNow = 0
INVARIANTS NoGridlock
PROPERTIES RequestsFinish
CHECK_DEADLOCK FALSE

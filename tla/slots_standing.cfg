SPECIFICATION Spec
CONSTANTS
  b1 = b1  b2 = b2  r1 = r1  r2 = r2  r3 = r3  u1 = u1  u2 = u2
  roomA = roomA  roomB = roomB
  NoRow = NoRow  NoBooking = NoBooking  NoArg = NoArg
  Bookings <- OneBooking
  Requests <- TwoRequests
  Users = {u1, u2}
  Rooms <- OneRoom
  Dates <- Today0
  Times <- TwoTimes
  DayLength = 4
  Ops = {"save", "update", "cancel", "delete", "purge"}
  StatusInputs = {"Booked", "cancelled"}
  Unsettled = {u1, roomA}
  MaxConns = 3
  RetentionDays = 0
  MaxNow = 4
INVARIANTS TypeOK AdmittedWhileEligible
PROPERTIES SoftDeleteIsFinal
SYMMETRY SlotSymmetry
CHECK_DEADLOCK FALSE

SPECIFICATION Spec
CONSTANTS
  a0 = a0  a1 = a1  s1 = s1  s2 = s2  r1 = r1  r2 = r2
  root = root  mail = mail
  Nobody = Nobody  NoSid = NoSid  NoRow = NoRow  NoArg = NoArg
  Admins <- TwoAdmins
  Seed = a0
  Usernames <- TwoNames
  SeedName = root
  Sids <- TwoSessions
  Requests <- TwoRequests
  MaxLoginAttempts = 1
  Ops = {"login", "create", "update", "demote", "restart"}
SYMMETRY SessionSymmetry
INVARIANTS TypeOK SessionsFollowRows
CHECK_DEADLOCK FALSE

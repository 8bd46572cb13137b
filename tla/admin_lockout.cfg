SPECIFICATION Spec
CONSTANTS
  a0 = a0  a1 = a1  s1 = s1  s2 = s2  r1 = r1  r2 = r2
  root = root  mail = mail
  Nobody = Nobody  NoSid = NoSid  NoRow = NoRow  NoArg = NoArg
  Admins <- TwoAdmins
  Seed = a0
  Usernames = {root}
  SeedName = root
  Sids <- TwoSessions
  Requests <- TwoRequests
  MaxLoginAttempts = 2
  Ops = {"login", "miss", "unlock", "restore", "revoke", "resetpw", "changepw", "token", "restart"}
SYMMETRY SessionSymmetry
INVARIANTS SessionsFollowRows
PROPERTIES LockOutlivesRestart RevocationOutlivesLogins
CHECK_DEADLOCK FALSE

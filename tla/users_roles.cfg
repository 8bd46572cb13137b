SPECIFICATION Spec
CONSTANTS
  u1 = u1  u2 = u2  a0 = a0  a1 = a1  r1 = r1  r2 = r2  root = root  mail = mail
  None = None
  Users <- TwoUsers
  Accounts <- TwoAccounts
  Emails <- TwoEmails
  Seed = a0
  SeedEmail = root
  Requests <- TwoRequests
  Ops = {"register", "update", "create", "setrole", "restart"}
SYMMETRY RegistrySymmetry
INVARIANTS TypeOK SuperAdminsDoNotBook
CHECK_DEADLOCK FALSE

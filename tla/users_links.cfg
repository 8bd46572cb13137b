SPECIFICATION Spec
CONSTANTS
  u1 = u1  u2 = u2  a0 = a0  a1 = a1  r1 = r1  r2 = r2  root = root  mail = mail
  None = None
  Users <- OneUser
  Accounts <- TwoAccounts
  Emails <- TwoEmails
  Seed = a0
  SeedEmail = root
  Requests <- TwoRequests
  Ops = {"register", "invite", "confirm", "letin", "bar", "promote", "update", "deladmin", "restart"}
SYMMETRY RequestSymmetry
INVARIANTS ActiveUsersAreVetted
PROPERTIES BarredStayOut MembershipSpec
CHECK_DEADLOCK FALSE

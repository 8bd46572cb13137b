SPECIFICATION MCSpec
CONSTANTS
  u1 = u1 u2 = u2 e1 = e1 e2 = e2 c1 = c1 c2 = c2 v1 = v1 v2 = v2
  l1 = l1 l2 = l2 f1 = f1 f2 = f2 seed = seed mail = mail
  m1 = m1 p1 = p1 p2 = p2 t1 = t1 t2 = t2 x1 = x1 x2 = x2 x3 = x3
  older = older locks = locks crash = crash again = again admins = admins clock = clock browser = browser stranger = stranger
  Persons <- TwoPersons
  Addresses <- TwoAddresses
  Codes <- TwoCodes
  Visits <- TwoVisits
  OTPMaxAttempts = 2
  Nil = Nil
  Links <- TwoLinks
  Forms <- TwoForms
  Empty = Empty
  Staff <- ThreeStaff
  Mails <- TwoMails
  SeedMail <- seed
  Secrets <- AllSecrets
  Initial = Initial
  Absent = Absent
  MaxCrashes = 2
  Entries <- AllEntries
  AuditPageSize = 2
  NoReader = NoReader
  Meetings <- OneMeeting
  People <- TwoPeople
  Tickets <- TwoTickets
  Null = Null
  Host <- p1
  Guest <- p2
  Scopes <- BootScope
INVARIANT MigrateIsRepeatable
CHECK_DEADLOCK FALSE

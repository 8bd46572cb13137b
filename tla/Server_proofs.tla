---------------------------- MODULE Server_proofs ----------------------------
(* Proofs about Server: put together, the components behave as each does on  *)
(* its own, so what is proved of them alone holds of the process they share. *)
(* SchemaBoot, which has no life outside it, comes first.                    *)
EXTENDS Server, OneTimeCodes_proofs, PasswordResets_proofs, BookingDesk_proofs,
        AuditTrail_proofs

-----------------------------------------------------------------------------
(* The list of statements, looked up.                                        *)

LEMMA MigrationLength == Len(Migration) = 14
BY DEF Migration

LEMMA Statements ==
  /\ Migration[1] = Makes("tables", {"plain_keys"}, {})
  /\ Migration[2] = Makes("email", {"email_key"}, {"tables"})
  /\ Migration[3] = Makes("deleted_at", {}, {"tables"})
  /\ Migration[4] = Drops("plain_keys") /\ Migration[5] = Drops("email_key")
  /\ Migration[6] = Makes("live_indexes", {}, {"email", "deleted_at"})
  /\ Migration[7] = Runs("seed", {"email", "live_indexes"})
  /\ Migration[8] = Makes("columns", {}, {"tables"})
  /\ Migration[9] = Runs("rename", {"columns"})
  /\ Migration[10] = Makes("more_columns", {}, {"tables"})
  /\ Migration[11] = Makes("login_locked", {}, {"tables"})
  /\ Migration[12] = Runs("lock", {"login_locked"})
  /\ Migration[13] = Drops("login_locked")
  /\ Migration[14] = Makes("audit", {}, {"tables"})
BY DEF Migration

LEMMA Fields ==
  /\ \A object, with, needs :
       /\ Makes(object, with, needs).kind = "makes"
       /\ Makes(object, with, needs).object = object
       /\ Makes(object, with, needs).with = with
       /\ Makes(object, with, needs).needs = needs
  /\ \A object : Drops(object).kind = "drops" /\ Drops(object).object = object
  /\ \A data, needs : /\ Runs(data, needs).kind = "runs"
                      /\ Runs(data, needs).object = data
                      /\ Runs(data, needs).needs = needs
BY DEF Makes, Drops, Runs

MakesAt == {1, 2, 3, 6, 8, 10, 11, 14}
DropsAt == {4, 5, 13}
RunsAt == {7, 9, 12}

LEMMA Kinds ==
  ASSUME at \in 1 .. 15
  PROVE  /\ IsA("makes") => at \in MakesAt
         /\ IsA("drops") => at \in DropsAt
         /\ IsA("runs") => at \in RunsAt
<1> SUFFICES ASSUME at \in 1 .. 14
             PROVE  /\ Statement.kind = "makes" => at \in MakesAt
                    /\ Statement.kind = "drops" => at \in DropsAt
                    /\ Statement.kind = "runs" => at \in RunsAt
  BY MigrationLength DEF IsA
<1>1. CASE at \in MakesAt
  BY <1>1, Statements, Fields DEF Statement, MakesAt
<1>2. CASE at \in DropsAt
  BY <1>2, Statements, Fields DEF Statement, DropsAt
<1>3. CASE at \in RunsAt
  BY <1>3, Statements, Fields DEF Statement, RunsAt
<1>4. at \in MakesAt \cup DropsAt \cup RunsAt
  BY DEF MakesAt, DropsAt, RunsAt
<1> QED BY <1>1, <1>2, <1>3, <1>4

-----------------------------------------------------------------------------
(* The inductive invariant: how far the schema is at each statement.         *)

Progress ==
  /\ at >= 2 => "tables" \in schema
  /\ at >= 3 => "email" \in schema
  /\ at >= 4 => "deleted_at" \in schema
  /\ at >= 5 => "plain_keys" \notin schema
  /\ at >= 7 => "live_indexes" \in schema
  /\ at >= 9 => "columns" \in schema
  /\ at = 12 => "login_locked" \in schema
  /\ at >= 14 => flagged = {}

(* Of the rows only that there is a table of them; what they hold is others' *)
(* business.                                                                 *)
StaffMapped == staff = [a \in Staff |-> staff[a]]

BootInv ==
  /\ BootTypeOK /\ StaffMapped
  /\ phase = "migrating" => Progress
  /\ served => flagged = {}
  /\ BootFailsOnlyOnSeedAddress

(* Every statement finds what it needs.                                      *)
LEMMA NeedsMet ==
  ASSUME BootInv, IsA("makes") \/ IsA("runs")
  PROVE  Statement.needs \subseteq schema
<1>1. at \in 1 .. 15 /\ Progress
  BY MigrationLength DEF BootInv, BootTypeOK, IsA
<1>2. CASE at \in MakesAt
  BY <1>1, <1>2, Statements, Fields DEF Statement, MakesAt, Progress
<1>3. CASE at \in RunsAt
  BY <1>1, <1>3, Statements, Fields DEF Statement, RunsAt, Progress
<1> QED BY <1>1, <1>2, <1>3, Kinds

LEMMA MakeStep ==
  ASSUME BootInv, Make
  PROVE  BootInv'
<1> USE DEF BootInv
<1>1. at \in MakesAt /\ at \in 1 .. 14 /\ Progress
  BY MigrationLength, Kinds DEF Make, IsA, BootTypeOK
<1>2. /\ at' = at + 1
      /\ UNCHANGED <<staff, phase, flagged, approved, crashes, served>>
      /\ phase = "migrating"
      /\ schema' = IF Statement.object \in schema THEN schema
                   ELSE schema \cup {Statement.object} \cup Statement.with
  BY DEF Make, Continue, IsA
<1>3. /\ Statement.object \in schema' /\ schema \subseteq schema'
      /\ schema' \subseteq schema \cup {Statement.object} \cup Statement.with
  BY <1>2
<1>4. /\ {Statement.object} \cup Statement.with \subseteq Objects
      /\ at >= 4 => "plain_keys" \notin {Statement.object} \cup Statement.with
  BY <1>1, Statements, Fields DEF Statement, MakesAt, Objects
<1>5. Progress'
  <2>1. /\ at = 1 => Statement.object = "tables"
        /\ at = 2 => Statement.object = "email"
        /\ at = 3 => Statement.object = "deleted_at"
        /\ at = 6 => Statement.object = "live_indexes"
        /\ at = 8 => Statement.object = "columns"
        /\ at = 11 => Statement.object = "login_locked"
    BY Statements, Fields DEF Statement
  <2> QED BY <1>1, <1>2, <1>3, <1>4, <2>1 DEF Progress, MakesAt
<1>6. BootTypeOK'
  BY <1>1, <1>2, <1>3, <1>4, MigrationLength DEF BootTypeOK
<1> QED BY <1>2, <1>5, <1>6 DEF StaffMapped, BootFailsOnlyOnSeedAddress

LEMMA DropStep ==
  ASSUME BootInv, Drop
  PROVE  BootInv'
<1> USE DEF BootInv
<1>1. at \in DropsAt /\ at \in 1 .. 14 /\ Progress
  BY MigrationLength, Kinds DEF Drop, IsA, BootTypeOK
<1>2. /\ at' = at + 1 /\ UNCHANGED <<staff, phase, approved, crashes, served>>
      /\ phase = "migrating" /\ schema' = schema \ {Statement.object}
      /\ flagged' = IF Statement.object = "login_locked" THEN {} ELSE flagged
  BY DEF Drop, Continue, IsA
<1>3. /\ at = 4 => Statement.object = "plain_keys"
      /\ at = 5 => Statement.object = "email_key"
      /\ at = 13 => Statement.object = "login_locked"
  BY Statements, Fields DEF Statement
<1>4. Progress'
  BY <1>1, <1>2, <1>3 DEF Progress, DropsAt
<1>5. BootTypeOK'
  BY <1>1, <1>2, MigrationLength DEF BootTypeOK
<1> QED BY <1>2, <1>4, <1>5 DEF StaffMapped, BootFailsOnlyOnSeedAddress

(* INSERT adds a row where there was none.                                   *)
LEMMA InsertedAside ==
  ASSUME StaffMapped, NEW m, InsertStaff(m)
  PROVE  StaffMapped' /\ \A a \in LiveStaff : staff'[a] = staff[a]
<1>1. PICK b \in NextStaff : staff' = [staff EXCEPT ![b] = NewStaff(m)]
  BY DEF InsertStaff
<1>2. b \in Staff /\ staff[b] = Absent
  BY StaffAssumption DEF NextStaff
<1> QED BY <1>1, <1>2 DEF StaffMapped, LiveStaff

(* The conversion of the locks changes nobody once the flags are gone.       *)
LEMMA LocksAside ==
  ASSUME StaffMapped, MigrateLocks
  PROVE  StaffMapped' /\ (flagged = {} => \A a \in Staff : staff'[a] = staff[a])
BY DEF StaffMapped, MigrateLocks

LEMMA RunStep ==
  ASSUME BootInv, SeedAdmin \/ RenameStatus \/ MigrateLocks
  PROVE  BootInv'
<1> USE DEF BootInv
<1>1. at \in RunsAt /\ at \in 1 .. 14 /\ Progress
  BY MigrationLength, Kinds DEF SeedAdmin, RenameStatus, MigrateLocks, IsA, BootTypeOK
<1>2. /\ at' = at + 1 /\ UNCHANGED <<phase, schema, flagged, crashes, served>>
      /\ phase = "migrating" /\ (approved' = approved \/ approved' = FALSE)
  BY DEF SeedAdmin, RenameStatus, MigrateLocks, Continue, IsA
<1>3. StaffMapped'
  BY InsertedAside, LocksAside DEF SeedAdmin, RenameStatus, StaffMapped
<1>4. Progress'
  BY <1>1, <1>2 DEF Progress, RunsAt
<1>5. approved' \in BOOLEAN
  BY <1>2 DEF BootTypeOK
<1>6. BootTypeOK'
  BY <1>1, <1>2, <1>5, MigrationLength DEF BootTypeOK
<1> QED BY <1>2, <1>3, <1>4, <1>6 DEF BootFailsOnlyOnSeedAddress

(* A boot fails at the seed or not at all.                                   *)
LEMMA FailStep ==
  ASSUME BootInv, StatementFails
  PROVE  BootInv'
<1> USE DEF BootInv
<1>1. IsA("runs") /\ Statement.object = "seed" /\ SeedRefused
  BY NeedsMet DEF StatementFails
<1>2. at \in RunsAt /\ Progress
  BY <1>1, MigrationLength, Kinds DEF IsA, BootTypeOK
<1>3. at >= 5
  BY <1>2 DEF RunsAt
<1>4. SeedAddressTaken
  BY <1>1, <1>2, <1>3 DEF SeedRefused, SeedExists, SeedAddressTaken, Progress
<1>5. /\ phase' = "failed"
      /\ UNCHANGED <<staff, at, schema, flagged, approved, crashes, served>>
  BY DEF StatementFails, Break
<1> QED BY <1>4, <1>5
        DEF BootTypeOK, StaffMapped, BootFailsOnlyOnSeedAddress, SeedAddressTaken,
            WithUsername, WithEmail, LiveStaff

LEMMA PhaseStep ==
  ASSUME BootInv, Boot \/ StartServing \/ Crash
  PROVE  BootInv'
<1> USE DEF BootInv
<1>1. /\ UNCHANGED <<staff, schema, flagged, approved>>
      /\ phase' \in {"migrating", "serving", "down"}
      /\ phase' = "migrating" => at' = 1
  BY DEF Boot, StartServing, Crash
<1>2. served' => flagged' = {}
  <2>1. CASE StartServing
    BY <1>1, <2>1, MigrationLength DEF StartServing, Progress
  <2>2. CASE Boot \/ Crash
    BY <1>1, <2>2 DEF Boot, Crash
  <2> QED BY <2>1, <2>2
<1>3. BootTypeOK'
  <2>1. approved' \in BOOLEAN /\ served' \in BOOLEAN
    BY <1>1 DEF Boot, StartServing, Crash, BootTypeOK
  <2>2. at' \in 1 .. Len(Migration) + 1 /\ crashes' \in 0 .. MaxCrashes
    BY BootAssumption, MigrationLength DEF Boot, StartServing, Crash, BootTypeOK
  <2> QED BY <1>1, <2>1, <2>2 DEF BootTypeOK
<1>4. phase' = "migrating" => Progress'
  BY <1>1 DEF Progress
<1> QED BY <1>1, <1>2, <1>3, <1>4 DEF StaffMapped, BootFailsOnlyOnSeedAddress

(* While the server serves, rows may change as they like.                    *)
LEMMA ServingStep ==
  ASSUME BootInv, phase = "serving", UNCHANGED bootVars, StaffMapped'
  PROVE  BootInv'
BY DEF BootInv, bootVars, BootTypeOK, BootFailsOnlyOnSeedAddress

LEMMA BootRest ==
  ASSUME BootInv, UNCHANGED <<staff, bootVars>>
  PROVE  BootInv'
BY DEF BootInv, bootVars, BootTypeOK, StaffMapped, Progress, BootFailsOnlyOnSeedAddress,
       SeedAddressTaken, WithUsername, WithEmail, LiveStaff

LEMMA BootInitInv ==
  ASSUME BootInit
  PROVE  BootInv
<1> USE DEF BootInit
<1>1. BootTypeOK
  <2>1. approved \in BOOLEAN /\ served \in BOOLEAN
    OBVIOUS
  <2>2. schema \subseteq Objects /\ flagged \subseteq Staff
    BY BootAssumption DEF OlderSchema, Objects
  <2>3. at \in 1 .. Len(Migration) + 1 /\ crashes \in 0 .. MaxCrashes
    BY BootAssumption, MigrationLength
  <2> QED BY <2>1, <2>2, <2>3 DEF BootTypeOK
<1>2. StaffMapped
  BY DEF StaffMapped
<1> QED BY <1>1, <1>2 DEF BootInv, BootFailsOnlyOnSeedAddress

LEMMA BootInvStep ==
  ASSUME BootInv, BootStep \/ Crash
  PROVE  BootInv'
BY MakeStep, DropStep, RunStep, FailStep, PhaseStep DEF BootStep, Migrate

(* After the first service no boot changes the standing of a live account.   *)
LEMMA StandingKept ==
  ASSUME BootInv, BootStep \/ Crash, served, NEW a \in LiveStaff
  PROVE  staff'[a] = staff[a]
<1>1. a \in Staff /\ flagged = {} /\ StaffMapped
  BY DEF LiveStaff, BootInv
<1>2. CASE SeedAdmin
  BY <1>1, <1>2, InsertedAside DEF SeedAdmin
<1>3. CASE MigrateLocks
  BY <1>1, <1>3, LocksAside
<1> QED BY <1>2, <1>3 DEF BootStep, Migrate, Boot, StartServing, Crash, Make, Drop,
           RenameStatus, StatementFails, Break

-----------------------------------------------------------------------------
(* The components in the composition.                                        *)

(* A step of the server is, for the one-time codes, a step of theirs or none *)
(* at all, boots and crashes included.                                       *)
THEOREM ServerRunsCodes == ServerSpec => CodesSpec
<1>1. ServerInit => CodesInit
  BY DEF ServerInit
<1>2. [ServerNext]_serverVars => [CodesNext]_codesVars
  <2>1. ASSUME ServerNext PROVE [CodesNext]_codesVars
    BY <2>1 DEF ServerNext, ServeCodes, ServeLinks, ServeDesk, ServeTrail, ServeStaff,
                Booting, Stops, CodesNext
  <2> QED BY <2>1 DEF serverVars
<1> QED BY <1>1, <1>2, PTL DEF ServerSpec, CodesSpec

(* For the reset links likewise, while others write the admins table.        *)
THEOREM ServerRunsLinks == ServerSpec => LinksSpec
<1>1. ServerInit => LinksInit
  BY DEF ServerInit
<1>2. [ServerNext]_serverVars => [LinksNext]_linksVars
  <2>1. ASSUME ServerNext PROVE [LinksNext]_linksVars
    BY <2>1 DEF ServerNext, ServeCodes, ServeLinks, ServeDesk, ServeTrail, ServeStaff,
                Booting, Stops, LinksNext
  <2> QED BY <2>1 DEF serverVars
<1> QED BY <1>1, <1>2, PTL DEF ServerSpec, LinksSpec

(* For the booking handlers and the trail they record in likewise.           *)
THEOREM ServerRunsDesk == ServerSpec => DeskSpec
<1>1. ServerInit =>
        TrailInit /\ \E o \in People, ps \in SUBSET People : DeskInit(o, ps)
  BY ServerAssumption DEF ServerInit
<1>2. [ServerNext]_serverVars => [DeskNext]_<<deskVars, trailVars>>
  <2>1. ASSUME ServerNext PROVE [DeskNext]_<<deskVars, trailVars>>
    BY <2>1 DEF ServerNext, ServeCodes, ServeLinks, ServeDesk, ServeTrail, ServeStaff,
                Booting, Stops, DeskNext
  <2> QED BY <2>1 DEF serverVars
<1> QED BY <1>1, <1>2, PTL DEF ServerSpec, DeskSpec

(* A step of the booking handlers records one entry or leaves the trail be.  *)
LEMMA DeskRecords ==
  ASSUME DeskNext
  PROVE  [TrailNext]_trailVars
<1>1. ASSUME NEW t \in Tickets, Arrive(t)
      PROVE  UNCHANGED trailVars
  BY <1>1 DEF Arrive, CreateBooking, UpdateBooking, BeginRequest
<1>2. ASSUME NEW t \in Tickets, Serve(t), ~RecordAct(t)
      PROVE  UNCHANGED trailVars
  BY <1>2 DEF Serve, ReadRow, ReadFails, FailWrite, WriteEdit, WriteCancel, WriteDelete,
              WriteMinutes, Confirmed, RecordFails, Refetch
<1>3. ASSUME NEW t \in Tickets, Mail(t)
      PROVE  UNCHANGED trailVars
  BY <1>3 DEF Mail, SendTo, SendFails
<1>4. ASSUME NEW t \in Tickets, RecordAct(t)
      PROVE  \E e \in Entries : Record(e)
  BY <1>4, DeskAssumption DEF RecordAct
<1> QED BY <1>1, <1>2, <1>3, <1>4
        DEF DeskNext, DeskStep, DeskRestart, TrailBeside, MeetingTick, TrailNext

(* The trail in the composition is written by booking handlers alone, one    *)
(* entry at a time, and survives crashes and boots (audit_model.go).         *)
THEOREM ServerRunsTrail == ServerSpec => TrailSpec
<1>1. ServerInit => TrailInit
  BY DEF ServerInit
<1>2. [ServerNext]_serverVars => [TrailNext]_trailVars
  <2>1. ASSUME [ServerNext]_serverVars PROVE DeskNext \/ UNCHANGED trailVars
    BY <2>1 DEF ServerNext, ServeCodes, ServeLinks, ServeDesk, ServeTrail, ServeStaff,
                Booting, Stops, DeskNext, serverVars
  <2> QED BY <2>1, DeskRecords
<1> QED BY <1>1, <1>2, PTL DEF ServerSpec, TrailSpec

(* In the process that runs all of them: guesses at a code stay bounded and  *)
(* trust is won by a code, links are not wasted, cancellations reach those   *)
(* invited, the trail tells what happened and can be read to its end, and    *)
(* minutes are of held meetings.                                             *)
THEOREM ServerSafety ==
  ServerSpec => [](/\ GuessesBounded /\ TrustIsVouched /\ SpentLinksTakeEffect
                   /\ CancellationReachesInvited /\ TrailMatchesActs
                   /\ EveryEntryReachable /\ MinutesOfHeldMeetings)
BY ServerRunsCodes, ServerRunsLinks, ServerRunsDesk, ServerRunsTrail, GuessSafety, TrustSafety,
   LinkEffectSafety, CancellationSafety, TrailSafety, PagingSafety, MinutesSafety, PTL

(* Both in-memory stores of the process keep the promise of a voucher store, *)
(* across requests, expiry, sweeps, crashes and boots.                       *)
THEOREM ServerStores == ServerSpec => CodesAreVouchers /\ LinksAreVouchers
BY ServerRunsCodes, ServerRunsLinks, CodesRefinement, LinksRefinement, PTL

-----------------------------------------------------------------------------
(* The start.                                                                *)

(* Rows come and go only one at a time: the table of admins stays one.       *)
LEMMA ManageMapped ==
  ASSUME StaffMapped, ManageStaff
  PROVE  StaffMapped'
<1>1. ASSUME NEW m \in Mails, InsertStaff(m) PROVE StaffMapped'
  BY <1>1, InsertedAside
<1>2. ASSUME NEW a \in Staff, NEW m, ChangeMail(a, m) PROVE StaffMapped'
  BY <1>2 DEF StaffMapped, ChangeMail
<1>3. ASSUME NEW a \in Staff, NEW s, SetStaffStatus(a, s) PROVE StaffMapped'
  BY <1>3 DEF StaffMapped, SetStaffStatus
<1>4. ASSUME NEW a \in Staff, DeleteStaff(a) PROVE StaffMapped'
  BY <1>4 DEF StaffMapped, DeleteStaff
<1> QED BY <1>1, <1>2, <1>3, <1>4 DEF ManageStaff

LEMMA LinksMapped ==
  ASSUME StaffMapped, LinksStep
  PROVE  StaffMapped'
<1>1. ASSUME NEW f \in Forms, ApplyPasswordReset(f) PROVE StaffMapped'
  BY <1>1 DEF StaffMapped, ApplyPasswordReset, SetPassword
<1>2. ASSUME UNCHANGED staff PROVE StaffMapped'
  BY <1>2 DEF StaffMapped
<1> QED BY <1>1, <1>2
        DEF LinksStep, LinksHandler, ForgotPassword, MintLink, ResetPassword, FailForm,
            LinkExpires, CleanupLinks

(* Boots, crashes, and whatever the serving process does to the admins.      *)
THEOREM BootInvariance == ServerSpec => []BootInv
<1>1. ServerInit => BootInv
  BY BootInitInv DEF ServerInit
<1>2. BootInv /\ [ServerNext]_serverVars => BootInv'
  <2> SUFFICES ASSUME BootInv, [ServerNext]_serverVars PROVE BootInv'
    OBVIOUS
  <2>1. StaffMapped
    BY DEF BootInv
  <2>2. CASE ServeCodes \/ ServeDesk \/ ServeTrail \/ UNCHANGED serverVars
    BY <2>2, BootRest
       DEF ServeCodes, ServeDesk, ServeTrail, Serving, serverVars
  <2>3. CASE ServeLinks
    BY <2>1, <2>3, LinksMapped, ServingStep DEF ServeLinks, Serving
  <2>4. CASE ServeStaff
    BY <2>1, <2>4, ManageMapped, ServingStep DEF ServeStaff, StaffWork
  <2>5. CASE Booting \/ Stops
    BY <2>5, BootInvStep DEF Booting, Stops
  <2> QED BY <2>2, <2>3, <2>4, <2>5 DEF ServerNext
<1> QED BY <1>1, <1>2, PTL DEF ServerSpec

(* Every statement of the migration finds what it needs on any database the  *)
(* server can have left: a boot fails only if the seed's address belongs to  *)
(* another account (migrate).                                                *)
THEOREM BootSafety == ServerSpec => []BootFailsOnlyOnSeedAddress
<1>1. BootInv => BootFailsOnlyOnSeedAddress
  BY DEF BootInv
<1> QED BY <1>1, BootInvariance, PTL

(* After the server has served once, no boot touches the standing of a live  *)
(* account, so a lock that was lifted stays lifted (migrate, 154-156).       *)
THEOREM StandingSafety == ServerSpec => BootKeepsStanding
<1>1. BootInv /\ [ServerNext]_serverVars =>
        [served /\ phase # "serving" =>
           \A a \in LiveStaff : staff'[a] = staff[a]]_<<staff, bootVars>>
  <2> SUFFICES ASSUME BootInv, [ServerNext]_serverVars, served, phase # "serving",
                      NEW a \in LiveStaff
               PROVE  staff'[a] = staff[a] \/ UNCHANGED <<staff, bootVars>>
    OBVIOUS
  <2>1. CASE Booting \/ Stops
    BY <2>1, StandingKept DEF Booting, Stops
  <2> QED BY <2>1 DEF ServerNext, ServeCodes, ServeLinks, ServeDesk, ServeTrail,
                      ServeStaff, StaffWork, Serving, serverVars
<1> QED BY <1>1, BootInvariance, PTL DEF ServerSpec, BootKeepsStanding

-----------------------------------------------------------------------------
(* The shared tables keep their types.                                       *)

LEMMA RowOfStaff ==
  ASSUME NEW row \in StaffRow
  PROVE  /\ \A m \in Mails \cup {Absent} : [row EXCEPT !.email = m] \in StaffRow
         /\ \A s \in {"active", "locked", "revoked"} : [row EXCEPT !.status = s] \in StaffRow
         /\ \A c \in Secrets : [row EXCEPT !.password = c] \in StaffRow
         /\ [row EXCEPT !.deleted = TRUE] \in StaffRow
BY DEF StaffRow

(* Rows are typed, and none is ever taken out of the table.                  *)
StaffKept == StaffTypeOK' /\ \A a \in Staff : staff[a] # Absent => staff'[a] # Absent

LEMMA RowKept ==
  ASSUME StaffTypeOK, NEW a \in Staff, NEW row \in StaffRow,
         staff' = [staff EXCEPT ![a] = row]
  PROVE  StaffKept
BY StaffAssumption DEF StaffTypeOK, StaffKept

LEMMA InsertKept ==
  ASSUME StaffTypeOK, NEW m \in Mails, InsertStaff(m)
  PROVE  StaffKept
<1>1. PICK a \in Staff : staff' = [staff EXCEPT ![a] = NewStaff(m)]
  BY DEF InsertStaff, NextStaff
<1>2. NewStaff(m) \in StaffRow
  BY StaffAssumption DEF NewStaff, StaffRow
<1> QED BY <1>1, <1>2, RowKept

LEMMA ManageKept ==
  ASSUME StaffTypeOK, ManageStaff
  PROVE  StaffKept
<1> USE DEF StaffTypeOK
<1>1. ASSUME NEW a \in Staff, NEW m \in Mails \cup {Absent}, ChangeMail(a, m)
      PROVE  StaffKept
  <2>1. PICK row \in StaffRow : row = staff[a]
    BY <1>1 DEF ChangeMail
  <2>2. PICK next \in StaffRow : next = [row EXCEPT !.email = m]
    BY RowOfStaff
  <2>3. staff' = [staff EXCEPT ![a] = next]
    BY <1>1, <2>1, <2>2 DEF ChangeMail
  <2> QED BY <2>3, RowKept
<1>2. ASSUME NEW a \in Staff, NEW s \in {"active", "locked", "revoked"},
             SetStaffStatus(a, s)
      PROVE  StaffKept
  <2>1. PICK row \in StaffRow : row = staff[a]
    BY <1>2 DEF SetStaffStatus, LiveStaff
  <2>2. PICK next \in StaffRow : next = [row EXCEPT !.status = s]
    BY RowOfStaff
  <2>3. staff' = [staff EXCEPT ![a] = next]
    BY <1>2, <2>1, <2>2 DEF SetStaffStatus
  <2> QED BY <2>3, RowKept
<1>3. ASSUME NEW a \in Staff, DeleteStaff(a)
      PROVE  StaffKept
  <2>1. PICK row \in StaffRow : row = staff[a]
    BY <1>3 DEF DeleteStaff, LiveStaff
  <2>2. PICK next \in StaffRow : next = [row EXCEPT !.deleted = TRUE]
    BY RowOfStaff
  <2>3. staff' = [staff EXCEPT ![a] = next]
    BY <1>3, <2>1, <2>2 DEF DeleteStaff
  <2> QED BY <2>3, RowKept
<1> QED BY <1>1, <1>2, <1>3, InsertKept DEF ManageStaff

LEMMA BootKept ==
  ASSUME StaffTypeOK, BootStep \/ Crash
  PROVE  StaffKept
<1>1. CASE SeedAdmin /\ ~SeedExists
  BY <1>1, InsertKept, StaffAssumption DEF SeedAdmin
<1>2. CASE MigrateLocks
  <2>1. ASSUME NEW a \in Staff
        PROVE  /\ staff'[a] \in StaffRow \cup {Absent}
               /\ staff[a] # Absent => staff'[a] # Absent
    <3>1. CASE staff'[a] = staff[a]
      BY <3>1 DEF StaffTypeOK
    <3>2. CASE staff[a] # Absent /\ staff'[a] = [staff[a] EXCEPT !.status = "locked"]
      <4>1. PICK row \in StaffRow : row = staff[a]
        BY <3>2 DEF StaffTypeOK
      <4>2. [row EXCEPT !.status = "locked"] \in StaffRow
        BY RowOfStaff
      <4> QED BY <3>2, <4>1, <4>2, StaffAssumption
    <3> QED BY <1>2, <3>1, <3>2 DEF MigrateLocks
  <2>2. staff' = [a \in Staff |-> staff'[a]]
    BY <1>2 DEF MigrateLocks
  <2> QED BY <2>1, <2>2 DEF StaffKept, StaffTypeOK
<1>3. ASSUME UNCHANGED staff PROVE StaffKept
  BY <1>3 DEF StaffKept, StaffTypeOK
<1> QED BY <1>1, <1>2, <1>3
        DEF BootStep, Migrate, Boot, StartServing, Crash, Make, Drop, SeedAdmin,
            RenameStatus, StatementFails, Break

(* Links and forms are for accounts that have a row.                         *)
AccountsThere ==
  /\ \A l \in Links : mintedFor[l] # Empty => staff[mintedFor[l]] # Absent
  /\ \A f \in Forms : form[f] # Empty => staff[form[f].admin] # Absent

LEMMA LinksKept ==
  ASSUME StaffTypeOK, LinksInv, AccountsThere, LinksStep
  PROVE  StaffKept
<1>1. ASSUME NEW f \in Forms, ApplyPasswordReset(f) PROVE StaffKept
  <2>1. PICK a \in Staff : a = form[f].admin /\ staff[a] # Absent
    BY <1>1 DEF ApplyPasswordReset, AtStep, LinksInv, LinksTypeOK, Form, AccountsThere
  <2>2. PICK c \in Secrets : c = form[f].link
    BY <1>1, LinksAssumption
       DEF ApplyPasswordReset, LinksInv, LinksTypeOK, FormsSound, FormSound
  <2>3. PICK row \in StaffRow : row = staff[a]
    BY <2>1 DEF StaffTypeOK
  <2>4. PICK next \in StaffRow : next = [row EXCEPT !.password = c]
    BY RowOfStaff
  <2>5. staff' = [staff EXCEPT ![a] = next]
    BY <1>1, <2>1, <2>2, <2>3, <2>4 DEF ApplyPasswordReset, SetPassword
  <2> QED BY <2>5, RowKept
<1>2. ASSUME UNCHANGED staff PROVE StaffKept
  BY <1>2 DEF StaffKept, StaffTypeOK
<1> QED BY <1>1, <1>2
        DEF LinksStep, LinksHandler, ForgotPassword, MintLink, ResetPassword, FailForm,
            LinkExpires, CleanupLinks

LEMMA AccountsStay ==
  ASSUME LinksInv, AccountsThere, StaffKept, LinksNext \/ UNCHANGED linksVars
  PROVE  AccountsThere'
<1> USE DEF LinksInv, LinksTypeOK
<1> DEFINE There(a) == a \in Staff /\ staff[a] # Absent
<1>1. ASSUME NEW a, There(a) PROVE staff'[a] # Absent
  BY <1>1 DEF StaffKept
<1>2. /\ \A l \in Links : mintedFor[l] # Empty => There(mintedFor[l])
      /\ \A f \in Forms : form[f] # Empty => There(form[f].admin)
  BY DEF AccountsThere, Form
<1> HIDE DEF There
<1> DEFINE Met == /\ \A l \in Links : mintedFor'[l] # Empty => There(mintedFor'[l])
                  /\ \A f \in Forms : form'[f] # Empty => There(form'[f].admin)
<1>3. SUFFICES Met
  BY <1>1 DEF AccountsThere
<1>4. ASSUME NEW f \in Forms, LinksHandler(f)
      PROVE  Met
  <2>1. ASSUME NEW m \in Mails, NEW n \in Mails, ForgotPassword(f, m, n)
        PROVE  Met
    <3>1. PICK a \in Matching(m, n) :
            Submit(f, [step |-> "create", admin |-> a, link |-> Empty])
      BY <2>1 DEF ForgotPassword
    <3>2. There(a)
      BY DEF Matching, WithUsername, LiveStaff, There
    <3>3. /\ \A g \in Forms \ {f} : form'[g] = form[g]
          /\ form'[f].admin = a
          /\ UNCHANGED mintedFor
      BY <2>1, <3>1 DEF ForgotPassword, Submit, linksHistory
    <3> QED BY <1>2, <3>2, <3>3
  <2>2. ASSUME NEW l \in Links, MintLink(f, l)
        PROVE  Met
    <3>1. /\ form[f] # Empty /\ form' = [form EXCEPT ![f] = Empty]
          /\ mintedFor' = [mintedFor EXCEPT ![l] = form[f].admin]
      BY <2>2 DEF MintLink, AtStep, Submit
    <3>2. There(form[f].admin)
      BY <1>2, <3>1
    <3>3. /\ \A k \in Links \ {l} : mintedFor'[k] = mintedFor[k]
          /\ mintedFor'[l] = form[f].admin
          /\ \A g \in Forms \ {f} : form'[g] = form[g]
          /\ form'[f] = Empty
      BY <3>1
    <3> QED BY <1>2, <3>2, <3>3
  <2>3. ASSUME NEW l \in Links, NEW strong \in BOOLEAN, ResetPassword(f, l, strong)
        PROVE  Met
    <3>1. UNCHANGED mintedFor
      BY <2>3 DEF ResetPassword
    <3>2. CASE Usable(l)
      <4>1. form' = [form EXCEPT ![f] = [step |-> "apply", admin |-> token[l].admin,
                                         link |-> l]]
        BY <2>3, <3>2 DEF ResetPassword, Submit
      <4>2. There(token[l].admin)
        <5>1. mintedFor[l] = token[l].admin /\ mintedFor[l] # Empty
          BY <3>2, LinksAssumption DEF TokensSound, Usable, ResetTokenData
        <5> QED BY <1>2, <5>1
      <4>3. form'[f].admin = token[l].admin /\ \A g \in Forms \ {f} : form'[g] = form[g]
        BY <4>1
      <4> QED BY <1>2, <3>1, <4>2, <4>3
    <3>3. CASE ~Usable(l)
      BY <1>2, <2>3, <3>1, <3>3 DEF ResetPassword
    <3> QED BY <3>2, <3>3
  <2>4. ASSUME ApplyPasswordReset(f) \/ FailForm(f)
        PROVE  Met
    BY <1>2, <2>4 DEF ApplyPasswordReset, FailForm, Submit
  <2> QED BY <1>4, <2>1, <2>2, <2>3, <2>4 DEF LinksHandler
<1>5. ASSUME \/ \E l \in Links : LinkExpires(l)
             \/ CleanupLinks \/ LinksRestart \/ UNCHANGED linksVars
      PROVE  Met
  BY <1>2, <1>5 DEF LinkExpires, CleanupLinks, LinksRestart, linksVars, linksHistory
<1> QED BY <1>4, <1>5 DEF LinksNext, LinksStep

(* A link that outlives its admin's standing never outlives the row: what a  *)
(* reset writes is always an account's password (ApplyPasswordReset by id).  *)
THEOREM AccountSafety == ServerSpec => [](StaffTypeOK /\ AccountsThere)
<1>1. ServerInit => StaffTypeOK /\ AccountsThere
  <2> SUFFICES ASSUME ServerInit PROVE StaffTypeOK /\ AccountsThere
    OBVIOUS
  <2>1. NewStaff(SeedMail) \in StaffRow
    BY StaffAssumption DEF NewStaff, StaffRow
  <2>2. StaffTypeOK
    BY <2>1 DEF ServerInit, BootInit, StaffTypeOK
  <2>3. AccountsThere
    BY DEF ServerInit, LinksInit, AccountsThere
  <2> QED BY <2>2, <2>3
<1>2. StaffTypeOK /\ AccountsThere /\ LinksInv /\ [ServerNext]_serverVars =>
        (StaffTypeOK /\ AccountsThere)'
  <2> SUFFICES ASSUME StaffTypeOK, AccountsThere, LinksInv, [ServerNext]_serverVars
               PROVE  StaffTypeOK' /\ AccountsThere'
    OBVIOUS
  <2>1. StaffKept /\ (LinksNext \/ UNCHANGED linksVars)
    <3>1. CASE ServeLinks
      BY <3>1, LinksKept DEF ServeLinks, LinksNext
    <3>2. CASE ServeStaff
      BY <3>2, ManageKept DEF ServeStaff, StaffWork
    <3>3. CASE Booting \/ Stops
      BY <3>3, BootKept DEF Booting, Stops, LinksNext
    <3>4. CASE ServeCodes \/ ServeDesk \/ ServeTrail \/ UNCHANGED serverVars
      BY <3>4 DEF ServeCodes, ServeDesk, ServeTrail, serverVars, StaffKept, StaffTypeOK
    <3> QED BY <3>1, <3>2, <3>3, <3>4 DEF ServerNext
  <2> QED BY <2>1, AccountsStay DEF StaffKept
<1>3. ServerSpec => []LinksInv
  BY ServerRunsLinks, LinksInvariance, PTL
<1> QED BY <1>1, <1>2, <1>3, PTL DEF ServerSpec

(* Every component keeps its types while all of them work on the tables and  *)
(* the trail they share, across crashes and boots.                           *)
THEOREM ServerTypeCorrect == ServerSpec => []ServerTypeOK
<1>1. ServerSpec => []TrailInv
  BY ServerRunsTrail, TrailInvariance, PTL
<1>2. ServerSpec => []CodesTypeOK /\ []LinksInv /\ []DeskTypeOK
  BY ServerRunsCodes, ServerRunsLinks, ServerRunsDesk, CodesTypeCorrect, LinksInvariance,
     DeskTypeCorrect, PTL
<1>3. /\ CodesTypeOK /\ LinksInv /\ DeskTypeOK /\ StaffTypeOK /\ BootInv /\ TrailInv
      => ServerTypeOK
  BY DEF ServerTypeOK, LinksInv, BootInv, TrailInv
<1> QED BY <1>1, <1>2, <1>3, AccountSafety, BootInvariance, PTL
=============================================================================

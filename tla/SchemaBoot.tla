----------------------------- MODULE SchemaBoot -----------------------------
(* The server's start: migrate runs the whole list of schema statements, one *)
(* at a time and with no transaction around them, on every boot and on a     *)
(* database left by any earlier version or by a boot that stopped halfway.   *)
(* One of them inserts the seed account; the server serves only after the    *)
(* last, and the next boot finds what its admins did to the admins table.    *)
EXTENDS AdminTable, Sequences

CONSTANT MaxCrashes   \* bound on how often the process stops

ASSUME BootAssumption == MaxCrashes \in Nat /\ 1 \in Staff

VARIABLES
  phase,     \* what the process does
  at,        \* the statement migrate executes next
  schema,    \* tables, columns, constraints and indexes that exist
  flagged,   \* admins.login_locked of the older versions
  approved,  \* some user has status 'approved', the older versions' active
  crashes,   \* how often the process stopped
  served     \* history: the current version has served

bootVars == <<phase, at, schema, flagged, approved, crashes, served>>

(* Statements of one kind that follow one another count as one: an object is *)
(* created unless it exists, and brings `with'; a data statement is named.   *)
Makes(object, with, needs) ==
  [kind |-> "makes", object |-> object, with |-> with, needs |-> needs]
Drops(object) == [kind |-> "drops", object |-> object, with |-> {}, needs |-> {}]
Runs(data, needs) == [kind |-> "runs", object |-> data, with |-> {}, needs |-> needs]

(* A slip: the seed moved to the base tables it belongs to.                  *)
Migration_SeedFirst == <<
  Makes("tables", {"plain_keys"}, {}),
  Makes("email", {"email_key"}, {"tables"}),
  Runs("seed", {"email", "live_indexes"}),
  Makes("deleted_at", {}, {"tables"}),
  Drops("plain_keys"), Drops("email_key"),
  Makes("live_indexes", {}, {"email", "deleted_at"}),
  Makes("columns", {}, {"tables"}),
  Runs("rename", {"columns"}),
  Makes("more_columns", {}, {"tables"}),
  Makes("login_locked", {}, {"tables"}),
  Runs("lock", {"login_locked"}),
  Drops("login_locked"),
  Makes("audit", {}, {"tables"}) >>

(* A slip: the old column is kept, just in case.                             *)
Migration_KeepFlag == <<
  Makes("tables", {"plain_keys"}, {}),
  Makes("email", {"email_key"}, {"tables"}),
  Makes("deleted_at", {}, {"tables"}),
  Drops("plain_keys"), Drops("email_key"),
  Makes("live_indexes", {}, {"email", "deleted_at"}),
  Runs("seed", {"email", "live_indexes"}),
  Makes("columns", {}, {"tables"}),
  Runs("rename", {"columns"}),
  Makes("more_columns", {}, {"tables"}),
  Makes("login_locked", {}, {"tables"}),
  Runs("lock", {"login_locked"}),
  Makes("audit", {}, {"tables"}) >>

Migration == <<
  Makes("tables", {"plain_keys"}, {}),                      \* 51-88
  Makes("email", {"email_key"}, {"tables"}),                \* 92-95
  Makes("deleted_at", {}, {"tables"}),                      \* 103-106
  Drops("plain_keys"), Drops("email_key"),                  \* 107-110
  Makes("live_indexes", {}, {"email", "deleted_at"}),       \* 111-114
  Runs("seed", {"email", "live_indexes"}),                  \* 119-121
  Makes("columns", {}, {"tables"}),                         \* 123-141
  Runs("rename", {"columns"}),                              \* 144
  Makes("more_columns", {}, {"tables"}),                    \* 147-151
  Makes("login_locked", {}, {"tables"}),                    \* 154
  Runs("lock", {"login_locked"}),                           \* 155
  Drops("login_locked"),                                    \* 156
  Makes("audit", {}, {"tables"}) >>                         \* 159-184

Objects == {"tables", "plain_keys", "email", "email_key", "deleted_at",
            "live_indexes", "columns", "more_columns", "login_locked", "audit"}

BootTypeOK ==
  /\ phase \in {"down", "migrating", "serving", "failed"}
  /\ at \in 1 .. Len(Migration) + 1
  /\ schema \subseteq Objects /\ flagged \subseteq Staff
  /\ approved \in BOOLEAN /\ served \in BOOLEAN /\ crashes \in 0 .. MaxCrashes

(* The database of an older version: flags for locks, 'approved' for active, *)
(* plain keys if it is older than soft deletion.                             *)
OlderSchema == {"tables", "email", "columns", "login_locked"}

BootInit ==
  /\ phase = "down" /\ at = 1 /\ crashes = 0 /\ served = FALSE
  /\ \/ /\ schema = {} /\ flagged = {} /\ approved = FALSE
        /\ staff = [a \in Staff |-> Absent]
     \/ /\ schema \in {OlderSchema \cup {"plain_keys", "email_key"},
                       OlderSchema \cup {"deleted_at", "live_indexes"}}
        /\ flagged \in {{}, {1}} /\ approved = TRUE
        /\ staff = [a \in Staff |-> IF a = 1 THEN NewStaff(SeedMail) ELSE Absent]

(* Connect, or log.Fatal and the process starts again.                       *)
Boot ==
  /\ phase \in {"down", "failed"}
  /\ phase' = "migrating" /\ at' = 1
  /\ UNCHANGED <<staff, schema, flagged, approved, crashes, served>>

Statement == Migration[at]
IsA(kind) == phase = "migrating" /\ at <= Len(Migration) /\ Statement.kind = kind

Continue == at' = at + 1 /\ UNCHANGED <<phase, crashes, served>>
Break == phase' = "failed" /\ UNCHANGED <<staff, at, schema, flagged, approved, crashes, served>>

(* CREATE ... IF NOT EXISTS, ADD COLUMN IF NOT EXISTS.                       *)
Make ==
  /\ IsA("makes") /\ Statement.needs \subseteq schema
  /\ schema' = IF Statement.object \in schema THEN schema
               ELSE schema \cup {Statement.object} \cup Statement.with
  /\ Continue
  /\ UNCHANGED <<staff, flagged, approved>>

(* A slip: IF EXISTS left out.                                               *)
Drop_MustExist ==
  /\ IsA("drops")
  /\ IF Statement.object \in schema
     THEN /\ schema' = schema \ {Statement.object}
          /\ flagged' = IF Statement.object = "login_locked" THEN {} ELSE flagged
          /\ Continue
          /\ UNCHANGED <<staff, approved>>
     ELSE Break

(* DROP ... IF EXISTS.                                                       *)
Drop ==
  /\ IsA("drops")
  /\ schema' = schema \ {Statement.object}
  /\ flagged' = IF Statement.object = "login_locked" THEN {} ELSE flagged
  /\ Continue
  /\ UNCHANGED <<staff, approved>>

SeedExists == WithUsername(SeedMail) # {}

(* INSERT ... ON CONFLICT(username) WHERE deleted_at IS NULL DO NOTHING does *)
(* nothing if a live row has the username; another key still refuses it.     *)
SeedRefused ==
  /\ ~SeedExists
  /\ \/ WithEmail(SeedMail) # {}
     \/ "plain_keys" \in schema /\ \E a \in Staff : staff[a] # Absent
                                                   /\ staff[a].username = SeedMail

SeedAdmin ==
  /\ IsA("runs") /\ Statement.object = "seed"
  /\ Statement.needs \subseteq schema /\ ~SeedRefused
  /\ IF SeedExists THEN UNCHANGED staff
     ELSE InsertStaff(SeedMail)
  /\ Continue
  /\ UNCHANGED <<schema, flagged, approved>>

RenameStatus ==
  /\ IsA("runs") /\ Statement.object = "rename" /\ Statement.needs \subseteq schema
  /\ approved' = FALSE
  /\ Continue
  /\ UNCHANGED <<staff, schema, flagged>>

(* A slip: the column's name for the status'.                                *)
MigrateLocks_AsNamed ==
  /\ IsA("runs") /\ Statement.object = "lock" /\ Statement.needs \subseteq schema
  /\ staff' = [a \in Staff |->
                 IF a \in flagged THEN [staff[a] EXCEPT !.status = "login_locked"] ELSE staff[a]]
  /\ Continue
  /\ UNCHANGED <<schema, flagged, approved>>

MigrateLocks ==
  /\ IsA("runs") /\ Statement.object = "lock" /\ Statement.needs \subseteq schema
  /\ staff' = [a \in Staff |->
                 IF a \in flagged /\ staff[a] # Absent /\ staff[a].status = "active"
                 THEN [staff[a] EXCEPT !.status = "locked"] ELSE staff[a]]
  /\ Continue
  /\ UNCHANGED <<schema, flagged, approved>>

(* A statement that cannot be executed ends the boot.                        *)
StatementFails ==
  /\ \/ (IsA("makes") \/ IsA("runs")) /\ ~(Statement.needs \subseteq schema)
     \/ IsA("runs") /\ Statement.object = "seed" /\ SeedRefused
  /\ Break

(* main: stores, routes, the purge goroutine, and ListenAndServe.            *)
StartServing ==
  /\ phase = "migrating" /\ at = Len(Migration) + 1
  /\ phase' = "serving" /\ served' = TRUE
  /\ UNCHANGED <<staff, at, schema, flagged, approved, crashes>>

(* The process stops, whatever it does.                                      *)
Crash ==
  /\ phase \in {"migrating", "serving"} /\ crashes < MaxCrashes
  /\ phase' = "down" /\ crashes' = crashes + 1
  /\ UNCHANGED <<staff, at, schema, flagged, approved, served>>

Migrate == Make \/ Drop \/ SeedAdmin \/ RenameStatus \/ MigrateLocks \/ StatementFails

BootStep == Boot \/ Migrate \/ StartServing

(* Admin management, while the server serves.                                *)
StaffWork == phase = "serving" /\ ManageStaff /\ UNCHANGED bootVars

BootNext ==
  \/ BootStep
  \/ Crash
  \/ StaffWork

-----------------------------------------------------------------------------
(* Properties.                                                               *)

(* The comment on migrate (connection.go:47): its statements are idempotent  *)
(* and run on every boot.  So no boot fails on a database the server itself  *)
(* has left.                                                                 *)
MigrateIsRepeatable == phase # "failed"

(* Some other admin has been given the seed's address, and the seed is gone. *)
SeedAddressTaken == WithUsername(SeedMail) = {} /\ WithEmail(SeedMail) # {}

(* From a fresh database, an older one or one whose migration stopped        *)
(* anywhere, the list of statements goes through: a boot fails only because  *)
(* the seed's address has passed to another account (migrate).               *)
BootFailsOnlyOnSeedAddress == phase = "failed" => SeedAddressTaken

(* The conversion of the old locks happens once: after the server has served *)
(* no boot changes the standing of an account an admin has since unlocked    *)
(* (migrate, 154-156).                                                       *)
BootKeepsStanding ==
  [][(served /\ phase # "serving") =>
        \A a \in LiveStaff : staff'[a] = staff[a]]_<<staff, bootVars>>

(* A boot comes to an end: the server serves, unless the seed's address is   *)
(* taken.                                                                    *)
BootEnds == (phase # "serving") ~> (phase = "serving" \/ SeedAddressTaken)
=============================================================================

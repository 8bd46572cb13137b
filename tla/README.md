# SmartBook: a TLA+ model of the room booking server

SmartBook is a Go server in front of PostgreSQL. People whose e-mail address is
registered book meeting rooms; general admins manage rooms, users and bookings;
super admins manage the admins. Every request is handled by its own goroutine, most
handlers are a sequence of separate SQL statements on a pool of ten connections, and
only one path, the booking of a slot, uses a transaction and a lock. The repository
has no tests. What can go wrong lies between two statements, and that is what these
modules explore.

## Inventory

| component | state | operations | where it is hard |
|---|---|---|---|
| Bookings, slots (`models/booking_model.go`, `controllers/booking_controller.go`) | `bookings` table | Save (insert or update), PublicUpdate, Cancel, PublicCancel, Delete, PurgeOldBookings | two requests for a slot; checks made before the lock; edits of rows that moved, were cancelled or deleted |
| Bookings, computed status and minutes (`models/helpers.go`, `utils/helpers.go`) | `bookings.minutes_*`, the clock | SetMinutesOfMeetingFile, GetMinutesFile, ComputeBookingStatus | the upload window closes, or the booking is cancelled, between check and write |
| Retention job (`main.go`) | - | purge at start and daily | runs beside everything else |
| Rooms (`models/room_model.go`) | `rooms` table | Save, Delete | a room closes while it is being booked |
| Users and registration (`models/user_model.go`, `controllers/user_controller.go`, `registration_controller.go`) | `users` table: status, confirm token, device token | invite, confirm, register, approve, reject, revoke, restore, update, delete, remember a device | single-use tokens consumed by two statements; promotion to admin in several statements; status overwritten unseen |
| Admins, login, sessions (`models/admin_model.go`, `controllers/auth_controller.go`, `admin_controller.go`, `helpers.go`, `session/store.go`) | `admins`, `sessions` tables | login, logout, lock, unlock, revoke, restore, change and reset password, create, update, delete | a session created from a row read before a revocation; a lock written over a revocation |
| In-memory stores (`session/*_store.go`) | attempts, one-time codes, reset tokens | record, create, verify, consume, expire | expiry, retries, several codes outstanding, loss at a restart |
| Audit (`models/audit_model.go`) | `audit_logs` table | record, list by page | pages by offset over a list growing at its head |
| Database (`database/`) | schema, pool | connect, migrate | the pool limit; soft deletion, which every query must remember; a migration without a transaction that runs again on every start |
| HTTP (`routes/`, `controllers/security.go`, `helpers.go`) | - | routing, headers, session gate | stateless but for the gate |
| Mail, captcha, provisioning (`utils/`) | - | outside I/O | mails sent one by one, before the answer or from a goroutine that outlives it |
| Front end (`view/`) | browser pages | calls the API | the server relies on none of its checks |

The components meet in the database and in one process. `BookingModel.Save` reads the users, admins and
rooms tables before it locks; promotion moves a person from `users` to `admins`;
revoking an admin deletes rows of `sessions`; a reset link minted in memory is applied to the
`admins` table that admin management and the migration write too; every handler records in `audit_logs`
after its own statement; and a stop of the process takes the stores, the requests and the mails of all
components at once.

What makes each correct: no two occupied slots of a room overlap, deleted bookings stay
deleted, and a booking needs an active owner and an open room; a revoked or
deleted admin has no session, and a lock is not an unlock; a code or a link works once, and a guess at a
code is counted; those invited hear of a cancellation; minutes belong to meetings that were held; the audit
trail tells what happened and nothing else, and every entry is found on some page; the server
starts on any database it can have left.

## Modules

    BookingRules     the row, the overlap rule, the computed status
      BookingLedger  abstract: the table as one-step operations
      BookingSlots   detailed: requests statement by statement
        MCBookingSlots       instances for TLC
        BookingSlots_proofs  theorems
    AdminSessions    login, lockout, sessions, managing admins
      MCAdminSessions        instances for TLC
      AdminSessions_proofs   theorems
    Membership       abstract: who may book, by whose decision
      UserRegistry     detailed: users, invitations, approval; users against admins
        MCUserRegistry       instances for TLC
        UserRegistry_proofs  theorems
    Vouchers         abstract: a store of single-use secrets
    OneTimeCodes     codes by mail, registration, trusted devices; implements Vouchers
      OneTimeCodes_proofs    theorems
    AdminTable       the admins table as resets and the migration share it
      PasswordResets   reset links; implements Vouchers
        PasswordResets_proofs  theorems
      SchemaBoot       the migration and the start of the process
    AuditTrail       the trail and a reader who pages through it
      AuditTrail_proofs      theorems
      BookingDesk      booking handlers around the row: read, write, entry, mails
        BookingDesk_proofs     theorems
    Server           OneTimeCodes, PasswordResets, SchemaBoot and BookingDesk in one process
      MCServer         instances for TLC
      Server_proofs    theorems of the migration and of the composition

**BookingRules** holds what every booking module reads off a row: `Row`, `Overlaps` and
`Blocks` (the two halves of the conflict query), `Live` (`deleted_at IS NULL`) and
`ComputeBookingStatus`. Times are clock units in a day, dates are day numbers; strings
such as "02:30 PM" are normalised before anything decides on them
(`utils.To24HourTime`) and are not modelled. The stored status has three values:
"Booked", "Cancelled", and "cancelled", which stands for any client-supplied spelling
the conflict query takes for occupied but `ComputeBookingStatus` takes for cancelled
(the table has no CHECK constraint and `Save` writes what it is given).

**BookingLedger** says what the table promises. `Place` makes, moves or revives a
booking in one step, onto a slot that is free; `Resize` changes an end time; `Release`
cancels; `Remove` deletes softly. `stale` is a history variable: the bookings whose
end was last written by an owner's edit that had been checked against another slot.

**BookingSlots** is the code. Each element of `Requests` is a goroutine inside `Save`
or `PublicUpdate`; `pc[r]` names the statement it executes next:

    idle -> user -> super -> room -> begin -> lock -> check -> write -> commit -> idle

| state or action | code |
|---|---|
| `booking` | the table, committed values only |
| `arg[r]` | the request, and for PublicUpdate the row it read |
| `SaveStart` | Save steps 1 to 6; an invalid request changes nothing and is no step |
| `ReadUser`, `ReadSuperAdmin`, `ReadRoom` | steps 7 to 9, a pool connection each |
| `PublicUpdateRead` | PublicUpdate up to its lock |
| `BeginTx`, `TakeLock` | `withRoomDateLock`: a connection, then `pg_advisory_xact_lock` |
| `CheckConflict` | the EXISTS query, on committed rows |
| `Insert`, `Update` | the write; `Update` waits for the row lock |
| `SaveCommit`, `PublicUpdateCommit` | the row becomes visible, the locks are released |
| `Fail` | any statement returns an error; the transaction is rolled back |
| `Cancel`, `PublicCancel`, `Delete`, `PurgeOldBookings` | single UPDATE statements |
| `ActivateUser` ... `CloseRoom` | handlers elsewhere, as Save sees them |
| `Tick`, `Crash` | the clock; the process dies and every transaction with it |

`Critical` are the stages that hold the advisory lock, `InTx` those that hold a
connection. `Ready(r)` is what every statement's guard has in common: before the transaction it
waits for a pool connection, in it for a lock at most (`NoRowFor(r)` is the write that meets no row and
therefore no row lock). `barred[r]` is a history variable: which of the three reasons to refuse a
Save has held at every moment since the request came.

Two simplifications: the advisory lock's key is the slot itself (a hash collision only
makes a request wait longer), and a Save that names its room by name has already
resolved it when `SaveStart` happens.

**AdminSessions** is login and the handlers that manage admins. A session is a snapshot of
the admin's row; nothing compares the two again, so revoking, deleting, re-roling or
resetting an admin must delete its sessions, in a second statement. Requests run

    login:  idle -> row -> verify -> create            (a failure: miss -> setlocked)
    manage: idle -> [before] -> [me] -> write -> [kick | clear] -> idle

where `before` reads the target's row, `me` is the handler's own second read of its
session, and `kick` is `DeleteByAdminID`. Each `op` visits the stages its handler has
(`FirstStage`).

| state or action | code |
|---|---|
| `admin`, `session` | the tables; `temp` is `must_reset_password` |
| `failures` | `AttemptStore`, in memory, per username; it stops counting at its limit |
| `LoginStart` ... `CreateSession` | `Login` and `recordFailedLoginAttempt` |
| `Gate` | `requireAdminSession` and its role variants |
| `ReadBefore`, `ReadMe` | `GetByID` / `GetByUsername`, `getSession` (which takes a failed read for no session) |
| `Update`, `ChangeStatus`, `Delete`, `ResetAdminPassword`, `ChangeOwnPassword` | the handlers' writes; `Delete` also serves the demotion of `UpdateUser` |
| `Kick`, `ClearMustReset`, `ClearFailures` | what follows the write |
| `Create`, `ResetByToken`, `EndSession`, `Forget` | account creation, a reset by mailed token, logout or expiry, eviction of a counter |
| `Restart` | memory is lost, requests are cut off, the migration seeds its super admin if no live row has the name |

Passwords are not values: a login's password is wrong or right, by choice. Two history variables say
why a session may disagree with its row: `overtaken` (the row changed while the login was on its way)
and `lapsed` (the deletion of sessions failed, was cut off by a restart, or was skipped because
`UpdateAdmin` had read an outdated role).

**UserRegistry** is the `users` table beside the `admins` table, as the two constrain each
other: an address has at most one live row in each (the partial unique indexes), a general admin may
have a users row, a super admin may not. Only addresses tie them, and no statement touches both, so every
handler that must keep them apart does so in a later statement. Requests run

    confirm:  idle -> burn -> activate | insert -> sync -> idle
    promote:  idle -> insert -> sync -> idle           (approval with an admin role)
    update:   idle -> lookup -> [insert -> sync | delete] -> idle
    create:   idle -> insert -> [remove] -> idle       (Admins page, as are the next two)
    setrole:  idle -> write -> [remove] -> idle
    deladmin: idle -> delete -> remove -> idle

| state or action | code |
|---|---|
| `user`, `account` | the tables; `token` is `confirm_token` with its expiry |
| `Register`, `Invite` | `UserModel.Register` (the end of `VerifyRegistrationOTP`), `UserModel.Create` |
| `LetIn`, `Bar` | approve as a normal user or restore; reject or revoke: one UPDATE each |
| `ReadLink`, `Burn`, `Activate` | `ConsumeConfirmToken`'s SELECT and UPDATE, then `ConfirmRegistration` |
| `Promote`, `UpdateUser`, `Lookup` | `approveUser`, `UpdateUser` and what it finds out about the address |
| `InsertAdmin`, `Sync` | `createAdminFromApproval` (or `Create`), then the users row deleted or activated by id |
| `ReadAccount`, `WriteRole`, `DeleteAccount`, `Remove` | `UpdateAdmin`, `DeleteAdmin`, and `RemoveNormalUserAccess` by address |
| `DeleteUser`, `Expire`, `Fail`, `Restart` | deletion; seven days; a failed statement; requests cut off and the migration's seed |

Which session asks is not modelled: whatever role may be granted by somebody is granted. Three history
variables: `vetted` are the users an admin has decided on, `open` the users who were barred while a link of
theirs was unused or being followed, and `overlooked` the users left beside a super admin for a reason the code
shows: they came to an address that had one already, their removal failed, was cut off or was aimed at the
id of a user who had moved, an update had read an outdated role, or the migration seeded
the admin. Each of these reasons is needed: without it TLC finds the property violated.

**Membership** says what all this promises about who may book, with no admins table, no statements and no failures.
A decision on its way holds a ticket: `link[t]` is the user whose link is being followed, `word[t]` the user an admin is
promoting. `Take` starts one, `Admit` acts on it, and every other step may only drop tickets. The refinement
reads both off the requests (`Link`, `Word`), so that a request which dies between two statements is a dropped ticket.

**Vouchers** says what a store of single-use secrets promises: a voucher is issued once, to one holder; it
is spent at most once and only while it is good; and what has lapsed stays worthless. `OnePerHolder` says whether
a new voucher replaces its holder's older one. `OTPStore` and `ResetStore` are both such stores, and
differ in exactly that: `CodesAreVouchers` instantiates it TRUE, `LinksAreVouchers` FALSE.

**OneTimeCodes** is the registration controller around `OTPStore`, with the `users` table as it sees it.
A request runs

    send:    idle -> create -> mail -> idle
    verify:  idle -> register | find -> remember -> idle

and a trusted-device token is named by the code it was won with, so that a device can be followed back to the
address its code was mailed to.

| state or action | code |
|---|---|
| `otp` | `OTPStore.codes`: per address the code, its attempts, whether the ten minutes are over |
| `SendRegistrationOTP`, `SendAccessVerificationOTP` | the handlers up to the store; the first takes a failed lookup for an unknown address |
| `Create`, `SendOTPEmail` | `OTPStore.Create`, the mail before the answer |
| `VerifyRegistrationOTP`, `VerifyAccessOTP` | `Verify` under its mutex: expiry, attempts, one use |
| `Register`, `FindActive`, `RememberDevice`, `FailVisit` | `UserModel.Register`, `GetByEmail`, `SetDeviceToken` or `ClearDeviceToken`, a failed statement |
| `Invite`, `SetStatus`, `Readdress`, `DeletePerson`, `DeviceExpires` | what admins and ninety days do to the row meanwhile |
| `CodeExpires`, `CleanupCodes`, `CodesRestart` | ten minutes, `cleanupLoop`, the loss of the store |

**AdminTable** is the `admins` table with both its unique indexes on live rows: an admin is created with the
address as username, and an edit changes the address and leaves the username. **PasswordResets** puts
`ForgotPassword`, `ResetStore.Create`, `ResetStore.Consume` and `ApplyPasswordReset` on top (`form[f].step` is "create"
between the first two, "apply" between the last two). `mintedFor`, `consumed`, `applied` and `dropped` are history:
whom a link was generated for, which links were accepted, took effect, or were lost with a failed
statement or the process. A password is the link it was set by.

**SchemaBoot** is `Connect`, `migrate` and `main`. `Migration` is the list of statements, in the order of
connection.go (the line numbers stand beside them; neighbours of one kind count as one); each names the object it
creates or drops and the objects it needs. The database is a set of objects, an old `login_locked` column (`flagged`), old
'approved' statuses (`approved`) and the admins. `BootInit` is a fresh database, or one of two older
versions. The process may stop before any statement, and starts again on what is there.

**AuditTrail** is `AuditModel.Record` and `List`. `stamp[e]` is `created_at`; a row may become visible after a
newer one, or share its time. `List` is two statements, `Count` and `Select`; the reader asks for page after page, or for
everything at once (the export), while handlers record.

**BookingDesk** is what BookingSlots leaves out of a booking handler. A request is a *ticket*:

    create:  [Save] -> confirm (mails) -> audit -> done
    update:  [Save] -> audit -> done
    edit, delete:  read -> write -> audit -> done
    cancel:  read -> write -> audit -> done (mails go on)
    minutes: read -> write -> audit -> refetch -> done (mails go on)

| state or action | code |
|---|---|
| `meeting` | the row: owner, participants, stored status, what the clock says of its slot, minutes (named by the upload) |
| `ticket[t]` | a request, its stage and the row it read |
| `CreateBooking`, `UpdateBooking` | the handlers up to `Save`'s commit (the slot rules are BookingSlots') |
| `ReadRow`, `ReadFails` | `GetFullByID`, or PublicUpdate's and SetMinutesOfMeetingFile's own SELECT with its checks; cancel and delete ignore the failure |
| `WriteEdit`, `WriteCancel`, `WriteDelete`, `WriteMinutes`, `FailWrite` | the UPDATE, by id |
| `RecordAct`, `RecordFails` | `audit` or `auditPublic`, whose failure is only logged |
| `todo`, `SendTo`, `SendFails`, `Confirmed` | `notifyRecipients`, one recipient after the other |
| `MeetingTick`, `DeskRestart` | the start, the end and a day more; the process stops and forgets unsent mails |

History variables say what no one can hold against a handler: `outrun` (the row changed after the ticket read
it), `lost` (a read, an entry, a mail or the process failed), and remember what the properties compare: `acted`,
`invited`, `told`, `sure`.

**Server** composes them: nothing is served before the migration is through (`Serving`), a stop hits every
component in one step (`Stops`), the `admins` table is shared by the migration, admin management and the resets, and the
trail by all handlers and its reader. Its `ServerFairness` is the fairness of the whole.

## Checks

`tlc -workers 2 -config X.cfg MCBookingSlots` (slots), `MCAdminSessions` (admin), `MCUserRegistry` (users) or
`MCServer` (server, boot)

| run | question | result |
|---|---|---|
| `slots_race` | Two requests save, move and edit two bookings in two rooms on one day, with cancellations, failures and crashes. Do slots collide, does an edit revive a cancelled booking, does the table refine `BookingLedger`? | passes: `OverlapOnlyByStaleEdit`, `ForwardUnlessStale`, `OnlySaveRevives`, `LedgerSpec` |
| `slots_standing` | One booking, two users, everything that may change under a request: users, super admins, the room, the clock, deletion, purge. | passes: `TypeOK`, `AdmittedWhileEligible`, `SoftDeleteIsFinal` |
| `slots_live` | Three requests, two connections, fair scheduling. Can someone always move, and does every request end? | passes: `NoGridlock`, `RequestsFinish` |
| `slots_double` | Does the lock keep two bookings from sharing a slot, as its comment says? | violated: `NoDoubleBooking` |
| `admin_roles` | Two admins, two sessions, two requests: role changes, demotions, account creation, restarts. Do sessions follow the rows? | passes: `TypeOK`, `SessionsFollowRows` |
| `admin_lockout` | One account under every login outcome, locks, revocation, restoration, password resets and restarts. | passes: `SessionsFollowRows`, `LockOutlivesRestart`, `RevocationOutlivesLogins` |
| `admin_unlock` | Is ending a revocation reserved to super admins, as the comment in `ToggleAdminStatus` says? | violated: `OnlyRestoreEndsRevocation` |
| `users_roles` | Two users, two accounts, two addresses: moves, promotions, demotions, role changes, restarts. Does a super admin ever have a users row? | passes: `TypeOK`, `SuperAdminsDoNotBook` |
| `users_links` | Two clicks on a user's link race approval, rejection, revocation, promotion and deletion. Who gets in, and who stays out? | passes: `ActiveUsersAreVetted`, `BarredStayOut`, `MembershipSpec` |
| `server_parts` | One process, from a fresh or an older database through migration, service, crashes and reboots. Do the stores keep the promise of `Vouchers`, do trail, mails and minutes agree with the bookings, do boots end and are requests served? | passes: `ServerTypeOK`, `GuessesBounded`, `TrustIsVouched`, `SpentLinksTakeEffect`, `BootFailsOnlyOnSeedAddress`, `EveryEntryReachable`, `CancellationReachesInvited`, `TrailMatchesActs`, `MinutesOfHeldMeetings`, `CodesAreVouchers`, `LinksAreVouchers`, `ExpiredCodesLeave`, `ExpiredLinksLeave`, `BootKeepsStanding`, `BootEnds`, `RequestsAreServed` |
| `boot_seed` | Does the migration go through on every start, as its comment says? | violated: `MigrateIsRepeatable` |
| `admin_selfdelete` | Can an admin not delete its own account, as the comment on `DeleteAdmin` says? | violated: `NoSelfDelete` |

All runs switch the deadlock check off: a bounded instance ends when its ids are used
up, its requests have failed and its clock stands at `MaxNow`.

**Bounds.** Two requests are enough for the lock, because every violation of exclusion
is one of a pair; three requests and a pool of two make the pool the scarce
resource in `slots_live` (a statement that needed a second connection inside the lock
would then block). Two rooms let an edit race a move to another slot. Three times give
slots that touch, nest and coincide. `Bookings` bounds the ids the sequence hands out: `SaveStart`
admits an insert only while an id is left. `MaxNow` bounds the clock; in
`slots_standing` four ticks carry it past the booking and, with `RetentionDays` 0, into
the next day, so that the purge has something to do. `Ops`, `StatusInputs` and
`Unsettled` let a run leave out operations its question does not need.

In the admin runs, two session ids let a manager and its target be logged in at once, two requests let
a login or a second manager come between a read and a write, and one id of `Admins` beyond
the seeded one is enough to be managed, demoted or seeded again. `Usernames` is a single name in `admin_lockout`,
where two failures lock (`MaxLoginAttempts` 2; the code's 3 adds a step, no case), so that the counter is
seen at zero, between and at its limit. No run admits
every handler at once: `admin_roles` has those that make one admin act on another, `admin_lockout`
those about one account.

In `users_roles` two users let one move away from an address and another come to it while a promotion aims at the
first; two accounts let the seeded one go and another come. `users_links` needs one user, two clicks and a promotion: its
properties are about one row. `MCUserRegistry` states which elements are interchangeable (requests, and users where
there are two); accounts and addresses are not, since one of each is the seed's.

`server_parts` explores a *sum* of small instances, not their product: a code that is entered while somebody
cancels a meeting teaches nothing. A behaviour draws a `scope`, the set of ids and features it may use,
from `AllScopes`, and `InScope` keeps it there. The ten scopes:

| scope | what it has room for |
|---|---|
| `ReplacedCodes` | two codes for one address, two requests: replacement, expiry, two wrong answers, use of the old code |
| `MovedUsers`, `DeletedUsers` | an address passes to another user, or a user to another address, before, between and after the steps that tie code, user and device |
| `LostCodes`, `LostLinks` | a stop of the process at every stage |
| `RacingLinks` | two links, two requests, and an admin managed in between |
| `Upgrades` | an older database with a locked account, two crashes anywhere, three ids of admins, two addresses |
| `RacingTickets` | two requests of any kind on one booking |
| `LostTickets` | one request with a second person, the clock and a crash |
| `Readers` | three entries and pages of two: recorded before, between and after the count and the rows |

Two attempts at a code (`OTPMaxAttempts` 2; the code's 3 adds steps, no case) show the counter at zero, between and
at its limit. Two tickets are enough for `outrun`, which one other writer causes; three entries are
the least with which a page is full and another is not. `MaxCrashes` is two because a second boot may be interrupted on what the
first had left. `InOrder` names ids in the order of their first use, which leaves out
renamings only.

**Fairness.** In `server_parts`: the boot goes on (each statement returns, and the platform starts a process that ended in
`log.Fatal` again), the five-minute tickers of both stores fire, and every request and every mail goroutine takes its next
step. The last includes that the mail service answers or fails each call: `http.DefaultClient` has no timeout, so without
it a creation would wait for ever, and `RequestsAreServed` does not hold. `RequestsFinish` assumes weak fairness for steps that wait for nothing (a
goroutine is scheduled again) and strong fairness for steps that wait for a
connection, an advisory lock or a row lock: `database/sql` serves connection requests
first come first served, and Postgres queues lock waiters, so no waiter is passed over for ever.
Nothing is assumed of arrivals, failures, crashes or the clock.

**The disagreements.** `slots_double`: an owner opens an edit of a booking
(PublicUpdate reads room, date and start, booking_model.go:429), an admin moves the booking,
somebody books the slot next to the new place, and the edit, having locked and checked the *old*
slot, writes its end time by id (line 482) onto the *new* one. `OverlapOnlyByStaleEdit` and
`LedgerSpec` show that this is the only way. `boot_seed`: the seed's
INSERT (connection.go:119) has `ON CONFLICT(username)` only, but live addresses are unique too (line 113): when the
seed account has been deleted and its address given to another admin, no start succeeds any more; `BootFailsOnlyOnSeedAddress`
and `BootEnds` show that this is the only way. `admin_unlock`:
`SetStatus(id, "active")` at admin_controller.go:213 does not look at the status it replaces.
`admin_selfdelete`: the guard at admin_controller.go:276 compares the id with the zero
session when the second read finds none.

## Proofs

`tlapm BookingSlots_proofs.tla` checks, for any number of requests, bookings, users, rooms,
dates and times and any pool size, from `RulesAssumption` and `SlotsAssumption` alone:

| theorem | of |
|---|---|
| `TypeCorrect` | `TypeOK` |
| `SlotInvariance` | `SlotInv`, the inductive invariant |
| `OverlapSafety` | `OverlapOnlyByStaleEdit` |
| `ForwardSafety` | `ForwardUnlessStale` |
| `SoftDeleteSafety` | `SoftDeleteIsFinal` |
| `RevivalSafety` | `OnlySaveRevives` |
| `LedgerRefinement` | `LedgerSpec`: every step is a ledger step or a stutter |
| `EligibilitySafety` | `AdmittedWhileEligible` |
| `GridlockFreedom` | `NoGridlock` |
| `SerializedSafety` | `[]OneEditorPerBooking => []NoDoubleBooking` |

`OverlapOnlyByStaleEdit` is not inductive: a commit preserves it only because the slot the
request checked is still free. So `SlotInv` adds `CheckedSlotStaysFree` (from
"write" on, the request's slot collides with no occupied slot but stale ones), and that is preserved
because another request that could commit into the slot would hold the same
advisory lock, which `LockExclusion` forbids, and because cancelling and deleting only
free slots. `ForwardArgs` and `EditsHaveRows` carry what the first checks established to the
commit. The refinement reads the ledger's `Place`, `Resize`, `Release` and `Remove` off the committing
steps and takes its guard from `CheckedSlotStaysFree`. Eligibility has an
invariant of its own: what is still in `barred[r]` is true now, and a check that has been
passed has left `barred[r]`.

`GridlockFreedom` is the safety half of `RequestsFinish`, for a pool of any size. Resources are taken in one order
(connection, advisory lock, row lock), so the request that is furthest along waits for nobody: a commit or a check needs nothing
more, without a commit under way no row is locked, without a holder the advisory lock is free, and with nobody in a transaction every
connection is. `Ready` says when a statement would not wait, and is a guard of each of them. `SerializedSafety` closes the gap of
`slots_double` from the other side: the comment on the lock is true of every behaviour in which nobody saves a booking as a
whole while its owner edits its end (`OneEditorPerBooking`), because then the slot an edit has locked is still its booking's (`EditsAreCurrent`) and
`stale` stays empty.

`tlapm AdminSessions_proofs.tla` checks, for any admins, usernames, session ids and requests, any
failure limit and any choice of `Ops`, from `SessionsAssumption` alone:

| theorem | of |
|---|---|
| `SessionInvariance` | `SessionInv`, the inductive invariant |
| `TypeCorrect` | `TypeOK` |
| `SessionSafety` | `SessionsFollowRows` |
| `LockSafety` | `LockOutlivesRestart` |
| `RevocationSafety` | `RevocationOutlivesLogins` |
| `RestoreSafety` | `[][~UnlocksRevoked]_vars => OnlyRestoreEndsRevocation` |
| `DemotionSafety` | `[][~PromotesDemoted]_vars => DemotionSparesSuperAdmins` |

Here the argument follows the debt an admin row owes its sessions: a write either suits every
session that suited the old row, or leaves the admin *due* (in `lapsed`, or with a `Kick` pending),
and nothing but the deletion of its sessions ends that (`RowStep`, `DueStays`). New sessions start out right
because of what a login still knows of the row it read: `RequestsHoldRows` says it was neither deleted, locked nor, past
the password, revoked. The delicate step is `ClearMustReset`, which takes a restriction *off* a
session: it is safe because the cookie of a password change is its target's own session (`OwnCookie`, which holds
because a session id is never handed out twice) and because any temporary password set since the first write
has left the admin due (`ClearIsDue`).

The last three are about who may take or give back access. `ColumnStep` reduces every step to the few statements that write a
status, a role or `deleted_at`; `RevocationSafety` needs beside it that only a login whose row was active comes to
`SetLocked` (in `RequestsHoldRows`). `RestoreSafety` and `DemotionSafety` each name the one step that
would break the comment they are about: an unlock of a revoked account (the run `admin_unlock`), and a promotion of an admin whose
demotion has read its role (user_controller.go:203 reads, line 212 deletes by id; "super_admin can't be removed this way", says line
199). Without that step the comment is true: from its read to its write a demotion's target is a general admin
(`DemotesGeneral`), since nothing but an update changes a role.

`tlapm UserRegistry_proofs.tla` checks, for any users, accounts, addresses, requests and choice of `Ops`, from
`RegistryAssumption` alone:

| theorem | of |
|---|---|
| `RegistryInvariance` | `RegistryInv`, the inductive invariant |
| `TypeCorrect` | `TypeOK` |
| `VettedSafety` | `ActiveUsersAreVetted` |
| `BarredSafety` | `BarredStayOut` |
| `ExclusiveSafety` | `SuperAdminsDoNotBook` |
| `MembershipRefinement` | `MembershipSpec`: every step is a step of `Membership` or a stutter |

`RegistryInv` says what a request holds at each stage (`Fits`): the rows it found have not vanished, the account it will
write still has the address it read, and the user it is about to activate was vetted and, if it came by a link,
not barred since, unless the user is in `open`. `RowsFit` is the other half: a link is only ever held by a vetted user, and rejection or revocation of a
user outside `open` finds no link. Every step keeps what *other* requests hold (`Kept`), which is proved once
(`OthersFit`, `EnterFits`, `ReturnFits`). `SuperAdminsDoNotBook` is inductive beside it: `Covered` reduces each step to whom it
puts beside a super admin, and to whom a request that moves on leaves uncleared. The refinement shows of each statement what becomes of its
request's ticket (`TicketKept`, `TicketDropped`, `TakeStep`) and takes the guards of `Admit` from `Fits`. It is checked by TLC for one
user and proved for any number.

`tlapm OneTimeCodes_proofs.tla`, for any users, addresses, codes, requests and attempt limit, from `CodesAssumption`:

| theorem | of |
|---|---|
| `CodesInvariance` | `CodesInv`, the inductive invariant |
| `CodesTypeCorrect` | `CodesTypeOK` |
| `GuessSafety` | `GuessesBounded` |
| `TrustSafety` | `TrustIsVouched` |
| `CodesRefinement` | `CodesAreVouchers` |

A code ties three tables that never meet in one step, so `CodesInv` follows it: `StoreSound` (what is in the store was
sent to this address, is not redeemed, and has as many attempts as there were wrong answers), `VisitsSound` (a request past `Verify` holds
a redeemed code of its address and, once it has found a user, one who had that address or was moved) and `DevicesSound` (the same of
the device in the row).

`tlapm PasswordResets_proofs.tla`, from `StaffAssumption` and `LinksAssumption`, and whatever else writes the admins table
(`LinksSpec` leaves it free):

| theorem | of |
|---|---|
| `LinksInvariance` | `LinksInv`, the inductive invariant |
| `LinkEffectSafety` | `SpentLinksTakeEffect` |
| `LinkOwnerSafety` | a password is about to be set only for the admin its link was minted for |
| `LinksRefinement` | `LinksAreVouchers` |

`tlapm BookingDesk_proofs.tla`, for any bookings, people, requests and entries, from `DeskAssumption`:

| theorem | of |
|---|---|
| `DeskInvariance` | `DeskInv`, the inductive invariant |
| `DeskTypeCorrect` | `DeskTypeOK` |
| `CancellationSafety` | `CancellationReachesInvited` |
| `TrailSafety` | `TrailMatchesActs` |
| `MinutesSafety` | `MinutesOfHeldMeetings` |

None of the three properties is inductive: each compares the end of a request with the row at its beginning. `WriteSound` says
what a ticket at its statement still knows (the row it read is there and, unless it is in `outrun`, names the same people and, for
minutes, a held meeting), `ActSound` that only tickets that wrote come to be recorded, `MailSound` whom a cancellation's
mails have reached and still will. `Writes` puts every other ticket past its read into `outrun`, which is why a step of one ticket keeps
what is known of the others (`Bystander`); `LocalStep` and `WriteStep` use it once for all actions.

`tlapm AuditTrail_proofs.tla`, for any entries, times and page size, from `TrailAssumption`:

| theorem | of |
|---|---|
| `TrailInvariance` | `TrailInv`, the inductive invariant |
| `PagingSafety` | `EveryEntryReachable` |

The property speaks of a reader who is done; the invariant speaks of one who is not. `Depth(e)` counts the rows that are not older than
`e`, and whatever order the database gives to rows of one time, an entry that shares its time with no other stands at
position `Depth(e)` of the list (`UntiedPosition`, by counting the rows before it). Entries only get deeper, because rows are only added
(`RecordDeepens`). So whatever the reader has not received lies below the offset of the page it will ask for next (`ReaderSound`), and on the last page,
which ends beyond the count, nothing can lie below: unless the entry is tied, or a row came between the count and the rows of that answer
(`Excused`).

`tlapm Server_proofs.tla` first proves of SchemaBoot, from `StaffAssumption` and `BootAssumption`, that every step of the boot keeps `BootInv`: at each
statement the schema has what it needs (`Progress`), the old flags are gone once the server has served, and a failed boot is
explained. Then it puts the parts together, from the assumptions of all of them and `ServerAssumption`:

| theorem | of |
|---|---|
| `ServerRunsCodes`, `ServerRunsLinks`, `ServerRunsDesk`, `ServerRunsTrail` | the composition implements the specification of each component |
| `ServerSafety` | `GuessesBounded`, `TrustIsVouched`, `SpentLinksTakeEffect`, `CancellationReachesInvited`, `TrailMatchesActs`, `MinutesOfHeldMeetings`, `EveryEntryReachable` |
| `ServerStores` | `CodesAreVouchers`, `LinksAreVouchers` |
| `BootInvariance`, `BootSafety` | `BootInv`, `BootFailsOnlyOnSeedAddress` |
| `StandingSafety` | `BootKeepsStanding` |
| `AccountSafety` | the admins table is well typed, and links and forms are for accounts that have a row |
| `ServerTypeCorrect` | `ServerTypeOK` |

Each step of the server is a step of a component or leaves its variables alone, so the component's theorems carry over. What
no component can show alone is proved here: the boot's invariant while admins are managed and passwords reset, and `AccountsThere`, which ties the
links in memory to the rows of a table that others write.

Only model-checked: `RequestsFinish`, `BootEnds`, `RequestsAreServed`, `ExpiredCodesLeave` and `ExpiredLinksLeave`: liveness under
fairness is out of the prover's reach. Every invariant and every action property of a passing run is proved. What the violation runs
refute has of course no proof; `SerializedSafety` and `RestoreSafety` say under which condition two of these claims hold, and `BootSafety` what else a boot
could fail on: nothing.

## Plan

1. *done* BookingRules, BookingLedger, BookingSlots, their runs and proofs.
2. *done* AdminSessions, its runs and proofs.
3. *done* UserRegistry, its runs and proofs.
4. *done* Vouchers, OneTimeCodes and PasswordResets, with their refinements and proofs.
5. *done* BookingDesk (minutes, mails, entries) over AuditTrail, with its proofs.
6. *done* SchemaBoot, and Server as the composition, with their proofs.
7. *done* Proofs of `EveryEntryReachable` and `NoGridlock`, Membership as the abstract specification of UserRegistry, and the conditions
   under which refuted comments hold.
8. Open: an abstract specification of sessions for AdminSessions; names and capacity of rooms.

## Not modelled

HTTP parsing, cookies and headers, mail texts, captcha, password hashing and random generation keep no state. The browser pages
are left out because the server relies on none of their checks. Purpose and agenda of a booking, names
and phones of people, and capacity and location of rooms are data no decision reads; the unique name of a live room is one
statement guarded by one index. Filters of the lists narrow rows and change nothing. Formats of times and
dates (`utils.To24HourTime`, `NormalizeRoomStatus` and the like) are applied before anything decides on the value, and are abstracted to the normalised
value. `BookingSlots`, `AdminSessions` and `UserRegistry` are not part of `Server`: they have a process and a
restart of their own, because the product with them is beyond a bounded check, and what they share with the parts
of `Server` (rows of users and admins) appears there as free changes of those rows.

Some behaviour the models show is stated by no property. An admin may change its own role if its session ends, or was outdated, when
`UpdateAdmin` reads it for the second time (admin_model.go:226 compares with that read). Of the rest the source promises neither side: a reset by link leaves the admin's
sessions alive and older links good; an edit of a booking that was cancelled in the meantime is still written; revoking a user
between `Save`'s read (booking_model.go:155) and its commit lets that booking through, though the comment at user_controller.go:382
speaks of blocking new bookings at once (`AdmittedWhileEligible` says what does hold: the reason to refuse has not
stood for the whole request).

------------------------------- MODULE Server -------------------------------
(* One process and its database: the migration brings the server up, then    *)
(* the handlers of every component serve next to each other, and when the    *)
(* process stops it takes the in-memory stores, the requests and the mail    *)
(* goroutines of all of them along and boots anew on what the database kept. *)
(* The admins table is shared by the migration, admin management and the     *)
(* password resets, the audit trail by all handlers and its reader.          *)
EXTENDS OneTimeCodes, PasswordResets, SchemaBoot, BookingDesk

CONSTANTS Host, Guest   \* the booking an older database may hold

ASSUME ServerAssumption == Host \in People /\ Guest \in People

serverVars == <<codesVars, staff, linksVars, bootVars, trailVars, deskVars>>

ServerInit ==
  /\ CodesInit /\ LinksInit /\ BootInit /\ TrailInit /\ DeskInit(Host, {Guest})
  /\ schema = {} => \A m \in Meetings : meeting[m] = Null

Serving == phase = "serving" /\ UNCHANGED bootVars

ServeCodes == Serving /\ CodesStep /\ UNCHANGED <<staff, linksVars, trailVars, deskVars>>
ServeLinks == Serving /\ LinksStep /\ UNCHANGED <<codesVars, trailVars, deskVars>>
ServeDesk == Serving /\ DeskStep /\ UNCHANGED <<codesVars, staff, linksVars>>
ServeStaff == StaffWork /\ UNCHANGED <<codesVars, linksVars, trailVars, deskVars>>

(* The trail, with the entries of the handlers that are not modelled one by  *)
(* one, and its reader.                                                      *)
ServeTrail == Serving /\ TrailBeside /\ UNCHANGED <<codesVars, staff, linksVars>>

Booting == BootStep /\ UNCHANGED <<codesVars, linksVars, trailVars, deskVars>>

Stops == Crash /\ CodesRestart /\ LinksRestart /\ DeskRestart

ServerNext ==
  \/ ServeCodes \/ ServeLinks \/ ServeDesk \/ ServeTrail \/ ServeStaff
  \/ Booting \/ Stops

(* Steps that happen by themselves.                                          *)
SweepCodes == Serving /\ CleanupCodes /\ UNCHANGED <<staff, linksVars, trailVars, deskVars>>
SweepLinks == Serving /\ CleanupLinks /\ UNCHANGED <<codesVars, trailVars, deskVars>>
Advance(t) == Serving /\ Serve(t) /\ UNCHANGED <<codesVars, staff, linksVars>>
Deliver(t) == Serving /\ Mail(t) /\ UNCHANGED <<codesVars, staff, linksVars>>

(* The boot goes on, the tickers of the stores fire, every request takes its *)
(* next step, and the mail service answers every call.                       *)
ServerFairness ==
  /\ WF_serverVars(Booting)
  /\ WF_serverVars(SweepCodes) /\ WF_serverVars(SweepLinks)
  /\ \A t \in Tickets : WF_serverVars(Advance(t)) /\ WF_serverVars(Deliver(t))

ServerSpec == ServerInit /\ [][ServerNext]_serverVars /\ ServerFairness

(* Every component keeps its types while the others work on the tables and   *)
(* the trail they share.                                                     *)
ServerTypeOK == /\ CodesTypeOK /\ StaffTypeOK /\ LinksTypeOK
                /\ BootTypeOK /\ TrailTypeOK /\ DeskTypeOK
=============================================================================

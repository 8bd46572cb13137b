------------------------------ MODULE MCServer ------------------------------
(* Small instances of Server for TLC.  Nothing interesting comes of a code   *)
(* being entered while somebody cancels a meeting, so one run explores a sum *)
(* of instances and not their product: a behaviour has a scope, the set of   *)
(* things it may use, drawn at the start from the cfg's Scopes.              *)
EXTENDS Server

CONSTANTS
  Scopes,   \* the instances of the run
  u1, u2, e1, e2, c1, c2, v1, v2,   \* persons, addresses, codes, visits
  l1, l2, f1, f2,                   \* links, forms
  seed, mail,                       \* addresses of admins
  m1, p1, p2, t1, t2,               \* a meeting, people, tickets
  x1, x2, x3,                       \* entries of other handlers
  older, locks,   \* a database of an older version, with a locked account
  crash, again,   \* the process may stop, and a second time
  admins,         \* admins are managed
  clock,          \* meetings begin and end
  browser,        \* somebody reads the trail
  stranger        \* the guest books and asks too

TwoPersons == {u1, u2}
TwoAddresses == {e1, e2}
TwoCodes == {c1, c2}
TwoVisits == {v1, v2}
TwoLinks == {l1, l2}
TwoForms == {f1, f2}
TwoMails == {seed, mail}
ThreeStaff == 1 .. 3
AllSecrets == {l1, l2, Initial}
OneMeeting == {m1}
TwoPeople == {p1, p2}
TwoTickets == {t1, t2}
AllEntries == {t1, t2, x1, x2, x3}

ReplacedCodes == {u1, e1, c1, c2, v1, v2, 1}
MovedUsers == {u1, e1, e2, c1, v1, 1}
DeletedUsers == {u1, u2, e1, c1, v1, 1}
LostCodes == {u1, e1, c1, v1, 1, crash}
RacingLinks == {l1, l2, f1, f2, 1, admins}
LostLinks == {l1, f1, 1, crash}
Upgrades == {older, locks, 1, 2, 3, admins, crash, again}
RacingTickets == {m1, t1, t2, older, 1}
LostTickets == {m1, t1, older, 1, crash, stranger, clock}
Readers == {x1, x2, x3, browser, 1}

AllScopes == {ReplacedCodes, MovedUsers, DeletedUsers, LostCodes, RacingLinks,
              LostLinks, Upgrades, RacingTickets, LostTickets, Readers}
BootScope == {Upgrades}

VARIABLE scope

Has(S) == scope \cap S # {}

Used ==
  {u \in Persons : person[u] # Nil} \cup {v \in Visits : visit[v] # Nil}
  \cup {e \in Addresses : \/ otp[e] # Nil
                          \/ \E u \in Persons : person[u] # Nil /\ person[u].email = e
                          \/ \E v \in Visits : visit[v] # Nil /\ visit[v].email = e}
  \cup {c \in Codes : sentTo[c] # Nil}
  \cup {f \in Forms : form[f] # Empty} \cup {l \in Links : mintedFor[l] # Empty}
  \cup {a \in Staff : staff[a] # Absent}
  \cup {m \in Meetings : meeting[m] # Null} \cup {t \in Tickets : ticket[t] # Null}
  \cup {e \in Entries \ Tickets : stamp[e] # 0}
  \cup {x \in {older} : approved} \cup {x \in {locks} : flagged # {}}
  \cup {x \in {crash} : crashes > 0} \cup {x \in {again} : crashes > 1}

(* The guest is invited; the host books, and so does a guest who is a stranger. *)
Owners == IF stranger \in scope THEN {Host, Guest} ELSE {Host}
Parties ==
  /\ \A m \in Meetings : meeting[m] # Null =>
       meeting[m].parts \subseteq {Guest} /\ meeting[m].owner \in Owners
  /\ \A t \in Tickets : ticket[t] # Null =>
       ticket[t].parts \subseteq {Guest} /\ ticket[t].by \in Owners \cup {Null}

(* Ids are left for the seeds of the boots to come.                          *)
SeedIdsLeft == Cardinality({a \in Staff \cap scope : staff[a] = Absent})
                 >= Cardinality({crash, again} \cap scope) - crashes
                    + (IF WithUsername(SeedMail) = {} /\ phase # "serving" THEN 1 ELSE 0)

(* Ids, codes and tickets are named in the order they come into use, which   *)
(* leaves out behaviours that differ from others in names alone.             *)
InOrder ==
  /\ u2 \in Used => u1 \in Used
  /\ c2 \in Used => c1 \in Used
  /\ l2 \in Used => l1 \in Used
  /\ t2 \in Used => t1 \in Used
  /\ x2 \in Used => x1 \in Used
  /\ x3 \in Used => x2 \in Used

InScope == /\ Used \subseteq scope /\ Parties /\ InOrder
           /\ Has({admins}) => SeedIdsLeft

ClockOnly == ticket' = ticket /\ todo' = todo

MCInit == ServerInit /\ scope \in Scopes /\ InScope

MCStep ==
  \/ Has(Visits) /\ ServeCodes
  \/ Has(Forms) /\ ServeLinks
  \/ Has({admins}) /\ ServeStaff
  \/ Has(Tickets) /\ ServeDesk /\ (Has({clock}) \/ ~ClockOnly)
  \/ Has({browser}) /\ ServeTrail
  \/ Booting
  \/ Has({crash}) /\ Stops

MCNext == MCStep /\ UNCHANGED scope /\ InScope'

MCSpec == MCInit /\ [][MCNext]_<<serverVars, scope>> /\ ServerFairness
=============================================================================

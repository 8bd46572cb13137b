----------------------------- MODULE AuditTrail -----------------------------
(* The append-only audit trail, and a super admin who pages through it while *)
(* handlers go on recording.  An answer is put together from two statements, *)
(* a count and a page of rows; pages are offsets from the newest row, whose  *)
(* time is all they are ordered by.                                          *)
EXTENDS Integers, FiniteSets, Functions

CONSTANTS
  Entries,        \* entries that may be recorded: a bound on the table
  AuditPageSize,
  NoReader        \* nobody is reading

ASSUME TrailAssumption == AuditPageSize \in Nat \ {0} /\ IsFiniteSet(Entries)

VARIABLES
  stamp,   \* audit_logs: entry -> created_at, 0 while there is no row
  reader   \* the browser that pages through the list

trailVars == <<stamp, reader>>

Recorded == {e \in Entries : stamp[e] # 0}

Reader == [page: Nat,              \* asked for; 0 is the export of all rows
           total: Nat, pages: Nat, \* of the answer being put together
           step: {"count", "rows", "done"},
           first: SUBSET Entries,  \* history: recorded when reading began
           seen: SUBSET Entries,   \* rows received
           grown: BOOLEAN]         \* history: the trail grew since the count

TrailTypeOK == stamp \in [Entries -> Nat] /\ (reader = NoReader \/ reader \in Reader)

TrailInit == stamp = [e \in Entries |-> 0] /\ reader = NoReader

(* created_at is the start of the statement, so a row may become visible     *)
(* after newer ones, or share its time with one.                             *)
Latest == CHOOSE t \in {stamp[e] : e \in Entries} : \A e \in Entries : stamp[e] <= t
Stamps == {t \in Latest - 1 .. Latest + 1 : t > 0}

(* AuditModel.Record.                                                        *)
Record(e) ==
  /\ stamp[e] = 0
  /\ \E t \in Stamps : stamp' = [stamp EXCEPT ![e] = t]
  /\ reader' = IF reader = NoReader THEN NoReader ELSE [reader EXCEPT !.grown = TRUE]

-----------------------------------------------------------------------------
(* ListAuditLogs, page after page or all at once.                            *)

Open(page) ==
  /\ reader = NoReader
  /\ reader' = [page |-> page, total |-> 0, pages |-> 1, step |-> "count",
                first |-> Recorded, seen |-> {}, grown |-> FALSE]
  /\ UNCHANGED stamp

(* The count of all matching rows.                                          *)
Count ==
  /\ reader # NoReader /\ reader.step = "count"
  /\ reader' = [reader EXCEPT !.total = Cardinality(Recorded), !.grown = FALSE,
                              !.step = "rows"]
  /\ UNCHANGED stamp

(* ORDER BY created_at DESC: any order of rows of one time.                  *)
Orders == {s \in Injection(1 .. Cardinality(Recorded), Recorded) :
             \A i, j \in DOMAIN s : i < j => stamp[s[i]] >= stamp[s[j]]}

Offset(page) == (page - 1) * AuditPageSize

Rows(s, page) ==
  IF page = 0 THEN Recorded
  ELSE {s[i] : i \in DOMAIN s \cap (Offset(page) + 1 .. Offset(page) + AuditPageSize)}

(* A slip: rounded down, the last page is never offered.                     *)
TotalPages_Floor(total, page) ==
  IF page = 0 \/ total < AuditPageSize THEN 1 ELSE total \div AuditPageSize

TotalPages(total, page) ==
  IF page = 0 \/ total = 0 THEN 1
  ELSE (total + AuditPageSize - 1) \div AuditPageSize

(* The rows of the page; the browser asks for the next while there is one.   *)
Select ==
  /\ reader # NoReader /\ reader.step = "rows"
  /\ \E s \in Orders :
       LET pages == TotalPages(reader.total, reader.page) IN
       reader' = [reader EXCEPT
         !.seen = @ \cup Rows(s, reader.page), !.pages = pages,
         !.page = IF 0 < @ /\ @ < pages THEN @ + 1 ELSE @,
         !.step = IF 0 < reader.page /\ reader.page < pages THEN "count" ELSE "done"]
  /\ UNCHANGED stamp

Close == reader # NoReader /\ reader' = NoReader /\ UNCHANGED stamp

TrailStep == (\E page \in {0, 1} : Open(page)) \/ Count \/ Select \/ Close
TrailNext == TrailStep \/ \E e \in Entries : Record(e)
TrailSpec == TrailInit /\ [][TrailNext]_trailVars

-----------------------------------------------------------------------------
(* Properties.                                                               *)

Tied(e) == \E f \in Recorded \ {e} : stamp[f] = stamp[e]

(* Every entry is reachable by paging (AuditPageSize, audit_model.go:15):    *)
(* whoever reads to the end has seen every entry that was there at the       *)
(* start, however many were recorded between the pages, unless one slipped   *)
(* in between the count and the rows of the last answer, or the entry shares *)
(* its time with another.                                                    *)
EveryEntryReachable ==
  (reader # NoReader /\ reader.step = "done") =>
    \A e \in reader.first \ reader.seen : Tied(e) \/ (reader.grown /\ reader.page > 0)
=============================================================================

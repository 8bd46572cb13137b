-------------------------- MODULE AuditTrail_proofs --------------------------
(* Proofs about AuditTrail, for any entries and any size of a page.          *)
EXTENDS AuditTrail, FiniteSetTheorems, FunctionTheorems, TLAPS

USE TrailAssumption

-----------------------------------------------------------------------------
(* The inductive invariant: how deep the entries lie that are still to come. *)

(* An entry is as deep in the list as there are rows that are not older.     *)
NotOlder(e) == {f \in Recorded : stamp[f] >= stamp[e]}
Depth(e) == Cardinality(NotOlder(e))

(* Missed for one of the two reasons the property allows.                    *)
Excused(e) ==
  \/ Tied(e)
  \/ reader.step = "done" /\ reader.grown /\ reader.page > 0

(* Whatever the reader has not received by now lies at or below the next     *)
(* page, and nothing does once the last page was received.                   *)
ReaderSound ==
  reader # NoReader =>
    /\ reader.first \subseteq Recorded
    /\ reader.step = "rows" /\ ~reader.grown => reader.total = Cardinality(Recorded)
    /\ \A e \in reader.first \ reader.seen :
         \/ Excused(e)
         \/ reader.step # "done" /\ Depth(e) > Offset(reader.page)

TrailInv == TrailTypeOK /\ ReaderSound

-----------------------------------------------------------------------------
(* Rows, their order and their pages.                                        *)

LEMMA RowsFinite ==
  /\ IsFiniteSet(Recorded) /\ Cardinality(Recorded) \in Nat
  /\ \A e : /\ NotOlder(e) \subseteq Recorded /\ IsFiniteSet(NotOlder(e))
            /\ Depth(e) \in Nat /\ Depth(e) <= Cardinality(Recorded)
<1>1. IsFiniteSet(Recorded)
  BY FS_Subset DEF Recorded
<1>2. \A e : NotOlder(e) \in SUBSET Recorded
  BY DEF NotOlder
<1>3. ASSUME NEW e
      PROVE  IsFiniteSet(NotOlder(e)) /\ Cardinality(NotOlder(e)) <= Cardinality(Recorded)
  BY <1>1, <1>2, FS_Subset
<1> QED BY <1>1, <1>2, <1>3, FS_CardinalityType DEF Depth

(* Whatever order the database chooses among rows of one time, an entry that *)
(* shares its time with no other stands at its depth (ORDER BY created_at).  *)
LEMMA UntiedPosition ==
  ASSUME TrailTypeOK, NEW s \in Orders, NEW e \in Recorded, ~Tied(e)
  PROVE  Depth(e) \in DOMAIN s /\ s[Depth(e)] = e
<1> DEFINE n == Cardinality(Recorded)
<1>1. s \in Injection(1 .. n, Recorded) /\ n \in Nat /\ IsFiniteSet(Recorded)
  BY RowsFinite DEF Orders
<1>2. /\ s \in [1 .. n -> Recorded]
      /\ \A i, j \in 1 .. n : s[i] = s[j] => i = j
      /\ \A i, j \in 1 .. n : i < j => stamp[s[i]] >= stamp[s[j]]
  BY <1>1, Fun_InjectionProperties DEF Orders
<1>3. s \in Surjection(1 .. n, Recorded)
  <2>1. IsFiniteSet(1 .. n) /\ Cardinality(1 .. n) = n
    BY <1>1, FS_Interval
  <2> QED BY <1>1, <2>1, FS_Injection
<1>4. \A f \in Recorded : \E i \in 1 .. n : s[i] = f
  BY <1>3 DEF Surjection
<1>5. PICK k \in 1 .. n : s[k] = e
  BY <1>4
<1>6. \A f \in Recorded : stamp[f] \in Nat
  BY DEF TrailTypeOK, Recorded
<1>7. ASSUME NEW i \in 1 .. k PROVE s[i] \in NotOlder(e)
  <2>1. i \in 1 .. n /\ (i = k \/ i < k)
    BY <1>1
  <2>2. s[i] \in Recorded /\ stamp[s[i]] >= stamp[e]
    BY <1>2, <1>5, <1>6, <2>1
  <2> QED BY <2>2 DEF NotOlder
<1>8. ASSUME NEW f \in NotOlder(e) PROVE \E i \in 1 .. k : s[i] = f
  <2>1. PICK j \in 1 .. n : s[j] = f
    BY <1>4 DEF NotOlder
  <2>2. j <= k
    <3> SUFFICES ASSUME j > k PROVE FALSE
      BY <1>1
    <3>1. stamp[f] = stamp[e]
      BY <1>2, <1>5, <1>6, <2>1 DEF NotOlder
    <3>2. f # e
      BY <1>2, <1>5, <2>1
    <3> QED BY <3>1, <3>2 DEF Tied, NotOlder
  <2> QED BY <1>1, <2>1, <2>2
<1> DEFINE g == [i \in 1 .. k |-> s[i]]
<1>9. Cardinality(NotOlder(e)) = k
  <2>1. g \in [1 .. k -> NotOlder(e)]
    BY <1>7
  <2>2. \A i, j \in 1 .. k : g[i] = g[j] => i = j
    BY <1>1, <1>2
  <2>3. \A f \in NotOlder(e) : \E i \in 1 .. k : g[i] = f
    BY <1>8
  <2>4. g \in Bijection(1 .. k, NotOlder(e))
    BY <2>1, <2>2, <2>3, Fun_IsBij
  <2>5. ExistsBijection(1 .. k, NotOlder(e))
    BY <2>4 DEF ExistsBijection
  <2> QED BY <1>1, <2>5, FS_CountingElements
<1> QED BY <1>2, <1>5, <1>9 DEF Depth

(* The page that follows begins where this one ends.                         *)
LEMMA NextOffset ==
  ASSUME NEW p \in Nat
  PROVE  /\ Offset(p) \in Int /\ Offset(p + 1) = Offset(p) + AuditPageSize
         /\ Offset(p + 1) = p * AuditPageSize
BY DEF Offset

(* There are enough pages for all rows.                                      *)
LEMMA PagesHoldAll ==
  ASSUME NEW total \in Nat, NEW p \in Nat, p > 0, TotalPages(total, p) <= p
  PROVE  total <= p * AuditPageSize
<1> DEFINE size == AuditPageSize
           q == (total + size - 1) \div size
<1>1. CASE total = 0
  BY <1>1
<1>2. CASE total # 0
  <2>1. q \in Nat /\ q <= p
    BY <1>2 DEF TotalPages
  <2>2. total + size - 1 < (q + 1) * size
    OBVIOUS
  <2>3. (q + 1) * size = q * size + size
    BY <2>1
  <2>4. q * size <= p * size
    BY <2>1
  <2> QED BY <2>1, <2>2, <2>3, <2>4
<1> QED BY <1>1, <1>2
-----------------------------------------------------------------------------
(* Steps of the trail.                                                       *)

LEMMA TrailTyped ==
  ASSUME TrailTypeOK, [TrailNext]_trailVars
  PROVE  TrailTypeOK'
<1> USE DEF TrailTypeOK
<1>1. Recorded \subseteq Entries /\ Cardinality(Recorded) \in Nat
  BY FS_Subset, FS_CardinalityType DEF Recorded
<1>2. ASSUME NEW e \in Entries, Record(e) PROVE TrailTypeOK'
  <2>1. PICK t \in Stamps : stamp' = [stamp EXCEPT ![e] = t]
    BY <1>2 DEF Record
  <2>2. t \in Nat
    BY DEF Stamps
  <2>3. reader' = NoReader \/ reader' \in Reader
    BY <1>2 DEF Record, Reader
  <2> QED BY <2>1, <2>2, <2>3
<1>3. ASSUME NEW page \in {0, 1}, Open(page) PROVE TrailTypeOK'
  BY <1>1, <1>3 DEF Open, Reader
<1>4. CASE Count
  BY <1>1, <1>4 DEF Count, Reader
<1>5. CASE Select
  <2>1. reader \in Reader /\ UNCHANGED stamp
    BY <1>5 DEF Select
  <2>2. PICK pages \in Nat : pages = TotalPages(reader.total, reader.page)
    BY <2>1 DEF TotalPages, Reader
  <2>3. PICK s \in Orders :
          reader' = [reader EXCEPT
            !.seen = @ \cup Rows(s, reader.page), !.pages = pages,
            !.page = IF 0 < @ /\ @ < pages THEN @ + 1 ELSE @,
            !.step = IF 0 < reader.page /\ reader.page < pages THEN "count" ELSE "done"]
    BY <1>5, <2>2 DEF Select
  <2>4. PICK seen \in SUBSET Entries : seen = reader.seen \cup Rows(s, reader.page)
    <3>1. Rows(s, reader.page) \subseteq Entries
      BY <1>1, <2>3 DEF Rows, Orders, Injection
    <3> QED BY <2>1, <3>1 DEF Reader
  <2>5. PICK next \in Nat :
          next = IF 0 < reader.page /\ reader.page < pages THEN reader.page + 1
                 ELSE reader.page
    BY <2>1 DEF Reader
  <2>6. PICK step \in {"count", "done"} :
          step = IF 0 < reader.page /\ reader.page < pages THEN "count" ELSE "done"
    OBVIOUS
  <2>7. reader' = [reader EXCEPT !.seen = seen, !.pages = pages, !.page = next,
                                 !.step = step]
    BY <2>3, <2>4, <2>5, <2>6
  <2> QED BY <2>1, <2>7 DEF Reader
<1>6. CASE Close \/ UNCHANGED trailVars
  BY <1>6 DEF Close, trailVars
<1> QED BY <1>2, <1>3, <1>4, <1>5, <1>6 DEF TrailNext, TrailStep

(* A row that appears hides no other: entries only get deeper, and a tie     *)
(* once there stays (the trail is append-only).                              *)
LEMMA RecordDeepens ==
  ASSUME TrailTypeOK, TrailTypeOK', NEW e \in Entries, Record(e), NEW f \in Recorded
  PROVE  /\ f \in Recorded' /\ (Tied(f) => Tied(f)')
         /\ Depth(f)' \in Nat /\ Depth(f) <= Depth(f)'
<1>1. PICK t \in Stamps : stamp' = [stamp EXCEPT ![e] = t]
  BY DEF Record
<1>2. /\ t # 0 /\ stamp[e] = 0
      /\ \A g \in Entries \ {e} : stamp'[g] = stamp[g]
      /\ stamp'[e] = t
  BY <1>1 DEF Record, Stamps, TrailTypeOK
<1>3. \A g \in Recorded : g \in Recorded' /\ stamp'[g] = stamp[g]
  BY <1>2 DEF Recorded
<1>4. NotOlder(f) \in SUBSET NotOlder(f)'
  BY <1>3 DEF NotOlder
<1>5. IsFiniteSet(NotOlder(f)')
  <2>1. Recorded' \subseteq Entries
    BY DEF Recorded
  <2>2. NotOlder(f)' \in SUBSET Entries
    BY <2>1 DEF NotOlder
  <2> QED BY <2>2, FS_Subset
<1>6. Depth(f)' \in Nat /\ Depth(f) <= Depth(f)'
  BY <1>4, <1>5, FS_Subset, FS_CardinalityType DEF Depth
<1>7. Tied(f) => Tied(f)'
  BY <1>3 DEF Tied
<1> QED BY <1>3, <1>6, <1>7

LEMMA RecordSound ==
  ASSUME TrailInv, NEW e \in Entries, Record(e)
  PROVE  ReaderSound'
<1> USE DEF TrailInv
<1> SUFFICES ASSUME reader' # NoReader PROVE ReaderSound'
  BY DEF ReaderSound
<1>1. reader \in Reader /\ reader # NoReader /\ reader' = [reader EXCEPT !.grown = TRUE]
  BY DEF Record, TrailTypeOK
<1>2. /\ reader'.first = reader.first /\ reader'.seen = reader.seen
      /\ reader'.step = reader.step /\ reader'.page = reader.page
      /\ reader'.grown /\ reader.page \in Nat
  BY <1>1 DEF Reader
<1>3. TrailTypeOK'
  BY TrailTyped DEF TrailNext
<1>4. \A f \in reader.first : /\ f \in Recorded' /\ (Tied(f) => Tied(f)')
                              /\ Depth(f)' \in Nat /\ Depth(f) <= Depth(f)'
  BY <1>1, <1>3, RecordDeepens DEF ReaderSound
<1>5. ASSUME NEW f \in reader.first \ reader.seen
      PROVE  \/ Excused(f)'
             \/ reader'.step # "done" /\ Depth(f)' > Offset(reader'.page)
  <2>1. \/ Excused(f)
        \/ reader.step # "done" /\ Depth(f) > Offset(reader.page)
    BY <1>1 DEF ReaderSound
  <2>2. CASE Excused(f)
    BY <1>2, <1>4, <2>2 DEF Excused
  <2>3. CASE reader.step # "done" /\ Depth(f) > Offset(reader.page)
    <3>1. Depth(f) \in Nat /\ Offset(reader.page) \in Int
      BY <1>2, RowsFinite, NextOffset
    <3> QED BY <1>2, <1>4, <2>3, <3>1
  <2> QED BY <2>1, <2>2, <2>3
<1> QED BY <1>1, <1>2, <1>4, <1>5 DEF ReaderSound

(* An entry that is recorded counts among the rows that are not older.       *)
LEMMA DepthPositive ==
  ASSUME TrailTypeOK, NEW e \in Recorded
  PROVE  Depth(e) \in Nat \ {0}
<1>1. e \in NotOlder(e)
  BY DEF NotOlder, Recorded, TrailTypeOK
<1> QED BY <1>1, RowsFinite, FS_EmptySet DEF Depth

LEMMA OpenSound ==
  ASSUME TrailInv, NEW page \in {0, 1}, Open(page)
  PROVE  ReaderSound'
<1> SUFFICES ASSUME NEW e \in Recorded PROVE Depth(e) > Offset(page)
  BY DEF Open, ReaderSound, Depth, NotOlder, Recorded
<1>1. Offset(page) <= 0 /\ Offset(page) \in Int
  BY DEF Offset
<1> QED BY <1>1, DepthPositive DEF TrailInv

LEMMA CountSound ==
  ASSUME TrailInv, Count
  PROVE  ReaderSound'
<1>1. /\ reader \in Reader /\ reader # NoReader /\ reader.step = "count" /\ stamp' = stamp
      /\ reader' = [reader EXCEPT !.total = Cardinality(Recorded), !.grown = FALSE,
                                  !.step = "rows"]
  BY DEF Count, TrailInv, TrailTypeOK
<1>2. /\ reader'.first = reader.first /\ reader'.seen = reader.seen
      /\ reader'.page = reader.page /\ reader'.step = "rows"
      /\ reader'.total = Cardinality(Recorded)
  BY <1>1 DEF Reader
<1>3. /\ Recorded' = Recorded
      /\ \A e : Depth(e)' = Depth(e) /\ (Tied(e) <=> Tied(e)')
  BY <1>1 DEF Recorded, Depth, NotOlder, Tied
<1> QED BY <1>1, <1>2, <1>3 DEF TrailInv, ReaderSound, Excused

(* A page that is received holds what was due on it, and the last page ends  *)
(* the list.                                                                 *)
LEMMA SelectSound ==
  ASSUME TrailInv, Select
  PROVE  ReaderSound'
<1> DEFINE p == reader.page
           pages == TotalPages(reader.total, p)
           more == 0 < p /\ p < pages
<1>1. /\ reader \in Reader /\ reader # NoReader /\ reader.step = "rows" /\ stamp' = stamp
      /\ p \in Nat /\ reader.total \in Nat /\ reader.grown \in BOOLEAN
      /\ TrailTypeOK /\ pages \in Nat
  BY DEF Select, TrailInv, TrailTypeOK, Reader, TotalPages
<1>2. PICK s \in Orders :
        reader' = [reader EXCEPT
          !.seen = @ \cup Rows(s, p), !.pages = pages,
          !.page = IF more THEN @ + 1 ELSE @,
          !.step = IF more THEN "count" ELSE "done"]
  BY DEF Select
<1>3. /\ reader'.first = reader.first /\ reader'.seen = reader.seen \cup Rows(s, p)
      /\ reader'.page = (IF more THEN p + 1 ELSE p)
      /\ reader'.step = (IF more THEN "count" ELSE "done")
      /\ reader'.grown = reader.grown
  BY <1>1, <1>2 DEF Reader
<1>4. /\ Recorded' = Recorded
      /\ \A e : Depth(e)' = Depth(e) /\ (Tied(e) <=> Tied(e)')
  BY <1>1 DEF Recorded, Depth, NotOlder, Tied
<1>5. reader.first \subseteq Recorded
  BY <1>1 DEF TrailInv, ReaderSound
<1>6. ASSUME NEW e \in reader.first \ (reader.seen \cup Rows(s, p)), ~Tied(e)
      PROVE  \/ ~more /\ reader.grown /\ p > 0
             \/ more /\ Depth(e) > Offset(p + 1)
  <2>1. e \in Recorded /\ Depth(e) \in Nat /\ Depth(e) <= Cardinality(Recorded)
    BY <1>5, <1>6, RowsFinite
  <2>2. Depth(e) > Offset(p) /\ Offset(p) \in Int
    BY <1>1, <1>6, NextOffset DEF TrailInv, ReaderSound, Excused
  <2>3. p > 0
    BY <1>1, <1>6, <2>1 DEF Rows
  <2>4. Depth(e) \in DOMAIN s /\ s[Depth(e)] = e
    BY <1>1, <1>6, <2>1, UntiedPosition
  <2>5. Depth(e) > Offset(p) + AuditPageSize
    <3> SUFFICES ASSUME Depth(e) <= Offset(p) + AuditPageSize PROVE FALSE
      BY <2>1, <2>2
    <3>1. Depth(e) \in Offset(p) + 1 .. Offset(p) + AuditPageSize
      BY <2>1, <2>2
    <3> QED BY <1>6, <2>3, <2>4, <3>1 DEF Rows
  <2>6. Depth(e) > Offset(p + 1) /\ Offset(p + 1) = p * AuditPageSize
    BY <1>1, <2>5, NextOffset
  <2>7. more \/ reader.grown
    <3> SUFFICES ASSUME ~more, ~reader.grown PROVE FALSE
      OBVIOUS
    <3>1. reader.total = Cardinality(Recorded)
      BY <1>1 DEF TrailInv, ReaderSound
    <3>2. reader.total <= p * AuditPageSize
      BY <1>1, <2>3, PagesHoldAll
    <3>3. p * AuditPageSize \in Nat
      BY <1>1
    <3> QED BY <1>1, <2>1, <2>6, <3>1, <3>2, <3>3
  <2> QED BY <2>3, <2>6, <2>7
<1>7. ASSUME NEW e \in reader.first \ (reader.seen \cup Rows(s, p))
      PROVE  \/ Excused(e)'
             \/ reader'.step # "done" /\ Depth(e)' > Offset(reader'.page)
  <2>1. CASE Tied(e)
    BY <1>4, <2>1 DEF Excused
  <2>2. CASE ~Tied(e) /\ more
    BY <1>3, <1>4, <1>6, <2>2
  <2>3. CASE ~Tied(e) /\ ~more
    BY <1>3, <1>6, <2>3 DEF Excused
  <2> QED BY <2>1, <2>2, <2>3
<1> QED BY <1>3, <1>4, <1>5, <1>7 DEF ReaderSound

LEMMA TrailSound ==
  ASSUME TrailInv, [TrailNext]_trailVars
  PROVE  TrailInv'
<1>1. TrailTypeOK'
  BY TrailTyped DEF TrailInv
<1> SUFFICES ReaderSound'
  BY <1>1 DEF TrailInv
<1>2. CASE Close
  BY <1>2 DEF Close, ReaderSound
<1>3. CASE UNCHANGED trailVars
  <2>1. UNCHANGED <<stamp, reader>>
    BY <1>3 DEF trailVars
  <2> QED BY <2>1 DEF TrailInv, ReaderSound, Excused, Depth, NotOlder, Tied, Recorded
<1>4. CASE TrailNext
  BY <1>2, <1>4, RecordSound, OpenSound, CountSound, SelectSound
     DEF TrailNext, TrailStep
<1> QED BY <1>3, <1>4

-----------------------------------------------------------------------------
(* The theorems.                                                             *)

(* The inductive invariant holds in every state of the trail.                *)
THEOREM TrailInvariance == TrailSpec => []TrailInv
<1>1. TrailInit => TrailInv
  BY DEF TrailInit, TrailInv, TrailTypeOK, ReaderSound
<1>2. TrailInv /\ [TrailNext]_trailVars => TrailInv'
  BY TrailSound
<1> QED BY <1>1, <1>2, PTL DEF TrailSpec

(* Every entry is reachable by paging, whatever is recorded between two      *)
(* pages and however many rows a page has (audit_controller.go).             *)
THEOREM PagingSafety == TrailSpec => []EveryEntryReachable
<1>1. TrailInv => EveryEntryReachable
  <2> SUFFICES ASSUME TrailInv, reader # NoReader, reader.step = "done",
                      NEW e \in reader.first \ reader.seen
               PROVE  Tied(e) \/ (reader.grown /\ reader.page > 0)
    BY DEF EveryEntryReachable
  <2> QED BY DEF TrailInv, ReaderSound, Excused
<1> QED BY <1>1, TrailInvariance, PTL
=============================================================================

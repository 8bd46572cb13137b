------------------------ MODULE OneTimeCodes_proofs -------------------------
(* Proofs about OneTimeCodes, for any users, addresses, codes and requests   *)
(* and any limit of wrong answers.                                           *)
EXTENDS OneTimeCodes, TLAPS

USE CodesAssumption

-----------------------------------------------------------------------------
(* The inductive invariant.                                                  *)

(* What the store knows of a code agrees with what has happened to it.       *)
StoreSound ==
  /\ \A e \in Addresses : otp[e] # Nil =>
       /\ sentTo[otp[e].code] = e
       /\ otp[e].code \notin redeemed
       /\ wrong[otp[e].code] = otp[e].attempts
       /\ otp[e].attempts < OTPMaxAttempts
  /\ \A c \in Codes : sentTo[c] = Nil => c \notin redeemed /\ wrong[c] = 0

(* A request past Verify holds an accepted code of its address, and, once it *)
(* has found its user, a row that has the address or was given another.      *)
PastVerify == {"register", "find", "remember"}
VisitSound(v) ==
  LET u == visit[v].person IN
  visit[v] # Nil /\ visit[v].step \in PastVerify =>
    /\ visit[v].code \in redeemed /\ sentTo[visit[v].code] = visit[v].email
    /\ visit[v].step = "remember" =>
         /\ u \in Persons /\ person[u] # Nil
         /\ person[u].email = visit[v].email \/ u \in moved

VisitsSound == \A v \in Visits : VisitSound(v)

(* So has every device that is remembered.                                   *)
DevicesSound == \A u \in Persons :
  person[u] # Nil /\ person[u].device # Nil =>
    /\ person[u].device \in redeemed
    /\ sentTo[person[u].device] = person[u].email \/ u \in moved

CodesInv == /\ CodesTypeOK
            /\ StoreSound /\ GuessesBounded
            /\ VisitsSound /\ DevicesSound

-----------------------------------------------------------------------------
(* The steps, by what they change.                                           *)

(* The actions that go no further than the request and the users table.      *)
TableStep ==
  \/ \E v \in Visits :
       \/ \E e \in Addresses :
            SendRegistrationOTP(v, e) \/ SendAccessVerificationOTP(v, e)
       \/ SendOTPEmail(v) \/ FailVisit(v)
       \/ \E u \in Persons : Register(v, u)
       \/ FindActive(v) \/ RememberDevice(v)
  \/ \E u \in Persons : PersonChanges(u)

(* They leave the store of codes and its history alone.                      *)
LEMMA TableStepKeepsStore ==
  TableStep => UNCHANGED <<otp, codesHistory>>
BY DEF TableStep, SendRegistrationOTP, SendAccessVerificationOTP, SendOTPEmail,
       FailVisit, Register, FindActive, RememberDevice, PersonChanges, Invite,
       SetStatus, Readdress, DeletePerson, DeviceExpires, codesRest, codesHistory

(* Every other action is a visit to the store, time or a restart.            *)
LEMMA StepCases ==
  ASSUME CodesNext
  PROVE  \/ TableStep
         \/ \E v \in Visits, c \in Codes : Create(v, c)
         \/ \E v \in Visits, e \in Addresses, a \in Answers, remember \in BOOLEAN :
              \/ Verify(v, e, a, "register", remember)
              \/ Verify(v, e, a, "find", remember)
         \/ \E e \in Addresses : CodeExpires(e)
         \/ CleanupCodes
         \/ CodesRestart
BY DEF CodesNext, CodesStep, CodesHandler, TableStep, VerifyRegistrationOTP,
       VerifyAccessOTP

(* A new row and a new request have their types.                             *)
LEMMA NewValuesTyped ==
  ASSUME NEW e \in Addresses
  PROVE  /\ NewPerson(e) \in PersonRow
         /\ \A next \in {"create", "register", "find"} : NewVisit(next, e) \in Visit
         /\ \A c \in Codes : [code |-> c, attempts |-> 0, expired |-> FALSE] \in OtpRecord
BY DEF NewPerson, PersonRow, NewVisit, Visit, OtpRecord

(* Edits of one column of a row.                                             *)
LEMMA RowEdits ==
  ASSUME NEW r \in PersonRow
  PROVE  /\ \A e \in Addresses :
              /\ [r EXCEPT !.email = e] \in PersonRow
              /\ [r EXCEPT !.email = e].device = r.device
         /\ \A s \in {"active", "revoked"} :
              /\ [r EXCEPT !.status = s] \in PersonRow
              /\ [r EXCEPT !.status = s].email = r.email
              /\ [r EXCEPT !.status = s].device = r.device
         /\ [r EXCEPT !.deleted = TRUE] \in PersonRow
         /\ [r EXCEPT !.deleted = TRUE].email = r.email
         /\ [r EXCEPT !.deleted = TRUE].device = r.device
         /\ \A d \in Codes \cup {Nil} :
              /\ [r EXCEPT !.device = d] \in PersonRow
              /\ [r EXCEPT !.device = d].email = r.email
              /\ [r EXCEPT !.device = d].device = d
BY DEF PersonRow

-----------------------------------------------------------------------------
(* Type correctness.                                                         *)

LEMMA TableStepTyped ==
  ASSUME CodesInv, TableStep
  PROVE  CodesTypeOK'
<1> USE DEF CodesInv, CodesTypeOK, Proceed, Answered, Step, codesRest, codesHistory
<1>1. UNCHANGED <<otp, sentTo, redeemed, wrong>>
  BY TableStepKeepsStore
<1>2. ASSUME NEW v \in Visits, NEW e \in Addresses,
             SendRegistrationOTP(v, e) \/ SendAccessVerificationOTP(v, e)
      PROVE  CodesTypeOK'
  BY <1>2, NewValuesTyped DEF SendRegistrationOTP, SendAccessVerificationOTP
<1>3. ASSUME NEW v \in Visits, SendOTPEmail(v) \/ FailVisit(v)
      PROVE  CodesTypeOK'
  BY <1>3 DEF SendOTPEmail, FailVisit
<1>4. ASSUME NEW v \in Visits, NEW u \in Persons, Register(v, u)
      PROVE  CodesTypeOK'
  <2>1. visit[v] \in Visit
    BY <1>4 DEF Register
  <2>2. /\ visit[v].email \in Addresses
        /\ [visit[v] EXCEPT !.step = "remember", !.person = u] \in Visit
    BY <2>1 DEF Visit
  <2>3. NewPerson(visit[v].email) \in PersonRow
    BY <2>2, NewValuesTyped
  <2>4. visit' \in [Visits -> Visit \cup {Nil}]
    BY <1>4, <2>2 DEF Register
  <2>5. person' \in [Persons -> PersonRow \cup {Nil}]
    BY <1>4, <2>3 DEF Register
  <2> QED BY <1>1, <1>4, <2>4, <2>5 DEF Register
<1>5. ASSUME NEW v \in Visits, FindActive(v)
      PROVE  CodesTypeOK'
  <2>1. visit[v] \in Visit
    BY <1>5 DEF FindActive
  <2>2. \A u \in Persons : [visit[v] EXCEPT !.step = "remember", !.person = u] \in Visit
    BY <2>1 DEF Visit
  <2>3. \A e : ActiveOf(e) \subseteq Persons
    BY DEF ActiveOf, PersonOf
  <2>4. PICK w \in Visit \cup {Nil} : visit' = [visit EXCEPT ![v] = w]
    BY <1>5, <2>2, <2>3 DEF FindActive
  <2> QED BY <1>1, <1>5, <2>4 DEF FindActive
<1>6. ASSUME NEW v \in Visits, RememberDevice(v)
      PROVE  CodesTypeOK'
  <2>1. visit[v] \in Visit /\ VisitSound(v)
    BY <1>6 DEF RememberDevice, VisitsSound
  <2>2. /\ visit[v].person \in Persons /\ person[visit[v].person] # Nil
        /\ visit[v].code \in Codes
    BY <2>1, <1>6 DEF RememberDevice, VisitSound, PastVerify
  <2>3. person[visit[v].person] \in PersonRow
    BY <2>2
  <2> QED BY <1>6, <2>2, <2>3, RowEdits DEF RememberDevice
<1>7. ASSUME NEW u \in Persons, PersonChanges(u)
      PROVE  CodesTypeOK'
  <2>1. ASSUME NEW e \in Addresses, Invite(u, e) PROVE CodesTypeOK'
    BY <2>1, NewValuesTyped DEF Invite
  <2>2. ASSUME NEW r \in PersonRow, person' = [person EXCEPT ![u] = r],
               UNCHANGED codesRest, moved' \subseteq Persons
        PROVE  CodesTypeOK'
    BY <2>2
  <2>3. ASSUME NEW e \in Addresses, Readdress(u, e) PROVE CodesTypeOK'
    <3>1. person[u] \in PersonRow
      BY <2>3 DEF Readdress
    <3> QED BY <2>2, <2>3, <3>1, RowEdits DEF Readdress
  <2>4. ASSUME NEW s \in {"active", "revoked"}, SetStatus(u, s) PROVE CodesTypeOK'
    <3>1. person[u] \in PersonRow
      BY <2>4 DEF SetStatus
    <3> QED BY <2>2, <2>4, <3>1, RowEdits DEF SetStatus
  <2>5. CASE DeletePerson(u)
    <3>1. person[u] \in PersonRow
      BY <2>5 DEF DeletePerson
    <3> QED BY <2>2, <2>5, <3>1, RowEdits DEF DeletePerson
  <2>6. CASE DeviceExpires(u)
    <3>1. person[u] \in PersonRow
      BY <2>6 DEF DeviceExpires
    <3> QED BY <2>2, <2>6, <3>1, RowEdits DEF DeviceExpires
  <2> QED BY <1>7, <2>1, <2>3, <2>4, <2>5, <2>6 DEF PersonChanges
<1> QED BY <1>2, <1>3, <1>4, <1>5, <1>6, <1>7 DEF TableStep

LEMMA CodesTyped ==
  ASSUME CodesInv, CodesNext
  PROVE  CodesTypeOK'
<1> USE DEF CodesInv, CodesTypeOK, Proceed, Step, codesHistory
<1>1. ASSUME NEW v \in Visits, NEW c \in Codes, Create(v, c)
      PROVE  CodesTypeOK'
  <2>1. visit[v] \in Visit
    BY <1>1 DEF Create
  <2>2. /\ visit[v].email \in Addresses
        /\ [visit[v] EXCEPT !.step = "mail", !.code = c] \in Visit
    BY <2>1 DEF Visit
  <2>3. otp' \in [Addresses -> OtpRecord \cup {Nil}]
    BY <1>1, <2>2, NewValuesTyped DEF Create
  <2>4. visit' \in [Visits -> Visit \cup {Nil}]
    BY <1>1, <2>2 DEF Create
  <2>5. sentTo' \in [Codes -> Addresses \cup {Nil}]
    BY <1>1, <2>2 DEF Create
  <2> QED BY <1>1, <2>3, <2>4, <2>5 DEF Create
<1>2. ASSUME NEW v \in Visits, NEW e \in Addresses, NEW a \in Answers,
             NEW next \in {"register", "find"}, NEW remember \in BOOLEAN,
             Verify(v, e, a, next, remember)
      PROVE  CodesTypeOK'
  <2>1. CASE Right(e, a)
    <3>1. a \in Codes
      BY <2>1 DEF Right, Current, OtpRecord
    <3>2. [NewVisit(next, e) EXCEPT !.code = a, !.remember = remember] \in Visit
      BY <3>1 DEF NewVisit, Visit
    <3>3. otp' \in [Addresses -> OtpRecord \cup {Nil}]
      BY <1>2, <2>1 DEF Verify
    <3>4. visit' \in [Visits -> Visit \cup {Nil}]
      BY <1>2, <2>1, <3>2 DEF Verify
    <3> QED BY <1>2, <2>1, <3>1, <3>3, <3>4 DEF Verify
  <2>2. CASE ~Right(e, a)
    <3>1. ASSUME Current(e)
          PROVE  otp[e] \in OtpRecord /\ otp[e].code \in Codes
      <4>1. otp[e] \in OtpRecord
        BY <3>1 DEF Current
      <4> QED BY <4>1 DEF OtpRecord
    <3>2. ASSUME Current(e) PROVE Counted(otp[e]) \in OtpRecord \cup {Nil}
      BY <3>1, <3>2 DEF Counted, OtpRecord
    <3>3. otp' \in [Addresses -> OtpRecord \cup {Nil}]
      BY <1>2, <2>2, <3>2 DEF Verify
    <3>4. wrong' \in [Codes -> Nat]
      BY <1>2, <2>2, <3>1 DEF Verify
    <3> QED BY <1>2, <2>2, <3>3, <3>4 DEF Verify
  <2> QED BY <2>1, <2>2
<1>3. ASSUME NEW e \in Addresses, CodeExpires(e)
      PROVE  CodesTypeOK'
  <2>1. otp[e] \in OtpRecord
    BY <1>3 DEF CodeExpires, Current
  <2>2. [otp[e] EXCEPT !.expired = TRUE] \in OtpRecord
    BY <2>1 DEF OtpRecord
  <2>3. otp' \in [Addresses -> OtpRecord \cup {Nil}]
    BY <1>3, <2>2 DEF CodeExpires
  <2> QED BY <1>3, <2>3 DEF CodeExpires
<1>4. CASE CleanupCodes
  BY <1>4 DEF CleanupCodes, Swept
<1>5. CASE CodesRestart
  BY <1>5 DEF CodesRestart
<1> QED BY <1>1, <1>2, <1>3, <1>4, <1>5, StepCases, TableStepTyped

-----------------------------------------------------------------------------
(* The store.                                                                *)

LEMMA StoreStaysSound ==
  ASSUME CodesInv, CodesNext
  PROVE  (StoreSound /\ GuessesBounded)'
<1> USE DEF CodesInv, CodesTypeOK, codesHistory
<1>typed. \A e \in Addresses : otp[e] # Nil =>
            /\ otp[e] \in OtpRecord
            /\ otp[e].code \in Codes /\ otp[e].attempts \in Nat
  BY DEF OtpRecord
<1>1. CASE UNCHANGED <<otp, codesHistory>>
  BY <1>1 DEF StoreSound, GuessesBounded
<1>2. ASSUME NEW v \in Visits, NEW c \in Codes, Create(v, c)
      PROVE  (StoreSound /\ GuessesBounded)'
  <2>1. visit[v].email \in Addresses
    <3>1. visit[v] \in Visit
      BY <1>2 DEF Create, Step
    <3> QED BY <3>1 DEF Visit
  <2> DEFINE e == visit[v].email
             new == [code |-> c, attempts |-> 0, expired |-> FALSE]
  <2>2. /\ sentTo[c] = Nil /\ wrong[c] = 0 /\ c \notin redeemed
        /\ otp' = [otp EXCEPT ![e] = new] /\ sentTo' = [sentTo EXCEPT ![c] = e]
        /\ UNCHANGED <<redeemed, wrong>>
    BY <1>2 DEF Create, StoreSound
  <2>3. ASSUME NEW f \in Addresses, otp'[f] # Nil
        PROVE  /\ sentTo'[otp'[f].code] = f /\ otp'[f].code \notin redeemed'
               /\ wrong'[otp'[f].code] = otp'[f].attempts
               /\ otp'[f].attempts < OTPMaxAttempts
    <3>1. CASE f = e
      BY <2>1, <2>2, <3>1
    <3>2. CASE f # e
      <4>1. otp'[f] = otp[f] /\ otp[f].code # c
        BY <2>1, <2>2, <2>3, <3>2 DEF StoreSound
      <4> QED BY <4>1, <2>2, <2>3, <1>typed DEF StoreSound
    <3> QED BY <3>1, <3>2
  <2>4. \A d \in Codes : sentTo'[d] = Nil => d \notin redeemed' /\ wrong'[d] = 0
    BY <2>1, <2>2 DEF StoreSound
  <2>5. GuessesBounded'
    BY <2>2 DEF GuessesBounded
  <2> QED BY <2>3, <2>4, <2>5 DEF StoreSound
<1>3. ASSUME NEW v \in Visits, NEW e \in Addresses, NEW a \in Answers,
             NEW next \in {"register", "find"}, NEW remember \in BOOLEAN,
             Verify(v, e, a, next, remember)
      PROVE  (StoreSound /\ GuessesBounded)'
  <2>1. CASE Right(e, a)
    <3>1. /\ a \in Codes /\ otp[e] # Nil /\ otp[e].code = a
          /\ otp' = [otp EXCEPT ![e] = Nil] /\ redeemed' = redeemed \cup {a}
          /\ UNCHANGED <<sentTo, wrong>>
      BY <1>3, <2>1, <1>typed DEF Verify, Right, Current
    <3>2. sentTo[a] = e /\ wrong[a] < OTPMaxAttempts
      BY <3>1 DEF StoreSound
    <3>3. \A f \in Addresses \ {e} : otp[f] # Nil => otp[f].code # a
      BY <3>2 DEF StoreSound
    <3>4. StoreSound'
      BY <3>1, <3>2, <3>3 DEF StoreSound
    <3>5. GuessesBounded'
      BY <3>1, <3>2 DEF GuessesBounded
    <3> QED BY <3>4, <3>5
  <2>2. CASE ~Right(e, a) /\ Current(e)
    <3> DEFINE c == otp[e].code
    <3>1. /\ otp' = [otp EXCEPT ![e] = Counted(otp[e])]
          /\ wrong' = [wrong EXCEPT ![c] = wrong[c] + 1]
          /\ UNCHANGED <<redeemed, sentTo>>
      BY <1>3, <2>2 DEF Verify
    <3>2. /\ otp[e] \in OtpRecord /\ c \in Codes /\ sentTo[c] = e /\ c \notin redeemed
          /\ wrong[c] = otp[e].attempts /\ otp[e].attempts \in Nat
          /\ otp[e].attempts < OTPMaxAttempts
      BY <2>2, <1>typed DEF Current, StoreSound
    <3>3. ASSUME Counted(otp[e]) # Nil
          PROVE  /\ Counted(otp[e]).code = c
                 /\ Counted(otp[e]).attempts = otp[e].attempts + 1
                 /\ otp[e].attempts + 1 < OTPMaxAttempts
      BY <3>2, <3>3 DEF Counted, OtpRecord
    <3>4. ASSUME NEW f \in Addresses, otp'[f] # Nil
          PROVE  /\ sentTo'[otp'[f].code] = f /\ otp'[f].code \notin redeemed'
                 /\ wrong'[otp'[f].code] = otp'[f].attempts
                 /\ otp'[f].attempts < OTPMaxAttempts
      <4>1. CASE f = e
        BY <3>1, <3>2, <3>3, <3>4, <4>1
      <4>2. CASE f # e
        <5>1. otp'[f] = otp[f] /\ otp[f].code # c
          BY <3>1, <3>2, <3>4, <4>2 DEF StoreSound
        <5> QED BY <5>1, <3>1, <3>4, <1>typed DEF StoreSound
      <4> QED BY <4>1, <4>2
    <3>5. \A d \in Codes : sentTo'[d] = Nil => d \notin redeemed' /\ wrong'[d] = 0
      BY <3>1, <3>2 DEF StoreSound
    <3>6. GuessesBounded'
      BY <3>1, <3>2 DEF GuessesBounded
    <3> QED BY <3>4, <3>5, <3>6 DEF StoreSound
  <2>3. CASE ~Right(e, a) /\ ~Current(e)
    <3>1. otp' = [otp EXCEPT ![e] = Nil] /\ UNCHANGED codesHistory
      BY <1>3, <2>3 DEF Verify
    <3> QED BY <3>1 DEF StoreSound, GuessesBounded
  <2> QED BY <2>1, <2>2, <2>3
<1>4. ASSUME NEW e \in Addresses, CodeExpires(e)
      PROVE  (StoreSound /\ GuessesBounded)'
  <2>1. /\ otp[e] \in OtpRecord /\ UNCHANGED codesHistory
        /\ otp' = [otp EXCEPT ![e] = [otp[e] EXCEPT !.expired = TRUE]]
    BY <1>4, <1>typed DEF CodeExpires, Current
  <2>2. \A f \in Addresses : otp'[f] # Nil =>
          /\ otp[f] # Nil /\ otp'[f].code = otp[f].code
          /\ otp'[f].attempts = otp[f].attempts
    BY <2>1, <1>typed DEF OtpRecord
  <2> QED BY <2>1, <2>2 DEF StoreSound, GuessesBounded
<1>5. CASE CleanupCodes \/ CodesRestart
  <2>1. /\ UNCHANGED codesHistory
        /\ \A e \in Addresses : otp'[e] # Nil => otp'[e] = otp[e]
    BY <1>5 DEF CleanupCodes, CodesRestart, Swept
  <2> QED BY <2>1 DEF StoreSound, GuessesBounded
<1> QED BY <1>1, <1>2, <1>3, <1>4, <1>5, StepCases, TableStepKeepsStore

-----------------------------------------------------------------------------
(* Requests and devices.                                                     *)

(* What is known of an accepted code, of a row and of a user who was moved   *)
(* stays known.                                                              *)
LEMMA KnowledgeStays ==
  ASSUME CodesInv, CodesNext
  PROVE  /\ \A c \in redeemed : c \in redeemed' /\ sentTo'[c] = sentTo[c]
         /\ \A u \in Persons : person[u] # Nil =>
              /\ person'[u] # Nil
              /\ person'[u].email = person[u].email \/ u \in moved'
         /\ moved \subseteq moved'
<1> USE DEF CodesInv, CodesTypeOK, codesHistory
<1>1. \A c \in redeemed : c \in redeemed' /\ sentTo'[c] = sentTo[c]
  <2>1. ASSUME NEW v \in Visits, NEW c \in Codes, Create(v, c)
        PROVE  \A d \in redeemed : d \in redeemed' /\ sentTo'[d] = sentTo[d]
    BY <2>1 DEF Create, StoreSound
  <2>2. ASSUME NEW v \in Visits, NEW e, NEW a, NEW next, NEW remember,
               Verify(v, e, a, next, remember)
        PROVE  redeemed \subseteq redeemed' /\ sentTo' = sentTo
    BY <2>2 DEF Verify
  <2>3. CASE CleanupCodes \/ CodesRestart \/ \E e \in Addresses : CodeExpires(e)
    BY <2>3 DEF CodeExpires, CleanupCodes, CodesRestart
  <2> QED BY <2>1, <2>2, <2>3, StepCases, TableStepKeepsStore
<1>2. CASE UNCHANGED <<person, moved>>
  BY <1>1, <1>2
<1>3. CASE TableStep
  <2> DEFINE Rows == /\ \A u \in Persons : person[u] # Nil =>
                          /\ person'[u] # Nil
                          /\ person'[u].email = person[u].email \/ u \in moved'
                     /\ moved \subseteq moved'
  <2>1. ASSUME UNCHANGED <<person, moved>> PROVE Rows
    BY <2>1
  <2>2. ASSUME NEW u \in Persons, person[u] = Nil, UNCHANGED moved,
               NEW r \in PersonRow, person' = [person EXCEPT ![u] = r]
        PROVE  Rows
    BY <2>2
  <2>3. ASSUME NEW u \in Persons, person[u] # Nil, moved \subseteq moved',
               NEW r \in PersonRow, person' = [person EXCEPT ![u] = r],
               r.email = person[u].email \/ u \in moved'
        PROVE  Rows
    BY <2>3
  <2>4. \A u \in Persons : person[u] # Nil => person[u] \in PersonRow
    OBVIOUS
  <2> HIDE DEF Rows
  <2>5. ASSUME NEW v \in Visits, NEW e \in Addresses,
               SendRegistrationOTP(v, e) \/ SendAccessVerificationOTP(v, e)
        PROVE  Rows
    BY <2>1, <2>5 DEF SendRegistrationOTP, SendAccessVerificationOTP
  <2>6. ASSUME NEW v \in Visits, SendOTPEmail(v) \/ FailVisit(v) \/ FindActive(v)
        PROVE  Rows
    BY <2>1, <2>6 DEF SendOTPEmail, FailVisit, FindActive
  <2>7. ASSUME NEW v \in Visits, NEW u \in Persons, Register(v, u)
        PROVE  Rows
    <3>1. visit[v] \in Visit
      BY <2>7 DEF Register, Step
    <3>2. visit[v].email \in Addresses
      BY <3>1 DEF Visit
    <3> QED BY <2>1, <2>2, <2>7, <3>2, NewValuesTyped DEF Register
  <2>8. ASSUME NEW v \in Visits, RememberDevice(v)
        PROVE  Rows
    <3> DEFINE u == visit[v].person
               d == IF visit[v].remember THEN visit[v].code ELSE Nil
    <3>1. VisitSound(v)
      BY DEF VisitsSound
    <3>2. /\ u \in Persons /\ person[u] # Nil /\ d \in Codes \cup {Nil}
      BY <2>8, <3>1 DEF RememberDevice, Step, VisitSound, PastVerify
    <3>3. person' = [person EXCEPT ![u] = [person[u] EXCEPT !.device = d]] /\ UNCHANGED moved
      BY <2>8 DEF RememberDevice
    <3> HIDE DEF u, d
    <3>4. /\ [person[u] EXCEPT !.device = d] \in PersonRow
          /\ [person[u] EXCEPT !.device = d].email = person[u].email
      BY <2>4, <3>2, RowEdits
    <3> QED BY <2>3, <3>2, <3>3, <3>4
  <2>9. ASSUME NEW u \in Persons, PersonChanges(u)
        PROVE  Rows
    <3>1. ASSUME NEW e \in Addresses, Invite(u, e) PROVE Rows
      BY <2>2, <3>1, NewValuesTyped DEF Invite
    <3>2. ASSUME NEW e \in Addresses, Readdress(u, e) PROVE Rows
      <4>1. person[u] # Nil /\ [person[u] EXCEPT !.email = e] \in PersonRow
        BY <2>4, <3>2, RowEdits DEF Readdress
      <4>2. /\ person' = [person EXCEPT ![u] = [person[u] EXCEPT !.email = e]]
            /\ u \in moved' /\ moved \subseteq moved'
        BY <3>2 DEF Readdress
      <4> QED BY <2>3, <4>1, <4>2
    <3>3. ASSUME NEW s \in {"active", "revoked"}, SetStatus(u, s) PROVE Rows
      <4>1. /\ person[u] # Nil /\ [person[u] EXCEPT !.status = s] \in PersonRow
            /\ [person[u] EXCEPT !.status = s].email = person[u].email
        BY <2>4, <3>3, RowEdits DEF SetStatus
      <4>2. /\ person' = [person EXCEPT ![u] = [person[u] EXCEPT !.status = s]]
            /\ UNCHANGED moved
        BY <3>3 DEF SetStatus
      <4> QED BY <2>3, <4>1, <4>2
    <3>4. CASE DeletePerson(u)
      BY <2>3, <2>4, <3>4, RowEdits DEF DeletePerson
    <3>5. CASE DeviceExpires(u)
      BY <2>3, <2>4, <3>5, RowEdits DEF DeviceExpires
    <3> QED BY <2>9, <3>1, <3>2, <3>3, <3>4, <3>5 DEF PersonChanges
  <2>10. Rows
    BY <1>3, <2>5, <2>6, <2>7, <2>8, <2>9 DEF TableStep
  <2> QED BY <1>1, <2>10 DEF Rows
<1> QED
  BY <1>2, <1>3, StepCases DEF Create, Verify, CodeExpires, CleanupCodes, CodesRestart

LEMMA VisitsStaySound ==
  ASSUME CodesInv, CodesNext
  PROVE  VisitsSound'
<1> USE DEF CodesInv, CodesTypeOK
<1> SUFFICES ASSUME NEW q \in Visits, visit'[q] # Nil, visit'[q].step \in PastVerify
             PROVE  VisitSound(q)'
  BY DEF VisitsSound, VisitSound
<1>1. CASE visit'[q] = visit[q]
  BY <1>1, KnowledgeStays DEF VisitsSound, VisitSound, PastVerify
<1>2. ASSUME NEW v \in Visits, NEW e \in Addresses, NEW a \in Answers,
             NEW next \in {"register", "find"}, NEW remember \in BOOLEAN,
             Verify(v, e, a, next, remember), visit'[q] # visit[q]
      PROVE  VisitSound(q)'
  <2>1. /\ Right(e, a) /\ v = q
        /\ visit'[q] = [NewVisit(next, e) EXCEPT !.code = a, !.remember = remember]
        /\ redeemed' = redeemed \cup {a} /\ sentTo' = sentTo
    BY <1>2 DEF Verify, Proceed
  <2>2. sentTo[a] = e
    BY <2>1 DEF Right, Current, StoreSound
  <2>3. /\ visit'[q].code = a /\ visit'[q].email = e
        /\ visit'[q].step # "remember"
    BY <2>1 DEF NewVisit
  <2> QED BY <2>1, <2>2, <2>3 DEF VisitSound
<1>3. ASSUME NEW v \in Visits, NEW u \in Persons, Register(v, u), visit'[q] # visit[q]
      PROVE  VisitSound(q)'
  <2>1. /\ v = q /\ visit[q] \in Visit /\ visit[q].step = "register"
        /\ visit'[q] = [visit[q] EXCEPT !.step = "remember", !.person = u]
        /\ person' = [person EXCEPT ![u] = NewPerson(visit[q].email)]
        /\ UNCHANGED <<sentTo, redeemed>>
    BY <1>3 DEF Register, Proceed, Answered, Step, codesHistory
  <2>2. /\ visit'[q].code = visit[q].code /\ visit'[q].email = visit[q].email
        /\ visit'[q].person = u /\ visit[q].email \in Addresses
    BY <2>1 DEF Visit
  <2>3. person'[u] = NewPerson(visit[q].email) /\ person'[u] # Nil
    BY <2>1, <2>2, NewValuesTyped
  <2>4. person'[u].email = visit[q].email
    BY <2>3 DEF NewPerson
  <2> QED BY <2>1, <2>2, <2>3, <2>4 DEF VisitsSound, VisitSound, PastVerify
<1>4. ASSUME NEW v \in Visits, FindActive(v), visit'[q] # visit[q]
      PROVE  VisitSound(q)'
  <2>1. /\ v = q /\ visit[q] \in Visit /\ visit[q].step = "find"
        /\ UNCHANGED <<sentTo, redeemed, person>>
    BY <1>4 DEF FindActive, Proceed, Answered, Step, codesHistory
  <2>2. PICK u \in ActiveOf(visit[q].email) :
          visit'[q] = [visit[q] EXCEPT !.step = "remember", !.person = u]
    BY <1>4, <2>1 DEF FindActive, Proceed, Answered
  <2>3. u \in Persons /\ person[u] # Nil /\ person[u].email = visit[q].email
    BY <2>2 DEF ActiveOf, PersonOf
  <2>4. /\ visit'[q].code = visit[q].code /\ visit'[q].email = visit[q].email
        /\ visit'[q].person = u
    BY <2>1, <2>2 DEF Visit
  <2> QED BY <2>1, <2>3, <2>4 DEF VisitsSound, VisitSound, PastVerify
<1>5. ASSUME NEW v \in Visits, NEW c \in Codes, Create(v, c)
      PROVE  visit'[q] = visit[q]
  <2>1. ASSUME v = q PROVE FALSE
    <3>1. visit[q] \in Visit /\ visit'[q] = [visit[q] EXCEPT !.step = "mail", !.code = c]
      BY <1>5, <2>1 DEF Create, Proceed, Step
    <3>2. visit'[q].step = "mail"
      BY <3>1 DEF Visit
    <3> QED BY <3>2 DEF PastVerify
  <2> QED BY <1>5, <2>1 DEF Create, Proceed
<1>6. ASSUME NEW v \in Visits, NEW e \in Addresses,
             SendRegistrationOTP(v, e) \/ SendAccessVerificationOTP(v, e)
      PROVE  visit'[q] = visit[q]
  BY <1>6 DEF SendRegistrationOTP, SendAccessVerificationOTP, Proceed, NewVisit, PastVerify
<1>7. ASSUME NEW v \in Visits, SendOTPEmail(v) \/ FailVisit(v) \/ RememberDevice(v)
      PROVE  visit'[q] = visit[q]
  BY <1>7 DEF SendOTPEmail, FailVisit, RememberDevice, Answered, Proceed
<1>8. ASSUME NEW u \in Persons, PersonChanges(u)
      PROVE  visit'[q] = visit[q]
  BY <1>8 DEF PersonChanges, Invite, SetStatus, Readdress, DeletePerson, DeviceExpires,
              codesRest
<1>9. TableStep => visit'[q] = visit[q] \/ VisitSound(q)'
  BY <1>3, <1>4, <1>6, <1>7, <1>8 DEF TableStep
<1>10. CASE CleanupCodes \/ CodesRestart \/ \E e \in Addresses : CodeExpires(e)
  <2>1. visit'[q] = visit[q]
    BY <1>10 DEF CleanupCodes, CodesRestart, CodeExpires
  <2> QED BY <1>1, <2>1
<1> QED BY <1>1, <1>2, <1>5, <1>9, <1>10, StepCases

(* A row's device changes only when it is remembered or forgotten.           *)
LEMMA DevicesStaySound ==
  ASSUME CodesInv, CodesNext
  PROVE  DevicesSound'
<1> USE DEF CodesInv, CodesTypeOK
<1> SUFFICES ASSUME NEW u \in Persons, person'[u] # Nil, person'[u].device # Nil
             PROVE  /\ person'[u].device \in redeemed'
                    /\ sentTo'[person'[u].device] = person'[u].email \/ u \in moved'
  BY DEF DevicesSound
<1>1. CASE person[u] # Nil /\ person'[u].device = person[u].device
  <2>1. person[u].device \in Codes \cup {Nil}
    <3>1. person[u] \in PersonRow
      BY <1>1
    <3> QED BY <3>1 DEF PersonRow
  <2> QED BY <1>1, <2>1, KnowledgeStays DEF DevicesSound
<1>2. ASSUME NEW v \in Visits, NEW x \in Persons, Register(v, x)
      PROVE  person[u] # Nil /\ person'[u] = person[u]
  <2>1. visit[v].email \in Addresses
    <3>1. visit[v] \in Visit
      BY <1>2 DEF Register, Step
    <3> QED BY <3>1 DEF Visit
  <2>2. NewPerson(visit[v].email).device = Nil
    BY DEF NewPerson
  <2> QED BY <1>2, <2>2 DEF Register
<1>3. ASSUME NEW v \in Visits, RememberDevice(v), person'[u] # person[u]
      PROVE  /\ person'[u].device \in redeemed'
             /\ sentTo'[person'[u].device] = person'[u].email \/ u \in moved'
  <2>1. VisitSound(v)
    BY DEF VisitsSound
  <2>2. /\ u = visit[v].person /\ person[u] # Nil /\ visit[v].code \in redeemed
        /\ sentTo[visit[v].code] = visit[v].email
        /\ person[u].email = visit[v].email \/ u \in moved
        /\ UNCHANGED <<sentTo, redeemed, moved>>
    BY <1>3, <2>1 DEF RememberDevice, Step, VisitSound, PastVerify, codesHistory
  <2> DEFINE d == IF visit[v].remember THEN visit[v].code ELSE Nil
  <2>3. person'[u] = [person[u] EXCEPT !.device = d] /\ d \in Codes \cup {Nil}
    BY <1>3, <2>2 DEF RememberDevice
  <2>4. person[u] \in PersonRow
    BY <2>2
  <2>5. person'[u].device = d /\ person'[u].email = person[u].email
    BY <2>3, <2>4, RowEdits
  <2> QED BY <2>2, <2>5
<1>4. ASSUME NEW x \in Persons, PersonChanges(x)
      PROVE  person[u] # Nil /\ person'[u].device = person[u].device
  <2>1. CASE x # u
    BY <1>4, <2>1 DEF PersonChanges, Invite, SetStatus, Readdress, DeletePerson, DeviceExpires
  <2>2. CASE x = u
    <3>1. ASSUME NEW e \in Addresses, Invite(u, e) PROVE FALSE
      BY <3>1 DEF Invite, NewPerson
    <3>2. ASSUME person[u] # Nil PROVE person[u] \in PersonRow
      BY <3>2
    <3>3. ASSUME NEW e \in Addresses, Readdress(u, e)
          PROVE  person[u] # Nil /\ person'[u].device = person[u].device
      BY <3>2, <3>3, RowEdits DEF Readdress
    <3>4. ASSUME NEW s \in {"active", "revoked"}, SetStatus(u, s)
          PROVE  person[u] # Nil /\ person'[u].device = person[u].device
      BY <3>2, <3>4, RowEdits DEF SetStatus
    <3>5. ASSUME DeletePerson(u)
          PROVE  person[u] # Nil /\ person'[u].device = person[u].device
      BY <3>2, <3>5, RowEdits DEF DeletePerson
    <3>6. ASSUME DeviceExpires(u) PROVE FALSE
      BY <3>2, <3>6, RowEdits DEF DeviceExpires
    <3> QED BY <1>4, <2>2, <3>1, <3>3, <3>4, <3>5, <3>6 DEF PersonChanges
  <2> QED BY <2>1, <2>2
<1>5. CASE UNCHANGED person
  BY <1>1, <1>5
<1>6. CASE TableStep
  BY <1>1, <1>2, <1>3, <1>4, <1>5, <1>6
     DEF TableStep, SendRegistrationOTP, SendAccessVerificationOTP, SendOTPEmail,
         FailVisit, FindActive
<1> QED
  <2>1. ASSUME NEW v \in Visits, NEW c \in Codes, Create(v, c) PROVE UNCHANGED person
    BY <2>1 DEF Create
  <2>2. ASSUME NEW v, NEW e, NEW a, NEW next, NEW remember,
               Verify(v, e, a, next, remember)
        PROVE  UNCHANGED person
    BY <2>2 DEF Verify
  <2>3. ASSUME CleanupCodes \/ CodesRestart \/ \E e \in Addresses : CodeExpires(e)
        PROVE  UNCHANGED person
    BY <2>3 DEF CodeExpires, CleanupCodes, CodesRestart
  <2> QED BY <1>5, <1>6, <2>1, <2>2, <2>3, StepCases

-----------------------------------------------------------------------------
(* The theorems.                                                             *)

(* The inductive invariant holds however requests, table edits, expiry and   *)
(* restarts interleave (OTPStore, VerifyAccessOTP, VerifyRegistrationOTP).   *)
THEOREM CodesInvariance == CodesSpec => []CodesInv
<1>1. CodesInit => CodesInv
  BY DEF CodesInit, CodesInv, CodesTypeOK, StoreSound, GuessesBounded, VisitsSound,
         VisitSound, DevicesSound
<1>2. CodesInv /\ [CodesNext]_codesVars => CodesInv'
  <2>1. CASE UNCHANGED codesVars
    BY <2>1 DEF codesVars, CodesInv, CodesTypeOK, StoreSound, GuessesBounded,
                VisitsSound, VisitSound, DevicesSound
  <2> QED BY <2>1, CodesTyped, StoreStaysSound, VisitsStaySound, DevicesStaySound
             DEF CodesInv
<1> QED BY <1>1, <1>2, PTL DEF CodesSpec

(* Tables, store and requests keep their types (OneTimeCodes).               *)
THEOREM CodesTypeCorrect == CodesSpec => []CodesTypeOK
<1>1. CodesInv => CodesTypeOK
  BY DEF CodesInv
<1> QED BY <1>1, CodesInvariance, PTL

(* No code is answered wrong more often than the limit, nor accepted at it,  *)
(* whatever requests answer at once (OTPStore.Verify).                       *)
THEOREM GuessSafety == CodesSpec => []GuessesBounded
<1>1. CodesInv => GuessesBounded
  BY DEF CodesInv
<1> QED BY <1>1, CodesInvariance, PTL

(* A recognised browser was won with an accepted code of the address, or its *)
(* user was moved to it by an admin (CheckEmail, VerifyAccessOTP).           *)
THEOREM TrustSafety == CodesSpec => []TrustIsVouched
<1>1. CodesInv => TrustIsVouched
  BY DEF CodesInv, CodesTypeOK, DevicesSound, TrustIsVouched, Recognised, TokenRows
<1> QED BY <1>1, CodesInvariance, PTL

-----------------------------------------------------------------------------
(* The store implements Vouchers.                                            *)

Good == {otp[e].code : e \in {f \in Addresses : otp[f] # Nil /\ ~otp[f].expired}}

(* A step that adds no good code and hands out none is a lapse or a stutter. *)
LEMMA FewerGoodIsLapse ==
  ASSUME UNCHANGED <<sentTo, redeemed>>, Good' \subseteq Good
  PROVE  CodeLedger!Next
BY DEF CodeLedger!Next, CodeLedger!Lapse, Good

LEMMA CodesStepIsVoucherStep ==
  ASSUME CodesInv, [CodesNext]_codesVars
  PROVE  [CodeLedger!Next]_(CodeLedger!vouchers)
<1> USE DEF CodesInv, CodesTypeOK, codesHistory
<1>typed. \A e \in Addresses : otp[e] # Nil =>
            otp[e] \in OtpRecord /\ otp[e].code \in Codes
  BY DEF OtpRecord
<1>1. CASE UNCHANGED <<otp, codesHistory>>
  BY <1>1 DEF CodeLedger!vouchers
<1>2. ASSUME NEW v \in Visits, NEW c \in Codes, Create(v, c)
      PROVE  CodeLedger!Next
  <2>1. PICK e \in Addresses : e = visit[v].email
    <3>1. visit[v] \in Visit
      BY <1>2 DEF Create, Step
    <3> QED BY <3>1 DEF Visit
  <2> DEFINE new == [code |-> c, attempts |-> 0, expired |-> FALSE]
  <2>2. /\ sentTo[c] = Nil /\ UNCHANGED redeemed
        /\ otp' = [otp EXCEPT ![e] = new] /\ sentTo' = [sentTo EXCEPT ![c] = e]
    BY <1>2, <2>1 DEF Create
  <2>3. \A f \in Addresses : otp'[f] = IF f = e THEN new ELSE otp[f]
    BY <2>1, <2>2
  <2>4. new # Nil /\ new.code = c /\ new.expired = FALSE
    BY NewValuesTyped, <2>1
  <2>5. Good' = {c} \cup (Good \ {d \in Codes : sentTo[d] = e})
    <3> HIDE DEF new
    <3>1. ASSUME NEW x \in Good' PROVE x \in {c} \cup (Good \ {d \in Codes : sentTo[d] = e})
      <4>1. PICK f \in Addresses : otp'[f] # Nil /\ ~otp'[f].expired /\ x = otp'[f].code
        BY DEF Good
      <4>2. CASE f = e
        BY <2>3, <2>4, <4>1, <4>2
      <4>3. CASE f # e
        <5>1. otp[f] = otp'[f] /\ sentTo[x] = f
          BY <2>3, <4>1, <4>3 DEF StoreSound
        <5> QED BY <4>1, <4>3, <5>1 DEF Good
      <4> QED BY <4>2, <4>3
    <3>2. c \in Good'
      BY <2>1, <2>3, <2>4 DEF Good
    <3>3. ASSUME NEW x \in Good, x \notin {d \in Codes : sentTo[d] = e} PROVE x \in Good'
      <4>1. PICK f \in Addresses : otp[f] # Nil /\ ~otp[f].expired /\ x = otp[f].code
        BY DEF Good
      <4>2. x \in Codes /\ sentTo[x] = f /\ f # e
        BY <1>typed, <3>3, <4>1 DEF StoreSound
      <4> QED BY <2>3, <4>1, <4>2 DEF Good
    <3> QED BY <3>1, <3>2, <3>3
  <2>6. Good' = {c} \cup (Good \ CodeLedger!HeldBy(e))
    BY <2>5 DEF CodeLedger!HeldBy
  <2>7. CodeLedger!Issue(c, e)
    BY <2>2, <2>6 DEF CodeLedger!Issue, Good
  <2> QED BY <2>1, <2>7 DEF CodeLedger!Next
<1>3. ASSUME NEW v \in Visits, NEW e \in Addresses, NEW a \in Answers,
             NEW next \in {"register", "find"}, NEW remember \in BOOLEAN,
             Verify(v, e, a, next, remember)
      PROVE  CodeLedger!Next
  <2>1. CASE Right(e, a)
    <3>1. /\ a \in Codes /\ otp[e] # Nil /\ ~otp[e].expired /\ otp[e].code = a
          /\ otp' = [otp EXCEPT ![e] = Nil] /\ redeemed' = redeemed \cup {a}
          /\ UNCHANGED sentTo
      BY <1>3, <2>1, <1>typed DEF Verify, Right, Current
    <3>2. \A f \in Addresses \ {e} : otp[f] # Nil => otp[f].code # a
      BY <3>1 DEF StoreSound
    <3>3. a \in Good /\ Good' = Good \ {a}
      BY <3>1, <3>2 DEF Good
    <3>4. CodeLedger!Spend(a)
      BY <3>1, <3>3 DEF CodeLedger!Spend, Good
    <3> QED BY <3>1, <3>4 DEF CodeLedger!Next
  <2>2. CASE ~Right(e, a)
    <3>1. UNCHANGED <<sentTo, redeemed>>
      BY <1>3, <2>2 DEF Verify
    <3>2. \A f \in Addresses \ {e} : otp'[f] = otp[f]
      BY <1>3, <2>2 DEF Verify
    <3>3. otp'[e] # Nil =>
            /\ otp[e] # Nil /\ otp'[e].code = otp[e].code
            /\ ~otp'[e].expired => ~otp[e].expired
      <4>1. otp'[e] = IF Current(e) THEN Counted(otp[e]) ELSE Nil
        BY <1>3, <2>2 DEF Verify
      <4> QED BY <4>1, <1>typed DEF Current, Counted, OtpRecord
    <3>4. ASSUME NEW x \in Good' PROVE x \in Good
      <4>1. PICK f \in Addresses : otp'[f] # Nil /\ ~otp'[f].expired /\ x = otp'[f].code
        BY DEF Good
      <4>2. otp[f] # Nil /\ ~otp[f].expired /\ x = otp[f].code
        BY <3>2, <3>3, <4>1
      <4> QED BY <4>2 DEF Good
    <3> QED BY <3>1, <3>4, FewerGoodIsLapse
  <2> QED BY <2>1, <2>2
<1>4. ASSUME NEW e \in Addresses, CodeExpires(e)
      PROVE  CodeLedger!Next
  <2>1. /\ otp[e] \in OtpRecord /\ UNCHANGED codesHistory
        /\ otp' = [otp EXCEPT ![e] = [otp[e] EXCEPT !.expired = TRUE]]
    BY <1>4, <1>typed DEF CodeExpires, Current
  <2>2. otp'[e].expired /\ \A f \in Addresses \ {e} : otp'[f] = otp[f]
    BY <2>1 DEF OtpRecord
  <2>3. Good' \subseteq Good
    BY <2>2 DEF Good
  <2> QED BY <2>1, <2>3, FewerGoodIsLapse
<1>5. CASE CleanupCodes \/ CodesRestart
  <2>1. /\ UNCHANGED codesHistory
        /\ \A e \in Addresses : otp'[e] # Nil => otp'[e] = otp[e]
    BY <1>5 DEF CleanupCodes, CodesRestart, Swept
  <2>2. Good' \subseteq Good
    BY <2>1 DEF Good
  <2> QED BY <2>1, <2>2, FewerGoodIsLapse
<1>6. CASE UNCHANGED codesVars
  BY <1>1, <1>6 DEF codesVars
<1> QED BY <1>1, <1>2, <1>3, <1>4, <1>5, <1>6, StepCases, TableStepKeepsStore

(* The store of codes keeps the promise of Vouchers, one good code per       *)
(* address: every step of the server is one of its steps or none (OTPStore). *)
THEOREM CodesRefinement == CodesSpec => CodesAreVouchers
<1>1. CodesInit => CodeLedger!Init
  BY DEF CodesInit, CodeLedger!Init
<1> QED
  BY <1>1, CodesStepIsVoucherStep, CodesInvariance, PTL
     DEF CodesSpec, CodesAreVouchers, CodeLedger!Spec
=============================================================================

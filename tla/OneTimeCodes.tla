---------------------------- MODULE OneTimeCodes ----------------------------
(* Six-digit codes mailed to an address, and what they win: a registration,  *)
(* and a browser that is trusted for ninety days.  The store of codes is     *)
(* memory behind a mutex, the users table is in the database, and a handler  *)
(* visits them one after the other: users are invited, activated, moved to   *)
(* another address and deleted between its steps.                            *)
(* A trusted-device token is named by the code it was won with.              *)
EXTENDS Integers, FiniteSets

CONSTANTS
  Persons,     \* ids the users table may hand out
  Addresses,   \* normalised email addresses
  Codes,       \* codes that may be generated: a bound on Create
  Visits,      \* requests being handled
  OTPMaxAttempts,
  Nil          \* no row, no code, no request

PersonRow == [email: Addresses, status: {"pending", "active", "revoked"},
              device: Codes \cup {Nil}, deleted: BOOLEAN]
OtpRecord == [code: Codes, attempts: Nat, expired: BOOLEAN]

(* The state of a request: what it does next, and the values it holds.       *)
Visit == [step: {"create", "mail", "register", "find", "remember"},
          email: Addresses, code: Codes \cup {Nil}, person: Persons \cup {Nil},
          remember: BOOLEAN]

ASSUME CodesAssumption ==
  /\ OTPMaxAttempts \in Nat \ {0}
  /\ Nil \notin Addresses \cup Codes \cup Persons
  /\ Nil \notin PersonRow /\ Nil \notin OtpRecord /\ Nil \notin Visit

VARIABLES
  person,   \* the users table
  otp,      \* OTPStore.codes: address -> record
  visit,    \* requests
  sentTo,   \* history: code -> the address it was generated for
  redeemed, \* history: codes Verify has accepted
  wrong,    \* history: code -> wrong answers given while it was current
  moved     \* history: users an admin gave another address

codesVars == <<person, otp, visit, sentTo, redeemed, wrong, moved>>

CodesTypeOK ==
  /\ person \in [Persons -> PersonRow \cup {Nil}]
  /\ otp \in [Addresses -> OtpRecord \cup {Nil}]
  /\ visit \in [Visits -> Visit \cup {Nil}]
  /\ sentTo \in [Codes -> Addresses \cup {Nil}]
  /\ redeemed \subseteq Codes /\ wrong \in [Codes -> Nat] /\ moved \subseteq Persons

CodesInit ==
  /\ person = [u \in Persons |-> Nil]
  /\ otp = [e \in Addresses |-> Nil]
  /\ visit = [v \in Visits |-> Nil]
  /\ sentTo = [c \in Codes |-> Nil]
  /\ redeemed = {} /\ wrong = [c \in Codes |-> 0] /\ moved = {}

(* GetByEmail: the live row of an address.                                   *)
PersonOf(e) == {u \in Persons : /\ person[u] # Nil /\ ~person[u].deleted
                                /\ person[u].email = e}
ActiveOf(e) == {u \in PersonOf(e) : person[u].status = "active"}

codesHistory == <<sentTo, redeemed, wrong>>

Proceed(v, state) == visit' = [visit EXCEPT ![v] = state]
Answered(v) == Proceed(v, Nil)
Step(v, name) == visit[v] # Nil /\ visit[v].step = name
NewVisit(name, e) == [step |-> name, email |-> e, code |-> Nil, person |-> Nil,
                      remember |-> FALSE]

-----------------------------------------------------------------------------
(* Asking for a code.                                                        *)

(* SendRegistrationOTP is for addresses not registered yet, but takes a      *)
(* lookup that fails for one that finds nobody: any address may pass.        *)
SendRegistrationOTP(v, e) ==
  /\ visit[v] = Nil
  /\ Proceed(v, NewVisit("create", e))
  /\ UNCHANGED <<person, otp, codesHistory, moved>>

(* SendAccessVerificationOTP: it must belong to an active user.              *)
SendAccessVerificationOTP(v, e) ==
  /\ visit[v] = Nil /\ ActiveOf(e) # {}
  /\ Proceed(v, NewVisit("create", e))
  /\ UNCHANGED <<person, otp, codesHistory, moved>>

(* OTPStore.Create: a new code, in place of any earlier one.                 *)
Create(v, c) ==
  /\ Step(v, "create") /\ sentTo[c] = Nil
  /\ LET e == visit[v].email IN
     /\ otp' = [otp EXCEPT ![e] = [code |-> c, attempts |-> 0, expired |-> FALSE]]
     /\ sentTo' = [sentTo EXCEPT ![c] = e]
  /\ Proceed(v, [visit[v] EXCEPT !.step = "mail", !.code = c])
  /\ UNCHANGED <<person, redeemed, wrong, moved>>

(* The mail is sent before the answer; refused, the code is good all the same. *)
SendOTPEmail(v) ==
  /\ Step(v, "mail")
  /\ Answered(v)
  /\ UNCHANGED <<person, otp, codesHistory, moved>>

-----------------------------------------------------------------------------
(* Giving it back.  An answer is any six digits: a code, good for any        *)
(* address or for none any more, or digits that are no code.                 *)

Answers == Codes \cup {Nil}

(* A slip: nobody looks at the clock.                                        *)
Current_NoClock(e) == otp[e] # Nil

Current(e) == otp[e] # Nil /\ ~otp[e].expired

(* A slip: codes found by their digits, whatever the address.                *)
Right_AnyAddress(e, a) == \E f \in Addresses : Current(f) /\ otp[f].code = a

Right(e, a) == Current(e) /\ otp[e].code = a

(* A slip: the record is a copy, and the count is not stored back.           *)
Counted_NotStored(r) == IF r.attempts + 1 >= OTPMaxAttempts THEN Nil ELSE r

(* A wrong answer is counted in the record and uses it up at the limit.      *)
Counted(r) == IF r.attempts + 1 >= OTPMaxAttempts
              THEN Nil ELSE [r EXCEPT !.attempts = @ + 1]

(* OTPStore.Verify, one step under the mutex; then the handler goes on with  *)
(* `next', to register the address or to find its user.                      *)
Verify(v, e, a, next, remember) ==
  /\ visit[v] = Nil
  /\ IF Right(e, a)
     THEN /\ otp' = [otp EXCEPT ![e] = Nil]
          /\ redeemed' = redeemed \cup {a}
          /\ Proceed(v, [NewVisit(next, e) EXCEPT !.code = a, !.remember = remember])
          /\ UNCHANGED wrong
     ELSE /\ otp' = [otp EXCEPT ![e] = IF Current(e) THEN Counted(@) ELSE Nil]
          /\ wrong' = IF Current(e) THEN [wrong EXCEPT ![otp[e].code] = @ + 1]
                                    ELSE wrong
          /\ UNCHANGED <<redeemed, visit>>
  /\ UNCHANGED <<person, sentTo, moved>>

VerifyRegistrationOTP(v, e, a, remember) == Verify(v, e, a, "register", remember)
VerifyAccessOTP(v, e, a, remember) == Verify(v, e, a, "find", remember)

NewPerson(e) == [email |-> e, status |-> "pending", device |-> Nil, deleted |-> FALSE]

(* UserModel.Register: the index on live addresses may refuse the row, which *)
(* leaves the existing user as it is.                                        *)
Register(v, u) ==
  /\ Step(v, "register")
  /\ IF PersonOf(visit[v].email) = {}
     THEN /\ person[u] = Nil
          /\ person' = [person EXCEPT ![u] = NewPerson(visit[v].email)]
          /\ Proceed(v, [visit[v] EXCEPT !.step = "remember", !.person = u])
     ELSE Answered(v) /\ UNCHANGED person
  /\ UNCHANGED <<otp, codesHistory, moved>>

FindActive(v) ==
  /\ Step(v, "find")
  /\ \/ \E u \in ActiveOf(visit[v].email) :
          Proceed(v, [visit[v] EXCEPT !.step = "remember", !.person = u])
     \/ ActiveOf(visit[v].email) = {} /\ Answered(v)
  /\ UNCHANGED <<person, otp, codesHistory, moved>>

(* SetDeviceToken and ClearDeviceToken, by id: one device at a time.         *)
RememberDevice(v) ==
  /\ Step(v, "remember")
  /\ person' = [person EXCEPT ![visit[v].person].device =
                  IF visit[v].remember THEN visit[v].code ELSE Nil]
  /\ Answered(v)
  /\ UNCHANGED <<otp, codesHistory, moved>>

(* A statement fails: what the steps before it did stays done.               *)
FailVisit(v) ==
  /\ visit[v] # Nil /\ visit[v].step \notin {"create", "mail"}
  /\ Answered(v)
  /\ UNCHANGED <<person, otp, codesHistory, moved>>

-----------------------------------------------------------------------------
(* Meanwhile.                                                                *)

codesRest == <<otp, visit, codesHistory>>

Invite(u, e) ==
  /\ person[u] = Nil /\ PersonOf(e) = {}
  /\ person' = [person EXCEPT ![u] = NewPerson(e)]
  /\ UNCHANGED <<codesRest, moved>>

SetStatus(u, s) ==
  /\ person[u] # Nil /\ ~person[u].deleted /\ person[u].status # s
  /\ person' = [person EXCEPT ![u].status = s]
  /\ UNCHANGED <<codesRest, moved>>

(* UserModel.Update: a new address, and the old trusted device stays.        *)
Readdress(u, e) ==
  /\ person[u] # Nil /\ ~person[u].deleted /\ PersonOf(e) = {}
  /\ person' = [person EXCEPT ![u].email = e]
  /\ moved' = moved \cup {u}
  /\ UNCHANGED codesRest

DeletePerson(u) ==
  /\ person[u] # Nil /\ ~person[u].deleted
  /\ person' = [person EXCEPT ![u].deleted = TRUE]
  /\ UNCHANGED <<codesRest, moved>>

(* Ninety days: an expired token matches no more, as if it were not there.   *)
DeviceExpires(u) ==
  /\ person[u] # Nil /\ person[u].device # Nil
  /\ person' = [person EXCEPT ![u].device = Nil]
  /\ UNCHANGED <<codesRest, moved>>

(* Ten minutes.                                                              *)
CodeExpires(e) ==
  /\ Current(e)
  /\ otp' = [otp EXCEPT ![e].expired = TRUE]
  /\ UNCHANGED <<person, visit, codesHistory, moved>>

(* A slip: the comparison with the clock the wrong way round.                *)
Swept_Early(r) == IF r # Nil /\ ~r.expired THEN Nil ELSE r

Swept(r) == IF r # Nil /\ r.expired THEN Nil ELSE r

(* cleanupLoop, every five minutes.                                          *)
CleanupCodes ==
  /\ otp' = [e \in Addresses |-> Swept(otp[e])]
  /\ UNCHANGED <<person, visit, codesHistory, moved>>

(* The process stops: the store and the requests are gone.                   *)
CodesRestart ==
  /\ otp' = [e \in Addresses |-> Nil]
  /\ visit' = [v \in Visits |-> Nil]
  /\ UNCHANGED <<person, codesHistory, moved>>

CodesHandler(v) ==
  \/ \E e \in Addresses :
       \/ SendRegistrationOTP(v, e) \/ SendAccessVerificationOTP(v, e)
       \/ \E a \in Answers, remember \in BOOLEAN :
            \/ VerifyRegistrationOTP(v, e, a, remember)
            \/ VerifyAccessOTP(v, e, a, remember)
  \/ \E c \in Codes : Create(v, c)
  \/ SendOTPEmail(v)
  \/ \E u \in Persons : Register(v, u)
  \/ FindActive(v) \/ RememberDevice(v) \/ FailVisit(v)

PersonChanges(u) ==
  \/ \E e \in Addresses : Invite(u, e) \/ Readdress(u, e)
  \/ \E s \in {"active", "revoked"} : SetStatus(u, s)
  \/ DeletePerson(u) \/ DeviceExpires(u)

CodesStep ==
  \/ \E v \in Visits : CodesHandler(v)
  \/ \E u \in Persons : PersonChanges(u)
  \/ \E e \in Addresses : CodeExpires(e)
  \/ CleanupCodes

CodesNext == CodesStep \/ CodesRestart

CodesSpec == CodesInit /\ [][CodesNext]_codesVars

-----------------------------------------------------------------------------
(* Properties.                                                               *)

CodeLedger == INSTANCE Vouchers WITH
  Number <- Codes, Holder <- Addresses, Nobody <- Nil, OnePerHolder <- TRUE,
  issued <- sentTo, spent <- redeemed,
  good <- {otp[e].code : e \in {f \in Addresses : otp[f] # Nil /\ ~otp[f].expired}}

(* The store keeps its promise whatever requests, expiries and restarts do:  *)
(* a code is for one address, is accepted at most once, not after it expired *)
(* or a newer one was sent, and at most one per address is good              *)
(* (OTPStore, otp_store.go).                                                 *)
CodesAreVouchers == CodeLedger!Spec

(* A code is never answered wrong more often than the limit, and not         *)
(* accepted once the limit is reached, across all requests (Verify).         *)
GuessesBounded == \A c \in Codes :
  /\ wrong[c] <= OTPMaxAttempts
  /\ c \in redeemed => wrong[c] < OTPMaxAttempts

(* The rows DeviceTokenMatches may look at: deleted ones are not left out.   *)
TokenRows(e) == {u \in Persons : person[u] # Nil /\ person[u].email = e}

(* CheckEmail tells a browser with token c that it is e's trusted device.    *)
Recognised(e, c) == /\ ActiveOf(e) # {}
                    /\ \E u \in TokenRows(e) : person[u].device = c

(* A browser is recognised for an address only if it was won with a code     *)
(* that was sent to this address and accepted, or its user was given the     *)
(* address by an admin: codes, users and devices are tied by address, then   *)
(* by id, in separate steps (VerifyAccessOTP, CheckEmail).                   *)
TrustIsVouched == \A e \in Addresses, c \in Codes :
  Recognised(e, c) =>
    /\ c \in redeemed
    /\ sentTo[c] = e \/ \E u \in TokenRows(e) \cap moved : person[u].device = c

(* Codes nobody uses do not stay in memory: again and again the store holds  *)
(* no expired one (cleanupLoop).                                             *)
ExpiredCodesLeave == []<>(\A e \in Addresses : otp[e] # Nil => ~otp[e].expired)
=============================================================================

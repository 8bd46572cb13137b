--------------------------- MODULE PasswordResets ---------------------------
(* A forgotten admin password: a link is mailed to an admin whose username   *)
(* and address match, and whoever holds the link may set one new password.   *)
(* The links live in memory behind a mutex, the password in the admins       *)
(* table; between the two the admin may be edited, revoked or deleted, the   *)
(* statement may fail, and the process may stop.                             *)
EXTENDS AdminTable

CONSTANTS
  Links,       \* tokens that may be generated: a bound on Create
  Forms,       \* requests being handled
  Empty        \* no link, no admin, no request

Form == [step: {"create", "apply"}, admin: Staff, link: Links \cup {Empty}]
ResetTokenData == [admin: Staff, expired: BOOLEAN]

ASSUME LinksAssumption ==
  /\ Empty \notin Links \cup Staff /\ Empty \notin Form
  /\ Empty \notin ResetTokenData /\ Links \subseteq Secrets

VARIABLES
  token,     \* ResetStore.tokens: link -> data
  form,      \* requests
  mintedFor, \* history: link -> the admin it was generated for
  consumed,  \* history: links Consume has accepted
  applied,   \* history: links that have set a password
  dropped    \* history: consumed links whose request failed or was lost

linksVars == <<token, form, mintedFor, consumed, applied, dropped>>
linksHistory == <<mintedFor, consumed, applied, dropped>>

LinksTypeOK ==
  /\ token \in [Links -> ResetTokenData \cup {Empty}]
  /\ form \in [Forms -> Form \cup {Empty}]
  /\ mintedFor \in [Links -> Staff \cup {Empty}]
  /\ consumed \subseteq Links /\ applied \subseteq Links /\ dropped \subseteq Links

LinksInit ==
  /\ token = [l \in Links |-> Empty]
  /\ form = [f \in Forms |-> Empty]
  /\ mintedFor = [l \in Links |-> Empty]
  /\ consumed = {} /\ applied = {} /\ dropped = {}

Submit(f, state) == form' = [form EXCEPT ![f] = state]
Fresh(f) == form[f] = Empty
AtStep(f, name) == form[f] # Empty /\ form[f].step = name

(* GetByUsernameAndEmail: both must be the ones of one active live row.      *)
Matching(username, email) ==
  {a \in WithUsername(username) \cap WithEmail(email) : staff[a].status = "active"}

(* ForgotPassword; a request that matches nobody gets the same answer.       *)
ForgotPassword(f, username, email) ==
  /\ Fresh(f)
  /\ \E a \in Matching(username, email) :
       Submit(f, [step |-> "create", admin |-> a, link |-> Empty])
  /\ UNCHANGED <<staff, token, linksHistory>>

(* ResetStore.Create; the link goes out by mail, which may fail.             *)
MintLink(f, l) ==
  /\ AtStep(f, "create") /\ mintedFor[l] = Empty
  /\ token' = [token EXCEPT ![l] = [admin |-> form[f].admin, expired |-> FALSE]]
  /\ mintedFor' = [mintedFor EXCEPT ![l] = form[f].admin]
  /\ Submit(f, Empty)
  /\ UNCHANGED <<staff, consumed, applied, dropped>>

Usable(l) == token[l] # Empty /\ ~token[l].expired

(* A slip: looked up under the lock, deleted only after the password is set. *)
ResetPassword_Later(f, l, strong) ==
  /\ Fresh(f) /\ strong
  /\ IF Usable(l)
     THEN /\ consumed' = consumed \cup {l}
          /\ Submit(f, [step |-> "apply", admin |-> token[l].admin, link |-> l])
     ELSE UNCHANGED <<consumed, form>>
  /\ UNCHANGED <<staff, token, mintedFor, applied, dropped>>

(* A slip: the password is judged after the link is consumed.                *)
ResetPassword_JudgeLate(f, l, strong) ==
  /\ Fresh(f)
  /\ token' = [token EXCEPT ![l] = Empty]
  /\ IF Usable(l)
     THEN /\ consumed' = consumed \cup {l}
          /\ IF strong
             THEN Submit(f, [step |-> "apply", admin |-> token[l].admin, link |-> l])
             ELSE UNCHANGED form
     ELSE UNCHANGED <<consumed, form>>
  /\ UNCHANGED <<staff, mintedFor, applied, dropped>>

(* ResetPassword: a weak password is refused before the store is asked;      *)
(* Consume deletes the link, expired or not, in the step that reads it.      *)
ResetPassword(f, l, strong) ==
  /\ Fresh(f) /\ strong
  /\ token' = [token EXCEPT ![l] = Empty]
  /\ IF Usable(l)
     THEN /\ consumed' = consumed \cup {l}
          /\ Submit(f, [step |-> "apply", admin |-> token[l].admin, link |-> l])
     ELSE UNCHANGED <<consumed, form>>
  /\ UNCHANGED <<staff, mintedFor, applied, dropped>>

(* ApplyPasswordReset, by id.                                                *)
ApplyPasswordReset(f) ==
  /\ AtStep(f, "apply")
  /\ SetPassword(form[f].admin, form[f].link)
  /\ applied' = applied \cup {form[f].link}
  /\ Submit(f, Empty)
  /\ UNCHANGED <<token, mintedFor, consumed, dropped>>

(* The statement fails: the link is used up and the password as it was.      *)
FailForm(f) ==
  /\ AtStep(f, "apply")
  /\ dropped' = dropped \cup {form[f].link}
  /\ Submit(f, Empty)
  /\ UNCHANGED <<staff, token, mintedFor, consumed, applied>>

(* Fifteen minutes.                                                          *)
LinkExpires(l) ==
  /\ Usable(l)
  /\ token' = [token EXCEPT ![l].expired = TRUE]
  /\ UNCHANGED <<staff, form, linksHistory>>

(* A slip: the comparison with the clock the wrong way round.                *)
SweptLink_Early(d) == IF d # Empty /\ ~d.expired THEN Empty ELSE d

SweptLink(d) == IF d # Empty /\ d.expired THEN Empty ELSE d

(* cleanupLoop, every five minutes.                                          *)
CleanupLinks ==
  /\ token' = [l \in Links |-> SweptLink(token[l])]
  /\ UNCHANGED <<staff, form, linksHistory>>

LinksOf(forms) == {form[f].link : f \in {g \in forms : AtStep(g, "apply")}}

(* The process stops.                                                        *)
LinksRestart ==
  /\ token' = [l \in Links |-> Empty]
  /\ form' = [f \in Forms |-> Empty]
  /\ dropped' = dropped \cup LinksOf(Forms)
  /\ UNCHANGED <<staff, mintedFor, consumed, applied>>

LinksHandler(f) ==
  \/ \E m, n \in Mails : ForgotPassword(f, m, n)
  \/ \E l \in Links : MintLink(f, l) \/ \E strong \in BOOLEAN : ResetPassword(f, l, strong)
  \/ ApplyPasswordReset(f) \/ FailForm(f)

LinksStep ==
  \/ \E f \in Forms : LinksHandler(f)
  \/ \E l \in Links : LinkExpires(l)
  \/ CleanupLinks

LinksNext == LinksStep \/ LinksRestart

(* Whatever the other handlers and the migration do to the admins table.     *)
LinksSpec == LinksInit /\ [][LinksNext]_linksVars

-----------------------------------------------------------------------------
(* Properties.                                                               *)

LinkLedger == INSTANCE Vouchers WITH
  Number <- Links, Holder <- Staff, Nobody <- Empty, OnePerHolder <- FALSE,
  issued <- mintedFor, good <- {l \in Links : token[l] # Empty /\ ~token[l].expired}, spent <- consumed

(* The store keeps its promise under concurrent requests, expiry and         *)
(* restarts: a link is for one admin and accepted at most once, though an    *)
(* admin may hold several good links at a time (ResetStore.Consume).         *)
LinksAreVouchers == LinkLedger!Spec

(* A link is not wasted: once accepted it has set a password or is about to, *)
(* unless the statement failed or the process stopped; a refused password    *)
(* leaves it good (ResetPassword).                                           *)
SpentLinksTakeEffect == consumed \subseteq applied \cup dropped \cup LinksOf(Forms)

(* Unused links do not stay in memory: again and again the store holds no    *)
(* expired one (cleanupLoop).                                                *)
ExpiredLinksLeave == []<>(\A l \in Links : token[l] # Empty => ~token[l].expired)
=============================================================================

----------------------- MODULE PasswordResets_proofs ------------------------
(* Proofs about PasswordResets, for any links, forms and admins, whatever    *)
(* else happens to the admins table.                                         *)
EXTENDS PasswordResets, TLAPS

USE LinksAssumption

-----------------------------------------------------------------------------
(* The inductive invariant.                                                  *)

(* A link in the store was minted for the admin it names and not consumed.   *)
TokensSound ==
  /\ \A l \in Links : token[l] # Empty =>
       mintedFor[l] = token[l].admin /\ l \notin consumed
  /\ \A l \in consumed : mintedFor[l] # Empty

(* A form about to set a password has consumed a link of this admin.         *)
FormSound(f) ==
  AtStep(f, "apply") => /\ form[f].link \in consumed
                        /\ mintedFor[form[f].link] = form[f].admin
FormsSound == \A f \in Forms : FormSound(f)

LinksInv == LinksTypeOK /\ TokensSound /\ FormsSound /\ SpentLinksTakeEffect

(* What is known of a consumed link stays known, and so a form that does not *)
(* move stays sound.                                                         *)
LEMMA OtherFormsSound ==
  ASSUME LinksInv, NEW f \in Forms, consumed \subseteq consumed',
         \A l \in consumed : mintedFor'[l] = mintedFor[l],
         \A g \in Forms \ {f} : form'[g] = form[g],
         FormSound(f)'
  PROVE  FormsSound'
BY DEF LinksInv, FormsSound, FormSound, AtStep

(* The links accepted by requests that have yet to set the password.         *)
LEMMA LinksInHand ==
  ASSUME NEW l
  PROVE  l \in LinksOf(Forms) <=>
           \E f \in Forms : AtStep(f, "apply") /\ form[f].link = l
BY DEF LinksOf

(* A step on the store or the table alone, or by one fresh form, leaves the  *)
(* links in hand in hand.                                                    *)
LEMMA LinksStayInHand ==
  ASSUME NEW f \in Forms, ~AtStep(f, "apply"),
         \A g \in Forms \ {f} : form'[g] = form[g]
  PROVE  LinksOf(Forms) \subseteq LinksOf(Forms)'
<1> SUFFICES ASSUME NEW l \in LinksOf(Forms) PROVE l \in LinksOf(Forms)'
  OBVIOUS
<1>1. PICK g \in Forms : AtStep(g, "apply") /\ form[g].link = l
  BY LinksInHand
<1>2. form'[g] # Empty /\ form'[g].step = "apply" /\ form'[g].link = l
  BY <1>1 DEF AtStep
<1> QED BY <1>2 DEF LinksOf, AtStep

LEMMA MatchingAreStaff ==
  \A m, n : Matching(m, n) \subseteq Staff
BY DEF Matching, WithUsername, LiveStaff

-----------------------------------------------------------------------------
(* Every step keeps it.                                                      *)

LEMMA HandlerKeepsInv ==
  ASSUME LinksInv, NEW f \in Forms, LinksHandler(f)
  PROVE  LinksInv'
<1> USE DEF LinksInv, LinksTypeOK, Submit, linksHistory
<1>1. ASSUME NEW m \in Mails, NEW n \in Mails, ForgotPassword(f, m, n)
      PROVE  LinksInv'
  <2>1. PICK a \in Staff :
          form' = [form EXCEPT ![f] = [step |-> "create", admin |-> a, link |-> Empty]]
    BY <1>1, MatchingAreStaff DEF ForgotPassword
  <2>2. [step |-> "create", admin |-> a, link |-> Empty] \in Form
    BY DEF Form
  <2>3. LinksTypeOK'
    BY <1>1, <2>1, <2>2 DEF ForgotPassword
  <2>4. LinksOf(Forms) \subseteq LinksOf(Forms)'
    BY <1>1, <2>1, LinksStayInHand DEF ForgotPassword, Fresh, AtStep
  <2>5. FormsSound'
    <3>1. FormSound(f)'
      BY <2>1 DEF FormSound, AtStep
    <3> QED BY <1>1, <2>1, <3>1, OtherFormsSound DEF ForgotPassword
  <2> QED BY <1>1, <2>3, <2>4, <2>5 DEF ForgotPassword, TokensSound, SpentLinksTakeEffect
<1>2. ASSUME NEW l \in Links, MintLink(f, l)
      PROVE  LinksInv'
  <2>1. PICK a \in Staff : a = form[f].admin
    <3>1. form[f] \in Form
      BY <1>2 DEF MintLink, AtStep
    <3> QED BY <3>1 DEF Form
  <2> DEFINE new == [admin |-> a, expired |-> FALSE]
  <2>2. /\ token' = [token EXCEPT ![l] = new] /\ mintedFor' = [mintedFor EXCEPT ![l] = a]
        /\ form' = [form EXCEPT ![f] = Empty] /\ mintedFor[l] = Empty
        /\ UNCHANGED <<consumed, applied, dropped>>
    BY <1>2, <2>1 DEF MintLink
  <2>3. new \in ResetTokenData /\ new.admin = a
    BY DEF ResetTokenData
  <2> HIDE DEF new
  <2>4. LinksTypeOK'
    BY <2>2, <2>3
  <2>5. TokensSound'
    BY <2>2, <2>3 DEF TokensSound
  <2>6. LinksOf(Forms) \subseteq LinksOf(Forms)'
    BY <1>2, <2>2, LinksStayInHand DEF MintLink, AtStep
  <2>7. FormsSound'
    <3>1. FormSound(f)'
      BY <2>2 DEF FormSound, AtStep
    <3>2. \A k \in consumed : mintedFor'[k] = mintedFor[k]
      BY <2>2 DEF TokensSound
    <3> QED BY <2>2, <3>1, <3>2, OtherFormsSound
  <2> QED BY <2>2, <2>4, <2>5, <2>6, <2>7 DEF SpentLinksTakeEffect
<1>3. ASSUME NEW l \in Links, NEW strong \in BOOLEAN, ResetPassword(f, l, strong)
      PROVE  LinksInv'
  <2>1. CASE ~Usable(l)
    <3>1. /\ token' = [token EXCEPT ![l] = Empty]
          /\ UNCHANGED <<form, mintedFor, consumed, applied, dropped>>
      BY <1>3, <2>1 DEF ResetPassword
    <3>2. LinksOf(Forms)' = LinksOf(Forms)
      BY <3>1 DEF LinksOf, AtStep
    <3>3. TokensSound' /\ SpentLinksTakeEffect'
      BY <3>1, <3>2 DEF TokensSound, SpentLinksTakeEffect
    <3>4. FormsSound'
      BY <3>1 DEF FormsSound, FormSound, AtStep
    <3> QED BY <3>1, <3>3, <3>4
  <2>2. CASE Usable(l)
    <3>1. PICK w \in Form : /\ w = [step |-> "apply", admin |-> token[l].admin, link |-> l]
                            /\ w.step = "apply" /\ w.link = l /\ w.admin = token[l].admin
      <4>1. token[l] \in ResetTokenData
        BY <2>2 DEF Usable
      <4>2. token[l].admin \in Staff
        BY <4>1 DEF ResetTokenData
      <4>3. [step |-> "apply", admin |-> token[l].admin, link |-> l] \in Form
        BY <4>2 DEF Form
      <4> QED BY <4>3
    <3>2. /\ token' = [token EXCEPT ![l] = Empty] /\ form' = [form EXCEPT ![f] = w]
          /\ consumed' = consumed \cup {l} /\ form[f] = Empty
          /\ UNCHANGED <<mintedFor, applied, dropped>>
      BY <1>3, <2>2, <3>1 DEF ResetPassword, Fresh
    <3>3. mintedFor[l] = token[l].admin /\ mintedFor[l] # Empty
      <4>1. token[l] \in ResetTokenData
        BY <2>2 DEF Usable
      <4>2. token[l].admin \in Staff
        BY <4>1 DEF ResetTokenData
      <4> QED BY <2>2, <4>2 DEF TokensSound, Usable
    <3>4. LinksTypeOK'
      BY <3>1, <3>2
    <3>5. TokensSound'
      BY <3>2, <3>3 DEF TokensSound
    <3>6. LinksOf(Forms) \subseteq LinksOf(Forms)'
      BY <3>2, LinksStayInHand DEF AtStep
    <3>7. l \in LinksOf(Forms)'
      <4>1. form'[f] = w /\ w # Empty
        BY <3>1, <3>2
      <4> QED BY <3>1, <4>1 DEF LinksOf, AtStep
    <3>8. FormsSound'
      <4>1. form'[f] = w
        BY <3>1, <3>2
      <4>2. FormSound(f)'
        BY <3>1, <3>2, <3>3, <4>1 DEF FormSound, AtStep
      <4> QED BY <3>2, <4>2, OtherFormsSound
    <3> QED BY <3>2, <3>4, <3>5, <3>6, <3>7, <3>8 DEF SpentLinksTakeEffect
  <2> QED BY <2>1, <2>2
<1>4. CASE ApplyPasswordReset(f) \/ FailForm(f)
  <2>1. /\ AtStep(f, "apply") /\ form' = [form EXCEPT ![f] = Empty]
        /\ UNCHANGED <<token, mintedFor, consumed>>
        /\ applied \subseteq applied' /\ dropped \subseteq dropped'
        /\ form[f].link \in applied' \cup dropped'
    BY <1>4 DEF ApplyPasswordReset, FailForm
  <2>2. form[f].link \in Links
    BY <2>1 DEF FormsSound, FormSound
  <2>3. LinksTypeOK'
    BY <1>4, <2>1, <2>2 DEF ApplyPasswordReset, FailForm
  <2>4. LinksOf(Forms) \subseteq LinksOf(Forms)' \cup {form[f].link}
    <3> SUFFICES ASSUME NEW l \in LinksOf(Forms), l # form[f].link
                 PROVE  l \in LinksOf(Forms)'
      OBVIOUS
    <3>1. PICK g \in Forms : AtStep(g, "apply") /\ form[g].link = l
      BY LinksInHand
    <3>2. form'[g] = form[g]
      BY <2>1, <3>1
    <3> QED BY <3>1, <3>2 DEF LinksOf, AtStep
  <2>5. FormsSound'
    <3>1. FormSound(f)'
      BY <2>1 DEF FormSound, AtStep
    <3> QED BY <2>1, <3>1, OtherFormsSound
  <2> QED BY <2>1, <2>3, <2>4, <2>5 DEF TokensSound, SpentLinksTakeEffect
<1> QED BY <1>1, <1>2, <1>3, <1>4 DEF LinksHandler

LEMMA LinksInvStep ==
  ASSUME LinksInv, [LinksNext]_linksVars
  PROVE  LinksInv'
<1> USE DEF LinksInv, LinksTypeOK, linksHistory
<1>1. ASSUME UNCHANGED <<form, linksHistory>>,
             \A l \in Links : token'[l] # Empty =>
               token[l] # Empty /\ token'[l].admin = token[l].admin,
             token' \in [Links -> ResetTokenData \cup {Empty}]
      PROVE  LinksInv'
  <2>1. LinksOf(Forms)' = LinksOf(Forms)
    BY <1>1 DEF LinksOf, AtStep
  <2>2. FormsSound'
    BY <1>1 DEF FormsSound, FormSound, AtStep
  <2>3. TokensSound'
    BY <1>1 DEF TokensSound
  <2> QED BY <1>1, <2>1, <2>2, <2>3 DEF SpentLinksTakeEffect
<1>2. CASE UNCHANGED linksVars
  BY <1>1, <1>2 DEF linksVars
<1>3. ASSUME NEW l \in Links, LinkExpires(l)
      PROVE  LinksInv'
  <2>1. token[l] \in ResetTokenData
    BY <1>3 DEF LinkExpires, Usable
  <2>2. /\ [token[l] EXCEPT !.expired = TRUE] \in ResetTokenData
        /\ [token[l] EXCEPT !.expired = TRUE].admin = token[l].admin
    BY <2>1 DEF ResetTokenData
  <2>3. /\ token' = [token EXCEPT ![l] = [token[l] EXCEPT !.expired = TRUE]]
        /\ token[l] # Empty /\ UNCHANGED <<form, linksHistory>>
    BY <1>3 DEF LinkExpires, Usable
  <2>4. /\ token' \in [Links -> ResetTokenData \cup {Empty}]
        /\ \A k \in Links : token'[k] # Empty =>
             token[k] # Empty /\ token'[k].admin = token[k].admin
    BY <2>2, <2>3
  <2> QED BY <1>1, <2>3, <2>4
<1>4. CASE CleanupLinks
  <2>1. /\ token' \in [Links -> ResetTokenData \cup {Empty}]
        /\ \A l \in Links : token'[l] # Empty => token'[l] = token[l]
        /\ UNCHANGED <<form, linksHistory>>
    BY <1>4 DEF CleanupLinks, SweptLink
  <2> QED BY <1>1, <2>1
<1>5. CASE LinksRestart
  <2>1. LinksOf(Forms) \subseteq Links
    BY DEF LinksOf, FormsSound, FormSound
  <2>2. LinksTypeOK'
    BY <1>5, <2>1 DEF LinksRestart
  <2>3. TokensSound'
    BY <1>5 DEF LinksRestart, TokensSound
  <2>4. FormsSound'
    BY <1>5 DEF LinksRestart, FormsSound, FormSound, AtStep
  <2>5. SpentLinksTakeEffect'
    BY <1>5 DEF LinksRestart, SpentLinksTakeEffect
  <2> QED BY <2>2, <2>3, <2>4, <2>5
<1> QED BY <1>2, <1>3, <1>4, <1>5, HandlerKeepsInv DEF LinksNext, LinksStep

-----------------------------------------------------------------------------
(* The theorems.                                                             *)

(* The inductive invariant holds whatever forms, expiry, restarts and the    *)
(* other handlers' edits of the admins table do (ResetStore, ResetPassword). *)
THEOREM LinksInvariance == LinksSpec => []LinksInv
<1>1. LinksInit => LinksInv
  BY DEF LinksInit, LinksInv, LinksTypeOK, TokensSound, FormsSound, FormSound, AtStep,
         SpentLinksTakeEffect
<1> QED BY <1>1, LinksInvStep, PTL DEF LinksSpec

(* An accepted link has set a password, is about to, or its request failed:  *)
(* no order of requests uses a link up for nothing (ResetPassword).          *)
THEOREM LinkEffectSafety == LinksSpec => []SpentLinksTakeEffect
<1>1. LinksInv => SpentLinksTakeEffect
  BY DEF LinksInv
<1> QED BY <1>1, LinksInvariance, PTL

(* A password is about to be set only for the admin the link was minted for  *)
(* (ResetStore.Consume, ApplyPasswordReset).                                 *)
THEOREM LinkOwnerSafety == LinksSpec => []FormsSound
<1>1. LinksInv => FormsSound
  BY DEF LinksInv
<1> QED BY <1>1, LinksInvariance, PTL

-----------------------------------------------------------------------------
(* The store implements Vouchers.                                            *)

GoodLinks == {l \in Links : token[l] # Empty /\ ~token[l].expired}

LEMMA LinksStepIsVoucherStep ==
  ASSUME LinksInv, [LinksNext]_linksVars
  PROVE  [LinkLedger!Next]_(LinkLedger!vouchers)
<1> USE DEF LinksInv, LinksTypeOK, linksHistory
<1>1. ASSUME UNCHANGED <<token, mintedFor, consumed>>
      PROVE  UNCHANGED LinkLedger!vouchers
  BY <1>1 DEF LinkLedger!vouchers
<1>2. ASSUME UNCHANGED <<mintedFor, consumed>>,
             \A l \in Links : token'[l] # Empty /\ ~token'[l].expired =>
               token[l] # Empty /\ ~token[l].expired
      PROVE  LinkLedger!Next
  BY <1>2 DEF LinkLedger!Next, LinkLedger!Lapse
<1>3. ASSUME NEW f \in Forms, NEW l \in Links, MintLink(f, l)
      PROVE  LinkLedger!Next
  <2>1. PICK a \in Staff : a = form[f].admin
    <3>1. form[f] \in Form
      BY <1>3 DEF MintLink, AtStep
    <3> QED BY <3>1 DEF Form
  <2> DEFINE new == [admin |-> a, expired |-> FALSE]
  <2>2. /\ token' = [token EXCEPT ![l] = new] /\ mintedFor' = [mintedFor EXCEPT ![l] = a]
        /\ mintedFor[l] = Empty /\ UNCHANGED consumed
    BY <1>3, <2>1 DEF MintLink
  <2>3. new # Empty /\ ~new.expired
    <3>1. new \in ResetTokenData
      BY DEF ResetTokenData
    <3> QED BY <3>1
  <2> HIDE DEF new
  <2>4. GoodLinks' = {l} \cup GoodLinks
    BY <2>2, <2>3 DEF GoodLinks
  <2>5. LinkLedger!Issue(l, a)
    BY <2>2, <2>4 DEF LinkLedger!Issue, GoodLinks
  <2> QED BY <2>5 DEF LinkLedger!Next
<1>4. ASSUME NEW f \in Forms, NEW l \in Links, NEW strong \in BOOLEAN,
             ResetPassword(f, l, strong)
      PROVE  LinkLedger!Next
  <2>1. token' = [token EXCEPT ![l] = Empty] /\ UNCHANGED mintedFor
    BY <1>4 DEF ResetPassword
  <2>2. CASE Usable(l)
    <3>1. consumed' = consumed \cup {l}
      BY <1>4, <2>2 DEF ResetPassword
    <3>2. l \in GoodLinks /\ GoodLinks' = GoodLinks \ {l}
      BY <2>1, <2>2 DEF GoodLinks, Usable
    <3>3. LinkLedger!Spend(l)
      BY <2>1, <3>1, <3>2 DEF LinkLedger!Spend, GoodLinks
    <3> QED BY <3>3 DEF LinkLedger!Next
  <2>3. CASE ~Usable(l)
    <3>1. UNCHANGED consumed
      BY <1>4, <2>3 DEF ResetPassword
    <3> QED BY <1>2, <2>1, <3>1
  <2> QED BY <2>2, <2>3
<1>5. ASSUME NEW f \in Forms, NEW m \in Mails, NEW n \in Mails, ForgotPassword(f, m, n)
      PROVE  UNCHANGED <<token, mintedFor, consumed>>
  BY <1>5 DEF ForgotPassword
<1>6. ASSUME NEW f \in Forms, ApplyPasswordReset(f) \/ FailForm(f)
      PROVE  UNCHANGED <<token, mintedFor, consumed>>
  BY <1>6 DEF ApplyPasswordReset, FailForm
<1>7. ASSUME NEW l \in Links, LinkExpires(l)
      PROVE  LinkLedger!Next
  <2>1. token[l] \in ResetTokenData
    BY <1>7 DEF LinkExpires, Usable
  <2>2. [token[l] EXCEPT !.expired = TRUE].expired
    BY <2>1 DEF ResetTokenData
  <2>3. /\ token' = [token EXCEPT ![l] = [token[l] EXCEPT !.expired = TRUE]]
        /\ UNCHANGED <<mintedFor, consumed>>
    BY <1>7 DEF LinkExpires
  <2> QED BY <1>2, <2>2, <2>3
<1>8. CASE CleanupLinks \/ LinksRestart
  <2>1. /\ \A l \in Links : token'[l] # Empty => token'[l] = token[l]
        /\ UNCHANGED <<mintedFor, consumed>>
    BY <1>8 DEF CleanupLinks, LinksRestart, SweptLink
  <2> QED BY <1>2, <2>1
<1>9. CASE UNCHANGED linksVars
  BY <1>1, <1>9 DEF linksVars
<1> QED BY <1>1, <1>3, <1>4, <1>5, <1>6, <1>7, <1>8, <1>9
        DEF LinksNext, LinksStep, LinksHandler

(* The store of links keeps the promise of Vouchers, any number of good      *)
(* links per admin: every step is one of its steps or none (ResetStore).     *)
THEOREM LinksRefinement == LinksSpec => LinksAreVouchers
<1>1. LinksInit => LinkLedger!Init
  BY DEF LinksInit, LinkLedger!Init
<1> QED
  BY <1>1, LinksStepIsVoucherStep, LinksInvariance, PTL
     DEF LinksSpec, LinksAreVouchers, LinkLedger!Spec
=============================================================================

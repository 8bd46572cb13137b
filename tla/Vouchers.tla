------------------------------ MODULE Vouchers ------------------------------
(* What a store of single-use secrets promises, with no mails, no clocks and *)
(* no requests: every voucher is issued once, to one holder, is spent at     *)
(* most once and only while it is good, and never becomes good again.        *)
(* One-time codes and password-reset links are both stores of this kind.     *)
CONSTANTS
  Number,        \* the vouchers there can be
  Holder,        \* who they are issued to
  Nobody,        \* no holder
  OnePerHolder   \* a new voucher replaces its holder's older one

VARIABLES
  issued,   \* voucher -> the holder it was issued to, or Nobody
  good,     \* vouchers that may still be spent
  spent     \* vouchers that were

vouchers == <<issued, good, spent>>

Init == issued = [n \in Number |-> Nobody] /\ good = {} /\ spent = {}

HeldBy(h) == {n \in Number : issued[n] = h}

Issue(n, h) ==
  /\ issued[n] = Nobody
  /\ issued' = [issued EXCEPT ![n] = h]
  /\ good' = {n} \cup (IF OnePerHolder THEN good \ HeldBy(h) ELSE good)
  /\ UNCHANGED spent

Spend(n) ==
  /\ n \in good
  /\ good' = good \ {n}
  /\ spent' = spent \cup {n}
  /\ UNCHANGED issued

(* Time, wrong answers or a restart make vouchers worthless.                 *)
Lapse == good' \subseteq good /\ UNCHANGED <<issued, spent>>

Next == Lapse \/ \E n \in Number : Spend(n) \/ \E h \in Holder : Issue(n, h)

Spec == Init /\ [][Next]_vouchers
=============================================================================

---------------------------- MODULE PaymentCredit ----------------------------
(***************************************************************************)
(* What a deposit promises: a payment is credited to one user at most      *)
(* once; a credit may be taken back in full, once, from that user, and     *)
(* never while he has less than it.  Whatever else moves the balance does  *)
(* not touch the credits.                                                  *)
(***************************************************************************)
EXTENDS Naturals

CONSTANTS User, Payment, Paid, None, Returned

VARIABLES
    purse,  \* the balance of a user
    holder  \* the user a payment is credited to, None before, Returned after

vars == <<purse, holder>>

Init ==
    /\ purse = [u \in User |-> 0]
    /\ holder = [p \in Payment |-> None]

Credit(p, u) ==
    /\ holder[p] = None
    /\ holder' = [holder EXCEPT ![p] = u]
    /\ purse' = [purse EXCEPT ![u] = @ + Paid[p]]

TakeBack(p, u) ==
    /\ holder[p] = u
    /\ Paid[p] <= purse[u]
    /\ holder' = [holder EXCEPT ![p] = Returned]
    /\ purse' = [purse EXCEPT ![u] = @ - Paid[p]]

Spend(u) ==
    /\ purse[u] > 0
    /\ purse' = [purse EXCEPT ![u] = @ - 1]
    /\ UNCHANGED holder

Next ==
    \E u \in User : \/ Spend(u)
                    \/ \E p \in Payment : Credit(p, u) \/ TakeBack(p, u)

Spec == Init /\ [][Next]_vars
=============================================================================

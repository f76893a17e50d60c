------------------------------ MODULE HeldCash ------------------------------
(***************************************************************************)
(* What a withdrawal code promises.  Its amount leaves the player's purse  *)
(* when the code is issued and is held; what is held is handed out as cash *)
(* or put back in full, once, or stays held.  Other business may move the  *)
(* purse but not what is held.                                             *)
(***************************************************************************)
EXTENDS Naturals, Functions

CONSTANTS User, Code, Owner, Amount, Opening

VARIABLES
    purse, \* what a user can stake or withdraw
    place  \* where the amount of a code is

vars == <<purse, place>>

Init ==
    /\ purse = Opening
    /\ place = [c \in Code |-> "idle"]

Hold(c) ==
    /\ place[c] = "idle"
    /\ Amount[c] <= purse[Owner[c]]
    /\ place' = [place EXCEPT ![c] = "held"]
    /\ purse' = [purse EXCEPT ![Owner[c]] = @ - Amount[c]]

HandOut(c) ==
    /\ place[c] = "held"
    /\ place' = [place EXCEPT ![c] = "paid"]
    /\ UNCHANGED purse

\* What the codes C of u add up to.
Worth(C, u) == SumFunctionOnSet(Amount, {c \in C : Owner[c] = u})

\* Codes that have lapsed are put back together.
PutBack(C) ==
    /\ \A c \in C : place[c] = "held"
    /\ place' = [c \in Code |-> IF c \in C THEN "returned" ELSE place[c]]
    /\ purse' = [u \in User |-> purse[u] + Worth(C, u)]

OtherBusiness(u) ==
    /\ \A v \in User \ {u} : purse'[v] = purse[v]
    /\ UNCHANGED place

Next ==
    \/ \E c \in Code : Hold(c) \/ HandOut(c)
    \/ \E C \in SUBSET Code : PutBack(C)
    \/ \E u \in User : OtherBusiness(u)

Spec == Init /\ [][Next]_vars
=============================================================================

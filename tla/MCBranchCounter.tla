--------------------------- MODULE MCBranchCounter ---------------------------
(***************************************************************************)
(* A small instance of BranchCounter: one player with two units, codes of  *)
(* one and two, a deposit, a withdrawal and a bet of one.                  *)
(***************************************************************************)
EXTENDS BranchCounter

CONSTANTS u1, c1, c2, dep, wdr

OneOwner == [x \in Code \cup Key \cup Bet |-> u1]
OneOrTwo == [x \in Code \cup Key \cup Bet |-> IF x = c2 THEN 2 ELSE 1]
TwoUnits == [u \in User |-> 2]
=============================================================================

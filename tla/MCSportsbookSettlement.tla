------------------------ MODULE MCSportsbookSettlement ------------------------
(***************************************************************************)
(* Small instances of SportsbookSettlement: one bettor, two events with a  *)
(* selection each, a parlay over both and a single on the second event.    *)
(* Every stake is one unit; each leg that is won adds a unit to the payout.*)
(***************************************************************************)
EXTENDS SportsbookSettlement, TLC

CONSTANTS u1, t1, t2, e1, e2, s1, s2

OneBettor == [t \in Ticket |-> u1]
EventPerSelection == [s \in Selection |-> IF s = s1 THEN e1 ELSE e2]
ParlayAndSingle == [t \in Ticket |-> IF t = t1 THEN {s1, s2} ELSE {s2}]
Singles == [t \in Ticket |-> IF t = t1 THEN {s1} ELSE {s2}]
OneSelection == [t \in Ticket |-> {s1}]
UnitStake == [t \in Ticket |-> 1]
UnitPerLeg == [t \in Ticket |-> [V \in SUBSET Selection |-> 1 + Cardinality(Slip[t] \ V)]]
One == [u \in User |-> 1]
Two == [u \in User |-> 2]
Passes == Permutations(Pass)
=============================================================================

------------------------ MODULE MCTelebirrWithdrawal ------------------------
(***************************************************************************)
(* Small instances of TelebirrWithdrawal.  Every request asks for one unit.*)
(* Two requests of one user contend for the wallet and for the one open    *)
(* request; two users contend for an agent.                                *)
(***************************************************************************)
EXTENDS TelebirrWithdrawal, TLC

CONSTANTS u1, u2, r1, r2

OneUser == [r \in Request |-> u1]
TwoUsers == [r \in Request |-> IF r = r1 THEN u1 ELSE u2]
UnitAmount == [r \in Request |-> 1]
Zero == [u \in User |-> 0]
One == [u \in User |-> 1]
Two == [u \in User |-> 2]
UnitFloat == [a \in Agent |-> 1]
Identical == Permutations(Agent) \cup Permutations(Command)
=============================================================================

------------------------- MODULE MCWithdrawalPayout -------------------------
(***************************************************************************)
(* Small instances of WithdrawalPayout: unit amounts, one or two users.    *)
(***************************************************************************)
EXTENDS WithdrawalPayout, TLC

CONSTANTS u1, u2, r1, r2

TwoUsers == [r \in Request |-> IF r = r1 THEN u1 ELSE u2]
UnitAmount == [r \in Request |-> 1]
Zero == [u \in User |-> 0]
One == [u \in User |-> 1]
UnitFloat == [a \in Agent |-> 1]
Identical == Permutations(Agent) \cup Permutations(Command)
=============================================================================

-------------------------- MODULE MCTelebirrDeposit --------------------------
(***************************************************************************)
(* Small instances of TelebirrDeposit: two payments of one unit, of which  *)
(* the first names a request in its note.                                  *)
(***************************************************************************)
EXTENDS TelebirrDeposit, TLC

CONSTANTS u1, u2, p1, p2, r1, r2

TwoUsers == [r \in Request |-> IF r = r1 THEN u1 ELSE u2]
OneUser == [r \in Request |-> u1]
UnitAmount == [r \in Request |-> 1]
UnitPaid == [p \in Payment |-> 1]
FromFirst == [p \in Payment |-> u1]
NoteOfFirst == [p \in Payment |-> IF p = p1 THEN r1 ELSE None]
Workers == Permutations(Worker)
=============================================================================

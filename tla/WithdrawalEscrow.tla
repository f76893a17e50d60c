-------------------------- MODULE WithdrawalEscrow --------------------------
(***************************************************************************)
(* What a withdrawal promises about money.  The amount of a request leaves *)
(* the user's funds when the request is filed and is held; what is held is *)
(* either paid out or returned in full, once, or stays held.               *)
(***************************************************************************)
EXTENDS Naturals

CONSTANTS User, Request, Owner, Amount, OpeningFunds

VARIABLES
    funds,  \* what a user could still withdraw or play with
    escrow  \* where the amount of a request is

vars == <<funds, escrow>>

Init ==
    /\ funds = OpeningFunds
    /\ escrow = [r \in Request |-> "idle"]

Hold(r) ==
    /\ escrow[r] = "idle"
    /\ Amount[r] <= funds[Owner[r]]
    /\ funds' = [funds EXCEPT ![Owner[r]] = @ - Amount[r]]
    /\ escrow' = [escrow EXCEPT ![r] = "held"]

Pay(r) ==
    /\ escrow[r] = "held"
    /\ escrow' = [escrow EXCEPT ![r] = "paid"]
    /\ UNCHANGED funds

Return(r) ==
    /\ escrow[r] = "held"
    /\ funds' = [funds EXCEPT ![Owner[r]] = @ + Amount[r]]
    /\ escrow' = [escrow EXCEPT ![r] = "returned"]

Next == \E r \in Request : Hold(r) \/ Pay(r) \/ Return(r)

Spec == Init /\ [][Next]_vars
=============================================================================

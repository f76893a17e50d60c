---------------------------- MODULE TicketPromise ----------------------------
(***************************************************************************)
(* What a bettor is promised: a ticket is staked once and closed once, and *)
(* when it closes it pays nothing, its stake or a win.  Several tickets    *)
(* may close together, because one match result settles all of them.       *)
(***************************************************************************)
EXTENDS Naturals

CONSTANTS
    Ticket,
    Stake   \* above zero

VARIABLES
    stage,  \* where a ticket stands
    paid    \* what was paid for it

Stage == {"none", "open", "lost", "refunded", "won"}
Closed == {"lost", "refunded", "won"}

Init ==
    /\ stage = [t \in Ticket |-> "none"]
    /\ paid = [t \in Ticket |-> 0]

Place(t) ==
    /\ stage[t] = "none"
    /\ stage' = [stage EXCEPT ![t] = "open"]
    /\ UNCHANGED paid

\* What a ticket that closes at stage s may pay.
MayPay(t, s, amount) ==
    \/ s = "lost" /\ amount = 0
    \/ s = "refunded" /\ amount = Stake[t]
    \/ s = "won" /\ amount > 0

\* The open tickets among those that change close, and pay accordingly.
Close ==
    /\ stage' \in [Ticket -> Stage]
    /\ paid' \in [Ticket -> Nat]
    /\ \A t \in Ticket :
         \/ stage'[t] = stage[t] /\ paid'[t] = paid[t]
         \/ /\ stage[t] = "open"
            /\ stage'[t] \in Closed
            /\ MayPay(t, stage'[t], paid'[t])

Next == (\E t \in Ticket : Place(t)) \/ Close

Spec == Init /\ [][Next]_<<stage, paid>>
=============================================================================

--------------------------- MODULE MCCashierTicket ---------------------------
(***************************************************************************)
(* Small instances of CashierTicket: cashiers, legs, requests and the rows *)
(* for copies are interchangeable, and states that differ in what has been *)
(* printed only are one: no step and no property of the run reads that.    *)
(***************************************************************************)
EXTENDS CashierTicket, TLC

NothingPrinted ==
    <<status, slip, seller, payer, canceller, drawer, counter, outside, session>>

Interchangeable ==
    Permutations(Cashier) \cup Permutations(Leg) \cup Permutations(Ticket \ Slip)
        \cup Permutations(Session)
=============================================================================

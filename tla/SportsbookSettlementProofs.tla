--------------------- MODULE SportsbookSettlementProofs ---------------------
(***************************************************************************)
(* Proofs about SportsbookSettlement, for any number of users, tickets,    *)
(* events, selections and grading passes.                                  *)
(*                                                                         *)
(* TicketTypeOK is inductive by itself.  PaidOnce and the refinement of    *)
(* TicketPromise both follow from one fact about steps: a step leaves a    *)
(* ticket alone, opens it, or closes a pending one with a single credit    *)
(* that fits its final status.  They need that nobody reopens, resettles   *)
(* or overwrites tickets.                                                  *)
(*                                                                         *)
(* WalletMatchesLedger and TypeOK need no such condition: every step, the  *)
(* corrections included, moves a wallet by what it adds to the ledger      *)
(* (Moves).  LockedMatchesPending follows from how a step changes the set  *)
(* of open tickets (LockMoves), and needs that no correction and no        *)
(* cancellation by the bets module runs.  WinMatchesLegs needs LegInv: the *)
(* locks of the passes keep the legs a pass has graded as it graded them,  *)
(* so what it decides at its end is what the legs still say.               *)
(***************************************************************************)
EXTENDS SportsbookSettlement, SumTheorems

Outcomes == {"won", "lost", "void"}

-----------------------------------------------------------------------------
\* The decision about a ticket and what it is worth.

\* Outcome always decides for one of the three final statuses.
LEMMA OutcomeType == \A L, t : Outcome(L, t) \in Outcomes
  BY DEF Outcome, Outcomes

\* A lost ticket is credited nothing, a void one its stake, a won one something.
LEMMA DueCreditFits ==
    ASSUME NEW L, NEW t \in Ticket
    PROVE  /\ DueCredit(L, t) \in Nat
           /\ Outcome(L, t) = "lost" => DueCredit(L, t) = 0
           /\ Outcome(L, t) = "void" => DueCredit(L, t) = Stake[t]
           /\ Outcome(L, t) = "won" => DueCredit(L, t) > 0
<1>1. Stake[t] \in Nat \ {0}
  BY AmountAssumption
<1>2. VoidLegs(L, t) \in SUBSET Selection
  BY SlipAssumption DEF VoidLegs
<1>3. Payout[t][VoidLegs(L, t)] \in Nat \ {0}
  BY <1>2, AmountAssumption
<1> QED
  BY <1>1, <1>3, OutcomeType DEF DueCredit, Outcomes

\* The ledger and the statuses keep their types when tickets are closed.
LEMMA CloseTicketsType ==
    ASSUME NEW T \in SUBSET Ticket, NEW L,
           status \in [Ticket -> TicketStatus], CloseTickets(T, L)
    PROVE  status' \in [Ticket -> TicketStatus]
  BY OutcomeType DEF CloseTickets, TicketStatus, Terminal, Outcomes

LEMMA PostCreditsType ==
    ASSUME NEW T \in SUBSET Ticket, NEW L, NEW ref \in Ref,
           credit \in [Ticket -> [Ref -> Nat]], PostCredits(T, L, ref)
    PROVE  credit' \in [Ticket -> [Ref -> Nat]]
<1> SUFFICES ASSUME NEW t \in Ticket
             PROVE  (IF t \in T THEN [credit[t] EXCEPT ![ref] = @ + DueCredit(L, t)]
                     ELSE credit[t]) \in [Ref -> Nat]
  BY DEF PostCredits
<1>1. DueCredit(L, t) \in Nat
  BY DueCreditFits
<1> QED
  BY <1>1

\* What a settlement from the legs does to statuses and ledger.
LEMMA SettleType ==
    ASSUME NEW T \in SUBSET Ticket, NEW L,
           status \in [Ticket -> TicketStatus], credit \in [Ticket -> [Ref -> Nat]],
           SettleFromLegs(T, L) \/ SettleOnMatchDesk(T, L)
    PROVE  status' \in [Ticket -> TicketStatus] /\ credit' \in [Ticket -> [Ref -> Nat]]
<1>1. CloseTickets(T, L) /\ \E ref \in Ref : PostCredits(T, L, ref)
  BY DEF SettleFromLegs, SettleOnMatchDesk, Ref
<1> QED
  BY <1>1, CloseTicketsType, PostCreditsType

\* The same for the handlers that close one ticket.
LEMMA CloseOneType ==
    ASSUME NEW t \in Ticket, NEW to \in TicketStatus, NEW ref \in Ref, NEW amount \in Nat,
           status \in [Ticket -> TicketStatus], credit \in [Ticket -> [Ref -> Nat]],
           CloseOne(t, to, ref, amount)
    PROVE  status' \in [Ticket -> TicketStatus] /\ credit' \in [Ticket -> [Ref -> Nat]]
  BY DEF CloseOne

-----------------------------------------------------------------------------
\* Types.

\* The legs a pass sees are legs.
LEMMA SeenByType ==
    ASSUME TicketTypeOK, NEW p \in Pass
    PROVE  SeenBy(p) \in [Ticket -> [Selection -> LegStatus]]
<1>1. pass[p].found \in [Selection -> Result \cup {"none"}]
  BY DEF TicketTypeOK, PassRecord
<1> QED
  BY <1>1 DEF TicketTypeOK, SeenBy, LegStatus

LEMMA IdlePassType == IdlePass \in PassRecord
  BY DEF IdlePass, PassRecord

\* Initially every variable has its type.
LEMMA InitType == Init => TicketTypeOK
  BY IdlePassType DEF TicketTypeOK, Init, TicketStatus, SettlementStatus, LegStatus, EventStatus

\* What the bettor and the fixtures do.
LEMMA BettorType == TicketTypeOK /\ BettorStep => TicketTypeOK'
<1> SUFFICES ASSUME TicketTypeOK, NEW t \in Ticket,
                    \/ CheckSlip(t) \/ PlaceSlip(t) \/ RefuseSlip(t)
                    \/ UserCancel(t) \/ \E value \in OtherPayout : CashOut(t, value)
             PROVE  TicketTypeOK'
  BY DEF BettorStep
<1> USE DEF TicketTypeOK
<1>1. CASE CheckSlip(t) \/ RefuseSlip(t)
  BY <1>1 DEF CheckSlip, RefuseSlip, walletVars, ticketVars, bookVars
<1>2. CASE PlaceSlip(t)
  <2>1. status' \in [Ticket -> TicketStatus]
    BY <1>2 DEF PlaceSlip, TicketStatus
  <2>2. leg' \in [Ticket -> [Selection -> LegStatus]]
    BY <1>2 DEF PlaceSlip, LegStatus
  <2>3. placing' \subseteq Ticket
    BY <1>2 DEF PlaceSlip
  <2> QED
    BY <1>2, <2>1, <2>2, <2>3 DEF PlaceSlip, bookVars
<1>3. CASE UserCancel(t)
  <2>1. Stake[t] \in Nat
    BY AmountAssumption
  <2>2. status' \in [Ticket -> TicketStatus] /\ credit' \in [Ticket -> [Ref -> Nat]]
    BY <1>3, <2>1, CloseOneType DEF UserCancel, TicketStatus, Terminal, Ref
  <2>3. settlement' \in [Ticket -> SettlementStatus]
    BY <1>3 DEF UserCancel, SettlementStatus
  <2> QED
    BY <1>3, <2>2, <2>3 DEF UserCancel, bookVars, txnVars
<1>4. ASSUME NEW value \in OtherPayout, CashOut(t, value)
      PROVE  TicketTypeOK'
  <2>1. value \in Nat
    BY AmountAssumption
  <2>2. status' \in [Ticket -> TicketStatus] /\ credit' \in [Ticket -> [Ref -> Nat]]
    BY <1>4, <2>1, CloseOneType DEF CashOut, TicketStatus, Terminal, Ref
  <2> QED
    BY <1>4, <2>2 DEF CashOut, bookVars, txnVars
<1> QED
  BY <1>1, <1>2, <1>3, <1>4

LEMMA FixtureType == TicketTypeOK /\ FixtureStep => TicketTypeOK'
  BY DEF TicketTypeOK, FixtureStep, StartEvent, FinishEvent, EventStatus,
                   walletVars, ticketVars, txnVars

\* What a grading pass does.
LEMMA PassType == TicketTypeOK /\ PassStep => TicketTypeOK'
<1> SUFFICES ASSUME TicketTypeOK, NEW p \in Pass,
                    BeginPass(p) \/ CountPending(p) \/ CommitPass(p) \/ AbortPass(p)
             PROVE  TicketTypeOK'
  BY DEF PassStep
<1> USE DEF TicketTypeOK
<1>1. ASSUME NEW E \in SUBSET Event, NEW f \in Gradings(E), GradeLegs(p, E, f)
      PROVE  TicketTypeOK'
  <2> DEFINE g == [phase |-> "graded", events |-> E, found |-> f,
                   legs |-> {x \in Ticket \X Selection :
                               /\ EventOf[x[2]] \in E
                               /\ leg[x[1]][x[2]] = "pending"
                               /\ f[x[2]] # "none"},
                   ready |-> {}]
  <2>1. g \in PassRecord
    BY DEF PassRecord, Gradings
  <2>2. pass' = [pass EXCEPT ![p] = g]
    BY <1>1 DEF GradeLegs
  <2>3. pass' \in [Pass -> PassRecord]
    BY <2>1, <2>2
  <2> QED
    BY <1>1, <2>3 DEF GradeLegs, walletVars, ticketVars, bookVars
<1>2. CASE CountPending(p)
  <2>1. PICK R \in SUBSET Ticket :
          pass' = [pass EXCEPT ![p].phase = "counted", ![p].ready = R]
    <3> DEFINE R0 == {t \in Ticket : /\ \E s \in Selection : <<t, s>> \in pass[p].legs
                                     /\ ~HasPending(SeenBy(p), t)
                                     /\ status[t] = "pending"}
    <3> QED
      BY <1>2, R0 \in SUBSET Ticket DEF CountPending
  <2>2. [pass[p] EXCEPT !.phase = "counted", !.ready = R] \in PassRecord
    BY DEF PassRecord
  <2>3. pass' = [pass EXCEPT ![p] = [pass[p] EXCEPT !.phase = "counted", !.ready = R]]
    BY <2>1
  <2>4. pass' \in [Pass -> PassRecord]
    BY <2>2, <2>3
  <2> QED
    BY <1>2, <2>4 DEF CountPending, walletVars, ticketVars, bookVars
<1>3. CASE CommitPass(p)
  <2>1. ToSettle(p) \in SUBSET Ticket
    BY DEF ToSettle, PassRecord
  <2>2. status' \in [Ticket -> TicketStatus] /\ credit' \in [Ticket -> [Ref -> Nat]]
    BY <1>3, <2>1, SettleType DEF CommitPass
  <2>3. leg' \in [Ticket -> [Selection -> LegStatus]]
    BY <1>3, SeenByType DEF CommitPass
  <2>4. settlement' \in [Ticket -> SettlementStatus]
    BY <1>3 DEF CommitPass, SettlementStatus
  <2>5. event' \in [Event -> EventStatus] /\ result' \in [Selection -> Result \cup {"none"}]
    BY <1>3 DEF CommitPass, EventStatus, PassRecord
  <2>6. pass' \in [Pass -> PassRecord]
    BY <1>3, IdlePassType DEF CommitPass
  <2> QED
    BY <1>3, <2>2, <2>3, <2>4, <2>5, <2>6 DEF CommitPass
<1>4. CASE AbortPass(p)
  BY <1>4, IdlePassType DEF AbortPass, walletVars, ticketVars, bookVars
<1> QED
  BY <1>1, <1>2, <1>3, <1>4 DEF BeginPass

\* Postponements, cancellations, match results and the loop that ends waits.
LEMMA EventType == TicketTypeOK /\ (EventDeskStep \/ LoopStep) => TicketTypeOK'
<1> SUFFICES ASSUME TicketTypeOK, EventDeskStep \/ LoopStep
             PROVE  TicketTypeOK'
  OBVIOUS
<1> USE DEF TicketTypeOK
<1>1. ASSUME NEW e \in Event, PostponeEvent(e)
      PROVE  TicketTypeOK'
  <2>1. settlement' \in [Ticket -> SettlementStatus]
    BY <1>1 DEF PostponeEvent, SettlementStatus
  <2>2. postponed' \subseteq Ticket \X Selection
    BY <1>1 DEF PostponeEvent, On
  <2>3. event' \in [Event -> EventStatus]
    BY <1>1 DEF PostponeEvent, EventStatus
  <2> QED
    BY <1>1, <2>1, <2>2, <2>3 DEF PostponeEvent, walletVars, txnVars
<1>2. ASSUME NEW e \in Event, CancelEvent(e)
      PROVE  TicketTypeOK'
  <2> DEFINE L == [t \in Ticket |-> [s \in Selection |->
                     IF s \in On(e) /\ leg[t][s] = "pending" THEN "void" ELSE leg[t][s]]]
             touched == {t \in Ticket : Touches(t, e) /\ status[t] = "pending"}
             ready == {t \in touched : ~HasPending(L, t)}
  <2>1. status' \in [Ticket -> TicketStatus] /\ credit' \in [Ticket -> [Ref -> Nat]]
    <3>1. SettleFromLegs(ready, L) /\ ready \in SUBSET Ticket
      BY <1>2 DEF CancelEvent
    <3> HIDE DEF L, ready
    <3> QED
      BY <3>1, SettleType
  <2>2. review' \subseteq Ticket /\ settlement' \in [Ticket -> SettlementStatus]
    BY <1>2 DEF CancelEvent, FlagErrors, SettlementStatus
  <2>3. leg' \in [Ticket -> [Selection -> LegStatus]]
    BY <1>2 DEF CancelEvent, LegStatus, Result
  <2>4. postponed' \subseteq Ticket \X Selection /\ event' \in [Event -> EventStatus]
    BY <1>2 DEF CancelEvent, EventStatus
  <2> QED
    BY <1>2, <2>1, <2>2, <2>3, <2>4 DEF CancelEvent, txnVars
<1>3. ASSUME NEW X \in SUBSET Ticket, ExpirePostponed(X)
      PROVE  TicketTypeOK'
  <2> DEFINE L == [t \in Ticket |-> [s \in Selection |->
                     IF t \notin X THEN leg[t][s]
                     ELSE IF <<t, s>> \in postponed THEN "void"
                     ELSE IF leg[t][s] = "pending" /\ result[s] # "none" THEN result[s]
                     ELSE leg[t][s]]]
             open == {t \in X : status[t] = "pending"}
             ready == {t \in open : ~HasPending(L, t)}
  <2>1. status' \in [Ticket -> TicketStatus] /\ credit' \in [Ticket -> [Ref -> Nat]]
    <3>1. SettleFromLegs(ready, L) /\ ready \in SUBSET Ticket
      BY <1>3 DEF ExpirePostponed
    <3> HIDE DEF L, ready
    <3> QED
      BY <3>1, SettleType
  <2>2. review' \subseteq Ticket /\ settlement' \in [Ticket -> SettlementStatus]
    BY <1>3 DEF ExpirePostponed, FlagErrors, SettlementStatus
  <2>3. leg' \in [Ticket -> [Selection -> LegStatus]]
    BY <1>3 DEF ExpirePostponed, LegStatus, Result
  <2>4. postponed' \subseteq Ticket \X Selection
    BY <1>3 DEF ExpirePostponed
  <2> QED
    BY <1>3, <2>1, <2>2, <2>3, <2>4 DEF ExpirePostponed, bookVars, txnVars
<1>4. ASSUME NEW e \in Event, NEW to \in {"finished", "cancelled", "postponed"},
             NEW f \in Entries(e), MatchResult(e, to, f)
      PROVE  TicketTypeOK'
  <2> DEFINE L == [t \in Ticket |-> [s \in Selection |->
                     IF s \in On(e) /\ leg[t][s] = "pending" /\ f[s] # "none"
                     THEN f[s] ELSE leg[t][s]]]
             ready == {t \in Ticket : /\ Touches(t, e)
                                      /\ status[t] = "pending"
                                      /\ ~HasPending(L, t)}
  <2>0. f \in [Selection -> Result \cup {"none"}]
    BY DEF Entries
  <2>1. status' \in [Ticket -> TicketStatus] /\ credit' \in [Ticket -> [Ref -> Nat]]
    <3>1. SettleOnMatchDesk(ready, L) /\ ready \in SUBSET Ticket
      BY <1>4 DEF MatchResult
    <3> HIDE DEF L, ready
    <3> QED
      BY <3>1, SettleType
  <2>2. leg' \in [Ticket -> [Selection -> LegStatus]]
    BY <1>4, <2>0 DEF MatchResult, LegStatus, Result
  <2>3. event' \in [Event -> EventStatus] /\ result' \in [Selection -> Result \cup {"none"}]
    BY <1>4, <2>0 DEF MatchResult, EventStatus
  <2> QED
    BY <1>4, <2>1, <2>2, <2>3 DEF MatchResult, txnVars
<1>5. ASSUME NEW e \in Event, FlagOverdueUnresolvedTickets(e)
      PROVE  TicketTypeOK'
  <2>1. review' \subseteq Ticket /\ settlement' \in [Ticket -> SettlementStatus]
    BY <1>5 DEF FlagOverdueUnresolvedTickets, Overdue, SettlementStatus
  <2> QED
    BY <1>5, <2>1 DEF FlagOverdueUnresolvedTickets, walletVars, bookVars, txnVars
<1> QED
  BY <1>1, <1>2, <1>3, <1>4, <1>5 DEF EventDeskStep, LoopStep

\* The settlement desk and the cancellation of bets.
LEMMA DeskType == TicketTypeOK /\ TicketDeskStep => TicketTypeOK'
<1> SUFFICES ASSUME TicketTypeOK, NEW t \in Ticket,
                    \/ CancelBet(t)
                    \/ SettleTicket(t) \/ VoidTicket(t) \/ RefundStake(t)
                    \/ ForceLose(t) \/ ManualReview(t)
                    \/ ReopenTicket(t) \/ ResettleTicket(t)
                    \/ \E s \in Selection : VoidSelection(t, s)
                    \/ \E amount \in OtherPayout : ForceWin(t, amount)
             PROVE  TicketTypeOK'
  BY DEF TicketDeskStep
<1> USE DEF TicketTypeOK
<1> Stake[t] \in Nat
  BY AmountAssumption
<1>1. CASE CancelBet(t)
  <2>1. status' \in [Ticket -> TicketStatus] /\ credit' \in [Ticket -> [Ref -> Nat]]
    BY <1>1 DEF CancelBet, TicketStatus, Terminal, Ref
  <2>2. leg' \in [Ticket -> [Selection -> LegStatus]]
    BY <1>1 DEF CancelBet, LegStatus, Result
  <2> QED
    BY <1>1, <2>1, <2>2 DEF CancelBet, bookVars, txnVars
<1>2. CASE SettleTicket(t) \/ ResettleTicket(t)
  <2>1. SettleFromLegs({t}, leg)
    BY <1>2 DEF SettleTicket, ResettleTicket
  <2>2. status' \in [Ticket -> TicketStatus] /\ credit' \in [Ticket -> [Ref -> Nat]]
    BY <2>1, SettleType
  <2>3. settlement' \in [Ticket -> SettlementStatus]
    BY <1>2 DEF SettleTicket, ResettleTicket, SettlementStatus
  <2> QED
    BY <1>2, <2>2, <2>3 DEF SettleTicket, ResettleTicket, bookVars, txnVars
<1>3. CASE VoidTicket(t)
  <2>1. status' \in [Ticket -> TicketStatus] /\ credit' \in [Ticket -> [Ref -> Nat]]
    BY <1>3, CloseOneType DEF VoidTicket, TicketStatus, Terminal, Ref
  <2>2. leg' \in [Ticket -> [Selection -> LegStatus]]
    BY <1>3 DEF VoidTicket, LegStatus, Result
  <2>3. settlement' \in [Ticket -> SettlementStatus]
    BY <1>3 DEF VoidTicket, SettlementStatus
  <2>4. postponed' \subseteq Ticket \X Selection
    BY <1>3 DEF VoidTicket
  <2> QED
    BY <1>3, <2>1, <2>2, <2>3, <2>4 DEF VoidTicket, bookVars, txnVars
<1>4. CASE RefundStake(t)
  <2>1. status' \in [Ticket -> TicketStatus] /\ credit' \in [Ticket -> [Ref -> Nat]]
    BY <1>4, CloseOneType DEF RefundStake, TicketStatus, Terminal, Ref
  <2>2. settlement' \in [Ticket -> SettlementStatus]
    BY <1>4 DEF RefundStake, SettlementStatus
  <2> QED
    BY <1>4, <2>1, <2>2 DEF RefundStake, bookVars, txnVars
<1>5. CASE ForceLose(t) \/ ManualReview(t) \/ ReopenTicket(t)
  <2>1. status' \in [Ticket -> TicketStatus]
    BY <1>5 DEF ForceLose, ManualReview, ReopenTicket, TicketStatus, Terminal
  <2>2. settlement' \in [Ticket -> SettlementStatus]
    BY <1>5 DEF ForceLose, ManualReview, ReopenTicket, SettlementStatus
  <2>3. review' \subseteq Ticket
    BY <1>5 DEF ForceLose, ManualReview, ReopenTicket
  <2> QED
    BY <1>5, <2>1, <2>2, <2>3
    DEF ForceLose, ManualReview, ReopenTicket, bookVars, txnVars
<1>6. ASSUME NEW s \in Selection, VoidSelection(t, s)
      PROVE  TicketTypeOK'
  <2>1. leg' \in [Ticket -> [Selection -> LegStatus]]
    BY <1>6 DEF VoidSelection, LegStatus, Result
  <2>2. settlement' \in [Ticket -> SettlementStatus]
    BY <1>6 DEF VoidSelection, SettlementStatus
  <2>3. postponed' \subseteq Ticket \X Selection
    BY <1>6 DEF VoidSelection
  <2> QED
    BY <1>6, <2>1, <2>2, <2>3 DEF VoidSelection, walletVars, bookVars, txnVars
<1>7. ASSUME NEW amount \in OtherPayout, ForceWin(t, amount)
      PROVE  TicketTypeOK'
  <2>1. amount \in Nat
    BY AmountAssumption
  <2>2. status' \in [Ticket -> TicketStatus] /\ credit' \in [Ticket -> [Ref -> Nat]]
    BY <1>7, <2>1 DEF ForceWin, TicketStatus, Terminal, Ref
  <2>3. settlement' \in [Ticket -> SettlementStatus]
    BY <1>7 DEF ForceWin, SettlementStatus
  <2> QED
    BY <1>7, <2>2, <2>3 DEF ForceWin, bookVars, txnVars
<1> QED
  BY <1>1, <1>2, <1>3, <1>4, <1>5, <1>6, <1>7

\* The sportsbook module.
LEMMA TradingType == TicketTypeOK /\ TradingStep => TicketTypeOK'
<1> SUFFICES ASSUME TicketTypeOK, TradingStep
             PROVE  TicketTypeOK'
  OBVIOUS
<1> USE DEF TicketTypeOK
<1>1. ASSUME NEW s \in Selection, NEW r \in Result, UpdateSelection(s, r)
      PROVE  TicketTypeOK'
  BY <1>1 DEF UpdateSelection, walletVars, ticketVars, txnVars
<1>2. ASSUME NEW M \in SUBSET Selection, SettleMarket(M)
      PROVE  TicketTypeOK'
  <2>1. leg' \in [Ticket -> [Selection -> LegStatus]]
    BY <1>2 DEF SettleMarket, LegStatus, Result
  <2>2. status' \in [Ticket -> TicketStatus]
    BY <1>2 DEF SettleMarket, TicketStatus, Terminal
  <2> QED
    BY <1>2, <2>1, <2>2 DEF SettleMarket, walletVars, bookVars, txnVars
<1>3. ASSUME NEW t \in Ticket, NEW to \in Terminal, SettleBet(t, to)
      PROVE  TicketTypeOK'
  <2>1. status' \in [Ticket -> TicketStatus]
    BY <1>3 DEF SettleBet, TicketStatus
  <2> QED
    BY <1>3, <2>1 DEF SettleBet, walletVars, bookVars, txnVars
<1> QED
  BY <1>1, <1>2, <1>3 DEF TradingStep

\* No step breaks a type.
LEMMA NextType == TicketTypeOK /\ [Next]_vars => TicketTypeOK'
<1> SUFFICES ASSUME TicketTypeOK, [Next]_vars
             PROVE  TicketTypeOK'
  OBVIOUS
<1>1. CASE RestartServer
  BY <1>1, IdlePassType DEF TicketTypeOK, RestartServer, walletVars, ticketVars, bookVars
<1>2. CASE UNCHANGED vars
  BY <1>2 DEF TicketTypeOK, vars, walletVars, ticketVars, bookVars, txnVars
<1> QED
  BY <1>1, <1>2, BettorType, FixtureType, PassType, EventType, DeskType, TradingType
  DEF Next

\* Tickets, legs, ledger rows, events and passes always have their types,
\* whatever the staff does.
THEOREM TypesHold == Spec => []TicketTypeOK
  BY InitType, NextType, PTL DEF Spec

-----------------------------------------------------------------------------
\* What a step does to one ticket.

Stays(t) == status'[t] = status[t] /\ credit'[t] = credit[t]

\* One ticket is opened and no other touched.
Opens(t) ==
    /\ status[t] = "none"
    /\ status' = [status EXCEPT ![t] = "pending"]
    /\ credit' = credit
    /\ placing' = placing \ {t}

\* What a ticket that ends with status s may be credited.
Fits(t, s, amount) ==
    \/ s = "lost" /\ amount = 0
    \/ s = "void" /\ amount = Stake[t]
    \/ s \in {"won", "cashout"} /\ amount > 0

Closes(t) ==
    /\ status[t] = "pending"
    /\ \E ref \in Ref, amount \in Nat :
         /\ Fits(t, status'[t], amount)
         /\ credit'[t] = [credit[t] EXCEPT ![ref] = @ + amount]

\* Tickets stay as they are or close, and only new ones begin to be placed.
Settles ==
    /\ \A t \in Ticket : Stays(t) \/ Closes(t)
    /\ \A t \in placing' : t \in placing \/ status[t] = "none"

\* A ticket whose placement is under way has not been inserted.
PlacingIsNew == \A t \in placing : status[t] = "none"

\* Nobody reopens or resettles tickets or trades by hand.
NoCorrections == InUse \cap {"reopen", "trading"} = {}

\* A settlement from the legs closes pending tickets and leaves the others.
LEMMA SettleCloses ==
    ASSUME TicketTypeOK, NEW T \in SUBSET Ticket, NEW L,
           SettleFromLegs(T, L) \/ SettleOnMatchDesk(T, L),
           \A t \in T : status[t] = "pending"
    PROVE  \A t \in Ticket : Stays(t) \/ Closes(t)
<1>1. CloseTickets(T, L) /\ \E ref \in Ref : PostCredits(T, L, ref)
  BY DEF SettleFromLegs, SettleOnMatchDesk, Ref
<1>2. PICK ref \in Ref : PostCredits(T, L, ref)
  BY <1>1
<1> SUFFICES ASSUME NEW t \in Ticket
             PROVE  Stays(t) \/ Closes(t)
  OBVIOUS
<1>3. CASE t \notin T
  BY <1>1, <1>2, <1>3 DEF Stays, CloseTickets, PostCredits
<1>4. CASE t \in T
  <2>1. status'[t] = Outcome(L, t)
    BY <1>1, <1>4 DEF CloseTickets
  <2>2. credit'[t] = [credit[t] EXCEPT ![ref] = @ + DueCredit(L, t)]
    BY <1>2, <1>4 DEF PostCredits
  <2>3. Fits(t, Outcome(L, t), DueCredit(L, t)) /\ DueCredit(L, t) \in Nat
    BY DueCreditFits, OutcomeType DEF Fits, Outcomes
  <2> QED
    BY <1>4, <2>1, <2>2, <2>3 DEF Closes
<1> QED
  BY <1>3, <1>4

\* A handler that closes one ticket leaves the others.
LEMMA CloseOneCloses ==
    ASSUME TicketTypeOK, NEW u \in Ticket, NEW to, NEW ref \in Ref, NEW amount \in Nat,
           Fits(u, to, amount), CloseOne(u, to, ref, amount)
    PROVE  \A t \in Ticket : Stays(t) \/ Closes(t)
<1> SUFFICES ASSUME NEW t \in Ticket
             PROVE  Stays(t) \/ Closes(t)
  OBVIOUS
<1>1. CASE t # u
  BY <1>1 DEF TicketTypeOK, CloseOne, Stays
<1>2. CASE t = u
  <2>0. /\ status[u] = "pending" /\ status' = [status EXCEPT ![u] = to]
        /\ credit[u][ref] = 0 /\ credit' = [credit EXCEPT ![u][ref] = amount]
    BY DEF CloseOne
  <2>1. status[t] = "pending" /\ status'[t] = to
    BY <1>2, <2>0 DEF TicketTypeOK
  <2>2. credit'[t] = [credit[t] EXCEPT ![ref] = @ + amount]
    BY <1>2, <2>0 DEF TicketTypeOK
  <2>3. Fits(t, status'[t], amount)
    BY <1>2, <2>1 DEF Fits
  <2> QED
    BY <2>1, <2>2, <2>3 DEF Closes
<1> QED
  BY <1>1, <1>2

\* A handler that leaves statuses and ledger alone leaves every ticket alone.
LEMMA Untouched ==
    ASSUME status' = status, credit' = credit
    PROVE  \A t \in Ticket : Stays(t)
  BY DEF Stays

\* The bettor opens one ticket or closes one.
LEMMA BettorSteps ==
    ASSUME TicketTypeOK, PlacingIsNew, BettorStep
    PROVE  Settles \/ \E t \in Ticket : Opens(t)
<1> PICK u \in Ticket : \/ CheckSlip(u) \/ PlaceSlip(u) \/ RefuseSlip(u)
                        \/ UserCancel(u) \/ \E value \in OtherPayout : CashOut(u, value)
  BY DEF BettorStep
<1>1. CASE CheckSlip(u) \/ RefuseSlip(u)
  BY <1>1, Untouched DEF Settles, CheckSlip, RefuseSlip, ticketVars
<1>2. CASE PlaceSlip(u)
  BY <1>2 DEF PlaceSlip, PlacingIsNew, Opens
<1>3. CASE UserCancel(u)
  <2>1. CloseOne(u, "void", "cancel", Stake[u]) /\ placing' = placing
    BY <1>3 DEF UserCancel, txnVars
  <2>2. Stake[u] \in Nat /\ Fits(u, "void", Stake[u]) /\ "cancel" \in Ref
    BY AmountAssumption DEF Fits, Ref
  <2> QED
    BY <2>1, <2>2, CloseOneCloses DEF Settles
<1>4. ASSUME NEW value \in OtherPayout, CashOut(u, value)
      PROVE  Settles
  <2>1. CloseOne(u, "cashout", "cashout", value) /\ placing' = placing
    BY <1>4 DEF CashOut, txnVars
  <2>2. value \in Nat /\ Fits(u, "cashout", value) /\ "cashout" \in Ref
    BY AmountAssumption DEF Fits, Ref
  <2> QED
    BY <2>1, <2>2, CloseOneCloses DEF Settles
<1> QED
  BY <1>1, <1>2, <1>3, <1>4

\* A grading pass closes tickets when it commits, those that are still pending.
LEMMA PassSteps ==
    ASSUME TicketTypeOK, PassStep
    PROVE  Settles
<1> PICK p \in Pass : BeginPass(p) \/ CountPending(p) \/ CommitPass(p) \/ AbortPass(p)
  BY DEF PassStep
<1>1. CASE BeginPass(p) \/ CountPending(p) \/ AbortPass(p)
  BY <1>1, Untouched DEF Settles, BeginPass, GradeLegs, CountPending, AbortPass, ticketVars
<1>2. CASE CommitPass(p)
  <2>1. SettleFromLegs(ToSettle(p), SeenBy(p)) /\ placing' = placing
    BY <1>2 DEF CommitPass
  <2>2. ToSettle(p) \in SUBSET Ticket /\ \A t \in ToSettle(p) : status[t] = "pending"
    BY DEF ToSettle, TicketTypeOK, PassRecord
  <2> QED
    BY <2>1, <2>2, SettleCloses DEF Settles
<1> QED
  BY <1>1, <1>2

\* Tickets found pending are settled from some legs.
SettlesPending ==
    \E T \in SUBSET Ticket : \E L :
        /\ SettleFromLegs(T, L) \/ SettleOnMatchDesk(T, L)
        /\ \A t \in T : status[t] = "pending"

\* Event handlers and the loop settle tickets they find pending, or none.
LEMMA EventSettles ==
    ASSUME EventDeskStep \/ LoopStep
    PROVE  /\ txnVars' = txnVars
           /\ \/ SettlesPending
              \/ walletVars' = walletVars /\ status' = status /\ credit' = credit
<1>1. ASSUME NEW e \in Event, PostponeEvent(e) \/ FlagOverdueUnresolvedTickets(e)
      PROVE  /\ txnVars' = txnVars
             /\ walletVars' = walletVars /\ status' = status /\ credit' = credit
  BY <1>1 DEF PostponeEvent, FlagOverdueUnresolvedTickets, txnVars, walletVars
<1>2. ASSUME NEW e \in Event, CancelEvent(e)
      PROVE  SettlesPending /\ txnVars' = txnVars
  <2> DEFINE L == [t \in Ticket |-> [s \in Selection |->
                     IF s \in On(e) /\ leg[t][s] = "pending" THEN "void" ELSE leg[t][s]]]
             touched == {t \in Ticket : Touches(t, e) /\ status[t] = "pending"}
             ready == {t \in touched : ~HasPending(L, t)}
  <2>1. /\ SettleFromLegs(ready, L) /\ txnVars' = txnVars
        /\ ready \in SUBSET Ticket /\ \A t \in ready : status[t] = "pending"
    BY <1>2 DEF CancelEvent
  <2> HIDE DEF L, ready
  <2> QED
    BY <2>1 DEF SettlesPending
<1>3. ASSUME NEW X \in SUBSET Ticket, ExpirePostponed(X)
      PROVE  SettlesPending /\ txnVars' = txnVars
  <2> DEFINE L == [t \in Ticket |-> [s \in Selection |->
                     IF t \notin X THEN leg[t][s]
                     ELSE IF <<t, s>> \in postponed THEN "void"
                     ELSE IF leg[t][s] = "pending" /\ result[s] # "none" THEN result[s]
                     ELSE leg[t][s]]]
             ready == {t \in {t \in X : status[t] = "pending"} : ~HasPending(L, t)}
  <2>1. /\ SettleFromLegs(ready, L) /\ txnVars' = txnVars
        /\ ready \in SUBSET Ticket /\ \A t \in ready : status[t] = "pending"
    BY <1>3 DEF ExpirePostponed
  <2> HIDE DEF L, ready
  <2> QED
    BY <2>1 DEF SettlesPending
<1>4. ASSUME NEW e \in Event, NEW to, NEW f, MatchResult(e, to, f)
      PROVE  SettlesPending /\ txnVars' = txnVars
  <2> DEFINE L == [t \in Ticket |-> [s \in Selection |->
                     IF s \in On(e) /\ leg[t][s] = "pending" /\ f[s] # "none"
                     THEN f[s] ELSE leg[t][s]]]
             ready == {t \in Ticket : /\ Touches(t, e)
                                      /\ status[t] = "pending"
                                      /\ ~HasPending(L, t)}
  <2>1. /\ SettleOnMatchDesk(ready, L) /\ txnVars' = txnVars
        /\ ready \in SUBSET Ticket /\ \A t \in ready : status[t] = "pending"
    BY <1>4 DEF MatchResult
  <2> HIDE DEF L, ready
  <2> QED
    BY <2>1 DEF SettlesPending
<1> QED
  BY <1>1, <1>2, <1>3, <1>4 DEF EventDeskStep, LoopStep

\* So they leave every ticket alone or close it.
LEMMA EventSteps ==
    ASSUME TicketTypeOK, EventDeskStep \/ LoopStep
    PROVE  Settles
<1>1. CASE SettlesPending
  <2>1. \A t \in Ticket : Stays(t) \/ Closes(t)
    BY <1>1, SettleCloses DEF SettlesPending
  <2> QED
    BY <2>1, EventSettles DEF Settles, txnVars
<1>2. CASE status' = status /\ credit' = credit
  BY <1>2, Untouched, EventSettles DEF Settles, txnVars
<1> QED
  BY <1>1, <1>2, EventSettles

\* The desk closes pending tickets only, unless it reopens them.
LEMMA DeskSteps ==
    ASSUME TicketTypeOK, NoCorrections, TicketDeskStep
    PROVE  Settles
<1> PICK u \in Ticket :
            \/ CancelBet(u)
            \/ SettleTicket(u) \/ VoidTicket(u) \/ RefundStake(u)
            \/ ForceLose(u) \/ ManualReview(u)
            \/ ReopenTicket(u) \/ ResettleTicket(u)
            \/ \E s \in Selection : VoidSelection(u, s)
            \/ \E amount \in OtherPayout : ForceWin(u, amount)
  BY DEF TicketDeskStep
<1> Stake[u] \in Nat /\ Fits(u, "void", Stake[u]) /\ Fits(u, "lost", 0)
  BY AmountAssumption DEF Fits
<1> "settlement" \in Ref /\ "bet_cancel" \in Ref
  BY DEF Ref
<1>1. ASSUME NEW to, NEW ref \in Ref, NEW amount \in Nat, Fits(u, to, amount),
             status[u] = "pending", status' = [status EXCEPT ![u] = to],
             credit[u][ref] = 0 /\ credit' = [credit EXCEPT ![u][ref] = amount],
             txnVars' = txnVars
      PROVE  Settles
  <2>1. \A t \in Ticket : t # u => Stays(t)
    BY <1>1 DEF TicketTypeOK, Stays
  <2>2. status'[u] = to /\ credit'[u] = [credit[u] EXCEPT ![ref] = @ + amount]
    BY <1>1 DEF TicketTypeOK
  <2>3. Closes(u)
    BY <1>1, <2>2 DEF Closes
  <2> QED
    BY <1>1, <2>1, <2>3 DEF Settles, txnVars
<1>2. CASE CancelBet(u)
  <2>1. /\ status[u] = "pending" /\ status' = [status EXCEPT ![u] = "void"]
        /\ credit[u]["bet_cancel"] = 0
        /\ credit' = [credit EXCEPT ![u]["bet_cancel"] = Stake[u]]
        /\ txnVars' = txnVars
    BY <1>2 DEF CancelBet
  <2> QED
    BY <1>1, <2>1
<1>3. CASE SettleTicket(u)
  <2>1. SettleFromLegs({u}, leg) /\ status[u] = "pending" /\ placing' = placing
    BY <1>3 DEF SettleTicket, txnVars
  <2> QED
    BY <2>1, SettleCloses DEF Settles
<1>4. CASE VoidTicket(u) \/ RefundStake(u)
  <2>1. CloseOne(u, "void", "settlement", Stake[u]) /\ placing' = placing
    BY <1>4 DEF VoidTicket, RefundStake, txnVars
  <2> QED
    BY <2>1, CloseOneCloses DEF Settles
<1>5. CASE ForceLose(u)
  <2>1. /\ status[u] = "pending" /\ status' = [status EXCEPT ![u] = "lost"]
        /\ credit' = credit /\ placing' = placing
    BY <1>5 DEF ForceLose, txnVars
  <2>2. \A t \in Ticket : t # u => Stays(t)
    BY <2>1 DEF TicketTypeOK, Stays
  <2>3. status'[u] = "lost" /\ credit'[u] = [credit[u] EXCEPT !["settlement"] = @ + 0]
    BY <2>1 DEF TicketTypeOK
  <2>4. Closes(u)
    BY <2>1, <2>3 DEF Closes
  <2> QED
    BY <2>1, <2>2, <2>4 DEF Settles
<1>6. CASE ManualReview(u) \/ \E s \in Selection : VoidSelection(u, s)
  BY <1>6, Untouched DEF Settles, ManualReview, VoidSelection, walletVars, txnVars
<1>7. ASSUME NEW amount \in OtherPayout, ForceWin(u, amount)
      PROVE  Settles
  <2>1. amount \in Nat /\ Fits(u, "won", amount)
    BY AmountAssumption DEF Fits
  <2>2. /\ status[u] = "pending" /\ status' = [status EXCEPT ![u] = "won"]
        /\ credit[u]["settlement"] = 0
        /\ credit' = [credit EXCEPT ![u]["settlement"] = amount]
        /\ txnVars' = txnVars
    BY <1>7 DEF ForceWin
  <2> QED
    BY <1>1, <2>1, <2>2
<1>8. ~ReopenTicket(u) /\ ~ResettleTicket(u)
  BY DEF NoCorrections, ReopenTicket, ResettleTicket
<1> QED
  BY <1>2, <1>3, <1>4, <1>5, <1>6, <1>7, <1>8

\* Every step opens one ticket or settles some.
LEMMA TicketSteps ==
    ASSUME TicketTypeOK, PlacingIsNew, NoCorrections, [Next]_vars
    PROVE  Settles \/ \E t \in Ticket : Opens(t)
<1>1. CASE FixtureStep
  BY <1>1, Untouched DEF Settles, FixtureStep, StartEvent, FinishEvent, ticketVars, txnVars
<1>2. ~TradingStep
  BY DEF NoCorrections, TradingStep, UpdateSelection, SettleMarket, SettleBet
<1>3. CASE RestartServer
  BY <1>3, Untouched DEF Settles, RestartServer, ticketVars
<1>4. CASE UNCHANGED vars
  BY <1>4, Untouched DEF Settles, vars, ticketVars, txnVars
<1> QED
  BY <1>1, <1>2, <1>3, <1>4, BettorSteps, PassSteps, EventSteps, DeskSteps DEF Next

-----------------------------------------------------------------------------
\* What has been paid.

LEMMA InitPaid == Init => PaidOnce /\ PlacingIsNew
<1> SUFFICES ASSUME Init
             PROVE  PaidOnce /\ PlacingIsNew
  OBVIOUS
<1>1. \A t \in Ticket : status[t] = "none" /\ \A r \in Ref : credit[t][r] = 0
  BY DEF Init
<1>2. \A t \in Ticket : CreditOf(t) = 0
  BY <1>1 DEF CreditOf, Ref
<1> QED
  BY <1>1, <1>2 DEF Init, PaidOnce, PlacingIsNew

\* A pending ticket has been credited nothing, whatever the reference.
LEMMA NothingYet ==
    ASSUME TicketTypeOK, NEW t \in Ticket, CreditOf(t) = 0
    PROVE  \A r \in Ref : credit[t][r] = 0
<1>1. \A r \in Ref : credit[t][r] \in Nat
  BY DEF TicketTypeOK
<1>2. /\ credit[t]["settlement"] \in Nat /\ credit[t]["settle"] \in Nat
      /\ credit[t]["cashout"] \in Nat /\ credit[t]["cancel"] \in Nat
      /\ credit[t]["bet_cancel"] \in Nat
  BY <1>1 DEF Ref
<1>3. /\ credit[t]["settlement"] = 0 /\ credit[t]["settle"] = 0
      /\ credit[t]["cashout"] = 0 /\ credit[t]["cancel"] = 0
      /\ credit[t]["bet_cancel"] = 0
  <2> DEFINE a == credit[t]["settlement"]
             b == credit[t]["settle"]
             c == credit[t]["cashout"]
             d == credit[t]["cancel"]
             e == credit[t]["bet_cancel"]
  <2>1. a + b + c + d + e = 0
    BY DEF CreditOf
  <2>2. a \in Nat /\ b \in Nat /\ c \in Nat /\ d \in Nat /\ e \in Nat
    BY <1>2
  <2>3. a = 0 /\ b = 0 /\ c = 0 /\ d = 0 /\ e = 0
    <3> HIDE DEF a, b, c, d, e
    <3> QED
      BY <2>1, <2>2
  <2> QED
    BY <2>3
<1> QED
  BY <1>3 DEF Ref

\* A ticket that closes is credited exactly what its final status allows.
LEMMA ClosingPays ==
    ASSUME TicketTypeOK, PaidOnce, NEW t \in Ticket, Closes(t)
    PROVE  /\ Fits(t, status'[t], CreditOf(t)')
           /\ CreditOf(t)' \in Nat
           /\ \A q, r \in Ref : credit'[t][q] > 0 /\ credit'[t][r] > 0 => q = r
<1>1. PICK ref \in Ref, amount \in Nat :
        /\ Fits(t, status'[t], amount)
        /\ credit'[t] = [credit[t] EXCEPT ![ref] = @ + amount]
  BY DEF Closes
<1>2. CreditOf(t) = 0
  BY DEF PaidOnce, Closes
<1>3. \A r \in Ref : credit[t][r] = 0
  BY <1>2, NothingYet
<1>4. credit[t] \in [Ref -> Nat]
  BY DEF TicketTypeOK
<1>5. \A r \in Ref : credit'[t][r] = IF r = ref THEN amount ELSE 0
  BY <1>1, <1>3, <1>4
<1>6. CreditOf(t)' = amount
  BY <1>5 DEF CreditOf, Ref
<1> QED
  BY <1>1, <1>5, <1>6

\* A ticket that is left alone has what it had.
LEMMA StayingKeeps ==
    ASSUME NEW t \in Ticket, Stays(t)
    PROVE  CreditOf(t)' = CreditOf(t)
  BY DEF Stays, CreditOf

LEMMA StepPaid ==
    ASSUME TicketTypeOK, PaidOnce, PlacingIsNew, NoCorrections, [Next]_vars
    PROVE  PaidOnce' /\ PlacingIsNew'
<1> DEFINE Paid(t) ==
      /\ \A q, r \in Ref : credit[t][q] > 0 /\ credit[t][r] > 0 => q = r
      /\ status[t] \in {"none", "pending", "lost"} => CreditOf(t) = 0
      /\ status[t] = "void" => CreditOf(t) = Stake[t]
      /\ status[t] \in {"won", "cashout"} => CreditOf(t) > 0
<1>1. CASE Settles
  <2>1. ASSUME NEW t \in Ticket, Stays(t)
        PROVE  Paid(t)'
    BY <2>1, StayingKeeps DEF PaidOnce, Stays
  <2>2. ASSUME NEW t \in Ticket, Closes(t)
        PROVE  Paid(t)'
    BY <2>2, ClosingPays DEF Fits
  <2>3. PaidOnce'
    BY <1>1, <2>1, <2>2 DEF Settles, PaidOnce
  <2>4. PlacingIsNew'
    <3> SUFFICES ASSUME NEW t \in placing'
                 PROVE  status'[t] = "none"
      BY DEF PlacingIsNew
    <3>1. status[t] = "none" /\ t \in Ticket
      BY <1>1, NextType DEF Settles, PlacingIsNew, TicketTypeOK
    <3> QED
      BY <1>1, <3>1 DEF Settles, Stays, Closes
  <2> QED
    BY <2>3, <2>4
<1>2. ASSUME NEW u \in Ticket, Opens(u)
      PROVE  PaidOnce' /\ PlacingIsNew'
  <2>1. \A t \in Ticket : CreditOf(t)' = CreditOf(t)
    BY <1>2 DEF Opens, CreditOf
  <2>2. \A t \in Ticket : status'[t] = status[t] \/ (status[t] = "none" /\ status'[t] = "pending")
    BY <1>2 DEF Opens, TicketTypeOK
  <2>3. PaidOnce'
    BY <1>2, <2>1, <2>2 DEF Opens, PaidOnce
  <2>4. PlacingIsNew'
    BY <1>2 DEF Opens, PlacingIsNew, TicketTypeOK
  <2> QED
    BY <2>3, <2>4
<1> QED
  BY <1>1, <1>2, TicketSteps

\* Cash-outs, cancellations, grading passes, expiries, the match desk and the
\* settlement desk race for a ticket and exactly one of them is credited.
THEOREM PaidExactlyOnce == ASSUME NoCorrections PROVE Spec => []PaidOnce
<1>1. TicketTypeOK /\ PaidOnce /\ PlacingIsNew /\ [Next]_vars => PaidOnce' /\ PlacingIsNew'
  BY StepPaid
<1> QED
  BY <1>1, InitPaid, TypesHold, PTL DEF Spec

-----------------------------------------------------------------------------
\* The promise to the bettor.

LEMMA PromiseInit == Init => Promise!Init
<1> SUFFICES ASSUME Init
             PROVE  Promise!Init
  OBVIOUS
<1>1. \A t \in Ticket : status[t] = "none" /\ \A r \in Ref : credit[t][r] = 0
  BY DEF Init
<1>2. \A t \in Ticket : StageOf(t) = "none" /\ CreditOf(t) = 0
  BY <1>1 DEF StageOf, CreditOf, Ref
<1> QED
  BY <1>2 DEF Promise!Init

\* Opening one ticket places it; settling closes some.
LEMMA PromiseStep ==
    ASSUME TicketTypeOK, PaidOnce, PlacingIsNew, NoCorrections, [Next]_vars
    PROVE  Promise!Next
<1> DEFINE stage == [t \in Ticket |-> StageOf(t)]
           paid == [t \in Ticket |-> CreditOf(t)]
<1>1. ASSUME NEW u \in Ticket, Opens(u)
      PROVE  Promise!Place(u)
  <2>1. StageOf(u) = "none"
    BY <1>1 DEF Opens, StageOf
  <2>2. \A t \in Ticket : StageOf(t)' = IF t = u THEN "open" ELSE StageOf(t)
    BY <1>1 DEF Opens, StageOf, TicketTypeOK
  <2>3. \A t \in Ticket : CreditOf(t)' = CreditOf(t)
    BY <1>1 DEF Opens, CreditOf
  <2>4. stage' = [stage EXCEPT ![u] = "open"] /\ paid' = paid
    BY <2>2, <2>3
  <2> QED
    BY <2>1, <2>4 DEF Promise!Place
<1>2. CASE Settles
  <2>1. TicketTypeOK'
    BY NextType
  <2>2. \A t \in Ticket : StageOf(t)' \in Promise!Stage /\ CreditOf(t)' \in Nat
    <3>1. \A t \in Ticket : StageOf(t)' \in Promise!Stage
      BY <2>1 DEF TicketTypeOK, TicketStatus, Terminal, StageOf, Promise!Stage
    <3>2. \A t \in Ticket : \A r \in Ref : credit'[t][r] \in Nat
      BY <2>1 DEF TicketTypeOK
    <3>3. \A t \in Ticket : CreditOf(t)' \in Nat
      BY <3>2 DEF CreditOf, Ref
    <3> QED
      BY <3>1, <3>3
  <2>3. ASSUME NEW t \in Ticket
        PROVE  \/ StageOf(t)' = StageOf(t) /\ CreditOf(t)' = CreditOf(t)
               \/ /\ StageOf(t) = "open"
                  /\ StageOf(t)' \in Promise!Closed
                  /\ Promise!MayPay(t, StageOf(t)', CreditOf(t)')
    <3>1. CASE Stays(t)
      BY <3>1, StayingKeeps DEF Stays, StageOf
    <3>2. CASE Closes(t)
      <4>1. StageOf(t) = "open"
        BY <3>2 DEF Closes, StageOf
      <4>2. Fits(t, status'[t], CreditOf(t)')
        BY <3>2, ClosingPays
      <4> QED
        BY <4>1, <4>2 DEF Fits, StageOf, Promise!Closed, Promise!MayPay
    <3> QED
      BY <1>2, <3>1, <3>2 DEF Settles
  <2> QED
    BY <2>2, <2>3 DEF Promise!Next, Promise!Close
<1> QED
  BY <1>1, <1>2, TicketSteps DEF Promise!Next

\* As long as nobody corrects tickets by hand, placement, cash-out,
\* cancellation, grading and both desks implement the promise: a ticket is
\* closed once and pays nothing, its stake or a win.
THEOREM PromiseKept == ASSUME NoCorrections PROVE Spec => KeepsPromise
<1>1. TicketTypeOK /\ PaidOnce /\ PlacingIsNew /\ [Next]_vars => PaidOnce' /\ PlacingIsNew'
  BY StepPaid
<1>2. TicketTypeOK /\ PaidOnce /\ PlacingIsNew /\ [Next]_vars => Promise!Next
  BY PromiseStep
<1> QED
  BY <1>1, <1>2, InitPaid, PromiseInit, TypesHold, PTL DEF Spec, KeepsPromise, Promise!Spec

-----------------------------------------------------------------------------
\* What a user's tickets add up to.

\* The tickets of u in T.
Mine(T, u) == {t \in T : Bettor[t] = u}

LEMMA TotalMine == \A T, u, f : Total(T, u, f) = SumFunctionOnSet(f, Mine(T, u))
  BY DEF Total, Mine

LEMMA MineFinite == \A T \in SUBSET Ticket : \A u : IsFiniteSet(Mine(T, u))
  BY SlipAssumption, FS_Subset DEF Mine

LEMMA TotalNat ==
    ASSUME NEW T \in SUBSET Ticket, NEW u, NEW f, \A t \in T : f[t] \in Nat
    PROVE  Total(T, u, f) \in Nat
<1>1. IsFiniteSet(Mine(T, u)) /\ \A t \in Mine(T, u) : f[t] \in Nat
  BY MineFinite DEF Mine
<1> QED
  BY <1>1, SumNat, TotalMine

\* Disjoint sets of tickets.
LEMMA TotalUnion ==
    ASSUME NEW S \in SUBSET Ticket, NEW T \in SUBSET Ticket, S \cap T = {}, NEW u, NEW f,
           \A t \in S \cup T : f[t] \in Nat
    PROVE  Total(S \cup T, u, f) = Total(S, u, f) + Total(T, u, f)
<1>1. IsFiniteSet(Mine(S, u)) /\ IsFiniteSet(Mine(T, u))
  BY MineFinite
<1>2. Mine(S, u) \cap Mine(T, u) = {} /\ Mine(S \cup T, u) = Mine(S, u) \cup Mine(T, u)
  BY DEF Mine
<1>3. \A t \in Mine(S, u) \cup Mine(T, u) : f[t] \in Int
  <2>1. \A t \in Mine(S, u) \cup Mine(T, u) : t \in S \cup T
    BY DEF Mine
  <2> QED
    BY <2>1
<1>4. SumFunctionOnSet(f, Mine(S, u) \cup Mine(T, u))
        = SumFunctionOnSet(f, Mine(S, u)) + SumFunctionOnSet(f, Mine(T, u))
  BY <1>1, <1>2, <1>3, SumUnion
<1> QED
  BY <1>2, <1>4, TotalMine

\* Amounts raised by d on T.
LEMMA TotalRaised ==
    ASSUME NEW T \in SUBSET Ticket, NEW u, NEW f, NEW d, NEW g,
           \A t \in Ticket : f[t] \in Nat,
           \A t \in T : d[t] \in Nat /\ g[t] = f[t] + d[t],
           \A t \in Ticket \ T : g[t] = f[t]
    PROVE  Total(Ticket, u, g) = Total(Ticket, u, f) + Total(T, u, d)
<1>1. IsFiniteSet(Mine(Ticket, u)) /\ Mine(T, u) \in SUBSET Mine(Ticket, u)
  BY MineFinite DEF Mine
<1>2. /\ \A t \in Mine(Ticket, u) : t \in Ticket
      /\ \A t \in Mine(T, u) : t \in T
      /\ \A t \in Mine(Ticket, u) \ Mine(T, u) : t \in Ticket \ T
  BY DEF Mine
<1>3. /\ \A t \in Mine(Ticket, u) : f[t] \in Int
      /\ \A t \in Mine(T, u) : d[t] \in Int /\ g[t] = f[t] + d[t]
      /\ \A t \in Mine(Ticket, u) \ Mine(T, u) : g[t] = f[t]
  BY <1>2
<1>4. SumFunctionOnSet(g, Mine(Ticket, u))
        = SumFunctionOnSet(f, Mine(Ticket, u)) + SumFunctionOnSet(d, Mine(T, u))
  BY <1>1, <1>3, SumRaised
<1> QED
  BY <1>4, TotalMine

\* A single ticket counts for its bettor.
LEMMA TotalOne ==
    ASSUME NEW t \in Ticket, NEW u, NEW f, f[t] \in Nat
    PROVE  /\ Bettor[t] = u => Total({t}, u, f) = f[t]
           /\ Bettor[t] # u => Total({t}, u, f) = 0
<1>1. ASSUME Bettor[t] # u
      PROVE  Total({t}, u, f) = 0
  <2>1. {x \in {t} : Bettor[x] = u} = {}
    BY <1>1
  <2> QED
    BY <2>1, SumEmpty DEF Total
<1>2. ASSUME Bettor[t] = u
      PROVE  Total({t}, u, f) = f[t]
  <2>1. {x \in {t} : Bettor[x] = u} = {} \cup {t}
    BY <1>2
  <2>2. SumFunctionOnSet(f, {} \cup {t}) = SumFunctionOnSet(f, {}) + f[t]
    BY f[t] \in Int, FS_EmptySet, SumAdd
  <2>3. SumFunctionOnSet(f, {}) = 0
    BY SumEmpty
  <2>4. SumFunctionOnSet(f, {} \cup {t}) = f[t]
    BY <2>2, <2>3
  <2>5. Total({t}, u, f) = SumFunctionOnSet(f, {x \in {t} : Bettor[x] = u})
    BY DEF Total
  <2> QED
    BY <2>1, <2>4, <2>5
<1> QED
  BY <1>1, <1>2

LEMMA TotalNone == \A u, f : Total({}, u, f) = 0
<1> SUFFICES ASSUME NEW u, NEW f
             PROVE  Total({}, u, f) = 0
  OBVIOUS
<1>1. {t \in {} : Bettor[t] = u} = {}
  OBVIOUS
<1> QED
  BY <1>1, SumEmpty DEF Total

\* What is zero for every ticket.
LEMMA TotalZero ==
    ASSUME NEW T \in SUBSET Ticket, NEW u, NEW f, \A t \in T : f[t] = 0
    PROVE  Total(T, u, f) = 0
<1>1. IsFiniteSet(Mine(T, u)) /\ \A t \in Mine(T, u) : f[t] = 0
  BY MineFinite DEF Mine
<1> QED
  BY <1>1, SumZero, TotalMine

\* Stakes are naturals whatever tickets they are taken of.
LEMMA StakesNat == \A T \in SUBSET Ticket : \A u : Total(T, u, Stake) \in Nat
<1>1. \A t \in Ticket : Stake[t] \in Nat
  BY AmountAssumption
<1> QED
  BY <1>1, TotalNat

-----------------------------------------------------------------------------
\* What a step does to the wallets.

\* The tickets that have been placed.
Placed == {t \in Ticket : status[t] # "none"}

\* No money moves, except that locked_balance may be released.
Quiet ==
    /\ balance' = balance
    /\ withdrawable' = withdrawable
    /\ \A t \in Ticket : CreditOf(t)' = CreditOf(t)
    /\ Placed' = Placed

\* A ticket is placed and its stake taken.
Stakes(t) ==
    /\ status[t] = "none"
    /\ balance[Bettor[t]] >= Stake[t]
    /\ balance' = [balance EXCEPT ![Bettor[t]] = @ - Stake[t]]
    /\ withdrawable' = withdrawable
    /\ credit' = credit
    /\ Placed' = Placed \cup {t}
    /\ t \notin placing'

\* The tickets of T are credited d, those of W to the withdrawable bucket.
Pays(T, W, d) ==
    /\ \A t \in T : d[t] \in Nat /\ CreditOf(t)' = CreditOf(t) + d[t]
    /\ \A t \in Ticket \ T : CreditOf(t)' = CreditOf(t)
    /\ \A u \in User :
         /\ balance'[u] = balance[u] + Total(T \ W, u, d)
         /\ withdrawable'[u] = withdrawable[u] + Total(W, u, d)
    /\ Placed' = Placed

Moves ==
    \/ Quiet
    \/ \E t \in Ticket : Stakes(t)
    \/ \E T \in SUBSET Ticket : \E W \in SUBSET T : \E d : Pays(T, W, d)

WalletTypeOK ==
    /\ balance \in [User -> Nat]
    /\ locked \in [User -> Nat]
    /\ withdrawable \in [User -> Nat]

\* A placement under way stays one of a new ticket.
NewStaysNew == \A t \in placing' : t \in placing \/ status[t] = "none"

\* Steps that neither place a ticket nor touch its wallet.
LEMMA QuietStep ==
    ASSUME WalletTypeOK, walletVars' = walletVars, credit' = credit, Placed' = Placed
    PROVE  Quiet /\ WalletTypeOK'
  BY DEF Quiet, WalletTypeOK, walletVars, CreditOf

\* One row more raises what a ticket has been credited.
LEMMA RaiseCredit ==
    ASSUME TicketTypeOK, NEW t \in Ticket, NEW ref \in Ref, NEW n \in Nat,
           credit'[t] = [credit[t] EXCEPT ![ref] = @ + n]
    PROVE  CreditOf(t)' = CreditOf(t) + n
<1> DEFINE c == credit[t]
<1>1. \A r \in Ref : c[r] \in Nat /\ credit'[t][r] = IF r = ref THEN c[r] + n ELSE c[r]
  BY DEF TicketTypeOK
<1>2. /\ c["settlement"] \in Nat /\ c["settle"] \in Nat /\ c["cashout"] \in Nat
      /\ c["cancel"] \in Nat /\ c["bet_cancel"] \in Nat
  BY <1>1 DEF Ref
<1>3. CreditOf(t)' = credit'[t]["settlement"] + credit'[t]["settle"] + credit'[t]["cashout"]
                       + credit'[t]["cancel"] + credit'[t]["bet_cancel"]
  BY DEF CreditOf
<1>4. CreditOf(t) = c["settlement"] + c["settle"] + c["cashout"] + c["cancel"] + c["bet_cancel"]
  BY DEF CreditOf
<1> HIDE DEF c
<1> QED
  BY <1>1, <1>2, <1>3, <1>4 DEF Ref

\* Releasing stakes leaves a natural.
LEMMA ReleaseType ==
    ASSUME WalletTypeOK, NEW T \in SUBSET Ticket, ReleaseStakes(T)
    PROVE  locked' \in [User -> Nat]
<1> SUFFICES ASSUME NEW u \in User
             PROVE  (IF Total(T, u, Stake) <= locked[u]
                     THEN locked[u] - Total(T, u, Stake) ELSE 0) \in Nat
  BY DEF ReleaseStakes
<1>1. Total(T, u, Stake) \in Nat /\ locked[u] \in Nat
  BY StakesNat DEF WalletTypeOK
<1> QED
  BY <1>1

\* A handler that closes one ticket releases its stake like the others.
LEMMA OneReleased ==
    ASSUME WalletTypeOK, NEW t \in Ticket,
           locked' = [locked EXCEPT ![Bettor[t]] = IF Stake[t] <= @ THEN @ - Stake[t] ELSE 0]
    PROVE  ReleaseStakes({t})
<1>1. Stake[t] \in Nat
  BY AmountAssumption
<1>2. \A u \in User : /\ Bettor[t] = u => Total({t}, u, Stake) = Stake[t]
                      /\ Bettor[t] # u => Total({t}, u, Stake) = 0
  BY <1>1, TotalOne
<1>3. \A u \in User :
        locked'[u] = IF Total({t}, u, Stake) <= locked[u]
                     THEN locked[u] - Total({t}, u, Stake) ELSE 0
  <2> SUFFICES ASSUME NEW u \in User
               PROVE  locked'[u] = IF Total({t}, u, Stake) <= locked[u]
                                   THEN locked[u] - Total({t}, u, Stake) ELSE 0
    OBVIOUS
  <2>1. CASE Bettor[t] = u
    BY <1>2, <2>1 DEF WalletTypeOK
  <2>2. CASE Bettor[t] # u
    <3>1. locked'[u] = locked[u] /\ locked[u] \in Nat /\ Total({t}, u, Stake) = 0
      BY <1>2, <2>2 DEF WalletTypeOK
    <3> QED
      BY <3>1
  <2> QED
    BY <2>1, <2>2
<1>4. locked' = [u \in User |-> locked'[u]]
  BY DEF WalletTypeOK
<1> QED
  BY <1>3, <1>4 DEF ReleaseStakes

\* What handlers for one ticket do to a wallet.
LEMMA OnePays ==
    ASSUME TypeOK, NEW t \in Ticket, NEW ref \in Ref, NEW amount \in Nat,
           credit[t][ref] = 0, credit' = [credit EXCEPT ![t][ref] = amount],
           Placed' = Placed,
           \/ balance' = [balance EXCEPT ![Bettor[t]] = @ + amount]
              /\ withdrawable' = withdrawable
           \/ withdrawable' = [withdrawable EXCEPT ![Bettor[t]] = @ + amount]
              /\ balance' = balance
    PROVE  /\ Moves
           /\ balance' \in [User -> Nat] /\ withdrawable' \in [User -> Nat]
<1> DEFINE d == [x \in {t} |-> amount]
<1>1. credit'[t] = [credit[t] EXCEPT ![ref] = @ + amount]
  BY DEF TypeOK, TicketTypeOK
<1>2. CreditOf(t)' = CreditOf(t) + d[t] /\ d[t] \in Nat
  BY <1>1, RaiseCredit DEF TypeOK
<1>3. \A x \in Ticket \ {t} : CreditOf(x)' = CreditOf(x)
  BY DEF TypeOK, TicketTypeOK, CreditOf
<1>4. \A u \in User : /\ Bettor[t] = u => Total({t}, u, d) = amount
                      /\ Bettor[t] # u => Total({t}, u, d) = 0
                      /\ Total({}, u, d) = 0
  BY <1>2, TotalOne, TotalNone
<1>5. Bettor[t] \in User
  BY SlipAssumption
<1>6. CASE balance' = [balance EXCEPT ![Bettor[t]] = @ + amount] /\ withdrawable' = withdrawable
  <2>1. \A u \in User : balance[u] \in Nat /\ withdrawable[u] \in Nat
    BY DEF TypeOK
  <2>2. \A u \in User : /\ Bettor[t] = u => balance'[u] = balance[u] + amount
                        /\ Bettor[t] # u => balance'[u] = balance[u]
    BY <1>6 DEF TypeOK
  <2>3. \A u \in User : /\ balance'[u] = balance[u] + Total({t} \ {}, u, d)
                        /\ withdrawable'[u] = withdrawable[u] + Total({}, u, d)
    <3> SUFFICES ASSUME NEW u \in User
                 PROVE  /\ balance'[u] = balance[u] + Total({t} \ {}, u, d)
                        /\ withdrawable'[u] = withdrawable[u] + Total({}, u, d)
      OBVIOUS
    <3> HIDE DEF d
    <3>1. {t} \ {} = {t} /\ {t} \ {t} = {}
      OBVIOUS
    <3>2. balance[u] + 0 = balance[u] /\ withdrawable[u] + 0 = withdrawable[u]
      BY <2>1
    <3>3. Total({}, u, d) = 0 /\ withdrawable'[u] = withdrawable[u]
      BY <1>4, <1>6
    <3>4. CASE Bettor[t] = u
      BY ONLY <1>4, <2>2, <3>1, <3>2, <3>3, <3>4
    <3>5. CASE Bettor[t] # u
      BY ONLY <1>4, <2>2, <3>1, <3>2, <3>3, <3>5
    <3> QED
      BY <3>4, <3>5
  <2>4. Pays({t}, {}, d)
    <3> HIDE DEF d
    <3> QED
      BY <1>2, <1>3, <2>3 DEF Pays
  <2>5. balance' \in [User -> Nat] /\ withdrawable' \in [User -> Nat]
    BY <1>5, <1>6 DEF TypeOK
  <2> QED
    BY <2>4, <2>5 DEF Moves
<1>7. CASE withdrawable' = [withdrawable EXCEPT ![Bettor[t]] = @ + amount] /\ balance' = balance
  <2>1. \A u \in User : balance[u] \in Nat /\ withdrawable[u] \in Nat
    BY DEF TypeOK
  <2>2. \A u \in User : /\ Bettor[t] = u => withdrawable'[u] = withdrawable[u] + amount
                        /\ Bettor[t] # u => withdrawable'[u] = withdrawable[u]
    BY <1>7 DEF TypeOK
  <2>3. \A u \in User : /\ balance'[u] = balance[u] + Total({t} \ {t}, u, d)
                        /\ withdrawable'[u] = withdrawable[u] + Total({t}, u, d)
    <3> SUFFICES ASSUME NEW u \in User
                 PROVE  /\ balance'[u] = balance[u] + Total({t} \ {t}, u, d)
                        /\ withdrawable'[u] = withdrawable[u] + Total({t}, u, d)
      OBVIOUS
    <3> HIDE DEF d
    <3>1. {t} \ {} = {t} /\ {t} \ {t} = {}
      OBVIOUS
    <3>2. balance[u] + 0 = balance[u] /\ withdrawable[u] + 0 = withdrawable[u]
      BY <2>1
    <3>3. Total({}, u, d) = 0 /\ balance'[u] = balance[u]
      BY <1>4, <1>7
    <3>4. CASE Bettor[t] = u
      BY ONLY <1>4, <2>2, <3>1, <3>2, <3>3, <3>4
    <3>5. CASE Bettor[t] # u
      BY ONLY <1>4, <2>2, <3>1, <3>2, <3>3, <3>5
    <3> QED
      BY <3>4, <3>5
  <2>4. Pays({t}, {t}, d)
    <3> HIDE DEF d
    <3> QED
      BY <1>2, <1>3, <2>3 DEF Pays
  <2>5. balance' \in [User -> Nat] /\ withdrawable' \in [User -> Nat]
    BY <1>5, <1>7 DEF TypeOK
  <2> QED
    BY <2>4, <2>5 DEF Moves
<1> QED
  BY <1>6, <1>7

\* What a settlement from the legs does to the wallets.
LEMMA SettlePays ==
    ASSUME TypeOK, NEW T \in SUBSET Ticket, NEW L, \A t \in T : status[t] # "none",
           SettleFromLegs(T, L) \/ SettleOnMatchDesk(T, L)
    PROVE  Moves /\ WalletTypeOK'
<1> DEFINE d == Dues(T, L)
           wins == {t \in T : Outcome(L, t) = "won"}
<1> USE DEF TypeOK
<1>1. /\ CloseTickets(T, L) /\ ReleaseStakes(T)
      /\ \E ref \in Ref : PostCredits(T, L, ref)
  BY DEF SettleFromLegs, SettleOnMatchDesk, Ref
<1>2. PICK ref \in Ref : PostCredits(T, L, ref)
  BY <1>1
<1>3. Placed' = Placed
  BY <1>1, OutcomeType DEF CloseTickets, Placed, Outcomes
<1>4. \A t \in T : d[t] = DueCredit(L, t) /\ d[t] \in Nat
  BY DueCreditFits DEF Dues
<1>5. ASSUME NEW t \in T
      PROVE  CreditOf(t)' = CreditOf(t) + d[t]
  <2>1. credit'[t] = [credit[t] EXCEPT ![ref] = @ + d[t]]
    BY <1>2, <1>4 DEF PostCredits
  <2> HIDE DEF d
  <2> QED
    BY <1>4, <2>1, RaiseCredit
<1>6. \A t \in Ticket \ T : CreditOf(t)' = CreditOf(t)
  BY <1>2 DEF PostCredits, CreditOf
<1>7. locked' \in [User -> Nat]
  BY <1>1, ReleaseType DEF WalletTypeOK
<1> HIDE DEF d
<1>8. \A u \in User, S \in SUBSET T : Total(S, u, d) \in Nat
  BY <1>4, TotalNat
<1>9. CASE SettleFromLegs(T, L)
  <2>1. /\ balance' = [u \in User |-> balance[u] + Total(T \ wins, u, d)]
        /\ withdrawable' = [u \in User |-> withdrawable[u] + Total(wins, u, d)]
    BY <1>9 DEF SettleFromLegs, d
  <2>2. T \ wins \in SUBSET T /\ wins \in SUBSET T
    OBVIOUS
  <2> HIDE DEF wins
  <2>3. Pays(T, wins, d)
    BY <1>3, <1>4, <1>5, <1>6, <2>1 DEF Pays
  <2>4. WalletTypeOK'
    BY <1>7, <1>8, <2>1, <2>2 DEF WalletTypeOK
  <2> QED
    BY <2>2, <2>3, <2>4 DEF Moves
<1>10. CASE SettleOnMatchDesk(T, L)
  <2>1. /\ balance' = [u \in User |-> balance[u] + Total(T, u, d)]
        /\ withdrawable' = withdrawable
    BY <1>10 DEF SettleOnMatchDesk, d
  <2>2. \A u \in User : withdrawable'[u] = withdrawable[u] + Total({}, u, d)
    <3> SUFFICES ASSUME NEW u \in User
                 PROVE  withdrawable'[u] = withdrawable[u] + Total({}, u, d)
      OBVIOUS
    <3>1. Total({}, u, d) = 0
      BY TotalNone
    <3> QED
      BY <2>1, <3>1
  <2>3. T \ {} = T
    OBVIOUS
  <2>4. Pays(T, {}, d)
    BY <1>3, <1>4, <1>5, <1>6, <2>1, <2>2, <2>3 DEF Pays
  <2>5. WalletTypeOK'
    BY <1>7, <1>8, <2>1 DEF WalletTypeOK
  <2> QED
    BY <2>4, <2>5 DEF Moves
<1> QED
  BY <1>9, <1>10

\* What the handlers that close one ticket do to its wallet.
LEMMA CloseOnePays ==
    ASSUME TypeOK, NEW t \in Ticket, NEW to, to # "none", NEW ref \in Ref,
           NEW amount \in Nat, CloseOne(t, to, ref, amount)
    PROVE  /\ Moves /\ WalletTypeOK'
           /\ ReleaseStakes({t})
<1>1. Placed' = Placed
  BY DEF CloseOne, Placed, TypeOK, TicketTypeOK
<1>2. Moves /\ balance' \in [User -> Nat] /\ withdrawable' \in [User -> Nat]
  <2>1. /\ credit[t][ref] = 0
        /\ credit' = [credit EXCEPT ![t][ref] = amount]
        /\ balance' = [balance EXCEPT ![Bettor[t]] = @ + amount]
        /\ withdrawable' = withdrawable
    BY DEF CloseOne
  <2> QED
    BY <1>1, <2>1, OnePays
<1>3. ReleaseStakes({t})
  BY OneReleased DEF CloseOne, TypeOK, WalletTypeOK
<1>4. locked' \in [User -> Nat]
  BY <1>3, ReleaseType DEF TypeOK, WalletTypeOK
<1> QED
  BY <1>2, <1>3, <1>4 DEF WalletTypeOK

-----------------------------------------------------------------------------
\* The steps, one after the other.

\* A step that leaves wallets, ledger and statuses alone.
LEMMA StillStep ==
    ASSUME TypeOK, walletVars' = walletVars, credit' = credit, status' = status
    PROVE  Moves /\ WalletTypeOK'
  BY QuietStep DEF Moves, Placed, TypeOK, WalletTypeOK

LEMMA BettorMoves ==
    ASSUME TypeOK, PlacingIsNew, BettorStep
    PROVE  Moves /\ WalletTypeOK' /\ NewStaysNew
<1> PICK t \in Ticket : \/ CheckSlip(t) \/ PlaceSlip(t) \/ RefuseSlip(t)
                        \/ UserCancel(t) \/ \E value \in OtherPayout : CashOut(t, value)
  BY DEF BettorStep
<1> Stake[t] \in Nat
  BY AmountAssumption
<1>1. CASE CheckSlip(t) \/ RefuseSlip(t)
  <2>1. walletVars' = walletVars /\ ticketVars' = ticketVars /\ NewStaysNew
    BY <1>1 DEF CheckSlip, RefuseSlip, NewStaysNew, walletVars, ticketVars
  <2> QED
    BY <2>1, StillStep DEF ticketVars
<1>2. CASE PlaceSlip(t)
  <2>1. status[t] = "none"
    BY <1>2 DEF PlaceSlip, PlacingIsNew
  <2>2. Placed' = Placed \cup {t}
    BY <1>2 DEF PlaceSlip, Placed, TypeOK, TicketTypeOK
  <2>3. Stakes(t)
    BY <1>2, <2>1, <2>2 DEF PlaceSlip, Stakes
  <2>4. WalletTypeOK' /\ NewStaysNew
    BY <1>2, SlipAssumption DEF PlaceSlip, TypeOK, WalletTypeOK, NewStaysNew
  <2> QED
    BY <2>3, <2>4 DEF Moves
<1>3. CASE UserCancel(t)
  <2>1. CloseOne(t, "void", "cancel", Stake[t]) /\ placing' = placing
    BY <1>3 DEF UserCancel, txnVars
  <2> QED
    BY <2>1, CloseOnePays DEF NewStaysNew, Ref
<1>4. ASSUME NEW value \in OtherPayout, CashOut(t, value)
      PROVE  Moves /\ WalletTypeOK' /\ NewStaysNew
  <2>1. CloseOne(t, "cashout", "cashout", value) /\ placing' = placing /\ value \in Nat
    BY <1>4, AmountAssumption DEF CashOut, txnVars
  <2> QED
    BY <2>1, CloseOnePays DEF NewStaysNew, Ref
<1> QED
  BY <1>1, <1>2, <1>3, <1>4

\* Fixtures, and the passes when they commit.
LEMMA PassMoves ==
    ASSUME TypeOK, FixtureStep \/ PassStep \/ RestartServer
    PROVE  Moves /\ WalletTypeOK' /\ NewStaysNew
<1>1. CASE FixtureStep \/ RestartServer
  <2>1. walletVars' = walletVars /\ ticketVars' = ticketVars /\ NewStaysNew
    BY <1>1 DEF FixtureStep, StartEvent, FinishEvent, RestartServer, NewStaysNew,
                walletVars, ticketVars, txnVars
  <2> QED
    BY <2>1, StillStep DEF ticketVars
<1>2. ASSUME NEW p \in Pass, BeginPass(p) \/ CountPending(p) \/ AbortPass(p)
      PROVE  Moves /\ WalletTypeOK' /\ NewStaysNew
  <2>1. walletVars' = walletVars /\ ticketVars' = ticketVars /\ NewStaysNew
    BY <1>2 DEF BeginPass, GradeLegs, CountPending, AbortPass, NewStaysNew,
                walletVars, ticketVars
  <2> QED
    BY <2>1, StillStep DEF ticketVars
<1>3. ASSUME NEW p \in Pass, CommitPass(p)
      PROVE  Moves /\ WalletTypeOK' /\ NewStaysNew
  <2>1. SettleFromLegs(ToSettle(p), SeenBy(p)) /\ placing' = placing
    BY <1>3 DEF CommitPass
  <2>2. ToSettle(p) \in SUBSET Ticket /\ \A t \in ToSettle(p) : status[t] # "none"
    BY DEF ToSettle, TypeOK, TicketTypeOK, PassRecord
  <2> QED
    BY <2>1, <2>2, SettlePays DEF NewStaysNew
<1> QED
  BY <1>1, <1>2, <1>3 DEF PassStep

\* Postponements, cancellations and results of events, and the loop.
LEMMA EventMoves ==
    ASSUME TypeOK, EventDeskStep \/ LoopStep
    PROVE  Moves /\ WalletTypeOK' /\ NewStaysNew
<1>1. txnVars' = txnVars
  BY EventSettles
<1>2. NewStaysNew
  BY <1>1 DEF txnVars, NewStaysNew
<1>3. CASE SettlesPending
  <2>1. PICK T \in SUBSET Ticket :
          /\ \E L : SettleFromLegs(T, L) \/ SettleOnMatchDesk(T, L)
          /\ \A t \in T : status[t] = "pending"
    BY <1>3 DEF SettlesPending
  <2>2. PICK L : SettleFromLegs(T, L) \/ SettleOnMatchDesk(T, L)
    BY <2>1
  <2> QED
    BY <1>2, <2>1, <2>2, SettlePays
<1>4. CASE walletVars' = walletVars /\ status' = status /\ credit' = credit
  BY <1>2, <1>4, StillStep
<1> QED
  BY <1>3, <1>4, EventSettles

\* The settlement desk, with everything it may correct.
LEMMA DeskMoves ==
    ASSUME TypeOK, TicketDeskStep
    PROVE  Moves /\ WalletTypeOK' /\ NewStaysNew
<1> PICK t \in Ticket :
            \/ CancelBet(t)
            \/ SettleTicket(t) \/ VoidTicket(t) \/ RefundStake(t)
            \/ ForceLose(t) \/ ManualReview(t)
            \/ ReopenTicket(t) \/ ResettleTicket(t)
            \/ \E s \in Selection : VoidSelection(t, s)
            \/ \E amount \in OtherPayout : ForceWin(t, amount)
  BY DEF TicketDeskStep
<1> Stake[t] \in Nat
  BY AmountAssumption
<1> "settlement" \in Ref /\ "bet_cancel" \in Ref
  BY DEF Ref
<1>1. CASE placing' = placing
  <2>1. NewStaysNew
    BY <1>1 DEF NewStaysNew
  <2>2. CASE CancelBet(t)
    <3>1. Placed' = Placed
      BY <2>2 DEF CancelBet, Placed, TypeOK, TicketTypeOK
    <3>2. /\ credit[t]["bet_cancel"] = 0
          /\ credit' = [credit EXCEPT ![t]["bet_cancel"] = Stake[t]]
          /\ balance' = [balance EXCEPT ![Bettor[t]] = @ + Stake[t]]
          /\ withdrawable' = withdrawable /\ locked' = locked
      BY <2>2 DEF CancelBet
    <3>3. Moves /\ balance' \in [User -> Nat] /\ withdrawable' \in [User -> Nat]
      BY <3>1, <3>2, OnePays
    <3> QED
      BY <2>1, <3>2, <3>3 DEF WalletTypeOK, TypeOK
  <2>3. CASE SettleTicket(t) \/ ResettleTicket(t)
    <3>1. SettleFromLegs({t}, leg) /\ status[t] # "none"
      BY <2>3 DEF SettleTicket, ResettleTicket
    <3> QED
      BY <2>1, <3>1, SettlePays
  <2>4. CASE VoidTicket(t) \/ RefundStake(t)
    <3>1. CloseOne(t, "void", "settlement", Stake[t])
      BY <2>4 DEF VoidTicket, RefundStake
    <3> QED
      BY <2>1, <3>1, CloseOnePays
  <2>5. CASE ForceLose(t)
    <3>1. Placed' = Placed
      BY <2>5 DEF ForceLose, Placed, TypeOK, TicketTypeOK
    <3>2. ReleaseStakes({t}) /\ credit' = credit
          /\ balance' = balance /\ withdrawable' = withdrawable
      BY <2>5 DEF ForceLose
    <3>3. WalletTypeOK'
      BY <3>2, ReleaseType DEF TypeOK, WalletTypeOK
    <3>4. Quiet
      BY <3>1, <3>2 DEF Quiet, CreditOf
    <3> QED
      BY <2>1, <3>3, <3>4 DEF Moves
  <2>6. CASE ManualReview(t) \/ \E s \in Selection : VoidSelection(t, s)
    <3>1. walletVars' = walletVars /\ credit' = credit /\ status' = status
      BY <2>6 DEF ManualReview, VoidSelection, walletVars
    <3> QED
      BY <2>1, <3>1, StillStep
  <2>7. CASE ReopenTicket(t)
    <3>1. Placed' = Placed
      BY <2>7 DEF ReopenTicket, Placed, TypeOK, TicketTypeOK
    <3> QED
      BY <2>1, <2>7, <3>1, QuietStep DEF ReopenTicket, Moves, TypeOK, WalletTypeOK
  <2>8. ASSUME NEW amount \in OtherPayout, ForceWin(t, amount)
        PROVE  Moves /\ WalletTypeOK' /\ NewStaysNew
    <3>1. Placed' = Placed
      BY <2>8 DEF ForceWin, Placed, TypeOK, TicketTypeOK
    <3>2. /\ credit[t]["settlement"] = 0
          /\ credit' = [credit EXCEPT ![t]["settlement"] = amount]
          /\ withdrawable' = [withdrawable EXCEPT ![Bettor[t]] = @ + amount]
          /\ balance' = balance /\ ReleaseStakes({t})
      BY <2>8 DEF ForceWin
    <3>3. amount \in Nat
      BY AmountAssumption
    <3>4. Moves /\ balance' \in [User -> Nat] /\ withdrawable' \in [User -> Nat]
      BY <3>1, <3>2, <3>3, OnePays
    <3>5. locked' \in [User -> Nat]
      BY <3>2, ReleaseType DEF TypeOK, WalletTypeOK
    <3> QED
      BY <2>1, <3>4, <3>5 DEF WalletTypeOK
  <2> QED
    BY <2>2, <2>3, <2>4, <2>5, <2>6, <2>7, <2>8
<1>2. placing' = placing
  BY DEF CancelBet, SettleTicket, VoidTicket, RefundStake, ForceLose, ManualReview,
         ReopenTicket, ResettleTicket, VoidSelection, ForceWin, txnVars
<1> QED
  BY <1>1, <1>2

\* The trading module writes statuses and no wallet.
LEMMA TradingMoves ==
    ASSUME TypeOK, TradingStep
    PROVE  Moves /\ WalletTypeOK' /\ NewStaysNew
<1>1. walletVars' = walletVars /\ credit' = credit /\ placing' = placing
  BY DEF TradingStep, UpdateSelection, SettleMarket, SettleBet, ticketVars, txnVars, walletVars
<1>2. Placed' = Placed
  <2>1. ASSUME NEW s \in Selection, NEW r \in Result, UpdateSelection(s, r)
        PROVE  Placed' = Placed
    BY <2>1 DEF UpdateSelection, ticketVars, Placed
  <2>2. ASSUME NEW M \in SUBSET Selection, SettleMarket(M)
        PROVE  Placed' = Placed
    BY <2>2 DEF SettleMarket, Placed
  <2>3. ASSUME NEW t \in Ticket, NEW to \in Terminal, SettleBet(t, to)
        PROVE  Placed' = Placed
    BY <2>3 DEF SettleBet, Placed, Terminal, TypeOK, TicketTypeOK
  <2> QED
    BY <2>1, <2>2, <2>3 DEF TradingStep
<1> QED
  BY <1>1, <1>2, QuietStep DEF Moves, NewStaysNew, TypeOK, WalletTypeOK

\* So does every step: nothing moves, a ticket is placed or tickets are paid.
LEMMA NextMoves ==
    ASSUME TypeOK, PlacingIsNew, [Next]_vars
    PROVE  Moves /\ WalletTypeOK' /\ NewStaysNew
<1>1. CASE UNCHANGED vars
  <2>1. walletVars' = walletVars /\ credit' = credit /\ status' = status /\ NewStaysNew
    BY <1>1 DEF vars, walletVars, ticketVars, txnVars, NewStaysNew
  <2> QED
    BY <2>1, StillStep
<1> QED
  BY <1>1, BettorMoves, PassMoves, EventMoves, DeskMoves, TradingMoves DEF Next

-----------------------------------------------------------------------------
\* Wallets and ledger.

\* A placement under way is one of a new ticket, whatever is corrected.
LEMMA StepPlacing ==
    ASSUME TypeOK, PlacingIsNew, [Next]_vars
    PROVE  TypeOK' /\ PlacingIsNew'
<1>1. TypeOK'
  BY NextMoves, NextType DEF TypeOK, WalletTypeOK
<1>2. PlacingIsNew'
  <2> SUFFICES ASSUME NEW t \in placing'
               PROVE  status'[t] = "none"
    BY DEF PlacingIsNew
  <2>1. t \in Ticket /\ status[t] = "none"
    BY <1>1, NextMoves DEF TypeOK, TicketTypeOK, NewStaysNew, PlacingIsNew
  <2>2. t \notin Placed
    BY <2>1 DEF Placed
  <2>3. t \notin Placed'
    BY <2>2, NextMoves DEF Moves, Quiet, Stakes, Pays
  <2> QED
    BY <2>1, <2>3 DEF Placed
<1> QED
  BY <1>1, <1>2

LEMMA InitWallets == Init => TypeOK /\ PlacingIsNew
  BY InitType, AmountAssumption DEF Init, TypeOK, PlacingIsNew

\* No bucket of a wallet goes below zero and every variable keeps its type,
\* whatever staff, passes and bettors do.
THEOREM TypeCorrect == Spec => []TypeOK
  BY InitWallets, StepPlacing, PTL DEF Spec

\* The two sides of the ledger equation.
Staked(u) == Total(Placed, u, Stake)
Credited(u) == Total(Ticket, u, [t \in Ticket |-> CreditOf(t)])

LEMMA CreditNat == TicketTypeOK => \A t \in Ticket : CreditOf(t) \in Nat
<1> SUFFICES ASSUME TicketTypeOK, NEW t \in Ticket
             PROVE  CreditOf(t) \in Nat
  OBVIOUS
<1>1. \A r \in Ref : credit[t][r] \in Nat
  BY DEF TicketTypeOK
<1> QED
  BY <1>1 DEF CreditOf, Ref

\* All parts of the equation are naturals.
LedgerTyped ==
    \A u \in User : /\ balance[u] \in Nat /\ withdrawable[u] \in Nat
                    /\ Staked(u) \in Nat /\ Credited(u) \in Nat

LEMMA LedgerNat == TypeOK => LedgerTyped
<1> SUFFICES ASSUME TypeOK, NEW u \in User
             PROVE  /\ balance[u] \in Nat /\ withdrawable[u] \in Nat
                    /\ Staked(u) \in Nat /\ Credited(u) \in Nat
  BY DEF LedgerTyped
<1>1. \A t \in Ticket : [x \in Ticket |-> CreditOf(x)][t] \in Nat
  BY CreditNat DEF TypeOK
<1>2. Credited(u) \in Nat
  BY <1>1, TotalNat DEF Credited
<1> QED
  BY <1>2, StakesNat DEF TypeOK, Staked, Placed

\* What is credited does not change when no ticket's credit does.
LEMMA CreditedSame ==
    ASSUME \A t \in Ticket : CreditOf(t)' = CreditOf(t), NEW u
    PROVE  Credited(u)' = Credited(u)
<1>1. [t \in Ticket |-> CreditOf(t)'] = [t \in Ticket |-> CreditOf(t)]
  OBVIOUS
<1> QED
  BY <1>1 DEF Credited

\* A step changes both sides by the same amount.
LEMMA StepBalanced ==
    ASSUME TypeOK, TypeOK', Moves, NEW u \in User
    PROVE  balance'[u] + withdrawable'[u] + Staked(u)' + Credited(u)
             = balance[u] + withdrawable[u] + Staked(u) + Credited(u)'
<1> /\ balance[u] \in Nat /\ withdrawable[u] \in Nat
    /\ Staked(u) \in Nat /\ Credited(u) \in Nat
  BY LedgerNat DEF LedgerTyped
<1>1. CASE Quiet
  <2>1. Credited(u)' = Credited(u)
    BY <1>1, CreditedSame DEF Quiet
  <2>2. Staked(u)' = Staked(u)
    BY <1>1 DEF Quiet, Staked
  <2>3. balance'[u] = balance[u] /\ withdrawable'[u] = withdrawable[u]
    BY <1>1 DEF Quiet
  <2> QED
    BY <2>1, <2>2, <2>3
<1>2. ASSUME NEW t \in Ticket, Stakes(t)
      PROVE  balance'[u] + withdrawable'[u] + Staked(u)' + Credited(u)
               = balance[u] + withdrawable[u] + Staked(u) + Credited(u)'
  <2>1. Credited(u)' = Credited(u)
    <3>1. \A x \in Ticket : CreditOf(x)' = CreditOf(x)
      BY <1>2 DEF Stakes, CreditOf
    <3> QED
      BY <3>1, CreditedSame
  <2>2. Staked(u)' = Staked(u) + Total({t}, u, Stake)
    <3>1. Placed \in SUBSET Ticket /\ Placed \cap {t} = {}
      BY <1>2 DEF Placed, Stakes
    <3>2. \A x \in Placed \cup {t} : Stake[x] \in Nat
      BY AmountAssumption DEF Placed
    <3>3. Total(Placed \cup {t}, u, Stake) = Total(Placed, u, Stake) + Total({t}, u, Stake)
      BY <3>1, <3>2, TotalUnion
    <3> QED
      BY <1>2, <3>3 DEF Staked, Stakes
  <2>3. Stake[t] \in Nat
    BY AmountAssumption
  <2>4. withdrawable'[u] = withdrawable[u]
    BY <1>2 DEF Stakes
  <2>5. CASE Bettor[t] = u
    <3>1. balance[u] >= Stake[t] /\ balance'[u] = balance[u] - Stake[t]
      BY <1>2, <2>5 DEF Stakes, TypeOK
    <3>2. Total({t}, u, Stake) = Stake[t]
      BY <2>3, <2>5, TotalOne
    <3> QED
      BY <2>1, <2>2, <2>3, <2>4, <3>1, <3>2
  <2>6. CASE Bettor[t] # u
    <3>1. balance'[u] = balance[u]
      BY <1>2, <2>6 DEF Stakes, TypeOK
    <3>2. Total({t}, u, Stake) = 0
      BY <2>3, <2>6, TotalOne
    <3> QED
      BY <2>1, <2>2, <2>4, <3>1, <3>2
  <2> QED
    BY <2>5, <2>6
<1>3. ASSUME NEW T \in SUBSET Ticket, NEW W \in SUBSET T, NEW d, Pays(T, W, d)
      PROVE  balance'[u] + withdrawable'[u] + Staked(u)' + Credited(u)
               = balance[u] + withdrawable[u] + Staked(u) + Credited(u)'
  <2>1. Staked(u)' = Staked(u)
    BY <1>3 DEF Pays, Staked
  <2>2. /\ balance'[u] = balance[u] + Total(T \ W, u, d)
        /\ withdrawable'[u] = withdrawable[u] + Total(W, u, d)
    BY <1>3 DEF Pays
  <2>3. \A t \in T : d[t] \in Nat
    BY <1>3 DEF Pays
  <2>4. Total(T, u, d) = Total(T \ W, u, d) + Total(W, u, d)
    <3>1. T \ W \in SUBSET Ticket /\ W \in SUBSET Ticket /\ (T \ W) \cap W = {}
      OBVIOUS
    <3>2. (T \ W) \cup W = T
      OBVIOUS
    <3>3. Total((T \ W) \cup W, u, d) = Total(T \ W, u, d) + Total(W, u, d)
      BY <2>3, <3>1, TotalUnion
    <3> QED
      BY <3>2, <3>3
  <2>5. Credited(u)' = Credited(u) + Total(T, u, d)
    <3> DEFINE f == [t \in Ticket |-> CreditOf(t)]
               g == [t \in Ticket |-> CreditOf(t)']
    <3>1. /\ \A t \in Ticket : f[t] \in Nat
          /\ \A t \in T : d[t] \in Nat /\ g[t] = f[t] + d[t]
          /\ \A t \in Ticket \ T : g[t] = f[t]
      BY <1>3, CreditNat DEF Pays, TypeOK
    <3>2. Credited(u) = Total(Ticket, u, f) /\ Credited(u)' = Total(Ticket, u, g)
      BY DEF Credited
    <3> HIDE DEF f, g
    <3>3. Total(Ticket, u, g) = Total(Ticket, u, f) + Total(T, u, d)
      BY <3>1, TotalRaised
    <3> QED
      BY <3>2, <3>3
  <2>6. Total(T \ W, u, d) \in Nat /\ Total(W, u, d) \in Nat
    BY <2>3, TotalNat
  <2> QED
    BY <2>1, <2>2, <2>4, <2>5, <2>6
<1> QED
  BY <1>1, <1>2, <1>3 DEF Moves

LEMMA InitLedger == Init => WalletMatchesLedger
<1> SUFFICES ASSUME Init, NEW u \in User
             PROVE  balance[u] + withdrawable[u] + Staked(u)
                      = OpeningBalance[u] + Credited(u)
  BY DEF WalletMatchesLedger, Staked, Credited, Placed
<1>1. Placed = {}
  BY DEF Init, Placed
<1>2. Staked(u) = 0
  BY <1>1, TotalNone DEF Staked
<1>3. \A t \in Ticket : CreditOf(t) = 0
  <2>1. \A t \in Ticket : \A r \in Ref : credit[t][r] = 0
    BY DEF Init
  <2> QED
    BY <2>1 DEF CreditOf, Ref
<1>4. Credited(u) = 0
  <2> DEFINE f == [t \in Ticket |-> CreditOf(t)]
  <2>1. \A t \in Ticket : f[t] = 0
    BY <1>3
  <2>2. Credited(u) = Total(Ticket, u, f)
    BY DEF Credited
  <2> HIDE DEF f
  <2> QED
    BY <2>1, <2>2, TotalZero
<1>5. balance[u] = OpeningBalance[u] /\ withdrawable[u] = 0 /\ OpeningBalance[u] \in Nat
  BY AmountAssumption DEF Init
<1> QED
  BY <1>2, <1>4, <1>5

LEMMA StepLedger ==
    ASSUME TypeOK, PlacingIsNew, WalletMatchesLedger, [Next]_vars
    PROVE  WalletMatchesLedger'
<1>1. TypeOK' /\ Moves
  BY StepPlacing, NextMoves
<1> SUFFICES ASSUME NEW u \in User
             PROVE  balance'[u] + withdrawable'[u] + Staked(u)'
                      = OpeningBalance[u] + Credited(u)'
  BY DEF WalletMatchesLedger, Staked, Credited, Placed
<1>2. balance[u] + withdrawable[u] + Staked(u) = OpeningBalance[u] + Credited(u)
  BY DEF WalletMatchesLedger, Staked, Credited, Placed
<1>3. balance'[u] + withdrawable'[u] + Staked(u)' + Credited(u)
        = balance[u] + withdrawable[u] + Staked(u) + Credited(u)'
  BY <1>1, StepBalanced
<1>4. /\ balance[u] \in Nat /\ withdrawable[u] \in Nat
      /\ Staked(u) \in Nat /\ Credited(u) \in Nat
  BY LedgerNat DEF LedgerTyped
<1>5. /\ balance'[u] \in Nat /\ withdrawable'[u] \in Nat
      /\ Staked(u)' \in Nat /\ Credited(u)' \in Nat
  <2>1. LedgerTyped'
    BY <1>1, LedgerNat, PTL
  <2> QED
    BY <2>1 DEF LedgerTyped
<1>6. OpeningBalance[u] \in Nat
  BY AmountAssumption
<1> DEFINE b == balance[u]          b1 == balance'[u]
           w == withdrawable[u]     w1 == withdrawable'[u]
           k == Staked(u)           k1 == Staked(u)'
           c == Credited(u)         c1 == Credited(u)'
           o == OpeningBalance[u]
<1>7. /\ b \in Nat /\ w \in Nat /\ k \in Nat /\ c \in Nat /\ o \in Nat
      /\ b1 \in Nat /\ w1 \in Nat /\ k1 \in Nat /\ c1 \in Nat
      /\ b + w + k = o + c
      /\ b1 + w1 + k1 + c = b + w + k + c1
  BY <1>2, <1>3, <1>4, <1>5, <1>6
<1>8. b1 + w1 + k1 = o + c1
  <2> HIDE DEF b, w, k, c, b1, w1, k1, c1, o
  <2> QED
    BY ONLY <1>7
<1> QED
  BY <1>8

\* Whatever the passes, the desks and the trading module do to a ticket, what
\* a wallet has gained or lost is what its ledger rows and stakes say.
THEOREM WalletCorrect == Spec => []WalletMatchesLedger
<1>1. /\ Init => TypeOK /\ PlacingIsNew /\ WalletMatchesLedger
      /\ TypeOK /\ PlacingIsNew /\ WalletMatchesLedger /\ [Next]_vars
           => TypeOK' /\ PlacingIsNew' /\ WalletMatchesLedger'
  BY InitWallets, InitLedger, StepPlacing, StepLedger
<1> QED
  BY <1>1, PTL DEF Spec

-----------------------------------------------------------------------------
\* Locked stakes.

Pending == {t \in Ticket : status[t] = "pending"}

\* Pending tickets are closed and their stakes released.
Unlocks == \E T \in SUBSET Pending : ReleaseStakes(T) /\ Pending' = Pending \ T

\* A new ticket locks its stake.
Locks(t) ==
    /\ status[t] = "none"
    /\ locked' = [locked EXCEPT ![Bettor[t]] = @ + Stake[t]]
    /\ Pending' = Pending \cup {t}

LockMoves ==
    \/ locked' = locked /\ Pending' = Pending
    \/ Unlocks
    \/ \E t \in Ticket : Locks(t)

\* The bets module does not release the stake of a ticket it cancels.
NoBetCancel == "bet_cancel" \notin InUse

LEMMA SettleUnlocks ==
    ASSUME NEW T \in SUBSET Ticket, NEW L, \A t \in T : status[t] = "pending",
           SettleFromLegs(T, L) \/ SettleOnMatchDesk(T, L)
    PROVE  Unlocks
<1>1. CloseTickets(T, L) /\ ReleaseStakes(T)
  BY DEF SettleFromLegs, SettleOnMatchDesk
<1>2. T \in SUBSET Pending
  BY DEF Pending
<1>3. Pending' = Pending \ T
  BY <1>1, OutcomeType DEF CloseTickets, Pending, Outcomes
<1> QED
  BY <1>1, <1>2, <1>3 DEF Unlocks

\* A ticket that leaves the pending ones alone.
LEMMA OneUnlocks ==
    ASSUME TypeOK, NEW t \in Ticket, status[t] = "pending", ReleaseStakes({t}),
           NEW to, to # "pending", status' = [status EXCEPT ![t] = to]
    PROVE  Unlocks
<1>1. {t} \in SUBSET Pending
  BY DEF Pending
<1>2. Pending' = Pending \ {t}
  BY DEF Pending, TypeOK, TicketTypeOK
<1> QED
  BY <1>1, <1>2 DEF Unlocks

LEMMA CloseOneUnlocks ==
    ASSUME TypeOK, NEW t \in Ticket, NEW to, to \notin {"none", "pending"},
           NEW ref \in Ref, NEW amount \in Nat, CloseOne(t, to, ref, amount)
    PROVE  Unlocks
<1>1. ReleaseStakes({t})
  BY CloseOnePays
<1>2. status[t] = "pending" /\ status' = [status EXCEPT ![t] = to]
  BY DEF CloseOne
<1> QED
  BY <1>1, <1>2, OneUnlocks

LEMMA BettorLocks ==
    ASSUME TypeOK, PlacingIsNew, BettorStep
    PROVE  LockMoves
<1> PICK t \in Ticket : \/ CheckSlip(t) \/ PlaceSlip(t) \/ RefuseSlip(t)
                        \/ UserCancel(t) \/ \E value \in OtherPayout : CashOut(t, value)
  BY DEF BettorStep
<1> "cancel" \in Ref /\ "cashout" \in Ref
  BY DEF Ref
<1>1. CASE CheckSlip(t) \/ RefuseSlip(t)
  BY <1>1 DEF CheckSlip, RefuseSlip, walletVars, ticketVars, LockMoves, Pending
<1>2. CASE PlaceSlip(t)
  <2>1. Pending' = Pending \cup {t}
    BY <1>2 DEF PlaceSlip, Pending, TypeOK, TicketTypeOK
  <2>2. Locks(t)
    BY <1>2, <2>1 DEF PlaceSlip, PlacingIsNew, Locks
  <2> QED
    BY <2>2 DEF LockMoves
<1>3. CASE UserCancel(t)
  <2>1. CloseOne(t, "void", "cancel", Stake[t]) /\ Stake[t] \in Nat
    BY <1>3, AmountAssumption DEF UserCancel
  <2> QED
    BY <2>1, CloseOneUnlocks DEF LockMoves
<1>4. ASSUME NEW value \in OtherPayout, CashOut(t, value)
      PROVE  LockMoves
  <2>1. CloseOne(t, "cashout", "cashout", value) /\ value \in Nat
    BY <1>4, AmountAssumption DEF CashOut
  <2> QED
    BY <2>1, CloseOneUnlocks DEF LockMoves
<1> QED
  BY <1>1, <1>2, <1>3, <1>4

LEMMA DeskLocks ==
    ASSUME TypeOK, NoCorrections, NoBetCancel, TicketDeskStep
    PROVE  LockMoves
<1> PICK t \in Ticket :
            \/ SettleTicket(t) \/ VoidTicket(t) \/ RefundStake(t)
            \/ ForceLose(t) \/ ManualReview(t)
            \/ \E s \in Selection : VoidSelection(t, s)
            \/ \E amount \in OtherPayout : ForceWin(t, amount)
  BY DEF TicketDeskStep, NoCorrections, NoBetCancel, CancelBet, ReopenTicket, ResettleTicket
<1>1. CASE SettleTicket(t)
  <2>1. SettleFromLegs({t}, leg) /\ status[t] = "pending"
    BY <1>1 DEF SettleTicket
  <2> QED
    BY <2>1, SettleUnlocks DEF LockMoves
<1>2. CASE VoidTicket(t) \/ RefundStake(t)
  <2>1. CloseOne(t, "void", "settlement", Stake[t])
    BY <1>2 DEF VoidTicket, RefundStake
  <2>2. Stake[t] \in Nat /\ "settlement" \in Ref
    BY AmountAssumption DEF Ref
  <2> QED
    BY <2>1, <2>2, CloseOneUnlocks DEF LockMoves
<1>3. CASE ForceLose(t) \/ \E amount \in OtherPayout : ForceWin(t, amount)
  <2>1. /\ status[t] = "pending" /\ ReleaseStakes({t})
        /\ \E to \in {"won", "lost"} : status' = [status EXCEPT ![t] = to]
    BY <1>3 DEF ForceLose, ForceWin
  <2> QED
    BY <2>1, OneUnlocks DEF LockMoves
<1>4. CASE ManualReview(t) \/ \E s \in Selection : VoidSelection(t, s)
  BY <1>4 DEF ManualReview, VoidSelection, walletVars, LockMoves, Pending
<1> QED
  BY <1>1, <1>2, <1>3, <1>4

\* Every step locks the stake of a ticket that becomes pending and releases
\* those of the tickets that cease to be.
LEMMA NextLocks ==
    ASSUME TypeOK, PlacingIsNew, NoCorrections, NoBetCancel, [Next]_vars
    PROVE  LockMoves
<1>1. CASE FixtureStep \/ RestartServer \/ UNCHANGED vars
  BY <1>1 DEF FixtureStep, StartEvent, FinishEvent, RestartServer, vars, walletVars,
              ticketVars, LockMoves, Pending
<1>2. ASSUME NEW p \in Pass, BeginPass(p) \/ CountPending(p) \/ AbortPass(p)
      PROVE  LockMoves
  BY <1>2 DEF BeginPass, GradeLegs, CountPending, AbortPass, walletVars, ticketVars,
              LockMoves, Pending
<1>3. ASSUME NEW p \in Pass, CommitPass(p)
      PROVE  LockMoves
  <2>1. SettleFromLegs(ToSettle(p), SeenBy(p))
    BY <1>3 DEF CommitPass
  <2>2. ToSettle(p) \in SUBSET Ticket /\ \A t \in ToSettle(p) : status[t] = "pending"
    BY DEF ToSettle, TypeOK, TicketTypeOK, PassRecord
  <2> QED
    BY <2>1, <2>2, SettleUnlocks DEF LockMoves
<1>4. CASE EventDeskStep \/ LoopStep
  <2>1. CASE SettlesPending
    BY <2>1, SettleUnlocks DEF SettlesPending, LockMoves
  <2>2. CASE walletVars' = walletVars /\ status' = status
    BY <2>2 DEF walletVars, LockMoves, Pending
  <2> QED
    BY <1>4, <2>1, <2>2, EventSettles
<1>5. ~TradingStep
  BY DEF NoCorrections, TradingStep, UpdateSelection, SettleMarket, SettleBet
<1> QED
  BY <1>1, <1>2, <1>3, <1>4, <1>5, BettorLocks, DeskLocks DEF Next, PassStep

\* What is locked stays what the pending tickets have staked.
LEMMA StepLocked ==
    ASSUME TypeOK, LockMoves, LockedMatchesPending
    PROVE  LockedMatchesPending'
<1> SUFFICES ASSUME NEW u \in User
             PROVE  locked'[u] = Total(Pending', u, Stake)
  BY DEF LockedMatchesPending, Pending
<1>1. locked[u] = Total(Pending, u, Stake) /\ locked[u] \in Nat
  BY DEF LockedMatchesPending, Pending, TypeOK
<1>2. CASE locked' = locked /\ Pending' = Pending
  BY <1>1, <1>2
<1>3. ASSUME NEW T \in SUBSET Pending, ReleaseStakes(T), Pending' = Pending \ T
      PROVE  locked'[u] = Total(Pending', u, Stake)
  <2>1. /\ T \in SUBSET Ticket /\ Pending \ T \in SUBSET Ticket
        /\ T \cap (Pending \ T) = {} /\ T \cup (Pending \ T) = Pending
    BY DEF Pending
  <2>2. \A t \in T \cup (Pending \ T) : Stake[t] \in Nat
    BY <2>1, AmountAssumption
  <2>3. Total(T \cup (Pending \ T), u, Stake)
          = Total(T, u, Stake) + Total(Pending \ T, u, Stake)
    BY <2>1, <2>2, TotalUnion
  <2>4. locked[u] = Total(T, u, Stake) + Total(Pending \ T, u, Stake)
    BY <1>1, <2>1, <2>3
  <2>5. Total(T, u, Stake) \in Nat /\ Total(Pending \ T, u, Stake) \in Nat
    BY <2>1, StakesNat
  <2>6. Total(T, u, Stake) <= locked[u]
    BY <2>4, <2>5
  <2>7. locked'[u] = locked[u] - Total(T, u, Stake)
    BY <1>3, <2>6 DEF ReleaseStakes
  <2> QED
    BY <1>3, <2>4, <2>5, <2>7
<1>4. ASSUME NEW t \in Ticket, Locks(t)
      PROVE  locked'[u] = Total(Pending', u, Stake)
  <2>1. Pending \in SUBSET Ticket /\ Pending \cap {t} = {}
    BY <1>4 DEF Pending, Locks
  <2>2. \A x \in Pending \cup {t} : Stake[x] \in Nat
    BY <2>1, AmountAssumption
  <2>3. Total(Pending \cup {t}, u, Stake) = Total(Pending, u, Stake) + Total({t}, u, Stake)
    BY <2>1, <2>2, TotalUnion
  <2>4. Total(Pending', u, Stake) = locked[u] + Total({t}, u, Stake)
    BY <1>1, <1>4, <2>3 DEF Locks
  <2>5. CASE Bettor[t] = u
    <3>1. locked'[u] = locked[u] + Stake[t]
      BY <1>4, <2>5 DEF Locks, TypeOK
    <3> QED
      BY <2>2, <2>4, <2>5, <3>1, TotalOne
  <2>6. CASE Bettor[t] # u
    <3>1. locked'[u] = locked[u]
      BY <1>4, <2>6 DEF Locks, TypeOK
    <3>2. Total({t}, u, Stake) = 0
      BY <2>2, <2>6, TotalOne
    <3> QED
      BY <1>1, <2>4, <3>1, <3>2
  <2> QED
    BY <2>5, <2>6
<1> QED
  BY <1>2, <1>3, <1>4 DEF LockMoves, Unlocks

LEMMA InitLocked == Init => LockedMatchesPending
<1> SUFFICES ASSUME Init, NEW u \in User
             PROVE  locked[u] = Total(Pending, u, Stake)
  BY DEF LockedMatchesPending, Pending
<1>1. Pending = {}
  BY DEF Init, Pending
<1> QED
  BY <1>1, TotalNone DEF Init

\* However tickets are closed, by bettor, pass, event handler or desk, the
\* stakes left in locked_balance are those of the pending tickets.
THEOREM LockedCorrect ==
    ASSUME NoCorrections, NoBetCancel
    PROVE  Spec => []LockedMatchesPending
<1>1. /\ Init => TypeOK /\ PlacingIsNew /\ LockedMatchesPending
      /\ TypeOK /\ PlacingIsNew /\ LockedMatchesPending /\ [Next]_vars
           => TypeOK' /\ PlacingIsNew' /\ LockedMatchesPending'
  BY InitWallets, InitLocked, StepPlacing, NextLocks, StepLocked
<1> QED
  BY <1>1, PTL DEF Spec

-----------------------------------------------------------------------------
\* A win and the legs it was decided by.

\* Nobody voids a leg, forces, reopens or overwrites a ticket by hand, and a
\* postponed match is not given a result at the match desk.
NoHandWork ==
    /\ InUse \cap {"desk", "void_leg", "reopen", "trading"} = {}
    /\ ~({"postpone", "match_result"} \subseteq InUse)

\* A ticket that has been placed has a leg for every selection on it, and no other.
LegsOfSlip ==
    \A t \in Ticket : \A s \in Selection :
        leg[t][s] # "none" <=> status[t] # "none" /\ s \in Slip[t]

MarksOfLegs ==
    \A t \in Ticket : \A s \in Selection : <<t, s>> \in postponed => leg[t][s] # "none"

\* The legs a pass has graded are pending for everybody else.
LegsHeld ==
    \A p \in Pass, t \in Ticket, s \in Selection :
        <<t, s>> \in pass[p].legs =>
            /\ leg[t][s] = "pending"
            /\ EventOf[s] \in pass[p].events
            /\ pass[p].found[s] \in Result

\* No two passes grade the same event.
EventsApart ==
    \A p, q \in Pass : p # q => pass[p].events \cap pass[q].events = {}

\* A ticket that was counted as ready has no leg open but those of the pass.
ReadyStays ==
    \A p \in Pass : \A t \in pass[p].ready :
        /\ status[t] # "none"
        /\ \A s \in Slip[t] : leg[t][s] = "pending" => <<t, s>> \in pass[p].legs

\* The tickets the expiry may change are not won.
WaitingOpen ==
    \A t \in Ticket :
        settlement[t] = "postponed" => "postpone" \in InUse /\ status[t] # "won"

LegInv == LegsOfSlip /\ MarksOfLegs /\ LegsHeld /\ EventsApart /\ ReadyStays

\* Legs that are there get results, those that a pass holds excepted; passes
\* go on or end; marks are those of pending legs.
LegsWritten ==
    /\ \A t \in Ticket : \A s \in Selection :
         leg'[t][s] = leg[t][s] \/ (leg[t][s] # "none" /\ leg'[t][s] \in Result)
    /\ \A p \in Pass :
         \/ pass'[p] = IdlePass
         \/ /\ pass'[p] = pass[p]
            /\ \A t \in Ticket : \A s \in Selection :
                 <<t, s>> \in pass[p].legs => leg'[t][s] = leg[t][s]
    /\ \A t \in Ticket : \A s \in Selection :
         <<t, s>> \in postponed' => <<t, s>> \in postponed \/ leg[t][s] = "pending"
    /\ Placed' = Placed

LEMMA WrittenKeeps ==
    ASSUME TypeOK, LegInv, LegsWritten
    PROVE  LegInv'
<1> USE DEF LegInv
<1>0. \A t \in Ticket : \A s \in Selection : leg'[t][s] = "none" <=> leg[t][s] = "none"
  BY DEF LegsWritten, Result
<1>1. LegsOfSlip'
  <2>1. \A t \in Ticket : status'[t] # "none" <=> status[t] # "none"
    BY DEF LegsWritten, Placed
  <2> QED
    BY <1>0, <2>1 DEF LegsOfSlip
<1>2. MarksOfLegs'
  BY <1>0 DEF LegsWritten, MarksOfLegs
<1>3. LegsHeld'
  BY DEF LegsWritten, LegsHeld, IdlePass
<1>4. EventsApart'
  BY DEF LegsWritten, EventsApart, IdlePass
<1>5. ReadyStays'
  <2> SUFFICES ASSUME NEW p \in Pass, NEW t \in pass'[p].ready
               PROVE  /\ status'[t] # "none"
                      /\ \A s \in Slip[t] : leg'[t][s] = "pending" => <<t, s>> \in pass'[p].legs
    BY DEF ReadyStays
  <2>1. pass'[p] = pass[p] /\ t \in pass[p].ready
    BY DEF LegsWritten, IdlePass
  <2>2. t \in Ticket /\ Slip[t] \subseteq Selection
    BY <2>1, SlipAssumption DEF TypeOK, TicketTypeOK, PassRecord
  <2>3. status'[t] # "none"
    BY <2>1, <2>2 DEF LegsWritten, Placed, ReadyStays
  <2>4. \A s \in Slip[t] : leg'[t][s] = "pending" => leg[t][s] = "pending"
    BY <2>2 DEF LegsWritten, Result
  <2> QED
    BY <2>1, <2>3, <2>4 DEF ReadyStays
<1> QED
  BY <1>1, <1>2, <1>3, <1>4, <1>5

\* A step after which the same tickets are won, with the same legs.
LEMMA SameWins ==
    ASSUME WinMatchesLegs,
           \A t \in Ticket : status'[t] = "won" =>
               /\ status[t] = "won" /\ credit'[t] = credit[t]
               /\ \A s \in Slip[t] : leg'[t][s] = leg[t][s]
    PROVE  WinMatchesLegs'
<1> SUFFICES ASSUME NEW t \in Ticket, status'[t] = "won"
             PROVE  /\ \A s \in Slip[t] : leg'[t][s] \in {"won", "void"}
                    /\ CreditOf(t)' = Payout[t][VoidLegs(leg', t)]
  BY DEF WinMatchesLegs
<1>1. VoidLegs(leg', t) = VoidLegs(leg, t)
  BY DEF VoidLegs
<1>2. CreditOf(t)' = CreditOf(t)
  BY DEF CreditOf
<1> QED
  BY <1>1, <1>2 DEF WinMatchesLegs

\* What a settlement credits to each ticket.
LEMMA SettleCredits ==
    ASSUME TicketTypeOK, NEW T \in SUBSET Ticket, NEW L,
           SettleFromLegs(T, L) \/ SettleOnMatchDesk(T, L)
    PROVE  /\ \A t \in T : CreditOf(t)' = CreditOf(t) + DueCredit(L, t)
           /\ \A t \in Ticket \ T : CreditOf(t)' = CreditOf(t)
<1>1. PICK ref \in Ref : PostCredits(T, L, ref)
  BY DEF SettleFromLegs, SettleOnMatchDesk, Ref
<1>2. ASSUME NEW t \in T
      PROVE  CreditOf(t)' = CreditOf(t) + DueCredit(L, t)
  <2>1. credit'[t] = [credit[t] EXCEPT ![ref] = @ + DueCredit(L, t)]
    BY <1>1 DEF PostCredits
  <2>2. DueCredit(L, t) \in Nat
    BY DueCreditFits
  <2> QED
    BY <2>1, <2>2, RaiseCredit
<1>3. \A t \in Ticket \ T : CreditOf(t)' = CreditOf(t)
  BY <1>1 DEF PostCredits, CreditOf
<1> QED
  BY <1>2, <1>3

\* A settlement from the legs that are written with it.
LEMMA SettledWins ==
    ASSUME TypeOK, PaidOnce, WinMatchesLegs, LegsOfSlip', NEW L, leg' = L,
           L \in [Ticket -> [Selection -> LegStatus]],
           NEW T \in SUBSET Ticket, SettleFromLegs(T, L) \/ SettleOnMatchDesk(T, L),
           \A t \in T : status[t] = "pending" /\ ~HasPending(L, t),
           \A t \in Ticket : status[t] = "won" => \A s \in Slip[t] : L[t][s] = leg[t][s]
    PROVE  WinMatchesLegs'
<1> SUFFICES ASSUME NEW t \in Ticket, status'[t] = "won"
             PROVE  /\ \A s \in Slip[t] : L[t][s] \in {"won", "void"}
                    /\ CreditOf(t)' = Payout[t][VoidLegs(L, t)]
  BY DEF WinMatchesLegs
<1>1. CloseTickets(T, L)
  BY DEF SettleFromLegs, SettleOnMatchDesk
<1>2. CASE t \notin T
  <2>1. status[t] = "won"
    BY <1>1, <1>2 DEF CloseTickets
  <2>2. \A s \in Slip[t] : L[t][s] = leg[t][s]
    BY <2>1
  <2>3. VoidLegs(L, t) = VoidLegs(leg, t)
    BY <2>2 DEF VoidLegs
  <2>4. CreditOf(t)' = CreditOf(t)
    BY <1>2, SettleCredits DEF TypeOK
  <2> QED
    BY <2>1, <2>2, <2>3, <2>4 DEF WinMatchesLegs
<1>3. CASE t \in T
  <2>1. Outcome(L, t) = "won"
    BY <1>1, <1>3 DEF CloseTickets
  <2>2. \A s \in Slip[t] : L[t][s] # "lost" /\ L[t][s] # "pending" /\ L[t][s] # "none"
    <3>1. \A s \in Slip[t] : L[t][s] # "lost"
      BY <2>1 DEF Outcome
    <3>2. \A s \in Slip[t] : L[t][s] # "pending"
      BY <1>3 DEF HasPending
    <3>3. \A s \in Slip[t] : s \in Selection /\ L[t][s] # "none"
      BY SlipAssumption DEF LegsOfSlip
    <3> QED
      BY <3>1, <3>2, <3>3
  <2>3. \A s \in Slip[t] : L[t][s] \in LegStatus
    BY SlipAssumption
  <2>4. \A s \in Slip[t] : L[t][s] \in {"won", "void"}
    BY <2>2, <2>3 DEF LegStatus, Result
  <2>5. CreditOf(t) = 0
    BY <1>3 DEF PaidOnce
  <2>6. DueCredit(L, t) = Payout[t][VoidLegs(L, t)] /\ DueCredit(L, t) \in Nat
    BY <2>1, DueCreditFits DEF DueCredit
  <2>7. CreditOf(t)' = CreditOf(t) + DueCredit(L, t)
    BY <1>3, SettleCredits DEF TypeOK
  <2> QED
    BY <2>4, <2>5, <2>6, <2>7
<1> QED
  BY <1>2, <1>3

WinInv == LegInv /\ WaitingOpen /\ WinMatchesLegs

\* A step that writes no leg and lets nobody win or wait.
LEMMA NoLegStep ==
    ASSUME TypeOK, WinInv, leg' = leg, postponed' = postponed, Placed' = Placed,
           \A p \in Pass : pass'[p] \in {pass[p], IdlePass},
           \A t \in Ticket : /\ status'[t] = "won" => status[t] = "won" /\ credit'[t] = credit[t]
                             /\ settlement'[t] = "postponed" => settlement[t] = "postponed"
    PROVE  WinInv'
<1>1. LegsWritten
  BY DEF LegsWritten
<1>2. LegInv'
  BY <1>1, WrittenKeeps DEF WinInv
<1>3. WaitingOpen'
  BY DEF WinInv, WaitingOpen
<1>4. WinMatchesLegs'
  BY SameWins DEF WinInv
<1> QED
  BY <1>2, <1>3, <1>4 DEF WinInv

\* Checks, the clock and the flagging of overdue tickets write no leg.
LEMMA FrameWins ==
    ASSUME TypeOK, WinInv, leg' = leg, postponed' = postponed, status' = status,
           credit' = credit, pass' = pass \/ pass' = [p \in Pass |-> IdlePass],
           \A t \in Ticket : settlement'[t] = "postponed" => settlement[t] = "postponed"
    PROVE  WinInv'
<1>1. Placed' = Placed
  BY DEF Placed
<1>2. \A p \in Pass : pass'[p] \in {pass[p], IdlePass}
  OBVIOUS
<1> QED
  BY <1>1, <1>2, NoLegStep

\* A ticket that is closed otherwise than by winning.
LEMMA CloseOneWins ==
    ASSUME TypeOK, WinInv, NEW u \in Ticket, NEW to, to \notin {"none", "won"},
           NEW ref, NEW amount, CloseOne(u, to, ref, amount),
           leg' = leg, postponed' = postponed, pass' = pass,
           \A t \in Ticket : settlement'[t] = "postponed" => settlement[t] = "postponed"
    PROVE  WinInv'
<1>1. Placed' = Placed
  BY DEF CloseOne, Placed, TypeOK, TicketTypeOK
<1>2. \A t \in Ticket : status'[t] = "won" => status[t] = "won" /\ credit'[t] = credit[t]
  BY DEF CloseOne, TypeOK, TicketTypeOK
<1> QED
  BY <1>1, <1>2, NoLegStep

LEMMA PlaceWins ==
    ASSUME TypeOK, PlacingIsNew, WinInv, NEW u \in Ticket, PlaceSlip(u)
    PROVE  WinInv'
<1> USE DEF WinInv, LegInv
<1>1. /\ status[u] = "none" /\ status' = [status EXCEPT ![u] = "pending"]
      /\ leg' = [leg EXCEPT ![u] = [s \in Selection |->
                  IF s \in Slip[u] THEN "pending" ELSE "none"]]
      /\ UNCHANGED <<settlement, postponed, credit, pass>>
  BY DEF PlaceSlip, PlacingIsNew
<1>2. \A s \in Selection : leg[u][s] = "none"
  BY <1>1 DEF LegsOfSlip
<1>3. \A t \in Ticket : t # u => leg'[t] = leg[t] /\ status'[t] = status[t]
  BY <1>1 DEF TypeOK, TicketTypeOK
<1>4. status'[u] = "pending" /\ \A s \in Selection :
        leg'[u][s] = IF s \in Slip[u] THEN "pending" ELSE "none"
  BY <1>1 DEF TypeOK, TicketTypeOK
<1>5. LegsOfSlip'
  BY <1>3, <1>4 DEF LegsOfSlip
<1>6. MarksOfLegs'
  BY <1>1, <1>2, <1>3 DEF MarksOfLegs
<1>7. LegsHeld'
  BY <1>1, <1>2, <1>3 DEF LegsHeld
<1>8. EventsApart'
  BY <1>1 DEF EventsApart
<1>9. ReadyStays'
  <2> SUFFICES ASSUME NEW p \in Pass, NEW t \in pass[p].ready
               PROVE  /\ status'[t] # "none"
                      /\ \A s \in Slip[t] : leg'[t][s] = "pending" => <<t, s>> \in pass[p].legs
    BY <1>1 DEF ReadyStays
  <2>1. t \in Ticket /\ t # u
    BY <1>1 DEF ReadyStays, TypeOK, TicketTypeOK, PassRecord
  <2> QED
    BY <1>3, <2>1 DEF ReadyStays
<1>10. WaitingOpen'
  BY <1>1, <1>3, <1>4 DEF WaitingOpen
<1>11. WinMatchesLegs'
  BY <1>1, <1>3, <1>4, SameWins
<1> QED
  BY <1>5, <1>6, <1>7, <1>8, <1>9, <1>10, <1>11

LEMMA BettorWins ==
    ASSUME TypeOK, PlacingIsNew, WinInv, BettorStep
    PROVE  WinInv'
<1> PICK t \in Ticket : \/ CheckSlip(t) \/ PlaceSlip(t) \/ RefuseSlip(t)
                        \/ UserCancel(t) \/ \E value \in OtherPayout : CashOut(t, value)
  BY DEF BettorStep
<1>1. CASE CheckSlip(t) \/ RefuseSlip(t)
  BY <1>1, FrameWins DEF CheckSlip, RefuseSlip, ticketVars
<1>2. CASE PlaceSlip(t)
  BY <1>2, PlaceWins
<1>3. CASE UserCancel(t)
  <2>1. /\ CloseOne(t, "void", "cancel", Stake[t])
        /\ leg' = leg /\ postponed' = postponed /\ pass' = pass
        /\ settlement' = [settlement EXCEPT ![t] = "final"]
    BY <1>3 DEF UserCancel, txnVars
  <2>2. \A x \in Ticket : settlement'[x] = "postponed" => settlement[x] = "postponed"
    BY <2>1 DEF TypeOK, TicketTypeOK
  <2> QED
    BY <2>1, <2>2, CloseOneWins
<1>4. ASSUME NEW value \in OtherPayout, CashOut(t, value)
      PROVE  WinInv'
  <2>1. /\ CloseOne(t, "cashout", "cashout", value)
        /\ leg' = leg /\ postponed' = postponed /\ pass' = pass /\ settlement' = settlement
    BY <1>4 DEF CashOut, txnVars
  <2> QED
    BY <2>1, CloseOneWins
<1> QED
  BY <1>1, <1>2, <1>3, <1>4

\* A pass begins: it holds legs that are pending, of events no other grades.
LEMMA GradeWins ==
    ASSUME TypeOK, WinInv, NEW p \in Pass, NEW E \in SUBSET Event, NEW f \in Gradings(E),
           GradeLegs(p, E, f)
    PROVE  WinInv'
<1> USE DEF WinInv, LegInv
<1> DEFINE g == [phase |-> "graded", events |-> E, found |-> f,
                 legs |-> {x \in Ticket \X Selection :
                             /\ EventOf[x[2]] \in E
                             /\ leg[x[1]][x[2]] = "pending"
                             /\ f[x[2]] # "none"},
                 ready |-> {}]
<1>1. /\ ticketVars' = ticketVars /\ pass' = [pass EXCEPT ![p] = g]
      /\ \A e \in E : ~EventLocked(e)
  BY DEF GradeLegs
<1>2. f \in [Selection -> Result \cup {"none"}]
  BY DEF Gradings
<1>3. pass'[p] = g /\ \A q \in Pass : q # p => pass'[q] = pass[q]
  BY <1>1 DEF TypeOK, TicketTypeOK
<1>4. /\ g.events = E /\ g.found = f /\ g.ready = {}
      /\ \A t \in Ticket, s \in Selection : <<t, s>> \in g.legs =>
           EventOf[s] \in E /\ leg[t][s] = "pending" /\ f[s] \in Result
  BY <1>2
<1> HIDE DEF g
<1>5. LegsHeld'
  BY <1>1, <1>3, <1>4 DEF LegsHeld, ticketVars
<1>6. EventsApart'
  <2>1. \A q \in Pass : pass[q].events \cap E = {}
    BY <1>1 DEF EventLocked
  <2> QED
    BY <1>3, <1>4, <2>1 DEF EventsApart
<1>7. ReadyStays'
  BY <1>1, <1>3, <1>4 DEF ReadyStays, ticketVars
<1>8. LegsOfSlip' /\ MarksOfLegs' /\ WaitingOpen'
  BY <1>1 DEF ticketVars, LegsOfSlip, MarksOfLegs, WaitingOpen
<1>9. WinMatchesLegs'
  BY <1>1, SameWins DEF ticketVars
<1> QED
  BY <1>5, <1>6, <1>7, <1>8, <1>9

\* A pass counts the tickets without a leg it sees pending.
LEMMA CountWins ==
    ASSUME TypeOK, WinInv, NEW p \in Pass, CountPending(p)
    PROVE  WinInv'
<1> USE DEF WinInv, LegInv
<1> DEFINE R == {t \in Ticket : /\ \E s \in Selection : <<t, s>> \in pass[p].legs
                                /\ ~HasPending(SeenBy(p), t)
                                /\ status[t] = "pending"}
<1>1. /\ ticketVars' = ticketVars
      /\ pass' = [pass EXCEPT ![p].phase = "counted", ![p].ready = R]
  BY DEF CountPending
<1>2. /\ \A q \in Pass : q # p => pass'[q] = pass[q]
      /\ pass'[p].ready = R
      /\ pass'[p].events = pass[p].events
      /\ pass'[p].legs = pass[p].legs
      /\ pass'[p].found = pass[p].found
  BY <1>1 DEF TypeOK, TicketTypeOK, PassRecord
<1>3. \A t \in R : /\ status[t] # "none"
                   /\ \A s \in Slip[t] : leg[t][s] = "pending" => <<t, s>> \in pass[p].legs
  <2> SUFFICES ASSUME NEW t \in R, NEW s \in Slip[t],
                      leg[t][s] = "pending", <<t, s>> \notin pass[p].legs
               PROVE  FALSE
    OBVIOUS
  <2>1. t \in Ticket /\ s \in Selection /\ ~HasPending(SeenBy(p), t)
    BY SlipAssumption
  <2>2. SeenBy(p)[t][s] = leg[t][s]
    BY <2>1 DEF SeenBy
  <2> QED
    BY <2>1, <2>2 DEF HasPending
<1> HIDE DEF R
<1>4. LegsHeld'
  <2>1. leg' = leg
    BY <1>1 DEF ticketVars
  <2>2. \A q \in Pass : /\ pass'[q].legs = pass[q].legs
                       /\ pass'[q].events = pass[q].events
                       /\ pass'[q].found = pass[q].found
    BY <1>2
  <2>3. LegsHeld
    OBVIOUS
  <2> QED
    BY ONLY <2>1, <2>2, <2>3 DEF LegsHeld
<1>5. EventsApart'
  <2>1. \A q \in Pass : pass'[q].events = pass[q].events
    BY <1>2
  <2> QED
    BY <2>1 DEF EventsApart
<1>6. ReadyStays'
  <2> SUFFICES ASSUME NEW q \in Pass, NEW t \in pass'[q].ready
               PROVE  /\ status[t] # "none"
                      /\ \A s \in Slip[t] : leg[t][s] = "pending" => <<t, s>> \in pass'[q].legs
    BY <1>1 DEF ReadyStays, ticketVars
  <2> QED
    BY <1>2, <1>3 DEF ReadyStays
<1>7. LegsOfSlip' /\ MarksOfLegs' /\ WaitingOpen'
  BY <1>1 DEF ticketVars, LegsOfSlip, MarksOfLegs, WaitingOpen
<1>8. WinMatchesLegs'
  BY <1>1, SameWins DEF ticketVars
<1> QED
  BY <1>4, <1>5, <1>6, <1>7, <1>8

\* A settlement that writes the legs L and ends the wait of what it settles.
LEMMA WriteWins ==
    ASSUME TypeOK, PaidOnce, WinInv, LegsWritten, NEW L, leg' = L,
           L \in [Ticket -> [Selection -> LegStatus]],
           NEW T \in SUBSET Ticket, SettleFromLegs(T, L) \/ SettleOnMatchDesk(T, L),
           \A t \in T : status[t] = "pending" /\ ~HasPending(L, t),
           \A t \in Ticket : status[t] = "won" => \A s \in Slip[t] : L[t][s] = leg[t][s],
           \A t \in Ticket : settlement'[t] = "postponed" =>
                               settlement[t] = "postponed" /\ t \notin T
    PROVE  WinInv'
<1>1. LegInv'
  BY WrittenKeeps DEF WinInv
<1>2. WaitingOpen'
  <2>1. \A t \in Ticket : t \notin T => status'[t] = status[t]
    BY DEF SettleFromLegs, SettleOnMatchDesk, CloseTickets
  <2> QED
    BY <2>1 DEF WaitingOpen, WinInv
<1>3. WinMatchesLegs'
  BY <1>1, SettledWins DEF WinInv, LegInv
<1> QED
  BY <1>1, <1>2, <1>3 DEF WinInv

\* Legs that are pending are not those of a won ticket.
LEMMA WonLegsStay ==
    ASSUME WinMatchesLegs, NEW L,
           \A t \in Ticket : \A s \in Selection : L[t][s] = leg[t][s] \/ leg[t][s] = "pending"
    PROVE  \A t \in Ticket : status[t] = "won" => \A s \in Slip[t] : L[t][s] = leg[t][s]
  BY SlipAssumption DEF WinMatchesLegs

\* A settlement keeps the placed tickets.
LEMMA SettlePlaced ==
    ASSUME NEW T \in SUBSET Ticket, NEW L, \A t \in T : status[t] # "none",
           SettleFromLegs(T, L) \/ SettleOnMatchDesk(T, L)
    PROVE  Placed' = Placed
<1>1. CloseTickets(T, L)
  BY DEF SettleFromLegs, SettleOnMatchDesk
<1> QED
  BY <1>1, OutcomeType DEF CloseTickets, Placed, Outcomes

\* A pass commits what it has graded and settles what it has counted.
LEMMA CommitWins ==
    ASSUME TypeOK, PaidOnce, WinInv, NEW p \in Pass, CommitPass(p)
    PROVE  WinInv'
<1> DEFINE L == SeenBy(p)
           T == ToSettle(p)
<1>1. /\ SettleFromLegs(T, L) /\ leg' = L
      /\ settlement' = [t \in Ticket |-> IF t \in T THEN "final" ELSE settlement[t]]
      /\ postponed' = postponed \ pass[p].legs
      /\ pass' = [pass EXCEPT ![p] = IdlePass]
  BY DEF CommitPass
<1>2. L \in [Ticket -> [Selection -> LegStatus]]
  BY SeenByType DEF TypeOK
<1>3. T \in SUBSET Ticket /\ \A t \in T : t \in pass[p].ready /\ status[t] = "pending"
  BY DEF ToSettle, TypeOK, TicketTypeOK, PassRecord
<1>4. \A t \in Ticket : \A s \in Selection :
        L[t][s] = IF <<t, s>> \in pass[p].legs THEN pass[p].found[s] ELSE leg[t][s]
  BY DEF SeenBy
<1>5. LegsHeld /\ EventsApart /\ ReadyStays
  BY DEF WinInv, LegInv
<1>6. \A t \in T : ~HasPending(L, t)
  <2> SUFFICES ASSUME NEW t \in T, NEW s \in Slip[t]
               PROVE  L[t][s] # "pending"
    BY DEF HasPending
  <2>1. t \in Ticket /\ s \in Selection
    BY <1>3, SlipAssumption
  <2> HIDE DEF L, T
  <2>2. CASE <<t, s>> \in pass[p].legs
    BY <1>4, <1>5, <2>1, <2>2 DEF LegsHeld, Result
  <2>3. CASE <<t, s>> \notin pass[p].legs
    <3>1. leg[t][s] # "pending"
      BY <1>3, <1>5, <2>3 DEF ReadyStays
    <3> QED
      BY <1>4, <2>1, <2>3, <3>1
  <2> QED
    BY <2>2, <2>3
<1> HIDE DEF L, T
<1>7. LegsWritten
  <2>1. \A t \in Ticket : \A s \in Selection :
          leg'[t][s] = leg[t][s] \/ (leg[t][s] # "none" /\ leg'[t][s] \in Result)
    BY <1>1, <1>4, <1>5 DEF LegsHeld
  <2>2. ASSUME NEW q \in Pass
        PROVE  \/ pass'[q] = IdlePass
               \/ /\ pass'[q] = pass[q]
                  /\ \A t \in Ticket : \A s \in Selection :
                       <<t, s>> \in pass[q].legs => leg'[t][s] = leg[t][s]
    <3>1. CASE q = p
      BY <1>1, <3>1 DEF TypeOK, TicketTypeOK
    <3>2. CASE q # p
      <4>1. pass'[q] = pass[q]
        BY <1>1, <3>2 DEF TypeOK, TicketTypeOK
      <4>2. pass[q].events \cap pass[p].events = {}
        BY <1>5, <3>2 DEF EventsApart
      <4>3. \A t \in Ticket : \A s \in Selection :
              <<t, s>> \in pass[q].legs => <<t, s>> \notin pass[p].legs
        BY <1>5, <4>2 DEF LegsHeld
      <4> QED
        BY <1>1, <1>4, <4>1, <4>3
    <3> QED
      BY <3>1, <3>2
  <2>3. \A t \in Ticket : \A s \in Selection :
          <<t, s>> \in postponed' => <<t, s>> \in postponed \/ leg[t][s] = "pending"
    BY <1>1
  <2>4. Placed' = Placed
    BY <1>1, <1>3, SettlePlaced
  <2> QED
    BY <2>1, <2>2, <2>3, <2>4 DEF LegsWritten
<1>8. \A t \in Ticket : status[t] = "won" => \A s \in Slip[t] : L[t][s] = leg[t][s]
  <2>1. \A t \in Ticket : \A s \in Selection : L[t][s] = leg[t][s] \/ leg[t][s] = "pending"
    BY <1>4, <1>5 DEF LegsHeld
  <2> QED
    BY <2>1, WonLegsStay DEF WinInv
<1>9. \A t \in Ticket : settlement'[t] = "postponed" =>
                          settlement[t] = "postponed" /\ t \notin T
  BY <1>1
<1> QED
  BY <1>1, <1>2, <1>3, <1>6, <1>7, <1>8, <1>9, WriteWins

\* Postponement marks pending legs of pending tickets.
LEMMA PostponeWins ==
    ASSUME TypeOK, WinInv, NEW e \in Event, PostponeEvent(e)
    PROVE  WinInv'
<1>1. /\ leg' = leg /\ status' = status /\ credit' = credit /\ pass' = pass
      /\ "postpone" \in InUse
      /\ postponed' = postponed \cup {x \in Ticket \X On(e) : leg[x[1]][x[2]] = "pending"}
      /\ \A t \in Ticket : settlement'[t] = "postponed" =>
           settlement[t] = "postponed" \/ status[t] = "pending"
  BY DEF PostponeEvent, walletVars, txnVars
<1>2. LegsWritten
  <2>1. Placed' = Placed
    BY <1>1 DEF Placed
  <2>2. \A t \in Ticket : \A s \in Selection :
          <<t, s>> \in postponed' => <<t, s>> \in postponed \/ leg[t][s] = "pending"
    BY <1>1
  <2> QED
    BY <1>1, <2>1, <2>2 DEF LegsWritten
<1>3. LegInv'
  BY <1>2, WrittenKeeps DEF WinInv
<1>4. WaitingOpen'
  BY <1>1 DEF WaitingOpen, WinInv
<1>5. WinMatchesLegs'
  BY <1>1, SameWins DEF WinInv
<1> QED
  BY <1>3, <1>4, <1>5 DEF WinInv

\* Handlers of an event write pending legs of that event, which no pass holds.
LEMMA EventWritten ==
    ASSUME TypeOK, LegInv, NEW e \in Event, ~EventLocked(e), pass' = pass, Placed' = Placed,
           \A t \in Ticket : \A s \in Selection :
             \/ leg'[t][s] = leg[t][s]
             \/ s \in On(e) /\ leg[t][s] = "pending" /\ leg'[t][s] \in Result,
           postponed' \subseteq postponed
    PROVE  LegsWritten
<1>1. \A p \in Pass, t \in Ticket, s \in Selection :
        <<t, s>> \in pass[p].legs => s \notin On(e)
  BY DEF LegInv, LegsHeld, EventLocked, On
<1>2. \A p \in Pass : \A t \in Ticket : \A s \in Selection :
        <<t, s>> \in pass[p].legs => leg'[t][s] = leg[t][s]
  BY <1>1
<1> QED
  BY <1>2 DEF LegsWritten

LEMMA CancelEventWins ==
    ASSUME TypeOK, PaidOnce, WinInv, NEW e \in Event, CancelEvent(e)
    PROVE  WinInv'
<1> DEFINE L == [t \in Ticket |-> [s \in Selection |->
                   IF s \in On(e) /\ leg[t][s] = "pending" THEN "void" ELSE leg[t][s]]]
           touched == {t \in Ticket : Touches(t, e) /\ status[t] = "pending"}
           ready == {t \in touched : ~HasPending(L, t)}
<1>1. /\ SettleFromLegs(ready, L) /\ leg' = L /\ ~EventLocked(e) /\ pass' = pass
      /\ postponed' \subseteq postponed
      /\ FlagErrors(touched \ ready, ready)
  BY DEF CancelEvent, txnVars
<1>2. L \in [Ticket -> [Selection -> LegStatus]]
  BY DEF TypeOK, TicketTypeOK, LegStatus, Result
<1>3. ready \in SUBSET Ticket /\ \A t \in ready : status[t] = "pending" /\ ~HasPending(L, t)
  OBVIOUS
<1>4. \A t \in Ticket : \A s \in Selection :
        L[t][s] = leg[t][s] \/ (s \in On(e) /\ leg[t][s] = "pending" /\ L[t][s] \in Result)
  BY DEF Result
<1> HIDE DEF L
<1>5. \A t \in Ticket : settlement'[t] = "postponed" =>
                          settlement[t] = "postponed" /\ t \notin ready
  BY <1>1 DEF FlagErrors
<1> HIDE DEF touched, ready
<1>6. Placed' = Placed
  BY <1>1, <1>3, SettlePlaced
<1>7. LegsWritten
  BY <1>1, <1>4, <1>6, EventWritten DEF WinInv
<1>8. \A t \in Ticket : status[t] = "won" => \A s \in Slip[t] : L[t][s] = leg[t][s]
  BY <1>4, WonLegsStay DEF WinInv
<1> QED
  BY <1>1, <1>2, <1>3, <1>5, <1>7, <1>8, WriteWins

\* A match result settles from the legs it writes; no ticket waits meanwhile.
LEMMA MatchWins ==
    ASSUME TypeOK, PaidOnce, NoHandWork, WinInv, NEW e \in Event, NEW to,
           NEW f \in Entries(e), MatchResult(e, to, f)
    PROVE  WinInv'
<1> DEFINE L == [t \in Ticket |-> [s \in Selection |->
                   IF s \in On(e) /\ leg[t][s] = "pending" /\ f[s] # "none"
                   THEN f[s] ELSE leg[t][s]]]
           ready == {t \in Ticket : /\ Touches(t, e)
                                    /\ status[t] = "pending"
                                    /\ ~HasPending(L, t)}
<1>0. \A s \in Selection : f[s] \in Result \cup {"none"}
  BY DEF Entries
<1>1. /\ SettleOnMatchDesk(ready, L) /\ leg' = L /\ ~EventLocked(e) /\ pass' = pass
      /\ "match_result" \in InUse
      /\ settlement' = settlement /\ postponed' = postponed
  BY DEF MatchResult, txnVars
<1>2. L \in [Ticket -> [Selection -> LegStatus]]
  BY <1>0 DEF TypeOK, TicketTypeOK, LegStatus
<1>3. ready \in SUBSET Ticket /\ \A t \in ready : status[t] = "pending" /\ ~HasPending(L, t)
  OBVIOUS
<1>4. \A t \in Ticket : \A s \in Selection :
        L[t][s] = leg[t][s] \/ (s \in On(e) /\ leg[t][s] = "pending" /\ L[t][s] \in Result)
  BY <1>0
<1> HIDE DEF L, ready
<1>5. \A t \in Ticket : settlement'[t] = "postponed" =>
                          settlement[t] = "postponed" /\ t \notin ready
  BY <1>1 DEF WinInv, WaitingOpen, NoHandWork
<1>6. Placed' = Placed
  BY <1>1, <1>3, SettlePlaced
<1>7. LegsWritten
  BY <1>1, <1>4, <1>6, EventWritten DEF WinInv
<1>8. \A t \in Ticket : status[t] = "won" => \A s \in Slip[t] : L[t][s] = leg[t][s]
  BY <1>4, WonLegsStay DEF WinInv
<1> QED
  BY <1>1, <1>2, <1>3, <1>5, <1>7, <1>8, WriteWins

\* The expiry may overwrite graded legs, but of tickets that are not won.
LEMMA ExpireWins ==
    ASSUME TypeOK, PaidOnce, WinInv, NEW X \in SUBSET Ticket, ExpirePostponed(X)
    PROVE  WinInv'
<1> DEFINE L == [t \in Ticket |-> [s \in Selection |->
                   IF t \notin X THEN leg[t][s]
                   ELSE IF <<t, s>> \in postponed THEN "void"
                   ELSE IF leg[t][s] = "pending" /\ result[s] # "none" THEN result[s]
                   ELSE leg[t][s]]]
           open == {t \in X : status[t] = "pending"}
           ready == {t \in open : ~HasPending(L, t)}
<1>1. /\ SettleFromLegs(ready, L) /\ leg' = L /\ pass' = pass
      /\ X \subseteq Waiting
      /\ \A t \in X : \A s \in Slip[t] : ~LegLocked(t, s)
      /\ postponed' \subseteq postponed
      /\ FlagErrors(open \ ready, ready)
  BY DEF ExpirePostponed, txnVars
<1>2. L \in [Ticket -> [Selection -> LegStatus]]
  BY DEF TypeOK, TicketTypeOK, LegStatus, Result
<1>3. ready \in SUBSET Ticket /\ \A t \in ready : status[t] = "pending" /\ ~HasPending(L, t)
  OBVIOUS
<1>4. /\ \A t \in Ticket : t \notin X => \A s \in Selection : L[t][s] = leg[t][s]
      /\ \A t \in Ticket : \A s \in Selection :
           \/ L[t][s] = leg[t][s]
           \/ L[t][s] \in Result /\ (<<t, s>> \in postponed \/ leg[t][s] = "pending")
  BY DEF Result, TypeOK, TicketTypeOK
<1> HIDE DEF L
<1>5. \A t \in Ticket : settlement'[t] = "postponed" =>
                          settlement[t] = "postponed" /\ t \notin ready
  BY <1>1 DEF FlagErrors
<1> HIDE DEF open, ready
<1>6. Placed' = Placed
  BY <1>1, <1>3, SettlePlaced
<1>7. LegsWritten
  <2>1. \A t \in Ticket : \A s \in Selection :
          L[t][s] = leg[t][s] \/ (leg[t][s] # "none" /\ L[t][s] \in Result)
    BY <1>4 DEF WinInv, LegInv, MarksOfLegs
  <2>2. \A p \in Pass, t \in Ticket, s \in Selection : <<t, s>> \in pass[p].legs => t \notin X
    <3>1. \A p \in Pass, t \in Ticket, s \in Selection :
            <<t, s>> \in pass[p].legs => leg[t][s] = "pending"
      BY DEF WinInv, LegInv, LegsHeld
    <3>2. \A t \in Ticket, s \in Selection : leg[t][s] = "pending" => s \in Slip[t]
      BY DEF WinInv, LegInv, LegsOfSlip
    <3>3. \A p \in Pass : \A t \in X : \A s \in Slip[t] : <<t, s>> \notin pass[p].legs
      BY <1>1 DEF LegLocked
    <3> QED
      BY <3>1, <3>2, <3>3
  <2>3. \A p \in Pass : \A t \in Ticket : \A s \in Selection :
          <<t, s>> \in pass[p].legs => L[t][s] = leg[t][s]
    BY <1>4, <2>2
  <2> QED
    BY <1>1, <1>6, <2>1, <2>3 DEF LegsWritten
<1>8. \A t \in Ticket : status[t] = "won" => \A s \in Slip[t] : L[t][s] = leg[t][s]
  <2>1. \A t \in Ticket : status[t] = "won" => t \notin X
    BY <1>1 DEF Waiting, WinInv, WaitingOpen
  <2> QED
    BY <1>4, <2>1, SlipAssumption
<1> QED
  BY <1>1, <1>2, <1>3, <1>5, <1>7, <1>8, WriteWins

\* The bets module voids the pending legs of a ticket no pass holds.
LEMMA CancelBetWins ==
    ASSUME TypeOK, WinInv, NEW u \in Ticket, CancelBet(u)
    PROVE  WinInv'
<1>1. /\ status[u] = "pending" /\ status' = [status EXCEPT ![u] = "void"]
      /\ credit' = [credit EXCEPT ![u]["bet_cancel"] = Stake[u]]
      /\ leg' = [leg EXCEPT ![u] = [s \in Selection |-> IF leg[u][s] = "pending" THEN "void" ELSE leg[u][s]]]
      /\ \A s \in Slip[u] : ~LegLocked(u, s)
      /\ settlement' = settlement /\ postponed' = postponed /\ pass' = pass
  BY DEF CancelBet, txnVars
<1>2. \A t \in Ticket : t # u => /\ leg'[t] = leg[t] /\ status'[t] = status[t]
                                 /\ credit'[t] = credit[t]
  BY <1>1 DEF TypeOK, TicketTypeOK
<1>3. status'[u] = "void" /\ \A s \in Selection :
        leg'[u][s] = IF leg[u][s] = "pending" THEN "void" ELSE leg[u][s]
  BY <1>1 DEF TypeOK, TicketTypeOK
<1>4. LegsWritten
  <2>1. Placed' = Placed
    BY <1>1, <1>2, <1>3 DEF Placed
  <2>2. \A t \in Ticket : \A s \in Selection :
          leg'[t][s] = leg[t][s] \/ (leg[t][s] # "none" /\ leg'[t][s] \in Result)
    BY <1>2, <1>3 DEF Result
  <2>3. \A p \in Pass, t \in Ticket, s \in Selection : <<t, s>> \in pass[p].legs => t # u
    BY <1>1 DEF LegLocked, WinInv, LegInv, LegsHeld, LegsOfSlip
  <2> QED
    BY <1>1, <1>2, <2>1, <2>2, <2>3 DEF LegsWritten
<1>5. LegInv'
  BY <1>4, WrittenKeeps DEF WinInv
<1>6. WaitingOpen'
  BY <1>1, <1>2, <1>3 DEF WinInv, WaitingOpen
<1>7. WinMatchesLegs'
  <2>1. \A t \in Ticket : status'[t] = "won" => t # u
    BY <1>3
  <2> QED
    BY <1>2, <2>1, SameWins DEF WinInv
<1> QED
  BY <1>5, <1>6, <1>7 DEF WinInv

LEMMA InitWins == Init => WinInv
<1> SUFFICES ASSUME Init
             PROVE  WinInv
  OBVIOUS
<1>1. /\ \A t \in Ticket : status[t] = "none" /\ settlement[t] = "null"
      /\ \A t \in Ticket : \A s \in Selection : leg[t][s] = "none"
      /\ postponed = {} /\ \A p \in Pass : pass[p] = IdlePass
  BY DEF Init
<1> QED
  BY <1>1 DEF WinInv, LegInv, LegsOfSlip, MarksOfLegs, LegsHeld, EventsApart, ReadyStays,
              WaitingOpen, WinMatchesLegs, IdlePass

\* Without hand work no step breaks the relation of wins and legs.
LEMMA StepWins ==
    ASSUME TypeOK, PlacingIsNew, PaidOnce, NoHandWork, WinInv, [Next]_vars
    PROVE  WinInv'
<1>1. CASE FixtureStep \/ RestartServer \/ UNCHANGED vars
  <2>1. /\ ticketVars' = ticketVars
        /\ pass' = pass \/ pass' = [p \in Pass |-> IdlePass]
    BY <1>1 DEF FixtureStep, StartEvent, FinishEvent, RestartServer, vars, txnVars, ticketVars
  <2> QED
    BY <2>1, FrameWins DEF ticketVars
<1>2. CASE PassStep
  <2>1. ASSUME NEW p \in Pass, AbortPass(p)
        PROVE  WinInv'
    <3>1. ticketVars' = ticketVars /\ \A q \in Pass : pass'[q] \in {pass[q], IdlePass}
      BY <2>1 DEF AbortPass, TypeOK, TicketTypeOK
    <3>2. Placed' = Placed
      BY <3>1 DEF ticketVars, Placed
    <3> QED
      BY <3>1, <3>2, NoLegStep DEF ticketVars
  <2> QED
    BY <1>2, <2>1, GradeWins, CountWins, CommitWins DEF PassStep, BeginPass
<1>3. CASE EventDeskStep \/ LoopStep
  <2>1. ASSUME NEW e \in Event, FlagOverdueUnresolvedTickets(e)
        PROVE  WinInv'
    <3>1. /\ leg' = leg /\ postponed' = postponed /\ status' = status /\ credit' = credit
          /\ pass' = pass
          /\ \A t \in Ticket : settlement'[t] = "postponed" => settlement[t] = "postponed"
      BY <2>1 DEF FlagOverdueUnresolvedTickets, txnVars, walletVars
    <3> QED
      BY <3>1, FrameWins
  <2> QED
    BY <1>3, <2>1, PostponeWins, CancelEventWins, MatchWins, ExpireWins
    DEF EventDeskStep, LoopStep
<1>4. CASE TicketDeskStep
  <2>1. \E t \in Ticket : CancelBet(t)
    BY <1>4 DEF TicketDeskStep, NoHandWork, SettleTicket, VoidTicket, RefundStake, ForceLose,
                ManualReview, ReopenTicket, ResettleTicket, VoidSelection, ForceWin
  <2> QED
    BY <2>1, CancelBetWins
<1>5. ~TradingStep
  BY DEF NoHandWork, TradingStep, UpdateSelection, SettleMarket, SettleBet
<1> QED
  BY <1>1, <1>2, <1>3, <1>4, <1>5, BettorWins DEF Next

\* Concurrent passes, postponements, expiries, cancellations and match results
\* leave a won ticket with won and void legs only, and it was paid what it pays
\* with those void legs.
THEOREM WinsCorrect ==
    ASSUME NoHandWork
    PROVE  Spec => []WinMatchesLegs
<1>1. NoCorrections
  BY DEF NoHandWork, NoCorrections
<1>2. /\ Init => TypeOK /\ PlacingIsNew /\ PaidOnce /\ WinInv
      /\ TypeOK /\ PlacingIsNew /\ PaidOnce /\ WinInv /\ [Next]_vars
           => TypeOK' /\ PlacingIsNew' /\ PaidOnce' /\ WinInv'
  <2>1. Init => TypeOK /\ PlacingIsNew /\ PaidOnce /\ WinInv
    BY InitWallets, InitPaid, InitWins
  <2>2. TypeOK /\ PlacingIsNew /\ PaidOnce /\ [Next]_vars => TypeOK' /\ PlacingIsNew' /\ PaidOnce'
    BY <1>1, StepPlacing, StepPaid DEF TypeOK
  <2> QED
    BY <2>1, <2>2, StepWins
<1>3. WinInv => WinMatchesLegs
  BY DEF WinInv
<1> QED
  BY <1>2, <1>3, PTL DEF Spec
=============================================================================

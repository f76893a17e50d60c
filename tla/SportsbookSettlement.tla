------------------------ MODULE SportsbookSettlement ------------------------
(***************************************************************************)
(* A sportsbook ticket from the slip to the wallet: placement, cash-out,   *)
(* cancellation, the settlement passes that grade finished events, the     *)
(* settlement desk and the match desk of the administration panel.         *)
(*                                                                         *)
(* Every handler is a PostgreSQL transaction at READ COMMITTED.  A handler *)
(* that starts by locking what it decides on is one action.  The placement *)
(* reads events and pending slips before it locks the wallet: two actions. *)
(* A grading pass writes the legs, counts what is still pending and then   *)
(* settles: three actions, between which the rows it has written stay      *)
(* locked and are seen by itself only.                                     *)
(*                                                                         *)
(* Odds, taxes and bonuses are summed up in Payout, which gives the final  *)
(* payout of a ticket for each set of legs that have become void.          *)
(***************************************************************************)
EXTENDS Naturals, FiniteSets, Functions

CONSTANTS
    User, Ticket, Event, Selection,
    Pass,            \* grading passes that may be under way at once
    ResultsPass,     \* the one of them that also fetches new results
    EventOf,         \* the event of a selection
    Gradable,        \* the selections the score decides
    Linked,          \* the events known to the odds provider
    Bettor,          \* the user who places a ticket
    Slip,            \* the selections on it
    Stake,
    Payout,          \* what it wins, by the set of its void legs
    OtherPayout,     \* amounts of a cash-out or a forced win
    OpeningBalance,
    MaxPendingSlips, \* slip.max_pending_slips
    InUse            \* what the settings allow and the staff use

Feature == {"cashout", "user_cancel", "bet_cancel", "match_result", "desk",
            "void_leg", "reopen", "trading", "postpone", "cancel_event", "overdue",
            "restart"}

ASSUME BookAssumption ==
    /\ EventOf \in [Selection -> Event]
    /\ Gradable \subseteq Selection
    /\ Linked \subseteq Event
    /\ ResultsPass \subseteq Pass

ASSUME SlipAssumption ==
    /\ IsFiniteSet(Ticket)
    /\ Bettor \in [Ticket -> User]
    /\ Slip \in [Ticket -> SUBSET Selection]
    /\ \A t \in Ticket : Slip[t] # {}

ASSUME AmountAssumption ==
    /\ Stake \in [Ticket -> Nat \ {0}]
    /\ Payout \in [Ticket -> [SUBSET Selection -> Nat \ {0}]]
    /\ OtherPayout \subseteq Nat \ {0}
    /\ OpeningBalance \in [User -> Nat]
    /\ MaxPendingSlips \in Nat

ASSUME FeatureAssumption == InUse \subseteq Feature

VARIABLES
    balance,      \* wallets.balance
    locked,       \* wallets.locked_balance
    withdrawable, \* wallets.withdrawable_balance
    status,       \* sportsbook_bets.status, "none" before the insert
    settlement,   \* its settlement_status, the final ones as "final"
    review,       \* the tickets with review_required
    leg,          \* sportsbook_bet_legs.status
    postponed,    \* legs whose selection_status is 'postponed'; otherwise
                  \* selection_status says what status says or nothing
    credit,       \* amounts of the ledger rows of a ticket, by reference
    event,        \* sports_events.status
    result,       \* sports_selections.result
    placing,      \* placements that have passed their checks
    pass          \* the grading passes under way

walletVars == <<balance, locked, withdrawable>>
ticketVars == <<status, settlement, review, leg, postponed, credit>>
bookVars == <<event, result>>
txnVars == <<placing, pass>>
vars == <<walletVars, ticketVars, bookVars, txnVars>>

Result == {"won", "lost", "void"}
Terminal == {"won", "lost", "void", "cashout"}
TicketStatus == {"none", "pending"} \cup Terminal
LegStatus == {"none", "pending"} \cup Result
SettlementStatus == {"null", "awaiting_settlement", "postponed", "partially_voided",
                     "error", "manual_review", "final"}
EventStatus == {"scheduled", "live", "finished", "cancelled", "postponed"}

\* The references of the ledger rows that credit a ticket.
Ref == {"settlement", "settle", "cashout", "cancel", "bet_cancel"}

IdlePass == [phase |-> "idle", events |-> {}, found |-> [s \in Selection |-> "none"],
             legs |-> {}, ready |-> {}]

On(e) == {s \in Selection : EventOf[s] = e}

Touches(t, e) == Slip[t] \cap On(e) # {}

\* What the tickets of u in T add up to.
Total(T, u, amount) == SumFunctionOnSet(amount, {t \in T : Bettor[t] = u})

-----------------------------------------------------------------------------
\* Settling a ticket from the legs L it has.

HasPending(L, t) == \E s \in Slip[t] : L[t][s] = "pending"

VoidLegs(L, t) == {s \in Slip[t] : L[t][s] = "void"}

\* Mutant: a ticket that is not wholly void counts as won.
OutcomeIgnoringLosses(L, t) == IF VoidLegs(L, t) = Slip[t] THEN "void" ELSE "won"

Outcome(L, t) ==
    IF \E s \in Slip[t] : L[t][s] = "lost" THEN "lost"
    ELSE IF VoidLegs(L, t) = Slip[t] THEN "void" ELSE "won"

\* What the outcome credits.
DueCredit(L, t) ==
    CASE Outcome(L, t) = "lost" -> 0
      [] Outcome(L, t) = "void" -> Stake[t]
      [] OTHER -> Payout[t][VoidLegs(L, t)]

Dues(T, L) == [t \in T |-> DueCredit(L, t)]

\* A ledger reference is unique: a second row under it fails the transaction.
Collides(T, L, ref) == \E t \in T : DueCredit(L, t) > 0 /\ credit[t][ref] > 0

\* Mutant: nothing keeps locked_balance from going below zero.
ReleaseStakesUnchecked(T) ==
    locked' = [u \in User |-> locked[u] - Total(T, u, Stake)]

\* Release of the stakes of T, never below zero.
ReleaseStakes(T) ==
    locked' = [u \in User |->
                 LET released == Total(T, u, Stake)
                 IN  IF released <= locked[u] THEN locked[u] - released ELSE 0]

PostCredits(T, L, ref) ==
    credit' = [t \in Ticket |->
                 IF t \in T THEN [credit[t] EXCEPT ![ref] = @ + DueCredit(L, t)]
                 ELSE credit[t]]

CloseTickets(T, L) ==
    status' = [t \in Ticket |-> IF t \in T THEN Outcome(L, t) ELSE status[t]]

\* Mutant: a win is also added to the balance.
SettleIntoBothBuckets(T, L) ==
    LET wins == {t \in T : Outcome(L, t) = "won"}
    IN  /\ ~Collides(T, L, "settlement")
        /\ CloseTickets(T, L)
        /\ PostCredits(T, L, "settlement")
        /\ ReleaseStakes(T)
        /\ balance' = [u \in User |-> balance[u] + Total(T, u, Dues(T, L))]
        /\ withdrawable' = [u \in User |->
             withdrawable[u] + Total(wins, u, Dues(T, L))]

\* settleBetFromLegs on all of T: a win goes to the withdrawable bucket, a
\* refund to the balance.
SettleFromLegs(T, L) ==
    LET wins == {t \in T : Outcome(L, t) = "won"}
    IN  /\ ~Collides(T, L, "settlement")
        /\ CloseTickets(T, L)
        /\ PostCredits(T, L, "settlement")
        /\ ReleaseStakes(T)
        /\ balance' = [u \in User |->
             balance[u] + Total(T \ wins, u, Dues(T, L))]
        /\ withdrawable' = [u \in User |->
             withdrawable[u] + Total(wins, u, Dues(T, L))]

\* Mutant: the stake of a losing ticket stays locked.
SettleKeepingLosersLocked(T, L) ==
    /\ ~Collides(T, L, "settle")
    /\ CloseTickets(T, L)
    /\ PostCredits(T, L, "settle")
    /\ ReleaseStakes({t \in T : DueCredit(L, t) > 0})
    /\ balance' = [u \in User |-> balance[u] + Total(T, u, Dues(T, L))]
    /\ UNCHANGED withdrawable

\* The same when setMatchResult does it: everything goes to the balance.
SettleOnMatchDesk(T, L) ==
    /\ ~Collides(T, L, "settle")
    /\ CloseTickets(T, L)
    /\ PostCredits(T, L, "settle")
    /\ ReleaseStakes(T)
    /\ balance' = [u \in User |-> balance[u] + Total(T, u, Dues(T, L))]
    /\ UNCHANGED withdrawable

-----------------------------------------------------------------------------
\* Locks held by the passes under way.

\* The local pass locks no rows of sports_events, only legs and tickets; here two
\* passes have no event in common all the same.
EventLocked(e) == \E p \in Pass : e \in pass[p].events
LegLocked(t, s) == \E p \in Pass : <<t, s>> \in pass[p].legs

Init ==
    /\ balance = OpeningBalance
    /\ locked = [u \in User |-> 0]
    /\ withdrawable = [u \in User |-> 0]
    /\ status = [t \in Ticket |-> "none"]
    /\ settlement = [t \in Ticket |-> "null"]
    /\ review = {}
    /\ leg = [t \in Ticket |-> [s \in Selection |-> "none"]]
    /\ postponed = {}
    /\ credit = [t \in Ticket |-> [ref \in Ref |-> 0]]
    /\ event = [e \in Event |-> "scheduled"]
    /\ result = [s \in Selection |-> "none"]
    /\ placing = {}
    /\ pass = [p \in Pass |-> IdlePass]

-----------------------------------------------------------------------------
\* The bettor.

PendingSlips(u) == {t \in Ticket : Bettor[t] = u /\ status[t] = "pending"}

\* The checks of placeSlip, on unlocked rows.
CheckSlip(t) ==
    /\ status[t] = "none"
    /\ t \notin placing
    /\ \A s \in Slip[t] :
         result[s] = "none" /\ event[EventOf[s]] \notin {"finished", "cancelled"}
    /\ Cardinality(PendingSlips(Bettor[t])) < MaxPendingSlips
    /\ placing' = placing \cup {t}
    /\ UNCHANGED <<walletVars, ticketVars, bookVars, pass>>

\* The wallet is locked, the stake moved and bet and legs inserted.
PlaceSlip(t) ==
    LET u == Bettor[t] IN
    /\ t \in placing
    /\ balance[u] >= Stake[t]
    /\ balance' = [balance EXCEPT ![u] = @ - Stake[t]]
    /\ locked' = [locked EXCEPT ![u] = @ + Stake[t]]
    /\ status' = [status EXCEPT ![t] = "pending"]
    /\ leg' = [leg EXCEPT ![t] = [s \in Selection |->
                 IF s \in Slip[t] THEN "pending" ELSE "none"]]
    /\ placing' = placing \ {t}
    /\ UNCHANGED <<withdrawable, settlement, review, postponed, credit, bookVars, pass>>

\* Insufficient balance.
RefuseSlip(t) ==
    /\ t \in placing
    /\ balance[Bettor[t]] < Stake[t]
    /\ placing' = placing \ {t}
    /\ UNCHANGED <<walletVars, ticketVars, bookVars, pass>>

\* Mutant: the status of the ticket is not looked at.
CloseAny(t, to, ref, amount) ==
    LET u == Bettor[t] IN
    /\ status[t] # "none"
    /\ credit[t][ref] = 0
    /\ status' = [status EXCEPT ![t] = to]
    /\ credit' = [credit EXCEPT ![t][ref] = amount]
    /\ balance' = [balance EXCEPT ![u] = @ + amount]
    /\ locked' = [locked EXCEPT ![u] = IF Stake[t] <= @ THEN @ - Stake[t] ELSE 0]
    /\ UNCHANGED withdrawable

\* What a handler that closes one pending ticket does to ticket and wallet.
CloseOne(t, to, ref, amount) ==
    LET u == Bettor[t] IN
    /\ status[t] = "pending"
    /\ credit[t][ref] = 0
    /\ status' = [status EXCEPT ![t] = to]
    /\ credit' = [credit EXCEPT ![t][ref] = amount]
    /\ balance' = [balance EXCEPT ![u] = @ + amount]
    /\ locked' = [locked EXCEPT ![u] = IF Stake[t] <= @ THEN @ - Stake[t] ELSE 0]
    /\ UNCHANGED withdrawable

CashOut(t, value) ==
    /\ "cashout" \in InUse
    /\ \A s \in Slip[t] : leg[t][s] # "lost"
    /\ CloseOne(t, "cashout", "cashout", value)
    /\ UNCHANGED <<settlement, review, leg, postponed, bookVars, txnVars>>

\* Until cancel_window_minutes after the start of its first event.
UserCancel(t) ==
    /\ "user_cancel" \in InUse
    /\ \A s \in Slip[t] : event[EventOf[s]] # "finished"
    /\ CloseOne(t, "void", "cancel", Stake[t])
    /\ settlement' = [settlement EXCEPT ![t] = "final"]
    /\ UNCHANGED <<review, leg, postponed, bookVars, txnVars>>

-----------------------------------------------------------------------------
\* Fixtures, as the live feed and the administrators report them.

StartEvent(e) ==
    /\ event[e] = "scheduled"
    /\ event' = [event EXCEPT ![e] = "live"]
    /\ UNCHANGED <<walletVars, ticketVars, result, txnVars>>

\* The final score is recorded, nothing is graded.
FinishEvent(e) ==
    /\ event[e] = "live"
    /\ ~EventLocked(e)
    /\ event' = [event EXCEPT ![e] = "finished"]
    /\ UNCHANGED <<walletVars, ticketVars, result, txnVars>>

-----------------------------------------------------------------------------
\* The grading passes: settleAlreadyFinishedEvents, and the results pass that
\* fetches new scores.

\* Finished events with legs still pending.
DueEvents ==
    {e \in Event : /\ event[e] = "finished"
                   /\ \E t \in Ticket : \E s \in Slip[t] \cap On(e) : leg[t][s] = "pending"}

\* What the selections' results are once the scores of E have been graded.
Gradings(E) ==
    {f \in [Selection -> Result \cup {"none"}] :
        \A s \in Selection :
            IF result[s] = "none" /\ EventOf[s] \in E /\ s \in Gradable
            THEN f[s] # "none" ELSE f[s] = result[s]}

\* All events that are due, or some the provider says have ended, are graded, the
\* results written to the legs that are still pending.  An event whose kick-off has
\* passed while its status is still 'scheduled' has gone through StartEvent here.
GradeLegs(p, E, f) ==
    /\ pass[p].phase = "idle"
    /\ E # {}
    /\ \/ E = DueEvents
       \/ p \in ResultsPass /\ \A e \in E : event[e] \notin {"scheduled", "finished"}
    /\ \A e \in E : ~EventLocked(e)
    /\ f \in Gradings(E)
    /\ pass' = [pass EXCEPT ![p] =
         [phase |-> "graded", events |-> E, found |-> f,
          legs |-> {x \in Ticket \X Selection :
                      /\ EventOf[x[2]] \in E
                      /\ leg[x[1]][x[2]] = "pending"
                      /\ f[x[2]] # "none"},
          ready |-> {}]]
    /\ UNCHANGED <<walletVars, ticketVars, bookVars, placing>>

\* The legs as the transaction of p sees them.
SeenBy(p) ==
    [t \in Ticket |-> [s \in Selection |->
        IF <<t, s>> \in pass[p].legs THEN pass[p].found[s] ELSE leg[t][s]]]

\* Mutant: the legs are counted as other transactions see them.
CountCommitted(p) ==
    /\ pass[p].phase = "graded"
    /\ pass' = [pass EXCEPT ![p].phase = "counted",
                            ![p].ready = {t \in Ticket :
                                /\ \E s \in Selection : <<t, s>> \in pass[p].legs
                                /\ ~HasPending(leg, t)
                                /\ status[t] = "pending"}]
    /\ UNCHANGED <<walletVars, ticketVars, bookVars, placing>>

\* The tickets it has touched and that have no pending leg, as far as it sees.
CountPending(p) ==
    /\ pass[p].phase = "graded"
    /\ pass' = [pass EXCEPT ![p].phase = "counted",
                            ![p].ready = {t \in Ticket :
                                /\ \E s \in Selection : <<t, s>> \in pass[p].legs
                                /\ ~HasPending(SeenBy(p), t)
                                /\ status[t] = "pending"}]
    /\ UNCHANGED <<walletVars, ticketVars, bookVars, placing>>

\* Mutant: settleBetFromLegs does not look at the status of the ticket.
ToSettleAgain(p) == pass[p].ready

\* Those of them that are still pending when their row is locked are settled.
ToSettle(p) == {t \in pass[p].ready : status[t] = "pending"}

\* Only a results pass writes the status of events; those of a local pass are
\* finished before it begins.
CommitPass(p) ==
    /\ pass[p].phase = "counted"
    /\ SettleFromLegs(ToSettle(p), SeenBy(p))
    /\ settlement' = [t \in Ticket |-> IF t \in ToSettle(p) THEN "final" ELSE settlement[t]]
    /\ leg' = SeenBy(p)
    /\ postponed' = postponed \ pass[p].legs
    /\ event' = [e \in Event |-> IF e \in pass[p].events THEN "finished" ELSE event[e]]
    /\ result' = pass[p].found
    /\ pass' = [pass EXCEPT ![p] = IdlePass]
    /\ UNCHANGED <<review, placing>>

\* One ticket's ledger row exists already: the transaction is lost with all
\* the tickets in it.
AbortPass(p) ==
    /\ pass[p].phase = "counted"
    /\ Collides(ToSettle(p), SeenBy(p), "settlement")
    /\ pass' = [pass EXCEPT ![p] = IdlePass]
    /\ UNCHANGED <<walletVars, ticketVars, bookVars, placing>>

-----------------------------------------------------------------------------
\* Postponed and cancelled events.

\* handleEventPostponed: the pending legs are marked, and the pending tickets
\* whose settlement_status is neither NULL nor final.
PostponeEvent(e) ==
    /\ "postpone" \in InUse
    /\ ~EventLocked(e)
    /\ event' = [event EXCEPT ![e] = "postponed"]
    /\ postponed' = postponed \cup
         {x \in Ticket \X On(e) : leg[x[1]][x[2]] = "pending"}
    /\ settlement' = [t \in Ticket |->
         IF Touches(t, e) /\ status[t] = "pending" /\ settlement[t] \notin {"null", "final"}
         THEN "postponed" ELSE settlement[t]]
    /\ UNCHANGED <<walletVars, status, review, leg, credit, result, txnVars>>

\* A ticket that cannot be settled is flagged for review.
FlagErrors(T, settled) ==
    /\ review' = review \cup T
    /\ settlement' = [t \in Ticket |->
         IF t \in T THEN "error" ELSE IF t \in settled THEN "final" ELSE settlement[t]]

\* handleEventCancelled: pending legs are void, tickets are settled; one that
\* still has a pending leg makes settleBetFromLegs throw.
CancelEvent(e) ==
    LET L == [t \in Ticket |-> [s \in Selection |->
                IF s \in On(e) /\ leg[t][s] = "pending" THEN "void" ELSE leg[t][s]]]
        touched == {t \in Ticket : Touches(t, e) /\ status[t] = "pending"}
        ready == {t \in touched : ~HasPending(L, t)}
    IN  /\ "cancel_event" \in InUse
        /\ ~EventLocked(e)
        /\ event' = [event EXCEPT ![e] = "cancelled"]
        /\ leg' = L
        /\ postponed' = {x \in postponed : leg[x[1]][x[2]] = L[x[1]][x[2]]}
        /\ SettleFromLegs(ready, L)
        /\ FlagErrors(touched \ ready, ready)
        /\ UNCHANGED <<result, txnVars>>

\* The tickets that wait for a postponed event.
Waiting == {t \in Ticket : settlement[t] = "postponed"}

\* expirePostponedSelections, for the tickets X whose wait has elapsed: marked
\* legs become void, pending legs take the result of their selection, and the
\* tickets are settled.  The code reads the tickets before, without a lock; here they
\* wait when they are written.
ExpirePostponed(X) ==
    LET L == [t \in Ticket |-> [s \in Selection |->
                IF t \notin X THEN leg[t][s]
                ELSE IF <<t, s>> \in postponed THEN "void"
                ELSE IF leg[t][s] = "pending" /\ result[s] # "none" THEN result[s]
                ELSE leg[t][s]]]
        open == {t \in X : status[t] = "pending"}
        ready == {t \in open : ~HasPending(L, t)}
    IN  /\ "postpone" \in InUse
        /\ X # {} /\ X \subseteq Waiting
        /\ \A t \in X : \A s \in Slip[t] : ~LegLocked(t, s)
        /\ leg' = L
        /\ postponed' = {x \in postponed : x[1] \notin X}
        /\ SettleFromLegs(ready, L)
        /\ FlagErrors(open \ ready, ready)
        /\ UNCHANGED <<bookVars, txnVars>>

\* flagOverdueUnresolvedTickets, once e is long past its start.
Overdue(e) ==
    {t \in Ticket : /\ status[t] = "pending"
                    /\ t \notin review
                    /\ settlement[t] \notin {"postponed", "manual_review", "error"}
                    /\ event[e] \in {"scheduled", "live"} \/ e \notin Linked
                    /\ \E s \in Slip[t] \cap On(e) : leg[t][s] = "pending"}

FlagOverdueUnresolvedTickets(e) ==
    /\ "overdue" \in InUse
    /\ Overdue(e) # {}
    /\ review' = review \cup Overdue(e)
    /\ settlement' = [t \in Ticket |->
         IF t \in Overdue(e) /\ settlement[t] = "null"
         THEN "awaiting_settlement" ELSE settlement[t]]
    /\ UNCHANGED <<walletVars, status, leg, postponed, credit, bookVars, txnVars>>

-----------------------------------------------------------------------------
\* The results of the selections of e that the match desk enters: what the
\* score decides, "void" when the match was not finished, or what the
\* administrator enters instead.  Without either a selection stays open.
Entries(e) ==
    {f \in [Selection -> Result \cup {"none"}] : \A s \in Selection \ On(e) : f[s] = "none"}

\* The match desk: setMatchResult.
MatchResult(e, to, f) ==
    LET L == [t \in Ticket |-> [s \in Selection |->
                IF s \in On(e) /\ leg[t][s] = "pending" /\ f[s] # "none"
                THEN f[s] ELSE leg[t][s]]]
        ready == {t \in Ticket : /\ Touches(t, e)
                                 /\ status[t] = "pending"
                                 /\ ~HasPending(L, t)}
    IN  /\ "match_result" \in InUse
        /\ ~EventLocked(e)
        /\ to # "finished" => \A s \in On(e) : f[s] # "none"
        /\ event' = [event EXCEPT ![e] = to]
        /\ result' = [s \in Selection |->
             IF s \in On(e) /\ result[s] = "none" THEN f[s] ELSE result[s]]
        /\ leg' = L
        /\ SettleOnMatchDesk(ready, L)
        /\ UNCHANGED <<settlement, review, postponed, txnVars>>

\* Cancellation of a ticket in the bets module, before any match has started.
\* The stake stays in locked_balance.
CancelBet(t) ==
    LET u == Bettor[t] IN
    /\ "bet_cancel" \in InUse
    /\ status[t] = "pending"
    /\ credit[t]["bet_cancel"] = 0
    /\ \A s \in Slip[t] : event[EventOf[s]] \notin {"live", "finished"} /\ ~LegLocked(t, s)
    /\ status' = [status EXCEPT ![t] = "void"]
    /\ credit' = [credit EXCEPT ![t]["bet_cancel"] = Stake[t]]
    /\ balance' = [balance EXCEPT ![u] = @ + Stake[t]]
    /\ leg' = [leg EXCEPT ![t] = [s \in Selection |-> IF @[s] = "pending" THEN "void" ELSE @[s]]]
    /\ UNCHANGED <<locked, withdrawable, settlement, review, postponed, bookVars, txnVars>>

-----------------------------------------------------------------------------
\* The settlement desk.

\* A ticket that is still pending is settled as the passes would do it.
SettleTicket(t) ==
    /\ "desk" \in InUse
    /\ status[t] = "pending"
    /\ ~HasPending(leg, t)
    /\ SettleFromLegs({t}, leg)
    /\ settlement' = [settlement EXCEPT ![t] = "final"]
    /\ UNCHANGED <<review, leg, postponed, bookVars, txnVars>>

VoidSelection(t, s) ==
    /\ "void_leg" \in InUse
    /\ status[t] # "none"
    /\ s \in Slip[t]
    /\ ~LegLocked(t, s)
    /\ leg' = [leg EXCEPT ![t][s] = "void"]
    /\ postponed' = postponed \ {<<t, s>>}
    /\ settlement' = [settlement EXCEPT ![t] =
         IF @ \in {"postponed", "awaiting_settlement"} THEN "partially_voided" ELSE @]
    /\ UNCHANGED <<walletVars, status, review, credit, bookVars, txnVars>>

VoidTicket(t) ==
    /\ "desk" \in InUse
    /\ \A s \in Slip[t] : ~LegLocked(t, s)
    /\ CloseOne(t, "void", "settlement", Stake[t])
    /\ settlement' = [settlement EXCEPT ![t] = "final"]
    /\ leg' = [leg EXCEPT ![t] = [s \in Selection |-> IF s \in Slip[t] THEN "void" ELSE @[s]]]
    /\ postponed' = {x \in postponed : x[1] # t \/ leg[x[1]][x[2]] = "void"}
    /\ UNCHANGED <<review, bookVars, txnVars>>

RefundStake(t) ==
    /\ "desk" \in InUse
    /\ CloseOne(t, "void", "settlement", Stake[t])
    /\ settlement' = [settlement EXCEPT ![t] = "final"]
    /\ UNCHANGED <<review, leg, postponed, bookVars, txnVars>>

\* A forced win is credited to the withdrawable bucket, a forced loss only
\* releases the stake.
ForceWin(t, amount) ==
    LET u == Bettor[t] IN
    /\ "desk" \in InUse
    /\ status[t] = "pending"
    /\ credit[t]["settlement"] = 0
    /\ status' = [status EXCEPT ![t] = "won"]
    /\ settlement' = [settlement EXCEPT ![t] = "final"]
    /\ credit' = [credit EXCEPT ![t]["settlement"] = amount]
    /\ withdrawable' = [withdrawable EXCEPT ![u] = @ + amount]
    /\ ReleaseStakes({t})
    /\ UNCHANGED <<balance, review, leg, postponed, bookVars, txnVars>>

ForceLose(t) ==
    /\ "desk" \in InUse
    /\ status[t] = "pending"
    /\ status' = [status EXCEPT ![t] = "lost"]
    /\ settlement' = [settlement EXCEPT ![t] = "final"]
    /\ ReleaseStakes({t})
    /\ UNCHANGED <<balance, withdrawable, credit, review, leg, postponed, bookVars, txnVars>>

ManualReview(t) ==
    /\ "desk" \in InUse
    /\ status[t] # "none"
    /\ review' = review \cup {t}
    /\ settlement' = [settlement EXCEPT ![t] = "manual_review"]
    /\ UNCHANGED <<walletVars, status, leg, postponed, credit, bookVars, txnVars>>

\* Whatever the ticket's status and whatever it has paid.
ReopenTicket(t) ==
    /\ "reopen" \in InUse
    /\ status[t] # "none"
    /\ status' = [status EXCEPT ![t] = "pending"]
    /\ settlement' = [settlement EXCEPT ![t] = "awaiting_settlement"]
    /\ UNCHANGED <<walletVars, review, leg, postponed, credit, bookVars, txnVars>>

ResettleTicket(t) ==
    /\ "reopen" \in InUse
    /\ status[t] # "none"
    /\ ~HasPending(leg, t)
    /\ SettleFromLegs({t}, leg)
    /\ settlement' = [settlement EXCEPT ![t] = "final"]
    /\ UNCHANGED <<review, leg, postponed, bookVars, txnVars>>

-----------------------------------------------------------------------------
\* The sportsbook module of the administration panel.

\* The result of a selection is entered.
UpdateSelection(s, r) ==
    /\ "trading" \in InUse
    /\ ~EventLocked(EventOf[s])
    /\ result' = [result EXCEPT ![s] = r]
    /\ UNCHANGED <<walletVars, ticketVars, event, txnVars>>

\* settleMarket, on the selections M of one market: legs are graded and their
\* tickets closed, no wallet is touched.
SettleMarket(M) ==
    LET L == [t \in Ticket |-> [s \in Selection |->
                IF s \in M /\ leg[t][s] = "pending" /\ result[s] # "none"
                THEN result[s] ELSE leg[t][s]]]
        ready == {t \in Ticket : /\ Slip[t] \cap M # {}
                                 /\ status[t] = "pending"
                                 /\ ~HasPending(L, t)}
    IN  /\ "trading" \in InUse
        /\ \A s \in M : ~EventLocked(EventOf[s])
        /\ leg' = L
        /\ status' = [t \in Ticket |->
             IF t \notin ready THEN status[t]
             ELSE IF Outcome(L, t) = "lost" THEN "lost" ELSE "won"]
        /\ UNCHANGED <<walletVars, settlement, review, postponed, credit, bookVars, txnVars>>

\* settleBet and voidBet: any final status over any other.
SettleBet(t, to) ==
    /\ "trading" \in InUse
    /\ status[t] # "none"
    /\ status' = [status EXCEPT ![t] = to]
    /\ UNCHANGED <<walletVars, settlement, review, leg, postponed, credit, bookVars, txnVars>>

-----------------------------------------------------------------------------
\* The server process dies and its open transactions are rolled back.
RestartServer ==
    /\ "restart" \in InUse
    /\ placing' = {}
    /\ pass' = [p \in Pass |-> IdlePass]
    /\ UNCHANGED <<walletVars, ticketVars, bookVars>>

-----------------------------------------------------------------------------
BettorStep ==
    \E t \in Ticket :
        \/ CheckSlip(t) \/ PlaceSlip(t) \/ RefuseSlip(t)
        \/ UserCancel(t)
        \/ \E value \in OtherPayout : CashOut(t, value)

FixtureStep == \E e \in Event : StartEvent(e) \/ FinishEvent(e)

BeginPass(p) == \E E \in SUBSET Event : \E f \in Gradings(E) : GradeLegs(p, E, f)

PassStep == \E p \in Pass : BeginPass(p) \/ CountPending(p) \/ CommitPass(p) \/ AbortPass(p)

EventDeskStep ==
    \/ \E e \in Event : PostponeEvent(e) \/ CancelEvent(e)
    \/ \E e \in Event, to \in {"finished", "cancelled", "postponed"} :
         \E f \in Entries(e) : MatchResult(e, to, f)

LoopStep ==
    \/ \E X \in SUBSET Ticket : ExpirePostponed(X)
    \/ \E e \in Event : FlagOverdueUnresolvedTickets(e)

TicketDeskStep ==
    \E t \in Ticket :
        \/ CancelBet(t)
        \/ SettleTicket(t) \/ VoidTicket(t) \/ RefundStake(t)
        \/ ForceLose(t) \/ ManualReview(t)
        \/ ReopenTicket(t) \/ ResettleTicket(t)
        \/ \E s \in Selection : VoidSelection(t, s)
        \/ \E amount \in OtherPayout : ForceWin(t, amount)

TradingStep ==
    \/ \E s \in Selection, r \in Result : UpdateSelection(s, r)
    \/ \E M \in SUBSET Selection : SettleMarket(M)
    \/ \E t \in Ticket, to \in Terminal : SettleBet(t, to)

Next ==
    \/ BettorStep
    \/ FixtureStep
    \/ PassStep
    \/ EventDeskStep
    \/ LoopStep
    \/ TicketDeskStep
    \/ TradingStep
    \/ RestartServer

Spec == Init /\ [][Next]_vars

\* The settlement loop runs again and again and a pass comes to its end.
\* Nobody is obliged to bet, and no event is obliged to begin or to end.
Fairness ==
    /\ \A p \in Pass :
         /\ WF_vars(BeginPass(p))
         /\ WF_vars(CountPending(p))
         /\ WF_vars(CommitPass(p) \/ AbortPass(p))
    /\ WF_vars(ExpirePostponed(Waiting))
    /\ \A e \in Event : WF_vars(event[e] # "scheduled" /\ FlagOverdueUnresolvedTickets(e))

FairSpec == Spec /\ Fairness

-----------------------------------------------------------------------------
\* Properties.

PassRecord ==
    [phase : {"idle", "graded", "counted"}, events : SUBSET Event,
     found : [Selection -> Result \cup {"none"}],
     legs : SUBSET (Ticket \X Selection), ready : SUBSET Ticket]

\* Tickets, legs and passes have their types.
TicketTypeOK ==
    /\ status \in [Ticket -> TicketStatus]
    /\ settlement \in [Ticket -> SettlementStatus]
    /\ review \subseteq Ticket
    /\ leg \in [Ticket -> [Selection -> LegStatus]]
    /\ postponed \subseteq Ticket \X Selection
    /\ credit \in [Ticket -> [Ref -> Nat]]
    /\ event \in [Event -> EventStatus]
    /\ result \in [Selection -> Result \cup {"none"}]
    /\ placing \subseteq Ticket
    /\ pass \in [Pass -> PassRecord]

\* Every variable has its type; no bucket of a wallet goes below zero.
TypeOK ==
    /\ balance \in [User -> Nat]
    /\ locked \in [User -> Nat]
    /\ withdrawable \in [User -> Nat]
    /\ TicketTypeOK

CreditOf(t) ==
    credit[t]["settlement"] + credit[t]["settle"] + credit[t]["cashout"]
      + credit[t]["cancel"] + credit[t]["bet_cancel"]

\* Cash-out, cancellation, settlement passes and both desks race for a ticket
\* and one of them closes it: a pending or lost ticket has been credited
\* nothing, a void one its stake, a won one once.
PaidOnce ==
    \A t \in Ticket :
        /\ \A q, r \in Ref : credit[t][q] > 0 /\ credit[t][r] > 0 => q = r
        /\ status[t] \in {"none", "pending", "lost"} => CreditOf(t) = 0
        /\ status[t] = "void" => CreditOf(t) = Stake[t]
        /\ status[t] \in {"won", "cashout"} => CreditOf(t) > 0

\* A ticket is won only if none of its legs is lost or open, and then it pays
\* what it pays with the legs that are void, whichever passes, cancellations
\* and expiries have contributed to it.
WinMatchesLegs ==
    \A t \in Ticket :
        status[t] = "won" =>
            /\ \A s \in Slip[t] : leg[t][s] \in {"won", "void"}
            /\ CreditOf(t) = Payout[t][VoidLegs(leg, t)]

\* What a wallet has gained or lost over its opening balance is what the
\* ledger says: no concurrent settlement loses or doubles a credit.
WalletMatchesLedger ==
    \A u \in User :
        balance[u] + withdrawable[u]
          + Total({t \in Ticket : status[t] # "none"}, u, Stake)
        = OpeningBalance[u] + Total(Ticket, u, [t \in Ticket |-> CreditOf(t)])

\* matches.module.ts:673-674: locked_balance is the stakes of the pending
\* tickets, however the others were closed.
LockedMatchesPending ==
    \A u \in User :
        locked[u] = Total({t \in Ticket : status[t] = "pending"}, u, Stake)

\* A ticket nobody has touched since it was placed is settled once its events
\* are over and graded, without anyone's help.
FinishedIsSettled ==
    \A t \in Ticket :
        (/\ status[t] = "pending"
         /\ settlement[t] = "null"
         /\ Slip[t] \subseteq Gradable
         /\ \A s \in Slip[t] : event[EventOf[s]] = "finished")
        ~> status[t] # "pending"

StageOf(t) ==
    IF status[t] = "pending" THEN "open"
    ELSE IF status[t] = "void" THEN "refunded"
    ELSE IF status[t] = "cashout" THEN "won" ELSE status[t]

\* Every behaviour closes a ticket once and pays what its outcome promises.
Promise == INSTANCE TicketPromise WITH
    stage <- [t \in Ticket |-> StageOf(t)],
    paid <- [t \in Ticket |-> CreditOf(t)]

KeepsPromise == Promise!Spec

-----------------------------------------------------------------------------
\* Claims of the source that the handlers do not keep.

\* results.service.ts:321 and settlement-loop.ts:13-15: the loop voids
\* postponed legs or surfaces the ticket, it does not hide for ever.
PostponedSurfaces ==
    \A t \in Ticket :
        (/\ status[t] = "pending"
         /\ \A s \in Slip[t] : event[EventOf[s]] = "postponed")
        ~> (\/ status[t] # "pending" \/ t \in review
            \/ \E s \in Slip[t] : event[EventOf[s]] # "postponed")
=============================================================================

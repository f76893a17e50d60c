---------------------------- MODULE CashierTicket ----------------------------
(***************************************************************************)
(* Slips bought with cash.  A customer reserves a slip, a cashier sells it *)
(* (prints it and takes the stake), sells paid copies of it, takes a match *)
(* off it, cancels it or pays it when it has won.  Matches end, settlement *)
(* closes the ticket, and staff correct what it has decided.               *)
(*                                                                         *)
(* The branch guard, permissions, the cancellation limits and the expiry   *)
(* of a ticket only refuse and are left out, and so is the wallet, which   *)
(* the user that all slips of walk-in customers belong to does not have.   *)
(* One branch, one day.                                                    *)
(***************************************************************************)
EXTENDS Naturals, FiniteSets

CONSTANTS
    Ticket,    \* rows of sportsbook_bets
    Slip,      \* those that are reserved; the others are clones
    Leg,
    Cashier,
    Hasty,     \* cashiers who ask again while a request of theirs is running
    Session,   \* requests to sell in progress
    Referred,  \* tickets that staff correct
    MaxCorrections, \* bound on what they do
    MaxCopies, \* cashier_max_duplicate_copies, 0 for no limit
    None

ASSUME TicketAssumption ==
    /\ None \notin Ticket \cup Cashier
    /\ Slip \subseteq Ticket
    /\ Referred \subseteq Ticket
    /\ MaxCorrections \in Nat
    /\ MaxCopies \in Nat

VARIABLES
    status,    \* sportsbook_bets.status, "absent" before the insert
    root,      \* metadata.copy_of
    legs,      \* the legs in sportsbook_bet_legs
    shown,     \* the legs in metadata.selections, which is what is printed
    seller, payer, canceller, \* sold_by, paid_by, cancelled_by
    drawer,    \* cashier_transactions
    counter,   \* printed_ticket_counters.last_seq
    started,   \* legs whose match has kicked off
    result,    \* of a leg's match
    voided,    \* leg rows of a ticket that were made void one by one
    audit,     \* what staff have done to a ticket, as the audit logs have it
    corrections, \* how often staff stepped in
    session,   \* the ticket a request has read
    code,      \* the ticket's printed code, 0 for none
    papers     \* what was printed and handed out

columns == <<seller, code, payer, canceller>>
slip == <<root, legs, shown>>
\* What the counter never changes.
outside == <<started, result, voided, audit, corrections>>
vars == <<status, slip, columns, drawer, counter, papers, outside, session>>

Row(kind, t, k) == [kind |-> kind, ticket |-> t, cashier |-> k]
Paper(n, t) == [code |-> n, ticket |-> t]
NoSession == [kind |-> "none", ticket |-> None, cashier |-> None, shown |-> {}]

Init ==
    /\ status = [t \in Ticket |-> "absent"]
    /\ root = [t \in Ticket |-> None]
    /\ legs = [t \in Ticket |-> {}]
    /\ shown = [t \in Ticket |-> {}]
    /\ seller = [t \in Ticket |-> None]
    /\ code = [t \in Ticket |-> 0]
    /\ payer = [t \in Ticket |-> None]
    /\ canceller = [t \in Ticket |-> None]
    /\ drawer = {}
    /\ counter = 0
    /\ papers = {}
    /\ started = {}
    /\ result = [l \in Leg |-> "open"]
    /\ voided = {}
    /\ audit = {}
    /\ corrections = 0
    /\ session = [x \in Session |-> NoSession]

-----------------------------------------------------------------------------
(* Slips, matches and settlement.                                          *)

\* A walk-in customer reserves a slip.  A match that has begun can be bet on while
\* the feed reports it as live, which is left open here.
Reserve(t, L) ==
    /\ status[t] = "absent"
    /\ \A l \in L : result[l] = "open"
    /\ status' = [status EXCEPT ![t] = "pending"]
    /\ legs' = [legs EXCEPT ![t] = L]
    /\ shown' = [shown EXCEPT ![t] = L]
    /\ UNCHANGED <<root, columns, drawer, counter, papers, outside, session>>

Kick(l) ==
    /\ started' = started \cup {l}
    /\ UNCHANGED <<status, slip, columns, drawer, counter, papers, session>>
    /\ UNCHANGED <<result, voided, audit, corrections>>

\* A match that does not take place is void, and may be so ahead of its time.
Finish(l, r) ==
    /\ l \in started \/ r = "void"
    /\ result[l] = "open"
    /\ result' = [result EXCEPT ![l] = r]
    /\ UNCHANGED <<status, slip, columns, drawer, counter, papers, session>>
    /\ UNCHANGED <<started, voided, audit, corrections>>

LegStatus(t, l) == IF <<t, l>> \in voided THEN "void" ELSE result[l]

\* settleBetFromLegs on the legs L of t: open legs come first, then a lost one.
Outcome(t, L) ==
    IF \E l \in L : LegStatus(t, l) = "open" THEN "pending"
    ELSE IF \E l \in L : LegStatus(t, l) = "lost" THEN "lost"
    ELSE IF \A l \in L : LegStatus(t, l) = "void" THEN "void" ELSE "won"

\* Mutant: settlement reads what is printed.
SettleByShown(t) ==
    /\ status[t] = "pending"
    /\ Outcome(t, shown[t]) # "pending"
    /\ status' = [status EXCEPT ![t] = Outcome(t, shown[t])]
    /\ UNCHANGED <<slip, columns, drawer, counter, papers, outside, session>>

\* Settlement reads the leg rows.
Settle(t) ==
    /\ status[t] = "pending"
    /\ Outcome(t, legs[t]) # "pending"
    /\ status' = [status EXCEPT ![t] = Outcome(t, legs[t])]
    /\ UNCHANGED <<slip, columns, drawer, counter, papers, outside, session>>

-----------------------------------------------------------------------------
(* Staff: the settlement desk and the overwriting of a ticket's status.    *)

Log(t, action) ==
    /\ corrections < MaxCorrections
    /\ corrections' = corrections + 1
    /\ audit' = audit \cup {<<t, action>>}

Correct(t, to, action) ==
    /\ status' = [status EXCEPT ![t] = to]
    /\ Log(t, action)
    /\ UNCHANGED <<slip, columns, drawer, counter, papers, started, result, voided, session>>

ForceOutcome(t, to) ==
    /\ status[t] = "pending"
    /\ Correct(t, to, "force")

VoidSelection(t, l) ==
    /\ l \in legs[t]
    /\ voided' = voided \cup {<<t, l>>}
    /\ Log(t, "void_leg")
    /\ UNCHANGED <<status, slip, columns, drawer, counter, papers, started, result, session>>

\* void-ticket makes all legs void, refund-stake leaves them alone.
RefundTicket(t, V) ==
    /\ status[t] = "pending"
    /\ V \in {{}, legs[t]}
    /\ status' = [status EXCEPT ![t] = "void"]
    /\ voided' = voided \cup {t} \X V
    /\ Log(t, "refund")
    /\ UNCHANGED <<slip, columns, drawer, counter, papers, started, result, session>>

\* Whatever the ticket's status, paid in cash or not, cancelled or not.
Reopen(t) ==
    /\ status[t] # "absent"
    /\ Correct(t, "pending", "reopen")

Resettle(t) ==
    /\ status[t] # "absent"
    /\ Outcome(t, legs[t]) # "pending"
    /\ Correct(t, Outcome(t, legs[t]), "reopen")

\* Any final status over any other; settleMarket can do no more to a ticket.
\* 'partial' is to the counter what 'cashout' is: neither running nor payable.
SettleBet(t, to) ==
    /\ status[t] # "absent"
    /\ Correct(t, to, "reopen")

-----------------------------------------------------------------------------
(* Selling.  The ticket is read without a lock.                            *)

\* A sold ticket that still runs is copied, another sold one is reprinted.
Purpose(t) ==
    IF seller[t] = None THEN "sell"
    ELSE IF payer[t] = None /\ canceller[t] = None /\ status[t] = "pending"
         THEN "copy" ELSE "reprint"

\* now() of the statement that looks for legs that have started is the time
\* at which the transaction began.
BeginSell(x, k, t) ==
    /\ session[x] = NoSession
    /\ status[t] # "absent"
    /\ Purpose(t) # "reprint"
    /\ k \in Hasty \/ \A y \in Session : session[y].cashier # k
    /\ Purpose(t) = "copy" => legs[t] \cap started = {}
    /\ session' = [session EXCEPT ![x] =
           [kind |-> Purpose(t), ticket |-> t, cashier |-> k, shown |-> shown[t]]]
    /\ UNCHANGED <<status, slip, columns, drawer, counter, papers, outside>>

End(x) == session' = [session EXCEPT ![x] = NoSession]

Sold(t) == \E r \in drawer : r.kind = "sell" /\ r.ticket = t

\* Mutant: the violation of the unique index does not undo the rest.
CommitSellTwice(x) ==
    LET t == session[x].ticket  k == session[x].cashier
    IN  /\ session[x].kind = "sell"
        /\ counter' = counter + 1
        /\ papers' = papers \cup {Paper(counter + 1, t)}
        /\ seller' = [seller EXCEPT ![t] = k]
        /\ code' = [code EXCEPT ![t] = counter + 1]
        /\ drawer' = IF Sold(t) THEN drawer ELSE drawer \cup {Row("sell", t, k)}
        /\ End(x)
        /\ UNCHANGED <<status, slip, payer, canceller, outside>>

\* The second of two sales meets the unique reference of the first's row.  The
\* handler goes on as if nothing had happened, but the transaction is aborted
\* and its COMMIT rolls it back: the paper is printed, its number is given again.
CommitSell(x) ==
    LET t == session[x].ticket  k == session[x].cashier
    IN  /\ session[x].kind = "sell"
        /\ papers' = papers \cup {Paper(counter + 1, t)}
        /\ IF Sold(t)
           THEN UNCHANGED <<counter, seller, code, drawer>>
           ELSE /\ counter' = counter + 1
                /\ seller' = [seller EXCEPT ![t] = k]
                /\ code' = [code EXCEPT ![t] = counter + 1]
                /\ drawer' = drawer \cup {Row("sell", t, k)}
        /\ End(x)
        /\ UNCHANGED <<status, slip, payer, canceller, outside>>

Root(t) == IF root[t] = None THEN t ELSE root[t]
Copies(r) == {t \in Ticket : root[t] = r}

\* The clone: pending whatever its original has become.
Clone(x, new) ==
    LET t == session[x].ticket  k == session[x].cashier
    IN  /\ status[new] = "absent"
        /\ status' = [status EXCEPT ![new] = "pending"]
        /\ root' = [root EXCEPT ![new] = Root(t)]
        /\ legs' = [legs EXCEPT ![new] = legs[t]]
        /\ shown' = [shown EXCEPT ![new] = shown[t]]
        /\ seller' = [seller EXCEPT ![new] = k]
        /\ code' = [code EXCEPT ![new] = counter + 1]
        /\ counter' = counter + 1
        /\ papers' = papers \cup {Paper(counter + 1, new)}
        /\ drawer' = drawer \cup {Row("sell", new, k)}
        /\ End(x)
        /\ UNCHANGED <<payer, canceller, outside>>

\* Mutant: the copies that carry the scanned ticket's id are counted.
CopyCountsScanned(x, new) ==
    /\ session[x].kind = "copy"
    /\ session[x].shown \cap started = {}
    /\ MaxCopies > 0 => Cardinality(Copies(session[x].ticket)) < MaxCopies
    /\ Clone(x, new)

\* Mutant: the kick-off guard trusts the unlocked read.
CopyTrustsRead(x, new) ==
    /\ session[x].kind = "copy"
    /\ MaxCopies > 0 => Cardinality(Copies(Root(session[x].ticket))) < MaxCopies
    /\ Clone(x, new)

\* sellDuplicateCopy, with the root row locked: the printed matches are tested
\* against the clock, and copies are counted by their root.  The test, the inserts
\* and the COMMIT are one step, taken at the moment of the test.
CommitCopy(x, new) ==
    /\ session[x].kind = "copy"
    /\ session[x].shown \cap started = {}
    /\ MaxCopies > 0 => Cardinality(Copies(Root(session[x].ticket))) < MaxCopies
    /\ Clone(x, new)

\* A guard of the copy, an error or a lost connection.
AbortSell(x) ==
    /\ session[x] # NoSession
    /\ End(x)
    /\ UNCHANGED <<status, slip, columns, drawer, counter, papers, outside>>

-----------------------------------------------------------------------------
(* Under the lock of the ticket's row.                                     *)

\* A match that has not started is taken off the slip; its leg row stays.
RemoveLeg(t, l) ==
    /\ payer[t] = None /\ status[t] = "pending"
    /\ l \in shown[t] \ started
    /\ shown[t] # {l}
    /\ shown' = [shown EXCEPT ![t] = @ \ {l}]
    /\ UNCHANGED <<status, root, legs, columns, drawer, counter, papers, outside, session>>

Void(t, k) ==
    /\ status' = [status EXCEPT ![t] = "void"]
    /\ canceller' = [canceller EXCEPT ![t] = k]
    /\ drawer' = drawer \cup {Row("cancel", t, k)}
    /\ UNCHANGED <<slip, seller, code, payer, counter, papers, outside, session>>

\* The reference of its row is unique: a ticket that was reopened after its
\* cancellation cannot be cancelled again.
CancelTicket(t, k) ==
    /\ payer[t] = None /\ status[t] = "pending"
    /\ shown[t] \cap started = {}
    /\ \A r \in drawer : ~(r.kind = "cancel" /\ r.ticket = t)
    /\ Void(t, k)

Pay(t, k) ==
    /\ payer' = [payer EXCEPT ![t] = k]
    /\ drawer' = drawer \cup {Row("payout", t, k)}
    /\ UNCHANGED <<status, slip, seller, code, canceller, counter, papers, outside, session>>

\* The column's CHECK keeps 'partial_won' and 'cashed_out' out of sportsbook_bets;
\* the handler knows them from the other table of tickets.
PayoutStatus(t) ==
    CASE payer[t] # None -> "already_paid"
      [] payer[t] = None /\ status[t] \in {"won", "partial_won"} -> "won"
      [] payer[t] = None /\ status[t] \in {"cashed_out"} -> "cashback"
      [] payer[t] = None /\ status[t] \in {"lost"} -> "lost"
      [] payer[t] = None /\ status[t] \in {"void", "cancelled"} -> "void"
      [] OTHER -> "pending"

Payout(t, k) ==
    /\ PayoutStatus(t) \in {"won", "cashback"}
    /\ Pay(t, k)

-----------------------------------------------------------------------------
StaffStep(t) ==
    \/ Reopen(t) \/ Resettle(t)
    \/ \E to \in {"won", "lost"} : ForceOutcome(t, to)
    \/ \E to \in {"won", "lost", "void", "cashout"} : SettleBet(t, to)
    \/ \E l \in Leg : VoidSelection(t, l)
    \/ \E V \in SUBSET Leg : RefundTicket(t, V)

Next ==
    \/ \E t \in Slip, L \in SUBSET Leg \ {{}} : Reserve(t, L)
    \/ \E t \in Ticket : \/ \E l \in Leg : RemoveLeg(t, l)
                         \/ \E k \in Cashier : CancelTicket(t, k) \/ Payout(t, k)
                         \/ Settle(t)
    \/ \E x \in Session : \/ \E k \in Cashier, t \in Ticket : BeginSell(x, k, t)
                          \/ CommitSell(x) \/ AbortSell(x)
                          \/ \E new \in Ticket \ Slip : CommitCopy(x, new)
    \/ \E l \in Leg : Kick(l) \/ \E r \in {"won", "lost", "void"} : Finish(l, r)
    \/ \E t \in Referred : StaffStep(t)

Spec == Init /\ [][Next]_vars

-----------------------------------------------------------------------------
\* Every column holds a value of its type.
TypeOK ==
    /\ status \in [Ticket -> {"absent", "pending", "won", "lost", "void", "cashout"}]
    /\ root \in [Ticket -> Ticket \cup {None}]
    /\ legs \in [Ticket -> SUBSET Leg] /\ shown \in [Ticket -> SUBSET Leg]
    /\ seller \in [Ticket -> Cashier \cup {None}]
    /\ payer \in [Ticket -> Cashier \cup {None}]
    /\ canceller \in [Ticket -> Cashier \cup {None}]
    /\ code \in [Ticket -> Nat] /\ counter \in Nat
    /\ drawer \subseteq [kind : {"sell", "cancel", "payout"}, ticket : Ticket, cashier : Cashier]
    /\ papers \subseteq [code : Nat, ticket : Ticket]
    /\ started \subseteq Leg /\ result \in [Leg -> {"open", "won", "lost", "void"}]
    /\ voided \subseteq Ticket \X Leg
    /\ audit \subseteq Ticket \X {"force", "void_leg", "refund", "reopen"}
    /\ corrections \in Nat
    /\ session \in [Session -> [kind : {"sell", "copy"}, ticket : Ticket, cashier : Cashier,
                                shown : SUBSET Leg] \cup {NoSession}]

\* The drawer of a cashier holds a sale, a payout or a cancellation exactly when
\* the ticket names him for it, whichever of two requests came first.
DrawerMatchesTickets ==
    \A t \in Ticket, k \in Cashier :
        /\ Row("sell", t, k) \in drawer <=> seller[t] = k
        /\ Row("payout", t, k) \in drawer <=> payer[t] = k
        /\ Row("cancel", t, k) \in drawer <=> canceller[t] = k

Reopened(t) == <<t, "reopen">> \in audit
Forced(t) == <<t, "force">> \in audit
LegVoided(t) == <<t, "void_leg">> \in audit

\* A ticket that was paid in cash is won and was not cancelled, unless staff reopened
\* it; no leg of it is lost or open, unless they forced it to win; and one at least
\* has won, unless they made legs void: whichever of settlement, cancellation,
\* cancelled events and the removal of a match came between.
PaidHasWon ==
    \A t \in Ticket : payer[t] # None /\ ~Reopened(t) =>
        /\ status[t] = "won" /\ canceller[t] = None
        /\ ~Forced(t) => \A l \in legs[t] : LegStatus(t, l) \in {"won", "void"}
        /\ ~Forced(t) /\ ~LegVoided(t) => \E l \in legs[t] : LegStatus(t, l) = "won"

\* However many cashiers copy a slip and its copies at once, the family stays
\* within the configured number.
CopiesWithinLimit ==
    MaxCopies > 0 =>
        \A r \in Ticket : Cardinality({t \in Ticket : root[t] # None /\ Root(Root(t)) = r}) <= MaxCopies

\* A copy is sold while no match that is printed on it has started.
CopyBeforeKickOff ==
    [][\A t \in Ticket : root[t] # root'[t] => shown'[t] \cap started = {}]_vars

-----------------------------------------------------------------------------
\* The comment on the counter: concurrent callers each receive a distinct number.
PrintedCodesDistinct == \A p, q \in papers : p.code = q.code => p.ticket = q.ticket

\* The header of the copies: only while the ticket is still pending.
CopyOfPending ==
    [][\A t \in Ticket : root[t] # root'[t] => status[root'[t]] = "pending"]_vars

\* The route's summary: the selection is removed from the ticket.
SettledByWhatIsShown ==
    \A t \in Ticket :
        status[t] = "lost" /\ ~Reopened(t) /\ ~Forced(t) /\ ~LegVoided(t)
        => \E l \in shown[t] : LegStatus(t, l) = "lost"

\* A payout follows a sale.
PaidWasSold == \A t \in Ticket : payer[t] # None => seller[t] # None
=============================================================================

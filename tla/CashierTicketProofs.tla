------------------------- MODULE CashierTicketProofs -------------------------
(***************************************************************************)
(* Theorems about CashierTicket, for any number of tickets, cashiers and   *)
(* requests.  Until staff reopen a ticket, what its columns say follows    *)
(* from its status (Columns), and until they also force it, a ticket that  *)
(* won keeps the results it won by (WonByLegs).                            *)
(***************************************************************************)
EXTENDS CashierTicket, FiniteSetTheorems, TLAPS

\* A request reads a ticket that is there, and no ticket goes away.
SessionsRead == \A x \in Session : session[x] # NoSession => status[session[x].ticket] # "absent"

\* Who sold, paid or cancelled a ticket, by its status.
Columns ==
    \A t \in Ticket :
        /\ status[t] = "absent" => seller[t] = None /\ payer[t] = None /\ canceller[t] = None
        /\ payer[t] # None /\ ~Reopened(t) => status[t] = "won"
        /\ canceller[t] # None /\ ~Reopened(t) => status[t] = "void"

NoneLost(t) == \A l \in legs[t] : LegStatus(t, l) \in {"won", "void"}
SomeWon(t) == \E l \in legs[t] : LegStatus(t, l) = "won"

WonByLegs ==
    \A t \in Ticket : status[t] = "won" /\ ~Reopened(t) /\ ~Forced(t) =>
        NoneLost(t) /\ (~LegVoided(t) => SomeWon(t))

Inv == TypeOK /\ SessionsRead /\ Columns /\ WonByLegs /\ DrawerMatchesTickets

USE TicketAssumption DEF TicketAssumption

\* The books of one kind after a row is added for a ticket that had none, and the
\* ticket's column is set to the same cashier.
LEMMA RowAdded ==
    ASSUME NEW kind, NEW t \in Ticket, NEW k \in Cashier,
           NEW column \in [Ticket -> Cashier \cup {None}],
           \A u \in Ticket, j \in Cashier : Row(kind, u, j) \in drawer <=> column[u] = j,
           column[t] = None
    PROVE  \A u \in Ticket, j \in Cashier :
               Row(kind, u, j) \in drawer \cup {Row(kind, t, k)} <=> [column EXCEPT ![t] = k][u] = j
<1> SUFFICES ASSUME NEW u \in Ticket, NEW j \in Cashier
             PROVE  Row(kind, u, j) \in drawer \cup {Row(kind, t, k)} <=> [column EXCEPT ![t] = k][u] = j
    OBVIOUS
<1>1. Row(kind, u, j) = Row(kind, t, k) <=> u = t /\ j = k
  BY DEF Row
<1>2. CASE u = t
  BY <1>1, <1>2
<1>3. CASE u # t
  BY <1>1, <1>3
<1> QED
  BY <1>2, <1>3

LEMMA InitInv == Init => Inv
<1> SUFFICES ASSUME Init PROVE Inv
    OBVIOUS
<1>1. TypeOK
  BY DEF Init, TypeOK
<1>2. SessionsRead /\ Columns /\ WonByLegs
  BY DEF Init, SessionsRead, Columns, WonByLegs
<1>3. DrawerMatchesTickets
  BY DEF Init, DrawerMatchesTickets
<1> QED
  BY <1>1, <1>2, <1>3 DEF Inv

-----------------------------------------------------------------------------
(* Types.                                                                  *)

LEMMA OutcomeType ==
    \A t, L : Outcome(t, L) \in {"pending", "won", "lost", "void"}
BY DEF Outcome

LEMMA StaffTypes ==
    ASSUME TypeOK, NEW t \in Referred, StaffStep(t)
    PROVE  TypeOK'
<1> USE DEF TypeOK, slip, columns
<1>0. t \in Ticket
    OBVIOUS
<1>1. ASSUME NEW to \in {"pending", "won", "lost", "void", "cashout"},
             NEW action \in {"force", "reopen"}, Correct(t, to, action)
      PROVE  TypeOK'
  BY <1>0, <1>1 DEF Correct, Log
<1>2. ASSUME NEW l \in Leg, VoidSelection(t, l) PROVE TypeOK'
  BY <1>0, <1>2 DEF VoidSelection, Log
<1>3. ASSUME NEW V \in SUBSET Leg, RefundTicket(t, V) PROVE TypeOK'
  BY <1>0, <1>3 DEF RefundTicket, Log
<1>4. CASE Reopen(t) \/ Resettle(t)
  BY <1>1, <1>4, OutcomeType DEF Reopen, Resettle
<1>5. CASE \/ \E to \in {"won", "lost"} : ForceOutcome(t, to)
           \/ \E to \in {"won", "lost", "void", "cashout"} : SettleBet(t, to)
  BY <1>1, <1>5 DEF ForceOutcome, SettleBet
<1> QED
  BY <1>2, <1>3, <1>4, <1>5 DEF StaffStep

LEMMA TypeStep == TypeOK /\ [Next]_vars => TypeOK'
<1> SUFFICES ASSUME TypeOK, [Next]_vars PROVE TypeOK'
    OBVIOUS
<1> USE DEF TypeOK
<1>1. ASSUME NEW t \in Slip, NEW L \in SUBSET Leg, Reserve(t, L) PROVE TypeOK'
  BY <1>1 DEF Reserve, columns, outside
<1>2. ASSUME NEW t \in Ticket, NEW l \in Leg, RemoveLeg(t, l) PROVE TypeOK'
  BY <1>2 DEF RemoveLeg, columns, outside
<1>3. ASSUME NEW t \in Ticket, NEW k \in Cashier, CancelTicket(t, k) PROVE TypeOK'
  BY <1>3 DEF CancelTicket, Void, Row, slip, outside
<1>4. ASSUME NEW t \in Ticket, NEW k \in Cashier, Payout(t, k) PROVE TypeOK'
  BY <1>4 DEF Payout, Pay, Row, slip, outside
<1>5. ASSUME NEW t \in Ticket, Settle(t) PROVE TypeOK'
  BY <1>5, OutcomeType DEF Settle, slip, columns, outside
<1>6. ASSUME NEW x \in Session, NEW k \in Cashier, NEW t \in Ticket, BeginSell(x, k, t) PROVE TypeOK'
  BY <1>6 DEF BeginSell, Purpose, slip, columns, outside
<1>7. ASSUME NEW x \in Session, CommitSell(x) PROVE TypeOK'
  <2>1. session[x].ticket \in Ticket /\ session[x].cashier \in Cashier
    BY <1>7 DEF CommitSell, NoSession
  <2> QED
    BY <1>7, <2>1 DEF CommitSell, End, Paper, Row, slip, outside
<1>8. ASSUME NEW x \in Session, AbortSell(x) PROVE TypeOK'
  BY <1>8 DEF AbortSell, End, slip, columns, outside
<1>9. ASSUME NEW x \in Session, NEW new \in Ticket, CommitCopy(x, new) PROVE TypeOK'
  <2>1. session[x].ticket \in Ticket /\ session[x].cashier \in Cashier
    BY <1>9 DEF CommitCopy, NoSession
  <2> QED
    BY <1>9, <2>1 DEF CommitCopy, Clone, End, Root, Paper, Row, outside
<1>10. ASSUME NEW l \in Leg, Kick(l) PROVE TypeOK'
  BY <1>10 DEF Kick, slip, columns
<1>11. ASSUME NEW l \in Leg, NEW r \in {"won", "lost", "void"}, Finish(l, r) PROVE TypeOK'
  BY <1>11 DEF Finish, slip, columns
<1>12. ASSUME NEW t \in Referred, StaffStep(t) PROVE TypeOK'
  BY <1>12, StaffTypes
<1>13. CASE UNCHANGED vars
  BY <1>13 DEF vars, slip, columns, outside
<1> QED
  BY <1>1, <1>2, <1>3, <1>4, <1>5, <1>6, <1>7, <1>8, <1>9, <1>10, <1>11, <1>12, <1>13 DEF Next

-----------------------------------------------------------------------------
(* The rest of the invariant, by what an action does to the drawer.        *)

\* What staff leave alone, and what of their work the audit shows.
LEMMA StaffLeaves ==
    ASSUME TypeOK, NEW t \in Referred, StaffStep(t)
    PROVE  /\ UNCHANGED <<slip, columns, drawer, counter, papers, started, result, session>>
           /\ \A u \in Ticket : status'[u] = "absent" <=> status[u] = "absent"
           /\ \A u \in Ticket : status'[u] # status[u] => status[u] = "pending" \/ Reopened(u)'
           /\ \A u \in Ticket :
                  status'[u] = "won" => status[u] = "won" \/ Reopened(u)' \/ Forced(u)'
           /\ audit \subseteq audit'
           /\ voided \subseteq voided'
           /\ \A u \in Ticket : \A l \in Leg : <<u, l>> \in voided' =>
                  <<u, l>> \in voided \/ status[u] = "pending" \/ LegVoided(u)'
<1> USE DEF TypeOK, Reopened, Forced, LegVoided
<1>0. t \in Ticket
    OBVIOUS
<1>1. CASE Reopen(t) \/ Resettle(t)
  BY <1>0, <1>1, OutcomeType DEF Reopen, Resettle, Correct, Log
<1>2. CASE \E to \in {"won", "lost"} : ForceOutcome(t, to)
  BY <1>0, <1>2 DEF ForceOutcome, Correct, Log
<1>3. CASE \E to \in {"won", "lost", "void", "cashout"} : SettleBet(t, to)
  BY <1>0, <1>3 DEF SettleBet, Correct, Log
<1>4. CASE \E l \in Leg : VoidSelection(t, l)
  BY <1>0, <1>4 DEF VoidSelection, Log
<1>5. CASE \E V \in SUBSET Leg : RefundTicket(t, V)
  BY <1>0, <1>5 DEF RefundTicket, Log
<1> QED
  BY <1>1, <1>2, <1>3, <1>4, <1>5 DEF StaffStep

\* The audit is only written by staff, and what it says of a ticket stays.
LEMMA AuditGrows ==
    ASSUME TypeOK, [Next]_vars
    PROVE  audit \subseteq audit' /\ \A t \in Ticket :
               /\ Reopened(t) => Reopened(t)'
               /\ Forced(t) => Forced(t)'
               /\ LegVoided(t) => LegVoided(t)'
<1>1. audit \subseteq audit'
  BY StaffLeaves DEF Next, Reserve, RemoveLeg, CancelTicket, Void, Payout, Pay, Settle,
         BeginSell, CommitSell, AbortSell, CommitCopy, Clone, Kick, Finish, vars, outside
<1> QED
  BY <1>1 DEF Reopened, Forced, LegVoided

\* Steps that leave columns and drawer alone.
LEMMA QuietStep ==
    ASSUME Inv, [Next]_vars, UNCHANGED <<columns, drawer>>
    PROVE  Columns' /\ DrawerMatchesTickets'
<1>1. DrawerMatchesTickets'
  BY DEF Inv, DrawerMatchesTickets, columns
<1>2. \A t \in Ticket :
          /\ status'[t] = "absent" => status[t] = "absent"
          /\ status[t] \in {"won", "void"} => status'[t] = status[t] \/ Reopened(t)'
  BY StaffLeaves, OutcomeType DEF Inv, TypeOK, Next, Reserve, RemoveLeg, CancelTicket, Void, Payout, Pay,
         Settle, BeginSell, CommitSell, AbortSell, CommitCopy, Clone, Kick, Finish, vars
<1> QED
  BY <1>1, <1>2, AuditGrows DEF Inv, Columns, columns

LEMMA SaleStep ==
    ASSUME Inv, NEW x \in Session, CommitSell(x)
    PROVE  Columns' /\ DrawerMatchesTickets'
<1> DEFINE t == session[x].ticket  k == session[x].cashier
<1>1. t \in Ticket /\ k \in Cashier /\ status[t] # "absent"
  BY DEF Inv, TypeOK, SessionsRead, CommitSell, NoSession
<1>2. CASE Sold(t)
  BY <1>2 DEF CommitSell, Inv, Columns, DrawerMatchesTickets, Reopened, outside
<1>3. CASE ~Sold(t)
  <2>1. /\ seller' = [seller EXCEPT ![t] = k]
        /\ drawer' = drawer \cup {Row("sell", t, k)}
        /\ UNCHANGED <<status, payer, canceller>>
    BY <1>3 DEF CommitSell
  <2>2. seller[t] = None
    <3>1. Row("sell", t, seller[t]) \notin drawer
      BY <1>3 DEF Sold, Row
    <3>2. seller[t] \in Cashier \cup {None}
      BY <1>1 DEF Inv, TypeOK
    <3> QED
      BY <1>1, <3>1, <3>2 DEF Inv, DrawerMatchesTickets
  <2>3. Columns'
    BY <1>1, <2>1 DEF Inv, TypeOK, Columns, Reopened, CommitSell, outside
  <2>4. DrawerMatchesTickets'
    <3>1. \A u \in Ticket, j \in Cashier : Row("sell", u, j) \in drawer' <=> seller'[u] = j
      <4>1. /\ seller \in [Ticket -> Cashier \cup {None}]
            /\ \A u \in Ticket, j \in Cashier : Row("sell", u, j) \in drawer <=> seller[u] = j
        BY DEF Inv, TypeOK, DrawerMatchesTickets
      <4> QED
        BY <1>1, <2>1, <2>2, <4>1, RowAdded
    <3>2. \A u \in Ticket, j \in Cashier :
              /\ Row("payout", u, j) \in drawer' <=> payer'[u] = j
              /\ Row("cancel", u, j) \in drawer' <=> canceller'[u] = j
      BY <1>1, <2>1, <2>2 DEF Inv, DrawerMatchesTickets, Row
    <3> QED
      BY <3>1, <3>2 DEF DrawerMatchesTickets, Row
  <2> QED
    BY <2>3, <2>4
<1> QED
  BY <1>2, <1>3

LEMMA CopyStep ==
    ASSUME Inv, NEW x \in Session, NEW new \in Ticket, CommitCopy(x, new)
    PROVE  Columns' /\ DrawerMatchesTickets'
<1> DEFINE k == session[x].cashier
<1>1. k \in Cashier /\ status[new] = "absent"
  BY DEF Inv, TypeOK, CommitCopy, Clone, NoSession
<1>2. /\ status' = [status EXCEPT ![new] = "pending"]
      /\ seller' = [seller EXCEPT ![new] = k]
      /\ drawer' = drawer \cup {Row("sell", new, k)}
      /\ UNCHANGED <<payer, canceller, audit>>
  BY DEF CommitCopy, Clone, outside
<1>3. seller[new] = None /\ payer[new] = None /\ canceller[new] = None
  BY <1>1 DEF Inv, Columns
<1>4. Columns'
  <2>1. \A u \in Ticket \ {new} : status'[u] = status[u] /\ seller'[u] = seller[u]
    BY <1>2 DEF Inv, TypeOK
  <2>2. status'[new] = "pending"
    BY <1>2 DEF Inv, TypeOK
  <2>3. \A u \in Ticket : Reopened(u)' = Reopened(u)
    BY <1>2 DEF Reopened
  <2>4. \A u \in Ticket : payer'[u] = payer[u] /\ canceller'[u] = canceller[u]
    BY <1>2
  <2> QED
    BY <1>3, <2>1, <2>2, <2>3, <2>4 DEF Inv, Columns
<1>5. DrawerMatchesTickets'
  <2>1. \A u \in Ticket, j \in Cashier : Row("sell", u, j) \in drawer' <=> seller'[u] = j
    <3>1. /\ seller \in [Ticket -> Cashier \cup {None}]
          /\ \A u \in Ticket, j \in Cashier : Row("sell", u, j) \in drawer <=> seller[u] = j
      BY DEF Inv, TypeOK, DrawerMatchesTickets
    <3> QED
      BY <1>1, <1>2, <1>3, <3>1, RowAdded
  <2>2. \A u \in Ticket, j \in Cashier :
            /\ Row("payout", u, j) \in drawer' <=> payer'[u] = j
            /\ Row("cancel", u, j) \in drawer' <=> canceller'[u] = j
    BY <1>1, <1>2, <1>3 DEF Inv, DrawerMatchesTickets, Row
  <2> QED
    BY <2>1, <2>2 DEF DrawerMatchesTickets, Row
<1> QED
  BY <1>4, <1>5

LEMMA CancelStep ==
    ASSUME Inv, NEW t \in Ticket, NEW k \in Cashier, CancelTicket(t, k)
    PROVE  Columns' /\ DrawerMatchesTickets'
<1>1. /\ status' = [status EXCEPT ![t] = "void"]
      /\ canceller' = [canceller EXCEPT ![t] = k]
      /\ drawer' = drawer \cup {Row("cancel", t, k)}
      /\ UNCHANGED <<seller, payer, audit>>
  BY DEF CancelTicket, Void, outside
<1>2. status[t] = "pending" /\ payer[t] = None
  BY DEF CancelTicket
<1>3. canceller[t] = None
  <2>1. canceller[t] \in Cashier \cup {None} /\ Row("cancel", t, canceller[t]) \notin drawer
    BY DEF CancelTicket, Inv, TypeOK, Row
  <2> QED
    BY <2>1 DEF Inv, DrawerMatchesTickets
<1>4. Columns'
  <2>1. \A u \in Ticket \ {t} : status'[u] = status[u] /\ canceller'[u] = canceller[u]
    BY <1>1 DEF Inv, TypeOK
  <2>2. status'[t] = "void"
    BY <1>1 DEF Inv, TypeOK
  <2>3. \A u \in Ticket : Reopened(u)' = Reopened(u)
    BY <1>1 DEF Reopened
  <2>4. \A u \in Ticket : payer'[u] = payer[u] /\ seller'[u] = seller[u]
    BY <1>1
  <2> QED
    BY <1>2, <2>1, <2>2, <2>3, <2>4 DEF Inv, Columns
<1>5. DrawerMatchesTickets'
  <2>1. \A u \in Ticket, j \in Cashier : Row("cancel", u, j) \in drawer' <=> canceller'[u] = j
    <3>1. /\ canceller \in [Ticket -> Cashier \cup {None}]
          /\ \A u \in Ticket, j \in Cashier : Row("cancel", u, j) \in drawer <=> canceller[u] = j
      BY DEF Inv, TypeOK, DrawerMatchesTickets
    <3> QED
      BY <1>1, <1>3, <3>1, RowAdded
  <2>2. \A u \in Ticket, j \in Cashier :
            /\ Row("sell", u, j) \in drawer' <=> seller'[u] = j
            /\ Row("payout", u, j) \in drawer' <=> payer'[u] = j
    BY <1>1, <1>2 DEF Inv, DrawerMatchesTickets, Row
  <2> QED
    BY <2>1, <2>2 DEF DrawerMatchesTickets, Row
<1> QED
  BY <1>4, <1>5

LEMMA PayoutStep ==
    ASSUME Inv, NEW t \in Ticket, NEW k \in Cashier, Payout(t, k)
    PROVE  Columns' /\ DrawerMatchesTickets'
<1>1. /\ payer' = [payer EXCEPT ![t] = k]
      /\ drawer' = drawer \cup {Row("payout", t, k)}
      /\ UNCHANGED <<status, seller, canceller>>
  BY DEF Payout, Pay
<1>2. status[t] = "won" /\ payer[t] = None
  BY DEF Payout, PayoutStatus, Inv, TypeOK
<1>3. Columns'
  BY <1>1, <1>2 DEF Inv, TypeOK, Columns, Reopened, Payout, Pay, outside
<1>4. DrawerMatchesTickets'
  <2>1. \A u \in Ticket, j \in Cashier : Row("payout", u, j) \in drawer' <=> payer'[u] = j
    <3>1. /\ payer \in [Ticket -> Cashier \cup {None}]
          /\ \A u \in Ticket, j \in Cashier : Row("payout", u, j) \in drawer <=> payer[u] = j
      BY DEF Inv, TypeOK, DrawerMatchesTickets
    <3> QED
      BY <1>1, <1>2, <3>1, RowAdded
  <2>2. \A u \in Ticket, j \in Cashier :
            /\ Row("sell", u, j) \in drawer' <=> seller'[u] = j
            /\ Row("cancel", u, j) \in drawer' <=> canceller'[u] = j
    BY <1>1, <1>2 DEF Inv, DrawerMatchesTickets, Row
  <2> QED
    BY <2>1, <2>2 DEF DrawerMatchesTickets, Row
<1> QED
  BY <1>3, <1>4

\* A ticket that is there stays there, and the legs of one that is there stay its legs.
LEMMA TicketsStay ==
    ASSUME TypeOK, [Next]_vars, NEW t \in Ticket, status[t] # "absent"
    PROVE  status'[t] # "absent" /\ legs'[t] = legs[t]
BY StaffLeaves, OutcomeType DEF TypeOK, Next, Reserve, RemoveLeg, CancelTicket, Void, Payout, Pay, Settle,
       BeginSell, CommitSell, AbortSell, CommitCopy, Clone, Kick, Finish, vars, slip

\* The result of a match is entered once.
LEMMA ResultsStay ==
    ASSUME TypeOK, [Next]_vars, NEW l \in Leg, result[l] # "open"
    PROVE  result'[l] = result[l]
BY StaffLeaves DEF TypeOK, Next, Reserve, RemoveLeg, CancelTicket, Void, Payout, Pay, Settle,
       BeginSell, CommitSell, AbortSell, CommitCopy, Clone, Kick, Finish, vars, outside

\* A leg row of a ticket is made void by the desk, or with the rest of a ticket
\* that runs.
LEMMA VoidedStep ==
    ASSUME TypeOK, [Next]_vars, NEW t \in Ticket, NEW l \in Leg
    PROVE  /\ <<t, l>> \in voided => <<t, l>> \in voided'
           /\ <<t, l>> \in voided' => <<t, l>> \in voided \/ status[t] = "pending" \/ LegVoided(t)'
BY StaffLeaves DEF Next, Reserve, RemoveLeg, CancelTicket, Void, Payout, Pay, Settle,
       BeginSell, CommitSell, AbortSell, CommitCopy, Clone, Kick, Finish, vars, outside

\* What settlement finds when a ticket wins.
LEMMA OutcomeWon ==
    ASSUME TypeOK, NEW t \in Ticket, Outcome(t, legs[t]) = "won"
    PROVE  NoneLost(t) /\ SomeWon(t)
<1>1. \A l \in legs[t] : LegStatus(t, l) \in {"open", "won", "lost", "void"}
  BY DEF TypeOK, LegStatus
<1> QED
  BY <1>1 DEF Outcome, NoneLost, SomeWon

LEMMA WonByLegsStep == Inv /\ [Next]_vars => WonByLegs'
<1> SUFFICES ASSUME Inv, [Next]_vars, NEW t \in Ticket,
                    status'[t] = "won", ~Reopened(t)', ~Forced(t)'
             PROVE  NoneLost(t)' /\ (~LegVoided(t)' => SomeWon(t)')
  BY DEF WonByLegs
<1>1. ~Reopened(t) /\ ~Forced(t) /\ (~LegVoided(t)' => ~LegVoided(t))
  BY AuditGrows DEF Inv
<1>2. status[t] = "won" \/ Settle(t)
  BY StaffLeaves DEF Inv, TypeOK, Next, Reserve, RemoveLeg, CancelTicket, Void, Payout, Pay, Settle,
         BeginSell, CommitSell, AbortSell, CommitCopy, Clone, Kick, Finish, vars
<1>3. CASE status[t] = "won"
  <2>1. NoneLost(t) /\ (~LegVoided(t)' => SomeWon(t))
    BY <1>1, <1>3 DEF Inv, WonByLegs
  <2>2. legs'[t] = legs[t] /\ legs[t] \subseteq Leg
    BY <1>3, TicketsStay DEF Inv, TypeOK
  <2>3. \A l \in legs[t] : LegStatus(t, l) \in {"won", "void"} => LegStatus(t, l)' \in {"won", "void"}
    BY <2>2, VoidedStep, ResultsStay DEF Inv, LegStatus
  <2>4. ~LegVoided(t)' =>
            \A l \in legs[t] : LegStatus(t, l) = "won" => LegStatus(t, l)' = "won"
    BY <1>3, <2>2, VoidedStep, ResultsStay DEF Inv, LegStatus
  <2>5. NoneLost(t)'
    BY <2>1, <2>2, <2>3 DEF NoneLost
  <2>6. ~LegVoided(t)' => SomeWon(t)'
    BY <2>1, <2>2, <2>4 DEF SomeWon
  <2> QED
    BY <2>5, <2>6
<1>4. CASE Settle(t)
  <2>1. Outcome(t, legs[t]) = "won" /\ legs' = legs /\ result' = result /\ voided' = voided
    BY <1>4 DEF Inv, TypeOK, Settle, slip, outside
  <2>2. NoneLost(t) /\ SomeWon(t)
    BY <2>1, OutcomeWon DEF Inv
  <2> QED
    BY <2>1, <2>2 DEF NoneLost, SomeWon, LegStatus
<1> QED
  BY <1>2, <1>3, <1>4

LEMMA SessionsReadStep == Inv /\ [Next]_vars => SessionsRead'
<1> SUFFICES ASSUME Inv, [Next]_vars, NEW x \in Session, session'[x] # NoSession
             PROVE  status'[session'[x].ticket] # "absent"
  BY DEF SessionsRead
<1>1. \/ session'[x] = session[x]
      \/ \E k \in Cashier, t \in Ticket : BeginSell(x, k, t)
  BY StaffLeaves DEF Inv, TypeOK, Next, Reserve, RemoveLeg, CancelTicket, Void, Payout, Pay, Settle,
         BeginSell, CommitSell, AbortSell, CommitCopy, Clone, End, Kick, Finish, vars
<1>2. CASE session'[x] = session[x]
  <2>1. session[x].ticket \in Ticket /\ status[session[x].ticket] # "absent"
    BY <1>2 DEF Inv, TypeOK, SessionsRead
  <2> QED
    BY <1>2, <2>1, TicketsStay DEF Inv
<1>3. ASSUME NEW k \in Cashier, NEW t \in Ticket, BeginSell(x, k, t)
      PROVE  status'[session'[x].ticket] # "absent"
  BY <1>3 DEF Inv, TypeOK, BeginSell
<1> QED
  BY <1>1, <1>2, <1>3

LEMMA Step == Inv /\ [Next]_vars => Inv'
<1> SUFFICES ASSUME Inv, [Next]_vars PROVE Inv'
    OBVIOUS
<1>1. TypeOK' /\ SessionsRead' /\ WonByLegs'
  BY TypeStep, SessionsReadStep, WonByLegsStep DEF Inv
<1>2. \/ UNCHANGED <<columns, drawer>>
      \/ \E x \in Session : CommitSell(x) \/ \E new \in Ticket : CommitCopy(x, new)
      \/ \E t \in Ticket, k \in Cashier : CancelTicket(t, k) \/ Payout(t, k)
  BY StaffLeaves DEF Inv, Next, Reserve, RemoveLeg, Settle, BeginSell, AbortSell, Kick, Finish, vars, columns
<1>3. Columns' /\ DrawerMatchesTickets'
  BY <1>2, QuietStep, SaleStep, CopyStep, CancelStep, PayoutStep
<1> QED
  BY <1>1, <1>3 DEF Inv

-----------------------------------------------------------------------------
\* Types, columns and drawer in every reachable state.
THEOREM Invariance == Spec => []Inv
<1>1. Init => Inv
  BY InitInv
<1>2. Inv /\ [Next]_vars => Inv'
  BY Step
<1> QED
  BY <1>1, <1>2, PTL DEF Spec

\* Every column keeps its type, under any number of overlapping requests.
THEOREM TypeCorrect == Spec => []TypeOK
BY Invariance, PTL DEF Inv

\* Two requests to sell one slip included, the drawers hold one sale, payout or
\* cancellation for each that a ticket names (tickets.routes.ts 1073-1110).
THEOREM DrawersAgree == Spec => []DrawerMatchesTickets
BY Invariance, PTL DEF Inv

\* Unless staff reopened it, a ticket that was paid is won and was not cancelled;
\* unless they forced it, none of its legs is lost or open, and unless they made
\* legs void one of them has won.  Settlement grades by the leg rows, all void is
\* void, and the counter pays what is won (settlement.service.ts 406-492,
\* tickets.routes.ts 677-746).
THEOREM PaidTicketsWon == Spec => []PaidHasWon
<1>1. Inv => PaidHasWon
  <2> SUFFICES ASSUME Inv, NEW t \in Ticket, payer[t] # None, ~Reopened(t)
               PROVE  /\ status[t] = "won" /\ canceller[t] = None
                      /\ ~Forced(t) => NoneLost(t)
                      /\ ~Forced(t) /\ ~LegVoided(t) => SomeWon(t)
    BY DEF PaidHasWon, NoneLost, SomeWon
  <2> QED
    BY DEF Inv, Columns, WonByLegs
<1> QED
  BY <1>1, Invariance, PTL

-----------------------------------------------------------------------------
(* Copies.                                                                 *)

\* A request to copy has read every match that is printed on its ticket: a match
\* is taken off meanwhile, never added.
ShownIsRead ==
    \A x \in Session : session[x] # NoSession => shown[session[x].ticket] \subseteq session[x].shown

\* A slip and its copies are a tree of depth one.
FamiliesAreFlat ==
    \A t \in Ticket :
        /\ status[t] = "absent" => root[t] = None
        /\ root[t] # None => status[root[t]] # "absent" /\ root[root[t]] = None

FamiliesAreSmall ==
    \A r \in Ticket :
        IsFiniteSet(Copies(r)) /\ (MaxCopies > 0 => Cardinality(Copies(r)) <= MaxCopies)

\* What a step does to the root of a ticket.
LEMMA RootsStay ==
    ASSUME TypeOK, [Next]_vars
    PROVE  root' = root \/ \E x \in Session, new \in Ticket : CommitCopy(x, new)
BY StaffLeaves DEF Next, Reserve, RemoveLeg, CancelTicket, Void, Payout, Pay, Settle, BeginSell, CommitSell,
       AbortSell, Kick, Finish, vars, slip

LEMMA ShownStep == Inv /\ ShownIsRead /\ [Next]_vars => ShownIsRead'
<1> SUFFICES ASSUME Inv, ShownIsRead, [Next]_vars, NEW x \in Session, session'[x] # NoSession
             PROVE  shown'[session'[x].ticket] \subseteq session'[x].shown
  BY DEF ShownIsRead
<1>1. \/ session'[x] = session[x]
      \/ \E k \in Cashier, t \in Ticket : BeginSell(x, k, t)
  BY StaffLeaves DEF Inv, TypeOK, Next, Reserve, RemoveLeg, CancelTicket, Void, Payout, Pay, Settle,
         BeginSell, CommitSell, AbortSell, CommitCopy, Clone, End, Kick, Finish, vars
<1>2. CASE session'[x] = session[x]
  <2>1. session[x].ticket \in Ticket /\ status[session[x].ticket] # "absent"
    BY <1>2 DEF Inv, TypeOK, SessionsRead
  <2>2. shown'[session[x].ticket] \subseteq shown[session[x].ticket]
    BY <2>1, StaffLeaves DEF Inv, TypeOK, Next, Reserve, RemoveLeg, CancelTicket, Void, Payout, Pay, Settle,
         BeginSell, CommitSell, AbortSell, CommitCopy, Clone, Kick, Finish, vars, slip
  <2> QED
    BY <1>2, <2>2 DEF ShownIsRead
<1>3. ASSUME NEW k \in Cashier, NEW t \in Ticket, BeginSell(x, k, t)
      PROVE  shown'[session'[x].ticket] \subseteq session'[x].shown
  BY <1>3 DEF Inv, TypeOK, BeginSell, slip
<1> QED
  BY <1>1, <1>2, <1>3

\* The ticket a request copies and its root, when the copy is written.
LEMMA CopyReads ==
    ASSUME Inv, FamiliesAreFlat, NEW x \in Session, NEW new \in Ticket, CommitCopy(x, new)
    PROVE  LET t == session[x].ticket IN
           /\ t \in Ticket /\ status[t] # "absent"
           /\ Root(t) \in Ticket /\ status[Root(t)] # "absent" /\ root[Root(t)] = None
           /\ status[new] = "absent" /\ root[new] = None
           /\ root' = [root EXCEPT ![new] = Root(t)]
           /\ status' = [status EXCEPT ![new] = "pending"]
<1> DEFINE t == session[x].ticket
<1>1. t \in Ticket /\ status[t] # "absent"
  BY DEF Inv, TypeOK, SessionsRead, CommitCopy, NoSession
<1>2. Root(t) \in Ticket /\ status[Root(t)] # "absent" /\ root[Root(t)] = None
  BY <1>1 DEF Inv, TypeOK, FamiliesAreFlat, Root
<1>3. status[new] = "absent" /\ root[new] = None
  BY DEF CommitCopy, Clone, FamiliesAreFlat
<1>4. root' = [root EXCEPT ![new] = Root(t)] /\ status' = [status EXCEPT ![new] = "pending"]
  BY DEF CommitCopy, Clone
<1> QED
  BY <1>1, <1>2, <1>3, <1>4

LEMMA FlatStep == Inv /\ FamiliesAreFlat /\ [Next]_vars => FamiliesAreFlat'
<1> SUFFICES ASSUME Inv, FamiliesAreFlat, [Next]_vars PROVE FamiliesAreFlat'
    OBVIOUS
<1>1. CASE root' = root
  <2>1. \A t \in Ticket : status'[t] = "absent" => status[t] = "absent"
    BY TicketsStay DEF Inv
  <2>2. \A t \in Ticket : root[t] # None => root[t] \in Ticket
    BY DEF Inv, TypeOK
  <2> QED
    BY <1>1, <2>1, <2>2, TicketsStay DEF Inv, FamiliesAreFlat
<1>2. ASSUME NEW x \in Session, NEW new \in Ticket, CommitCopy(x, new) PROVE FamiliesAreFlat'
  <2> DEFINE o == Root(session[x].ticket)
  <2>1. /\ o \in Ticket /\ status[o] # "absent" /\ root[o] = None
        /\ status[new] = "absent" /\ root[new] = None
        /\ root' = [root EXCEPT ![new] = o]
        /\ status' = [status EXCEPT ![new] = "pending"]
    BY <1>2, CopyReads
  <2>2. o # new /\ \A t \in Ticket : root[t] # new
    BY <2>1 DEF FamiliesAreFlat
  <2> HIDE DEF o
  <2>3. \A t \in Ticket : root[t] # None => root[t] \in Ticket
    BY DEF Inv, TypeOK
  <2> QED
    BY <2>1, <2>2, <2>3 DEF Inv, TypeOK, FamiliesAreFlat
<1> QED
  BY <1>1, <1>2, RootsStay DEF Inv

LEMMA SmallStep == Inv /\ FamiliesAreFlat /\ FamiliesAreSmall /\ [Next]_vars => FamiliesAreSmall'
<1> SUFFICES ASSUME Inv, FamiliesAreFlat, FamiliesAreSmall, [Next]_vars, NEW r \in Ticket
             PROVE  /\ IsFiniteSet(Copies(r)')
                    /\ MaxCopies > 0 => Cardinality(Copies(r)') <= MaxCopies
  BY DEF FamiliesAreSmall
<1>1. CASE root' = root
  BY <1>1 DEF FamiliesAreSmall, Copies
<1>2. ASSUME NEW x \in Session, NEW new \in Ticket, CommitCopy(x, new)
      PROVE  /\ IsFiniteSet(Copies(r)')
             /\ MaxCopies > 0 => Cardinality(Copies(r)') <= MaxCopies
  <2> DEFINE o == Root(session[x].ticket)
  <2>1. o \in Ticket /\ root[new] = None /\ root' = [root EXCEPT ![new] = o]
    BY <1>2, CopyReads
  <2>2. MaxCopies > 0 => Cardinality(Copies(o)) < MaxCopies
    BY <1>2 DEF CommitCopy
  <2> HIDE DEF o
  <2>3. CASE r = o
    <3>1. Copies(r)' = Copies(r) \cup {new} /\ new \notin Copies(r)
      BY <2>1, <2>3 DEF Copies, Inv, TypeOK
    <3>2. IsFiniteSet(Copies(r)) /\ Cardinality(Copies(r)) \in Nat
      BY FS_CardinalityType DEF FamiliesAreSmall
    <3>3. IsFiniteSet(Copies(r)') /\ Cardinality(Copies(r)') = Cardinality(Copies(r)) + 1
      BY <3>1, <3>2, FS_AddElement
    <3> QED
      BY <2>2, <2>3, <3>2, <3>3
  <2>4. CASE r # o
    <3>1. Copies(r)' = Copies(r)
      BY <2>1, <2>4 DEF Copies, Inv, TypeOK
    <3> QED
      BY <3>1 DEF FamiliesAreSmall
  <2> QED
    BY <2>3, <2>4
<1> QED
  BY <1>1, <1>2, RootsStay DEF Inv

LEMMA InitFamilies == Init => ShownIsRead /\ FamiliesAreFlat /\ FamiliesAreSmall
<1> SUFFICES ASSUME Init PROVE ShownIsRead /\ FamiliesAreFlat /\ FamiliesAreSmall
    OBVIOUS
<1>1. ShownIsRead /\ FamiliesAreFlat
  BY DEF Init, ShownIsRead, FamiliesAreFlat
<1>2. \A r \in Ticket : Copies(r) = {}
  BY DEF Init, Copies
<1>3. FamiliesAreSmall
  BY <1>2, FS_EmptySet DEF FamiliesAreSmall
<1> QED
  BY <1>1, <1>3

\* What a request that copies has read, and the shape and size of the families.
THEOREM FamiliesInvariant == Spec => [](ShownIsRead /\ FamiliesAreFlat /\ FamiliesAreSmall)
<1>1. Init => ShownIsRead /\ FamiliesAreFlat /\ FamiliesAreSmall
  BY InitFamilies
<1>2. Inv /\ ShownIsRead /\ FamiliesAreFlat /\ FamiliesAreSmall /\ [Next]_vars
      => ShownIsRead' /\ FamiliesAreFlat' /\ FamiliesAreSmall'
  BY ShownStep, FlatStep, SmallStep
<1> QED
  BY <1>1, <1>2, Invariance, PTL DEF Spec

\* However many cashiers copy a slip and its copies at once, the family stays within
\* the limit (sellDuplicateCopy counts by the root, whose row it has locked).
THEOREM CopiesStayWithinLimit == Spec => []CopiesWithinLimit
<1>1. Inv /\ FamiliesAreFlat /\ FamiliesAreSmall => CopiesWithinLimit
  <2> SUFFICES ASSUME Inv, FamiliesAreFlat, FamiliesAreSmall, MaxCopies > 0, NEW r \in Ticket
               PROVE  Cardinality({t \in Ticket : root[t] # None /\ Root(Root(t)) = r}) <= MaxCopies
    BY DEF CopiesWithinLimit
  <2>1. \A t \in Ticket : root[t] # None => Root(Root(t)) = root[t]
    BY DEF Root, FamiliesAreFlat
  <2>2. {t \in Ticket : root[t] # None /\ Root(Root(t)) = r} = Copies(r)
    BY <2>1 DEF Copies
  <2> QED
    BY <2>2 DEF FamiliesAreSmall
<1> QED
  BY <1>1, Invariance, FamiliesInvariant, PTL

\* No copy is sold after the kick-off of a match printed on it, though the ticket was
\* read before its row was locked.
THEOREM CopiesBeforeKickOff == Spec => CopyBeforeKickOff
<1>1. Inv /\ ShownIsRead /\ FamiliesAreFlat /\ [Next]_vars =>
          [\A t \in Ticket : root[t] # root'[t] => shown'[t] \cap started = {}]_vars
  <2> SUFFICES ASSUME Inv, ShownIsRead, FamiliesAreFlat, [Next]_vars,
                      NEW t \in Ticket, root[t] # root'[t]
               PROVE  shown'[t] \cap started = {}
    OBVIOUS
  <2>1. PICK x \in Session, new \in Ticket : CommitCopy(x, new)
    BY RootsStay DEF Inv
  <2>2. t = new
    BY <2>1, CopyReads DEF Inv, TypeOK
  <2>3. shown'[new] = shown[session[x].ticket] /\ session[x].shown \cap started = {}
    BY <2>1 DEF CommitCopy, Clone, Inv, TypeOK
  <2>4. shown[session[x].ticket] \subseteq session[x].shown
    BY <2>1 DEF ShownIsRead, CommitCopy, NoSession
  <2> QED
    BY <2>2, <2>3, <2>4
<1> QED
  BY <1>1, Invariance, FamiliesInvariant, PTL DEF Spec, CopyBeforeKickOff
=============================================================================

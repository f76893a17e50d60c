---------------------------- MODULE BranchCounter ----------------------------
(***************************************************************************)
(* Cash at a branch.  A player takes out a withdrawal code, which moves    *)
(* its amount from balance to locked_balance, and a cashier pays it, or    *)
(* the player cancels it, or it expires.  A cashier with an open shift     *)
(* takes deposits and pays withdrawals under an idempotency key, which the *)
(* cashier panel may send again, and counts the drawer when the shift ends.*)
(* Stakes of open bets are kept in locked_balance too.                     *)
(*                                                                         *)
(* Limits, the wagering rule for deposits, user and wallet status, codes   *)
(* as text and branches only refuse operations and are left out.           *)
(***************************************************************************)
EXTENDS Naturals, FiniteSets, Functions

CONSTANTS
    User, Cashier, Shift, None,
    Code,
    Key,        \* idempotency keys
    Session,    \* requests of cashier panels in progress
    Bet,
    Owner,      \* the player of a code, a key or a bet
    Amount,     \* its amount
    Deposits,   \* the keys that are deposits
    Opening     \* the balance of a player at the beginning

ASSUME CounterAssumption ==
    /\ None \notin Cashier \cup Shift \cup Key
    /\ Owner \in [Code \cup Key \cup Bet -> User]
    /\ Amount \in [Code \cup Key \cup Bet -> Nat]
    /\ Deposits \subseteq Key
    /\ IsFiniteSet(Code \cup Key \cup Bet)
    /\ Opening \in [User -> Nat]

VARIABLES
    balance, locked,  \* wallets.balance and wallets.locked_balance
    code,             \* branch_withdrawal_codes.status, "absent" before the insert
    lapsed,           \* codes whose expires_at has passed
    payer,            \* the cashier in the code's two ledger rows, or None
    returned,         \* codes whose amount was put back
    row,              \* the shift in the two ledger rows of a key, or None
    bet,
    shift,            \* cashier_shifts.status
    holder,           \* its cashier
    count,            \* its recorded deposits and withdrawals
    session,          \* what a request has read: its key and the cashier's shift
    closing           \* what a request of closeShift has read

walletVars == <<balance, locked>>
codeVars == <<code, lapsed, payer, returned>>
shiftVars == <<shift, holder, count, closing>>
vars == <<walletVars, codeVars, row, bet, shiftVars, session>>

NoSession == [key |-> None, shift |-> None]
NoCount == [shift |-> None, in |-> 0, out |-> 0]

Init ==
    /\ balance = Opening
    /\ locked = [u \in User |-> 0]
    /\ code = [c \in Code |-> "absent"]
    /\ lapsed = {}
    /\ payer = [c \in Code |-> None]
    /\ returned = {}
    /\ row = [k \in Key |-> None]
    /\ bet = [b \in Bet |-> "absent"]
    /\ shift = [s \in Shift |-> "absent"]
    /\ holder = [s \in Shift |-> None]
    /\ count = [s \in Shift |-> NoCount]
    /\ session = [x \in Session |-> NoSession]
    /\ closing = [x \in Session |-> NoCount]

\* What the members of S that belong to u add up to.
Sum(S, u) == SumFunctionOnSet(Amount, {x \in S : Owner[x] = u})

-----------------------------------------------------------------------------
(* Withdrawal codes.                                                       *)

CreateCode(c) ==
    LET u == Owner[c]
    IN  /\ code[c] = "absent"
        /\ Amount[c] <= balance[u]
        /\ balance' = [balance EXCEPT ![u] = @ - Amount[c]]
        /\ locked' = [locked EXCEPT ![u] = @ + Amount[c]]
        /\ code' = [code EXCEPT ![c] = "pending"]
        /\ UNCHANGED <<lapsed, payer, returned, row, bet, shiftVars, session>>

Lapse(c) ==
    /\ code[c] = "pending"
    /\ lapsed' = lapsed \cup {c}
    /\ UNCHANGED <<walletVars, code, payer, returned, row, bet, shiftVars, session>>

\* unlockBalance for each of the codes C: never more than is locked.
Unlock(C) ==
    LET back(u) == IF Sum(C, u) <= locked[u] THEN Sum(C, u) ELSE locked[u]
    IN  /\ balance' = [u \in User |-> balance[u] + back(u)]
        /\ locked' = [u \in User |-> locked[u] - back(u)]
        /\ returned' = returned \cup C

\* Mutant: a code that was paid is cancelled.
CancelAny(c) ==
    /\ code[c] # "absent"
    /\ code' = [code EXCEPT ![c] = "cancelled"]
    /\ Unlock({c})
    /\ UNCHANGED <<lapsed, payer, row, bet, shiftVars, session>>

CancelCode(c) ==
    /\ code[c] = "pending"
    /\ code' = [code EXCEPT ![c] = "cancelled"]
    /\ Unlock({c})
    /\ UNCHANGED <<lapsed, payer, row, bet, shiftVars, session>>

Overdue == {c \in lapsed : code[c] = "pending"}

Expire == code' = [c \in Code |-> IF c \in Overdue THEN "expired" ELSE code[c]]

\* Mutant: the sweep takes every lapsed code, also one that is not pending.
SweepAllLapsed ==
    /\ Overdue # {}
    /\ Expire
    /\ Unlock(lapsed)
    /\ UNCHANGED <<lapsed, payer, row, bet, shiftVars, session>>

\* sweepExpired, before a player's codes are listed.
SweepExpired ==
    /\ Overdue # {}
    /\ Expire
    /\ Unlock(Overdue)
    /\ UNCHANGED <<lapsed, payer, row, bet, shiftVars, session>>

\* The cashier's lookup expires the same codes and puts nothing back.
LookUpCode ==
    /\ Overdue # {}
    /\ Expire
    /\ UNCHANGED <<walletVars, lapsed, payer, returned, row, bet, shiftVars, session>>

\* Mutant: the money is taken from the balance.
ProcessFromBalance(c, k) ==
    LET u == Owner[c]
    IN  /\ code[c] = "pending" /\ c \notin lapsed
        /\ Amount[c] <= balance[u]
        /\ balance' = [balance EXCEPT ![u] = @ - Amount[c]]
        /\ payer' = [payer EXCEPT ![c] = k]
        /\ code' = [code EXCEPT ![c] = "processed"]
        /\ UNCHANGED <<locked, lapsed, returned, row, bet, shiftVars, session>>

\* A cashier pays the code; the row in cashier_transactions names no shift.
ProcessCode(c, k) ==
    LET u == Owner[c]
    IN  /\ code[c] = "pending" /\ c \notin lapsed
        /\ Amount[c] <= locked[u]
        /\ locked' = [locked EXCEPT ![u] = @ - Amount[c]]
        /\ payer' = [payer EXCEPT ![c] = k]
        /\ code' = [code EXCEPT ![c] = "processed"]
        /\ UNCHANGED <<balance, lapsed, returned, row, bet, shiftVars, session>>

-----------------------------------------------------------------------------
(* Stakes share locked_balance.                                            *)

PlaceBet(b) ==
    LET u == Owner[b]
    IN  /\ bet[b] = "absent"
        /\ Amount[b] <= balance[u]
        /\ balance' = [balance EXCEPT ![u] = @ - Amount[b]]
        /\ locked' = [locked EXCEPT ![u] = @ + Amount[b]]
        /\ bet' = [bet EXCEPT ![b] = "pending"]
        /\ UNCHANGED <<codeVars, row, shiftVars, session>>

\* releaseLockedBalance: locked_balance stops at zero.
SettleBet(b, outcome) ==
    LET u == Owner[b]
    IN  /\ bet[b] = "pending"
        /\ bet' = [bet EXCEPT ![b] = outcome]
        /\ locked' = [locked EXCEPT ![u] = IF Amount[b] <= @ THEN @ - Amount[b] ELSE 0]
        /\ balance' = [balance EXCEPT ![u] = IF outcome = "void" THEN @ + Amount[b] ELSE @]
        /\ UNCHANGED <<codeVars, row, shiftVars, session>>

-----------------------------------------------------------------------------
(* Deposits and withdrawals over the counter.                              *)

Free(x) == session[x] = NoSession /\ closing[x] = NoCount

OpenShifts(k) == {s \in Shift : shift[s] = "open" /\ holder[s] = k}

\* findIdempotent answers a key that is booked; of another the open shift is read.
BeginOperation(x, k, key) ==
    /\ Free(x)
    /\ row[key] = None
    /\ \E s \in OpenShifts(k) :
          session' = [session EXCEPT ![x] = [key |-> key, shift |-> s]]
    /\ UNCHANGED <<walletVars, codeVars, row, bet, shiftVars>>

\* Mutant: no unique index on the reference of the rows.
CommitAgain(x) ==
    LET k == session[x].key
        u == Owner[k]
    IN  /\ session[x] # NoSession
        /\ k \in Deposits \/ Amount[k] <= balance[u]
        /\ balance' = [balance EXCEPT ![u] = IF k \in Deposits THEN @ + Amount[k] ELSE @ - Amount[k]]
        /\ row' = [row EXCEPT ![k] = session[x].shift]
        /\ session' = [session EXCEPT ![x] = NoSession]
        /\ UNCHANGED <<locked, codeVars, bet, shiftVars>>

\* The wallet is locked and moved, both rows are written; the answer may be lost.
CommitOperation(x) ==
    LET k == session[x].key
        u == Owner[k]
    IN  /\ session[x] # NoSession
        /\ row[k] = None
        /\ k \in Deposits \/ Amount[k] <= balance[u]
        /\ balance' = [balance EXCEPT ![u] = IF k \in Deposits THEN @ + Amount[k] ELSE @ - Amount[k]]
        /\ row' = [row EXCEPT ![k] = session[x].shift]
        /\ session' = [session EXCEPT ![x] = NoSession]
        /\ UNCHANGED <<locked, codeVars, bet, shiftVars>>

\* Not enough balance, the unique reference of a booked key, or a lost connection.
AbortOperation(x) ==
    /\ session[x] # NoSession
    /\ session' = [session EXCEPT ![x] = NoSession]
    /\ UNCHANGED <<walletVars, codeVars, row, bet, shiftVars>>

-----------------------------------------------------------------------------
(* Shifts.                                                                 *)

\* The check, and the partial unique index behind it.
OpenShift(s, k) ==
    /\ shift[s] = "absent"
    /\ OpenShifts(k) = {}
    /\ shift' = [shift EXCEPT ![s] = "open"]
    /\ holder' = [holder EXCEPT ![s] = k]
    /\ UNCHANGED <<walletVars, codeVars, row, bet, count, closing, session>>

CashOf(s, K) == SumFunctionOnSet(Amount, {k \in K : row[k] = s})

\* aggregateShift: rows with this shift_id.
CountShift(x, k) ==
    /\ Free(x)
    /\ \E s \in OpenShifts(k) :
          closing' = [closing EXCEPT ![x] =
              [shift |-> s, in |-> CashOf(s, Deposits), out |-> CashOf(s, Key \ Deposits)]]
    /\ UNCHANGED <<walletVars, codeVars, row, bet, shift, holder, count, session>>

\* Mutant: the shift is closed whatever its status.
RecordCountAgain(x) ==
    LET s == closing[x].shift
    IN  /\ closing[x] # NoCount
        /\ shift' = [shift EXCEPT ![s] = "closed"]
        /\ count' = [count EXCEPT ![s] = closing[x]]
        /\ closing' = [closing EXCEPT ![x] = NoCount]
        /\ UNCHANGED <<walletVars, codeVars, row, bet, holder, session>>

\* closeShift: what was counted is written to a shift that is still open.
RecordCount(x) ==
    LET s == closing[x].shift
    IN  /\ closing[x] # NoCount
        /\ IF shift[s] = "open"
           THEN /\ shift' = [shift EXCEPT ![s] = "closed"]
                /\ count' = [count EXCEPT ![s] = closing[x]]
           ELSE UNCHANGED <<shift, count>>
        /\ closing' = [closing EXCEPT ![x] = NoCount]
        /\ UNCHANGED <<walletVars, codeVars, row, bet, holder, session>>

-----------------------------------------------------------------------------
Counter ==
    \/ \E x \in Session : CommitOperation(x) \/ AbortOperation(x) \/ RecordCount(x)
    \/ \E k \in Cashier : \/ \E x \in Session, key \in Key : BeginOperation(x, k, key)
                          \/ \E x \in Session : CountShift(x, k)
                          \/ \E s \in Shift : OpenShift(s, k)

Next ==
    \/ \E c \in Code : \/ CreateCode(c) \/ Lapse(c) \/ CancelCode(c)
                       \/ \E k \in Cashier : ProcessCode(c, k)
    \/ SweepExpired \/ LookUpCode
    \/ \E b \in Bet : PlaceBet(b) \/ \E outcome \in {"lost", "void"} : SettleBet(b, outcome)
    \/ Counter

Spec == Init /\ [][Next]_vars

-----------------------------------------------------------------------------
CountRecord == [shift : Shift \cup {None}, in : Nat, out : Nat]

CodesTyped ==
    /\ code \in [Code -> {"absent", "pending", "processed", "cancelled", "expired"}]
    /\ lapsed \subseteq Code
    /\ payer \in [Code -> Cashier \cup {None}]
    /\ returned \subseteq Code

BooksTyped ==
    /\ row \in [Key -> Shift \cup {None}]
    /\ shift \in [Shift -> {"absent", "open", "closed"}]
    /\ holder \in [Shift -> Cashier \cup {None}]
    /\ session \in [Session -> [key : Key, shift : Shift] \cup {NoSession}]

\* No balance is negative, every status is one of the table's.
TypeOK ==
    /\ CodesTyped
    /\ BooksTyped
    /\ balance \in [User -> Nat] /\ locked \in [User -> Nat]
    /\ bet \in [Bet -> {"absent", "pending", "lost", "void"}]
    /\ count \in [Shift -> CountRecord] /\ closing \in [Session -> CountRecord]

\* A code that was paid is never put back, nor one that was put back paid.
CodeSettledOnce ==
    \A c \in Code : /\ payer[c] # None <=> code[c] = "processed"
                    /\ c \in returned => code[c] \in {"cancelled", "expired"}

Outstanding == {c \in Code : code[c] # "absent" /\ payer[c] = None} \ returned
Paid == {c \in Code : payer[c] # None}
Bets(status) == {b \in Bet : bet[b] = status}
Booked(K) == {k \in K : row[k] # None}

\* Codes and stakes share locked_balance, and it is what they add up to: of a
\* player's codes those that were neither paid nor put back, the ones a cashier's
\* lookup expired among them, and the stakes of his open bets.
LockedMatchesCodes ==
    \A u \in User : locked[u] = Sum(Outstanding, u) + Sum(Bets("pending"), u)

\* Whatever order requests commit in, and however often a panel repeats one, a
\* player's wallet is what he began with, the deposits booked, less the
\* withdrawals booked, the codes paid and the stakes lost.
WalletMatchesLedger ==
    \A u \in User :
        balance[u] + locked[u] + Sum(Booked(Key \ Deposits), u) + Sum(Paid, u)
            + Sum(Bets("lost"), u)
        = Opening[u] + Sum(Booked(Deposits), u)

\* A cashier has one open shift, so what is booked for him goes to one drawer.
OneOpenShift ==
    \A s, t \in Shift :
        shift[s] = "open" /\ shift[t] = "open" /\ holder[s] = holder[t] => s = t

\* Of two requests that close a shift the second changes nothing.
CountIsKept ==
    [][\A s \in Shift : shift[s] = "closed" => shift'[s] = "closed" /\ count'[s] = count[s]]_vars

\* The codes are cash that is held.
Place(c) ==
    CASE payer[c] # None -> "paid"
      [] c \in returned -> "returned"
      [] payer[c] = None /\ c \notin returned -> IF code[c] = "absent" THEN "idle" ELSE "held"

Held == INSTANCE HeldCash WITH purse <- balance, place <- [c \in Code |-> Place(c)]

\* A code leaves the balance once, in full, and is paid out of what is locked or
\* put back once, in full, whatever else moves the wallet.
CodesAreHeldCash == Held!Spec

-----------------------------------------------------------------------------
\* The header of the player's routes: a code that expires goes back to the balance.
\* The cashier's lookup expires it and leaves the amount locked, and no sweep sees it.
ExpiredIsReturned == \A c \in Code : code[c] = "expired" => c \in returned

\* The shifts table: expected_balance is the cash in and out.  A row may be
\* written after the count of its shift.
ShiftCountsItsRows ==
    \A s \in Shift : shift[s] = "closed" =>
        count[s].in = CashOf(s, Deposits) /\ count[s].out = CashOf(s, Key \ Deposits)
=============================================================================

-------------------------- MODULE ExternalGameWallet --------------------------
(***************************************************************************)
(* One player's wallet as the game providers move it.  Two receivers write *)
(* it: the signed webhook of the games that run in a session (debit,       *)
(* credit, rollback, each with the provider's transaction id) and the      *)
(* older /hooks receiver.  A provider repeats a call it got no answer to,  *)
(* possibly while the first is still running.                              *)
(*                                                                         *)
(* Signature, address list and currency only refuse and are left out.  So  *)
(* is the trading desk, which writes any status on any bet.                *)
(***************************************************************************)
EXTENDS Integers, FiniteSets, Functions

CONSTANTS
    Txn,         \* transaction ids of the session games' provider
    HookTxn,     \* transaction ids of the provider behind /hooks
    Call,        \* calls in progress
    Stakes, Wins, \* amounts of debits and of credits
    Opening,     \* the balance to begin with
    MaxBalance,  \* bound: nothing is credited above it
    None

ASSUME GameWalletAssumption ==
    /\ IsFiniteSet(Txn) /\ IsFiniteSet(HookTxn)
    /\ None \notin Txn \cup HookTxn
    /\ Stakes \subseteq Nat \ {0} /\ Wins \subseteq Nat \ {0}
    /\ Opening \in 0 .. MaxBalance /\ MaxBalance \in Nat

VARIABLES
    session,   \* game_sessions.status
    balance,   \* wallets.balance
    row,       \* rows of transactions by kind and id, "game:<provider>:<kind>:<id>"
    bet,       \* the row of bets a debit inserts, by the debit's id
    call,      \* what a call has read before it locks the wallet
    hookRow,   \* rows of transactions by the bare id of /hooks
    unbooked   \* net amount /hooks moved that no completed row of its own accounts for

vars == <<session, balance, row, bet, call, hookRow, unbooked>>
hookVars == <<hookRow, unbooked>>

Kinds == {"debit", "credit", "rollback"}
Row(status, amount, of) == [status |-> status, amount |-> amount, of |-> of]
NoRow == Row("none", 0, None)
Request(kind, id, of, amount) == [kind |-> kind, id |-> id, of |-> of, amount |-> amount]
NoCall == Request("none", None, None, 0)

Init ==
    /\ session = "active"
    /\ balance = Opening
    /\ row = [k \in Kinds |-> [t \in Txn |-> NoRow]]
    /\ bet = [t \in Txn |-> "none"]
    /\ call = [c \in Call |-> NoCall]
    /\ hookRow = [h \in HookTxn |-> NoRow]
    /\ unbooked = 0

Known(k, t) == row[k][t].status # "none"
Answer(c) == call' = [call EXCEPT ![c] = NoCall]
Credited(amount) ==
    /\ balance + amount <= MaxBalance
    /\ balance' = balance + amount

-----------------------------------------------------------------------------
(* Sessions.                                                               *)

\* The session of a player's game that has ended or expired is replaced by a new one;
\* several that are active count as one.
CreateSession ==
    /\ session = "over"
    /\ session' = "active"
    /\ UNCHANGED <<balance, row, bet, call, hookVars>>

EndSession ==
    /\ session = "active"
    /\ session' = "over"
    /\ UNCHANGED <<balance, row, bet, call, hookVars>>

-----------------------------------------------------------------------------
(* Calls of the session games.  A call is authorised against its session   *)
(* and looks its reference up before it waits for the wallet; one that is  *)
(* known is answered with the row on file.                                 *)

Receive(c, kind, t, of, amount) ==
    /\ call[c] = NoCall
    /\ session = "active"
    /\ ~Known(kind, t)
    /\ call' = [call EXCEPT ![c] = Request(kind, t, of, amount)]
    /\ UNCHANGED <<session, balance, row, bet, hookVars>>

\* A rollback reads the debit too: an unknown one is refused, a reversed one
\* is answered as done.
ReceiveRollback(c, t, of) ==
    /\ row["debit"][of].status = "completed"
    /\ Receive(c, "rollback", t, of, -row["debit"][of].amount)

\* Mutant: INSERT ... ON CONFLICT DO NOTHING, as in the other receiver.
DebitOnConflict(c) ==
    LET q == call[c] IN
    /\ q.kind = "debit"
    /\ q.amount <= balance
    /\ balance' = balance - q.amount
    /\ bet' = [bet EXCEPT ![q.id] = "accepted"]
    /\ row' = IF Known("debit", q.id) THEN row
              ELSE [row EXCEPT !["debit"][q.id] = Row("completed", -q.amount, None)]
    /\ Answer(c)
    /\ UNCHANGED <<session, hookVars>>

\* The balance is guarded in the UPDATE; the insert of a reference that has
\* been used in the meantime aborts the transaction.
CommitDebit(c) ==
    LET q == call[c] IN
    /\ q.kind = "debit"
    /\ q.amount <= balance
    /\ ~Known("debit", q.id)
    /\ balance' = balance - q.amount
    /\ bet' = [bet EXCEPT ![q.id] = "accepted"]
    /\ row' = [row EXCEPT !["debit"][q.id] = Row("completed", -q.amount, None)]
    /\ Answer(c)
    /\ UNCHANGED <<session, hookVars>>

\* A win that names its debit settles the bet if it is still open; the win is
\* paid in any case.
CommitCredit(c) ==
    LET q == call[c]
        settled == IF q.of # None /\ bet[q.of] = "accepted" THEN {q.of} ELSE {}
    IN
    /\ q.kind = "credit"
    /\ ~Known("credit", q.id)
    /\ Credited(q.amount)
    /\ bet' = [t \in Txn |-> IF t \in settled THEN "won" ELSE bet[t]]
    /\ row' = [row EXCEPT !["credit"][q.id] =
                  Row("completed", q.amount, IF settled = {} THEN None ELSE q.of)]
    /\ Answer(c)
    /\ UNCHANGED <<session, hookVars>>

\* Mutant: only a bet that is still open is made void.
VoidOpenBet(c) ==
    LET q == call[c] IN
    /\ q.kind = "rollback"
    /\ ~Known("rollback", q.id)
    /\ Credited(q.amount)
    /\ row' = [row EXCEPT !["rollback"][q.id] = Row("completed", q.amount, q.of),
                          !["debit"][q.of].status = "reversed"]
    /\ bet' = [bet EXCEPT ![q.of] = IF @ = "accepted" THEN "void" ELSE @]
    /\ Answer(c)
    /\ UNCHANGED <<session, hookVars>>

\* The stake goes back, the debit is marked reversed and its bet is void,
\* whatever became of either since the call read the debit.
CommitRollback(c) ==
    LET q == call[c] IN
    /\ q.kind = "rollback"
    /\ ~Known("rollback", q.id)
    /\ Credited(q.amount)
    /\ row' = [row EXCEPT !["rollback"][q.id] = Row("completed", q.amount, q.of),
                          !["debit"][q.of].status = "reversed"]
    /\ bet' = [bet EXCEPT ![q.of] = "void"]
    /\ Answer(c)
    /\ UNCHANGED <<session, hookVars>>

\* A refused call, an aborted transaction or a crash leaves nothing behind.
Abort(c) ==
    /\ call[c] # NoCall
    /\ Answer(c)
    /\ UNCHANGED <<session, balance, row, bet, hookVars>>

-----------------------------------------------------------------------------
(* The /hooks receiver.  It locks the wallet and writes the new balance;   *)
(* the row is inserted with ON CONFLICT DO NOTHING.                        *)

Moved(h, amount) ==
    /\ hookRow' = [hookRow EXCEPT ![h] = IF @ = NoRow THEN Row("completed", amount, None) ELSE @]
    /\ unbooked' = unbooked + (IF hookRow[h] = NoRow THEN 0 ELSE amount)
    /\ UNCHANGED <<session, row, bet>>

HookDebit(h, amount) ==
    /\ amount <= balance
    /\ balance' = balance - amount
    /\ Moved(h, -amount)
    /\ UNCHANGED call

HookCredit(h, amount) ==
    /\ Credited(amount)
    /\ Moved(h, amount)
    /\ UNCHANGED call

\* The row is read before the wallet is locked.
HookReceiveRollback(c, h) ==
    /\ call[c] = NoCall
    /\ hookRow[h].status = "completed"
    /\ call' = [call EXCEPT ![c] = Request("undo", h, None, -hookRow[h].amount)]
    /\ UNCHANGED <<session, balance, row, bet, hookVars>>

\* A win is taken back only as far as wallets_balance_nonneg allows.
HookRollback(c) ==
    LET q == call[c] IN
    /\ q.kind = "undo"
    /\ balance + q.amount >= 0
    /\ Credited(q.amount)
    /\ hookRow' = [hookRow EXCEPT ![q.id].status = "rolled_back"]
    /\ unbooked' = unbooked + (IF hookRow[q.id].status = "completed" THEN 0 ELSE q.amount)
    /\ Answer(c)
    /\ UNCHANGED <<session, row, bet>>

-----------------------------------------------------------------------------
Next ==
    \/ CreateSession
    \/ EndSession
    \/ \E c \in Call :
        \/ \E t \in Txn :
            \/ \E a \in Stakes : Receive(c, "debit", t, None, a)
            \/ \E of \in Txn \cup {None}, a \in Wins : Receive(c, "credit", t, of, a)
            \/ \E of \in Txn : ReceiveRollback(c, t, of)
        \/ CommitDebit(c)
        \/ CommitCredit(c)
        \/ CommitRollback(c)
        \/ Abort(c)
        \/ \E h \in HookTxn : HookReceiveRollback(c, h)
        \/ HookRollback(c)
    \/ \E h \in HookTxn :
        \/ \E a \in Stakes : HookDebit(h, a)
        \/ \E a \in Wins : HookCredit(h, a)

Spec == Init /\ [][Next]_vars

-----------------------------------------------------------------------------
(* Properties.                                                             *)

\* Types of the variables.
TypeOK ==
    /\ session \in {"active", "over"}
    /\ balance \in 0 .. MaxBalance
    /\ row \in [Kinds -> [Txn -> [status : {"none", "completed", "reversed"},
                                 amount : Int, of : Txn \cup {None}]]]
    /\ bet \in [Txn -> {"none", "accepted", "won", "void"}]
    /\ call \in [Call -> [kind : Kinds \cup {"none", "undo"},
                          id : Txn \cup HookTxn \cup {None}, of : Txn \cup {None}, amount : Int]]
    /\ hookRow \in [HookTxn -> [status : {"none", "completed", "rolled_back"},
                                amount : Int, of : {None}]]
    /\ unbooked \in Int

\* What the rows of a kind add up to, and the rows of /hooks that stand.
Amounts(k) == [t \in Txn |-> row[k][t].amount]
HookAmounts == [h \in HookTxn |-> IF hookRow[h].status = "completed" THEN hookRow[h].amount ELSE 0]
Total(k) == SumFunctionOnSet(Amounts(k), Txn)
HookTotal == SumFunctionOnSet(HookAmounts, HookTxn)

\* Two receivers, one with relative and one with absolute writes, and calls
\* repeated while the first runs: the balance is what the ledger's rows add up
\* to, but for what /hooks moved again without a row (webhook.service.ts
\* 208-665, external-games.webhook.routes.ts 139-312).
WalletMatchesLedger ==
    balance = Opening + unbooked + Total("debit") + Total("credit") + Total("rollback") + HookTotal

\* A bet, its debit, the win that settled it and the rollback that voided it
\* are written by calls that arrive in any order: a bet is void exactly when
\* its debit is reversed, which happens only with a refund on file, and no two
\* wins settle one bet (webhook.service.ts 384-416, 566-604).
BetMatchesRows ==
    /\ \A t \in Txn :
        /\ bet[t] = "none" <=> ~Known("debit", t)
        /\ bet[t] = "void" <=> row["debit"][t].status = "reversed"
        /\ bet[t] = "void" <=> \E u \in Txn : row["rollback"][u].of = t
        /\ bet[t] = "won" => \E u \in Txn : row["credit"][u].of = t
        /\ bet[t] \in {"none", "accepted"} => \A u \in Txn : row["credit"][u].of # t
    /\ \A u, v \in Txn :
        row["credit"][u].of = row["credit"][v].of /\ row["credit"][u].of # None => u = v

-----------------------------------------------------------------------------
(* What the code does not keep.                                            *)

\* "Treat as idempotent - original already rolled back" (webhook.service.ts
\* 540): one refund per debit.
RefundedOnce ==
    \A u, v \in Txn :
        row["rollback"][u].of = row["rollback"][v].of /\ row["rollback"][u].of # None => u = v

\* A bet whose stake went back pays no win.
NoWinWithRefund ==
    \A u, v \in Txn :
        row["credit"][u].of = row["rollback"][v].of => row["credit"][u].of = None

\* /hooks: every movement has its row.
NothingUnbooked == unbooked = 0
=============================================================================

----------------------- MODULE ExternalGameWalletProofs -----------------------
(***************************************************************************)
(* What ExternalGameWallet promises for every number of transaction ids,   *)
(* of calls in progress and of amounts: types, the agreement of bets and   *)
(* rows, and on top of them the balance as a sum of rows.                  *)
(***************************************************************************)
EXTENDS ExternalGameWallet, SumTheorems

\* Rows are never deleted, so the debit a rollback has read is still on file
\* when the rollback gets the wallet.
DebitOnFile ==
    \A c \in Call : call[c].kind = "rollback" => call[c].of \in Txn /\ Known("debit", call[c].of)

CallNames == \A c \in Call : call[c].kind \in Kinds => call[c].id \in Txn
Undone == \A c \in Call : call[c].kind = "undo" => call[c].id \in HookTxn

\* Debits take and every other call of the session games gives.
Signs ==
    /\ \A c \in Call : call[c].kind \in Kinds => call[c].amount \in Nat
    /\ \A t \in Txn : -row["debit"][t].amount \in Nat

\* A row that is not on file names no debit and moves nothing.
Unlinked == \A k \in Kinds, t \in Txn : ~Known(k, t) => row[k][t].of = None /\ row[k][t].amount = 0

RowType == [status : {"none", "completed", "reversed"}, amount : Int, of : Txn \cup {None}]

Calls == CallNames /\ Undone /\ DebitOnFile /\ Signs /\ Unlinked
Inv == TypeOK /\ Calls /\ BetMatchesRows

LEMMA InitInv == ASSUME Init PROVE Inv
<1> USE GameWalletAssumption DEF Init, NoRow, Row, NoCall, Request, Known, Kinds
<1>1. TypeOK BY DEF TypeOK
<1>2. Calls BY DEF Calls, CallNames, Undone, DebitOnFile, Signs, Unlinked
<1>3. BetMatchesRows BY DEF BetMatchesRows
<1> QED BY <1>1, <1>2, <1>3 DEF Inv

LEMMA UnknownUnlinked ==
    ASSUME Inv, NEW k \in Kinds, NEW t \in Txn, ~Known(k, t)
    PROVE  row[k][t].of = None /\ row[k][t].amount = 0
BY DEF Inv, Calls, Unlinked

-----------------------------------------------------------------------------
(* Steps that write no row and no bet.                                     *)

LEMMA BooksUntouched ==
    ASSUME Inv, UNCHANGED <<row, bet>>
    PROVE  BetMatchesRows'
BY DEF Inv, BetMatchesRows, Known

LEMMA CallForgotten ==
    ASSUME Inv, NEW c \in Call, Answer(c), UNCHANGED row
    PROVE  Calls'
BY DEF Inv, TypeOK, Calls, CallNames, Undone, DebitOnFile, Signs, Unlinked, Answer, NoCall, Request,
       Known, Kinds

LEMMA CallsUntouched ==
    ASSUME Inv, UNCHANGED <<row, call>>
    PROVE  Calls'
BY DEF Inv, Calls, CallNames, Undone, DebitOnFile, Signs, Unlinked, Known

LEMMA SessionInv == ASSUME Inv, CreateSession \/ EndSession PROVE Inv'
<1>1. UNCHANGED <<row, bet, call>> BY DEF CreateSession, EndSession
<1>2. TypeOK' BY DEF Inv, TypeOK, CreateSession, EndSession, hookVars
<1> QED BY <1>1, <1>2, BooksUntouched, CallsUntouched DEF Inv

LEMMA AbortInv == ASSUME Inv, NEW c \in Call, Abort(c) PROVE Inv'
<1>1. Answer(c) /\ UNCHANGED <<row, bet>> BY DEF Abort
<1>2. TypeOK' BY DEF Inv, TypeOK, Abort, Answer, NoCall, Request, hookVars
<1> QED BY <1>1, <1>2, BooksUntouched, CallForgotten DEF Inv

\* A call that arrives: what it carries is what the later steps rely on.
LEMMA ReceiveInv ==
    ASSUME Inv, NEW c \in Call, NEW kind \in Kinds, NEW t \in Txn, NEW of \in Txn \cup {None},
           NEW a \in Nat, Receive(c, kind, t, of, a),
           kind = "rollback" => of \in Txn /\ Known("debit", of)
    PROVE  Inv'
<1>1. UNCHANGED <<row, bet>> BY DEF Receive
<1>2. call' = [call EXCEPT ![c] = Request(kind, t, of, a)] BY DEF Receive
<1>3. TypeOK' BY <1>2 DEF Inv, TypeOK, Receive, Request, hookVars
<1>4. Calls'
  BY <1>1, <1>2 DEF Inv, TypeOK, Calls, CallNames, Undone, DebitOnFile, Signs, Unlinked,
                    Request, Known, Kinds
<1> QED BY <1>1, <1>3, <1>4, BooksUntouched DEF Inv

LEMMA ReceiveRollbackInv ==
    ASSUME Inv, NEW c \in Call, NEW t \in Txn, NEW of \in Txn, ReceiveRollback(c, t, of)
    PROVE  Inv'
<1>1. -row["debit"][of].amount \in Nat BY DEF Inv, Calls, Signs
<1>2. Known("debit", of) BY DEF ReceiveRollback, Known
<1>3. "rollback" \in Kinds BY DEF Kinds
<1>4. Receive(c, "rollback", t, of, -row["debit"][of].amount) BY DEF ReceiveRollback
<1> QED BY <1>1, <1>2, <1>3, <1>4, ReceiveInv

-----------------------------------------------------------------------------
(* The steps that write the ledger and the bets.                           *)

LEMMA CommitDebitInv == ASSUME Inv, NEW c \in Call, CommitDebit(c) PROVE Inv'
<1> DEFINE t == call[c].id
           a == call[c].amount
<1>1. t \in Txn /\ a \in Nat
  BY DEF Inv, Calls, CallNames, Signs, CommitDebit, Kinds
<1>2. /\ ~Known("debit", t)
      /\ row' = [row EXCEPT !["debit"][t] = Row("completed", -a, None)]
      /\ bet' = [bet EXCEPT ![t] = "accepted"]
      /\ call' = [call EXCEPT ![c] = NoCall]
      /\ balance' = balance - a
      /\ a <= balance
      /\ UNCHANGED <<session, hookRow, unbooked>>
  BY DEF CommitDebit, Answer, hookVars
<1> HIDE DEF t, a
<1> USE DEF Row, Kinds
<1>3. TypeOK'
  <2>1. row \in [Kinds -> [Txn -> RowType]] BY DEF Inv, TypeOK, RowType
  <2>2. Row("completed", -a, None) \in RowType BY <1>1 DEF RowType
  <2>3. row' \in [Kinds -> [Txn -> RowType]] BY <1>1, <1>2, <2>1, <2>2
  <2>4. balance' \in 0 .. MaxBalance BY <1>1, <1>2, GameWalletAssumption DEF Inv, TypeOK
  <2> QED BY <1>1, <1>2, <2>3, <2>4 DEF Inv, TypeOK, RowType, NoCall, Request
<1>4. Calls'
  BY <1>1, <1>2 DEF Inv, TypeOK, Calls, CallNames, Undone, DebitOnFile, Signs, Unlinked,
                    NoCall, Request, Known
<1>5. BetMatchesRows'
  BY <1>1, <1>2, GameWalletAssumption DEF Inv, TypeOK, BetMatchesRows, Known
<1> QED BY <1>3, <1>4, <1>5 DEF Inv

LEMMA CommitCreditInv == ASSUME Inv, NEW c \in Call, CommitCredit(c) PROVE Inv'
<1> DEFINE t == call[c].id
           a == call[c].amount
           of == call[c].of
           S == IF of # None /\ bet[of] = "accepted" THEN {of} ELSE {}
           link == IF S = {} THEN None ELSE of
<1>1. t \in Txn /\ a \in Nat /\ of \in Txn \cup {None}
  BY DEF Inv, TypeOK, Calls, CallNames, Signs, CommitCredit, Kinds
<1>2. /\ ~Known("credit", t)
      /\ row' = [row EXCEPT !["credit"][t] = Row("completed", a, link)]
      /\ bet' = [u \in Txn |-> IF u \in S THEN "won" ELSE bet[u]]
      /\ call' = [call EXCEPT ![c] = NoCall]
      /\ balance' = balance + a
      /\ balance + a <= MaxBalance
      /\ UNCHANGED <<session, hookRow, unbooked>>
  BY DEF CommitCredit, Answer, Credited, hookVars
<1>3. \/ link = None /\ bet' = bet
      \/ link \in Txn /\ bet[link] = "accepted" /\ bet' = [bet EXCEPT ![link] = "won"]
  BY <1>1, <1>2 DEF Inv, TypeOK
<1> HIDE DEF t, a, of, S, link
<1> USE DEF Row, Kinds
<1>4. TypeOK' BY <1>1, <1>2, <1>3, GameWalletAssumption DEF Inv, TypeOK, NoCall, Request
<1>5. Calls'
  BY <1>1, <1>2 DEF Inv, TypeOK, Calls, CallNames, Undone, DebitOnFile, Signs, Unlinked,
                    NoCall, Request, Known
<1>6. BetMatchesRows'
  <2>1. /\ row'["debit"] = row["debit"] /\ row'["rollback"] = row["rollback"]
        /\ \A u \in Txn : row'["credit"][u].of = IF u = t THEN link ELSE row["credit"][u].of
    BY <1>1, <1>2 DEF Inv, TypeOK
  <2>2. row["credit"][t].of = None
    <3>1. "credit" \in Kinds /\ ~Known("credit", t) BY <1>2
    <3> QED BY ONLY <1>1, <3>1, Inv, UnknownUnlinked
  <2>3. CASE link = None /\ bet' = bet
    BY <1>1, <2>1, <2>2, <2>3, GameWalletAssumption DEF Inv, BetMatchesRows, Known
  <2>4. CASE link \in Txn /\ bet[link] = "accepted" /\ bet' = [bet EXCEPT ![link] = "won"]
    <3>1. \A u \in Txn : bet'[u] = IF u = link THEN "won" ELSE bet[u]
      BY <2>4 DEF Inv, TypeOK
    <3>2. link # None /\ \A u \in Txn : row["credit"][u].of # link
      BY <2>4, GameWalletAssumption DEF Inv, BetMatchesRows
    <3>3. row'["credit"][t].of = link BY <1>1, <2>1
    <3> QED
      BY <1>1, <2>1, <2>2, <2>4, <3>1, <3>2, <3>3, GameWalletAssumption
         DEF Inv, BetMatchesRows, Known
  <2> QED BY <1>3, <2>3, <2>4
<1> QED BY <1>4, <1>5, <1>6 DEF Inv

LEMMA CommitRollbackInv == ASSUME Inv, NEW c \in Call, CommitRollback(c) PROVE Inv'
<1> DEFINE t == call[c].id
           a == call[c].amount
           of == call[c].of
<1>1. t \in Txn /\ a \in Nat /\ of \in Txn /\ Known("debit", of)
  BY DEF Inv, Calls, CallNames, Signs, DebitOnFile, CommitRollback, Kinds
<1>2. row' = [row EXCEPT !["rollback"][t] = Row("completed", a, of),
                         !["debit"][of].status = "reversed"]
  BY DEF CommitRollback
<1>3. /\ ~Known("rollback", t)
      /\ bet' = [bet EXCEPT ![of] = "void"]
      /\ call' = [call EXCEPT ![c] = NoCall]
      /\ balance' = balance + a
      /\ balance + a <= MaxBalance
      /\ UNCHANGED <<session, hookRow, unbooked>>
  BY DEF CommitRollback, Answer, Credited, hookVars
<1> HIDE DEF t, a, of
<1> USE DEF Row, Kinds
<1>4. /\ row' \in [Kinds -> [Txn -> RowType]]
      /\ row'["credit"] = row["credit"]
      /\ row'["rollback"] = [row["rollback"] EXCEPT ![t] = Row("completed", a, of)]
      /\ row'["debit"] = [row["debit"] EXCEPT ![of] = [@ EXCEPT !.status = "reversed"]]
  <2> DEFINE booked == [row EXCEPT !["rollback"][t] = Row("completed", a, of)]
  <2>1. row' = [booked EXCEPT !["debit"][of] = [@ EXCEPT !.status = "reversed"]] BY <1>2
  <2>2. row \in [Kinds -> [Txn -> RowType]] BY DEF Inv, TypeOK, RowType
  <2>3. Row("completed", a, of) \in RowType BY <1>1 DEF RowType
  <2>4. booked \in [Kinds -> [Txn -> RowType]] BY <1>1, <2>2, <2>3
  <2>5. /\ booked["debit"] = row["debit"] /\ booked["credit"] = row["credit"]
        /\ booked["rollback"] = [row["rollback"] EXCEPT ![t] = Row("completed", a, of)]
    BY <2>2
  <2>6. [row["debit"][of] EXCEPT !.status = "reversed"] \in RowType BY <1>1, <2>2 DEF RowType
  <2> HIDE DEF booked
  <2> QED BY <1>1, <2>1, <2>4, <2>5, <2>6
<1>5. TypeOK'
  <2>1. balance' \in 0 .. MaxBalance BY <1>1, <1>3, GameWalletAssumption DEF Inv, TypeOK
  <2> QED BY <1>1, <1>3, <1>4, <2>1 DEF Inv, TypeOK, RowType, NoCall, Request
<1>6. /\ \A u \in Txn : row'["rollback"][u].of = IF u = t THEN of ELSE row["rollback"][u].of
      /\ \A u \in Txn : /\ row'["debit"][u].amount = row["debit"][u].amount
                        /\ row'["debit"][u].of = row["debit"][u].of
                        /\ row'["debit"][u].status =
                             IF u = of THEN "reversed" ELSE row["debit"][u].status
  BY <1>1, <1>4 DEF Inv, TypeOK, RowType
<1>7. Calls'
  <2>1. (CallNames /\ Undone)'
    BY <1>3 DEF Inv, TypeOK, Calls, CallNames, Undone, NoCall, Request
  <2>2. DebitOnFile'
    BY <1>3, <1>6 DEF Inv, TypeOK, Calls, DebitOnFile, Known, NoCall, Request
  <2>3. Signs' BY <1>3, <1>6 DEF Inv, TypeOK, Calls, Signs, NoCall, Request
  <2>4. Unlinked' BY <1>1, <1>4, <1>6 DEF Inv, TypeOK, Calls, Unlinked, Known
  <2> QED BY <2>1, <2>2, <2>3, <2>4 DEF Calls
<1>8. BetMatchesRows'
  <2>1. row["rollback"][t].of = None
    <3>1. "rollback" \in Kinds /\ ~Known("rollback", t) BY <1>3
    <3> QED BY ONLY <1>1, <3>1, Inv, UnknownUnlinked
  <2>2. \A u \in Txn : bet'[u] = IF u = of THEN "void" ELSE bet[u]
    BY <1>1, <1>3 DEF Inv, TypeOK
  <2> QED
    BY <1>1, <1>4, <1>6, <2>1, <2>2, GameWalletAssumption DEF Inv, BetMatchesRows, Known
<1> QED BY <1>5, <1>7, <1>8 DEF Inv

-----------------------------------------------------------------------------
(* The other receiver.                                                     *)

LEMMA HookInv ==
    ASSUME Inv, NEW h \in HookTxn,
           (\E a \in Stakes : HookDebit(h, a)) \/ (\E a \in Wins : HookCredit(h, a))
    PROVE  Inv'
<1>1. UNCHANGED <<row, bet, call>> BY DEF HookDebit, HookCredit, Moved
<1>2. TypeOK'
  <2>1. CASE \E a \in Stakes : HookDebit(h, a)
    BY <2>1, GameWalletAssumption DEF Inv, TypeOK, HookDebit, Moved, NoRow, Row
  <2>2. CASE \E a \in Wins : HookCredit(h, a)
    BY <2>2, GameWalletAssumption DEF Inv, TypeOK, HookCredit, Credited, Moved, NoRow, Row
  <2> QED BY <2>1, <2>2
<1> QED BY <1>1, <1>2, BooksUntouched, CallsUntouched DEF Inv

LEMMA HookReceiveRollbackInv ==
    ASSUME Inv, NEW c \in Call, NEW h \in HookTxn, HookReceiveRollback(c, h)
    PROVE  Inv'
<1>1. UNCHANGED <<row, bet>> BY DEF HookReceiveRollback
<1>2. TypeOK' BY DEF Inv, TypeOK, HookReceiveRollback, Request, hookVars
<1>3. Calls'
  BY <1>1 DEF Inv, TypeOK, Calls, CallNames, Undone, DebitOnFile, Signs, Unlinked,
              HookReceiveRollback, Request, Known, Kinds
<1> QED BY <1>1, <1>2, <1>3, BooksUntouched DEF Inv

LEMMA HookRollbackInv == ASSUME Inv, NEW c \in Call, HookRollback(c) PROVE Inv'
<1>1. Answer(c) /\ UNCHANGED <<row, bet>> BY DEF HookRollback
<1>2. call[c].id \in HookTxn BY DEF Inv, Calls, Undone, HookRollback
<1>3. TypeOK'
  BY <1>2, GameWalletAssumption
     DEF Inv, TypeOK, HookRollback, Credited, Answer, NoCall, Request
<1> QED BY <1>1, <1>3, BooksUntouched, CallForgotten DEF Inv

-----------------------------------------------------------------------------
LEMMA StutterInv == ASSUME Inv, UNCHANGED vars PROVE Inv'
<1>1. TypeOK' BY DEF Inv, TypeOK, vars
<1> QED BY <1>1, BooksUntouched, CallsUntouched DEF Inv, vars

LEMMA StepInv == ASSUME Inv, [Next]_vars PROVE Inv'
<1>1. CASE CreateSession \/ EndSession BY <1>1, SessionInv
<1>2. ASSUME NEW c \in Call, NEW t \in Txn, NEW a \in Stakes, Receive(c, "debit", t, None, a)
      PROVE  Inv'
  BY <1>2, ReceiveInv, GameWalletAssumption DEF Kinds
<1>3. ASSUME NEW c \in Call, NEW t \in Txn, NEW of \in Txn \cup {None}, NEW a \in Wins,
             Receive(c, "credit", t, of, a)
      PROVE  Inv'
  BY <1>3, ReceiveInv, GameWalletAssumption DEF Kinds
<1>4. ASSUME NEW c \in Call, NEW t \in Txn, NEW of \in Txn, ReceiveRollback(c, t, of)
      PROVE  Inv'
  BY <1>4, ReceiveRollbackInv
<1>5. ASSUME NEW c \in Call,
             CommitDebit(c) \/ CommitCredit(c) \/ CommitRollback(c) \/ Abort(c) \/ HookRollback(c)
      PROVE  Inv'
  BY <1>5, CommitDebitInv, CommitCreditInv, CommitRollbackInv, AbortInv, HookRollbackInv
<1>6. ASSUME NEW c \in Call, NEW h \in HookTxn, HookReceiveRollback(c, h) PROVE Inv'
  BY <1>6, HookReceiveRollbackInv
<1>7. ASSUME NEW h \in HookTxn,
             (\E a \in Stakes : HookDebit(h, a)) \/ (\E a \in Wins : HookCredit(h, a))
      PROVE  Inv'
  BY <1>7, HookInv
<1>8. CASE UNCHANGED vars BY <1>8, StutterInv
<1> QED BY <1>1, <1>2, <1>3, <1>4, <1>5, <1>6, <1>7, <1>8 DEF Next

-----------------------------------------------------------------------------
(* The balance.  A row of /hooks is written once, and a call that takes it *)
(* back carries its amount, whatever its status has become.                *)

HookRows == \A h \in HookTxn : hookRow[h].status = "none" => hookRow[h] = NoRow

UndoOnFile ==
    \A c \in Call : call[c].kind = "undo" =>
        /\ hookRow[call[c].id].status # "none"
        /\ call[c].amount = -hookRow[call[c].id].amount

Money == HookRows /\ UndoOnFile /\ WalletMatchesLedger

\* Every sum is an integer.
TotalsTyped ==
    /\ Total("debit") \in Int /\ Total("credit") \in Int /\ Total("rollback") \in Int
    /\ HookTotal \in Int

LEMMA TotalTyped == ASSUME Inv, NEW k \in Kinds PROVE Total(k) \in Int
<1>1. \A t \in Txn : Amounts(k)[t] \in Int BY DEF Inv, TypeOK, Amounts
<1> QED BY <1>1, GameWalletAssumption, SumInt DEF Total

LEMMA SumsTyped == ASSUME Inv PROVE TotalsTyped
<1>1. \A h \in HookTxn : HookAmounts[h] \in Int BY DEF Inv, TypeOK, HookAmounts
<1>2. HookTotal \in Int BY <1>1, GameWalletAssumption, SumInt DEF HookTotal
<1> QED BY <1>2, TotalTyped DEF TotalsTyped, Kinds

\* A step that changes no amount of a kind.
LEMMA TotalSame ==
    ASSUME NEW k, \A t \in Txn : row'[k][t].amount = row[k][t].amount
    PROVE  Total(k)' = Total(k)
<1>1. Amounts(k)' = Amounts(k) BY DEF Amounts
<1> QED BY <1>1 DEF Total

\* A step that puts one row on file.
LEMMA TotalBooked ==
    ASSUME Inv, NEW k \in Kinds, NEW t \in Txn, NEW a \in Int, ~Known(k, t),
           \A u \in Txn : row'[k][u].amount = IF u = t THEN a ELSE row[k][u].amount
    PROVE  Total(k)' = Total(k) + a
<1> DEFINE f == Amounts(k)
           g == Amounts(k)'
<1>1. f[t] = 0 BY UnknownUnlinked DEF Amounts
<1>2. \A u \in Txn : f[u] \in Int BY DEF Inv, TypeOK, Amounts
<1>3. g[t] = a /\ \A u \in Txn \ {t} : g[u] = f[u] BY DEF Amounts
<1>4. Total(k) = SumFunctionOnSet(f, Txn) /\ Total(k)' = SumFunctionOnSet(g, Txn) BY DEF Total
<1> HIDE DEF f, g
<1>5. SumFunctionOnSet(g, Txn) = SumFunctionOnSet(f, Txn) + g[t] - f[t]
  BY <1>2, <1>3, GameWalletAssumption, SumExcept
<1>6. Total(k) \in Int BY TotalTyped
<1> QED BY <1>1, <1>3, <1>4, <1>5, <1>6

\* A step that writes one row of /hooks.
LEMMA HookTotalWritten ==
    ASSUME Inv, Inv', NEW h \in HookTxn, \A g \in HookTxn \ {h} : hookRow'[g] = hookRow[g]
    PROVE  HookTotal' = HookTotal + HookAmounts'[h] - HookAmounts[h]
<1> DEFINE f == HookAmounts
           g == HookAmounts'
<1>1. \A u \in HookTxn : f[u] \in Int BY DEF Inv, TypeOK, HookAmounts
<1>2. g[h] \in Int /\ \A u \in HookTxn \ {h} : g[u] = f[u] BY DEF Inv, TypeOK, HookAmounts
<1>3. HookTotal = SumFunctionOnSet(f, HookTxn) /\ HookTotal' = SumFunctionOnSet(g, HookTxn)
  BY DEF HookTotal
<1>4. f[h] = HookAmounts[h] /\ g[h] = HookAmounts'[h] OBVIOUS
<1> HIDE DEF f, g
<1>5. SumFunctionOnSet(g, HookTxn) = SumFunctionOnSet(f, HookTxn) + g[h] - f[h]
  BY <1>1, <1>2, GameWalletAssumption, SumExcept
<1> QED BY <1>3, <1>4, <1>5

LEMMA HookTotalSame == ASSUME UNCHANGED hookRow PROVE HookTotal' = HookTotal
<1>1. HookAmounts' = HookAmounts BY DEF HookAmounts
<1> QED BY <1>1 DEF HookTotal

LEMMA InitMoney == ASSUME Init PROVE Money
<1>1. Inv BY InitInv
<1>2. ASSUME NEW k \in Kinds PROVE Total(k) = 0
  <2>1. \A t \in Txn : Amounts(k)[t] = 0 BY DEF Init, Amounts, NoRow, Row
  <2> QED BY <2>1, GameWalletAssumption, SumZero DEF Total
<1>3. HookTotal = 0
  <2>1. \A h \in HookTxn : HookAmounts[h] = 0 BY DEF Init, HookAmounts, NoRow, Row
  <2> QED BY <2>1, GameWalletAssumption, SumZero DEF HookTotal
<1>4. WalletMatchesLedger
  BY <1>2, <1>3, GameWalletAssumption DEF Init, WalletMatchesLedger, Kinds
<1>5. HookRows /\ UndoOnFile BY DEF Init, HookRows, UndoOnFile, NoCall, Request
<1> QED BY <1>4, <1>5 DEF Money

\* Calls of the session games leave /hooks alone.
LEMMA HooksUntouched ==
    ASSUME Money, UNCHANGED hookRow, \A c \in Call : call'[c].kind = "undo" => call'[c] = call[c]
    PROVE  (HookRows /\ UndoOnFile)'
BY DEF Money, HookRows, UndoOnFile

LEMMA AnswerUndoes ==
    ASSUME Inv, NEW c \in Call, Answer(c)
    PROVE  \A d \in Call : call'[d].kind = "undo" => call'[d] = call[d]
BY DEF Inv, TypeOK, Answer, NoCall, Request

LEMMA IdleMoney ==
    ASSUME Inv, Money, UNCHANGED <<balance, row, hookRow, unbooked>>,
           \A c \in Call : call'[c].kind = "undo" => call'[c] = call[c]
    PROVE  Money'
<1>1. Total("debit")' = Total("debit") BY TotalSame
<1>2. Total("credit")' = Total("credit") BY TotalSame
<1>3. Total("rollback")' = Total("rollback") BY TotalSame
<1>4. WalletMatchesLedger'
  BY <1>1, <1>2, <1>3, HookTotalSame DEF Money, WalletMatchesLedger
<1> QED BY <1>4, HooksUntouched DEF Money

LEMMA ReceiveMoney ==
    ASSUME Inv, Money, NEW c \in Call, NEW kind \in Kinds, NEW t, NEW of, NEW a,
           Receive(c, kind, t, of, a)
    PROVE  Money'
<1>1. UNCHANGED <<balance, row, hookRow, unbooked>> BY DEF Receive, hookVars
<1>2. \A d \in Call : call'[d].kind = "undo" => call'[d] = call[d]
  BY DEF Inv, TypeOK, Receive, Request, Kinds
<1> QED BY <1>1, <1>2, IdleMoney

LEMMA CommitDebitMoney == ASSUME Inv, Money, NEW c \in Call, CommitDebit(c) PROVE Money'
<1> DEFINE t == call[c].id
           a == call[c].amount
<1>1. t \in Txn /\ a \in Nat /\ balance \in Nat
  BY GameWalletAssumption DEF Inv, TypeOK, Calls, CallNames, Signs, CommitDebit, Kinds
<1>2. /\ ~Known("debit", t)
      /\ row' = [row EXCEPT !["debit"][t] = Row("completed", -a, None)]
      /\ balance' = balance - a
      /\ UNCHANGED <<hookRow, unbooked>>
  BY DEF CommitDebit, hookVars
<1>3. Answer(c) BY DEF CommitDebit
<1> HIDE DEF t, a
<1>4. /\ \A u \in Txn : row'["debit"][u].amount = IF u = t THEN -a ELSE row["debit"][u].amount
      /\ row'["credit"] = row["credit"] /\ row'["rollback"] = row["rollback"]
  BY <1>1, <1>2 DEF Inv, TypeOK, Row, Kinds
<1>5. Total("debit")' = Total("debit") + (-a)
  BY <1>1, <1>2, <1>4, TotalBooked DEF Kinds
<1>6. Total("credit")' = Total("credit") /\ Total("rollback")' = Total("rollback")
  BY <1>4, TotalSame
<1>7. WalletMatchesLedger'
  BY <1>1, <1>2, <1>5, <1>6, HookTotalSame, SumsTyped, GameWalletAssumption
     DEF Inv, TypeOK, Money, WalletMatchesLedger, TotalsTyped
<1> QED BY <1>2, <1>3, <1>7, HooksUntouched, AnswerUndoes DEF Money

LEMMA CommitCreditMoney == ASSUME Inv, Money, NEW c \in Call, CommitCredit(c) PROVE Money'
<1>1. /\ call[c].id \in Txn /\ call[c].amount \in Nat
      /\ balance \in Nat
  BY GameWalletAssumption DEF Inv, TypeOK, Calls, CallNames, Signs, CommitCredit, Kinds
<1>2. PICK t \in Txn, a \in Nat :
        /\ ~Known("credit", t)
        /\ \E link : row' = [row EXCEPT !["credit"][t] = Row("completed", a, link)]
        /\ balance' = balance + a
  BY <1>1 DEF CommitCredit, Credited
<1>3. Answer(c) /\ UNCHANGED <<hookRow, unbooked>> BY DEF CommitCredit, hookVars
<1>4. /\ \A u \in Txn : row'["credit"][u].amount = IF u = t THEN a ELSE row["credit"][u].amount
      /\ row'["debit"] = row["debit"] /\ row'["rollback"] = row["rollback"]
  BY <1>2 DEF Inv, TypeOK, Row, Kinds
<1>5. Total("credit")' = Total("credit") + a
  BY <1>2, <1>4, TotalBooked DEF Kinds
<1>6. Total("debit")' = Total("debit") /\ Total("rollback")' = Total("rollback")
  BY <1>4, TotalSame
<1>7. WalletMatchesLedger'
  BY <1>1, <1>2, <1>3, <1>5, <1>6, HookTotalSame, SumsTyped, GameWalletAssumption
     DEF Inv, TypeOK, Money, WalletMatchesLedger, TotalsTyped
<1> QED BY <1>3, <1>7, HooksUntouched, AnswerUndoes DEF Money

\* The debit keeps its amount when it is marked reversed: the refund is a row
\* of its own.
LEMMA CommitRollbackMoney == ASSUME Inv, Money, NEW c \in Call, CommitRollback(c) PROVE Money'
<1> DEFINE t == call[c].id
           a == call[c].amount
           of == call[c].of
<1>1. t \in Txn /\ a \in Nat /\ of \in Txn /\ balance \in Nat
  BY GameWalletAssumption
     DEF Inv, TypeOK, Calls, CallNames, Signs, DebitOnFile, CommitRollback, Kinds
<1>2. /\ ~Known("rollback", t)
      /\ row' = [row EXCEPT !["rollback"][t] = Row("completed", a, of),
                            !["debit"][of].status = "reversed"]
      /\ balance' = balance + a
  BY DEF CommitRollback, Credited
<1>3. Answer(c) /\ UNCHANGED <<hookRow, unbooked>> BY DEF CommitRollback, hookVars
<1> HIDE DEF t, a, of
<1>4. /\ \A u \in Txn : row'["rollback"][u].amount = IF u = t THEN a ELSE row["rollback"][u].amount
      /\ row'["credit"] = row["credit"]
      /\ \A u \in Txn : row'["debit"][u].amount = row["debit"][u].amount
  <2> DEFINE booked == [row EXCEPT !["rollback"][t] = Row("completed", a, of)]
  <2>1. row' = [booked EXCEPT !["debit"][of] = [@ EXCEPT !.status = "reversed"]] BY <1>2
  <2>2. row \in [Kinds -> [Txn -> RowType]] BY DEF Inv, TypeOK, RowType
  <2>3. Row("completed", a, of) \in RowType BY <1>1 DEF RowType, Row
  <2>4. booked \in [Kinds -> [Txn -> RowType]] BY <1>1, <2>2, <2>3 DEF Kinds
  <2>5. /\ booked["debit"] = row["debit"] /\ booked["credit"] = row["credit"]
        /\ booked["rollback"] = [row["rollback"] EXCEPT ![t] = Row("completed", a, of)]
    BY <2>2 DEF Kinds
  <2> HIDE DEF booked
  <2>6. /\ row'["rollback"] = booked["rollback"] /\ row'["credit"] = booked["credit"]
        /\ row'["debit"] = [booked["debit"] EXCEPT ![of] = [@ EXCEPT !.status = "reversed"]]
    BY <1>1, <2>1, <2>4 DEF Kinds
  <2>7. \A u \in Txn : row'["debit"][u].amount = row["debit"][u].amount
    BY <1>1, <2>2, <2>5, <2>6 DEF RowType, Kinds
  <2>8. \A u \in Txn :
          row'["rollback"][u].amount = IF u = t THEN a ELSE row["rollback"][u].amount
    BY <1>1, <2>2, <2>5, <2>6 DEF RowType, Kinds, Row
  <2> QED BY <2>5, <2>6, <2>7, <2>8
<1>5. Total("rollback")' = Total("rollback") + a
  <2>1. "rollback" \in Kinds /\ ~Known("rollback", t) /\ a \in Int BY <1>1, <1>2 DEF Kinds
  <2>2. \A u \in Txn : row'["rollback"][u].amount = IF u = t THEN a ELSE row["rollback"][u].amount
    BY <1>4
  <2> QED BY ONLY <1>1, <2>1, <2>2, Inv, TotalBooked
<1>6. Total("credit")' = Total("credit") /\ Total("debit")' = Total("debit")
  BY <1>4, TotalSame
<1>7. WalletMatchesLedger'
  BY <1>1, <1>2, <1>3, <1>5, <1>6, HookTotalSame, SumsTyped, GameWalletAssumption
     DEF Inv, TypeOK, Money, WalletMatchesLedger, TotalsTyped
<1> QED BY <1>3, <1>7, HooksUntouched, AnswerUndoes DEF Money

\* The receiver of /hooks writes the row of a first movement; a repeated one
\* moves the balance and is counted as unbooked.
LEMMA MovedMoney ==
    ASSUME Inv, Inv', Money, NEW h \in HookTxn, NEW a \in Int, Moved(h, a),
           balance' = balance + a, UNCHANGED call
    PROVE  Money'
<1>1. balance \in Int /\ unbooked \in Int /\ Opening \in Int
  BY GameWalletAssumption DEF Inv, TypeOK
<1>2. /\ Total("debit")' = Total("debit") /\ Total("credit")' = Total("credit")
      /\ Total("rollback")' = Total("rollback")
  <2>1. UNCHANGED row BY DEF Moved
  <2> QED BY <2>1, TotalSame
<1>3. CASE hookRow[h] = NoRow
  <2>1. /\ hookRow' = [hookRow EXCEPT ![h] = Row("completed", a, None)]
        /\ unbooked' = unbooked + 0
    BY <1>3 DEF Moved
  <2>2. HookAmounts'[h] = a /\ HookAmounts[h] = 0
    BY <1>3, <2>1 DEF Inv, TypeOK, HookAmounts, NoRow, Row
  <2>3. HookTotal' = HookTotal + a - 0
    <3>1. \A g \in HookTxn \ {h} : hookRow'[g] = hookRow[g] BY <2>1 DEF Inv, TypeOK
    <3> QED BY <2>2, <3>1, HookTotalWritten
  <2>4. WalletMatchesLedger'
    BY <1>1, <1>2, <2>1, <2>3, SumsTyped DEF Money, WalletMatchesLedger, TotalsTyped
  <2>5. HookRows' BY <2>1 DEF Inv, TypeOK, Money, HookRows, Row
  <2>6. UndoOnFile'
    <3>1. ASSUME NEW c \in Call, call[c].kind = "undo"
          PROVE  hookRow'[call[c].id] = hookRow[call[c].id]
      BY <1>3, <2>1, <3>1 DEF Inv, TypeOK, Calls, Undone, Money, UndoOnFile, NoRow, Row
    <3> QED BY <3>1 DEF Money, UndoOnFile
  <2> QED BY <2>4, <2>5, <2>6 DEF Money
<1>4. CASE hookRow[h] # NoRow
  <2>1. UNCHANGED hookRow /\ unbooked' = unbooked + a BY <1>4 DEF Inv, TypeOK, Moved
  <2>2. WalletMatchesLedger'
    BY <1>1, <1>2, <2>1, HookTotalSame, SumsTyped DEF Money, WalletMatchesLedger, TotalsTyped
  <2> QED BY <2>1, <2>2, HooksUntouched DEF Money
<1> QED BY <1>3, <1>4

LEMMA HookMoney ==
    ASSUME Inv, Inv', Money, NEW h \in HookTxn,
           (\E a \in Stakes : HookDebit(h, a)) \/ (\E a \in Wins : HookCredit(h, a))
    PROVE  Money'
<1>1. ASSUME NEW a \in Stakes, HookDebit(h, a) PROVE Money'
  <2>1. a \in Int /\ balance \in Int BY GameWalletAssumption DEF Inv, TypeOK
  <2>2. -a \in Int /\ balance' = balance + (-a) BY <1>1, <2>1 DEF HookDebit
  <2>3. Moved(h, -a) /\ UNCHANGED call BY <1>1 DEF HookDebit
  <2> QED BY <2>2, <2>3, MovedMoney
<1>2. ASSUME NEW a \in Wins, HookCredit(h, a) PROVE Money'
  <2>1. a \in Int BY GameWalletAssumption
  <2> QED BY <1>2, <2>1, MovedMoney DEF HookCredit, Credited
<1> QED BY <1>1, <1>2

LEMMA HookReceiveRollbackMoney ==
    ASSUME Inv, Money, NEW c \in Call, NEW h \in HookTxn, HookReceiveRollback(c, h)
    PROVE  Money'
<1>1. UNCHANGED <<balance, row, hookRow, unbooked>> BY DEF HookReceiveRollback, hookVars
<1>2. call' = [call EXCEPT ![c] = Request("undo", h, None, -hookRow[h].amount)]
  BY DEF HookReceiveRollback
<1>3. hookRow[h].status = "completed" BY DEF HookReceiveRollback
<1>4. (HookRows /\ UndoOnFile)'
  BY <1>1, <1>2, <1>3 DEF Inv, TypeOK, Money, HookRows, UndoOnFile, Request
<1>5. Total("debit")' = Total("debit") BY <1>1, TotalSame
<1>6. Total("credit")' = Total("credit") BY <1>1, TotalSame
<1>7. Total("rollback")' = Total("rollback") BY <1>1, TotalSame
<1> QED BY <1>1, <1>4, <1>5, <1>6, <1>7, HookTotalSame DEF Money, WalletMatchesLedger

\* The first undo of a row takes its amount out of the ledger's sum; every
\* further one moves the same amount unbooked.
LEMMA HookRollbackMoney ==
    ASSUME Inv, Inv', Money, NEW c \in Call, HookRollback(c)
    PROVE  Money'
<1> DEFINE h == call[c].id
           a == call[c].amount
<1>1. /\ h \in HookTxn /\ hookRow[h].status # "none" /\ a = -hookRow[h].amount
      /\ hookRow[h].amount \in Int
  BY DEF Inv, TypeOK, Calls, Undone, Money, UndoOnFile, HookRollback
<1>2. /\ balance' = balance + a
      /\ hookRow' = [hookRow EXCEPT ![h].status = "rolled_back"]
      /\ unbooked' = unbooked + (IF hookRow[h].status = "completed" THEN 0 ELSE a)
      /\ UNCHANGED row
  BY DEF HookRollback, Credited
<1>3. Answer(c) BY DEF HookRollback
<1>4. balance \in Int /\ unbooked \in Int /\ Opening \in Int
  BY GameWalletAssumption DEF Inv, TypeOK
<1> HIDE DEF h, a
<1>5. /\ Total("debit")' = Total("debit") /\ Total("credit")' = Total("credit")
      /\ Total("rollback")' = Total("rollback")
  BY <1>2, TotalSame
<1>6. \A g \in HookTxn : /\ hookRow'[g].amount = hookRow[g].amount
                         /\ hookRow'[g].status = IF g = h THEN "rolled_back" ELSE hookRow[g].status
                         /\ g # h => hookRow'[g] = hookRow[g]
  BY <1>1, <1>2 DEF Inv, TypeOK
<1>7. HookAmounts'[h] = 0 BY <1>1, <1>6 DEF HookAmounts
<1>8. HookTotal' = HookTotal + 0 - HookAmounts[h] BY <1>1, <1>6, <1>7, HookTotalWritten
<1>9. WalletMatchesLedger'
  <2>1. CASE hookRow[h].status = "completed"
    <3>1. HookAmounts[h] = hookRow[h].amount BY <1>1, <2>1 DEF HookAmounts
    <3>2. unbooked' = unbooked + 0 BY <1>2, <2>1
    <3> QED
      BY <1>1, <1>2, <1>4, <1>5, <1>8, <3>1, <3>2, SumsTyped
         DEF Money, WalletMatchesLedger, TotalsTyped
  <2>2. CASE hookRow[h].status # "completed"
    <3>1. HookAmounts[h] = 0 BY <1>1, <2>2 DEF HookAmounts
    <3>2. unbooked' = unbooked + a BY <1>2, <2>2
    <3> QED
      BY <1>1, <1>2, <1>4, <1>5, <1>8, <3>1, <3>2, SumsTyped
         DEF Money, WalletMatchesLedger, TotalsTyped
  <2> QED BY <2>1, <2>2
<1>10. HookRows' BY <1>1, <1>6 DEF Money, HookRows, NoRow, Row
<1>11. UndoOnFile'
  <2>1. ASSUME NEW d \in Call, call'[d].kind = "undo"
        PROVE  call'[d] = call[d] /\ call[d].id \in HookTxn
    BY <1>3, <2>1, AnswerUndoes DEF Inv, Calls, Undone
  <2> QED BY <1>6, <2>1 DEF Money, UndoOnFile
<1> QED BY <1>9, <1>10, <1>11 DEF Money

LEMMA StepMoney == ASSUME Inv, Inv', Money, [Next]_vars PROVE Money'
<1>1. CASE CreateSession \/ EndSession \/ UNCHANGED vars
  <2>1. UNCHANGED <<balance, row, hookRow, unbooked, call>>
    BY <1>1 DEF CreateSession, EndSession, vars, hookVars
  <2> QED BY <2>1, IdleMoney
<1>2. ASSUME NEW c \in Call, NEW t \in Txn, NEW a, Receive(c, "debit", t, None, a) PROVE Money'
  BY <1>2, ReceiveMoney DEF Kinds
<1>3. ASSUME NEW c \in Call, NEW t \in Txn, NEW of, NEW a, Receive(c, "credit", t, of, a)
      PROVE  Money'
  BY <1>3, ReceiveMoney DEF Kinds
<1>4. ASSUME NEW c \in Call, NEW t \in Txn, NEW of \in Txn, ReceiveRollback(c, t, of)
      PROVE  Money'
  BY <1>4, ReceiveMoney DEF ReceiveRollback, Kinds
<1>5. ASSUME NEW c \in Call,
             CommitDebit(c) \/ CommitCredit(c) \/ CommitRollback(c) \/ HookRollback(c)
      PROVE  Money'
  BY <1>5, CommitDebitMoney, CommitCreditMoney, CommitRollbackMoney, HookRollbackMoney
<1>6. ASSUME NEW c \in Call, Abort(c) PROVE Money'
  <2>1. Answer(c) /\ UNCHANGED <<balance, row, hookRow, unbooked>> BY <1>6 DEF Abort, hookVars
  <2> QED BY <2>1, AnswerUndoes, IdleMoney
<1>7. ASSUME NEW c \in Call, NEW h \in HookTxn, HookReceiveRollback(c, h) PROVE Money'
  BY <1>7, HookReceiveRollbackMoney
<1>8. ASSUME NEW h \in HookTxn,
             (\E a \in Stakes : HookDebit(h, a)) \/ (\E a \in Wins : HookCredit(h, a))
      PROVE  Money'
  BY <1>8, HookMoney
<1> QED BY <1>1, <1>2, <1>3, <1>4, <1>5, <1>6, <1>7, <1>8 DEF Next

-----------------------------------------------------------------------------
\* Every state reached is typed, its calls carry what they read, and bets and
\* rows of the session games agree.
THEOREM Invariance == Spec => []Inv
<1>1. Init => Inv BY InitInv
<1>2. Inv /\ [Next]_vars => Inv' BY StepInv
<1> QED BY <1>1, <1>2, PTL DEF Spec

\* Types, with a balance that two receivers keep from 0 to the bound.
THEOREM TypeCorrect == Spec => []TypeOK
<1>1. Inv => TypeOK BY DEF Inv
<1> QED BY <1>1, Invariance, PTL

\* However debits, wins and rollbacks overlap and are repeated, a bet is void
\* exactly when its debit is reversed with a refund on file, and one win
\* settles it at most (webhook.service.ts 208-665).
THEOREM BetsAgree == Spec => []BetMatchesRows
<1>1. Inv => BetMatchesRows BY DEF Inv
<1> QED BY <1>1, Invariance, PTL

\* The rows of /hooks and the balance: the invariant the sum needs.
THEOREM MoneyInvariance == Spec => []Money
<1>1. Init => Money BY InitMoney
<1>2. Inv /\ Inv' /\ Money /\ [Next]_vars => Money' BY StepMoney
<1> QED BY <1>1, <1>2, Invariance, PTL DEF Spec

\* The balance is what the rows of both receivers add up to, but for what
\* /hooks moved again without a row, for any number of transactions and calls
\* (webhook.service.ts 208-665, external-games.webhook.routes.ts 139-312).
THEOREM WalletCorrect == Spec => []WalletMatchesLedger
<1>1. Money => WalletMatchesLedger BY DEF Money
<1> QED BY <1>1, MoneyInvariance, PTL
=============================================================================

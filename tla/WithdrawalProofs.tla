-------------------------- MODULE WithdrawalProofs --------------------------
(***************************************************************************)
(* Proofs about withdrawals.  First the back end, TelebirrWithdrawal, for  *)
(* any number of users, requests, agents, commands, cashiers and           *)
(* administrators; then the back end and the phones together,              *)
(* WithdrawalPayout, with and without faults.                              *)
(***************************************************************************)
EXTENDS WithdrawalPayout, SumTheorems

\* The variables' types are preserved, one step per action.
LEMMA TypeStep == TypeOK /\ [Next]_vars => TypeOK'
<1> SUFFICES ASSUME TypeOK, [Next]_vars PROVE TypeOK'
    OBVIOUS
<1> USE RequestAssumption, WalletAssumption, AgentAssumption DEF TypeOK,
        OpenStatus, ReversedStatus, FinalStatus, OpenCommandStatus, CommandStatus
<1>1. ASSUME NEW r \in Request, CheckOpenWithdrawal(r) PROVE TypeOK'
    BY <1>1 DEF CheckOpenWithdrawal, walletVars, requestVars, ledgerVars
<1>2. ASSUME NEW r \in Request, InitiateWithdrawal(r) PROVE TypeOK'
    <2> DEFINE u == Owner[r]
    <2>a. u \in User /\ Amount[r] \in Nat /\ balance[u] \in Nat /\ withdrawable[u] \in Nat
        OBVIOUS
    <2>1. balance' \in [User -> Nat] /\ withdrawable' \in [User -> Nat]
        <3>1. DebitWallet(u, Amount[r])
            BY <1>2 DEF InitiateWithdrawal
        <3> HIDE DEF u
        <3>2. CASE withdrawable[u] >= Amount[r]
            <4>1. withdrawable[u] - Amount[r] \in Nat
                BY <2>a, <3>2
            <4> QED BY <3>1, <3>2, <4>1 DEF DebitWallet
        <3>3. CASE ~(withdrawable[u] >= Amount[r])
            <4>1. balance[u] - Amount[r] \in Nat
                BY <2>a, <3>1, <3>3 DEF DebitWallet
            <4> QED BY <3>1, <3>3, <4>1 DEF DebitWallet
        <3> QED BY <3>2, <3>3
    <2>2. arrivals' \in Seq(Request)
        BY <1>2 DEF InitiateWithdrawal
    <2> QED BY <1>2, <2>1, <2>2 DEF InitiateWithdrawal
<1>3. ASSUME NEW r \in Request, RefuseInitiate(r) PROVE TypeOK'
    BY <1>3 DEF RefuseInitiate, walletVars, requestVars, ledgerVars
<1>4. ASSUME NEW e \in Reversal, ReadForReversal(e) PROVE TypeOK'
    BY <1>4 DEF ReadForReversal, walletVars, requestVars, ledgerVars
<1>5. ASSUME NEW e \in Reversal, CommitReversal(e) PROVE TypeOK'
    <2>1. e.request \in Request /\ e.to \in {"rejected", "cancelled"}
        BY DEF Reversal
    <2>2. balance' \in [User -> Nat]
        <3>1. Owner[e.request] \in User /\ Amount[e.request] \in Nat
            BY <2>1
        <3>2. balance[Owner[e.request]] + Amount[e.request] \in Nat
            BY <3>1
        <3> QED BY <1>5, <3>1, <3>2 DEF CommitReversal
    <2> QED BY <1>5, <2>1, <2>2 DEF CommitReversal
<1>6. ASSUME NEW e \in Reversal, RefuseReversal(e) PROVE TypeOK'
    BY <1>6 DEF RefuseReversal, walletVars, requestVars, ledgerVars
<1>7. ASSUME NEW r \in Request, PickAgentForWithdrawal(r) PROVE TypeOK'
    <2>1. routing' \subseteq [request : Request, agent : Agent, drain : Command \cup {None}]
        BY <1>7 DEF PickAgentForWithdrawal, Eligible
    <2> QED BY <1>7, <2>1 DEF PickAgentForWithdrawal, walletVars, requestVars, ledgerVars
<1>8. ASSUME NEW d \in Command, DrainWithdrawalQueue(d) PROVE TypeOK'
    <2>1. routing' \subseteq [request : Request, agent : Agent, drain : Command \cup {None}]
        <3>1. HeadOfQueue \subseteq Request
            BY DEF HeadOfQueue
        <3> QED BY <1>8, <3>1 DEF DrainWithdrawalQueue
    <2>2. draining' \subseteq Command
        BY <1>8 DEF DrainWithdrawalQueue
    <2> QED BY <1>8, <2>1, <2>2 DEF DrainWithdrawalQueue, walletVars, requestVars, ledgerVars
<1>9. ASSUME NEW e \in routing, SkipDispatch(e) PROVE TypeOK'
    BY <1>9 DEF SkipDispatch, walletVars, requestVars, ledgerVars
<1>10. ASSUME NEW e \in routing, NEW c \in Command, DispatchWithdrawal(e, c) PROVE TypeOK'
    <2>1. command' \in [Command -> WithdrawCommand \cup {NoCommand}]
        BY <1>10 DEF DispatchWithdrawal, IssueWithdrawCommand, WithdrawCommand
    <2> QED BY <1>10, <2>1 DEF DispatchWithdrawal, walletVars, ledgerVars
<1>11. ASSUME NEW c \in Command, NEW result \in {"success", "failed"},
              RecordCommandResult(c, result)
       PROVE TypeOK'
    <2>1. command[c] \in WithdrawCommand
        BY <1>11 DEF RecordCommandResult, IssuedCommand, NoCommand
    <2>2. command[c].request \in Request /\ command[c].agent \in Agent
        BY <2>1 DEF WithdrawCommand
    <2>3. \A s \in CommandStatus : [command[c] EXCEPT !.status = s] \in WithdrawCommand
        BY <2>1 DEF WithdrawCommand
    <2>4. CASE RecordFailure(c)
        <3>1. Owner[command[c].request] \in User /\ Amount[command[c].request] \in Nat
            BY <2>2
        <3>2. withdrawable[Owner[command[c].request]] + Amount[command[c].request] \in Nat
            BY <3>1
        <3>3. withdrawable' \in [User -> Nat]
            BY <2>4, <3>1, <3>2 DEF RecordFailure
        <3>4. command' \in [Command -> WithdrawCommand \cup {NoCommand}]
            BY <2>3, <2>4 DEF RecordFailure
        <3> QED BY <1>11, <2>2, <2>4, <3>3, <3>4 DEF RecordFailure, RecordCommandResult
    <2>5. CASE RecordSuccess(c)
        BY <1>11, <2>2, <2>3, <2>5 DEF RecordSuccess, RecordCommandResult, walletVars
    <2>6. CASE RecordIgnored(c, result)
        BY <1>11, <2>2, <2>3, <2>6 DEF RecordIgnored, RecordCommandResult, walletVars,
            requestVars, ledgerVars
    <2> QED BY <1>11, <2>4, <2>5, <2>6 DEF RecordCommandResult
<1>12. ASSUME NEW r \in Request, NEW k \in Cashier, ClaimWithdrawal(r, k) PROVE TypeOK'
    BY <1>12 DEF ClaimWithdrawal, walletVars, ledgerVars, txnVars
<1>13. ASSUME NEW r \in Request, NEW k \in Cashier, CompleteWithdrawal(r, k) PROVE TypeOK'
    BY <1>13 DEF CompleteWithdrawal, walletVars, txnVars
<1>14. ASSUME NEW r \in Request, ApproveWithdrawal(r) PROVE TypeOK'
    <2>1. \A a \in Agent :
            [agent |-> a, request |-> r, status |-> "pending"] \in WithdrawCommand
        BY DEF WithdrawCommand
    <2>2. command' \in [Command -> WithdrawCommand \cup {NoCommand}]
        BY <1>14, <2>1 DEF ApproveWithdrawal, IssueWithdrawCommand
    <2> QED BY <1>14, <2>2 DEF ApproveWithdrawal, walletVars, ledgerVars, txnVars
<1>15. ASSUME NEW r \in Request, RejectWithdrawal(r) PROVE TypeOK'
    BY <1>15 DEF RejectWithdrawal, walletVars, ledgerVars, txnVars
<1>16. ASSUME NEW r \in Request, NEW a \in Agent, ReadForSwitch(r, a) PROVE TypeOK'
    BY <1>16 DEF ReadForSwitch, IssuedCommand, walletVars, requestVars, ledgerVars
<1>17. ASSUME NEW e \in switching, NEW c \in Command, SwitchWithdrawalWallet(e, c)
       PROVE TypeOK'
    <2>1. [agent |-> e.agent, request |-> e.request, status |-> "pending"] \in WithdrawCommand
        BY DEF WithdrawCommand
    <2>2. ASSUME NEW x \in Command, command[x].status \in OpenCommandStatus
          PROVE  [command[x] EXCEPT !.status = "cancelled"] \in WithdrawCommand
        <3>1. command[x] \in WithdrawCommand
            BY <2>2 DEF NoCommand
        <3> QED BY <3>1 DEF WithdrawCommand
    <2>3. command' \in [Command -> WithdrawCommand \cup {NoCommand}]
        BY <1>17, <2>1, <2>2 DEF SwitchWithdrawalWallet
    <2> QED BY <1>17, <2>3 DEF SwitchWithdrawalWallet, walletVars, requestVars, ledgerVars
<1>18. ASSUME NEW c \in Command, NEW s \in CommandStatus \ {"pending"},
              UpdateCommandStatus(c, s)
       PROVE TypeOK'
    <2>0. command[c] \in WithdrawCommand
        BY <1>18 DEF UpdateCommandStatus, IssuedCommand, NoCommand
    <2>1. [command[c] EXCEPT !.status = s] \in WithdrawCommand
        BY <2>0 DEF WithdrawCommand
    <2> QED BY <1>18, <2>1 DEF UpdateCommandStatus, walletVars, requestVars, ledgerVars, txnVars
<1>19. ASSUME NEW a \in Agent, AgentSeen(a) \/ AgentSilent(a) PROVE TypeOK'
    BY <1>19 DEF AgentSeen, AgentSilent, walletVars, requestVars, ledgerVars, txnVars
<1>20. CASE RestartServer
    BY <1>20 DEF RestartServer, walletVars, requestVars, ledgerVars
<1>21. CASE UNCHANGED vars
    BY <1>21 DEF vars, walletVars, requestVars, ledgerVars, txnVars
<1> QED
    BY <1>1, <1>2, <1>3, <1>4, <1>5, <1>6, <1>7, <1>8, <1>9, <1>10, <1>11, <1>12, <1>13,
       <1>14, <1>15, <1>16, <1>17, <1>18, <1>19, <1>20, <1>21
    DEF Next, UserStep, ReversalStep, DispatchStep, CashierStep, OperatorStep, ReportStep,
        PresenceStep

LEMMA TypeInit == Init => TypeOK
BY RequestAssumption, WalletAssumption
DEF Init, TypeOK, OpenStatus, FinalStatus, ReversedStatus, Reversal, NoCommand, WithdrawCommand

\* Type correctness of the withdrawal back end.
THEOREM TypeCorrect == Spec => []TypeOK
BY TypeInit, TypeStep, PTL DEF Spec

-----------------------------------------------------------------------------
\* A request whose initiate transaction is open has no row yet.
OpeningIsNew == \A r \in opening : status[r] = "none"

\* The inductive invariant.  LedgerMatchesOutcome says which rows an open
\* request has; OpeningIsNew that the insert of a request is its first.
Consistent ==
    /\ OneOpenWithdrawal
    /\ LedgerMatchesOutcome
    /\ PayoutHasPayer
    /\ OpeningIsNew

\* A step that neither opens a request nor touches its rows.
LEMMA QuietStep ==
    ASSUME Consistent, opening' \subseteq opening \cup {r \in Request : status[r] = "none"},
           UNCHANGED <<status, debit, reversal, swap, holder>>
    PROVE  Consistent'
BY DEF Consistent, OneOpenWithdrawal, LedgerMatchesOutcome, PayoutHasPayer, OpeningIsNew, Open

\* A pending request that is taken into processing, claimed or not.
LEMMA TakenStep ==
    ASSUME TypeOK, Consistent, NEW r \in Request, status[r] = "pending",
           status' = [status EXCEPT ![r] = "processing"],
           UNCHANGED <<debit, reversal, swap, opening>>,
           \A q \in Request : holder[q] # None => holder'[q] # None
    PROVE  Consistent'
<1>1. \A q \in Request : status'[q] = IF q = r THEN "processing" ELSE status[q]
    BY DEF TypeOK
<1>2. OneOpenWithdrawal'
    BY <1>1 DEF Consistent, OneOpenWithdrawal, Open, OpenStatus
<1>3. LedgerMatchesOutcome'
    BY <1>1 DEF Consistent, LedgerMatchesOutcome
<1>4. PayoutHasPayer'
    BY <1>1 DEF Consistent, PayoutHasPayer
<1>5. OpeningIsNew'
    BY <1>1 DEF Consistent, OpeningIsNew, TypeOK
<1> QED BY <1>2, <1>3, <1>4, <1>5 DEF Consistent

\* A request that ends, with the ledger rows that its end calls for.
LEMMA EndedStep ==
    ASSUME TypeOK, Consistent, NEW r \in Request, NEW end \in FinalStatus,
           status[r] \in OpenStatus,
           status' = [status EXCEPT ![r] = end],
           debit' = [debit EXCEPT ![r] = IF end \in {"completed", "failed"} THEN end ELSE @],
           \A q \in Request \ {r} : swap'[q] = swap[q] /\ (q \in reversal' <=> q \in reversal),
           swap'[r] # None => end = "completed",
           r \in reversal' => end \in {"rejected", "cancelled"},
           end = "completed" => swap'[r] # None \/ holder[r] # None,
           UNCHANGED <<holder, opening>>
    PROVE  Consistent'
<1>1. \A q \in Request : status'[q] = IF q = r THEN end ELSE status[q]
    BY DEF TypeOK
<1>2. \A q \in Request :
        debit'[q] = IF q = r /\ end \in {"completed", "failed"} THEN end ELSE debit[q]
    BY DEF TypeOK
<1>3. debit[r] = "pending"
    BY DEF Consistent, LedgerMatchesOutcome, TypeOK, OpenStatus
<1>4. OneOpenWithdrawal'
    BY <1>1 DEF Consistent, OneOpenWithdrawal, Open, OpenStatus, FinalStatus, ReversedStatus
<1>5. LedgerMatchesOutcome'
    BY <1>1, <1>2, <1>3 DEF Consistent, LedgerMatchesOutcome, FinalStatus, ReversedStatus
<1>6. PayoutHasPayer'
    BY <1>1 DEF Consistent, PayoutHasPayer
<1>7. OpeningIsNew'
    BY <1>1 DEF Consistent, OpeningIsNew, TypeOK, OpenStatus
<1> QED BY <1>4, <1>5, <1>6, <1>7 DEF Consistent

LEMMA ConsistentStep == TypeOK /\ Consistent /\ [Next]_vars => Consistent'
<1> SUFFICES ASSUME TypeOK, Consistent, [Next]_vars PROVE Consistent'
    OBVIOUS
<1>1. ASSUME NEW r \in Request, CheckOpenWithdrawal(r) PROVE Consistent'
    BY <1>1, QuietStep DEF CheckOpenWithdrawal, requestVars, ledgerVars
<1>2. ASSUME NEW r \in Request, InitiateWithdrawal(r) PROVE Consistent'
    <2>1. /\ status[r] = "none" /\ debit[r] = "none"
          /\ r \notin reversal /\ swap[r] = None
          /\ \A q \in Open : Owner[q] # Owner[r]
        BY <1>2 DEF InitiateWithdrawal, HasOpenWithdrawal, Consistent, OpeningIsNew,
            LedgerMatchesOutcome
    <2>2. \A q \in Request : /\ status'[q] = IF q = r THEN "pending" ELSE status[q]
                             /\ debit'[q] = IF q = r THEN "pending" ELSE debit[q]
        BY <1>2 DEF InitiateWithdrawal, TypeOK
    <2>3. UNCHANGED <<reversal, swap, holder>> /\ opening' = opening \ {r}
        BY <1>2 DEF InitiateWithdrawal
    <2>4. OneOpenWithdrawal'
        BY <2>1, <2>2 DEF Consistent, OneOpenWithdrawal, Open, OpenStatus
    <2>5. LedgerMatchesOutcome'
        BY <2>1, <2>2, <2>3 DEF Consistent, LedgerMatchesOutcome
    <2>6. PayoutHasPayer'
        BY <2>2, <2>3 DEF Consistent, PayoutHasPayer
    <2>7. OpeningIsNew'
        BY <2>2, <2>3 DEF Consistent, OpeningIsNew, TypeOK
    <2> QED BY <2>4, <2>5, <2>6, <2>7 DEF Consistent
<1>3. ASSUME NEW r \in Request, RefuseInitiate(r) PROVE Consistent'
    BY <1>3, QuietStep DEF RefuseInitiate, requestVars, ledgerVars
<1>4. ASSUME NEW e \in Reversal, ReadForReversal(e) \/ RefuseReversal(e) PROVE Consistent'
    BY <1>4, QuietStep DEF ReadForReversal, RefuseReversal, requestVars, ledgerVars
<1>5. ASSUME NEW e \in Reversal, CommitReversal(e) PROVE Consistent'
    <2> DEFINE r == e.request
    <2>1. r \in Request /\ e.to \in {"rejected", "cancelled"} /\ status[r] \in OpenStatus
        BY <1>5 DEF Reversal, CommitReversal
    <2>2. debit[r] = "pending" /\ swap[r] = None
        BY <2>1 DEF Consistent, LedgerMatchesOutcome, OpenStatus, TypeOK
    <2>3. /\ status' = [status EXCEPT ![r] = e.to]
          /\ debit' = [debit EXCEPT ![r] = IF e.to \in {"completed", "failed"} THEN e.to ELSE @]
          /\ reversal' = reversal \cup {r}
          /\ UNCHANGED <<swap, holder, opening>>
        BY <1>5, <2>1 DEF CommitReversal, TypeOK
    <2>4. e.to \in FinalStatus /\ e.to # "completed"
        BY <2>1 DEF FinalStatus, ReversedStatus
    <2> HIDE DEF r
    <2> QED BY <2>1, <2>2, <2>3, <2>4, EndedStep
<1>6. ASSUME NEW r \in Request, PickAgentForWithdrawal(r) PROVE Consistent'
    BY <1>6, QuietStep DEF PickAgentForWithdrawal, requestVars, ledgerVars
<1>7. ASSUME NEW d \in Command, DrainWithdrawalQueue(d) PROVE Consistent'
    BY <1>7, QuietStep DEF DrainWithdrawalQueue, requestVars, ledgerVars
<1>8. ASSUME NEW e \in routing, SkipDispatch(e) PROVE Consistent'
    BY <1>8, QuietStep DEF SkipDispatch, requestVars, ledgerVars
<1>9. ASSUME NEW e \in routing, NEW c \in Command, DispatchWithdrawal(e, c) PROVE Consistent'
    <2>1. e.request \in Request
        BY DEF TypeOK
    <2> QED BY <1>9, <2>1, TakenStep DEF DispatchWithdrawal, ledgerVars
<1>10. ASSUME NEW c \in Command, NEW result \in {"success", "failed"},
              RecordCommandResult(c, result)
       PROVE Consistent'
    <2> DEFINE r == command[c].request
    <2>1. r \in Request /\ command[c].agent \in Agent
        BY <1>10 DEF RecordCommandResult, IssuedCommand, TypeOK, WithdrawCommand, NoCommand
    <2>2. UNCHANGED opening
        BY <1>10 DEF RecordCommandResult
    <2>3. CASE RecordFailure(c)
        <3>1. /\ status[r] \in OpenStatus /\ r \notin reversal /\ swap[r] = None
              /\ status' = [status EXCEPT ![r] = "failed"]
              /\ debit' = [debit EXCEPT ![r] = "failed"]
              /\ UNCHANGED <<swap, reversal, holder>>
            BY <2>1, <2>3 DEF RecordFailure, Consistent, LedgerMatchesOutcome, OpenStatus
        <3> HIDE DEF r
        <3> QED BY <2>1, <2>2, <3>1, EndedStep DEF FinalStatus, ReversedStatus
    <2>4. CASE RecordSuccess(c)
        <3>1. /\ status[r] \in OpenStatus /\ r \notin reversal
              /\ status' = [status EXCEPT ![r] = "completed"]
              /\ debit' = [debit EXCEPT ![r] = "completed"]
              /\ swap' = [swap EXCEPT ![r] = command[c].agent]
              /\ UNCHANGED <<reversal, holder>>
            BY <2>1, <2>4 DEF RecordSuccess, Consistent, LedgerMatchesOutcome, OpenStatus
        <3>2. swap'[r] # None
            BY <2>1, <3>1, NoneAssumption DEF TypeOK
        <3>3. \A q \in Request \ {r} : swap'[q] = swap[q]
            BY <3>1 DEF TypeOK
        <3> HIDE DEF r
        <3> QED BY <2>1, <2>2, <3>1, <3>2, <3>3, EndedStep DEF FinalStatus
    <2>5. CASE RecordIgnored(c, result)
        BY <2>2, <2>5, QuietStep DEF RecordIgnored, requestVars, ledgerVars
    <2> QED BY <1>10, <2>3, <2>4, <2>5 DEF RecordCommandResult
<1>11. ASSUME NEW r \in Request, NEW k \in Cashier, ClaimWithdrawal(r, k) PROVE Consistent'
    <2>1. \A q \in Request : holder[q] # None => holder'[q] # None
        BY <1>11, NoneAssumption DEF ClaimWithdrawal, TypeOK
    <2> QED BY <1>11, <2>1, TakenStep DEF ClaimWithdrawal, ledgerVars, txnVars
<1>12. ASSUME NEW r \in Request, NEW k \in Cashier, CompleteWithdrawal(r, k) PROVE Consistent'
    <2>1. /\ status[r] \in OpenStatus /\ r \notin reversal /\ swap[r] = None
          /\ holder[r] # None
        BY <1>12, NoneAssumption
        DEF CompleteWithdrawal, Consistent, LedgerMatchesOutcome, OpenStatus
    <2> QED BY <1>12, <2>1, EndedStep DEF CompleteWithdrawal, FinalStatus, txnVars
<1>13. ASSUME NEW r \in Request, ApproveWithdrawal(r) PROVE Consistent'
    BY <1>13, TakenStep DEF ApproveWithdrawal, ledgerVars, txnVars
<1>14. ASSUME NEW r \in Request, RejectWithdrawal(r) PROVE Consistent'
    <2>1. r \notin reversal /\ swap[r] = None
        BY <1>14 DEF RejectWithdrawal, Consistent, LedgerMatchesOutcome, OpenStatus
    <2>2. debit' = [debit EXCEPT ![r] = IF "rejected" \in {"completed", "failed"}
                                        THEN "rejected" ELSE @]
        BY <1>14 DEF RejectWithdrawal, ledgerVars, TypeOK
    <2> QED BY <1>14, <2>1, <2>2, EndedStep
        DEF RejectWithdrawal, FinalStatus, ReversedStatus, ledgerVars, txnVars
<1>15. ASSUME NEW r \in Request, NEW a \in Agent, ReadForSwitch(r, a) PROVE Consistent'
    BY <1>15, QuietStep DEF ReadForSwitch, requestVars, ledgerVars
<1>16. ASSUME NEW e \in switching, NEW c \in Command, SwitchWithdrawalWallet(e, c)
       PROVE Consistent'
    BY <1>16, QuietStep DEF SwitchWithdrawalWallet, requestVars, ledgerVars
<1>17. ASSUME NEW c \in Command, NEW s \in CommandStatus \ {"pending"},
              UpdateCommandStatus(c, s)
       PROVE Consistent'
    BY <1>17, QuietStep DEF UpdateCommandStatus, requestVars, ledgerVars, txnVars
<1>18. ASSUME NEW a \in Agent, AgentSeen(a) \/ AgentSilent(a) PROVE Consistent'
    BY <1>18, QuietStep DEF AgentSeen, AgentSilent, requestVars, ledgerVars, txnVars
<1>19. CASE RestartServer
    BY <1>19, QuietStep DEF RestartServer, requestVars, ledgerVars
<1>20. CASE UNCHANGED vars
    BY <1>20, QuietStep DEF vars, requestVars, ledgerVars, txnVars
<1> QED
    BY <1>1, <1>2, <1>3, <1>4, <1>5, <1>6, <1>7, <1>8, <1>9, <1>10, <1>11, <1>12, <1>13,
       <1>14, <1>15, <1>16, <1>17, <1>18, <1>19, <1>20
    DEF Next, UserStep, ReversalStep, DispatchStep, CashierStep, OperatorStep, ReportStep,
        PresenceStep

LEMMA ConsistentInit == Init => Consistent
BY DEF Init, Consistent, OneOpenWithdrawal, LedgerMatchesOutcome, PayoutHasPayer,
   OpeningIsNew, Open, OpenStatus

LEMMA Invariance == Spec => [](TypeOK /\ Consistent)
BY TypeInit, TypeStep, ConsistentInit, ConsistentStep, PTL DEF Spec

\* A payout and a refund exclude each other, whoever of the user, the cashiers,
\* the administrators and the agents comes first.
THEOREM LedgerCorrect == Spec => []LedgerMatchesOutcome
BY Invariance, PTL DEF Consistent

\* Every completed payout is accounted for by an agent's swap or a cashier.
THEOREM PayoutAccounted == Spec => []PayoutHasPayer
BY Invariance, PTL DEF Consistent

\* The check and the insert of initiateWithdrawal are apart, and still no user
\* ever has two open requests.
THEOREM OneOpenPerUser == Spec => []OneOpenWithdrawal
BY Invariance, PTL DEF Consistent

-----------------------------------------------------------------------------
\* A step moves a request forward only: what has ended stays as it is, what is
\* in processing does not return to the queue.
Forward ==
    \A r \in Request :
        /\ status[r] \in FinalStatus => status'[r] = status[r]
        /\ status[r] = "processing" => status'[r] \notin {"none", "pending"}

LEMMA ForwardStep == TypeOK /\ Consistent /\ [Next]_vars => Forward
<1> SUFFICES ASSUME TypeOK, Consistent, [Next]_vars PROVE Forward
    OBVIOUS
<1>1. ASSUME UNCHANGED status PROVE Forward
    BY <1>1 DEF Forward
<1>2. ASSUME NEW r \in Request, NEW s, status[r] \notin FinalStatus,
             status[r] = "processing" => s \notin {"none", "pending"},
             status' = [status EXCEPT ![r] = s]
      PROVE  Forward
    BY <1>2 DEF Forward, TypeOK
<1>3. ASSUME NEW r \in Request, InitiateWithdrawal(r) PROVE Forward
    <2>1. status[r] = "none"
        BY <1>3 DEF InitiateWithdrawal, Consistent, OpeningIsNew
    <2> QED BY <1>2, <1>3, <2>1 DEF InitiateWithdrawal, FinalStatus, ReversedStatus
<1>4. ASSUME NEW e \in Reversal, CommitReversal(e) PROVE Forward
    <2>1. e.request \in Request /\ e.to \in {"rejected", "cancelled"}
        BY DEF Reversal
    <2> QED BY <1>2, <1>4, <2>1 DEF CommitReversal, OpenStatus, FinalStatus, ReversedStatus
<1>5. ASSUME NEW e \in routing, NEW c \in Command, DispatchWithdrawal(e, c) PROVE Forward
    <2>1. e.request \in Request
        BY DEF TypeOK
    <2> QED BY <1>2, <1>5, <2>1 DEF DispatchWithdrawal, FinalStatus, ReversedStatus
<1>6. ASSUME NEW c \in Command, NEW result \in {"success", "failed"},
             RecordCommandResult(c, result)
      PROVE  Forward
    <2>1. command[c].request \in Request
        BY <1>6 DEF RecordCommandResult, IssuedCommand, TypeOK, WithdrawCommand, NoCommand
    <2>2. CASE RecordFailure(c)
        BY <1>2, <2>1, <2>2 DEF RecordFailure, OpenStatus, FinalStatus, ReversedStatus
    <2>3. CASE RecordSuccess(c)
        BY <1>2, <2>1, <2>3 DEF RecordSuccess, OpenStatus, FinalStatus, ReversedStatus
    <2>4. CASE RecordIgnored(c, result)
        BY <1>1, <2>4 DEF RecordIgnored, requestVars
    <2> QED BY <1>6, <2>2, <2>3, <2>4 DEF RecordCommandResult
<1>7. ASSUME NEW r \in Request, NEW k \in Cashier,
             ClaimWithdrawal(r, k) \/ CompleteWithdrawal(r, k)
      PROVE  Forward
    BY <1>2, <1>7 DEF ClaimWithdrawal, CompleteWithdrawal, FinalStatus, ReversedStatus
<1>8. ASSUME NEW r \in Request, ApproveWithdrawal(r) \/ RejectWithdrawal(r) PROVE Forward
    BY <1>2, <1>8 DEF ApproveWithdrawal, RejectWithdrawal, OpenStatus, FinalStatus,
        ReversedStatus
<1>9. ASSUME UNCHANGED requestVars PROVE Forward
    BY <1>1, <1>9 DEF requestVars
<1> QED
    BY <1>3, <1>4, <1>5, <1>6, <1>7, <1>8, <1>9
    DEF Next, UserStep, ReversalStep, DispatchStep, CashierStep, OperatorStep, ReportStep,
        PresenceStep, CheckOpenWithdrawal, RefuseInitiate, ReadForReversal, RefuseReversal,
        PickAgentForWithdrawal, DrainWithdrawalQueue, SkipDispatch, ReadForSwitch,
        SwitchWithdrawalWallet, UpdateCommandStatus, AgentSeen, AgentSilent, RestartServer,
        vars

\* The outcome of a request is final.
THEOREM OutcomeFinal == Spec => OutcomeIsFinal
<1>1. TypeOK /\ Consistent /\ [Next]_vars =>
        [\A r \in Request : status[r] \in FinalStatus => status'[r] = status[r]]_vars
    BY ForwardStep DEF Forward
<1> QED BY <1>1, Invariance, PTL DEF Spec, OutcomeIsFinal

-----------------------------------------------------------------------------
\* Without the P2P desk a request gets its command when it leaves the queue.
CommandedOnce ==
    Operator = {} =>
        /\ \A c \in IssuedCommand : status[command[c].request] \notin {"none", "pending"}
        /\ \A c, d \in IssuedCommand : command[c].request = command[d].request => c = d

\* No command is issued, whatever becomes of the issued ones.
LEMMA NothingIssuedStep ==
    ASSUME TypeOK, Forward, CommandedOnce,
           \A c \in Command : command'[c].status # "none" =>
               command[c].status # "none" /\ command'[c].request = command[c].request
    PROVE  CommandedOnce'
<1>1. \A c \in IssuedCommand : command[c].request \in Request
    BY DEF IssuedCommand, TypeOK, WithdrawCommand, NoCommand
<1>2. \A c \in IssuedCommand' : c \in IssuedCommand /\ command'[c].request = command[c].request
    BY DEF IssuedCommand
<1> QED
    BY <1>1, <1>2
    DEF CommandedOnce, Forward, TypeOK, OpenStatus, FinalStatus, ReversedStatus

LEMMA CommandedOnceStep ==
    TypeOK /\ Consistent /\ CommandedOnce /\ [Next]_vars => CommandedOnce'
<1> SUFFICES ASSUME TypeOK, Consistent, CommandedOnce, [Next]_vars, Operator = {}
             PROVE  CommandedOnce'
    BY DEF CommandedOnce
<1>1. Forward
    BY ForwardStep
<1>2. ASSUME UNCHANGED command PROVE CommandedOnce'
    BY <1>1, <1>2, NothingIssuedStep
<1>3. ASSUME NEW e \in routing, NEW c \in Command, DispatchWithdrawal(e, c)
      PROVE  CommandedOnce'
    <2>1. e.request \in Request /\ c \notin IssuedCommand
        BY <1>3 DEF DispatchWithdrawal, IssueWithdrawCommand, FreshCommand, TypeOK
    <2>2. status'[e.request] = "processing" /\ status[e.request] = "pending"
        BY <1>3, <2>1 DEF DispatchWithdrawal, TypeOK
    <2>3. /\ command'[c].request = e.request
          /\ \A d \in Command \ {c} : command'[d] = command[d]
        BY <1>3 DEF DispatchWithdrawal, IssueWithdrawCommand, TypeOK
    <2>4. \A d \in IssuedCommand' : d = c \/ (d \in IssuedCommand /\ command'[d] = command[d])
        BY <2>3 DEF IssuedCommand
    <2>5. \A d \in IssuedCommand : command[d].request \in Request
        BY DEF IssuedCommand, TypeOK, WithdrawCommand, NoCommand
    <2>6. \A d \in IssuedCommand : command[d].request # e.request
        BY <2>2 DEF CommandedOnce
    <2>7. \A d \in IssuedCommand : status'[command[d].request] \notin {"none", "pending"}
        BY <1>1, <2>5 DEF CommandedOnce, Forward, TypeOK, OpenStatus, FinalStatus, ReversedStatus
    <2> QED BY <2>2, <2>3, <2>4, <2>6, <2>7 DEF CommandedOnce
<1>4. ASSUME NEW c \in Command, NEW result \in {"success", "failed"},
             RecordCommandResult(c, result)
      PROVE  CommandedOnce'
    <2>1. \E s \in CommandStatus : command' = [command EXCEPT ![c].status = s]
        BY <1>4 DEF RecordCommandResult, RecordFailure, RecordSuccess, RecordIgnored, CommandStatus
    <2>2. command[c].status # "none" /\ command[c] \in WithdrawCommand
        BY <1>4 DEF RecordCommandResult, IssuedCommand, TypeOK, NoCommand
    <2>3. \A d \in Command : command'[d].status # "none" =>
            command[d].status # "none" /\ command'[d].request = command[d].request
        BY <2>1, <2>2 DEF TypeOK, WithdrawCommand
    <2> QED BY <1>1, <2>3, NothingIssuedStep
<1> QED
    BY <1>2, <1>3, <1>4
    DEF Next, UserStep, ReversalStep, DispatchStep, CashierStep, OperatorStep, ReportStep,
        PresenceStep, CheckOpenWithdrawal, InitiateWithdrawal, RefuseInitiate, ReadForReversal,
        CommitReversal, RefuseReversal, PickAgentForWithdrawal, DrainWithdrawalQueue,
        SkipDispatch, ClaimWithdrawal, CompleteWithdrawal, AgentSeen, AgentSilent,
        RestartServer, vars

\* The initiate handler, the drains and the restarts of the server together
\* send a request to at most one phone.
THEOREM DispatchedOnce == Spec => []DispatchedAtMostOnce
<1>1. Init => CommandedOnce
    BY DEF Init, CommandedOnce, IssuedCommand, NoCommand
<1>2. CommandedOnce => DispatchedAtMostOnce
    BY DEF CommandedOnce, DispatchedAtMostOnce
<1> QED BY <1>1, <1>2, CommandedOnceStep, Invariance, PTL DEF Spec

-----------------------------------------------------------------------------
\* The refinement of the escrow.

Funds == [u \in User |-> balance[u] + withdrawable[u]]

LEMMA EscrowInit == Init => Escrow!Init
BY WalletAssumption DEF Init, Escrow!Init, EscrowOf

\* An amount is added to the funds of one user, or taken from them, in
\* whichever bucket.
LEMMA FundsCredited ==
    ASSUME TypeOK, NEW u \in User, NEW amount \in Nat,
           \/ /\ balance' = [balance EXCEPT ![u] = @ + amount]
              /\ withdrawable' = withdrawable
           \/ /\ withdrawable' = [withdrawable EXCEPT ![u] = @ + amount]
              /\ balance' = balance
    PROVE  Funds' = [Funds EXCEPT ![u] = @ + amount]
<1>1. \A v \in User : balance[v] \in Nat /\ withdrawable[v] \in Nat
    BY DEF TypeOK
<1>2. \A v \in User : balance'[v] + withdrawable'[v] =
        IF v = u THEN balance[v] + withdrawable[v] + amount ELSE balance[v] + withdrawable[v]
    BY <1>1 DEF TypeOK
<1> QED BY <1>2 DEF Funds

LEMMA FundsDebited ==
    ASSUME TypeOK, NEW u \in User, NEW amount \in Nat, DebitWallet(u, amount)
    PROVE  amount <= Funds[u] /\ Funds' = [Funds EXCEPT ![u] = @ - amount]
<1>1. \A v \in User : balance[v] \in Nat /\ withdrawable[v] \in Nat
    BY DEF TypeOK
<1>2. \/ /\ withdrawable[u] >= amount
         /\ withdrawable' = [withdrawable EXCEPT ![u] = @ - amount]
         /\ balance' = balance
      \/ /\ balance[u] >= amount
         /\ balance' = [balance EXCEPT ![u] = @ - amount]
         /\ withdrawable' = withdrawable
    BY DEF DebitWallet
<1>3. \A v \in User : balance'[v] + withdrawable'[v] =
        IF v = u THEN (balance[v] + withdrawable[v]) - amount ELSE balance[v] + withdrawable[v]
    BY <1>1, <1>2 DEF TypeOK
<1>4. amount <= balance[u] + withdrawable[u]
    BY <1>1, <1>2
<1>5. amount <= Funds[u]
    BY <1>4 DEF Funds
<1>6. Funds' = [Funds EXCEPT ![u] = @ - amount]
    BY <1>3 DEF Funds
<1> QED BY <1>5, <1>6

\* Neither a wallet nor a ledger row is written.
LEMMA EscrowQuiet ==
    ASSUME UNCHANGED <<balance, withdrawable, debit, reversal>>
    PROVE  UNCHANGED Escrow!vars
BY DEF Escrow!vars, EscrowOf

\* One request r moves to the place p.
LEMMA EscrowMoves ==
    ASSUME TypeOK, NEW r \in Request, NEW p, EscrowOf(r)' = p,
           \A q \in Request \ {r} :
               debit'[q] = debit[q] /\ (q \in reversal' <=> q \in reversal)
    PROVE  [q \in Request |-> EscrowOf(q)]' =
               [[q \in Request |-> EscrowOf(q)] EXCEPT ![r] = p]
BY DEF EscrowOf

LEMMA EscrowStep == TypeOK /\ Consistent /\ [Next]_vars => [Escrow!Next]_(Escrow!vars)
<1> SUFFICES ASSUME TypeOK, Consistent, [Next]_vars PROVE [Escrow!Next]_(Escrow!vars)
    OBVIOUS
<1>0. ASSUME UNCHANGED <<balance, withdrawable, debit, reversal>>
      PROVE  [Escrow!Next]_(Escrow!vars)
    BY <1>0, EscrowQuiet
<1>1. \A r \in Request : status[r] \in OpenStatus => debit[r] = "pending" /\ r \notin reversal
    BY DEF Consistent, LedgerMatchesOutcome, TypeOK, OpenStatus
<1>2. ASSUME NEW r \in Request, InitiateWithdrawal(r) PROVE Escrow!Hold(r)
    <2>1. Owner[r] \in User /\ Amount[r] \in Nat
        BY RequestAssumption
    <2>2. debit[r] = "none" /\ r \notin reversal
        BY <1>2 DEF InitiateWithdrawal, Consistent, OpeningIsNew, LedgerMatchesOutcome
    <2>3. DebitWallet(Owner[r], Amount[r])
        BY <1>2 DEF InitiateWithdrawal
    <2>4. Amount[r] <= Funds[Owner[r]] /\ Funds' = [Funds EXCEPT ![Owner[r]] = @ - Amount[r]]
        BY <2>1, <2>3, FundsDebited
    <2>5. EscrowOf(r) = "idle" /\ EscrowOf(r)' = "held"
        BY <1>2, <2>2 DEF InitiateWithdrawal, EscrowOf, TypeOK
    <2>6. [q \in Request |-> EscrowOf(q)]' = [[q \in Request |-> EscrowOf(q)] EXCEPT ![r] = "held"]
        BY <1>2, <2>5, EscrowMoves DEF InitiateWithdrawal, TypeOK
    <2> QED BY <2>1, <2>4, <2>5, <2>6 DEF Escrow!Hold, Funds
<1>3. ASSUME NEW e \in Reversal, CommitReversal(e) PROVE Escrow!Return(e.request)
    <2> DEFINE r == e.request
    <2>1. r \in Request /\ Owner[r] \in User /\ Amount[r] \in Nat
        BY RequestAssumption DEF Reversal
    <2>2. /\ debit[r] = "pending" /\ debit' = debit
          /\ reversal' = reversal \cup {r} /\ r \notin reversal
          /\ balance' = [balance EXCEPT ![Owner[r]] = @ + Amount[r]]
          /\ withdrawable' = withdrawable
        BY <1>1, <1>3, <2>1 DEF CommitReversal
    <2> HIDE DEF r
    <2>3. Funds' = [Funds EXCEPT ![Owner[r]] = @ + Amount[r]]
        BY <2>1, <2>2, FundsCredited
    <2>4. EscrowOf(r) = "held" /\ EscrowOf(r)' = "returned"
        BY <2>2 DEF EscrowOf
    <2>5. [q \in Request |-> EscrowOf(q)]' = [[q \in Request |-> EscrowOf(q)] EXCEPT ![r] = "returned"]
        BY <2>1, <2>2, <2>4, EscrowMoves
    <2>6. Escrow!Return(r)
        BY <2>1, <2>3, <2>4, <2>5 DEF Escrow!Return, Funds
    <2> QED BY <2>6 DEF r
<1>4. ASSUME NEW c \in Command, NEW result \in {"success", "failed"},
             RecordCommandResult(c, result)
      PROVE  [Escrow!Next]_(Escrow!vars)
    <2>1. PICK r \in Request : r = command[c].request
        BY <1>4 DEF RecordCommandResult, IssuedCommand, TypeOK, WithdrawCommand, NoCommand
    <2>5. Owner[r] \in User /\ Amount[r] \in Nat
        BY RequestAssumption
    <2>2. CASE RecordFailure(c)
        <3>1. /\ debit[r] = "pending" /\ r \notin reversal /\ reversal' = reversal
              /\ debit' = [debit EXCEPT ![r] = "failed"]
              /\ withdrawable' = [withdrawable EXCEPT ![Owner[r]] = @ + Amount[r]]
              /\ balance' = balance
            BY <1>1, <2>1, <2>2 DEF RecordFailure
        <3>2. Funds' = [Funds EXCEPT ![Owner[r]] = @ + Amount[r]]
            BY <2>5, <3>1, FundsCredited
        <3>3. EscrowOf(r) = "held" /\ EscrowOf(r)' = "returned"
            BY <3>1 DEF EscrowOf, TypeOK
        <3>4. [q \in Request |-> EscrowOf(q)]' =
                  [[q \in Request |-> EscrowOf(q)] EXCEPT ![r] = "returned"]
            BY <3>1, <3>3, EscrowMoves DEF TypeOK
        <3>5. Escrow!Return(r)
            BY <3>2, <3>3, <3>4 DEF Escrow!Return, Funds
        <3> QED BY <3>5 DEF Escrow!Next
    <2>3. CASE RecordSuccess(c)
        <3>1. /\ debit[r] = "pending" /\ r \notin reversal /\ reversal' = reversal
              /\ debit' = [debit EXCEPT ![r] = "completed"]
              /\ UNCHANGED <<balance, withdrawable>>
            BY <1>1, <2>1, <2>3 DEF RecordSuccess, walletVars
        <3>2. EscrowOf(r) = "held" /\ EscrowOf(r)' = "paid"
            BY <3>1 DEF EscrowOf, TypeOK
        <3>3. [q \in Request |-> EscrowOf(q)]' =
                  [[q \in Request |-> EscrowOf(q)] EXCEPT ![r] = "paid"]
            BY <3>1, <3>2, EscrowMoves DEF TypeOK
        <3>4. Escrow!Pay(r)
            BY <3>1, <3>2, <3>3 DEF Escrow!Pay
        <3> QED BY <3>4 DEF Escrow!Next
    <2>4. CASE RecordIgnored(c, result)
        BY <1>0, <2>4 DEF RecordIgnored, walletVars, ledgerVars
    <2> QED BY <1>4, <2>2, <2>3, <2>4 DEF RecordCommandResult
<1>5. ASSUME NEW r \in Request, NEW k \in Cashier, CompleteWithdrawal(r, k) PROVE Escrow!Pay(r)
    <2>1. /\ debit[r] = "pending" /\ r \notin reversal /\ reversal' = reversal
          /\ debit' = [debit EXCEPT ![r] = "completed"]
          /\ UNCHANGED <<balance, withdrawable>>
        BY <1>1, <1>5 DEF CompleteWithdrawal, OpenStatus, walletVars
    <2>2. EscrowOf(r) = "held" /\ EscrowOf(r)' = "paid"
        BY <2>1 DEF EscrowOf, TypeOK
    <2>3. [q \in Request |-> EscrowOf(q)]' = [[q \in Request |-> EscrowOf(q)] EXCEPT ![r] = "paid"]
        BY <2>1, <2>2, EscrowMoves DEF TypeOK
    <2> QED BY <2>1, <2>2, <2>3 DEF Escrow!Pay
<1>6. ASSUME UNCHANGED <<walletVars, ledgerVars>> PROVE [Escrow!Next]_(Escrow!vars)
    BY <1>0, <1>6 DEF walletVars, ledgerVars
<1>7. ASSUME NEW e \in Reversal, CommitReversal(e) PROVE Escrow!Next
    BY <1>3, <1>7 DEF Escrow!Next, Reversal
<1> QED
    BY <1>2, <1>4, <1>5, <1>6, <1>7
    DEF Next, UserStep, ReversalStep, DispatchStep, CashierStep, OperatorStep, ReportStep,
        PresenceStep, CheckOpenWithdrawal, RefuseInitiate, ReadForReversal, RefuseReversal,
        PickAgentForWithdrawal, DrainWithdrawalQueue, DispatchWithdrawal, SkipDispatch,
        ClaimWithdrawal, ApproveWithdrawal, RejectWithdrawal, ReadForSwitch,
        SwitchWithdrawalWallet, UpdateCommandStatus, AgentSeen, AgentSilent, RestartServer,
        vars, Escrow!Next

\* The back end implements the escrow: whatever anyone does and in whatever
\* order, the amount of a request is held once and leaves the escrow at most
\* once, in full, to the payout or back to the user.
THEOREM WithdrawalImplementsEscrow == Spec => ImplementsEscrow
<1>1. Spec => [](TypeOK /\ Consistent)
    BY Invariance
<1> QED BY <1>1, EscrowInit, EscrowStep, PTL DEF Spec, ImplementsEscrow, Escrow!Spec

-----------------------------------------------------------------------------
(* The wallet and its ledger.  The refinement carries the sum: only the    *)
(* three steps of the escrow move money, and each moves one request into   *)
(* or out of what is held.                                                 *)

Booked(u) == SumFunctionOnSet(Amount, HeldBy(u))

\* What counts against the wallet is what the escrow holds or has paid out.
HeldIsEscrow == \A r \in Request : Held(r) <=> EscrowOf(r) \in {"held", "paid"}

LEMMA HeldInEscrow == TypeOK /\ Consistent => HeldIsEscrow
BY DEF TypeOK, Consistent, LedgerMatchesOutcome, HeldIsEscrow, Held, EscrowOf

LEMMA HeldFinite ==
    ASSUME NEW T \in SUBSET Request
    PROVE  /\ IsFiniteSet(T) /\ SumFunctionOnSet(Amount, T) \in Nat
           /\ \A r \in T : Amount[r] \in Int
<1>1. IsFiniteSet(T) BY RequestAssumption, FS_Subset
<1>2. \A r \in T : Amount[r] \in Nat BY RequestAssumption
<1> QED BY <1>1, <1>2, SumNat

\* A request is taken into a set of requests, or out of it.
LEMMA HeldWith ==
    ASSUME NEW T \in SUBSET Request, NEW r \in Request, r \notin T
    PROVE  SumFunctionOnSet(Amount, T \cup {r}) = SumFunctionOnSet(Amount, T) + Amount[r]
BY HeldFinite, SumAdd, RequestAssumption

LEMMA HeldWithout ==
    ASSUME NEW T \in SUBSET Request, NEW r \in T
    PROVE  SumFunctionOnSet(Amount, T) = SumFunctionOnSet(Amount, T \ {r}) + Amount[r]
<1> DEFINE R == T \ {r}
<1>1. R \in SUBSET Request /\ r \notin R /\ R \cup {r} = T OBVIOUS
<1> HIDE DEF R
<1>2. SumFunctionOnSet(Amount, R \cup {r}) = SumFunctionOnSet(Amount, R) + Amount[r]
  BY <1>1, HeldWith
<1> QED BY <1>1, <1>2 DEF R

\* The places of the requests before and after a step, which is all that what
\* is held depends on.
Place == [r \in Request |-> EscrowOf(r)]
HeldAt(place, u) == {r \in Request : Owner[r] = u /\ place[r] \in {"held", "paid"}}

LEMMA BookedAt == ASSUME HeldIsEscrow, NEW u PROVE Booked(u) = SumFunctionOnSet(Amount, HeldAt(Place, u))
<1>1. HeldBy(u) = HeldAt(Place, u) BY DEF HeldIsEscrow, HeldBy, HeldAt, Place
<1> QED BY <1>1 DEF Booked

LEMMA BookedAtNext ==
    ASSUME HeldIsEscrow', NEW u PROVE Booked(u)' = SumFunctionOnSet(Amount, HeldAt(Place', u))
<1>1. HeldBy(u)' = HeldAt(Place', u) BY DEF HeldIsEscrow, HeldBy, HeldAt, Place
<1> QED BY <1>1 DEF Booked

\* The funds of a user and what is held of him.
FundsMatch(funds, place) ==
    \A u \in User :
        funds[u] + SumFunctionOnSet(Amount, HeldAt(place, u))
            = OpeningBalance[u] + OpeningWithdrawable[u]

LEMMA MatchIsFundsMatch == HeldIsEscrow => (WalletMatchesLedger <=> FundsMatch(Funds, Place))
<1> SUFFICES ASSUME HeldIsEscrow PROVE WalletMatchesLedger <=> FundsMatch(Funds, Place)
  OBVIOUS
<1>1. \A u \in User : SumFunctionOnSet(Amount, HeldBy(u)) = SumFunctionOnSet(Amount, HeldAt(Place, u))
  BY BookedAt DEF Booked
<1> QED BY <1>1 DEF WalletMatchesLedger, FundsMatch, Funds

\* The three steps of the escrow.
LEMMA FundsMatchStep ==
    ASSUME NEW funds \in [User -> Nat], NEW place, NEW r \in Request, NEW fundsNext, NEW p,
           FundsMatch(funds, place), place \in [Request -> {"idle", "held", "paid", "returned"}],
           \/ /\ place[r] = "idle" /\ p = "held" /\ Amount[r] <= funds[Owner[r]]
              /\ fundsNext = [funds EXCEPT ![Owner[r]] = @ - Amount[r]]
           \/ place[r] = "held" /\ p = "paid" /\ fundsNext = funds
           \/ /\ place[r] = "held" /\ p = "returned"
              /\ fundsNext = [funds EXCEPT ![Owner[r]] = @ + Amount[r]]
    PROVE  FundsMatch(fundsNext, [place EXCEPT ![r] = p])
<1> DEFINE next == [place EXCEPT ![r] = p]
<1>1. Owner[r] \in User /\ Amount[r] \in Nat BY RequestAssumption
<1>2. ASSUME NEW u \in User
      PROVE  fundsNext[u] + SumFunctionOnSet(Amount, HeldAt(next, u))
                 = OpeningBalance[u] + OpeningWithdrawable[u]
  <2> DEFINE T == HeldAt(place, u)
             N == HeldAt(next, u)
  <2>1. T \in SUBSET Request /\ N \in SUBSET Request BY DEF HeldAt
  <2>2. SumFunctionOnSet(Amount, T) \in Nat /\ SumFunctionOnSet(Amount, N) \in Nat
    <3> HIDE DEF T, N
    <3> QED BY <2>1, HeldFinite
  <2>3. funds[u] + SumFunctionOnSet(Amount, T) = OpeningBalance[u] + OpeningWithdrawable[u]
    BY DEF FundsMatch
  <2>4. OpeningBalance[u] \in Nat /\ OpeningWithdrawable[u] \in Nat /\ funds[u] \in Nat
    BY WalletAssumption
  <2>5. CASE Owner[r] # u
    <3>1. N = T /\ fundsNext[u] = funds[u] BY <2>5 DEF HeldAt
    <3> HIDE DEF T, N
    <3> QED BY <2>3, <3>1 DEF N
  <2>6. CASE Owner[r] = u /\ place[r] = "idle"
    <3>1. r \notin T /\ N = T \cup {r} BY <2>6 DEF HeldAt
    <3>2. fundsNext[u] = funds[u] - Amount[r] /\ Amount[r] <= funds[u] BY <2>6
    <3> HIDE DEF T, N
    <3>3. SumFunctionOnSet(Amount, N) = SumFunctionOnSet(Amount, T) + Amount[r]
      BY <2>1, <3>1, HeldWith
    <3> QED BY <1>1, <2>2, <2>3, <2>4, <3>2, <3>3 DEF N
  <2>7. CASE Owner[r] = u /\ p = "paid"
    <3>1. N = T /\ fundsNext[u] = funds[u] BY <2>7 DEF HeldAt
    <3> HIDE DEF T, N
    <3> QED BY <2>3, <3>1 DEF N
  <2>8. CASE Owner[r] = u /\ p = "returned"
    <3>1. r \in T /\ N = T \ {r} BY <2>8 DEF HeldAt
    <3>2. fundsNext[u] = funds[u] + Amount[r] BY <2>8
    <3> HIDE DEF T, N
    <3>3. SumFunctionOnSet(Amount, T) = SumFunctionOnSet(Amount, N) + Amount[r]
      BY <2>1, <3>1, HeldWithout
    <3> QED BY <1>1, <2>2, <2>3, <2>4, <3>2, <3>3 DEF N
  <2> QED BY <2>5, <2>6, <2>7, <2>8
<1> QED BY <1>2 DEF FundsMatch

LEMMA WalletStep ==
    TypeOK /\ Consistent /\ WalletMatchesLedger /\ TypeOK' /\ Consistent' /\ [Next]_vars
      => WalletMatchesLedger'
<1> SUFFICES ASSUME TypeOK, Consistent, WalletMatchesLedger, TypeOK', Consistent', [Next]_vars
             PROVE  WalletMatchesLedger'
    OBVIOUS
<1>1. HeldIsEscrow BY HeldInEscrow
<1>2. HeldIsEscrow'
    BY DEF TypeOK, Consistent, LedgerMatchesOutcome, HeldIsEscrow, Held, EscrowOf
<1>3. FundsMatch(Funds, Place) BY <1>1, MatchIsFundsMatch
<1>4. FundsMatch(Funds', Place') => WalletMatchesLedger'
    <2>1. \A u \in User :
            SumFunctionOnSet(Amount, HeldBy(u)') = SumFunctionOnSet(Amount, HeldAt(Place', u))
        BY <1>2, BookedAtNext DEF Booked
    <2> QED BY <2>1 DEF WalletMatchesLedger, FundsMatch, Funds
<1>5. Funds \in [User -> Nat] BY DEF TypeOK, Funds
<1>6. Place \in [Request -> {"idle", "held", "paid", "returned"}]
    BY DEF Place, EscrowOf, TypeOK
<1>7. CASE UNCHANGED Escrow!vars
    <2>1. Funds' = Funds /\ Place' = Place BY <1>7 DEF Escrow!vars, Funds, Place
    <2> QED BY <1>3, <1>4, <2>1
<1>8. ASSUME NEW r \in Request, Escrow!Hold(r) PROVE FundsMatch(Funds', Place')
    <2>1. /\ Place[r] = "idle" /\ Amount[r] <= Funds[Owner[r]]
          /\ Funds' = [Funds EXCEPT ![Owner[r]] = @ - Amount[r]]
          /\ Place' = [Place EXCEPT ![r] = "held"]
        BY <1>8 DEF Escrow!Hold, Funds, Place
    <2> QED BY <1>3, <1>5, <1>6, <2>1, FundsMatchStep
<1>9. ASSUME NEW r \in Request, Escrow!Pay(r) PROVE FundsMatch(Funds', Place')
    <2>1. /\ Place[r] = "held" /\ Funds' = Funds /\ Place' = [Place EXCEPT ![r] = "paid"]
        BY <1>9 DEF Escrow!Pay, Funds, Place
    <2> QED BY <1>3, <1>5, <1>6, <2>1, FundsMatchStep
<1>10. ASSUME NEW r \in Request, Escrow!Return(r) PROVE FundsMatch(Funds', Place')
    <2>1. /\ Place[r] = "held"
          /\ Funds' = [Funds EXCEPT ![Owner[r]] = @ + Amount[r]]
          /\ Place' = [Place EXCEPT ![r] = "returned"]
        BY <1>10 DEF Escrow!Return, Funds, Place
    <2> QED BY <1>3, <1>5, <1>6, <2>1, FundsMatchStep
<1>11. [Escrow!Next]_(Escrow!vars) BY EscrowStep
<1> QED BY <1>4, <1>7, <1>8, <1>9, <1>10, <1>11 DEF Escrow!Next

LEMMA WalletInit == Init => WalletMatchesLedger
<1> SUFFICES ASSUME Init, NEW u \in User
             PROVE  balance[u] + withdrawable[u] + SumFunctionOnSet(Amount, HeldBy(u))
                        = OpeningBalance[u] + OpeningWithdrawable[u]
    BY DEF WalletMatchesLedger
<1>1. HeldBy(u) = {} BY DEF Init, HeldBy, Held
<1>2. SumFunctionOnSet(Amount, HeldBy(u)) = 0 BY <1>1, SumEmpty
<1> QED BY <1>2, WalletAssumption DEF Init

\* No amount is lost, debited twice or refunded twice, in whichever bucket it
\* moves: a wallet has lost what its requests hold or have paid out, and
\* nothing else (telebirr.withdrawal.service.ts, telebirr.repository.ts).
THEOREM WalletCorrect == Spec => []WalletMatchesLedger
<1>1. Spec => [](TypeOK /\ Consistent)
    BY Invariance
<1> QED BY <1>1, WalletInit, WalletStep, PTL DEF Spec

-----------------------------------------------------------------------------
(* The back end and the phones.                                            *)

\* A step of the composition is a step of the back end or leaves it alone.
LEMMA BackendStep == [PayoutNext]_payoutVars => [Next]_vars
BY DEF PayoutNext, payoutVars, ServerStep, ReceiveReport, Heartbeat, PhoneStep,
       NetworkStep, HandleAnswer, Dial, ReportAnswered, ReportTimesOut, LoseReport,
       RestartApp, Next, ReportStep, PresenceStep, Result

\* The phones and the network add no behaviour to the back end, so that all
\* that is proved of the back end holds when real phones drive it.
THEOREM PayoutImplementsBackend == PayoutSpec => Spec
<1>1. PayoutInit => Init
    BY DEF PayoutInit
<1> QED BY <1>1, BackendStep, PTL DEF PayoutSpec, Spec

LEMMA BackendInvariance == PayoutSpec => [](TypeOK /\ Consistent)
BY PayoutImplementsBackend, Invariance, PTL

-----------------------------------------------------------------------------
\* The types of the phones, which the dials complete below.
AppTypeOK ==
    /\ handled \in [Agent -> SUBSET Command]
    /\ session \in [Agent -> Command \cup {None}]
    /\ stage \in [Agent -> {"idle", "dialling"} \cup Result]
    /\ answer \in [Agent -> SUBSET Command]
    /\ report \in [Command -> [Result -> {"none", "sent", "answered"}]]
    /\ dialledOk \subseteq Command
    /\ \A a \in Agent :
         /\ session[a] = None <=> stage[a] = "idle"
         /\ session[a] # None => session[a] \in handled[a]

LEMMA AppTypeInit == PayoutInit => AppTypeOK
BY DEF PayoutInit, AppTypeOK, Result

LEMMA AppTypeStep == AppTypeOK /\ [PayoutNext]_payoutVars => AppTypeOK'
<1> SUFFICES ASSUME AppTypeOK, [PayoutNext]_payoutVars PROVE AppTypeOK'
    OBVIOUS
<1> USE DEF AppTypeOK, Result
<1>1. ASSUME UNCHANGED appVars PROVE AppTypeOK'
    BY <1>1 DEF appVars
<1>2. ASSUME NEW c \in Command, NEW result \in Result, ReceiveReport(c, result)
      PROVE  AppTypeOK'
    BY <1>2 DEF ReceiveReport
<1>3. ASSUME NEW a \in Agent, Heartbeat(a) PROVE AppTypeOK'
    BY <1>3 DEF Heartbeat
<1>4. ASSUME NEW a \in Agent, HandleAnswer(a) PROVE AppTypeOK'
    BY <1>4, NoneAssumption DEF HandleAnswer
<1>5. ASSUME NEW a \in Agent, NEW ok \in BOOLEAN, Dial(a, ok) PROVE AppTypeOK'
    <2>1. session[a] \in Command
        BY <1>5 DEF Dial
    <2> QED BY <1>5, <2>1 DEF Dial
<1>6. ASSUME NEW a \in Agent, ReportAnswered(a) PROVE AppTypeOK'
    <2>1. session[a] \in Command
        BY <1>6 DEF ReportAnswered
    <2> QED BY <1>6, <2>1 DEF ReportAnswered
<1>7. ASSUME NEW a \in Agent, ReportTimesOut(a) PROVE AppTypeOK'
    <2>1. session[a] \in Command
        BY <1>7 DEF ReportTimesOut
    <2> QED BY <1>7, <2>1 DEF ReportTimesOut
<1>8. ASSUME NEW a \in Agent, RestartApp(a) PROVE AppTypeOK'
    BY <1>8 DEF RestartApp
<1>9. ASSUME NEW c \in Command, NEW result \in Result, LoseReport(c, result) PROVE AppTypeOK'
    BY <1>9 DEF LoseReport
<1> QED
    BY <1>1, <1>2, <1>3, <1>4, <1>5, <1>6, <1>7, <1>8, <1>9
    DEF PayoutNext, PhoneStep, NetworkStep, payoutVars

-----------------------------------------------------------------------------
\* Only a dial that came back without error is on its way to be reported, or
\* has been reported, as a success.
SuccessWasDialled ==
    /\ \A a \in Agent : stage[a] = "success" => session[a] \in dialledOk
    /\ \A c \in Command : report[c]["success"] # "none" => c \in dialledOk

LEMMA SuccessWasDialledStep ==
    AppTypeOK /\ SuccessWasDialled /\ [PayoutNext]_payoutVars => SuccessWasDialled'
<1> SUFFICES ASSUME AppTypeOK, SuccessWasDialled, [PayoutNext]_payoutVars
             PROVE  SuccessWasDialled'
    OBVIOUS
<1> USE DEF AppTypeOK, Result, SuccessWasDialled
<1>1. ASSUME UNCHANGED appVars PROVE SuccessWasDialled'
    BY <1>1 DEF appVars
<1>2. ASSUME NEW c \in Command, NEW result \in Result, ReceiveReport(c, result)
      PROVE  SuccessWasDialled'
    BY <1>2 DEF ReceiveReport
<1>3. ASSUME NEW a \in Agent, Heartbeat(a) PROVE SuccessWasDialled'
    BY <1>3 DEF Heartbeat
<1>4. ASSUME NEW a \in Agent, HandleAnswer(a) PROVE SuccessWasDialled'
    BY <1>4 DEF HandleAnswer
<1>5. ASSUME NEW a \in Agent, NEW ok \in BOOLEAN, Dial(a, ok) PROVE SuccessWasDialled'
    <2>1. session[a] \in Command
        BY <1>5 DEF Dial
    <2>2. CASE ok = TRUE
        BY <1>5, <2>1, <2>2 DEF Dial
    <2>3. CASE ok = FALSE
        BY <1>5, <2>1, <2>3 DEF Dial
    <2> QED BY <2>2, <2>3
<1>6. ASSUME NEW a \in Agent, ReportAnswered(a) PROVE SuccessWasDialled'
    <2>1. session[a] \in Command
        BY <1>6 DEF ReportAnswered
    <2> QED BY <1>6, <2>1 DEF ReportAnswered
<1>7. ASSUME NEW a \in Agent, ReportTimesOut(a) PROVE SuccessWasDialled'
    <2>1. session[a] \in Command
        BY <1>7 DEF ReportTimesOut
    <2> QED BY <1>7, <2>1 DEF ReportTimesOut
<1>8. ASSUME NEW a \in Agent, RestartApp(a) PROVE SuccessWasDialled'
    BY <1>8 DEF RestartApp
<1>9. ASSUME NEW c \in Command, NEW result \in Result, LoseReport(c, result)
      PROVE  SuccessWasDialled'
    BY <1>9 DEF LoseReport
<1> QED
    BY <1>1, <1>2, <1>3, <1>4, <1>5, <1>6, <1>7, <1>8, <1>9
    DEF PayoutNext, PhoneStep, NetworkStep, payoutVars

-----------------------------------------------------------------------------
\* What a command says about its agent and its request never changes.
CommandsKept ==
    \A c \in Command :
        command[c] # NoCommand =>
            /\ command'[c].agent = command[c].agent
            /\ command'[c].request = command[c].request

LEMMA CommandsKeptStep == TypeOK /\ [Next]_vars => CommandsKept
<1> SUFFICES ASSUME TypeOK, [Next]_vars PROVE CommandsKept
    OBVIOUS
<1>1. ASSUME UNCHANGED command PROVE CommandsKept
    BY <1>1 DEF CommandsKept
<1>2. ASSUME NEW c \in Command, NEW a \in Agent, NEW r \in Request, IssueWithdrawCommand(c, a, r)
      PROVE  CommandsKept
    BY <1>2 DEF IssueWithdrawCommand, CommandsKept, FreshCommand, IssuedCommand, NoCommand,
        WithdrawCommand, TypeOK, CommandStatus, OpenCommandStatus
<1>3. ASSUME NEW c \in Command, NEW s, command' = [command EXCEPT ![c].status = s]
      PROVE  CommandsKept
    BY <1>3 DEF CommandsKept, TypeOK, WithdrawCommand, NoCommand
<1>4. ASSUME NEW e \in routing, NEW c \in Command, DispatchWithdrawal(e, c) PROVE CommandsKept
    BY <1>2, <1>4 DEF DispatchWithdrawal, TypeOK
<1>5. ASSUME NEW c \in Command, NEW result \in {"success", "failed"},
             RecordCommandResult(c, result)
      PROVE  CommandsKept
    BY <1>3, <1>5 DEF RecordCommandResult, RecordFailure, RecordSuccess, RecordIgnored
<1>6. ASSUME NEW r \in Request, ApproveWithdrawal(r) PROVE CommandsKept
    BY <1>1, <1>2, <1>6 DEF ApproveWithdrawal
<1>7. ASSUME NEW e \in switching, NEW c \in Command, SwitchWithdrawalWallet(e, c)
      PROVE  CommandsKept
    <2>1. ASSUME NEW x \in Command, command[x] # NoCommand
          PROVE  /\ command'[x].agent = command[x].agent
                 /\ command'[x].request = command[x].request
        <3>1. command[x] \in WithdrawCommand /\ x # c
            BY <1>7, <2>1 DEF SwitchWithdrawalWallet, FreshCommand, IssuedCommand, TypeOK,
                WithdrawCommand, CommandStatus, OpenCommandStatus
        <3> QED BY <1>7, <3>1 DEF SwitchWithdrawalWallet, WithdrawCommand
    <2> QED BY <2>1 DEF CommandsKept
<1>8. ASSUME NEW c \in Command, NEW s, UpdateCommandStatus(c, s) PROVE CommandsKept
    BY <1>3, <1>8 DEF UpdateCommandStatus
<1> QED
    BY <1>1, <1>4, <1>5, <1>6, <1>7, <1>8
    DEF Next, UserStep, ReversalStep, DispatchStep, CashierStep, OperatorStep, ReportStep,
        PresenceStep, CheckOpenWithdrawal, InitiateWithdrawal, RefuseInitiate, ReadForReversal,
        CommitReversal, RefuseReversal, PickAgentForWithdrawal, DrainWithdrawalQueue,
        SkipDispatch, ClaimWithdrawal, CompleteWithdrawal, RejectWithdrawal, ReadForSwitch,
        AgentSeen, AgentSilent, RestartServer, vars, walletVars, requestVars, ledgerVars, txnVars

-----------------------------------------------------------------------------
(* How often a command is dialled.                                         *)

\* The commands a phone has heard of, or is executing, are its own.
Addressed ==
    \A a \in Agent :
        /\ \A c \in answer[a] : command[c] # NoCommand /\ command[c].agent = a
        /\ session[a] # None =>
             command[session[a]] # NoCommand /\ command[session[a]].agent = a

LEMMA CommandsRemain ==
    ASSUME TypeOK, CommandsKept, NEW c \in Command, command[c] # NoCommand
    PROVE  command'[c] # NoCommand /\ command'[c].agent = command[c].agent
<1>1. command[c].agent \in Agent BY DEF TypeOK, WithdrawCommand
<1>2. command'[c].agent = command[c].agent BY DEF CommandsKept
<1> QED BY <1>1, <1>2, NoneAssumption DEF NoCommand

LEMMA AddressedStep ==
    TypeOK /\ AppTypeOK /\ Addressed /\ [PayoutNext]_payoutVars => Addressed'
<1> SUFFICES ASSUME TypeOK, AppTypeOK, Addressed, [PayoutNext]_payoutVars PROVE Addressed'
    OBVIOUS
<1>1. CommandsKept BY CommandsKeptStep, BackendStep
<1>2. \A c \in Command : command[c] # NoCommand =>
          command'[c] # NoCommand /\ command'[c].agent = command[c].agent
    BY <1>1, CommandsRemain
<1>3. \A a \in Agent : answer[a] \subseteq Command /\ (session[a] # None => session[a] \in Command)
    BY DEF AppTypeOK
<1>4. ASSUME \A a \in Agent : /\ answer'[a] \subseteq answer[a]
                              /\ session'[a] = session[a] \/ session'[a] = None
                                   \/ session'[a] \in answer[a]
      PROVE  Addressed'
    BY <1>2, <1>3, <1>4 DEF Addressed
<1>5. ASSUME UNCHANGED <<answer, session>> PROVE Addressed'
    BY <1>4, <1>5
<1>6. ASSUME NEW a \in Agent, Heartbeat(a) PROVE Addressed'
    <2>1. UNCHANGED <<command, session>> BY <1>6 DEF Heartbeat, AgentSeen
    <2>2. \A b \in Agent : \A c \in answer'[b] :
            c \in answer[b] \/ (b = a /\ command[c].status = "pending" /\ command[c].agent = a)
        BY <1>6 DEF Heartbeat, AppTypeOK
    <2> QED BY <2>1, <2>2 DEF Addressed, NoCommand
<1>7. ASSUME NEW a \in Agent, HandleAnswer(a) PROVE Addressed'
    BY <1>4, <1>7 DEF HandleAnswer, AppTypeOK
<1>8. ASSUME NEW a \in Agent, ReportAnswered(a) PROVE Addressed'
    BY <1>4, <1>8 DEF ReportAnswered, AppTypeOK
<1>9. ASSUME NEW a \in Agent, ReportTimesOut(a) PROVE Addressed'
    BY <1>4, <1>9 DEF ReportTimesOut, AppTypeOK
<1>10. ASSUME NEW a \in Agent, RestartApp(a) PROVE Addressed'
    BY <1>4, <1>10 DEF RestartApp, AppTypeOK
<1> QED
    BY <1>5, <1>6, <1>7, <1>8, <1>9, <1>10
    DEF PayoutNext, PhoneStep, NetworkStep, ReceiveReport, Dial, LoseReport, payoutVars, appVars

\* The bound on the dials is kept, because a command is dialled by one phone.
DialsTyped ==
    /\ dials \in [Command -> 0..MaxDials]
    /\ \A a \in Agent : stage[a] = "dialling" => dials[session[a]] < MaxDials

\* Two phones never execute the same command.
LEMMA SessionsApart ==
    ASSUME Addressed, NEW a \in Agent, NEW b \in Agent, session[a] # None, session[b] = session[a]
    PROVE  a = b
BY DEF Addressed

LEMMA DialsTypedStep ==
    AppTypeOK /\ Addressed /\ DialsTyped /\ [PayoutNext]_payoutVars => DialsTyped'
<1> SUFFICES ASSUME AppTypeOK, Addressed, DialsTyped, [PayoutNext]_payoutVars PROVE DialsTyped'
    OBVIOUS
<1>1. ASSUME dials' = dials,
             \A a \in Agent : stage'[a] = "dialling" =>
                 \/ stage[a] = "dialling" /\ session'[a] = session[a]
                 \/ dials[session'[a]] < MaxDials
      PROVE  DialsTyped'
    BY <1>1 DEF DialsTyped
<1>2. ASSUME UNCHANGED <<dials, stage, session>> PROVE DialsTyped'
    BY <1>1, <1>2
<1>3. ASSUME NEW a \in Agent, HandleAnswer(a) PROVE DialsTyped'
    BY <1>1, <1>3 DEF HandleAnswer, AppTypeOK
<1>4. ASSUME NEW a \in Agent, NEW ok \in BOOLEAN, Dial(a, ok) PROVE DialsTyped'
    <2> DEFINE c == session[a]
    <2>1. c \in Command /\ c # None BY <1>4 DEF Dial, AppTypeOK, NoneAssumption
    <2>2. /\ dials' = [dials EXCEPT ![c] = @ + 1]
          /\ UNCHANGED session
          /\ stage' = [stage EXCEPT ![a] = IF ok THEN "success" ELSE "failed"]
        BY <1>4 DEF Dial
    <2>3. dials[c] \in 0..MaxDials /\ dials[c] < MaxDials
        BY <1>4, <2>1 DEF Dial, DialsTyped
    <2>4. dials[c] + 1 \in 0..MaxDials BY <2>3, AppAssumption
    <2>5. dials' \in [Command -> 0..MaxDials] BY <2>1, <2>2, <2>4 DEF DialsTyped
    <2>6. ASSUME NEW b \in Agent, stage'[b] = "dialling" PROVE dials'[session'[b]] < MaxDials
        <3>1. b # a BY <2>2, <2>6 DEF AppTypeOK
        <3>2. stage[b] = "dialling" BY <2>2, <2>6, <3>1 DEF AppTypeOK
        <3>3. session[b] \in Command BY <3>2 DEF AppTypeOK
        <3>4. session[b] # c BY <2>1, <3>1, SessionsApart
        <3> QED BY <2>2, <3>2, <3>3, <3>4 DEF DialsTyped
    <2> QED BY <2>5, <2>6 DEF DialsTyped
<1>5. ASSUME NEW a \in Agent, ReportAnswered(a) PROVE DialsTyped'
    BY <1>1, <1>5 DEF ReportAnswered, AppTypeOK
<1>6. ASSUME NEW a \in Agent, ReportTimesOut(a) PROVE DialsTyped'
    BY <1>1, <1>6 DEF ReportTimesOut, AppTypeOK
<1>7. ASSUME NEW a \in Agent, RestartApp(a) PROVE DialsTyped'
    BY <1>1, <1>7 DEF RestartApp, AppTypeOK
<1> QED
    BY <1>2, <1>3, <1>4, <1>5, <1>6, <1>7
    DEF PayoutNext, PhoneStep, NetworkStep, ReceiveReport, Heartbeat, LoseReport, payoutVars,
        appVars

LEMMA PayoutInvariance == PayoutSpec => [](TypeOK /\ AppTypeOK /\ Addressed /\ DialsTyped)
<1>1. PayoutInit => Addressed /\ DialsTyped
    BY AppAssumption DEF PayoutInit, Addressed, DialsTyped
<1> QED
    BY <1>1, AppTypeInit, AppTypeStep, AddressedStep, DialsTypedStep, BackendInvariance, PTL
    DEF PayoutSpec

\* Every variable of the composition has its type, and a phone is busy with
\* exactly the command that it has marked as handled.
THEOREM PayoutTypeCorrect == PayoutSpec => []PayoutTypeOK
<1>1. TypeOK /\ AppTypeOK /\ DialsTyped => PayoutTypeOK
    BY DEF AppTypeOK, DialsTyped, PayoutTypeOK
<1> QED BY <1>1, PayoutInvariance, PTL

-----------------------------------------------------------------------------
(* Phones in service: nothing is lost and no app is restarted.             *)

\* What a phone has dialled it remembers, so that a command it starts was
\* never dialled before, and its first result is its only one.
DialledIsHandled ==
    /\ \A c \in Command : dials[c] # 0 => command[c] # NoCommand /\ c \in handled[command[c].agent]
    /\ \A a \in Agent : stage[a] = "dialling" => dials[session[a]] = 0

FirstResultOnly ==
    /\ \A c \in Command : dials[c] = 0 => c \notin dialledOk /\ report[c]["failed"] = "none"
    /\ DialledOnce /\ FailureReportedOnlyForFailedDial

LEMMA DialledIsHandledStep ==
    ASSUME Reliable, TypeOK, AppTypeOK, Addressed, DialsTyped, DialledIsHandled,
           [PayoutNext]_payoutVars
    PROVE  DialledIsHandled'
<1>1. CommandsKept BY CommandsKeptStep, BackendStep
<1>2. \A c \in Command : command[c] # NoCommand =>
          command'[c] # NoCommand /\ command'[c].agent = command[c].agent
    BY <1>1, CommandsRemain
<1>3. \A c \in Command : command[c] # NoCommand => command[c].agent \in Agent
    BY DEF TypeOK, WithdrawCommand
<1>4. ASSUME dials' = dials, \A a \in Agent : handled[a] \subseteq handled'[a],
             \A a \in Agent : stage'[a] = "dialling" =>
                 \/ stage[a] = "dialling" /\ session'[a] = session[a]
                 \/ dials[session'[a]] = 0
      PROVE  DialledIsHandled'
    BY <1>2, <1>3, <1>4 DEF DialledIsHandled
<1>5. ASSUME UNCHANGED <<dials, handled, stage, session>> PROVE DialledIsHandled'
    BY <1>4, <1>5
<1>6. ASSUME NEW a \in Agent, HandleAnswer(a) PROVE DialledIsHandled'
    <2>1. dials' = dials /\ (\A b \in Agent : handled[b] \subseteq handled'[b])
        BY <1>6 DEF HandleAnswer, AppTypeOK
    <2>2. \A b \in Agent : stage'[b] = "dialling" =>
              \/ stage[b] = "dialling" /\ session'[b] = session[b]
              \/ b = a /\ session'[b] \in answer[a] \ handled[a]
        BY <1>6 DEF HandleAnswer, AppTypeOK
    <2>3. \A c \in answer[a] \ handled[a] : dials[c] = 0
        BY DEF Addressed, DialledIsHandled, AppTypeOK
    <2> QED BY <1>4, <2>1, <2>2, <2>3
<1>7. ASSUME NEW a \in Agent, NEW ok \in BOOLEAN, Dial(a, ok) PROVE DialledIsHandled'
    <2> DEFINE c == session[a]
    <2>1. c \in Command /\ c # None /\ c \in handled[a] BY <1>7 DEF Dial, AppTypeOK
    <2>2. command[c] # NoCommand /\ command[c].agent = a BY <2>1 DEF Addressed
    <2>3. /\ dials' = [dials EXCEPT ![c] = @ + 1]
          /\ UNCHANGED <<session, handled, command>>
          /\ stage' = [stage EXCEPT ![a] = IF ok THEN "success" ELSE "failed"]
        BY <1>7 DEF Dial, vars
    <2>4. \A d \in Command : d # c => dials'[d] = dials[d] BY <2>3 DEF DialsTyped
    <2>5. \A d \in Command : dials'[d] # 0 =>
              command'[d] # NoCommand /\ d \in handled'[command'[d].agent]
        BY <2>1, <2>2, <2>3, <2>4 DEF DialledIsHandled
    <2>6. ASSUME NEW b \in Agent, stage'[b] = "dialling" PROVE dials'[session'[b]] = 0
        <3>1. b # a BY <2>3, <2>6 DEF AppTypeOK
        <3>2. stage[b] = "dialling" BY <2>3, <2>6, <3>1 DEF AppTypeOK
        <3>3. session[b] \in Command BY <3>2 DEF AppTypeOK
        <3>4. session[b] # c BY <2>1, <3>1, SessionsApart
        <3> QED BY <2>3, <2>4, <3>2, <3>3, <3>4 DEF DialledIsHandled
    <2> QED BY <2>5, <2>6 DEF DialledIsHandled
<1>8. ASSUME NEW a \in Agent, ReportAnswered(a) PROVE DialledIsHandled'
    BY <1>4, <1>8 DEF ReportAnswered, AppTypeOK
<1>9. ASSUME NEW a \in Agent PROVE ~ReportTimesOut(a) /\ ~RestartApp(a)
    BY DEF ReportTimesOut, RestartApp
<1> QED
    BY <1>5, <1>6, <1>7, <1>8, <1>9
    DEF PayoutNext, PhoneStep, NetworkStep, ReceiveReport, Heartbeat, LoseReport, payoutVars,
        appVars

LEMMA FirstResultOnlyStep ==
    ASSUME Reliable, AppTypeOK, DialsTyped, DialledIsHandled, FirstResultOnly,
           [PayoutNext]_payoutVars
    PROVE  FirstResultOnly'
<1>1. ASSUME UNCHANGED <<dials, dialledOk>>,
             \A c \in Command : report[c]["failed"] = "none" => report'[c]["failed"] = "none"
      PROVE  FirstResultOnly'
    BY <1>1 DEF FirstResultOnly, DialledOnce, FailureReportedOnlyForFailedDial
<1>2. ASSUME UNCHANGED <<dials, dialledOk, report>> PROVE FirstResultOnly'
    BY <1>1, <1>2
<1>3. ASSUME NEW c \in Command, NEW result \in Result, ReceiveReport(c, result)
      PROVE  FirstResultOnly'
    BY <1>1, <1>3 DEF ReceiveReport, AppTypeOK, Result
<1>4. ASSUME NEW a \in Agent, NEW ok \in BOOLEAN, Dial(a, ok) PROVE FirstResultOnly'
    <2> DEFINE c == session[a]
    <2>1. c \in Command /\ dials[c] = 0 BY <1>4 DEF Dial, AppTypeOK, DialledIsHandled
    <2>2. c \notin dialledOk /\ report[c]["failed"] = "none" BY <2>1 DEF FirstResultOnly
    <2>3. /\ dials' = [dials EXCEPT ![c] = @ + 1]
          /\ dialledOk' = IF ok THEN dialledOk \cup {c} ELSE dialledOk
          /\ report' = [report EXCEPT ![c][IF ok THEN "success" ELSE "failed"] = "sent"]
        BY <1>4 DEF Dial
    <2> HIDE DEF c
    <2>4. dials'[c] = 1 /\ \A d \in Command : d # c => dials'[d] = dials[d]
        BY <2>1, <2>3 DEF DialsTyped
    <2>5. \A d \in Command : /\ d # c => report'[d] = report[d] /\ (d \in dialledOk' <=> d \in dialledOk)
                             /\ ok => report'[d]["failed"] = report[d]["failed"]
                             /\ ~ok => dialledOk' = dialledOk
        BY <2>1, <2>3 DEF AppTypeOK, Result
    <2> QED BY <2>2, <2>4, <2>5 DEF FirstResultOnly, DialledOnce, FailureReportedOnlyForFailedDial
<1>5. ASSUME NEW a \in Agent, ReportAnswered(a) PROVE FirstResultOnly'
    <2>1. session[a] \in Command /\ stage[a] \in Result BY <1>5 DEF ReportAnswered, AppTypeOK, Result
    <2>2. report' = [report EXCEPT ![session[a]][stage[a]] = "none"]
        BY <1>5 DEF ReportAnswered
    <2>3. \A c \in Command : report[c]["failed"] = "none" => report'[c]["failed"] = "none"
        BY <2>1, <2>2 DEF AppTypeOK, Result
    <2> QED BY <1>1, <1>5, <2>3 DEF ReportAnswered
<1>6. ASSUME NEW a \in Agent PROVE ~ReportTimesOut(a) /\ ~RestartApp(a)
    BY DEF ReportTimesOut, RestartApp
<1>7. ASSUME NEW c \in Command, NEW result \in Result PROVE ~LoseReport(c, result)
    BY DEF LoseReport
<1> QED
    BY <1>2, <1>3, <1>4, <1>5, <1>6, <1>7
    DEF PayoutNext, PhoneStep, NetworkStep, HandleAnswer, Heartbeat, payoutVars, appVars

LEMMA ReliableInvariance ==
    ASSUME Reliable
    PROVE  PayoutSpec => [](DialledIsHandled /\ FirstResultOnly)
<1>1. PayoutInit => DialledIsHandled /\ FirstResultOnly
    BY DEF PayoutInit, DialledIsHandled, FirstResultOnly, DialledOnce,
        FailureReportedOnlyForFailedDial, Result
<1>2. TypeOK /\ AppTypeOK /\ Addressed /\ DialsTyped /\ DialledIsHandled
        /\ [PayoutNext]_payoutVars => DialledIsHandled'
    BY DialledIsHandledStep
<1>3. AppTypeOK /\ DialsTyped /\ DialledIsHandled /\ FirstResultOnly
        /\ [PayoutNext]_payoutVars => FirstResultOnly'
    BY FirstResultOnlyStep
<1> QED BY <1>1, <1>2, <1>3, PayoutInvariance, PTL DEF PayoutSpec

\* As long as nothing is lost and no app is restarted, no command is dialled
\* twice, however often the phone hears of it (heartbeat_service.dart 65-67).
THEOREM DialledAtMostOnce == ASSUME Reliable PROVE PayoutSpec => []DialledOnce
<1>1. FirstResultOnly => DialledOnce BY DEF FirstResultOnly
<1> QED BY <1>1, ReliableInvariance, PTL

\* Under the same condition no failure is reported of a command whose dial
\* succeeded, so that no payout is refunded (heartbeat_service.dart 120-122).
THEOREM FailureIsReal == ASSUME Reliable PROVE PayoutSpec => []FailureReportedOnlyForFailedDial
<1>1. FirstResultOnly => FailureReportedOnlyForFailedDial BY DEF FirstResultOnly
<1> QED BY <1>1, ReliableInvariance, PTL

-----------------------------------------------------------------------------
\* The swap of a request is booked by the report of one of its commands.
SwapBooked ==
    \A r \in Request :
        swap'[r] # swap[r] =>
            \E c \in Command : /\ ReceiveReport(c, "success") /\ RecordSuccess(c)
                               /\ c \in IssuedCommand
                               /\ command[c].request = r
                               /\ swap'[r] = command[c].agent

LEMMA SwapBookedStep == TypeOK /\ [PayoutNext]_payoutVars => SwapBooked
<1> SUFFICES ASSUME TypeOK, [PayoutNext]_payoutVars PROVE SwapBooked
    OBVIOUS
<1>1. ASSUME UNCHANGED swap PROVE SwapBooked
    BY <1>1 DEF SwapBooked
<1>2. ASSUME NEW c \in Command, NEW result \in Result, ReceiveReport(c, result)
      PROVE  SwapBooked
    <2>1. CASE result = "failed" /\ RecordFailure(c)
        BY <1>1, <2>1 DEF RecordFailure
    <2>2. CASE result = "success" /\ RecordSuccess(c)
        <3>1. c \in IssuedCommand
            BY <1>2 DEF ReceiveReport, RecordCommandResult
        <3>2. \A r \in Request : swap'[r] = IF r = command[c].request
                                          THEN command[c].agent ELSE swap[r]
            BY <2>2 DEF RecordSuccess, TypeOK
        <3> QED BY <1>2, <2>2, <3>1, <3>2 DEF SwapBooked
    <2>3. CASE RecordIgnored(c, result)
        BY <1>1, <2>3 DEF RecordIgnored, ledgerVars
    <2> QED BY <1>2, <2>1, <2>2, <2>3 DEF ReceiveReport, RecordCommandResult
<1>3. ASSUME UNCHANGED vars PROVE SwapBooked
    BY <1>1, <1>3 DEF vars, ledgerVars
<1>4. ASSUME NEW a \in Agent, Heartbeat(a) PROVE SwapBooked
    BY <1>1, <1>4 DEF Heartbeat, AgentSeen, ledgerVars
<1>5. ASSUME ServerStep PROVE UNCHANGED swap
    BY <1>5
    DEF ServerStep, UserStep, ReversalStep, DispatchStep, CashierStep, OperatorStep,
        CheckOpenWithdrawal, InitiateWithdrawal, RefuseInitiate, ReadForReversal,
        CommitReversal, RefuseReversal, PickAgentForWithdrawal, DrainWithdrawalQueue,
        DispatchWithdrawal, SkipDispatch, ClaimWithdrawal, CompleteWithdrawal,
        ApproveWithdrawal, RejectWithdrawal, ReadForSwitch, SwitchWithdrawalWallet,
        UpdateCommandStatus, AgentSilent, RestartServer, ledgerVars
<1> QED
    BY <1>1, <1>2, <1>3, <1>4, <1>5
    DEF PayoutNext, PhoneStep, NetworkStep, HandleAnswer, Dial, ReportAnswered,
        ReportTimesOut, LoseReport, RestartApp, payoutVars

LEMMA SwapStep ==
    TypeOK /\ AppTypeOK /\ SuccessWasDialled /\ SwapHasSuccessfulDial
      /\ [PayoutNext]_payoutVars => SwapHasSuccessfulDial'
<1> SUFFICES ASSUME TypeOK, AppTypeOK, SuccessWasDialled, SwapHasSuccessfulDial,
                    [PayoutNext]_payoutVars, NEW r \in Request, swap'[r] # None
             PROVE  \E c \in dialledOk' : command'[c].request = r /\ command'[c].agent = swap'[r]
    BY DEF SwapHasSuccessfulDial
<1>1. CommandsKept
    BY CommandsKeptStep, BackendStep
<1>2. SwapBooked
    BY SwapBookedStep
<1>3. dialledOk \subseteq dialledOk'
    BY DEF PayoutNext, PhoneStep, NetworkStep, ReceiveReport, Heartbeat, HandleAnswer, Dial,
        ReportAnswered, ReportTimesOut, LoseReport, RestartApp, payoutVars, appVars
<1>4. CASE swap'[r] = swap[r]
    <2>1. PICK c \in dialledOk : command[c].request = r /\ command[c].agent = swap[r]
        BY <1>4 DEF SwapHasSuccessfulDial
    <2>2. c \in Command /\ command[c] # NoCommand
        BY <1>4, <2>1 DEF AppTypeOK, NoCommand
    <2> QED BY <1>1, <1>3, <1>4, <2>1, <2>2 DEF CommandsKept
<1>5. CASE swap'[r] # swap[r]
    <2>1. PICK c \in Command : /\ ReceiveReport(c, "success")
                               /\ c \in IssuedCommand
                               /\ command[c].request = r
                               /\ swap'[r] = command[c].agent
        BY <1>2, <1>5 DEF SwapBooked
    <2>2. c \in dialledOk
        BY <2>1 DEF ReceiveReport, SuccessWasDialled
    <2>3. command[c] # NoCommand
        BY <2>1 DEF IssuedCommand, NoCommand
    <2> QED BY <1>1, <1>3, <2>1, <2>2, <2>3 DEF CommandsKept
<1> QED BY <1>4, <1>5

\* Whatever the network loses and whoever restarts, an agent's capacity is only
\* restored for a payout that its phone saw succeed.
THEOREM SwapNeedsDial == PayoutSpec => []SwapHasSuccessfulDial
<1>1. PayoutInit => AppTypeOK /\ SuccessWasDialled /\ SwapHasSuccessfulDial
    BY DEF PayoutInit, Init, AppTypeOK, SuccessWasDialled, SwapHasSuccessfulDial, Result
<1> QED
    BY <1>1, AppTypeStep, SuccessWasDialledStep, SwapStep, BackendInvariance, PTL DEF PayoutSpec
=============================================================================

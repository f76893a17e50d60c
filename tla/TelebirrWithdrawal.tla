------------------------- MODULE TelebirrWithdrawal -------------------------
(***************************************************************************)
(* The back end's side of a Telebirr P2P withdrawal.                       *)
(*                                                                         *)
(* A user opens a request and the wallet is debited at once.  The request  *)
(* is then paid out either by an agent's phone, which is sent a `withdraw` *)
(* command, or by a cashier who claims it; or it is reversed by the user,  *)
(* a cashier, an administrator or a failed command.                        *)
(*                                                                         *)
(* Every handler is one or more PostgreSQL transactions at READ COMMITTED. *)
(* A transaction that reads without locking and later writes is split in   *)
(* two: the action that takes the snapshot, which leaves an entry in       *)
(* opening, routing, reversing or switching, and the action that writes and commits,  *)
(* whose guard repeats exactly the conditions that the UPDATE or an index  *)
(* re-evaluates.  A transaction whose first write already carries the      *)
(* condition is one action.  The rows a drain has taken FOR UPDATE stay    *)
(* locked between its two actions.                                         *)
(***************************************************************************)
EXTENDS Naturals, Sequences, FiniteSets, Functions

CONSTANTS
    User, Request, Agent, Command,
    Cashier, Operator,   \* the cashiers and the administrators on duty
    None,
    Owner,               \* the user who files a request
    Amount,              \* its amount
    OpeningBalance,      \* wallets.balance before the first request
    OpeningWithdrawable, \* wallets.withdrawable_balance likewise
    WageringRemaining,   \* deposits the user has still to wager
    Float,               \* what an agent's Telebirr wallet can pay out
    PoolSize             \* connections in the pool: transactions open at once

ASSUME RequestAssumption ==
    /\ IsFiniteSet(Request)
    /\ Owner \in [Request -> User]
    /\ Amount \in [Request -> Nat \ {0}]

ASSUME WalletAssumption ==
    /\ OpeningBalance \in [User -> Nat]
    /\ OpeningWithdrawable \in [User -> Nat]
    /\ WageringRemaining \in [User -> Nat]

ASSUME AgentAssumption == Float \in [Agent -> Nat]

ASSUME PoolAssumption == PoolSize \in Nat \ {0}

ASSUME NoneAssumption ==
    /\ None \notin Agent \cup Cashier \cup Command
    /\ Cashier \cap Operator = {}
    /\ User \cap (Cashier \cup Operator) = {}

VARIABLES
    balance,       \* wallets.balance
    withdrawable,  \* wallets.withdrawable_balance
    status,        \* telebirr_withdrawal_requests.status, "none" before the insert
    holder,        \* its cashier_id
    arrivals,      \* the requests in the order of created_at
    debit,         \* status of the p2p_withdrawal ledger row of a request
    reversal,      \* the requests whose `tw_rev:<id>` ledger row exists
    swap,          \* the agent of the withdrawal swap booked for a request
    command,       \* p2p_commands
    seen,          \* agents with a heartbeat in the last three minutes
    opening,       \* requests whose transaction found no other open request
    dispatchDue,   \* requests whose initiate handler has still to dispatch
    routing,       \* dispatches that have picked an agent and not committed
    reversing,     \* reversals that have read the request and not committed
    switching,     \* wallet switches whose UPDATE has taken its snapshot
    draining       \* drains of the queue, named by the command that set them off

walletVars == <<balance, withdrawable>>
ledgerVars == <<debit, reversal, swap>>
requestVars == <<status, holder, arrivals>>
txnVars == <<opening, dispatchDue, routing, reversing, switching, draining>>
vars == <<walletVars, requestVars, ledgerVars, command, seen, txnVars>>

OpenStatus == {"pending", "processing"}
ReversedStatus == {"rejected", "cancelled", "failed"}
FinalStatus == ReversedStatus \cup {"completed"}

OpenCommandStatus == {"pending", "sent", "executing"}
CommandStatus == OpenCommandStatus \cup {"success", "failed", "cancelled"}

NoCommand == [agent |-> None, request |-> None, status |-> "none"]

IssuedCommand == {c \in Command : command[c].status # "none"}
FreshCommand == Command \ IssuedCommand

Existing == {r \in Request : status[r] # "none"}
Open == {r \in Request : status[r] \in OpenStatus}

-----------------------------------------------------------------------------
\* What the queries compute.

\* Mutant: the query and the index forget the requests in processing.
HasPendingWithdrawal(u) == \E q \in Request : status[q] = "pending" /\ Owner[q] = u

\* Another request of the same user is open: findUserOpenWithdrawal, and the
\* partial unique index on (tenant, user) where the request is open.
HasOpenWithdrawal(u) == \E q \in Open : Owner[q] = u

\* The balance left after deposits that must still be wagered covers r.
WithdrawalAllowed(r) ==
    Amount[r] + WageringRemaining[Owner[r]] <= balance[Owner[r]]

\* An agent with an unfinished command for a request that is being paid.
Busy(a) ==
    \E c \in IssuedCommand :
        /\ command[c].agent = a
        /\ command[c].status \in OpenCommandStatus
        /\ status[command[c].request] = "processing"

Spendable(a) ==
    LET booked == {r \in Request : swap[r] = a}
        spent == SumFunctionOnSet(Amount, booked)
    IN  IF spent <= Float[a] THEN Float[a] - spent ELSE 0

\* The agents pickAgentForWithdrawal may return for r.
Eligible(r) == {a \in seen : ~Busy(a) /\ Amount[r] <= Spendable(a)}

\* The rows that a drain holds FOR UPDATE.
Locked == {e.request : e \in {x \in routing : x.drain # None}}

\* The oldest queued request that no other drain has locked.
HeadOfQueue ==
    {r \in Request :
        \E i \in DOMAIN arrivals :
            /\ arrivals[i] = r
            /\ status[r] = "pending"
            /\ r \notin Locked
            /\ \A j \in 1..(i - 1) :
                 status[arrivals[j]] # "pending" \/ arrivals[j] \in Locked}

\* A connection is free for another transaction.
ConnectionFree ==
    Cardinality(opening) + Cardinality(routing) + Cardinality(reversing)
      + Cardinality(switching) < PoolSize

-----------------------------------------------------------------------------
Init ==
    /\ balance = OpeningBalance
    /\ withdrawable = OpeningWithdrawable
    /\ status = [r \in Request |-> "none"]
    /\ holder = [r \in Request |-> None]
    /\ arrivals = <<>>
    /\ debit = [r \in Request |-> "none"]
    /\ reversal = {}
    /\ swap = [r \in Request |-> None]
    /\ command = [c \in Command |-> NoCommand]
    /\ seen = {}
    /\ opening = {}
    /\ dispatchDue = {}
    /\ routing = {}
    /\ reversing = {}
    /\ switching = {}
    /\ draining = {}

-----------------------------------------------------------------------------
\* The user's side.

\* initiateWithdrawal up to its check for an open request.
CheckOpenWithdrawal(r) ==
    /\ ConnectionFree
    /\ status[r] = "none"
    /\ r \notin opening
    /\ ~HasOpenWithdrawal(Owner[r])
    /\ opening' = opening \cup {r}
    /\ UNCHANGED <<walletVars, requestVars, ledgerVars, command, seen,
                   dispatchDue, routing, reversing, switching, draining>>

\* Mutant: the first UPDATE loses its condition on the bucket.
DebitWithdrawable(u, amount) ==
    /\ withdrawable' = [withdrawable EXCEPT ![u] = @ - amount]
    /\ UNCHANGED balance

\* The debit: from the withdrawable bucket if it covers the amount, else from
\* the balance.
DebitWallet(u, amount) ==
    IF withdrawable[u] >= amount
    THEN /\ withdrawable' = [withdrawable EXCEPT ![u] = @ - amount]
         /\ UNCHANGED balance
    ELSE /\ balance[u] >= amount
         /\ balance' = [balance EXCEPT ![u] = @ - amount]
         /\ UNCHANGED withdrawable

\* The rest of that transaction: wallet, ledger row and request, unless the
\* unique index finds that the user has opened another one meanwhile.
InitiateWithdrawal(r) ==
    /\ r \in opening
    /\ ~HasOpenWithdrawal(Owner[r])
    /\ WithdrawalAllowed(r)
    /\ DebitWallet(Owner[r], Amount[r])
    /\ debit' = [debit EXCEPT ![r] = "pending"]
    /\ status' = [status EXCEPT ![r] = "pending"]
    /\ arrivals' = Append(arrivals, r)
    /\ opening' = opening \ {r}
    /\ dispatchDue' = dispatchDue \cup {r}
    /\ UNCHANGED <<holder, reversal, swap, command, seen, routing, reversing,
                   switching, draining>>

\* The transaction is rolled back: the unique index or the wagering rule,
\* which asks for a balance that also covers the fallback debit.
RefuseInitiate(r) ==
    /\ r \in opening
    /\ HasOpenWithdrawal(Owner[r]) \/ ~WithdrawalAllowed(r)
    /\ opening' = opening \ {r}
    /\ UNCHANGED <<walletVars, requestVars, ledgerVars, command, seen,
                   dispatchDue, routing, reversing, switching, draining>>

\* A reversal reads the request.  A user may cancel what is pending, a cashier
\* may reject and an administrator may cancel what is open.
Reversal == [request : Request, to : {"rejected", "cancelled"},
             by : User \cup Cashier \cup Operator]

ReadForReversal(e) ==
    /\ ConnectionFree
    /\ e \notin reversing
    /\ \/ e.by = Owner[e.request] /\ e.to = "cancelled" /\ status[e.request] = "pending"
       \/ e.by \in Cashier /\ e.to = "rejected" /\ status[e.request] \in OpenStatus
       \/ e.by \in Operator /\ e.to = "cancelled" /\ status[e.request] \in OpenStatus
    /\ reversing' = reversing \cup {e}
    /\ UNCHANGED <<walletVars, requestVars, ledgerVars, command, seen,
                   opening, dispatchDue, routing, switching, draining>>

\* Mutant: the UPDATE of the request loses its condition on the status.
CommitReversalOfAny(e) ==
    /\ e \in reversing
    /\ e.request \notin reversal \cup Locked
    /\ balance' = [balance EXCEPT ![Owner[e.request]] = @ + Amount[e.request]]
    /\ reversal' = reversal \cup {e.request}
    /\ status' = [status EXCEPT ![e.request] = e.to]
    /\ reversing' = reversing \ {e}
    /\ UNCHANGED <<withdrawable, holder, arrivals, debit, swap, command, seen,
                   opening, dispatchDue, routing, switching, draining>>

\* postReversal and markWithdrawalReversed: the wallet is credited, the unique
\* `tw_rev:<id>` row is inserted and the request is closed if it is still open.
CommitReversal(e) ==
    /\ e \in reversing
    /\ e.request \notin reversal \cup Locked
    /\ status[e.request] \in OpenStatus
    /\ balance' = [balance EXCEPT ![Owner[e.request]] = @ + Amount[e.request]]
    /\ reversal' = reversal \cup {e.request}
    /\ status' = [status EXCEPT ![e.request] = e.to]
    /\ reversing' = reversing \ {e}
    /\ UNCHANGED <<withdrawable, holder, arrivals, debit, swap, command, seen,
                   opening, dispatchDue, routing, switching, draining>>

\* "Request state changed during reversal": everything is rolled back.
RefuseReversal(e) ==
    /\ e \in reversing
    /\ e.request \notin Locked
    /\ status[e.request] \notin OpenStatus
    /\ reversing' = reversing \ {e}
    /\ UNCHANGED <<walletVars, requestVars, ledgerVars, command, seen,
                   opening, dispatchDue, routing, switching, draining>>

-----------------------------------------------------------------------------
\* Dispatch to an agent.

\* A request in processing gets a command, or nothing at all changes.
IssueWithdrawCommand(c, a, r) ==
    /\ c \in FreshCommand
    /\ command' = [command EXCEPT ![c] =
                     [agent |-> a, request |-> r, status |-> "pending"]]

\* The transaction that follows the initiate handler looks for an agent; when
\* there is none the request stays queued.
PickAgentForWithdrawal(r) ==
    /\ ConnectionFree
    /\ r \in dispatchDue
    /\ dispatchDue' = dispatchDue \ {r}
    /\ IF Eligible(r) = {}
       THEN UNCHANGED routing
       ELSE \E a \in Eligible(r) :
              routing' = routing \cup
                           {[request |-> r, agent |-> a, drain |-> None]}
    /\ UNCHANGED <<walletVars, requestVars, ledgerVars, command, seen,
                   opening, reversing, switching, draining>>

\* One round of drainWithdrawalQueue: lock the head of the queue and pick an
\* agent for it, or stop.  The code commits the rounds of a drain together, here
\* each is seen by the others, and by a restart, as it ends.
DrainWithdrawalQueue(d) ==
    /\ ConnectionFree
    /\ d \in draining
    /\ \A e \in routing : e.drain # d
    /\ \/ \E r \in HeadOfQueue, a \in Agent :
            /\ a \in Eligible(r)
            /\ routing' = routing \cup
                            {[request |-> r, agent |-> a, drain |-> d]}
            /\ UNCHANGED draining
       \/ /\ \A r \in HeadOfQueue : Eligible(r) = {}
          /\ draining' = draining \ {d}
          /\ UNCHANGED routing
    /\ UNCHANGED <<walletVars, requestVars, ledgerVars, command, seen,
                   opening, dispatchDue, reversing, switching>>

\* Mutant: the UPDATE of the request loses its condition on the status.
DispatchAny(e, c) ==
    /\ e \in routing
    /\ e.drain # None \/ e.request \notin Locked
    /\ status' = [status EXCEPT ![e.request] = "processing"]
    /\ IssueWithdrawCommand(c, e.agent, e.request)
    /\ routing' = routing \ {e}
    /\ UNCHANGED <<walletVars, ledgerVars, holder, arrivals, seen, opening,
                   dispatchDue, reversing, switching, draining>>

\* The rest of dispatchWithdrawalToAgent: a request that is still pending is
\* given to the agent picked before, whatever that agent does by now.
DispatchWithdrawal(e, c) ==
    /\ e \in routing
    /\ e.drain # None \/ e.request \notin Locked
    /\ status[e.request] = "pending"
    /\ status' = [status EXCEPT ![e.request] = "processing"]
    /\ IssueWithdrawCommand(c, e.agent, e.request)
    /\ routing' = routing \ {e}
    /\ UNCHANGED <<walletVars, ledgerVars, holder, arrivals, seen, opening,
                   dispatchDue, reversing, switching, draining>>

\* The request has left the queue: nothing to dispatch.
SkipDispatch(e) ==
    /\ e \in routing
    /\ e.drain = None
    /\ e.request \notin Locked
    /\ status[e.request] # "pending"
    /\ routing' = routing \ {e}
    /\ UNCHANGED <<walletVars, requestVars, ledgerVars, command, seen,
                   opening, dispatchDue, reversing, switching, draining>>

-----------------------------------------------------------------------------
\* The agent reports what became of a command (recordCommandResult).

\* Mutant: the refund no longer depends on the status of the request.
RecordFailureOfAny(c) ==
    LET r == command[c].request IN
    /\ status' = [status EXCEPT ![r] = "failed"]
    /\ withdrawable' = [withdrawable EXCEPT ![Owner[r]] = @ + Amount[r]]
    /\ debit' = [debit EXCEPT ![r] = "failed"]
    /\ command' = [command EXCEPT ![c].status = "failed"]
    /\ draining' = draining \cup {c}
    /\ UNCHANGED <<balance, holder, arrivals, reversal, swap>>

\* Mutant: a failed command does not revert its request.
RecordFailureOnly(c) ==
    /\ status[command[c].request] \in OpenStatus
    /\ command' = [command EXCEPT ![c].status = "failed"]
    /\ UNCHANGED <<walletVars, requestVars, ledgerVars, draining>>

\* USSD failed: refund the withdrawable bucket, fail the ledger row.
RecordFailure(c) ==
    LET r == command[c].request IN
    /\ status[r] \in OpenStatus
    /\ status' = [status EXCEPT ![r] = "failed"]
    /\ withdrawable' = [withdrawable EXCEPT ![Owner[r]] = @ + Amount[r]]
    /\ debit' = [debit EXCEPT ![r] = "failed"]
    /\ command' = [command EXCEPT ![c].status = "failed"]
    /\ draining' = draining \cup {c}
    /\ UNCHANGED <<balance, holder, arrivals, reversal, swap>>

\* USSD succeeded: complete the request and book the agent's swap.
RecordSuccess(c) ==
    LET r == command[c].request IN
    /\ status[r] \in OpenStatus
    /\ status' = [status EXCEPT ![r] = "completed"]
    /\ debit' = [debit EXCEPT ![r] = "completed"]
    /\ swap' = [swap EXCEPT ![r] = command[c].agent]
    /\ command' = [command EXCEPT ![c].status = "success"]
    /\ draining' = draining \cup {c}
    /\ UNCHANGED <<walletVars, holder, arrivals, reversal>>

\* The request is resolved already: only the command row is overwritten.
RecordIgnored(c, result) ==
    /\ status[command[c].request] \notin OpenStatus
    /\ command' = [command EXCEPT ![c].status = result]
    /\ UNCHANGED <<walletVars, requestVars, ledgerVars, draining>>

RecordCommandResult(c, result) ==
    /\ c \in IssuedCommand
    /\ command[c].request \notin Locked
    /\ \/ result = "failed" /\ RecordFailure(c)
       \/ result = "success" /\ RecordSuccess(c)
       \/ RecordIgnored(c, result)
    /\ UNCHANGED <<seen, opening, dispatchDue, routing, reversing, switching>>

-----------------------------------------------------------------------------
\* The cashier's desk.

ClaimWithdrawal(r, k) ==
    /\ status[r] = "pending"
    /\ r \notin Locked
    /\ status' = [status EXCEPT ![r] = "processing"]
    /\ holder' = [holder EXCEPT ![r] = k]
    /\ UNCHANGED <<walletVars, arrivals, ledgerVars, command, seen, txnVars>>

\* Mutant: any cashier may complete, not only the one who claimed the request.
CompleteUnclaimed(r, k) ==
    /\ status[r] = "processing"
    /\ status' = [status EXCEPT ![r] = "completed"]
    /\ debit' = [debit EXCEPT ![r] = "completed"]
    /\ UNCHANGED <<walletVars, holder, arrivals, reversal, swap, command, seen,
                   txnVars>>

CompleteWithdrawal(r, k) ==
    /\ status[r] = "processing"
    /\ holder[r] = k
    /\ status' = [status EXCEPT ![r] = "completed"]
    /\ debit' = [debit EXCEPT ![r] = "completed"]
    /\ UNCHANGED <<walletVars, holder, arrivals, reversal, swap, command, seen,
                   txnVars>>

-----------------------------------------------------------------------------
\* The P2P desk of the administration panel.

ApproveWithdrawal(r) ==
    /\ status[r] = "pending"
    /\ r \notin Locked
    /\ status' = [status EXCEPT ![r] = "processing"]
    /\ \/ UNCHANGED command
       \/ \E a \in Agent, c \in Command : IssueWithdrawCommand(c, a, r)
    /\ UNCHANGED <<walletVars, holder, arrivals, ledgerVars, seen, txnVars>>

\* Closes the request and nothing else.
RejectWithdrawal(r) ==
    /\ status[r] \in OpenStatus
    /\ r \notin Locked
    /\ status' = [status EXCEPT ![r] = "rejected"]
    /\ UNCHANGED <<walletVars, holder, arrivals, ledgerVars, command, seen,
                   txnVars>>

\* The UPDATE of a wallet switch sees the unfinished commands of the request,
\* whatever the status of the request.
ReadForSwitch(r, a) ==
    LET old == {c \in IssuedCommand : /\ command[c].request = r
                                      /\ command[c].status \in OpenCommandStatus}
    IN  /\ ConnectionFree
        /\ r \in Existing
        /\ switching' = switching \cup {[request |-> r, agent |-> a, old |-> old]}
    /\ UNCHANGED <<walletVars, requestVars, ledgerVars, command, seen, opening,
                   dispatchDue, routing, reversing, draining>>

\* It cancels those that are still unfinished and sends the request to another
\* agent.  A command issued since the snapshot is not among them.
SwitchWithdrawalWallet(e, c) ==
    /\ e \in switching
    /\ c \in FreshCommand
    /\ command' = [x \in Command |->
         IF x = c
         THEN [agent |-> e.agent, request |-> e.request, status |-> "pending"]
         ELSE IF x \in e.old /\ command[x].status \in OpenCommandStatus
              THEN [command[x] EXCEPT !.status = "cancelled"]
              ELSE command[x]]
    /\ switching' = switching \ {e}
    /\ UNCHANGED <<walletVars, requestVars, ledgerVars, seen, opening,
                   dispatchDue, routing, reversing, draining>>

\* updateCommandStatus and cancelCommand: any status over any other.
UpdateCommandStatus(c, s) ==
    /\ c \in IssuedCommand
    /\ command' = [command EXCEPT ![c].status = s]
    /\ UNCHANGED <<walletVars, requestVars, ledgerVars, seen, txnVars>>

-----------------------------------------------------------------------------
\* The surroundings.

\* An authenticated call of the agent's app refreshes last_seen_at; three
\* minutes without one and the agent is offline.
AgentSeen(a) ==
    /\ seen' = seen \cup {a}
    /\ UNCHANGED <<walletVars, requestVars, ledgerVars, command, txnVars>>

AgentSilent(a) ==
    /\ a \in seen
    /\ seen' = seen \ {a}
    /\ UNCHANGED <<walletVars, requestVars, ledgerVars, command, txnVars>>

\* The server process dies: open transactions are rolled back and the calls
\* that were to follow a commit are forgotten.
RestartServer ==
    /\ opening' = {}
    /\ dispatchDue' = {}
    /\ routing' = {}
    /\ reversing' = {}
    /\ switching' = {}
    /\ draining' = {}
    /\ UNCHANGED <<walletVars, requestVars, ledgerVars, command, seen>>

-----------------------------------------------------------------------------
UserStep ==
    \E r \in Request :
        CheckOpenWithdrawal(r) \/ InitiateWithdrawal(r) \/ RefuseInitiate(r)

ReversalStep ==
    \E e \in Reversal :
        ReadForReversal(e) \/ CommitReversal(e) \/ RefuseReversal(e)

DispatchStep ==
    \/ \E r \in Request : PickAgentForWithdrawal(r)
    \/ \E d \in Command : DrainWithdrawalQueue(d)
    \/ \E e \in routing : SkipDispatch(e) \/ \E c \in Command : DispatchWithdrawal(e, c)

CashierStep ==
    \E r \in Request, k \in Cashier :
        ClaimWithdrawal(r, k) \/ CompleteWithdrawal(r, k)

OperatorStep ==
    \E o \in Operator :
        \/ \E r \in Request : ApproveWithdrawal(r) \/ RejectWithdrawal(r)
        \/ \E r \in Request, a \in Agent : ReadForSwitch(r, a)
        \/ \E e \in switching, c \in Command : SwitchWithdrawalWallet(e, c)
        \/ \E c \in Command, s \in CommandStatus \ {"pending"} : UpdateCommandStatus(c, s)

ReportStep ==
    \E c \in Command, result \in {"success", "failed"} : RecordCommandResult(c, result)

PresenceStep == \E a \in Agent : AgentSeen(a) \/ AgentSilent(a)

Next ==
    \/ UserStep
    \/ ReversalStep
    \/ DispatchStep
    \/ CashierStep
    \/ OperatorStep
    \/ ReportStep
    \/ PresenceStep
    \/ RestartServer

Spec == Init /\ [][Next]_vars

-----------------------------------------------------------------------------
\* Properties.

WithdrawCommand ==
    [agent : Agent, request : Request, status : CommandStatus]

\* Every variable has its type.
TypeOK ==
    /\ balance \in [User -> Nat]
    /\ withdrawable \in [User -> Nat]
    /\ status \in [Request -> {"none"} \cup OpenStatus \cup FinalStatus]
    /\ holder \in [Request -> Cashier \cup {None}]
    /\ arrivals \in Seq(Request)
    /\ debit \in [Request -> {"none", "pending", "completed", "failed"}]
    /\ reversal \subseteq Request
    /\ swap \in [Request -> Agent \cup {None}]
    /\ command \in [Command -> WithdrawCommand \cup {NoCommand}]
    /\ seen \subseteq Agent
    /\ opening \subseteq Request
    /\ dispatchDue \subseteq Request
    /\ routing \subseteq [request : Request, agent : Agent, drain : Command \cup {None}]
    /\ reversing \subseteq Reversal
    /\ switching \subseteq [request : Request, agent : Agent, old : SUBSET Command]
    /\ draining \subseteq Command

\* The debit of r counts against the wallet.
Held(r) == debit[r] \in {"pending", "completed"} /\ r \notin reversal
HeldBy(u) == {r \in Request : Owner[r] = u /\ Held(r)}

\* What a wallet has lost is what the ledger says it has: over every
\* interleaving of initiate, reversal and failure report, no amount is lost,
\* debited twice or refunded twice, in whichever bucket it moves.
WalletMatchesLedger ==
    \A u \in User :
        balance[u] + withdrawable[u]
          + SumFunctionOnSet(Amount, HeldBy(u))
        = OpeningBalance[u] + OpeningWithdrawable[u]

\* A user has at most one open request, although the check and the insert of
\* initiateWithdrawal are apart.
OneOpenWithdrawal ==
    \A q, r \in Open : Owner[q] = Owner[r] => q = r

\* A payout and a refund exclude each other, and so do the two ways to refund:
\* the ledger of a request agrees with how the request ended, whoever of the
\* user, cashier, administrator and agent came first.
LedgerMatchesOutcome ==
    \A r \in Request :
        /\ debit[r] = "none" <=> status[r] = "none"
        /\ debit[r] = "completed" <=> status[r] = "completed"
        /\ debit[r] = "failed" <=> status[r] = "failed"
        /\ r \in reversal => status[r] \in {"rejected", "cancelled"}
        /\ swap[r] # None => status[r] = "completed"

\* Nothing but the P2P desk sends a request out a second time: the dispatch of
\* the initiate handler, the drains and the restarts of the server together
\* issue one command for it, so that no two phones pay the same user.
DispatchedAtMostOnce ==
    Operator = {} =>
        \A c, d \in IssuedCommand : command[c].request = command[d].request => c = d

\* A completed payout is accounted for once: an agent's swap restores the
\* capacity of the wallet that paid, or else the cashier who claimed it paid.
PayoutHasPayer ==
    \A r \in Request :
        status[r] = "completed" => swap[r] # None \/ holder[r] # None

\* A request that has ended never changes its outcome.
OutcomeIsFinal ==
    [][\A r \in Request : status[r] \in FinalStatus => status'[r] = status[r]]_vars

-----------------------------------------------------------------------------
\* Refinement of the escrow: a reversal row and a failed debit both return the
\* money, a request rejected on the P2P desk leaves it held.

EscrowOf(r) ==
    CASE debit[r] = "none" -> "idle"
      [] debit[r] = "completed" -> "paid"
      [] debit[r] = "failed" \/ (debit[r] = "pending" /\ r \in reversal) -> "returned"
      [] OTHER -> "held"

Escrow == INSTANCE WithdrawalEscrow WITH
    OpeningFunds <- [u \in User |-> OpeningBalance[u] + OpeningWithdrawable[u]],
    funds <- [u \in User |-> balance[u] + withdrawable[u]],
    escrow <- [r \in Request |-> EscrowOf(r)]

\* Whatever the user, the cashiers, the administrators and the agents do, and
\* in whatever order their transactions commit, the money of a request is only
\* ever held, then paid out or returned, once and in full.
ImplementsEscrow == Escrow!Spec

-----------------------------------------------------------------------------
\* Claims of the source that the handlers do not keep.

\* telebirr.withdrawal.service.ts:17-20: a request that is rejected, cancelled
\* or failed has its amount credited back.
ReversedIsRefunded ==
    \A r \in Request :
        status[r] \in ReversedStatus => debit[r] = "failed" \/ r \in reversal

\* telebirr.repository.ts:301-304: USSD is serial per phone, an agent never has
\* a second unfinished command for a request in processing.
OneCommandPerAgent ==
    \A c, d \in IssuedCommand :
        /\ command[c].agent = command[d].agent
        /\ \A x \in {c, d} : /\ command[x].status \in OpenCommandStatus
                             /\ status[command[x].request] = "processing"
        => c = d
=============================================================================

--------------------------- MODULE TelebirrDeposit ---------------------------
(***************************************************************************)
(* Telebirr deposits.  A user asks to deposit and pays an agent's phone    *)
(* number; the phone reports the SMS that confirms the payment, once or    *)
(* several times.  Each stored SMS is matched in the background, in        *)
(* several database transactions, and the payment is credited or kept for  *)
(* a person.  Agents, cashiers, administrators and the user himself may    *)
(* then confirm it, a cashier may void the credit, and the older approval  *)
(* queue p2p_deposits holds the same payments a second time.               *)
(*                                                                         *)
(* A payment stands for its telebirr_ref.  The statuses pending and        *)
(* unmatched of telebirr_transactions are one here, "uncredited": every    *)
(* handler treats them alike.  SMS that are not payments, have no          *)
(* reference or fail the sender and timestamp rules are stored and have no *)
(* further effect, and are left out.                                       *)
(***************************************************************************)
EXTENDS Naturals

CONSTANTS
    User, Payment, Request,
    Worker,    \* background tasks of the server
    None, Returned,
    Owner,     \* the user of a request
    Amount,    \* the amount of a request
    Paid,      \* the amount of a payment
    Sender,    \* the user whose phone number sent a payment, or None
    Note,      \* the request whose reference code is in the payment's note, or None
    Frozen,    \* users whose wallet is not active
    Escalated, \* payments that the fraud rules may hand to a person
    MaxFaults  \* restarts of the server and failing background tasks

ASSUME DepositAssumption ==
    /\ None \notin User \cup Payment \cup Request
    /\ Returned \notin User \cup {None}
    /\ Owner \in [Request -> User]
    /\ Amount \in [Request -> Nat]
    /\ Paid \in [Payment -> Nat \ {0}]
    /\ Sender \in [Payment -> User \cup {None}]
    /\ Note \in [Payment -> Request \cup {None}]
    /\ Frozen \subseteq User
    /\ Escalated \subseteq Payment
    /\ MaxFaults \in Nat

VARIABLES
    status,    \* telebirr_deposit_requests.status, "absent" before the insert
    claim,     \* claimed_telebirr_ref
    lapsed,    \* requests whose expires_at has passed
    stage,     \* where initiateDeposit stands for a request
    paidBy,    \* the payment that confirmed a request
    tx,        \* telebirr_transactions.status, by reference
    txUser,    \* telebirr_transactions.user_id
    queue,     \* p2p_deposits.status, by reference
    credit,    \* the user of the ledger row with this reference, or None
    reversal,  \* the user of the ledger row with reference void:<ref>, or None
    balance,
    job,       \* what a worker is at: the step, the payment, the matched request
    processed, \* payments of which a raw SMS was marked processed by the matcher
    faults

requestVars == <<status, claim, lapsed, stage, paidBy>>
ledgerVars == <<credit, reversal, balance>>
txVars == <<tx, txUser>>
vars == <<requestVars, txVars, queue, ledgerVars, job, processed, faults>>

Idle == [at |-> "idle", pay |-> None, req |-> None]

Init ==
    /\ status = [r \in Request |-> "absent"]
    /\ claim = [r \in Request |-> None]
    /\ lapsed = {}
    /\ stage = [r \in Request |-> "none"]
    /\ paidBy = [r \in Request |-> None]
    /\ tx = [p \in Payment |-> "none"]
    /\ txUser = [p \in Payment |-> None]
    /\ queue = [p \in Payment |-> "none"]
    /\ credit = [p \in Payment |-> None]
    /\ reversal = [p \in Payment |-> None]
    /\ balance = [u \in User |-> 0]
    /\ job = [w \in Worker |-> Idle]
    /\ processed = {}
    /\ faults = 0

-----------------------------------------------------------------------------
(* The user's request.                                                     *)

Open(r) == status[r] = "waiting" /\ r \notin lapsed

\* The checks of initiateTelebirrDeposit: no other open request of the user,
\* none that claims the same reference, and the reference is not used up.
CheckInitiate(r, p) ==
    /\ status[r] = "absent" /\ stage[r] = "none"
    /\ ~\E s \in Request : Open(s) /\ Owner[s] = Owner[r]
    /\ p # None => /\ ~\E s \in Request : Open(s) /\ claim[s] = p
                   /\ tx[p] \in {"none", "uncredited"}
    /\ claim' = [claim EXCEPT ![r] = p]
    /\ stage' = [stage EXCEPT ![r] = "checked"]
    /\ UNCHANGED <<status, lapsed, paidBy, txVars, queue, ledgerVars, job, processed, faults>>

\* The insert at its end.  The partial unique index allows one waiting request
\* per claimed reference, lapsed or not.
InsertRequest(r) ==
    /\ stage[r] = "checked"
    /\ IF claim[r] # None /\ \E s \in Request : status[s] = "waiting" /\ claim[s] = claim[r]
       THEN /\ stage' = [stage EXCEPT ![r] = "none"]
            /\ claim' = [claim EXCEPT ![r] = None]
            /\ UNCHANGED status
       ELSE /\ status' = [status EXCEPT ![r] = "waiting"]
            /\ stage' = [stage EXCEPT ![r] = IF claim[r] = None THEN "done" ELSE "claiming"]
            /\ UNCHANGED claim
    /\ UNCHANGED <<lapsed, paidBy, txVars, queue, ledgerVars, job, processed, faults>>

\* Time passes expires_at; no job rewrites the status.
Lapse(r) ==
    /\ Open(r)
    /\ lapsed' = lapsed \cup {r}
    /\ UNCHANGED <<status, claim, stage, paidBy, txVars, queue, ledgerVars, job, processed, faults>>

CancelDeposit(r) ==
    /\ status[r] = "waiting"
    /\ status' = [status EXCEPT ![r] = "cancelled"]
    /\ UNCHANGED <<claim, lapsed, stage, paidBy, txVars, queue, ledgerVars, job, processed, faults>>

\* markDepositRequestConfirmed: only a waiting request is confirmed.
MarkConfirmed(r, p) ==
    IF r # None /\ status[r] = "waiting"
    THEN /\ status' = [status EXCEPT ![r] = "confirmed"]
         /\ paidBy' = [paidBy EXCEPT ![r] = p]
    ELSE UNCHANGED <<status, paidBy>>

-----------------------------------------------------------------------------
(* Money.                                                                  *)

\* The wallet credit and its ledger row, whose reference is unique.
CreditWallet(p, u) ==
    /\ credit[p] = None
    /\ credit' = [credit EXCEPT ![p] = u]
    /\ balance' = [balance EXCEPT ![u] = @ + Paid[p]]
    /\ UNCHANGED reversal

\* Bets, withdrawals and adjustments take from the balance.
Spend(u) ==
    /\ balance[u] > 0
    /\ balance' = [balance EXCEPT ![u] = @ - 1]
    /\ UNCHANGED <<requestVars, txVars, queue, credit, reversal, job, processed, faults>>

\* confirmManualMatch: the row is locked and its status read again.
Confirmable(p, u) == tx[p] = "uncredited" /\ u \notin Frozen

ConfirmManualMatch(p, u) ==
    /\ Confirmable(p, u)
    /\ CreditWallet(p, u)
    /\ tx' = [tx EXCEPT ![p] = "credited"]
    /\ txUser' = [txUser EXCEPT ![p] = u]

\* An agent, a cashier or an administrator confirms an uncredited payment.
StaffConfirm(p, u) ==
    /\ ConfirmManualMatch(p, u)
    /\ UNCHANGED <<requestVars, queue, job, processed, faults>>

\* Mutant: the outcome of the confirmation is not looked at.
ClaimConfirmUnconditionally(r) ==
    /\ stage[r] = "claiming"
    /\ IF Confirmable(claim[r], Owner[r]) /\ credit[claim[r]] = None
       THEN ConfirmManualMatch(claim[r], Owner[r])
       ELSE UNCHANGED <<txVars, ledgerVars>>
    /\ stage' = [stage EXCEPT ![r] = "marking"]
    /\ UNCHANGED <<status, claim, lapsed, paidBy, queue, job, processed, faults>>

\* After the insert, initiateDeposit tries the claimed reference: the SMS may
\* have arrived before.  The request is marked in a later transaction.
ClaimConfirm(r) ==
    /\ stage[r] = "claiming"
    /\ IF Confirmable(claim[r], Owner[r]) /\ credit[claim[r]] = None
       THEN /\ ConfirmManualMatch(claim[r], Owner[r])
            /\ stage' = [stage EXCEPT ![r] = "marking"]
       ELSE /\ stage' = [stage EXCEPT ![r] = "done"]
            /\ UNCHANGED <<txVars, ledgerVars>>
    /\ UNCHANGED <<status, claim, lapsed, paidBy, queue, job, processed, faults>>

ClaimMark(r) ==
    /\ stage[r] = "marking"
    /\ stage' = [stage EXCEPT ![r] = "done"]
    /\ MarkConfirmed(r, claim[r])
    /\ UNCHANGED <<claim, lapsed, txVars, queue, ledgerVars, job, processed, faults>>

\* Mutant: the balance is not checked.
VoidOverdrawn(p) ==
    LET u == txUser[p]
    IN  /\ tx[p] = "credited" /\ u \notin Frozen
        /\ reversal[p] = None
        /\ balance' = [balance EXCEPT ![u] = @ - Paid[p]]
        /\ reversal' = [reversal EXCEPT ![p] = u]
        /\ tx' = [tx EXCEPT ![p] = "uncredited"]
        /\ txUser' = [txUser EXCEPT ![p] = None]
        /\ UNCHANGED <<requestVars, queue, credit, job, processed, faults>>

\* Mutant: the row is not reset.
VoidKeepsRow(p) ==
    LET u == txUser[p]
    IN  /\ tx[p] = "credited" /\ u \notin Frozen
        /\ reversal[p] = None
        /\ Paid[p] <= balance[u]
        /\ balance' = [balance EXCEPT ![u] = @ - Paid[p]]
        /\ reversal' = [reversal EXCEPT ![p] = u]
        /\ UNCHANGED <<requestVars, txVars, queue, credit, job, processed, faults>>

\* voidCreditedTransaction: the credit is taken back where the balance allows
\* it and the row is uncredited again.
VoidCredited(p) ==
    LET u == txUser[p]
    IN  /\ tx[p] = "credited" /\ u \notin Frozen
        /\ reversal[p] = None
        /\ Paid[p] <= balance[u]
        /\ balance' = [balance EXCEPT ![u] = @ - Paid[p]]
        /\ reversal' = [reversal EXCEPT ![p] = u]
        /\ tx' = [tx EXCEPT ![p] = "uncredited"]
        /\ txUser' = [txUser EXCEPT ![p] = None]
        /\ UNCHANGED <<requestVars, queue, credit, job, processed, faults>>

\* disputeTransaction; nothing leads out of "disputed".
DisputeTransaction(p) ==
    /\ tx[p] \notin {"none", "disputed"}
    /\ tx' = [tx EXCEPT ![p] = "disputed"]
    /\ UNCHANGED <<requestVars, txUser, queue, ledgerVars, job, processed, faults>>

-----------------------------------------------------------------------------
(* The approval queue p2p_deposits.                                        *)

\* The first pass of reportSmsBatch.
QueueDeposit(p) ==
    /\ queue[p] = "none"
    /\ queue' = [queue EXCEPT ![p] = "pending"]
    /\ UNCHANGED <<requestVars, txVars, ledgerVars, job, processed, faults>>

\* approveDepositInQueue credits the user the administrator names and confirms
\* his newest waiting request of that amount (here any one of them, found waiting
\* at the moment it is confirmed: the code's subselect takes no lock).
ApproveDeposit(p, u) ==
    /\ queue[p] = "pending"
    /\ queue' = [queue EXCEPT ![p] = "approved"]
    /\ CreditWallet(p, u)
    /\ LET awaiting == {r \in Request : status[r] = "waiting" /\ Owner[r] = u /\ Amount[r] = Paid[p]}
       IN  IF awaiting = {} THEN UNCHANGED <<status, paidBy>>
                            ELSE \E r \in awaiting : MarkConfirmed(r, p)
    /\ UNCHANGED <<claim, lapsed, stage, txVars, job, processed, faults>>

RejectDeposit(p) ==
    /\ queue[p] = "pending"
    /\ queue' = [queue EXCEPT ![p] = "rejected"]
    /\ UNCHANGED <<requestVars, txVars, ledgerVars, job, processed, faults>>

-----------------------------------------------------------------------------
(* Matching.                                                               *)

\* reportSms stores every SMS it is sent and schedules its processing.  The
\* second pass of reportSmsBatch does the same for SMS it has not stored yet.
ReportSms(w, p) ==
    /\ job[w].at = "idle"
    /\ job' = [job EXCEPT ![w] = [at |-> "lookup", pay |-> p, req |-> None]]
    /\ UNCHANGED <<requestVars, txVars, queue, ledgerVars, processed, faults>>

MarkProcessed(p) == processed' = processed \cup {p}

GoTo(w, at) == job' = [job EXCEPT ![w].at = at]
End(w) == job' = [job EXCEPT ![w] = Idle]

\* The duplicate check of matchPayment.
Lookup(w) ==
    /\ job[w].at = "lookup"
    /\ IF tx[job[w].pay] = "none"
       THEN GoTo(w, "decide") /\ UNCHANGED processed
       ELSE End(w) /\ MarkProcessed(job[w].pay)
    /\ UNCHANGED <<requestVars, txVars, queue, ledgerVars, faults>>

Claimants(p) == {r \in Request : Open(r) /\ claim[r] = p}
ByCode(p) == {r \in Request : Open(r) /\ Note[p] = r /\ Amount[r] = Paid[p]}
BySender(p) == {r \in Request : Open(r) /\ Owner[r] = Sender[p] /\ Amount[r] = Paid[p]}

\* runMatchingStrategies: the claimed reference, then the code in the note, then
\* the only open request of that amount of the user with the sender's phone.
Matches(p) ==
    IF Claimants(p) # {} THEN Claimants(p)
    ELSE IF ByCode(p) # {} THEN ByCode(p)
    ELSE {r \in BySender(p) : BySender(p) = {r}}

\* Mutant: a payment nobody can be matched with is dropped.
DecideDropsUnmatched(w) ==
    LET p == job[w].pay
    IN  /\ job[w].at = "decide"
        /\ \/ \E r \in Matches(p) :
                 job' = [job EXCEPT ![w] = [at |-> "credit", pay |-> p, req |-> r]]
           \/ Matches(p) = {} /\ End(w)
        /\ UNCHANGED <<requestVars, txVars, queue, ledgerVars, processed, faults>>

\* The decision.  applyMatchTimeFraudGuards may hand a match to a person.
Decide(w) ==
    LET p == job[w].pay
    IN  /\ job[w].at = "decide"
        /\ \/ \E r \in Matches(p) :
                 job' = [job EXCEPT ![w] = [at |-> "credit", pay |-> p, req |-> r]]
           \/ (Matches(p) = {} \/ p \in Escalated) /\ GoTo(w, "persist")
        /\ UNCHANGED <<requestVars, txVars, queue, ledgerVars, processed, faults>>

\* Mutant: no unique index stops a second credit.
CreditMatchTwice(w) ==
    LET p == job[w].pay
        u == Owner[job[w].req]
    IN  /\ job[w].at = "credit"
        /\ u \notin Frozen
        /\ credit' = [credit EXCEPT ![p] = u]
        /\ balance' = [balance EXCEPT ![u] = @ + Paid[p]]
        /\ tx' = [tx EXCEPT ![p] = "credited"]
        /\ txUser' = [txUser EXCEPT ![p] = u]
        /\ MarkConfirmed(job[w].req, p)
        /\ MarkProcessed(p)
        /\ GoTo(w, "reconcile")
        /\ UNCHANGED <<claim, lapsed, stage, queue, reversal, faults>>

\* creditMatch, in one transaction, against the decision taken before it.
CreditMatch(w) ==
    LET p == job[w].pay
        u == Owner[job[w].req]
    IN  /\ job[w].at = "credit"
        /\ u \notin Frozen
        /\ CreditWallet(p, u)
        /\ tx[p] = "none"
        /\ tx' = [tx EXCEPT ![p] = "credited"]
        /\ txUser' = [txUser EXCEPT ![p] = u]
        /\ MarkConfirmed(job[w].req, p)
        /\ MarkProcessed(p)
        /\ GoTo(w, "reconcile")
        /\ UNCHANGED <<claim, lapsed, stage, queue, faults>>

\* Mutant: an aborted credit ends the processing.
CreditMatchGivesUp(w) ==
    LET p == job[w].pay
    IN  /\ job[w].at = "credit"
        /\ Owner[job[w].req] \in Frozen \/ credit[p] # None \/ tx[p] # "none"
        /\ End(w) /\ MarkProcessed(p)
        /\ UNCHANGED <<requestVars, txVars, queue, ledgerVars, faults>>

\* handleCreditError: a unique index says that the payment is on file already,
\* or the wallet is not active.
CreditMatchFails(w) ==
    LET p == job[w].pay
    IN  /\ job[w].at = "credit"
        /\ IF Owner[job[w].req] \in Frozen
           THEN GoTo(w, "persist") /\ UNCHANGED processed
           ELSE /\ credit[p] # None \/ tx[p] # "none"
                /\ End(w) /\ MarkProcessed(p)
        /\ UNCHANGED <<requestVars, txVars, queue, ledgerVars, faults>>

\* persistAmbiguous and persistUnmatched.  The SMS stays unprocessed when
\* another worker was faster.
Persist(w) ==
    LET p == job[w].pay
    IN  /\ job[w].at = "persist"
        /\ IF tx[p] = "none"
           THEN tx' = [tx EXCEPT ![p] = "uncredited"] /\ MarkProcessed(p)
           ELSE UNCHANGED <<tx, processed>>
        /\ End(w)
        /\ UNCHANGED <<requestVars, txUser, queue, ledgerVars, faults>>

\* After the credit: the payment leaves the approval queue.
Reconcile(w) ==
    LET p == job[w].pay
    IN  /\ job[w].at = "reconcile"
        /\ queue' = [queue EXCEPT ![p] = IF @ = "pending" THEN "approved" ELSE @]
        /\ End(w)
        /\ UNCHANGED <<requestVars, txVars, ledgerVars, processed, faults>>

WorkerStep(w) ==
    \/ Lookup(w) \/ Decide(w) \/ CreditMatch(w) \/ CreditMatchFails(w)
    \/ Persist(w) \/ Reconcile(w)

\* A task that throws is logged and forgotten.
JobFails(w) ==
    /\ job[w].at # "idle" /\ faults < MaxFaults
    /\ faults' = faults + 1
    /\ End(w)
    /\ UNCHANGED <<requestVars, txVars, queue, ledgerVars, processed>>

\* A restart loses the tasks and the requests in progress.
RestartServer ==
    /\ faults < MaxFaults
    /\ faults' = faults + 1
    /\ job' = [w \in Worker |-> Idle]
    /\ stage' = [r \in Request |-> IF status[r] = "absent" THEN "none" ELSE "done"]
    /\ claim' = [r \in Request |-> IF status[r] = "absent" THEN None ELSE claim[r]]
    /\ UNCHANGED <<status, lapsed, paidBy, txVars, queue, ledgerVars, processed>>

-----------------------------------------------------------------------------
RequestStep(r) ==
    \/ \E p \in Payment \cup {None} : CheckInitiate(r, p)
    \/ InsertRequest(r) \/ Lapse(r) \/ CancelDeposit(r)
    \/ ClaimConfirm(r) \/ ClaimMark(r)

DeskStep(p) ==
    \/ \E u \in User : StaffConfirm(p, u) \/ ApproveDeposit(p, u)
    \/ VoidCredited(p) \/ DisputeTransaction(p)
    \/ QueueDeposit(p) \/ RejectDeposit(p)

Next ==
    \/ \E r \in Request : RequestStep(r)
    \/ \E p \in Payment : DeskStep(p)
    \/ \E u \in User : Spend(u)
    \/ \E w \in Worker : WorkerStep(w) \/ JobFails(w)
    \/ \E w \in Worker, p \in Payment : ReportSms(w, p)
    \/ RestartServer

Spec == Init /\ [][Next]_vars

\* The event loop gets round to a task that is scheduled.
FairSpec == Spec /\ \A w \in Worker : WF_vars(WorkerStep(w))

-----------------------------------------------------------------------------
(* Properties.                                                             *)

JobType == [at : {"idle", "lookup", "decide", "credit", "persist", "reconcile"},
            pay : Payment \cup {None}, req : Request \cup {None}]

\* The types of the columns and of the tasks; no balance is negative.
TypeOK ==
    /\ status \in [Request -> {"absent", "waiting", "confirmed", "cancelled"}]
    /\ claim \in [Request -> Payment \cup {None}]
    /\ lapsed \subseteq Request
    /\ stage \in [Request -> {"none", "checked", "claiming", "marking", "done"}]
    /\ paidBy \in [Request -> Payment \cup {None}]
    /\ tx \in [Payment -> {"none", "uncredited", "credited", "disputed"}]
    /\ txUser \in [Payment -> User \cup {None}]
    /\ queue \in [Payment -> {"none", "pending", "approved", "rejected"}]
    /\ credit \in [Payment -> User \cup {None}]
    /\ reversal \in [Payment -> User \cup {None}]
    /\ balance \in [User -> Nat]
    /\ job \in [Worker -> JobType]
    /\ processed \subseteq Payment
    /\ faults \in 0 .. MaxFaults

\* A payment is in one of the two tables what it is in the ledger: a credited
\* row has a credit of its user that was not taken back, and every such credit
\* is explained by a credited, disputed or approved row.
RowsMatchLedger ==
    \A p \in Payment :
        /\ tx[p] = "credited" => /\ credit[p] = txUser[p] /\ credit[p] # None
                                 /\ reversal[p] = None
        /\ reversal[p] # None => reversal[p] = credit[p]
        /\ credit[p] # None /\ reversal[p] = None =>
              tx[p] \in {"credited", "disputed"} \/ queue[p] = "approved"

\* Every confirmed request was paid, by a payment credited to its user, and no
\* payment confirmed two requests, whoever confirms and in whatever order.
ConfirmedIsPaid ==
    /\ \A r \in Request : status[r] = "confirmed" =>
          paidBy[r] # None /\ credit[paidBy[r]] = Owner[r]
    /\ \A r, s \in Request : status[r] = "confirmed" /\ status[s] = "confirmed" /\ r # s =>
          paidBy[r] # paidBy[s]

\* An SMS that is marked processed, and so is never looked at again, has left
\* its payment on file: credited, or in a row somebody can act on.
OnFile(p) == tx[p] # "none" \/ credit[p] # None
ProcessedIsOnFile == \A p \in processed : OnFile(p)

\* A payment is credited once and taken back once, to and from one user,
\* whichever of the three ways it takes (implements PaymentCredit).
holder == [p \in Payment |-> IF reversal[p] # None THEN Returned ELSE credit[p]]
Promise == INSTANCE PaymentCredit WITH purse <- balance
CreditedOnce == Promise!Spec

\* A payment whose processing has begun ends up on file, unless a task failed
\* or the server went down.
InFlight(p) == \E w \in Worker : job[w].at # "idle" /\ job[w].pay = p
ReportedIsOnFile == \A p \in Payment : InFlight(p) ~> (OnFile(p) \/ faults > 0)

\* What the comment at the end of initiateDeposit relies on: an SMS that had not
\* arrived when the request was filed is matched by its reference when it does.
\* So no open claim is left beside an uncredited row when nothing is going on.
ClaimIsMatched ==
    \A r \in Request :
        /\ Open(r) /\ claim[r] # None /\ stage[r] = "done" /\ Owner[r] \notin Frozen
        /\ ~InFlight(claim[r]) /\ faults = 0 /\ reversal[claim[r]] = None
        => tx[claim[r]] # "uncredited"
=============================================================================

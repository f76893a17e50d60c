------------------------ MODULE TelebirrDepositProofs ------------------------
(***************************************************************************)
(* Proofs about TelebirrDeposit, for any number of payments, requests,     *)
(* background tasks and faults.                                            *)
(***************************************************************************)
EXTENDS TelebirrDeposit, TLAPS

\* A task that is at something has a payment, and one that credits a request.
JobsNamed ==
    \A w \in Worker : /\ job[w].at # "idle" => job[w].pay \in Payment
                      /\ job[w].at = "credit" => job[w].req \in Request

\* A request that is tried against its claimed reference claims one.
ClaimsNamed == \A r \in Request : stage[r] \in {"claiming", "marking"} => claim[r] \in Payment

Typed == TypeOK /\ JobsNamed /\ ClaimsNamed

LEMMA TypedInit == Init => Typed
BY DepositAssumption DEF Init, Idle, Typed, TypeOK, JobType, JobsNamed, ClaimsNamed

LEMMA RequestTyped ==
    ASSUME Typed, NEW r \in Request, RequestStep(r) PROVE Typed'
<1> USE DepositAssumption DEF Typed, TypeOK, JobsNamed, ClaimsNamed, txVars, ledgerVars
<1>1. ASSUME NEW p \in Payment \cup {None}, CheckInitiate(r, p) PROVE Typed'
    BY <1>1 DEF CheckInitiate
<1>2. ASSUME InsertRequest(r) PROVE Typed'
    BY <1>2 DEF InsertRequest
<1>3. ASSUME Lapse(r) PROVE Typed'
    BY <1>3 DEF Lapse
<1>4. ASSUME CancelDeposit(r) PROVE Typed'
    BY <1>4 DEF CancelDeposit
<1>5. ASSUME ClaimConfirm(r) PROVE Typed'
    <2>1. claim[r] \in Payment /\ Owner[r] \in User
        BY <1>5 DEF ClaimConfirm
    <2> QED BY <1>5, <2>1 DEF ClaimConfirm, ConfirmManualMatch, CreditWallet
<1>6. ASSUME ClaimMark(r) PROVE Typed'
    <2>1. claim[r] \in Payment
        BY <1>6 DEF ClaimMark
    <2> QED BY <1>6, <2>1 DEF ClaimMark, MarkConfirmed
<1> QED BY <1>1, <1>2, <1>3, <1>4, <1>5, <1>6 DEF RequestStep

LEMMA DeskTyped ==
    ASSUME Typed, RowsMatchLedger, NEW p \in Payment, DeskStep(p) PROVE Typed'
<1> USE DepositAssumption DEF Typed, TypeOK, JobsNamed, ClaimsNamed, requestVars, txVars, ledgerVars
<1>1. ASSUME NEW u \in User, StaffConfirm(p, u) PROVE Typed'
    BY <1>1 DEF StaffConfirm, ConfirmManualMatch, CreditWallet
<1>2. ASSUME NEW u \in User, ApproveDeposit(p, u) PROVE Typed'
    BY <1>2 DEF ApproveDeposit, CreditWallet, MarkConfirmed
<1>3. ASSUME VoidCredited(p) PROVE Typed'
    <2>1. txUser[p] \in User
        BY <1>3 DEF VoidCredited, RowsMatchLedger
    <2> QED BY <1>3, <2>1 DEF VoidCredited
<1>4. ASSUME DisputeTransaction(p) PROVE Typed'
    BY <1>4 DEF DisputeTransaction
<1>5. ASSUME QueueDeposit(p) PROVE Typed'
    BY <1>5 DEF QueueDeposit
<1>6. ASSUME RejectDeposit(p) PROVE Typed'
    BY <1>6 DEF RejectDeposit
<1> QED BY <1>1, <1>2, <1>3, <1>4, <1>5, <1>6 DEF DeskStep

LEMMA GoToTyped ==
    ASSUME Typed, NEW w \in Worker, job[w].at # "idle",
           NEW at \in {"decide", "persist", "reconcile"}, GoTo(w, at)
    PROVE  job' \in [Worker -> JobType] /\ JobsNamed'
BY DEF Typed, TypeOK, JobType, JobsNamed, GoTo

LEMMA EndTyped ==
    ASSUME Typed, NEW w \in Worker, End(w)
    PROVE  job' \in [Worker -> JobType] /\ JobsNamed'
BY DEF Typed, TypeOK, JobType, JobsNamed, End, Idle

LEMMA WorkerTyped ==
    ASSUME Typed, NEW w \in Worker, WorkerStep(w) PROVE Typed'
<1> USE DepositAssumption DEF Typed, TypeOK, ClaimsNamed, requestVars, txVars, ledgerVars,
        MarkProcessed
<1>1. ASSUME Lookup(w) PROVE Typed'
    <2>1. job[w].pay \in Payment
        BY <1>1 DEF Lookup, JobsNamed
    <2>2. job' \in [Worker -> JobType] /\ JobsNamed'
        <3>1. CASE tx[job[w].pay] = "none"
            BY <1>1, <3>1, GoToTyped DEF Lookup
        <3>2. CASE tx[job[w].pay] # "none"
            BY <1>1, <3>2, EndTyped DEF Lookup
        <3> QED BY <3>1, <3>2
    <2> QED BY <1>1, <2>1, <2>2 DEF Lookup
<1>2. ASSUME Decide(w) PROVE Typed'
    <2>1. Matches(job[w].pay) \subseteq Request /\ job[w].pay \in Payment
        BY <1>2 DEF Matches, Claimants, ByCode, BySender, Decide, JobsNamed
    <2>2. CASE GoTo(w, "persist")
        BY <1>2, <2>2, GoToTyped DEF Decide
    <2>3. CASE ~GoTo(w, "persist")
        <3>1. PICK r \in Request :
                 job' = [job EXCEPT ![w] = [at |-> "credit", pay |-> job[w].pay, req |-> r]]
            BY <1>2, <2>1, <2>3 DEF Decide
        <3>2. job' \in [Worker -> JobType] /\ JobsNamed'
            BY <2>1, <3>1 DEF JobType, JobsNamed
        <3> QED BY <1>2, <3>2 DEF Decide
    <2> QED BY <2>2, <2>3
<1>3. ASSUME CreditMatch(w) PROVE Typed'
    <2>1. job[w].pay \in Payment /\ job[w].req \in Request /\ Owner[job[w].req] \in User
        BY <1>3 DEF CreditMatch, JobsNamed
    <2>2. job' \in [Worker -> JobType] /\ JobsNamed'
        BY <1>3, GoToTyped DEF CreditMatch
    <2> QED BY <1>3, <2>1, <2>2 DEF CreditMatch, CreditWallet, MarkConfirmed
<1>4. ASSUME CreditMatchFails(w) PROVE Typed'
    <2>1. job[w].pay \in Payment
        BY <1>4 DEF CreditMatchFails, JobsNamed
    <2> QED BY <1>4, <2>1, GoToTyped, EndTyped DEF CreditMatchFails
<1>5. ASSUME Persist(w) PROVE Typed'
    <2>1. job[w].pay \in Payment
        BY <1>5 DEF Persist, JobsNamed
    <2> QED BY <1>5, <2>1, EndTyped DEF Persist
<1>6. ASSUME Reconcile(w) PROVE Typed'
    <2>1. job[w].pay \in Payment
        BY <1>6 DEF Reconcile, JobsNamed
    <2> QED BY <1>6, <2>1, EndTyped DEF Reconcile
<1> QED BY <1>1, <1>2, <1>3, <1>4, <1>5, <1>6 DEF WorkerStep

LEMMA TypedStep == Typed /\ RowsMatchLedger /\ [Next]_vars => Typed'
<1> SUFFICES ASSUME Typed, RowsMatchLedger, [Next]_vars PROVE Typed'
    OBVIOUS
<1> USE DepositAssumption DEF Typed, TypeOK, JobsNamed, JobType, ClaimsNamed, requestVars, txVars, ledgerVars
<1>1. ASSUME NEW u \in User, Spend(u) PROVE Typed'
    BY <1>1 DEF Spend
<1>2. ASSUME NEW w \in Worker, JobFails(w) PROVE Typed'
    BY <1>2 DEF JobFails, End, Idle
<1>3. ASSUME NEW w \in Worker, NEW p \in Payment, ReportSms(w, p) PROVE Typed'
    BY <1>3 DEF ReportSms
<1>4. ASSUME RestartServer PROVE Typed'
    BY <1>4 DEF RestartServer, Idle
<1>5. ASSUME UNCHANGED vars PROVE Typed'
    BY <1>5 DEF vars
<1> QED BY <1>1, <1>2, <1>3, <1>4, <1>5, RequestTyped, DeskTyped, WorkerTyped DEF Next

-----------------------------------------------------------------------------
\* What CreditWallet needs: a payment without a credit has no reversal, no
\* credited row and has confirmed nothing.
LEMMA RowsMatchLedgerStep ==
    Typed /\ RowsMatchLedger /\ [Next]_vars => RowsMatchLedger'
<1> SUFFICES ASSUME Typed, RowsMatchLedger, [Next]_vars PROVE RowsMatchLedger'
    OBVIOUS
<1> USE DepositAssumption DEF Typed, TypeOK, RowsMatchLedger, requestVars, txVars, ledgerVars
<1>1. ASSUME NEW r \in Request, RequestStep(r) PROVE RowsMatchLedger'
    <2>1. CASE ClaimConfirm(r) /\ ConfirmManualMatch(claim[r], Owner[r])
        BY <2>1 DEF ClaimConfirm, ClaimsNamed, ConfirmManualMatch, Confirmable, CreditWallet
    <2>2. CASE UNCHANGED <<txVars, queue, ledgerVars>>
        BY <2>2
    <2> QED
        BY <1>1, <2>1, <2>2
        DEF RequestStep, CheckInitiate, InsertRequest, Lapse, CancelDeposit, ClaimConfirm, ClaimMark
<1>2. ASSUME NEW p \in Payment, DeskStep(p) PROVE RowsMatchLedger'
    <2>1. ASSUME NEW u \in User, StaffConfirm(p, u) PROVE RowsMatchLedger'
        BY <2>1 DEF StaffConfirm, ConfirmManualMatch, Confirmable, CreditWallet
    <2>2. ASSUME NEW u \in User, ApproveDeposit(p, u) PROVE RowsMatchLedger'
        BY <2>2 DEF ApproveDeposit, CreditWallet
    <2>3. ASSUME VoidCredited(p) PROVE RowsMatchLedger'
        BY <2>3 DEF VoidCredited
    <2>4. ASSUME DisputeTransaction(p) PROVE RowsMatchLedger'
        BY <2>4 DEF DisputeTransaction
    <2>5. ASSUME QueueDeposit(p) \/ RejectDeposit(p) PROVE RowsMatchLedger'
        BY <2>5 DEF QueueDeposit, RejectDeposit
    <2> QED BY <1>2, <2>1, <2>2, <2>3, <2>4, <2>5 DEF DeskStep
<1>3. ASSUME NEW w \in Worker, WorkerStep(w) PROVE RowsMatchLedger'
    <2>1. CASE CreditMatch(w)
        <3>1. job[w].pay \in Payment /\ Owner[job[w].req] \in User
            BY <2>1 DEF CreditMatch, JobsNamed
        <3> QED BY <2>1, <3>1 DEF CreditMatch, CreditWallet
    <2>2. CASE Persist(w)
        BY <2>2 DEF Persist
    <2>3. CASE Reconcile(w)
        BY <2>3 DEF Reconcile
    <2>4. CASE Lookup(w) \/ Decide(w) \/ CreditMatchFails(w)
        BY <2>4 DEF Lookup, Decide, CreditMatchFails
    <2> QED BY <1>3, <2>1, <2>2, <2>3, <2>4 DEF WorkerStep
<1>4. CASE UNCHANGED <<txVars, queue, credit, reversal>>
    BY <1>4
<1> QED
    BY <1>1, <1>2, <1>3, <1>4 DEF Next, Spend, JobFails, ReportSms, RestartServer, vars

\* TelebirrDeposit.TypeOK and RowsMatchLedger: the two tables say of a payment what the
\* ledger says, whoever credits, voids, disputes or approves it.
THEOREM Invariance == Spec => [](Typed /\ RowsMatchLedger)
<1>1. Init => Typed /\ RowsMatchLedger
    BY TypedInit DEF Init, RowsMatchLedger
<1>2. Typed /\ RowsMatchLedger /\ [Next]_vars => Typed' /\ RowsMatchLedger'
    BY TypedStep, RowsMatchLedgerStep
<1> QED BY <1>1, <1>2, PTL DEF Spec

\* The columns keep their types; no balance becomes negative, a voided credit included.
THEOREM TypeCorrect == Spec => []TypeOK
BY Invariance, PTL DEF Typed

\* The tables and the ledger agree on every payment.
THEOREM TablesAgree == Spec => []RowsMatchLedger
BY Invariance, PTL

-----------------------------------------------------------------------------
\* A payment that is on file stays on file.
LEMMA StaysOnFile ==
    ASSUME Typed, [Next]_vars, NEW p \in Payment, OnFile(p) PROVE OnFile(p)'
<1> USE DepositAssumption DEF Typed, TypeOK, OnFile, requestVars, txVars, ledgerVars
<1>1. ASSUME NEW r \in Request, RequestStep(r) PROVE OnFile(p)'
    BY <1>1
    DEF RequestStep, CheckInitiate, InsertRequest, Lapse, CancelDeposit, ClaimConfirm, ClaimMark,
        ConfirmManualMatch, CreditWallet
<1>2. ASSUME NEW q \in Payment, DeskStep(q) PROVE OnFile(p)'
    BY <1>2
    DEF DeskStep, StaffConfirm, ApproveDeposit, VoidCredited, DisputeTransaction, QueueDeposit,
        RejectDeposit, ConfirmManualMatch, CreditWallet
<1>3. ASSUME NEW w \in Worker, WorkerStep(w) PROVE OnFile(p)'
    BY <1>3
    DEF WorkerStep, Lookup, Decide, CreditMatch, CreditMatchFails, Persist, Reconcile, CreditWallet
<1>4. CASE UNCHANGED <<tx, credit>>
    BY <1>4
<1> QED
    BY <1>1, <1>2, <1>3, <1>4 DEF Next, Spend, JobFails, ReportSms, RestartServer, vars

LEMMA ProcessedIsOnFileStep ==
    Typed /\ ProcessedIsOnFile /\ [Next]_vars => ProcessedIsOnFile'
<1> SUFFICES ASSUME Typed, ProcessedIsOnFile, [Next]_vars,
                    NEW p \in processed', p \notin processed
             PROVE  OnFile(p)'
    BY StaysOnFile DEF ProcessedIsOnFile, Typed, TypeOK
<1>1. PICK w \in Worker : WorkerStep(w) /\ p = job[w].pay
    BY DEF Next, RequestStep, CheckInitiate, InsertRequest, Lapse, CancelDeposit, ClaimConfirm,
           ClaimMark, DeskStep, StaffConfirm, ApproveDeposit, VoidCredited, DisputeTransaction,
           QueueDeposit, RejectDeposit, Spend, JobFails, ReportSms, RestartServer, vars, WorkerStep,
           Lookup, Decide, CreditMatch, CreditMatchFails, Persist, Reconcile, MarkProcessed
<1>2. job[w].at # "idle" /\ job[w].pay \in Payment
    BY <1>1 DEF WorkerStep, Lookup, Decide, CreditMatch, CreditMatchFails, Persist, Reconcile,
                Typed, JobsNamed
<1> USE DepositAssumption DEF Typed, TypeOK, OnFile
<1>3. CASE Lookup(w) \/ CreditMatchFails(w)
    BY <1>1, <1>2, <1>3, StaysOnFile DEF Lookup, CreditMatchFails, txVars, ledgerVars
<1>4. CASE CreditMatch(w)
    BY <1>1, <1>2, <1>4 DEF CreditMatch
<1>5. CASE Persist(w)
    BY <1>1, <1>2, <1>5 DEF Persist
<1>6. CASE Decide(w) \/ Reconcile(w)
    BY <1>1, <1>6 DEF Decide, Reconcile
<1> QED BY <1>1, <1>3, <1>4, <1>5, <1>6 DEF WorkerStep

\* An SMS the matcher is done with has left its payment where it can be found, with two
\* tasks at the same payment and failing tasks included.
THEOREM ProcessedStaysOnFile == Spec => []ProcessedIsOnFile
<1>1. Init => ProcessedIsOnFile
    BY DEF Init, ProcessedIsOnFile
<1> QED BY <1>1, Invariance, ProcessedIsOnFileStep, PTL DEF Spec

-----------------------------------------------------------------------------
\* A request whose claimed payment was just credited is about to be confirmed by it:
\* the payment is its owner's, and has confirmed no request and is about to confirm no
\* other.
MarkingIsPaid ==
    /\ \A r \in Request : stage[r] = "marking" =>
          /\ credit[claim[r]] = Owner[r]
          /\ \A s \in Request : status[s] = "confirmed" => paidBy[s] # claim[r]
    /\ \A r, s \in Request : stage[r] = "marking" /\ stage[s] = "marking" /\ r # s =>
          claim[r] # claim[s]

PaidInv == ConfirmedIsPaid /\ MarkingIsPaid

LEMMA RequestPaid ==
    ASSUME Typed, PaidInv, NEW r \in Request, RequestStep(r) PROVE PaidInv'
<1> USE DepositAssumption DEF Typed, TypeOK, ClaimsNamed, PaidInv, ConfirmedIsPaid, MarkingIsPaid,
        requestVars, txVars, ledgerVars
<1>1. ASSUME NEW p \in Payment \cup {None}, CheckInitiate(r, p) PROVE PaidInv'
    BY <1>1 DEF CheckInitiate
<1>2. ASSUME InsertRequest(r) PROVE PaidInv'
    BY <1>2 DEF InsertRequest
<1>3. ASSUME Lapse(r) PROVE PaidInv'
    BY <1>3 DEF Lapse
<1>4. ASSUME CancelDeposit(r) PROVE PaidInv'
    BY <1>4 DEF CancelDeposit
<1>5. ASSUME ClaimConfirm(r) PROVE PaidInv'
    <2>1. CASE ConfirmManualMatch(claim[r], Owner[r])
        <3>1. claim[r] \in Payment /\ Owner[r] \in User /\ credit[claim[r]] = None
              /\ credit' = [credit EXCEPT ![claim[r]] = Owner[r]]
              /\ UNCHANGED <<status, claim, paidBy>>
            BY <1>5, <2>1 DEF ClaimConfirm, ConfirmManualMatch, CreditWallet
        <3>2. \A s \in Request : stage'[s] = "marking" => stage[s] = "marking" \/ s = r
            BY <1>5 DEF ClaimConfirm
        <3> QED BY <3>1, <3>2
    <2>2. CASE ~ConfirmManualMatch(claim[r], Owner[r])
        BY <1>5, <2>2 DEF ClaimConfirm
    <2> QED BY <2>1, <2>2
<1>6. ASSUME ClaimMark(r) PROVE PaidInv'
    BY <1>6 DEF ClaimMark, MarkConfirmed
<1> QED BY <1>1, <1>2, <1>3, <1>4, <1>5, <1>6 DEF RequestStep

\* A payment without a credit is credited to u and confirms a waiting request of u, or none.
LEMMA CreditPaid ==
    ASSUME Typed, PaidInv, NEW p \in Payment, NEW u \in User, CreditWallet(p, u),
           UNCHANGED <<claim, stage>>,
           \/ UNCHANGED <<status, paidBy>>
           \/ \E r \in Request : Owner[r] = u /\ MarkConfirmed(r, p)
    PROVE  PaidInv'
<1> USE DepositAssumption DEF Typed, TypeOK, ClaimsNamed, PaidInv, ConfirmedIsPaid, MarkingIsPaid
<1>1. credit[p] = None /\ credit' = [credit EXCEPT ![p] = u]
    BY DEF CreditWallet
<1>2. \A s \in Request : status[s] = "confirmed" => paidBy[s] # p
    BY <1>1
<1>3. \A s \in Request : stage[s] = "marking" => claim[s] # p /\ claim[s] \in Payment
    BY <1>1
<1>4. CASE UNCHANGED <<status, paidBy>>
    BY <1>1, <1>2, <1>3, <1>4
<1>5. ASSUME NEW r \in Request, Owner[r] = u, MarkConfirmed(r, p) PROVE PaidInv'
    <2>1. CASE status[r] = "waiting" /\ r # None
        <3>1. /\ status' = [status EXCEPT ![r] = "confirmed"]
              /\ paidBy' = [paidBy EXCEPT ![r] = p]
            BY <1>5, <2>1 DEF MarkConfirmed
        <3>2. ConfirmedIsPaid'
            BY <1>1, <1>2, <1>5, <3>1
        <3>3. MarkingIsPaid'
            BY <1>1, <1>2, <1>3, <3>1
        <3> QED BY <3>2, <3>3
    <2>2. CASE ~(status[r] = "waiting" /\ r # None)
        BY <1>4, <1>5, <2>2 DEF MarkConfirmed
    <2> QED BY <2>1, <2>2
<1> QED BY <1>4, <1>5

LEMMA PaidStep == Typed /\ PaidInv /\ [Next]_vars => PaidInv'
<1> SUFFICES ASSUME Typed, PaidInv, [Next]_vars PROVE PaidInv'
    OBVIOUS
<1>1. ASSUME UNCHANGED <<status, claim, stage, paidBy, credit>> PROVE PaidInv'
    BY <1>1 DEF PaidInv, ConfirmedIsPaid, MarkingIsPaid
<1>2. ASSUME NEW p \in Payment, DeskStep(p) PROVE PaidInv'
    <2>1. ASSUME NEW u \in User, StaffConfirm(p, u) PROVE PaidInv'
        BY <2>1, CreditPaid DEF StaffConfirm, ConfirmManualMatch, requestVars
    <2>2. ASSUME NEW u \in User, ApproveDeposit(p, u) PROVE PaidInv'
        BY <2>2, CreditPaid DEF ApproveDeposit
    <2>3. CASE VoidCredited(p) \/ DisputeTransaction(p) \/ QueueDeposit(p) \/ RejectDeposit(p)
        BY <1>1, <2>3
        DEF VoidCredited, DisputeTransaction, QueueDeposit, RejectDeposit, requestVars, ledgerVars
    <2> QED BY <1>2, <2>1, <2>2, <2>3 DEF DeskStep
<1>3. ASSUME NEW w \in Worker, WorkerStep(w) PROVE PaidInv'
    <2>1. CASE CreditMatch(w)
        <3>1. job[w].pay \in Payment /\ job[w].req \in Request /\ Owner[job[w].req] \in User
            BY <2>1, DepositAssumption DEF CreditMatch, Typed, JobsNamed
        <3> QED BY <2>1, <3>1, CreditPaid DEF CreditMatch
    <2>2. CASE Lookup(w) \/ Decide(w) \/ CreditMatchFails(w) \/ Persist(w) \/ Reconcile(w)
        BY <1>1, <2>2
        DEF Lookup, Decide, CreditMatchFails, Persist, Reconcile, requestVars, ledgerVars
    <2> QED BY <1>3, <2>1, <2>2 DEF WorkerStep
<1>4. ASSUME RestartServer PROVE PaidInv'
    BY <1>4 DEF RestartServer, PaidInv, ConfirmedIsPaid, MarkingIsPaid, ledgerVars
<1> QED
    BY <1>1, <1>2, <1>3, <1>4, RequestPaid
    DEF Next, Spend, JobFails, ReportSms, requestVars, ledgerVars, vars

\* A confirmed request was paid by a payment of its own, whoever confirms it and with the
\* user's claim credited and marked in two transactions.
THEOREM ConfirmedStaysPaid == Spec => []ConfirmedIsPaid
<1>1. Init => PaidInv
    BY DEF Init, PaidInv, ConfirmedIsPaid, MarkingIsPaid
<1>2. PaidInv => ConfirmedIsPaid
    BY DEF PaidInv
<1> QED BY <1>1, <1>2, Invariance, PaidStep, PTL DEF Spec

-----------------------------------------------------------------------------
\* Crediting a payment is a credit of the promise.
LEMMA CreditImplements ==
    ASSUME Typed, RowsMatchLedger, NEW p \in Payment, NEW u \in User, CreditWallet(p, u)
    PROVE  Promise!Next
<1> USE DepositAssumption DEF Typed, TypeOK, RowsMatchLedger
<1>1. reversal[p] = None
    BY DEF CreditWallet
<1>2. holder[p] = None
    BY <1>1 DEF holder, CreditWallet
<1>3. holder' = [holder EXCEPT ![p] = u]
    BY <1>1 DEF holder, CreditWallet
<1> QED BY <1>2, <1>3 DEF Promise!Next, Promise!Credit, CreditWallet

\* Voiding one is the return of the promise.
LEMMA VoidImplements ==
    ASSUME Typed, RowsMatchLedger, NEW p \in Payment, VoidCredited(p)
    PROVE  Promise!Next
<1> DEFINE u == txUser[p]
<1> USE DepositAssumption DEF Typed, TypeOK, RowsMatchLedger
<1>1. u \in User /\ credit[p] = u /\ reversal[p] = None /\ u # None
    BY DEF VoidCredited
<1>2. holder[p] = u
    BY <1>1 DEF holder
<1>3. holder' = [holder EXCEPT ![p] = Returned]
    BY <1>1 DEF holder, VoidCredited
<1>4. Paid[p] <= balance[u] /\ balance' = [balance EXCEPT ![u] = @ - Paid[p]]
    BY DEF VoidCredited
<1> HIDE DEF u
<1> QED BY <1>1, <1>2, <1>3, <1>4 DEF Promise!Next, Promise!TakeBack

LEMMA ImplementsStep ==
    Typed /\ RowsMatchLedger /\ [Next]_vars => [Promise!Next]_Promise!vars
<1> SUFFICES ASSUME Typed, RowsMatchLedger, [Next]_vars PROVE [Promise!Next]_Promise!vars
    OBVIOUS
<1>1. ASSUME UNCHANGED ledgerVars PROVE UNCHANGED Promise!vars
    BY <1>1 DEF ledgerVars, holder, Promise!vars
<1>2. ASSUME NEW r \in Request, RequestStep(r) PROVE [Promise!Next]_Promise!vars
    <2>1. CASE ClaimConfirm(r) /\ ConfirmManualMatch(claim[r], Owner[r])
        <3>1. claim[r] \in Payment /\ Owner[r] \in User
            BY <2>1, DepositAssumption DEF ClaimConfirm, Typed, ClaimsNamed
        <3> QED BY <2>1, <3>1, CreditImplements DEF ConfirmManualMatch
    <2>2. CASE ~(ClaimConfirm(r) /\ ConfirmManualMatch(claim[r], Owner[r]))
        BY <1>1, <1>2, <2>2
        DEF RequestStep, CheckInitiate, InsertRequest, Lapse, CancelDeposit, ClaimConfirm, ClaimMark,
            ledgerVars
    <2> QED BY <2>1, <2>2
<1>3. ASSUME NEW p \in Payment, DeskStep(p) PROVE [Promise!Next]_Promise!vars
    <2>1. ASSUME NEW u \in User, StaffConfirm(p, u) \/ ApproveDeposit(p, u) PROVE Promise!Next
        BY <2>1, CreditImplements DEF StaffConfirm, ConfirmManualMatch, ApproveDeposit
    <2>2. CASE DisputeTransaction(p) \/ QueueDeposit(p) \/ RejectDeposit(p)
        BY <1>1, <2>2 DEF DisputeTransaction, QueueDeposit, RejectDeposit
    <2> QED BY <1>3, <2>1, <2>2, VoidImplements DEF DeskStep
<1>4. ASSUME NEW u \in User, Spend(u) PROVE Promise!Next
    BY <1>4 DEF Spend, Promise!Next, Promise!Spend, holder
<1>5. ASSUME NEW w \in Worker, WorkerStep(w) PROVE [Promise!Next]_Promise!vars
    <2>1. CASE CreditMatch(w)
        <3>1. job[w].pay \in Payment /\ Owner[job[w].req] \in User
            BY <2>1, DepositAssumption DEF CreditMatch, Typed, JobsNamed
        <3> QED BY <2>1, <3>1, CreditImplements DEF CreditMatch
    <2>2. CASE Lookup(w) \/ Decide(w) \/ CreditMatchFails(w) \/ Persist(w) \/ Reconcile(w)
        BY <1>1, <2>2 DEF Lookup, Decide, CreditMatchFails, Persist, Reconcile
    <2> QED BY <1>5, <2>1, <2>2 DEF WorkerStep
<1> QED
    BY <1>1, <1>2, <1>3, <1>4, <1>5
    DEF Next, JobFails, ReportSms, RestartServer, ledgerVars, vars

\* Whichever of the matcher, the desks, the user and the approval queue is first, a payment
\* is credited to one user once, and taken back from him once at most.
THEOREM ImplementsPaymentCredit == Spec => CreditedOnce
<1>1. Init => Promise!Init
    BY DEF Init, Promise!Init, holder
<1> QED BY <1>1, Invariance, ImplementsStep, PTL DEF Spec, CreditedOnce, Promise!Spec
=============================================================================

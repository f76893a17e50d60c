-------------------------- MODULE WithdrawalPayout --------------------------
(***************************************************************************)
(* The withdrawal back end together with the agents' phones.               *)
(*                                                                         *)
(* A phone learns of its commands from the answer to a heartbeat, dials    *)
(* the USSD menu of one command at a time and reports the result in an     *)
(* HTTP request that may be lost, be answered late or be answered after    *)
(* the phone has given up waiting.  Telebirr itself is outside the code:   *)
(* all the phone learns of a dialled session is whether it ended well or   *)
(* with an error or a timeout, which does not say whether money moved.     *)
(***************************************************************************)
EXTENDS TelebirrWithdrawal

CONSTANTS
    Reliable,     \* TRUE: no request is lost, no phone gives up, restarts or falls silent
    ServerRestarts, \* TRUE: the server may be restarted at any time
    MaxDials      \* how often one command is dialled at most in the model

ASSUME AppAssumption == Reliable \in BOOLEAN /\ ServerRestarts \in BOOLEAN /\ MaxDials \in Nat \ {0}

VARIABLES
    handled,   \* _handledCommands of an agent's app
    session,   \* the command it is executing, _ussdBusy when there is one
    stage,     \* where _handleCommand stands
    answer,    \* commands in a heartbeat answer on its way to the phone
    report,    \* updateCommandResult requests, by command and result
    dials,     \* how often a command was dialled
    dialledOk  \* commands of which a dial came back without error

appVars == <<handled, session, stage, answer, report, dials, dialledOk>>
payoutVars == <<vars, appVars>>

Result == {"success", "failed"}

PayoutInit ==
    /\ Init
    /\ handled = [a \in Agent |-> {}]
    /\ session = [a \in Agent |-> None]
    /\ stage = [a \in Agent |-> "idle"]
    /\ answer = [a \in Agent |-> {}]
    /\ report = [c \in Command |-> [result \in Result |-> "none"]]
    /\ dials = [c \in Command |-> 0]
    /\ dialledOk = {}

-----------------------------------------------------------------------------
\* The heartbeat: last_seen_at is refreshed and the agent's pending commands
\* are read.  They stay pending.
Heartbeat(a) ==
    /\ AgentSeen(a)
    /\ answer' = [answer EXCEPT ![a] =
                    {c \in Command : /\ command[c].status = "pending"
                                     /\ command[c].agent = a}]
    /\ UNCHANGED <<handled, session, stage, report, dials, dialledOk>>

\* Mutant: the app does not remember what it has handled.
HandleForgetfully(a) ==
    /\ answer[a] # {}
    /\ answer' = [answer EXCEPT ![a] = {}]
    /\ IF session[a] # None \/ answer[a] \subseteq handled[a]
       THEN UNCHANGED <<handled, session, stage>>
       ELSE \E c \in answer[a] \ handled[a] :
              /\ dials[c] < MaxDials
              /\ session' = [session EXCEPT ![a] = c]
              /\ stage' = [stage EXCEPT ![a] = "dialling"]
              /\ UNCHANGED handled
    /\ UNCHANGED <<vars, report, dials, dialledOk>>

\* _tick hands every command of the answer to _handleCommand, which starts the
\* first one it has not handled yet and drops the others.
HandleAnswer(a) ==
    /\ answer[a] # {}
    /\ answer' = [answer EXCEPT ![a] = {}]
    /\ IF session[a] # None \/ answer[a] \subseteq handled[a]
       THEN UNCHANGED <<handled, session, stage>>
       ELSE \E c \in answer[a] \ handled[a] :
              /\ dials[c] < MaxDials
              /\ handled' = [handled EXCEPT ![a] = @ \cup {c}]
              /\ session' = [session EXCEPT ![a] = c]
              /\ stage' = [stage EXCEPT ![a] = "dialling"]
    /\ UNCHANGED <<vars, report, dials, dialledOk>>

\* Mutant: the two outcomes are reported the wrong way round.
DialSwapped(a, ok) ==
    LET c == session[a]
        result == IF ok THEN "failed" ELSE "success"
    IN  /\ stage[a] = "dialling"
        /\ dials' = [dials EXCEPT ![c] = @ + 1]
        /\ dialledOk' = IF ok THEN dialledOk \cup {c} ELSE dialledOk
        /\ report' = [report EXCEPT ![c][result] = "sent"]
        /\ stage' = [stage EXCEPT ![a] = result]
        /\ UNCHANGED <<vars, handled, session, answer>>

\* The USSD session ends.  A session that returns text is reported a success,
\* one that throws is reported failed.
Dial(a, ok) ==
    LET c == session[a]
        result == IF ok THEN "success" ELSE "failed"
    IN  /\ stage[a] = "dialling"
        /\ dials' = [dials EXCEPT ![c] = @ + 1]
        /\ dialledOk' = IF ok THEN dialledOk \cup {c} ELSE dialledOk
        /\ report' = [report EXCEPT ![c][result] = "sent"]
        /\ stage' = [stage EXCEPT ![a] = result]
        /\ UNCHANGED <<vars, handled, session, answer>>

\* The back end executes a report and answers.
ReceiveReport(c, result) ==
    /\ report[c][result] = "sent"
    /\ RecordCommandResult(c, result)
    /\ report' = [report EXCEPT ![c][result] = "answered"]
    /\ UNCHANGED <<handled, session, stage, answer, dials, dialledOk>>

\* Mutant: _ussdBusy is not reset.
ReportAnsweredStaysBusy(a) ==
    /\ stage[a] \in Result
    /\ report[session[a]][stage[a]] = "answered"
    /\ report' = [report EXCEPT ![session[a]][stage[a]] = "none"]
    /\ stage' = [stage EXCEPT ![a] = "idle"]
    /\ UNCHANGED <<vars, handled, session, answer, dials, dialledOk>>

\* The answer reaches a phone that still waits for it.
ReportAnswered(a) ==
    /\ stage[a] \in Result
    /\ report[session[a]][stage[a]] = "answered"
    /\ report' = [report EXCEPT ![session[a]][stage[a]] = "none"]
    /\ session' = [session EXCEPT ![a] = None]
    /\ stage' = [stage EXCEPT ![a] = "idle"]
    /\ UNCHANGED <<vars, handled, answer, dials, dialledOk>>

\* The request throws, the report of a success included: the phone then
\* reports a failure, and forgets the command when that throws too.
ReportTimesOut(a) ==
    /\ ~Reliable
    /\ \/ /\ stage[a] = "success"
          /\ report' = [report EXCEPT ![session[a]]["failed"] = "sent"]
          /\ stage' = [stage EXCEPT ![a] = "failed"]
          /\ UNCHANGED <<handled, session>>
       \/ /\ stage[a] = "failed"
          /\ handled' = [handled EXCEPT ![a] = @ \ {session[a]}]
          /\ session' = [session EXCEPT ![a] = None]
          /\ stage' = [stage EXCEPT ![a] = "idle"]
          /\ UNCHANGED report
    /\ UNCHANGED <<vars, answer, dials, dialledOk>>

\* A request, or the answer to it, never arrives.
LoseReport(c, result) ==
    /\ ~Reliable
    /\ report[c][result] # "none"
    /\ report' = [report EXCEPT ![c][result] = "none"]
    /\ UNCHANGED <<vars, handled, session, stage, answer, dials, dialledOk>>

\* The app is closed or killed: what it has handled is only in memory.
RestartApp(a) ==
    /\ ~Reliable
    /\ handled' = [handled EXCEPT ![a] = {}]
    /\ session' = [session EXCEPT ![a] = None]
    /\ stage' = [stage EXCEPT ![a] = "idle"]
    /\ answer' = [answer EXCEPT ![a] = {}]
    /\ UNCHANGED <<vars, report, dials, dialledOk>>

-----------------------------------------------------------------------------
PhoneStep(a) ==
    \/ HandleAnswer(a)
    \/ \E ok \in BOOLEAN : Dial(a, ok)
    \/ ReportAnswered(a)

NetworkStep ==
    \/ \E a \in Agent : ReportTimesOut(a) \/ RestartApp(a)
    \/ \E c \in Command, result \in Result : LoseReport(c, result)

ServerStep ==
    \/ UserStep
    \/ ReversalStep
    \/ DispatchStep
    \/ CashierStep
    \/ OperatorStep
    \/ ~Reliable /\ \E a \in Agent : AgentSilent(a)
    \/ ServerRestarts /\ RestartServer

PayoutNext ==
    \/ ServerStep /\ UNCHANGED appVars
    \/ \E c \in Command, result \in Result : ReceiveReport(c, result)
    \/ \E a \in Agent : Heartbeat(a) \/ PhoneStep(a)
    \/ NetworkStep

PayoutSpec == PayoutInit /\ [][PayoutNext]_payoutVars

\* What a transaction that has taken its snapshot still has to do.
EndTransaction ==
    \/ \E r \in Request : InitiateWithdrawal(r) \/ RefuseInitiate(r)
    \/ \E e \in reversing : CommitReversal(e) \/ RefuseReversal(e)
    \/ \E e \in switching, c \in Command : SwitchWithdrawalWallet(e, c)

\* A phone in service polls, executes and reports; the server runs what it has
\* begun.  Nobody is obliged to file, cancel, claim or approve anything, and
\* nothing is promised about a restart.
Fairness ==
    /\ \A a \in Agent :
         /\ WF_payoutVars(Heartbeat(a))
         /\ WF_payoutVars(HandleAnswer(a))
         /\ WF_payoutVars(\E ok \in BOOLEAN : Dial(a, ok))
         /\ WF_payoutVars(ReportAnswered(a))
    /\ \A c \in Command, result \in Result : WF_payoutVars(ReceiveReport(c, result))
    /\ WF_payoutVars(DispatchStep /\ UNCHANGED appVars)
    /\ WF_payoutVars(EndTransaction /\ UNCHANGED appVars)

FairSpec == PayoutSpec /\ Fairness

-----------------------------------------------------------------------------
\* Every variable has its type, and a phone is busy with exactly the command
\* that it has marked as handled and whose USSD session or report is under way.
PayoutTypeOK ==
    /\ TypeOK
    /\ handled \in [Agent -> SUBSET Command]
    /\ session \in [Agent -> Command \cup {None}]
    /\ stage \in [Agent -> {"idle", "dialling"} \cup Result]
    /\ answer \in [Agent -> SUBSET Command]
    /\ report \in [Command -> [Result -> {"none", "sent", "answered"}]]
    /\ dials \in [Command -> 0..MaxDials]
    /\ dialledOk \subseteq Command
    /\ \A a \in Agent :
         /\ session[a] = None <=> stage[a] = "idle"
         /\ session[a] # None => session[a] \in handled[a]

\* A swap is booked only for a payout the phone saw succeed: whatever is lost,
\* repeated, cancelled or restarted, an agent's capacity is never restored for
\* a USSD session that ended in an error.
SwapHasSuccessfulDial ==
    \A r \in Request :
        swap[r] # None =>
            \E c \in dialledOk : command[c].request = r /\ command[c].agent = swap[r]

\* A request that was given to an agent ends: with phones in service and no
\* loss, neither the user's money nor the one open request is stuck.
DispatchedIsResolved ==
    \A r \in Request : status[r] = "processing" ~> status[r] \in FinalStatus

\* heartbeat_service.dart:65-67: a command that is still pending on the next
\* heartbeat is not dialled twice.
DialledOnce == \A c \in Command : dials[c] <= 1

\* heartbeat_service.dart:120-122: the phone reports success or failure of the
\* dial; a failure is what refunds the user (agent.service.ts:991-994).
FailureReportedOnlyForFailedDial ==
    \A c \in Command : report[c]["failed"] # "none" => c \notin dialledOk
=============================================================================

# betET platform: specifications

TLA+ specifications of the money-moving core of the betET platform, with TLC
model-checking runs and TLAPS proofs. Definitions are translated from the source
(`src/`), each with the lines it stands for in `PROJECT.json` under `map`.
Paths below are relative to `src/backend/src/` unless they start otherwise.

Seven systems are modelled, each in a module of its own:

* **Telebirr withdrawals**: a user's withdrawal request, from the debit of the wallet
  to the USSD dial on an agent's phone, with everybody who may reverse it meanwhile.
* **Sportsbook tickets**: a ticket from the slip to the wallet, with the settlement
  passes, the desks and the bettor racing to close it.
* **Telebirr deposits**: a payment from the SMS that reports it, once or several times, to
  the one credit it may have, whoever makes it.
* **Branch counter**: withdrawal codes, cash deposits and withdrawals, and the count of a
  cashier's shift.
* **Cashier tickets**: slips sold, copied, cancelled and paid in cash.
* **Internal games**: Aviator, JetX and Keno rounds, spins and their gamble.
* **External game wallet**: the callbacks by which game providers move a wallet.

## 1. Inventory

The backend is one Node.js process (Express, `pg`), a PostgreSQL database and a set of
`setInterval` workers in the same process. Handlers talk to the database through
`withTenantClient` (`infrastructure/db/tenant-client.ts`): `BEGIN`, the handler,
`COMMIT`, or `ROLLBACK` if it throws. The isolation level is PostgreSQL's default, READ
COMMITTED: each statement sees what is committed when it starts, an `UPDATE` waits for
the row and re-evaluates its `WHERE`, and only `FOR UPDATE` or a unique index keeps
two transactions apart. Every behaviour that is hard here comes from that.

| Component | State | Operations | Interacts with | Hard part | What makes it correct |
|---|---|---|---|---|---|
| Telebirr withdrawals (`modules/telebirr/telebirr.withdrawal.*`) | request status, claim, debit and reversal ledger rows, wallet buckets | initiate, cancel, reject, claim, complete, dispatch, drain | wallet, P2P commands, cashiers, P2P desk | reads without locks, three parties that may refund | a request is paid or refunded once; one open request per user; the wallet equals the ledger |
| Agent command reports (`modules/agent`) | command status, heartbeats, swaps | heartbeat, command result, SMS | withdrawals, agent app | late and repeated reports | a swap only for a payout, a refund only for a failure |
| P2P desk (`modules/admin/p2p`) | commands | approve, reject, switch wallet, overwrite a command's status | withdrawals, agents | works around the state machine of the request | a request is not paid twice |
| Agent app (`src/M-info-app`) | handled commands (in memory), session | heartbeat, dial, report | command API | lost reports, restarts, the dial cannot be undone | a command is dialled once and reported as it went |
| Sportsbook settlement (`modules/admin/settlement`, `modules/sports/providers/results.service.ts`, `workers/settlement-loop.ts`) | tickets, legs, events, results, review flags | grade, settle, postpone, cancel, expire, flag; settle, void, force, refund, reopen, resettle | wallet, match desk, odds provider | several passes at once, one transaction for many tickets, NULLs | a ticket is credited once and what its legs say; a finished ticket is settled |
| Bets (`modules/bets`) | tickets, wallet | place, cash out, cancel | settlement | checks before locks | stake moved once; a closed ticket is not cashed out |
| Match and trading desks (`modules/admin/matches`, `sportsbook`, `bets`) | events, results, legs, tickets | enter results, settle a market, overwrite a ticket, cancel a bet | settlement | second implementations of settlement | the same outcome and bucket as settlement |
| Telebirr deposits (`modules/telebirr/telebirr.matching.service.ts`, `telebirr.deposit-flow.ts`, `modules/user/deposits-telebirr.service.ts`, `modules/admin/telebirr`) | stored payments, deposit requests and claims, approval queue, credits and voids | initiate, cancel, report, match, credit, confirm, void, dispute, queue, approve | wallet, agents, P2P desk | one payment reported twice, matched by several tasks, credited in three ways | a payment is credited once, and every table says so; a confirmed request was paid |
| Cashier tickets (`modules/cashier/tickets.routes.ts`, `modules/public`) | slips, copies, printed codes, drawer rows | reserve, sell, copy, take a match off, cancel, pay | settlement | reads before the lock, an aborted transaction that looks committed | drawers agree with tickets; only a winning ticket is paid, once; copies within the limit |
| Crash games, keno, slots (`modules/games`, `workers/aviator-loop.ts`, `jetx-loop.ts`, `keno-loop.ts`) | rounds, bets, gambles, ledger rows | bet, tick, cash out, end of round, spin, pick, take | wallet | a request in five transactions, a cash-out racing the tick | a win is booked for a bet that won; a round's bets end; a gamble is taken once |
| External game wallet (`modules/game`, `modules/webhooks`) | sessions, ledger rows, bets | session, debit, credit, rollback, the older receiver | wallet | repeated, overlapping and reordered callbacks | the wallet is what the rows add up to; bet and rows agree |
| Bonuses (`modules/promotions`) | bonus awards, wagering | award, progress, convert, expire | deposits, settlement | hooks after the commit | an award is converted once |
| Branch counter (`modules/*/branch-withdrawal.routes.ts`, `modules/cashier/operations.service.ts`, `shifts.service.ts`) | codes, `locked_balance`, operations by key, shifts | issue, pay, expire, cancel; deposit, withdraw; open and close a shift | wallet, bets, cashiers | expiry racing payment, repeated operations, counts that are read first and written later | a code is paid or returned once; locked is what codes and stakes add up to; a count stands |
| Authentication, payment gateway, provider feeds, notifications, realtime, bulk SMS, rain, tournaments, reports, settings | | | | mostly calls to the outside or plain reads | |
| Web front ends (`src/*-panel-main`, `src/game-engine-main`) | none of their own | pages over the API | | | |

`PROJECT.json` lists each of them with its status, and under `hazards` what is hard to
test in this code, at its line, with the properties that watch it.

## 2. Modules

| Module | What it is |
|---|---|
| `TelebirrWithdrawal` | the backend's side of a withdrawal: `telebirr.withdrawal.service.ts`, the command reports of `agent.service.ts`, the withdrawal handlers of `p2p.service.ts` |
| `WithdrawalEscrow` | abstract: money is held, then paid or returned, once and in full |
| `WithdrawalPayout` | EXTENDS `TelebirrWithdrawal` with the agent app and the network between them |
| `WithdrawalProofs` | theorems about the two |
| `SportsbookSettlement` | placement, cash-out, cancellation, passes, desks |
| `TicketPromise` | abstract: a ticket is staked once, closed once, and pays nothing, its stake or a win |
| `SportsbookSettlementProofs` | theorems about it |
| `TelebirrDeposit` | requests, claims, SMS, matching, credit, confirmation, void, approval queue |
| `PaymentCredit` | abstract: a payment is credited to one user once and taken back from him once at most |
| `BranchCounter` | codes, counter operations, shifts, and the bets that share `locked_balance` |
| `HeldCash` | abstract: the amount of a code leaves the purse, is held, and is handed out or put back once |
| `CashierTicket` | slips and their copies at the counter |
| `InternalGames` | rounds, bets, cash-outs, spins and gambles |
| `ExternalGameWallet` | the two receivers of provider callbacks |
| `TelebirrDepositProofs`, `BranchCounterProofs`, `CashierTicketProofs`, `InternalGamesProofs`, `ExternalGameWalletProofs` | theorems about these |
| `SumTheorems` | what a sum over a finite set is after an element is added, removed or changed; used by the proofs about money |
| `MC...` | small instances for TLC, one per system |

### How a transaction becomes actions

A handler that first locks or conditionally updates the row it decides on is **one action**:
no other transaction can slip in between. A handler that reads without a lock and
writes later is **two actions**: the first takes the snapshot and leaves a record of the
transaction in a variable, the second writes, and its guard is what the `UPDATE`'s `WHERE` or a
unique index evaluates again. Row locks that matter across actions are predicates over those records
(`Locked`; `EventLocked`, `LegLocked`). A transaction that fails changes nothing: either the action is
not taken, or, where it leaves something behind, an action of its own ends it. A
restart of the server drops the records of open transactions and what is only in memory.

### TelebirrWithdrawal

| Variable | Code |
|---|---|
| `balance`, `withdrawable` | the two buckets of `wallets` |
| `status`, `holder`, `arrivals` | `telebirr_withdrawal_requests`: status, `cashier_id`, order of `created_at` |
| `debit`, `reversal`, `swap` | the ledger rows: debit with its status, `tw_rev:<id>`, the agent swap |
| `command` | `p2p_commands` |
| `seen` | agents with a recent heartbeat |
| `opening`, `routing`, `reversing`, `switching`, `draining` | transactions between their read and their write; drains under way |
| `dispatchDue` | initiate handlers that still have to dispatch |

`initiateWithdrawal` is `CheckOpenWithdrawal` then `InitiateWithdrawal` or
`RefuseInitiate`; its dispatch and `drainWithdrawalQueue` are `PickAgentForWithdrawal` or
`DrainWithdrawalQueue`, then `DispatchWithdrawal` or `SkipDispatch`. The reversals of user, cashier and
administrator are `ReadForReversal`, then `CommitReversal` or `RefuseReversal`. `RecordCommandResult` is the
report of a command: `RecordSuccess`, `RecordFailure` or `RecordIgnored`. The P2P desk
is `ApproveWithdrawal`, `RejectWithdrawal`, `ReadForSwitch`, `SwitchWithdrawalWallet` and `UpdateCommandStatus`.
Roles are switched off by empty sets of people.

Abstracted: the order of preference among eligible agents (any may be chosen); the validation of input and of
the wallet's status (the action is not taken); broadcast and administrative commands; bets and deposits
between two steps (`WageringRemaining` is a constant). `PoolSize` is `PG_POOL_MAX` and bounds open
transactions, the set `Command` bounds the commands ever issued.

### WithdrawalPayout

`heartbeat_service.dart` per agent: `handled` (its in-memory set), `session` and `stage` (the command being dialled),
`answer` (commands in a heartbeat's answer), `report` (reports on their way), and two history variables,
`dials` and `dialledOk`. `Heartbeat`, `HandleAnswer`, `Dial`, `ReportAnswered`, `ReportTimesOut` and `RestartApp`
are the app; `ReceiveReport` and `LoseReport` the network. `Reliable` excludes lost and late reports and app
restarts, `ServerRestarts` allows restarts of the server, `MaxDials` bounds the dials of a command.

### SportsbookSettlement

| Variable | Code |
|---|---|
| `balance`, `locked`, `withdrawable` | the buckets of `wallets` |
| `status`, `settlement`, `review` | `sportsbook_bets`: status, settlement_status (its final values as `"final"`), review_required |
| `leg`, `postponed` | `sportsbook_bet_legs`: status; the legs whose selection_status is `'postponed'`. Its other values repeat the status |
| `credit` | the ledger rows that credit a ticket, by reference |
| `event`, `result` | `sports_events.status`, `sports_selections.result` |
| `placing` | placements between their checks and the wallet lock |
| `pass` | grading passes: phase, events, grades found, legs written, tickets found ready |

A pass is `GradeLegs`, `CountPending`, `CommitPass` or `AbortPass`. It sees its own legs (`SeenBy`), others see the committed
ones. The results pass, of which the process runs one at a time, also grades events the
provider reports; the local pass grades what is finished already. A grading is *any*
assignment of results to the open selections the score decides (`Gradable`).
`Payout[t][V]` is what a ticket pays when the legs `V` are void: odds, effective stake, taxes and compensation are
in it. Each handler of the desks is an action of the same name.
`InUse` says which roles and settings a run includes; what the proofs assume of it is said below.

Abstracted: walk-in tickets without a user, bonus stakes, limits, idempotency keys, bet builder, market status, edits of fixtures. Events
start and end when the environment likes. The hooks after settlement (streaks, cashback, affiliate
commission, wagering) run detached in transactions of their own and are not modelled. A cancellation of an
event or an expiry that hits an existing ledger reference is rolled back: the action is not taken.

### TelebirrDeposit

| Variable | Code |
|---|---|
| `status`, `claim`, `lapsed`, `paidBy` | `telebirr_deposit_requests`: status, `claimed_telebirr_ref`, `expires_at` passed, confirming payment |
| `stage` | where the handler of a new request stands: checked, inserted, its claim credited, done |
| `tx`, `txUser` | `telebirr_transactions` by reference; `pending` and `unmatched` are one value, `"uncredited"`, since every handler treats them alike |
| `queue` | `p2p_deposits.status` by reference |
| `credit`, `reversal`, `balance` | ledger rows `<ref>` and `void:<ref>`, `wallets.balance` |
| `job`, `processed` | a background task and its step; the payments of which an SMS was marked processed |
| `faults` | restarts and failing tasks so far, bounded by `MaxFaults` |

`initiateTelebirrDeposit` is `CheckInitiate`, `InsertRequest`, then `ClaimConfirm` and `ClaimMark`, four transactions. The matching
of an SMS is `ReportSms`, `Lookup`, `Decide`, `CreditMatch` or `CreditMatchFails` or `Persist`, and `Reconcile`: the code opens a transaction for each, so
two tasks interleave between any of them. `StaffConfirm` stands for the confirmations of agent, cashier and administrator,
`VoidCredited` and `DisputeTransaction` for the cashier's corrections, `QueueDeposit`, `ApproveDeposit` and `RejectDeposit` for the second table of the same
payments. `Spend` is whatever else takes from the balance. The fraud rules are the set `Escalated`, frozen wallets the set `Frozen`.

### BranchCounter

`code`, `lapsed`, `payer`, `returned` are a withdrawal code, `row` the two ledger rows of an operation's key, `bet` a stake, `shift`, `holder`, `count` the shifts;
`session` and `closing` are what a request has read. `CreateCode`, `CancelCode`, `SweepExpired`, `LookUpCode` and `ProcessCode` are the routes
of player and cashier, each one action because it locks or conditionally updates the code first. A counter operation is `BeginOperation` (idempotency lookup, open shift)
and `CommitOperation` or `AbortOperation`; closing a shift is `CountShift` and `RecordCount`. `PlaceBet` and `SettleBet` are there because `releaseLockedBalance`
cuts `locked_balance` off at zero: a stake released too early would eat the amount of a code. Limits, wagering rules and the text of codes only refuse and are left out.

### CashierTicket

`status`, `root` (`metadata.copy_of`), `legs` (rows of `sportsbook_bet_legs`), `shown` (`metadata.selections`, what is printed), `seller`, `code`, `payer`, `canceller` are a ticket; `drawer` the rows of
`cashier_transactions`, `counter` the counter of printed codes, `papers` what was handed out, `started` and `result` the matches, `voided` the leg rows that staff have made void,
`audit` what staff have done to a ticket (`corrections` counts it), `session` what a request to sell has read. `BeginSell` reads without a lock and chooses sale or copy (a reprint changes nothing); `CommitSell`, `CommitCopy` or `AbortSell` ends it.
`RemoveLeg`, `CancelTicket`, `Payout` lock the row and are one action each. A walk-in slip belongs to a user without a wallet, so no wallet is modelled.
`Settle` is `settleBetFromLegs` seen from the counter: it waits for open legs, a lost leg loses, void legs drop out, and a ticket of void legs only is void.
`PayoutStatus` has the cases of `evaluatePayout`; `partial_won` and `cashed_out`, which it would pay, cannot be stored in `sportsbook_bets`, whose `CHECK`
allows `pending`, `won`, `lost`, `void`, `cashout` and `partial` (`migrations/20260509100001`); expiry only refuses.
`StaffStep` is what staff may do to the tickets in `Referred`: force an outcome, make one leg void, void or refund the ticket, reopen it, settle it again, or write any
final status over any other (the trading module). Each is recorded in `audit`, as the code does in its audit logs, and the properties say which of them they except.

Two things are coarser than the code. `CommitCopy` tests the kick-off and commits in one step: the property is about the moment of the test, and a match may begin before the `COMMIT` that follows it. And a
cancelled event is the void result of its match; `handleEventCancelled` voids the leg rows there are, so that a copy sold later gets its result from the next pass, while the model has it at once.
`Hasty` are the cashiers who send a second request while their first is running; the run has none (its two requests are of two cashiers), the theorems any.

### InternalGames

`rounds` are the rounds of each timed game in order; `bets` the rows of `game_bets`; `gamble` their `metadata.gamble`; `wallet` and `ledger` (references, which
are unique) the money; `place`, `before`, `cash` and `settling` what a request or a tick carries between transactions. A placement is `BeginBet`, `ReadWallet`, `InsertBet`,
`BookStake` (and `BookSpinWin`): the helper reads the wallet in a transaction of its own, so the lock is gone when the stake is written as an absolute
balance. `AbandonBet` is a failure in between. A manual cash-out is `BeginCashOut`, `CommitCashOut` or `AbortCashOut`. A tick of the crash game is `PayAutos`, then `SettleCrash`; Keno decides
and pays in one transaction (`SettleKeno`). `StakeWin`, `PickAgain` and `TakeGamble` lock the row of the spin. The crash point is computed anew in each tick from a return rate the
administration may change, so a flight may end at any multiplier. JetX has the same handlers and timer and is the same `"crash"` game here.

### ExternalGameWallet

`row` are the ledger rows by kind and provider id, `bet` the row a debit inserts, `call` what a call has read before it locks the wallet, `session` the player's
game session, `hookRow` and `unbooked` the older `/hooks` receiver: its rows, and the net amount it has moved beyond them. `Receive` and
`ReceiveRollback` are the reads of a session call, `CommitDebit`, `CommitCredit`, `CommitRollback` or `Abort` its transaction. `HookDebit` and `HookCredit` lock the wallet first
and are one action; the rollback of `/hooks` reads its row before (`HookReceiveRollback`, `HookRollback`). `MaxBalance` bounds credits. Signatures, address lists and currency only refuse and are left out.

## 3. Runs

All counts are of distinct states with two workers. No run is spent on a violated claim: those are listed below with the instance they fail on.

| Run | Instance | Checks | States |
|---|---|---|---|
| `withdrawal_desk` | 1 user, 2 requests, an agent, a cashier and an operator | types; wallet = ledger; one open request; ledger = outcome; a payout has a payer; outcomes are final; refinement of `WithdrawalEscrow` | 1.1 M |
| `payout_faults` | 2 users, 2 requests, 1 agent, unreliable network, restarts | types; a swap needs a successful dial | 1.3 M |
| `payout_live` | 2 users, 2 requests, 1 agent, 3 commands, restarts of the server, fair | a request is dispatched once, a command dialled once, a good dial not reported as failed; a dispatched request ends | 33 k |
| `book_passes` | a parlay and a single, 2 passes, cash-out, postponement and expiry, restarts | refinement of `TicketPromise`; a win agrees with its legs | 290 k |
| `book_desk` | a parlay; everybody who may close it, 1 results pass | paid once; locked stakes = pending stakes | 560 k |
| `book_corrections` | 1 ticket; every handler of the module, failing passes | types; wallet = ledger | 380 k |
| `book_live` | 2 tickets and money for one, 1 pass, cash-out, fair | a finished ticket is settled | 20 k |
| `deposits` | 2 users (one frozen), 2 requests, 1 payment in 2 tasks, 1 fault, fair | types; tables = ledger; a confirmed request was paid; a processed SMS is on file; refinement of `PaymentCredit`; a reported payment ends up on file | 0.7 M |
| `branch_counter` | 1 player, 2 codes, a bet, a deposit and a withdrawal, 2 cashiers, 2 shifts, 2 requests at a time | a code is settled once; locked = codes and stakes; wallet = ledger; refinement of `HeldCash`; a count stands | 1.2 M |
| `cashier_tickets` | a slip, 2 copies, 2 legs, 2 cashiers, 2 requests at a time, 1 copy allowed, staff correct the slip once | drawer = tickets; a paid ticket has won by its legs and was not cancelled, unless staff decided otherwise; copies within the limit; copies before kick-off | 1.3 M |
| `internal_games` | 2 bets of one player, 2 crash rounds and one of Keno, a spin, restarts, fair | wins = statuses; a gamble = its rows; bets of open rounds end | 0.8 M |
| `external_games` | 2 ids per receiver, 2 calls at a time | wallet = ledger; bet = rows | 1.4 M |

**Bounds.** The hazards are races of two or three transactions over one or two rows. Two requests of one user make the race
for the open request and for the wallet, two users the race for an agent, and a third command is what a second dispatch of one of two requests needs. A parlay of two
legs on two events is the smallest ticket that two passes can share, with a single on one of the events it is the smallest
pair that one transaction settles together. One payment reported to two tasks, with two requests it may be matched to, is every pair of creditors there is: each of the desk's actions
is on the same payment too. Two codes of different amounts and a bet make the smallest wallet in which what is
locked for one could be released for another; a deposit and a withdrawal, each with two requests under one key, and two shifts are what a repeated operation and a repeated close need. One copy allowed
and two rows to copy into let two cashiers race at the limit, and let one of them scan the copy instead of the slip. A second crash round begins while requests of the first are running; two bets in
one wallet let a stake meet a cash-out. Two ids at each receiver are a debit with its win or rollback, or with a repeated one.
Amounts are units: the handlers compare amounts only with a
balance, and the openings are chosen so that both branches are reached. The
theorems of section 4 do not depend on the bounds.

`SYMMETRY` is used where agents, commands, cashiers, legs, provider ids, requests or calls are interchangeable and only safety is checked. `cashier_tickets` has a `VIEW` without what was printed (`code`, `papers`),
which no guard and none of its properties reads; for `PrintedCodesDistinct`, which does, it is left out. `MaxCorrections` bounds what staff do to tickets; one correction is
enough to reopen a ticket that was paid or cancelled, or to force one.

**Deadlock** is checked for the withdrawals. In the other runs it is not: when all tickets, codes, ids or rounds of an instance are used up, nothing is left to do.

**Fairness.** In `WithdrawalPayout!FairSpec` an app keeps sending heartbeats (its timer), handles the answer, ends its dial and
sends its report; a report that was sent arrives; a transaction that has begun ends and a due dispatch is made. Nobody is obliged to file, claim,
cancel or approve anything. In `SportsbookSettlement!FairSpec` the settlement loop runs again and
again (its timer), a pass that has begun goes on, and the expiry and overdue steps of the loop are taken. No event is obliged to start or end, and no
bettor and no desk to do anything. In `TelebirrDeposit!FairSpec` a task that was scheduled goes on: it is a promise chain of the event loop; nothing is assumed about phones, users and desks,
and the property excepts tasks lost in a restart, which nothing replays. In `InternalGames!Spec` the timers
tick; the server may restart for ever but not each time between the two transactions of the tick that ends a flight, which is the strong fairness of `SettleCrash`. Opening the next round is not fair: the
administration may disable a game.

### Claims of the source that do not hold

Each predicate below states something the repository says of itself (`findings` in `PROJECT.json` quotes the lines). TLC finds it violated on the instance named,
when the configuration's property list is replaced by it (and, for `PrintedCodesDistinct`, its `VIEW` removed).

| Predicate | Instance | Statement | What happens |
|---|---|---|---|
| `TelebirrWithdrawal!ReversedIsRefunded` | `withdrawal_desk` | a rejected request posts a reversal | the P2P desk's rejection leaves the debit |
| `TelebirrWithdrawal!OneCommandPerAgent` | `withdrawal_desk`, two users | USSD is serial per phone | two dispatches choose one phone before either commits |
| `WithdrawalPayout!DialledOnce` | `payout_faults` | a handled command is not dialled twice | both reports time out, or the app restarts |
| `SportsbookSettlement!FinishedIsSettled` | `book_live`, two passes | tickets whose legs are all terminal are settled | two passes each see the other's leg pending |
| `SportsbookSettlement!PostponedSurfaces` | `book_live`, with postponement | postponed tickets are voided after the wait or surface | `NULL NOT IN (...)` is not true |
| `TelebirrDeposit!ClaimIsMatched` | `deposits` | a claim filed before its SMS arrives is matched when it does | the claim is filed between the matcher's decision and its insert |
| `BranchCounter!ExpiredIsReturned` | `branch_counter` | an expired code's amount goes back to the balance | the cashier's lookup expires it and unlocks nothing |
| `BranchCounter!ShiftCountsItsRows` | `branch_counter` | expected balance = opening + cash in - cash out | a row is committed after the count |
| `CashierTicket!PrintedCodesDistinct` | `cashier_tickets` | each caller receives a distinct number | a swallowed unique violation: COMMIT is a rollback, the number is printed and given again |
| `CashierTicket!SettledByWhatIsShown` | `cashier_tickets` | the leg is removed and the ticket re-priced | the leg's row stays and decides the ticket |
| `CashierTicket!CopyOfPending` | `cashier_tickets` | copies are sold while the ticket is pending | the status was read before the lock |
| `InternalGames!PaidOnce`, `LostStaysLost` | `internal_games` | a settled bet is not cashed out | the bet is read without a lock and updated by its id |
| `ExternalGameWallet!RefundedOnce` | `external_games` | a rollback is idempotent | two rollbacks with different ids have both read the debit as completed |
| `ExternalGameWallet!NothingUnbooked` | `external_games` | a repeated call is idempotent | `/hooks` moves the wallet first and ignores the conflict of the row |

The sportsbook's lost parlay needs two passes at once: the results pass of `odds-sync-loop.ts` or an
administrator's run of it beside the settlement loop, or a tick that outlasts its interval.

### Other divergences met while modelling

The models contain this behaviour; no run is spent on it. The properties above are stated so that they say what is left.

* A user's cancellation may overrun a claim or a dispatch (`telebirr.withdrawal.service.ts:561`): the status is read without
  a lock and the `UPDATE` accepts `processing`, while `telebirr.withdrawal.repository.ts:173` says pending only.
* When the report of a good dial is lost, the app reports a failure (`heartbeat_service.dart:178`), and a failure
  refunds the user (`agent.service.ts:991`). `FailureReportedOnlyForFailedDial` is therefore checked for a reliable network.
* A queued request is dispatched after a command result only (`agent.service.ts:1095`): when it was queued because no
  agent was online, nothing dispatches it when one comes online.
* A user's or a cashier's reversal credits `balance`, a failure report `withdrawable_balance`.
* Reopening (`settlement.routes.ts:512`) forgets what a ticket has been paid; it can be credited again under another reference. If
  the reference is the same, the insert fails in every pass that touches the ticket, the error handler's `UPDATE` fails in the
  aborted transaction (`results.service.ts:190`), and all tickets of the pass wait with it.
* Cancelling an event counts only that event's legs as pending (`settlement.service.ts:792`): a parlay with an open leg elsewhere
  is handed to `settleBetFromLegs`, which throws, and becomes an `error`.
* The expiry voids legs by `selection_status = 'postponed'` (`settlement.service.ts:866`), which `setMatchResult` does not
  clear: a leg that was graded after the postponement is voided. The query does not look at the ticket's status either (`:847`): a ticket that was flagged overdue, then
  postponed and then won at the match desk has legs voided after it was paid. No money moves, but the won ticket's legs no longer say what it was paid for; TLC
  finds it when `overdue`, `postpone` and `match_result` are in use together, and `WinsCorrect` excludes the combination.
* `setMatchResult` credits wins to `balance` (`matches.module.ts:634`), the settlement service to `withdrawable_balance` (`settlement.service.ts:259`).
* `cancelBet` (`bets.module.ts:675`) refunds the stake and leaves it in `locked_balance`; `book_desk` is run without it.
* **Deposits.** Voiding a credit leaves the ledger row whose reference the payment needs: confirming it again hits the unique index (`telebirr.matching.service.ts:1266`).
  A later batch report inserts a `pending` row into the approval queue after the payment was credited (`:599` says it must not sit there); approving it fails on the same index.
  The unique index on waiting claims ignores `expires_at`: a lapsed request keeps others from claiming its reference. `approveDepositInQueue` confirms any waiting request of the same
  user and amount. An SMS whose payment another task has stored first stays unprocessed.
* **Counter.** The count of a shift takes neither tickets nor paid codes, which carry no shift. The idempotency lookup does not look at the kind of operation: the key of a deposit answers a withdrawal.
  A code that `process` finds lapsed is set to `expired` in a transaction that the error then rolls back.
* **Tickets.** A slip that was reserved and never sold can win and be paid (`PaidWasSold` states the opposite), be cancelled with a refund row, or be sold after it has lost.
  The counter's payout looks at `paid_at` and the status (`tickets.routes.ts:683`): a ticket whose cancellation it has refunded, reopened by the settlement desk and won, is paid as well. Such a ticket cannot be cancelled a second time, as the
  reference of the refund row is unique. `settleMarket` decides a ticket as won or lost only, so one with void legs only is written as won and paid in full.
  The payout route does not look at the channel of a ticket: one that an online player's wallet was credited for can be paid in cash too (wallets are not in this model).
  The cancellation of a registered player's ticket writes an absolute balance read without a lock (`tickets.routes.ts:1749`).
* **Games.** Two requests of one player, or a request and a tick, lose an update of the wallet: each writes the balance it has read. `WinsMatchStatus` and `GambleIsBooked` speak of rows and statuses,
  which hold all the same; no wallet invariant is stated. A failure between the insert and the stake leaves a free bet; a bet inserted after its round has ended stays active for ever, which is why `BetsOfOpenRoundsEnd` names the open rounds.
  Automatic targets between the crash point and the multiplier of the tick are paid, as the tick pays before it compares.
* **What the models simplify.** `SportsbookSettlement`: a local pass locks no rows of `sports_events` (`results.service.ts:221`), but two passes of the model have no event in common; the second transaction of `applyCancelledEvents`
  (`:275`), which marks markets and selections, is left out; a match past its kick-off that is still `scheduled`, which a results pass accepts (`:339`), goes through `StartEvent` first; `expirePostponedSelections` reads its tickets
  before it writes (`settlement.service.ts:846`), the model at the write. `TelebirrWithdrawal`: a drain is one transaction of up to 25 rounds (`telebirr.withdrawal.service.ts:512`); the model commits each round, so it has more
  interleavings, and a restart loses one round where the code loses all. `TelebirrDeposit`: the approval confirms a request by a subselect without a lock (`p2p.service.ts:778`); the model reads and writes in one step.
  `ExternalGameWallet`: several active sessions of a game count as one. `InternalGames`: the schema's `CHECK` on `game_bets.game_id` may refuse bets the model allows, which makes the model a superset.
* **Callbacks.** A win is paid although the stake of its debit goes back, and the reverse (`NoWinWithRefund` states the opposite). A debit that arrives after its rollback was refused is still applied.

## 4. Proofs

All obligations are proved by TLAPS (Z3, Zenon and LS4), from the named assumptions on constants and nothing else. Every invariant, action property and
refinement that a run checks is also a theorem for all values of the constants; what is left to TLC is liveness. The assumptions are types of the
constants, that no amount is negative, and that the sets that sums run over (requests, tickets, codes, provider ids, bets) are finite, as the rows of a table are.

**Sums** (`SumTheorems`). The community modules define `SumFunctionOnSet` as a recursive function over the subsets of its set. Induction over that set cannot be stated
with an operator, so each proof takes a least counterexample: the subsets of a finite set are well founded under inclusion (`MinimalSubset`), and a least set for which the
claim fails leads to a smaller one. `SumRemove` and `SumAdd` (an element more or less), `SumUnion`, `SumExcept` (one value changed), `SumRaised` (one value raised), `SumPlus`, `SumSame`,
`SumNat` and `SumAtMost` are what the money invariants use.

**Withdrawals** (`WithdrawalProofs`, first part). `TypeCorrect` gives types and non-negative buckets. The other
invariants are not inductive one by one: that a failure report finds the money held needs that
the ledger row agrees with the status, and that an insert finds no other open request needs that a request in `opening` is
new. `Consistent` is their conjunction with `OpeningIsNew`, and `TypeOK /\ Consistent` is inductive (`ConsistentStep`: a step leaves a request
alone, takes it on, or ends it, and each way keeps the ledger in line). From it follow `LedgerCorrect`, `PayoutAccounted`, `OneOpenPerUser`, the action property
`OutcomeFinal` (through `Forward`: status only moves forward), `DispatchedOnce` (without operators, a request that has a command has left
`pending` and no dispatch under way will commit), and
`WithdrawalImplementsEscrow`: each step holds, pays or returns the amount of one request, or stutters. `WalletCorrect` rests on that refinement: the escrow's steps
say by how much a purse moves, and the set of requests held for the user gains or loses just that request.

**Payout** (`WithdrawalProofs`, second part). `PayoutImplementsBackend`: phones and network only restrict the back end, so the
theorems above carry over. `SwapNeedsDial`: a swap is booked only for a dial that succeeded, because a success report is only
sent for one (`SuccessWasDialled`), a command keeps its request and agent (`CommandsKept`), and a swap comes from a success report (`SwapBooked`). `PayoutTypeCorrect` holds with all faults.
`DialledAtMostOnce` and `FailureIsReal` have the hypothesis `Reliable`: reports arrive and apps are not restarted. They follow from `DialledIsHandled` (what a phone has dialled it
remembers, so a command it starts was never dialled before) and `FirstResultOnly` (a command that was not dialled has no result, and its first result is its only one). Without the hypothesis both are false, see section 3.

**Tickets** (`SportsbookSettlementProofs`). `TypesHold`, `TypeCorrect` and `WalletCorrect` are unconditional: they hold with every role, desk and correction in use.
The others have a hypothesis on `InUse`, because the code breaks the property outside it:

| Theorem | Hypothesis | Why |
|---|---|---|
| `PaidExactlyOnce`, `PromiseKept` | `NoCorrections`: neither `reopen` nor `trading` | both rewrite the status of a ticket that was paid |
| `LockedCorrect` | `NoCorrections` and `NoBetCancel` | a reopened ticket is pending without its stake locked again; `cancelBet` leaves the stake locked |
| `WinsCorrect` | `NoHandWork`: no `desk`, `void_leg`, `reopen`, `trading`; not `postpone` together with `match_result` | staff may decide against the legs; the expiry may void legs of a ticket the match desk has paid |

For `PaidExactlyOnce` and `PromiseKept` the argument
is that a step leaves a ticket as it is (`Stays`), opens it (`Opens`), or closes a pending one with one fitting credit (`Closes`), which is shown once per group of
actions (`TicketSteps`) and used for the invariant `TicketTypeOK /\ PaidOnce /\ PlacingIsNew` and for the refinement.
`PlacingIsNew`, that a slip being placed is not a ticket yet, is what makes `Opens` start from nothing. For the wallets every step is one of three kinds (`Moves`): it moves no money, places one slip, or changes each user's
two buckets by exactly what it adds to the credits of his tickets, many tickets in one transaction included. For the locked stakes (`LockMoves`) it places a slip, or unlocks
the stakes of the pending tickets it closes (`Unlocks`), or leaves both alone.
`WinsCorrect` is the deepest of them: a pass counts pending legs in one transaction step and decides in a later one, while other passes, the desk and the loop write. `WinInv` says that the legs a pass has graded are still pending for everybody
else (`LegsHeld`), that no two passes grade one event (`EventsApart`), and that a ticket counted as ready has no other open leg (`ReadyStays`); the writers of legs respect this since they leave locked
legs alone (`LegsWritten`, `EventWritten`). Then what the pass decides at its end (`WriteWins`) is what the legs say, and nothing is written to a leg of a won ticket afterwards (`WonLegsStay`, `WaitingOpen`).

**Deposits** (`TelebirrDepositProofs`). `TypeCorrect` and `TablesAgree` come from one invariant, `Typed /\ RowsMatchLedger`: that a void leaves no negative balance and that tables
and ledger agree need each other only through the guards. `ProcessedStaysOnFile` needs nothing about tasks but their types: an SMS is only marked in the step
that finds or leaves the payment on file, and nothing takes a payment off file. `ConfirmedStaysPaid` is the hard one: the claim's credit and its mark are two transactions, so the invariant says what a request
in stage `"marking"` has been credited with and that no other request can be confirmed by the same payment. `ImplementsPaymentCredit` maps each step to a credit, a return, spending or a stutter.

**Counter** (`BranchCounterProofs`). `SettledOnce`, `OneDrawer` and `CountStays` follow from an inductive invariant of codes and shifts that leaves the wallets out: none of the three depends on an amount.
`LockedCorrect` and `WalletCorrect` come from a second one, `Money`, which needs the first: the unlocking of codes and the release of stakes stop at what is locked, so the wallet is right only because
what is locked is exactly the outstanding codes and open stakes (`SumAtMost`: one of them is never more than all). From `Money` also `TypeCorrect` (no bucket below zero) and `ImplementsHeldCash`.

**Cashier tickets** (`CashierTicketProofs`). `Inv` adds to types and drawer what the status of a ticket that was not reopened says of its columns (`Columns`), that a ticket which won without staff has no lost or open leg and a winning one (`WonByLegs`, kept because a result is entered
once, and legs are made void one by one by staff, or all together on a ticket that runs: `VoidedStep`) and that
a request reads a ticket that is there. From it `TypeCorrect`, `DrawersAgree` and `PaidTicketsWon`. Copies need three more parts: families are of depth one (`FamiliesAreFlat`), so counting by the root counts the whole family (`CopiesStayWithinLimit`);
and a request has read at least what is printed when it commits (`ShownIsRead`), so that testing the snapshot against the clock is enough (`CopiesBeforeKickOff`).

**Games** (`InternalGamesProofs`). `WinsAgree` and `GamblesAgree` from an invariant that types rows and readings and says which bet a request or a cash-out is about; a tick changes many bets at once, so its lemma splits on whether a bet is due.
`TypeCorrect` adds the balances: a stake is written from a balance read before, so it is not the wallet but the reading that must cover it (`BalancesTyped`).

**Callbacks** (`ExternalGameWalletProofs`). `BetsAgree` needs that a call carries an id that is of its kind and that a rollback's debit is on file (nothing removes a row), and that a win names a debit only in the step that settles its bet.
`WalletCorrect` follows the sums of the three kinds of rows and of the older receiver's; a row is booked once (`TotalBooked`), and changes of status do not touch its amount (`TotalSame`).

**Only model-checked.** Liveness (`DispatchedIsResolved`, `FinishedIsSettled`, `ReportedIsOnFile`, `BetsOfOpenRoundsEnd`) is out of the prover's reach, as is everything that speaks of `ENABLED`. The claims of section 3 that do not hold are TLC's
counterexamples.

## 5. Plan

Done: withdrawals, settlement, deposits, branch counter, cashier tickets, internal games and external callbacks, each with its runs and its theorems. Left, in this order:

1. A composition of `CashierTicket` with `SportsbookSettlement`, in which settlement's passes, cancelled events and the match desk close what the counter sells, instead of `Settle` and `StaffStep`.
2. `WageringBonus`: award, progress, conversion and expiry, driven by deposits and settlements.
3. Rain and tournaments: claims from a shared pot.
4. Proofs: what makes the claims of section 3 true where the code keeps them (one command per agent without overlapping dispatches, refunds by one rollback id).

## 6. Not modelled

* **Bonuses and promotions**: hooks in transactions of their own after deposits and settlements; the models end where they begin. Next in the plan.
* **Payment gateway, odds providers, notifications, realtime, bulk SMS**: calls to the outside whose effect on the modelled tables is an input of the models (an event starts, a payment is reported).
* **Authentication, permissions, limits, quotas**: they refuse operations. A model without them allows more behaviours, so the safety properties cover the code with them.
* **Reports, settings, administration, web front ends**: reads, plain edits and screens. They are most of the repository's lines and keep no state that money depends on.
* **Rain and tournaments, chat**: one row lock each.
* **Several tenants**: every query is scoped to one; one is modelled.

Hazards met and not listed with a property, since the models abstract from what they need: a failure report and a reversal lock request and wallet in opposite
orders, and PostgreSQL aborts one of them (`agent.service.ts:1018`); the expiry handles all waiting tickets in one transaction, and one that fails rolls back the others (`settlement.service.ts:857`);
`max_pending_slips` is counted before the wallet is locked (`bets.routes.ts:399`) and an idempotent retry of a placement answers from a lookup before it (`:228`); a refund goes to another bucket than the debit came from (`telebirr.withdrawal.service.ts:123`).

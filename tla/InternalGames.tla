---------------------------- MODULE InternalGames ----------------------------
(***************************************************************************)
(* The games the platform runs itself: crash rounds (Aviator; JetX has the *)
(* same handlers), Fast Keno rounds and Multi Hot 5 spins with their       *)
(* red/black gamble.                                                       *)
(*                                                                         *)
(* Rounds are driven by one timer per game whose ticks do not overlap; the *)
(* players' requests run beside it.  A bet is placed in separate           *)
(* transactions: the round is read, the wallet is read (its lock ends with *)
(* that transaction), the bet row is inserted, and the stake is booked by  *)
(* writing the balance that was read minus the stake.  A cash-out reads    *)
(* its round and its bet without a lock and writes afterwards.             *)
(*                                                                         *)
(* Multipliers are steps 1..MaxFlight, stakes are one unit, and a row of   *)
(* "transactions" is its reference: a kind and a bet, unique in the table. *)
(***************************************************************************)
EXTENDS Naturals, Sequences, FiniteSets, Functions

CONSTANTS
  Bet,          \* the bets players try to place
  Player,       \* the players
  OwnerOf,      \* whose bet it is
  PlayedOn,     \* bound: the games a bet may be placed on
  Opening,      \* every wallet's first balance
  MaxFlight,    \* no round flies past this multiplier
  AutoTarget,   \* the targets a bet may name; 0 is no automatic cash-out
  Prize,        \* what a Keno bet or a spin can return; 0 is a loss
  MaxWin,       \* the ceiling of one payout (internal_games.max_win)
  MaxRounds     \* bound: the rounds each timed game opens

ASSUME GamesAssumption ==
  /\ IsFiniteSet(Bet)
  /\ OwnerOf \in [Bet -> Player]
  /\ PlayedOn \in [Bet -> SUBSET {"crash", "keno", "slots"}]
  /\ Opening \in Nat
  /\ MaxFlight \in Nat \ {0}
  /\ AutoTarget \subseteq Nat
  /\ Prize \subseteq Nat
  /\ MaxWin \in Nat \ {0}

Timed == {"crash", "keno"}           \* the games with rounds and a timer
Game == Timed \union {"slots"}
Stake == 1

Kind == {"stake", "cashout", "auto-cashout", "keno-win", "slots-win",
         "gamble-stake", "gamble-win"}

VARIABLES
  rounds,    \* per timed game, its rounds in the order they were opened
  settling,  \* the crash tick has paid and is about to close its round
  bets,      \* the rows of game_bets
  place,     \* the request that places the bet: how far, for which round
  before,    \* the balance that request has read
  cash,      \* the multiplier a cash-out request has read, 0 when there is none
  gamble,    \* metadata.gamble of a bet
  wallet,    \* wallets.balance
  ledger     \* the references of transactions

vars == <<rounds, settling, bets, place, before, cash, gamble, wallet, ledger>>

-----------------------------------------------------------------------------
(* Rows. *)

NoBet == [status |-> "none", game |-> "slots", round |-> 0, auto |-> 0, payout |-> 0]
NoGamble == [phase |-> "none", pending |-> 0]
NotPlaced == [step |-> "new", game |-> "slots", round |-> 0, auto |-> 0]
Over == [NotPlaced EXCEPT !.step = "over"]

Init ==
  /\ rounds = [g \in Timed |-> <<>>]
  /\ settling = FALSE
  /\ bets = [b \in Bet |-> NoBet]
  /\ place = [b \in Bet |-> NotPlaced]
  /\ before = [b \in Bet |-> 0]
  /\ cash = [b \in Bet |-> 0]
  /\ gamble = [b \in Bet |-> NoGamble]
  /\ wallet = [p \in Player |-> Opening]
  /\ ledger = {}

\* "ORDER BY created_at DESC LIMIT 1": the only round the timer and the bet
\* handlers look at.
Latest(g) == rounds[g][Len(rounds[g])]
LatestIs(g, phase) == rounds[g] # <<>> /\ Latest(g).phase = phase

SetLatest(g, r) == rounds' = [rounds EXCEPT ![g] = [@ EXCEPT ![Len(@)] = r]]

ActiveIn(g, n) ==
  {b \in Bet : /\ bets[b].game = g
               /\ bets[b].round = n
               /\ bets[b].status = "active"}

Capped(amount) == IF amount > MaxWin THEN MaxWin ELSE amount

-----------------------------------------------------------------------------
(* The timers. *)

\* mutant: only the age of the latest round is looked at
OpenRoundByAge(g) ==
  /\ Len(rounds[g]) < MaxRounds[g]
  /\ rounds' = [rounds EXCEPT ![g] = Append(@, [phase |-> "betting", mult |-> 0])]
  /\ UNCHANGED <<settling, bets, place, before, cash, gamble, wallet, ledger>>

\* A game without a round, or whose latest one is over, gets the next: never
\* while the administration has it disabled, so this step may stay away.
OpenRound(g) ==
  /\ ~settling \/ g # "crash"
  /\ \/ rounds[g] = <<>>
     \/ LatestIs(g, "over")
  /\ Len(rounds[g]) < MaxRounds[g]
  /\ rounds' = [rounds EXCEPT ![g] = Append(@, [phase |-> "betting", mult |-> 0])]
  /\ UNCHANGED <<settling, bets, place, before, cash, gamble, wallet, ledger>>

\* The betting window is over: "flying" or "drawing".
StartRound(g) ==
  /\ LatestIs(g, "betting")
  /\ SetLatest(g, [Latest(g) EXCEPT !.phase = "running"])
  /\ UNCHANGED <<settling, bets, place, before, cash, gamble, wallet, ledger>>

Due(m) == {b \in ActiveIn("crash", Len(rounds["crash"])) :
             bets[b].auto # 0 /\ bets[b].auto <= m}

\* One transaction of a crash tick: the multiplier of this moment, and every
\* active bet whose target it has reached is paid its target.  The crash point
\* is only compared afterwards; it is computed anew in every tick, from the
\* round's seeds and the return rate the administration has set by then.
PayAutos ==
  /\ ~settling
  /\ LatestIs("crash", "running")
  /\ \E m \in 1..MaxFlight :
       /\ m > Latest("crash").mult \/ m = MaxFlight
       /\ SetLatest("crash", [Latest("crash") EXCEPT !.mult = m])
       /\ bets' = [b \in Bet |->
                     IF b \in Due(m)
                     THEN [bets[b] EXCEPT !.status = "cashed_out",
                                          !.payout = Capped(bets[b].auto)]
                     ELSE bets[b]]
       /\ wallet' = [p \in Player |->
                       wallet[p] + SumFunctionOnSet([b \in Bet |-> Capped(bets[b].auto)],
                                                    {b \in Due(m) : OwnerOf[b] = p})]
       /\ ledger' = ledger \union {<<"auto-cashout", b>> : b \in Due(m)}
       /\ settling' \in IF m = MaxFlight THEN {TRUE} ELSE BOOLEAN
  /\ UNCHANGED <<place, before, cash, gamble>>

\* mutant: settleRound without its CASE
SettleCrashAll ==
  /\ settling
  /\ settling' = FALSE
  /\ SetLatest("crash", [Latest("crash") EXCEPT !.phase = "over"])
  /\ bets' = [b \in Bet |->
                IF bets[b].game = "crash" /\ bets[b].round = Len(rounds["crash"])
                THEN [bets[b] EXCEPT !.status = "lost"]
                ELSE bets[b]]
  /\ UNCHANGED <<place, before, cash, gamble, wallet, ledger>>

\* settleRound: the next transaction of the same tick.
SettleCrash ==
  /\ settling
  /\ settling' = FALSE
  /\ SetLatest("crash", [Latest("crash") EXCEPT !.phase = "over"])
  /\ bets' = [b \in Bet |->
                IF b \in ActiveIn("crash", Len(rounds["crash"]))
                THEN [bets[b] EXCEPT !.status = "lost"]
                ELSE bets[b]]
  /\ UNCHANGED <<place, before, cash, gamble, wallet, ledger>>

\* All twenty numbers are shown: the active bets are locked, decided, paid and
\* the round is completed in one transaction.
SettleKeno ==
  LET B == ActiveIn("keno", Len(rounds["keno"])) IN
  /\ LatestIs("keno", "running")
  /\ \E prize \in [B -> Prize] :
       LET won == {b \in B : Capped(prize[b]) > 0} IN
       /\ bets' = [b \in Bet |->
                     IF b \in B
                     THEN [bets[b] EXCEPT !.status = IF b \in won THEN "won" ELSE "lost",
                                          !.payout = Capped(prize[b])]
                     ELSE bets[b]]
       /\ wallet' = [p \in Player |->
                       wallet[p] + SumFunctionOnSet([b \in B |-> Capped(prize[b])],
                                                    {b \in won : OwnerOf[b] = p})]
       /\ ledger' = ledger \union {<<"keno-win", b>> : b \in won}
  /\ SetLatest("keno", [Latest("keno") EXCEPT !.phase = "over"])
  /\ UNCHANGED <<settling, place, before, cash, gamble>>

-----------------------------------------------------------------------------
(* Placing a bet, or spinning. *)

\* The round is read and must be taking bets; a spin has no round to read.
BeginBet(b, g) ==
  /\ place[b].step = "new"
  /\ g # "slots" => LatestIs(g, "betting")
  /\ \E auto \in IF g = "crash" THEN AutoTarget ELSE {0} :
       place' = [place EXCEPT ![b] =
                   [step |-> "round", game |-> g, auto |-> auto,
                    round |-> IF g = "slots" THEN 0 ELSE Len(rounds[g])]]
  /\ UNCHANGED <<rounds, settling, bets, before, cash, gamble, wallet, ledger>>

ReadWallet(b) ==
  /\ place[b].step = "round"
  /\ wallet[OwnerOf[b]] >= Stake
  /\ place' = [place EXCEPT ![b].step = "wallet"]
  /\ before' = [before EXCEPT ![b] = wallet[OwnerOf[b]]]
  /\ UNCHANGED <<rounds, settling, bets, cash, gamble, wallet, ledger>>

\* The row: active for a round, decided at once for a spin.
InsertBet(b) ==
  /\ place[b].step = "wallet"
  /\ place' = [place EXCEPT ![b].step = "inserted"]
  /\ \E prize \in IF place[b].game = "slots" THEN Prize ELSE {0} :
       bets' = [bets EXCEPT ![b] =
                  [game |-> place[b].game, round |-> place[b].round,
                   auto |-> place[b].auto, payout |-> Capped(prize),
                   status |-> IF place[b].game # "slots" THEN "active"
                              ELSE IF Capped(prize) > 0 THEN "won" ELSE "lost"]]
  /\ UNCHANGED <<rounds, settling, before, cash, gamble, wallet, ledger>>

\* createLedgerTx writes the balance read before, less the stake.
BookStake(b) ==
  /\ place[b].step = "inserted"
  /\ wallet' = [wallet EXCEPT ![OwnerOf[b]] = before[b] - Stake]
  /\ ledger' = ledger \union {<<"stake", b>>}
  /\ place' = [place EXCEPT ![b] =
                 IF place[b].game = "slots" /\ bets[b].payout > 0
                 THEN [@ EXCEPT !.step = "win"] ELSE Over]
  /\ before' = [before EXCEPT ![b] =
                  IF place[b].game = "slots" /\ bets[b].payout > 0
                  THEN @ - Stake ELSE 0]
  /\ UNCHANGED <<rounds, settling, bets, cash, gamble>>

\* The win of a spin is written from the same reading of the balance.
BookSpinWin(b) ==
  /\ place[b].step = "win"
  /\ wallet' = [wallet EXCEPT ![OwnerOf[b]] = before[b] + bets[b].payout]
  /\ ledger' = ledger \union {<<"slots-win", b>>}
  /\ place' = [place EXCEPT ![b] = Over]
  /\ before' = [before EXCEPT ![b] = 0]
  /\ UNCHANGED <<rounds, settling, bets, cash, gamble>>

\* A request that fails between two of its transactions; before the insert it
\* leaves nothing behind.
AbandonBet(b) ==
  /\ place[b].step \in {"inserted", "win"}
  /\ place' = [place EXCEPT ![b] = Over]
  /\ before' = [before EXCEPT ![b] = 0]
  /\ UNCHANGED <<rounds, settling, bets, cash, gamble, wallet, ledger>>

-----------------------------------------------------------------------------
(* Cashing out by hand. *)

\* A flying round and an active bet, read without a lock; before the first
\* tick of a flight the multiplier is one.
BeginCashOut(b) ==
  /\ bets[b].game = "crash"
  /\ bets[b].status = "active"
  /\ rounds["crash"][bets[b].round].phase = "running"
  /\ cash' = [cash EXCEPT ![b] = IF rounds["crash"][bets[b].round].mult = 0 THEN 1
                                 ELSE rounds["crash"][bets[b].round].mult]
  /\ UNCHANGED <<rounds, settling, bets, place, before, gamble, wallet, ledger>>

\* The rest of that transaction: the update of the bet names only its id.  A
\* second request for the bet fails on the unique reference.
CommitCashOut(b) ==
  /\ cash[b] # 0
  /\ <<"cashout", b>> \notin ledger
  /\ bets' = [bets EXCEPT ![b].status = "cashed_out", ![b].payout = Capped(cash[b])]
  /\ wallet' = [wallet EXCEPT ![OwnerOf[b]] = @ + Capped(cash[b])]
  /\ ledger' = ledger \union {<<"cashout", b>>}
  /\ cash' = [cash EXCEPT ![b] = 0]
  /\ UNCHANGED <<rounds, settling, place, before, gamble>>

AbortCashOut(b) ==
  /\ cash[b] # 0
  /\ cash' = [cash EXCEPT ![b] = 0]
  /\ UNCHANGED <<rounds, settling, bets, place, before, gamble, wallet, ledger>>

-----------------------------------------------------------------------------
(* Red or black on a winning spin. Each handler locks the bet's row. *)

\* The card: what is pending is doubled, or lost and the gamble over.
Draw(b, pending) ==
  \E red \in BOOLEAN :
    gamble' = [gamble EXCEPT ![b] =
                 IF red THEN [phase |-> "open", pending |-> Capped(2 * pending)]
                 ELSE [phase |-> "lost", pending |-> 0]]

Winning(b) == bets[b].game = "slots" /\ bets[b].status = "won"

\* The first pick takes the win back out of the wallet.
StakeWin(b) ==
  /\ Winning(b)
  /\ gamble[b].phase = "none"
  /\ wallet[OwnerOf[b]] >= bets[b].payout
  /\ wallet' = [wallet EXCEPT ![OwnerOf[b]] = @ - bets[b].payout]
  /\ ledger' = ledger \union {<<"gamble-stake", b>>}
  /\ Draw(b, bets[b].payout)
  /\ UNCHANGED <<rounds, settling, bets, place, before, cash>>

PickAgain(b) ==
  /\ Winning(b)
  /\ gamble[b].phase = "open"
  /\ Draw(b, gamble[b].pending)
  /\ UNCHANGED <<rounds, settling, bets, place, before, cash, wallet, ledger>>

\* mutant: the flag is not written with the credit
TakeUnflagged(b) ==
  /\ gamble[b].pending > 0
  /\ wallet' = [wallet EXCEPT ![OwnerOf[b]] = @ + gamble[b].pending]
  /\ ledger' = ledger \union {<<"gamble-win", b>>}
  /\ UNCHANGED <<rounds, settling, bets, place, before, cash, gamble>>

TakeGamble(b) ==
  /\ gamble[b].pending > 0
  /\ gamble[b].phase # "taken"
  /\ wallet' = [wallet EXCEPT ![OwnerOf[b]] = @ + gamble[b].pending]
  /\ ledger' = ledger \union {<<"gamble-win", b>>}
  /\ gamble' = [gamble EXCEPT ![b] = [phase |-> "taken", pending |-> 0]]
  /\ UNCHANGED <<rounds, settling, bets, place, before, cash>>

-----------------------------------------------------------------------------

\* Requests in flight and the tick's memory are gone; the tables are not.
RestartServer ==
  /\ settling' = FALSE
  /\ cash' = [b \in Bet |-> 0]
  /\ place' = [b \in Bet |-> IF place[b].step = "new" THEN place[b] ELSE Over]
  /\ before' = [b \in Bet |-> 0]
  /\ UNCHANGED <<rounds, bets, gamble, wallet, ledger>>

Tick ==
  \/ \E g \in Timed : StartRound(g)
  \/ PayAutos
  \/ SettleCrash
  \/ SettleKeno

Next ==
  \/ \E g \in Timed : OpenRound(g)
  \/ Tick
  \/ \E b \in Bet : \/ \E g \in PlayedOn[b] : BeginBet(b, g)
                    \/ ReadWallet(b)
                    \/ InsertBet(b)
                    \/ BookStake(b)
                    \/ BookSpinWin(b)
                    \/ AbandonBet(b)
                    \/ BeginCashOut(b)
                    \/ CommitCashOut(b)
                    \/ AbortCashOut(b)
                    \/ StakeWin(b)
                    \/ PickAgain(b)
                    \/ TakeGamble(b)
  \/ RestartServer

\* The timers keep ticking, and a tick takes the latest round of each game a
\* step further; nothing makes a player or the administration act.  The server
\* may restart for ever, but not each time between the two transactions of the
\* tick that ends a flight: its second one is strongly fair.
Spec == /\ Init /\ [][Next]_vars
        /\ \A g \in Timed : WF_vars(StartRound(g))
        /\ WF_vars(PayAutos)
        /\ SF_vars(SettleCrash)
        /\ WF_vars(SettleKeno)

-----------------------------------------------------------------------------
(* Properties. *)

RoundRow == [phase : {"betting", "running", "over"}, mult : 0..MaxFlight]

RoundsTyped == rounds \in [Timed -> Seq(RoundRow)]

BetRow == [status : {"none", "active", "cashed_out", "won", "lost"}, game : Game,
           round : Nat, auto : AutoTarget \union {0}, payout : 0..MaxWin]

\* A bet and the request that places it name a round their timer has opened.
BetsTyped ==
  /\ bets \in [Bet -> BetRow]
  /\ cash \in [Bet -> 0..MaxFlight]
  /\ \A b \in Bet : /\ cash[b] # 0 => bets[b].game = "crash"
                    /\ bets[b].game = "crash" => bets[b].round \in 1..Len(rounds["crash"])

PlaceRow == [step : {"new", "round", "wallet", "inserted", "win", "over"}, game : Game,
             round : Nat, auto : AutoTarget \union {0}]

PlacesTyped ==
  /\ place \in [Bet -> PlaceRow]
  /\ \A b \in Bet :
       /\ place[b].game = "crash" => place[b].round \in 1..Len(rounds["crash"])
       /\ place[b].step \in {"new", "round", "wallet"} => bets[b] = NoBet
       /\ place[b].step \in {"inserted", "win"} /\ place[b].game = "slots" =>
            bets[b].game = "slots" /\ (bets[b].payout > 0 => bets[b].status = "won")
       /\ place[b].step = "win" => place[b].game = "slots" /\ bets[b].payout > 0

GamblesTyped ==
  /\ gamble \in [Bet -> [phase : {"none", "open", "lost", "taken"}, pending : 0..MaxWin]]
  /\ ledger \subseteq Kind \X Bet

BalancesTyped ==
  /\ wallet \in [Player -> Nat]
  /\ before \in [Bet -> Nat]
  /\ \A b \in Bet : place[b].step \in {"wallet", "inserted"} => before[b] >= Stake

\* Every column and every reading is in its range, no wallet is below zero, and
\* a request that is still to insert its bet has none.
TypeOK == RoundsTyped /\ BetsTyped /\ PlacesTyped /\ GamblesTyped /\ BalancesTyped

\* A bet's final status and the rows that pay it tell the same story, whichever
\* of timer and player was faster: a bet is cashed out exactly when a cash-out of
\* it is in the ledger, a Keno bet has won exactly when its win is, and no bet
\* that lost was ever paid.  The tick closes a round while cash-outs that read it
\* flying are still to commit.
WinsMatchStatus ==
  \A b \in Bet :
    /\ bets[b].status = "cashed_out" <=>
         <<"cashout", b>> \in ledger \/ <<"auto-cashout", b>> \in ledger
    /\ <<"keno-win", b>> \in ledger <=> bets[b].game = "keno" /\ bets[b].status = "won"
    /\ <<"slots-win", b>> \in ledger => bets[b].game = "slots" /\ bets[b].status = "won"

\* The gamble of a spin and the ledger agree on where the win is: it left the
\* wallet when the first card was drawn, it came back exactly when it was taken,
\* and what was lost or taken is not pending any more.
GambleIsBooked ==
  \A b \in Bet :
    /\ gamble[b].phase # "none" <=> <<"gamble-stake", b>> \in ledger
    /\ gamble[b].phase = "taken" <=> <<"gamble-win", b>> \in ledger
    /\ gamble[b].phase # "open" => gamble[b].pending = 0

\* A bet that is in a round the timer still has before it does not stay active:
\* it is cashed out or decided when the round ends, after a restart too.
BetsOfOpenRoundsEnd ==
  \A b \in Bet :
    (/\ bets[b].status = "active"
     /\ rounds[bets[b].game][bets[b].round].phase \in {"betting", "running"})
      ~> bets[b].status # "active"

-----------------------------------------------------------------------------
(* What the code does not keep; see the README. *)

\* A bet is paid at most once.
PaidOnce == \A b \in Bet : ~({<<"cashout", b>>, <<"auto-cashout", b>>} \subseteq ledger)

\* What is decided stays decided.
LostStaysLost == [][\A b \in Bet : bets[b].status = "lost" => bets'[b].status = "lost"]_vars

=============================================================================

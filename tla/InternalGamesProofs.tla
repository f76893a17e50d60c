------------------------- MODULE InternalGamesProofs -------------------------
(***************************************************************************)
(* What InternalGames promises for every number of players, bets, rounds   *)
(* and multipliers: statuses, gambles and the ledger's rows agree, and no  *)
(* wallet goes below zero although requests write balances they have read  *)
(* before.                                                                 *)
(***************************************************************************)
EXTENDS InternalGames, SequenceTheorems, SumTheorems

Inv == RoundsTyped /\ BetsTyped /\ PlacesTyped /\ GamblesTyped /\ WinsMatchStatus /\ GambleIsBooked

LEMMA InitInv == ASSUME Init PROVE Inv
<1> USE GamesAssumption DEF Init, NoBet, NoGamble, NotPlaced, Game, Timed
<1>1. RoundsTyped BY DEF RoundsTyped
<1>2. BetsTyped BY DEF BetsTyped, BetRow
<1>3. PlacesTyped BY DEF PlacesTyped, PlaceRow
<1>4. GamblesTyped BY DEF GamblesTyped
<1>5. WinsMatchStatus /\ GambleIsBooked BY DEF WinsMatchStatus, GambleIsBooked
<1> QED BY <1>1, <1>2, <1>3, <1>4, <1>5 DEF Inv

\* What a payout is cut to is a payout.
LEMMA CappedIsPayout == ASSUME NEW n \in Nat PROVE Capped(n) \in 0..MaxWin
BY GamesAssumption DEF Capped

-----------------------------------------------------------------------------
(* Rounds are only ever added, and a step on the latest keeps their number. *)

LEMMA RoundsAreSequences ==
    ASSUME RoundsTyped, NEW g \in Timed
    PROVE  rounds[g] \in Seq(RoundRow) /\ Len(rounds[g]) \in Nat
<1>1. rounds[g] \in Seq(RoundRow) BY DEF RoundsTyped
<1> QED BY <1>1, LenProperties

LEMMA LatestTyped ==
    ASSUME RoundsTyped, NEW g \in Timed, rounds[g] # <<>>
    PROVE  Len(rounds[g]) \in 1..Len(rounds[g]) /\ Latest(g) \in RoundRow
<1>1. rounds[g] \in Seq(RoundRow) BY RoundsAreSequences
<1>2. Len(rounds[g]) \in 1..Len(rounds[g]) BY <1>1, EmptySeq
<1> QED BY <1>1, <1>2, ElementOfSeq DEF Latest

LEMMA SetLatestTyped ==
    ASSUME RoundsTyped, NEW g \in Timed, rounds[g] # <<>>, NEW r \in RoundRow, SetLatest(g, r)
    PROVE  RoundsTyped' /\ \A h \in Timed : Len(rounds'[h]) = Len(rounds[h])
<1>1. rounds[g] \in Seq(RoundRow) /\ Len(rounds[g]) \in 1..Len(rounds[g])
  BY RoundsAreSequences, LatestTyped
<1>2. /\ [rounds[g] EXCEPT ![Len(rounds[g])] = r] \in Seq(RoundRow)
      /\ Len([rounds[g] EXCEPT ![Len(rounds[g])] = r]) = Len(rounds[g])
  BY <1>1, ExceptSeq
<1>3. rounds' = [rounds EXCEPT ![g] = [rounds[g] EXCEPT ![Len(rounds[g])] = r]] BY DEF SetLatest
<1> QED BY <1>2, <1>3 DEF RoundsTyped

\* Everything but the rounds is typed by how many crash rounds there are.
LEMMA RoundsOnly ==
    ASSUME Inv, RoundsTyped', \A h \in Timed : Len(rounds'[h]) >= Len(rounds[h]),
           UNCHANGED <<bets, place, before, cash, gamble, ledger>>
    PROVE  Inv'
<1>1. /\ "crash" \in Timed /\ Len(rounds["crash"]) \in Nat
      /\ Len(rounds'["crash"]) \in Nat
  BY RoundsAreSequences DEF Inv, Timed, RoundsTyped
<1> QED
  <2>1. BetsTyped' BY <1>1 DEF Inv, BetsTyped, BetRow
  <2>2. PlacesTyped' BY <1>1 DEF Inv, PlacesTyped, PlaceRow
  <2> QED BY <2>1, <2>2 DEF Inv, GamblesTyped, WinsMatchStatus, GambleIsBooked

LEMMA OpenRoundInv == ASSUME Inv, NEW g \in Timed, OpenRound(g) PROVE Inv'
<1> DEFINE new == Append(rounds[g], [phase |-> "betting", mult |-> 0])
<1>0. rounds[g] \in Seq(RoundRow) BY RoundsAreSequences DEF Inv
<1>1. [phase |-> "betting", mult |-> 0] \in RoundRow BY GamesAssumption DEF RoundRow
<1>2. new \in Seq(RoundRow) /\ Len(new) = Len(rounds[g]) + 1 BY <1>0, <1>1, AppendProperties
<1>3. rounds' = [rounds EXCEPT ![g] = new] BY DEF OpenRound
<1>4. \A h \in Timed : Len(rounds[h]) \in Nat BY RoundsAreSequences DEF Inv
<1> HIDE DEF new
<1>5. RoundsTyped' /\ \A h \in Timed : Len(rounds'[h]) >= Len(rounds[h])
  BY <1>2, <1>3, <1>4 DEF Inv, RoundsTyped
<1> QED BY <1>5, RoundsOnly DEF OpenRound

LEMMA StartRoundInv == ASSUME Inv, NEW g \in Timed, StartRound(g) PROVE Inv'
<1>1. rounds[g] # <<>> BY DEF StartRound, LatestIs
<1>2. [Latest(g) EXCEPT !.phase = "running"] \in RoundRow
  BY <1>1, LatestTyped DEF Inv, RoundRow
<1>3. RoundsTyped' /\ \A h \in Timed : Len(rounds'[h]) = Len(rounds[h])
  BY <1>1, <1>2, SetLatestTyped DEF Inv, StartRound
<1>4. \A h \in Timed : Len(rounds[h]) \in Nat BY RoundsAreSequences DEF Inv
<1> QED BY <1>3, <1>4, RoundsOnly DEF StartRound

-----------------------------------------------------------------------------
(* The ticks that decide bets.                                             *)

LEMMA PayAutosInv == ASSUME Inv, PayAutos PROVE Inv'
<1>1. PICK m \in 1..MaxFlight :
        /\ SetLatest("crash", [Latest("crash") EXCEPT !.mult = m])
        /\ bets' = [b \in Bet |->
                      IF b \in Due(m)
                      THEN [bets[b] EXCEPT !.status = "cashed_out",
                                           !.payout = Capped(bets[b].auto)]
                      ELSE bets[b]]
        /\ ledger' = ledger \union {<<"auto-cashout", b>> : b \in Due(m)}
  BY DEF PayAutos
<1>2. UNCHANGED <<place, cash, gamble>> BY DEF PayAutos
<1>3. "crash" \in Timed /\ rounds["crash"] # <<>> BY DEF PayAutos, LatestIs, Timed
<1>4. [Latest("crash") EXCEPT !.mult = m] \in RoundRow
  BY <1>3, LatestTyped, GamesAssumption DEF Inv, RoundRow
<1>5. RoundsTyped' /\ Len(rounds'["crash"]) = Len(rounds["crash"])
  BY <1>1, <1>3, <1>4, SetLatestTyped DEF Inv
<1>6. \A b \in Due(m) : b \in Bet /\ bets[b].game = "crash" /\ bets[b].status = "active"
  BY DEF Due, ActiveIn
<1>7. \A b \in Bet : bets[b] \in BetRow /\ Capped(bets[b].auto) \in 0..MaxWin
  BY CappedIsPayout, GamesAssumption DEF Inv, BetsTyped, BetRow
<1>8. \A b \in Bet : b \notin Due(m) => bets'[b] = bets[b]
  BY <1>1
<1>9. \A b \in Due(m) : /\ bets'[b] \in BetRow
                        /\ bets'[b].status = "cashed_out"
                        /\ bets'[b].game = "crash"
                        /\ bets'[b].round = bets[b].round
  BY <1>1, <1>6, <1>7 DEF BetRow
<1>10. \A kind \in Kind, b \in Bet :
        <<kind, b>> \in ledger' <=>
          <<kind, b>> \in ledger \/ (kind = "auto-cashout" /\ b \in Due(m))
  BY <1>1
<1>11. BetsTyped'
  <2>1. bets' \in [Bet -> BetRow] BY <1>1, <1>7, <1>8, <1>9
  <2> QED BY <2>1, <1>2, <1>5, <1>6, <1>8, <1>9 DEF Inv, BetsTyped
<1>12. PlacesTyped'
  <2>1. \A b \in Bet : bets[b] = NoBet \/ bets[b].game = "slots" => b \notin Due(m)
    BY <1>6 DEF NoBet
  <2> QED BY <2>1, <1>8, <1>2, <1>5 DEF Inv, PlacesTyped
<1>13. GamblesTyped'
  <2>1. {<<"auto-cashout", b>> : b \in Due(m)} \subseteq Kind \X Bet BY <1>6 DEF Kind
  <2> QED BY <2>1, <1>1, <1>2 DEF Inv, GamblesTyped
<1>14. GambleIsBooked' BY <1>2, <1>10 DEF Inv, GambleIsBooked, Kind
<1>15. WinsMatchStatus'
  <2> SUFFICES ASSUME NEW b \in Bet PROVE WinsMatchStatus!(b)'
    BY DEF WinsMatchStatus
  <2>1. CASE b \in Due(m) BY <2>1, <1>6, <1>9, <1>10 DEF Inv, WinsMatchStatus, Kind
  <2>2. CASE b \notin Due(m) BY <2>2, <1>8, <1>10 DEF Inv, WinsMatchStatus, Kind
  <2> QED BY <2>1, <2>2
<1> QED BY <1>5, <1>11, <1>12, <1>13, <1>14, <1>15 DEF Inv

LEMMA SettleCrashInv == ASSUME Inv, SettleCrash PROVE Inv'
<1> DEFINE B == ActiveIn("crash", Len(rounds["crash"]))
<1>0. CASE rounds["crash"] = <<>>
  <2>1. Len(rounds["crash"]) = 0 BY <1>0
  <2>2. B = {} BY <2>1 DEF ActiveIn, Inv, BetsTyped, BetRow
  <2>3. UNCHANGED <<bets, place, cash, gamble, ledger>>
    BY <2>2 DEF SettleCrash, Inv, BetsTyped
  <2>4. rounds' = rounds BY <1>0 DEF SettleCrash, SetLatest, Timed, Inv, RoundsTyped
  <2>5. UNCHANGED before BY DEF SettleCrash
  <2>6. \A h \in Timed : Len(rounds[h]) \in Nat BY RoundsAreSequences DEF Inv
  <2> QED BY <2>3, <2>4, <2>5, <2>6, RoundsOnly DEF Inv, RoundsTyped
<1>1. CASE rounds["crash"] # <<>>
  <2>1. UNCHANGED <<place, cash, gamble, ledger>> BY DEF SettleCrash
  <2>2. "crash" \in Timed BY DEF Timed
  <2>3. [Latest("crash") EXCEPT !.phase = "over"] \in RoundRow
    BY <1>1, <2>2, LatestTyped DEF Inv, RoundRow
  <2>4. RoundsTyped' /\ Len(rounds'["crash"]) = Len(rounds["crash"])
    BY <1>1, <2>2, <2>3, SetLatestTyped DEF Inv, SettleCrash
  <2>5. \A b \in B : b \in Bet /\ bets[b].game = "crash" /\ bets[b].status = "active"
    BY DEF ActiveIn
  <2>6. \A b \in Bet : bets[b] \in BetRow BY DEF Inv, BetsTyped
  <2>7. bets' = [b \in Bet |-> IF b \in B THEN [bets[b] EXCEPT !.status = "lost"] ELSE bets[b]]
    BY DEF SettleCrash
  <2> HIDE DEF B
  <2>8. \A b \in Bet : b \notin B => bets'[b] = bets[b] BY <2>7
  <2>9. \A b \in B : /\ bets'[b] \in BetRow
                     /\ bets'[b].status = "lost"
                     /\ bets'[b].game = "crash"
                     /\ bets'[b].round = bets[b].round
    BY <2>5, <2>6, <2>7 DEF BetRow
  <2>10. BetsTyped'
    <3>1. bets' \in [Bet -> BetRow] BY <2>6, <2>7, <2>8, <2>9
    <3> QED BY <3>1, <2>1, <2>4, <2>5, <2>8, <2>9 DEF Inv, BetsTyped
  <2>11. PlacesTyped'
    <3>1. \A b \in Bet : bets[b] = NoBet \/ bets[b].game = "slots" => b \notin B
      BY <2>5 DEF NoBet
    <3> QED BY <3>1, <2>8, <2>1, <2>4 DEF Inv, PlacesTyped
  <2>12. GamblesTyped' /\ GambleIsBooked' BY <2>1 DEF Inv, GamblesTyped, GambleIsBooked
  <2>13. WinsMatchStatus'
    <3> SUFFICES ASSUME NEW b \in Bet PROVE WinsMatchStatus!(b)'
      BY DEF WinsMatchStatus
    <3>1. CASE b \in B BY <3>1, <2>1, <2>5, <2>9 DEF Inv, WinsMatchStatus
    <3>2. CASE b \notin B BY <3>2, <2>1, <2>8 DEF Inv, WinsMatchStatus
    <3> QED BY <3>1, <3>2
  <2> QED BY <2>4, <2>10, <2>11, <2>12, <2>13 DEF Inv
<1> QED BY <1>0, <1>1

LEMMA SettleKenoInv == ASSUME Inv, SettleKeno PROVE Inv'
<1> DEFINE B == ActiveIn("keno", Len(rounds["keno"]))
<1>1. PICK prize \in [B -> Prize] :
        LET won == {b \in B : Capped(prize[b]) > 0} IN
        /\ bets' = [b \in Bet |->
                      IF b \in B
                      THEN [bets[b] EXCEPT !.status = IF b \in won THEN "won" ELSE "lost",
                                           !.payout = Capped(prize[b])]
                      ELSE bets[b]]
        /\ ledger' = ledger \union {<<"keno-win", b>> : b \in won}
  BY DEF SettleKeno
<1>2. UNCHANGED <<place, cash, gamble>> BY DEF SettleKeno
<1>3. "keno" \in Timed /\ "crash" \in Timed /\ rounds["keno"] # <<>>
  BY DEF SettleKeno, LatestIs, Timed
<1>4. [Latest("keno") EXCEPT !.phase = "over"] \in RoundRow
  BY <1>3, LatestTyped DEF Inv, RoundRow
<1>5. RoundsTyped' /\ Len(rounds'["crash"]) = Len(rounds["crash"])
  BY <1>3, <1>4, SetLatestTyped DEF Inv, SettleKeno
<1>6. \A b \in B : b \in Bet /\ bets[b].game = "keno" /\ bets[b].status = "active"
  BY DEF ActiveIn
<1>7. \A b \in B : Capped(prize[b]) \in 0..MaxWin BY CappedIsPayout, GamesAssumption
<1> DEFINE won == {b \in B : Capped(prize[b]) > 0}
<1>8. won \subseteq B OBVIOUS
<1>9. \A b \in Bet : bets[b] \in BetRow BY DEF Inv, BetsTyped
<1>10. /\ bets' = [b \in Bet |->
                     IF b \in B
                     THEN [bets[b] EXCEPT !.status = IF b \in won THEN "won" ELSE "lost",
                                          !.payout = Capped(prize[b])]
                     ELSE bets[b]]
       /\ ledger' = ledger \union {<<"keno-win", b>> : b \in won}
  BY <1>1
<1> HIDE DEF B, won
<1>11. \A b \in Bet : b \notin B => bets'[b] = bets[b] BY <1>10
<1>12. \A b \in B : /\ bets'[b] \in BetRow
                    /\ bets'[b].status = IF b \in won THEN "won" ELSE "lost"
                    /\ bets'[b].game = "keno"
  BY <1>6, <1>7, <1>9, <1>10 DEF BetRow
<1>13. \A kind \in Kind, b \in Bet :
         <<kind, b>> \in ledger' <=>
           <<kind, b>> \in ledger \/ (kind = "keno-win" /\ b \in won)
  BY <1>10
<1>14. BetsTyped'
  <2>1. bets' \in [Bet -> BetRow] BY <1>9, <1>10, <1>11, <1>12
  <2> QED BY <2>1, <1>2, <1>5, <1>6, <1>11, <1>12 DEF Inv, BetsTyped
<1>15. PlacesTyped'
  <2>1. \A b \in Bet : bets[b] = NoBet \/ bets[b].game = "slots" => b \notin B
    BY <1>6 DEF NoBet
  <2> QED BY <2>1, <1>11, <1>2, <1>5 DEF Inv, PlacesTyped
<1>16. GamblesTyped'
  <2>1. {<<"keno-win", b>> : b \in won} \subseteq Kind \X Bet BY <1>6, <1>8 DEF Kind
  <2> QED BY <2>1, <1>2, <1>10 DEF Inv, GamblesTyped
<1>17. GambleIsBooked' BY <1>2, <1>13 DEF Inv, GambleIsBooked, Kind
<1>18. WinsMatchStatus'
  <2> SUFFICES ASSUME NEW b \in Bet PROVE WinsMatchStatus!(b)'
    BY DEF WinsMatchStatus
  <2>1. CASE b \in B BY <2>1, <1>6, <1>12, <1>13 DEF Inv, WinsMatchStatus, Kind
  <2>2. CASE b \notin B BY <2>2, <1>8, <1>11, <1>13 DEF Inv, WinsMatchStatus, Kind
  <2> QED BY <2>1, <2>2
<1> QED BY <1>5, <1>14, <1>15, <1>16, <1>17, <1>18 DEF Inv

-----------------------------------------------------------------------------
(* The players' requests.                                                  *)

LEMMA BeginBetInv == ASSUME Inv, NEW b \in Bet, NEW g \in Game, BeginBet(b, g) PROVE Inv'
<1> USE DEF BeginBet
<1>1. PICK auto \in AutoTarget \union {0} :
        place' = [place EXCEPT ![b] =
                    [step |-> "round", game |-> g, auto |-> auto,
                     round |-> IF g = "slots" THEN 0 ELSE Len(rounds[g])]]
  BY GamesAssumption
<1>2. g # "slots" => g \in Timed /\ rounds[g] # <<>> BY DEF LatestIs, Game, Timed
<1>3. g # "slots" => Len(rounds[g]) \in Nat /\ Len(rounds[g]) \in 1..Len(rounds[g])
  BY <1>2, LatestTyped, RoundsAreSequences DEF Inv
<1>4. PlacesTyped'
  <2> DEFINE n == IF g = "slots" THEN 0 ELSE Len(rounds[g])
  <2>1. n \in Nat /\ (g = "crash" => n \in 1..Len(rounds["crash"])) BY <1>3
  <2>2. place' = [place EXCEPT ![b] = [step |-> "round", game |-> g, auto |-> auto, round |-> n]]
    BY <1>1
  <2> HIDE DEF n
  <2>3. place[b].step = "new" /\ UNCHANGED <<rounds, bets>> OBVIOUS
  <2>4. place'[b] \in PlaceRow /\ place'[b].step = "round" /\ place'[b].game = g /\ place'[b].round = n
    BY <2>1, <2>2 DEF PlaceRow, Inv, PlacesTyped
  <2>5. \A c \in Bet : c # b => place'[c] = place[c] BY <2>2 DEF Inv, PlacesTyped
  <2>6. place' \in [Bet -> PlaceRow] BY <2>2, <2>4, <2>5 DEF Inv, PlacesTyped
  <2> QED BY <2>1, <2>3, <2>4, <2>5, <2>6 DEF Inv, PlacesTyped
<1> QED BY <1>4 DEF Inv, RoundsTyped, BetsTyped, GamblesTyped, WinsMatchStatus, GambleIsBooked

LEMMA PlacingInv ==
    ASSUME Inv, NEW b \in Bet, ReadWallet(b) \/ AbandonBet(b)
    PROVE  Inv'
<1> USE DEF ReadWallet, AbandonBet
<1>1. PlacesTyped'
  <2>1. CASE ReadWallet(b)
    <3>1. place[b].step = "round" /\ place' = [place EXCEPT ![b].step = "wallet"] BY <2>1
    <3>2. /\ place'[b] \in PlaceRow
          /\ place'[b].step = "wallet"
          /\ place'[b].game = place[b].game /\ place'[b].round = place[b].round
          /\ \A c \in Bet : c # b => place'[c] = place[c]
      BY <3>1 DEF Inv, PlacesTyped, PlaceRow
    <3>3. place' \in [Bet -> PlaceRow] BY <3>1, <3>2 DEF Inv, PlacesTyped
    <3>4. UNCHANGED <<rounds, bets>> BY <2>1
    <3> QED BY <3>1, <3>2, <3>3, <3>4 DEF Inv, PlacesTyped
  <2>2. CASE AbandonBet(b)
    <3>1. place' = [place EXCEPT ![b] = Over] /\ UNCHANGED <<rounds, bets>> BY <2>2
    <3>2. Over \in PlaceRow /\ Over.step = "over" /\ Over.game = "slots"
      BY DEF Over, NotPlaced, PlaceRow, Game
    <3>3. /\ place' \in [Bet -> PlaceRow] /\ place'[b] = Over
          /\ \A c \in Bet : c # b => place'[c] = place[c]
      BY <3>1, <3>2 DEF Inv, PlacesTyped
    <3> QED BY <3>1, <3>2, <3>3 DEF Inv, PlacesTyped
  <2> QED BY <2>1, <2>2
<1> QED BY <1>1 DEF Inv, RoundsTyped, BetsTyped, GamblesTyped, WinsMatchStatus, GambleIsBooked

\* A bet is inserted where there is none, so no row pays it yet.
LEMMA InsertBetInv == ASSUME Inv, NEW b \in Bet, InsertBet(b) PROVE Inv'
<1>1. PICK prize \in Prize \union {0} :
        bets' = [bets EXCEPT ![b] =
                   [game |-> place[b].game, round |-> place[b].round,
                    auto |-> place[b].auto, payout |-> Capped(prize),
                    status |-> IF place[b].game # "slots" THEN "active"
                               ELSE IF Capped(prize) > 0 THEN "won" ELSE "lost"]]
  BY DEF InsertBet
<1>2. UNCHANGED <<rounds, cash, gamble, ledger>> /\ bets[b] = NoBet
  BY DEF InsertBet, Inv, PlacesTyped
<1>3. Capped(prize) \in 0..MaxWin BY CappedIsPayout, GamesAssumption
<1>4. \A c \in Bet : c # b => bets'[c] = bets[c] BY <1>1
<1>5. /\ bets'[b] \in BetRow
      /\ bets'[b].game = place[b].game /\ bets'[b].round = place[b].round
      /\ bets'[b].status \in {"active", "won", "lost"}
      /\ place[b].game = "keno" => bets'[b].status = "active"
  BY <1>1, <1>3 DEF BetRow, Inv, BetsTyped, PlacesTyped, PlaceRow
<1>6. /\ cash[b] = 0
      /\ \A kind \in {"cashout", "auto-cashout", "keno-win", "slots-win"} : <<kind, b>> \notin ledger
  BY <1>2 DEF NoBet, Inv, BetsTyped, WinsMatchStatus
<1>7. BetsTyped'
  <2>1. bets' \in [Bet -> BetRow] BY <1>1, <1>4, <1>5 DEF Inv, BetsTyped
  <2> QED BY <2>1, <1>2, <1>4, <1>5, <1>6 DEF Inv, BetsTyped, PlacesTyped
<1>8. PlacesTyped'
  <2>1. place' = [place EXCEPT ![b].step = "inserted"] BY DEF InsertBet
  <2>2. /\ place' \in [Bet -> PlaceRow]
        /\ place'[b].step = "inserted" /\ place'[b].game = place[b].game
        /\ place'[b].round = place[b].round
        /\ \A c \in Bet : c # b => place'[c] = place[c]
    BY <2>1 DEF Inv, PlacesTyped, PlaceRow
  <2>3. place[b].game = "slots" /\ bets'[b].payout > 0 => bets'[b].status = "won"
    BY <1>1, <1>3 DEF Inv, BetsTyped
  <2> QED BY <2>2, <2>3, <1>2, <1>4, <1>5 DEF Inv, PlacesTyped
<1>9. WinsMatchStatus' BY <1>2, <1>4, <1>5, <1>6 DEF Inv, WinsMatchStatus
<1> QED BY <1>2, <1>7, <1>8, <1>9 DEF Inv, RoundsTyped, GamblesTyped, GambleIsBooked

LEMMA BookStakeInv == ASSUME Inv, NEW b \in Bet, BookStake(b) PROVE Inv'
<1> USE DEF BookStake
<1>1. PlacesTyped'
  <2>1. /\ place'[b] \in PlaceRow
        /\ place'[b].step = "over" => place'[b].game = "slots"
        /\ \/ place'[b].step = "over"
           \/ place'[b].step = "win" /\ place'[b].game = "slots" /\ bets[b].payout > 0
        /\ \A c \in Bet : c # b => place'[c] = place[c]
    BY DEF Inv, PlacesTyped, PlaceRow, Over, NotPlaced, Game
  <2>2. place' \in [Bet -> PlaceRow] BY <2>1 DEF Inv, PlacesTyped
  <2>3. UNCHANGED <<rounds, bets>> /\ place[b].step = "inserted" OBVIOUS
  <2>4. place'[b].step = "win" => place[b].game = "slots"
    BY DEF Inv, PlacesTyped, PlaceRow, Over, NotPlaced
  <2> QED BY <2>1, <2>2, <2>3, <2>4 DEF Inv, PlacesTyped
<1>2. ledger' \subseteq Kind \X Bet BY DEF Inv, GamblesTyped, Kind
<1> QED BY <1>1, <1>2 DEF Inv, RoundsTyped, BetsTyped, GamblesTyped, WinsMatchStatus, GambleIsBooked

LEMMA BookSpinWinInv == ASSUME Inv, NEW b \in Bet, BookSpinWin(b) PROVE Inv'
<1> USE DEF BookSpinWin
<1>1. PlacesTyped'
  <2>1. place' = [place EXCEPT ![b] = Over] /\ UNCHANGED <<rounds, bets>> OBVIOUS
  <2>2. Over \in PlaceRow /\ Over.step = "over" /\ Over.game = "slots"
    BY DEF Over, NotPlaced, PlaceRow, Game
  <2>3. /\ place' \in [Bet -> PlaceRow] /\ place'[b] = Over
        /\ \A c \in Bet : c # b => place'[c] = place[c]
    BY <2>1, <2>2 DEF Inv, PlacesTyped
  <2> QED BY <2>1, <2>2, <2>3 DEF Inv, PlacesTyped
<1>2. ledger' \subseteq Kind \X Bet BY DEF Inv, GamblesTyped, Kind
<1>3. WinsMatchStatus'
  <2>1. bets[b].game = "slots" /\ bets[b].status = "won" BY DEF Inv, PlacesTyped
  <2>2. \A kind \in Kind, c \in Bet :
          <<kind, c>> \in ledger' <=> <<kind, c>> \in ledger \/ (kind = "slots-win" /\ c = b)
    OBVIOUS
  <2>3. bets' = bets OBVIOUS
  <2> QED BY <2>1, <2>2, <2>3 DEF Inv, WinsMatchStatus, Kind
<1> QED BY <1>1, <1>2, <1>3 DEF Inv, RoundsTyped, BetsTyped, GamblesTyped, GambleIsBooked

LEMMA BeginCashOutInv == ASSUME Inv, NEW b \in Bet, BeginCashOut(b) PROVE Inv'
<1>1. /\ "crash" \in Timed
      /\ bets[b].game = "crash" /\ bets[b].round \in 1..Len(rounds["crash"])
  BY DEF Inv, BetsTyped, BeginCashOut, Timed
<1>2. rounds["crash"][bets[b].round] \in RoundRow
  BY <1>1, RoundsAreSequences, ElementOfSeq DEF Inv
<1>3. BetsTyped'
  <2> DEFINE m == rounds["crash"][bets[b].round].mult
  <2>1. (IF m = 0 THEN 1 ELSE m) \in 0..MaxFlight BY <1>2, GamesAssumption DEF RoundRow
  <2>2. cash' = [cash EXCEPT ![b] = IF m = 0 THEN 1 ELSE m] /\ UNCHANGED <<rounds, bets>>
    BY DEF BeginCashOut
  <2> HIDE DEF m
  <2> QED BY <2>1, <2>2, <1>1 DEF Inv, BetsTyped
<1> QED
  BY <1>3
     DEF BeginCashOut, Inv, RoundsTyped, PlacesTyped, GamblesTyped, WinsMatchStatus, GambleIsBooked

\* Only a bet on a crash round is cashed out, whatever became of it meanwhile.
LEMMA CommitCashOutInv == ASSUME Inv, NEW b \in Bet, CommitCashOut(b) PROVE Inv'
<1>1. /\ bets' = [bets EXCEPT ![b].status = "cashed_out", ![b].payout = Capped(cash[b])]
      /\ ledger' = ledger \union {<<"cashout", b>>}
      /\ cash' = [cash EXCEPT ![b] = 0]
      /\ UNCHANGED <<rounds, place, gamble>>
  BY DEF CommitCashOut
<1>2. Capped(cash[b]) \in 0..MaxWin BY CappedIsPayout, GamesAssumption DEF Inv, BetsTyped
<1>3. bets[b] \in BetRow /\ bets[b].game = "crash" BY DEF Inv, BetsTyped, CommitCashOut
<1>4. /\ bets'[b] \in BetRow /\ bets'[b].status = "cashed_out"
      /\ bets'[b].game = "crash" /\ bets'[b].round = bets[b].round
  BY <1>1, <1>2, <1>3 DEF BetRow, Inv, BetsTyped
<1>5. \A c \in Bet : c # b => bets'[c] = bets[c] BY <1>1 DEF Inv, BetsTyped
<1>6. \A kind \in Kind, c \in Bet :
        <<kind, c>> \in ledger' <=> <<kind, c>> \in ledger \/ (kind = "cashout" /\ c = b)
  BY <1>1
<1>7. BetsTyped'
  <2>1. bets' \in [Bet -> BetRow] BY <1>1, <1>4, <1>5 DEF Inv, BetsTyped
  <2>2. cash' \in [Bet -> 0..MaxFlight] /\ (\A c \in Bet : cash'[c] # 0 => c # b /\ cash[c] # 0)
    BY <1>1, GamesAssumption DEF Inv, BetsTyped
  <2> QED BY <2>1, <2>2, <1>1, <1>3, <1>4, <1>5 DEF Inv, BetsTyped
<1>8. PlacesTyped'
  <2>1. bets[b] # NoBet /\ bets[b].game # "slots" BY <1>3 DEF NoBet
  <2>2. UNCHANGED <<rounds, place>> BY <1>1
  <2> QED BY <2>1, <2>2, <1>5 DEF Inv, PlacesTyped
<1>9. GamblesTyped' BY <1>1 DEF Inv, GamblesTyped, Kind
<1>10. GambleIsBooked' BY <1>1, <1>6 DEF Inv, GambleIsBooked, Kind
<1>11. WinsMatchStatus'
  <2> SUFFICES ASSUME NEW c \in Bet PROVE WinsMatchStatus!(c)'
    BY DEF WinsMatchStatus
  <2>1. CASE c = b BY <2>1, <1>3, <1>4, <1>6 DEF Inv, WinsMatchStatus, Kind
  <2>2. CASE c # b BY <2>2, <1>5, <1>6 DEF Inv, WinsMatchStatus, Kind
  <2> QED BY <2>1, <2>2
<1> QED BY <1>1, <1>7, <1>8, <1>9, <1>10, <1>11 DEF Inv, RoundsTyped

LEMMA ForgetInv ==
    ASSUME Inv, RestartServer \/ \E b \in Bet : AbortCashOut(b)
    PROVE  Inv'
<1> USE GamesAssumption DEF RestartServer, AbortCashOut
<1>1. BetsTyped' BY DEF Inv, BetsTyped
<1>2. PlacesTyped'
  <2>1. CASE UNCHANGED <<rounds, bets, place>> BY <2>1 DEF Inv, PlacesTyped
  <2>2. CASE RestartServer
    <3>1. \A b \in Bet : /\ place'[b] \in PlaceRow
                         /\ \/ place'[b] = place[b]
                            \/ place'[b].step = "over" /\ place'[b].game = "slots"
      BY <2>2 DEF Inv, PlacesTyped, PlaceRow, Over, NotPlaced, Game
    <3>2. place' \in [Bet -> PlaceRow] BY <2>2, <3>1
    <3>3. UNCHANGED <<rounds, bets>> BY <2>2
    <3> QED BY <3>1, <3>2, <3>3 DEF Inv, PlacesTyped
  <2> QED BY <2>1, <2>2
<1> QED BY <1>1, <1>2 DEF Inv, RoundsTyped, GamblesTyped, WinsMatchStatus, GambleIsBooked

LEMMA DrawTyped ==
    ASSUME Inv, NEW b \in Bet, NEW n \in Nat, Draw(b, n)
    PROVE  /\ gamble' \in [Bet -> [phase : {"none", "open", "lost", "taken"}, pending : 0..MaxWin]]
           /\ gamble'[b].phase \in {"open", "lost"}
           /\ gamble'[b].phase = "lost" => gamble'[b].pending = 0
           /\ \A c \in Bet : c # b => gamble'[c] = gamble[c]
<1>1. Capped(2 * n) \in 0..MaxWin BY CappedIsPayout
<1> QED BY <1>1, GamesAssumption DEF Draw, Inv, GamblesTyped

\* The first pick finds no row of the gamble, later ones find its stake.
LEMMA PickInv == ASSUME Inv, NEW b \in Bet, StakeWin(b) \/ PickAgain(b) PROVE Inv'
<1>1. \E n \in Nat : Draw(b, n)
  BY DEF StakeWin, PickAgain, Inv, BetsTyped, BetRow, GamblesTyped
<1>2. UNCHANGED <<rounds, bets, place, cash>> BY DEF StakeWin, PickAgain
<1>3. /\ ledger' \subseteq Kind \X Bet
      /\ \A kind \in Kind, c \in Bet :
           <<kind, c>> \in ledger' <=> <<kind, c>> \in ledger \/ (kind = "gamble-stake" /\ c = b)
      /\ gamble[b].phase # "taken"
  <2>1. CASE StakeWin(b)
    <3>1. ledger' = ledger \union {<<"gamble-stake", b>>} /\ gamble[b].phase = "none"
      BY <2>1 DEF StakeWin
    <3> QED BY <3>1 DEF Inv, GamblesTyped, Kind
  <2>2. CASE PickAgain(b)
    <3>1. ledger' = ledger /\ gamble[b].phase = "open" BY <2>2 DEF PickAgain
    <3>2. <<"gamble-stake", b>> \in ledger
      <4>1. gamble[b].phase # "none" => <<"gamble-stake", b>> \in ledger
        BY DEF Inv, GambleIsBooked
      <4> QED BY <4>1, <3>1
    <3> QED BY <3>1, <3>2 DEF Inv, GamblesTyped
  <2> QED BY <2>1, <2>2
<1>4. GamblesTyped' BY <1>1, <1>3, DrawTyped DEF Inv, GamblesTyped
<1>5. GambleIsBooked'
  <2>1. /\ gamble'[b].phase \in {"open", "lost"}
        /\ gamble'[b].phase = "lost" => gamble'[b].pending = 0
        /\ \A c \in Bet : c # b => gamble'[c] = gamble[c]
    BY <1>1, DrawTyped
  <2> QED BY <2>1, <1>3 DEF Inv, GambleIsBooked, Kind
<1>6. WinsMatchStatus' BY <1>2, <1>3 DEF Inv, WinsMatchStatus, Kind
<1> QED BY <1>2, <1>4, <1>5, <1>6 DEF Inv, RoundsTyped, BetsTyped, PlacesTyped

LEMMA TakeGambleInv == ASSUME Inv, NEW b \in Bet, TakeGamble(b) PROVE Inv'
<1>1. UNCHANGED <<rounds, bets, place, cash>> BY DEF TakeGamble
<1>2. gamble' = [gamble EXCEPT ![b] = [phase |-> "taken", pending |-> 0]] BY DEF TakeGamble
<1>3. /\ ledger' \subseteq Kind \X Bet
      /\ \A kind \in Kind, c \in Bet :
           <<kind, c>> \in ledger' <=> <<kind, c>> \in ledger \/ (kind = "gamble-win" /\ c = b)
  BY DEF TakeGamble, Inv, GamblesTyped, Kind
<1>4. gamble[b].phase = "open"
  <2>1. gamble[b].pending > 0 BY DEF TakeGamble
  <2>2. gamble[b].pending # 0 BY <2>1, GamesAssumption DEF Inv, GamblesTyped
  <2> QED BY <2>2 DEF Inv, GambleIsBooked
<1>5. GamblesTyped' BY <1>2, <1>3, GamesAssumption DEF Inv, GamblesTyped
<1>6. GambleIsBooked'
  <2> SUFFICES ASSUME NEW c \in Bet PROVE GambleIsBooked!(c)'
    BY DEF GambleIsBooked
  <2>1. CASE c = b
    <3>1. gamble'[b] = [phase |-> "taken", pending |-> 0] BY <1>2 DEF Inv, GamblesTyped
    <3>2. <<"gamble-stake", b>> \in ledger
      <4>1. gamble[b].phase # "none" => <<"gamble-stake", b>> \in ledger
        BY DEF Inv, GambleIsBooked
      <4> QED BY <4>1, <1>4
    <3> QED BY <2>1, <3>1, <3>2, <1>3 DEF Kind
  <2>2. CASE c # b
    <3>1. gamble'[c] = gamble[c] BY <2>2, <1>2 DEF Inv, GamblesTyped
    <3> QED BY <2>2, <3>1, <1>3 DEF Inv, GambleIsBooked, Kind
  <2> QED BY <2>1, <2>2
<1>7. WinsMatchStatus' BY <1>1, <1>3 DEF Inv, WinsMatchStatus, Kind
<1> QED BY <1>1, <1>5, <1>6, <1>7 DEF Inv, RoundsTyped, BetsTyped, PlacesTyped

-----------------------------------------------------------------------------

LEMMA NextInv == ASSUME Inv, [Next]_vars PROVE Inv'
<1>1. CASE \E g \in Timed : OpenRound(g) BY <1>1, OpenRoundInv
<1>2. CASE Tick BY <1>2, StartRoundInv, PayAutosInv, SettleCrashInv, SettleKenoInv DEF Tick
<1>3. ASSUME NEW b \in Bet, NEW g \in PlayedOn[b], BeginBet(b, g) PROVE Inv'
  <2>1. g \in Game BY <1>3, GamesAssumption DEF Game, Timed
  <2> QED BY <2>1, <1>3, BeginBetInv
<1>4. ASSUME NEW b \in Bet,
             \/ ReadWallet(b) \/ AbandonBet(b) \/ InsertBet(b) \/ BookStake(b) \/ BookSpinWin(b)
      PROVE  Inv'
  BY <1>4, PlacingInv, InsertBetInv, BookStakeInv, BookSpinWinInv
<1>5. ASSUME NEW b \in Bet,
             \/ BeginCashOut(b) \/ CommitCashOut(b) \/ AbortCashOut(b)
             \/ StakeWin(b) \/ PickAgain(b) \/ TakeGamble(b)
      PROVE  Inv'
  BY <1>5, BeginCashOutInv, CommitCashOutInv, ForgetInv, PickInv, TakeGambleInv
<1>6. CASE RestartServer BY <1>6, ForgetInv
<1>7. CASE UNCHANGED vars
  BY <1>7 DEF vars, Inv, RoundsTyped, BetsTyped, PlacesTyped, GamblesTyped, WinsMatchStatus,
              GambleIsBooked
<1> QED BY <1>1, <1>2, <1>3, <1>4, <1>5, <1>6, <1>7 DEF Next

\* The tables stay typed and consistent in every run of the games.
THEOREM Invariance == Spec => []Inv
<1>1. Init => Inv BY InitInv
<1>2. Inv /\ [Next]_vars => Inv' BY NextInv
<1> QED BY <1>1, <1>2, PTL DEF Spec

\* Whichever of timer and player is faster, and whatever restarts, a bet's status
\* and the rows that pay it agree.
THEOREM WinsAgree == Spec => []WinsMatchStatus
BY Invariance, PTL DEF Inv

\* The gamble of a spin is booked out once, and in exactly when it was taken.
THEOREM GamblesAgree == Spec => []GambleIsBooked
BY Invariance, PTL DEF Inv

-----------------------------------------------------------------------------
(* Balances: what is written was read as enough for the stake.             *)

LEMMA CappedIsNat == \A n \in Nat : Capped(n) \in Nat
<1>1. \A n \in Nat : Capped(n) \in 0..MaxWin BY CappedIsPayout
<1>2. 0..MaxWin \subseteq Nat BY GamesAssumption
<1> QED BY <1>1, <1>2

\* What a tick pays to a player is not negative.
LEMMA PaidIsNat ==
    ASSUME NEW B \in SUBSET Bet, NEW f, \A b \in B : f[b] \in Nat, NEW p
    PROVE  SumFunctionOnSet(f, {b \in B : OwnerOf[b] = p}) \in Nat
<1> DEFINE M == {b \in B : OwnerOf[b] = p}
<1>1. IsFiniteSet(M) BY FS_Subset, GamesAssumption
<1>2. \A b \in M : f[b] \in Nat OBVIOUS
<1> HIDE DEF M
<1>3. SumFunctionOnSet(f, M) \in Nat BY <1>1, <1>2, SumNat
<1> QED BY <1>3 DEF M

LEMMA TicksKeepBalances ==
    ASSUME Inv, BalancesTyped, PayAutos \/ SettleKeno
    PROVE  BalancesTyped'
<1>1. UNCHANGED <<place, before>> BY DEF PayAutos, SettleKeno
<1>2. wallet' \in [Player -> Nat]
  <2>1. CASE PayAutos
    <3>1. PICK m \in 1..MaxFlight :
            wallet' = [p \in Player |->
                         wallet[p] + SumFunctionOnSet([b \in Bet |-> Capped(bets[b].auto)],
                                                      {b \in Due(m) : OwnerOf[b] = p})]
      BY <2>1 DEF PayAutos
    <3> DEFINE f == [b \in Bet |-> Capped(bets[b].auto)]
               paid(p) == SumFunctionOnSet(f, {b \in Due(m) : OwnerOf[b] = p})
    <3>2. Due(m) \in SUBSET Bet BY DEF Due, ActiveIn
    <3>3. \A b \in Bet : f[b] \in Nat
      <4>1. \A b \in Bet : bets[b].auto \in AutoTarget \union {0}
        BY DEF Inv, BetsTyped, BetRow
      <4>2. AutoTarget \union {0} \subseteq Nat BY GamesAssumption
      <4> QED BY <4>1, <4>2, CappedIsNat
    <3> HIDE DEF f
    <3>4. \A p \in Player : paid(p) \in Nat BY <3>2, <3>3, PaidIsNat
    <3>5. wallet' = [p \in Player |-> wallet[p] + paid(p)] BY <3>1 DEF f
    <3> HIDE DEF paid
    <3> QED BY <3>4, <3>5 DEF BalancesTyped
  <2>2. CASE SettleKeno
    <3> DEFINE B == ActiveIn("keno", Len(rounds["keno"]))
    <3>1. PICK prize \in [B -> Prize] :
            wallet' = [p \in Player |->
                         wallet[p] + SumFunctionOnSet([b \in B |-> Capped(prize[b])],
                                       {b \in {c \in B : Capped(prize[c]) > 0} : OwnerOf[b] = p})]
      BY <2>2 DEF SettleKeno
    <3> DEFINE f == [b \in B |-> Capped(prize[b])]
               won == {c \in B : Capped(prize[c]) > 0}
               paid(p) == SumFunctionOnSet(f, {b \in won : OwnerOf[b] = p})
    <3>2. won \in SUBSET Bet BY DEF ActiveIn
    <3>3. \A b \in won : f[b] \in Nat
      <4>1. \A b \in B : prize[b] \in Nat BY <3>1, GamesAssumption
      <4> QED BY <4>1, CappedIsNat
    <3>4. wallet' = [p \in Player |-> wallet[p] + paid(p)] BY <3>1
    <3> HIDE DEF f, won
    <3>5. \A p \in Player : paid(p) \in Nat BY <3>2, <3>3, PaidIsNat
    <3> HIDE DEF paid
    <3> QED BY <3>4, <3>5 DEF BalancesTyped
  <2> QED BY <2>1, <2>2
<1> QED BY <1>1, <1>2 DEF BalancesTyped

\* A request that is on its way has read a balance that covers the stake.
LEMMA RequestsKeepBalances ==
    ASSUME Inv, BalancesTyped, NEW b \in Bet,
           \/ \E g \in Game : BeginBet(b, g)
           \/ ReadWallet(b) \/ InsertBet(b) \/ BookStake(b) \/ BookSpinWin(b) \/ AbandonBet(b)
    PROVE  BalancesTyped'
<1>1. /\ OwnerOf[b] \in Player /\ wallet[OwnerOf[b]] \in Nat /\ before[b] \in Nat
      /\ bets[b].payout \in Nat
      /\ place \in [Bet -> PlaceRow] /\ place[b] \in PlaceRow
  BY GamesAssumption DEF BalancesTyped, Inv, BetsTyped, BetRow, PlacesTyped
<1> DEFINE Others == \A c \in Bet : c # b => place'[c] = place[c] /\ before'[c] = before[c]
<1>2. CASE \E g \in Game : BeginBet(b, g)
  <2>1. Others /\ place'[b].step = "round" /\ UNCHANGED <<before, wallet>>
    BY <1>1, <1>2 DEF BeginBet
  <2> QED BY <2>1 DEF BalancesTyped
<1>3. CASE ReadWallet(b)
  <2>1. Others /\ before'[b] = wallet[OwnerOf[b]] /\ wallet[OwnerOf[b]] >= Stake
    BY <1>1, <1>3 DEF ReadWallet, BalancesTyped
  <2>2. before' \in [Bet -> Nat] /\ wallet' = wallet
    BY <1>1, <1>3 DEF ReadWallet, BalancesTyped
  <2> QED BY <2>1, <2>2 DEF BalancesTyped
<1>4. CASE InsertBet(b)
  <2>1. Others /\ place[b].step = "wallet" /\ UNCHANGED <<before, wallet>>
    BY <1>1, <1>4 DEF InsertBet
  <2> QED BY <2>1 DEF BalancesTyped
<1>5. CASE BookStake(b)
  <2>1. before[b] - Stake \in Nat BY <1>1, <1>5 DEF BookStake, BalancesTyped, Stake
  <2>2. wallet' \in [Player -> Nat] BY <2>1, <1>1, <1>5 DEF BookStake, BalancesTyped
  <2>3. before' \in [Bet -> Nat] BY <2>1, <1>1, <1>5 DEF BookStake, BalancesTyped
  <2>4. Others /\ place'[b].step \in {"win", "over"}
    BY <1>1, <1>5 DEF BookStake, BalancesTyped, Over, NotPlaced, PlaceRow
  <2> QED BY <2>2, <2>3, <2>4 DEF BalancesTyped
<1>6. CASE BookSpinWin(b)
  <2>1. wallet' \in [Player -> Nat] /\ before' \in [Bet -> Nat]
    BY <1>1, <1>6 DEF BookSpinWin, BalancesTyped
  <2>2. Others /\ place'[b].step = "over"
    BY <1>1, <1>6 DEF BookSpinWin, BalancesTyped, Over, NotPlaced
  <2> QED BY <2>1, <2>2 DEF BalancesTyped
<1>7. CASE AbandonBet(b)
  <2>1. wallet' = wallet /\ before' \in [Bet -> Nat] BY <1>7 DEF AbandonBet, BalancesTyped
  <2>2. Others /\ place'[b].step = "over"
    BY <1>1, <1>7 DEF AbandonBet, BalancesTyped, Over, NotPlaced
  <2> QED BY <2>1, <2>2 DEF BalancesTyped
<1> QED BY <1>2, <1>3, <1>4, <1>5, <1>6, <1>7

\* A cash-out and a gamble move the balance there is, and only down to zero.
LEMMA WinsKeepBalances ==
    ASSUME Inv, BalancesTyped, NEW b \in Bet,
           CommitCashOut(b) \/ StakeWin(b) \/ TakeGamble(b)
    PROVE  BalancesTyped'
<1>1. /\ OwnerOf[b] \in Player /\ wallet[OwnerOf[b]] \in Nat
      /\ bets[b].payout \in Nat /\ gamble[b].pending \in Nat /\ Capped(cash[b]) \in Nat
  <2>1. OwnerOf[b] \in Player /\ wallet[OwnerOf[b]] \in Nat
    BY GamesAssumption DEF BalancesTyped
  <2>2. bets[b].payout \in 0..MaxWin /\ cash[b] \in 0..MaxFlight
    BY DEF Inv, BetsTyped, BetRow
  <2>3. gamble[b].pending \in 0..MaxWin
    BY DEF Inv, GamblesTyped
  <2> QED BY <2>1, <2>2, <2>3, GamesAssumption, CappedIsNat
<1>2. UNCHANGED <<place, before>> BY DEF CommitCashOut, StakeWin, TakeGamble
<1>3. \E n \in Nat : wallet' = [wallet EXCEPT ![OwnerOf[b]] = n]
  <2>1. CASE CommitCashOut(b)
    <3>1. wallet[OwnerOf[b]] + Capped(cash[b]) \in Nat BY <1>1
    <3> QED BY <2>1, <3>1 DEF CommitCashOut
  <2>2. CASE StakeWin(b)
    <3>1. wallet[OwnerOf[b]] - bets[b].payout \in Nat BY <2>2, <1>1 DEF StakeWin
    <3> QED BY <2>2, <3>1 DEF StakeWin
  <2>3. CASE TakeGamble(b)
    <3>1. wallet[OwnerOf[b]] + gamble[b].pending \in Nat BY <1>1
    <3> QED BY <2>3, <3>1 DEF TakeGamble
  <2> QED BY <2>1, <2>2, <2>3
<1> QED BY <1>2, <1>3 DEF BalancesTyped

LEMMA StepBalances == ASSUME Inv, BalancesTyped, [Next]_vars PROVE BalancesTyped'
<1>1. CASE UNCHANGED <<wallet, before, place>> BY <1>1 DEF BalancesTyped
<1>2. CASE PayAutos \/ SettleKeno BY <1>2, TicksKeepBalances
<1>3. ASSUME NEW b \in Bet,
             \/ \E g \in PlayedOn[b] : BeginBet(b, g)
             \/ ReadWallet(b) \/ InsertBet(b) \/ BookStake(b) \/ BookSpinWin(b) \/ AbandonBet(b)
      PROVE  BalancesTyped'
  <2>1. PlayedOn[b] \subseteq Game BY GamesAssumption DEF Game, Timed
  <2> QED BY <1>3, <2>1, RequestsKeepBalances
<1>4. ASSUME NEW b \in Bet, CommitCashOut(b) \/ StakeWin(b) \/ TakeGamble(b)
      PROVE  BalancesTyped'
  BY <1>4, WinsKeepBalances
<1>5. CASE RestartServer
  <2>1. /\ wallet' = wallet /\ before' \in [Bet -> Nat]
        /\ \A b \in Bet : place'[b].step \in {"new", "over"}
    BY <1>5 DEF RestartServer, Over, NotPlaced
  <2> QED BY <2>1 DEF BalancesTyped
<1>6. CASE UNCHANGED vars BY <1>1, <1>6 DEF vars
<1>7. ASSUME NEW b \in Bet, BeginCashOut(b) \/ AbortCashOut(b) \/ PickAgain(b)
      PROVE  BalancesTyped'
  BY <1>1, <1>7 DEF BeginCashOut, AbortCashOut, PickAgain
<1>8. CASE (\E g \in Timed : OpenRound(g) \/ StartRound(g)) \/ SettleCrash
  BY <1>1, <1>8 DEF OpenRound, StartRound, SettleCrash
<1> QED BY <1>2, <1>3, <1>4, <1>5, <1>6, <1>7, <1>8 DEF Next, Tick

\* Lost updates may make a wallet wrong, never negative: every request writes a
\* balance that it has read as enough, and every column keeps its range.
THEOREM TypeCorrect == Spec => []TypeOK
<1>1. Init => BalancesTyped
  BY GamesAssumption DEF Init, BalancesTyped, NotPlaced
<1>2. Inv /\ BalancesTyped /\ [Next]_vars => BalancesTyped' BY StepBalances
<1>3. Inv /\ BalancesTyped => TypeOK BY DEF Inv, TypeOK
<1> QED BY <1>1, <1>2, <1>3, Invariance, PTL DEF Spec

=============================================================================

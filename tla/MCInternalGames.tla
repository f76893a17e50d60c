--------------------------- MODULE MCInternalGames ---------------------------
(* Instances of InternalGames for TLC. *)
EXTENDS InternalGames, TLC

CONSTANTS b1, b2, p1

\* Both bets are of one player, so that their requests meet in one wallet.
MCOwnerOf == [b \in Bet |-> p1]

\* One bet on a crash round, the other on any game: every pair of games that
\* share a round or a timer with another bet.
MCPlayedOn == (b1 :> {"crash"}) @@ (b2 :> Game)

\* A second crash round begins while requests of the first are still running.
MCMaxRounds == [crash |-> 2, keno |-> 1]
=============================================================================

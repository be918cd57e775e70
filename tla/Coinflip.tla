------------------------------ MODULE Coinflip ------------------------------
(***************************************************************************)
(* The rules of the coinflip game as its page computes them                *)
(* (examples/coinflip-public/src/lib/coinflip.ts): the faces of a word,    *)
(* the price of a bet, and the faces that are made up when no word is      *)
(* known.  A bet is won when at least minWins of coinCount coins show the  *)
(* side that was picked; a word is read bit by bit.                        *)
(***************************************************************************)
EXTENDS BetLimits, FiniteSetsExt

MaxCoinCount == 10
RtpPercent == 98            \* RTP_BPS over BASIS_POINTS, both by 100

Bets == {b \in [pickHeads : BOOLEAN, coinCount : 1..MaxCoinCount, minWins : 1..MaxCoinCount] :
           b.minWins <= b.coinCount}
Coins(bet) == 0..(bet.coinCount - 1)

\* outcomeFromRandomness, of the coins whose bit of the word is set.
Outcome(bet, heads) ==
  LET wins == IF bet.pickHeads THEN Cardinality(heads)
              ELSE bet.coinCount - Cardinality(heads)
  IN  [heads |-> heads, pickedSideWins |-> wins, won |-> wins >= bet.minWins]

\* outcomeFromResult: faces that show a result of which no word is known.
OutcomeFromResult(bet, won) ==
  LET hits == IF won THEN bet.minWins ELSE bet.minWins - 1
      picked == {i \in Coins(bet) : i < hits}
  IN  [heads |-> IF bet.pickHeads THEN picked ELSE Coins(bet) \ picked,
       pickedSideWins |-> hits, won |-> won]

\* The loop of nCk: every division is exact.
NCk(n, k) ==
  LET effectiveK == IF k < n - k THEN k ELSE n - k
      result[i \in 0..effectiveK] ==
        IF i = 0 THEN 1 ELSE (result[i - 1] * (n - effectiveK + i)) \div i
  IN  result[effectiveK]
\* Mutant: exactly minWins coins win.
WaysExactly(bet) == NCk(bet.coinCount, bet.minWins)
WinningWays(bet) == MapThenSumSet(LAMBDA k : NCk(bet.coinCount, k), bet.minWins..bet.coinCount)

MaxPayout(wager, bet) ==
  (wager * RtpPercent * 2^bet.coinCount) \div (100 * WinningWays(bet))
MaxReservedProfit(wager, bet) ==
  LET payout == MaxPayout(wager, bet) IN IF payout > wager THEN payout - wager ELSE 0

\* payoutMultiplier in basis points, rounded up as computeMaxWager does.
PayoutBps(bet) ==
  LET ways == WinningWays(bet)
  IN  (100 * RtpPercent * 2^bet.coinCount + ways - 1) \div ways
PlatformMaxWager(casino, bet) == ComputeMaxWager(casino, PayoutBps(bet), PayoutBps(bet))

-----------------------------------------------------------------------------
\* A bet is priced by the words that win it: their number is winningWays, on
\* average a bet returns 98% and never more, the faces made up for a result
\* tell that result, and the largest bet that the page offers is not one that
\* it then refuses as beyond the risk limit of the house.
\* (Two counts of wins, one over bits and one over binomials.)
CoinflipPricedOn(bet, wager, profit) ==
  LET casino == [maxBetAmount |-> Unpublished, maxAllowedReservedProfit |-> profit]
      limit == PlatformMaxWager(casino, bet)
      fair == wager * RtpPercent * 2^bet.coinCount
      returned == 100 * WinningWays(bet) * MaxPayout(wager, bet)
  IN  /\ WinningWays(bet) = Cardinality({w \in SUBSET Coins(bet) : Outcome(bet, w).won})
      /\ returned <= fair /\ fair - returned < 100 * WinningWays(bet)
      /\ \A won \in BOOLEAN :
           LET made == OutcomeFromResult(bet, won) IN Outcome(bet, made.heads) = made
      /\ limit.kind = "limit" => MaxReservedProfit(limit.maxWager, bet) <= profit
      /\ limit.kind = "no-limit" => MaxReservedProfit(wager, bet) = 0
=============================================================================

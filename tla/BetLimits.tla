------------------------------ MODULE BetLimits ------------------------------
(***************************************************************************)
(* The largest wager a game offers: the limits that the host page derives  *)
(* from the vault (use-casino-risk-limits.ts) and the wager that the SDK   *)
(* derives from the limits (bet-limits.ts), both by integer division.      *)
(*                                                                         *)
(* A multiplier is a number of hundred-thousandths, or Infinite.           *)
(***************************************************************************)
EXTENDS Integers

BasisPoints == 10000
DefaultMaxBetRiskBps == 100
Infinite == -1
Unpublished == -1           \* of a limit the host does not publish

\* The casino block of the snapshot; a maxBetAmount is not published here.
RiskLimits(liquidity) ==
  [maxBetAmount |-> Unpublished,
   maxAllowedReservedProfit |-> (liquidity * DefaultMaxBetRiskBps) \div BasisPoints]

\* Mutant: the multiplier is rounded to the nearest basis point below.
FloorBps(multiplier) == multiplier \div 10

\* The product of two floating point numbers may come out above a whole number
\* of basis points, and is then rounded up to the next.
MultiplierBps(multiplier) == (multiplier + 9) \div 10
PossibleBps(multiplier) == {MultiplierBps(multiplier), MultiplierBps(multiplier) + 1}

Limit(wager) == [kind |-> "limit", maxWager |-> wager]
NoLimit == [kind |-> "no-limit"]
Unknown == [kind |-> "unknown"]

RiskBoundWager(casino, bps) ==
  (casino.maxAllowedReservedProfit * BasisPoints) \div (bps - BasisPoints)

\* Where the multiplier is finite, bps is what it is rounded to.
ComputeMaxWager(casino, multiplier, bps) ==
  LET ceiling == casino.maxBetAmount
      OrCeiling(result) == IF ceiling > 0 THEN Limit(ceiling) ELSE result
      bound == RiskBoundWager(casino, bps)
  IN  CASE multiplier = Infinite -> OrCeiling(Unknown)
        [] multiplier # Infinite /\ bps <= BasisPoints -> OrCeiling(NoLimit)
        [] multiplier # Infinite /\ bps > BasisPoints ->
             IF casino.maxAllowedReservedProfit = Unpublished THEN OrCeiling(Unknown)
             ELSE Limit(IF ceiling > 0 /\ ceiling < bound THEN ceiling ELSE bound)

\* What the casino checks of a wager: the profit it reserves, and its size.
Accepted(casino, multiplier, wager) ==
  /\ casino.maxBetAmount > 0 => wager <= casino.maxBetAmount
  /\ casino.maxAllowedReservedProfit # Unpublished =>
       (wager * (multiplier - 100000)) \div 100000 <= casino.maxAllowedReservedProfit
=============================================================================

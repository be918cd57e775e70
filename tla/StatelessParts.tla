--------------------------- MODULE StatelessParts ---------------------------
(***************************************************************************)
(* The parts of the system that keep no state, run one input at a time: a  *)
(* probe is taken up, shown to its property and put back.  The probes are  *)
(* the rounds of the game, its layouts, the limits, packed sessions,       *)
(* proofs and deliveries of randomness, and bets of the coinflip game.     *)
(***************************************************************************)
EXTENDS Engine, SessionCodec, RandomnessVerification

Flip == INSTANCE Coinflip

CONSTANTS FlipWagers, FlipProfits, NoProbe

\* Wagers and the profit that the house reserves for one are amounts of a token.
ASSUME FlipAssumption == FlipWagers \subseteq Nat /\ FlipProfits \subseteq Nat

VARIABLE probe

Kind(kind, values) == {[kind |-> kind, of |-> v] : v \in values}
Probes ==
  Kind("round", Rounds) \cup Kind("layout", Presets)
    \cup Kind("limits", [limits : Limits, liquidity : SampleLimits])
    \cup Kind("message", Messages)
    \cup Kind("proof", [x : Points, h : Points,
                        proof : [gamma : {NoPoint} \cup Points, c : 0..CLimit, s : 0..(2 * Q - 1)]])
    \cup Kind("delivery", Deliveries)
    \cup Kind("flip", [bet : Flip!Bets, wager : FlipWagers, profit : FlipProfits])

TakeUp == probe = NoProbe /\ probe' \in Probes
PutBack == probe # NoProbe /\ probe' = NoProbe
ProbeSpec == probe = NoProbe /\ [][TakeUp \/ PutBack]_probe

-----------------------------------------------------------------------------
Probed(kind) == probe # NoProbe /\ probe.kind = kind

\* The page shows the rounds that the contract settles, each with its layout,
\* bytes and payout, and its demo resolves them alike.  (RoundsAgreeOn.)
RoundsAgree == Probed("round") => RoundsAgreeOn(probe.of)

\* Every layout returns 96%, in Solidity and in TypeScript.  (ReturnsExactOn.)
ReturnsExact == Probed("layout") => ReturnsExactOn(probe.of)

\* No wager that the page offers is refused by the casino, and none costs the
\* vault more than its share for one bet.  (LimitsAcceptedOn.)
LimitsAccepted == Probed("limits") => LimitsAcceptedOn(probe.of.limits, probe.of.liquidity)

\* What the contract packs the page unpacks, and neither takes bytes that the
\* other would read otherwise.  (CodecsAgreeOn, for the message probed.)
CodecsAgree == Probed("message") => CodecsAgreeOn(probe.of)

\* Proofs of randomness are complete, sound and have one form.
\* (ProofsSoundOn, for the key, the point and the proof probed.)
ProofsSound == Probed("proof") => ProofsSoundOn(probe.of.x, probe.of.h, probe.of.proof)

\* The verdict shown to the player is true.  (VerdictTrueOn.)
VerdictTrue == Probed("delivery") => VerdictTrueOn(probe.of)

\* Coinflip bets are priced by the words that win them.  (CoinflipPricedOn.)
CoinflipPriced ==
  Probed("flip") => Flip!CoinflipPricedOn(probe.of.bet, probe.of.wager, probe.of.profit)
=============================================================================

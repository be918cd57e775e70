------------------------------- MODULE Engine -------------------------------
(***************************************************************************)
(* The same rules as the guest page implements them in TypeScript: the     *)
(* engine (src/engine/counterweight.ts) that shows demo rounds, and the    *)
(* decoder (src/engine/onChainResult.ts) that turns the contract's         *)
(* gameState into the round the page plays back.  They are separate copies *)
(* of the contract's tables; this module runs all three over every input.  *)
(***************************************************************************)
EXTENDS Counterweight, BetLimits, FiniteSets

CONSTANTS
  Grain,             \* how far the doubles near a payout lie apart
  SampleWagers,      \* wagers the round states are computed for
  SampleLimits,      \* amounts the wager limits are computed for
  SampleMultipliers  \* largest payouts of other games, in hundred-thousandths

ASSUME SampleAssumption ==
  /\ Grain \in Nat \ {0}
  /\ SampleWagers \subseteq Nat /\ SampleLimits \subseteq Nat
  /\ SampleMultipliers \subseteq Nat

PresetIds == <<"steady", "offset", "wild">>
IdOf(preset) == PresetIds[preset + 1]

EnginePositions ==
  [steady |-> <<-1, -2, -3, 1, 2, 3>>,
   offset |-> <<-3, -1, -2, 1, 3, 2>>,
   wild   |-> <<-3, -2, -1, 3, 2, 1>>]

\* Mutant: the recovery band of the steady layout pays its stake back.
PaytableGenerous ==
  [steady |-> [safeLimit |-> 64, recoveryLimit |-> 128, safe |-> 334, recovery |-> 100],
   offset |-> [safeLimit |-> 32, recoveryLimit |-> 96, safe |-> 568, recovery |-> 100],
   wild   |-> [safeLimit |-> 16, recoveryLimit |-> 48, safe |-> 1336, recovery |-> 100]]
Paytable ==
  [steady |-> [safeLimit |-> 64, recoveryLimit |-> 128, safe |-> 334, recovery |-> 50],
   offset |-> [safeLimit |-> 32, recoveryLimit |-> 96, safe |-> 568, recovery |-> 100],
   wild   |-> [safeLimit |-> 16, recoveryLimit |-> 48, safe |-> 1336, recovery |-> 100]]

\* getPresetProfile: how many of 256 bytes pay what, as the controls show it.
PresetProfile(id) ==
  LET t == Paytable[id]
  IN  [safeOdds |-> t.safeLimit, recoveryOdds |-> t.recoveryLimit - t.safeLimit,
       fallOdds |-> 256 - t.recoveryLimit,
       safeMultiplier |-> t.safe, recoveryMultiplier |-> t.recovery]

\* expectedRtpWad, before its division by 256.
ExpectedRtp(id) ==
  LET t == Paytable[id]
  IN  t.safeLimit * t.safe + (t.recoveryLimit - t.safeLimit) * t.recovery

PayoutClass(id, entropy) ==
  IF entropy < Paytable[id].safeLimit THEN "safe"
  ELSE IF entropy < Paytable[id].recoveryLimit THEN "recovery" ELSE "lost"

WeightsFor(id, kind, direction) ==
  CASE id = "steady" /\ kind = "safe" -> <<55, 80, 120, 55, 80, 120>>
    [] id = "steady" /\ kind = "recovery" ->
         IF direction # 0 THEN <<120, 80, 80, 80, 80, 80>> ELSE <<80, 80, 80, 120, 80, 80>>
    [] id = "offset" /\ kind = "safe" -> <<80, 55, 120, 80, 55, 120>>
    [] id = "offset" /\ kind = "recovery" ->
         IF direction # 0 THEN <<80, 120, 120, 80, 55, 120>> ELSE <<80, 55, 120, 120, 55, 120>>
    [] id = "wild" /\ kind = "safe" -> <<55, 80, 120, 55, 80, 120>>
    [] id = "wild" /\ kind = "recovery" ->
         IF direction # 0 THEN <<80, 80, 120, 55, 80, 120>> ELSE <<55, 80, 120, 80, 80, 120>>
    [] kind = "lost" ->
         IF direction # 0 THEN <<120, 120, 120, 35, 35, 35>> ELSE <<35, 35, 35, 120, 120, 120>>

\* resolveFromEntropy, without what is only drawn (crate kinds, tilt).
ResolveFromEntropy(id, entropy, direction) ==
  LET kind == PayoutClass(id, entropy % 256)
      weights == WeightsFor(id, kind, direction % 2)
  IN [weights |-> weights,
      moment |-> Torque(EnginePositions[id], weights),
      multiplier |-> CASE kind = "safe" -> Paytable[id].safe
                       [] kind = "recovery" -> Paytable[id].recovery
                       [] OTHER -> 0]

Magnitude(m) == IF m < 0 THEN -m ELSE m

\* summarizeMoment, shown as the status pill of the stage.
SummarizeMoment(m) ==
  CASE Magnitude(m) <= 22 -> "balanced"
    [] Magnitude(m) > 22 /\ Magnitude(m) <= 50 -> "recoverable"
    [] Magnitude(m) > 50 /\ Magnitude(m) <= 100 -> "strained"
    [] OTHER -> "lost"

NoRound == [round |-> FALSE]

\* Number(formatUnits(amount)): the nearest double.
AsNumber(amount) == Grain * ((amount + Grain \div 2) \div Grain)

\* The checks of decodeCounterweightState after the ABI decoding, which throws
\* (and so yields null) for a state with fewer fields.
Decodable(state) ==
  /\ DOMAIN state = {"preset", "entropy", "direction", "weights", "moment",
                     "multiplier", "payout"}
  /\ state.preset < 3
  /\ state.direction <= 1
  /\ \A i \in Crates : state.weights[i] \in {35, 55, 80, 120}
  /\ Torque(EnginePositions[IdOf(state.preset)], state.weights) = state.moment
  /\ state.multiplier <= 1336

DecodeCounterweightState(state) ==
  IF Decodable(state)
  THEN [round |-> TRUE, preset |-> IdOf(state.preset), entropy |-> state.entropy,
        direction |-> state.direction, weights |-> state.weights,
        moment |-> state.moment, multiplier |-> state.multiplier,
        payout |-> AsNumber(state.payout)]
  ELSE NoRound

-----------------------------------------------------------------------------
\* The inputs: rounds that the contract resolves and the page shows, and what
\* the casino publishes of its limits.
Rounds == [preset : Presets, entropy : Bytes, direction : Directions, wager : SampleWagers]
Limits ==
  [multiplier : SampleMultipliers, maxAllowedReservedProfit : SampleLimits \cup {Unpublished},
   maxBetAmount : SampleLimits \cup {Unpublished}]

OnChain(r) == RoundState(r.preset, r.entropy, r.direction, r.wager)

\* The page can show every round the contract can settle, and what it shows is
\* the layout the player chose, the payout the host paid to half the distance of
\* two doubles, exactly where it is one of them, and the weights that
\* balance to the moment it draws (RoundState against Decodable); and its demo
\* round of the same bytes has the same crates, moment and multiplier.
RoundsAgreeOn(r) ==
  LET shown == DecodeCounterweightState(OnChain(r))
      demo == ResolveFromEntropy(IdOf(r.preset), r.entropy, r.direction)
  IN  /\ shown.round
      /\ shown.preset = IdOf(r.preset)
      /\ 2 * Magnitude(shown.payout - OnChain(r).payout) <= Grain
      /\ OnChain(r).payout % Grain = 0 => shown.payout = OnChain(r).payout
      /\ shown.entropy = r.entropy /\ shown.direction = r.direction
      /\ demo.weights = OnChain(r).weights /\ demo.moment = OnChain(r).moment
      /\ demo.multiplier = OnChain(r).multiplier

\* The bytes of a layout that pay a multiplier, and all that its bytes pay,
\* hundredth by hundredth: <<b, n>> is the nth that byte b pays.
Hits(preset, m) == {b \in Bytes : Multiplier(preset, b) = m}
PaidByBytes(preset) ==
  {u \in Bytes \X (1..MaxMultiplier) : u[2] <= Multiplier(preset, u[1])}

\* A layout returns exactly 96%: over all bytes the multipliers of the
\* contract and of the engine add up to the same, 256 times the target, and the
\* odds that the page shows are those that the contract plays.
\* (TARGET_RTP_WAD, expectedRtpWad and getPresetProfile.)
ReturnsExactOn(preset) ==
  LET shown == PresetProfile(IdOf(preset))
  IN  /\ Cardinality(PaidByBytes(preset)) = 256 * TargetRtp
      /\ ExpectedRtp(IdOf(preset)) = 256 * TargetRtp
      /\ Cardinality(Hits(preset, shown.safeMultiplier)) = shown.safeOdds
      /\ Cardinality(Hits(preset, shown.recoveryMultiplier)) = shown.recoveryOdds
      /\ Cardinality(Hits(preset, 0)) = shown.fallOdds

\* The multiplier that the page gives to computeMaxWager: 13.36.
PageMultiplier == 1336000

\* A wager up to the limit is never one that the casino rejects, whatever is
\* published and however the multiplier is rounded; in this game it is at most
\* one unit short of the highest, and no round of it costs the vault more than
\* the share of its liquidity that it puts at risk for one bet.
\* (computeMaxWager, useCasinoRiskLimits, and quoteCaps of the contract.)
LimitsAcceptedOn(l, liquidity) ==
  /\ \A bps \in PossibleBps(l.multiplier) :
       LET result == ComputeMaxWager(l, l.multiplier, bps)
       IN  result.kind = "limit" => Accepted(l, l.multiplier, result.maxWager)
  /\ LET casino == RiskLimits(liquidity)
         bps == MultiplierBps(PageMultiplier)
         largest == ComputeMaxWager(casino, PageMultiplier, bps).maxWager
     IN  /\ QuoteCaps(largest).reserved <= casino.maxAllowedReservedProfit
         /\ ~Accepted(casino, PageMultiplier, largest + 2)
         /\ \A p \in Presets, b \in Bytes :
              Times(largest, Multiplier(p, b)) - largest <= casino.maxAllowedReservedProfit
=============================================================================

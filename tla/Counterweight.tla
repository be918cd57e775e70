---------------------------- MODULE Counterweight ----------------------------
(***************************************************************************)
(* The game contract (Counterweight.sol): six crates resolve against a     *)
(* layout ("preset") in one randomness callback.  All its functions are    *)
(* pure, so they are operators here.                                       *)
(*                                                                         *)
(* Multipliers are in hundredths: every WAD constant of the contract is a  *)
(* multiple of 10^16, so floor(wager * wad / 10^18) is exactly             *)
(* floor(wager * hundredths / 100).                                        *)
(***************************************************************************)
EXTENDS Integers, FiniteSetsExt

Presets == 0..2            \* 0 steady, 1 offset, 2 wild
Bytes == 0..255            \* randomness[0], the entropy
Directions == 0..1         \* randomness[1] & 1
Crates == 1..6

One == 100                 \* WAD
MaxMultiplier == 1336      \* MAX_MULTIPLIER_WAD
TargetRtp == 96            \* TARGET_RTP_WAD

Times(wager, multiplier) == (wager * multiplier) \div One

MaxProfit(wager) ==
  LET maxPayout == Times(wager, MaxMultiplier)
  IN IF maxPayout > wager THEN maxPayout - wager ELSE 0

\* quoteCaps
QuoteCaps(wager) == [escrow |-> wager, reserved |-> MaxProfit(wager)]

\* Mutant: the three-crate layout gets the band of the wild one.
SafeCountSwapped(preset) ==
  CASE preset = 0 -> 64 [] preset = 1 -> 16 [] preset = 2 -> 16
SafeCount(preset) ==
  CASE preset = 0 -> 64 [] preset = 1 -> 32 [] preset = 2 -> 16

\* _multiplierWad repeats the band limits that _safeCount and _weights use.
\* Mutant: the last byte of a band is counted to the next one.
MultiplierOffByOne(preset, entropy) ==
  CASE preset = 0 -> IF entropy < 63 THEN 334 ELSE IF entropy < 127 THEN 50 ELSE 0
    [] preset = 1 -> IF entropy < 31 THEN 568 ELSE IF entropy < 95 THEN One ELSE 0
    [] preset = 2 -> IF entropy < 15 THEN MaxMultiplier
                     ELSE IF entropy < 47 THEN One ELSE 0
Multiplier(preset, entropy) ==
  CASE preset = 0 -> IF entropy < 64 THEN 334 ELSE IF entropy < 128 THEN 50 ELSE 0
    [] preset = 1 -> IF entropy < 32 THEN 568 ELSE IF entropy < 96 THEN One ELSE 0
    [] preset = 2 -> IF entropy < 16 THEN MaxMultiplier
                     ELSE IF entropy < 48 THEN One ELSE 0

RecoveryLimit(preset) ==
  CASE preset = 0 -> 128 [] preset = 1 -> 96 [] preset = 2 -> 48

SafeWeights(preset) ==
  IF preset = 1 THEN <<80, 55, 120, 80, 55, 120>> ELSE <<55, 80, 120, 55, 80, 120>>

RecoveryWeights(preset, direction) ==
  CASE preset = 0 -> IF direction = 1 THEN <<120, 80, 80, 80, 80, 80>>
                                      ELSE <<80, 80, 80, 120, 80, 80>>
    [] preset = 1 -> IF direction = 1 THEN <<80, 120, 120, 80, 55, 120>>
                                      ELSE <<80, 55, 120, 120, 55, 120>>
    [] preset = 2 -> IF direction = 1 THEN <<80, 80, 120, 55, 80, 120>>
                                      ELSE <<55, 80, 120, 80, 80, 120>>

LostWeights(direction) ==
  IF direction = 1 THEN <<120, 120, 120, 35, 35, 35>>
                   ELSE <<35, 35, 35, 120, 120, 120>>

Weights(preset, entropy, direction) ==
  IF entropy < SafeCount(preset) THEN SafeWeights(preset)
  ELSE IF entropy < RecoveryLimit(preset) THEN RecoveryWeights(preset, direction)
  ELSE LostWeights(direction)

Positions(preset) ==
  CASE preset = 0 -> <<-1, -2, -3, 1, 2, 3>>
    [] preset = 1 -> <<-3, -1, -2, 1, 3, 2>>
    [] preset = 2 -> <<-3, -2, -1, 3, 2, 1>>

\* The turning moment of weights at positions.
Torque(positions, weights) ==
  MapThenSumSet(LAMBDA i : positions[i] * weights[i], Crates)

Moment(preset, weights) == Torque(Positions(preset), weights)

\* gameState before the callback: abi.encode(preset) ...
StartState(preset) == [preset |-> preset]

\* ... and after it.
\* Mutant: the direction bit is read from the wrong byte.
RoundStateMixed(preset, entropy, direction, wager) ==
  LET weights == Weights(preset, entropy, direction)
  IN [preset |-> preset, entropy |-> entropy, direction |-> entropy % 2,
      weights |-> weights, moment |-> Moment(preset, weights),
      multiplier |-> Multiplier(preset, entropy),
      payout |-> Times(wager, Multiplier(preset, entropy))]
RoundState(preset, entropy, direction, wager) ==
  LET weights == Weights(preset, entropy, direction)
  IN [preset |-> preset, entropy |-> entropy, direction |-> direction,
      weights |-> weights, moment |-> Moment(preset, weights),
      multiplier |-> Multiplier(preset, entropy),
      payout |-> Times(wager, Multiplier(preset, entropy))]

\* onSessionStart
SessionStart(wager, preset) ==
  [state |-> StartState(preset), escrowDelta |-> 0,
   reservedDelta |-> MaxProfit(wager), phase |-> "WAITING_RANDOMNESS",
   request |-> TRUE, payout |-> 0]

\* Mutant: the payout is rounded up, the reserved profit was rounded down.
RandomnessResultUp(wager, state, entropy, direction) ==
  [state |-> RoundState(state.preset, entropy, direction, wager),
   escrowDelta |-> 0, reservedDelta |-> 0, phase |-> "SETTLED", request |-> FALSE,
   payout |-> (wager * Multiplier(state.preset, entropy) + One - 1) \div One]

\* onRandomness
RandomnessResult(wager, state, entropy, direction) ==
  [state |-> RoundState(state.preset, entropy, direction, wager),
   escrowDelta |-> 0, reservedDelta |-> 0, phase |-> "SETTLED",
   request |-> FALSE, payout |-> Times(wager, Multiplier(state.preset, entropy))]
=============================================================================

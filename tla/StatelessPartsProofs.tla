------------------------ MODULE StatelessPartsProofs ------------------------
(***************************************************************************)
(* Theorems about the parts that keep no state, for inputs of any number   *)
(* and size: the rounds of the contract as the page shows them, the odds   *)
(* of every layout, the limits on wagers, the codecs for every session and *)
(* every string of bytes, the proofs of randomness for every group of      *)
(* prime order, the verdict on them, and the bets of the coinflip game.    *)
(***************************************************************************)
EXTENDS StatelessParts, SequenceTheorems, FiniteSetTheorems, TLAPS

-----------------------------------------------------------------------------
(* The rounds of the contract, and those that the page shows.              *)

\* The engine's copies of the contract's tables are those of the contract.
LEMMA TablesAgree ==
  ASSUME NEW p \in Presets
  PROVE  /\ IdOf(p) \in {"steady", "offset", "wild"}
         /\ EnginePositions[IdOf(p)] = Positions(p)
<1>1. CASE p = 0
  BY <1>1 DEF IdOf, PresetIds, EnginePositions, Positions
<1>2. CASE p = 1
  BY <1>2 DEF IdOf, PresetIds, EnginePositions, Positions
<1>3. CASE p = 2
  BY <1>3 DEF IdOf, PresetIds, EnginePositions, Positions
<1>. QED
  BY <1>1, <1>2, <1>3 DEF Presets

LEMMA BandsAgree ==
  ASSUME NEW p \in Presets, NEW e \in Bytes
  PROVE  LET kind == PayoutClass(IdOf(p), e)
         IN  /\ kind = "safe" =>
                  /\ e < SafeCount(p)
                  /\ Multiplier(p, e) = Paytable[IdOf(p)].safe
             /\ kind = "recovery" =>
                  /\ SafeCount(p) <= e /\ e < RecoveryLimit(p)
                  /\ Multiplier(p, e) = Paytable[IdOf(p)].recovery
             /\ kind = "lost" =>
                  RecoveryLimit(p) <= e /\ SafeCount(p) <= e /\ Multiplier(p, e) = 0
             /\ kind \in {"safe", "recovery", "lost"}
<1>0. e \in Nat /\ One = 100 /\ MaxMultiplier = 1336
  BY DEF Bytes, One, MaxMultiplier
<1>1. CASE p = 0
  BY <1>0, <1>1 DEF IdOf, PresetIds, PayoutClass, Paytable, SafeCount, RecoveryLimit, Multiplier
<1>2. CASE p = 1
  BY <1>0, <1>2 DEF IdOf, PresetIds, PayoutClass, Paytable, SafeCount, RecoveryLimit, Multiplier
<1>3. CASE p = 2
  BY <1>0, <1>3 DEF IdOf, PresetIds, PayoutClass, Paytable, SafeCount, RecoveryLimit, Multiplier
<1>. QED
  BY <1>1, <1>2, <1>3 DEF Presets

LEMMA SafeAgree ==
  ASSUME NEW p \in Presets, NEW d \in Directions
  PROVE  WeightsFor(IdOf(p), "safe", d) = SafeWeights(p)
<1>1. CASE p = 0
  BY <1>1 DEF IdOf, PresetIds, WeightsFor, SafeWeights
<1>2. CASE p = 1
  BY <1>2 DEF IdOf, PresetIds, WeightsFor, SafeWeights
<1>3. CASE p = 2
  BY <1>3 DEF IdOf, PresetIds, WeightsFor, SafeWeights
<1>. QED
  BY <1>1, <1>2, <1>3 DEF Presets

LEMMA RecoveryAgree ==
  ASSUME NEW p \in Presets, NEW d \in Directions
  PROVE  WeightsFor(IdOf(p), "recovery", d) = RecoveryWeights(p, d)
<1>0. d = 0 \/ d = 1
  BY DEF Directions
<1>1. CASE p = 0
  BY <1>0, <1>1 DEF IdOf, PresetIds, WeightsFor, RecoveryWeights
<1>2. CASE p = 1
  BY <1>0, <1>2 DEF IdOf, PresetIds, WeightsFor, RecoveryWeights
<1>3. CASE p = 2
  BY <1>0, <1>3 DEF IdOf, PresetIds, WeightsFor, RecoveryWeights
<1>. QED
  BY <1>1, <1>2, <1>3 DEF Presets

LEMMA LostAgree ==
  ASSUME NEW p \in Presets, NEW d \in Directions
  PROVE  WeightsFor(IdOf(p), "lost", d) = LostWeights(d)
<1>0. (d = 0 \/ d = 1) /\ IdOf(p) \in {"steady", "offset", "wild"}
  BY TablesAgree DEF Directions
<1>. QED
  BY <1>0 DEF WeightsFor, LostWeights

\* The crates of a round weigh what the page knows how to draw.
LEMMA WeightsKnown ==
  ASSUME NEW p \in Presets, NEW e \in Bytes, NEW d \in Directions
  PROVE  \A i \in Crates : Weights(p, e, d)[i] \in {35, 55, 80, 120}
<1>1. \A i \in Crates : SafeWeights(p)[i] \in {35, 55, 80, 120}
  BY DEF Crates, SafeWeights
<1>2. \A i \in Crates : LostWeights(d)[i] \in {35, 55, 80, 120}
  BY DEF Crates, LostWeights
<1>3. \A i \in Crates : RecoveryWeights(p, d)[i] \in {35, 55, 80, 120}
  <2>1. CASE p = 0
    BY <2>1 DEF Crates, RecoveryWeights
  <2>2. CASE p = 1
    BY <2>2 DEF Crates, RecoveryWeights
  <2>3. CASE p = 2
    BY <2>3 DEF Crates, RecoveryWeights
  <2>. QED
    BY <2>1, <2>2, <2>3 DEF Presets
<1>. QED
  BY <1>1, <1>2, <1>3 DEF Weights

\* The page can decode every round that the contract settles.
LEMMA RoundDecodable ==
  ASSUME NEW r \in Rounds
  PROVE  Decodable(OnChain(r))
<1>. DEFINE state == OnChain(r)
            weights == Weights(r.preset, r.entropy, r.direction)
<1>1. r.preset \in Presets /\ r.entropy \in Bytes /\ r.direction \in Directions
  BY DEF Rounds
<1>2. /\ state.preset = r.preset /\ state.direction = r.direction
      /\ state.weights = weights /\ state.moment = Torque(Positions(r.preset), weights)
      /\ state.multiplier = Multiplier(r.preset, r.entropy)
      /\ DOMAIN state = {"preset", "entropy", "direction", "weights", "moment",
                         "multiplier", "payout"}
  BY DEF OnChain, RoundState, Moment
<1>3. r.preset < 3 /\ r.direction <= 1
  BY <1>1 DEF Presets, Directions
<1>4. Multiplier(r.preset, r.entropy) <= 1336
  <2>1. Multiplier(r.preset, r.entropy) \in {0, 50, 100, 334, 568, 1336}
    BY <1>1 DEF Multiplier, Presets, One, MaxMultiplier
  <2>. QED
    BY <2>1
<1>5. \A i \in Crates : weights[i] \in {35, 55, 80, 120}
  BY <1>1, WeightsKnown
<1>6. EnginePositions[IdOf(r.preset)] = Positions(r.preset)
  BY <1>1, TablesAgree
<1>. HIDE DEF state, weights
<1>7. Decodable(state)
  BY <1>2, <1>3, <1>4, <1>5, <1>6 DEF Decodable
<1>. QED
  BY <1>7 DEF state

\* A demo round of the same bytes is the round of the contract.
LEMMA DemoAgrees ==
  ASSUME NEW p \in Presets, NEW e \in Bytes, NEW d \in Directions
  PROVE  LET demo == ResolveFromEntropy(IdOf(p), e, d)
         IN  /\ demo.weights = Weights(p, e, d)
             /\ demo.moment = Moment(p, Weights(p, e, d))
             /\ demo.multiplier = Multiplier(p, e)
<1>. DEFINE kind == PayoutClass(IdOf(p), e)
            weights == WeightsFor(IdOf(p), kind, d)
            multiplier == CASE kind = "safe" -> Paytable[IdOf(p)].safe
                            [] kind = "recovery" -> Paytable[IdOf(p)].recovery
                            [] OTHER -> 0
<1>1. e % 256 = e /\ d % 2 = d
  BY DEF Bytes, Directions
<1>2. ResolveFromEntropy(IdOf(p), e, d)
        = [weights |-> weights, moment |-> Torque(EnginePositions[IdOf(p)], weights),
           multiplier |-> multiplier]
  BY <1>1 DEF ResolveFromEntropy
<1>3. kind \in {"safe", "recovery", "lost"}
  BY BandsAgree
<1>4. /\ SafeCount(p) \in Nat /\ RecoveryLimit(p) \in Nat /\ e \in Nat
  BY DEF SafeCount, RecoveryLimit, Presets, Bytes
<1>5. weights = Weights(p, e, d) /\ multiplier = Multiplier(p, e)
  <2>1. CASE kind = "safe"
    <3>1. e < SafeCount(p) /\ Multiplier(p, e) = Paytable[IdOf(p)].safe
      BY <2>1, BandsAgree
    <3>2. weights = SafeWeights(p)
      BY <2>1, SafeAgree
    <3>. HIDE DEF kind
    <3>. QED
      BY <2>1, <3>1, <3>2 DEF Weights
  <2>2. CASE kind = "recovery"
    <3>1. /\ SafeCount(p) <= e /\ e < RecoveryLimit(p)
          /\ Multiplier(p, e) = Paytable[IdOf(p)].recovery
      BY <2>2, BandsAgree
    <3>2. weights = RecoveryWeights(p, d)
      BY <2>2, RecoveryAgree
    <3>. HIDE DEF kind
    <3>. QED
      BY <1>4, <2>2, <3>1, <3>2 DEF Weights
  <2>3. CASE kind = "lost"
    <3>1. RecoveryLimit(p) <= e /\ SafeCount(p) <= e /\ Multiplier(p, e) = 0
      BY <2>3, BandsAgree
    <3>2. weights = LostWeights(d)
      BY <2>3, LostAgree
    <3>. HIDE DEF kind
    <3>. QED
      BY <1>4, <2>3, <3>1, <3>2 DEF Weights
  <2>. QED
    BY <1>3, <2>1, <2>2, <2>3
<1>6. EnginePositions[IdOf(p)] = Positions(p)
  BY TablesAgree
<1>. HIDE DEF weights, multiplier
<1>. QED
  BY <1>2, <1>5, <1>6 DEF Moment

\* Rounding to a grain moves an amount by half of it at most, and no multiple.
LEMMA NumberNear ==
  ASSUME NEW n \in Nat
  PROVE  /\ 2 * Magnitude(AsNumber(n) - n) <= Grain
         /\ n % Grain = 0 => AsNumber(n) = n
<1>. DEFINE half == Grain \div 2
            a == n + half
            q == a \div Grain
            m == Grain * q
<1>1. Grain \in Nat /\ Grain > 0
  BY SampleAssumption
<1>2. half \in Nat /\ 2 * half <= Grain /\ Grain <= 2 * half + 1
  BY <1>1
<1>3. a \in Nat
  BY <1>2
<1>. HIDE DEF a
<1>4. q \in Nat /\ a % Grain \in 0..(Grain - 1) /\ a = m + (a % Grain)
  BY <1>1, <1>3
<1>. HIDE DEF q
<1>4a. a = n + half
  BY DEF a
<1>. HIDE DEF half
<1>5. m \in Nat
  BY <1>1, <1>4
<1>6. AsNumber(n) = m
  BY DEF AsNumber, half, a, q
<1>7. ASSUME n % Grain = 0 PROVE m = n
  <2>. DEFINE k == n \div Grain
  <2>1. k \in Nat /\ n = Grain * k
    BY <1>1, <1>7
  <2>. HIDE DEF k
  <2>2. Grain * (k - q) = Grain * k - Grain * q
    BY <1>1, <1>4, <2>1
  <2>3. Grain * (k - q) > -Grain /\ Grain * (k - q) < Grain
    BY <1>1, <1>2, <1>4, <1>4a, <2>1, <2>2
  <2>4. k = q
    BY <1>1, <1>4, <2>1, <2>3
  <2>. QED
    BY <2>1, <2>4
<1>. HIDE DEF m
<1>8. 2 * Magnitude(m - n) <= Grain
  BY <1>1, <1>2, <1>4, <1>4a, <1>5 DEF Magnitude
<1>. QED
  BY <1>6, <1>7, <1>8

LEMMA RoundsAgreeAlways ==
  ASSUME NEW r \in Rounds
  PROVE  RoundsAgreeOn(r)
<1>1. r.preset \in Presets /\ r.entropy \in Bytes /\ r.direction \in Directions
  BY DEF Rounds
<1>. DEFINE state == OnChain(r)
            shown == DecodeCounterweightState(state)
            demo == ResolveFromEntropy(IdOf(r.preset), r.entropy, r.direction)
<1>2. /\ state.preset = r.preset /\ state.direction = r.direction /\ state.entropy = r.entropy
      /\ state.weights = Weights(r.preset, r.entropy, r.direction)
      /\ state.moment = Moment(r.preset, Weights(r.preset, r.entropy, r.direction))
      /\ state.multiplier = Multiplier(r.preset, r.entropy)
  BY DEF OnChain, RoundState
<1>3. Decodable(state)
  BY RoundDecodable
<1>4. /\ demo.weights = state.weights /\ demo.moment = state.moment
      /\ demo.multiplier = state.multiplier
  BY <1>1, <1>2, DemoAgrees
<1>5. /\ shown.round /\ shown.preset = IdOf(r.preset) /\ shown.payout = AsNumber(state.payout)
      /\ shown.entropy = r.entropy /\ shown.direction = r.direction
  <2>. HIDE DEF state
  <2>. QED
    BY <1>2, <1>3 DEF DecodeCounterweightState
<1>5a. state.payout \in Nat
  <2>1. r.wager \in Nat
    BY SampleAssumption DEF Rounds
  <2>2. Multiplier(r.preset, r.entropy) \in Nat
    BY <1>1 DEF Multiplier, One, MaxMultiplier, Presets, Bytes
  <2>3. state.payout = Times(r.wager, Multiplier(r.preset, r.entropy))
    BY DEF OnChain, RoundState
  <2>. QED
    BY SMT, <2>1, <2>2, <2>3 DEF Times, One
<1>. HIDE DEF shown, demo, state
<1>6. /\ shown.round
      /\ shown.preset = IdOf(r.preset)
      /\ 2 * Magnitude(shown.payout - state.payout) <= Grain
      /\ state.payout % Grain = 0 => shown.payout = state.payout
      /\ shown.entropy = r.entropy /\ shown.direction = r.direction
      /\ demo.weights = state.weights /\ demo.moment = state.moment
      /\ demo.multiplier = state.multiplier
  BY <1>4, <1>5, <1>5a, NumberNear
<1>. QED
  BY <1>6 DEF RoundsAgreeOn, shown, demo, state

-----------------------------------------------------------------------------
(* What the bytes of a layout pay.                                         *)

LEMMA IntervalSize ==
  ASSUME NEW lo \in Int, NEW hi \in Int, lo <= hi + 1
  PROVE  IsFiniteSet(lo..hi) /\ Cardinality(lo..hi) = hi - lo + 1
<1>1. IsFiniteSet(lo..hi) /\ Cardinality(lo..hi) = IF lo > hi THEN 0 ELSE hi - lo + 1
  BY FS_Interval
<1>. QED
  BY <1>1

\* Bytes below a pay x, those from a and below b pay y, all others nothing.
Bands(p, a, b, x, y) ==
  \A e \in Bytes : Multiplier(p, e) = IF e < a THEN x ELSE IF e < b THEN y ELSE 0

\* How many bytes of a layout with two bands pay what, and what they pay
\* together.
LEMMA BandsPaid ==
  ASSUME NEW p \in Presets, NEW a \in Nat, NEW b \in Nat, a <= b, b <= 256,
         NEW x \in 1..MaxMultiplier, NEW y \in 1..MaxMultiplier, x # y,
         Bands(p, a, b, x, y)
  PROVE  /\ Cardinality(Hits(p, x)) = a
         /\ Cardinality(Hits(p, y)) = b - a
         /\ Cardinality(Hits(p, 0)) = 256 - b
         /\ Cardinality(PaidByBytes(p))
              = a * x + (b - a) * y
<1>1. /\ Bytes = 0..255 /\ MaxMultiplier = 1336 /\ x \in Nat /\ y \in Nat
      /\ x # 0 /\ y # 0 /\ x <= 1336 /\ y <= 1336
      /\ \A e \in Bytes : Multiplier(p, e) = IF e < a THEN x ELSE IF e < b THEN y ELSE 0
  BY DEF Bytes, MaxMultiplier, Bands
<1>2. /\ IsFiniteSet(0..(a - 1)) /\ Cardinality(0..(a - 1)) = a
      /\ IsFiniteSet(a..(b - 1)) /\ Cardinality(a..(b - 1)) = b - a
      /\ IsFiniteSet(b..255) /\ Cardinality(b..255) = 256 - b
      /\ IsFiniteSet(1..x) /\ Cardinality(1..x) = x
      /\ IsFiniteSet(1..y) /\ Cardinality(1..y) = y
  <2>1. IsFiniteSet(0..(a - 1)) /\ Cardinality(0..(a - 1)) = (a - 1) - 0 + 1
    BY IntervalSize, 0 \in Int, a - 1 \in Int, 0 <= (a - 1) + 1
  <2>2. IsFiniteSet(a..(b - 1)) /\ Cardinality(a..(b - 1)) = (b - 1) - a + 1
    BY IntervalSize, a \in Int, b - 1 \in Int, a <= (b - 1) + 1
  <2>3. IsFiniteSet(b..255) /\ Cardinality(b..255) = 255 - b + 1
    BY IntervalSize, b \in Int, 255 \in Int, b <= 255 + 1
  <2>4. IsFiniteSet(1..x) /\ Cardinality(1..x) = x - 1 + 1
    BY <1>1, IntervalSize, 1 \in Int, x \in Int, 1 <= x + 1
  <2>5. IsFiniteSet(1..y) /\ Cardinality(1..y) = y - 1 + 1
    BY <1>1, IntervalSize, 1 \in Int, y \in Int, 1 <= y + 1
  <2>. QED
    BY <1>1, <2>1, <2>2, <2>3, <2>4, <2>5
<1>3. Cardinality(Hits(p, x)) = a
  <2>1. Hits(p, x) = 0..(a - 1)
    BY <1>1 DEF Hits
  <2>2. Cardinality(0..(a - 1)) = a
    BY <1>2
  <2>. QED
    BY <2>1, <2>2
<1>4. Cardinality(Hits(p, y)) = b - a
  <2>1. Hits(p, y) = a..(b - 1)
    BY <1>1 DEF Hits
  <2>2. Cardinality(a..(b - 1)) = b - a
    BY <1>2
  <2>. QED
    BY <2>1, <2>2
<1>5. Cardinality(Hits(p, 0)) = 256 - b
  <2>1. Hits(p, 0) = b..255
    BY <1>1 DEF Hits
  <2>2. Cardinality(b..255) = 256 - b
    BY <1>2
  <2>. QED
    BY <2>1, <2>2
<1>6. Cardinality(PaidByBytes(p))
        = a * x + (b - a) * y
  <2>. DEFINE first == (0..(a - 1)) \X (1..x)
              second == (a..(b - 1)) \X (1..y)
  <2>1. PaidByBytes(p) = first \cup second
    <3>1. ASSUME NEW e \in Bytes, NEW n \in 1..MaxMultiplier
          PROVE  n <= Multiplier(p, e)
                   <=> (e \in 0..(a - 1) /\ n \in 1..x) \/ (e \in a..(b - 1) /\ n \in 1..y)
      BY <1>1
    <3>2. ASSUME NEW e, NEW n,
                 (e \in 0..(a - 1) /\ n \in 1..x) \/ (e \in a..(b - 1) /\ n \in 1..y)
          PROVE  e \in Bytes /\ n \in 1..MaxMultiplier
      <4>1. CASE e \in 0..(a - 1) /\ n \in 1..x
        BY <1>1, <4>1
      <4>2. CASE e \in a..(b - 1) /\ n \in 1..y
        BY <1>1, <4>2
      <4>. QED
        BY <3>2, <4>1, <4>2
    <3>. QED
      BY <3>1, <3>2 DEF PaidByBytes
  <2>5. IsFiniteSet(first) /\ Cardinality(first) = a * x
    <3>1. IsFiniteSet(first) /\ Cardinality(first) = Cardinality(0..(a - 1)) * Cardinality(1..x)
      BY <1>2, FS_Product
    <3>. QED
      BY <1>2, <3>1
  <2>6. IsFiniteSet(second) /\ Cardinality(second) = (b - a) * y
    <3>1. IsFiniteSet(second) /\ Cardinality(second) = Cardinality(a..(b - 1)) * Cardinality(1..y)
      BY <1>2, FS_Product
    <3>. QED
      BY <1>2, <3>1
  <2>7. first \cap second = {}
    <3>1. (0..(a - 1)) \cap (a..(b - 1)) = {}
      OBVIOUS
    <3>. QED
      BY <3>1
  <2>8. Cardinality({}) = 0
    BY FS_EmptySet
  <2>9. a * x \in Nat /\ (b - a) * y \in Nat
    BY <1>1
  <2>. HIDE DEF first, second
  <2>10. Cardinality(first \cup second) = Cardinality(first) + Cardinality(second) - Cardinality(first \cap second)
    BY <2>5, <2>6, FS_Union
  <2>11. Cardinality(first \cup second) = a * x + (b - a) * y
    <3>1. Cardinality(first \cup second) = a * x + (b - a) * y - 0
      BY <2>5, <2>6, <2>7, <2>8, <2>10
    <3>. QED
      BY <2>9, <3>1
  <2>. QED
    BY <2>1, <2>11
<1>. QED
  BY <1>3, <1>4, <1>5, <1>6

LEMMA ReturnsExactAlways ==
  ASSUME NEW p \in Presets
  PROVE  ReturnsExactOn(p)
<1>0. One = 100 /\ MaxMultiplier = 1336 /\ TargetRtp = 96
  BY DEF One, MaxMultiplier, TargetRtp
<1>1. CASE p = 0
  <2>1. Bands(p, 64, 128, 334, 50)
    BY <1>1 DEF Multiplier, Bands
  <2>2. /\ Cardinality(Hits(p, 334)) = 64
        /\ Cardinality(Hits(p, 50)) = 64
        /\ Cardinality(Hits(p, 0)) = 128
        /\ Cardinality(PaidByBytes(p)) = 24576
    <3>1. 334 \in 1..MaxMultiplier /\ 50 \in 1..MaxMultiplier
      BY <1>0
    <3>2. 64 \in Nat /\ 128 \in Nat /\ 64 <= 128 /\ 128 <= 256 /\ 334 # 50
      OBVIOUS
    <3>3. /\ Cardinality(Hits(p, 334)) = 64
          /\ Cardinality(Hits(p, 50)) = 128 - 64
          /\ Cardinality(Hits(p, 0)) = 256 - 128
          /\ Cardinality(PaidByBytes(p)) = 64 * 334 + (128 - 64) * 50
      BY <2>1, <3>1, <3>2, BandsPaid
    <3>. QED
      BY SMT, <3>3
  <2>3. IdOf(p) = "steady"
    BY <1>1 DEF IdOf, PresetIds
  <2>. QED
    BY SMT, <1>0, <2>2, <2>3 DEF ReturnsExactOn, PresetProfile, ExpectedRtp, Paytable
<1>2. CASE p = 1
  <2>1. Bands(p, 32, 96, 568, 100)
    BY <1>0, <1>2 DEF Multiplier, Bands
  <2>2. /\ Cardinality(Hits(p, 568)) = 32
        /\ Cardinality(Hits(p, 100)) = 64
        /\ Cardinality(Hits(p, 0)) = 160
        /\ Cardinality(PaidByBytes(p)) = 24576
    <3>1. 568 \in 1..MaxMultiplier /\ 100 \in 1..MaxMultiplier
      BY <1>0
    <3>2. 32 \in Nat /\ 96 \in Nat /\ 32 <= 96 /\ 96 <= 256 /\ 568 # 100
      OBVIOUS
    <3>3. /\ Cardinality(Hits(p, 568)) = 32
          /\ Cardinality(Hits(p, 100)) = 96 - 32
          /\ Cardinality(Hits(p, 0)) = 256 - 96
          /\ Cardinality(PaidByBytes(p)) = 32 * 568 + (96 - 32) * 100
      BY <2>1, <3>1, <3>2, BandsPaid
    <3>. QED
      BY SMT, <3>3
  <2>3. IdOf(p) = "offset"
    BY <1>2 DEF IdOf, PresetIds
  <2>. QED
    BY SMT, <1>0, <2>2, <2>3 DEF ReturnsExactOn, PresetProfile, ExpectedRtp, Paytable
<1>3. CASE p = 2
  <2>1. Bands(p, 16, 48, 1336, 100)
    BY <1>0, <1>3 DEF Multiplier, Bands
  <2>2. /\ Cardinality(Hits(p, 1336)) = 16
        /\ Cardinality(Hits(p, 100)) = 32
        /\ Cardinality(Hits(p, 0)) = 208
        /\ Cardinality(PaidByBytes(p)) = 24576
    <3>1. 1336 \in 1..MaxMultiplier /\ 100 \in 1..MaxMultiplier
      BY <1>0
    <3>2. 16 \in Nat /\ 48 \in Nat /\ 16 <= 48 /\ 48 <= 256 /\ 1336 # 100
      OBVIOUS
    <3>3. /\ Cardinality(Hits(p, 1336)) = 16
          /\ Cardinality(Hits(p, 100)) = 48 - 16
          /\ Cardinality(Hits(p, 0)) = 256 - 48
          /\ Cardinality(PaidByBytes(p)) = 16 * 1336 + (48 - 16) * 100
      BY <2>1, <3>1, <3>2, BandsPaid
    <3>. QED
      BY SMT, <3>3
  <2>3. IdOf(p) = "wild"
    BY <1>3 DEF IdOf, PresetIds
  <2>. QED
    BY SMT, <1>0, <2>2, <2>3 DEF ReturnsExactOn, PresetProfile, ExpectedRtp, Paytable
<1>. QED
  BY <1>1, <1>2, <1>3 DEF Presets

-----------------------------------------------------------------------------
(* Wagers and limits.                                                      *)

\* Integer division, by a positive divisor, rounds down.
LEMMA DivBelow ==
  ASSUME NEW n \in Int, NEW k \in Nat, k > 0
  PROVE  n \div k \in Int /\ (n \div k) * k <= n /\ n < (n \div k) * k + k
<1>1. n = k * (n \div k) + (n % k) /\ n % k \in 0..(k - 1) /\ n \div k \in Int
  OBVIOUS
<1>2. k * (n \div k) = (n \div k) * k
  BY <1>1
<1>. QED
  BY <1>1, <1>2

LEMMA DivAtMost ==
  ASSUME NEW n \in Int, NEW k \in Nat, k > 0, NEW r \in Int, n <= r * k
  PROVE  n \div k <= r
<1>1. n \div k \in Int /\ (n \div k) * k <= n
  BY DivBelow
<1>. DEFINE d == n \div k
<1>. HIDE DEF d
<1>2. CASE d > r
  <2>1. d * k >= (r + 1) * k
    BY <1>1, <1>2 DEF d
  <2>2. (r + 1) * k = r * k + k
    OBVIOUS
  <2>3. d * k \in Int /\ r * k \in Int
    BY <1>1 DEF d
  <2>. QED
    BY <1>1, <2>1, <2>2, <2>3 DEF d
<1>. QED
  BY <1>1, <1>2 DEF d

\* A wager up to the bound reserves at most what the casino allows, whichever
\* way the multiplier was rounded to basis points.
LEMMA BoundReserved ==
  ASSUME NEW most \in Nat, NEW multiplier \in Nat, NEW bps \in Nat, bps > BasisPoints,
         multiplier <= 10 * bps,
         NEW wager \in Nat, wager <= (most * BasisPoints) \div (bps - BasisPoints)
  PROVE  (wager * (multiplier - 100000)) \div 100000 <= most
<1>. DEFINE k == bps - BasisPoints
            bound == (most * BasisPoints) \div k
            over == multiplier - 100000
<1>1. k \in Nat /\ k > 0 /\ over \in Int /\ over <= 10 * k
  BY DEF BasisPoints
<1>2. bound \in Int /\ bound * k <= most * 10000
  <2>1. most * BasisPoints \in Int
    BY DEF BasisPoints
  <2>2. bound \in Int /\ bound * k <= most * BasisPoints
    <3>. HIDE DEF k
    <3>. QED
      BY <1>1, <2>1, DivBelow
  <2>. QED
    BY <2>2 DEF BasisPoints
<1>. HIDE DEF k, bound, over
<1>3. wager * over <= most * 100000
  <2>1. wager * over \in Int
    BY <1>1
  <2>2. CASE over <= 0
    <3>1. wager * over <= 0
      BY <1>1, <2>2
    <3>. QED
      BY <2>1, <3>1
  <2>3. CASE over > 0
    <3>1. wager * over <= wager * (10 * k)
      BY <1>1, <2>3
    <3>2. wager * (10 * k) = 10 * (wager * k)
      BY <1>1
    <3>3. wager * k <= bound * k
      <4>1. wager <= bound
        BY DEF bound, k
      <4>. QED
        BY <1>1, <1>2, <4>1
    <3>4. wager * k \in Int /\ bound * k \in Int
      BY <1>1, <1>2
    <3>. QED
      BY <1>2, <2>1, <3>1, <3>2, <3>3, <3>4
  <2>. QED
    BY <1>1, <2>2, <2>3
<1>4. wager * over \in Int
  BY <1>1
<1>. QED
  BY <1>3, <1>4, DivAtMost DEF over

LEMMA LimitAccepted ==
  ASSUME NEW l \in Limits, NEW bps \in PossibleBps(l.multiplier),
         ComputeMaxWager(l, l.multiplier, bps).kind = "limit"
  PROVE  Accepted(l, l.multiplier, ComputeMaxWager(l, l.multiplier, bps).maxWager)
<1>. DEFINE m == l.multiplier
            most == l.maxAllowedReservedProfit
            ceiling == l.maxBetAmount
            bound == RiskBoundWager(l, bps)
            result == ComputeMaxWager(l, m, bps)
            w == result.maxWager
<1>1. /\ m \in Nat /\ most \in Nat \cup {-1} /\ ceiling \in Nat \cup {-1}
  BY SampleAssumption DEF Limits, Unpublished
<1>2. bps \in Nat /\ m <= 10 * bps
  <2>1. (m + 9) \div 10 \in Nat /\ m <= 10 * ((m + 9) \div 10)
    BY <1>1
  <2>2. bps = (m + 9) \div 10 \/ bps = (m + 9) \div 10 + 1
    BY DEF PossibleBps, MultiplierBps
  <2>. QED
    BY <1>1, <2>1, <2>2
<1>3. m # Infinite
  BY <1>1 DEF Infinite
<1>4. CASE bps <= BasisPoints
  <2>1. ceiling > 0 /\ w = ceiling
    <3>1. result = IF ceiling > 0 THEN Limit(ceiling) ELSE NoLimit
      BY <1>2, <1>3, <1>4 DEF ComputeMaxWager, BasisPoints
    <3>. QED
      BY <3>1 DEF Limit, NoLimit
  <2>2. most # Unpublished => (w * (m - 100000)) \div 100000 <= most
    <3>1. w \in Nat /\ m - 100000 <= 0
      BY <1>1, <1>2, <1>4, <2>1 DEF BasisPoints
    <3>2. w * (m - 100000) <= 0 /\ w * (m - 100000) \in Int
      BY <1>1, <3>1
    <3>. SUFFICES ASSUME most # Unpublished PROVE (w * (m - 100000)) \div 100000 <= most
      OBVIOUS
    <3>3. most \in Nat
      BY <1>1 DEF Unpublished
    <3>4. w * (m - 100000) <= most * 100000
      BY <3>2, <3>3
    <3>. HIDE DEF w, m, most
    <3>. QED
      BY <3>2, <3>3, <3>4, DivAtMost
  <2>3. ceiling > 0 => w <= ceiling
    BY <1>1, <2>1
  <2>. HIDE DEF result
  <2>. QED
    BY <2>2, <2>3 DEF Accepted, result
<1>5. CASE bps > BasisPoints /\ most = Unpublished
  <2>1. result = IF ceiling > 0 THEN Limit(ceiling) ELSE Unknown
    BY <1>2, <1>3, <1>5 DEF ComputeMaxWager, BasisPoints
  <2>2. ceiling > 0 /\ w = ceiling
    BY <2>1 DEF Limit, Unknown
  <2>. QED
    BY <1>1, <1>5, <2>2 DEF Accepted
<1>6. CASE bps > BasisPoints /\ most # Unpublished
  <2>1. result = Limit(IF ceiling > 0 /\ ceiling < bound THEN ceiling ELSE bound)
    BY <1>2, <1>3, <1>6 DEF ComputeMaxWager, BasisPoints
  <2>2. most \in Nat
    BY <1>1, <1>6 DEF Unpublished
  <2>3. bound \in Nat /\ bound = (most * BasisPoints) \div (bps - BasisPoints)
    <3>1. most * 10000 \in Nat /\ bps - 10000 \in Nat /\ bps - 10000 > 0
      BY <1>2, <1>6, <2>2 DEF BasisPoints
    <3>2. (most * 10000) \div (bps - 10000) \in Nat
      <4>. DEFINE a == most * 10000
                  b == bps - 10000
      <4>. HIDE DEF a, b
      <4>1. a \in Nat /\ b \in Nat /\ b > 0
        BY <3>1 DEF a, b
      <4>2. a \div b \in Nat
        BY <4>1
      <4>. QED
        BY <4>2 DEF a, b
    <3>. QED
      BY <3>2 DEF RiskBoundWager, BasisPoints
  <2>4. w = IF ceiling > 0 /\ ceiling < bound THEN ceiling ELSE bound
    BY <2>1 DEF Limit
  <2>5. w \in Nat /\ w <= bound /\ (ceiling > 0 => w <= ceiling)
    <3>. HIDE DEF bound
    <3>. QED
      BY <1>1, <2>3, <2>4
  <2>6. (w * (m - 100000)) \div 100000 <= most
    <3>. HIDE DEF w, m, most
    <3>. QED
      BY <1>1, <1>2, <1>6, <2>2, <2>3, <2>5, BoundReserved DEF m
  <2>. QED
    BY <2>5, <2>6 DEF Accepted
<1>. QED
  BY <1>2, <1>4, <1>5, <1>6 DEF BasisPoints

\* The largest wager that the page offers at its multiplier of 13.36, from below
\* and from above.
LEMMA LargestWager ==
  ASSUME NEW most \in Nat, NEW largest \in Nat,
         largest = (most * BasisPoints) \div (MultiplierBps(PageMultiplier) - BasisPoints)
  PROVE  /\ largest * 1236 <= most * 100
         /\ most * 100 < (largest + 1) * 1236
<1>1. largest = (most * 10000) \div 123600
  BY SMT DEF BasisPoints, MultiplierBps, PageMultiplier
<1>2. largest * 123600 <= most * 10000 /\ most * 10000 < largest * 123600 + 123600
  BY SMT, <1>1
<1>. QED
  BY SMT, <1>2

LEMMA LargestAccepted ==
  ASSUME NEW liquidity \in SampleLimits
  PROVE  LET casino == RiskLimits(liquidity)
             bps == MultiplierBps(PageMultiplier)
             largest == ComputeMaxWager(casino, PageMultiplier, bps).maxWager
         IN  /\ QuoteCaps(largest).reserved <= casino.maxAllowedReservedProfit
             /\ ~Accepted(casino, PageMultiplier, largest + 2)
             /\ \A p \in Presets, b \in Bytes :
                  Times(largest, Multiplier(p, b)) - largest <= casino.maxAllowedReservedProfit
<1>. DEFINE casino == RiskLimits(liquidity)
            bps == MultiplierBps(PageMultiplier)
            largest == ComputeMaxWager(casino, PageMultiplier, bps).maxWager
            most == casino.maxAllowedReservedProfit
<1>1. most \in Nat
  <2>1. liquidity \in Nat
    BY SampleAssumption
  <2>2. most = (liquidity * 100) \div 10000
    BY SMT DEF RiskLimits, DefaultMaxBetRiskBps, BasisPoints
  <2>. QED
    BY SMT, <2>1, <2>2
<1>2. largest = (most * BasisPoints) \div (bps - BasisPoints)
  <2>1. casino.maxBetAmount = -1 /\ most # -1
    BY SMT, <1>1 DEF RiskLimits, Unpublished
  <2>2. bps = 133600
    BY SMT DEF MultiplierBps, PageMultiplier
  <2>3. ComputeMaxWager(casino, PageMultiplier, bps) = Limit(RiskBoundWager(casino, bps))
    <3>. HIDE DEF casino, bps
    <3>. QED
      BY SMT, <2>1, <2>2 DEF ComputeMaxWager, PageMultiplier, Infinite, BasisPoints, Unpublished
  <2>. QED
    BY SMT, <2>3 DEF Limit, RiskBoundWager
<1>3. largest \in Nat
  <2>1. largest = (most * 10000) \div 123600
    BY SMT, <1>2 DEF BasisPoints, MultiplierBps, PageMultiplier
  <2>. HIDE DEF most, largest
  <2>. QED
    BY SMT, <1>1, <2>1
<1>4. casino.maxBetAmount = Unpublished
  BY SMT DEF RiskLimits
<1>. HIDE DEF largest, most, casino
<1>5. largest * 1236 <= most * 100 /\ most * 100 < (largest + 1) * 1236
  BY SMT, <1>1, <1>2, <1>3, LargestWager
<1>6. \A m \in {0, 50, 100, 334, 568, 1336} : (largest * m) \div 100 - largest <= most
  <2>1. (largest * 1336) \div 100 - largest <= most
    BY SMT, <1>1, <1>3, <1>5
  <2>2. (largest * 568) \div 100 - largest <= most
    BY SMT, <1>1, <1>3, <1>5
  <2>3. (largest * 334) \div 100 - largest <= most
    BY SMT, <1>1, <1>3, <1>5
  <2>4. (largest * 100) \div 100 - largest <= most
    BY SMT, <1>1, <1>3, <1>5
  <2>5. (largest * 50) \div 100 - largest <= most
    BY SMT, <1>1, <1>3, <1>5
  <2>6. (largest * 0) \div 100 - largest <= most
    BY SMT, <1>1, <1>3, <1>5
  <2>. QED
    BY SMT, <2>1, <2>2, <2>3, <2>4, <2>5, <2>6
<1>7. QuoteCaps(largest).reserved <= most
  <2>1. QuoteCaps(largest).reserved = MaxProfit(largest)
    BY SMT DEF QuoteCaps
  <2>. QED
    BY SMT, <1>1, <1>3, <1>6, <2>1 DEF MaxProfit, Times, One, MaxMultiplier
<1>8. ~Accepted(casino, PageMultiplier, largest + 2)
  <2>1. ((largest + 2) * 1236000) \div 100000 > most
    BY SMT, <1>1, <1>3, <1>5
  <2>2. casino.maxAllowedReservedProfit = most
    BY SMT DEF most
  <2>. QED
    <3>1. ((largest + 2) * (PageMultiplier - 100000)) \div 100000 > casino.maxAllowedReservedProfit
      BY SMT, <2>1, <2>2 DEF PageMultiplier
    <3>2. casino.maxAllowedReservedProfit # Unpublished
      BY SMT, <1>1, <2>2 DEF Unpublished
    <3>3. Accepted(casino, PageMultiplier, largest + 2)
            => ((largest + 2) * (PageMultiplier - 100000)) \div 100000 <= casino.maxAllowedReservedProfit
      BY <3>2 DEF Accepted
    <3>4. casino.maxAllowedReservedProfit \in Int
      BY SMT, <1>1, <2>2
    <3>. DEFINE reserves == ((largest + 2) * (PageMultiplier - 100000)) \div 100000
    <3>5. reserves \in Int
      BY SMT, <1>3 DEF PageMultiplier
    <3>. HIDE DEF reserves
    <3>. QED
      BY SMT, <3>1, <3>3, <3>4, <3>5 DEF reserves
<1>9. \A p \in Presets, b \in Bytes : Times(largest, Multiplier(p, b)) - largest <= most
  <2>. SUFFICES ASSUME NEW p \in Presets, NEW b \in Bytes
                PROVE  Times(largest, Multiplier(p, b)) - largest <= most
    OBVIOUS
  <2>1. Multiplier(p, b) \in {0, 50, 100, 334, 568, 1336}
    BY SMT DEF Multiplier, Presets, One, MaxMultiplier
  <2>. QED
    BY SMT, <1>6, <2>1 DEF Times, One
<1>. QED
  BY SMT, <1>7, <1>8, <1>9 DEF largest, most, casino

LEMMA LimitsAcceptedAlways ==
  ASSUME NEW l \in Limits, NEW liquidity \in SampleLimits
  PROVE  LimitsAcceptedOn(l, liquidity)
BY LimitAccepted, LargestAccepted DEF LimitsAcceptedOn

-----------------------------------------------------------------------------
(* Proofs of randomness: arithmetic modulo the order of the group.         *)

\* A number and its remainder differ by a multiple of the order.
LEMMA ModQuotient ==
  ASSUME NEW a \in Int
  PROVE  /\ Mod(a) \in 0..(Q - 1)
         /\ \E k \in Int : a = Q * k + Mod(a)
<1>1. Q \in Nat /\ Q >= 1
  BY EcvrfAssumption
<1>2. a % Q \in 0..(Q - 1) /\ a = Q * (a \div Q) + (a % Q) /\ a \div Q \in Int
  BY <1>1
<1>. QED
  BY <1>2 DEF Mod

\* No two remainders differ by a multiple of the order.
LEMMA ModUnique ==
  ASSUME NEW r \in 0..(Q - 1), NEW t \in 0..(Q - 1), NEW k \in Int, r = Q * k + t
  PROVE  r = t
<1>1. Q \in Nat /\ Q >= 1
  BY EcvrfAssumption
<1>2. CASE k = 0
  BY <1>1, <1>2
<1>3. CASE k >= 1
  <2>1. Q * k >= Q
    BY <1>1, <1>3
  <2>. QED
    BY <1>1, <2>1
<1>4. CASE k <= -1
  <2>1. Q * k <= -Q
    <3>1. -k \in Nat /\ -k >= 1
      BY <1>4
    <3>2. Q * (-k) >= Q
      BY <1>1, <3>1
    <3>. QED
      BY <1>1, <3>2
  <2>. QED
    BY <1>1, <2>1
<1>. QED
  BY <1>2, <1>3, <1>4

LEMMA ModIs ==
  ASSUME NEW a \in Int, NEW r \in 0..(Q - 1), NEW k \in Int, a = Q * k + r
  PROVE  Mod(a) = r
<1>1. Q \in Nat
  BY EcvrfAssumption
<1>2. PICK j \in Int : a = Q * j + Mod(a)
  BY ModQuotient
<1>3. Mod(a) \in 0..(Q - 1)
  BY ModQuotient
<1>4. r = Q * (j - k) + Mod(a)
  <2>1. Q * (j - k) = Q * j - Q * k
    BY <1>1
  <2>2. Q * j \in Int /\ Q * k \in Int /\ Mod(a) \in Int
    BY <1>1, <1>3
  <2>. QED
    BY <1>2, <2>1, <2>2
<1>. QED
  BY <1>3, <1>4, ModUnique

\* Numbers with the same remainder differ by a multiple of the order.
LEMMA ModEqual ==
  ASSUME NEW a \in Int, NEW b \in Int, Mod(a) = Mod(b)
  PROVE  \E k \in Int : a = b + Q * k
<1>1. Q \in Nat
  BY EcvrfAssumption
<1>2. PICK i \in Int : a = Q * i + Mod(a)
  BY ModQuotient
<1>3. PICK j \in Int : b = Q * j + Mod(b)
  BY ModQuotient
<1>4. Mod(b) \in Int
  BY ModQuotient
<1>5. a = b + Q * (i - j)
  <2>1. Q * (i - j) = Q * i - Q * j /\ Q * i \in Int /\ Q * j \in Int
    BY <1>1
  <2>. QED
    BY <1>2, <1>3, <1>4, <2>1
<1>. QED
  BY <1>5

\* The order is prime: it divides no product of two smaller numbers.
LEMMA NoDivisors ==
  ASSUME NEW a \in Int, NEW b \in Int, NEW k \in Int, a * b = Q * k,
         -Q < a, a < Q, a # 0, -Q < b, b < Q
  PROVE  b = 0
<1>1. Q \in Nat
  BY EcvrfAssumption
<1>2. \A c, d \in 1..(Q - 1) : \A j \in Int : c * d # Q * j
  <2>. SUFFICES ASSUME NEW c \in 1..(Q - 1), NEW d \in 1..(Q - 1), NEW j \in Int,
                       c * d = Q * j
                PROVE  FALSE
    OBVIOUS
  <2>1. Mod(c * d) = 0
    <3>1. c * d \in Int /\ c * d = Q * j + 0 /\ 0 \in 0..(Q - 1)
      BY <1>1
    <3>. QED
      BY <3>1, ModIs
  <2>. QED
    BY <2>1, EcvrfAssumption DEF Mod
<1>. SUFFICES ASSUME b # 0 PROVE FALSE
  OBVIOUS
<1>3. PICK c \in 1..(Q - 1) : c = a \/ c = -a
  BY <1>1
<1>4. PICK d \in 1..(Q - 1) : d = b \/ d = -b
  BY <1>1
<1>5. c * d = a * b \/ c * d = -(a * b)
  BY <1>1, <1>3, <1>4
<1>6. \E j \in Int : c * d = Q * j
  <2>1. -(Q * k) = Q * (-k) /\ -k \in Int
    BY <1>1
  <2>. QED
    BY <1>5, <2>1
<1>. QED
  BY <1>2, <1>6

LEMMA ChallengeSmall ==
  ASSUME NEW a \in Int, NEW b \in Int, NEW c \in Int, NEW d \in Int
  PROVE  Challenge(<<a, b, c, d>>) \in 0..(CLimit - 1)
<1>. DEFINE n == a * a + 3 * b * b * b + 2 * c * d + 5 * d + c
<1>1. n \in Int
  OBVIOUS
<1>2. CLimit \in Nat /\ CLimit >= 1
  BY EcvrfAssumption
<1>3. n % CLimit \in 0..(CLimit - 1)
  <2>. HIDE DEF n
  <2>. QED
    BY <1>1, <1>2
<1>. QED
  BY <1>3 DEF Challenge

\* The proof of an honest node verifies under its key: s and c give back the
\* points that it committed to.
LEMMA ProveComplete ==
  ASSUME NEW x \in Points, NEW h \in Points, NEW nonce \in Points
  PROVE  Verify(x, h, Prove(x, h, nonce))
<1>. DEFINE gamma == Mod(h * x)
            v == Mod(h * nonce)
            c == Challenge(<<h, gamma, nonce, v>>)
            s == Mod(nonce + c * x)
<1>1. Q \in Nat /\ CLimit \in 1..Q /\ x \in 1..(Q - 1) /\ h \in 1..(Q - 1) /\ nonce \in 1..(Q - 1)
  BY EcvrfAssumption DEF Points
<1>2. h * x \in Int /\ h * nonce \in Int
  BY <1>1
<1>3. gamma \in Points
  <2>1. gamma \in 0..(Q - 1)
    BY <1>2, ModQuotient
  <2>2. gamma # 0
    BY <1>1, EcvrfAssumption DEF Mod
  <2>. QED
    BY <1>1, <2>1, <2>2 DEF Points
<1>4. gamma \in Int /\ v \in 0..(Q - 1)
  <2>1. gamma \in Int
    BY <1>1, <1>3 DEF Points
  <2>. QED
    BY <1>2, <2>1, ModQuotient
<1>5. c \in 0..(CLimit - 1)
  BY <1>1, <1>4, ChallengeSmall
<1>. HIDE DEF c
<1>6. c * x \in Int /\ nonce + c * x \in Int /\ c \in Int
  BY <1>1, <1>5
<1>7. PICK i \in Int : nonce + c * x = Q * i + s
  BY <1>6, ModQuotient
<1>8. s \in 0..(Q - 1)
  BY <1>6, ModQuotient
<1>9. PICK j \in Int : h * x = Q * j + gamma
  BY <1>2, ModQuotient
<1>10. PICK k \in Int : h * nonce = Q * k + v
  BY <1>2, ModQuotient
<1>. HIDE DEF gamma, v, s
<1>11. Mod(s - c * x) = nonce
  <2>1. s - c * x = Q * (-i) + nonce
    <3>1. Q * (-i) = -(Q * i) /\ Q * i \in Int /\ s \in Int
      BY <1>1, <1>8
    <3>. QED
      BY <1>1, <1>6, <1>7, <3>1
  <2>2. s - c * x \in Int /\ -i \in Int /\ nonce \in 0..(Q - 1)
    BY <1>1, <1>6, <1>8
  <2>. QED
    BY <2>1, <2>2, ModIs
<1>12. Mod(s * h - c * gamma) = v
  <2>1. s * h - c * gamma = Q * (k - h * i + c * j) + v
    <3>1. s = nonce + c * x - Q * i
      <4>1. Q * i \in Int /\ s \in Int
        BY <1>1, <1>8
      <4>. QED
        BY <1>1, <1>6, <1>7, <4>1
    <3>2. gamma = h * x - Q * j
      <4>1. Q * j \in Int
        BY <1>1
      <4>. QED
        BY <1>2, <1>4, <1>9, <4>1
    <3>3. s * h = h * nonce + c * (h * x) - Q * (h * i)
      BY <1>1, <1>6, <3>1
    <3>4. c * gamma = c * (h * x) - Q * (c * j)
      BY <1>1, <1>2, <1>6, <3>2
    <3>5. Q * (k - h * i + c * j) = Q * k - Q * (h * i) + Q * (c * j)
      <4>. DEFINE a == h * i
                  b == c * j
      <4>1. a \in Int /\ b \in Int
        BY <1>1, <1>6
      <4>. HIDE DEF a, b
      <4>2. Q * (k - a + b) = Q * k - Q * a + Q * b
        BY <1>1, <4>1
      <4>. QED
        BY <4>2 DEF a, b
    <3>6. /\ Q * k \in Int /\ Q * (h * i) \in Int /\ Q * (c * j) \in Int
          /\ h * nonce \in Int /\ c * (h * x) \in Int /\ v \in Int
      BY <1>1, <1>2, <1>4, <1>6
    <3>. QED
      BY <1>10, <3>3, <3>4, <3>5, <3>6
  <2>2. s * h - c * gamma \in Int /\ k - h * i + c * j \in Int
    BY <1>1, <1>4, <1>6, <1>8
  <2>. QED
    BY <1>4, <2>1, <2>2, ModIs
<1>13. Prove(x, h, nonce) = Proof(gamma, c, s)
  BY DEF Prove, gamma, c, s, v
<1>14. Committed(x, h, Proof(gamma, c, s)) = <<h, gamma, nonce, v>>
  BY <1>11, <1>12 DEF Committed, Proof
<1>15. WellFormed(Proof(gamma, c, s))
  BY <1>1, <1>3, <1>5, <1>8 DEF WellFormed, Proof
<1>16. Challenge(<<h, gamma, nonce, v>>) = c
  BY DEF c
<1>17. Proof(gamma, c, s).c = c
  BY DEF Proof
<1>. QED
  BY <1>13, <1>14, <1>15, <1>16, <1>17 DEF Verify

\* Two proofs with one gamma that commit to the same points have one challenge,
\* and so are one proof, or else gamma is the key's.
LEMMA CommittedOnce ==
  ASSUME NEW x \in Points, NEW h \in Points, NEW gamma \in Points,
         NEW c \in 0..(CLimit - 1), NEW d \in 0..(CLimit - 1),
         NEW s \in 0..(Q - 1), NEW t \in 0..(Q - 1),
         Mod(s - c * x) = Mod(t - d * x),
         Mod(s * h - c * gamma) = Mod(t * h - d * gamma)
  PROVE  (c = d /\ s = t) \/ (c # d /\ gamma = Mod(h * x))
<1>1. Q \in Nat /\ CLimit \in 1..Q /\ x \in 1..(Q - 1) /\ h \in 1..(Q - 1) /\ gamma \in 1..(Q - 1)
  BY EcvrfAssumption DEF Points
<1>2. /\ c \in Int /\ d \in Int /\ s \in Int /\ t \in Int
      /\ c * x \in Int /\ d * x \in Int /\ s * h \in Int /\ t * h \in Int
      /\ c * gamma \in Int /\ d * gamma \in Int /\ h * x \in Int
  BY <1>1
<1>3. PICK i \in Int : s - c * x = t - d * x + Q * i
  BY <1>2, ModEqual
<1>4. PICK j \in Int : s * h - c * gamma = t * h - d * gamma + Q * j
  BY <1>2, ModEqual
<1>5. Q * i \in Int /\ Q * j \in Int
  BY <1>1
<1>6. CASE c = d
  <2>1. s = Q * i + t
    BY <1>2, <1>3, <1>5, <1>6
  <2>. QED
    BY <1>6, <2>1, ModUnique
<1>7. CASE c # d
  <2>1. PICK k \in Int : h * x = Q * k + Mod(h * x)
    BY <1>2, ModQuotient
  <2>. DEFINE g == Mod(h * x)
              e == g - gamma
  <2>2. g \in 0..(Q - 1)
    BY <1>2, ModQuotient
  <2>3. -Q < e /\ e < Q /\ e \in Int /\ g \in Int
    BY <1>1, <2>2
  <2>4. -Q < c - d /\ c - d < Q /\ c - d # 0 /\ c - d \in Int
    BY <1>1, <1>7
  <2>. HIDE DEF g
  <2>5. (c - d) * e = Q * (j - h * i - (c - d) * k)
    <3>1. s - t = (c - d) * x + Q * i
      <4>1. (c - d) * x = c * x - d * x
        BY <1>1, <1>2
      <4>. QED
        BY <1>2, <1>3, <1>5, <4>1
    <3>2. (s - t) * h = (c - d) * gamma + Q * j
      <4>1. (s - t) * h = s * h - t * h /\ (c - d) * gamma = c * gamma - d * gamma
        BY <1>1, <1>2
      <4>. QED
        BY <1>2, <1>4, <1>5, <4>1
    <3>3. (s - t) * h = (c - d) * (h * x) + Q * (h * i)
      BY <1>1, <1>2, <3>1
    <3>4. (c - d) * (h * x) = Q * ((c - d) * k) + (c - d) * g
      <4>1. h * x = Q * k + g
        BY <2>1 DEF g
      <4>2. (c - d) * (Q * k + g) = (c - d) * (Q * k) + (c - d) * g
        BY <1>1, <1>2, <2>3
      <4>3. (c - d) * (Q * k) = Q * ((c - d) * k)
        BY <1>1, <1>2
      <4>. QED
        BY <4>1, <4>2, <4>3
    <3>5. (c - d) * e = (c - d) * g - (c - d) * gamma
      BY <1>1, <1>2, <2>3
    <3>. DEFINE u == h * i
                w == (c - d) * k
    <3>6. u \in Int /\ w \in Int
      BY <1>1, <1>2
    <3>7. /\ (c - d) * g \in Int /\ (c - d) * gamma \in Int
          /\ (c - d) * (h * x) \in Int
      BY <1>1, <1>2, <2>3
    <3>. HIDE DEF u, w
    <3>8. Q * (j - u - w) = Q * j - Q * u - Q * w /\ Q * u \in Int /\ Q * w \in Int
      BY <1>1, <3>6
    <3>9. (c - d) * e = Q * (j - u - w)
      BY <1>5, <3>2, <3>3, <3>4, <3>5, <3>7, <3>8 DEF u, w
    <3>. QED
      BY <3>9 DEF u, w
  <2>6. j - h * i - (c - d) * k \in Int
    BY <1>1, <1>2
  <2>7. e = 0
    <3>. HIDE DEF e
    <3>. QED
      BY <2>3, <2>4, <2>5, <2>6, NoDivisors
  <2>. QED
    BY <1>1, <1>7, <2>3, <2>7 DEF g
<1>. QED
  BY <1>6, <1>7

\* For every key, point and proof: completeness, soundness and one form.
LEMMA ProofsSoundAlways ==
  ASSUME NEW x \in Points, NEW h \in Points,
         NEW proof \in [gamma : {NoPoint} \cup Points, c : 0..CLimit, s : 0..(2 * Q - 1)]
  PROVE  ProofsSoundOn(x, h, proof)
<1>1. Q \in Nat /\ CLimit \in 1..Q
  BY EcvrfAssumption
<1>2. \A nonce \in Points : Verify(x, h, Prove(x, h, nonce))
  BY ProveComplete
<1>3. ASSUME WellFormed(proof), NEW c \in 0..(CLimit - 1), NEW s \in 0..(2 * Q - 1),
             WellFormed(Proof(proof.gamma, c, s)),
             Committed(x, h, Proof(proof.gamma, c, s)) = Committed(x, h, proof)
      PROVE  Proof(proof.gamma, c, s) = proof \/ (c # proof.c /\ proof.gamma = Mod(h * x))
  <2>1. /\ proof.gamma \in Points /\ proof.c \in 0..(CLimit - 1) /\ proof.s \in 0..(Q - 1)
        /\ s \in 0..(Q - 1)
    BY <1>1, <1>3 DEF WellFormed, Proof
  <2>2. /\ Mod(s - c * x) = Mod(proof.s - proof.c * x)
        /\ Mod(s * h - c * proof.gamma) = Mod(proof.s * h - proof.c * proof.gamma)
    BY <1>3 DEF Committed, Proof
  <2>3. (c = proof.c /\ s = proof.s) \/ (c # proof.c /\ proof.gamma = Mod(h * x))
    BY <2>1, <2>2, CommittedOnce
  <2>4. proof = Proof(proof.gamma, proof.c, proof.s)
    BY DEF Proof
  <2>. QED
    BY <2>3, <2>4
<1>. QED
  BY <1>2, <1>3 DEF ProofsSoundOn

-----------------------------------------------------------------------------
(* The verdict on a delivery of randomness.                                *)


LEMMA MinMaxOfOne ==
  ASSUME NEW k \in Int
  PROVE  Min({k}) = k /\ Max({k}) = k
BY DEF Min, Max

LEMMA DeliveryParts ==
  ASSUME NEW d \in Deliveries
  PROVE  /\ d.fulfiller = First /\ First \in Points /\ First \in Int
         /\ d.prover \in Points /\ d.signer \in Points
         /\ d.proof \in {"made", "negated", "sentinel", "no point"}
         /\ d.signature \in {"this", "stale", "rejected"}
         /\ d.word \in {"derived", "other"} /\ d.echo \in {"right", "other", "none"}
         /\ d.recorded \in {"unknown", "router's", "other"}
         /\ d.hashKnown \in BOOLEAN /\ d.listed \in BOOLEAN
         /\ d.fault \in {"none", "address", "receipt", "logs", "router"}
         /\ RequestIdOf(d) # None
<1>1. d \in AnyDelivery
  BY DEF Deliveries
<1>2. d.fulfiller = First /\ First \in Points /\ d.prover \in Points /\ d.signer \in Points
  BY <1>1, DeliveryAssumption DEF AnyDelivery
<1>3. First \in Int
  BY <1>2, EcvrfAssumption DEF Points
<1>4. RequestIdOf(d) # None
  BY <1>2, DeliveryAssumption DEF RequestIdOf, RequestOf
<1>. QED
  BY <1>1, <1>2, <1>3, <1>4 DEF AnyDelivery

\* The log that the transaction left, where it is looked for and found.
LEMMA LogFound ==
  ASSUME NEW d \in Deliveries
  PROVE  LET id == RequestIdOf(d)
             chain == ChainOf(d)
         IN  /\ FindFulfillmentLog(chain[1], Router, id) = 0
             /\ FindFulfillmentLog(chain[2], Router, id) = IF d.fault = "router" THEN 0 ELSE 1
             /\ FindFulfillmentTransaction(chain, Router, id)
                  = IF d.fault = "router" THEN None ELSE 2
             /\ SelectInSeq(chain, LAMBDA t : t.hash = 2) = 2
<1>. DEFINE id == RequestIdOf(d)
            chain == ChainOf(d)
            address == IF d.fault = "router" THEN OtherRouter ELSE Router
            log == Log(address, id, WordOf(d), ProofOf(d), SignatureOf(d))
            old == [hash |-> 1, logs |-> << >>, echoes |-> << >>]
            new == [hash |-> 2, echoes |-> EchoesOf(d), logs |-> <<log>>]
<1>1. chain = <<old, new>> /\ Len(chain) = 2 /\ chain[1] = old /\ chain[2] = new
  BY DEF ChainOf
<1>2. log.address = address /\ log.requestId = id
  BY DEF Log
<1>. HIDE DEF chain, log, id
<1>3. FindFulfillmentLog(old, Router, id) = 0
  BY DEF FindFulfillmentLog, SelectInSeq
<1>4. FindFulfillmentLog(new, Router, id) = IF d.fault = "router" THEN 0 ELSE 1
  <2>1. Len(new.logs) = 1 /\ new.logs[1] = log
    OBVIOUS
  <2>. DEFINE hits == {i \in 1..Len(new.logs) : /\ new.logs[i].address = Router
                                                /\ new.logs[i].requestId = id}
  <2>2. FindFulfillmentLog(new, Router, id) = IF hits # {} THEN Min(hits) ELSE 0
    BY DEF FindFulfillmentLog, SelectInSeq
  <2>3. CASE d.fault = "router"
    <3>1. hits = {}
      BY <1>2, <2>1, <2>3, DeliveryAssumption
    <3>. QED
      BY <2>2, <2>3, <3>1
  <2>4. CASE d.fault # "router"
    <3>1. hits = {1}
      BY <1>2, <2>1, <2>4
    <3>. HIDE DEF hits
    <3>. QED
      BY <2>2, <2>4, <3>1, MinMaxOfOne
  <2>. QED
    BY <2>3, <2>4
<1>. HIDE DEF old, new
<1>5. FindFulfillmentTransaction(chain, Router, id) = IF d.fault = "router" THEN None ELSE 2
  <2>. DEFINE hits == {i \in 1..Len(chain) : FindFulfillmentLog(chain[i], Router, id) # 0}
              last == IF hits # {} THEN Max(hits) ELSE 0
  <2>1. FindFulfillmentTransaction(chain, Router, id) = IF last = 0 THEN None ELSE chain[last].hash
    BY DEF FindFulfillmentTransaction, SelectLastInSeq
  <2>2. CASE d.fault = "router"
    <3>1. hits = {}
      BY <1>1, <1>3, <1>4, <2>2
    <3>. QED
      BY <2>1, <2>2, <3>1
  <2>3. CASE d.fault # "router"
    <3>1. hits = {2}
      BY <1>1, <1>3, <1>4, <2>3
    <3>2. last = 2
      <4>. HIDE DEF hits
      <4>. QED
        BY <3>1, MinMaxOfOne
    <3>3. chain[2].hash = 2
      BY <1>1 DEF new
    <3>. HIDE DEF last
    <3>. QED
      BY <2>1, <2>3, <3>2, <3>3
  <2>. QED
    BY <2>2, <2>3
<1>6. SelectInSeq(chain, LAMBDA t : t.hash = 2) = 2
  <2>. DEFINE hits == {i \in 1..Len(chain) : chain[i].hash = 2}
  <2>1. hits = {2}
    BY <1>1 DEF old, new
  <2>2. SelectInSeq(chain, LAMBDA t : t.hash = 2) = IF hits # {} THEN Min(hits) ELSE 0
    BY DEF SelectInSeq
  <2>. HIDE DEF hits
  <2>. QED
    BY <2>1, <2>2, MinMaxOfOne
<1>. QED
  BY <1>1, <1>3, <1>4, <1>5, <1>6 DEF id, chain

\* The request that the calldata echoes is taken only when it is the right one.
LEMMA EchoFound ==
  ASSUME NEW d \in Deliveries
  PROVE  LET t == ChainOf(d)[2]
             echo == FindEchoedRequest(t, Router, RequestIdOf(d))
         IN  /\ echo = IF d.echo = "right" THEN 2 ELSE 0
             /\ d.echo = "right" => t.echoes[echo].fulfiller = First
<1>. DEFINE id == RequestIdOf(d)
            t == ChainOf(d)[2]
            hits == {i \in 1..Len(t.echoes) : ComputeRequestId(Router, t.echoes[i]) = id}
<1>1. t.echoes = EchoesOf(d)
  BY DEF ChainOf
<1>2. RequestOf(d).sequence \in {1, 3} /\ RequestOf(d).fulfiller = First
  BY DeliveryParts DEF RequestOf, Assigned, Unprovable
<1>3. \A n : ComputeRequestId(Router, Assigned(2, n)) # id
  <2>1. \A n : ComputeRequestId(Router, Assigned(2, n)).hashed.sequence = 2
    BY DEF ComputeRequestId, Assigned
  <2>2. id.hashed.sequence \in {1, 3}
    BY <1>2 DEF ComputeRequestId, RequestIdOf
  <2>. QED
    BY <2>1, <2>2
<1>4. ComputeRequestId(Router, RequestOf(d)) = id
  BY DEF RequestIdOf
<1>5. FindEchoedRequest(t, Router, id) = IF hits # {} THEN Min(hits) ELSE 0
  BY DEF FindEchoedRequest, SelectInSeq
<1>. HIDE DEF t, id
<1>6. CASE d.echo = "right"
  <2>1. t.echoes = <<Assigned(2, d.fulfiller), RequestOf(d)>>
    BY <1>1, <1>6 DEF EchoesOf
  <2>2. hits = {2}
    BY <1>3, <1>4, <2>1
  <2>3. FindEchoedRequest(t, Router, id) = 2
    <3>. HIDE DEF hits
    <3>. QED
      BY <1>5, <2>2, MinMaxOfOne
  <2>. QED
    BY <1>2, <1>6, <2>1, <2>3 DEF t, id
<1>7. CASE d.echo # "right"
  <2>1. t.echoes = <<Assigned(2, d.signer)>> \/ t.echoes = << >>
    BY <1>1, <1>7, DeliveryParts DEF EchoesOf
  <2>2. hits = {}
    BY <1>3, <2>1
  <2>. QED
    BY <1>5, <1>7, <2>2 DEF t, id
<1>. QED
  BY <1>6, <1>7

\* What verifyRequest answers for the delivery: nothing when the log cannot be
\* read, else the checks of the one log with the node that the calldata names.
FulfillerOf(d) == IF d.echo = "right" THEN First ELSE None
ReadableLog(d) == d.fault = "none" \/ (d.fault = "logs" /\ d.hashKnown)
LogOf(d) == Log(Router, RequestIdOf(d), WordOf(d), ProofOf(d), SignatureOf(d))
ChecksOf(d) == Checks(Router, Recorded(d), LogOf(d), FulfillerOf(d))

LEMMA RequestVerified ==
  ASSUME NEW d \in Deliveries, d.fault # "address"
  PROVE  VerifyRequest(ChainOf(d), Router, Recorded(d), Reads(d))
           = IF ReadableLog(d)
             THEN [randomness |-> IF RecordedOf(d) # None THEN RecordedOf(d) ELSE WordOf(d),
                   router |-> WordOf(d), checked |-> TRUE,
                   valid |-> \A k \in DOMAIN ChecksOf(d) : ChecksOf(d)[k]]
             ELSE Unverified(Recorded(d))
<1>. DEFINE chain == ChainOf(d)
            request == Recorded(d)
            reads == Reads(d)
            id == request.requestId
            hash == IF request.transactionHash # None THEN request.transactionHash
                    ELSE FindFulfillmentTransaction(chain, Router, id)
            found == SelectInSeq(chain, LAMBDA t : t.hash = hash)
            at == FindFulfillmentLog(chain[found], Router, id)
            log == chain[found].logs[at]
            echo == FindEchoedRequest(chain[found], Router, id)
            fulfiller == IF echo = 0 THEN None ELSE chain[found].echoes[echo].fulfiller
            checks == Checks(Router, request, log, fulfiller)
            unread == \/ request.transactionHash = None /\ "logs" \notin reads
                      \/ {"receipt", "transaction"} \ reads # {}
                      \/ hash = None \/ found = 0 \/ at = 0
            told == [randomness |-> IF request.randomness # None THEN request.randomness
                                    ELSE log.randomness,
                     router |-> log.randomness, checked |-> TRUE,
                     valid |-> \A k \in DOMAIN checks : checks[k]]
<1>1. VerifyRequest(chain, Router, request, reads) = IF unread THEN Unverified(request) ELSE told
  BY DEF VerifyRequest
<1>2. /\ id = RequestIdOf(d) /\ request.randomness = RecordedOf(d)
      /\ request.transactionHash = IF d.hashKnown THEN 2 ELSE None
  BY DEF Recorded
<1>3. 2 # None
  BY DeliveryAssumption
<1>4. "logs" \in reads <=> d.fault # "logs"
  BY DEF Reads
<1>5. {"receipt", "transaction"} \ reads = {} <=> d.fault # "receipt"
  BY DeliveryParts DEF Reads
<1>6. /\ d.fault \in {"none", "address", "receipt", "logs", "router"} /\ d.hashKnown \in BOOLEAN
  BY DeliveryParts
<1>. HIDE DEF request, reads
<1>7. CASE ~ReadableLog(d)
  <2>1. ASSUME d.fault = "receipt" PROVE unread
    BY <1>5, <2>1
  <2>2. ASSUME d.fault = "logs", ~d.hashKnown PROVE unread
    BY <1>2, <1>4, <2>2
  <2>3. ASSUME d.fault = "router", ~d.hashKnown PROVE unread
    <3>1. FindFulfillmentTransaction(chain, Router, id) = None
      BY <1>2, <2>3, LogFound
    <3>2. hash = None
      BY <1>2, <2>3, <3>1
    <3>. QED
      BY <3>2
  <2>4. ASSUME d.fault = "router", d.hashKnown PROVE unread
    <3>1. hash = 2
      BY <1>2, <1>3, <2>4
    <3>. HIDE DEF hash
    <3>2. found = 2
      BY <3>1, LogFound
    <3>. HIDE DEF found
    <3>3. at = 0
      BY <1>2, <2>4, <3>2, LogFound
    <3>. QED
      BY <3>3
  <2>5. unread
    BY <1>6, <1>7, <2>1, <2>2, <2>3, <2>4 DEF ReadableLog
  <2>. HIDE DEF unread, told
  <2>. QED
    BY <1>1, <1>7, <2>5 DEF request, reads
<1>8. CASE ReadableLog(d)
  <2>1. d.fault # "router" /\ d.fault # "receipt" /\ (d.fault = "logs" => d.hashKnown)
    BY <1>8 DEF ReadableLog
  <2>2. hash = 2
    <3>1. FindFulfillmentTransaction(chain, Router, id) = 2
      BY <1>2, <2>1, LogFound
    <3>. QED
      BY <1>2, <3>1
  <2>. HIDE DEF hash
  <2>3. found = 2
    BY <2>2, LogFound
  <2>. HIDE DEF found
  <2>4. at = 1
    BY <1>2, <2>1, <2>3, LogFound
  <2>. HIDE DEF at
  <2>5. log = LogOf(d)
    <3>1. chain[2].logs[1] = LogOf(d)
      BY <2>1 DEF ChainOf, LogOf
    <3>. QED
      BY <2>3, <2>4, <3>1
  <2>6. fulfiller = FulfillerOf(d)
    <3>1. echo = IF d.echo = "right" THEN 2 ELSE 0
      BY <1>2, <2>3, EchoFound
    <3>2. d.echo = "right" => chain[found].echoes[echo].fulfiller = First
      BY <1>2, <2>3, EchoFound
    <3>. HIDE DEF echo
    <3>. QED
      BY <3>1, <3>2 DEF FulfillerOf
  <2>7. ~unread
    <3>1. request.transactionHash = None => "logs" \in reads
      BY <1>2, <1>3, <1>4, <2>1
    <3>2. {"receipt", "transaction"} \ reads = {}
      BY <1>5, <2>1
    <3>3. hash # None
      BY <1>3, <2>2
    <3>. QED
      BY <2>3, <2>4, <3>1, <3>2, <3>3
  <2>. HIDE DEF log, fulfiller, unread
  <2>8. checks = ChecksOf(d)
    BY <2>5, <2>6 DEF ChecksOf, request
  <2>9. log.randomness = WordOf(d)
    BY <2>5 DEF LogOf, Log
  <2>. HIDE DEF checks
  <2>10. told = [randomness |-> IF RecordedOf(d) # None THEN RecordedOf(d) ELSE WordOf(d),
                 router |-> WordOf(d), checked |-> TRUE,
                 valid |-> \A k \in DOMAIN ChecksOf(d) : ChecksOf(d)[k]]
    BY <1>2, <2>8, <2>9
  <2>. HIDE DEF told
  <2>. QED
    BY <1>1, <1>8, <2>7, <2>10 DEF request, reads
<1>. QED
  BY <1>7, <1>8

\* The one verdict of the session.
LEMMA SessionVerdict ==
  ASSUME NEW d \in Deliveries, d.fault # "address"
  PROVE  LET verdicts == GetRandomnessVerification({RowOf(d)}, ChainOf(d), Router, Reads(d))
             verdict == (CHOOSE v \in verdicts : TRUE).requests[1]
         IN  /\ d.listed =>
                  verdict = VerifyRequest(ChainOf(d), Router, Recorded(d), Reads(d))
             /\ ~d.listed => ~verdict.checked /\ ~verdict.valid
<1>. DEFINE chain == ChainOf(d)
            row == RowOf(d)
            requests == SessionRandomnessRequests(row)
            session == VerifySession(chain, Router, requests, Reads(d))
            verdicts == GetRandomnessVerification({row}, chain, Router, Reads(d))
            verdict == (CHOOSE v \in verdicts : TRUE).requests[1]
<1>1. verdict = session.requests[1]
  <2>1. verdicts = {session}
    BY DEF GetRandomnessVerification, Reads
  <2>. HIDE DEF verdicts, session
  <2>2. (CHOOSE v \in verdicts : TRUE) = session
    BY <2>1
  <2>. QED
    BY <2>2
<1>2. session.requests = [i \in DOMAIN requests |->
                            IF requests[i].fulfilled
                            THEN VerifyRequest(chain, Router, requests[i], Reads(d))
                            ELSE Unverified(requests[i])]
  <2>. HIDE DEF requests, chain
  <2>. QED
    BY DeliveryAssumption DEF VerifySession
<1>3. CASE d.listed
  <2>1. row.requests = <<Recorded(d)>>
    BY <1>3 DEF RowOf
  <2>2. requests = <<Recorded(d)>>
    <3>. HIDE DEF row
    <3>. QED
      BY <2>1 DEF SessionRandomnessRequests
  <2>3. Recorded(d).fulfilled
    BY DEF Recorded
  <2>. HIDE DEF requests, session, verdict
  <2>4. session.requests[1] = VerifyRequest(chain, Router, Recorded(d), Reads(d))
    BY <1>2, <2>2, <2>3
  <2>. QED
    BY <1>1, <1>3, <2>4 DEF verdict
<1>4. CASE ~d.listed
  <2>1. row.requests = << >> /\ row.requestId = RequestIdOf(d) /\ row.fulfilled = d.listed
    BY <1>4 DEF RowOf
  <2>2. row.requestId # None
    BY <2>1, DeliveryParts
  <2>. DEFINE unknown == [requestId |-> row.requestId, fulfilled |-> row.fulfilled,
                          randomness |-> None, transactionHash |-> None]
  <2>3. requests = <<unknown>>
    <3>. HIDE DEF row
    <3>. QED
      BY <2>1, <2>2 DEF SessionRandomnessRequests
  <2>4. ~unknown.fulfilled
    BY <1>4, <2>1
  <2>. HIDE DEF requests, session, verdict, unknown
  <2>5. session.requests[1] = Unverified(unknown)
    BY <1>2, <2>3, <2>4
  <2>6. ~Unverified(unknown).checked /\ ~Unverified(unknown).valid
    BY DEF Unverified
  <2>. QED
    BY <1>1, <1>4, <2>5, <2>6 DEF verdict
<1>. QED
  BY <1>3, <1>4

SignerOf(d) == RecoverFulfillmentSigner(Router, RequestIdOf(d), ProofOf(d), SignatureOf(d))

LEMMA ChecksMean ==
  ASSUME NEW d \in Deliveries
  PROVE  (\A k \in DOMAIN ChecksOf(d) : ChecksOf(d)[k])
           <=> /\ SignerOf(d) # None /\ SignerOf(d) = FulfillerOf(d)
               /\ Verify(SignerOf(d), HashToCurve(SignerOf(d), RequestIdOf(d)), ProofOf(d))
               /\ DeriveRandomness(ProofOf(d)) = WordOf(d)
               /\ RecordedOf(d) \in {None, WordOf(d)}
<1>. DEFINE id == RequestIdOf(d)
            signer == SignerOf(d)
            proven == signer # None /\ Verify(signer, HashToCurve(signer, id), ProofOf(d))
            matches == /\ proven /\ DeriveRandomness(ProofOf(d)) = WordOf(d)
                       /\ RecordedOf(d) \in {None, WordOf(d)}
            assigned == signer # None /\ signer = FulfillerOf(d)
<1>1. ChecksOf(d) = [vrfProofValid |-> proven, vrfBetaMatchesRandomness |-> matches,
                     enclaveSignatureValid |-> signer # None,
                     signerMatchesFulfiller |-> assigned]
  <2>1. Recorded(d).requestId = id /\ Recorded(d).randomness = RecordedOf(d)
    BY DEF Recorded
  <2>2. /\ LogOf(d).proof = ProofOf(d) /\ LogOf(d).randomness = WordOf(d)
        /\ LogOf(d).enclaveSignature = SignatureOf(d)
    BY DEF LogOf, Log
  <2>. HIDE DEF id
  <2>. QED
    BY <2>1, <2>2 DEF ChecksOf, Checks, SignerOf, id
<1>. HIDE DEF matches, proven, assigned, signer, id
<1>2. (\A k \in DOMAIN ChecksOf(d) : ChecksOf(d)[k])
        <=> proven /\ matches /\ signer # None /\ assigned
  <2>1. DOMAIN ChecksOf(d) = {"vrfProofValid", "vrfBetaMatchesRandomness",
                              "enclaveSignatureValid", "signerMatchesFulfiller"}
    BY <1>1
  <2>2. /\ ChecksOf(d).vrfProofValid = proven
        /\ ChecksOf(d).vrfBetaMatchesRandomness = matches
        /\ ChecksOf(d).enclaveSignatureValid = (signer # None)
        /\ ChecksOf(d).signerMatchesFulfiller = assigned
    BY <1>1
  <2>. QED
    BY <2>1, <2>2
<1>. QED
  BY <1>2 DEF matches, proven, assigned, signer, id

\* A signature that recovers to the assigned node is its signature of this proof.
LEMMA SignatureTrue ==
  ASSUME NEW d \in Deliveries, SignerOf(d) = First
  PROVE  SignatureOf(d) = Signed(First, TypedData(Router, RequestIdOf(d), ProofOf(d)))
<1>. DEFINE data == TypedData(Router, RequestIdOf(d), ProofOf(d))
            signature == SignatureOf(d)
<1>1. Q \in Nat /\ First \in 1..(Q - 1) /\ d.signer \in 1..(Q - 1)
  BY EcvrfAssumption, DeliveryParts DEF Points
<1>2. First # None
  BY <1>1, DeliveryAssumption
<1>3. signature # Rejected
  BY <1>2 DEF SignerOf, RecoverFulfillmentSigner
<1>4. \E over : signature = Signed(d.signer, over)
  BY <1>3, DeliveryParts DEF SignatureOf
<1>5. PICK over : signature = Signed(d.signer, over)
  BY <1>4
<1>6. signature.by = d.signer /\ signature.over = over
  BY <1>5 DEF Signed
<1>. HIDE DEF signature, data
<1>7. SignerOf(d) = IF over = data THEN d.signer ELSE Mod(d.signer + 1) + Q
  BY <1>3, <1>6 DEF SignerOf, RecoverFulfillmentSigner, signature, data
<1>8. Mod(d.signer + 1) + Q >= Q
  <2>1. d.signer + 1 \in Int
    BY <1>1
  <2>2. Mod(d.signer + 1) \in 0..(Q - 1)
    BY <2>1, ModQuotient
  <2>. QED
    BY <1>1, <2>2
<1>9. over = data /\ d.signer = First
  BY <1>1, <1>7, <1>8
<1>. QED
  BY <1>5, <1>9 DEF signature, data

\* What an honest node delivers passes every check.
LEMMA HonestPasses ==
  ASSUME NEW d \in Deliveries, d.prover = d.fulfiller, d.signer = d.fulfiller,
         d.proof = "made", d.signature = "this", d.word = "derived", d.echo = "right",
         d.recorded # "other"
  PROVE  \A k \in DOMAIN ChecksOf(d) : ChecksOf(d)[k]
<1>1. /\ d.fulfiller = First /\ First \in Points /\ First \in Int
      /\ d.recorded \in {"unknown", "router's", "other"}
  BY DeliveryParts
<1>2. First # None
  BY <1>1, DeliveryAssumption
<1>3. SignerOf(d) = First
  <2>. DEFINE data == TypedData(Router, RequestIdOf(d), ProofOf(d))
  <2>1. SignatureOf(d) = Signed(First, data)
    BY <1>1 DEF SignatureOf
  <2>. HIDE DEF data
  <2>2. SignatureOf(d).by = First /\ SignatureOf(d).over = data /\ SignatureOf(d) # Rejected
    BY <1>2, <2>1 DEF Signed, Rejected
  <2>. QED
    BY <2>2 DEF SignerOf, RecoverFulfillmentSigner, data
<1>. DEFINE h == HashToCurve(First, RequestIdOf(d))
<1>4. h \in Points
  <2>1. RequestIdOf(d).hashed.sequence = 1
    BY DEF RequestIdOf, RequestOf, ComputeRequestId, Assigned
  <2>2. h = 1 + ((1 + First) % (Q - 1))
    BY <2>1 DEF HashToCurve, Unprovable
  <2>3. Q - 1 \in Nat /\ Q - 1 > 0 /\ 1 + First \in Int
    BY <1>1, EcvrfAssumption, DeliveryAssumption
  <2>4. (1 + First) % (Q - 1) \in 0..(Q - 2)
    BY <2>3, EcvrfAssumption
  <2>. HIDE DEF h
  <2>. QED
    BY <2>2, <2>3, <2>4 DEF Points
<1>. HIDE DEF h
<1>5. Verify(First, h, ProofOf(d))
  <2>1. ProofOf(d) = Prove(First, h, 2)
    BY <1>1 DEF ProofOf, h
  <2>2. 2 \in Points
    BY EcvrfAssumption, DeliveryAssumption DEF Points
  <2>. QED
    BY <1>1, <1>4, <2>1, <2>2, ProveComplete
<1>6. DeriveRandomness(ProofOf(d)) = WordOf(d)
  BY DEF WordOf
<1>7. RecordedOf(d) \in {None, WordOf(d)}
  BY <1>1 DEF RecordedOf
<1>8. FulfillerOf(d) = First
  BY DEF FulfillerOf
<1>. QED
  BY <1>2, <1>3, <1>5, <1>6, <1>7, <1>8, ChecksMean DEF h

LEMMA VerdictTrueAlways ==
  ASSUME NEW d \in Deliveries
  PROVE  VerdictTrueOn(d)
<1>. DEFINE verdicts(rows) == GetRandomnessVerification(rows, ChainOf(d), Router, Reads(d))
            verdict == (CHOOSE v \in verdicts({RowOf(d)}) : TRUE).requests[1]
            readable == d.listed /\ d.fault \in ({"none"} \cup (IF d.hashKnown THEN {"logs"} ELSE {}))
            honest == /\ d.prover = d.fulfiller /\ d.signer = d.fulfiller
                      /\ d.proof = "made" /\ d.signature = "this"
                      /\ d.word = "derived" /\ d.echo = "right" /\ d.recorded # "other"
            valid == \A k \in DOMAIN ChecksOf(d) : ChecksOf(d)[k]
<1>1. verdicts({}) = {}
  BY DEF GetRandomnessVerification
<1>1a. verdicts({RowOf(d)}) = {} <=> d.fault = "address"
  BY DEF GetRandomnessVerification, Reads
<1>1b. CASE d.fault = "address"
  BY <1>1, <1>1a, <1>1b DEF VerdictTrueOn
<1>1c. SUFFICES ASSUME d.fault # "address" PROVE VerdictTrueOn(d)
  BY <1>1b
<1>2. /\ d.listed => verdict = VerifyRequest(ChainOf(d), Router, Recorded(d), Reads(d))
      /\ ~d.listed => ~verdict.checked /\ ~verdict.valid
  BY <1>1c, SessionVerdict
<1>. HIDE DEF verdict
<1>3. readable <=> d.listed /\ ReadableLog(d)
  BY DEF ReadableLog
<1>4. readable =>
        /\ verdict.checked /\ verdict.valid = valid /\ verdict.router = WordOf(d)
        /\ verdict.randomness = IF RecordedOf(d) # None THEN RecordedOf(d) ELSE WordOf(d)
  <2>. SUFFICES ASSUME readable PROVE
        /\ verdict.checked /\ verdict.valid = valid /\ verdict.router = WordOf(d)
        /\ verdict.randomness = IF RecordedOf(d) # None THEN RecordedOf(d) ELSE WordOf(d)
    OBVIOUS
  <2>1. verdict = [randomness |-> IF RecordedOf(d) # None THEN RecordedOf(d) ELSE WordOf(d),
                   router |-> WordOf(d), checked |-> TRUE, valid |-> valid]
    BY <1>1c, <1>2, <1>3, RequestVerified
  <2>. HIDE DEF valid
  <2>. QED
    BY <2>1
<1>5. ~readable => ~verdict.checked /\ ~verdict.valid
  BY <1>1c, <1>2, <1>3, RequestVerified DEF Unverified
<1>6. honest => valid
  BY HonestPasses
<1>7. ASSUME readable, valid
      PROVE  /\ verdict.randomness = verdict.router /\ verdict.router = WordOf(d)
             /\ SignatureOf(d) = Signed(d.fulfiller, TypedData(Router, RequestIdOf(d), ProofOf(d)))
             /\ Verify(d.fulfiller, HashToCurve(d.fulfiller, RequestIdOf(d)), ProofOf(d))
             /\ WordOf(d) = DeriveRandomness(ProofOf(d))
  <2>1. /\ SignerOf(d) # None /\ SignerOf(d) = FulfillerOf(d)
        /\ Verify(SignerOf(d), HashToCurve(SignerOf(d), RequestIdOf(d)), ProofOf(d))
        /\ DeriveRandomness(ProofOf(d)) = WordOf(d)
        /\ RecordedOf(d) \in {None, WordOf(d)}
    BY <1>7, ChecksMean
  <2>2. SignerOf(d) = First /\ d.fulfiller = First
    BY <2>1, DeliveryParts DEF FulfillerOf
  <2>3. SignatureOf(d) = Signed(First, TypedData(Router, RequestIdOf(d), ProofOf(d)))
    BY <2>2, SignatureTrue
  <2>4. verdict.randomness = WordOf(d) /\ verdict.router = WordOf(d)
    BY <1>4, <1>7, <2>1
  <2>. QED
    BY <2>1, <2>2, <2>3, <2>4
<1>. HIDE DEF valid
<1>. QED
  BY <1>1, <1>1a, <1>1c, <1>4, <1>5, <1>6, <1>7 DEF VerdictTrueOn, verdict

-----------------------------------------------------------------------------
(* The codecs.  Induction is over sets of numbers; a fold over a sequence   *)
(* is followed prefix by prefix.                                            *)

\* Induction, with the claim as a set of numbers.
LEMMA Induction ==
  ASSUME NEW n \in Nat, NEW T, 0 \in T, \A k \in 0..(n - 1) : k \in T => k + 1 \in T
  PROVE  \A k \in 0..n : k \in T
<1>. DEFINE R == OpToRel(<, Nat)
            U == {k \in 0..n : k \notin T}
<1>1. U \subseteq Nat
  OBVIOUS
<1>2. ASSUME U # {} PROVE FALSE
  <2>1. PICK x \in U : \A y \in U : ~(<<y, x>> \in R)
    BY <1>1, <1>2, NatLessThanWellFounded, WFMin
  <2>2. x \in 0..n /\ x \notin T
    OBVIOUS
  <2>2a. x # 0
    BY <2>2
  <2>2b. x \in 1..n /\ x - 1 \in 0..(n - 1) /\ (x - 1) + 1 = x
    BY <2>2, <2>2a
  <2>3. x - 1 \in U
    <3>1. x - 1 \notin T
      BY <2>2, <2>2b
    <3>. QED
      BY <2>2b, <3>1
  <2>4. <<x - 1, x>> \in R
    BY <2>2b DEF OpToRel
  <2>. QED
    BY <2>1, <2>3, <2>4
<1>. QED
  BY <1>2

\* Folding by the greatest element first: there is a function that does.
Folds(g, n, base, step) ==
  \A s \in SUBSET (1..n) :
    g[s] = IF s = {} THEN base ELSE step[<<Max(s), g[s \ {Max(s)}]>>]

LEMMA MaxIs ==
  ASSUME NEW n \in Nat, NEW s \in SUBSET (1..(n + 1)), n + 1 \in s
  PROVE  Max(s) = n + 1
<1>1. n + 1 \in s /\ \A y \in s : n + 1 >= y
  OBVIOUS
<1>2. \A x \in s : (\A y \in s : x >= y) => x = n + 1
  OBVIOUS
<1>. QED
  BY <1>1, <1>2 DEF Max

\* A set of numbers up to n has a greatest.
LEMMA MaxIn ==
  ASSUME NEW n \in Nat, NEW s \in SUBSET (1..n), s # {}
  PROVE  Max(s) \in s
<1>. DEFINE T == {k \in 0..n : \A u \in SUBSET (1..k) : u # {} => \E x \in u : \A y \in u : x >= y}
<1>1. 0 \in T
  <2>1. ASSUME NEW u \in SUBSET (1..0), u # {} PROVE FALSE
    <3>1. PICK x \in u : TRUE
      BY <2>1
    <3>. QED
      BY <3>1
  <2>. QED
    BY <2>1
<1>2. ASSUME NEW k \in 0..(n - 1), k \in T PROVE k + 1 \in T
  <2>1. ASSUME NEW u \in SUBSET (1..(k + 1)), u # {}
        PROVE  \E x \in u : \A y \in u : x >= y
    <3>1. CASE k + 1 \in u
      BY <3>1
    <3>2. CASE k + 1 \notin u
      <4>1. u \in SUBSET (1..k)
        BY <3>2
      <4>. QED
        BY <1>2, <2>1, <4>1
    <3>. QED
      BY <3>1, <3>2
  <2>. QED
    BY <2>1
<1>3. \A k \in 0..n : k \in T
  <2>. HIDE DEF T
  <2>. QED
    BY <1>1, <1>2, Induction
<1>. HIDE DEF T
<1>4. n \in T
  BY <1>3
<1>. QED
  BY <1>4 DEF T, Max

LEMMA FoldExists ==
  ASSUME NEW n \in Nat, NEW S, NEW base \in S, NEW step \in [(1..n) \X S -> S]
  PROVE  \E g \in [SUBSET (1..n) -> S] : Folds(g, n, base, step)
<1>. DEFINE T == {k \in 0..n : \E g \in [SUBSET (1..k) -> S] : Folds(g, k, base, step)}
<1>1. 0 \in T
  <2>. DEFINE g == [s \in SUBSET (1..0) |-> base]
  <2>1. g \in [SUBSET (1..0) -> S] /\ \A s \in SUBSET (1..0) : s = {}
    OBVIOUS
  <2>2. Folds(g, 0, base, step)
    BY <2>1 DEF Folds
  <2>. QED
    BY <2>1, <2>2
<1>2. ASSUME NEW k \in 0..(n - 1), k \in T PROVE k + 1 \in T
  <2>1. PICK g \in [SUBSET (1..k) -> S] : Folds(g, k, base, step)
    BY <1>2
  <2>. DEFINE h == [s \in SUBSET (1..(k + 1)) |->
                      IF k + 1 \in s THEN step[<<k + 1, g[s \ {k + 1}]>>] ELSE g[s]]
  <2>2. \A s \in SUBSET (1..(k + 1)) :
          /\ s \ {k + 1} \in SUBSET (1..k)
          /\ k + 1 \notin s => s \in SUBSET (1..k)
    OBVIOUS
  <2>3. k + 1 \in 1..n
    OBVIOUS
  <2>4. h \in [SUBSET (1..(k + 1)) -> S]
    BY <2>2, <2>3
  <2>5. ASSUME NEW s \in SUBSET (1..(k + 1))
        PROVE  h[s] = IF s = {} THEN base ELSE step[<<Max(s), h[s \ {Max(s)}]>>]
    <3>1. CASE k + 1 \in s
      <4>1. Max(s) = k + 1
        BY <3>1, MaxIs
      <4>2. h[s \ {k + 1}] = g[s \ {k + 1}]
        BY <2>2
      <4>. QED
        BY <3>1, <4>1, <4>2
    <3>2. CASE k + 1 \notin s
      <4>1. s \in SUBSET (1..k) /\ s \ {Max(s)} \in SUBSET (1..(k + 1))
            /\ k + 1 \notin s \ {Max(s)}
        BY <2>2, <3>2
      <4>2. h[s] = g[s] /\ h[s \ {Max(s)}] = g[s \ {Max(s)}]
        BY <3>2, <4>1
      <4>. QED
        BY <2>1, <4>1, <4>2 DEF Folds
    <3>. QED
      BY <3>1, <3>2
  <2>6. Folds(h, k + 1, base, step)
    BY <2>5 DEF Folds
  <2>. HIDE DEF h
  <2>. QED
    BY <2>3, <2>4, <2>6
<1>3. \A k \in 0..n : k \in T
  BY <1>1, <1>2, Induction
<1>. HIDE DEF T
<1>4. n \in T
  BY <1>3
<1>. QED
  BY <1>4 DEF T

\* The prefixes of 1..n, greatest element first.
LEMMA Prefixed ==
  ASSUME NEW n \in Nat, NEW k \in 1..n
  PROVE  /\ 1..k \in SUBSET (1..n) /\ 1..k # {}
         /\ Max(1..k) = k /\ (1..k) \ {k} = 1..(k - 1)
<1>1. k \in 1..k /\ \A y \in 1..k : k >= y
  OBVIOUS
<1>2. \A x \in 1..k : (\A y \in 1..k : x >= y) => x = k
  OBVIOUS
<1>3. Max(1..k) = k
  BY <1>1, <1>2 DEF Max
<1>4. \A y : y \in (1..k) \ {k} <=> y \in 1..(k - 1)
  OBVIOUS
<1>5. 1..k \in SUBSET (1..n)
  OBVIOUS
<1>. QED
  BY <1>1, <1>3, <1>4, <1>5

\* What encodeCasinoSession has written after its first k parts.
ByteStrings == Seq(Nat)

LEMMA WrittenBy ==
  ASSUME NEW n \in Nat, NEW parts, DOMAIN parts = 1..n,
         \A k \in 1..n : parts[k] \in SUBSET ByteStrings
  PROVE  \E g : /\ FoldLeft(Appended, {<< >>}, parts) = g[1..n]
                /\ g[1..0] = {<< >>}
                /\ \A k \in 1..n : g[1..k] = Appended(g[1..(k - 1)], parts[k])
<1>. DEFINE S == SUBSET ByteStrings
            step == [x \in (1..n) \X S |-> Appended(x[2], parts[x[1]])]
            Rec(g) == g = [s \in SUBSET (1..n) |->
                             IF s = {} THEN {<< >>}
                             ELSE LET x == Max(s) IN Appended(g[s \ {x}], parts[x])]
            f == CHOOSE g : Rec(g)
<1>1. ASSUME NEW a \in S, NEW b \in S PROVE Appended(a, b) \in S
  <2>. SUFFICES ASSUME NEW v \in Appended(a, b) PROVE v \in ByteStrings
    OBVIOUS
  <2>1. PICK w \in a, p \in b : v = w \o p
    BY DEF Appended
  <2>. QED
    BY <2>1 DEF ByteStrings
<1>2. step \in [(1..n) \X S -> S]
  BY <1>1
<1>3. {<< >>} \in S
  BY EmptySeq DEF ByteStrings
<1>4. PICK g \in [SUBSET (1..n) -> S] : Folds(g, n, {<< >>}, step)
  <2>. HIDE DEF S, step
  <2>. QED
    BY <1>2, <1>3, FoldExists
<1>5. ASSUME NEW s \in SUBSET (1..n)
      PROVE  g[s] = IF s = {} THEN {<< >>}
                    ELSE LET x == Max(s) IN Appended(g[s \ {x}], parts[x])
  <2>1. CASE s = {}
    <3>. HIDE DEF step, S
    <3>. QED
      BY <1>4, <2>1 DEF Folds
  <2>2. CASE s # {}
    <3>1. Max(s) \in 1..n /\ s \ {Max(s)} \in SUBSET (1..n)
      BY <2>2, MaxIn
    <3>2. g[s \ {Max(s)}] \in S
      BY <3>1
    <3>3. g[s] = step[<<Max(s), g[s \ {Max(s)}]>>]
      BY <1>4, <2>2 DEF Folds
    <3>4. <<Max(s), g[s \ {Max(s)}]>> \in (1..n) \X S
      BY <3>1, <3>2
    <3>5. g[s] = Appended(g[s \ {Max(s)}], parts[Max(s)])
      BY <3>3, <3>4
    <3>. QED
      BY <2>2, <3>5
  <2>. QED
    BY <2>1, <2>2
<1>6. Rec(g)
  BY <1>4, <1>5
<1>7. Rec(f)
  <2>. HIDE DEF Rec
  <2>. QED
    BY <1>6
<1>8. FoldLeft(Appended, {<< >>}, parts) = f[1..n]
  BY DEF FoldLeft, MapThenFoldSet
<1>9. f[1..0] = {<< >>}
  <2>. HIDE DEF f
  <2>. QED
    BY <1>7
<1>10. ASSUME NEW k \in 1..n PROVE f[1..k] = Appended(f[1..(k - 1)], parts[k])
  <2>. HIDE DEF f
  <2>1. f[1..k] = LET x == Max(1..k) IN Appended(f[(1..k) \ {x}], parts[x])
    BY <1>7, Prefixed
  <2>. QED
    BY <2>1, Prefixed
<1>. HIDE DEF f
<1>. QED
  BY <1>8, <1>9, <1>10

\* The byte strings of a sequence one after the other.
LEMMA FlattenedBy ==
  ASSUME NEW n \in Nat \ {0}, NEW strings \in [1..n -> ByteStrings]
  PROVE  \E h \in [1..n -> ByteStrings] :
            /\ FlattenSeq(strings) = h[n]
            /\ h[1] = strings[1]
            /\ \A k \in 2..n : h[k] = h[k - 1] \o strings[k]
<1>. DEFINE Rec(h, k) == h = [i \in 1..k |-> IF i = 1 THEN strings[i] ELSE h[i - 1] \o strings[i]]
            T == {k \in 0..n : \E h \in [1..k -> ByteStrings] : Rec(h, k)}
            f == CHOOSE h : Rec(h, n)
<1>1. 0 \in T
  <2>. DEFINE h == [i \in 1..0 |-> << >>]
  <2>0. \A i \in 1..0 : FALSE
    OBVIOUS
  <2>1. h \in [1..0 -> ByteStrings]
    BY <2>0
  <2>2. Rec(h, 0)
    BY <2>0
  <2>3. 0 \in 0..n
    OBVIOUS
  <2>. HIDE DEF h, Rec
  <2>. QED
    BY <2>1, <2>2, <2>3
<1>2. ASSUME NEW k \in 0..(n - 1), k \in T PROVE k + 1 \in T
  <2>1. PICK g \in [1..k -> ByteStrings] : Rec(g, k)
    BY <1>2
  <2>. DEFINE h == [i \in 1..(k + 1) |->
                      IF i = k + 1
                      THEN IF k = 0 THEN strings[1] ELSE g[k] \o strings[k + 1]
                      ELSE g[i]]
  <2>2. h \in [1..(k + 1) -> ByteStrings]
    <3>1. k + 1 \in 1..n /\ 1 \in 1..n
      OBVIOUS
    <3>2. k # 0 => g[k] \o strings[k + 1] \in ByteStrings
      BY <3>1, ConcatProperties DEF ByteStrings
    <3>. QED
      BY <3>1, <3>2
  <2>3. ASSUME NEW i \in 1..(k + 1)
        PROVE  h[i] = IF i = 1 THEN strings[i] ELSE h[i - 1] \o strings[i]
    <3>1. CASE i = k + 1
      <4>1. k = 0 => h[i] = strings[1] /\ i = 1
        BY <3>1
      <4>2. ASSUME k # 0
            PROVE  h[i] = g[k] \o strings[k + 1] /\ i # 1 /\ h[k] = g[k] /\ i - 1 = k
        <5>1. k \in 1..(k + 1) /\ k # k + 1 /\ i # 1 /\ i - 1 = k
          BY <3>1, <4>2
        <5>2. h[k] = g[k]
          BY <5>1
        <5>3. h[i] = g[k] \o strings[k + 1]
          BY <3>1, <4>2
        <5>. QED
          BY <5>1, <5>2, <5>3
      <4>. QED
        BY <3>1, <4>1, <4>2
    <3>2. CASE i # k + 1
      <4>1. i \in 1..k /\ (i # 1 => i - 1 \in 1..k)
        BY <3>2
      <4>2. g[i] = IF i = 1 THEN strings[i] ELSE g[i - 1] \o strings[i]
        BY <2>1, <4>1
      <4>3. h[i] = g[i] /\ (i # 1 => h[i - 1] = g[i - 1])
        BY <3>2, <4>1
      <4>. QED
        BY <4>2, <4>3
    <3>. QED
      BY <3>1, <3>2
  <2>4. Rec(h, k + 1)
    <3>1. DOMAIN h = 1..(k + 1)
      OBVIOUS
    <3>2. h = [i \in 1..(k + 1) |-> h[i]]
      OBVIOUS
    <3>. HIDE DEF h
    <3>. QED
      BY <2>3, <3>2
  <2>. HIDE DEF h, Rec
  <2>. QED
    BY <2>2, <2>4
<1>3. \A k \in 0..n : k \in T
  <2>. HIDE DEF T
  <2>. QED
    BY <1>1, <1>2, Induction
<1>4. PICK g \in [1..n -> ByteStrings] : Rec(g, n)
  <2>1. n \in T
    <3>. HIDE DEF T
    <3>. QED
      BY <1>3
  <2>. QED
    BY <2>1
<1>5. Rec(f, n)
  <2>. HIDE DEF Rec
  <2>. QED
    BY <1>4
<1>6. FlattenSeq(strings) = f[n]
  <2>1. Len(strings) = n
    OBVIOUS
  <2>. QED
    BY <2>1 DEF FlattenSeq
<1>7. f[1] = strings[1] /\ \A k \in 2..n : f[k] = f[k - 1] \o strings[k]
  <2>. HIDE DEF f
  <2>1. ASSUME NEW i \in 1..n
        PROVE  f[i] = IF i = 1 THEN strings[i] ELSE f[i - 1] \o strings[i]
    BY <1>5
  <2>2. 1 \in 1..n /\ \A k \in 2..n : k \in 1..n /\ k # 1
    OBVIOUS
  <2>. QED
    BY <2>1, <2>2
<1>8. f \in [1..n -> ByteStrings]
  <2>. DEFINE U == {k \in 0..n : k # 0 => f[k] \in ByteStrings}
  <2>. HIDE DEF f
  <2>1. 0 \in U
    OBVIOUS
  <2>2. ASSUME NEW k \in 0..(n - 1), k \in U PROVE k + 1 \in U
    <3>1. CASE k = 0
      <4>1. 1 \in 1..n /\ strings[1] \in ByteStrings /\ k + 1 = 1 /\ 1 \in 0..n
        BY <3>1
      <4>. QED
        BY <1>7, <4>1
    <3>2. CASE k # 0
      <4>1. f[k] \in ByteStrings /\ k + 1 \in 2..n /\ strings[k + 1] \in ByteStrings
            /\ (k + 1) - 1 = k
        BY <2>2, <3>2
      <4>2. f[k + 1] = f[k] \o strings[k + 1]
        BY <1>7, <4>1
      <4>3. f[k + 1] \in ByteStrings
        BY <4>1, <4>2, ConcatProperties DEF ByteStrings
      <4>. QED
        BY <4>3
    <3>. QED
      BY <3>1, <3>2
  <2>3. \A k \in 0..n : k \in U
    <3>. HIDE DEF U
    <3>. QED
      BY <2>1, <2>2, Induction
  <2>4. \A k \in 1..n : f[k] \in ByteStrings
    BY <2>3
  <2>. QED
    BY <1>5, <2>4
<1>. HIDE DEF f
<1>. QED
  BY <1>6, <1>7, <1>8

-----------------------------------------------------------------------------
(* The layout of a packed session.                                         *)
Width(k) == Layout[k].width
Name(k) == Layout[k].name
Begin(k) == Slices[Name(k)][1]
End(k) == Slices[Name(k)][2]

LEMMA LayoutIs ==
  /\ DOMAIN Layout = 1..17
  /\ Names = {Name(k) : k \in 1..17}
  /\ Fields = {Layout[k] : k \in 1..17}
  /\ \A k \in 1..17 : Layout[k] = [name |-> Name(k), width |-> Width(k)]
<1>1. DOMAIN Layout = 1..17
  BY DEF Layout
<1>2. Fields = {Layout[k] : k \in 1..17}
  BY <1>1 DEF Fields, Range
<1>3. Names = {Name(k) : k \in 1..17}
  BY <1>2 DEF Names, Name
<1>4. \A k \in 1..17 : Layout[k] = [name |-> Name(k), width |-> Width(k)]
  BY DEF Layout, Field, Name, Width
<1>. QED
  BY <1>1, <1>2, <1>3, <1>4

LEMMA SlicesIs ==
  ASSUME NEW k \in 1..17
  PROVE  /\ Width(k) \in 1..32 /\ Begin(k) \in Nat /\ End(k) = Begin(k) + Width(k)
         /\ Begin(k) = IF k = 1 THEN 0 ELSE End(k - 1)
         /\ End(17) = 235
BY DEF Layout, Field, Name, Width, Begin, End, Slices

\* Every session, of whatever field contents.
AnySession == [Names \cup {"gameData", "gameState"} -> ByteStrings]

LEMMA PaddedIs ==
  ASSUME NEW b \in ByteStrings, NEW w \in Nat
  PROVE  /\ Padded(b, w) \in ByteStrings
         /\ Len(b) <= w =>
              /\ Len(Padded(b, w)) = w
              /\ \A j \in 1..w : Padded(b, w)[j] = IF j <= w - Len(b) THEN 0
                                                   ELSE b[j - (w - Len(b))]
<1>. DEFINE zeros == [i \in 1..(w - Len(b)) |-> 0]
<1>1. Len(b) \in Nat /\ b \in Seq(Nat)
  BY DEF ByteStrings
<1>2. CASE Len(b) <= w
  <2>1. w - Len(b) \in Nat
    BY <1>1, <1>2
  <2>2. zeros \in Seq(Nat) /\ Len(zeros) = w - Len(b)
    BY <2>1
  <2>3. /\ zeros \o b \in Seq(Nat) /\ Len(zeros \o b) = w
        /\ \A j \in 1..w : (zeros \o b)[j] = IF j <= w - Len(b) THEN zeros[j]
                                             ELSE b[j - (w - Len(b))]
    <3>. HIDE DEF zeros
    <3>. DEFINE both == zeros \o b
    <3>1. /\ both \in Seq(Nat) /\ Len(both) = Len(zeros) + Len(b)
          /\ \A j \in 1..(Len(zeros) + Len(b)) : both[j] = IF j <= Len(zeros) THEN zeros[j]
                                                         ELSE b[j - Len(zeros)]
      BY <1>1, <2>2, ConcatProperties, Zenon
    <3>2. Len(zeros) + Len(b) = w /\ Len(zeros) = w - Len(b)
      BY <1>1, <2>1, <2>2
    <3>. HIDE DEF both
    <3>3. both \in Seq(Nat) /\ Len(both) = w
      BY <3>1, <3>2
    <3>4. \A j \in 1..w : both[j] = IF j <= w - Len(b) THEN zeros[j] ELSE b[j - (w - Len(b))]
      BY <3>1, <3>2, Zenon
    <3>. QED
      BY <3>3, <3>4 DEF both
  <2>4. \A j \in 1..w : j <= w - Len(b) => zeros[j] = 0
    BY <1>1, <2>1
  <2>. QED
    BY <1>2, <2>3, <2>4 DEF Padded, ByteStrings
<1>3. CASE ~(Len(b) <= w)
  <2>1. zeros \in Seq(Nat)
    <3>1. 1..(w - Len(b)) = 1..0
      BY <1>1, <1>3
    <3>2. [i \in 1..0 |-> 0] \in Seq(Nat)
      OBVIOUS
    <3>. QED
      BY <3>1, <3>2
  <2>2. zeros \o b \in Seq(Nat)
    <3>. HIDE DEF zeros
    <3>. QED
      BY <1>1, <2>1, ConcatProperties
  <2>. QED
    BY <1>3, <2>2 DEF Padded, ByteStrings
<1>. QED
  BY <1>1, <1>2, <1>3

LEMMA PrefixedIs ==
  ASSUME NEW b \in ByteStrings
  PROVE  /\ LengthPrefixed(b) \in ByteStrings
         /\ Len(LengthPrefixed(b)) = Len(b) + 2
         /\ LengthPrefixed(b)[1] = Len(b) \div 256
         /\ LengthPrefixed(b)[2] = Len(b) % 256
         /\ \A j \in 1..Len(b) : LengthPrefixed(b)[j + 2] = b[j]
<1>. DEFINE size == <<Len(b) \div 256, Len(b) % 256>>
<1>1. b \in Seq(Nat) /\ Len(b) \in Nat
  BY DEF ByteStrings
<1>2. Len(b) \div 256 \in Nat /\ Len(b) % 256 \in Nat
  BY <1>1
<1>3. size \in Seq(Nat) /\ Len(size) = 2
  BY <1>2
<1>4. /\ size \o b \in Seq(Nat) /\ Len(size \o b) = 2 + Len(b)
      /\ \A i \in 1..(2 + Len(b)) : (size \o b)[i] = IF i <= 2 THEN size[i] ELSE b[i - 2]
  <2>. HIDE DEF size
  <2>1. /\ size \o b \in Seq(Nat) /\ Len(size \o b) = Len(size) + Len(b)
        /\ \A i \in 1..(Len(size) + Len(b)) :
             (size \o b)[i] = IF i <= Len(size) THEN size[i] ELSE b[i - Len(size)]
    BY <1>1, <1>3, ConcatProperties
  <2>. QED
    BY <1>3, <2>1
<1>5. \A j \in 1..Len(b) : j + 2 \in 1..(2 + Len(b)) /\ ~(j + 2 <= 2) /\ (j + 2) - 2 = j
  BY <1>1
<1>6. 1 \in 1..(2 + Len(b)) /\ 2 \in 1..(2 + Len(b))
  BY <1>1
<1>7. size[1] = Len(b) \div 256 /\ size[2] = Len(b) % 256
  OBVIOUS
<1>8. LengthPrefixed(b) = size \o b
  BY DEF LengthPrefixed
<1>. HIDE DEF size
<1>9. (size \o b)[1] = Len(b) \div 256 /\ (size \o b)[2] = Len(b) % 256
  BY <1>4, <1>6, <1>7
<1>10. \A j \in 1..Len(b) : (size \o b)[j + 2] = b[j]
  BY <1>4, <1>5
<1>. QED
  BY <1>1, <1>4, <1>8, <1>9, <1>10 DEF ByteStrings

Fits(s, k) == Len(s[Name(k)]) <= Width(k)
AllFit(s) == \A k \in 1..17 : Fits(s, k)
Piece(s, k) == Padded(s[Name(k)], Width(k))
FixedPart(s) == FlattenSeq([i \in DOMAIN Layout |-> Padded(s[Layout[i].name], Layout[i].width)])

LEMMA PieceIs ==
  ASSUME NEW s \in AnySession, NEW k \in 1..17
  PROVE  /\ Piece(s, k) \in ByteStrings /\ s[Name(k)] \in ByteStrings
         /\ Len(s[Name(k)]) \in Nat
         /\ Fits(s, k) => Len(Piece(s, k)) = Width(k)
<1>1. Name(k) \in Names
  BY LayoutIs
<1>2. s[Name(k)] \in ByteStrings
  BY <1>1 DEF AnySession
<1>3. Width(k) \in Nat
  BY SlicesIs
<1>4. /\ Padded(s[Name(k)], Width(k)) \in ByteStrings
      /\ Len(s[Name(k)]) <= Width(k) => Len(Padded(s[Name(k)], Width(k))) = Width(k)
  BY <1>2, <1>3, PaddedIs
<1>5. Len(s[Name(k)]) \in Nat
  BY <1>2 DEF ByteStrings
<1>. QED
  BY <1>2, <1>4, <1>5 DEF Piece, Fits

\* The fixed part of a session whose fields fit: field k is where the contract
\* looks for it.
LEMMA FixedPartIs ==
  ASSUME NEW s \in AnySession
  PROVE  \E h \in [1..17 -> ByteStrings] :
           /\ FixedPart(s) = h[17]
           /\ h[1] = Piece(s, 1)
           /\ \A k \in 2..17 : h[k] = h[k - 1] \o Piece(s, k)
<1>. DEFINE strings == [i \in DOMAIN Layout |-> Padded(s[Layout[i].name], Layout[i].width)]
<1>1. strings = [i \in 1..17 |-> Piece(s, i)]
  BY LayoutIs DEF Piece, Name, Width
<1>2. strings \in [1..17 -> ByteStrings]
  BY <1>1, PieceIs
<1>3. \A k \in 1..17 : strings[k] = Piece(s, k)
  BY <1>1
<1>. HIDE DEF strings
<1>4. PICK h \in [1..17 -> ByteStrings] :
            /\ FlattenSeq(strings) = h[17]
            /\ h[1] = strings[1]
            /\ \A k \in 2..17 : h[k] = h[k - 1] \o strings[k]
  <2>1. 17 \in Nat \ {0}
    OBVIOUS
  <2>. QED
    BY <1>2, <2>1, FlattenedBy
<1>5. FixedPart(s) = FlattenSeq(strings)
  BY DEF FixedPart, strings
<1>6. 1 \in 1..17 /\ \A k \in 2..17 : k \in 1..17
  OBVIOUS
<1>7. FixedPart(s) = h[17] /\ h[1] = Piece(s, 1)
  BY <1>3, <1>4, <1>5, <1>6
<1>8. \A k \in 2..17 : h[k] = h[k - 1] \o Piece(s, k)
  BY <1>3, <1>4, <1>6
<1>. QED
  BY <1>4, <1>7, <1>8

LEMMA AppendedOne ==
  /\ \A a, b : Appended({a}, {b}) = {a \o b}
  /\ \A a : Appended(a, {}) = {}
  /\ \A b : Appended({}, b) = {}
BY DEF Appended

TooWide(s) == \E f \in Fields : Len(s[f.name]) > f.width
Wide(s) ==
  \/ TooWide(s)
  \/ Len(s.gameData) > 65535 \/ Len(s.gameState) > 65535

LEMMA WideIs ==
  ASSUME NEW s \in AnySession
  PROVE  Wide(s) <=> ~(AllFit(s) /\ Len(s.gameData) <= 65535 /\ Len(s.gameState) <= 65535)
<1>1. \A k \in 1..17 : Layout[k].name = Name(k) /\ Layout[k].width = Width(k)
  BY DEF Name, Width
<1>2. TooWide(s) <=> \E k \in 1..17 : Len(s[Name(k)]) > Width(k)
  BY <1>1, LayoutIs DEF TooWide
<1>3. \A k \in 1..17 : Len(s[Name(k)]) > Width(k) <=> ~Fits(s, k)
  <2>1. ASSUME NEW k \in 1..17 PROVE Len(s[Name(k)]) > Width(k) <=> ~Fits(s, k)
    <3>1. Width(k) \in 1..32
      BY SlicesIs
    <3>2. Len(s[Name(k)]) \in Nat
      BY PieceIs
    <3>3. \A a \in Nat, b \in 1..32 : a > b <=> ~(a <= b)
      OBVIOUS
    <3>4. Len(s[Name(k)]) > Width(k) <=> ~(Len(s[Name(k)]) <= Width(k))
      BY <3>1, <3>2, <3>3, Zenon
    <3>. QED
      BY <3>4 DEF Fits
  <2>. QED
    BY <2>1
<1>4. Len(s.gameData) \in Nat /\ Len(s.gameState) \in Nat
  BY DEF AnySession, ByteStrings
<1>5. (\E k \in 1..17 : Len(s[Name(k)]) > Width(k)) <=> ~AllFit(s)
  BY <1>3 DEF AllFit
<1>6. TooWide(s) <=> ~AllFit(s)
  BY <1>2, <1>5
<1>7. /\ Len(s.gameData) > 65535 <=> ~(Len(s.gameData) <= 65535)
      /\ Len(s.gameState) > 65535 <=> ~(Len(s.gameState) <= 65535)
  BY <1>4, SMT
<1>. QED
  BY <1>6, <1>7 DEF Wide

\* The parts of encodeCasinoSession.
FixedParts(s) == [i \in DOMAIN Layout |-> UintHex(s[Layout[i].name], Layout[i].width)]
Parts(s) == FixedParts(s) \o <<LengthPrefixedHex(s.gameData), LengthPrefixedHex(s.gameState)>>

LEMMA UintHexIs ==
  ASSUME NEW s \in AnySession, NEW k \in 1..17
  PROVE  UintHex(s[Name(k)], Width(k)) = IF Fits(s, k) THEN {Piece(s, k)} ELSE {}
<1>0. Width(k) \in 1..32
  BY SlicesIs
<1>1. Len(s[Name(k)]) \in Nat
  BY PieceIs
<1>2. \A a \in Nat, b \in 1..32 : a > b <=> ~(a <= b)
  OBVIOUS
<1>3. Len(s[Name(k)]) > Width(k) <=> ~Fits(s, k)
  BY <1>0, <1>1, <1>2, Zenon DEF Fits
<1>. QED
  BY <1>3, Zenon DEF UintHex, Piece

LEMMA LengthPrefixedHexIs ==
  ASSUME NEW b \in ByteStrings
  PROVE  LengthPrefixedHex(b) = IF Len(b) <= 65535 THEN {LengthPrefixed(b)} ELSE {}
<1>1. Len(b) \in Nat
  BY DEF ByteStrings
<1>2. \A n \in Nat : n \div 256 > 255 <=> ~(n <= 65535)
  OBVIOUS
<1>3. Len(b) \div 256 > 255 <=> ~(Len(b) <= 65535)
  BY <1>1, <1>2
<1>4. CASE Len(b) <= 65535
  <2>1. ~(Len(b) \div 256 > 255)
    BY <1>3, <1>4
  <2>. QED
    BY <1>4, <2>1 DEF LengthPrefixedHex
<1>5. CASE ~(Len(b) <= 65535)
  <2>1. Len(b) \div 256 > 255
    BY <1>3, <1>5
  <2>. QED
    BY <1>5, <2>1 DEF LengthPrefixedHex
<1>. QED
  BY <1>4, <1>5

LEMMA PartsIs ==
  ASSUME NEW s \in AnySession
  PROVE  /\ DOMAIN Parts(s) = 1..19
         /\ \A k \in 1..19 : Parts(s)[k] \in SUBSET ByteStrings
         /\ \A k \in 1..17 : Parts(s)[k] = IF Fits(s, k) THEN {Piece(s, k)} ELSE {}
         /\ Parts(s)[18] = LengthPrefixedHex(s.gameData)
         /\ Parts(s)[19] = LengthPrefixedHex(s.gameState)
<1>. DEFINE fixed == FixedParts(s)
            game == <<LengthPrefixedHex(s.gameData), LengthPrefixedHex(s.gameState)>>
            S == SUBSET ByteStrings
<1>1. s.gameData \in ByteStrings /\ s.gameState \in ByteStrings
  BY DEF AnySession
<1>2. LengthPrefixedHex(s.gameData) \in S /\ LengthPrefixedHex(s.gameState) \in S
  BY <1>1, LengthPrefixedHexIs, PrefixedIs
<1>3. game \in Seq(S) /\ Len(game) = 2
      /\ game[1] = LengthPrefixedHex(s.gameData) /\ game[2] = LengthPrefixedHex(s.gameState)
  <2>. HIDE DEF S
  <2>. QED
    BY <1>2
<1>4. ASSUME NEW k \in 1..17
      PROVE  /\ fixed[k] = IF Fits(s, k) THEN {Piece(s, k)} ELSE {}
             /\ fixed[k] \in S
  <2>1. fixed[k] = UintHex(s[Name(k)], Width(k))
    BY LayoutIs DEF FixedParts, Name, Width
  <2>2. fixed[k] = IF Fits(s, k) THEN {Piece(s, k)} ELSE {}
    BY <2>1, UintHexIs
  <2>3. Piece(s, k) \in ByteStrings
    BY PieceIs
  <2>4. fixed[k] \in S
    <3>. HIDE DEF fixed
    <3>. QED
      BY <2>2, <2>3
  <2>. QED
    BY <2>2, <2>4
<1>5. DOMAIN fixed = 1..17 /\ fixed = [k \in 1..17 |-> fixed[k]]
  BY LayoutIs DEF FixedParts
<1>. HIDE DEF fixed, game, S
<1>6. fixed \in Seq(S) /\ Len(fixed) = 17
  BY <1>4, <1>5
<1>7. fixed \o game \in Seq(S) /\ Len(fixed \o game) = 19
  <2>1. fixed \o game \in Seq(S) /\ Len(fixed \o game) = Len(fixed) + Len(game)
    BY <1>3, <1>6, ConcatProperties
  <2>. QED
    BY <1>3, <1>6, <2>1
<1>8. ASSUME NEW i \in 1..19
      PROVE  (fixed \o game)[i] = IF i <= Len(fixed) THEN fixed[i] ELSE game[i - Len(fixed)]
  <2>1. i \in 1..(Len(fixed) + Len(game))
    BY <1>3, <1>6
  <2>. QED
    BY <1>3, <1>6, <2>1, ConcatProperties
<1>9a. \A i \in 1..17 : (fixed \o game)[i] = fixed[i]
  <2>1. ASSUME NEW i \in 1..17 PROVE (fixed \o game)[i] = fixed[i]
    <3>1. i \in 1..19 /\ i <= Len(fixed)
      BY <1>6
    <3>. QED
      BY <1>8, <3>1
  <2>. QED
    BY <2>1
<1>9b. (fixed \o game)[18] = game[1]
  <2>1. 18 \in 1..19 /\ ~(18 <= Len(fixed)) /\ 18 - Len(fixed) = 1
    BY <1>6
  <2>. QED
    BY <1>8, <2>1
<1>9c. (fixed \o game)[19] = game[2]
  <2>1. 19 \in 1..19 /\ ~(19 <= Len(fixed)) /\ 19 - Len(fixed) = 2
    BY <1>6
  <2>. QED
    BY <1>8, <2>1
<1>10. DOMAIN (fixed \o game) = 1..19 /\ \A i \in 1..19 : (fixed \o game)[i] \in S
  <2>. DEFINE all == fixed \o game
  <2>1. all \in Seq(S) /\ Len(all) = 19
    BY <1>7
  <2>. HIDE DEF all
  <2>2. DOMAIN all = 1..19 /\ \A i \in 1..19 : all[i] \in S
    BY <2>1, ElementOfSeq, LenProperties
  <2>. QED
    BY <2>2 DEF all
<1>11. Parts(s) = fixed \o game
  BY DEF Parts, fixed, game
<1>. QED
  BY <1>3, <1>4, <1>9a, <1>9b, <1>9c, <1>10, <1>11 DEF S

\* What encodeCasinoSession has written when it comes to the game's bytes.
LEMMA FixedWritten ==
  ASSUME NEW s \in AnySession, NEW g,
         g[1..0] = {<< >>},
         \A k \in 1..19 : g[1..k] = Appended(g[1..(k - 1)], Parts(s)[k])
  PROVE  g[1..17] = IF AllFit(s) THEN {FixedPart(s)} ELSE {}
<1>. DEFINE G(k) == g[1..k]
<1>0. /\ G(0) = {<< >>}
      /\ \A k \in 1..17 : G(k) = Appended(G(k - 1), IF Fits(s, k) THEN {Piece(s, k)} ELSE {})
  <2>1. \A k \in 1..17 : k \in 1..19
    OBVIOUS
  <2>. QED
    BY <2>1, PartsIs
<1>. HIDE DEF G
<1>1. ASSUME AllFit(s) PROVE G(17) = {FixedPart(s)}
  <2>1. PICK h \in [1..17 -> ByteStrings] :
           /\ FixedPart(s) = h[17]
           /\ h[1] = Piece(s, 1)
           /\ \A k \in 2..17 : h[k] = h[k - 1] \o Piece(s, k)
    BY FixedPartIs
  <2>. DEFINE T == {k \in 0..17 : k # 0 => G(k) = {h[k]}}
  <2>2. 0 \in T
    OBVIOUS
  <2>3. ASSUME NEW k \in 0..(17 - 1), k \in T PROVE k + 1 \in T
    <3>1. k + 1 \in 1..17 /\ (k + 1) - 1 = k
      OBVIOUS
    <3>2. G(k + 1) = Appended(G(k), {Piece(s, k + 1)})
      BY <1>0, <1>1, <3>1 DEF AllFit
    <3>3. CASE k = 0
      <4>1. Piece(s, 1) \in Seq(Nat)
        <5>1. 1 \in 1..17
          OBVIOUS
        <5>. QED
          BY <5>1, PieceIs DEF ByteStrings
      <4>2. << >> \o Piece(s, 1) = Piece(s, 1)
        BY <4>1, ConcatEmptySeq
      <4>2a. k + 1 = 1 /\ G(k) = {<< >>}
        BY <1>0, <3>3
      <4>2b. G(1) = Appended({<< >>}, {Piece(s, 1)})
        BY <3>2, <4>2a
      <4>3. G(1) = {<< >> \o Piece(s, 1)}
        BY <4>2b, AppendedOne
      <4>4. G(1) = {h[1]}
        BY <2>1, <4>2, <4>3
      <4>. QED
        BY <3>1, <3>3, <4>4
    <3>4. CASE k # 0
      <4>1. G(k) = {h[k]} /\ k + 1 \in 2..17
        BY <2>3, <3>4
      <4>2. G(k + 1) = {h[k] \o Piece(s, k + 1)}
        BY <3>2, <4>1, AppendedOne
      <4>3. h[k + 1] = h[k] \o Piece(s, k + 1)
        BY <2>1, <3>1, <4>1
      <4>4. G(k + 1) = {h[k + 1]}
        BY <4>2, <4>3
      <4>5. k + 1 \in 0..17
        OBVIOUS
      <4>. QED
        BY <4>4, <4>5
    <3>. QED
      BY <3>3, <3>4
  <2>. HIDE DEF T
  <2>4. \A k \in 0..17 : k \in T
    BY <2>2, <2>3, Induction
  <2>5. 17 \in T
    BY <2>4
  <2>. QED
    BY <2>1, <2>5 DEF T
<1>2. ASSUME ~AllFit(s) PROVE G(17) = {}
  <2>1. PICK m \in 1..17 : ~Fits(s, m)
    BY <1>2 DEF AllFit
  <2>. DEFINE T == {k \in 0..17 : k >= m => G(k) = {}}
  <2>2. 0 \in T
    OBVIOUS
  <2>3. ASSUME NEW k \in 0..(17 - 1), k \in T PROVE k + 1 \in T
    <3>1. k + 1 \in 1..17 /\ (k + 1) - 1 = k
      OBVIOUS
    <3>2. G(k + 1) = Appended(G(k), IF Fits(s, k + 1) THEN {Piece(s, k + 1)} ELSE {})
      BY <1>0, <3>1
    <3>3. CASE k + 1 = m
      <4>1. G(k + 1) = Appended(G(k), {})
        BY <2>1, <3>2, <3>3
      <4>. QED
        BY <3>1, <4>1 DEF Appended
    <3>4. CASE k + 1 > m
      <4>1. G(k) = {}
        BY <2>3, <3>4
      <4>. QED
        BY <3>1, <3>2, <4>1 DEF Appended
    <3>5. CASE k + 1 < m
      BY <3>1, <3>5
    <3>. QED
      BY <3>3, <3>4, <3>5
  <2>. HIDE DEF T
  <2>4. \A k \in 0..17 : k \in T
    BY <2>2, <2>3, Induction
  <2>5. 17 \in T
    BY <2>4
  <2>. QED
    BY <2>5 DEF T
<1>. QED
  BY <1>1, <1>2 DEF G

\* Both encoders write the same bytes or refuse alike.
LEMMA EncodersAgree ==
  ASSUME NEW s \in AnySession
  PROVE  TsEncode(s) = Encode(s)
<1>1. s.gameData \in ByteStrings /\ s.gameState \in ByteStrings
  BY DEF AnySession
<1>2. DOMAIN Parts(s) = 1..19 /\ \A k \in 1..19 : Parts(s)[k] \in SUBSET ByteStrings
  BY PartsIs
<1>3. PICK g : /\ FoldLeft(Appended, {<< >>}, Parts(s)) = g[1..19]
               /\ g[1..0] = {<< >>}
               /\ \A k \in 1..19 : g[1..k] = Appended(g[1..(k - 1)], Parts(s)[k])
  <2>. DEFINE n == 19
              parts == Parts(s)
  <2>1. n \in Nat
    OBVIOUS
  <2>2. DOMAIN parts = 1..n /\ \A k \in 1..n : parts[k] \in SUBSET ByteStrings
    BY <1>2
  <2>. HIDE DEF n, parts
  <2>3. \E g : /\ FoldLeft(Appended, {<< >>}, parts) = g[1..n]
               /\ g[1..0] = {<< >>}
               /\ \A k \in 1..n : g[1..k] = Appended(g[1..(k - 1)], parts[k])
    BY <2>1, <2>2, WrittenBy
  <2>. QED
    BY <2>3 DEF n, parts
<1>4. g[1..17] = IF AllFit(s) THEN {FixedPart(s)} ELSE {}
  BY <1>3, FixedWritten
<1>5a. Parts(s)[18] = LengthPrefixedHex(s.gameData) /\ Parts(s)[19] = LengthPrefixedHex(s.gameState)
  BY PartsIs
<1>5b. 18 \in 1..19 /\ 19 \in 1..19 /\ 18 - 1 = 17 /\ 19 - 1 = 18
  OBVIOUS
<1>5. g[1..18] = Appended(g[1..17], LengthPrefixedHex(s.gameData))
  BY <1>3, <1>5a, <1>5b
<1>6. g[1..19] = Appended(g[1..18], LengthPrefixedHex(s.gameState))
  BY <1>3, <1>5a, <1>5b
<1>7. TsEncode(s) = FoldLeft(Appended, {<< >>}, Parts(s))
  BY DEF TsEncode, Parts, FixedParts
<1>8. Encode(s) = IF Wide(s) THEN {}
                  ELSE {FixedPart(s) \o LengthPrefixed(s.gameData) \o LengthPrefixed(s.gameState)}
  BY DEF Encode, Wide, TooWide, FixedPart
<1>9. TsEncode(s) = Appended(Appended(g[1..17], LengthPrefixedHex(s.gameData)),
                             LengthPrefixedHex(s.gameState))
  BY <1>3, <1>5, <1>6, <1>7
<1>10. CASE AllFit(s) /\ Len(s.gameData) <= 65535 /\ Len(s.gameState) <= 65535
  <2>1. LengthPrefixedHex(s.gameData) = {LengthPrefixed(s.gameData)}
    BY <1>1, <1>10, LengthPrefixedHexIs
  <2>2. LengthPrefixedHex(s.gameState) = {LengthPrefixed(s.gameState)}
    BY <1>1, <1>10, LengthPrefixedHexIs
  <2>2a. TsEncode(s) = Appended(Appended({FixedPart(s)}, {LengthPrefixed(s.gameData)}),
                                {LengthPrefixed(s.gameState)})
    BY <1>4, <1>9, <1>10, <2>1, <2>2
  <2>3. TsEncode(s) = {FixedPart(s) \o LengthPrefixed(s.gameData) \o LengthPrefixed(s.gameState)}
    <3>1. Appended({FixedPart(s)}, {LengthPrefixed(s.gameData)})
            = {FixedPart(s) \o LengthPrefixed(s.gameData)}
      BY AppendedOne
    <3>2. Appended({FixedPart(s) \o LengthPrefixed(s.gameData)}, {LengthPrefixed(s.gameState)})
            = {FixedPart(s) \o LengthPrefixed(s.gameData) \o LengthPrefixed(s.gameState)}
      BY AppendedOne
    <3>. QED
      BY <2>2a, <3>1, <3>2
  <2>4. ~Wide(s)
    BY <1>10, WideIs
  <2>. QED
    BY <1>8, <2>3, <2>4, Zenon
<1>11. CASE ~(AllFit(s) /\ Len(s.gameData) <= 65535 /\ Len(s.gameState) <= 65535)
  <2>1. Wide(s)
    BY <1>11, WideIs
  <2>2. CASE ~AllFit(s)
    <3>1. g[1..17] = {}
      BY <1>4, <2>2
    <3>2. TsEncode(s) = {}
      BY <1>9, <3>1 DEF Appended
    <3>. QED
      BY <1>8, <2>1, <3>2
  <2>3. CASE ~(Len(s.gameData) <= 65535)
    <3>1. LengthPrefixedHex(s.gameData) = {}
      BY <1>1, <2>3, LengthPrefixedHexIs
    <3>2. TsEncode(s) = {}
      BY <1>9, <3>1 DEF Appended
    <3>. QED
      BY <1>8, <2>1, <3>2
  <2>4. CASE ~(Len(s.gameState) <= 65535)
    <3>1. LengthPrefixedHex(s.gameState) = {}
      BY <1>1, <2>4, LengthPrefixedHexIs
    <3>2. TsEncode(s) = {}
      BY <1>9, <3>1 DEF Appended
    <3>. QED
      BY <1>8, <2>1, <3>2
  <2>. QED
    BY <1>11, <2>2, <2>3, <2>4
<1>. QED
  BY <1>10, <1>11

\* What decodeCasinoSession has read after each field.
LEMMA ReadBy ==
  ASSUME NEW data
  PROVE  \E g : /\ TakeFixed(data) = g[1..17]
                /\ g[1..0] = {[fields |-> << >>, rest |-> data]}
                /\ \A k \in 1..17 : g[1..k] = TakeField(g[1..(k - 1)], Layout[k])
<1>. DEFINE start == {[fields |-> << >>, rest |-> data]}
            Value(g, s) == IF s = {} THEN start
                           ELSE LET x == Max(s) IN TakeField(g[s \ {x}], Layout[x])
            Rec(g, k) == g = [s \in SUBSET (1..k) |-> Value(g, s)]
            T == {k \in 0..17 : \E g : Rec(g, k)}
            f == CHOOSE g : Rec(g, 17)
<1>1. 0 \in T
  <2>. DEFINE g == [s \in SUBSET (1..0) |-> start]
  <2>1. \A s \in SUBSET (1..0) : Value(g, s) = start
    OBVIOUS
  <2>2. Rec(g, 0)
    <3>. HIDE DEF Value, start
    <3>. QED
      BY <2>1
  <2>. HIDE DEF Rec
  <2>. QED
    BY <2>2
<1>2. ASSUME NEW k \in 0..(17 - 1), k \in T PROVE k + 1 \in T
  <2>1. PICK g : Rec(g, k)
    BY <1>2
  <2>. DEFINE Taken(s) == IF k + 1 \in s THEN TakeField(g[s \ {k + 1}], Layout[k + 1]) ELSE g[s]
              h == [s \in SUBSET (1..(k + 1)) |-> Taken(s)]
  <2>2. \A s \in SUBSET (1..(k + 1)) :
          /\ s \ {k + 1} \in SUBSET (1..k) /\ s \ {k + 1} \in SUBSET (1..(k + 1))
          /\ k + 1 \notin s => s \in SUBSET (1..k)
    OBVIOUS
  <2>3. ASSUME NEW s \in SUBSET (1..(k + 1)), k + 1 \notin s
        PROVE  h[s] = g[s]
    BY <2>3
  <2>4. ASSUME NEW s \in SUBSET (1..k) PROVE g[s] = Value(g, s)
    <3>. HIDE DEF Value
    <3>. QED
      BY <2>1
  <2>5. ASSUME NEW s \in SUBSET (1..(k + 1))
        PROVE  h[s] = Value(h, s)
    <3>1. CASE k + 1 \in s
      <4>1. Max(s) = k + 1
        BY <3>1, MaxIs
      <4>2. h[s \ {k + 1}] = g[s \ {k + 1}]
        BY <2>2, <2>3
      <4>3. h[s] = TakeField(g[s \ {k + 1}], Layout[k + 1])
        BY <3>1
      <4>4. s # {}
        BY <3>1
      <4>. HIDE DEF h, start
      <4>. QED
        BY <4>1, <4>2, <4>3, <4>4
    <3>2. CASE k + 1 \notin s
      <4>1. /\ s \in SUBSET (1..k) /\ s \ {Max(s)} \in SUBSET (1..(k + 1))
            /\ k + 1 \notin s \ {Max(s)}
        BY <2>2, <3>2
      <4>2. h[s] = g[s] /\ h[s \ {Max(s)}] = g[s \ {Max(s)}]
        BY <2>3, <3>2, <4>1
      <4>3. g[s] = Value(g, s)
        BY <2>4, <4>1
      <4>. HIDE DEF h, start
      <4>. QED
        BY <4>2, <4>3
    <3>. QED
      BY <3>1, <3>2
  <2>6. Rec(h, k + 1)
    <3>1. h = [s \in SUBSET (1..(k + 1)) |-> h[s]]
      OBVIOUS
    <3>. HIDE DEF h, Value
    <3>. QED
      BY <2>5, <3>1
  <2>. HIDE DEF h, Rec
  <2>. QED
    BY <2>6
<1>3. \A k \in 0..17 : k \in T
  <2>1. 17 \in Nat
    OBVIOUS
  <2>. HIDE DEF T
  <2>. QED
    BY <1>1, <1>2, <2>1, Induction
<1>4. \E g : Rec(g, 17)
  <2>1. 17 \in T
    <3>. HIDE DEF T
    <3>. QED
      BY <1>3
  <2>. HIDE DEF Rec
  <2>. QED
    BY <2>1
<1>5. Rec(f, 17)
  <2>. HIDE DEF Rec
  <2>. QED
    BY <1>4
<1>6. TakeFixed(data) = f[1..17]
  BY LayoutIs DEF TakeFixed, FoldLeft, MapThenFoldSet
<1>. HIDE DEF f
<1>7. \A s \in SUBSET (1..17) : f[s] = Value(f, s)
  <2>. HIDE DEF Value
  <2>. QED
    BY <1>5
<1>8. f[1..0] = start
  <2>1. 1..0 = {} /\ 1..0 \in SUBSET (1..17)
    OBVIOUS
  <2>2. f[1..0] = Value(f, 1..0)
    BY <1>7, <2>1
  <2>. HIDE DEF start
  <2>. QED
    BY <2>1, <2>2
<1>9. ASSUME NEW k \in 1..17 PROVE f[1..k] = TakeField(f[1..(k - 1)], Layout[k])
  <2>1. 17 \in Nat
    OBVIOUS
  <2>2. 1..k \in SUBSET (1..17) /\ 1..k # {} /\ Max(1..k) = k /\ (1..k) \ {k} = 1..(k - 1)
    BY <2>1, Prefixed
  <2>3. f[1..k] = Value(f, 1..k)
    BY <1>7, <2>2
  <2>. HIDE DEF start
  <2>. QED
    BY <2>2, <2>3
<1>. QED
  BY <1>6, <1>8, <1>9

\* Subsequences of what is left.
LEMMA SubSub ==
  ASSUME NEW data \in ByteStrings, NEW a \in 0..Len(data),
         NEW i \in Nat \ {0}, NEW j \in Nat, j <= Len(data) - a
  PROVE  /\ SubSeq(data, a + 1, Len(data)) \in ByteStrings
         /\ Len(SubSeq(data, a + 1, Len(data))) = Len(data) - a
         /\ SubSeq(SubSeq(data, a + 1, Len(data)), i, j) = SubSeq(data, a + i, a + j)
<1>. DEFINE rest == SubSeq(data, a + 1, Len(data))
<1>1. data \in Seq(Nat) /\ Len(data) \in Nat
  BY DEF ByteStrings
<1>2. \A x \in 1..Len(data) : data[x] \in Nat
  BY <1>1, ElementOfSeq
<1>3. /\ rest \in Seq(Nat)
      /\ Len(rest) = IF a + 1 <= Len(data) THEN Len(data) - (a + 1) + 1 ELSE 0
      /\ \A x \in 1..(Len(data) - (a + 1) + 1) : rest[x] = data[a + 1 + x - 1]
  <2>1. a + 1 \in Int /\ Len(data) \in Int /\ \A x \in (a + 1)..Len(data) : data[x] \in Nat
    BY <1>1, <1>2
  <2>. QED
    BY <2>1, SubSeqProperties
<1>4. Len(rest) = Len(data) - a /\ \A x \in 1..(Len(data) - a) : rest[x] = data[a + x]
  <2>1. Len(data) - (a + 1) + 1 = Len(data) - a
    BY <1>1
  <2>2. Len(rest) = Len(data) - a
    BY <1>1, <1>3
  <2>3. ASSUME NEW x \in 1..(Len(data) - a) PROVE rest[x] = data[a + x]
    <3>1. a + 1 + x - 1 = a + x /\ x \in 1..(Len(data) - (a + 1) + 1)
      BY <1>1
    <3>. QED
      BY <1>3, <3>1
  <2>. QED
    BY <2>2, <2>3
<1>. HIDE DEF rest
<1>5. /\ SubSeq(rest, i, j) \in Seq(Nat)
      /\ Len(SubSeq(rest, i, j)) = IF i <= j THEN j - i + 1 ELSE 0
      /\ \A x \in 1..(j - i + 1) : SubSeq(rest, i, j)[x] = rest[i + x - 1]
  <2>1. i \in Int /\ j \in Int /\ \A x \in i..j : rest[x] \in Nat
    <3>1. ASSUME NEW x \in i..j PROVE rest[x] \in Nat
      <4>1. x \in 1..(Len(data) - a) /\ a + x \in 1..Len(data)
        BY <1>1
      <4>. QED
        BY <1>2, <1>4, <4>1
    <3>. QED
      BY <3>1
  <2>. QED
    BY <2>1, SubSeqProperties
<1>6. /\ SubSeq(data, a + i, a + j) \in Seq(Nat)
      /\ Len(SubSeq(data, a + i, a + j)) = IF a + i <= a + j THEN a + j - (a + i) + 1 ELSE 0
      /\ \A x \in 1..(a + j - (a + i) + 1) : SubSeq(data, a + i, a + j)[x] = data[a + i + x - 1]
  <2>1. a + i \in Int /\ a + j \in Int /\ \A x \in (a + i)..(a + j) : data[x] \in Nat
    <3>1. ASSUME NEW x \in (a + i)..(a + j) PROVE data[x] \in Nat
      <4>1. x \in 1..Len(data)
        BY <1>1
      <4>. QED
        BY <1>2, <4>1
    <3>. QED
      BY <3>1
  <2>. QED
    BY <2>1, SubSeqProperties
<1>7. Len(SubSeq(rest, i, j)) = Len(SubSeq(data, a + i, a + j))
  BY <1>5, <1>6
<1>8. ASSUME NEW x \in 1..Len(SubSeq(rest, i, j))
      PROVE  SubSeq(rest, i, j)[x] = SubSeq(data, a + i, a + j)[x]
  <2>1. i <= j /\ x \in 1..(j - i + 1)
    BY <1>5
  <2>2. /\ x \in 1..(a + j - (a + i) + 1) /\ i + x - 1 \in 1..(Len(data) - a)
        /\ a + (i + x - 1) = a + i + x - 1
    BY <1>1, <2>1
  <2>3. rest[i + x - 1] = data[a + (i + x - 1)]
    BY <1>4, <2>2
  <2>4. SubSeq(rest, i, j)[x] = rest[i + x - 1]
    BY <1>5, <2>1
  <2>5. SubSeq(data, a + i, a + j)[x] = data[a + i + x - 1]
    BY <1>6, <2>2
  <2>. QED
    BY <2>2, <2>3, <2>4, <2>5
<1>9. SubSeq(rest, i, j) = SubSeq(data, a + i, a + j)
  BY <1>5, <1>6, <1>7, <1>8, SeqEqual
<1>. QED
  BY <1>3, <1>4, <1>9 DEF ByteStrings, rest

\* HexReader takes the next bytes of what is left.
LEMMA TakeIs ==
  ASSUME NEW data \in ByteStrings, NEW a \in 0..Len(data), NEW n \in Nat
  PROVE  Take(SubSeq(data, a + 1, Len(data)), n)
           = IF a + n <= Len(data)
             THEN {[taken |-> SubSeq(data, a + 1, a + n), rest |-> SubSeq(data, a + n + 1, Len(data))]}
             ELSE {}
<1>. DEFINE rest == SubSeq(data, a + 1, Len(data))
<1>1. Len(data) \in Nat
  BY DEF ByteStrings
<1>2. Len(rest) = Len(data) - a
  <2>1. 1 \in Nat \ {0} /\ 0 \in Nat /\ 0 <= Len(data) - a
    BY <1>1
  <2>. QED
    BY <2>1, SubSub
<1>3. CASE a + n <= Len(data)
  <2>1. 1 \in Nat \ {0} /\ n <= Len(data) - a /\ ~(n > Len(data) - a)
    BY <1>1, <1>3
  <2>2. SubSeq(rest, 1, n) = SubSeq(data, a + 1, a + n)
    BY <2>1, SubSub
  <2>3. /\ n + 1 \in Nat \ {0} /\ Len(data) - a \in Nat /\ Len(data) - a <= Len(data) - a
        /\ a + (n + 1) = a + n + 1 /\ a + (Len(data) - a) = Len(data)
    BY <1>1, <1>3
  <2>4. SubSeq(rest, n + 1, Len(data) - a) = SubSeq(data, a + (n + 1), a + (Len(data) - a))
    BY <2>3, SubSub
  <2>5. SubSeq(rest, n + 1, Len(rest)) = SubSeq(data, a + n + 1, Len(data))
    BY <1>2, <2>3, <2>4
  <2>6. Take(rest, n) = {[taken |-> SubSeq(rest, 1, n), rest |-> SubSeq(rest, n + 1, Len(rest))]}
    <3>. HIDE DEF rest
    <3>. QED
      BY <1>2, <2>1 DEF Take
  <2>. QED
    BY <1>3, <2>2, <2>5, <2>6
<1>4. CASE ~(a + n <= Len(data))
  <2>1. n > Len(data) - a
    BY <1>1, <1>4
  <2>2. Take(rest, n) = {}
    <3>. HIDE DEF rest
    <3>. QED
      BY <1>2, <2>1 DEF Take
  <2>. QED
    BY <1>4, <2>2
<1>. QED
  BY <1>3, <1>4

\* The fields that the first k reads have read.
ReadField(data, n) == Significant(Kept(n, SubSeq(data, Slices[n][1] + 1, Slices[n][2])))
ReadTo(data, k) == [n \in {Name(i) : i \in 1..k} |-> ReadField(data, n)]
Upto(k) == IF k = 0 THEN 0 ELSE End(k)

LEMMA NamesDiffer ==
  \A i, j \in 1..17 : Name(i) = Name(j) => i = j
BY DEF Name, Layout, Field

LEMMA ReadNext ==
  ASSUME NEW data, NEW k \in 0..16
  PROVE  WithField(ReadTo(data, k), Name(k + 1), ReadField(data, Name(k + 1))) = ReadTo(data, k + 1)
<1>. DEFINE D == {Name(i) : i \in 1..k}
            E == {Name(i) : i \in 1..(k + 1)}
<1>1. D \cup {Name(k + 1)} = E
  <2>1. \A i : i \in 1..(k + 1) <=> i \in 1..k \/ i = k + 1
    OBVIOUS
  <2>. QED
    BY <2>1
<1>2. DOMAIN ReadTo(data, k) = D
  BY DEF ReadTo
<1>3. ASSUME NEW n \in E
      PROVE  (IF n = Name(k + 1) THEN ReadField(data, Name(k + 1)) ELSE ReadTo(data, k)[n])
               = ReadField(data, n)
  <2>1. CASE n = Name(k + 1)
    BY <2>1
  <2>2. CASE n # Name(k + 1)
    <3>1. n \in D
      BY <1>1, <2>2
    <3>2. ReadTo(data, k)[n] = ReadField(data, n)
      BY <3>1 DEF ReadTo
    <3>. QED
      BY <2>2, <3>2
  <2>. QED
    BY <2>1, <2>2
<1>. DEFINE Field2(n) == IF n = Name(k + 1) THEN ReadField(data, Name(k + 1)) ELSE ReadTo(data, k)[n]
<1>4. WithField(ReadTo(data, k), Name(k + 1), ReadField(data, Name(k + 1)))
        = [n \in D \cup {Name(k + 1)} |-> Field2(n)]
  BY <1>2 DEF WithField
<1>5. ReadTo(data, k + 1) = [n \in E |-> ReadField(data, n)]
  BY DEF ReadTo
<1>6. \A n \in E : Field2(n) = ReadField(data, n)
  BY <1>3
<1>. HIDE DEF D, E, Field2
<1>7. [n \in D \cup {Name(k + 1)} |-> Field2(n)] = [n \in E |-> ReadField(data, n)]
  BY <1>1, <1>6
<1>. QED
  BY <1>4, <1>5, <1>7

LEMMA UptoIs ==
  ASSUME NEW k \in 0..16
  PROVE  /\ Upto(k) \in 0..235 /\ Upto(k + 1) = Upto(k) + Width(k + 1)
         /\ Upto(k + 1) \in 0..235 /\ Width(k + 1) \in 1..32
         /\ Slices[Name(k + 1)][1] = Upto(k) /\ Slices[Name(k + 1)][2] = Upto(k + 1)
<1>1. k + 1 \in 1..17 /\ (k + 1) - 1 = k /\ k + 1 # 0 /\ (k # 0 => k \in 1..17 /\ k + 1 # 1)
  OBVIOUS
<1>2. /\ Width(k + 1) \in 1..32 /\ End(k + 1) = Begin(k + 1) + Width(k + 1)
      /\ Begin(k + 1) = IF k + 1 = 1 THEN 0 ELSE End(k)
  BY <1>1, SlicesIs
<1>3. \A i \in 1..17 : End(i) \in 1..235
  BY DEF Layout, Field, Name, End, Slices
<1>4. Upto(k + 1) = End(k + 1) /\ Upto(k) = Begin(k + 1)
  BY <1>1, <1>2 DEF Upto
<1>5. End(k + 1) \in 1..235 /\ (k # 0 => End(k) \in 1..235)
  BY <1>1, <1>3
<1>6. Upto(k) \in 0..235 /\ Upto(k + 1) \in 0..235
  BY <1>4, <1>5 DEF Upto
<1>7. Slices[Name(k + 1)][1] = Upto(k) /\ Slices[Name(k + 1)][2] = Upto(k + 1)
  BY <1>4 DEF Begin, End
<1>. QED
  BY <1>2, <1>4, <1>6, <1>7

LEMMA TakeFieldIs ==
  ASSUME NEW data \in ByteStrings, Len(data) >= 235, NEW k \in 0..16
  PROVE  TakeField({[fields |-> ReadTo(data, k), rest |-> SubSeq(data, Upto(k) + 1, Len(data))]},
                   Layout[k + 1])
           = {[fields |-> ReadTo(data, k + 1), rest |-> SubSeq(data, Upto(k + 1) + 1, Len(data))]}
<1>. DEFINE rest == SubSeq(data, Upto(k) + 1, Len(data))
            read == [fields |-> ReadTo(data, k), rest |-> rest]
            left == SubSeq(data, Upto(k + 1) + 1, Len(data))
            piece == SubSeq(data, Upto(k) + 1, Upto(k + 1))
<1>1. Len(data) \in Nat
  BY DEF ByteStrings
<1>2. k + 1 \in 1..17
  OBVIOUS
<1>3. Layout[k + 1].name = Name(k + 1) /\ Layout[k + 1].width = Width(k + 1)
  BY DEF Name, Width
<1>4. Take(rest, Width(k + 1)) = {[taken |-> piece, rest |-> left]}
  <2>1. /\ Upto(k) \in 0..Len(data) /\ Width(k + 1) \in Nat
        /\ Upto(k) + Width(k + 1) <= Len(data)
    <3>1. /\ Upto(k) \in 0..235 /\ Width(k + 1) \in 1..32 /\ Upto(k + 1) \in 0..235
          /\ Upto(k + 1) = Upto(k) + Width(k + 1)
      BY UptoIs
    <3>2. \A u, v \in 0..235, w \in 1..32, l \in Nat :
            l >= 235 /\ v = u + w => u \in 0..l /\ w \in Nat /\ u + w <= l
      OBVIOUS
    <3>3. Len(data) >= 235
      OBVIOUS
    <3>. QED
      BY <1>1, <3>1, <3>2, <3>3, Zenon
  <2>2. Take(rest, Width(k + 1))
          = IF Upto(k) + Width(k + 1) <= Len(data)
            THEN {[taken |-> SubSeq(data, Upto(k) + 1, Upto(k) + Width(k + 1)),
                   rest |-> SubSeq(data, Upto(k) + Width(k + 1) + 1, Len(data))]}
            ELSE {}
    BY <2>1, TakeIs
  <2>3. Upto(k) + Width(k + 1) = Upto(k + 1)
    BY UptoIs
  <2>. QED
    BY <2>1, <2>2, <2>3
<1>5. ReadField(data, Name(k + 1)) = Significant(Kept(Name(k + 1), piece))
  BY UptoIs DEF ReadField
<1>. HIDE DEF rest, left, piece
<1>6. TakeField({read}, Layout[k + 1])
        = {[fields |-> WithField(ReadTo(data, k), Name(k + 1), Significant(Kept(Name(k + 1), t.taken))),
            rest |-> t.rest] : t \in Take(rest, Width(k + 1))}
  BY <1>3 DEF TakeField
<1>7. {[fields |-> WithField(ReadTo(data, k), Name(k + 1), Significant(Kept(Name(k + 1), t.taken))),
        rest |-> t.rest] : t \in {[taken |-> piece, rest |-> left]}}
        = {[fields |-> WithField(ReadTo(data, k), Name(k + 1), Significant(Kept(Name(k + 1), piece))),
            rest |-> left]}
  OBVIOUS
<1>8. WithField(ReadTo(data, k), Name(k + 1), Significant(Kept(Name(k + 1), piece))) = ReadTo(data, k + 1)
  BY <1>5, ReadNext
<1>. QED
  BY <1>4, <1>6, <1>7, <1>8 DEF left, rest

LEMMA FixedRead ==
  ASSUME NEW data \in ByteStrings, Len(data) >= 235
  PROVE  TakeFixed(data) = {[fields |-> ReadTo(data, 17), rest |-> SubSeq(data, 236, Len(data))]}
<1>1. PICK g : /\ TakeFixed(data) = g[1..17]
               /\ g[1..0] = {[fields |-> << >>, rest |-> data]}
               /\ \A k \in 1..17 : g[1..k] = TakeField(g[1..(k - 1)], Layout[k])
  BY ReadBy
<1>. DEFINE Read(k) == {[fields |-> ReadTo(data, k), rest |-> SubSeq(data, Upto(k) + 1, Len(data))]}
            T == {k \in 0..17 : g[1..k] = Read(k)}
<1>2. 0 \in T
  <2>1. data \in Seq(Nat)
    BY DEF ByteStrings
  <2>2. SubSeq(data, 1, Len(data)) = data
    BY <2>1, SubSeqFull
  <2>3. ReadTo(data, 0) = << >>
    <3>1. {Name(i) : i \in 1..0} = {}
      OBVIOUS
    <3>2. << >> = [n \in {} |-> ReadField(data, n)]
      OBVIOUS
    <3>. QED
      BY <3>1, <3>2 DEF ReadTo
  <2>4. Upto(0) = 0 /\ 0 + 1 = 1
    BY DEF Upto
  <2>5. Read(0) = {[fields |-> << >>, rest |-> data]}
    BY <2>2, <2>3, <2>4
  <2>6. 0 \in 0..17
    OBVIOUS
  <2>. HIDE DEF Read
  <2>. QED
    BY <1>1, <2>5, <2>6
<1>3. ASSUME NEW k \in 0..(17 - 1), k \in T PROVE k + 1 \in T
  <2>1. k + 1 \in 1..17 /\ (k + 1) - 1 = k /\ k \in 0..16 /\ k + 1 \in 0..17
    OBVIOUS
  <2>2. g[1..(k + 1)] = TakeField(g[1..k], Layout[k + 1])
    BY <1>1, <2>1
  <2>3. g[1..k] = Read(k)
    BY <1>3
  <2>4. TakeField(Read(k), Layout[k + 1]) = Read(k + 1)
    BY <2>1, TakeFieldIs
  <2>. HIDE DEF Read
  <2>. QED
    BY <2>1, <2>2, <2>3, <2>4
<1>4. \A k \in 0..17 : k \in T
  <2>1. 17 \in Nat
    OBVIOUS
  <2>. HIDE DEF T
  <2>. QED
    BY <1>2, <1>3, <2>1, Induction
<1>5. g[1..17] = Read(17)
  <2>. HIDE DEF Read
  <2>. QED
    BY <1>4
<1>6. Upto(17) + 1 = 236
  <2>1. 17 \in 1..17
    OBVIOUS
  <2>2. End(17) = 235
    BY <2>1, SlicesIs
  <2>. QED
    BY <2>2 DEF Upto
<1>. QED
  BY <1>1, <1>5, <1>6

LEMMA Uint16Is ==
  ASSUME NEW data \in ByteStrings, NEW a \in Nat, a + 2 <= Len(data)
  PROVE  /\ Uint16(SubSeq(data, a + 1, a + 2)) \in Nat
         /\ Uint16(SubSeq(data, a + 1, a + 2)) = 256 * data[a + 1] + data[a + 2]
<1>. DEFINE two == SubSeq(data, a + 1, a + 2)
<1>1. data \in Seq(Nat) /\ Len(data) \in Nat
  BY DEF ByteStrings
<1>2. a + 1 \in 1..Len(data) /\ a + 2 \in 1..Len(data)
  BY <1>1
<1>3. data[a + 1] \in Nat /\ data[a + 2] \in Nat
  BY <1>1, <1>2, ElementOfSeq
<1>4. \A i \in 1..((a + 2) - (a + 1) + 1) : two[i] = data[(a + 1) + i - 1]
  <2>1. a + 1 \in Int /\ a + 2 \in Int /\ \A i \in (a + 1)..(a + 2) : data[i] \in Nat
    <3>1. ASSUME NEW i \in (a + 1)..(a + 2) PROVE data[i] \in Nat
      <4>1. i = a + 1 \/ i = a + 2
        OBVIOUS
      <4>. QED
        BY <1>3, <4>1
    <3>. QED
      BY <3>1
  <2>. DEFINE first == a + 1
              last == a + 2
  <2>2. first \in Int /\ last \in Int /\ \A i \in first..last : data[i] \in Nat
    BY <2>1
  <2>. HIDE DEF first, last
  <2>3. \A i \in 1..(last - first + 1) : SubSeq(data, first, last)[i] = data[first + i - 1]
    <3>. DEFINE S == Nat
    <3>1. \A i \in first..last : data[i] \in S
      BY <2>2
    <3>. HIDE DEF S
    <3>. QED
      BY <2>2, <3>1, SubSeqProperties
  <2>. QED
    BY <2>3, Zenon DEF first, last
<1>5. two[1] = data[a + 1] /\ two[2] = data[a + 2]
  <2>1. 1 \in 1..((a + 2) - (a + 1) + 1) /\ (a + 1) + 1 - 1 = a + 1
    OBVIOUS
  <2>2. 2 \in 1..((a + 2) - (a + 1) + 1) /\ (a + 1) + 2 - 1 = a + 2
    OBVIOUS
  <2>. HIDE DEF two
  <2>. QED
    BY <1>4, <2>1, <2>2
<1>. HIDE DEF two
<1>6. Uint16(two) = 256 * data[a + 1] + data[a + 2]
  BY <1>5 DEF Uint16
<1>7. 256 * data[a + 1] + data[a + 2] \in Nat
  BY <1>3
<1>. QED
  BY <1>6, <1>7 DEF two

\* What follows its length in two bytes.
Size(data, a) == Uint16(SubSeq(data, a + 1, a + 2))

LEMMA TakeBytesIs ==
  ASSUME NEW data \in ByteStrings, NEW a \in 0..Len(data)
  PROVE  TakeBytes(SubSeq(data, a + 1, Len(data)))
           = IF a + 2 <= Len(data) /\ a + 2 + Size(data, a) <= Len(data)
             THEN {[taken |-> SubSeq(data, a + 3, a + 2 + Size(data, a)),
                    rest |-> SubSeq(data, a + 3 + Size(data, a), Len(data))]}
             ELSE {}
<1>. DEFINE rest == SubSeq(data, a + 1, Len(data))
            n == Size(data, a)
            left == SubSeq(data, a + 3, Len(data))
            found == {[taken |-> SubSeq(data, a + 3, a + 2 + n), rest |-> SubSeq(data, a + 3 + n, Len(data))]}
<1>1. Len(data) \in Nat /\ a \in Nat
  BY DEF ByteStrings
<1>2. Take(rest, 2) = IF a + 2 <= Len(data)
                      THEN {[taken |-> SubSeq(data, a + 1, a + 2), rest |-> SubSeq(data, a + 2 + 1, Len(data))]}
                      ELSE {}
  <2>1. 2 \in Nat
    OBVIOUS
  <2>. QED
    BY <2>1, TakeIs
<1>3. a + 2 + 1 = a + 3
  BY <1>1
<1>4. CASE a + 2 <= Len(data)
  <2>1. n \in Nat
    BY <1>1, <1>4, Uint16Is DEF Size
  <2>2. Take(rest, 2) = {[taken |-> SubSeq(data, a + 1, a + 2), rest |-> left]}
    BY <1>2, <1>3, <1>4
  <2>3. Take(left, n) = IF a + 2 + n <= Len(data) THEN found ELSE {}
    <3>1. a + 2 \in 0..Len(data)
      BY <1>1, <1>4
    <3>2. Take(SubSeq(data, (a + 2) + 1, Len(data)), n)
            = IF a + 2 + n <= Len(data)
              THEN {[taken |-> SubSeq(data, (a + 2) + 1, a + 2 + n),
                     rest |-> SubSeq(data, (a + 2) + n + 1, Len(data))]}
              ELSE {}
      BY <2>1, <3>1, TakeIs
    <3>3. (a + 2) + n + 1 = a + 3 + n
      BY <1>1, <2>1
    <3>. QED
      BY <1>3, <3>2, <3>3
  <2>. HIDE DEF rest, left, found
  <2>4. TakeBytes(rest) = UNION {Take(l.rest, Uint16(l.taken)) :
                                   l \in {[taken |-> SubSeq(data, a + 1, a + 2), rest |-> left]}}
    BY <2>2 DEF TakeBytes
  <2>5. TakeBytes(rest) = Take(left, n)
    <3>. DEFINE two == SubSeq(data, a + 1, a + 2)
    <3>1. n = Uint16(two)
      BY DEF Size
    <3>. HIDE DEF two, n
    <3>2. UNION {Take(l.rest, Uint16(l.taken)) : l \in {[taken |-> two, rest |-> left]}}
            = Take(left, Uint16(two))
      OBVIOUS
    <3>. QED
      BY <2>4, <3>1, <3>2 DEF two
  <2>6. CASE a + 2 + n <= Len(data)
    BY <1>4, <2>3, <2>5, <2>6 DEF rest, found
  <2>7. CASE ~(a + 2 + n <= Len(data))
    BY <1>4, <2>3, <2>5, <2>7 DEF rest
  <2>. QED
    BY <2>6, <2>7
<1>5. CASE ~(a + 2 <= Len(data))
  <2>1. Take(rest, 2) = {}
    BY <1>2, <1>5
  <2>. HIDE DEF rest
  <2>2. TakeBytes(rest) = {}
    BY <2>1 DEF TakeBytes
  <2>. QED
    BY <1>5, <2>2 DEF rest
<1>. QED
  BY <1>4, <1>5

\* Where the game's bytes end, and the session that whole bytes are read as.
DataEnd(data) == 237 + Size(data, 235)
StateEnd(data) == DataEnd(data) + 2 + Size(data, DataEnd(data))
Whole(data) ==
  /\ Len(data) >= 239 /\ Len(data) >= DataEnd(data) + 2
  /\ Len(data) = StateEnd(data)
ReadSession(data) ==
  SessionOf(ReadTo(data, 17), SubSeq(data, 238, DataEnd(data)),
            SubSeq(data, DataEnd(data) + 3, StateEnd(data)))

LEMMA TsDecodeIs ==
  ASSUME NEW data \in ByteStrings
  PROVE  TsDecode(data) = IF Whole(data) THEN {ReadSession(data)} ELSE {}
<1>1. Len(data) \in Nat /\ data \in Seq(Nat)
  BY DEF ByteStrings
<1>2. CASE Len(data) < 239
  <2>1. ~Whole(data)
    BY <1>1, <1>2 DEF Whole
  <2>2. TsDecode(data) = {}
    BY <1>2 DEF TsDecode, FixedLength
  <2>. QED
    BY <2>1, <2>2
<1>3. CASE Len(data) >= 239
  <2>. DEFINE fields == ReadTo(data, 17)
              rest == SubSeq(data, 236, Len(data))
              dataEnd == DataEnd(data)
              game == SubSeq(data, 238, dataEnd)
              left == SubSeq(data, dataEnd + 1, Len(data))
              stateEnd == StateEnd(data)
              state == SubSeq(data, dataEnd + 3, stateEnd)
              last == SubSeq(data, stateEnd + 1, Len(data))
  <2>1. TakeFixed(data) = {[fields |-> fields, rest |-> rest]}
    <3>1. Len(data) >= 235
      BY <1>1, <1>3
    <3>. QED
      BY <3>1, FixedRead
  <2>2. Size(data, 235) \in Nat
    <3>1. 235 \in Nat /\ 235 + 2 <= Len(data)
      BY <1>1, <1>3
    <3>. QED
      BY <3>1, Uint16Is DEF Size
  <2>3. dataEnd \in Nat /\ dataEnd >= 237
    BY <2>2 DEF DataEnd
  <2>4. TakeBytes(rest) = IF dataEnd <= Len(data) THEN {[taken |-> game, rest |-> left]} ELSE {}
    <3>1. 235 \in 0..Len(data) /\ 235 + 2 <= Len(data)
      BY <1>1, <1>3
    <3>2. /\ 235 + 1 = 236 /\ 235 + 3 = 238 /\ 235 + 2 + Size(data, 235) = dataEnd
          /\ 235 + 3 + Size(data, 235) = dataEnd + 1
      BY <2>2 DEF DataEnd
    <3>3. TakeBytes(SubSeq(data, 235 + 1, Len(data)))
            = IF 235 + 2 <= Len(data) /\ 235 + 2 + Size(data, 235) <= Len(data)
              THEN {[taken |-> SubSeq(data, 235 + 3, 235 + 2 + Size(data, 235)),
                     rest |-> SubSeq(data, 235 + 3 + Size(data, 235), Len(data))]}
              ELSE {}
      BY <3>1, TakeBytesIs
    <3>4. /\ rest = SubSeq(data, 235 + 1, Len(data))
          /\ game = SubSeq(data, 235 + 3, dataEnd)
          /\ left = SubSeq(data, 235 + 3 + Size(data, 235), Len(data))
      <4>. HIDE DEF dataEnd
      <4>. QED
        BY <3>2
    <3>. HIDE DEF dataEnd, rest, game, left
    <3>. QED
      BY <3>1, <3>2, <3>3, <3>4
  <2>5. TsDecode(data)
          = UNION {UNION {{SessionOf(fixed.fields, d.taken, s.taken) :
                             s \in {t \in TakeBytes(d.rest) : t.rest = << >>}} :
                            d \in TakeBytes(fixed.rest)} : fixed \in TakeFixed(data)}
    <3>1. ~(Len(data) < FixedLength + 4)
      BY <1>1, <1>3 DEF FixedLength
    <3>. QED
      BY <3>1 DEF TsDecode
  <2>. HIDE DEF fields, rest
  <2>6. TsDecode(data)
          = UNION {{SessionOf(fields, d.taken, s.taken) :
                      s \in {t \in TakeBytes(d.rest) : t.rest = << >>}} : d \in TakeBytes(rest)}
    <3>1. UNION {UNION {{SessionOf(fixed.fields, d.taken, s.taken) :
                             s \in {t \in TakeBytes(d.rest) : t.rest = << >>}} :
                            d \in TakeBytes(fixed.rest)} : fixed \in {[fields |-> fields, rest |-> rest]}}
            = UNION {{SessionOf(fields, d.taken, s.taken) :
                      s \in {t \in TakeBytes(d.rest) : t.rest = << >>}} : d \in TakeBytes(rest)}
      OBVIOUS
    <3>. QED
      BY <2>1, <2>5, <3>1
  <2>7. CASE ~(dataEnd <= Len(data))
    <3>1. TsDecode(data) = {}
      BY <2>4, <2>6, <2>7
    <3>2. ~Whole(data)
      BY <1>1, <2>3, <2>7 DEF Whole
    <3>. QED
      BY <3>1, <3>2
  <2>8. CASE dataEnd <= Len(data)
    <3>. HIDE DEF game, left
    <3>1. TsDecode(data)
            = {SessionOf(fields, game, s.taken) : s \in {t \in TakeBytes(left) : t.rest = << >>}}
      <4>1. UNION {{SessionOf(fields, d.taken, s.taken) :
                      s \in {t \in TakeBytes(d.rest) : t.rest = << >>}} :
                    d \in {[taken |-> game, rest |-> left]}}
              = {SessionOf(fields, game, s.taken) : s \in {t \in TakeBytes(left) : t.rest = << >>}}
        OBVIOUS
      <4>2. TakeBytes(rest) = {[taken |-> game, rest |-> left]}
        BY <2>4, <2>8
      <4>. QED
        BY <2>6, <4>1, <4>2
    <3>2. TakeBytes(left)
            = IF dataEnd + 2 <= Len(data) /\ stateEnd <= Len(data)
              THEN {[taken |-> state, rest |-> last]} ELSE {}
      <4>1. dataEnd \in 0..Len(data)
        BY <1>1, <2>3, <2>8
      <4>2. TakeBytes(SubSeq(data, dataEnd + 1, Len(data)))
              = IF dataEnd + 2 <= Len(data) /\ dataEnd + 2 + Size(data, dataEnd) <= Len(data)
                THEN {[taken |-> SubSeq(data, dataEnd + 3, dataEnd + 2 + Size(data, dataEnd)),
                       rest |-> SubSeq(data, dataEnd + 3 + Size(data, dataEnd), Len(data))]}
                ELSE {}
        <5>. HIDE DEF dataEnd
        <5>. QED
          BY <4>1, TakeBytesIs
      <4>3. dataEnd + 2 + Size(data, dataEnd) = stateEnd
        BY DEF StateEnd
      <4>4. CASE dataEnd + 2 <= Len(data)
        <5>1. Size(data, dataEnd) \in Nat
          BY <2>3, <4>4, Uint16Is DEF Size
        <5>2. dataEnd + 3 + Size(data, dataEnd) = stateEnd + 1
          BY <2>3, <5>1 DEF StateEnd
        <5>. HIDE DEF dataEnd, stateEnd
        <5>. QED
          BY <4>2, <4>3, <5>2 DEF left
      <4>5. CASE ~(dataEnd + 2 <= Len(data))
        <5>. HIDE DEF dataEnd, stateEnd
        <5>. QED
          BY <4>2, <4>5 DEF left
      <4>. QED
        BY <4>4, <4>5
    <3>3. CASE ~(dataEnd + 2 <= Len(data) /\ stateEnd <= Len(data))
      <4>1. TakeBytes(left) = {}
        BY <3>2, <3>3
      <4>2. TsDecode(data) = {}
        BY <3>1, <4>1
      <4>3. ~Whole(data)
        <5>1. Whole(data) => dataEnd + 2 <= Len(data) /\ stateEnd <= Len(data)
          <6>1. Whole(data) => Len(data) >= dataEnd + 2 /\ Len(data) = stateEnd
            BY DEF Whole
          <6>. HIDE DEF dataEnd, stateEnd
          <6>. QED
            BY <1>1, <2>3, <6>1
        <5>. QED
          BY <3>3, <5>1
      <4>. QED
        BY <4>2, <4>3
    <3>4. CASE dataEnd + 2 <= Len(data) /\ stateEnd <= Len(data)
      <4>1. TakeBytes(left) = {[taken |-> state, rest |-> last]}
        BY <3>2, <3>4
      <4>2. stateEnd \in Nat
        <5>1. Size(data, dataEnd) \in Nat
          BY <2>3, <3>4, Uint16Is DEF Size
        <5>. QED
          BY <2>3, <5>1 DEF StateEnd
      <4>3. last = << >> <=> stateEnd = Len(data)
        <5>1. CASE stateEnd = Len(data)
          <6>1. Len(data) < stateEnd + 1 /\ stateEnd + 1 \in Int /\ Len(data) \in Int
            BY <1>1, <4>2, <5>1
          <6>2. last = << >>
            BY <6>1, SubSeqEmpty
          <6>. QED
            BY <5>1, <6>2
        <5>2. CASE stateEnd # Len(data)
          <6>1. stateEnd \in 0..Len(data) /\ 1 \in Nat \ {0} /\ 0 \in Nat /\ 0 <= Len(data) - stateEnd
            BY <1>1, <3>4, <4>2, <5>2
          <6>2. Len(last) = Len(data) - stateEnd
            BY <6>1, SubSub
          <6>3. Len(last) # 0
            BY <1>1, <4>2, <5>2, <6>2
          <6>. HIDE DEF last, stateEnd
          <6>4. Len(<< >>) = 0
            BY EmptySeq
          <6>5. last # << >>
            BY <6>3, <6>4
          <6>. QED
            BY <5>2, <6>5
        <5>. HIDE DEF last, stateEnd
        <5>. QED
          BY <5>1, <5>2
      <4>4. Whole(data) <=> stateEnd = Len(data)
        <5>1. Whole(data) <=> Len(data) >= dataEnd + 2 /\ Len(data) = stateEnd
          BY <1>3 DEF Whole
        <5>. HIDE DEF dataEnd, stateEnd
        <5>. QED
          BY <1>1, <2>3, <3>4, <5>1
      <4>. HIDE DEF state, last
      <4>5. TsDecode(data) = IF last = << >> THEN {SessionOf(fields, game, state)} ELSE {}
        <5>1. {t \in {[taken |-> state, rest |-> last]} : t.rest = << >>}
                = IF last = << >> THEN {[taken |-> state, rest |-> last]} ELSE {}
          OBVIOUS
        <5>2. CASE last = << >>
          <6>1. {SessionOf(fields, game, s.taken) : s \in {[taken |-> state, rest |-> last]}}
                  = {SessionOf(fields, game, state)}
            OBVIOUS
          <6>. QED
            BY <3>1, <4>1, <5>1, <5>2, <6>1
        <5>3. CASE last # << >>
          <6>1. {t \in {[taken |-> state, rest |-> last]} : t.rest = << >>} = {}
            BY <5>3
          <6>. QED
            BY <3>1, <4>1, <5>3, <6>1
        <5>. QED
          BY <5>2, <5>3
      <4>6. ReadSession(data) = SessionOf(fields, game, state)
        BY DEF ReadSession, fields, game, state
      <4>. QED
        BY <4>3, <4>4, <4>5, <4>6
    <3>. QED
      BY <3>3, <3>4
  <2>. QED
    BY <2>7, <2>8
<1>. QED
  BY <1>1, <1>2, <1>3

LEMMA SolDecodeIs ==
  ASSUME NEW data \in ByteStrings
  PROVE  SolDecode(data) = IF Whole(data) /\ ~(data[178] > MaxPhase) THEN {ReadSession(data)} ELSE {}
<1>. DEFINE bad(dataEnd, stateEnd) ==
              \/ Len(data) < FixedLength + 4 \/ Len(data) < dataEnd + 2
              \/ Len(data) # stateEnd \/ data[Slices.phase[2]] > MaxPhase
            fields == [n \in Names |-> Significant(Kept(n, SubSeq(data, Slices[n][1] + 1, Slices[n][2])))]
            game == SubSeq(data, 238, DataEnd(data))
            state == SubSeq(data, DataEnd(data) + 3, StateEnd(data))
<1>1. Len(data) \in Nat
  BY DEF ByteStrings
<1>2. fields = ReadTo(data, 17)
  BY LayoutIs DEF ReadTo, ReadField
<1>3. FixedLength + 2 = 237 /\ FixedLength + 4 = 239 /\ FixedLength + 1 = 236 /\ 237 + 1 = 238
      /\ FixedLength = 235 /\ 235 + 1 = 236 /\ 235 + 2 = 237
  BY DEF FixedLength
<1>4. Slices.phase[2] = 178
  BY DEF Slices
<1>5. FixedLength + 2 + Uint16(SubSeq(data, FixedLength + 1, FixedLength + 2)) = DataEnd(data)
  BY <1>3 DEF DataEnd, Size
<1>6. DataEnd(data) + 2 + Uint16(SubSeq(data, DataEnd(data) + 1, DataEnd(data) + 2)) = StateEnd(data)
  BY DEF StateEnd, Size
<1>7. DataEnd(data) + 2 + 1 = DataEnd(data) + 3 \/ Len(data) < 239
  <2>1. CASE Len(data) < 239
    BY <2>1
  <2>2. CASE ~(Len(data) < 239)
    <3>1. 235 \in Nat /\ 235 + 2 <= Len(data)
      BY <1>1, <2>2
    <3>2. Size(data, 235) \in Nat
      BY <3>1, Uint16Is DEF Size
    <3>. QED
      BY <3>2 DEF DataEnd
  <2>. QED
    BY <2>1, <2>2
<1>. HIDE DEF fields
<1>8. SolDecode(data)
        = IF \/ Len(data) < 239 \/ Len(data) < DataEnd(data) + 2
             \/ Len(data) # StateEnd(data) \/ data[178] > MaxPhase
          THEN {}
          ELSE {SessionOf(fields, SubSeq(data, 237 + 1, DataEnd(data)),
                          SubSeq(data, DataEnd(data) + 2 + 1, StateEnd(data)))}
  <2>. DEFINE sol(dataEnd, stateEnd) ==
                IF bad(dataEnd, stateEnd) THEN {}
                ELSE {SessionOf(fields, SubSeq(data, FixedLength + 2 + 1, dataEnd),
                                SubSeq(data, dataEnd + 2 + 1, stateEnd))}
              end == FixedLength + 2 + Uint16(SubSeq(data, FixedLength + 1, FixedLength + 2))
  <2>1. SolDecode(data) = sol(end, end + 2 + Uint16(SubSeq(data, end + 1, end + 2)))
    BY DEF SolDecode, fields
  <2>2. end = DataEnd(data)
    BY <1>5
  <2>3. end + 2 + Uint16(SubSeq(data, end + 1, end + 2)) = StateEnd(data)
    <3>. HIDE DEF end
    <3>. QED
      BY <1>6, <2>2
  <2>4. SolDecode(data) = sol(DataEnd(data), StateEnd(data))
    <3>. HIDE DEF end, sol
    <3>. QED
      BY <2>1, <2>2, <2>3
  <2>. QED
    BY <1>3, <1>4, <2>4
<1>9. CASE Whole(data) /\ ~(data[178] > MaxPhase)
  <2>1. /\ ~(Len(data) < 239) /\ ~(Len(data) < DataEnd(data) + 2)
        /\ ~(Len(data) # StateEnd(data)) /\ ~(data[178] > MaxPhase)
    <3>1. Len(data) >= 239 /\ Len(data) >= DataEnd(data) + 2 /\ Len(data) = StateEnd(data)
      BY <1>9 DEF Whole
    <3>2. DataEnd(data) \in Int
      <4>1. 235 \in Nat /\ 235 + 2 <= Len(data)
        BY <1>1, <3>1
      <4>2. Size(data, 235) \in Nat
        BY <4>1, Uint16Is DEF Size
      <4>. QED
        BY <4>2 DEF DataEnd
    <3>. QED
      BY <1>1, <1>9, <3>1, <3>2
  <2>2. SolDecode(data) = {SessionOf(fields, SubSeq(data, 238, DataEnd(data)),
                                     SubSeq(data, DataEnd(data) + 3, StateEnd(data)))}
    BY <1>3, <1>7, <1>8, <2>1
  <2>. QED
    BY <1>2, <1>9, <2>2 DEF ReadSession
<1>10. CASE ~(Whole(data) /\ ~(data[178] > MaxPhase))
  <2>1. \/ Len(data) < 239 \/ Len(data) < DataEnd(data) + 2
        \/ Len(data) # StateEnd(data) \/ data[178] > MaxPhase
    <3>1. CASE Len(data) < 239
      BY <3>1
    <3>2. CASE ~(Len(data) < 239)
      <4>1. 235 \in Nat /\ 235 + 2 <= Len(data) /\ Len(data) >= 239
        BY <1>1, <3>2
      <4>2. Size(data, 235) \in Nat
        BY <4>1, Uint16Is DEF Size
      <4>3. DataEnd(data) \in Nat
        BY <4>2 DEF DataEnd
      <4>4. ~(Len(data) >= DataEnd(data) + 2) => Len(data) < DataEnd(data) + 2
        BY <1>1, <4>3
      <4>. QED
        BY <1>10, <4>1, <4>4 DEF Whole
    <3>. QED
      BY <3>1, <3>2
  <2>2. SolDecode(data) = {}
    BY <1>8, <2>1
  <2>. QED
    BY <1>10, <2>2
<1>. QED
  BY <1>9, <1>10

\* The contract takes no bytes that the page refuses, refuses no others than those
\* of an unknown phase, and reads every field where the page does.
LEMMA DecodersAgree ==
  ASSUME NEW data \in ByteStrings
  PROVE  /\ ~(data[178] > MaxPhase) => SolDecode(data) = TsDecode(data)
         /\ data[178] > MaxPhase => SolDecode(data) = {}
         /\ ~Whole(data) => SolDecode(data) = {} /\ TsDecode(data) = {}
BY SolDecodeIs, TsDecodeIs

LEMMA ConcatAt ==
  ASSUME NEW a \in ByteStrings, NEW b \in ByteStrings
  PROVE  /\ a \o b \in ByteStrings /\ Len(a \o b) = Len(a) + Len(b)
         /\ \A i \in 1..Len(a) : (a \o b)[i] = a[i]
         /\ \A i \in 1..Len(b) : (a \o b)[Len(a) + i] = b[i]
<1>1. a \in Seq(Nat) /\ b \in Seq(Nat) /\ Len(a) \in Nat /\ Len(b) \in Nat
  BY DEF ByteStrings
<1>2. /\ a \o b \in Seq(Nat) /\ Len(a \o b) = Len(a) + Len(b)
      /\ \A i \in 1..(Len(a) + Len(b)) : (a \o b)[i] = IF i <= Len(a) THEN a[i] ELSE b[i - Len(a)]
  BY <1>1, ConcatProperties
<1>3. ASSUME NEW i \in 1..Len(a) PROVE (a \o b)[i] = a[i]
  <2>1. i \in 1..(Len(a) + Len(b)) /\ i <= Len(a)
    BY <1>1
  <2>. QED
    BY <1>2, <2>1
<1>4. ASSUME NEW i \in 1..Len(b) PROVE (a \o b)[Len(a) + i] = b[i]
  <2>1. /\ Len(a) + i \in 1..(Len(a) + Len(b)) /\ ~(Len(a) + i <= Len(a))
        /\ (Len(a) + i) - Len(a) = i
    BY <1>1
  <2>. QED
    BY <1>2, <2>1
<1>. QED
  BY <1>2, <1>3, <1>4 DEF ByteStrings

LEMMA WidthIs ==
  ASSUME NEW k \in 1..17
  PROVE  Width(k) \in Nat /\ Begin(k) \in Nat /\ End(k) = Begin(k) + Width(k)
<1>1. Width(k) \in 1..32 /\ Begin(k) \in Nat /\ End(k) = Begin(k) + Width(k)
  BY SlicesIs
<1>2. \A w \in 1..32 : w \in Nat
  OBVIOUS
<1>. QED
  BY <1>1, <1>2, Zenon

\* The fixed part of a session whose fields fit: each field is where the contract
\* looks for it.
LEMMA FixedPartAt ==
  ASSUME NEW s \in AnySession, AllFit(s)
  PROVE  /\ FixedPart(s) \in ByteStrings /\ Len(FixedPart(s)) = 235
         /\ \A k \in 1..17 : \A j \in 1..Width(k) : FixedPart(s)[Begin(k) + j] = Piece(s, k)[j]
<1>1. PICK h \in [1..17 -> ByteStrings] :
         /\ FixedPart(s) = h[17]
         /\ h[1] = Piece(s, 1)
         /\ \A k \in 2..17 : h[k] = h[k - 1] \o Piece(s, k)
  BY FixedPartIs
<1>2. \A k \in 1..17 : Piece(s, k) \in Seq(Nat) /\ Len(Piece(s, k)) = Width(k) /\ h[k] \in Seq(Nat)
  BY PieceIs DEF AllFit, ByteStrings
<1>. DEFINE At(k, i) == \A j \in 1..Width(i) :
                          Begin(i) + j \in 1..Len(h[k]) /\ h[k][Begin(i) + j] = Piece(s, i)[j]
            Good(k) == Len(h[k]) = End(k) /\ \A i \in 1..k : At(k, i)
            T == {k \in 0..17 : k # 0 => Good(k)}
<1>3. 0 \in T
  OBVIOUS
<1>4. ASSUME NEW k \in 0..(17 - 1), k \in T PROVE k + 1 \in T
  <2>1. k + 1 \in 1..17 /\ k + 1 \in 0..17 /\ (k + 1) - 1 = k
    OBVIOUS
  <2>2. /\ Width(k + 1) \in Nat /\ Begin(k + 1) \in Nat
        /\ End(k + 1) = Begin(k + 1) + Width(k + 1)
        /\ Begin(k + 1) = IF k + 1 = 1 THEN 0 ELSE End(k)
    <3>1. Begin(k + 1) = IF k + 1 = 1 THEN 0 ELSE End(k)
      BY <2>1, SlicesIs
    <3>. QED
      BY <2>1, <3>1, WidthIs
  <2>3. CASE k = 0
    <3>1. h[k + 1] = Piece(s, k + 1) /\ Begin(k + 1) = 0
      BY <1>1, <2>2, <2>3
    <3>2. Len(h[k + 1]) = End(k + 1)
      <4>1. Len(h[k + 1]) = Width(k + 1)
        BY <1>2, <2>1, <3>1
      <4>. QED
        BY <2>2, <3>1, <4>1
    <3>3. ASSUME NEW j \in 1..Width(k + 1)
          PROVE  Begin(k + 1) + j \in 1..Len(h[k + 1])
                 /\ h[k + 1][Begin(k + 1) + j] = Piece(s, k + 1)[j]
      <4>1. Begin(k + 1) + j = j
        BY <2>2, <3>1
      <4>2. Len(h[k + 1]) = Width(k + 1)
        BY <1>2, <2>1, <3>1
      <4>. QED
        BY <3>1, <4>1, <4>2
    <3>4. At(k + 1, k + 1)
      BY <3>3
    <3>5. \A i \in 1..(k + 1) : i = k + 1
      BY <2>3
    <3>. HIDE DEF At
    <3>6. Good(k + 1)
      BY <3>2, <3>4, <3>5
    <3>. HIDE DEF Good
    <3>. QED
      BY <2>1, <3>6
  <2>4. CASE k # 0
    <3>1. k \in 1..17 /\ k + 1 \in 2..17
      BY <2>4
    <3>2. h[k + 1] = h[k] \o Piece(s, k + 1)
      BY <1>1, <2>1, <3>1
    <3>3. Good(k)
      BY <1>4, <2>4
    <3>4. Len(h[k]) = Begin(k + 1) /\ Len(h[k]) \in Nat
      BY <2>2, <3>1, <3>3
    <3>5. /\ h[k] \in Seq(Nat) /\ Piece(s, k + 1) \in Seq(Nat)
          /\ Len(Piece(s, k + 1)) = Width(k + 1)
      BY <1>2, <2>1, <3>1
    <3>6. /\ Len(h[k + 1]) = Len(h[k]) + Width(k + 1)
          /\ \A x \in 1..Len(h[k]) : h[k + 1][x] = h[k][x]
          /\ \A x \in 1..Width(k + 1) : h[k + 1][Len(h[k]) + x] = Piece(s, k + 1)[x]
      <4>1. /\ Len(h[k] \o Piece(s, k + 1)) = Len(h[k]) + Len(Piece(s, k + 1))
            /\ \A x \in 1..Len(h[k]) : (h[k] \o Piece(s, k + 1))[x] = h[k][x]
            /\ \A x \in 1..Len(Piece(s, k + 1)) :
                 (h[k] \o Piece(s, k + 1))[Len(h[k]) + x] = Piece(s, k + 1)[x]
        BY <3>5, ConcatAt DEF ByteStrings
      <4>. QED
        BY <3>2, <3>5, <4>1
    <3>7. Len(h[k + 1]) = End(k + 1)
      BY <2>2, <3>4, <3>6
    <3>8. ASSUME NEW i \in 1..k, NEW j \in 1..Width(i)
          PROVE  Begin(i) + j \in 1..Len(h[k + 1])
                 /\ h[k + 1][Begin(i) + j] = Piece(s, i)[j]
      <4>1. Begin(i) + j \in 1..Len(h[k]) /\ h[k][Begin(i) + j] = Piece(s, i)[j]
        BY <3>3
      <4>2. h[k + 1][Begin(i) + j] = h[k][Begin(i) + j]
        BY <3>6, <4>1
      <4>3. Begin(i) + j \in 1..Len(h[k + 1])
        <5>1. \A u, v \in Nat : \A w \in 1..u : w \in 1..(u + v)
          OBVIOUS
        <5>. QED
          BY <2>2, <3>4, <3>6, <4>1, <5>1, Zenon
      <4>. QED
        BY <4>1, <4>2, <4>3
    <3>9. ASSUME NEW j \in 1..Width(k + 1)
          PROVE  Begin(k + 1) + j \in 1..Len(h[k + 1])
                 /\ h[k + 1][Begin(k + 1) + j] = Piece(s, k + 1)[j]
      <4>1. h[k + 1][Begin(k + 1) + j] = Piece(s, k + 1)[j]
        BY <3>4, <3>6
      <4>2. Begin(k + 1) + j \in 1..Len(h[k + 1])
        <5>1. \A u, v \in Nat : \A w \in 1..v : u + w \in 1..(u + v)
          OBVIOUS
        <5>2. Len(h[k + 1]) = Begin(k + 1) + Width(k + 1)
          BY <3>4, <3>6
        <5>. QED
          BY <2>2, <5>1, <5>2, Zenon
      <4>. QED
        BY <4>1, <4>2
    <3>10. \A i \in 1..k : At(k + 1, i)
      BY <3>8
    <3>11. At(k + 1, k + 1)
      BY <3>9
    <3>12. \A i \in 1..(k + 1) : i \in 1..k \/ i = k + 1
      OBVIOUS
    <3>. HIDE DEF At
    <3>13. Good(k + 1)
      BY <3>7, <3>10, <3>11, <3>12
    <3>. HIDE DEF Good
    <3>. QED
      BY <2>1, <3>13
  <2>. QED
    BY <2>3, <2>4
<1>5. \A k \in 0..17 : k \in T
  <2>1. 17 \in Nat
    OBVIOUS
  <2>. HIDE DEF T
  <2>. QED
    BY <1>3, <1>4, <2>1, Induction
<1>6. Good(17)
  <2>1. 17 \in 0..17 /\ 17 # 0
    OBVIOUS
  <2>. HIDE DEF Good
  <2>. QED
    BY <1>5, <2>1
<1>7. End(17) = 235 /\ 17 \in 1..17
  <2>1. 17 \in 1..17
    OBVIOUS
  <2>. QED
    BY <2>1, SlicesIs
<1>8. FixedPart(s) \in ByteStrings /\ Len(FixedPart(s)) = 235
  BY <1>1, <1>6, <1>7
<1>9. \A k \in 1..17 : \A j \in 1..Width(k) : FixedPart(s)[Begin(k) + j] = Piece(s, k)[j]
  BY <1>1, <1>6
<1>. QED
  BY <1>8, <1>9

\* The whole message of such a session.
Message(s) == FixedPart(s) \o LengthPrefixed(s.gameData) \o LengthPrefixed(s.gameState)

LEMMA MessageAt ==
  ASSUME NEW s \in AnySession, AllFit(s)
  PROVE  /\ Message(s) \in ByteStrings
         /\ Len(s.gameData) \in Nat /\ Len(s.gameState) \in Nat
         /\ Len(Message(s)) = 239 + Len(s.gameData) + Len(s.gameState)
         /\ \A i \in 1..235 : Message(s)[i] = FixedPart(s)[i]
         /\ Message(s)[236] = Len(s.gameData) \div 256 /\ Message(s)[237] = Len(s.gameData) % 256
         /\ \A j \in 1..Len(s.gameData) : Message(s)[237 + j] = s.gameData[j]
         /\ Message(s)[238 + Len(s.gameData)] = Len(s.gameState) \div 256
         /\ Message(s)[239 + Len(s.gameData)] = Len(s.gameState) % 256
         /\ \A j \in 1..Len(s.gameState) : Message(s)[239 + Len(s.gameData) + j] = s.gameState[j]
<1>. DEFINE a == FixedPart(s)
            b == LengthPrefixed(s.gameData)
            c == LengthPrefixed(s.gameState)
            m == Len(s.gameData)
            n == Len(s.gameState)
<1>1. s.gameData \in ByteStrings /\ s.gameState \in ByteStrings
  BY DEF AnySession
<1>2. m \in Nat /\ n \in Nat
  BY <1>1 DEF ByteStrings
<1>3. a \in ByteStrings /\ Len(a) = 235
  BY FixedPartAt
<1>4. /\ b \in ByteStrings /\ Len(b) = m + 2
      /\ b[1] = m \div 256 /\ b[2] = m % 256 /\ \A j \in 1..m : b[j + 2] = s.gameData[j]
  BY <1>1, PrefixedIs
<1>5. /\ c \in ByteStrings /\ Len(c) = n + 2
      /\ c[1] = n \div 256 /\ c[2] = n % 256 /\ \A j \in 1..n : c[j + 2] = s.gameState[j]
  BY <1>1, PrefixedIs
<1>. HIDE DEF a, b, c, m, n
<1>6. /\ a \o b \in ByteStrings /\ Len(a \o b) = 237 + m
      /\ \A i \in 1..235 : (a \o b)[i] = a[i]
      /\ \A i \in 1..(m + 2) : (a \o b)[235 + i] = b[i]
  <2>1. /\ a \o b \in ByteStrings /\ Len(a \o b) = Len(a) + Len(b)
        /\ \A i \in 1..Len(a) : (a \o b)[i] = a[i]
        /\ \A i \in 1..Len(b) : (a \o b)[Len(a) + i] = b[i]
    <3>1. a \in ByteStrings /\ b \in ByteStrings
      BY <1>3, <1>4
    <3>. QED
      BY <3>1, ConcatAt
  <2>2. Len(a) = 235 /\ Len(b) = m + 2 /\ 235 + (m + 2) = 237 + m
    BY <1>2, <1>3, <1>4
  <2>. DEFINE d == a \o b
  <2>3. d \in ByteStrings /\ Len(d) = Len(a) + Len(b)
    BY <2>1
  <2>4. \A i \in 1..Len(a) : d[i] = a[i]
    BY <2>1
  <2>5. \A i \in 1..Len(b) : d[Len(a) + i] = b[i]
    BY <2>1
  <2>. HIDE DEF d
  <2>6. Len(d) = 237 + m
    BY <2>2, <2>3
  <2>7. (\A i \in 1..235 : d[i] = a[i]) /\ (\A i \in 1..(m + 2) : d[235 + i] = b[i])
    BY <2>2, <2>4, <2>5
  <2>. QED
    BY <2>3, <2>6, <2>7 DEF d
<1>7. /\ a \o b \o c \in ByteStrings /\ Len(a \o b \o c) = 239 + m + n
      /\ \A i \in 1..(237 + m) : (a \o b \o c)[i] = (a \o b)[i]
      /\ \A i \in 1..(n + 2) : (a \o b \o c)[237 + m + i] = c[i]
  <2>1. /\ a \o b \o c \in ByteStrings /\ Len(a \o b \o c) = Len(a \o b) + Len(c)
        /\ \A i \in 1..Len(a \o b) : (a \o b \o c)[i] = (a \o b)[i]
        /\ \A i \in 1..Len(c) : (a \o b \o c)[Len(a \o b) + i] = c[i]
    BY <1>5, <1>6, ConcatAt
  <2>2. 237 + m + (n + 2) = 239 + m + n
    BY <1>2
  <2>. QED
    BY <1>2, <1>5, <1>6, <2>1, <2>2
<1>8. Message(s) = a \o b \o c
  BY DEF Message, a, b, c
<1>. DEFINE x == a \o b \o c
<1>9. \A i \in 1..235 : x[i] = a[i]
  <2>1. \A i \in 1..235 : i \in 1..(237 + m)
    BY <1>2
  <2>. QED
    BY <1>6, <1>7, <2>1
<1>10. \A i \in 1..(m + 2) : x[235 + i] = b[i]
  <2>1. \A i \in 1..(m + 2) : 235 + i \in 1..(237 + m)
    BY <1>2
  <2>. QED
    BY <1>6, <1>7, <2>1
<1>11. \A i \in 1..(n + 2) : x[237 + m + i] = c[i]
  BY <1>7
<1>. HIDE DEF x
<1>12. x[236] = m \div 256 /\ x[237] = m % 256
  <2>1. 1 \in 1..(m + 2) /\ 2 \in 1..(m + 2) /\ 235 + 1 = 236 /\ 235 + 2 = 237
    BY <1>2
  <2>. QED
    BY <1>4, <1>10, <2>1
<1>13. \A j \in 1..m : x[237 + j] = s.gameData[j]
  <2>1. ASSUME NEW j \in 1..m PROVE x[237 + j] = s.gameData[j]
    <3>1. j + 2 \in 1..(m + 2) /\ 235 + (j + 2) = 237 + j
      BY <1>2
    <3>. QED
      BY <1>4, <1>10, <3>1
  <2>. QED
    BY <2>1
<1>14. x[238 + m] = n \div 256 /\ x[239 + m] = n % 256
  <2>1. /\ 1 \in 1..(n + 2) /\ 2 \in 1..(n + 2)
        /\ 237 + m + 1 = 238 + m /\ 237 + m + 2 = 239 + m
    BY <1>2
  <2>. QED
    BY <1>5, <1>11, <2>1
<1>15. \A j \in 1..n : x[239 + m + j] = s.gameState[j]
  <2>1. ASSUME NEW j \in 1..n PROVE x[239 + m + j] = s.gameState[j]
    <3>1. j + 2 \in 1..(n + 2) /\ 237 + m + (j + 2) = 239 + m + j
      BY <1>2
    <3>. QED
      BY <1>5, <1>11, <3>1
  <2>. QED
    BY <2>1
<1>16. x \in ByteStrings /\ Len(x) = 239 + m + n
  BY <1>7 DEF x
<1>17. Message(s) = x
  BY <1>8 DEF x
<1>. QED
  BY <1>2, <1>9, <1>12, <1>13, <1>14, <1>15, <1>16, <1>17 DEF a, m, n

\* Padding is taken off again where nothing else leads with a zero.
Leading(b) == b = << >> \/ b[1] # 0

LEMMA FirstIs ==
  ASSUME NEW x, NEW n \in Nat, Len(x) = n, NEW p \in 1..n,
         x[p] # 0, \A i \in 1..n : i < p => x[i] = 0
  PROVE  Significant(x) = SubSeq(x, p, n)
<1>. DEFINE I == {i \in 1..Len(x) : x[i] # 0}
<1>1. p \in I /\ \A i \in I : p <= i
  OBVIOUS
<1>2. \A q \in I : (\A i \in I : q <= i) => q = p
  BY <1>1
<1>3. Min(I) = p
  <2>. HIDE DEF I
  <2>. QED
    BY <1>1, <1>2 DEF Min
<1>4. SelectInSeq(x, LAMBDA b : b # 0) = IF I # {} THEN Min(I) ELSE 0
  BY DEF SelectInSeq
<1>. HIDE DEF I
<1>5. SelectInSeq(x, LAMBDA b : b # 0) = p /\ p # 0
  BY <1>1, <1>3, <1>4
<1>. QED
  BY <1>5 DEF Significant

LEMMA ZerosAre ==
  ASSUME NEW x, NEW n \in Nat, Len(x) = n, \A i \in 1..n : x[i] = 0
  PROVE  Significant(x) = << >>
<1>. DEFINE I == {i \in 1..Len(x) : x[i] # 0}
<1>1. I = {}
  OBVIOUS
<1>2. SelectInSeq(x, LAMBDA b : b # 0) = IF I # {} THEN Min(I) ELSE 0
  BY DEF SelectInSeq
<1>. HIDE DEF I
<1>3. SelectInSeq(x, LAMBDA b : b # 0) = 0
  BY <1>1, <1>2
<1>. QED
  BY <1>3 DEF Significant

LEMMA SignificantPadded ==
  ASSUME NEW b \in ByteStrings, NEW w \in Nat, Len(b) <= w, Leading(b)
  PROVE  Significant(Padded(b, w)) = b
<1>. DEFINE x == Padded(b, w)
            z == w - Len(b)
<1>1. b \in Seq(Nat) /\ Len(b) \in Nat /\ z \in Nat
  BY DEF ByteStrings
<1>2. x \in Seq(Nat) /\ Len(x) = w
      /\ \A j \in 1..w : x[j] = IF j <= z THEN 0 ELSE b[j - z]
  BY PaddedIs DEF ByteStrings
<1>. HIDE DEF x
<1>3. CASE b = << >>
  <2>1. Len(b) = 0
    BY <1>3
  <2>2. \A j \in 1..w : x[j] = 0
    BY <1>2, <2>1
  <2>3. Significant(x) = << >>
    BY <1>2, <2>2, ZerosAre
  <2>. QED
    BY <1>3, <2>3 DEF x
<1>4. CASE b # << >>
  <2>1. Len(b) # 0 /\ b[1] # 0
    BY <1>1, <1>4, EmptySeq DEF Leading
  <2>2. z + 1 \in 1..w /\ ~(z + 1 <= z) /\ (z + 1) - z = 1
    BY <1>1, <2>1
  <2>3. x[z + 1] # 0
    BY <1>2, <2>1, <2>2
  <2>4. \A i \in 1..w : i < z + 1 => x[i] = 0
    BY <1>1, <1>2
  <2>. HIDE DEF z
  <2>5. Significant(x) = SubSeq(x, z + 1, w)
    BY <1>2, <2>2, <2>3, <2>4, FirstIs
  <2>6. /\ SubSeq(x, z + 1, w) \in Seq(Nat)
        /\ Len(SubSeq(x, z + 1, w)) = IF z + 1 <= w THEN w - (z + 1) + 1 ELSE 0
        /\ \A i \in 1..(w - (z + 1) + 1) : SubSeq(x, z + 1, w)[i] = x[z + 1 + i - 1]
    <3>1. z + 1 \in Int /\ w \in Int /\ \A i \in (z + 1)..w : x[i] \in Nat
      <4>1. \A i \in (z + 1)..w : i \in 1..Len(x)
        BY <1>1, <1>2
      <4>. QED
        BY <1>1, <1>2, <4>1, ElementOfSeq
    <3>. QED
      BY <3>1, SubSeqProperties
  <2>7. Len(SubSeq(x, z + 1, w)) = Len(b)
    BY <1>1, <2>2, <2>6 DEF z
  <2>8. ASSUME NEW i \in 1..Len(b) PROVE SubSeq(x, z + 1, w)[i] = b[i]
    <3>1. w - (z + 1) + 1 = Len(b)
      BY <1>1 DEF z
    <3>2. SubSeq(x, z + 1, w)[i] = x[z + 1 + i - 1]
      BY <2>6, <3>1
    <3>3. z + 1 + i - 1 \in 1..w /\ ~(z + 1 + i - 1 <= z) /\ (z + 1 + i - 1) - z = i
      BY <1>1 DEF z
    <3>. QED
      BY <1>2, <3>2, <3>3
  <2>9. SubSeq(x, z + 1, w) = b
    BY <1>1, <2>6, <2>7, <2>8, SeqEqual
  <2>. QED
    BY <2>5, <2>9 DEF x
<1>. QED
  BY <1>3, <1>4

\* A session as the code has them: its integers have no leading zeros and its flags
\* are two bits.
Normal(s) ==
  /\ \A n \in Names : Leading(s[n])
  /\ s.flags # << >> => s.flags[1] < 4

LEMMA FlagsIs == \A k \in 1..17 : Name(k) = "flags" => Width(k) = 1
BY DEF Layout, Field, Name, Width

LEMMA KeptIs ==
  ASSUME NEW s \in AnySession, AllFit(s), Normal(s), NEW k \in 1..17
  PROVE  Kept(Name(k), Piece(s, k)) = Piece(s, k)
<1>1. CASE Name(k) # "flags"
  BY <1>1 DEF Kept
<1>2. CASE Name(k) = "flags"
  <2>. DEFINE x == Piece(s, k)
  <2>1. x \in Seq(Nat) /\ Len(x) = 1 /\ s.flags \in Seq(Nat) /\ Len(s.flags) \in Nat /\ Len(s.flags) <= 1
    <3>1. Width(k) = 1 /\ Fits(s, k)
      BY <1>2, FlagsIs DEF AllFit
    <3>2. Len(s[Name(k)]) <= Width(k)
      BY <3>1 DEF Fits
    <3>3. Len(s.flags) <= 1
      BY <1>2, <3>1, <3>2
    <3>4. x \in ByteStrings /\ s[Name(k)] \in ByteStrings /\ Len(s[Name(k)]) \in Nat /\ Len(x) = 1
      BY <3>1, PieceIs
    <3>. QED
      BY <1>2, <3>3, <3>4 DEF ByteStrings
  <2>2. x[1] = IF 1 <= 1 - Len(s.flags) THEN 0 ELSE s.flags[1 - (1 - Len(s.flags))]
    <3>1. x = Padded(s.flags, 1)
      BY <1>2, FlagsIs DEF Piece
    <3>2. 1 \in 1..1 /\ 1 \in Nat /\ s.flags \in ByteStrings
      BY <2>1 DEF ByteStrings
    <3>3. \A j \in 1..1 : Padded(s.flags, 1)[j] = IF j <= 1 - Len(s.flags) THEN 0
                                                  ELSE s.flags[j - (1 - Len(s.flags))]
      BY <2>1, <3>2, PaddedIs
    <3>. HIDE DEF x
    <3>. QED
      BY <3>1, <3>2, <3>3
  <2>3. x[1] \in 0..3
    <3>. HIDE DEF x
    <3>1. CASE s.flags = << >>
      <4>1. Len(s.flags) = 0
        BY <3>1
      <4>2. x[1] = 0
        BY <2>2, <4>1
      <4>. QED
        BY <4>2
    <3>2. CASE s.flags # << >>
      <4>1. Len(s.flags) = 1
        <5>1. Len(s.flags) # 0
          BY <2>1, <3>2, EmptySeq
        <5>. QED
          BY <2>1, <5>1
      <4>2. x[1] = s.flags[1]
        BY <2>2, <4>1
      <4>3. s.flags[1] \in Nat /\ s.flags[1] < 4
        <5>1. 1 \in 1..Len(s.flags)
          BY <4>1
        <5>. QED
          BY <2>1, <3>2, <5>1, ElementOfSeq DEF Normal
      <4>. QED
        BY <4>2, <4>3
    <3>. QED
      BY <3>1, <3>2
  <2>. HIDE DEF x
  <2>4. x[1] % 4 = x[1]
    BY <2>3
  <2>5. <<x[1] % 4>> \in Seq(Nat) /\ Len(<<x[1] % 4>>) = 1 /\ <<x[1] % 4>>[1] = x[1]
    BY <2>3, <2>4
  <2>6. \A i \in 1..1 : i = 1
    OBVIOUS
  <2>7. <<x[1] % 4>> = x
    <3>. DEFINE y == <<x[1] % 4>>
    <3>1. y \in Seq(Nat) /\ Len(y) = 1 /\ y[1] = x[1]
      BY <2>5
    <3>. HIDE DEF y
    <3>2. y = x
      BY <2>1, <2>6, <3>1, SeqEqual
    <3>. QED
      BY <3>2 DEF y
  <2>8. Kept(Name(k), x) = <<x[1] % 4>>
    BY <1>2 DEF Kept
  <2>. QED
    BY <2>7, <2>8 DEF x
<1>. QED
  BY <1>1, <1>2

LEMMA MessageLong ==
  ASSUME NEW s \in AnySession, AllFit(s)
  PROVE  /\ Message(s) \in Seq(Nat) /\ Len(Message(s)) \in Nat /\ Len(Message(s)) >= 239
         /\ \A i \in 1..235 : Message(s)[i] = FixedPart(s)[i]
<1>1. Message(s) \in Seq(Nat)
  BY MessageAt DEF ByteStrings
<1>2. /\ Len(Message(s)) = 239 + Len(s.gameData) + Len(s.gameState)
      /\ Len(s.gameData) \in Nat /\ Len(s.gameState) \in Nat
  BY MessageAt
<1>. DEFINE len == Len(Message(s))
            g == Len(s.gameData)
            t == Len(s.gameState)
<1>3. len = 239 + g + t /\ g \in Nat /\ t \in Nat
  BY <1>2
<1>. HIDE DEF len, g, t
<1>4. len \in Nat /\ len >= 239
  BY <1>3
<1>5. \A i \in 1..235 : Message(s)[i] = FixedPart(s)[i]
  BY MessageAt
<1>. QED
  BY <1>1, <1>4, <1>5 DEF len

LEMMA FieldBack ==
  ASSUME NEW s \in AnySession, AllFit(s), Normal(s), NEW k \in 1..17
  PROVE  ReadField(Message(s), Name(k)) = s[Name(k)]
<1>. DEFINE m == Message(s)
            b == Begin(k)
            e == End(k)
            w == Width(k)
            x == Piece(s, k)
<1>1. m \in Seq(Nat) /\ Len(m) \in Nat /\ Len(m) >= 239 /\ \A i \in 1..235 : m[i] = FixedPart(s)[i]
  BY MessageLong
<1>2. w \in Nat /\ b \in Nat /\ e = b + w /\ e \in 1..235
  <2>1. End(k) \in 1..235
    BY DEF Layout, Field, Name, End, Slices
  <2>. QED
    BY <2>1, WidthIs
<1>3. \A j \in 1..w : FixedPart(s)[b + j] = x[j]
  BY FixedPartAt
<1>4. x \in Seq(Nat) /\ Len(x) = w
  BY PieceIs DEF AllFit, ByteStrings
<1>5. x = Padded(s[Name(k)], w) /\ s[Name(k)] \in ByteStrings /\ Len(s[Name(k)]) <= w
      /\ Leading(s[Name(k)])
  <2>1. Name(k) \in Names
    BY LayoutIs
  <2>. QED
    BY <2>1, PieceIs DEF Piece, AllFit, Fits, Normal
<1>6. ReadField(m, Name(k)) = Significant(Kept(Name(k), SubSeq(m, b + 1, e)))
  BY DEF ReadField, Begin, End
<1>6a. Kept(Name(k), x) = x
  BY KeptIs
<1>. HIDE DEF m, b, e, w, x
<1>7. /\ SubSeq(m, b + 1, e) \in Seq(Nat)
      /\ Len(SubSeq(m, b + 1, e)) = IF b + 1 <= e THEN e - (b + 1) + 1 ELSE 0
      /\ \A i \in 1..(e - (b + 1) + 1) : SubSeq(m, b + 1, e)[i] = m[b + 1 + i - 1]
  <2>1. b + 1 \in Int /\ e \in Int /\ \A i \in (b + 1)..e : m[i] \in Nat
    <3>1. ASSUME NEW i \in (b + 1)..e PROVE m[i] \in Nat
      <4>1. i \in 1..Len(m)
        <5>1. \A l, u, v \in Nat : l >= 239 /\ v <= 235 => \A y \in (u + 1)..v : y \in 1..l
          OBVIOUS
        <5>2. e \in Nat /\ e <= 235
          BY <1>2
        <5>. QED
          BY <1>1, <1>2, <5>1, <5>2
      <4>. QED
        BY <1>1, <4>1, ElementOfSeq
    <3>. QED
      BY <1>2, <3>1
  <2>. QED
    BY <2>1, SubSeqProperties
<1>8. Len(SubSeq(m, b + 1, e)) = w
  BY <1>2, <1>7
<1>9. ASSUME NEW i \in 1..w PROVE SubSeq(m, b + 1, e)[i] = x[i]
  <2>1. i \in 1..(e - (b + 1) + 1) /\ b + 1 + i - 1 = b + i /\ b + i \in 1..235
    BY <1>2
  <2>. QED
    BY <1>1, <1>3, <1>7, <2>1
<1>10. SubSeq(m, b + 1, e) = x
  BY <1>4, <1>7, <1>8, <1>9, SeqEqual
<1>11. Significant(x) = s[Name(k)]
  BY <1>2, <1>5, SignificantPadded
<1>. QED
  BY <1>6, <1>6a, <1>10, <1>11 DEF m

LEMMA MessageWhole ==
  ASSUME NEW s \in AnySession, AllFit(s)
  PROVE  /\ DataEnd(Message(s)) = 237 + Len(s.gameData)
         /\ StateEnd(Message(s)) = 239 + Len(s.gameData) + Len(s.gameState)
         /\ Whole(Message(s))
<1>. DEFINE m == Message(s)
            g == Len(s.gameData)
            t == Len(s.gameState)
<1>1. /\ m \in ByteStrings /\ g \in Nat /\ t \in Nat /\ Len(m) = 239 + g + t
      /\ m[236] = g \div 256 /\ m[237] = g % 256
      /\ m[238 + g] = t \div 256 /\ m[239 + g] = t % 256
  <2>1. m \in ByteStrings /\ g \in Nat /\ t \in Nat
    BY MessageAt
  <2>2. Len(m) = 239 + g + t
    BY MessageAt
  <2>3. m[236] = g \div 256 /\ m[237] = g % 256
    BY MessageAt
  <2>4. m[238 + g] = t \div 256 /\ m[239 + g] = t % 256
    BY MessageAt
  <2>. QED
    BY <2>1, <2>2, <2>3, <2>4
<1>. HIDE DEF m, g, t
<1>2. \A n \in Nat : 256 * (n \div 256) + (n % 256) = n
  OBVIOUS
<1>3. Size(m, 235) = g
  <2>1. 235 \in Nat /\ 235 + 2 <= Len(m) /\ 235 + 1 = 236 /\ 235 + 2 = 237
    BY <1>1
  <2>. DEFINE c == 235
  <2>1a. c \in Nat /\ c + 2 <= Len(m)
    BY <2>1
  <2>2. Uint16(SubSeq(m, c + 1, c + 2)) = 256 * m[c + 1] + m[c + 2]
    <3>1. m \in ByteStrings
      BY <1>1
    <3>. HIDE DEF c
    <3>. QED
      BY <2>1a, <3>1, Uint16Is
  <2>3. Size(m, 235) = 256 * (g \div 256) + (g % 256)
    BY <1>1, <2>1, <2>2 DEF Size
  <2>. QED
    BY <1>1, <1>2, <2>3
<1>4. DataEnd(m) = 237 + g
  BY <1>3 DEF DataEnd
<1>5. Size(m, 237 + g) = t
  <2>1. /\ 237 + g \in Nat /\ (237 + g) + 2 <= Len(m)
        /\ (237 + g) + 1 = 238 + g /\ (237 + g) + 2 = 239 + g
    BY <1>1
  <2>2. Uint16(SubSeq(m, (237 + g) + 1, (237 + g) + 2)) = 256 * m[(237 + g) + 1] + m[(237 + g) + 2]
    <3>1. m \in ByteStrings
      BY <1>1
    <3>. QED
      BY <2>1, <3>1, Uint16Is
  <2>3. Size(m, 237 + g) = 256 * (t \div 256) + (t % 256)
    BY <1>1, <2>1, <2>2 DEF Size
  <2>. QED
    BY <1>1, <1>2, <2>3
<1>6. StateEnd(m) = 239 + g + t
  <2>1. StateEnd(m) = 237 + g + 2 + t
    BY <1>4, <1>5 DEF StateEnd
  <2>. QED
    BY <1>1, <2>1
<1>7. Whole(m)
  <2>1. Len(m) >= 239 /\ Len(m) >= 237 + g + 2
    BY <1>1
  <2>. QED
    BY <1>1, <1>4, <1>6, <2>1 DEF Whole
<1>. QED
  BY <1>4, <1>6, <1>7 DEF m, g, t

LEMMA PartBack ==
  ASSUME NEW m \in ByteStrings, NEW b \in ByteStrings, NEW a \in Nat, a + Len(b) <= Len(m),
         \A j \in 1..Len(b) : m[a + j] = b[j]
  PROVE  SubSeq(m, a + 1, a + Len(b)) = b
<1>. DEFINE n == Len(b)
            x == SubSeq(m, a + 1, a + n)
<1>1. m \in Seq(Nat) /\ b \in Seq(Nat) /\ n \in Nat /\ Len(m) \in Nat /\ a + n <= Len(m)
  BY DEF ByteStrings
<1>1a. \A i \in (a + 1)..(a + n) : m[i] \in Nat
  <2>1. ASSUME NEW i \in (a + 1)..(a + n) PROVE m[i] \in Nat
    <3>1. i \in 1..Len(m)
      BY <1>1
    <3>. QED
      BY <1>1, <3>1, ElementOfSeq
  <2>. QED
    BY <2>1
<1>2. \A j \in 1..n : m[a + j] = b[j]
  OBVIOUS
<1>. HIDE DEF n
<1>. DEFINE from == a + 1
            to == a + n
<1>2a. from \in Int /\ to \in Int
  BY <1>1
<1>2b. \A i \in from..to : m[i] \in Nat
  BY <1>1a
<1>2c. x = SubSeq(m, from, to)
  OBVIOUS
<1>. HIDE DEF x, from, to
<1>2d. /\ x \in Seq(Nat)
       /\ Len(x) = IF from <= to THEN to - from + 1 ELSE 0
       /\ \A i \in 1..(to - from + 1) : x[i] = m[from + i - 1]
  <2>1. /\ SubSeq(m, from, to) \in Seq(Nat)
        /\ Len(SubSeq(m, from, to)) = IF from <= to THEN to - from + 1 ELSE 0
        /\ \A i \in 1..(to - from + 1) : SubSeq(m, from, to)[i] = m[from + i - 1]
    BY <1>2a, <1>2b, SubSeqProperties
  <2>. QED
    BY <1>2c, <2>1
<1>3. from = a + 1 /\ to = a + n
  BY DEF from, to
<1>4. Len(x) = n
  BY <1>1, <1>2d, <1>3
<1>5. ASSUME NEW i \in 1..n PROVE x[i] = b[i]
  <2>1. i \in 1..(to - from + 1) /\ from + i - 1 = a + i
    BY <1>1, <1>3
  <2>. QED
    BY <1>2, <1>2d, <2>1
<1>6. x = b
  <2>1. Len(x) = Len(b)
    BY <1>4 DEF n
  <2>2. \A i \in 1..Len(x) : x[i] = b[i]
    BY <1>4, <1>5
  <2>3. x \in Seq(Nat) /\ b \in Seq(Nat)
    BY <1>1, <1>2d
  <2>. QED
    BY <2>1, <2>2, <2>3, SeqEqual
<1>. QED
  BY <1>2c, <1>6 DEF from, to, n

\* Every session that fits comes back from its message unchanged.
LEMMA RoundTrip ==
  ASSUME NEW s \in AnySession, AllFit(s), Normal(s)
  PROVE  /\ TsDecode(Message(s)) = {s}
         /\ Message(s) \in ByteStrings
<1>. DEFINE m == Message(s)
            g == Len(s.gameData)
            t == Len(s.gameState)
            N == Names \cup {"gameData", "gameState"}
<1>1. /\ m \in ByteStrings /\ g \in Nat /\ t \in Nat /\ Len(m) = 239 + g + t
      /\ \A j \in 1..g : m[237 + j] = s.gameData[j]
      /\ \A j \in 1..t : m[239 + g + j] = s.gameState[j]
  <2>1. m \in ByteStrings /\ g \in Nat /\ t \in Nat
    BY MessageAt
  <2>2. Len(m) = 239 + g + t
    BY MessageAt
  <2>3. \A j \in 1..g : m[237 + j] = s.gameData[j]
    BY MessageAt
  <2>4. \A j \in 1..t : m[239 + g + j] = s.gameState[j]
    BY MessageAt
  <2>. QED
    BY <2>1, <2>2, <2>3, <2>4
<1>2. DataEnd(m) = 237 + g /\ StateEnd(m) = 239 + g + t /\ Whole(m)
  BY MessageWhole
<1>3. s.gameData \in ByteStrings /\ s.gameState \in ByteStrings /\ s = [n \in N |-> s[n]]
  BY DEF AnySession
<1>4. TsDecode(m) = {ReadSession(m)}
  BY <1>1, <1>2, TsDecodeIs
<1>5. SubSeq(m, 238, DataEnd(m)) = s.gameData
  <2>1. 237 \in Nat /\ 237 + g <= Len(m) /\ 237 + 1 = 238
    <3>. HIDE DEF m, g, t
    <3>. QED
      BY <1>1
  <2>2. SubSeq(m, 237 + 1, 237 + g) = s.gameData
    <3>. HIDE DEF m
    <3>1. \A j \in 1..Len(s.gameData) : m[237 + j] = s.gameData[j]
      BY <1>1
    <3>2. m \in ByteStrings
      BY <1>1
    <3>3. s.gameData \in ByteStrings
      BY <1>3
    <3>. QED
      BY <2>1, <3>1, <3>2, <3>3, PartBack
  <2>. HIDE DEF m, g
  <2>. QED
    BY <1>2, <2>1, <2>2
<1>6. SubSeq(m, DataEnd(m) + 3, StateEnd(m)) = s.gameState
  <2>1. 239 + g \in Nat /\ (239 + g) + t <= Len(m) /\ (239 + g) + 1 = DataEnd(m) + 3
    <3>. HIDE DEF m, g, t
    <3>. QED
      BY <1>1, <1>2
  <2>2. SubSeq(m, (239 + g) + 1, (239 + g) + t) = s.gameState
    <3>. HIDE DEF m, g
    <3>. QED
      BY <1>1, <1>3, <2>1, PartBack
  <2>. HIDE DEF m, g, t
  <2>. QED
    BY <1>2, <2>1, <2>2
<1>7. ReadSession(m) = SessionOf(ReadTo(m, 17), s.gameData, s.gameState)
  BY <1>5, <1>6 DEF ReadSession
<1>8. ASSUME NEW n \in N
      PROVE  (IF n = "gameData" THEN s.gameData ELSE IF n = "gameState" THEN s.gameState
              ELSE ReadTo(m, 17)[n]) = s[n]
  <2>1. CASE n \in Names /\ n # "gameData" /\ n # "gameState"
    <3>1. PICK k \in 1..17 : n = Name(k)
      BY <2>1, LayoutIs
    <3>2. ReadTo(m, 17)[n] = ReadField(m, n)
      BY <3>1 DEF ReadTo
    <3>3. ReadField(m, n) = s[n]
      BY <3>1, FieldBack
    <3>. QED
      BY <2>1, <3>2, <3>3
  <2>2. CASE n = "gameData" \/ n = "gameState"
    BY <2>2
  <2>. QED
    BY <2>1, <2>2
<1>. DEFINE Got(n) == IF n = "gameData" THEN s.gameData ELSE IF n = "gameState" THEN s.gameState
                      ELSE ReadTo(m, 17)[n]
<1>9. SessionOf(ReadTo(m, 17), s.gameData, s.gameState) = [n \in N |-> Got(n)]
  BY DEF SessionOf
<1>10. \A n \in N : Got(n) = s[n]
  BY <1>8
<1>. HIDE DEF Got, m, N
<1>11. [n \in N |-> Got(n)] = s
  BY <1>3, <1>10
<1>. QED
  BY <1>1, <1>4, <1>7, <1>9, <1>11 DEF m

-----------------------------------------------------------------------------
\* The phase is where the contract looks for it.
LEMMA PhaseAt ==
  ASSUME NEW s \in AnySession, AllFit(s)
  PROVE  Message(s)[178] = IF s.phase = << >> THEN 0 ELSE s.phase[1]
<1>1. Name(13) = "phase" /\ Width(13) = 1 /\ Begin(13) = 177 /\ 13 \in 1..17
  BY DEF Layout, Field, Name, Width, Begin, Slices
<1>2. Message(s)[178] = FixedPart(s)[178]
  <2>1. 178 \in 1..235
    OBVIOUS
  <2>. QED
    BY <2>1, MessageLong
<1>3. FixedPart(s)[178] = Piece(s, 13)[1]
  <2>1. 1 \in 1..Width(13) /\ Begin(13) + 1 = 178
    BY <1>1
  <2>. QED
    BY <1>1, <2>1, FixedPartAt
<1>4. Piece(s, 13) = Padded(s.phase, 1) /\ s.phase \in ByteStrings /\ Len(s.phase) <= 1
  <2>1. Fits(s, 13) /\ s[Name(13)] \in ByteStrings
    BY <1>1, PieceIs DEF AllFit
  <2>. QED
    BY <1>1, <2>1 DEF Piece, Fits
<1>5. s.phase \in Seq(Nat) /\ Len(s.phase) \in Nat
  BY <1>4 DEF ByteStrings
<1>6. \A j \in 1..1 : Padded(s.phase, 1)[j] = IF j <= 1 - Len(s.phase) THEN 0
                                              ELSE s.phase[j - (1 - Len(s.phase))]
  <2>1. 1 \in Nat
    OBVIOUS
  <2>. QED
    BY <1>4, <2>1, PaddedIs
<1>7. 1 \in 1..1
  OBVIOUS
<1>8. CASE s.phase = << >>
  <2>1. Len(s.phase) = 0
    BY <1>8
  <2>. QED
    BY <1>2, <1>3, <1>4, <1>6, <1>7, <1>8, <2>1
<1>9. CASE s.phase # << >>
  <2>1. Len(s.phase) = 1
    <3>1. Len(s.phase) # 0
      BY <1>5, <1>9, EmptySeq
    <3>2. Len(s.phase) <= 1
      BY <1>4
    <3>3. \A l \in Nat : l # 0 /\ l <= 1 => l = 1
      OBVIOUS
    <3>. QED
      BY <1>5, <3>1, <3>2, <3>3, Zenon
  <2>. QED
    BY <1>2, <1>3, <1>4, <1>6, <1>7, <1>9, <2>1
<1>. QED
  BY <1>8, <1>9

LEMMA FilledIs ==
  ASSUME NEW n \in Nat
  PROVE  /\ Filled(n) \in ByteStrings /\ Len(Filled(n)) = n /\ Leading(Filled(n))
<1>1. ASSUME NEW i \in 1..n PROVE 1 + ((37 * i + n) % 255) \in Nat \ {0}
  <2>1. 37 * i + n \in Nat
    OBVIOUS
  <2>2. \A x \in Nat : 1 + (x % 255) \in Nat \ {0}
    OBVIOUS
  <2>. QED
    BY <2>1, <2>2
<1>2. Filled(n) \in [1..n -> Nat]
  BY <1>1 DEF Filled
<1>3. Filled(n) \in Seq(Nat) /\ Len(Filled(n)) = n
  BY <1>2
<1>4. Leading(Filled(n))
  <2>1. CASE n = 0
    <3>1. Filled(n) = << >>
      BY <1>3, <2>1, EmptySeq
    <3>. QED
      BY <3>1 DEF Leading
  <2>2. CASE n # 0
    <3>1. 1 \in 1..n
      BY <2>2
    <3>2. Filled(n)[1] = 1 + ((37 * 1 + n) % 255)
      BY <3>1 DEF Filled
    <3>3. Filled(n)[1] \in Nat \ {0}
      BY <1>1, <3>1, <3>2
    <3>. QED
      BY <3>3 DEF Leading
  <2>. QED
    BY <2>1, <2>2
<1>. QED
  BY <1>3, <1>4 DEF ByteStrings

LEMMA WidthOf ==
  ASSUME NEW k \in 1..17
  PROVE  (CHOOSE f \in Fields : f.name = Name(k)).width = Width(k)
<1>1. Layout[k] \in Fields /\ Layout[k].name = Name(k)
  BY LayoutIs DEF Name
<1>2. ASSUME NEW f \in Fields, f.name = Name(k) PROVE f = Layout[k]
  <2>1. PICK i \in 1..17 : f = Layout[i]
    BY LayoutIs
  <2>2. Name(i) = Name(k)
    BY <1>2, <2>1 DEF Name
  <2>. QED
    BY <2>1, <2>2, NamesDiffer
<1>3. (CHOOSE f \in Fields : f.name = Name(k)) = Layout[k]
  BY <1>1, <1>2
<1>. QED
  BY <1>3 DEF Width

\* The names "gameData" and "gameState" are no field's.
LEMMA GameNames == \A k \in 1..17 : Name(k) # "gameData" /\ Name(k) # "gameState"
BY DEF Layout, Field, Name

SampleHas(s, fill, phase, k) ==
  /\ Name(k) = "phase" => s[Name(k)] = IF phase = 0 THEN << >> ELSE <<phase>>
  /\ Name(k) = "flags" => s[Name(k)] = IF fill = "empty" THEN << >> ELSE <<3>>
  /\ Name(k) \notin {"phase", "flags"} =>
       /\ fill = "empty" => s[Name(k)] = << >>
       /\ fill = "full" => s[Name(k)] = Filled(Width(k))
       /\ fill = "wide" => s[Name(k)] = Filled(Width(k) + 1)

LEMMA SampleFields ==
  ASSUME NEW fill \in Fills, NEW phase \in Nat, NEW a \in Nat, NEW b \in Nat, NEW k \in 1..17
  PROVE  SampleHas(SampleSession(fill, phase, a, b), fill, phase, k)
<1>. DEFINE Value(n) ==
              LET width == (CHOOSE f \in Fields : f.name = n).width
              IN  CASE n = "phase" -> IF phase = 0 THEN << >> ELSE <<phase>>
                    [] n = "flags" -> IF fill = "empty" THEN << >> ELSE <<3>>
                    [] n \notin {"phase", "flags"} /\ fill = "empty" -> << >>
                    [] n \notin {"phase", "flags"} /\ fill = "full" -> Filled(width)
                    [] n \notin {"phase", "flags"} /\ fill = "wide" -> Filled(width + 1)
            fields == [n \in Names |-> Value(n)]
<1>1. Name(k) \in Names
  BY LayoutIs
<1>2. SampleSession(fill, phase, a, b) = SessionOf(fields, Filled(a), Filled(b))
  BY DEF SampleSession
<1>3. fields[Name(k)] = Value(Name(k))
  <2>. HIDE DEF Value
  <2>. QED
    BY <1>1
<1>. HIDE DEF fields
<1>4. SampleSession(fill, phase, a, b)[Name(k)] = fields[Name(k)]
  BY <1>1, <1>2, GameNames DEF SessionOf
<1>5. Name(k) = "phase" => Value(Name(k)) = IF phase = 0 THEN << >> ELSE <<phase>>
  OBVIOUS
<1>6. Name(k) = "flags" => Value(Name(k)) = IF fill = "empty" THEN << >> ELSE <<3>>
  OBVIOUS
<1>7. Name(k) \notin {"phase", "flags"} =>
        /\ fill = "empty" => Value(Name(k)) = << >>
        /\ fill = "full" => Value(Name(k)) = Filled(Width(k))
        /\ fill = "wide" => Value(Name(k)) = Filled(Width(k) + 1)
  BY WidthOf
<1>. HIDE DEF Value
<1>. DEFINE v == Value(Name(k))
<1>8. SampleSession(fill, phase, a, b)[Name(k)] = v
  BY <1>3, <1>4
<1>. HIDE DEF v
<1>. QED
  BY <1>5, <1>6, <1>7, <1>8 DEF SampleHas, v

SampleGood(s, fill, phase, a, b) ==
  /\ s \in AnySession
  /\ s.gameData = Filled(a) /\ s.gameState = Filled(b)
  /\ s.phase = IF phase = 0 THEN << >> ELSE <<phase>>

LEMMA SampleIs ==
  ASSUME NEW fill \in Fills, NEW phase \in Nat, NEW a \in Nat, NEW b \in Nat
  PROVE  SampleGood(SampleSession(fill, phase, a, b), fill, phase, a, b)
<1>. DEFINE s == SampleSession(fill, phase, a, b)
            N == Names \cup {"gameData", "gameState"}
<1>1. \A k \in 1..17 : s[Name(k)] \in ByteStrings
  <2>1. ASSUME NEW k \in 1..17 PROVE s[Name(k)] \in ByteStrings
    <3>1. Width(k) \in Nat /\ Width(k) + 1 \in Nat
      BY WidthIs
    <3>2. Filled(Width(k)) \in ByteStrings /\ Filled(Width(k) + 1) \in ByteStrings
      BY <3>1, FilledIs
    <3>3. << >> \in ByteStrings /\ <<phase>> \in ByteStrings /\ <<3>> \in ByteStrings
      BY EmptySeq DEF ByteStrings
    <3>4. SampleHas(s, fill, phase, k)
      BY SampleFields
    <3>5. fill = "empty" \/ fill = "full" \/ fill = "wide"
      BY DEF Fills
    <3>. HIDE DEF s
    <3>. QED
      BY <3>2, <3>3, <3>4, <3>5 DEF SampleHas
  <2>. QED
    BY <2>1
<1>2. s = [n \in N |-> s[n]] /\ DOMAIN s = N
  <2>1. \A f, x, y : /\ SessionOf(f, x, y) = [n \in N |-> SessionOf(f, x, y)[n]]
                     /\ DOMAIN SessionOf(f, x, y) = N
    BY DEF SessionOf
  <2>2. \E f, x, y : s = SessionOf(f, x, y)
    BY DEF SampleSession
  <2>. HIDE DEF s, N
  <2>. QED
    BY <2>1, <2>2
<1>3. s.gameData = Filled(a) /\ s.gameState = Filled(b)
  BY DEF SampleSession, SessionOf
<1>4. Filled(a) \in ByteStrings /\ Filled(b) \in ByteStrings
  BY FilledIs
<1>5. /\ s.phase = IF phase = 0 THEN << >> ELSE <<phase>>
      /\ s.flags = IF fill = "empty" THEN << >> ELSE <<3>>
  <2>1. Name(13) = "phase" /\ Name(17) = "flags" /\ 13 \in 1..17 /\ 17 \in 1..17
    BY DEF Layout, Field, Name
  <2>2. SampleHas(s, fill, phase, 13) /\ SampleHas(s, fill, phase, 17)
    BY <2>1, SampleFields
  <2>. HIDE DEF s
  <2>. QED
    BY <2>1, <2>2 DEF SampleHas
<1>. HIDE DEF s
<1>6. ASSUME NEW n \in N PROVE s[n] \in ByteStrings
  <2>1. CASE n \in Names
    <3>1. PICK k \in 1..17 : n = Name(k)
      BY <2>1, LayoutIs
    <3>. QED
      BY <1>1, <3>1
  <2>2. CASE n = "gameData" \/ n = "gameState"
    BY <1>3, <1>4, <2>2
  <2>. QED
    BY <2>1, <2>2
<1>7. s \in AnySession
  BY <1>2, <1>6 DEF AnySession
<1>8. SampleGood(s, fill, phase, a, b)
  BY <1>3, <1>5, <1>7 DEF SampleGood
<1>. QED
  BY <1>8 DEF s

LEMMA SampleFits ==
  ASSUME NEW fill \in Fills, NEW phase \in Nat, NEW a \in Nat, NEW b \in Nat
  PROVE  /\ fill = "wide" => ~AllFit(SampleSession(fill, phase, a, b))
         /\ fill # "wide" => /\ AllFit(SampleSession(fill, phase, a, b))
                             /\ Normal(SampleSession(fill, phase, a, b))
<1>. DEFINE s == SampleSession(fill, phase, a, b)
<1>2. \A k \in 1..17 : SampleHas(s, fill, phase, k)
  BY SampleFields
<1>. HIDE DEF s
<1>1. s.flags = IF fill = "empty" THEN << >> ELSE <<3>>
  <2>1. Name(17) = "flags" /\ 17 \in 1..17
    BY DEF Layout, Field, Name
  <2>. QED
    BY <1>2, <2>1 DEF SampleHas
<1>3. ASSUME fill = "wide" PROVE ~AllFit(s)
  <2>1. Name(1) = "sessionId" /\ Width(1) = 8 /\ 1 \in 1..17
    BY DEF Layout, Field, Name, Width
  <2>2. s[Name(1)] = Filled(9)
    <3>1. Name(1) \notin {"phase", "flags"} /\ Width(1) + 1 = 9
      BY <2>1
    <3>. QED
      BY <1>2, <1>3, <2>1, <3>1 DEF SampleHas
  <2>3. Len(s[Name(1)]) = 9
    <3>1. 9 \in Nat
      OBVIOUS
    <3>. QED
      BY <2>2, <3>1, FilledIs
  <2>4. ~Fits(s, 1)
    BY <2>1, <2>3 DEF Fits
  <2>. QED
    BY <2>1, <2>4 DEF AllFit
<1>4. ASSUME fill # "wide" PROVE AllFit(s) /\ Normal(s)
  <2>0. fill = "empty" \/ fill = "full"
    BY <1>4 DEF Fills
  <2>1. ASSUME NEW k \in 1..17 PROVE Fits(s, k) /\ Leading(s[Name(k)])
    <3>1. Width(k) \in 1..32
      BY SlicesIs
    <3>1a. Width(k) \in Nat
      BY WidthIs
    <3>2. Len(<< >>) = 0 /\ Len(<<phase>>) = 1 /\ Len(<<3>>) = 1 /\ Len(Filled(Width(k))) = Width(k)
      BY <3>1a, FilledIs, EmptySeq
    <3>3. Leading(<< >>) /\ (phase # 0 => Leading(<<phase>>)) /\ Leading(<<3>>)
          /\ Leading(Filled(Width(k)))
      <4>1. Leading(<< >>) /\ (phase # 0 => Leading(<<phase>>)) /\ Leading(<<3>>)
        BY DEF Leading
      <4>. QED
        BY <3>1a, <4>1, FilledIs
    <3>4. \/ s[Name(k)] = << >>
          \/ phase # 0 /\ s[Name(k)] = <<phase>>
          \/ s[Name(k)] = <<3>>
          \/ s[Name(k)] = Filled(Width(k))
      <4>1. CASE Name(k) = "phase"
        BY <1>2, <4>1 DEF SampleHas
      <4>2. CASE Name(k) = "flags"
        BY <1>2, <4>2 DEF SampleHas
      <4>3. CASE Name(k) \notin {"phase", "flags"}
        BY <1>2, <2>0, <4>3 DEF SampleHas
      <4>. QED
        BY <4>1, <4>2, <4>3
    <3>5. Leading(s[Name(k)])
      BY <3>3, <3>4
    <3>6. Len(s[Name(k)]) = 0 \/ Len(s[Name(k)]) = 1 \/ Len(s[Name(k)]) = Width(k)
      BY <3>2, <3>4
    <3>7. \A w \in 1..32 : 0 <= w /\ 1 <= w /\ w <= w
      OBVIOUS
    <3>8. Len(s[Name(k)]) <= Width(k)
      BY <3>1, <3>6, <3>7, Zenon
    <3>. QED
      BY <3>5, <3>8 DEF Fits
  <2>2. \A n \in Names : Leading(s[n])
    BY <2>1, LayoutIs
  <2>3. s.flags # << >> => s.flags[1] < 4
    BY <1>1
  <2>. QED
    BY <2>1, <2>2, <2>3 DEF AllFit, Normal
<1>. QED
  BY <1>3, <1>4 DEF s

\* What the wire makes of a message.
LEMMA ReceivedIs ==
  ASSUME NEW x \in ByteStrings, Len(x) >= 239, NEW cut \in Nat, NEW extra \in Nat, extra <= 61
  PROVE  /\ Received(x, cut, extra) \in ByteStrings
         /\ cut + extra = 0 => Received(x, cut, extra) = x
         /\ \/ Received(x, cut, extra)[178] = x[178]
            \/ ~Whole(Received(x, cut, extra))
<1>. DEFINE l == Len(x)
            n == l - cut
            p == SubSeq(x, 1, n)
            f == Filled(extra)
            y == Received(x, cut, extra)
<1>1. x \in Seq(Nat) /\ l \in Nat /\ l >= 239
  BY DEF ByteStrings
<1>2. f \in ByteStrings /\ Len(f) = extra /\ extra \in Nat
  BY FilledIs
<1>3. /\ p \in Seq(Nat)
      /\ Len(p) = IF 1 <= n THEN n - 1 + 1 ELSE 0
      /\ \A i \in 1..(n - 1 + 1) : p[i] = x[1 + i - 1]
  <2>1. 1 \in Int /\ n \in Int /\ \A i \in 1..n : x[i] \in Nat
    <3>1. ASSUME NEW i \in 1..n PROVE x[i] \in Nat
      <4>1. i \in 1..Len(x)
        BY <1>1
      <4>. QED
        BY <1>1, <4>1, ElementOfSeq
    <3>. QED
      BY <1>1, <3>1
  <2>. HIDE DEF n
  <2>. QED
    BY <2>1, SubSeqProperties
<1>4. y = p \o f
  BY DEF Received
<1>5. p \in ByteStrings
  BY <1>3 DEF ByteStrings
<1>. HIDE DEF p, f, y
<1>6. /\ y \in ByteStrings /\ Len(y) = Len(p) + extra
      /\ \A i \in 1..Len(p) : y[i] = p[i]
  BY <1>2, <1>4, <1>5, ConcatAt
<1>7. ASSUME cut + extra = 0 PROVE y = x
  <2>1. cut = 0 /\ extra = 0
    BY <1>2, <1>7
  <2>2. n = l
    BY <1>1, <2>1
  <2>3. p = x
    BY <1>1, <2>2, SubSeqFull DEF p
  <2>4. f = << >>
    BY <1>2, <2>1, EmptySeq DEF ByteStrings
  <2>. QED
    BY <1>1, <1>4, <2>3, <2>4, ConcatEmptySeq
<1>8. CASE n >= 178
  <2>1. Len(p) = n /\ 178 \in 1..n /\ p[178] = x[178]
    <3>1. n \in Int /\ n - 1 + 1 = n /\ 1 <= n /\ 178 \in 1..n
      BY <1>1, <1>8
    <3>2. Len(p) = n
      BY <1>3, <3>1
    <3>3. p[178] = x[1 + 178 - 1]
      <4>1. 178 \in 1..(n - 1 + 1)
        BY <3>1
      <4>. HIDE DEF n
      <4>. QED
        BY <1>3, <4>1
    <3>. QED
      BY <3>1, <3>2, <3>3
  <2>2. y[178] = x[178]
    BY <1>6, <2>1
  <2>. QED
    BY <1>6, <1>7, <2>2 DEF y
<1>9. CASE ~(n >= 178)
  <2>1. n \in Int /\ n <= 177
    BY <1>1, <1>9
  <2>2. Len(p) \in Nat /\ Len(p) <= 177
    <3>. HIDE DEF n
    <3>. QED
      BY <1>3, <2>1
  <2>3. extra \in Nat /\ extra <= 61
    OBVIOUS
  <2>4. \A u, v \in Nat : u <= 177 /\ v <= 61 => ~(u + v >= 239)
    OBVIOUS
  <2>5. ~(Len(y) >= 239)
    BY <1>6, <2>2, <2>3, <2>4
  <2>6. ~Whole(y)
    BY <2>5 DEF Whole
  <2>. QED
    BY <1>6, <1>7, <2>6 DEF y
<1>. QED
  BY <1>8, <1>9

\* Both codecs agree on every message.
LEMMA CodecsAgreeAlways ==
  ASSUME NEW m \in Messages
  PROVE  CodecsAgreeOn(m)
<1>. DEFINE fill == m.fill
            phase == m.phase
            a == m.dataLength
            b == m.stateLength
            s == SampleSession(fill, phase, a, b)
<1>1. fill \in Fills /\ phase \in 0..6 /\ a \in GameLengths /\ b \in GameLengths
      /\ m.cut \in Cuts /\ m.extra \in Extras
  BY DEF Messages, MaxPhase
<1>1a. m.cut \in Nat /\ m.extra \in Nat /\ m.extra <= 61
  <2>1. Cuts \subseteq Nat /\ Extras \subseteq Nat /\ \A n \in Extras : n <= 61
    BY CodecAssumption
  <2>2. m.cut \in Nat /\ m.extra \in Nat
    BY <1>1, <2>1
  <2>3. m.extra <= 61
    BY <1>1, <2>1, Zenon
  <2>. QED
    BY <2>2, <2>3
<1>. HIDE DEF fill, phase, a, b
<1>2. phase \in Nat /\ a \in Nat /\ b \in Nat /\ a <= 65535 /\ b <= 65535
  <2>1. \A i \in 0..6 : i \in Nat
    OBVIOUS
  <2>2. a \in Nat /\ b \in Nat /\ a <= 65535 /\ b <= 65535
    BY <1>1, CodecAssumption
  <2>. QED
    BY <1>1, <2>1, <2>2
<1>3. /\ s \in AnySession
      /\ s.gameData = Filled(a) /\ s.gameState = Filled(b)
      /\ s.phase = IF phase = 0 THEN << >> ELSE <<phase>>
  <2>1. SampleGood(s, fill, phase, a, b)
    BY <1>1, <1>2, SampleIs
  <2>. HIDE DEF s
  <2>. QED
    BY <2>1 DEF SampleGood
<1>4. /\ fill = "wide" => ~AllFit(s)
      /\ fill # "wide" => AllFit(s) /\ Normal(s)
  BY <1>1, <1>2, SampleFits
<1>. HIDE DEF s
<1>5. Len(s.gameData) <= 65535 /\ Len(s.gameState) <= 65535
  BY <1>2, <1>3, FilledIs
<1>6. TsEncode(s) = Encode(s)
  BY <1>3, EncodersAgree
<1>7. Encode(s) = IF Wide(s) THEN {} ELSE {Message(s)}
  BY DEF Encode, Wide, TooWide, FixedPart, Message
<1>8. Wide(s) <=> fill = "wide"
  BY <1>3, <1>4, <1>5, WideIs
<1>9. fill = "wide" <=> Encode(s) = {}
  BY <1>7, <1>8
<1>10. ASSUME NEW x \in Encode(s)
       PROVE  /\ m.cut + m.extra = 0 => TsDecode(Received(x, m.cut, m.extra)) = {s}
              /\ SolDecode(Received(x, m.cut, m.extra))
                   = IF phase > MaxPhase THEN {} ELSE TsDecode(Received(x, m.cut, m.extra))
  <2>. DEFINE y == Received(x, m.cut, m.extra)
  <2>1. x = Message(s) /\ AllFit(s) /\ Normal(s)
    BY <1>4, <1>7, <1>8
  <2>2. x \in ByteStrings /\ Len(x) >= 239 /\ TsDecode(x) = {s}
    BY <1>3, <2>1, RoundTrip, MessageLong
  <2>3. x[178] = phase
    <3>1. x[178] = IF s.phase = << >> THEN 0 ELSE s.phase[1]
      BY <1>3, <2>1, PhaseAt
    <3>2. CASE phase = 0
      BY <1>3, <3>1, <3>2
    <3>3. CASE phase # 0
      <4>1. s.phase = <<phase>> /\ s.phase # << >> /\ s.phase[1] = phase
        BY <1>3, <3>3
      <4>. QED
        BY <3>1, <4>1
    <3>. QED
      BY <3>2, <3>3
  <2>4. /\ y \in ByteStrings /\ (m.cut + m.extra = 0 => y = x)
        /\ y[178] = x[178] \/ ~Whole(y)
    BY <1>1a, <2>2, ReceivedIs
  <2>. HIDE DEF y
  <2>5. m.cut + m.extra = 0 => TsDecode(y) = {s}
    BY <2>2, <2>4
  <2>6. SolDecode(y) = IF phase > MaxPhase THEN {} ELSE TsDecode(y)
    <3>1. /\ ~(y[178] > MaxPhase) => SolDecode(y) = TsDecode(y)
          /\ y[178] > MaxPhase => SolDecode(y) = {}
          /\ ~Whole(y) => SolDecode(y) = {} /\ TsDecode(y) = {}
      BY <2>4, DecodersAgree
    <3>2. CASE ~Whole(y)
      BY <3>1, <3>2
    <3>3. CASE y[178] = phase
      BY <3>1, <3>3
    <3>. QED
      BY <2>3, <2>4, <3>2, <3>3
  <2>. QED
    BY <2>5, <2>6 DEF y
<1>. QED
  BY <1>6, <1>9, <1>10 DEF CodecsAgreeOn, s, fill, phase, a, b

-----------------------------------------------------------------------------
(* Coinflip.  Binomials are numbers of subsets, so that what the page       *)
(* computes is compared with the sets of coins that it stands for.          *)

Heads(n) == SUBSET (0..(n - 1))
Chosen(n, k) == {w \in Heads(n) : Cardinality(w) = k}
Binomial(n, k) == Cardinality(Chosen(n, k))

LEMMA HeadsFinite ==
  ASSUME NEW n \in Nat
  PROVE  /\ IsFiniteSet(0..(n - 1)) /\ Cardinality(0..(n - 1)) = n
         /\ IsFiniteSet(Heads(n))
         /\ \A w \in Heads(n) : IsFiniteSet(w) /\ Cardinality(w) \in 0..n
         /\ \A U \in SUBSET Heads(n) : IsFiniteSet(U) /\ Cardinality(U) \in Nat
<1>1. IsFiniteSet(0..(n - 1)) /\ Cardinality(0..(n - 1)) = n
  BY FS_Interval
<1>2. IsFiniteSet(Heads(n))
  BY <1>1, FS_SUBSET DEF Heads
<1>3. ASSUME NEW w \in Heads(n) PROVE IsFiniteSet(w) /\ Cardinality(w) \in 0..n
  <2>1. w \in SUBSET (0..(n - 1))
    BY DEF Heads
  <2>2. IsFiniteSet(w) /\ Cardinality(w) <= Cardinality(0..(n - 1))
    BY <1>1, <2>1, FS_Subset
  <2>3. Cardinality(w) \in Nat
    BY <2>2, FS_CardinalityType
  <2>. QED
    BY <1>1, <2>2, <2>3
<1>4. ASSUME NEW U \in SUBSET Heads(n) PROVE IsFiniteSet(U) /\ Cardinality(U) \in Nat
  <2>1. IsFiniteSet(U)
    BY <1>2, FS_Subset
  <2>. QED
    BY <2>1, FS_CardinalityType
<1>. QED
  BY <1>1, <1>2, <1>3, <1>4

LEMMA BinomialNat ==
  ASSUME NEW n \in Nat, NEW k
  PROVE  Binomial(n, k) \in Nat /\ IsFiniteSet(Chosen(n, k))
<1>1. Chosen(n, k) \in SUBSET Heads(n)
  BY DEF Chosen
<1>. QED
  BY <1>1, HeadsFinite DEF Binomial

LEMMA BinomialEnds ==
  ASSUME NEW n \in Nat
  PROVE  /\ Binomial(n, 0) = 1 /\ Binomial(n, n) = 1
         /\ \A k \in Nat : k > n => Binomial(n, k) = 0
<1>1. Chosen(n, 0) = {{}}
  <2>1. \A w \in Heads(n) : Cardinality(w) = 0 <=> w = {}
    BY HeadsFinite, FS_EmptySet
  <2>2. {} \in Heads(n)
    BY DEF Heads
  <2>. QED
    BY <2>1, <2>2 DEF Chosen
<1>2. Chosen(n, n) = {0..(n - 1)}
  <2>1. ASSUME NEW w \in Heads(n), Cardinality(w) = n PROVE w = 0..(n - 1)
    <3>1. w \in SUBSET (0..(n - 1))
      BY DEF Heads
    <3>2. IsFiniteSet(0..(n - 1)) /\ Cardinality(0..(n - 1)) = Cardinality(w)
      BY <2>1, HeadsFinite
    <3>. QED
      BY <3>1, <3>2, FS_Subset
  <2>2. 0..(n - 1) \in Heads(n) /\ Cardinality(0..(n - 1)) = n
    BY HeadsFinite DEF Heads
  <2>. QED
    BY <2>1, <2>2 DEF Chosen
<1>3. ASSUME NEW k \in Nat, k > n PROVE Binomial(n, k) = 0
  <2>1. \A w \in Heads(n) : Cardinality(w) # k
    BY <1>3, HeadsFinite
  <2>2. Chosen(n, k) = {}
    BY <2>1 DEF Chosen
  <2>. QED
    BY <2>2, FS_EmptySet DEF Binomial
<1>. QED
  BY <1>1, <1>2, <1>3, FS_Singleton DEF Binomial

\* Of one coin more, either it is not chosen or one coin less is of the rest.
LEMMA Pascal ==
  ASSUME NEW n \in Nat, NEW k \in Nat
  PROVE  Binomial(n + 1, k + 1) = Binomial(n, k + 1) + Binomial(n, k)
<1>. DEFINE with == {w \cup {n} : w \in Chosen(n, k)}
            f == [w \in Chosen(n, k) |-> w \cup {n}]
<1>0. (n + 1) - 1 = n /\ n \notin 0..(n - 1) /\ 0..n = (0..(n - 1)) \cup {n}
  OBVIOUS
<1>1. \A w \in Heads(n) : n \notin w /\ Cardinality(w \cup {n}) = Cardinality(w) + 1
  <2>1. ASSUME NEW w \in Heads(n) PROVE n \notin w /\ Cardinality(w \cup {n}) = Cardinality(w) + 1
    <3>1. n \notin w /\ IsFiniteSet(w)
      BY <1>0, HeadsFinite DEF Heads
    <3>. QED
      BY <3>1, FS_AddElement
  <2>. QED
    BY <2>1
<1>2. Chosen(n + 1, k + 1) = Chosen(n, k + 1) \cup with
  <2>1. Heads(n) \subseteq Heads(n + 1)
    BY <1>0 DEF Heads
  <2>2. ASSUME NEW w \in Chosen(n, k) PROVE w \cup {n} \in Chosen(n + 1, k + 1)
    <3>1. w \in Heads(n) /\ Cardinality(w) = k
      BY DEF Chosen
    <3>2. w \cup {n} \in Heads(n + 1)
      BY <1>0, <3>1 DEF Heads
    <3>. QED
      BY <1>1, <3>1, <3>2 DEF Chosen
  <2>3. ASSUME NEW w \in Chosen(n + 1, k + 1), w \notin Chosen(n, k + 1)
        PROVE  \E v \in Chosen(n, k) : w = v \cup {n}
    <3>1. w \in Heads(n + 1) /\ Cardinality(w) = k + 1
      BY DEF Chosen
    <3>2. w \notin Heads(n)
      BY <2>3, <3>1 DEF Chosen
    <3>3. n \in w
      BY <1>0, <3>1, <3>2 DEF Heads
    <3>4. w \ {n} \in Heads(n)
      BY <1>0, <3>1 DEF Heads
    <3>5. w = (w \ {n}) \cup {n}
      BY <3>3
    <3>6. Cardinality(w \ {n}) = k
      <4>1. Cardinality(w) = Cardinality(w \ {n}) + 1
        BY <1>1, <3>4, <3>5
      <4>2. Cardinality(w \ {n}) \in Nat
        BY <3>4, HeadsFinite
      <4>. QED
        BY <3>1, <4>1, <4>2
    <3>. QED
      BY <3>4, <3>5, <3>6 DEF Chosen
  <2>4. Chosen(n, k + 1) \subseteq Chosen(n + 1, k + 1)
    BY <2>1 DEF Chosen
  <2>. QED
    BY <2>2, <2>3, <2>4
<1>3. Chosen(n, k + 1) \cap with = {}
  BY <1>1 DEF Chosen
<1>4. IsFiniteSet(with) /\ Cardinality(with) = Binomial(n, k)
  <2>1. \A w, v \in Chosen(n, k) : w \cup {n} = v \cup {n} => w = v
    <3>1. \A w \in Chosen(n, k) : n \notin w
      BY <1>1 DEF Chosen
    <3>2. ASSUME NEW w \in Chosen(n, k), NEW v \in Chosen(n, k), w \cup {n} = v \cup {n}
          PROVE  w = v
      <4>1. \A x : x \in w <=> x \in w \cup {n} /\ x # n
        BY <3>1
      <4>2. \A x : x \in v <=> x \in v \cup {n} /\ x # n
        BY <3>1
      <4>3. \A x : x \in w <=> x \in v
        BY <3>2, <4>1, <4>2
      <4>. QED
        BY <4>3
    <3>. QED
      BY <3>2
  <2>2. f \in Bijection(Chosen(n, k), with)
    <3>1. f \in [Chosen(n, k) -> with]
      OBVIOUS
    <3>2. \A w, v \in Chosen(n, k) : f[w] = f[v] => w = v
      BY <2>1
    <3>3. \A u \in with : \E w \in Chosen(n, k) : f[w] = u
      OBVIOUS
    <3>. HIDE DEF f, with
    <3>. QED
      BY <3>1, <3>2, <3>3 DEF Bijection, Injection, Surjection, IsInjective
  <2>3. ExistsBijection(Chosen(n, k), with)
    <3>. HIDE DEF f, with
    <3>. QED
      BY <2>2 DEF ExistsBijection
  <2>4. IsFiniteSet(Chosen(n, k))
    BY BinomialNat
  <2>. HIDE DEF with
  <2>. QED
    BY <2>3, <2>4, FS_Bijection DEF Binomial
<1>5. IsFiniteSet(Chosen(n, k + 1)) /\ Binomial(n, k + 1) \in Nat /\ Binomial(n, k) \in Nat
  BY BinomialNat
<1>. HIDE DEF with
<1>6. Cardinality(Chosen(n, k + 1) \cup with)
        = Binomial(n, k + 1) + Binomial(n, k) - Cardinality({})
  BY <1>3, <1>4, <1>5, FS_Union DEF Binomial
<1>. QED
  BY <1>2, <1>5, <1>6, FS_EmptySet DEF Binomial

Tails(n, w) == (0..(n - 1)) \ w

LEMMA TailsIs ==
  ASSUME NEW n \in Nat, NEW w \in Heads(n)
  PROVE  /\ Tails(n, w) \in Heads(n) /\ Tails(n, Tails(n, w)) = w
         /\ Cardinality(Tails(n, w)) = n - Cardinality(w)
<1>1. Tails(n, w) \in Heads(n) /\ Tails(n, Tails(n, w)) = w
  BY DEF Tails, Heads
<1>2. (0..(n - 1)) \cap w = w
  BY DEF Heads
<1>3. Cardinality(Tails(n, w)) = Cardinality(0..(n - 1)) - Cardinality((0..(n - 1)) \cap w)
  BY HeadsFinite, FS_Difference DEF Tails
<1>. QED
  BY <1>1, <1>2, <1>3, HeadsFinite

\* As many ways to show some faces as to show their other sides.
LEMMA Turned ==
  ASSUME NEW n \in Nat, NEW U \in SUBSET Heads(n), NEW V \in SUBSET Heads(n),
         \A w \in U : Tails(n, w) \in V, \A w \in V : Tails(n, w) \in U
  PROVE  Cardinality(U) = Cardinality(V)
<1>. DEFINE f == [w \in U |-> Tails(n, w)]
<1>1. f \in [U -> V]
  OBVIOUS
<1>2. ASSUME NEW w \in U, NEW v \in U, f[w] = f[v] PROVE w = v
  <2>1. Tails(n, w) = Tails(n, v)
    BY <1>2
  <2>2. Tails(n, Tails(n, w)) = w /\ Tails(n, Tails(n, v)) = v
    BY TailsIs
  <2>. QED
    BY <2>1, <2>2
<1>3. ASSUME NEW v \in V PROVE \E w \in U : f[w] = v
  <2>1. Tails(n, v) \in U /\ Tails(n, Tails(n, v)) = v
    BY TailsIs
  <2>. QED
    BY <2>1
<1>. HIDE DEF f
<1>4. f \in Bijection(U, V)
  BY <1>1, <1>2, <1>3 DEF Bijection, Injection, Surjection, IsInjective
<1>5. ExistsBijection(U, V) /\ IsFiniteSet(U)
  BY <1>4, HeadsFinite DEF ExistsBijection
<1>. QED
  BY <1>5, FS_Bijection

LEMMA Symmetry ==
  ASSUME NEW n \in Nat, NEW k \in 0..n
  PROVE  Binomial(n, n - k) = Binomial(n, k)
<1>1. Chosen(n, k) \in SUBSET Heads(n) /\ Chosen(n, n - k) \in SUBSET Heads(n)
  BY DEF Chosen
<1>2. \A w \in Chosen(n, k) : Tails(n, w) \in Chosen(n, n - k)
  BY TailsIs DEF Chosen
<1>3. \A w \in Chosen(n, n - k) : Tails(n, w) \in Chosen(n, k)
  <2>1. n - (n - k) = k
    OBVIOUS
  <2>. QED
    BY <2>1, TailsIs DEF Chosen
<1>. QED
  BY <1>1, <1>2, <1>3, Turned DEF Binomial

\* Choosing k of n, and one of the k: choosing it first, and the others after.
LEMMA Absorption ==
  ASSUME NEW n \in Nat, NEW k \in Nat
  PROVE  (k + 1) * Binomial(n + 1, k + 1) = (n + 1) * Binomial(n, k)
<1>. DEFINE T == {m \in 0..n : \A j \in Nat :
                    (j + 1) * Binomial(m + 1, j + 1) = (m + 1) * Binomial(m, j)}
<1>1. 0 \in T
  <2>1. ASSUME NEW j \in Nat PROVE (j + 1) * Binomial(0 + 1, j + 1) = (0 + 1) * Binomial(0, j)
    <3>1. Binomial(0 + 1, j + 1) = Binomial(0, j + 1) + Binomial(0, j)
      BY Pascal
    <3>2. Binomial(0, j + 1) = 0
      BY BinomialEnds
    <3>3. j = 0 \/ Binomial(0, j) = 0
      BY BinomialEnds
    <3>4. Binomial(0, j) \in Nat
      BY BinomialNat
    <3>. QED
      BY <3>1, <3>2, <3>3, <3>4
  <2>. QED
    BY <2>1
<1>2. ASSUME NEW m \in 0..(n - 1), m \in T PROVE m + 1 \in T
  <2>0. m \in Nat /\ m + 1 \in Nat /\ m + 1 \in 0..n
    OBVIOUS
  <2>1. \A j \in Nat : (j + 1) * Binomial(m + 1, j + 1) = (m + 1) * Binomial(m, j)
    BY <1>2
  <2>2. ASSUME NEW j \in Nat
        PROVE  (j + 1) * Binomial((m + 1) + 1, j + 1) = ((m + 1) + 1) * Binomial(m + 1, j)
    <3>. DEFINE a == Binomial(m + 1, j + 1)
                b == Binomial(m + 1, j)
                c == Binomial(m, j)
    <3>1. a \in Nat /\ b \in Nat /\ c \in Nat
      BY <2>0, BinomialNat
    <3>2. Binomial((m + 1) + 1, j + 1) = a + b
      BY <2>0, Pascal
    <3>3. (j + 1) * a = (m + 1) * c
      BY <2>1
    <3>4. CASE j = 0
      <4>1. b = 1 /\ c = 1
        BY <2>0, <3>4, BinomialEnds
      <4>. HIDE DEF a, b, c
      <4>2. a = m + 1
        BY <2>0, <3>1, <3>3, <3>4, <4>1
      <4>. QED
        BY <2>0, <3>2, <3>4, <4>1, <4>2 DEF b
    <3>5. CASE j # 0
      <4>. DEFINE i == j - 1
                  d == Binomial(m, i)
      <4>1. i \in Nat /\ j = i + 1
        BY <3>5
      <4>2. d \in Nat
        BY <2>0, BinomialNat
      <4>3. (i + 1) * Binomial(m + 1, i + 1) = (m + 1) * Binomial(m, i)
        BY <2>1, <4>1
      <4>4. j * b = (m + 1) * d
        BY <4>1, <4>3
      <4>5. Binomial(m + 1, i + 1) = Binomial(m, i + 1) + Binomial(m, i)
        BY <2>0, <4>1, Pascal
      <4>6. b = c + d
        BY <4>1, <4>5
      <4>. HIDE DEF a, b, c, d, i
      <4>7. (j + 1) * (a + b) = (j + 1) * a + j * b + b
        BY <3>1
      <4>8. (m + 1) * c + (m + 1) * d = (m + 1) * b
        BY <2>0, <3>1, <4>2, <4>6
      <4>9. (m + 1) * b + b = ((m + 1) + 1) * b
        BY <2>0, <3>1
      <4>. DEFINE x == (m + 1) * c
                  y == (m + 1) * d
                  z == (m + 1) * b
      <4>10. x \in Nat /\ y \in Nat /\ z \in Nat
        BY <2>0, <3>1, <4>2
      <4>11. (j + 1) * (a + b) = x + y + b
        BY <3>3, <4>4, <4>7
      <4>12. x + y = z /\ z + b = ((m + 1) + 1) * b
        BY <4>8, <4>9
      <4>. HIDE DEF x, y, z
      <4>13. (j + 1) * (a + b) = ((m + 1) + 1) * b
        BY <3>1, <4>10, <4>11, <4>12
      <4>. QED
        BY <3>2, <4>13 DEF b
    <3>. QED
      BY <3>4, <3>5
  <2>. QED
    BY <2>0, <2>2
<1>. HIDE DEF T
<1>3. \A m \in 0..n : m \in T
  BY <1>1, <1>2, Induction
<1>4. n \in T
  BY <1>3
<1>. QED
  BY <1>4 DEF T

LEMMA DivExact ==
  ASSUME NEW x \in Nat, NEW i \in Nat \ {0}
  PROVE  (i * x) \div i = x
OBVIOUS

\* The loop of nCk counts, for every number of coins, and no division rounds.
LEMMA NCkCounts ==
  ASSUME NEW n \in Nat, NEW k \in 0..n
  PROVE  Flip!NCk(n, k) = Binomial(n, k)
<1>. DEFINE e == IF k < n - k THEN k ELSE n - k
            Rec(h) == h = [i \in 0..e |-> IF i = 0 THEN 1 ELSE (h[i - 1] * (n - e + i)) \div i]
            f == CHOOSE h : Rec(h)
            m == n - e
            g == [i \in 0..e |-> Binomial(m + i, i)]
<1>1. Flip!NCk(n, k) = f[e]
  BY DEF Flip!NCk
<1>2. e \in 0..n /\ (e = k \/ e = n - k) /\ m \in Nat /\ m + e = n
  OBVIOUS
<1>3. ASSUME NEW i \in 0..e, i # 0
      PROVE  /\ i - 1 \in 0..e
             /\ (g[i - 1] * (m + i)) \div i = g[i]
  <2>. HIDE DEF e, m
  <2>0. e \in Nat
    BY <1>2
  <2>. DEFINE j == i - 1
              b == Binomial(m + j, j)
              a == Binomial(m + i, i)
  <2>1. j \in Nat /\ i = j + 1 /\ m + j \in Nat /\ j \in 0..e /\ m + i = (m + j) + 1
    BY <1>2, <1>3, <2>0
  <2>2. (j + 1) * Binomial((m + j) + 1, j + 1) = ((m + j) + 1) * Binomial(m + j, j)
    BY <2>1, Absorption
  <2>3. i * a = (m + i) * b
    BY <2>1, <2>2
  <2>4. a \in Nat /\ b \in Nat /\ m + i \in Nat /\ i \in Nat \ {0}
    <3>1. m + i \in Nat
      BY <1>2, <2>0
    <3>. QED
      BY <1>3, <2>0, <2>1, <3>1, BinomialNat
  <2>5. g[i - 1] = b /\ g[i] = a
    BY <2>1
  <2>. HIDE DEF a, b, g, j
  <2>6. b * (m + i) = i * a
    BY <2>3, <2>4
  <2>7. (i * a) \div i = a
    BY <2>4, DivExact
  <2>. QED
    BY <2>1, <2>5, <2>6, <2>7 DEF j
<1>4. g[0] = 1
  <2>. HIDE DEF e, m
  <2>. QED
    BY <1>2, BinomialEnds
<1>5. Rec(g)
  <2>. DEFINE R(i) == IF i = 0 THEN 1 ELSE (g[i - 1] * (m + i)) \div i
  <2>1. \A i \in 0..e : g[i] = R(i)
    <3>. HIDE DEF g, e, m
    <3>. QED
      BY <1>3, <1>4
  <2>2. g = [i \in 0..e |-> g[i]]
    OBVIOUS
  <2>3. g = [i \in 0..e |-> R(i)]
    <3>. HIDE DEF g, R
    <3>. QED
      BY <2>1, <2>2
  <2>. QED
    BY <2>3 DEF Rec
<1>6. Rec(f)
  <2>. HIDE DEF Rec, g
  <2>. QED
    BY <1>5
<1>7. \A i \in 0..e : f[i] = IF i = 0 THEN 1 ELSE (f[i - 1] * (m + i)) \div i
  <2>. HIDE DEF f, e
  <2>. QED
    BY <1>6
<1>. DEFINE T == {i \in 0..e : f[i] = g[i]}
<1>. HIDE DEF f, g, m, e, Rec
<1>8. 0 \in T
  BY <1>2, <1>4, <1>7
<1>9. ASSUME NEW i \in 0..(e - 1), i \in T PROVE i + 1 \in T
  <2>1. i + 1 \in 0..e /\ i + 1 # 0 /\ (i + 1) - 1 = i
    BY <1>2
  <2>2. (g[i] * (m + (i + 1))) \div (i + 1) = g[i + 1]
    BY <1>3, <2>1
  <2>3. f[i + 1] = (f[i] * (m + (i + 1))) \div (i + 1)
    BY <1>7, <2>1
  <2>. QED
    BY <1>9, <2>1, <2>2, <2>3
<1>10. e \in T
  <2>1. e \in Nat /\ e \in 0..e
    BY <1>2
  <2>2. \A i \in 0..e : i \in T
    <3>. HIDE DEF T
    <3>. QED
      BY <1>8, <1>9, <2>1, Induction
  <2>. QED
    BY <2>1, <2>2
<1>11. f[e] = Binomial(n, e)
  <2>1. e \in 0..e
    BY <1>2
  <2>. QED
    BY <1>2, <1>10, <2>1 DEF g
<1>12. Binomial(n, e) = Binomial(n, k)
  BY <1>2, Symmetry
<1>. QED
  BY <1>1, <1>11, <1>12

\* The faces of n coins of which a number in s show heads.
Counted(n, s) == {w \in Heads(n) : Cardinality(w) \in s}

LEMMA CountedOff ==
  ASSUME NEW n \in Nat, NEW s, NEW x \in s
  PROVE  Cardinality(Counted(n, s)) = Binomial(n, x) + Cardinality(Counted(n, s \ {x}))
<1>1. Counted(n, s) = Chosen(n, x) \cup Counted(n, s \ {x})
  BY DEF Counted, Chosen
<1>2. Chosen(n, x) \cap Counted(n, s \ {x}) = {}
  BY DEF Counted, Chosen
<1>3. /\ Chosen(n, x) \in SUBSET Heads(n)
      /\ Counted(n, s \ {x}) \in SUBSET Heads(n)
  BY DEF Counted, Chosen
<1>4. /\ IsFiniteSet(Chosen(n, x)) /\ IsFiniteSet(Counted(n, s \ {x}))
      /\ Cardinality(Chosen(n, x)) \in Nat /\ Cardinality(Counted(n, s \ {x})) \in Nat
  BY <1>3, HeadsFinite
<1>5. Cardinality(Counted(n, s))
        = Binomial(n, x) + Cardinality(Counted(n, s \ {x})) - Cardinality({})
  BY <1>1, <1>2, <1>4, FS_Union DEF Binomial
<1>. QED
  BY <1>4, <1>5, FS_EmptySet DEF Binomial

PickedOf(s) == CHOOSE x \in s : TRUE

LEMMA WinningWaysCount ==
  ASSUME NEW bet \in Flip!Bets
  PROVE  Flip!WinningWays(bet)
           = Cardinality(Counted(bet.coinCount, bet.minWins..bet.coinCount))
<1>. DEFINE n == bet.coinCount
            S == bet.minWins..bet.coinCount
            Rec(h) == h = [s \in SUBSET S |->
                             IF s = {} THEN 0 ELSE Flip!NCk(n, PickedOf(s)) + h[s \ {PickedOf(s)}]]
            f == CHOOSE h : Rec(h)
            g == [s \in SUBSET S |-> Cardinality(Counted(n, s))]
<1>1. Flip!WinningWays(bet) = f[S]
  BY DEF Flip!WinningWays, Flip!MapThenSumSet, Flip!MapThenFoldSet, PickedOf
<1>2. /\ n \in Nat /\ S \subseteq 0..n /\ IsFiniteSet(S) /\ Cardinality(S) \in Nat
      /\ S \in SUBSET S
  <2>1. n \in 1..10 /\ bet.minWins \in 1..10 /\ bet.minWins <= n
    BY DEF Flip!Bets, Flip!MaxCoinCount
  <2>2. n \in Nat /\ bet.minWins \in Nat
    BY <2>1
  <2>3. IsFiniteSet(S)
    BY <2>2, FS_Interval
  <2>. QED
    BY <2>2, <2>3, FS_CardinalityType
<1>. HIDE DEF n, S
<1>3. ASSUME NEW s \in SUBSET S, s # {}
      PROVE  /\ PickedOf(s) \in s /\ s \ {PickedOf(s)} \in SUBSET S
             /\ g[s] = Flip!NCk(n, PickedOf(s)) + g[s \ {PickedOf(s)}]
  <2>1. PickedOf(s) \in s
    BY <1>3 DEF PickedOf
  <2>2. PickedOf(s) \in 0..n
    BY <1>2, <2>1
  <2>3. Cardinality(Counted(n, s)) = Binomial(n, PickedOf(s)) + Cardinality(Counted(n, s \ {PickedOf(s)}))
    BY <1>2, <2>1, CountedOff
  <2>4. Flip!NCk(n, PickedOf(s)) = Binomial(n, PickedOf(s))
    BY <1>2, <2>2, NCkCounts
  <2>. QED
    BY <2>1, <2>3, <2>4
<1>4. g[{}] = 0
  <2>1. Counted(n, {}) = {}
    BY DEF Counted
  <2>2. {} \in SUBSET S
    OBVIOUS
  <2>. QED
    BY <2>1, <2>2, FS_EmptySet
<1>5. Rec(g)
  <2>. DEFINE R(s) == IF s = {} THEN 0 ELSE Flip!NCk(n, PickedOf(s)) + g[s \ {PickedOf(s)}]
  <2>1. \A s \in SUBSET S : g[s] = R(s)
    <3>. HIDE DEF g
    <3>. QED
      BY <1>3, <1>4
  <2>2. g = [s \in SUBSET S |-> g[s]]
    OBVIOUS
  <2>3. g = [s \in SUBSET S |-> R(s)]
    <3>. HIDE DEF g, R
    <3>. QED
      BY <2>1, <2>2
  <2>. QED
    BY <2>3 DEF Rec
<1>6. Rec(f)
  <2>. HIDE DEF Rec, g
  <2>. QED
    BY <1>5
<1>7. \A s \in SUBSET S : f[s] = IF s = {} THEN 0 ELSE Flip!NCk(n, PickedOf(s)) + f[s \ {PickedOf(s)}]
  <2>. HIDE DEF f
  <2>. QED
    BY <1>6
<1>. DEFINE T == {j \in 0..Cardinality(S) : \A s \in SUBSET S : Cardinality(s) = j => f[s] = g[s]}
<1>. HIDE DEF f, g, Rec
<1>8. 0 \in T
  <2>1. ASSUME NEW s \in SUBSET S, Cardinality(s) = 0 PROVE f[s] = g[s]
    <3>1. IsFiniteSet(s)
      BY <1>2, FS_Subset
    <3>2. s = {}
      BY <2>1, <3>1, FS_EmptySet
    <3>. QED
      BY <1>4, <1>7, <3>2
  <2>. QED
    BY <1>2, <2>1
<1>9. ASSUME NEW j \in 0..(Cardinality(S) - 1), j \in T PROVE j + 1 \in T
  <2>1. ASSUME NEW s \in SUBSET S, Cardinality(s) = j + 1 PROVE f[s] = g[s]
    <3>1. IsFiniteSet(s)
      BY <1>2, FS_Subset
    <3>2. s # {}
      BY <2>1, FS_EmptySet
    <3>3. PickedOf(s) \in s /\ s \ {PickedOf(s)} \in SUBSET S
      BY <1>3, <3>2
    <3>4. Cardinality(s \ {PickedOf(s)}) = j
      <4>. DEFINE x == PickedOf(s)
      <4>1. x \in s
        BY <3>3
      <4>. HIDE DEF x
      <4>2. Cardinality(s \ {x}) = Cardinality(s) - 1
        BY <3>1, <4>1, FS_RemoveElement
      <4>. QED
        BY <2>1, <4>2 DEF x
    <3>5. f[s \ {PickedOf(s)}] = g[s \ {PickedOf(s)}]
      BY <1>9, <3>3, <3>4
    <3>6. g[s] = Flip!NCk(n, PickedOf(s)) + g[s \ {PickedOf(s)}]
      BY <1>3, <3>2
    <3>. QED
      BY <1>7, <3>2, <3>5, <3>6
  <2>. QED
    BY <1>2, <2>1
<1>10. \A j \in 0..Cardinality(S) : j \in T
  <2>. HIDE DEF T
  <2>. QED
    BY <1>2, <1>8, <1>9, Induction
<1>11. f[S] = g[S]
  <2>1. Cardinality(S) \in T
    <3>. HIDE DEF T
    <3>. QED
      BY <1>2, <1>10
  <2>. QED
    BY <1>2, <2>1
<1>. QED
  BY <1>1, <1>2, <1>11 DEF g, n, S

\* Cardinality as the module Coinflip has it.
LEMMA SameCardinality ==
  ASSUME NEW S
  PROVE  Flip!Cardinality(S) = Cardinality(S)
BY Zenon DEF Cardinality, Flip!Cardinality

Wins(bet, heads) ==
  IF bet.pickHeads THEN Cardinality(heads) ELSE bet.coinCount - Cardinality(heads)

LEMMA OutcomeIs ==
  ASSUME NEW bet, NEW heads
  PROVE  Flip!Outcome(bet, heads)
           = [heads |-> heads, pickedSideWins |-> Wins(bet, heads),
              won |-> Wins(bet, heads) >= bet.minWins]
BY SameCardinality, Zenon DEF Flip!Outcome, Wins

LEMMA BetIs ==
  ASSUME NEW bet \in Flip!Bets
  PROVE  /\ bet.coinCount \in 1..10 /\ bet.minWins \in 1..10 /\ bet.minWins <= bet.coinCount
         /\ bet.coinCount \in Nat /\ bet.minWins \in Nat \ {0} /\ bet.pickHeads \in BOOLEAN
         /\ Flip!Coins(bet) = 0..(bet.coinCount - 1)
         /\ SUBSET Flip!Coins(bet) = Heads(bet.coinCount)
<1>1. /\ bet.coinCount \in 1..10 /\ bet.minWins \in 1..10 /\ bet.minWins <= bet.coinCount
      /\ bet.pickHeads \in BOOLEAN
  BY DEF Flip!Bets, Flip!MaxCoinCount
<1>. QED
  BY <1>1 DEF Heads, Flip!Coins

\* The ways to win are the words that win, whichever side is picked.
LEMMA WaysAreWords ==
  ASSUME NEW bet \in Flip!Bets
  PROVE  /\ Flip!WinningWays(bet)
              = Cardinality({w \in SUBSET Flip!Coins(bet) : Flip!Outcome(bet, w).won})
         /\ Flip!WinningWays(bet) \in Nat \ {0}
<1>. DEFINE n == bet.coinCount
            m == bet.minWins
            U == {w \in SUBSET Flip!Coins(bet) : Flip!Outcome(bet, w).won}
            V == Counted(n, m..n)
<1>1. /\ n \in Nat /\ m \in Nat /\ m <= n /\ bet.pickHeads \in BOOLEAN
      /\ SUBSET Flip!Coins(bet) = Heads(n)
  BY BetIs
<1>2. \A w : Flip!Outcome(bet, w).won
               <=> (IF bet.pickHeads THEN Cardinality(w) ELSE n - Cardinality(w)) >= m
  BY OutcomeIs DEF Wins
<1>3. Flip!WinningWays(bet) = Cardinality(V)
  BY WinningWaysCount
<1>. HIDE DEF n, m
<1>4. U \in SUBSET Heads(n) /\ V \in SUBSET Heads(n)
  BY <1>1 DEF Counted
<1>5. \A w \in Heads(n) : w \in V <=> Cardinality(w) >= m
  <2>1. \A w \in Heads(n) : Cardinality(w) \in 0..n
    BY <1>1, HeadsFinite
  <2>. QED
    BY <1>1, <2>1 DEF Counted
<1>6. \A w \in Heads(n) :
        w \in U <=> (IF bet.pickHeads THEN Cardinality(w) ELSE n - Cardinality(w)) >= m
  BY <1>1, <1>2
<1>. HIDE DEF U, V
<1>7. Cardinality(U) = Cardinality(V)
  <2>1. CASE bet.pickHeads
    <3>1. \A w \in Heads(n) : w \in U <=> w \in V
      BY <1>5, <1>6, <2>1
    <3>2. U = V
      BY <1>4, <3>1
    <3>. QED
      BY <3>2
  <2>2. CASE ~bet.pickHeads
    <3>1. ASSUME NEW w \in Heads(n)
          PROVE  /\ Tails(n, w) \in Heads(n)
                 /\ n - Cardinality(Tails(n, w)) = Cardinality(w)
                 /\ Cardinality(Tails(n, w)) = n - Cardinality(w)
      <4>1. Cardinality(w) \in Nat
        BY <1>1, HeadsFinite
      <4>2. Tails(n, w) \in Heads(n) /\ Cardinality(Tails(n, w)) = n - Cardinality(w)
        BY <1>1, TailsIs
      <4>. QED
        BY <1>1, <4>1, <4>2
    <3>2. ASSUME NEW w \in U PROVE Tails(n, w) \in V
      <4>1. w \in Heads(n) /\ n - Cardinality(w) >= m
        BY <1>4, <1>6, <2>2
      <4>. QED
        BY <1>5, <3>1, <4>1
    <3>3. ASSUME NEW w \in V PROVE Tails(n, w) \in U
      <4>1. w \in Heads(n) /\ Cardinality(w) >= m
        BY <1>4, <1>5
      <4>2. Tails(n, w) \in Heads(n) /\ n - Cardinality(Tails(n, w)) >= m
        BY <3>1, <4>1
      <4>. QED
        BY <1>6, <2>2, <4>2
    <3>. QED
      BY <1>1, <1>4, <3>2, <3>3, Turned
  <2>. QED
    BY <2>1, <2>2
<1>8. Cardinality(V) \in Nat \ {0}
  <2>1. 0..(n - 1) \in Heads(n) /\ Cardinality(0..(n - 1)) = n
    BY <1>1, HeadsFinite DEF Heads
  <2>2. 0..(n - 1) \in V
    BY <1>1, <1>5, <2>1
  <2>3. IsFiniteSet(V) /\ Cardinality(V) \in Nat
    BY <1>1, <1>4, HeadsFinite
  <2>. QED
    BY <2>2, <2>3, FS_EmptySet
<1>. QED
  BY <1>3, <1>7, <1>8 DEF U

\* The faces made up for a result are faces of that result.
LEMMA MadeFaces ==
  ASSUME NEW bet \in Flip!Bets, NEW won \in BOOLEAN
  PROVE  LET made == Flip!OutcomeFromResult(bet, won)
         IN  Flip!Outcome(bet, made.heads) = made
<1>. DEFINE n == bet.coinCount
            m == bet.minWins
            hits == IF won THEN m ELSE m - 1
            picked == {i \in Flip!Coins(bet) : i < hits}
            heads == IF bet.pickHeads THEN picked ELSE Flip!Coins(bet) \ picked
            made == [heads |-> heads, pickedSideWins |-> hits, won |-> won]
<1>1. Flip!OutcomeFromResult(bet, won) = made
  BY DEF Flip!OutcomeFromResult
<1>2. /\ n \in Nat /\ m \in Nat \ {0} /\ m <= n /\ bet.pickHeads \in BOOLEAN
      /\ Flip!Coins(bet) = 0..(n - 1)
  BY BetIs
<1>3. hits \in 0..n /\ (hits >= m <=> won)
  BY <1>2
<1>4. picked \in Heads(n) /\ Cardinality(picked) = hits
  <2>. HIDE DEF hits, n
  <2>1. picked = 0..(hits - 1)
    BY <1>2, <1>3
  <2>2. Cardinality(0..(hits - 1)) = hits
    BY <1>2, <1>3, FS_Interval
  <2>3. picked \in Heads(n)
    BY <1>2 DEF Heads
  <2>. QED
    BY <2>1, <2>2, <2>3
<1>5. Wins(bet, heads) = hits
  <2>. HIDE DEF hits, n, picked
  <2>1. Flip!Coins(bet) \ picked = Tails(n, picked)
    BY <1>2 DEF Tails
  <2>2. Cardinality(Tails(n, picked)) = n - hits
    BY <1>2, <1>4, TailsIs
  <2>3. n - (n - hits) = hits
    BY <1>2, <1>3
  <2>4. Cardinality(heads) = IF bet.pickHeads THEN hits ELSE n - hits
    BY <1>4, <2>1, <2>2
  <2>. HIDE DEF heads
  <2>. QED
    BY <2>3, <2>4 DEF Wins, n
<1>. HIDE DEF hits, heads
<1>6. Flip!Outcome(bet, heads)
        = [heads |-> heads, pickedSideWins |-> hits, won |-> hits >= m]
  BY <1>5, OutcomeIs
<1>7. (hits >= m) = won
  <2>1. (hits >= m) \in BOOLEAN /\ won \in BOOLEAN
    BY <1>2, <1>3
  <2>. QED
    BY <1>3, <2>1
<1>. QED
  BY <1>1, <1>6, <1>7

LEMMA DivNat ==
  ASSUME NEW n \in Nat, NEW k \in Nat \ {0}
  PROVE  n \div k \in Nat
OBVIOUS

\* The words of n coins.
LEMMA PowerNat ==
  ASSUME NEW n \in Nat
  PROVE  2^n \in Nat
<1>1. IsFiniteSet(0..(n - 1)) /\ Cardinality(0..(n - 1)) = n
  BY HeadsFinite
<1>2. Cardinality(SUBSET (0..(n - 1))) = 2^n
  BY <1>1, FS_SUBSET
<1>3. Cardinality(Heads(n)) \in Nat
  BY HeadsFinite
<1>. QED
  BY <1>2, <1>3 DEF Heads

\* What the page pays and what its multiplier says, of any number of words and
\* any number of them that win.
PaidFor(wager, words, ways) == (wager * 98 * words) \div (100 * ways)
Bps(words, ways) == (100 * 98 * words + ways - 1) \div ways

LEMMA PaidFairly ==
  ASSUME NEW wager \in Nat, NEW words \in Nat, NEW ways \in Nat \ {0}
  PROVE  LET fair == wager * 98 * words
             returned == 100 * ways * PaidFor(wager, words, ways)
         IN  /\ PaidFor(wager, words, ways) \in Nat
             /\ returned <= fair /\ fair - returned < 100 * ways
<1>. DEFINE fair == wager * 98 * words
            k == 100 * ways
            paid == PaidFor(wager, words, ways)
<1>1. fair \in Nat /\ k \in Nat \ {0} /\ paid = fair \div k
  <2>1. fair \in Nat
    <3>1. wager * 98 \in Nat
      OBVIOUS
    <3>. QED
      BY <3>1
  <2>. QED
    BY <2>1 DEF PaidFor
<1>. HIDE DEF fair, k, paid
<1>2. paid \in Nat /\ paid * k <= fair /\ fair < paid * k + k
  BY <1>1, DivBelow, DivNat
<1>3. paid * k = k * paid
  BY <1>1, <1>2
<1>4. k * paid \in Nat
  BY <1>1, <1>2
<1>. DEFINE returned == k * paid
<1>5. returned <= fair /\ fair - returned < k
  <2>. HIDE DEF returned
  <2>1. returned \in Nat /\ paid * k = returned
    BY <1>3, <1>4 DEF returned
  <2>. QED
    BY <1>1, <1>2, <2>1
<1>. QED
  BY <1>2, <1>5 DEF fair, k, paid

\* The multiplier in basis points is rounded up.
LEMMA BpsUp ==
  ASSUME NEW words \in Nat, NEW ways \in Nat \ {0}
  PROVE  Bps(words, ways) \in Nat /\ 9800 * words <= Bps(words, ways) * ways
<1>. DEFINE x == 9800 * words
            n == x + ways - 1
            b == Bps(words, ways)
<1>1. x \in Nat /\ n \in Nat /\ b = n \div ways
  <2>1. 100 * 98 * words = x
    OBVIOUS
  <2>. QED
    BY <2>1 DEF Bps
<1>. HIDE DEF x, n, b
<1>2. b \in Nat /\ n < b * ways + ways
  BY <1>1, DivBelow, DivNat
<1>3. b * ways \in Nat
  BY <1>2
<1>4. x <= b * ways
  BY <1>1, <1>2, <1>3 DEF n
<1>. QED
  BY <1>2, <1>4 DEF x, b

\* A bet that the page calls free of risk wins nothing over the wager.
LEMMA PaidNoProfit ==
  ASSUME NEW wager \in Nat, NEW words \in Nat, NEW ways \in Nat \ {0},
         Bps(words, ways) <= 10000
  PROVE  PaidFor(wager, words, ways) <= wager
<1>. DEFINE b == Bps(words, ways)
<1>1. b \in Nat /\ 9800 * words <= b * ways
  BY BpsUp
<1>2. b * ways <= 10000 * ways
  <2>1. b <= 10000
    OBVIOUS
  <2>. HIDE DEF b
  <2>. QED
    BY <1>1, <2>1
<1>3. 98 * words <= 100 * ways
  <2>. HIDE DEF b
  <2>1. b * ways \in Nat
    BY <1>1
  <2>. QED
    BY <1>1, <1>2, <2>1
<1>4. wager * (98 * words) <= wager * (100 * ways)
  <2>. DEFINE p == 98 * words
              q == 100 * ways
  <2>1. p \in Nat /\ q \in Nat /\ p <= q
    BY <1>3
  <2>. HIDE DEF p, q
  <2>2. wager * p <= wager * q
    BY <2>1
  <2>. QED
    BY <2>2 DEF p, q
<1>5. wager * 98 * words = wager * (98 * words)
  OBVIOUS
<1>. DEFINE n == wager * 98 * words
            k == 100 * ways
<1>6. n \in Int /\ k \in Nat /\ k > 0 /\ n <= wager * k
  <2>1. n \in Int
    <3>1. wager * (98 * words) \in Int
      <4>1. 98 * words \in Int
        OBVIOUS
      <4>. QED
        BY <4>1
    <3>. QED
      BY <1>5, <3>1
  <2>. QED
    BY <1>4, <1>5, <2>1
<1>7. n \div k <= wager
  <2>. HIDE DEF n, k
  <2>. QED
    BY <1>6, DivAtMost
<1>. QED
  BY <1>7 DEF PaidFor

\* A bet within the page's limit wins no more over the wager than is allowed.
LEMMA PaidWithinLimit ==
  ASSUME NEW words \in Nat, NEW ways \in Nat \ {0}, NEW most \in Nat,
         Bps(words, ways) > 10000,
         NEW wager \in Nat, wager * (Bps(words, ways) - 10000) <= most * 10000
  PROVE  PaidFor(wager, words, ways) <= wager + most
<1>. DEFINE b == Bps(words, ways)
            fair == wager * 98 * words
            k == 100 * ways
<1>1. b \in Nat /\ 9800 * words <= b * ways /\ b > 10000
  BY BpsUp
<1>2. wager * (b - 10000) <= most * 10000
  OBVIOUS
<1>. HIDE DEF b
<1>3. wager * b <= (wager + most) * 10000
  <2>1. wager * (b - 10000) = wager * b - wager * 10000
    BY <1>1
  <2>2. (wager + most) * 10000 = wager * 10000 + most * 10000
    OBVIOUS
  <2>3. wager * b \in Nat
    BY <1>1
  <2>. QED
    BY <1>2, <2>1, <2>2, <2>3
<1>4. wager * (9800 * words) <= wager * (b * ways)
  <2>. DEFINE p == 9800 * words
              q == b * ways
  <2>1. p \in Nat /\ q \in Nat /\ p <= q
    BY <1>1
  <2>. HIDE DEF p, q
  <2>2. wager * p <= wager * q
    BY <2>1
  <2>. QED
    BY <2>2 DEF p, q
<1>5. (wager * b) * ways <= ((wager + most) * 10000) * ways
  <2>. DEFINE p == wager * b
              q == (wager + most) * 10000
  <2>1. p \in Nat /\ q \in Nat /\ p <= q
    BY <1>1, <1>3
  <2>. HIDE DEF p, q
  <2>2. p * ways <= q * ways
    BY <2>1
  <2>. QED
    BY <2>2 DEF p, q
<1>6. /\ wager * (b * ways) = (wager * b) * ways
      /\ wager * (9800 * words) = 100 * fair
      /\ ((wager + most) * 10000) * ways = 100 * ((wager + most) * k)
  <2>1. wager * (b * ways) = (wager * b) * ways
    BY <1>1
  <2>2. wager * (9800 * words) = 100 * fair
    OBVIOUS
  <2>3. ((wager + most) * 10000) * ways = 100 * ((wager + most) * k)
    <3>. DEFINE s == wager + most
    <3>1. s \in Nat
      OBVIOUS
    <3>. HIDE DEF s
    <3>2. (s * 10000) * ways = 100 * (s * k)
      BY <3>1
    <3>. QED
      BY <3>2 DEF s
  <2>. QED
    BY <2>1, <2>2, <2>3
<1>7. fair \in Nat /\ k \in Nat /\ k > 0 /\ (wager + most) * k \in Nat /\ wager + most \in Int
  <2>1. fair \in Nat
    <3>1. wager * 98 \in Nat
      OBVIOUS
    <3>. QED
      BY <3>1
  <2>2. k \in Nat /\ k > 0 /\ wager + most \in Nat
    OBVIOUS
  <2>3. (wager + most) * k \in Nat
    <3>. HIDE DEF k
    <3>. QED
      BY <2>2
  <2>. QED
    BY <2>1, <2>2, <2>3
<1>. HIDE DEF fair, k
<1>8. 100 * fair <= 100 * ((wager + most) * k)
  <2>. DEFINE a1 == wager * (9800 * words)
              a2 == wager * (b * ways)
              a3 == ((wager + most) * 10000) * ways
  <2>1. a1 <= a2 /\ a2 <= a3 /\ a1 = 100 * fair /\ a3 = 100 * ((wager + most) * k)
    BY <1>4, <1>5, <1>6
  <2>2. a1 \in Int /\ a2 \in Int /\ a3 \in Int
    <3>1. a1 \in Int /\ a3 \in Int
      BY <1>7, <2>1
    <3>2. b * ways \in Int
      BY <1>1
    <3>3. a2 \in Int
      BY <3>2
    <3>. QED
      BY <3>1, <3>3
  <2>. HIDE DEF a1, a2, a3
  <2>. DEFINE z == (wager + most) * k
  <2>3. z \in Nat
    BY <1>7
  <2>4. a3 = 100 * z
    BY <2>1
  <2>. HIDE DEF z
  <2>5. 100 * fair <= 100 * z
    BY <1>7, <2>1, <2>2, <2>3, <2>4
  <2>. QED
    BY <2>5 DEF z
<1>9. fair <= (wager + most) * k
  <2>. DEFINE z == (wager + most) * k
  <2>1. z \in Nat /\ 100 * fair <= 100 * z
    BY <1>7, <1>8
  <2>. HIDE DEF z
  <2>2. fair <= z
    BY <1>7, <2>1
  <2>. QED
    BY <2>2 DEF z
<1>10. fair \div k <= wager + most
  <2>. DEFINE r == wager + most
  <2>1. r \in Int /\ fair \in Int /\ fair <= r * k
    BY <1>7, <1>9
  <2>. HIDE DEF r
  <2>2. fair \div k <= r
    BY <1>7, <2>1, DivAtMost
  <2>. QED
    BY <2>2 DEF r
<1>. QED
  BY <1>10 DEF PaidFor, fair, k

\* What the page computes of a bet, with the words and the ways that it has.
LEMMA PricesAre ==
  ASSUME NEW bet, NEW wager
  PROVE  LET words == 2^bet.coinCount
             ways == Flip!WinningWays(bet)
             paid == PaidFor(wager, words, ways)
         IN  /\ Flip!MaxPayout(wager, bet) = paid
             /\ Flip!MaxReservedProfit(wager, bet) = IF paid > wager THEN paid - wager ELSE 0
             /\ Flip!PayoutBps(bet) = Bps(words, ways)
BY DEF Flip!MaxPayout, Flip!MaxReservedProfit, Flip!PayoutBps, Flip!RtpPercent, PaidFor, Bps

LEMMA PlatformLimitIs ==
  ASSUME NEW bet, NEW profit \in Nat, Flip!PayoutBps(bet) \in Nat
  PROVE  LET casino == [maxBetAmount |-> Flip!Unpublished, maxAllowedReservedProfit |-> profit]
             bps == Flip!PayoutBps(bet)
         IN  Flip!PlatformMaxWager(casino, bet)
               = IF bps <= 10000 THEN [kind |-> "no-limit"]
                 ELSE [kind |-> "limit", maxWager |-> (profit * 10000) \div (bps - 10000)]
<1>. DEFINE casino == [maxBetAmount |-> Flip!Unpublished, maxAllowedReservedProfit |-> profit]
            bps == Flip!PayoutBps(bet)
<1>1. casino.maxBetAmount = -1 /\ casino.maxAllowedReservedProfit = profit
  BY DEF Flip!Unpublished
<1>2. bps \in Nat
  OBVIOUS
<1>3. Flip!PlatformMaxWager(casino, bet) = Flip!ComputeMaxWager(casino, bps, bps)
  BY DEF Flip!PlatformMaxWager
<1>. HIDE DEF casino, bps
<1>4. Flip!ComputeMaxWager(casino, bps, bps)
        = IF bps <= 10000 THEN [kind |-> "no-limit"]
          ELSE [kind |-> "limit", maxWager |-> (profit * 10000) \div (bps - 10000)]
  BY <1>1, <1>2 DEF Flip!ComputeMaxWager, Flip!Infinite, Flip!BasisPoints, Flip!NoLimit,
                    Flip!Limit, Flip!RiskBoundWager, Flip!Unpublished
<1>. QED
  BY <1>3, <1>4 DEF casino, bps

LEMMA CoinflipPricedAlways ==
  ASSUME NEW bet \in Flip!Bets, NEW wager \in Nat, NEW profit \in Nat
  PROVE  Flip!CoinflipPricedOn(bet, wager, profit)
<1>. DEFINE words == 2^bet.coinCount
            ways == Flip!WinningWays(bet)
            bps == Flip!PayoutBps(bet)
            casino == [maxBetAmount |-> Flip!Unpublished, maxAllowedReservedProfit |-> profit]
            limit == Flip!PlatformMaxWager(casino, bet)
            fair == wager * 98 * words
            returned == 100 * ways * Flip!MaxPayout(wager, bet)
<1>1. words \in Nat /\ ways \in Nat \ {0}
  BY BetIs, PowerNat, WaysAreWords
<1>2. bps = Bps(words, ways) /\ bps \in Nat
  <2>1. bps = Bps(words, ways)
    BY PricesAre
  <2>. HIDE DEF words, ways, bps
  <2>. QED
    BY <1>1, <2>1, BpsUp
<1>3. ways = Flip!Cardinality({w \in SUBSET Flip!Coins(bet) : Flip!Outcome(bet, w).won})
  BY WaysAreWords, SameCardinality
<1>4. returned <= fair /\ fair - returned < 100 * ways
  <2>1. Flip!MaxPayout(wager, bet) = PaidFor(wager, words, ways)
    BY PricesAre
  <2>. HIDE DEF words, ways
  <2>. QED
    BY <1>1, <2>1, PaidFairly
<1>5. \A won \in BOOLEAN : LET made == Flip!OutcomeFromResult(bet, won)
                           IN  Flip!Outcome(bet, made.heads) = made
  BY MadeFaces
<1>6. limit = IF bps <= 10000 THEN [kind |-> "no-limit"]
              ELSE [kind |-> "limit", maxWager |-> (profit * 10000) \div (bps - 10000)]
  BY <1>2, PlatformLimitIs
<1>7. \A any \in Nat : Flip!MaxReservedProfit(any, bet)
        = IF PaidFor(any, words, ways) > any THEN PaidFor(any, words, ways) - any ELSE 0
  BY PricesAre
<1>7a. \A any \in Nat : PaidFor(any, words, ways) \in Nat
  <2>. HIDE DEF words, ways
  <2>. QED
    BY <1>1, PaidFairly
<1>. HIDE DEF limit, bps, words, ways
<1>8. ASSUME limit.kind = "limit" PROVE Flip!MaxReservedProfit(limit.maxWager, bet) <= profit
  <2>1. bps > 10000
    BY <1>2, <1>6, <1>8
  <2>. DEFINE k == bps - 10000
              n == profit * 10000
              most == n \div k
  <2>2. limit.maxWager = most /\ n \in Nat /\ k \in Nat \ {0}
    BY <1>2, <1>6, <2>1
  <2>. HIDE DEF k, n
  <2>3. most \in Nat /\ most * k <= n
    BY <2>2, DivBelow, DivNat
  <2>. HIDE DEF most
  <2>4. most * (Bps(words, ways) - 10000) <= profit * 10000
    BY <1>2, <2>3 DEF k, n
  <2>5. PaidFor(most, words, ways) <= most + profit
    BY <1>1, <1>2, <2>1, <2>3, <2>4, PaidWithinLimit
  <2>6. Flip!MaxReservedProfit(most, bet)
          = IF PaidFor(most, words, ways) > most THEN PaidFor(most, words, ways) - most ELSE 0
    BY <1>7, <2>3
  <2>7. PaidFor(most, words, ways) \in Nat
    BY <1>7a, <2>3
  <2>. QED
    BY <2>2, <2>3, <2>5, <2>6, <2>7
<1>9. ASSUME limit.kind = "no-limit" PROVE Flip!MaxReservedProfit(wager, bet) = 0
  <2>1. bps <= 10000
    BY <1>2, <1>6, <1>9
  <2>2. PaidFor(wager, words, ways) <= wager
    BY <1>1, <1>2, <2>1, PaidNoProfit
  <2>. QED
    BY <1>7, <1>7a, <2>2
<1>. QED
  BY <1>3, <1>4, <1>5, <1>8, <1>9 DEF Flip!CoinflipPricedOn, Flip!RtpPercent, limit, ways, words

-----------------------------------------------------------------------------
(* Probes.                                                                 *)

Probing == probe \in Probes \cup {NoProbe}

LEMMA ProbesTyped == ProbeSpec => []Probing
<1>1. probe = NoProbe => Probing
  BY DEF Probing
<1>2. Probing /\ [TakeUp \/ PutBack]_probe => Probing'
  BY DEF TakeUp, PutBack, Probing
<1>. QED
  BY <1>1, <1>2, PTL DEF ProbeSpec

LEMMA OfKind ==
  ASSUME NEW p, NEW kind, NEW values, p \in Kind(kind, values)
  PROVE  p.kind = kind /\ p.of \in values
BY DEF Kind

LEMMA ProbeOfKind ==
  ASSUME Probing
  PROVE  /\ Probed("round") => probe.of \in Rounds
         /\ Probed("layout") => probe.of \in Presets
         /\ Probed("limits") => probe.of \in [limits : Limits, liquidity : SampleLimits]
         /\ Probed("proof") =>
              probe.of \in [x : Points, h : Points,
                            proof : [gamma : {NoPoint} \cup Points, c : 0..CLimit,
                                     s : 0..(2 * Q - 1)]]
         /\ Probed("message") => probe.of \in Messages
         /\ Probed("delivery") => probe.of \in Deliveries
         /\ Probed("flip") =>
              probe.of \in [bet : Flip!Bets, wager : FlipWagers, profit : FlipProfits]
<1>. DEFINE Sampled == [limits : Limits, liquidity : SampleLimits]
            Proved == [x : Points, h : Points,
                       proof : [gamma : {NoPoint} \cup Points, c : 0..CLimit,
                                s : 0..(2 * Q - 1)]]
            Flipped == [bet : Flip!Bets, wager : FlipWagers, profit : FlipProfits]
<1>1. \/ probe = NoProbe
      \/ probe \in Kind("round", Rounds) \/ probe \in Kind("layout", Presets)
      \/ probe \in Kind("limits", Sampled) \/ probe \in Kind("message", Messages)
      \/ probe \in Kind("proof", Proved) \/ probe \in Kind("delivery", Deliveries)
      \/ probe \in Kind("flip", Flipped)
  BY DEF Probing, Probes
<1>. HIDE DEF Sampled, Proved, Flipped
<1>2. \/ probe = NoProbe
      \/ probe.kind = "round" /\ probe.of \in Rounds
      \/ probe.kind = "layout" /\ probe.of \in Presets
      \/ probe.kind = "limits" /\ probe.of \in Sampled
      \/ probe.kind = "message" /\ probe.of \in Messages
      \/ probe.kind = "proof" /\ probe.of \in Proved
      \/ probe.kind = "delivery" /\ probe.of \in Deliveries
      \/ probe.kind = "flip" /\ probe.of \in Flipped
  BY <1>1, OfKind
<1>3. /\ Probed("round") => probe.of \in Rounds
      /\ Probed("layout") => probe.of \in Presets
      /\ Probed("limits") => probe.of \in Sampled
      /\ Probed("proof") => probe.of \in Proved
      /\ Probed("message") => probe.of \in Messages
      /\ Probed("delivery") => probe.of \in Deliveries
      /\ Probed("flip") => probe.of \in Flipped
  BY <1>2 DEF Probed
<1>. QED
  BY <1>3 DEF Sampled, Proved, Flipped

\* Every session, of whatever contents, is packed alike by contract and page, or
\* refused alike; unpacked, every message is the session again; and of any other
\* bytes the contract takes none that the page refuses and reads no field
\* elsewhere.  (CasinoSessionCodec and casino-session-codec.ts.)
THEOREM CodecsMatch ==
  /\ \A s \in AnySession : TsEncode(s) = Encode(s)
  /\ \A s \in AnySession : AllFit(s) /\ Normal(s) => \A x \in Encode(s) : TsDecode(x) = {s}
  /\ \A data \in ByteStrings : SolDecode(data) = IF data[178] > MaxPhase THEN {} ELSE TsDecode(data)
  /\ ProbeSpec => []CodecsAgree
<1>1. ASSUME NEW s \in AnySession, AllFit(s), Normal(s), NEW x \in Encode(s)
      PROVE  TsDecode(x) = {s}
  <2>1. Encode(s) = IF Wide(s) THEN {} ELSE {Message(s)}
    BY DEF Encode, Wide, TooWide, FixedPart, Message
  <2>2. x = Message(s)
    <3>. HIDE DEF Wide, Message
    <3>. QED
      BY <2>1
  <2>. QED
    BY <1>1, <2>2, RoundTrip
<1>2. Probing => CodecsAgree
  BY ProbeOfKind, CodecsAgreeAlways DEF CodecsAgree
<1>3. ProbeSpec => []CodecsAgree
  BY <1>2, ProbesTyped, PTL
<1>. QED
  BY <1>1, <1>3, EncodersAgree, DecodersAgree

\* The page shows every round that the contract settles as it was settled, and
\* its demo resolves the same bytes alike.  (decodeCounterweightState and
\* resolveFromEntropy against onRandomness.)
THEOREM RoundsShown ==
  /\ \A r \in Rounds : RoundsAgreeOn(r)
  /\ ProbeSpec => []RoundsAgree
<1>1. Probing => RoundsAgree
  BY ProbeOfKind, RoundsAgreeAlways DEF RoundsAgree
<1>2. ProbeSpec => []RoundsAgree
  BY <1>1, ProbesTyped, PTL
<1>. QED
  BY <1>2, RoundsAgreeAlways

\* Every layout returns exactly 96%, with the odds that the page shows.
\* (_multiplierWad against the paytable of the engine.)
THEOREM LayoutsReturn ==
  /\ \A p \in Presets : ReturnsExactOn(p)
  /\ ProbeSpec => []ReturnsExact
<1>1. Probing => ReturnsExact
  BY ProbeOfKind, ReturnsExactAlways DEF ReturnsExact
<1>2. ProbeSpec => []ReturnsExact
  BY <1>1, ProbesTyped, PTL
<1>. QED
  BY <1>2, ReturnsExactAlways

\* Whatever limits are published and whatever the multiplier, a wager up to the
\* page's limit is accepted.  (computeMaxWager, use-casino-risk-limits.)
THEOREM WagersAccepted ==
  /\ \A l \in Limits, liquidity \in SampleLimits : LimitsAcceptedOn(l, liquidity)
  /\ ProbeSpec => []LimitsAccepted
<1>1. Probing => LimitsAccepted
  BY ProbeOfKind, LimitsAcceptedAlways DEF LimitsAccepted
<1>2. ProbeSpec => []LimitsAccepted
  BY <1>1, ProbesTyped, PTL
<1>. QED
  BY <1>2, LimitsAcceptedAlways

\* For every prime order: an honest proof of randomness verifies, a forger must
\* commit before the challenge, and no proof has a second form.
\* (verify-network-ecvrf.ts, verify.)
THEOREM EcvrfSound ==
  ProbeSpec => []ProofsSound
<1>1. Probing => ProofsSound
  BY ProbeOfKind, ProofsSoundAlways DEF ProofsSound
<1>. QED
  BY <1>1, ProbesTyped, PTL

\* The page calls a word valid only when the assigned node proved it and the
\* router logged it, and always when that node is honest.  (verifyRequest.)
THEOREM VerdictsTrue ==
  /\ \A d \in Deliveries : VerdictTrueOn(d)
  /\ ProbeSpec => []VerdictTrue
<1>1. Probing => VerdictTrue
  BY ProbeOfKind, VerdictTrueAlways DEF VerdictTrue
<1>2. ProbeSpec => []VerdictTrue
  BY <1>1, ProbesTyped, PTL
<1>. QED
  BY <1>2, VerdictTrueAlways

\* The binomial that the page computes counts the choices of k coins, for every
\* number of coins.  Every bet is priced by the words that win it, returns 98%
\* and never more, and is refused for its reserve never within the limit that
\* the page shows: for every wager and every risk limit.
\* (nCk, winningWays, payoutMultiplier, maxPayout, computeMaxWager.)
THEOREM BetsPriced ==
  /\ \A n \in Nat : \A k \in 0..n :
       Flip!NCk(n, k) = Cardinality({w \in SUBSET (0..(n - 1)) : Cardinality(w) = k})
  /\ \A bet \in Flip!Bets, wager \in Nat, profit \in Nat :
       Flip!CoinflipPricedOn(bet, wager, profit)
  /\ ProbeSpec => []CoinflipPriced
<1>1. \A n \in Nat : \A k \in 0..n :
        Flip!NCk(n, k) = Cardinality({w \in SUBSET (0..(n - 1)) : Cardinality(w) = k})
  BY NCkCounts DEF Binomial, Chosen, Heads
<1>2. Probing => CoinflipPriced
  <2>1. ASSUME Probing, Probed("flip")
        PROVE  /\ probe.of.bet \in Flip!Bets /\ probe.of.wager \in Nat /\ probe.of.profit \in Nat
    BY <2>1, ProbeOfKind, FlipAssumption
  <2>. QED
    BY <2>1, CoinflipPricedAlways DEF CoinflipPriced
<1>3. ProbeSpec => []CoinflipPriced
  BY <1>2, ProbesTyped, PTL
<1>. QED
  BY <1>1, <1>3, CoinflipPricedAlways
=============================================================================

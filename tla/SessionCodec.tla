---------------------------- MODULE SessionCodec ----------------------------
(***************************************************************************)
(* The packed bytes of a session, which the host contract emits, commits   *)
(* to and takes back.  Two codecs must agree on them byte for byte: that   *)
(* of the contract (CasinoSessionCodec.sol), which slices at written-out   *)
(* offsets, and that of the page (casino-session-codec.ts), which reads    *)
(* one width after the other.                                              *)
(*                                                                         *)
(* A session gives each field its big-endian bytes without leading zeros,  *)
(* gameData and gameState byte strings of any length.  What may revert or  *)
(* throw gives the set of its results, which is then empty.                *)
(***************************************************************************)
EXTENDS Naturals, SequencesExt

CONSTANTS
  GameLengths,      \* lengths of the gameData and gameState of the samples
  Cuts,             \* how many of the last bytes of a sample are missing
  Extras            \* how many bytes are added to it

\* The game's bytes are as long as two bytes can say; what is added is fewer bytes
\* than follow the phase in the shortest message, and never stands in for it.
ASSUME CodecAssumption ==
  /\ GameLengths \subseteq Nat /\ \A n \in GameLengths : n <= 65535
  /\ Cuts \subseteq Nat
  /\ Extras \subseteq Nat /\ \A n \in Extras : n <= 61

FixedLength == 235
MaxPhase == 5

Field(name, width) == [name |-> name, width |-> width]
Layout ==
  << Field("sessionId", 8), Field("player", 20), Field("vault", 20),
     Field("game", 20), Field("token", 20), Field("wagerBase", 16),
     Field("escrowedStake", 16), Field("reservedProfit", 16),
     Field("maxEscrowStake", 16), Field("maxReservedProfit", 16),
     Field("deadlineBlock", 5), Field("step", 4), Field("phase", 1),
     Field("riskMaxPayout", 16), Field("riskProbabilityWad", 8),
     Field("riskSubVarianceScaled", 32), Field("flags", 1) >>
Fields == Range(Layout)
Names == {f.name : f \in Fields}

\* Mutant: the step and the phase are taken for the other way round.
SlicesSwapped ==
  [sessionId |-> <<0, 8>>, player |-> <<8, 28>>, vault |-> <<28, 48>>,
   game |-> <<48, 68>>, token |-> <<68, 88>>, wagerBase |-> <<88, 104>>,
   escrowedStake |-> <<104, 120>>, reservedProfit |-> <<120, 136>>,
   maxEscrowStake |-> <<136, 152>>, maxReservedProfit |-> <<152, 168>>,
   deadlineBlock |-> <<168, 173>>, phase |-> <<173, 174>>, step |-> <<174, 178>>,
   riskMaxPayout |-> <<178, 194>>, riskProbabilityWad |-> <<194, 202>>,
   riskSubVarianceScaled |-> <<202, 234>>, flags |-> <<234, 235>>]
\* Where the contract finds each field.
Slices ==
  [sessionId |-> <<0, 8>>, player |-> <<8, 28>>, vault |-> <<28, 48>>,
   game |-> <<48, 68>>, token |-> <<68, 88>>, wagerBase |-> <<88, 104>>,
   escrowedStake |-> <<104, 120>>, reservedProfit |-> <<120, 136>>,
   maxEscrowStake |-> <<136, 152>>, maxReservedProfit |-> <<152, 168>>,
   deadlineBlock |-> <<168, 173>>, step |-> <<173, 177>>, phase |-> <<177, 178>>,
   riskMaxPayout |-> <<178, 194>>, riskProbabilityWad |-> <<194, 202>>,
   riskSubVarianceScaled |-> <<202, 234>>, flags |-> <<234, 235>>]

\* Of the flags both decoders keep the two lowest bits, each a Boolean.
Kept(name, bytes) == IF name = "flags" THEN <<bytes[1] % 4>> ELSE bytes

Uint16(bytes) == 256 * bytes[1] + bytes[2]
Significant(bytes) ==
  LET first == SelectInSeq(bytes, LAMBDA b : b # 0)
  IN  IF first = 0 THEN << >> ELSE SubSeq(bytes, first, Len(bytes))

-----------------------------------------------------------------------------
Padded(bytes, width) == [i \in 1..(width - Len(bytes)) |-> 0] \o bytes
LengthPrefixed(bytes) == <<Len(bytes) \div 256, Len(bytes) % 256>> \o bytes

\* CasinoSessionCodec.encode, which reverts for a value that is wider than its
\* field and for game bytes that are longer than their length can say.
Encode(s) ==
  IF \/ \E f \in Fields : Len(s[f.name]) > f.width
     \/ Len(s.gameData) > 65535 \/ Len(s.gameState) > 65535
  THEN {}
  ELSE {FlattenSeq([i \in DOMAIN Layout |-> Padded(s[Layout[i].name], Layout[i].width)])
          \o LengthPrefixed(s.gameData) \o LengthPrefixed(s.gameState)}

\* encodeCasinoSession, the same as the page writes it: a part for each field in
\* its order and one for each byte string, each refused or appended to the rest.
UintHex(bytes, width) == IF Len(bytes) > width THEN {} ELSE {Padded(bytes, width)}
LengthPrefixedHex(bytes) ==
  IF Len(bytes) \div 256 > 255 THEN {} ELSE {LengthPrefixed(bytes)}
Appended(written, part) == {w \o p : w \in written, p \in part}
TsEncode(s) ==
  LET parts == [i \in DOMAIN Layout |-> UintHex(s[Layout[i].name], Layout[i].width)]
                 \o <<LengthPrefixedHex(s.gameData), LengthPrefixedHex(s.gameState)>>
  IN  FoldLeft(Appended, {<< >>}, parts)

\* A session of its fixed fields and the game's bytes.
SessionOf(fields, gameData, gameState) ==
  [n \in Names \cup {"gameData", "gameState"} |->
     IF n = "gameData" THEN gameData ELSE IF n = "gameState" THEN gameState ELSE fields[n]]

\* CasinoSessionCodec.decode; the conversion of a phase beyond the last reverts.
SolDecode(data) ==
  LET Slice(from, to) == SubSeq(data, from + 1, to)
      dataEnd == FixedLength + 2 + Uint16(Slice(FixedLength, FixedLength + 2))
      stateEnd == dataEnd + 2 + Uint16(Slice(dataEnd, dataEnd + 2))
  IN  IF \/ Len(data) < FixedLength + 4 \/ Len(data) < dataEnd + 2
         \/ Len(data) # stateEnd \/ data[Slices.phase[2]] > MaxPhase
      THEN {}
      ELSE {SessionOf([n \in Names |-> Significant(Kept(n, Slice(Slices[n][1], Slices[n][2])))],
                      Slice(FixedLength + 2, dataEnd), Slice(dataEnd + 2, stateEnd))}

\* HexReader: what take and bytes return, with what they leave.
Take(rest, n) ==
  IF n > Len(rest) THEN {}
  ELSE {[taken |-> SubSeq(rest, 1, n), rest |-> SubSeq(rest, n + 1, Len(rest))]}
TakeBytes(rest) == UNION {Take(l.rest, Uint16(l.taken)) : l \in Take(rest, 2)}

\* decodeCasinoSession: the fixed fields in their order, then both byte strings.
WithField(fields, name, bytes) ==
  [n \in DOMAIN fields \cup {name} |-> IF n = name THEN bytes ELSE fields[n]]
TakeField(reads, f) ==
  UNION {{[fields |-> WithField(read.fields, f.name, Significant(Kept(f.name, t.taken))),
           rest |-> t.rest] : t \in Take(read.rest, f.width)} : read \in reads}
TakeFixed(data) == FoldLeft(TakeField, {[fields |-> << >>, rest |-> data]}, Layout)
TsDecode(data) ==
  IF Len(data) < FixedLength + 4 THEN {}
  ELSE UNION {UNION {{SessionOf(fixed.fields, d.taken, s.taken) :
                        s \in {t \in TakeBytes(d.rest) : t.rest = << >>}} :
                       d \in TakeBytes(fixed.rest)} : fixed \in TakeFixed(data)}

-----------------------------------------------------------------------------
(* The samples: sessions with empty, full or too wide fields, and what the *)
(* wire makes of them when bytes are missing or added at the end.          *)

Filled(n) == [i \in 1..n |-> 1 + ((37 * i + n) % 255)]
Fills == {"empty", "full", "wide"}
SampleSession(fill, phase, dataLength, stateLength) ==
  SessionOf(
    [n \in Names |->
       LET width == (CHOOSE f \in Fields : f.name = n).width
       IN  CASE n = "phase" -> IF phase = 0 THEN << >> ELSE <<phase>>
             [] n = "flags" -> IF fill = "empty" THEN << >> ELSE <<3>>
             [] n \notin {"phase", "flags"} /\ fill = "empty" -> << >>
             [] n \notin {"phase", "flags"} /\ fill = "full" -> Filled(width)
             [] n \notin {"phase", "flags"} /\ fill = "wide" -> Filled(width + 1)],
    Filled(dataLength), Filled(stateLength))
Received(bytes, cut, extra) == SubSeq(bytes, 1, Len(bytes) - cut) \o Filled(extra)

Messages ==
  [fill : Fills, phase : 0..(MaxPhase + 1), dataLength : GameLengths,
   stateLength : GameLengths, cut : Cuts, extra : Extras]

\* Both codecs write the same bytes, or refuse alike; what one writes the other
\* reads back, unchanged; of bytes that are too
\* short, too long or of another phase the contract takes none that the page
\* refuses, and reads no field elsewhere than the page does.
CodecsAgreeOn(m) ==
  LET session == SampleSession(m.fill, m.phase, m.dataLength, m.stateLength)
  IN  /\ m.fill = "wide" <=> Encode(session) = {}
      /\ TsEncode(session) = Encode(session)
      /\ \A bytes \in Encode(session) :
           LET data == Received(bytes, m.cut, m.extra)
           IN  /\ m.cut + m.extra = 0 => TsDecode(data) = {session}
               /\ SolDecode(data) = IF m.phase > MaxPhase THEN {} ELSE TsDecode(data)
=============================================================================

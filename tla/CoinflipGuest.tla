---------------------------- MODULE CoinflipGuest ----------------------------
(***************************************************************************)
(* The page of the coinflip game (examples/coinflip-public, App.tsx and    *)
(* useCasinoHost.ts) at the other end of the bridge that the host keeps to *)
(* it (use-game-bridge.ts): handshake, pushes of the host's snapshot that  *)
(* are dropped when it equals the last one, and the rounds of the page.    *)
(*                                                                         *)
(* A bet is a number; what the host knows of its session is whether it is  *)
(* shown, and how it ended.  Messages arrive in the order they were sent.  *)
(* A cancelled session keeps the state it started with, which has no word, *)
(* and pays its stake back.                                                *)
(***************************************************************************)
EXTENDS Integers, SequencesExt

CONSTANTS
  MaxBets,       \* bound: bets
  MaxRemounts,   \* bound: times that the host mounts the frame anew
  MaxWire,       \* bound: snapshots on their way
  Nothing        \* no snapshot

BetIds == 1..MaxBets
Results == {"won", "lost", "cancelled"}
Snapshots == [BetIds -> {"none", "open"} \cup Results]

ASSUME CoinflipGuestAssumption ==
  /\ MaxBets \in Nat /\ MaxRemounts \in Nat /\ MaxWire \in Nat \ {0}
  /\ Nothing \notin Snapshots

VARIABLES
  opens,       \* openSession of each bet: none, asked, landed, returned, refused, or
               \* lost: refused, but on the chain
  rows,        \* the sessions in the snapshot of the host, or Nothing
  connected,   \* guestApiRef: the host's side of the bridge
  lastPushed,
  wire,        \* setState calls under way
  revealed,    \* how often each session was revealed to the host
  hostApi, snapshot, round, fastMode,
  remounts

hostSide == <<opens, rows, connected, lastPushed, wire>>
guestSide == <<hostApi, snapshot, round, fastMode>>
flipVars == <<hostSide, revealed, guestSide, remounts>>

Round(bet, status, won, payout) ==
  [bet |-> bet, status |-> status, won |-> won, payout |-> payout]
NoRound == Round(0, "none", FALSE, 0)

\* What a session pays, for a stake of 1.
PayoutOf(result) == CASE result = "won" -> 2 [] result = "lost" -> 0 [] result = "cancelled" -> 1

FlipInit ==
  /\ opens = [b \in BetIds |-> "none"] /\ rows = Nothing
  /\ connected = FALSE /\ lastPushed = Nothing /\ wire = << >>
  /\ revealed = [b \in BetIds |-> 0]
  /\ hostApi = FALSE /\ snapshot = Nothing /\ round = NoRound /\ fastMode = FALSE
  /\ remounts = 0

-----------------------------------------------------------------------------
(* The host and the chain.                                                 *)

\* The first snapshot of the host, and news of a session in a later one.
HostLoads ==
  /\ rows = Nothing
  /\ rows' = [b \in BetIds |-> "none"]
  /\ UNCHANGED <<opens, connected, lastPushed, wire, revealed, guestSide, remounts>>
Land(b) ==
  /\ opens[b] \in {"asked", "refused"}
  /\ opens' = [opens EXCEPT ![b] = IF @ = "asked" THEN "landed" ELSE "lost"]
  /\ UNCHANGED <<rows, connected, lastPushed, wire, revealed, guestSide, remounts>>
ShowOpen(b) ==
  /\ rows # Nothing /\ opens[b] \in {"landed", "returned", "lost"} /\ rows[b] = "none"
  /\ rows' = [rows EXCEPT ![b] = "open"]
  /\ UNCHANGED <<opens, connected, lastPushed, wire, revealed, guestSide, remounts>>
ShowOver(b) ==
  /\ rows # Nothing /\ rows[b] = "open"
  /\ \E result \in Results : rows' = [rows EXCEPT ![b] = result]
  /\ UNCHANGED <<opens, connected, lastPushed, wire, revealed, guestSide, remounts>>

\* connectHostToGameOnMount: the first push is of the newest snapshot.
Connect ==
  /\ ~connected /\ connected' = TRUE
  /\ IF rows = Nothing THEN UNCHANGED <<lastPushed, wire>>
     ELSE lastPushed' = rows /\ wire' = Append(wire, rows)
  /\ UNCHANGED <<opens, rows, revealed, guestSide, remounts>>

\* pushSnapshotChangesToGuest
PushChange ==
  /\ connected /\ rows \notin {Nothing, lastPushed} /\ Len(wire) < MaxWire
  /\ lastPushed' = rows /\ wire' = Append(wire, rows)
  /\ UNCHANGED <<opens, rows, connected, revealed, guestSide, remounts>>

\* The frame is mounted anew: the bridge is torn down and the page starts over.
Remount ==
  /\ remounts < MaxRemounts /\ remounts' = remounts + 1
  /\ connected' = FALSE /\ lastPushed' = Nothing /\ wire' = << >>
  /\ hostApi' = FALSE /\ snapshot' = Nothing /\ round' = NoRound
  /\ UNCHANGED <<opens, rows, revealed, fastMode>>

-----------------------------------------------------------------------------
(* The page.                                                               *)

\* The settle effect: the faces come from the word in the state, else from the
\* payout, which a cancelled session has too.
\* Mutant: the newest session that is over is taken for the round's.
SettledByNewest(r, items) ==
  LET over == {b \in BetIds : items # Nothing /\ items[b] \in Results}
  IN  IF r.status # "waiting" \/ over = {} THEN r
      ELSE LET result == items[CHOOSE b \in over : \A o \in over : o <= b]
           IN  Round(r.bet, IF fastMode THEN "done" ELSE "landing",
                     PayoutOf(result) > 0, PayoutOf(result))
Settled(r, items) ==
  IF r.status # "waiting" \/ items = Nothing THEN r
  ELSE IF items[r.bet] \notin Results THEN r
  ELSE LET result == items[r.bet]
       IN  Round(r.bet, IF fastMode THEN "done" ELSE "landing",
                 IF result = "cancelled" THEN PayoutOf(result) > 0 ELSE result = "won",
                 PayoutOf(result))

\* The reveal effect: a round that is done is revealed, by the timer that made
\* it so and again by the render that follows.
Reveals(r) ==
  revealed' = IF r.status = "done" /\ round.status # "done"
              THEN [revealed EXCEPT ![r.bet] = @ + (IF round.status = "landing" THEN 2 ELSE 1)]
              ELSE revealed

HandshakeEnds ==
  /\ ~hostApi /\ hostApi' = TRUE
  /\ UNCHANGED <<hostSide, revealed, snapshot, round, fastMode, remounts>>

SetState ==
  /\ wire # << >>
  /\ wire' = Tail(wire) /\ snapshot' = Head(wire)
  /\ round' = Settled(round, Head(wire)) /\ Reveals(round')
  /\ UNCHANGED <<opens, rows, connected, lastPushed, hostApi, fastMode, remounts>>

\* openRound
InFlight == round.status \in {"opening", "waiting", "landing"}
PlaceBet(b) ==
  /\ hostApi /\ snapshot # Nothing /\ ~InFlight
  /\ opens[b] = "none" /\ \A o \in 1..(b - 1) : opens[o] # "none"
  /\ opens' = [opens EXCEPT ![b] = "asked"]
  /\ round' = Round(b, "opening", FALSE, 0)
  /\ UNCHANGED <<rows, connected, lastPushed, wire, revealed, hostApi, snapshot, fastMode, remounts>>

\* Mutant: the round waits for the next snapshot.
OpenReturnsUnread(b) ==
  /\ opens[b] = "landed"
  /\ opens' = [opens EXCEPT ![b] = "returned"]
  /\ round' = IF round.bet = b /\ round.status = "opening" THEN Round(b, "waiting", FALSE, 0)
              ELSE round
  /\ UNCHANGED <<rows, connected, lastPushed, wire, revealed, hostApi, snapshot, fastMode, remounts>>
\* The answer goes to the page that asked; one mounted since has another round.
OpenReturns(b) ==
  /\ opens[b] = "landed"
  /\ opens' = [opens EXCEPT ![b] = "returned"]
  /\ round' = IF round.bet = b /\ round.status = "opening"
              THEN Settled(Round(b, "waiting", FALSE, 0), snapshot) ELSE round
  /\ Reveals(round')
  /\ UNCHANGED <<rows, connected, lastPushed, wire, hostApi, snapshot, fastMode, remounts>>
\* A send may be reported as failed before or after the bet is mined.
OpenRefused(b) ==
  /\ opens[b] \in {"asked", "landed"}
  /\ opens' = [opens EXCEPT ![b] = IF @ = "asked" THEN "refused" ELSE "lost"]
  /\ round' = IF round.bet = b THEN NoRound ELSE round
  /\ UNCHANGED <<rows, connected, lastPushed, wire, revealed, hostApi, snapshot, fastMode, remounts>>

\* The timer of the toss.
Landed ==
  /\ round.status = "landing"
  /\ round' = [round EXCEPT !.status = "done"] /\ Reveals(round')
  /\ UNCHANGED <<hostSide, hostApi, snapshot, fastMode, remounts>>

SetFastMode ==
  /\ fastMode' = ~fastMode
  /\ UNCHANGED <<hostSide, revealed, hostApi, snapshot, round, remounts>>

-----------------------------------------------------------------------------
BetStep(b) ==
  Land(b) \/ ShowOpen(b) \/ ShowOver(b) \/ PlaceBet(b) \/ OpenReturns(b) \/ OpenRefused(b)
FlipNext ==
  \/ HostLoads \/ Connect \/ PushChange \/ Remount
  \/ \E b \in BetIds : BetStep(b)
  \/ HandshakeEnds \/ SetState \/ Landed \/ SetFastMode
FlipSpec == FlipInit /\ [][FlipNext]_flipVars

\* The round on the stage is that of its own session, as it ended, and it has
\* been revealed to the host exactly if its coins lie.  (The
\* faces of a cancelled session are made up from the stake that it pays back.)
ShowsItsSession ==
  /\ round.status \in {"landing", "done"} =>
       /\ rows[round.bet] \in Results
       /\ round.payout = PayoutOf(rows[round.bet])
       /\ rows[round.bet] # "cancelled" => (round.won <=> rows[round.bet] = "won")
  /\ round.bet # 0 => (revealed[round.bet] > 0 <=> round.status = "done")

\* What makes it inductive: no snapshot, on its way or shown, is ahead of the
\* host's or has another result; and a bet is revealed by its own round only,
\* which no page that is mounted later takes up again.
RoundTypes ==
  [bet : BetIds \cup {0}, won : BOOLEAN, payout : 0..2,
   status : {"none", "opening", "waiting", "landing", "done"}]
FlipTypes ==
  /\ opens \in [BetIds -> {"none", "asked", "landed", "returned", "refused", "lost"}]
  /\ rows \in Snapshots \cup {Nothing} /\ snapshot \in Snapshots \cup {Nothing}
  /\ wire \in Seq(Snapshots)
  /\ revealed \in [BetIds -> Nat]
  /\ round \in RoundTypes
Past(items) ==
  rows # Nothing /\ \A b \in BetIds : items[b] \in Results => rows[b] = items[b]
SeenIsPast ==
  /\ snapshot # Nothing => Past(snapshot)
  /\ \A i \in DOMAIN wire : Past(wire[i])
RoundIsOfBet ==
  /\ round.status = "none" <=> round.bet = 0
  /\ round.bet # 0 => opens[round.bet] # "none"
  /\ round.status \in {"landing", "done"} => rows # Nothing
  /\ \A b \in BetIds : opens[b] = "none" => revealed[b] = 0
FlipIInv == FlipTypes /\ SeenIsPast /\ RoundIsOfBet /\ ShowsItsSession

\* A round whose session the page waits for lands and is revealed, also when
\* the last snapshot came before the answer to its openSession.
\* (The settle effect depends on the round as well as on the snapshot.)
RoundsFinish ==
  \A b \in BetIds :
    (round.bet = b /\ round.status = "waiting")
      ~> (round.bet # b \/ round.status = "done")
=============================================================================

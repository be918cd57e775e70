-------------------------- MODULE CounterweightGame --------------------------
(***************************************************************************)
(* The game contract in its host: the host's actions with the answers that *)
(* Counterweight.sol gives.  Rounds are opened by players, settled by the  *)
(* router's callback, or cancelled by anyone once their deadline passed.   *)
(* The game reverts every player action and never waits for one, so no     *)
(* session of it can be acted on or forfeited.                             *)
(***************************************************************************)
EXTENDS CasinoHost, Counterweight

CONSTANT Entropies         \* first bytes the router's randomness may have

ASSUME GameAssumption ==
  /\ Entropies \subseteq Bytes
  /\ \A w \in Wagers, p \in Presets :
       /\ SessionStart(w, p) \in StepResults
       /\ \A e \in Entropies, d \in Directions :
            RandomnessResult(w, StartState(p), e, d) \in StepResults
  /\ \A w \in Wagers : QuoteCaps(w) \in CapQuotes

\* Bound: a round is opened only if its deadline can pass before MaxBlock.
PlayRound(p, g, w, preset) ==
  /\ block + RandomnessTimeout < MaxBlock
  /\ OpenSession(p, g, w, QuoteCaps(w), SessionStart(w, preset))

SettleRound(s, e, d) ==
  OnRandomnessFulfilled(s, RandomnessResult(s.wager, s.state, e, d))

\* Mutants: cancelling takes the forfeit cut, or also needs the reserved
\* profit to be in the vault.
CancelWithCut(s) ==
  /\ Loads(commitment, s)
  /\ s.phase = "WAITING_RANDOMNESS"
  /\ block > s.deadline
  /\ Finalize(s, "CANCELLED", ForfeitPayout(s, s.escrow), balance)
  /\ UNCHANGED <<block, registered, lastId, allowance>>
CancelIfSolvent(s) == s.reserved <= balance[Vault] /\ CancelStuckRandomness(s)
CancelRound(s) == CancelStuckRandomness(s)

GameNext ==
  \/ \E g \in Games, named \in BOOLEAN : RegisterGame(g, named)
  \/ \E p \in Players, n \in Approvals : Approve(p, n)
  \/ \E a \in Accounts, n \in Amounts : Mint(a, n)
  \/ \E p \in Players, a \in Accounts, n \in Amounts : Transfer(p, a, n)
  \/ Mine
  \/ \E p \in Players, g \in Games, w \in Wagers, preset \in Presets :
        PlayRound(p, g, w, preset)
  \/ \E s \in emitted, e \in Entropies, d \in Directions : SettleRound(s, e, d)
  \/ \E s \in emitted : CancelRound(s)

GameSpec == Init /\ [][GameNext]_vars

\* Blocks are mined, and the owner of a stuck round, to whom the host page
\* offers it, cancels it at some time.  Nothing is assumed of the router, nor
\* that the vault has any funds.
FairGameSpec ==
  GameSpec /\ WF_vars(Mine) /\ WF_vars(\E s \in emitted : CancelRound(s))

-----------------------------------------------------------------------------
\* Whatever randomness arrives for a round that waits for it, the host's cap
\* and budget checks accept the game's answer: no outcome, the top multiplier
\* included, can revert for one base unit of rounding between the profit
\* reserved at the start and the payout computed at the end.
\* (MaxProfit in onSessionStart and quoteCaps against onRandomness.)
EveryOutcomePayable ==
  \A i \in Live, e \in Entropies, d \in Directions :
    LET s == commitment[i]
        r == RandomnessResult(s.wager, s.state, e, d)
    IN WithinCaps(Stepped(s, r)) /\ r.payout <= MaxPayout(Stepped(s, r))

\* What the settlement event pays is what the round's final state tells the
\* page to show, and a cancelled round pays exactly its wager back.
\* (_finalizeSession's payout against the gameState of onRandomness.)
PaysWhatItShows ==
  \A i \in SessionIds : \A k \in DOMAIN settlements[i] :
    LET s == settlements[i][k].session
    IN CASE settlements[i][k].phase = "SETTLED" ->
              /\ settlements[i][k].payout = s.state.payout
              /\ s.state.payout = Times(s.wager, s.state.multiplier)
         [] settlements[i][k].phase = "CANCELLED" ->
              settlements[i][k].payout = s.wager /\ s.state \in {StartState(p) : p \in Presets}

\* No round is stuck forever: even if the router never answers and the vault
\* is empty, its stake comes back.  (cancelStuckRandomness pays from escrow.)
RoundsEnd == \A i \in SessionIds : (i \in Live) ~> (i \notin Live)

\* What the proofs add: a waiting round is as its opening left it.
WaitingRound ==
  \A i \in Live :
    LET s == commitment[i]
    IN /\ s.wager \in Wagers /\ s.escrow = s.wager /\ s.maxEscrow = s.wager
       /\ s.reserved = MaxProfit(s.wager) /\ s.maxReserved = MaxProfit(s.wager)
       /\ s.state \in {StartState(p) : p \in Presets}
=============================================================================

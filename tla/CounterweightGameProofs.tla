----------------------- MODULE CounterweightGameProofs -----------------------
(***************************************************************************)
(* Theorems about the game in its host, for every wager, every set of      *)
(* players and every number of rounds.  The host is the arbitrary-game     *)
(* host of CasinoHost, whose invariant IInv is reused: a step of the game  *)
(* is a step of that host (RoundIsHostStep), as long as waiting rounds are *)
(* as their opening left them (WaitingRound).                              *)
(***************************************************************************)
EXTENDS CounterweightGame, CasinoHostProofs

\* Rounding: no multiplier of any layout, at any wager, pays more than the
\* wager and the profit reserved for the top multiplier.
LEMMA PayoutWithinReserve ==
  ASSUME NEW w \in Nat, NEW p \in Presets, NEW e \in Bytes
  PROVE  /\ Times(w, Multiplier(p, e)) \in Nat
         /\ MaxProfit(w) \in Nat
         /\ Times(w, Multiplier(p, e)) <= w + MaxProfit(w)
<1>. DEFINE m == Multiplier(p, e)
<1>1. m \in {0, 50, 100, 334, 568, 1336}
  BY DEF Multiplier, Presets, One, MaxMultiplier
<1>2. /\ (w * 1336) \div 100 \in Nat
      /\ (w * m) \div 100 \in Nat
      /\ (w * m) \div 100 <= (w * 1336) \div 100
  <2>1. CASE m = 0
    BY <2>1
  <2>2. CASE m = 50
    BY <2>2
  <2>3. CASE m = 100
    BY <2>3
  <2>4. CASE m = 334
    BY <2>4
  <2>5. CASE m = 568
    BY <2>5
  <2>6. CASE m = 1336
    BY <2>6
  <2>. QED
    BY <1>1, <2>1, <2>2, <2>3, <2>4, <2>5, <2>6
<1>. QED
  BY <1>2 DEF Times, MaxProfit, One, MaxMultiplier

\* A round that can be settled or cancelled is the live one of its id, so it is
\* as WaitingRound says, and the answer to it is one the host allows for.
LEMMA LoadedRound ==
  ASSUME IInv, WaitingRound, NEW s \in emitted, Loads(commitment, s)
  PROVE  /\ s \in Session /\ s.id \in SessionIds
         /\ s.wager \in Wagers /\ s.escrow = s.wager
         /\ \E p \in Presets : s.state = StartState(p)
         /\ \A e \in Entropies, d \in Directions :
              RandomnessResult(s.wager, s.state, e, d) \in StepResults
<1>1. s \in Session /\ s.id \in SessionIds
  BY DEF IInv, TypeOK, Session
<1>2. s.id \in Live /\ commitment[s.id] = s
  BY <1>1, HostAssumption DEF Loads, Live
<1>3. s.wager \in Wagers /\ s.escrow = s.wager
  BY <1>2 DEF WaitingRound
<1>4. \E p \in Presets : s.state = StartState(p)
  BY <1>2 DEF WaitingRound
<1>5. \A e \in Entropies, d \in Directions :
        RandomnessResult(s.wager, s.state, e, d) \in StepResults
  BY <1>3, <1>4, GameAssumption
<1>. QED
  BY <1>1, <1>3, <1>4, <1>5

\* Every step of the game is a step of the host of an arbitrary game.
LEMMA RoundIsHostStep ==
  ASSUME IInv, WaitingRound, [GameNext]_vars
  PROVE  [Next]_vars
<1>1. ASSUME NEW p \in Players, NEW g \in Games, NEW w \in Wagers,
             NEW preset \in Presets, PlayRound(p, g, w, preset)
      PROVE  Next
  <2>1. QuoteCaps(w) \in CapQuotes /\ SessionStart(w, preset) \in StepResults
    BY GameAssumption
  <2>. QED
    BY <1>1, <2>1 DEF PlayRound, Next
<1>2. ASSUME NEW s \in emitted, NEW e \in Entropies, NEW d \in Directions,
             SettleRound(s, e, d)
      PROVE  Next
  <2>1. Loads(commitment, s)
    BY <1>2 DEF SettleRound, OnRandomnessFulfilled
  <2>2. RandomnessResult(s.wager, s.state, e, d) \in StepResults
    BY <2>1, LoadedRound
  <2>. QED
    BY <1>2, <2>2 DEF SettleRound, Next
<1>3. ASSUME NEW s \in emitted, CancelRound(s) PROVE Next
  BY <1>3 DEF CancelRound, Next
<1>4. CASE \/ \E g \in Games, named \in BOOLEAN : RegisterGame(g, named)
           \/ \E p \in Players, n \in Approvals : Approve(p, n)
           \/ \E a \in Accounts, n \in Amounts : Mint(a, n)
           \/ \E p \in Players, a \in Accounts, n \in Amounts : Transfer(p, a, n)
           \/ Mine
  BY <1>4 DEF Next
<1>. QED
  BY <1>1, <1>2, <1>3, <1>4 DEF GameNext

\* An action that leaves each commitment alone or deletes it keeps WaitingRound.
LEMMA DeletionKeepsWaiting ==
  ASSUME WaitingRound,
         \A i \in SessionIds : commitment'[i] \in {commitment[i], NoSession}
  PROVE  WaitingRound'
BY DEF WaitingRound, Live

LEMMA WaitingRoundKept ==
  ASSUME IInv, WaitingRound, [GameNext]_vars
  PROVE  WaitingRound'
<1>0. commitment \in [SessionIds -> Session \cup {NoSession}]
  BY DEF IInv, TypeOK
<1>1. ASSUME NEW p \in Players, NEW g \in Games, NEW w \in Wagers,
             NEW preset \in Presets, PlayRound(p, g, w, preset)
      PROVE  WaitingRound'
  <2>. DEFINE r == SessionStart(w, preset)
              s == Opened(p, g, w, QuoteCaps(w), r.state)
              t == Stepped(s, r)
              bal == Pulled(balance, p, w)
              alw == Spent(allowance, p, w)
              next == [t EXCEPT !.phase = r.phase,
                                !.deadline = block + Timeout(r.phase)]
  <2>1. ProcessStepResult(s, r, TRUE, bal, alw)
    BY <1>1, Zenon DEF PlayRound, OpenSession
  <2>2. r.phase = "WAITING_RANDOMNESS"
    BY DEF SessionStart
  <2>3. commitment' = [commitment EXCEPT ![t.id] = next]
    BY <2>1, <2>2 DEF ProcessStepResult, Await, Terminate, TerminalPhases
  <2>4. w \in Nat /\ MaxProfit(w) \in Int
    BY HostAssumption DEF MaxProfit, Times, One, MaxMultiplier
  <2>5. /\ next.wager = w /\ next.escrow = w /\ next.maxEscrow = w
        /\ next.reserved = MaxProfit(w) /\ next.maxReserved = MaxProfit(w)
        /\ next.state = StartState(preset)
    BY <2>4 DEF Stepped, Opened, SessionStart, QuoteCaps
  <2>. QED
    BY <1>0, <2>3, <2>5 DEF WaitingRound, Live
<1>2. ASSUME NEW s \in emitted, NEW e \in Entropies, NEW d \in Directions,
             SettleRound(s, e, d)
      PROVE  WaitingRound'
  <2>. DEFINE r == RandomnessResult(s.wager, s.state, e, d)
              t == Stepped(s, r)
              moved == Pulled(balance, s.player, r.escrowDelta)
  <2>1. /\ Loads(commitment, s)
        /\ ProcessStepResult(s, r, FALSE, balance, allowance)
    BY <1>2, Zenon DEF SettleRound, OnRandomnessFulfilled
  <2>2. r.phase = "SETTLED"
    BY DEF RandomnessResult
  <2>3. s \in Session /\ t.id = s.id
    BY <2>1, LoadedRound DEF Stepped, Session
  <2>4. commitment' = Deleted(commitment, t)
    BY <2>1, <2>2 DEF ProcessStepResult, Await, Terminate, Finalize, WaitingPhases
  <2>. QED
    BY <1>0, <2>4, DeletionKeepsWaiting DEF Deleted
<1>3. ASSUME NEW s \in emitted, CancelRound(s) PROVE WaitingRound'
  <2>1. commitment' = Deleted(commitment, s)
    BY <1>3 DEF CancelRound, CancelStuckRandomness, Finalize
  <2>. QED
    BY <1>0, <2>1, DeletionKeepsWaiting DEF Deleted
<1>4. CASE \/ \E g \in Games, named \in BOOLEAN : RegisterGame(g, named)
           \/ \E p \in Players, n \in Approvals : Approve(p, n)
           \/ \E a \in Accounts, n \in Amounts : Mint(a, n)
           \/ \E p \in Players, a \in Accounts, n \in Amounts : Transfer(p, a, n)
           \/ Mine
  <2>1. commitment' = commitment
    BY <1>4 DEF RegisterGame, Approve, Mint, Transfer, Mine
  <2>. QED
    BY <2>1, DeletionKeepsWaiting
<1>5. CASE UNCHANGED vars
  BY <1>5, DeletionKeepsWaiting DEF vars
<1>. QED
  BY <1>1, <1>2, <1>3, <1>4, <1>5 DEF GameNext

LEMMA RoundInv == GameSpec => [](IInv /\ WaitingRound)
<1>1. Init => IInv /\ WaitingRound
  BY InitInv DEF Init, WaitingRound, Live
<1>2. (IInv /\ WaitingRound) /\ [GameNext]_vars => (IInv /\ WaitingRound)'
  BY RoundIsHostStep, StepInv, WaitingRoundKept
<1>. QED
  BY <1>1, <1>2, PTL DEF GameSpec

-----------------------------------------------------------------------------
\* The game in its host is a case of the host with an arbitrary game, so all
\* the host's theorems hold of it.
THEOREM GameImplementsHost == GameSpec => Spec
<1>1. (IInv /\ WaitingRound) /\ [GameNext]_vars => [Next]_vars
  BY RoundIsHostStep
<1>. QED
  BY <1>1, RoundInv, PTL DEF GameSpec, Spec

\* At every wager, every outcome of every waiting round can be paid from what
\* was escrowed and reserved for it: none reverts in the host's checks.
THEOREM GameEveryOutcomePayable == GameSpec => []EveryOutcomePayable
<1>1. IInv /\ WaitingRound => EveryOutcomePayable
  <2>. SUFFICES ASSUME IInv, WaitingRound, NEW i \in Live,
                       NEW e \in Entropies, NEW d \in Directions
                PROVE  LET s == commitment[i]
                           r == RandomnessResult(s.wager, s.state, e, d)
                       IN /\ WithinCaps(Stepped(s, r))
                          /\ r.payout <= MaxPayout(Stepped(s, r))
    BY DEF EveryOutcomePayable
  <2>. DEFINE s == commitment[i]
              r == RandomnessResult(s.wager, s.state, e, d)
              t == Stepped(s, r)
  <2>1. /\ s \in Session /\ s.wager \in Wagers /\ s.wager \in Nat
        /\ s.escrow = s.wager /\ s.maxEscrow = s.wager
        /\ s.reserved = MaxProfit(s.wager) /\ s.maxReserved = MaxProfit(s.wager)
    BY HostAssumption DEF IInv, TypeOK, WaitingRound, Live
  <2>2. PICK p \in Presets : s.state = StartState(p)
    BY DEF WaitingRound
  <2>3. /\ r.escrowDelta = 0 /\ r.reservedDelta = 0
        /\ r.payout = Times(s.wager, Multiplier(p, e))
    BY <2>2 DEF RandomnessResult, StartState
  <2>4. /\ r.payout <= s.wager + MaxProfit(s.wager)
        /\ MaxProfit(s.wager) \in Nat
    BY <2>1, <2>3, PayoutWithinReserve, GameAssumption
  <2>5. /\ t.escrow = s.wager /\ t.reserved = MaxProfit(s.wager)
        /\ t.maxEscrow = s.wager /\ t.maxReserved = MaxProfit(s.wager)
    BY <2>1, <2>3, <2>4 DEF Stepped, Session
  <2>. QED
    BY <2>1, <2>4, <2>5 DEF WithinCaps, MaxPayout
<1>. QED
  BY <1>1, RoundInv, PTL

\* Every settlement in a log is as PaysWhatItShows says.
PaidAsShown(log) ==
  \A i \in SessionIds : \A k \in DOMAIN log[i] :
    LET s == log[i][k].session
    IN CASE log[i][k].phase = "SETTLED" ->
              /\ log[i][k].payout = s.state.payout
              /\ s.state.payout = Times(s.wager, s.state.multiplier)
         [] log[i][k].phase = "CANCELLED" ->
              log[i][k].payout = s.wager /\ s.state \in {StartState(p) : p \in Presets}

\* A settlement added to a log of which that is true, and itself so, keeps it.
LEMMA LoggedShown ==
  ASSUME IInv, PaidAsShown(settlements),
         NEW t \in Session, Len(settlements[t.id]) = 0,
         NEW phase \in TerminalPhases, NEW payout \in Nat,
         \/ /\ phase = "SETTLED" /\ payout = t.state.payout
            /\ t.state.payout = Times(t.wager, t.state.multiplier)
         \/ /\ phase = "CANCELLED" /\ payout = t.wager
            /\ t.state \in {StartState(p) : p \in Presets}
  PROVE  PaidAsShown(Logged(settlements, t, phase, payout))
<1>. DEFINE e == [session |-> t, phase |-> phase, payout |-> payout]
            log == Logged(settlements, t, phase, payout)
<1>1. \A i \in SessionIds : log[i] = IF i = t.id THEN <<e>> ELSE settlements[i]
  BY LoggedFirst DEF IInv, TypeOK
<1>2. ASSUME NEW i \in SessionIds, NEW k \in DOMAIN log[i], i = t.id
      PROVE  log[i][k] = e
  BY <1>1, <1>2
<1>3. ASSUME NEW i \in SessionIds, i # t.id
      PROVE  log[i] = settlements[i]
  BY <1>1, <1>3
<1>4. e.session = t /\ e.phase = phase /\ e.payout = payout
  OBVIOUS
<1>. HIDE DEF e, log
<1>5. ASSUME NEW i \in SessionIds, NEW k \in DOMAIN log[i]
      PROVE  LET s == log[i][k].session
             IN CASE log[i][k].phase = "SETTLED" ->
                       /\ log[i][k].payout = s.state.payout
                       /\ s.state.payout = Times(s.wager, s.state.multiplier)
                  [] log[i][k].phase = "CANCELLED" ->
                       /\ log[i][k].payout = s.wager
                       /\ s.state \in {StartState(p) : p \in Presets}
  <2>1. CASE i = t.id
    BY <1>2, <1>4, <2>1
  <2>2. CASE i # t.id
    BY <1>3, <2>2 DEF PaidAsShown
  <2>. QED
    BY <2>1, <2>2
<1>. QED
  BY <1>5 DEF PaidAsShown, log

\* The payout of every settlement is the one its round's state shows, and a
\* cancelled round pays its wager back.
THEOREM GamePaysWhatItShows == GameSpec => []PaysWhatItShows
<1>1. Init => PaysWhatItShows
  BY DEF Init, PaysWhatItShows
<1>2. IInv /\ WaitingRound /\ PaysWhatItShows /\ [GameNext]_vars
        => PaysWhatItShows'
  <2>. SUFFICES ASSUME IInv, WaitingRound, PaidAsShown(settlements), [GameNext]_vars
                PROVE  PaidAsShown(settlements')
    BY DEF PaysWhatItShows, PaidAsShown
  <2>1. ASSUME NEW p \in Players, NEW g \in Games, NEW w \in Wagers,
               NEW preset \in Presets, PlayRound(p, g, w, preset)
        PROVE  settlements' = settlements
    <3>. DEFINE r == SessionStart(w, preset)
                s == Opened(p, g, w, QuoteCaps(w), r.state)
                bal == Pulled(balance, p, w)
                alw == Spent(allowance, p, w)
    <3>1. ProcessStepResult(s, r, TRUE, bal, alw)
      BY <2>1, Zenon DEF PlayRound, OpenSession
    <3>2. r.phase = "WAITING_RANDOMNESS"
      BY DEF SessionStart
    <3>. QED
      BY <3>1, <3>2 DEF ProcessStepResult, Await, Terminate, TerminalPhases
  <2>2. ASSUME NEW s \in emitted, NEW e \in Entropies, NEW d \in Directions,
               SettleRound(s, e, d)
        PROVE  PaidAsShown(settlements')
    <3>. DEFINE r == RandomnessResult(s.wager, s.state, e, d)
                t == Stepped(s, r)
                moved == Pulled(balance, s.player, r.escrowDelta)
    <3>1. /\ Loads(commitment, s)
          /\ ProcessStepResult(s, r, FALSE, balance, allowance)
      BY <2>2, Zenon DEF SettleRound, OnRandomnessFulfilled
    <3>2. /\ s \in Session /\ s.wager \in Wagers
          /\ \E p \in Presets : s.state = StartState(p)
          /\ r \in StepResults
      BY <3>1, LoadedRound
    <3>3. /\ r.phase = "SETTLED" /\ r.payout = r.state.payout
          /\ r.state.payout = Times(s.wager, r.state.multiplier)
          /\ r.escrowDelta = 0 /\ r.reservedDelta = 0
      BY DEF RandomnessResult, RoundState
    <3>4. r.payout \in Nat /\ r.state \in GameStates
      BY <3>2, HostAssumption DEF StepResult
    <3>5. /\ t \in Session /\ t.id = s.id /\ t.state = r.state
          /\ t.wager = s.wager
      <4>1. /\ s.escrow + r.escrowDelta \in Nat
            /\ s.reserved + r.reservedDelta \in Nat
            /\ s.step + 1 \in Nat
        BY <3>2, <3>3 DEF Session
      <4>. HIDE DEF r
      <4>. QED
        BY <3>2, <3>4, <4>1 DEF Stepped, Session
    <3>6. settlements' = Logged(settlements, t, "SETTLED", r.payout)
      BY <3>1, <3>3 DEF ProcessStepResult, Await, Terminate, Finalize, WaitingPhases
    <3>7. Len(settlements[t.id]) = 0
      BY <3>1, <3>5, Unsettled
    <3>8. PaidAsShown(Logged(settlements, t, r.phase, r.payout))
      <4>1. r.phase \in TerminalPhases
        BY <3>3 DEF TerminalPhases
      <4>2. /\ r.phase = "SETTLED" /\ r.payout = t.state.payout
            /\ t.state.payout = Times(t.wager, t.state.multiplier)
        BY <3>3, <3>5
      <4>. HIDE DEF r, t
      <4>. QED
        BY <3>4, <3>5, <3>7, <4>1, <4>2, LoggedShown
    <3>. HIDE DEF r, t
    <3>. QED
      BY <3>3, <3>6, <3>8
  <2>3. ASSUME NEW s \in emitted, CancelRound(s) PROVE PaidAsShown(settlements')
    <3>1. /\ Loads(commitment, s)
          /\ settlements' = Logged(settlements, s, "CANCELLED", s.escrow)
      BY <2>3 DEF CancelRound, CancelStuckRandomness, Finalize
    <3>2. /\ s \in Session /\ s.escrow = s.wager /\ s.escrow \in Nat
          /\ s.state \in {StartState(p) : p \in Presets}
          /\ Len(settlements[s.id]) = 0
      BY <3>1, LoadedRound, Unsettled DEF Session
    <3>. DEFINE cancelled == "CANCELLED"
    <3>3. cancelled \in TerminalPhases
      BY DEF TerminalPhases
    <3>4. PaidAsShown(Logged(settlements, s, cancelled, s.escrow))
      BY <3>2, <3>3, LoggedShown
    <3>. QED
      BY <3>1, <3>4
  <2>4. CASE \/ \E g \in Games, named \in BOOLEAN : RegisterGame(g, named)
             \/ \E p \in Players, n \in Approvals : Approve(p, n)
             \/ \E a \in Accounts, n \in Amounts : Mint(a, n)
             \/ \E p \in Players, a \in Accounts, n \in Amounts : Transfer(p, a, n)
             \/ Mine
    BY <2>4 DEF RegisterGame, Approve, Mint, Transfer, Mine
  <2>5. CASE UNCHANGED vars
    BY <2>5 DEF vars
  <2>. QED
    BY <2>1, <2>2, <2>3, <2>4, <2>5 DEF GameNext
<1>. QED
  BY <1>1, <1>2, RoundInv, PTL DEF GameSpec
=============================================================================

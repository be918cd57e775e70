----------------------------- MODULE CasinoHost -----------------------------
(***************************************************************************)
(* The casino host contract (LocalCasinoHost.sol) with the test token it   *)
(* escrows (LocalTestToken.sol), for an ARBITRARY game: every callback of  *)
(* the game may answer with any element of StepResults, every quote with   *)
(* any element of CapQuotes or ForfeitQuotes.  The game is called through  *)
(* view functions (ICasinoGameV2.sol), so it cannot re-enter the host.     *)
(*                                                                         *)
(* The host stores no session, only a hash of the encoded session.  The    *)
(* encoded session itself is emitted at every step and handed back by      *)
(* whoever calls next: a player, a keeper or the randomness router.  Here  *)
(* `commitment' holds the session the stored hash is the hash of, and      *)
(* `emitted' every snapshot that anyone may hand back, at any later time.  *)
(*                                                                         *)
(* An Ethereum transaction is atomic, so each external function is one     *)
(* action, and each revert is a conjunct that disables it.                 *)
(***************************************************************************)
EXTENDS Integers, Sequences, FiniteSets

CONSTANTS
  Players,            \* the externally owned accounts that play
  Host, Vault,        \* the accounts of the host and of its liquidity pool
  Games,              \* addresses that may be registered as games
  GameStates,         \* abstract contents of gameState
  Wagers,             \* the wagers players try
  Approvals,          \* the allowances players give the host
  Amounts,            \* the amounts minted, and sent in plain transfers
  StepResults,        \* what onSessionStart/onPlayerAction/onRandomness answer
  CapQuotes,          \* what quoteCaps answers
  ForfeitQuotes,      \* what quoteForfeitPayout answers
  ActionTimeout,      \* ACTION_TIMEOUT_BLOCKS
  RandomnessTimeout,  \* RANDOMNESS_TIMEOUT_BLOCKS
  InitialBalance,     \* the balances the deployment mints
  NoSession,          \* the zero commitment
  MaxSessions,        \* bound: sessions ever opened
  MaxStep,            \* bound: steps of one session (uint32 in the code)
  MaxBlock,           \* bound: block numbers (uint40 in the code)
  MaxBalance          \* bound: tokens one account is minted or sent up to

Accounts == Players \cup {Host, Vault}
SessionIds == 1..MaxSessions

WaitingPhases == {"WAITING_RANDOMNESS", "WAITING_PLAYER_ACTION"}
TerminalPhases == {"SETTLED", "FORFEITED", "CANCELLED"}
Phases == {"NONE"} \cup WaitingPhases \cup TerminalPhases

\* The fields of CasinoSession that the host reads or writes.  `wagerBase',
\* `token', `vault' and the risk fields are fixed at opening and only echoed.
Session ==
  [id : SessionIds, player : Players, game : Games, wager : Nat,
   escrow : Nat, reserved : Nat, maxEscrow : Nat, maxReserved : Nat,
   deadline : Nat, step : Nat, phase : Phases, state : GameStates]

StepResult ==
  [state : GameStates, escrowDelta : Int, reservedDelta : Int,
   phase : Phases, request : BOOLEAN, payout : Nat]

CapQuote == [escrow : Nat, reserved : Nat]

Settlement == [session : Session, phase : TerminalPhases, payout : Nat]

ASSUME HostAssumption ==
  /\ Host \notin Players /\ Vault \notin Players /\ Host # Vault
  /\ MaxSessions \in Nat /\ MaxStep \in Nat /\ MaxBlock \in Nat
  /\ MaxBalance \in Nat
  /\ ActionTimeout \in Nat /\ RandomnessTimeout \in Nat
  /\ Wagers \subseteq Nat /\ Approvals \subseteq Nat /\ Amounts \subseteq Nat
  /\ ForfeitQuotes \subseteq Nat
  /\ StepResults \subseteq StepResult
  /\ CapQuotes \subseteq CapQuote
  /\ InitialBalance \in [Accounts -> Nat]
  /\ NoSession \notin Session
  /\ GameStates # {}

VARIABLES
  block,        \* block.number of the next transaction
  registered,   \* games with a non-empty name
  balance,      \* balanceOf of the token
  allowance,    \* allowance[player][host]; the vault's is unlimited
  lastId,       \* currentSessionId
  commitment,   \* sessionCommitments, as the session whose hash is stored
  emitted,      \* encoded sessions of all CasinoSessionAdvanced events
  settlements   \* per session its CasinoSessionSettled events, in order

vars == <<block, registered, balance, allowance, lastId, commitment, emitted,
          settlements>>

-----------------------------------------------------------------------------
Init ==
  /\ block = 0
  /\ registered = {}
  /\ balance = InitialBalance
  /\ allowance = [p \in Players |-> 0]
  /\ lastId = 0
  /\ commitment = [i \in SessionIds |-> NoSession]
  /\ emitted = {}
  /\ settlements = [i \in SessionIds |-> <<>>]

LesserOf(a, b) == IF a <= b THEN a ELSE b

\* The balances after the host pulled `n' from player p (n < 0: paid it back).
Pulled(bal, p, n) == [bal EXCEPT ![p] = @ - n, ![Host] = @ + n]

\* transferFrom consumes the allowance of what it pulls; transfer uses none.
Spent(alw, p, n) == IF n > 0 THEN [alw EXCEPT ![p] = @ - n] ELSE alw

CanPull(bal, alw, p, n) == n > 0 => n <= alw[p] /\ n <= bal[p]

\* The balances after _finalizeSession's three transfers: the player is paid
\* from its escrow first, then from the vault; what is left of the escrow goes
\* to the vault.
VaultShare(s, payout) == payout - LesserOf(payout, s.escrow)
\* Mutant: a payout is taken from all that the host holds, not from the escrow
\* of its session, before the vault is asked.
PaidByHost(bal, s, payout) ==
  LET own == LesserOf(payout, bal[Host])
  IN [bal EXCEPT ![Host] = @ - own,
                 ![s.player] = @ + payout,
                 ![Vault] = @ + own - payout]
Paid(bal, s, payout) ==
  [bal EXCEPT ![Host] = @ - s.escrow,
              ![s.player] = @ + payout,
              ![Vault] = @ + s.escrow - payout]
CanPay(bal, s, payout) ==
  s.escrow <= bal[Host] /\ VaultShare(s, payout) <= bal[Vault]

\* _loadSession: the snapshot handed in must hash to the stored commitment.
Loads(live, s) == live[s.id] = s

\* Mutant: _finalizeSession keeps the commitment.
DeletedNever(live, s) == live
Deleted(live, s) == [live EXCEPT ![s.id] = NoSession]

Logged(log, s, phase, payout) ==
  [log EXCEPT ![s.id] =
     Append(@, [session |-> s, phase |-> phase, payout |-> payout])]

MaxPayout(s) == s.escrow + s.reserved

Finalize(s, phase, payout, bal) ==
  /\ payout <= MaxPayout(s)
  /\ CanPay(bal, s, payout)
  /\ commitment' = Deleted(commitment, s)
  /\ settlements' = Logged(settlements, s, phase, payout)
  /\ balance' = Paid(bal, s, payout)
  /\ UNCHANGED emitted

-----------------------------------------------------------------------------
\* Mutant: the escrow may grow in the randomness callback too.
DeltasAllowedAlways(s, r, allowIncrease, bal, alw) ==
  /\ CanPull(bal, alw, s.player, r.escrowDelta)
  /\ 0 <= s.escrow + r.escrowDelta
  /\ 0 <= bal[Host] + r.escrowDelta
  /\ 0 <= s.reserved + r.reservedDelta

\* _applyStepDeltas, as the conditions under which it does not revert ...
DeltasAllowed(s, r, allowIncrease, bal, alw) ==
  /\ r.escrowDelta > 0 => allowIncrease
  /\ CanPull(bal, alw, s.player, r.escrowDelta)
  /\ 0 <= s.escrow + r.escrowDelta
  /\ 0 <= bal[Host] + r.escrowDelta
  /\ 0 <= s.reserved + r.reservedDelta

\* Mutant: the step counter is not incremented.
SteppedInPlace(s, r) ==
  [s EXCEPT !.escrow = @ + r.escrowDelta,
            !.reserved = @ + r.reservedDelta,
            !.state = r.state]

\* ... and the session it leaves, with the state and step of the result.
Stepped(s, r) ==
  [s EXCEPT !.escrow = @ + r.escrowDelta,
            !.reserved = @ + r.reservedDelta,
            !.state = r.state,
            !.step = @ + 1]

\* Mutants: one of the two caps is not checked.
WithinEscrowCap(s) == s.escrow <= s.maxEscrow
WithinReservedCap(s) == s.reserved <= s.maxReserved

WithinCaps(s) == s.escrow <= s.maxEscrow /\ s.reserved <= s.maxReserved

Timeout(phase) ==
  IF phase = "WAITING_RANDOMNESS" THEN RandomnessTimeout ELSE ActionTimeout

\* A waiting phase: the new snapshot is committed, sent to the router when
\* randomness is requested, and emitted.  requestRandomnessNow must be set
\* exactly when the game goes on to wait for randomness.
Await(t, r, bal) ==
  LET next == [t EXCEPT !.phase = r.phase,
                        !.deadline = block + Timeout(r.phase)]
  IN /\ r.phase \in WaitingPhases
     /\ r.request = (r.phase = "WAITING_RANDOMNESS")
     /\ commitment' = [commitment EXCEPT ![t.id] = next]
     /\ emitted' = emitted \cup {next}
     /\ balance' = bal
     /\ UNCHANGED settlements

Terminate(t, r, bal) ==
  /\ r.phase \in TerminalPhases
  /\ ~r.request
  /\ Finalize(t, r.phase, r.payout, bal)

ProcessStepResult(s, r, allowIncrease, bal, alw) ==
  LET t == Stepped(s, r)
      moved == Pulled(bal, s.player, r.escrowDelta)
  IN /\ s.step < MaxStep
     /\ DeltasAllowed(s, r, allowIncrease, bal, alw)
     /\ WithinCaps(t)
     /\ allowance' = Spent(alw, s.player, r.escrowDelta)
     /\ Await(t, r, moved) \/ Terminate(t, r, moved)

-----------------------------------------------------------------------------
\* The external functions.

RegisterGame(g, named) ==
  /\ registered' = IF named THEN registered \cup {g} ELSE registered \ {g}
  /\ UNCHANGED <<block, balance, allowance, lastId, commitment, emitted,
                 settlements>>

Approve(p, n) ==
  /\ allowance' = [allowance EXCEPT ![p] = n]
  /\ UNCHANGED <<block, registered, balance, lastId, commitment, emitted,
                 settlements>>

Mint(a, n) ==
  /\ balance[a] + n <= MaxBalance
  /\ balance' = [balance EXCEPT ![a] = @ + n]
  /\ UNCHANGED <<block, registered, allowance, lastId, commitment, emitted,
                 settlements>>

\* A player sends its tokens to anyone, the host's contract included.  (A
\* transferFrom by a third account needs an allowance that the holder gave it,
\* and moves the same tokens.)  The contracts send none but in what follows.
Transfer(p, a, n) ==
  LET sent == [balance EXCEPT ![p] = @ - n]
  IN /\ n <= balance[p]
     /\ balance[a] + n <= MaxBalance
     /\ balance' = [sent EXCEPT ![a] = @ + n]
     /\ UNCHANGED <<block, registered, allowance, lastId, commitment, emitted,
                    settlements>>

Mine ==
  /\ block < MaxBlock
  /\ block' = block + 1
  /\ UNCHANGED <<registered, balance, allowance, lastId, commitment, emitted,
                 settlements>>

Opened(p, g, wager, caps, empty) ==
  [id |-> lastId + 1, player |-> p, game |-> g, wager |-> wager,
   escrow |-> wager, reserved |-> 0,
   maxEscrow |-> caps.escrow, maxReserved |-> caps.reserved,
   deadline |-> 0, step |-> 0, phase |-> "NONE", state |-> empty]

\* The wager is pulled before the game's first step, which may pull more.
OpenSession(p, g, wager, caps, r) ==
  /\ wager > 0
  /\ g \in registered
  /\ wager <= caps.escrow
  /\ lastId < MaxSessions
  /\ CanPull(balance, allowance, p, wager)
  /\ lastId' = lastId + 1
  /\ ProcessStepResult(Opened(p, g, wager, caps, r.state), r, TRUE,
                       Pulled(balance, p, wager), Spent(allowance, p, wager))
  /\ UNCHANGED <<block, registered>>

SubmitAction(caller, s, r) ==
  /\ Loads(commitment, s)
  /\ s.phase = "WAITING_PLAYER_ACTION"
  /\ s.player = caller
  /\ block <= s.deadline
  /\ ProcessStepResult(s, r, TRUE, balance, allowance)
  /\ UNCHANGED <<block, registered, lastId>>

\* The router's callback.  It may come at any time, more than once, and after
\* the deadline: the commitment is the host's only protection.
OnRandomnessFulfilled(s, r) ==
  /\ Loads(commitment, s)
  /\ s.phase = "WAITING_RANDOMNESS"
  /\ ProcessStepResult(s, r, FALSE, balance, allowance)
  /\ UNCHANGED <<block, registered, lastId>>

CancelStuckRandomness(s) ==
  /\ Loads(commitment, s)
  /\ s.phase = "WAITING_RANDOMNESS"
  /\ block > s.deadline
  /\ Finalize(s, "CANCELLED", s.escrow, balance)
  /\ UNCHANGED <<block, registered, lastId, allowance>>

\* _quoteForfeitPayout: the quote capped by the budget, less the 10% cut.
ForfeitPayout(s, quote) == (LesserOf(quote, MaxPayout(s)) * 9000) \div 10000

Forfeitable(live, s) ==
  /\ Loads(live, s)
  /\ s.phase = "WAITING_PLAYER_ACTION"
  /\ block > s.deadline

ForfeitExpiredSession(s, quote) ==
  /\ Forfeitable(commitment, s)
  /\ Finalize(s, "FORFEITED", ForfeitPayout(s, quote), balance)
  /\ UNCHANGED <<block, registered, lastId, allowance>>

\* forfeitExpiredSessions on a batch of two: the second iteration reads what
\* the first one wrote, and a revert in either undoes both.  A longer batch is
\* the same composition repeated.
ForfeitExpiredSessions(s, quoteS, t, quoteT) ==
  LET payS == ForfeitPayout(s, quoteS)
      payT == ForfeitPayout(t, quoteT)
      bal == Paid(balance, s, payS)
      live == Deleted(commitment, s)
      log == Logged(settlements, s, "FORFEITED", payS)
  IN /\ Forfeitable(commitment, s)
     /\ payS <= MaxPayout(s)
     /\ CanPay(balance, s, payS)
     /\ Forfeitable(live, t)
     /\ payT <= MaxPayout(t)
     /\ CanPay(bal, t, payT)
     /\ commitment' = Deleted(live, t)
     /\ settlements' = Logged(log, t, "FORFEITED", payT)
     /\ balance' = Paid(bal, t, payT)
     /\ UNCHANGED <<block, registered, lastId, allowance, emitted>>

Next ==
  \/ \E g \in Games, named \in BOOLEAN : RegisterGame(g, named)
  \/ \E p \in Players, n \in Approvals : Approve(p, n)
  \/ \E a \in Accounts, n \in Amounts : Mint(a, n)
  \/ \E p \in Players, a \in Accounts, n \in Amounts : Transfer(p, a, n)
  \/ Mine
  \/ \E p \in Players, g \in Games, w \in Wagers, c \in CapQuotes,
        r \in StepResults : OpenSession(p, g, w, c, r)
  \/ \E p \in Players, s \in emitted, r \in StepResults : SubmitAction(p, s, r)
  \/ \E s \in emitted, r \in StepResults : OnRandomnessFulfilled(s, r)
  \/ \E s \in emitted : CancelStuckRandomness(s)
  \/ \E s \in emitted, q \in ForfeitQuotes : ForfeitExpiredSession(s, q)
  \/ \E s, t \in emitted, q, u \in ForfeitQuotes :
        ForfeitExpiredSessions(s, q, t, u)

Spec == Init /\ [][Next]_vars

-----------------------------------------------------------------------------
\* Type invariant.  Balances stay in Nat: no transfer underflows.
TypeOK ==
  /\ block \in Nat
  /\ registered \subseteq Games
  /\ balance \in [Accounts -> Nat]
  /\ allowance \in [Players -> Nat]
  /\ lastId \in 0..MaxSessions
  /\ commitment \in [SessionIds -> Session \cup {NoSession}]
  /\ emitted \subseteq Session
  /\ settlements \in [SessionIds -> Seq(Settlement)]

Live == {i \in SessionIds : commitment[i] # NoSession}

\* The sum of amount[i] over the domain of amount, counted base unit by base
\* unit: unit k of i is the pair <<i, k>>.
Units(amount) == UNION {{i} \X (1..amount[i]) : i \in DOMAIN amount}
Total(amount) == Cardinality(Units(amount))

\* The host contract owns at least the stakes of the live sessions: no
\* settlement, cancellation or escrow change of one session is ever paid from
\* the stake of another.  It may own more: anyone can mint or send it tokens,
\* which no function of it ever pays out.
\* (_applyStepDeltas and _finalizeSession, over any interleaving of sessions.)
Stakes == [i \in Live |-> commitment[i].escrow]
EscrowBacked == Total(Stakes) <= balance[Host]

\* A stored commitment is that of the newest snapshot ever emitted for its
\* session, so a player, keeper or router that echoes an older snapshot is
\* refused.  (_loadSession against the writes of _processStepResult.)
OnlyNewestSnapshotLoads ==
  \A s, t \in emitted :
    (Loads(commitment, s) /\ t.id = s.id /\ t # s) => t.step < s.step

\* Every session that was opened is either live or was settled exactly once:
\* a late randomness callback, a cancel and a forfeit that race for the same
\* session never both pay, and none of them loses the session unpaid.
\* (_finalizeSession's delete against every caller of _loadSession.)
SettledExactlyOnce ==
  \A i \in SessionIds :
    Len(settlements[i]) = IF i <= lastId /\ i \notin Live THEN 1 ELSE 0

\* Whatever the game answers over a session's whole life, the session pays out
\* at most the caps it quoted when it was opened.
\* (The cap checks of _processStepResult and the budget of _finalizeSession.)
PaidWithinCaps ==
  \A i \in SessionIds : \A k \in DOMAIN settlements[i] :
    LET s == settlements[i][k].session
    IN settlements[i][k].payout <= s.maxEscrow + s.maxReserved

\* What the proofs add to these: every commitment is that of a waiting session
\* of its own id, within its caps, whose snapshot was emitted; and no snapshot
\* of a session that was not opened is around.
LiveWellFormed ==
  \A i \in Live :
    /\ commitment[i].id = i
    /\ i <= lastId
    /\ commitment[i] \in emitted
    /\ commitment[i].phase \in WaitingPhases
    /\ WithinCaps(commitment[i])

EmittedOpened == \A s \in emitted : s.id <= lastId

\* Cardinality says something of a finite set only.
StakesCounted == IsFiniteSet(Units(Stakes)) /\ EscrowBacked

IInv ==
  /\ TypeOK
  /\ LiveWellFormed
  /\ EmittedOpened
  /\ OnlyNewestSnapshotLoads
  /\ SettledExactlyOnce
  /\ PaidWithinCaps
  /\ StakesCounted

OpensOwn(p) ==
  /\ lastId' > lastId
  /\ \/ commitment'[lastId'] # NoSession /\ commitment'[lastId'].player = p
     \/ \E k \in DOMAIN settlements'[lastId'] :
          settlements'[lastId'][k].session.player = p
ActsInOwn(p) ==
  \E i \in Live : /\ commitment[i].player = p
                  /\ commitment[i].phase = "WAITING_PLAYER_ACTION"
                  /\ commitment'[i] # commitment[i]

TransfersOwn(p) == \E a \in Accounts, n \in Amounts : Transfer(p, a, n)

\* A step takes tokens from a player only when that player opens a session,
\* acts in one of its sessions that waits for its action, or sends them away
\* itself: neither the router nor a keeper can spend the allowance a player
\* gave the host.
\* (allowEscrowIncrease in _applyStepDeltas; msg.sender in submitAction.)
PulledOnlyByOwnStep ==
  [][\A p \in Players :
       balance'[p] < balance[p]
         => OpensOwn(p) \/ ActsInOwn(p) \/ TransfersOwn(p)]_vars

\* A new commitment is always that of a snapshot nobody has seen before: an
\* encoded session that was once superseded or settled never becomes valid
\* again, however often it is replayed.
\* (deadlineBlock, step and phase written before every commitment.)
SnapshotsNeverRevive ==
  [][\A i \in SessionIds :
       commitment'[i] \notin {commitment[i], NoSession}
         => commitment'[i] \notin emitted]_vars

\* The vault never loses more in a step than the profit reserved, at opening,
\* for the sessions that this step settles.
\* (payoutFromVault in _finalizeSession.)
SettledIn(log, next) == {i \in SessionIds : Len(next[i]) > Len(log[i])}
ProfitsReserved(log, next) ==
  [i \in SettledIn(log, next) |-> next[i][1].session.maxReserved]
VaultLossReserved ==
  [][balance[Vault] - balance'[Vault]
       <= Total(ProfitsReserved(settlements, settlements'))]_vars

\* What the chain promises to whoever follows its sessions is what the page
\* promises a game (SessionStream): a session that was opened stays, only goes
\* forward, and ends once.  (stepIndex in _processStepResult; the delete of the
\* commitment in _finalizeSession.)
SessionShown(live, log, i) ==
  IF live[i] # NoSession THEN [phase |-> live[i].phase, step |-> live[i].step]
  ELSE IF log[i] # <<>> THEN [phase |-> "OVER", step |-> MaxStep + 1]
  ELSE [phase |-> "ABSENT", step |-> -1]
StreamOf(live, log) == [i \in SessionIds |-> SessionShown(live, log, i)]

Stream == INSTANCE SessionStream
  WITH Sessions <- SessionIds, Final <- MaxStep + 1,
       stream <- StreamOf(commitment, settlements)
ChainStream == Stream!Spec
=============================================================================

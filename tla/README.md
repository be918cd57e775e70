# Counterweight: a TLA+ model of the game, its casino host and its simulator

The repository holds a small casino game (`contracts/Counterweight.sol`, a
React guest page in `src/`) and the SDK it is developed against
(`.chain-casino-sdk/casino-sdk`, "the SDK" below): a local host contract, a
browser simulator that plays the part of the casino page around the guest, and
a local node. This directory models the parts of it that decide who is paid
what, and what the player is shown.

## 1. Inventory

| part | state it keeps | operations | what makes it correct |
| --- | --- | --- | --- |
| **Host contract** `LocalCasinoHost.sol` | one hash per session, registered games, session counter; stakes as tokens it owns | `registerGame`, `openSession`, `submitAction`, `onRandomnessFulfilled`, `cancelStuckRandomness`, `forfeitExpiredSession(s)` | a session is settled once, from its own stake and the vault, within the caps it quoted; only the newest snapshot of it is accepted; nobody's tokens move without a step of their own |
| **Token and vault** `LocalTestToken.sol`, `LocalCasinoVault` | balances, allowances | `mint`, `approve`, `transfer`, and `transferFrom` by the host | no balance underflows |
| **Game contract** `Counterweight.sol` | none (pure) | `quoteCaps`, `onSessionStart`, `onRandomness` | every outcome fits the profit it reserved; the state it returns tells the payout |
| **Engine and decoder** `counterweight.ts`, `onChainResult.ts` | none | `resolveFromEntropy`, `summarizeMoment`, `decodeCounterweightState` | they agree with the contract for every input |
| **Bet limits** `use-casino-risk-limits.ts`, `bet-limits.ts` | none | `useCasinoRiskLimits`, `computeMaxWager` | a wager up to the limit is never rejected, and costs the vault no more than its share |
| **Event feed** `session-events.ts` | seen logs, cached timestamps, next block | `start`, the polling loop, `emit` with a lag per channel | every log is delivered once, in order where order is promised |
| **Indexed store** `session-store.ts` | one row per session | `applyEvent` | rows only go forward |
| **Flashblock patches** `flashblock-session-patch.ts` | one patch per session | apply, merge, prune | a patch never takes a row back |
| **Optimistic rows, monotonic items, snapshot** | pending rows, the last view | create, confirm, remove, reconcile, sort | no session vanishes, goes back, or changes once settled |
| **Host methods** `use-game-host.ts` | confirmed opens, remembered sessions | `openSession`, `submitAction`, `cancelStuckRandomness`, `revealOutcome` | a bet that landed is never reported as lost if the page could know |
| **Balance ledger** `balance-hold.ts`, **round ledger** `use-round-ledger.ts` | displayed balance, live rounds, deltas | `betPlaced`, `roundRevealed`, `roundClosed`, reconcile | a payout is not shown before its reveal, everything is counted once, and the display comes back to the chain |
| **Guest page** `App.tsx` | bet, active session, animation | `playRound`, recovery, settle, `revealLoad` | a round is played and revealed once, with the controls locked |
| **Session codecs** `CasinoSessionCodec.sol`, `casino-session-codec.ts` | none | encode, decode | they agree on every byte, whichever side wrote it |
| **Randomness verification** `randomness-verification.ts`, `verify-network-router.ts`, `verify-network-ecvrf.ts` | none | `verifySessionRandomness`, `verifyRequest`, `prove`, `verify` | "valid" is said only of the word that the assigned node derived and the router logged; "invalid" never of what could not be read |
| **Local node** `local-node/index.ts` and its **watcher** `game-contracts.ts` | files known, queue of syncs, `deployed.json` | boot, deploy, scan, sync, write, exit | a file is listed whole or not; in the end the list is that of the folder |
| **Simulator page** `simulator/src/App.tsx`, `runtime.ts` | panel, applied configuration, runtime | poll, start, the runtime effect | at most one runtime follows the chain; nobody has to click |
| **Coinflip example** `examples/coinflip-public` and the **bridge** `use-game-bridge.ts` | the round, the last pushed snapshot | handshake, push, remount, bet, settle, reveal | a round shows its own session and finishes; a bet is priced by the words that win it |
| **The rest**: manifest, content height, sound, trace | small | see PROJECT.json | |

A round: the guest calls the host page, which signs `openSession`; the host
contract takes the stake, asks the game for its first step and the randomness
router for a random word. The router calls back, the game answers with a
payout, the host settles. The events of that reach the page by two paths, at
two speeds: a fast "flashblock" feed and a slower indexed store. The page
merges both into a snapshot, hides the payout from the balance until the guest
has played its animation, and the guest reports that with `revealOutcome`.

What is hard here: three parties race for one session (router, player,
keeper); snapshots of a session are kept by callers and replayed; one event
arrives twice at different times; several calls of the page await at once while
effects, timers and unmounts change the state they come back to; a read of the
balance is old when it returns. PROJECT.json lists the hazards line by line,
with the property that covers each, or the reason why none does yet.

## 2. Modules

| module | models | actions correspond to |
| --- | --- | --- |
| `CasinoHost` | `LocalCasinoHost.sol`, `LocalTestToken.sol`, `CasinoSession.sol` | one action per external function; a revert is a disabled action. Anyone mints for anyone, the host included, and players send tokens to anyone; a `transferFrom` by a third account, which needs the holder's leave, is not an action of its own, and neither are allowances to others than the host. The game is arbitrary: its answers come from the constant `StepResults` |
| `Counterweight` | `Counterweight.sol` | pure operators, no state |
| `CounterweightGame` | the game in its host: extends both | the host's actions with the game's answers |
| `Engine` | `counterweight.ts`, `onChainResult.ts` beside the contract | pure operators; `RoundsAgreeOn` compares the three copies |
| `SessionCodec` | both codecs of a session, over sequences of bytes | pure operators |
| `Ecvrf` | `verify-network-ecvrf.ts`, over a small group | pure operators |
| `RandomnessVerification` | `randomness-verification.ts`, `verify-network-router.ts`; extends `Ecvrf` | pure operators |
| `Coinflip` | `lib/coinflip.ts` of the example and its wager limit; extends `BetLimits` | pure operators |
| `BetLimits` | `use-casino-risk-limits.ts`, `bet-limits.ts` | pure operators, no state; `Engine` extends it |
| `EventFeed` | `createSessionEventFeed` | one action per stretch of `start` and of the polling loop between two awaits, one per timer that fires |
| `BalanceLedger` | `balance-hold.ts`, `use-round-ledger.ts`, the host methods that drive them | one action per stretch of a call between two awaits, per effect, timer, mount and unmount |
| `Guest` | `App.tsx`, `sessionRecovery.ts` | one action per click, per stretch between awaits, per snapshot (with both effects), per reload |
| `SessionView` | `session-store.ts`, `flashblock-session-patch.ts`, `use-simulated-sessions.ts`, `optimistic-casino-session.ts`, `monotonic-session-items.ts`, `use-host-snapshot.ts`, the maps and the send queue of `use-game-host.ts` and `runtime.ts` | one action per event of a channel, per stretch of a call between two awaits, per render, per change of the wallet status; the chain is the environment |
| `SessionStream` | what the page promises a game about a session: it appears, advances, ends once | one action, a push |
| `GameContracts` | `watchGameContracts` | one action per stretch of a sync between two awaits, the timer, a save by the developer |
| `LocalStack` | `local-node/index.ts`, `simulator/src/App.tsx`, `config.ts`, the creation of `runtime.ts`; extends `GameContracts` | boot, deploy, write, exit of the node; poll, answer, start, creation of the page |
| `CoinflipGuest` | `App.tsx` and `useCasinoHost.ts` of the example, `use-game-bridge.ts` | one action per message, timer, click and stretch of `openRound`, with the effects of its render |
| `StatelessParts` | the pure modules, run one input at a time, with their properties | a probe is taken up, or put back |
| `CasinoHostProofs`, `CounterweightGameProofs`, `StatelessPartsProofs`, `BalanceLedgerProofs`, `GuestProofs`, `EventFeedProofs`, `SimulatorProofs`, `SessionViewProofs` | theorems about the module each is named after, `SimulatorProofs` about `LocalStack` and `CoinflipGuest`; the invariants they use that no run needs stand at the end of that module, the last of the view in its proofs | |
| `MC...` | instances for TLC. `MCCounterweightGame` runs `CounterweightGame` beside `StatelessParts`; `MCSimulator` runs `LocalStack` or `CoinflipGuest`, which share no state | |

Choices that run through all of them:

* **Sessions.** The host stores only a hash of a session. `commitment` holds the
  session itself, and `emitted` every snapshot that was ever published: whoever
  calls may hand in any of them, at any time. Hashes do not collide.
* **Randomness.** The router is outside: its callback may come at any time, for
  any snapshot, more than once, or never.
* **Balances** in `BalanceLedger` are sets: which bets, extra stakes and payouts
  a displayed number counts. "Counted once" and "not counted yet" can then be
  said exactly, where a number could be right by accident. Only the test
  "adjustment is zero" of `useLedgeredBalance` needs a number (`Worth`).
* **Reads of the chain** take three steps, the call, the answer, the return;
  what is counted is fixed at the answer.
* **Pure modules** are run by the probe of `StatelessParts`: one input is taken
  up, shown to its property and put back, so that each input is a state and each
  property an invariant. What they state is defined where they are (`...On`),
  for one input. `MCCounterweightGame` takes probes up from its initial state.
* **Bytes** of a session are numbers below 256 in sequences, and a field is its
  bytes without leading zeros, since the codecs differ only in where they look.
* **Points** of the curve are their discrete logarithms: the equations of
  `verify` are those of any group of prime order. The run has the order 7, the
  theorem every prime order. A proof that
  verifies without being honest must have answered its own challenge; in a
  small group that happens, so `ProofsSound` says the part of soundness that has
  no probability in it: two challenges for one commitment determine the word.
* **Hashes and signatures** of the randomness verification are what was hashed
  and who signed what.
* **The page** in `Guest` and in `CoinflipGuest` runs its two effects with the snapshot that triggers
  them, as React does for one commit. Crate-by-crate animation is one await.
* **A file** in `GameContracts` is a revision: which games it defines, or that it
  does not compile. Removed and unreadable files are one to a sync.
* **Data in `SessionView`** is the number of the step it belongs to: a state is
  its step, a result is `Final`, a random word is the step that asked for it.
  "Newer" and "the right word" can then be said without any contents. React
  renders a change of the indexed rows at once and a change of other state some
  time later; the effect that prunes the patches follows the first.
* Operators marked "Mutant" in a module are plausible bugs of the definition
  below them. No action uses them; each shows that one property would notice.

## 3. What the runs check

| run | instance | shows |
| --- | --- | --- |
| `casino_host` | two players, one game that answers everything the host must withstand, two sessions of up to two steps, deadlines of one block, tokens minted and sent to anyone, a vault that may be too poor | no stake is spent on another session, every session settles exactly once and within its caps, old snapshots never load again, the loss of the vault stays within what was reserved, tokens leave a player only at a step of its own |
| `counterweight_game` | one player, two rounds, bytes from every band, a vault that can pay some wins; as probes all 3 × 256 × 2 rounds, layouts, limits, packed sessions, proofs, deliveries of randomness and coinflip bets | every outcome is payable, what is paid is what is shown, no round is stuck; the contract, the engine and the decoder agree; the return is exactly 96%; a wager up to the offered limit is accepted; the codecs agree; proofs and verdicts are sound; coinflip bets are priced by the words that win them |
| `event_feed` | two blocks of up to two logs, two failing calls, stops at any time | at most one delivery per channel and log, replay in chain order, losses only by failed time stamps, and arrival of all others |
| `event_feed_lost` | two blocks of one log, one failure | a violation, see section 6 |
| `balance_ledger` | two rounds, failing reads, one unmount | a payout stays hidden until the reveal, a reconcile counts everything once |
| `balance_ledger_live` | one round with an action, frame mounted, reads that succeed | a tracked round always blocks the reconcile, and the display comes to the balance of the chain, but for the exceptions below |
| `guest` | two rounds, the first of which may be of an earlier visit, one reload | one reveal per session, controls locked, one round on stage, rounds complete |
| `guest_cancelled`, `guest_replay` | one round | violations, see section 6 |
| `session_view` | two bets, the first of which may be of an earlier visit, two steps each, four logs, and one fault: a lost log, an overtaken one, or a change of the wallet | refinement of `SessionStream` while the wallet is ready, the final view is that of the chain, an action echoes the newest state, no bet is lost or doubled |
| `session_view_wallet` | one bet | a violation, see section 6 |
| `simulator` | two files of up to two games, three events from outside (saves, failures, boots, clicks), polls that answer late; in a second part two coinflip bets, two remounts, two snapshots on the wire | one runtime at a time, files listed whole, a file that breaks keeps its last good games, the stack comes up by itself; a coinflip round shows its own session, is revealed exactly if its coins lie, and finishes |

The type invariants, the action property `SnapshotsNeverRevive` and the
refinement `ChainStream` are not among the runs' properties, because they are
proved (section 5). The inductive invariants of section 5 are left out in favour
of deeper properties; TLC checked each, and `ChainStream`, on the instance of its
module's run before it was proved.

**Why the bounds are enough.** Sessions of the host interact only through the
token balances; two sessions, of one or of two players, already give every pair
of interleaved steps, and the proofs of section 5 do not depend on the number.
One of the answers of the game goes beyond each cap, so two steps reach every
check of the host. The multipliers of `LimitsAccepted` are those of the SDK's test (but its 5000, which
leaves no wager here), the page's 13.36, one below 1 and one that is no whole
number of basis points (1.00199), so that rounding it the wrong way shows. The
decoder, the engine and the contract depend on a preset, one byte and one bit,
so their probes are exhaustive, and so are those of the coinflip bets with up to
ten coins. The packed sessions have every phase and one beyond the last, empty,
full and too wide fields, byte strings of 0, 1 and 260 bytes (260 needs both
bytes of its length), and miss or add the few bytes at which a decoder could
stop elsewhere. A delivery of randomness varies each part alone and all
together. For the local stack, three events are a boot with two changes, or two
boots and a change; two files, of which one is broken or has two games, give a
deployment that fails half-way while another file is listed. Two bets let an
old answer meet a new round. In
the feed, two logs in a block are the smallest case in which a failed time stamp
separates a log from its block, and two blocks the smallest in which a range is
retried while the head moves. In the ledger two rounds are what the epoch and
`activeRounds` exist for: one that comes and goes during the read asked after
another. In the view, four logs let one session open, take two steps and
settle, or two sessions get half-way at once, and each kind of fault occurs in
every place; faults of two kinds together are left to a larger bound. In the
guest a second round is what an old animation, an old
`openSession` and the recovery effect can get in the way of.

Each bound is a named constant (`MaxSessions`, `MaxStep`, `MaxBlock`,
`MaxBalance`, `MaxBlocks`, `MaxLogs`, `MaxFailures`, `MaxUnmounts`,
`MaxRounds`, `MaxReloads`, `MaxSteps`, `MaxFaults`, `MaxEvents`,
`MaxFetches`, `MaxBets`, `MaxRemounts`, `MaxWire`) in the guard of the action it bounds; the
comment of `Submit` names its own, one action per round. The configurations
that switch off the deadlock check belong to modules that really may come to
rest: a feed that was stopped, a page on which every round was played, a node
that was switched off.

**Properties with exceptions.** The properties of `Guest` exclude the states in
which rounds got `tangled`: a session was recovered or taken up while another
was being opened or shown, or before its own `openSession` returned. In these
the page really behaves differently, as `guest_replay` shows; the exception
keeps the properties informative about all others.

`Reconciles` holds while the round is `Undisturbed`, which leaves out four things
that the code does not handle. An action sent before `openSession` returned
tracks its round under a key of its own, which the answer overwrites; that key
stays in `activeRounds` and no reconcile comes any more (`Overtaken`, section 6).
A bet may land after the page gave it up; an action may fail, whose refund no
reconcile need follow. And, outside of the instance, a read may fail or the frame
go away: nobody then reads again before the next round ends
(`balance-hold.ts:72-75`). `TrackedHolds` has none of these exceptions.

`StackComesUp` has two parts. `UpToDate` is of every file: it is listed with the
games of its text, or, when that does not compile or deploy, with those of the
last one that did (the history variable `good`, which a boot resets as it does
the watcher). `StartsAlone`, that nobody has to click, has a premise: the first
`deployed.json` that the page reads is of this boot, and no request of the start
fails on a chain that is there, since the page starts once (`App.tsx:128`). That
the runtime's game is registered is claimed of the built-in game only, which the
node registers before it writes the file: for others `createSimulatorRuntime`
skips a game without a name and swallows every failure (`runtime.ts:90-111`).

## 4. Fairness

* `CounterweightGame`: blocks are mined, and the cancellation that the host page
  offers for a stuck round is made some time. Nothing is assumed of the router
  or of the vault's funds, so `RoundsEnd` holds although randomness may never
  come.
* `EventFeed`: timers fire and requests are answered, by success or failure
  (the number of failures is bounded). These are the promises of the runtime.
* `BalanceLedger`: timers fire, reads and sends end, sessions settle and reach
  the indexed store, and the game reveals what it has seen settle, which the SDK
  requires of it. Nothing is assumed of unmounts or of the fast channel.
* `Guest`: the host answers, settles and shows sessions; it pushes a
  snapshot when it differs from the last one and only then, as
  `use-game-bridge.ts` drops equal ones; animations go on. Nothing is assumed
  of clicks, reloads and the connection, which may fail.
* `MCSimulator`: the timers and promises of the node, the polls of the page, the
  answers to them and each call for a runtime come to an end; in the coinflip
  part the handshake, messages, timers and renders do, and sessions that were
  opened appear and end. Nothing is assumed of the developer, of a boot, of a
  bet, or of the answer of `openSession`, which may never come: `RoundsFinish`
  starts where it came.

## 5. What is proved

All theorems hold for every value of the constants. Those of the host assume
`HostAssumption` (the types of the constants, and that the accounts differ),
those of the game also `GameAssumption` (its answers are among those the host is
instantiated with), the others the assumption of their module:
`LedgerAssumption`, `GuestAssumption`, `FeedAssumption`, `ViewAssumption`,
`LocalStackAssumption` with `GameContractsAssumption`, and
`CoinflipGuestAssumption`. These say that the bounds are numbers (and that
of the view's logs at least 3, those of an earlier visit), that a revision which
compiles has a number of games, and which values are distinct.

The parts without state assume that amounts, multipliers and the sizes of samples
are numbers (`SampleAssumption`, `FlipAssumption`, `CodecAssumption`, which also
keeps the samples' byte strings within the two bytes of their length), that the
order of the group is prime (`EcvrfAssumption`: no product of two of its units is
0), and that nodes are keys and the routers, the requests and the absent value
differ (`DeliveryAssumption`). The theorems about them have two halves: one over
the inputs, and one over `ProbeSpec`, with the property that the run checks (of
`EcvrfSound` the second alone, whose probes are all the points and proofs).

| theorem | statement |
| --- | --- |
| `HostTypeCorrect` | `Spec => []TypeOK`, with balances in `Nat`: no transfer underflows |
| `HostOnlyNewest` | of all snapshots ever emitted for a session only the newest loads |
| `HostSettlesOnce` | an opened session is live or was settled exactly once |
| `HostPaysWithinCaps` | a session pays at most what was quoted when it was opened |
| `HostSnapshotsNeverRevive` | a commitment is always set to a snapshot never seen before |
| `HostEscrowBacked` | the host owns at least the stakes of its live sessions, whatever is minted or sent to it |
| `HostPullsOnlyOwn` | an action property: tokens leave a player only when it opens a session, acts in its own or sends them away |
| `HostVaultLossReserved` | an action property: a step takes from the vault no more than the profit it reserved |
| `HostStream` | `Spec => ChainStream`: the sessions of the host implement `SessionStream`, for every game |
| `GameImplementsHost` | `GameSpec => Spec`: the game in its host is an instance of the arbitrary game, so the theorems above hold for it |
| `GameEveryOutcomePayable` | the host accepts the outcome for every wager and byte |
| `GamePaysWhatItShows` | a settled round paid what its final state shows, a cancelled one its wager |
| `RoundsShown` | the page shows every round as the contract settled it, the payout to half the distance of two doubles, and its engine resolves the same bytes alike |
| `LayoutsReturn` | every layout returns exactly 96%, with the odds shown |
| `WagersAccepted` | a wager up to the offered limit is accepted, for any published limits, liquidity and multiplier |
| `CodecsMatch` | every session is packed alike by both codecs and read back unchanged; of any bytes the contract takes none that the page refuses, and reads each field where the page does |
| `EcvrfSound` | for every prime order: honest proofs verify, two challenges to one commitment determine the word, no proof has a second form |
| `VerdictsTrue` | a delivery is called valid only if the assigned node proved the word and the router logged it, and always if all were honest; one that cannot be read is not judged, and without the address of the router there is no verdict at all |
| `BetsPriced` | every coinflip bet, of any wager, is priced by the words that win it; the page's binomial counts the choices of k coins out of any number |
| `FeedTypeCorrect` | the feed's state keeps its types |
| `FeedDeliveredOnce` | a channel delivers a log at most once |
| `FeedLostOnlyUnstamped` | a log that the loop passed and will not deliver is one whose time stamp failed |
| `FeedReplaysInOrder` | the replay delivers in the order of the chain |
| `LedgerTypeCorrect` | the ledger and the hook keep their types |
| `LedgerTrackedHolds` | a round the host page tracks is active in the ledger, so that no reconcile adopts its payout early |
| `LedgerCountsUnacted` | a round on which no action was sent is counted right: its stakes and payout at most once each |
| `LedgerHidesUntilRevealed` | where players have no actions, a payout is in no displayed balance before its reveal |
| `LedgerCountsOnce` | where players have no actions, what is displayed is what a reconcile would read, adjusted by what is hidden |
| `GuestTypeCorrect` | the page's state keeps its types |
| `GuestRevealsOnce` | outside tangled states a session is revealed at most once |
| `GuestOneRoundLocked` | one bet at a time has the stage, and the controls are locked while it does |
| `GuestWinsRevealed` | when the controls are free, every win the page took up was revealed |
| `GuestRevealsWhatItShows` | an action property: a reveal is made only by the round on the stage |
| `StackOneRuntime` | at most one runtime follows the chain, that of the last configuration |
| `StackListsWhole` | of a file all games of one revision are listed, or none |
| `FlipShowsItsSession` | a coinflip round ends as its own session does, and is revealed exactly if its coins lie |
| `ViewTypeCorrect` | the state of the page keeps its types: whatever is shown is an item of a step that the session can have, and a confirmed bet has a row |
| `ViewStream` | `Spec => StreamSpec`: while the wallet is ready, what the page pushes implements `SessionStream` |
| `ViewResultsStay` | an action property: no pushed session vanishes, no pushed result is taken back |
| `ViewBetShownOnce` | a bet is not shown beside its session, and one reported as placed is shown |
| `ViewEchoFresh` | an action echoes a state at least as new as the one the game sees |
| `ViewConverges` | when no log was lost, all is delivered and the page has rendered, the game sees every session as the chain has it, with its word unless an event was overtaken |
| `ViewKeepsLanded` | an action property: a bet whose opening was pushed is not reported as failed |

### The argument for the host and the game

None of the host's invariants is inductive alone: that only the newest snapshot
loads needs that the stored commitment was emitted, which needs that a
continuing step emits what it commits; that caps hold at the payment needs that
they hold of every commitment. `IInv` adds `LiveWellFormed` (a commitment is of
its own id, waiting, within its caps, and was emitted) and `EmittedOpened` (there
is no snapshot of an id not yet given out). The proof first classifies what any
action does to the record of sessions: it keeps all, continues one
(`Continues`), closes one (`Closes`), or closes two (the batch of forfeits).
`StepCases` does so for the result of a game, `NextCases` for the actions, and
one lemma per case shows that `IInv` is kept.

`EscrowBacked` compares a balance with a sum over the live sessions. The sum is
stated as a cardinality, which spares the induction that a sum is defined by: a session with a stake of n has the n units `<<id, 1>>` to
`<<id, n>>`, and `Units` collects those of all. `StakesCounted` says that the
host owns at least as many tokens as there are units; to open or to close a session adds
or removes the units of one id, and the library knows the cardinality of
disjoint unions.

`HostStream` maps a session to what `SessionStream` shows of it: absent, the
phase and the step of its commitment, or over. A step is a stutter or a push by
the same classification: `Continues` raises the step, a close ends the session,
and because `SettledExactlyOnce` is part of `IInv` an ended session stays so.
`ViewStream` below proves the same of the page, so that the two halves of the
system promise a game one thing, each for itself.

For the game, `WaitingRound` says that a waiting round is as its opening left
it, and `PayoutWithinReserve` is the arithmetic of the two roundings. A settled
round therefore went from that opening to its payout in one step, which is what
`GamePaysWhatItShows` compares.

### The feed

`IInv` of `EventFeed` joins to the types, to `DeliveredOnce` and `ReplayInOrder`
what the loop's phases mean (`PhaseInv`), that a log is marked before it is
handed out and not handed out while its time stamp is asked for (`MarkedFirst`),
that the logs of all ranges the loop has passed are marked (`PassedMarked`), and
that a marked log was handed out, but for those whose time stamp failed or is
being asked for (`MarkedHanded`). The order of the mark and the time stamp, which makes a
failed log vanish, is the same that makes a second delivery impossible.

### The parts without state

The rounds, the layouts and the verdicts are settled by cases: the contract's
tables against the engine's for one preset, one band of bytes and one direction
(`RoundsAgreeAlways`), the bytes of each band counted as intervals and what they
pay as a set of pairs (`ReturnsExactAlways`), and what each check of
`verifyRequest` found means of the delivery (`ChecksMean`). `LimitAccepted` is
arithmetic of two divisions that round in opposite directions.

The other proofs need induction. The library's induction theorems take an
operator as a parameter, which the provers cannot instantiate, but the
well-foundedness of `<` is stated with a set: `Induction` takes the claim as a
set of numbers, and everything below uses it.

*The codecs.* A fold over a sequence is followed prefix by prefix: `WrittenBy`
and `FlattenedBy` say what a writer has produced after its first n fields,
`ReadBy` what a reader has taken. `FixedWritten` and `FixedRead` then give
each field of a packed session its bytes by their position, so that the offsets
written out in the contract (`SlicesIs`) can be compared with the widths the
page adds up. `EncodersAgree` is for every session, `DecodersAgree` for every
string of bytes, and `RoundTrip` for every session in the normal form of its
fields; the samples of the run are instances of them.

*Proofs of randomness.* That a product of units is no multiple of the order
(`NoDivisors`) is all that is used of primality: if two challenges are answered
from one commitment, the difference of the two equations is such a product
unless gamma is the honest one (`CommittedOnce`).

*Coinflip.* A binomial is the number of subsets of k coins. `Pascal` splits
them by the last coin, `Symmetry` takes complements, and `Absorption` gives
`(k + 1) * C(n + 1, k + 1) = (n + 1) * C(n, k)`: hence each division of the loop
of `nCk` is exact, and it ends with the binomial (`NCkCounts`). `winningWays` adds
the binomials of the numbers of heads that win (`WinningWaysCount`), which is
how many words win (`WaysAreWords`).

### The ledger

For `LedgerTrackedHolds`, `HoldInv` adds what an `openSession` relies on while it
awaits the chain: the mounted hook has opened its round under a key of its own
(`OpeningHeld`), and no round is tracked before its send is done
(`TrackedAfterSend`). Without these the reply could track a round that the
ledger has already let go of. For the counting, `CountsInv` adds that a
read which may still be adopted was asked for when no round was active
(`ReadsFresh`) and, per round without actions, that no balance counts a bet
before it was sent (`SentFirst`), that an active round's bet is in the deltas and
its payout nowhere (`ActiveUncounted`), and that a read which may be adopted
counts every payout that was credited (`ReadsCount`).

`LedgerHidesUntilRevealed` and `LedgerCountsOnce` have the hypothesis
`Actable = {}`: no round asks its player for an action, which is so of
Counterweight, whose rounds wait for randomness only, and of the instance of
`balance_ledger`. `LedgerCountsUnacted` states the same for single rounds
without that hypothesis. Where players may act the two fail, and TLC shows how:
an action sent while the `openSession` of its round is in flight tracks the
round, its reveal credits the payout, and the answer of `openSession` tracks it
once more; and a slow first read can seed the balance with a payout that the
reveal of a resumed round then adds. They are the hazards at
`balance-hold.ts:158` and `use-game-host.ts:325`.

### The guest and the coinflip page

`GuestInv` is `TypeOK`, what the world owes the page (`EnvInv`:
no result without a landed bet) and, outside tangled states, `PageInv`: one
unfinished call at most (`OneThread`), the stage belongs to the round being
played (`StageHeld`), a session that may still be taken up was neither played
nor revealed (`PlaysFresh`), and a win taken up is shown or revealed
(`WinsKept`). `PlaysFresh` is the heart: the key is cleared before the round is
played, and the recovery effect picks only sessions not shown as over. Every
step that breaks one of these sets `tangled`, and `tangled` is never reset
(`StaysTangled`). `ThreadsKept`, `FreshKept` and `TakenKept` carry the parts over
the actions that do not touch them.

`FlipIInv` of the coinflip page is its types, that the round on the stage belongs
to a bet that was made (`RoundIsOfBet`), and that a result in any snapshot, the
page's or one on the wire, is what the host has (`SeenIsPast`): snapshots may be
old, but what they say of an ended session stays true. That is why the settle
effect may take the first result it finds under the session's key.

### The local stack

`OneRuntime` needs that of the calls for a runtime under way only the one of the
latest effect is not cancelled, and is for the applied configuration
(`CallsOfEffects`). `ListedWhole` needs that each entry of the watcher is whole, that
of a sync in turn what was deployed so far is of one file and one revision
(`WatcherWhole`), and the same of each file in what was written (`ListedInv`).

### The view

`ViewIInv` holds, besides the types, that a snapshot has one item per session at
most, which is the published one (`PublishedOf`); that the row of a bet stays
until its session is published (`BetsInv`); that what a game may act on is in
the patch or in the listed row (`EchoInv`); and that a pushed opening is
remembered until the hash of its bet is known (`OpensInv`). `ViewResultsStay`,
`ViewBetShownOnce`, `ViewEchoFresh` and `ViewKeepsLanded` each follow from one of
them. `ViewTypeCorrect` adds the types of what is shown, action by action. `EchoInv` is kept by the prune because a caught-up row is at the patch's
step.

The refinement `ViewStream` needs more, since "forward" compares an item with the
one before it and both are computed from rows and patches. `StreamInv` adds a
measure, the `Level` that a row and its patch together reach, and that no item
shown is beyond it (`WatchedOf`); that a published session stays known
(`PublishedKnown`, `ConfirmedOpen`); and that two claims of one waiting step, in
a row, a patch, an item or a queued event, name the same phase (`ClaimsAgree`).
Every step keeps or raises the level: events by `Evolved` and `Patched`, the
prune because it drops only patches that the row has caught up with. An initial
state maps to the empty stream, and each step of `Next` to a step of
`SessionStream` or a stutter.

`ViewConverges` compares the page with the chain, so its invariant follows every
event from the log to the item. `ArrivesInv` has three parts. `ChainAhead`: no
row, patch or queued event is further than the chain, and one that is as far
names the phase the chain is in. `RowFollows`: unless the feed lost a log, the
indexed queue holds the event that takes a row to where the chain is. And, for
the random words, `WordsInv`, unless an event was overtaken as well: a queue has
the events of a session in their order and none is missing after the first
(`QueueInv`), a row has every word under the step that asked for it
(`RowWords`), and a patch answers no step but the word's own (`PatchWord`). The
last needs a detail of `Patched`: a settlement's word goes to the request the
patch remembers, which is the right one only because a settlement that carries a
word ends a step that waited for randomness. With the queues empty, the
row is where the chain is, the patch is not beyond it, no published result
replaces what they project, and every known word stands under its own number, so
that the largest is the latest.

### Only model-checked

Every safety invariant and every action property that the runs check is stated by
a theorem above. The liveness properties (`RoundsEnd`, `LogsArrive`, `Reconciles`,
`RoundsComplete`, `StackComesUp`, `RoundsFinish`) stay with TLC: the prover has no
rules for fairness and `ENABLED`. The four violations of section 6 are
counterexamples, which only a run can show.

## 6. Disagreements found

* `event_feed_lost`: the polling loop marks a log as seen before it awaits the
  time stamp of its block. If that look-up fails, the retried range skips the
  log, where the comment says that nothing is lost (`session-events.ts:234`).
* `guest_cancelled`: a cancelled round pays its stake back, but its state does
  not decode, and the page leaves without `revealOutcome` (`App.tsx:215-219`).
* `guest_replay`: the recovery effect adopts a bet whose `openSession` is still
  awaited; if the round ends first, the reply makes the page play and reveal it
  again (`App.tsx:253`).
* `session_view_wallet`: the comment of `reconcileMonotonicSessionItems` promises
  that no published round goes back even when the projected list regresses. When
  the wallet status leaves `ready` that list is empty, the patches are pruned,
  and the row of the bet comes back as waiting without a state: only settled
  items are held (`monotonic-session-items.ts:63`). `ResultsStay` says what does
  hold then, and `StreamSpec` that the promise holds while the wallet is ready.

Met while modelling, without a run: a round of the offset or wild layout in its
recovery band can have a moment within ±22, for which the page shows "IN SAFE
ZONE", and pays only the recovery tier, where the test of the engine is titled
"a final moment in the safe zone earns the top payout tier"; a second
`openSession` removes the row of a bet whose session has only been opened in the
store, so that its item shows the phase NONE for a moment
(`use-game-host.ts:232`, against `optimistic-casino-session.ts:83`); a settlement
pushed after its patch was pruned shows an earlier word as the latest
(`flashblock-session-patch.ts:128`); `computeMaxWager`, "the highest wager
`openSession` accepts", can be one unit short of it (`bet-limits.ts:31`), because
the check it mirrors rounds the payout down.

Met in the simulator and the example, without a run: the page starts a runtime
from the first `deployed.json` it reads and never again, so one that an earlier
boot left makes the start fail, where the comment promises to "start the harness
automatically" (`simulator/src/App.tsx:63-66`); a cancelled coinflip round pays
its stake back, has no word in its state, and is therefore shown with the faces
of a win (`coinflip.ts:89`, since the payout is not zero); a phase beyond the last
is refused by the contract's decoder and passed by the page's
(`casino-session-codec.ts:124`); a contract that an edited file is imported by is
not compiled again (`game-contracts.ts:138`), where the head of the file says that
edited files "go live without a restart"; a file that changes during the first
scan, after it was read, waits for the next change (`game-contracts.ts:162`).

Met while modelling, and recorded as hazards without a property: a slow first
read of the balance shows a payout early (`balance-hold.ts:158`); an
`openSession` in flight at an unmount leaves its round active
(`use-game-host.ts:265`); an action that is sent before `openSession` returned
leaves the key `resume` active for good, since the answer puts the key of the
opening in its place (`use-game-host.ts:325-330`, `:265`), so that no reconcile
comes until the account changes, where the head of `balance-hold.ts` (lines
15-17) says that one follows once no round is ongoing; a failed start on a live
chain is not tried again (`simulator/src/App.tsx:128`); a late failure of an action puts a stake back twice
(`use-game-host.ts:348`); a page reloaded during a bet's placeholder recovers
the placeholder and waits for ever (`App.tsx:131`).

## 7. Plan

Done, in this order: `CasinoHost` and its proofs, `Counterweight`, `Engine`,
`CounterweightGame` and its proofs, `EventFeed`, `BalanceLedger`, `Guest`, the
proofs of the last two, `SessionStream` and `SessionView`, `BetLimits`,
`SessionCodec`, `Ecvrf`, `RandomnessVerification`, `Coinflip`, `GameContracts`,
`LocalStack`, `CoinflipGuest`, the remaining proofs of the host, the game and the
ledger, those of the feed, the local stack, the coinflip page and the view, the
refinement of `SessionStream` by the host, and, with `StatelessParts`, the proofs
of all parts without state.

Next:

1. `Guest` and `CoinflipGuest` over the sessions of `SessionStream` instead of
   environments of their own, so that both halves of the page meet in one
   abstract specification.
2. The bounds of the maps of `use-game-host.ts`, `maskMidRoundWaiting`, and a
   change of the account in the ledger.

Not modelled: hash functions and curve arithmetic (taken as injective or as a
group), the contract of the coinflip example (compiled only), the connection
library, forms, layout, sound, the development trace (it warns of what
`SessionStream` and `ResultsStay` state), generated artifacts. PROJECT.json gives
the reason for each part.

Details of modelled parts that are left out: in the feed, a log that does not
decode or a listener that throws (`session-events.ts:87`, `:157`); in the view,
the time between the send of an action and its receipt, an action that fails, the
flag `randomnessFulfilled` as a substitute for a missing request when a row
catches up, and the change from NONE to WAITING in an item of step 0, both of
which `StreamOf` shows as OPEN; in the watcher, the time between a game's
deployment and its registration (a failure between them is there: `DeployFails`
may leave a deployment behind); in the coinflip page, the branches for a
cancelled session without a state (`App.tsx:90-94`) and for a row without a payout
(`:105`), which this host does not produce. Doubles near a payout are taken to be
one distance apart (`Grain`), where smaller ones are closer.

---------------------------- MODULE BalanceLedger ----------------------------
(***************************************************************************)
(* The balance the casino page displays while games play: the module-level *)
(* ledger (balance-hold.ts), the hook that follows rounds through it       *)
(* (use-round-ledger.ts) and the host methods that drive both: openSession,*)
(* submitAction and revealOutcome of use-game-host.ts.  The game is any    *)
(* guest: it opens rounds, acts in them and reveals them when it likes.    *)
(*                                                                         *)
(* A balance is represented by what it counts (relative to the initial     *)
(* one): the bets, extra stakes and payouts of which rounds.  Reading the  *)
(* chain takes time, so what an answer counts is fixed between the call    *)
(* and its return.  The ledger outlives the hook, which may unmount (the   *)
(* frame goes away) while its calls are in flight, and mount again.        *)
(***************************************************************************)
EXTENDS Integers, FiniteSetsExt

CONSTANTS
  Rounds,        \* the rounds the page may open
  Actable,       \* those whose game lets the player act
  Stake,         \* the wager of a round
  Extra,         \* the stake that an action adds
  Payouts,       \* what a round may pay
  Unknown,       \* undefined
  Asked,         \* a call that was not answered yet
  ReadsFail,     \* whether reads of the chain may fail
  MaxUnmounts    \* bound: how often the frame goes away

View == [bets : SUBSET Rounds, extras : SUBSET Rounds, pays : SUBSET Rounds]
Deltas == [bets : SUBSET Rounds, extras : SUBSET Rounds, pays : SUBSET Rounds,
           twice : SUBSET Rounds, unfounded : SUBSET Rounds]
Keys == {"open", "resume"} \X Rounds

ASSUME LedgerAssumption ==
  /\ Actable \subseteq Rounds
  /\ Stake \in Nat \ {0} /\ Extra \in Nat \ {0} /\ Payouts \subseteq Nat
  /\ Unknown # Asked /\ Unknown \notin View /\ Asked \notin View
  /\ ReadsFail \in BOOLEAN /\ MaxUnmounts \in Nat

VARIABLES
  chain,        \* per round: none, live or over
  payout,       \* what a round that is over paid
  topped,       \* rounds whose extra stake left the wallet
  send,         \* the openSession call of a round
  act,          \* its submitAction call
  active,       \* activeRounds
  baseline,     \* the last adopted balance
  adjustment,   \* deltas since: [bets, extras, pays]; payouts it added twice,
                \* and stakes it put back but had not taken off
  epoch,        \* bumped on every bet
  timer,        \* whether reconcileTimer is set
  reads,        \* reconcile reads in flight: [epoch, view]
  mounted,      \* whether the hook is mounted
  mine,         \* rounds opened through the mounted hook
  tracked,      \* trackedRoundsRef: none, or the kind of the round's key
  pending,      \* pendingRevealRef
  raw,          \* rawBalance
  rawRead,      \* the first read of the mounted hook
  rows,         \* rounds whose settled row was indexed
  patched,      \* rounds whose settlement the fast channel delivered
  changed,      \* whether the settle effect is due
  unmounts,     \* history: how often the hook unmounted
  reconciled,   \* history: whether the baseline came from a reconcile
  credited      \* history: rounds whose payout was credited at a reveal

chainVars == <<chain, payout, topped>>
holdVars == <<active, adjustment, epoch, timer>>
baseVars == <<baseline, reconciled>>
hookVars == <<mounted, mine, raw, rawRead, unmounts>>
roundVars == <<tracked, pending, credited>>
feedVars == <<rows, patched, changed>>
vars == <<chainVars, send, act, holdVars, baseVars, reads, hookVars, roundVars,
          feedVars>>

NoView == [bets |-> {}, extras |-> {}, pays |-> {}]
NoDeltas == [bets |-> {}, extras |-> {}, pays |-> {}, twice |-> {},
             unfounded |-> {}]

OnChain ==
  [bets |-> {r \in Rounds : chain[r] # "none"}, extras |-> topped,
   pays |-> {r \in Rounds : chain[r] = "over"}]

\* What the adjustment adds up to.
Worth(adj) ==
  MapThenSumSet(LAMBDA r : payout[r], adj.pays)
    + MapThenSumSet(LAMBDA r : payout[r], adj.twice)
    + Extra * Cardinality(adj.unfounded)
    - Stake * Cardinality(adj.bets) - Extra * Cardinality(adj.extras)

Init ==
  /\ chain = [r \in Rounds |-> "none"] /\ payout = [r \in Rounds |-> 0]
  /\ topped = {}
  /\ send = [r \in Rounds |-> "idle"] /\ act = [r \in Rounds |-> "idle"]
  /\ active = {} /\ baseline = Unknown /\ adjustment = NoDeltas
  /\ epoch = 0 /\ timer = FALSE /\ reads = {}
  /\ mounted = TRUE /\ mine = {} /\ raw = Unknown /\ rawRead = Asked
  /\ tracked = [r \in Rounds |-> "none"] /\ pending = {} /\ credited = {}
  /\ rows = {} /\ patched = {} /\ changed = FALSE
  /\ unmounts = 0 /\ reconciled = FALSE

-----------------------------------------------------------------------------
\* balance-hold.ts

\* Mutant: the round is not counted as active.
BetNotHeld(key, adj) ==
  /\ epoch' = epoch + 1
  /\ timer' = FALSE
  /\ active' = active
  /\ adjustment' = adj
BetPlaced(key, adj) ==
  /\ epoch' = epoch + 1
  /\ timer' = FALSE
  /\ active' = active \cup {key}
  /\ adjustment' = adj

\* roundRevealed and roundClosed of several rounds: the last one that leaves
\* no round active schedules the reconcile.
\* Mutants: no end of a round schedules a reconcile; one ends them all.
RoundsEndQuietly(keys, adj) ==
  /\ active' = active \ keys
  /\ adjustment' = adj
  /\ UNCHANGED <<epoch, timer>>
RoundsEndAlike(keys, adj) ==
  /\ active' = IF active \cap keys # {} THEN {} ELSE active
  /\ timer' = (timer \/ active \cap keys # {})
  /\ adjustment' = adj
  /\ UNCHANGED epoch
RoundsEnd(keys, adj) ==
  /\ active' = active \ keys
  /\ timer' = (timer \/ (active \cap keys # {} /\ active \ keys = {}))
  /\ adjustment' = adj
  /\ UNCHANGED epoch

Debit(adj, r) == [adj EXCEPT !.bets = @ \cup {r}]
DebitExtra(adj, r) == [adj EXCEPT !.extras = @ \cup {r}]
Credit(adj, rs) == [adj EXCEPT !.pays = @ \cup rs,
                               !.twice = @ \cup (adj.pays \cap rs)]
RefundStake(adj, r) == [adj EXCEPT !.bets = @ \ {r}]
\* A reconcile may have replaced the debit by then.
RefundExtra(adj, r) ==
  IF r \in adj.extras THEN [adj EXCEPT !.extras = @ \ {r}]
                      ELSE [adj EXCEPT !.unfounded = @ \cup {r}]

\* The timer's callback: runReconcile up to its await.
TimerFires ==
  /\ timer
  /\ timer' = FALSE
  /\ reads' = IF active = {} /\ mounted
              THEN reads \cup {[epoch |-> epoch, view |-> Unknown]} ELSE reads
  /\ UNCHANGED <<chainVars, send, act, active, adjustment, epoch, baseVars,
                 hookVars, roundVars, feedVars>>

ReadAnswers(read) ==
  /\ read.view = Unknown
  /\ reads' = (reads \ {read}) \cup {[read EXCEPT !.view = OnChain]}
  /\ UNCHANGED <<chainVars, send, act, holdVars, baseVars, hookVars, roundVars,
                 feedVars>>

ReadFails(read) ==
  /\ ReadsFail
  /\ reads' = reads \ {read}
  /\ UNCHANGED <<chainVars, send, act, holdVars, baseVars, hookVars, roundVars,
                 feedVars>>

\* Mutant: only running rounds void a read, not those that came and went.
AdoptedIfIdle(read) == active = {}
Adopted(read) == read.epoch = epoch /\ active = {}

ReadReturns(read) ==
  /\ read.view # Unknown
  /\ reads' = reads \ {read}
  /\ IF Adopted(read)
     THEN baseline' = read.view /\ adjustment' = NoDeltas /\ reconciled' = TRUE
     ELSE UNCHANGED <<baseline, adjustment, reconciled>>
  /\ UNCHANGED <<chainVars, send, act, active, epoch, timer, hookVars,
                 roundVars, feedVars>>

\* useLedgeredBalance: a render with a first read seeds the baseline.
Seed ==
  /\ mounted /\ baseline = Unknown /\ raw # Unknown
  /\ active = {} /\ Worth(adjustment) = 0
  /\ baseline' = raw
  /\ UNCHANGED <<chainVars, send, act, holdVars, reconciled, reads, hookVars,
                 roundVars, feedVars>>

-----------------------------------------------------------------------------
\* The mounted hook.

RawAnswers ==
  /\ rawRead = Asked
  /\ rawRead' \in {OnChain} \cup (IF ReadsFail THEN {Unknown} ELSE {})
  /\ UNCHANGED <<chainVars, send, act, holdVars, baseVars, reads, mounted, mine,
                 raw, unmounts, roundVars, feedVars>>

RawReturns ==
  /\ rawRead \notin {Asked, Unknown}
  /\ raw' = rawRead
  /\ rawRead' = Unknown
  /\ UNCHANGED <<chainVars, send, act, holdVars, baseVars, reads, mounted, mine,
                 unmounts, roundVars, feedVars>>

Mount ==
  /\ ~mounted
  /\ mounted' = TRUE
  /\ rawRead' = Asked
  /\ UNCHANGED <<chainVars, send, act, holdVars, baseVars, reads, mine, raw,
                 unmounts, roundVars, feedVars>>

Tracked == {r \in Rounds : tracked[r] # "none"}
KeyOf(r) == <<tracked[r], r>>

\* Every round the hook tracks is closed; what it has sent goes on.
Unmount ==
  /\ mounted /\ unmounts < MaxUnmounts
  /\ unmounts' = unmounts + 1
  /\ mounted' = FALSE
  /\ RoundsEnd({KeyOf(r) : r \in Tracked}, adjustment)
  /\ tracked' = [r \in Rounds |-> "none"]
  /\ pending' = {} /\ mine' = {} /\ raw' = Unknown /\ rawRead' = Unknown
  /\ patched' = {} /\ changed' = FALSE
  /\ UNCHANGED <<chainVars, send, act, baseVars, reads, rows, credited>>

-----------------------------------------------------------------------------
\* openSession, up to the send ...
Open(r) ==
  /\ mounted
  /\ send[r] = "idle"
  /\ send' = [send EXCEPT ![r] = "sending"]
  /\ mine' = mine \cup {r}
  /\ BetPlaced(<<"open", r>>, Debit(adjustment, r))
  /\ UNCHANGED <<chainVars, act, baseVars, reads, mounted, raw, rawRead,
                 unmounts, roundVars, feedVars>>

\* ... when it succeeds, or fails to report a bet that the fast channel has
\* shown to be on the chain; a hook that is gone tracks it in vain ...
OpenSucceeds(r) ==
  /\ send[r] = "sending" /\ chain[r] # "none"
  /\ send' = [send EXCEPT ![r] = "done"]
  /\ tracked' = IF r \in mine THEN [tracked EXCEPT ![r] = "open"] ELSE tracked
  /\ UNCHANGED <<chainVars, act, holdVars, baseVars, reads, hookVars, pending,
                 credited, feedVars>>

\* ... and when it fails, whether or not the bet lands.
OpenFails(r) ==
  /\ send[r] = "sending"
  /\ send' = [send EXCEPT ![r] = "failed"]
  /\ RoundsEnd({<<"open", r>>}, RefundStake(adjustment, r))
  /\ UNCHANGED <<chainVars, act, baseVars, reads, hookVars, roundVars, feedVars>>

\* submitAction: a round of an earlier page load is tracked from here on.
\* Bound: one action per round.
Submit(r, extra) ==
  LET key == IF tracked[r] = "none" THEN <<"resume", r>> ELSE KeyOf(r)
      adj == IF extra THEN DebitExtra(adjustment, r) ELSE adjustment
  IN /\ mounted /\ r \in Actable
     /\ chain[r] # "none" /\ act[r] = "idle"
     /\ act' = [act EXCEPT ![r] = IF extra THEN "extra" ELSE "plain"]
     /\ tracked' = [tracked EXCEPT ![r] = key[1]]
     /\ IF extra \/ tracked[r] = "none" THEN BetPlaced(key, adj)
                                       ELSE UNCHANGED holdVars
     /\ UNCHANGED <<chainVars, send, baseVars, reads, hookVars, pending,
                    credited, feedVars>>

SubmitSucceeds(r) ==
  /\ act[r] = "plain" \/ (act[r] = "extra" /\ r \in topped)
  /\ act' = [act EXCEPT ![r] = "done"]
  /\ UNCHANGED <<chainVars, send, holdVars, baseVars, reads, hookVars, roundVars,
                 feedVars>>

SubmitFails(r) ==
  /\ act[r] \in {"plain", "extra"}
  /\ act' = [act EXCEPT ![r] = "failed"]
  /\ adjustment' = IF act[r] = "extra" THEN RefundExtra(adjustment, r) ELSE adjustment
  /\ UNCHANGED <<chainVars, send, active, epoch, timer, baseVars, reads, hookVars,
                 roundVars, feedVars>>

\* endRound with the payout.
Revealed(rs) ==
  LET keys == {KeyOf(r) : r \in rs}
      paid == {r \in rs : KeyOf(r) \in active}
  IN /\ RoundsEnd(keys, Credit(adjustment, paid))
     /\ tracked' = [r \in Rounds |-> IF r \in rs THEN "none" ELSE tracked[r]]
     /\ pending' = pending \ rs
     /\ credited' = credited \cup paid

\* revealOutcome
Reveal(r) ==
  /\ mounted /\ r \in Tracked
  /\ IF r \in rows \cup patched
     THEN Revealed({r})
     ELSE pending' = pending \cup {r} /\ UNCHANGED <<holdVars, tracked, credited>>
  /\ UNCHANGED <<chainVars, send, act, baseVars, reads, hookVars, feedVars>>

\* The effect on a change of the rows: a settled round that was revealed early
\* is credited now, a lost one is closed, a win waits for its reveal.
SettleEffect ==
  LET over == {r \in Tracked \cap rows : r \in pending \/ payout[r] = 0}
      early == over \cap pending
      paid == {r \in early : KeyOf(r) \in active}
  IN /\ mounted /\ changed
     /\ changed' = FALSE
     /\ RoundsEnd({KeyOf(r) : r \in over}, Credit(adjustment, paid))
     /\ tracked' = [r \in Rounds |-> IF r \in over THEN "none" ELSE tracked[r]]
     /\ pending' = pending \ over
     /\ credited' = credited \cup paid
     /\ UNCHANGED <<chainVars, send, act, baseVars, reads, hookVars, rows, patched>>

-----------------------------------------------------------------------------
\* The chain and the two channels.

\* A transaction may be mined after the page gave up on it.
Land(r) ==
  /\ send[r] \in {"sending", "failed"} /\ chain[r] = "none"
  /\ chain' = [chain EXCEPT ![r] = "live"]
  /\ UNCHANGED <<payout, topped, send, act, holdVars, baseVars, reads, hookVars,
                 roundVars, feedVars>>

ExtraLands(r) ==
  /\ act[r] \in {"extra", "failed"} /\ chain[r] = "live" /\ r \notin topped
  /\ topped' = topped \cup {r}
  /\ UNCHANGED <<chain, payout, send, act, holdVars, baseVars, reads, hookVars,
                 roundVars, feedVars>>

Settle(r, p) ==
  /\ chain[r] = "live"
  /\ chain' = [chain EXCEPT ![r] = "over"]
  /\ payout' = [payout EXCEPT ![r] = p]
  /\ UNCHANGED <<topped, send, act, holdVars, baseVars, reads, hookVars,
                 roundVars, feedVars>>

\* Rows also change for other reasons than the settlement of r.
RowArrives(r) ==
  /\ chain[r] = "over" /\ r \notin rows
  /\ rows' = rows \cup {r}
  /\ changed' = mounted
  /\ UNCHANGED <<chainVars, send, act, holdVars, baseVars, reads, hookVars,
                 roundVars, patched>>

RowsChange ==
  /\ mounted /\ ~changed
  /\ changed' = TRUE
  /\ UNCHANGED <<chainVars, send, act, holdVars, baseVars, reads, hookVars,
                 roundVars, rows, patched>>

PatchArrives(r) ==
  /\ mounted /\ chain[r] = "over" /\ r \notin patched
  /\ patched' = patched \cup {r}
  /\ UNCHANGED <<chainVars, send, act, holdVars, baseVars, reads, hookVars,
                 roundVars, rows, changed>>

Next ==
  \/ TimerFires \/ Seed \/ RawAnswers \/ RawReturns \/ Mount \/ Unmount
  \/ SettleEffect \/ RowsChange
  \/ \E read \in reads : ReadAnswers(read) \/ ReadFails(read) \/ ReadReturns(read)
  \/ \E r \in Rounds :
       \/ Open(r) \/ OpenSucceeds(r) \/ OpenFails(r)
       \/ \E extra \in BOOLEAN : Submit(r, extra)
       \/ SubmitSucceeds(r) \/ SubmitFails(r) \/ Reveal(r)
       \/ Land(r) \/ ExtraLands(r) \/ RowArrives(r) \/ PatchArrives(r)
       \/ \E p \in Payouts : Settle(r, p)

Spec == Init /\ [][Next]_vars

\* Timers fire, reads return, calls end, rounds settle and reach the page, and
\* the game reveals what it has seen settle (a reveal before the answer of
\* openSession names no round of the hook, and is followed by another).
FairSpec ==
  /\ Spec
  /\ WF_vars(TimerFires) /\ WF_vars(SettleEffect)
  /\ WF_vars(\E read \in reads : ReadAnswers(read) \/ ReadReturns(read))
  /\ \A r \in Rounds :
       /\ WF_vars(OpenSucceeds(r) \/ OpenFails(r))
       /\ WF_vars(SubmitSucceeds(r) \/ SubmitFails(r))
       /\ WF_vars(\E p \in Payouts : Settle(r, p))
       /\ WF_vars(RowArrives(r)) /\ WF_vars(r \in rows /\ Reveal(r))

-----------------------------------------------------------------------------
TypeOK ==
  /\ chain \in [Rounds -> {"none", "live", "over"}]
  /\ payout \in [Rounds -> Payouts \cup {0}]
  /\ topped \subseteq Rounds
  /\ send \in [Rounds -> {"idle", "sending", "done", "failed"}]
  /\ act \in [Rounds -> {"idle", "plain", "extra", "done", "failed"}]
  /\ active \subseteq Keys
  /\ baseline \in View \cup {Unknown}
  /\ adjustment \in Deltas
  /\ epoch \in Nat /\ timer \in BOOLEAN
  /\ reads \subseteq [epoch : Nat, view : View \cup {Unknown}]
  /\ mounted \in BOOLEAN /\ mine \subseteq Rounds
  /\ raw \in View \cup {Unknown} /\ rawRead \in View \cup {Unknown, Asked}
  /\ tracked \in [Rounds -> {"none", "open", "resume"}]
  /\ pending \subseteq Rounds /\ credited \subseteq Rounds
  /\ rows \subseteq Rounds /\ patched \subseteq Rounds /\ changed \in BOOLEAN
  /\ unmounts \in Nat /\ reconciled \in BOOLEAN

\* The balance never shows the payout of a round that the game has not
\* revealed: neither a reconcile nor the first read lets it into the baseline,
\* and no credit comes early.  (activeRounds against runReconcile.)
HiddenOf(r) ==
  baseline # Unknown /\ tracked[r] = "open" => r \notin baseline.pays \cup adjustment.pays
HiddenUntilRevealed == \A r \in Rounds : HiddenOf(r)

\* A round the hook tracks is active, so no reconcile can adopt a balance that
\* spoils it: trackRound and endRound never part from betPlaced and roundClosed.
TrackedHolds == \A r \in Tracked : KeyOf(r) \in active

\* What the proof of TrackedHolds needs besides: the round of an openSession
\* that the mounted hook awaits is active, under a key that nothing tracks yet.
OpeningHeld == \A r \in mine : send[r] = "sending" => <<"open", r>> \in active
TrackedAfterSend == \A r \in Rounds : tracked[r] = "open" => send[r] = "done"
HoldInv ==
  /\ send \in [Rounds -> {"idle", "sending", "done", "failed"}]
  /\ tracked \in [Rounds -> {"none", "open", "resume"}]
  /\ mine \subseteq Rounds
  /\ OpeningHeld
  /\ TrackedAfterSend
  /\ TrackedHolds

\* After a reconcile the display counts everything exactly once: no bet or
\* payout is both in the adopted balance and in the deltas, the bet of every
\* running round is in one of them, and so is every payout that was credited.
\* A read that is older than a bet would break this.  (The epoch counter.)
CountedOf(r) ==
  reconciled =>
    /\ r \notin baseline.bets \cap adjustment.bets
    /\ r \notin baseline.pays \cap adjustment.pays
    /\ tracked[r] = "open" => r \in baseline.bets \cup adjustment.bets
    /\ r \in credited => r \in baseline.pays \cup adjustment.pays
CountedOnce == \A r \in Rounds : CountedOf(r)

\* What the proofs of the two need besides, of the rounds in which no action is
\* possible.  Nothing a balance counts was never sent; an active round's bet is
\* in the deltas and its payout nowhere, since no read can be adopted while it
\* is active; a read that may still be adopted started when no round was
\* active, and counts every payout that was credited.
Unacted == Rounds \ Actable
CountsSent(view, r, sent) ==
  view \notin {Unknown, Asked} /\ r \in view.bets \cup view.pays => sent
SentFirst(r) ==
  /\ send[r] = "idle" => chain[r] = "none" /\ r \notin adjustment.pays
  /\ CountsSent(baseline, r, send[r] # "idle")
  /\ CountsSent(raw, r, send[r] # "idle")
  /\ CountsSent(rawRead, r, send[r] # "idle")
  /\ \A read \in reads : CountsSent(read.view, r, send[r] # "idle")
ActiveUncounted(r) ==
  <<"open", r>> \in active =>
    /\ r \in adjustment.bets \ adjustment.pays
    /\ baseline # Unknown => r \notin baseline.pays
ReadsCount(r) ==
  \A read \in reads :
    read.epoch = epoch /\ read.view # Unknown /\ r \in credited => r \in read.view.pays
RoundInv(r) ==
  /\ tracked[r] # "resume"
  /\ SentFirst(r) /\ ActiveUncounted(r) /\ ReadsCount(r)
  /\ r \in credited \cup rows \cup patched => chain[r] = "over"
  /\ CountedOf(r)
ReadsFresh ==
  \A read \in reads : read.epoch <= epoch /\ (read.epoch = epoch => active = {})
CountsInv ==
  /\ HoldInv
  /\ epoch \in Nat
  /\ adjustment \in Deltas
  /\ chain \in [Rounds -> {"none", "live", "over"}]
  /\ topped \subseteq Rounds
  /\ reads \subseteq [epoch : Nat, view : View \cup {Unknown}]
  /\ raw # Asked /\ baseline # Asked
  /\ reconciled => baseline # Unknown
  /\ ReadsFresh
  /\ \A r \in Unacted : RoundInv(r)

\* An action that was sent before openSession answered tracks its round under a
\* key of its own.  The answer overwrites the key, and no end of the round takes
\* the old one out of activeRounds again.
Overtaken(r) == <<"resume", r>> \in active /\ tracked[r] # "resume"

\* Once a round was sent, the display comes to the balance on the chain: every
\* key that enters activeRounds leaves it, and the last one to leave schedules
\* a reconcile.  Four exceptions, which the code does not handle: an action that
\* overtakes the answer of openSession (after it no reconcile ever comes), a bet
\* that lands after the page believed it failed, an action that fails (no
\* reconcile need follow its refund), and, outside of this run, a read that
\* fails or a frame that goes away, after which nobody reads again before the
\* next round ends.
Undisturbed ==
  /\ \E r \in Rounds : send[r] # "idle"
  /\ \A r \in Rounds :
       /\ ~Overtaken(r)
       /\ send[r] = "failed" => chain[r] = "none"
       /\ act[r] # "failed"
ShowsChain == baseline = OnChain /\ adjustment = NoDeltas
Reconciles == Undisturbed ~> (ShowsChain \/ ~Undisturbed)
=============================================================================

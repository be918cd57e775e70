------------------------ MODULE BalanceLedgerProofs ------------------------
(***************************************************************************)
(* The ledger of the casino page, for every set of rounds and every        *)
(* interleaving of calls, reveals, rows, reads and unmounts: a round that  *)
(* the hook tracks keeps the ledger from reconciling (HoldInv), a payout   *)
(* stays hidden until its reveal and a reconcile counts everything once    *)
(* (CountsInv), and the deltas are deltas (TypeOK).                        *)
(*                                                                         *)
(* Only seven actions touch what HoldInv speaks of.  Three of them (the    *)
(* unmount, the settle effect and a reveal) end a set of tracked rounds,   *)
(* which is one lemma; the others are steps of openSession and             *)
(* submitAction.                                                           *)
(***************************************************************************)
EXTENDS BalanceLedger, TLAPS

held == <<send, active, tracked, mine>>

\* Init is well-typed and tracks nothing.
LEMMA InitHold == Init => HoldInv
BY DEF Init, HoldInv, OpeningHeld, TrackedAfterSend, TrackedHolds, Tracked

\* An action that touches none of the four variables keeps the invariant.
LEMMA HeldKeeps ==
  ASSUME HoldInv, UNCHANGED held
  PROVE  HoldInv'
BY DEF HoldInv, held, OpeningHeld, TrackedAfterSend, TrackedHolds, Tracked, KeyOf

\* Ending a set of tracked rounds releases their keys only: neither the key of
\* another tracked round, nor that of an openSession under way.
LEMMA EndsKeep ==
  ASSUME HoldInv, NEW rs \in SUBSET Tracked,
         active' = active \ {KeyOf(r) : r \in rs},
         tracked' = [r \in Rounds |-> IF r \in rs THEN "none" ELSE tracked[r]],
         send' = send, mine' \subseteq mine
  PROVE  HoldInv'
<1>1. rs \subseteq Rounds
  BY DEF Tracked
<1>2. tracked' \in [Rounds -> {"none", "open", "resume"}]
  BY DEF HoldInv
<1>3. OpeningHeld'
  <2>. SUFFICES ASSUME NEW r \in mine', send'[r] = "sending"
                PROVE  <<"open", r>> \in active'
    BY DEF OpeningHeld
  <2>1. r \in Rounds /\ <<"open", r>> \in active /\ tracked[r] # "open"
    BY DEF HoldInv, OpeningHeld, TrackedAfterSend
  <2>2. \A q \in rs : KeyOf(q) # <<"open", r>>
    BY <2>1 DEF KeyOf
  <2>. QED
    BY <2>1, <2>2
<1>4. TrackedAfterSend'
  BY DEF HoldInv, TrackedAfterSend
<1>5. TrackedHolds'
  <2>. SUFFICES ASSUME NEW r \in Rounds, tracked'[r] # "none"
                PROVE  <<tracked'[r], r>> \in active'
    BY DEF TrackedHolds, Tracked, KeyOf
  <2>1. r \notin rs /\ tracked'[r] = tracked[r]
    OBVIOUS
  <2>2. KeyOf(r) \in active
    BY <2>1 DEF HoldInv, TrackedHolds, Tracked
  <2>3. \A q \in rs : KeyOf(q) # KeyOf(r)
    BY <2>1 DEF KeyOf
  <2>. QED
    BY <2>1, <2>2, <2>3 DEF KeyOf
<1>. QED
  BY <1>2, <1>3, <1>4, <1>5 DEF HoldInv

-----------------------------------------------------------------------------
\* openSession makes its key active before it is the mounted hook's.
LEMMA OpenKeeps ==
  ASSUME HoldInv, NEW r \in Rounds, Open(r)
  PROVE  HoldInv'
<1>1. /\ send' = [send EXCEPT ![r] = "sending"] /\ send[r] = "idle"
      /\ mine' = mine \cup {r}
      /\ active' = active \cup {<<"open", r>>} /\ tracked' = tracked
  BY DEF Open, BetPlaced, roundVars
<1>. QED
  BY <1>1 DEF HoldInv, OpeningHeld, TrackedAfterSend, TrackedHolds, Tracked, KeyOf

\* Its success tracks the round under the key that is still active.
LEMMA OpenSucceedsKeeps ==
  ASSUME HoldInv, NEW r \in Rounds, OpenSucceeds(r)
  PROVE  HoldInv'
<1>1. /\ send[r] = "sending" /\ send' = [send EXCEPT ![r] = "done"]
      /\ tracked' = IF r \in mine THEN [tracked EXCEPT ![r] = "open"] ELSE tracked
      /\ active' = active /\ mine' = mine
  BY DEF OpenSucceeds, holdVars, hookVars
<1>2. r \in mine => <<"open", r>> \in active
  BY <1>1 DEF HoldInv, OpeningHeld
<1>. QED
  BY <1>1, <1>2 DEF HoldInv, OpeningHeld, TrackedAfterSend, TrackedHolds, Tracked,
                    KeyOf

\* Its failure ends a key under which nothing is tracked.
LEMMA OpenFailsKeeps ==
  ASSUME HoldInv, NEW r \in Rounds, OpenFails(r)
  PROVE  HoldInv'
<1>1. /\ send[r] = "sending" /\ send' = [send EXCEPT ![r] = "failed"]
      /\ active' = active \ {<<"open", r>>}
      /\ tracked' = tracked /\ mine' = mine
  BY DEF OpenFails, RoundsEnd, hookVars, roundVars
<1>2. tracked[r] # "open"
  BY <1>1 DEF HoldInv, TrackedAfterSend
<1>. QED
  BY <1>1, <1>2 DEF HoldInv, OpeningHeld, TrackedAfterSend, TrackedHolds, Tracked,
                    KeyOf

\* submitAction tracks an unknown round under a key it makes active.
LEMMA SubmitKeeps ==
  ASSUME HoldInv, NEW r \in Rounds, NEW extra \in BOOLEAN, Submit(r, extra)
  PROVE  HoldInv'
<1>. DEFINE key == IF tracked[r] = "none" THEN <<"resume", r>> ELSE KeyOf(r)
<1>1. /\ tracked' = [tracked EXCEPT ![r] = key[1]]
      /\ send' = send /\ mine' = mine
  BY DEF Submit, hookVars
<1>2. active \subseteq active' /\ (tracked[r] = "none" => key \in active')
  BY DEF Submit, BetPlaced, holdVars
<1>3. CASE tracked[r] = "none"
  <2>1. tracked' = [tracked EXCEPT ![r] = "resume"] /\ <<"resume", r>> \in active'
    BY <1>1, <1>2, <1>3
  <2>. QED
    BY <1>1, <1>2, <2>1 DEF HoldInv, OpeningHeld, TrackedAfterSend, TrackedHolds,
                            Tracked, KeyOf
<1>4. CASE tracked[r] # "none"
  <2>1. tracked' = tracked
    BY <1>1, <1>4 DEF KeyOf, HoldInv
  <2>. QED
    BY <1>1, <1>2, <2>1 DEF HoldInv, OpeningHeld, TrackedAfterSend, TrackedHolds,
                            Tracked, KeyOf
<1>. QED
  BY <1>3, <1>4

\* revealOutcome ends its round, or queues the reveal.
LEMMA RevealKeeps ==
  ASSUME HoldInv, NEW r \in Rounds, Reveal(r)
  PROVE  HoldInv'
<1>1. CASE r \in rows \cup patched
  <2>1. /\ active' = active \ {KeyOf(q) : q \in {r}}
        /\ tracked' = [q \in Rounds |-> IF q \in {r} THEN "none" ELSE tracked[q]]
        /\ send' = send /\ mine' = mine /\ {r} \in SUBSET Tracked
    BY <1>1 DEF Reveal, Revealed, RoundsEnd, hookVars
  <2>. QED
    BY <2>1, EndsKeep
<1>2. CASE r \notin rows \cup patched
  <2>1. UNCHANGED held
    BY <1>2 DEF Reveal, held, holdVars, hookVars
  <2>. QED
    BY <2>1, HeldKeeps
<1>. QED
  BY <1>1, <1>2

\* The settle effect ends the rounds whose rows say so.
LEMMA SettleEffectKeeps ==
  ASSUME HoldInv, SettleEffect
  PROVE  HoldInv'
<1>. DEFINE over == {r \in Tracked \cap rows : r \in pending \/ payout[r] = 0}
<1>1. /\ active' = active \ {KeyOf(r) : r \in over}
      /\ tracked' = [r \in Rounds |-> IF r \in over THEN "none" ELSE tracked[r]]
      /\ send' = send /\ mine' = mine /\ over \in SUBSET Tracked
  BY DEF SettleEffect, RoundsEnd, hookVars
<1>. QED
  BY <1>1, EndsKeep

\* An unmount ends them all and disowns the calls under way.
LEMMA UnmountKeeps ==
  ASSUME HoldInv, Unmount
  PROVE  HoldInv'
<1>1. /\ active' = active \ {KeyOf(r) : r \in Tracked}
      /\ tracked' = [r \in Rounds |-> "none"]
      /\ send' = send /\ mine' = {}
  BY DEF Unmount, RoundsEnd
<1>2. tracked' = [r \in Rounds |-> IF r \in Tracked THEN "none" ELSE tracked[r]]
  BY <1>1 DEF Tracked
<1>. QED
  BY <1>1, <1>2, EndsKeep

-----------------------------------------------------------------------------
\* Every step keeps the invariant.
LEMMA StepHold == HoldInv /\ [Next]_vars => HoldInv'
<1>. SUFFICES ASSUME HoldInv, [Next]_vars PROVE HoldInv'
  OBVIOUS
<1>1. CASE UNCHANGED vars
  <2>1. UNCHANGED held
    BY <1>1 DEF vars, held, holdVars, hookVars, roundVars
  <2>. QED
    BY <2>1, HeldKeeps
<1>2. CASE TimerFires \/ Seed \/ RawAnswers \/ RawReturns \/ Mount \/ RowsChange
  <2>1. UNCHANGED held
    BY <1>2 DEF held, holdVars, hookVars, roundVars, TimerFires, Seed, RawAnswers,
                RawReturns, Mount, RowsChange
  <2>. QED
    BY <2>1, HeldKeeps
<1>3. CASE \E read \in reads : ReadAnswers(read) \/ ReadFails(read) \/ ReadReturns(read)
  <2>1. UNCHANGED held
    BY <1>3 DEF held, holdVars, hookVars, roundVars, ReadAnswers, ReadFails,
                ReadReturns
  <2>. QED
    BY <2>1, HeldKeeps
<1>4. ASSUME NEW r \in Rounds,
             \/ SubmitSucceeds(r) \/ SubmitFails(r) \/ Land(r) \/ ExtraLands(r)
             \/ RowArrives(r) \/ PatchArrives(r) \/ \E p \in Payouts : Settle(r, p)
      PROVE  HoldInv'
  <2>1. UNCHANGED held
    BY <1>4 DEF held, holdVars, hookVars, roundVars, SubmitSucceeds, SubmitFails,
                Land, ExtraLands, RowArrives, PatchArrives, Settle
  <2>. QED
    BY <2>1, HeldKeeps
<1>5. CASE Unmount
  BY <1>5, UnmountKeeps
<1>6. CASE SettleEffect
  BY <1>6, SettleEffectKeeps
<1>7. ASSUME NEW r \in Rounds,
             \/ Open(r) \/ OpenSucceeds(r) \/ OpenFails(r) \/ Reveal(r)
             \/ \E extra \in BOOLEAN : Submit(r, extra)
      PROVE  HoldInv'
  BY <1>7, OpenKeeps, OpenSucceedsKeeps, OpenFailsKeeps, RevealKeeps, SubmitKeeps
<1>. QED
  BY <1>1, <1>2, <1>3, <1>4, <1>5, <1>6, <1>7 DEF Next

\* A round the hook tracks is active in the ledger, for any number of rounds,
\* whatever order openSession, submitAction, revealOutcome, the rows and the
\* unmounts come in.
THEOREM LedgerTrackedHolds == Spec => []TrackedHolds
<1>1. HoldInv => TrackedHolds
  BY DEF HoldInv
<1>. QED
  BY <1>1, InitHold, StepHold, PTL DEF Spec

-----------------------------------------------------------------------------
(***************************************************************************)
(* HiddenUntilRevealed and CountedOnce, for the rounds in which the player *)
(* cannot act.                                                             *)
(*                                                                         *)
(* CountsInv is the strengthening.  An action changes it in one of four    *)
(* ways: it ends rounds (Ends), it only moves reads and what they counted  *)
(* (the reads' lemmas), it adopts a balance, or it is the openSession of   *)
(* the round in question.                                                  *)
(***************************************************************************)

counted == <<chain, topped, send, active, baseline, adjustment, epoch, reads, raw,
             rawRead, tracked, mine, reconciled, credited, rows, patched>>

\* Init has read nothing and sent nothing.
LEMMA InitCounts == Init => CountsInv
<1>. SUFFICES ASSUME Init PROVE CountsInv
  OBVIOUS
<1>1. HoldInv
  BY InitHold
<1>2. Unknown # Asked
  BY LedgerAssumption
<1>3. ASSUME NEW r \in Unacted PROVE RoundInv(r)
  <2>1. r \in Rounds
    BY DEF Unacted
  <2>. QED
    BY <2>1 DEF Init, RoundInv, SentFirst, CountsSent, ActiveUncounted, ReadsCount,
                CountedOf, NoDeltas
<1>4. NoDeltas \in Deltas
  BY DEF NoDeltas, Deltas
<1>5. chain \in [Rounds -> {"none", "live", "over"}]
  BY DEF Init
<1>6. /\ adjustment = NoDeltas /\ epoch = 0 /\ topped = {} /\ reads = {} /\ ~reconciled
      /\ raw = Unknown /\ baseline = Unknown
  BY DEF Init
<1>. QED
  BY <1>1, <1>2, <1>3, <1>4, <1>5, <1>6 DEF CountsInv, ReadsFresh

\* A step that touches none of the variables it speaks of keeps the invariant.
LEMMA CountedKeeps ==
  ASSUME CountsInv, UNCHANGED counted
  PROVE  CountsInv'
<1>1. HoldInv'
  BY HeldKeeps DEF counted, held, CountsInv
<1>2. ASSUME NEW r \in Unacted PROVE RoundInv(r)'
  <2>1. RoundInv(r)
    BY DEF CountsInv
  <2>. QED
    BY <2>1 DEF counted, RoundInv, SentFirst, CountsSent, ActiveUncounted,
                ReadsCount, CountedOf
<1>. QED
  BY <1>1, <1>2 DEF counted, CountsInv, ReadsFresh

\* The parts of the invariant that are not about one round, while the reads and
\* what was read stay and rounds end.
LEMMA ReadsStayFresh ==
  ASSUME CountsInv, HoldInv', adjustment' \in Deltas, active' \subseteq active,
         UNCHANGED <<chain, topped, baseline, epoch, reads, raw, reconciled>>,
         \A r \in Unacted : RoundInv(r)'
  PROVE  CountsInv'
BY DEF CountsInv, ReadsFresh

-----------------------------------------------------------------------------
\* Ending tracked rounds, with a credit for some of those that were active:
\* a credited round was in the deltas as a bet, and nowhere as a payout.
LEMMA EndsCount ==
  ASSUME CountsInv, HoldInv', NEW rs \in SUBSET Tracked, NEW paid \in SUBSET rs,
         \A q \in paid : KeyOf(q) \in active /\ (q \in Unacted => chain[q] = "over"),
         active' = active \ {KeyOf(q) : q \in rs},
         adjustment' \in Deltas, adjustment'.bets = adjustment.bets,
         adjustment'.pays = adjustment.pays \cup paid,
         credited' = credited \cup paid,
         tracked' = [q \in Rounds |-> IF q \in rs THEN "none" ELSE tracked[q]],
         UNCHANGED <<chain, topped, send, baseline, epoch, reads, raw, rawRead, reconciled,
                     rows>>,
         patched' \subseteq patched
  PROVE  CountsInv'
<1>1. ASSUME NEW r \in Unacted PROVE RoundInv(r)'
  <2>1. r \in Rounds /\ RoundInv(r)
    BY <1>1 DEF CountsInv, Unacted
  <2>3. r \in paid => <<"open", r>> \in active /\ <<"open", r>> \notin active'
                      /\ chain[r] = "over" /\ active # {} /\ send[r] = "done"
    <3>. SUFFICES ASSUME r \in paid
                  PROVE  <<"open", r>> \in active /\ <<"open", r>> \notin active'
                         /\ chain[r] = "over" /\ active # {} /\ send[r] = "done"
      OBVIOUS
    <3>1. r \in rs /\ tracked[r] = "open"
      BY <2>1 DEF RoundInv, Tracked, CountsInv, HoldInv
    <3>2. KeyOf(r) = <<"open", r>>
      BY <3>1 DEF KeyOf
    <3>. QED
      BY <2>1, <3>1, <3>2 DEF CountsInv, HoldInv, TrackedAfterSend
  <2>4. tracked'[r] # "resume" /\ (tracked'[r] # "none" => tracked'[r] = tracked[r])
    BY <2>1 DEF RoundInv
  <2>5. SentFirst(r)'
    BY <2>1, <2>3 DEF RoundInv, SentFirst, CountsSent
  <2>6. ActiveUncounted(r)'
    BY <2>1, <2>3 DEF RoundInv, ActiveUncounted
  <2>7. ReadsCount(r)'
    BY <2>1, <2>3 DEF RoundInv, ReadsCount, CountsInv, ReadsFresh
  <2>8. CountedOf(r)'
    BY <2>1, <2>3, <2>4 DEF RoundInv, CountedOf, ActiveUncounted, CountsInv
  <2>9. r \in (credited \cup rows \cup patched)' => chain'[r] = "over"
    BY <2>1, <2>3 DEF RoundInv
  <2>. QED
    BY <2>4, <2>5, <2>6, <2>7, <2>8, <2>9 DEF RoundInv
<1>. QED
  BY <1>1, ReadsStayFresh

LEMMA CreditAdds ==
  ASSUME adjustment \in Deltas, NEW rs \in SUBSET Rounds
  PROVE  /\ Credit(adjustment, rs) \in Deltas
         /\ Credit(adjustment, rs).bets = adjustment.bets
         /\ Credit(adjustment, rs).pays = adjustment.pays \cup rs
BY DEF Credit, Deltas

\* A reveal credits a round whose settlement reached the page.
LEMMA RevealCounts ==
  ASSUME CountsInv, NEW r \in Rounds, Reveal(r)
  PROVE  CountsInv'
<1>1. HoldInv'
  BY RevealKeeps DEF CountsInv
<1>2. CASE r \in rows \cup patched
  <2>. DEFINE paid == {q \in {r} : KeyOf(q) \in active}
  <2>1. /\ active' = active \ {KeyOf(q) : q \in {r}}
        /\ adjustment' = Credit(adjustment, paid)
        /\ tracked' = [q \in Rounds |-> IF q \in {r} THEN "none" ELSE tracked[q]]
        /\ credited' = credited \cup paid
        /\ epoch' = epoch
    BY <1>2 DEF Reveal, Revealed, RoundsEnd
  <2>2. /\ {r} \in SUBSET Tracked /\ patched' \subseteq patched
        /\ UNCHANGED <<chain, topped, send, baseline, reads, raw, rawRead, reconciled, rows>>
    BY DEF Reveal, chainVars, baseVars, hookVars, feedVars
  <2>3. \A q \in paid : KeyOf(q) \in active /\ (q \in Unacted => chain[q] = "over")
    BY <1>2 DEF CountsInv, RoundInv
  <2>4. /\ adjustment' \in Deltas /\ adjustment'.bets = adjustment.bets
        /\ adjustment'.pays = adjustment.pays \cup paid
    BY <2>1, CreditAdds DEF CountsInv
  <2>5. paid \in SUBSET {r}
    OBVIOUS
  <2>. HIDE DEF paid
  <2>. QED
    BY <1>1, <2>1, <2>2, <2>3, <2>4, <2>5, EndsCount
<1>3. CASE r \notin rows \cup patched
  <2>1. UNCHANGED counted
    BY <1>3 DEF Reveal, counted, chainVars, baseVars, holdVars, hookVars, feedVars
  <2>. QED
    BY <2>1, CountedKeeps
<1>. QED
  BY <1>2, <1>3

\* The settle effect ends rounds whose rows are there, and credits the revealed
\* ones.
LEMMA SettleEffectCounts ==
  ASSUME CountsInv, SettleEffect
  PROVE  CountsInv'
<1>. DEFINE over == {r \in Tracked \cap rows : r \in pending \/ payout[r] = 0}
            paid == {r \in over \cap pending : KeyOf(r) \in active}
<1>1. HoldInv'
  BY SettleEffectKeeps DEF CountsInv
<1>2. /\ active' = active \ {KeyOf(q) : q \in over}
      /\ adjustment' = Credit(adjustment, paid)
      /\ tracked' = [q \in Rounds |-> IF q \in over THEN "none" ELSE tracked[q]]
      /\ credited' = credited \cup paid
      /\ epoch' = epoch
  BY DEF SettleEffect, RoundsEnd
<1>3. /\ over \in SUBSET Tracked /\ paid \in SUBSET over /\ patched' \subseteq patched
      /\ UNCHANGED <<chain, topped, send, baseline, reads, raw, rawRead, reconciled, rows>>
  BY DEF SettleEffect, chainVars, baseVars, hookVars
<1>4. \A q \in paid : KeyOf(q) \in active /\ (q \in Unacted => chain[q] = "over")
  BY DEF CountsInv, RoundInv
<1>5. paid \in SUBSET Rounds
  BY DEF Tracked
<1>6. /\ adjustment' \in Deltas /\ adjustment'.bets = adjustment.bets
      /\ adjustment'.pays = adjustment.pays \cup paid
  BY <1>2, <1>5, CreditAdds DEF CountsInv
<1>. HIDE DEF over, paid
<1>. QED
  BY <1>1, <1>2, <1>3, <1>4, <1>6, EndsCount

\* An unmount ends rounds without a credit, and forgets the first read.
LEMMA UnmountCounts ==
  ASSUME CountsInv, Unmount
  PROVE  CountsInv'
<1>1. HoldInv'
  BY UnmountKeeps DEF CountsInv
<1>2. /\ active' \subseteq active /\ adjustment' = adjustment /\ epoch' = epoch
      /\ tracked' = [r \in Rounds |-> "none"]
      /\ raw' = Unknown /\ rawRead' = Unknown /\ patched' = {}
      /\ UNCHANGED <<chain, topped, send, baseline, reconciled, reads, rows, credited>>
  BY DEF Unmount, RoundsEnd, chainVars, baseVars
<1>3. ASSUME NEW r \in Unacted PROVE RoundInv(r)'
  <2>1. r \in Rounds /\ RoundInv(r)
    BY DEF CountsInv, Unacted
  <2>. QED
    BY <1>2, <2>1 DEF RoundInv, SentFirst, CountsSent, ActiveUncounted, ReadsCount,
                      CountedOf
<1>. QED
  BY <1>1, <1>2, <1>3, LedgerAssumption DEF CountsInv, ReadsFresh

-----------------------------------------------------------------------------
\* openSession of another round or of this one: reads under way are void.
LEMMA OpenCounts ==
  ASSUME CountsInv, NEW o \in Rounds, Open(o)
  PROVE  CountsInv'
<1>1. HoldInv'
  BY OpenKeeps DEF CountsInv
<1>2. /\ send[o] = "idle" /\ send' = [send EXCEPT ![o] = "sending"]
      /\ active' = active \cup {<<"open", o>>} /\ epoch' = epoch + 1
      /\ adjustment' = Debit(adjustment, o)
      /\ UNCHANGED <<chain, topped, baseline, reconciled, reads, raw, rawRead, tracked,
                     credited, rows, patched>>
  BY DEF Open, BetPlaced, chainVars, baseVars, roundVars, feedVars
<1>3. /\ adjustment' \in Deltas /\ adjustment'.pays = adjustment.pays
      /\ adjustment'.bets = adjustment.bets \cup {o}
  BY <1>2 DEF CountsInv, Debit, Deltas
<1>4. ReadsFresh' /\ \A read \in reads : read.epoch # epoch'
  BY <1>2 DEF CountsInv, ReadsFresh
<1>5. ASSUME NEW r \in Unacted PROVE RoundInv(r)'
  <2>1. r \in Rounds /\ RoundInv(r)
    BY DEF CountsInv, Unacted
  <2>2. /\ send'[r] = IF r = o THEN "sending" ELSE send[r]
        /\ <<"open", r>> \in active' => r = o \/ <<"open", r>> \in active
    BY <1>2, <2>1 DEF CountsInv, HoldInv
  <2>3. r = o => /\ r \notin adjustment.pays
                 /\ baseline # Unknown => r \notin baseline.bets \cup baseline.pays
    BY <1>2, <2>1 DEF RoundInv, SentFirst, CountsSent, CountsInv
  <2>4. SentFirst(r)'
    BY <1>2, <1>3, <2>1, <2>2 DEF RoundInv, SentFirst, CountsSent
  <2>5. ActiveUncounted(r)'
    BY <1>2, <1>3, <2>1, <2>2, <2>3 DEF RoundInv, ActiveUncounted
  <2>6. ReadsCount(r)'
    BY <1>2, <1>4 DEF ReadsCount
  <2>7. CountedOf(r)'
    BY <1>2, <1>3, <2>1, <2>3 DEF RoundInv, CountedOf, CountsInv
  <2>. QED
    BY <1>2, <2>1, <2>4, <2>5, <2>6, <2>7 DEF RoundInv
<1>. QED
  BY <1>1, <1>2, <1>3, <1>4, <1>5 DEF CountsInv

\* Its success tracks a round that is active.
LEMMA OpenSucceedsCounts ==
  ASSUME CountsInv, NEW o \in Rounds, OpenSucceeds(o)
  PROVE  CountsInv'
<1>1. HoldInv'
  BY OpenSucceedsKeeps DEF CountsInv
<1>2. /\ send[o] = "sending" /\ send' = [send EXCEPT ![o] = "done"]
      /\ tracked' = IF o \in mine THEN [tracked EXCEPT ![o] = "open"] ELSE tracked
      /\ active' = active /\ adjustment' = adjustment /\ epoch' = epoch
      /\ UNCHANGED <<chain, topped, baseline, reconciled, reads, raw, rawRead, credited,
                     rows, patched>>
  BY DEF OpenSucceeds, holdVars, chainVars, baseVars, hookVars, feedVars
<1>3. o \in mine => <<"open", o>> \in active
  BY <1>2 DEF CountsInv, HoldInv, OpeningHeld
<1>4. ASSUME NEW r \in Unacted PROVE RoundInv(r)'
  <2>1. r \in Rounds /\ RoundInv(r)
    BY DEF CountsInv, Unacted
  <2>2. /\ send'[r] = IF r = o THEN "done" ELSE send[r]
        /\ tracked'[r] = IF r = o /\ o \in mine THEN "open" ELSE tracked[r]
    BY <1>2, <2>1 DEF CountsInv, HoldInv
  <2>3. SentFirst(r)' /\ ActiveUncounted(r)' /\ ReadsCount(r)'
    BY <1>2, <2>1, <2>2 DEF RoundInv, SentFirst, CountsSent, ActiveUncounted,
                            ReadsCount
  <2>4. CountedOf(r)'
    BY <1>2, <1>3, <2>1, <2>2 DEF RoundInv, CountedOf, ActiveUncounted
  <2>. QED
    BY <1>2, <2>1, <2>2, <2>3, <2>4 DEF RoundInv
<1>. QED
  BY <1>1, <1>2, <1>4 DEF CountsInv, ReadsFresh

\* Its failure takes back the debit of a round that is no longer active.
LEMMA OpenFailsCounts ==
  ASSUME CountsInv, NEW o \in Rounds, OpenFails(o)
  PROVE  CountsInv'
<1>1. HoldInv'
  BY OpenFailsKeeps DEF CountsInv
<1>2. /\ send[o] = "sending" /\ send' = [send EXCEPT ![o] = "failed"]
      /\ active' = active \ {<<"open", o>>} /\ epoch' = epoch
      /\ adjustment' = RefundStake(adjustment, o)
      /\ UNCHANGED <<chain, topped, baseline, reconciled, reads, raw, rawRead, tracked,
                     credited, rows, patched>>
  BY DEF OpenFails, RoundsEnd, chainVars, baseVars, hookVars, roundVars, feedVars
<1>3. /\ adjustment' \in Deltas /\ adjustment'.pays = adjustment.pays
      /\ adjustment'.bets = adjustment.bets \ {o}
  BY <1>2 DEF CountsInv, RefundStake, Deltas
<1>4. tracked[o] # "open"
  BY <1>2 DEF CountsInv, HoldInv, TrackedAfterSend
<1>5. ASSUME NEW r \in Unacted PROVE RoundInv(r)'
  <2>1. r \in Rounds /\ RoundInv(r)
    BY DEF CountsInv, Unacted
  <2>2. send'[r] = IF r = o THEN "failed" ELSE send[r]
    BY <1>2, <2>1 DEF CountsInv, HoldInv
  <2>3. SentFirst(r)' /\ ActiveUncounted(r)' /\ ReadsCount(r)'
    BY <1>2, <1>3, <2>1, <2>2 DEF RoundInv, SentFirst, CountsSent, ActiveUncounted,
                                  ReadsCount
  <2>4. CountedOf(r)'
    BY <1>2, <1>3, <1>4, <2>1 DEF RoundInv, CountedOf
  <2>. QED
    BY <1>2, <2>1, <2>3, <2>4 DEF RoundInv
<1>. QED
  BY <1>1, <1>2, <1>3, <1>5 DEF CountsInv, ReadsFresh

\* An action in a round is none in the rounds without actions: all it does to
\* them is to void the reads under way.
LEMMA SubmitCounts ==
  ASSUME CountsInv, NEW a \in Rounds, NEW extra \in BOOLEAN, Submit(a, extra)
  PROVE  CountsInv'
<1>1. HoldInv'
  BY SubmitKeeps DEF CountsInv
<1>. DEFINE key == IF tracked[a] = "none" THEN <<"resume", a>> ELSE KeyOf(a)
            adj == IF extra THEN DebitExtra(adjustment, a) ELSE adjustment
<1>2. /\ a \in Actable /\ tracked' = [tracked EXCEPT ![a] = key[1]]
      /\ UNCHANGED <<chain, topped, send, baseline, reconciled, reads, raw, rawRead,
                     credited, rows, patched>>
  BY DEF Submit, chainVars, baseVars, hookVars, feedVars
<1>3. \/ epoch' = epoch + 1 /\ active' = active \cup {key} /\ adjustment' = adj
      \/ epoch' = epoch /\ active' = active /\ adjustment' = adjustment
  BY DEF Submit, BetPlaced, holdVars
<1>4. /\ adj \in Deltas /\ adj.bets = adjustment.bets /\ adj.pays = adjustment.pays
  BY DEF CountsInv, DebitExtra, Deltas
<1>5. \A r \in Unacted : r # a /\ <<"open", r>> # key
  BY <1>2 DEF Unacted, KeyOf
<1>. HIDE DEF key, adj
<1>6. /\ adjustment' \in Deltas
      /\ adjustment'.bets = adjustment.bets /\ adjustment'.pays = adjustment.pays
  BY <1>3, <1>4 DEF CountsInv
<1>7. \A read \in reads : read.epoch = epoch' => read.epoch = epoch
  BY <1>3 DEF CountsInv, ReadsFresh
<1>8. ReadsFresh' /\ epoch' \in Nat
  BY <1>2, <1>3 DEF CountsInv, ReadsFresh
<1>9. ASSUME NEW r \in Unacted PROVE RoundInv(r)'
  <2>1. r \in Rounds /\ RoundInv(r)
    BY DEF CountsInv, Unacted
  <2>2. tracked'[r] = tracked[r] /\ (<<"open", r>> \in active' <=> <<"open", r>> \in active)
    BY <1>2, <1>3, <1>5, <2>1 DEF CountsInv, HoldInv
  <2>3. SentFirst(r)' /\ ActiveUncounted(r)'
    BY <1>2, <1>6, <2>1, <2>2 DEF RoundInv, SentFirst, CountsSent, ActiveUncounted
  <2>4. ReadsCount(r)'
    BY <1>2, <1>7, <2>1 DEF RoundInv, ReadsCount
  <2>5. CountedOf(r)'
    BY <1>2, <1>6, <2>1, <2>2 DEF RoundInv, CountedOf
  <2>. QED
    BY <1>2, <2>1, <2>2, <2>3, <2>4, <2>5 DEF RoundInv
<1>. QED
  BY <1>1, <1>2, <1>6, <1>8, <1>9 DEF CountsInv

\* Nor is its failure, which puts an extra stake back.
LEMMA SubmitFailsCounts ==
  ASSUME CountsInv, NEW a \in Rounds, SubmitFails(a)
  PROVE  CountsInv'
<1>1. HoldInv'
  BY HeldKeeps DEF CountsInv, SubmitFails, held, hookVars, roundVars
<1>2. UNCHANGED <<chain, topped, send, active, epoch, baseline, reconciled, reads, raw,
                  rawRead, tracked, credited, rows, patched>>
  BY DEF SubmitFails, chainVars, baseVars, hookVars, roundVars, feedVars
<1>3. /\ RefundExtra(adjustment, a) \in Deltas
      /\ RefundExtra(adjustment, a).bets = adjustment.bets
      /\ RefundExtra(adjustment, a).pays = adjustment.pays
  BY DEF CountsInv, RefundExtra, Deltas
<1>4. /\ adjustment' \in Deltas
      /\ adjustment'.bets = adjustment.bets /\ adjustment'.pays = adjustment.pays
  BY <1>3 DEF SubmitFails, CountsInv
<1>5. ASSUME NEW r \in Unacted PROVE RoundInv(r)'
  <2>1. RoundInv(r)
    BY DEF CountsInv
  <2>. QED
    BY <1>2, <1>4, <2>1 DEF RoundInv, SentFirst, CountsSent, ActiveUncounted,
                            ReadsCount, CountedOf
<1>. QED
  BY <1>1, <1>2, <1>4, <1>5, ReadsStayFresh

-----------------------------------------------------------------------------
\* What the chain would answer counts no round that was not sent, and every
\* payout that was credited.
LEMMA ChainCounts ==
  ASSUME CountsInv, NEW r \in Unacted
  PROVE  /\ OnChain \in View /\ OnChain # Unknown /\ OnChain # Asked
         /\ CountsSent(OnChain, r, send[r] # "idle")
         /\ r \in credited => r \in OnChain.pays
<1>1. r \in Rounds /\ RoundInv(r)
  BY DEF CountsInv, Unacted
<1>2. OnChain \in View
  BY DEF OnChain, View, CountsInv
<1>3. OnChain.bets = {q \in Rounds : chain[q] # "none"}
      /\ OnChain.pays = {q \in Rounds : chain[q] = "over"}
  BY DEF OnChain
<1>. QED
  BY <1>1, <1>2, <1>3, LedgerAssumption DEF RoundInv, SentFirst, CountsSent

\* A step that leaves the rounds and the deltas as they are and gives every read
\* under way what one of before had, or what the chain now answers.
LEMMA ReadsKeep ==
  ASSUME CountsInv,
         UNCHANGED <<chain, topped, send, active, baseline, adjustment, epoch,
                     tracked, mine, reconciled, credited, rows, patched>>,
         reads' \subseteq [epoch : Nat, view : View \cup {Unknown}],
         \A read \in reads' :
           \/ read \in reads
           \/ read.epoch = epoch /\ read.view = Unknown /\ active = {}
           \/ \E old \in reads : read.epoch = old.epoch /\ read.view = OnChain,
         raw' \in {raw, rawRead}, raw' # Asked,
         rawRead' \in {rawRead, OnChain, Unknown, Asked}
  PROVE  CountsInv'
<1>1. HoldInv'
  BY HeldKeeps DEF CountsInv, held
<1>2. ReadsFresh'
  BY DEF CountsInv, ReadsFresh
<1>3. ASSUME NEW r \in Unacted PROVE RoundInv(r)'
  <2>1. RoundInv(r)
    BY DEF CountsInv
  <2>2. /\ CountsSent(OnChain, r, send[r] # "idle")
        /\ r \in credited => r \in OnChain.pays
    BY ChainCounts
  <2>3. CountsSent(Unknown, r, send[r] # "idle") /\ CountsSent(Asked, r, send[r] # "idle")
    BY DEF CountsSent
  <2>. DEFINE ok(view) == CountsSent(view, r, send[r] # "idle")
  <2>4. ok(baseline) /\ ok(raw) /\ ok(rawRead) /\ \A read \in reads : ok(read.view)
    BY <2>1 DEF RoundInv, SentFirst
  <2>5. ok(raw') /\ ok(rawRead') /\ \A read \in reads' : ok(read.view)
    <3>. HIDE DEF ok
    <3>1. ok(OnChain) /\ ok(Unknown) /\ ok(Asked)
      BY <2>2, <2>3 DEF ok
    <3>. QED
      BY <2>4, <3>1
  <2>6. SentFirst(r)'
    BY <2>1, <2>4, <2>5 DEF RoundInv, SentFirst
  <2>7. ReadsCount(r)'
    BY <2>1, <2>2 DEF RoundInv, ReadsCount
  <2>8. ActiveUncounted(r)' /\ CountedOf(r)'
    BY <2>1 DEF RoundInv, ActiveUncounted, CountedOf
  <2>. QED
    BY <2>1, <2>6, <2>7, <2>8 DEF RoundInv
<1>. QED
  BY <1>1, <1>2, <1>3 DEF CountsInv

\* The timer starts a read only when no round is active.
LEMMA TimerCounts ==
  ASSUME CountsInv, TimerFires
  PROVE  CountsInv'
<1>. DEFINE fresh == [epoch |-> epoch, view |-> Unknown]
<1>1. /\ UNCHANGED <<chain, topped, send, active, baseline, adjustment, epoch,
                      tracked, mine, reconciled, credited, rows, patched>>
      /\ raw' = raw /\ rawRead' = rawRead
  BY DEF TimerFires, chainVars, baseVars, hookVars, roundVars, feedVars
<1>2. reads' = reads \/ (active = {} /\ reads' = reads \cup {fresh})
  BY DEF TimerFires
<1>3. fresh \in [epoch : Nat, view : View \cup {Unknown}]
      /\ fresh.epoch = epoch /\ fresh.view = Unknown
  BY DEF CountsInv
<1>. HIDE DEF fresh
<1>4. reads' \subseteq [epoch : Nat, view : View \cup {Unknown}] /\ raw # Asked
  BY <1>2, <1>3 DEF CountsInv
<1>. QED
  BY <1>1, <1>2, <1>3, <1>4, ReadsKeep

LEMMA ReadAnswersCounts ==
  ASSUME CountsInv, NEW read \in reads, ReadAnswers(read)
  PROVE  CountsInv'
<1>. DEFINE answer == [read EXCEPT !.view = OnChain]
<1>1. /\ UNCHANGED <<chain, topped, send, active, baseline, adjustment, epoch,
                      tracked, mine, reconciled, credited, rows, patched>>
      /\ raw' = raw /\ rawRead' = rawRead
  BY DEF ReadAnswers, holdVars, chainVars, baseVars, hookVars, roundVars, feedVars
<1>2. reads' = (reads \ {read}) \cup {answer}
  BY DEF ReadAnswers
<1>3. OnChain \in View
  BY DEF OnChain, View, CountsInv
<1>4. answer \in [epoch : Nat, view : View \cup {Unknown}]
      /\ answer.epoch = read.epoch /\ answer.view = OnChain
  BY <1>3 DEF CountsInv
<1>. HIDE DEF answer
<1>5. reads' \subseteq [epoch : Nat, view : View \cup {Unknown}] /\ raw # Asked
  BY <1>2, <1>4 DEF CountsInv
<1>. QED
  BY <1>1, <1>2, <1>4, <1>5, ReadsKeep

\* A balance is adopted only when nothing was active since its read began.
LEMMA ReadReturnsCounts ==
  ASSUME CountsInv, NEW read \in reads, ReadReturns(read)
  PROVE  CountsInv'
<1>1. /\ UNCHANGED <<chain, topped, send, active, epoch, tracked, mine, credited,
                      rows, patched>>
      /\ raw' = raw /\ rawRead' = rawRead /\ reads' = reads \ {read}
      /\ read.view # Unknown
  BY DEF ReadReturns, chainVars, hookVars, roundVars, feedVars
<1>2. CASE Adopted(read)
  <2>1. /\ read.epoch = epoch /\ active = {}
        /\ baseline' = read.view /\ adjustment' = NoDeltas /\ reconciled' = TRUE
    BY <1>2 DEF ReadReturns, Adopted
  <2>2. HoldInv'
    BY <1>1, HeldKeeps DEF CountsInv, held
  <2>3. read.view \in View /\ read.view # Asked /\ NoDeltas \in Deltas
    BY <1>1, LedgerAssumption DEF CountsInv, NoDeltas, Deltas
  <2>4. NoDeltas.bets = {} /\ NoDeltas.pays = {}
    BY DEF NoDeltas
  <2>5. ASSUME NEW r \in Unacted PROVE RoundInv(r)'
    <3>1. r \in Rounds /\ RoundInv(r)
      BY DEF CountsInv, Unacted
    <3>2. tracked[r] = "none"
      <4>1. r \notin Tracked
        BY <2>1 DEF CountsInv, HoldInv, TrackedHolds
      <4>. QED
        BY <3>1, <4>1 DEF Tracked
    <3>3. SentFirst(r)'
      BY <1>1, <2>1, <2>4, <3>1 DEF RoundInv, SentFirst
    <3>4. ActiveUncounted(r)'
      BY <1>1, <2>1 DEF ActiveUncounted
    <3>5. ReadsCount(r)'
      BY <1>1, <3>1 DEF RoundInv, ReadsCount
    <3>6. CountedOf(r)'
      BY <1>1, <2>1, <2>4, <3>1, <3>2 DEF RoundInv, ReadsCount, CountedOf
    <3>. QED
      BY <1>1, <3>1, <3>3, <3>4, <3>5, <3>6 DEF RoundInv
  <2>. QED
    BY <1>1, <2>1, <2>2, <2>3, <2>5 DEF CountsInv, ReadsFresh
<1>3. CASE ~Adopted(read)
  <2>1. UNCHANGED <<baseline, adjustment, reconciled>>
    BY <1>3 DEF ReadReturns
  <2>2. reads' \subseteq [epoch : Nat, view : View \cup {Unknown}] /\ raw # Asked
    BY <1>1 DEF CountsInv
  <2>. QED
    BY <1>1, <2>1, <2>2, ReadsKeep
<1>. QED
  BY <1>2, <1>3

\* The first balance is adopted when no round is active; no reconcile came yet.
LEMMA SeedCounts ==
  ASSUME CountsInv, Seed
  PROVE  CountsInv'
<1>1. HoldInv'
  BY HeldKeeps DEF Seed, CountsInv, held, holdVars, hookVars, roundVars
<1>2. /\ UNCHANGED <<chain, topped, send, active, adjustment, epoch, tracked, mine,
                      reconciled, reads, raw, rawRead, credited, rows, patched>>
      /\ baseline' = raw /\ baseline = Unknown /\ active = {}
  BY DEF Seed, holdVars, chainVars, hookVars, roundVars, feedVars
<1>3. ~reconciled
  BY <1>2 DEF CountsInv
<1>4. ASSUME NEW r \in Unacted PROVE RoundInv(r)'
  <2>1. RoundInv(r)
    BY DEF CountsInv
  <2>. QED
    BY <1>2, <1>3, <2>1 DEF RoundInv, SentFirst, ActiveUncounted, ReadsCount, CountedOf
<1>. QED
  BY <1>1, <1>2, <1>3, <1>4 DEF CountsInv, ReadsFresh

LEMMA ReadFailsCounts ==
  ASSUME CountsInv, NEW read \in reads, ReadFails(read)
  PROVE  CountsInv'
<1>1. /\ UNCHANGED <<chain, topped, send, active, baseline, adjustment, epoch,
                      tracked, mine, reconciled, credited, rows, patched>>
      /\ raw' = raw /\ rawRead' = rawRead /\ reads' = reads \ {read}
  BY DEF ReadFails, holdVars, chainVars, baseVars, hookVars, roundVars, feedVars
<1>2. reads' \subseteq [epoch : Nat, view : View \cup {Unknown}] /\ raw # Asked
  BY <1>1 DEF CountsInv
<1>. QED
  BY <1>1, <1>2, ReadsKeep

\* The first read of a mounted hook, which a mount asks for anew.
LEMMA RawCounts ==
  ASSUME CountsInv, RawAnswers \/ RawReturns \/ Mount
  PROVE  CountsInv'
<1>1. UNCHANGED <<chain, topped, send, active, baseline, adjustment, epoch,
                  tracked, mine, reconciled, credited, rows, patched, reads>>
  BY DEF RawAnswers, RawReturns, Mount, holdVars, chainVars, baseVars, roundVars,
         feedVars
<1>2. /\ raw' \in {raw, rawRead} /\ raw' # Asked
      /\ rawRead' \in {rawRead, OnChain, Unknown, Asked}
  BY DEF RawAnswers, RawReturns, Mount, CountsInv
<1>3. reads' \subseteq [epoch : Nat, view : View \cup {Unknown}]
  BY <1>1 DEF CountsInv
<1>. QED
  BY <1>1, <1>2, <1>3, ReadsKeep

-----------------------------------------------------------------------------
\* The chain and the channels only move a round forward: none, live, over, known.
LEMMA ChainStepCounts ==
  ASSUME CountsInv, NEW o \in Rounds,
         \/ Land(o) \/ ExtraLands(o) \/ RowArrives(o) \/ PatchArrives(o)
         \/ \E p \in Payouts : Settle(o, p)
  PROVE  CountsInv'
<1>1. HoldInv'
  BY HeldKeeps DEF Land, ExtraLands, RowArrives, PatchArrives, Settle, CountsInv,
                   held, holdVars, hookVars, roundVars
<1>2. UNCHANGED <<send, active, baseline, adjustment, epoch, tracked, mine,
                  reconciled, reads, raw, rawRead, credited>>
  BY DEF Land, ExtraLands, RowArrives, PatchArrives, Settle, holdVars, hookVars,
         baseVars, roundVars
<1>3. topped' \subseteq Rounds
  BY DEF Land, ExtraLands, RowArrives, PatchArrives, Settle, chainVars, CountsInv
<1>4. /\ \/ chain' = chain
         \/ chain' = [chain EXCEPT ![o] = "live"] /\ chain[o] = "none" /\ send[o] # "idle"
         \/ chain' = [chain EXCEPT ![o] = "over"] /\ chain[o] = "live"
      /\ rows' \in {rows, rows \cup {o}} /\ patched' \in {patched, patched \cup {o}}
      /\ o \in rows' \ rows \/ o \in patched' \ patched => chain'[o] = "over"
  BY DEF Land, ExtraLands, RowArrives, PatchArrives, Settle, chainVars, feedVars
<1>5. ASSUME NEW r \in Unacted PROVE RoundInv(r)'
  <2>1. r \in Rounds /\ RoundInv(r)
    BY DEF CountsInv, Unacted
  <2>2. /\ chain[r] = "over" => chain'[r] = "over"
        /\ send[r] = "idle" => chain'[r] = "none"
        /\ r \in (rows \cup patched)' => r \in rows \cup patched \/ chain'[r] = "over"
    BY <1>4, <2>1 DEF CountsInv, RoundInv, SentFirst
  <2>3. SentFirst(r)'
    BY <1>2, <2>1, <2>2 DEF RoundInv, SentFirst
  <2>4. ActiveUncounted(r)' /\ ReadsCount(r)' /\ CountedOf(r)'
    BY <1>2, <2>1 DEF RoundInv, ActiveUncounted, ReadsCount, CountedOf
  <2>5. r \in (credited \cup rows \cup patched)' => chain'[r] = "over"
    BY <1>2, <2>1, <2>2 DEF RoundInv
  <2>. QED
    BY <1>2, <2>1, <2>3, <2>4, <2>5 DEF RoundInv
<1>6. chain' \in [Rounds -> {"none", "live", "over"}]
  BY <1>4 DEF CountsInv
<1>. QED
  BY <1>1, <1>2, <1>3, <1>5, <1>6 DEF CountsInv, ReadsFresh

-----------------------------------------------------------------------------
\* Every step keeps the invariant.
LEMMA StepCounts == CountsInv /\ [Next]_vars => CountsInv'
<1>. SUFFICES ASSUME CountsInv, [Next]_vars PROVE CountsInv'
  OBVIOUS
<1>1. CASE UNCHANGED vars
  <2>1. UNCHANGED counted
    BY <1>1 DEF vars, counted, chainVars, holdVars, baseVars, hookVars, roundVars,
                feedVars
  <2>. QED
    BY <2>1, CountedKeeps
<1>2. CASE TimerFires \/ Seed \/ RawAnswers \/ RawReturns \/ Mount \/ Unmount
           \/ SettleEffect
  BY <1>2, TimerCounts, SeedCounts, RawCounts, UnmountCounts, SettleEffectCounts
<1>3. CASE RowsChange
  <2>1. UNCHANGED counted
    BY <1>3 DEF RowsChange, counted, chainVars, holdVars, baseVars, hookVars, roundVars
  <2>. QED
    BY <2>1, CountedKeeps
<1>4. CASE \E read \in reads : ReadAnswers(read) \/ ReadFails(read) \/ ReadReturns(read)
  BY <1>4, ReadAnswersCounts, ReadFailsCounts, ReadReturnsCounts
<1>5. ASSUME NEW r \in Rounds,
             \/ Open(r) \/ OpenSucceeds(r) \/ OpenFails(r) \/ Reveal(r)
             \/ \E extra \in BOOLEAN : Submit(r, extra)
             \/ SubmitFails(r)
      PROVE  CountsInv'
  BY <1>5, OpenCounts, OpenSucceedsCounts, OpenFailsCounts, RevealCounts,
     SubmitCounts, SubmitFailsCounts
<1>6. ASSUME NEW r \in Rounds, SubmitSucceeds(r)
      PROVE  CountsInv'
  <2>1. UNCHANGED counted
    BY <1>6 DEF SubmitSucceeds, counted, chainVars, holdVars, baseVars, hookVars,
                roundVars, feedVars
  <2>. QED
    BY <2>1, CountedKeeps
<1>7. ASSUME NEW r \in Rounds,
             \/ Land(r) \/ ExtraLands(r) \/ RowArrives(r) \/ PatchArrives(r)
             \/ \E p \in Payouts : Settle(r, p)
      PROVE  CountsInv'
  BY <1>7, ChainStepCounts
<1>. QED
  BY <1>1, <1>2, <1>3, <1>4, <1>5, <1>6, <1>7 DEF Next

\* What the invariant says of a round without actions is what the two
\* properties say of it: a tracked round is active.
LEMMA CountsImply ==
  ASSUME CountsInv, NEW r \in Unacted
  PROVE  HiddenOf(r) /\ CountedOf(r)
<1>1. r \in Rounds /\ RoundInv(r)
  BY DEF CountsInv, Unacted
<1>2. tracked[r] = "open" => <<"open", r>> \in active
  BY <1>1 DEF CountsInv, HoldInv, TrackedHolds, Tracked, KeyOf
<1>. QED
  BY <1>1, <1>2 DEF RoundInv, ActiveUncounted, HiddenOf

\* Of every round in which no action is possible, whatever the player does in
\* the others: its payout stays out of the balance until its reveal, and after
\* a reconcile the display counts its bet and its payout exactly once.
THEOREM LedgerCountsUnacted ==
  Spec => [](\A r \in Unacted : HiddenOf(r) /\ CountedOf(r))
<1>1. CountsInv => \A r \in Unacted : HiddenOf(r) /\ CountedOf(r)
  BY CountsImply
<1>. QED
  BY <1>1, InitCounts, StepCounts, PTL DEF Spec

\* In a game without actions, which Counterweight is, no payout shows before its
\* reveal ...
THEOREM LedgerHidesUntilRevealed == Actable = {} => (Spec => []HiddenUntilRevealed)
<1>. SUFFICES ASSUME Actable = {} PROVE Spec => []HiddenUntilRevealed
  OBVIOUS
<1>1. CountsInv => HiddenUntilRevealed
  BY CountsImply DEF HiddenUntilRevealed, Unacted
<1>. QED
  BY <1>1, InitCounts, StepCounts, PTL DEF Spec

\* ... and a reconcile counts every bet and payout once.
THEOREM LedgerCountsOnce == Actable = {} => (Spec => []CountedOnce)
<1>. SUFFICES ASSUME Actable = {} PROVE Spec => []CountedOnce
  OBVIOUS
<1>1. CountsInv => CountedOnce
  BY CountsImply DEF CountedOnce, Unacted
<1>. QED
  BY <1>1, InitCounts, StepCounts, PTL DEF Spec

-----------------------------------------------------------------------------
(* Types                                                                   *)

LEMMA DeltasKept ==
  ASSUME NEW adj \in Deltas, NEW r \in Rounds
  PROVE  /\ Debit(adj, r) \in Deltas /\ DebitExtra(adj, r) \in Deltas
         /\ RefundStake(adj, r) \in Deltas /\ RefundExtra(adj, r) \in Deltas
<1>1. Debit(adj, r) \in Deltas /\ DebitExtra(adj, r) \in Deltas
  BY DEF Deltas, Debit, DebitExtra
<1>2. RefundStake(adj, r) \in Deltas /\ RefundExtra(adj, r) \in Deltas
  BY DEF Deltas, RefundStake, RefundExtra
<1>. QED
  BY <1>1, <1>2

LEMMA CreditKept ==
  ASSUME NEW adj \in Deltas, NEW rs \in SUBSET Rounds
  PROVE  Credit(adj, rs) \in Deltas
BY DEF Deltas, Credit

LEMMA OnChainView ==
  ASSUME TypeOK
  PROVE  OnChain \in View
BY DEF TypeOK, OnChain, View

LEMMA PlacedTypes ==
  ASSUME TypeOK, NEW key \in Keys, NEW adj \in Deltas, BetPlaced(key, adj)
  PROVE  /\ active' \subseteq Keys /\ adjustment' \in Deltas /\ epoch' \in Nat
         /\ timer' \in BOOLEAN
<1>1. active' \subseteq Keys
  BY DEF TypeOK, BetPlaced
<1>2. adjustment' \in Deltas
  BY DEF BetPlaced
<1>3. epoch' \in Nat
  BY DEF TypeOK, BetPlaced
<1>4. timer' \in BOOLEAN
  BY DEF BetPlaced
<1>. QED
  BY <1>1, <1>2, <1>3, <1>4

\* The calls of the game.
LEMMA CallTypes ==
  ASSUME TypeOK, NEW r \in Rounds,
         \/ Open(r) \/ OpenSucceeds(r) \/ OpenFails(r)
         \/ \E extra \in BOOLEAN : Submit(r, extra)
         \/ SubmitSucceeds(r) \/ SubmitFails(r) \/ Reveal(r)
  PROVE  TypeOK'
<1>1. CASE Open(r)
  <2>1. Debit(adjustment, r) \in Deltas /\ <<"open", r>> \in Keys
    BY DeltasKept DEF TypeOK, Keys
  <2>2. /\ active' \subseteq Keys /\ adjustment' \in Deltas /\ epoch' \in Nat
        /\ timer' \in BOOLEAN
    <3>1. BetPlaced(<<"open", r>>, Debit(adjustment, r))
      BY <1>1 DEF Open
    <3>. QED
      BY <2>1, <3>1, PlacedTypes
  <2>3. mine' \subseteq Rounds /\ send' \in [Rounds -> {"idle", "sending", "done", "failed"}]
    BY <1>1 DEF TypeOK, Open
  <2>. QED
    BY <1>1, <2>2, <2>3 DEF TypeOK, Open, chainVars, baseVars, roundVars, feedVars
<1>2. CASE OpenSucceeds(r)
  BY <1>2 DEF TypeOK, OpenSucceeds, chainVars, holdVars, baseVars, hookVars, feedVars
<1>3. CASE OpenFails(r)
  <2>1. RefundStake(adjustment, r) \in Deltas
    BY DeltasKept DEF TypeOK
  <2>. QED
    BY <1>3, <2>1 DEF TypeOK, OpenFails, RoundsEnd, chainVars, baseVars, hookVars, roundVars, feedVars
<1>4. ASSUME NEW extra \in BOOLEAN, Submit(r, extra) PROVE TypeOK'
  <2>. DEFINE key == IF tracked[r] = "none" THEN <<"resume", r>> ELSE KeyOf(r)
              adj == IF extra THEN DebitExtra(adjustment, r) ELSE adjustment
  <2>1. adj \in Deltas
    BY DeltasKept DEF TypeOK
  <2>2. key \in Keys /\ key[1] \in {"open", "resume"}
    BY DEF TypeOK, Keys, KeyOf
  <2>3. /\ act' = [act EXCEPT ![r] = IF extra THEN "extra" ELSE "plain"]
        /\ tracked' = [tracked EXCEPT ![r] = key[1]]
        /\ BetPlaced(key, adj) \/ UNCHANGED holdVars
        /\ UNCHANGED <<chainVars, send, baseVars, reads, hookVars, pending, credited, feedVars>>
    BY <1>4 DEF Submit
  <2>. HIDE DEF key, adj
  <2>4. /\ active' \subseteq Keys /\ adjustment' \in Deltas /\ epoch' \in Nat
        /\ timer' \in BOOLEAN
    <3>1. CASE BetPlaced(key, adj)
      BY <2>1, <2>2, <3>1, PlacedTypes
    <3>2. CASE UNCHANGED holdVars
      BY <3>2 DEF TypeOK, holdVars
    <3>. QED
      BY <2>3, <3>1, <3>2
  <2>5. /\ act' \in [Rounds -> {"idle", "plain", "extra", "done", "failed"}]
        /\ tracked' \in [Rounds -> {"none", "open", "resume"}]
    BY <2>2, <2>3 DEF TypeOK
  <2>. QED
    BY <2>3, <2>4, <2>5 DEF TypeOK, chainVars, baseVars, hookVars, feedVars
<1>5. CASE SubmitSucceeds(r)
  BY <1>5 DEF TypeOK, SubmitSucceeds, chainVars, holdVars, baseVars, hookVars, roundVars, feedVars
<1>6. CASE SubmitFails(r)
  <2>1. RefundExtra(adjustment, r) \in Deltas
    BY DeltasKept DEF TypeOK
  <2>. QED
    BY <1>6, <2>1 DEF TypeOK, SubmitFails, chainVars, baseVars, hookVars, roundVars, feedVars
<1>7. CASE Reveal(r)
  <2>1. r \in Tracked
    BY <1>7 DEF Reveal
  <2>2. CASE r \in rows \cup patched
    <3>. DEFINE paid == {q \in {r} : KeyOf(q) \in active}
    <3>1. Credit(adjustment, paid) \in Deltas
      <4>1. paid \in SUBSET Rounds
        OBVIOUS
      <4>. HIDE DEF paid
      <4>. QED
        BY <4>1, CreditKept DEF TypeOK
    <3>2. paid \subseteq Rounds
      OBVIOUS
    <3>3. /\ RoundsEnd({KeyOf(q) : q \in {r}}, Credit(adjustment, paid))
          /\ tracked' = [q \in Rounds |-> IF q \in {r} THEN "none" ELSE tracked[q]]
          /\ pending' = pending \ {r}
          /\ credited' = credited \cup paid
          /\ UNCHANGED <<chainVars, send, act, baseVars, reads, hookVars, feedVars>>
      BY <1>7, <2>2 DEF Reveal, Revealed
    <3>. HIDE DEF paid
    <3>4. /\ active' \subseteq Keys /\ adjustment' \in Deltas /\ epoch' \in Nat
          /\ timer' \in BOOLEAN
      BY <3>1, <3>3 DEF TypeOK, RoundsEnd
    <3>5. /\ tracked' \in [Rounds -> {"none", "open", "resume"}]
          /\ pending' \subseteq Rounds /\ credited' \subseteq Rounds
      BY <3>2, <3>3 DEF TypeOK
    <3>. QED
      BY <3>3, <3>4, <3>5 DEF TypeOK, chainVars, baseVars, hookVars, feedVars
  <2>3. CASE r \notin rows \cup patched
    BY <1>7, <2>3 DEF TypeOK, Reveal, holdVars, chainVars, baseVars, hookVars, feedVars
  <2>. QED
    BY <2>2, <2>3
<1>. QED
  BY <1>1, <1>2, <1>3, <1>4, <1>5, <1>6, <1>7

\* The settle effect and the end of the frame.
LEMMA EffectTypes ==
  ASSUME TypeOK, SettleEffect \/ Unmount
  PROVE  TypeOK'
<1>1. CASE SettleEffect
  <2>. DEFINE over == {q \in Tracked \cap rows : q \in pending \/ payout[q] = 0}
              early == over \cap pending
              paid == {q \in early : KeyOf(q) \in active}
  <2>1. over \subseteq Rounds /\ paid \in SUBSET Rounds
    BY DEF Tracked
  <2>2. /\ RoundsEnd({KeyOf(q) : q \in over}, Credit(adjustment, paid))
        /\ changed' = FALSE
        /\ tracked' = [q \in Rounds |-> IF q \in over THEN "none" ELSE tracked[q]]
        /\ pending' = pending \ over
        /\ credited' = credited \cup paid
        /\ UNCHANGED <<chainVars, send, act, baseVars, reads, hookVars, rows, patched>>
    BY <1>1 DEF SettleEffect
  <2>. HIDE DEF over, paid
  <2>3. Credit(adjustment, paid) \in Deltas
    BY <2>1, CreditKept DEF TypeOK
  <2>4. /\ active' \subseteq Keys /\ adjustment' \in Deltas /\ epoch' \in Nat
        /\ timer' \in BOOLEAN
    BY <2>2, <2>3 DEF TypeOK, RoundsEnd
  <2>5. /\ tracked' \in [Rounds -> {"none", "open", "resume"}]
        /\ pending' \subseteq Rounds /\ credited' \subseteq Rounds
    BY <2>1, <2>2 DEF TypeOK
  <2>. QED
    BY <2>2, <2>4, <2>5 DEF TypeOK, chainVars, baseVars, hookVars
<1>2. CASE Unmount
  <2>1. RoundsEnd({KeyOf(r) : r \in Tracked}, adjustment)
    BY <1>2 DEF Unmount
  <2>2. /\ active' \subseteq Keys /\ adjustment' \in Deltas /\ epoch' \in Nat
        /\ timer' \in BOOLEAN
    BY <2>1 DEF TypeOK, RoundsEnd
  <2>3. /\ tracked' \in [Rounds -> {"none", "open", "resume"}]
        /\ pending' \subseteq Rounds /\ mine' \subseteq Rounds /\ patched' \subseteq Rounds
        /\ raw' \in View \cup {Unknown} /\ rawRead' \in View \cup {Unknown, Asked}
    BY <1>2 DEF Unmount
  <2>4. mounted' \in BOOLEAN /\ changed' \in BOOLEAN /\ unmounts' \in Nat
    <3>1. mounted' = FALSE /\ changed' = FALSE /\ unmounts' = unmounts + 1
      BY <1>2, Zenon DEF Unmount
    <3>2. unmounts \in Nat
      BY DEF TypeOK
    <3>3. unmounts' \in Nat
      BY <3>1, <3>2
    <3>. QED
      BY <3>1, <3>3, Zenon
  <2>. QED
    BY <1>2, <2>2, <2>3, <2>4 DEF TypeOK, Unmount, chainVars, baseVars
<1>. QED
  BY <1>1, <1>2

\* Reads of the balance.
LEMMA ReadTypes ==
  ASSUME TypeOK,
         \/ TimerFires \/ Seed \/ RawAnswers \/ RawReturns \/ Mount
         \/ \E read \in reads : ReadAnswers(read) \/ ReadFails(read) \/ ReadReturns(read)
  PROVE  TypeOK'
<1>. DEFINE Reads == [epoch : Nat, view : View \cup {Unknown}]
<1>1. CASE TimerFires
  <2>1. [epoch |-> epoch, view |-> Unknown] \in Reads
    BY DEF TypeOK
  <2>2. reads' \subseteq Reads
    BY <1>1, <2>1 DEF TypeOK, TimerFires
  <2>3. timer' \in BOOLEAN
    BY <1>1 DEF TimerFires
  <2>. QED
    BY <1>1, <2>2, <2>3
       DEF TypeOK, TimerFires, chainVars, baseVars, hookVars, roundVars, feedVars, Reads
<1>2. CASE Seed
  BY <1>2 DEF TypeOK, Seed, chainVars, holdVars, hookVars, roundVars, feedVars
<1>3. CASE RawAnswers
  <2>1. rawRead' \in View \cup {Unknown}
    BY <1>3, OnChainView DEF RawAnswers
  <2>. QED
    BY <1>3, <2>1 DEF TypeOK, RawAnswers, chainVars, holdVars, baseVars, roundVars, feedVars
<1>4. CASE RawReturns
  BY <1>4 DEF TypeOK, RawReturns, chainVars, holdVars, baseVars, roundVars, feedVars
<1>5. CASE Mount
  BY <1>5 DEF TypeOK, Mount, chainVars, holdVars, baseVars, roundVars, feedVars
<1>6. ASSUME NEW read \in reads, ReadAnswers(read) PROVE TypeOK'
  <2>1. read \in Reads
    BY DEF TypeOK
  <2>2. [read EXCEPT !.view = OnChain] \in Reads
    BY <2>1, OnChainView
  <2>. QED
    BY <1>6, <2>2
       DEF TypeOK, ReadAnswers, chainVars, holdVars, baseVars, hookVars, roundVars, feedVars
<1>7. ASSUME NEW read \in reads, ReadFails(read) PROVE TypeOK'
  BY <1>7 DEF TypeOK, ReadFails, chainVars, holdVars, baseVars, hookVars, roundVars, feedVars
<1>8. ASSUME NEW read \in reads, ReadReturns(read) PROVE TypeOK'
  <2>1. read.view \in View \cup {Unknown}
    BY DEF TypeOK
  <2>2. NoDeltas \in Deltas
    BY DEF NoDeltas, Deltas
  <2>. QED
    BY <1>8, <2>1, <2>2
       DEF TypeOK, ReadReturns, chainVars, hookVars, roundVars, feedVars
<1>. QED
  BY <1>1, <1>2, <1>3, <1>4, <1>5, <1>6, <1>7, <1>8

\* The chain and the two channels.
LEMMA ChainTypes ==
  ASSUME TypeOK, NEW r \in Rounds,
         \/ Land(r) \/ ExtraLands(r) \/ RowArrives(r) \/ PatchArrives(r)
         \/ \E p \in Payouts : Settle(r, p)
  PROVE  TypeOK'
<1>1. CASE Land(r) \/ ExtraLands(r)
  BY <1>1 DEF TypeOK, Land, ExtraLands, holdVars, baseVars, hookVars, roundVars, feedVars
<1>2. CASE RowArrives(r) \/ PatchArrives(r)
  BY <1>2 DEF TypeOK, RowArrives, PatchArrives, chainVars, holdVars, baseVars,
              hookVars, roundVars
<1>3. CASE \E p \in Payouts : Settle(r, p)
  BY <1>3 DEF TypeOK, Settle, holdVars, baseVars, hookVars, roundVars, feedVars
<1>. QED
  BY <1>1, <1>2, <1>3

\* The variables of the ledger and the hook keep their types, whatever the game
\* does: the deltas never count but rounds, and a read never returns but a balance.
THEOREM LedgerTypeCorrect == Spec => []TypeOK
<1>1. Init => TypeOK
  <2>. SUFFICES ASSUME Init PROVE TypeOK
    OBVIOUS
  <2>1. NoDeltas \in Deltas
    BY DEF NoDeltas, Deltas
  <2>. QED
    BY <2>1 DEF Init, TypeOK
<1>2. TypeOK /\ [Next]_vars => TypeOK'
  <2>. SUFFICES ASSUME TypeOK, [Next]_vars PROVE TypeOK'
    OBVIOUS
  <2>1. CASE Unmount \/ SettleEffect
    BY <2>1, EffectTypes
  <2>6. CASE RowsChange
    BY <2>6 DEF TypeOK, RowsChange, chainVars, holdVars, baseVars, hookVars, roundVars
  <2>2. CASE \/ TimerFires \/ Seed \/ RawAnswers \/ RawReturns \/ Mount
             \/ \E read \in reads : ReadAnswers(read) \/ ReadFails(read) \/ ReadReturns(read)
    BY <2>2, ReadTypes
  <2>3. ASSUME NEW r \in Rounds,
               \/ Open(r) \/ OpenSucceeds(r) \/ OpenFails(r)
               \/ \E extra \in BOOLEAN : Submit(r, extra)
               \/ SubmitSucceeds(r) \/ SubmitFails(r) \/ Reveal(r)
        PROVE  TypeOK'
    BY <2>3, CallTypes
  <2>4. ASSUME NEW r \in Rounds,
               \/ Land(r) \/ ExtraLands(r) \/ RowArrives(r) \/ PatchArrives(r)
               \/ \E p \in Payouts : Settle(r, p)
        PROVE  TypeOK'
    BY <2>4, ChainTypes
  <2>5. CASE UNCHANGED vars
    BY <2>5 DEF TypeOK, vars, chainVars, holdVars, baseVars, hookVars, roundVars, feedVars
  <2>. QED
    BY <2>1, <2>2, <2>3, <2>4, <2>5, <2>6 DEF Next
<1>. QED
  BY <1>1, <1>2, PTL DEF Spec
=============================================================================

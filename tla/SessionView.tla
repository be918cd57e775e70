----------------------------- MODULE SessionView -----------------------------
(***************************************************************************)
(* How the host page builds the list of sessions that a game sees.  The    *)
(* events of the chain reach it twice: on the indexed channel, which       *)
(* evolves a row per session (session-store.ts), and on the flashblock     *)
(* channel, which evolves a patch per session                              *)
(* (flashblock-session-patch.ts).  A bet has a row of its own              *)
(* (optimistic-casino-session.ts) that is matched with the session by the  *)
(* hash of its transaction (use-game-host.ts).  A snapshot merges the      *)
(* three and keeps what it has published (use-host-snapshot.ts,            *)
(* monotonic-session-items.ts).                                            *)
(*                                                                         *)
(* One bet opens at most one session, and bets are mined in the order they *)
(* were sent, so a bet and its session share a number.  A step's state is  *)
(* the number of the step, a result is Final, and a random word is the     *)
(* number of the step that asked for it, 0 for none.  Amounts, deadlines,  *)
(* hashes and times are left out, and so is the diagnostic masking of      *)
(* waiting phases.                                                         *)
(***************************************************************************)
EXTENDS Integers, SequencesExt

CONSTANTS
  MaxRounds,      \* bound: bets of this visit and the last
  MaxSteps,       \* bound: steps of a session that waits
  MaxLogs,        \* bound: logs of all sessions
  MaxFaults       \* bound: logs lost, events overtaken and changes of the
                  \* wallet status, together

Rounds == 1..MaxRounds

ASSUME ViewAssumption ==
  /\ MaxRounds \in Nat \ {0}
  /\ MaxSteps \in Nat \ {0} /\ MaxFaults \in Nat
  /\ MaxLogs \in Nat /\ MaxLogs >= 3      \* those of an earlier visit

Steps == 0..MaxSteps
Final == MaxSteps + 1
Waiting == {"WAITING_RANDOMNESS", "WAITING_PLAYER_ACTION"}
Phases == Waiting \cup {"NONE", "OVER"}
Keys == {"pending", "session"} \X Rounds
Item == [key : Keys, phase : Phases, step : Steps \cup {Final}, word : Steps]
NoItem == [key |-> <<"none", 0>>, phase |-> "NONE", step |-> 0, word |-> 0]
Row == [opened : BOOLEAN, step : Steps, phase : Phases, words : [Steps -> Steps]]
Patch == [step : Steps, phase : Phases, asked : Steps, nonce : Steps, word : Steps]
Event == [round : Rounds, phase : Phases, step : Steps, word : Steps]

VARIABLES
  \* the chain, the feed and the calls of the game
  chain,           \* of each session: its phase, step and latest word
  call,            \* openSession: none, sent, accepted, returned or failed
  submitted,       \* the step of the receipt that a submitAction awaits, or 0
  flash, indexed,  \* events that a channel will deliver
  logs,            \* how many logs there are
  faults,          \* how many were lost, overtaken, and changes of the wallet
  \* the page
  ready,           \* walletStatus is `ready'
  rows,            \* the store's rows
  patches,
  optimistic,      \* rounds with a row of optimisticSessions
  confirmed,       \* ... that carries the session's id
  pendingOpens,    \* pendingOpenTransactionsRef, by the hash of a round
  recentOpens,     \* recentFlashblockOpensRef
  confirmedOpens,  \* confirmedOpensRef
  receipts,        \* sessionSnapshotsRef: the newest step in a receipt
  published,       \* publishedOpenItems and publishedSettledItems
  snapshot,        \* the items pushed to the game
  watched          \* history: those last pushed while the wallet was ready

chainVars == <<chain, flash, indexed, logs>>
storeVars == <<rows, patches>>
openVars == <<optimistic, confirmed, pendingOpens, recentOpens, confirmedOpens>>
callVars == <<call, submitted, receipts>>
viewVars == <<published, snapshot, watched>>
vars == <<faults, chainVars, ready, storeVars, openVars, callVars, viewVars>>

-----------------------------------------------------------------------------
(* The store and the patches                                               *)

NoWords == [n \in Steps |-> 0]
InitialRow == [opened |-> FALSE, step |-> 0, phase |-> "NONE", words |-> NoWords]
InitialPatch == [step |-> 0, phase |-> "NONE", asked |-> 0, nonce |-> 0, word |-> 0]
Over(x) == x.phase = "OVER"

\* The requests of a row, each with its word: one that has one keeps it.
Fulfilled(words, nonce, word) ==
  IF word = 0 \/ words[nonce] # 0 THEN words ELSE [words EXCEPT ![nonce] = word]

\* evolve.  A step's word answers the step before it; a settlement's answers
\* the last step that the row knows of.
Evolved(row, e) ==
  CASE e.phase = "NONE" -> [row EXCEPT !.opened = TRUE]
    [] e.phase = "OVER" -> [row EXCEPT !.phase = "OVER",
                                       !.words = Fulfilled(@, row.step, e.word)]
    [] OTHER -> IF Over(row) \/ e.step <= row.step THEN row
                ELSE [row EXCEPT !.step = e.step, !.phase = e.phase,
                                 !.words = Fulfilled(@, e.step - 1, e.word)]

\* The rows that are listed for the player: a row has one once its session was
\* opened or settled.  While the wallet is not ready there are none.
Listed(row) == row.opened \/ Over(row)
SessionRows(store, isReady) ==
  Restrict(store, {r \in Rounds : isReady /\ Listed(store[r])})
List == SessionRows(rows, ready)

\* withFulfillment: a word without a request is kept, but not under a nonce.
Answered(p, nonce, word) ==
  CASE word = 0 -> p
    [] word # 0 /\ nonce = 0 -> [p EXCEPT !.word = word]
    [] OTHER -> [p EXCEPT !.word = word, !.nonce = nonce]

Patched(p, e) ==
  CASE e.phase = "NONE" \/ Over(p) -> p
    [] e.phase = "OVER" /\ ~Over(p) ->
         Answered([p EXCEPT !.phase = "OVER"],
                  IF p.asked # 0 THEN p.asked ELSE p.step, e.word)
    [] OTHER ->
         IF e.step <= p.step THEN p
         ELSE Answered([p EXCEPT !.step = e.step, !.phase = e.phase,
                          !.asked = IF e.phase = "WAITING_RANDOMNESS" THEN e.step ELSE @],
                       e.step - 1, e.word)

\* Mutant: the patch is copied even where the row is ahead.
OverwrittenRow(row, p) ==
  IF Over(row) \/ p.phase = "NONE" THEN row
  ELSE [row EXCEPT !.step = p.step, !.phase = p.phase]

\* mergeFlashblockPatchIntoRow: where the patch is ahead, and the words anyway.
MergedRow(row, p) ==
  LET ahead == [row EXCEPT !.step = p.step, !.phase = p.phase]
  IN  [(CASE Over(row) -> row
          [] ~Over(row) /\ p.step > row.step -> ahead
          [] OTHER -> IF Over(p) THEN [row EXCEPT !.phase = "OVER"] ELSE row)
       EXCEPT !.words = IF p.nonce = 0 THEN @ ELSE Fulfilled(@, p.nonce, p.word)]

\* Mutant: a patch goes as soon as its session is listed.
ListedAtAll(row, p) == row.opened

\* pruneFlashblockPatches: a patch that a listed row has caught up with.
CaughtUp(row, p) ==
  /\ p.step <= row.step
  /\ Over(p) => Over(row)
  /\ p.nonce # 0 => row.words[p.nonce] # 0
Pruned(list) ==
  [r \in Rounds |-> IF r \in DOMAIN list /\ CaughtUp(list[r], patches[r])
                    THEN InitialPatch ELSE patches[r]]

-----------------------------------------------------------------------------
(* The snapshot                                                            *)

Shown(key, phase, step, word) ==
  [key |-> key, phase |-> phase, step |-> IF phase = "OVER" THEN Final ELSE step,
   word |-> word]

\* The latest word that a row has, else the one its patch has.
LatestWord(row, p) ==
  LET known == {n \in Steps : row.words[n] # 0}
  IN  IF known # {} THEN row.words[Max(known)] ELSE p.word

Projected(list, r) ==
  LET row == MergedRow(list[r], patches[r])
  IN  Shown(<<"session", r>>, row.phase, row.step, LatestWord(row, patches[r]))

\* mergeFlashblockPatchIntoItem, for the row of a bet that no row stands for yet.
OptimisticItem(list, r) ==
  LET p == patches[r]
      base == Shown(<<"session", r>>, "WAITING_RANDOMNESS", 0, 0)
  IN  CASE r \notin confirmed -> [base EXCEPT !.key = <<"pending", r>>]
        [] r \in confirmed \cap DOMAIN list -> base
        [] OTHER -> Shown(base.key, IF p.phase = "NONE" THEN base.phase ELSE p.phase,
                          p.step, p.word)

\* mergeCasinoSessionItems: the row of a bet hides a session that has no phase.
Optimistic(list) ==
  {r \in optimistic : r \in confirmed \cap DOMAIN list => Projected(list, r).phase = "NONE"}
Items(list) ==
  {OptimisticItem(list, r) : r \in Optimistic(list)}
    \cup {Projected(list, r) : r \in DOMAIN list \ (Optimistic(list) \cap confirmed)}

\* reconcileMonotonicSessionItems.  A result that was published replaces an item
\* without one, and what was published and is missing is appended.  (A session
\* is never in both maps, so they are one here.)
Released(list) ==
  [r \in Rounds |-> IF r \in DOMAIN list /\ Over(list[r]) THEN NoItem ELSE published[r]]
Reconciled(list, i) ==
  IF i.key[1] = "session" /\ ~Over(i) /\ Over(Released(list)[i.key[2]])
  THEN Released(list)[i.key[2]] ELSE i
\* Mutant: what is missing from the list is not brought back.
DroppedForGood(list) == {}
Dropped(list) ==
  {Released(list)[r] : r \in {s \in Rounds : \A i \in Items(list) : i.key # <<"session", s>>}}
    \ {NoItem}
View(list) == {Reconciled(list, i) : i \in Items(list)} \cup Dropped(list)
OfSession(items, r) == {i \in items : i.key = <<"session", r>>}
Publish(list, isReady) ==
  /\ snapshot' = View(list)
  /\ watched' = IF isReady THEN View(list) ELSE watched
  /\ published' = [r \in Rounds |->
       IF OfSession(View(list), r) = {} THEN NoItem
       ELSE CHOOSE i \in OfSession(View(list), r) : TRUE]

\* A change of the optimistic rows or the patches is rendered in its own time ...
Render ==
  /\ snapshot # View(List)
  /\ Publish(List, ready)
  /\ UNCHANGED <<faults, chainVars, ready, storeVars, openVars, callVars>>

\* ... and one of the rows at once, with the effect that prunes the patches.
Rerender(store, isReady) ==
  LET list == SessionRows(store, isReady)
  IN  Publish(list, isReady) /\ patches' = Pruned(list)

-----------------------------------------------------------------------------
(* The chain and the feed                                                  *)

Fault(kind, n) ==
  /\ n + faults.lost + faults.overtaken + faults.toggled <= MaxFaults
  /\ faults' = [faults EXCEPT ![kind] = @ + n]

\* The feed may lose the first of the logs of a block, or all.
Feed(events) ==
  /\ logs' = logs + Len(events) /\ logs' <= MaxLogs
  /\ \E k \in 0..Len(events) :
       /\ Fault("lost", k)
       /\ flash' = flash \o SubSeq(events, k + 1, Len(events))
       /\ indexed' = indexed \o SubSeq(events, k + 1, Len(events))

Opened(r) == [round |-> r, phase |-> "NONE", step |-> 0, word |-> 0]
Moved(r, phase, word) ==
  [round |-> r, phase |-> phase, word |-> word,
   step |-> IF phase = "OVER" THEN 0 ELSE chain[r].step + 1]
Goes(r, phase, word) ==
  /\ phase \in Waiting => chain[r].step < MaxSteps
  /\ chain' = [chain EXCEPT
       ![r].phase = phase,
       ![r].step = IF phase \in Waiting THEN @ + 1 ELSE @,
       ![r].word = IF word = 0 THEN @ ELSE word]

\* sendActions sends one call at a time and waits for its receipt; transactions
\* are mined in the order they were sent.
Sending(r) == call[r] \in {"sent", "accepted"}
FirstInQueue(r) ==
  /\ \A q \in 1..(r - 1) : ~Sending(q)
  /\ \A q \in Rounds : submitted[q] = 0
Land(r) ==
  /\ Sending(r) \/ call[r] = "failed"
  /\ FirstInQueue(r)
  /\ \A q \in r..MaxRounds : chain[q].phase = "NONE"
  /\ \E phase \in Waiting \cup {"OVER"} :
       Goes(r, phase, 0) /\ Feed(<<Opened(r), Moved(r, phase, 0)>>)
  /\ UNCHANGED <<ready, storeVars, openVars, callVars, viewVars>>

\* Randomness arrives, or anyone cancels or forfeits a session.
Progress(r) ==
  /\ \E phase \in Waiting \cup {"OVER"}, word \in {0, chain[r].step} :
       /\ \/ chain[r].phase = "WAITING_RANDOMNESS" /\ (word = 0 => phase = "OVER")
          \/ chain[r].phase = "WAITING_PLAYER_ACTION" /\ phase = "OVER" /\ word = 0
       /\ Goes(r, phase, word) /\ Feed(<<Moved(r, phase, word)>>)
  /\ UNCHANGED <<ready, storeVars, openVars, callVars, viewVars>>

\* The event a channel delivers is the oldest, unless the lag was shortened.
Takes(queue, i) ==
  /\ i \in DOMAIN queue
  /\ Fault("overtaken", IF i = 1 THEN 0 ELSE 1)

DeliverIndexed ==
  /\ \E i \in DOMAIN indexed :
       /\ Takes(indexed, i)
       /\ indexed' = RemoveAt(indexed, i)
       /\ LET store == [rows EXCEPT ![indexed[i].round] = Evolved(@, indexed[i])]
          IN  /\ rows' = store
              /\ IF ready /\ store # rows THEN Rerender(store, ready)
                 ELSE UNCHANGED <<patches, viewVars>>
  /\ UNCHANGED <<chain, flash, logs, ready, openVars, callVars>>


\* handleFlashblockSessionOpened: the bet is known by its hash, or not yet.
SeenOpen(r) ==
  IF r \in pendingOpens
  THEN /\ pendingOpens' = pendingOpens \ {r}
       /\ confirmedOpens' = confirmedOpens \cup {r}
       /\ confirmed' = confirmed \cup ({r} \cap optimistic)
       /\ UNCHANGED <<recentOpens, optimistic>>
  ELSE /\ recentOpens' = recentOpens \cup {r}
       /\ UNCHANGED <<pendingOpens, confirmedOpens, confirmed, optimistic>>

DeliverFlash ==
  /\ \E i \in DOMAIN flash :
       /\ Takes(flash, i)
       /\ flash' = RemoveAt(flash, i)
       /\ patches' = [patches EXCEPT ![flash[i].round] = Patched(@, flash[i])]
       /\ IF flash[i].phase = "NONE" THEN SeenOpen(flash[i].round) ELSE UNCHANGED openVars
  /\ UNCHANGED <<chain, indexed, logs, ready, rows, callVars, viewVars>>

-----------------------------------------------------------------------------
(* The calls of the game                                                   *)

RequireReadyWallet == ready

\* parseAdvancedSessionSnapshots, of the steps that a receipt logs, and
\* latestEncodedSession, of those that are known: the newest, 0 for none.
Latest(steps) == Max({0} \cup steps)
Remember(r, logged) == [receipts EXCEPT ![r] = Latest({@, Latest(logged)})]

\* openSession up to its await: the bet's own row is added, and those that the
\* store has taken over are dropped.
OpenSession(r) ==
  /\ RequireReadyWallet /\ call[r] = "none" /\ \A q \in 1..(r - 1) : call[q] # "none"
  /\ call' = [call EXCEPT ![r] = "sent"]
  /\ optimistic' = {r} \cup (optimistic \ (confirmed \cap DOMAIN List))
  /\ confirmed' = confirmed \ DOMAIN List
  /\ UNCHANGED <<faults, chainVars, ready, storeVars, pendingOpens, recentOpens,
                 confirmedOpens, submitted, receipts, viewVars>>

\* Mutant: openings that were pushed before the hash was known are forgotten.
AcceptLate(r) ==
  /\ call[r] = "sent" /\ FirstInQueue(r)
  /\ call' = [call EXCEPT ![r] = "accepted"]
  /\ pendingOpens' = pendingOpens \cup {r}
  /\ UNCHANGED <<faults, chainVars, ready, storeVars, optimistic, recentOpens,
                 confirmed, confirmedOpens, submitted, receipts, viewVars>>

\* The callback with the hash: the pushed event came before it, or will come.
Accept(r) ==
  /\ call[r] = "sent" /\ FirstInQueue(r)
  /\ call' = [call EXCEPT ![r] = "accepted"]
  /\ IF r \in recentOpens
     THEN /\ recentOpens' = recentOpens \ {r}
          /\ confirmedOpens' = confirmedOpens \cup {r}
          /\ confirmed' = confirmed \cup ({r} \cap optimistic)
          /\ UNCHANGED <<pendingOpens, optimistic>>
     ELSE /\ pendingOpens' = pendingOpens \cup {r}
          /\ UNCHANGED <<recentOpens, confirmedOpens, confirmed, optimistic>>
  /\ UNCHANGED <<faults, chainVars, ready, storeVars, submitted, receipts, viewVars>>

\* Mutant: the receipt does not confirm the row of the bet.
ReturnOnly(r) ==
  /\ call[r] = "accepted" /\ chain[r].phase # "NONE"
  /\ call' = [call EXCEPT ![r] = "returned"]
  /\ receipts' = Remember(r, {1} \cap 1..chain[r].step)
  /\ pendingOpens' = pendingOpens \ {r} /\ confirmedOpens' = confirmedOpens \ {r}
  /\ UNCHANGED <<faults, chainVars, ready, storeVars, optimistic, confirmed,
                 recentOpens, submitted, viewVars>>

\* The receipt, with the session and its first snapshot if it has one.
Return(r) ==
  /\ call[r] = "accepted" /\ chain[r].phase # "NONE"
  /\ call' = [call EXCEPT ![r] = "returned"]
  /\ receipts' = Remember(r, {1} \cap 1..chain[r].step)
  /\ pendingOpens' = pendingOpens \ {r}
  /\ confirmedOpens' = confirmedOpens \ {r}
  /\ confirmed' = confirmed \cup ({r} \cap optimistic)
  /\ UNCHANGED <<faults, chainVars, ready, storeVars, optimistic, recentOpens, submitted, viewVars>>

\* A send that fails, before or after it reached the chain: a bet whose opening
\* was pushed is recovered, any other is erased.
Fail(r) ==
  /\ Sending(r) /\ FirstInQueue(r)
  /\ confirmedOpens' = confirmedOpens \ {r}
  /\ \/ /\ r \in confirmedOpens
        /\ call' = [call EXCEPT ![r] = "returned"]
        /\ confirmed' = confirmed \cup ({r} \cap optimistic)
        /\ UNCHANGED optimistic
     \/ /\ r \notin confirmedOpens
        /\ call' = [call EXCEPT ![r] = "failed"]
        /\ optimistic' = optimistic \ {r}
        /\ confirmed' = confirmed \ {r}
  /\ UNCHANGED <<faults, chainVars, ready, storeVars, pendingOpens, recentOpens,
                 submitted, receipts, viewVars>>

\* Mutant: only the receipts and the patch are looked at.
NewestPushed(r) == Latest({receipts[r], patches[r].step})

\* resolveEncodedSession: the newest step that a receipt, the patch or the row
\* of the store has the committed bytes of.
Newest(r) ==
  Latest({receipts[r], patches[r].step}
           \cup {rows[s].step : s \in {s \in {r} \cap DOMAIN List : ~Over(rows[s])}})

ShownAt(r, phase) == \E i \in snapshot : i.key = <<"session", r>> /\ i.phase = phase

\* A call that echoes a session waits for its turn; the host takes it in the
\* phase it is for, with the current snapshot.
Echoed(r, phase) ==
  /\ \A q \in Rounds : ~Sending(q) /\ submitted[q] = 0
  /\ chain[r].phase = phase /\ Newest(r) = chain[r].step

\* submitAction.
Submit(r) ==
  /\ RequireReadyWallet /\ ShownAt(r, "WAITING_PLAYER_ACTION")
  /\ Echoed(r, "WAITING_PLAYER_ACTION")
  /\ \E phase \in Waiting \cup {"OVER"} :
       /\ Goes(r, phase, 0) /\ Feed(<<Moved(r, phase, 0)>>)
       /\ submitted' = [submitted EXCEPT ![r] = Moved(r, phase, 0).step]
  /\ UNCHANGED <<ready, storeVars, openVars, call, receipts, viewVars>>

SubmitReturns(r) ==
  /\ submitted[r] # 0
  /\ submitted' = [submitted EXCEPT ![r] = 0]
  /\ receipts' = Remember(r, {submitted[r]})
  /\ UNCHANGED <<faults, chainVars, ready, storeVars, openVars, call, viewVars>>

\* useStuckSessionId: a listed row that waits for its word, past a deadline
\* that is left out.
Stuck(r) == r \in DOMAIN List /\ List[r].phase = "WAITING_RANDOMNESS"

\* The button of a stuck session; what its receipt logs is not remembered.
CancelStuckRandomness(r) ==
  /\ RequireReadyWallet /\ Stuck(r)
  /\ Echoed(r, "WAITING_RANDOMNESS")
  /\ Goes(r, "OVER", 0) /\ Feed(<<Moved(r, "OVER", 0)>>)
  /\ UNCHANGED <<ready, storeVars, openVars, callVars, viewVars>>

\* The wallet status of the setup panel; switching it off is the fault.
ToggleWallet ==
  /\ Fault("toggled", IF ready THEN 1 ELSE 0)
  /\ ready' = ~ready
  /\ Rerender(rows, ~ready)
  /\ UNCHANGED <<chainVars, rows, openVars, callVars>>

-----------------------------------------------------------------------------
\* The first round may be of an earlier visit, whose logs are replayed on the
\* indexed channel only.
PastLogs(phase, over) ==
  <<Opened(1), [round |-> 1, phase |-> phase, step |-> 1, word |-> 0]>>
    \o (IF over THEN <<[round |-> 1, phase |-> "OVER", step |-> 0, word |-> 0]>> ELSE <<>>)
Unborn == [phase |-> "NONE", step |-> 0, word |-> 0]

Init ==
  /\ \/ /\ chain = [r \in Rounds |-> Unborn] /\ indexed = <<>>
        /\ call = [r \in Rounds |-> "none"]
     \/ /\ \E phase \in Waiting, over \in BOOLEAN :
             /\ indexed = PastLogs(phase, over)
             /\ chain = [r \in Rounds |-> IF r > 1 THEN Unborn ELSE
                  [phase |-> IF over THEN "OVER" ELSE phase, step |-> 1, word |-> 0]]
        /\ call = [r \in Rounds |-> IF r = 1 THEN "past" ELSE "none"]
  /\ flash = <<>> /\ logs = Len(indexed)
  /\ faults = [lost |-> 0, overtaken |-> 0, toggled |-> 0]
  /\ ready = TRUE
  /\ rows = [r \in Rounds |-> InitialRow] /\ patches = [r \in Rounds |-> InitialPatch]
  /\ optimistic = {} /\ confirmed = {}
  /\ pendingOpens = {} /\ recentOpens = {} /\ confirmedOpens = {}
  /\ submitted = [r \in Rounds |-> 0] /\ receipts = [r \in Rounds |-> 0]
  /\ published = [r \in Rounds |-> NoItem] /\ snapshot = {} /\ watched = {}

Next ==
  \/ Render \/ DeliverIndexed \/ DeliverFlash \/ ToggleWallet
  \/ \E r \in Rounds :
       \/ Land(r) \/ Progress(r)
       \/ OpenSession(r) \/ Accept(r) \/ Return(r) \/ Fail(r)
       \/ Submit(r) \/ SubmitReturns(r) \/ CancelStuckRandomness(r)
Spec == Init /\ [][Next]_vars

-----------------------------------------------------------------------------
TypeOK ==
  /\ chain \in [Rounds -> [phase : Phases, step : Steps, word : Steps]]
  /\ call \in [Rounds -> {"none", "past", "sent", "accepted", "returned", "failed"}]
  /\ flash \in Seq(Event) /\ indexed \in Seq(Event) /\ logs \in 0..MaxLogs
  /\ faults \in [{"lost", "overtaken", "toggled"} -> 0..MaxFaults] /\ ready \in BOOLEAN
  /\ rows \in [Rounds -> Row] /\ patches \in [Rounds -> Patch]
  /\ confirmed \subseteq optimistic /\ optimistic \subseteq Rounds
  /\ pendingOpens \cup recentOpens \cup confirmedOpens \subseteq Rounds
  /\ submitted \in [Rounds -> Steps] /\ receipts \in [Rounds -> Steps]
  /\ published \in [Rounds -> Item \cup {NoItem}]
  /\ snapshot \subseteq Item /\ watched \subseteq Item

\* What a game may rely on: while the wallet is ready, a session that was pushed
\* stays, goes forward only, and keeps its result, however the two channels,
\* the calls and the renders interleave.  A session that has no state yet may
\* change between opened and waiting.  (reconcileMonotonicSessionItems, against
\* the merges and the pruning before it.)
StreamOf(items) ==
  [r \in Rounds |->
    CASE OfSession(items, r) = {} -> [phase |-> "ABSENT", step |-> -1]
      [] \E i \in OfSession(items, r) : i.step = 0 -> [phase |-> "OPEN", step |-> 0]
      [] OTHER -> LET i == CHOOSE j \in OfSession(items, r) : TRUE
                  IN  [phase |-> i.phase, step |-> i.step]]
Stream == INSTANCE SessionStream WITH Sessions <- Rounds, stream <- StreamOf(watched)
StreamSpec == Stream!Spec

\* The comment of reconcileMonotonicSessionItems promises the same whatever
\* happens to the projected list, which is empty while the wallet is not ready.
StreamAlways == INSTANCE SessionStream WITH Sessions <- Rounds, stream <- StreamOf(snapshot)
AlwaysForward == StreamAlways!Spec

\* Even then no session that was pushed vanishes, and no result is taken back.
ResultsStay ==
  [][\A r \in Rounds : \A i \in OfSession(snapshot, r) :
       \E j \in OfSession(snapshot', r) : Over(i) => Over(j)]_vars

\* When both channels have delivered everything and the page has rendered, the
\* game sees every session as the chain has it, unless the feed lost a log; an
\* event that overtook another may have cost a random word, but no state.
\* (Evolved against Patched, MergedRow, CaughtUp.)
Quiet == flash = <<>> /\ indexed = <<>> /\ ready /\ snapshot = View(List)
Converged ==
  Quiet /\ faults.lost = 0 =>
    \A r \in Rounds : chain[r].phase # "NONE" =>
      \E i \in OfSession(snapshot, r) :
        LET truth == Shown(i.key, chain[r].phase, chain[r].step, chain[r].word)
        IN  /\ i.phase = truth.phase /\ i.step = truth.step
            /\ faults.overtaken = 0 => i.word = truth.word

\* When a game is asked to act, what submitAction would echo to the host is at
\* least as new as what the game sees, although it is looked up in three places
\* that forget.  (resolveEncodedSession, pruneFlashblockPatches.)
EchoFresh ==
  ready => \A r \in Rounds : \A i \in OfSession(snapshot, r) :
             i.phase = "WAITING_PLAYER_ACTION" => Newest(r) >= i.step

\* Once openSession has ended, its bet is not shown as pending beside its
\* session, and a bet reported as placed is shown.  (confirm and remove of the
\* optimistic row at its five places.)
BetShownOnce ==
  snapshot = View(List) =>
    \A r \in Rounds :
      /\ call[r] \in {"returned", "failed"} => \A i \in snapshot : i.key # <<"pending", r>>
      /\ call[r] = "returned" => OfSession(snapshot, r) # {}

\* A bet whose hash is known and whose opening was pushed is never reported as
\* failed, in whichever order the two came.  (recentFlashblockOpensRef,
\* pendingOpenTransactionsRef, confirmedOpensRef.)
KeepsLanded ==
  [][\A r \in Rounds :
       /\ call[r] = "accepted" /\ chain[r].phase # "NONE" /\ faults.lost = 0
       /\ Opened(r) \notin Range(flash)
       => call'[r] # "failed"]_vars

-----------------------------------------------------------------------------
\* What the proofs need besides.  The types, but for those of the items:
StateTypes ==
  /\ chain \in [Rounds -> [phase : Phases, step : Steps, word : Steps]]
  /\ call \in [Rounds -> {"none", "past", "sent", "accepted", "returned", "failed"}]
  /\ flash \in Seq(Event) /\ indexed \in Seq(Event)
  /\ faults \in [lost : Nat, overtaken : Nat, toggled : Nat] /\ ready \in BOOLEAN
  /\ rows \in [Rounds -> Row] /\ patches \in [Rounds -> Patch]
  /\ confirmed \subseteq Rounds /\ optimistic \subseteq Rounds
  /\ submitted \in [Rounds -> Steps] /\ receipts \in [Rounds -> Steps]

\* A snapshot has one item of a session at most, and it is the published one.
PublishedOf(r) == OfSession(snapshot, r) = {published[r]} \ {NoItem}

\* A listed session is published, and so is one whose bet is reported as placed
\* unless the row of the bet stands for it; that row is confirmed by then.
BetsInv(r) ==
  /\ ready /\ Listed(rows[r]) => published[r] # NoItem
  /\ Sending(r) => r \in optimistic \/ published[r] # NoItem
  /\ call[r] = "returned" => r \in optimistic \/ published[r] # NoItem
  /\ call[r] \in {"returned", "failed"} /\ r \in optimistic => r \in confirmed

\* What a game may act on is in its patch or in its listed row, so that the one
\* can be pruned when the other has it.
EchoInv(r) ==
  published[r].phase = "WAITING_PLAYER_ACTION" =>
    /\ published[r].step \in Steps
    /\ \/ patches[r].step >= published[r].step
       \/ /\ Listed(rows[r])
          /\ ready => ~Over(rows[r]) /\ rows[r].step >= published[r].step

\* An opening that was pushed is remembered until its bet's hash is known.
PushedRemembered(r) ==
  faults.lost = 0 /\ chain[r].phase # "NONE" /\ Opened(r) \notin Range(flash) =>
    /\ call[r] = "sent" => r \in recentOpens
    /\ call[r] = "accepted" => r \in confirmedOpens
OpensInv(r) ==
  /\ r \in pendingOpens => call[r] \notin {"none", "past", "sent"}
  /\ call[r] = "accepted" => r \in pendingOpens \cup confirmedOpens
  /\ call[r] = "none" => chain[r].phase = "NONE"
  /\ PushedRemembered(r)

ViewIInv ==
  /\ StateTypes
  /\ \A r \in Rounds : PublishedOf(r) /\ BetsInv(r) /\ EchoInv(r) /\ OpensInv(r)

\* What the proof of StreamSpec needs besides.  How far the page has got with a
\* session, by its row and its patch, and the waiting step that one claims.
Rank(p) == IF Over(p) THEN Final ELSE p.step
Level(row, p) ==
  CASE Over(row) -> Final
    [] ~Over(row) /\ row.opened /\ row.step > Rank(p) -> row.step
    [] OTHER -> Rank(p)
Claims(r) ==
  {x \in {rows[r], patches[r]} \cup OfSession(watched, r) : x.phase \in Waiting /\ x.step # 0}
    \cup {e \in Range(flash) \cup Range(indexed) : e.round = r /\ e.phase \in Waiting}

\* A published session is listed or has a confirmed row of its bet, so none is
\* brought back while the wallet is ready; a published result is known.
PublishedKnown(r) ==
  published[r] # NoItem =>
    /\ Listed(rows[r]) \/ r \in optimistic \cap confirmed
    /\ Over(published[r]) => Level(rows[r], patches[r]) = Final
ConfirmedOpen(r) ==
  r \in confirmed => call[r] # "none" /\ (Sending(r) => r \in confirmedOpens)

\* What a game was shown is no further than the page has got, and the waiting
\* steps that are claimed anywhere agree.
WatchedOf(r) ==
  \A i \in OfSession(watched, r) :
    /\ \A j \in OfSession(watched, r) : i = j
    /\ published[r] # NoItem
    /\ i.step \in Nat /\ i.step <= Level(rows[r], patches[r])
    /\ \/ i.step = 0
       \/ i.step = Final /\ i.phase = "OVER"
       \/ i.step \in 1..MaxSteps /\ i.phase \in Waiting
ClaimsAgree(r) ==
  /\ rows[r].phase = "NONE" => rows[r].step = 0
  /\ patches[r].phase = "NONE" => patches[r].step = 0
  /\ \A x, y \in Claims(r) :
       x.step <= chain[r].step /\ (x.step = y.step => x.phase = y.phase)

StreamInv ==
  /\ ViewIInv
  /\ \A r \in Rounds : /\ PublishedKnown(r) /\ ConfirmedOpen(r)
                        /\ WatchedOf(r) /\ ClaimsAgree(r)
=============================================================================

-------------------------------- MODULE Guest --------------------------------
(***************************************************************************)
(* The game page (App.tsx with sessionRecovery.ts): the player's clicks,   *)
(* the effects that run on every snapshot, the animation of a round, and   *)
(* the calls to the host, each of which returns at its own time.  The host *)
(* and the chain are its environment: a bet is first shown under a         *)
(* temporary `pending' key, later under its session's, and a session is    *)
(* shown as over once.                                                     *)
(*                                                                         *)
(* A snapshot is the set of items [key, over].  What is only drawn, the    *)
(* sound, the size of the bet and the play money of the standalone demo    *)
(* are left out; the demo's animation is kept, because it shares the page. *)
(***************************************************************************)
EXTENDS Integers, SequencesExt

CONSTANTS
  MaxRounds,     \* bound: bets, the first of which may be of an earlier visit
  MaxReloads     \* bound: reloads of the page

ASSUME GuestAssumption == MaxRounds \in Nat \ {0} /\ MaxReloads \in Nat

Rounds == 1..MaxRounds
Demo == 0
None == -1

VARIABLES
  \* the host and the chain
  call,         \* openSession of a round: none, asked, accepted or refused
  optimistic,   \* the host's own row: none, pending or confirmed
  landed,       \* sessions on the chain, oldest first
  result,       \* how a session ended: none, won, lost or cancelled
  shown,        \* what the host's feeds show of it: none, open or over
  revealed,     \* how often revealOutcome was called for it
  \* the page
  connected,    \* hostApi
  standalone,   \* isStandalone
  loaded,       \* whether there is a snapshot
  snapshot,     \* its items
  activeKey,    \* activeSessionKey
  isRevealing,
  round,        \* the round on display, or None
  roundRef,
  opening,      \* calls of revealLoad that await openSession
  plays,        \* calls of playRound that show crates
  revealing,    \* calls of playRound that await revealOutcome
  reloads,
  taken,        \* history: sessions whose end the page took up
  tangled       \* history: a session was recovered or taken up while another
                \* was busy, or before its openSession had returned

hostVars == <<call, optimistic, landed, result, shown>>
stageVars == <<isRevealing, round, roundRef>>
threadVars == <<opening, plays, revealing>>
linkVars == <<connected, standalone, loaded, snapshot>>
pageVars == <<linkVars, stageVars, threadVars, activeKey, taken, tangled, reloads>>
vars == <<hostVars, revealed, pageVars>>

Keys == {"pending", "session"} \X Rounds
NoKey == <<"none", None>>
Item == [key : Keys, over : BOOLEAN]
OnChain == ToSet(landed)

\* What the host shows (mergeCasinoSessionItems): a pending row beside the
\* session until it learns that they are the same bet.
HostItems ==
  {[key |-> <<"pending", r>>, over |-> FALSE] :
     r \in {x \in Rounds : optimistic[x] = "pending"}}
  \cup
  {[key |-> <<"session", r>>, over |-> shown[r] = "over"] :
     r \in {x \in Rounds : optimistic[x] = "confirmed" \/ shown[x] # "none"}}

Init ==
  /\ \E earlier \in BOOLEAN :
       /\ call = [r \in Rounds |-> IF earlier /\ r = 1 THEN "accepted" ELSE "none"]
       /\ landed = IF earlier THEN <<1>> ELSE <<>>
  /\ optimistic = [r \in Rounds |-> "none"]
  /\ result = [r \in Rounds |-> "none"]
  /\ shown = [r \in Rounds |-> "none"]
  /\ revealed = [r \in Rounds |-> 0]
  /\ connected = FALSE /\ standalone = TRUE /\ loaded = FALSE /\ snapshot = {}
  /\ activeKey = NoKey /\ isRevealing = FALSE /\ round = None /\ roundRef = None
  /\ opening = {} /\ plays = {} /\ revealing = {}
  /\ reloads = 0 /\ taken = {} /\ tangled = FALSE

-----------------------------------------------------------------------------
\* connection.promise; one that rejects leaves the page standalone, as it starts.
Connect ==
  /\ ~connected
  /\ connected' = TRUE
  /\ standalone' = FALSE
  /\ UNCHANGED <<hostVars, revealed, loaded, snapshot, activeKey, stageVars,
                 threadVars, reloads, taken, tangled>>

Later(q, r) ==
  \E i, j \in DOMAIN landed : i < j /\ landed[i] = q /\ landed[j] = r

\* findRecoverableSession: the unsettled item with the latest event.  A pending
\* row's time is the browser's, which may differ from the chain's.
Newest(items) ==
  {i \in items : i.key[1] = "pending"} \cup
  {i \in items : /\ i.key[1] = "session"
                 /\ ~\E j \in items : j.key[1] = "session" /\ Later(i.key[2], j.key[2])}

\* The recovery effect: the key it leaves in activeSessionKey.
Recovered(items) ==
  LET open == {i \in items : ~i.over}
  IN IF activeKey # NoKey \/ open = {} THEN {activeKey}
                                       ELSE {i.key : i \in Newest(open)}

\* Mutant: the effect reads the snapshot of the render before.
EndedBefore(key) == [key |-> key, over |-> TRUE] \in snapshot
Ended(key) == [key |-> key, over |-> TRUE] \in HostItems
Busy(r) == opening \ {r} # {} \/ plays # {} \/ revealing # {}

\* Mutant: the key stays when the end was taken up.
TakeUpAgain(key) ==
  LET r == key[2]
  IN /\ activeKey' = key
     /\ taken' = taken \cup {r}
     /\ isRevealing' = TRUE
     /\ round' = r /\ roundRef' = r
     /\ plays' = plays \cup {r}
\* The settle effect takes up the end of the session under `key': the result is
\* played, or, when it does not decode, reported.  Cancelled sessions keep the
\* state they started with, which does not decode.
TakeUp(key) ==
  LET r == key[2]
  IN /\ activeKey' = NoKey
     /\ taken' = taken \cup {r}
     /\ IF result[r] = "cancelled"
        THEN /\ isRevealing' = FALSE
             /\ UNCHANGED <<round, roundRef, plays>>
        ELSE /\ isRevealing' = TRUE
             /\ round' = r /\ roundRef' = r
             /\ plays' = plays \cup {r}

\* A snapshot arrives, with or without news of the sessions, and both effects
\* run on it.
SetState ==
  /\ connected
  /\ loaded' = TRUE /\ standalone' = FALSE /\ snapshot' = HostItems
  /\ \E key \in Recovered(HostItems) :
       /\ tangled' = \/ tangled
                     \/ (key # activeKey \/ Ended(key)) /\ Busy(key[2])
                     \/ Ended(key) /\ key[2] \in opening
       /\ IF Ended(key)
          THEN TakeUp(key)
          ELSE /\ activeKey' = key
               /\ isRevealing' = (isRevealing \/ key # activeKey)
               /\ UNCHANGED <<round, roundRef, plays, taken>>
  /\ UNCHANGED <<hostVars, revealed, connected, opening, revealing, reloads>>

-----------------------------------------------------------------------------
\* choosePreset, or a click on New Load.
ResetRound ==
  /\ ~isRevealing /\ round # None
  /\ round' = None
  /\ UNCHANGED <<hostVars, revealed, linkVars, activeKey, isRevealing, roundRef,
                 threadVars, reloads, taken, tangled>>

\* A click on Reveal in the demo ...
PlayDemo ==
  /\ ~isRevealing /\ round = None /\ standalone
  /\ isRevealing' = TRUE /\ round' = Demo /\ roundRef' = Demo
  /\ plays' = plays \cup {Demo}
  /\ UNCHANGED <<hostVars, revealed, linkVars, activeKey, opening, revealing,
                 reloads, taken, tangled>>

\* Mutant: the button works while a round is under way.
RevealLoadAnytime(r) ==
  /\ round = None /\ loaded /\ connected
  /\ call[r] = "none" /\ \A q \in 1..(r - 1) : call[q] # "none"
  /\ isRevealing' = TRUE
  /\ opening' = opening \cup {r}
  /\ call' = [call EXCEPT ![r] = "asked"]
  /\ optimistic' = [optimistic EXCEPT ![r] = "pending"]
  /\ UNCHANGED <<landed, result, shown, revealed, linkVars, activeKey, round,
                 roundRef, plays, revealing, reloads, taken, tangled>>
\* ... and with a host: revealLoad up to its await, and the host's pending row.
\* The wager is within the limits.
RevealLoad(r) ==
  /\ ~isRevealing /\ round = None /\ loaded /\ connected
  /\ call[r] = "none" /\ \A q \in 1..(r - 1) : call[q] # "none"
  /\ isRevealing' = TRUE
  /\ opening' = opening \cup {r}
  /\ call' = [call EXCEPT ![r] = "asked"]
  /\ optimistic' = [optimistic EXCEPT ![r] = "pending"]
  /\ UNCHANGED <<landed, result, shown, revealed, linkVars, activeKey, round,
                 roundRef, plays, revealing, reloads, taken, tangled>>

\* openSession resolves with the session's key ...
OpenReturns(r) ==
  /\ call[r] = "asked" /\ r \in OnChain
  /\ call' = [call EXCEPT ![r] = "accepted"]
  /\ optimistic' = [optimistic EXCEPT ![r] = "confirmed"]
  /\ opening' = opening \ {r}
  /\ activeKey' = IF r \in opening THEN <<"session", r>> ELSE activeKey
  /\ UNCHANGED <<landed, result, shown, revealed, linkVars, stageVars, plays,
                 revealing, reloads, taken, tangled>>

\* ... or rejects, unless the host knows that the bet landed.
OpenThrows(r) ==
  /\ call[r] = "asked" /\ optimistic[r] = "pending"
  /\ call' = [call EXCEPT ![r] = "refused"]
  /\ optimistic' = [optimistic EXCEPT ![r] = "none"]
  /\ opening' = opening \ {r}
  /\ isRevealing' = (isRevealing /\ r \notin opening)
  /\ UNCHANGED <<landed, result, shown, revealed, linkVars, activeKey, round,
                 roundRef, plays, revealing, reloads, taken, tangled>>

\* playRound after its crates: another round that took the stage silences it.
PlaySilenced(r) ==
  /\ r \in plays /\ roundRef # r
  /\ plays' = plays \ {r}
  /\ UNCHANGED <<hostVars, revealed, linkVars, activeKey, stageVars, opening,
                 revealing, reloads, taken, tangled>>

DemoEnds ==
  /\ Demo \in plays /\ roundRef = Demo
  /\ plays' = plays \ {Demo}
  /\ isRevealing' = FALSE
  /\ UNCHANGED <<hostVars, revealed, linkVars, activeKey, round, roundRef,
                 opening, revealing, reloads, taken, tangled>>

\* Mutant: the round ends as in the demo, as with a stale isStandalone.
PlayShownAlone(r) ==
  /\ r \in plays \ {Demo} /\ roundRef = r
  /\ plays' = plays \ {r}
  /\ isRevealing' = FALSE
  /\ UNCHANGED <<hostVars, revealed, linkVars, activeKey, round, roundRef,
                 opening, revealing, reloads, taken, tangled>>
\* Mutant: the controls do not wait for the reveal.
PlayShownFreed(r) ==
  /\ r \in plays \ {Demo} /\ roundRef = r
  /\ plays' = plays \ {r}
  /\ revealing' = revealing \cup {r}
  /\ revealed' = [revealed EXCEPT ![r] = @ + 1]
  /\ isRevealing' = FALSE
  /\ UNCHANGED <<hostVars, linkVars, activeKey, round, roundRef, opening, reloads,
                 taken, tangled>>
\* Mutant: the stage is not checked before the reveal.
PlayShownUnchecked(r) ==
  /\ r \in plays \ {Demo}
  /\ plays' = plays \ {r}
  /\ revealing' = revealing \cup {r}
  /\ revealed' = [revealed EXCEPT ![r] = @ + 1]
  /\ UNCHANGED <<hostVars, linkVars, activeKey, stageVars, opening, reloads,
                 taken, tangled>>
PlayShown(r) ==
  /\ r \in plays \ {Demo} /\ roundRef = r
  /\ plays' = plays \ {r}
  /\ revealing' = revealing \cup {r}
  /\ revealed' = [revealed EXCEPT ![r] = @ + 1]
  /\ UNCHANGED <<hostVars, linkVars, activeKey, stageVars, opening, reloads,
                 taken, tangled>>

PlayEnds(r) ==
  /\ r \in revealing
  /\ revealing' = revealing \ {r}
  /\ isRevealing' = FALSE
  /\ UNCHANGED <<hostVars, revealed, linkVars, activeKey, round, roundRef,
                 opening, plays, reloads, taken, tangled>>

\* A revealOutcome that rejects is caught by nobody: the controls stay locked.
RevealThrows(r) ==
  /\ r \in revealing
  /\ revealing' = revealing \ {r}
  /\ UNCHANGED <<hostVars, revealed, linkVars, activeKey, stageVars, opening, plays,
                 reloads, taken, tangled>>

\* The frame is loaded anew; what it had asked of the host goes on.
Reload ==
  /\ reloads < MaxReloads
  /\ reloads' = reloads + 1
  /\ connected' = FALSE /\ standalone' = TRUE /\ loaded' = FALSE /\ snapshot' = {}
  /\ activeKey' = NoKey /\ isRevealing' = FALSE /\ round' = None /\ roundRef' = None
  /\ opening' = {} /\ plays' = {} /\ revealing' = {}
  /\ taken' = {}
  /\ UNCHANGED <<hostVars, revealed, tangled>>

-----------------------------------------------------------------------------
\* The environment.

\* A transaction may be mined after the host gave up on it.
Land(r) ==
  /\ call[r] \in {"asked", "refused"} /\ r \notin OnChain
  /\ landed' = Append(landed, r)
  /\ UNCHANGED <<call, optimistic, result, shown, revealed, pageVars>>

\* The host learns the session of a pending row from the fast channel.
Confirm(r) ==
  /\ optimistic[r] = "pending" /\ r \in OnChain
  /\ optimistic' = [optimistic EXCEPT ![r] = "confirmed"]
  /\ UNCHANGED <<call, landed, result, shown, revealed, pageVars>>

Settle(r, how) ==
  /\ r \in OnChain /\ result[r] = "none"
  /\ result' = [result EXCEPT ![r] = how]
  /\ UNCHANGED <<call, optimistic, landed, shown, revealed, pageVars>>

ShowOpen(r) ==
  /\ r \in OnChain /\ shown[r] = "none"
  /\ shown' = [shown EXCEPT ![r] = "open"]
  /\ UNCHANGED <<call, optimistic, landed, result, revealed, pageVars>>

ShowOver(r) ==
  /\ result[r] # "none" /\ shown[r] # "over"
  /\ shown' = [shown EXCEPT ![r] = "over"]
  /\ UNCHANGED <<call, optimistic, landed, result, revealed, pageVars>>

Next ==
  \/ Connect \/ SetState \/ ResetRound \/ PlayDemo \/ DemoEnds \/ Reload
  \/ \E r \in Rounds :
       \/ RevealLoad(r) \/ OpenReturns(r) \/ OpenThrows(r)
       \/ PlayShown(r) \/ PlayEnds(r) \/ RevealThrows(r)
       \/ Land(r) \/ Confirm(r) \/ ShowOpen(r) \/ ShowOver(r)
       \/ \E how \in {"won", "lost", "cancelled"} : Settle(r, how)
  \/ \E r \in Rounds \cup {Demo} : PlaySilenced(r)

Spec == Init /\ [][Next]_vars

\* The host pushes a snapshot that differs from the last one (and only
\* such a one), and answers; sessions end and are shown; animations go on.
FairSpec ==
  /\ Spec
  /\ WF_vars(DemoEnds)
  /\ WF_vars((~loaded \/ snapshot # HostItems) /\ SetState)
  /\ \A r \in Rounds :
       /\ WF_vars(OpenReturns(r) \/ OpenThrows(r))
       /\ WF_vars(PlaySilenced(r) \/ PlayShown(r)) /\ WF_vars(PlayEnds(r) \/ RevealThrows(r))
       /\ WF_vars(\E how \in {"won", "lost", "cancelled"} : Settle(r, how))
       /\ WF_vars(ShowOver(r))

-----------------------------------------------------------------------------
TypeOK ==
  /\ call \in [Rounds -> {"none", "asked", "accepted", "refused"}]
  /\ optimistic \in [Rounds -> {"none", "pending", "confirmed"}]
  /\ landed \in Seq(Rounds)
  /\ result \in [Rounds -> {"none", "won", "lost", "cancelled"}]
  /\ shown \in [Rounds -> {"none", "open", "over"}]
  /\ revealed \in [Rounds -> Nat]
  /\ connected \in BOOLEAN /\ standalone \in BOOLEAN /\ loaded \in BOOLEAN
  /\ snapshot \subseteq Item
  /\ activeKey \in Keys \cup {NoKey}
  /\ isRevealing \in BOOLEAN
  /\ round \in Rounds \cup {Demo, None} /\ roundRef \in Rounds \cup {Demo, None}
  /\ opening \subseteq Rounds /\ plays \subseteq Rounds \cup {Demo}
  /\ revealing \subseteq Rounds
  /\ reloads \in 0..MaxReloads /\ taken \subseteq Rounds /\ tangled \in BOOLEAN

\* The rounds that an unfinished call of revealLoad or playRound is about.
Threads == opening \cup plays \cup revealing

\* However often snapshots come and the page is reloaded, a session is revealed
\* at most once, as long as the rounds do not get tangled.  (activeSessionKey is
\* cleared before the round is played; a settled session is not recovered.)
RevealedOnce == ~tangled => \A r \in Rounds : revealed[r] <= 1

\* While a bet is being opened, shown or revealed, it is the only one and the
\* controls are locked, with the same exception.  (isRevealing has five writers,
\* none of which knows of the others, and an animation is awaited while effects
\* and clicks replace the state that it returns to.)
ControlsLocked == Threads # {} => isRevealing
OneRoundLocked == ~tangled => ControlsLocked /\ Cardinality(Threads) <= 1

\* When the controls are free again, every win the page took up has been
\* revealed to the host, which holds its credit back until then.
WinsRevealed ==
  ~tangled /\ ~isRevealing => \A r \in taken : result[r] = "won" => revealed[r] = 1

\* A session is revealed only while its round has the stage.
RevealsWhatItShows ==
  [][\A r \in Rounds : revealed'[r] > revealed[r] =>
       roundRef = r /\ (tangled \/ round = r)]_vars

\* What the proofs add: a session is over only if it landed, and landed only if
\* it was asked for; at most one call is unfinished, and its round is on
\* display while its crates are shown; a session that may still be taken up was
\* neither played nor revealed; and a win that was taken up is shown or revealed.
EnvInv ==
  \A r \in Rounds : /\ shown[r] = "over" => result[r] # "none"
                    /\ result[r] # "none" => r \in OnChain
                    /\ r \in OnChain => call[r] # "none"
OneThread ==
  /\ opening \cap plays = {} /\ opening \cap revealing = {}
  /\ plays \cap revealing = {}
  /\ \A x, y \in Threads : x = y
StageHeld == \A r \in plays : round = r /\ roundRef = r
Fresh(r) == activeKey = <<"session", r>> \/ r \in opening \/ shown[r] # "over"
PlaysFresh ==
  \A r \in Rounds : /\ revealed[r] <= 1
                    /\ Fresh(r) => revealed[r] = 0 /\ r \notin plays
                    /\ r \in plays => revealed[r] = 0
WinsKept ==
  \A r \in taken : /\ result[r] # "none"
                   /\ result[r] = "won" => r \in plays \/ revealed[r] = 1
PageInv ==
  /\ OneThread
  /\ Threads # {} => isRevealing
  /\ StageHeld
  /\ PlaysFresh
  /\ WinsKept
GuestInv == TypeOK /\ EnvInv /\ (~tangled => PageInv)

\* A session whose key the page holds before it is shown as over is played and
\* revealed, unless it was cancelled, its openSession failed nevertheless, the
\* rounds got tangled or the page was reloaded.
Over(r) == [key |-> <<"session", r>>, over |-> TRUE] \in snapshot
RoundsComplete ==
  \A r \in Rounds :
    (activeKey = <<"session", r>> /\ ~Over(r))
      ~> (\/ revealed[r] = 1 \/ result[r] = "cancelled"
          \/ call[r] = "refused" \/ tangled \/ reloads > 0)

\* The SDK's guide: a game never replays a session's presentation because a new
\* snapshot arrived.  A session that was recovered and has ended before its
\* openSession returns is taken up again by the next snapshot.
PlayedOnce == \A r \in Rounds : revealed[r] <= 1

\* The SDK's guide: the page calls revealOutcome when its result presentation
\* has finished; a cancelled session pays its stake back and is never revealed.
PayoutsRevealed ==
  ~tangled /\ ~isRevealing =>
    \A r \in taken : result[r] \in {"won", "cancelled"} => revealed[r] = 1
=============================================================================

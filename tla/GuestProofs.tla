----------------------------- MODULE GuestProofs -----------------------------
(***************************************************************************)
(* Theorems about Guest, for any number of rounds and of reloads.          *)
(*                                                                         *)
(* The invariant has three parts, each kept by every step: the types, what *)
(* the environment does (EnvInv), and what the page does while no rounds   *)
(* got tangled (PageInv).  For the last, the actions are sorted by what    *)
(* they do to the calls that are unfinished: nothing, end one, begin one,  *)
(* or pass one on.                                                         *)
(***************************************************************************)
EXTENDS Guest, FiniteSetTheorems, TLAPS

-----------------------------------------------------------------------------
(* The pieces the actions are made of.                                     *)

\* What the host shows are items, each session shown once, as over or not.
LEMMA HostItemsType ==
  /\ HostItems \subseteq Item
  /\ \A k : [key |-> k, over |-> TRUE] \in HostItems =>
       \E r \in Rounds : k = <<"session", r>> /\ shown[r] = "over"
  /\ \A r : [key |-> <<"session", r>>, over |-> FALSE] \in HostItems
              => shown[r] # "over"
<1>1. HostItems \subseteq Item
  <2>1. \A r \in Rounds : <<"pending", r>> \in Keys /\ <<"session", r>> \in Keys
    BY DEF Keys
  <2>2. \A r \in Rounds : [key |-> <<"pending", r>>, over |-> FALSE] \in Item
    BY <2>1 DEF Item
  <2>3. \A r \in Rounds : (shown[r] = "over") \in BOOLEAN
    OBVIOUS
  <2>4. \A r \in Rounds :
          [key |-> <<"session", r>>, over |-> shown[r] = "over"] \in Item
    BY <2>1, <2>3 DEF Item
  <2>. QED
    BY <2>2, <2>4 DEF HostItems
<1>2. \A k : [key |-> k, over |-> TRUE] \in HostItems =>
        \E r \in Rounds : k = <<"session", r>> /\ shown[r] = "over"
  BY DEF HostItems
<1>3. \A r : [key |-> <<"session", r>>, over |-> FALSE] \in HostItems
              => shown[r] # "over"
  BY DEF HostItems
<1>. QED
  BY <1>1, <1>2, <1>3

\* The recovery effect keeps the key or takes that of an item not over.
LEMMA RecoveredKey ==
  ASSUME NEW key \in Recovered(HostItems)
  PROVE  \/ key = activeKey
         \/ key \in Keys /\ [key |-> key, over |-> FALSE] \in HostItems
<1>. DEFINE open == {i \in HostItems : ~i.over}
<1>1. CASE activeKey # NoKey \/ open = {}
  BY <1>1 DEF Recovered
<1>2. CASE ~(activeKey # NoKey \/ open = {})
  <2>1. PICK i \in Newest(open) : key = i.key
    BY <1>2 DEF Recovered
  <2>2. i \in HostItems /\ ~i.over
    BY <2>1 DEF Newest
  <2>3. i \in Item
    BY <2>2, HostItemsType
  <2>4. i.key \in Keys /\ i = [key |-> i.key, over |-> FALSE]
    BY <2>2, <2>3 DEF Item
  <2>. QED
    BY <2>1, <2>2, <2>4
<1>. QED
  BY <1>1, <1>2

\* Appending a session to the chain adds it to those on the chain.
LEMMA AppendOnChain ==
  ASSUME NEW s \in Seq(Rounds), NEW r \in Rounds
  PROVE  /\ Append(s, r) \in Seq(Rounds)
         /\ ToSet(Append(s, r)) = ToSet(s) \cup {r}
<1>1. Append(s, r) \in Seq(Rounds) /\ Len(Append(s, r)) = Len(s) + 1
  OBVIOUS
<1>2. \A i \in 1..Len(s) : Append(s, r)[i] = s[i]
  OBVIOUS
<1>3. Append(s, r)[Len(s) + 1] = r
  OBVIOUS
<1>4. /\ DOMAIN s = 1..Len(s) /\ Len(s) \in Nat
      /\ DOMAIN Append(s, r) = 1..(Len(s) + 1)
  BY <1>1
<1>. QED
  BY <1>1, <1>2, <1>3, <1>4 DEF ToSet

-----------------------------------------------------------------------------
(* Types.                                                                  *)

LEMMA InitType == Init => TypeOK
<1>. SUFFICES ASSUME Init PROVE TypeOK
  OBVIOUS
<1>1. 1 \in Rounds
  BY GuestAssumption DEF Rounds
<1>2. landed \in Seq(Rounds)
  BY <1>1 DEF Init
<1>3. call \in [Rounds -> {"none", "asked", "accepted", "refused"}]
  BY DEF Init
<1>4. reloads \in 0..MaxReloads
  BY GuestAssumption DEF Init
<1>. QED
  BY <1>2, <1>3, <1>4 DEF Init, TypeOK

\* A session's key is a key, and the keys the page may hold are those of items.
LEMMA KeyFacts ==
  /\ \A r \in Rounds : <<"session", r>> \in Keys /\ <<"pending", r>> \in Keys
  /\ NoKey \notin Keys
  /\ \A r \in Rounds : r # Demo /\ r # None
BY GuestAssumption DEF Keys, NoKey, Rounds, None, Demo

\* A snapshot with both its effects leaves a page of the right type.
LEMMA SetStateType ==
  ASSUME TypeOK, SetState
  PROVE  TypeOK'
<1>. PICK key \in Recovered(HostItems) :
       /\ tangled' = \/ tangled
                     \/ (key # activeKey \/ Ended(key)) /\ Busy(key[2])
                     \/ Ended(key) /\ key[2] \in opening
       /\ IF Ended(key)
          THEN TakeUp(key)
          ELSE /\ activeKey' = key
               /\ isRevealing' = (isRevealing \/ key # activeKey)
               /\ UNCHANGED <<round, roundRef, plays, taken>>
  BY DEF SetState
<1>1. key \in Keys \cup {NoKey}
  BY RecoveredKey DEF TypeOK
<1>2. /\ UNCHANGED <<call, optimistic, landed, result, shown, revealed,
                     connected, opening, revealing, reloads>>
      /\ loaded' = TRUE /\ standalone' = FALSE /\ snapshot' = HostItems
  BY DEF SetState, hostVars
<1>3. tangled' \in BOOLEAN
  BY DEF TypeOK
<1>4. /\ activeKey' \in Keys \cup {NoKey} /\ isRevealing' \in BOOLEAN
      /\ round' \in Rounds \cup {Demo, None} /\ roundRef' \in Rounds \cup {Demo, None}
      /\ plays' \subseteq Rounds \cup {Demo} /\ taken' \subseteq Rounds
  <2>1. CASE Ended(key)
    <3>1. key[2] \in Rounds
      BY <2>1, HostItemsType DEF Ended
    <3>2. activeKey' = NoKey /\ taken' = taken \cup {key[2]}
      BY <2>1 DEF TakeUp
    <3>3. CASE result[key[2]] = "cancelled"
      BY <2>1, <3>1, <3>2, <3>3 DEF TakeUp, TypeOK
    <3>4. CASE result[key[2]] # "cancelled"
      <4>1. /\ isRevealing' = TRUE /\ round' = key[2] /\ roundRef' = key[2]
            /\ plays' = plays \cup {key[2]}
        BY <2>1, <3>4 DEF TakeUp
      <4>. QED
        BY <3>1, <3>2, <4>1 DEF TypeOK
    <3>. QED
      BY <3>3, <3>4
  <2>2. CASE ~Ended(key)
    BY <1>1, <2>2 DEF TypeOK
  <2>. QED
    BY <2>1, <2>2
<1>. QED
  BY <1>2, <1>3, <1>4, HostItemsType DEF TypeOK

\* The other actions change single fields to values of their types.
LEMMA StepType == TypeOK /\ [Next]_vars => TypeOK'
<1>. SUFFICES ASSUME TypeOK, [Next]_vars PROVE TypeOK'
  OBVIOUS
<1>. USE DEF hostVars, stageVars, threadVars, linkVars, pageVars
<1>1. CASE UNCHANGED vars
  BY <1>1 DEF vars, TypeOK
<1>2. CASE SetState
  BY <1>2, SetStateType
<1>3. CASE Connect \/ ResetRound \/ DemoEnds
  BY <1>3 DEF Connect, ResetRound, DemoEnds, TypeOK
<1>4. CASE PlayDemo
  BY <1>4 DEF PlayDemo, TypeOK
<1>5. CASE Reload
  <2>1. reloads' \in 0..MaxReloads
    BY <1>5, GuestAssumption DEF Reload, TypeOK
  <2>. QED
    BY <1>5, <2>1 DEF Reload, TypeOK
<1>6. ASSUME NEW r \in Rounds, RevealLoad(r)
      PROVE  TypeOK'
  BY <1>6 DEF RevealLoad, TypeOK
<1>7. ASSUME NEW r \in Rounds, OpenReturns(r)
      PROVE  TypeOK'
  <2>1. activeKey' \in Keys \cup {NoKey}
    BY <1>7, KeyFacts DEF OpenReturns, TypeOK
  <2>. QED
    BY <1>7, <2>1 DEF OpenReturns, TypeOK
<1>8. ASSUME NEW r \in Rounds, OpenThrows(r)
      PROVE  TypeOK'
  <2>1. isRevealing' \in BOOLEAN
    BY <1>8 DEF OpenThrows, TypeOK
  <2>. QED
    BY <1>8, <2>1 DEF OpenThrows, TypeOK
<1>9. ASSUME NEW r \in Rounds, PlayShown(r)
      PROVE  TypeOK'
  <2>1. revealed' \in [Rounds -> Nat]
    BY <1>9 DEF PlayShown, TypeOK
  <2>. QED
    BY <1>9, <2>1 DEF PlayShown, TypeOK
<1>10. ASSUME NEW r \in Rounds, PlayEnds(r) \/ RevealThrows(r)
       PROVE  TypeOK'
  BY <1>10 DEF PlayEnds, RevealThrows, TypeOK
<1>11. ASSUME NEW r \in Rounds \cup {Demo}, PlaySilenced(r)
       PROVE  TypeOK'
  BY <1>11 DEF PlaySilenced, TypeOK
<1>12. ASSUME NEW r \in Rounds, Land(r)
       PROVE  TypeOK'
  <2>1. landed' \in Seq(Rounds)
    BY <1>12, AppendOnChain DEF Land, TypeOK
  <2>. QED
    BY <1>12, <2>1 DEF Land, TypeOK
<1>13. ASSUME NEW r \in Rounds, Confirm(r) \/ ShowOpen(r) \/ ShowOver(r)
       PROVE  TypeOK'
  BY <1>13 DEF Confirm, ShowOpen, ShowOver, TypeOK
<1>14. ASSUME NEW r \in Rounds, NEW how \in {"won", "lost", "cancelled"},
              Settle(r, how)
       PROVE  TypeOK'
  BY <1>14 DEF Settle, TypeOK
<1>. QED
  BY <1>1, <1>2, <1>3, <1>4, <1>5, <1>6, <1>7, <1>8, <1>9, <1>10, <1>11, <1>12,
     <1>13, <1>14 DEF Next

-----------------------------------------------------------------------------
(* The environment.                                                        *)

LEMMA InitEnv == Init => EnvInv
<1>. SUFFICES ASSUME Init PROVE EnvInv
  OBVIOUS
<1>1. PICK earlier \in BOOLEAN :
        /\ call = [r \in Rounds |-> IF earlier /\ r = 1 THEN "accepted" ELSE "none"]
        /\ landed = IF earlier THEN <<1>> ELSE <<>>
  BY DEF Init
<1>2. \A r \in OnChain : earlier /\ r = 1
  BY <1>1 DEF OnChain, ToSet
<1>3. \A r \in Rounds : shown[r] = "none" /\ result[r] = "none"
  BY DEF Init
<1>. QED
  BY <1>1, <1>2, <1>3 DEF EnvInv

\* Nothing is over that has not ended, and nothing lands that was not asked for.
LEMMA StepEnv == TypeOK /\ EnvInv /\ [Next]_vars => EnvInv'
<1>. SUFFICES ASSUME TypeOK, EnvInv, [Next]_vars PROVE EnvInv'
  OBVIOUS
<1>. USE DEF hostVars, pageVars
<1>1. CASE UNCHANGED <<call, landed, result, shown>>
  BY <1>1 DEF EnvInv, OnChain
<1>2. ASSUME NEW r \in Rounds, RevealLoad(r) \/ OpenReturns(r) \/ OpenThrows(r)
      PROVE  EnvInv'
  <2>1. PICK to \in {"asked", "accepted", "refused"} :
             call' = [call EXCEPT ![r] = to]
    BY <1>2 DEF RevealLoad, OpenReturns, OpenThrows
  <2>2. UNCHANGED <<landed, result, shown>>
    BY <1>2 DEF RevealLoad, OpenReturns, OpenThrows
  <2>. QED
    BY <2>1, <2>2 DEF EnvInv, OnChain, TypeOK
<1>3. ASSUME NEW r \in Rounds, Land(r)
      PROVE  EnvInv'
  <2>1. OnChain' = OnChain \cup {r}
    BY <1>3, AppendOnChain DEF Land, OnChain, TypeOK
  <2>. QED
    BY <1>3, <2>1 DEF Land, EnvInv
<1>4. ASSUME NEW r \in Rounds, NEW how \in {"won", "lost", "cancelled"},
             Settle(r, how)
      PROVE  EnvInv'
  BY <1>4 DEF Settle, EnvInv, OnChain, TypeOK
<1>5. ASSUME NEW r \in Rounds, ShowOpen(r) \/ ShowOver(r)
      PROVE  EnvInv'
  BY <1>5 DEF ShowOpen, ShowOver, EnvInv, OnChain, TypeOK
<1>6. ASSUME NEW r \in Rounds, PlayShown(r) \/ PlayEnds(r) \/ RevealThrows(r) \/ Confirm(r)
      PROVE  EnvInv'
  BY <1>1, <1>6 DEF PlayShown, PlayEnds, RevealThrows, Confirm
<1>7. ASSUME NEW r \in Rounds \cup {Demo}, PlaySilenced(r)
      PROVE  EnvInv'
  BY <1>1, <1>7 DEF PlaySilenced
<1>8. CASE \/ Connect \/ SetState \/ ResetRound \/ PlayDemo \/ DemoEnds \/ Reload
           \/ UNCHANGED vars
  BY <1>1, <1>8 DEF Connect, SetState, ResetRound, PlayDemo, DemoEnds, Reload, vars
<1>. QED
  BY <1>2, <1>3, <1>4, <1>5, <1>6, <1>7, <1>8 DEF Next

-----------------------------------------------------------------------------
(* The page, while no rounds got tangled.                                  *)

LEMMA InitPage == Init => PageInv
<1>. SUFFICES ASSUME Init PROVE PageInv
  OBVIOUS
<1>1. /\ opening = {} /\ plays = {} /\ revealing = {} /\ taken = {}
      /\ \A r \in Rounds : revealed[r] = 0
  BY DEF Init
<1>. QED
  BY <1>1 DEF PageInv, OneThread, Threads, StageHeld, PlaysFresh, WinsKept

\* No call begins: what is unfinished stays so, or all of it ended.
LEMMA ThreadsKept ==
  ASSUME PageInv,
         opening' \subseteq opening, plays' \subseteq plays,
         revealing' \subseteq revealing,
         Threads' = {} \/ isRevealing' = isRevealing,
         plays' = {} \/ (round' = round /\ roundRef' = roundRef)
  PROVE  OneThread' /\ (Threads' # {} => isRevealing') /\ StageHeld'
<1>1. Threads' \subseteq Threads
  BY DEF Threads
<1>2. OneThread'
  BY <1>1 DEF PageInv, OneThread
<1>3. Threads' # {} => isRevealing'
  BY <1>1 DEF PageInv
<1>4. StageHeld'
  BY DEF PageInv, StageHeld
<1>. QED
  BY <1>2, <1>3, <1>4

\* No session becomes fresh, is played or is revealed.
LEMMA FreshKept ==
  ASSUME PageInv, revealed' = revealed,
         \A r \in Rounds : r \in plays' => r \in plays,
         \A r \in Rounds : Fresh(r)' => Fresh(r)
  PROVE  PlaysFresh'
BY DEF PageInv, PlaysFresh

\* The sessions that were taken up stay what they are.
LEMMA TakenKept ==
  ASSUME PageInv, revealed' = revealed, taken' \subseteq taken,
         \A r \in taken : result'[r] = result[r] /\ (r \in plays => r \in plays')
  PROVE  WinsKept'
BY DEF PageInv, WinsKept

\* The one unfinished call is that of x.
LEMMA OnlyThread ==
  ASSUME PageInv, NEW x \in Threads
  PROVE  /\ Threads = {x}
         /\ x \in opening => plays = {} /\ revealing = {}
         /\ x \in plays => opening = {} /\ revealing = {}
         /\ x \in revealing => opening = {} /\ plays = {}
BY DEF PageInv, OneThread, Threads

\* An effect that takes up a session finds no call unfinished.
LEMMA SetStatePage ==
  ASSUME TypeOK, EnvInv, PageInv, SetState, ~tangled'
  PROVE  PageInv'
<1>. PICK key \in Recovered(HostItems) :
       /\ tangled' = \/ tangled
                     \/ (key # activeKey \/ Ended(key)) /\ Busy(key[2])
                     \/ Ended(key) /\ key[2] \in opening
       /\ IF Ended(key)
          THEN TakeUp(key)
          ELSE /\ activeKey' = key
               /\ isRevealing' = (isRevealing \/ key # activeKey)
               /\ UNCHANGED <<round, roundRef, plays, taken>>
  BY DEF SetState
<1>1. UNCHANGED <<result, shown, revealed, opening, revealing>>
  BY DEF SetState, hostVars
<1>2. CASE Ended(key)
  <2>. DEFINE r == key[2]
  <2>1. r \in Rounds /\ key = <<"session", r>> /\ shown[r] = "over"
    BY <1>2, HostItemsType DEF Ended
  <2>2. key = activeKey
    BY <2>1, RecoveredKey, HostItemsType
  <2>3. Threads = {}
    BY <1>2 DEF Threads, Busy
  <2>4. Fresh(r) /\ revealed[r] = 0
    BY <2>1, <2>2 DEF Fresh, PageInv, PlaysFresh
  <2>5. activeKey' = NoKey /\ taken' = taken \cup {r}
    BY <1>2 DEF TakeUp
  <2>6. \A q \in Rounds : Fresh(q)' => Fresh(q) /\ q # r
    BY <1>1, <2>1, <2>3, <2>5 DEF Fresh, NoKey, Threads
  <2>7. result[r] # "none"
    BY <2>1 DEF EnvInv
  <2>8. CASE result[r] = "cancelled"
    <3>1. UNCHANGED <<round, roundRef, plays>>
      BY <1>2, <2>8 DEF TakeUp
    <3>2. Threads' = {}
      BY <1>1, <2>3, <3>1 DEF Threads
    <3>3. OneThread' /\ (Threads' # {} => isRevealing') /\ StageHeld'
      BY <1>1, <3>1, <3>2, ThreadsKept
    <3>4. PlaysFresh'
      BY <1>1, <2>6, <3>1, FreshKept
    <3>5. WinsKept'
      BY <1>1, <2>5, <2>8, <3>1 DEF PageInv, WinsKept
    <3>. QED
      BY <3>3, <3>4, <3>5 DEF PageInv
  <2>9. CASE result[r] # "cancelled"
    <3>1. isRevealing' = TRUE /\ round' = r /\ roundRef' = r /\ plays' = {r}
      BY <1>2, <2>3, <2>9 DEF TakeUp, Threads
    <3>2. opening' = {} /\ revealing' = {}
      BY <1>1, <2>3 DEF Threads
    <3>3. OneThread' /\ StageHeld'
      BY <3>1, <3>2 DEF OneThread, Threads, StageHeld
    <3>4. PlaysFresh'
      BY <1>1, <2>4, <2>6, <3>1 DEF PageInv, PlaysFresh
    <3>5. plays = {}
      BY <2>3 DEF Threads
    <3>6. WinsKept'
      BY <1>1, <2>5, <2>7, <3>1, <3>5 DEF PageInv, WinsKept
    <3>. QED
      BY <3>1, <3>3, <3>4, <3>6 DEF PageInv
  <2>. QED
    BY <2>8, <2>9
<1>3. CASE ~Ended(key)
  <2>1. /\ UNCHANGED <<round, roundRef, plays, taken>> /\ activeKey' = key
        /\ isRevealing => isRevealing'
    BY <1>3
  <2>2. \A r \in Rounds : Fresh(r)' => Fresh(r)
    BY <1>1, <2>1, RecoveredKey, HostItemsType DEF Fresh
  <2>3. OneThread' /\ (Threads' # {} => isRevealing') /\ StageHeld'
    BY <1>1, <2>1 DEF PageInv, OneThread, Threads, StageHeld
  <2>4. PlaysFresh'
    BY <1>1, <2>1, <2>2, FreshKept
  <2>5. WinsKept'
    BY <1>1, <2>1, TakenKept
  <2>. QED
    BY <2>3, <2>4, <2>5 DEF PageInv
<1>. QED
  BY <1>2, <1>3

\* A round of the demo or a bet begins when no call is unfinished.
LEMMA BeginsPage ==
  ASSUME TypeOK, EnvInv, PageInv, PlayDemo \/ \E r \in Rounds : RevealLoad(r)
  PROVE  PageInv'
<1>1. Threads = {} /\ opening = {} /\ plays = {} /\ revealing = {}
  BY DEF PlayDemo, RevealLoad, PageInv, Threads
<1>2. /\ UNCHANGED <<result, shown, revealed, activeKey, revealing, taken>>
      /\ isRevealing' = TRUE
  BY DEF PlayDemo, RevealLoad, hostVars, linkVars
<1>3. CASE PlayDemo
  <2>1. plays' = {Demo} /\ round' = Demo /\ roundRef' = Demo /\ opening' = {}
    BY <1>1, <1>3 DEF PlayDemo
  <2>2. OneThread' /\ StageHeld'
    BY <1>1, <1>2, <2>1 DEF OneThread, Threads, StageHeld
  <2>3. PlaysFresh'
    BY <1>1, <1>2, <2>1, KeyFacts DEF PageInv, PlaysFresh, Fresh
  <2>4. WinsKept'
    BY <1>1, <1>2, TakenKept
  <2>. QED
    BY <1>2, <2>2, <2>3, <2>4 DEF PageInv
<1>4. ASSUME NEW r \in Rounds, RevealLoad(r)
      PROVE  PageInv'
  <2>1. /\ opening' = {r} /\ call[r] = "none"
        /\ UNCHANGED <<plays, round, roundRef>>
    BY <1>1, <1>4 DEF RevealLoad
  <2>2. OneThread' /\ StageHeld'
    BY <1>1, <1>2, <2>1 DEF OneThread, Threads, StageHeld
  <2>3. Fresh(r)
    BY <2>1 DEF EnvInv, Fresh
  <2>4. PlaysFresh'
    <3>1. \A q \in Rounds : Fresh(q)' => Fresh(q)
      BY <1>2, <2>1, <2>3 DEF Fresh
    <3>. QED
      BY <1>2, <2>1, <3>1, FreshKept
  <2>5. WinsKept'
    BY <1>2, <2>1, TakenKept
  <2>. QED
    BY <1>2, <2>2, <2>4, <2>5 DEF PageInv
<1>. QED
  BY <1>3, <1>4

\* openSession returns or throws.
LEMMA OpenPage ==
  ASSUME TypeOK, PageInv, NEW r \in Rounds, OpenReturns(r) \/ OpenThrows(r)
  PROVE  PageInv'
<1>1. /\ UNCHANGED <<result, shown, revealed, round, roundRef, plays, revealing,
                     taken>>
      /\ opening' = opening \ {r}
  BY DEF OpenReturns, OpenThrows, stageVars
<1>2. Threads' = {} \/ isRevealing' = isRevealing
  <2>1. CASE OpenReturns(r)
    BY <2>1 DEF OpenReturns, stageVars
  <2>2. CASE OpenThrows(r) /\ r \notin opening
    BY <2>2 DEF OpenThrows, TypeOK
  <2>3. CASE r \in opening
    BY <1>1, <2>3, OnlyThread DEF Threads
  <2>. QED
    BY <2>1, <2>2, <2>3
<1>3. \A q \in Rounds : Fresh(q)' => Fresh(q)
  BY <1>1 DEF OpenReturns, OpenThrows, Fresh
<1>4. OneThread' /\ (Threads' # {} => isRevealing') /\ StageHeld'
  BY <1>1, <1>2, ThreadsKept
<1>5. PlaysFresh'
  BY <1>1, <1>3, FreshKept
<1>6. WinsKept'
  BY <1>1, TakenKept
<1>. QED
  BY <1>4, <1>5, <1>6 DEF PageInv

\* The crates of a bet were shown: it is revealed for the first time.
LEMMA PlayShownPage ==
  ASSUME TypeOK, PageInv, NEW r \in Rounds, PlayShown(r)
  PROVE  PageInv'
<1>1. /\ UNCHANGED <<result, shown, activeKey, opening, isRevealing, round,
                     roundRef, taken>>
      /\ r \in plays /\ plays' = plays \ {r} /\ revealing' = revealing \cup {r}
      /\ revealed' = [revealed EXCEPT ![r] = @ + 1]
  BY DEF PlayShown, hostVars, stageVars, linkVars
<1>2. Threads = {r} /\ opening = {} /\ revealing = {} /\ plays = {r}
  BY <1>1, OnlyThread DEF Threads
<1>3. opening' = {} /\ plays' = {} /\ revealing' = {r}
  BY <1>1, <1>2
<1>4. OneThread' /\ StageHeld' /\ (Threads' # {} => isRevealing')
  BY <1>1, <1>2, <1>3 DEF PageInv, OneThread, Threads, StageHeld
<1>5. revealed[r] = 0 /\ ~Fresh(r)
  BY <1>1 DEF PageInv, PlaysFresh
<1>6. revealed'[r] = 1 /\ \A q \in Rounds \ {r} : revealed'[q] = revealed[q]
  BY <1>1, <1>5 DEF TypeOK
<1>7. \A q \in Rounds : Fresh(q)' = Fresh(q)
  BY <1>1 DEF Fresh
<1>8. PlaysFresh'
  BY <1>3, <1>5, <1>6, <1>7 DEF PageInv, PlaysFresh
<1>9. WinsKept'
  BY <1>1, <1>2, <1>6 DEF PageInv, WinsKept, TypeOK
<1>. QED
  BY <1>4, <1>8, <1>9 DEF PageInv

\* A call ends, or is silenced, which the stage does not let happen.
LEMMA PlayEndsPage ==
  ASSUME TypeOK, PageInv,
         \/ DemoEnds \/ \E r \in Rounds : PlayEnds(r) \/ RevealThrows(r)
         \/ \E r \in Rounds \cup {Demo} : PlaySilenced(r)
  PROVE  PageInv'
<1>1. UNCHANGED <<result, shown, revealed, activeKey, opening, round, roundRef,
                  taken>>
  BY DEF DemoEnds, PlayEnds, RevealThrows, PlaySilenced, hostVars, linkVars, stageVars
<1>2. \A q \in Rounds : Fresh(q)' => Fresh(q)
  BY <1>1 DEF Fresh
<1>3. ~\E r \in Rounds \cup {Demo} : PlaySilenced(r)
  BY DEF PlaySilenced, PageInv, StageHeld
<1>4. /\ Threads' = {} /\ plays' \subseteq plays /\ revealing' \subseteq revealing
      /\ \A r \in Rounds : r \in plays => r \in plays'
  <2>1. CASE DemoEnds
    <3>1. Demo \in plays /\ plays' = plays \ {Demo} /\ revealing' = revealing
      BY <2>1 DEF DemoEnds
    <3>2. opening = {} /\ revealing = {} /\ plays = {Demo}
      BY <3>1, OnlyThread DEF Threads
    <3>. QED
      BY <1>1, <3>1, <3>2, KeyFacts DEF Threads
  <2>2. ASSUME NEW r \in Rounds, PlayEnds(r) \/ RevealThrows(r)
        PROVE  /\ Threads' = {} /\ plays' = plays /\ revealing' \subseteq revealing
    <3>1. r \in revealing /\ revealing' = revealing \ {r} /\ plays' = plays
      BY <2>2 DEF PlayEnds, RevealThrows
    <3>2. opening = {} /\ plays = {} /\ revealing = {r}
      BY <3>1, OnlyThread DEF Threads
    <3>. QED
      BY <1>1, <3>1, <3>2 DEF Threads
  <2>. QED
    BY <1>3, <2>1, <2>2
<1>5. OneThread' /\ (Threads' # {} => isRevealing') /\ StageHeld'
  BY <1>1, <1>4, ThreadsKept
<1>6. PlaysFresh'
  BY <1>1, <1>2, <1>4, FreshKept
<1>7. WinsKept'
  BY <1>1, <1>4, TakenKept DEF TypeOK
<1>. QED
  BY <1>5, <1>6, <1>7 DEF PageInv

\* A reload forgets everything.
LEMMA ReloadPage ==
  ASSUME PageInv, Reload
  PROVE  PageInv'
<1>1. /\ opening' = {} /\ plays' = {} /\ revealing' = {} /\ taken' = {}
      /\ activeKey' = NoKey /\ UNCHANGED <<shown, revealed>>
  BY DEF Reload, hostVars
<1>2. OneThread' /\ (Threads' # {} => isRevealing') /\ StageHeld' /\ WinsKept'
  BY <1>1 DEF OneThread, Threads, StageHeld, WinsKept
<1>3. \A q \in Rounds : Fresh(q)' => Fresh(q)
  BY <1>1 DEF Fresh, NoKey
<1>4. PlaysFresh'
  BY <1>1, <1>3, FreshKept
<1>. QED
  BY <1>2, <1>4 DEF PageInv

\* The chain, the host's feeds, the connection and a click on New Load leave
\* every call and every key alone.
LEMMA OthersPage ==
  ASSUME TypeOK, PageInv,
         \/ Connect \/ ResetRound \/ UNCHANGED vars
         \/ \E r \in Rounds : Land(r) \/ Confirm(r) \/ ShowOpen(r) \/ ShowOver(r)
         \/ \E r \in Rounds, how \in {"won", "lost", "cancelled"} : Settle(r, how)
  PROVE  PageInv'
<1>. USE DEF hostVars, pageVars, stageVars, threadVars, linkVars, vars
<1>1. UNCHANGED <<revealed, activeKey, opening, plays, revealing, isRevealing,
                  taken, roundRef>>
  BY DEF Connect, ResetRound, Land, Confirm, ShowOpen, ShowOver, Settle
<1>2. plays' = {} \/ round' = round
  BY DEF PageInv, Threads, Connect, ResetRound, Land, Confirm, ShowOpen, ShowOver,
         Settle
<1>3. \A q \in Rounds : shown[q] = "over" => shown'[q] = "over"
  BY DEF Connect, ResetRound, Land, Confirm, ShowOpen, ShowOver, Settle, TypeOK
<1>4. \A q \in taken : result'[q] = result[q]
  <2>1. \A q \in taken : q \in Rounds /\ result[q] # "none"
    BY DEF PageInv, WinsKept, TypeOK
  <2>. QED
    BY <2>1 DEF Connect, ResetRound, Land, Confirm, ShowOpen, ShowOver, Settle,
                TypeOK
<1>5. OneThread' /\ (Threads' # {} => isRevealing') /\ StageHeld'
  BY <1>1, <1>2, ThreadsKept
<1>6. \A q \in Rounds : Fresh(q)' => Fresh(q)
  BY <1>1, <1>3 DEF Fresh
<1>7. PlaysFresh'
  BY <1>1, <1>6, FreshKept
<1>8. WinsKept'
  BY <1>1, <1>4, TakenKept
<1>. QED
  BY <1>5, <1>7, <1>8 DEF PageInv

\* No step untangles the rounds.
LEMMA StaysTangled == [Next]_vars /\ tangled => tangled'
<1>. SUFFICES ASSUME [Next]_vars, tangled PROVE tangled'
  OBVIOUS
<1>1. CASE SetState
  BY <1>1 DEF SetState
<1>2. CASE \/ Connect \/ ResetRound \/ PlayDemo \/ DemoEnds \/ Reload
           \/ UNCHANGED vars
  BY <1>2 DEF Connect, ResetRound, PlayDemo, DemoEnds, Reload, vars, pageVars
<1>3. ASSUME NEW r \in Rounds \cup {Demo},
             \/ RevealLoad(r) \/ OpenReturns(r) \/ OpenThrows(r)
             \/ PlayShown(r) \/ PlayEnds(r) \/ RevealThrows(r) \/ PlaySilenced(r)
      PROVE  tangled'
  BY <1>3 DEF RevealLoad, OpenReturns, OpenThrows, PlayShown, PlayEnds,
             RevealThrows, PlaySilenced
<1>4. ASSUME NEW r \in Rounds,
             \/ Land(r) \/ Confirm(r) \/ ShowOpen(r) \/ ShowOver(r)
             \/ \E how \in {"won", "lost", "cancelled"} : Settle(r, how)
      PROVE  tangled'
  BY <1>4 DEF Land, Confirm, ShowOpen, ShowOver, Settle, pageVars
<1>. QED
  BY <1>1, <1>2, <1>3, <1>4 DEF Next

LEMMA StepPage ==
  TypeOK /\ EnvInv /\ PageInv /\ [Next]_vars /\ ~tangled' => PageInv'
<1>. SUFFICES ASSUME TypeOK, EnvInv, PageInv, [Next]_vars, ~tangled'
              PROVE  PageInv'
  OBVIOUS
<1>1. CASE SetState
  BY <1>1, SetStatePage
<1>2. CASE PlayDemo \/ \E r \in Rounds : RevealLoad(r)
  BY <1>2, BeginsPage
<1>3. CASE \E r \in Rounds : OpenReturns(r) \/ OpenThrows(r)
  BY <1>3, OpenPage
<1>4. CASE \E r \in Rounds : PlayShown(r)
  BY <1>4, PlayShownPage
<1>5. CASE \/ DemoEnds \/ \E r \in Rounds : PlayEnds(r) \/ RevealThrows(r)
           \/ \E r \in Rounds \cup {Demo} : PlaySilenced(r)
  BY <1>5, PlayEndsPage
<1>6. CASE Reload
  BY <1>6, ReloadPage
<1>7. CASE \/ Connect \/ ResetRound \/ UNCHANGED vars
           \/ \E r \in Rounds : Land(r) \/ Confirm(r) \/ ShowOpen(r) \/ ShowOver(r)
           \/ \E r \in Rounds, how \in {"won", "lost", "cancelled"} : Settle(r, how)
  BY <1>7, OthersPage
<1>. QED
  BY <1>1, <1>2, <1>3, <1>4, <1>5, <1>6, <1>7 DEF Next

-----------------------------------------------------------------------------
(* The theorems.                                                           *)

LEMMA InitGuest == Init => GuestInv
BY InitType, InitEnv, InitPage DEF GuestInv

LEMMA StepGuest == GuestInv /\ [Next]_vars => GuestInv'
BY StepType, StepEnv, StepPage, StaysTangled DEF GuestInv

\* The page's state keeps its types, however its calls and effects interleave.
THEOREM GuestTypeCorrect == Spec => []TypeOK
<1>1. GuestInv => TypeOK
  BY DEF GuestInv
<1>. QED
  BY <1>1, InitGuest, StepGuest, PTL DEF Spec

\* A session is revealed to the host at most once over any number of snapshots,
\* rounds and reloads, unless rounds got tangled.
THEOREM GuestRevealsOnce == Spec => []RevealedOnce
<1>1. GuestInv => RevealedOnce
  BY DEF GuestInv, PageInv, PlaysFresh, RevealedOnce
<1>. QED
  BY <1>1, InitGuest, StepGuest, PTL DEF Spec

\* At most one bet is being opened, shown or revealed, and the controls are
\* locked while it is.
THEOREM GuestOneRoundLocked == Spec => []OneRoundLocked
<1>1. GuestInv => OneRoundLocked
  <2>. SUFFICES ASSUME PageInv PROVE Cardinality(Threads) <= 1
    BY DEF GuestInv, OneRoundLocked, PageInv, ControlsLocked
  <2>1. CASE Threads = {}
    BY <2>1, FS_EmptySet
  <2>2. CASE Threads # {}
    <3>1. PICK x \in Threads : TRUE
      BY <2>2
    <3>2. Threads = {x}
      BY <3>1, OnlyThread
    <3>3. Cardinality({x}) = 1
      BY FS_Singleton
    <3>. QED
      BY <3>2, <3>3
  <2>. QED
    BY <2>1, <2>2
<1>. QED
  BY <1>1, InitGuest, StepGuest, PTL DEF Spec

\* When the controls are free, every win the page took up was revealed.
THEOREM GuestWinsRevealed == Spec => []WinsRevealed
<1>1. GuestInv => WinsRevealed
  <2>. SUFFICES ASSUME PageInv, ~isRevealing, NEW r \in taken, result[r] = "won"
                PROVE  revealed[r] = 1
    BY DEF GuestInv, WinsRevealed
  <2>1. plays = {}
    BY DEF PageInv, Threads
  <2>. QED
    BY <2>1 DEF PageInv, WinsKept
<1>. QED
  BY <1>1, InitGuest, StepGuest, PTL DEF Spec

\* A session is revealed only while its round has the stage.
THEOREM GuestRevealsWhatItShows == Spec => RevealsWhatItShows
<1>. DEFINE A == \A r \in Rounds : revealed'[r] > revealed[r] =>
                   roundRef = r /\ (tangled \/ round = r)
<1>1. GuestInv /\ [Next]_vars => [A]_vars
  <2>. SUFFICES ASSUME GuestInv, Next, NEW r \in Rounds, revealed'[r] > revealed[r]
                PROVE  roundRef = r /\ (tangled \/ round = r)
    BY DEF vars
  <2>1. CASE \E q \in Rounds : PlayShown(q)
    <3>1. PICK q \in Rounds : PlayShown(q)
      BY <2>1
    <3>2. q = r
      BY <3>1 DEF PlayShown, GuestInv, TypeOK
    <3>. QED
      BY <3>1, <3>2 DEF PlayShown, GuestInv, PageInv, StageHeld
  <2>2. CASE ~\E q \in Rounds : PlayShown(q)
    <3>1. revealed' = revealed
      BY <2>2 DEF Next, hostVars, linkVars, stageVars, Connect, SetState, ResetRound,
                  PlayDemo, DemoEnds, Reload, RevealLoad, OpenReturns, OpenThrows,
                  PlayEnds, RevealThrows, PlaySilenced, Land, Confirm, ShowOpen, ShowOver, Settle
    <3>2. revealed[r] \in Nat
      BY DEF GuestInv, TypeOK
    <3>. QED
      BY <3>1, <3>2
  <2>. QED
    BY <2>1, <2>2
<1>. QED
  BY <1>1, InitGuest, StepGuest, PTL DEF Spec, RevealsWhatItShows
=============================================================================

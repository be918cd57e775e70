-------------------------- MODULE SessionViewProofs --------------------------
(***************************************************************************)
(* What a game may rely on in the snapshots of the host page, for every    *)
(* number of bets, steps, logs and faults: no session vanishes and no      *)
(* result is taken back, a bet is shown once, what a game is asked to act  *)
(* on can be echoed, a bet whose opening was pushed is not reported as     *)
(* failed, sessions go forward only, and when everything is delivered the  *)
(* game sees every session as the chain has it.                            *)
(*                                                                         *)
(* The merge that builds a snapshot is taken apart first: NewItem is the   *)
(* one item of a session that a snapshot has (ViewItem).  The invariants   *)
(* are ViewIInv, StreamInv and Arrives, each on top of the one before; a   *)
(* step publishes, moves the store or the patches, moves a call, or moves  *)
(* the chain.                                                              *)
(***************************************************************************)
EXTENDS SessionView, SequenceTheorems, WellFoundedInduction, TLAPS

-----------------------------------------------------------------------------
(* Sequences of events                                                     *)

\* Taking an event out of a queue leaves the others in it.
LEMMA RemoveAtKeeps ==
  ASSUME NEW S, NEW s \in Seq(S), NEW i \in DOMAIN s
  PROVE  /\ RemoveAt(s, i) \in Seq(S) /\ s[i] \in Range(s)
         /\ \A e \in Range(s) : e # s[i] => e \in Range(RemoveAt(s, i))
         /\ Range(RemoveAt(s, i)) \subseteq Range(s)
<1>1. Len(s) \in Nat /\ DOMAIN s = 1..Len(s) /\ i \in 1..Len(s)
  BY LenProperties
<1>. DEFINE before == SubSeq(s, 1, i - 1)
            after == SubSeq(s, i + 1, Len(s))
<1>2. \A j \in 1..Len(s) : s[j] \in S
  BY ElementOfSeq
<1>3. before \in Seq(S) /\ Len(before) = i - 1 /\ \A j \in 1..(i - 1) : before[j] = s[j]
  <2>1. \A j \in 1..(i - 1) : s[j] \in S
    BY <1>1, <1>2
  <2>2. 1 \in Int /\ i - 1 \in Int
    BY <1>1
  <2>. HIDE DEF before
  <2>3. /\ before \in Seq(S)
        /\ Len(before) = IF 1 <= i - 1 THEN (i - 1) - 1 + 1 ELSE 0
        /\ \A j \in 1..((i - 1) - 1 + 1) : before[j] = s[1 + j - 1]
    BY <2>1, <2>2, SubSeqProperties DEF before
  <2>. QED
    BY <1>1, <2>3
<1>4. after \in Seq(S) /\ Len(after) = Len(s) - i
      /\ \A j \in 1..(Len(s) - i) : after[j] = s[i + j]
  <2>1. \A j \in (i + 1)..Len(s) : s[j] \in S
    BY <1>1, <1>2
  <2>2. i + 1 \in Int /\ Len(s) \in Int
    BY <1>1
  <2>. HIDE DEF after
  <2>3. /\ after \in Seq(S)
        /\ Len(after) = IF i + 1 <= Len(s) THEN Len(s) - (i + 1) + 1 ELSE 0
        /\ \A j \in 1..(Len(s) - (i + 1) + 1) : after[j] = s[(i + 1) + j - 1]
    BY <2>1, <2>2, SubSeqProperties DEF after
  <2>4. Len(s) - (i + 1) + 1 = Len(s) - i /\ \A j \in Int : (i + 1) + j - 1 = i + j
    BY <1>1
  <2>5. \A j \in 1..(Len(s) - i) : after[j] = s[i + j]
    <3>. SUFFICES ASSUME NEW j \in 1..(Len(s) - i) PROVE after[j] = s[i + j]
      OBVIOUS
    <3>1. j \in 1..(Len(s) - (i + 1) + 1) /\ (i + 1) + j - 1 = i + j
      BY <1>1, <2>4
    <3>. QED
      BY <2>3, <3>1
  <2>6. Len(after) = Len(s) - i
    BY <1>1, <2>3
  <2>. QED
    BY <2>3, <2>5, <2>6
<1>5. RemoveAt(s, i) = before \o after
  BY DEF RemoveAt
<1>. HIDE DEF before, after
<1>6. RemoveAt(s, i) \in Seq(S) /\ Range(RemoveAt(s, i)) = Range(before) \cup Range(after)
  BY <1>3, <1>4, <1>5, ConcatProperties, RangeConcatenation
<1>7. ASSUME NEW e \in Range(s), e # s[i] PROVE e \in Range(before) \cup Range(after)
  <2>1. PICK j \in 1..Len(s) : e = s[j]
    BY <1>1, RangeEquality
  <2>2. Range(before) = {before[k] : k \in 1..(i - 1)}
        /\ Range(after) = {after[k] : k \in 1..(Len(s) - i)}
    BY <1>3, <1>4, RangeEquality
  <2>3. CASE j < i
    BY <1>1, <1>3, <2>1, <2>2, <2>3
  <2>4. CASE j > i
    <3>1. j - i \in 1..(Len(s) - i) /\ i + (j - i) = j
      BY <1>1, <2>1, <2>4
    <3>. QED
      BY <1>4, <2>1, <2>2, <3>1
  <2>. QED
    BY <1>1, <1>7, <2>1, <2>3, <2>4
<1>8. Range(before) \cup Range(after) \subseteq Range(s) /\ s[i] \in Range(s)
  <2>1. Range(s) = {s[k] : k \in 1..Len(s)}
        /\ Range(before) = {before[k] : k \in 1..(i - 1)}
        /\ Range(after) = {after[k] : k \in 1..(Len(s) - i)}
    BY <1>3, <1>4, RangeEquality
  <2>2. \A k \in 1..(i - 1) : k \in 1..Len(s)
    BY <1>1
  <2>3. \A k \in 1..(Len(s) - i) : i + k \in 1..Len(s)
    BY <1>1
  <2>. QED
    BY <1>1, <1>3, <1>4, <2>1, <2>2, <2>3
<1>. QED
  BY <1>6, <1>7, <1>8

\* What a channel is fed with: all of it, unless logs are lost.
LEMMA FedAppends ==
  ASSUME NEW queue \in Seq(Event), NEW events \in Seq(Event), NEW k \in 0..Len(events)
  PROVE  LET fed == queue \o SubSeq(events, k + 1, Len(events))
         IN  /\ fed \in Seq(Event)
             /\ Range(queue) \subseteq Range(fed)
             /\ k = 0 => Range(events) \subseteq Range(fed)
             /\ Range(fed) \subseteq Range(queue) \cup Range(events)
<1>. DEFINE rest == SubSeq(events, k + 1, Len(events))
<1>1. Len(events) \in Nat /\ \A j \in 1..Len(events) : events[j] \in Event
  BY LenProperties, ElementOfSeq
<1>2. rest \in Seq(Event) /\ Range(rest) \subseteq Range(events)
  <2>1. \A j \in (k + 1)..Len(events) : events[j] \in Event
    BY <1>1
  <2>2. k + 1 \in Int /\ Len(events) \in Int
    BY <1>1
  <2>. HIDE DEF rest
  <2>3. /\ rest \in Seq(Event)
        /\ Len(rest) = IF k + 1 <= Len(events) THEN Len(events) - (k + 1) + 1 ELSE 0
        /\ \A j \in 1..(Len(events) - (k + 1) + 1) : rest[j] = events[(k + 1) + j - 1]
    BY <2>1, <2>2, SubSeqProperties DEF rest
  <2>4. Range(rest) = {rest[j] : j \in 1..Len(rest)}
        /\ Range(events) = {events[j] : j \in 1..Len(events)}
    BY <2>3, RangeEquality
  <2>5. ASSUME NEW j \in 1..Len(rest)
        PROVE  rest[j] \in Range(events)
    <3>1. /\ j \in 1..(Len(events) - (k + 1) + 1)
          /\ (k + 1) + j - 1 \in 1..Len(events)
      BY <1>1, <2>3
    <3>. QED
      BY <2>3, <2>4, <3>1
  <2>. QED
    BY <2>3, <2>4, <2>5
<1>3. k = 0 => rest = events
  BY <1>1, SubSeqFull
<1>. HIDE DEF rest
<1>4. queue \o rest \in Seq(Event) /\ Range(queue \o rest) = Range(queue) \cup Range(rest)
  BY <1>2, ConcatProperties, RangeConcatenation
<1>. QED
  BY <1>2, <1>3, <1>4 DEF rest

-----------------------------------------------------------------------------
(* The store and the patches                                               *)

LEMMA StepsAreNats == Steps \subseteq Nat /\ 0 \in Steps /\ Final \in Nat
BY ViewAssumption DEF Steps, Final

\* A row stays a row, and a listed one stays listed.
LEMMA EvolvedIsRow ==
  ASSUME NEW row \in Row, NEW e \in Event
  PROVE  Evolved(row, e) \in Row /\ (Listed(row) => Listed(Evolved(row, e)))
<1>1. ASSUME NEW words \in [Steps -> Steps], NEW nonce \in Steps, NEW word \in Steps
      PROVE  Fulfilled(words, nonce, word) \in [Steps -> Steps]
  BY DEF Fulfilled
<1>2. row.step \in Steps /\ row.words \in [Steps -> Steps] /\ e.word \in Steps
      /\ e.step \in Steps /\ e.phase \in Phases
  BY DEF Row, Event
<1>3. Fulfilled(row.words, row.step, e.word) \in [Steps -> Steps]
  BY <1>1, <1>2
<1>4. CASE e.phase = "NONE"
  <2>1. Evolved(row, e) = [row EXCEPT !.opened = TRUE]
    BY <1>4 DEF Evolved
  <2>. QED
    BY <2>1 DEF Row, Listed, Over
<1>5. CASE e.phase = "OVER"
  <2>1. Evolved(row, e) = [row EXCEPT !.phase = "OVER",
                                      !.words = Fulfilled(row.words, row.step, e.word)]
    BY <1>5 DEF Evolved, Row
  <2>. QED
    BY <1>3, <2>1 DEF Row, Listed, Over, Phases, Waiting
<1>6. CASE e.phase \notin {"NONE", "OVER"}
  <2>1. CASE Over(row) \/ e.step <= row.step
    BY <1>6, <2>1 DEF Evolved
  <2>2. CASE ~(Over(row) \/ e.step <= row.step)
    <3>1. e.step - 1 \in Steps
      <4>1. e.step > row.step /\ e.step \in 0..MaxSteps /\ row.step \in 0..MaxSteps
        BY <1>2, <2>2 DEF Steps
      <4>. QED
        BY <4>1, ViewAssumption DEF Steps
    <3>2. Fulfilled(row.words, e.step - 1, e.word) \in [Steps -> Steps]
      BY <1>1, <1>2, <3>1
    <3>3. Evolved(row, e) = [row EXCEPT !.step = e.step, !.phase = e.phase,
                               !.words = Fulfilled(row.words, e.step - 1, e.word)]
      BY <1>6, <2>2 DEF Evolved, Row
    <3>. QED
      BY <1>2, <2>2, <3>2, <3>3 DEF Row, Listed, Over
  <2>. QED
    BY <2>1, <2>2
<1>. QED
  BY <1>4, <1>5, <1>6

\* A patch stays a patch and does not go back.
LEMMA PatchedIsPatch ==
  ASSUME NEW p \in Patch, NEW e \in Event
  PROVE  Patched(p, e) \in Patch /\ Patched(p, e).step >= p.step
<1>1. /\ p.step \in Steps /\ p.asked \in Steps /\ p.step \in Nat
      /\ e.word \in Steps /\ e.step \in Steps /\ e.step \in Nat /\ e.phase \in Phases
  BY StepsAreNats DEF Patch, Event
<1>2. ASSUME NEW x \in Patch, NEW n \in Steps
      PROVE  Answered(x, n, e.word) \in Patch /\ Answered(x, n, e.word).step = x.step
  <2>1. CASE e.word = 0
    BY <2>1 DEF Answered
  <2>2. CASE e.word # 0 /\ n = 0
    <3>1. Answered(x, n, e.word) = [x EXCEPT !.word = e.word]
      BY <2>2 DEF Answered
    <3>. QED
      BY <1>1, <3>1 DEF Patch
  <2>3. CASE e.word # 0 /\ n # 0
    <3>1. Answered(x, n, e.word) = [x EXCEPT !.word = e.word, !.nonce = n]
      BY <2>3 DEF Answered
    <3>. QED
      BY <1>1, <3>1 DEF Patch
  <2>. QED
    BY <2>1, <2>2, <2>3
<1>3. CASE e.phase = "NONE" \/ Over(p)
  <2>1. Patched(p, e) = p
    BY <1>3 DEF Patched
  <2>. QED
    BY <1>1, <2>1
<1>4. CASE e.phase = "OVER" /\ ~Over(p)
  <2>. DEFINE q == [p EXCEPT !.phase = "OVER"]
              nonce == IF p.asked # 0 THEN p.asked ELSE p.step
  <2>1. q \in Patch /\ nonce \in Steps /\ q.step = p.step
    BY <1>1 DEF Patch, Phases
  <2>2. Patched(p, e) = Answered(q, nonce, e.word)
    BY <1>4 DEF Patched
  <2>. HIDE DEF q, nonce
  <2>3. Answered(q, nonce, e.word) \in Patch /\ Answered(q, nonce, e.word).step = q.step
    BY <1>2, <2>1
  <2>. QED
    BY <1>1, <2>1, <2>2, <2>3
<1>5. CASE e.phase \notin {"NONE", "OVER"} /\ ~Over(p)
  <2>1. CASE e.step <= p.step
    <3>1. Patched(p, e) = p
      BY <1>5, <2>1 DEF Patched
    <3>. QED
      BY <1>1, <3>1
  <2>2. CASE ~(e.step <= p.step)
    <3>. DEFINE q == [p EXCEPT !.step = e.step, !.phase = e.phase,
                        !.asked = IF e.phase = "WAITING_RANDOMNESS" THEN e.step ELSE p.asked]
    <3>1. q \in Patch /\ q.step = e.step
      BY <1>1 DEF Patch
    <3>2. e.step - 1 \in Steps
      BY <1>1, <2>2, ViewAssumption DEF Steps
    <3>3. Patched(p, e) = Answered(q, e.step - 1, e.word)
      BY <1>5, <2>2 DEF Patched, Patch
    <3>. HIDE DEF q
    <3>4. Answered(q, e.step - 1, e.word) \in Patch
          /\ Answered(q, e.step - 1, e.word).step = q.step
      BY <1>2, <3>1, <3>2
    <3>. QED
      BY <1>1, <2>2, <3>1, <3>3, <3>4
  <2>. QED
    BY <2>1, <2>2
<1>. QED
  BY <1>3, <1>4, <1>5

\* Where the patch is ahead of an unfinished row, it gives the step; a finished
\* row stays finished.
LEMMA MergedStep ==
  ASSUME NEW row \in Row, NEW p \in Patch
  PROVE  /\ Over(row) => MergedRow(row, p).phase = "OVER"
         /\ ~Over(row) => MergedRow(row, p).step = IF p.step > row.step THEN p.step ELSE row.step
<1>. DEFINE ahead == [row EXCEPT !.step = p.step, !.phase = p.phase]
            over == [row EXCEPT !.phase = "OVER"]
            merged == IF Over(row) THEN row
                      ELSE IF p.step > row.step THEN ahead
                      ELSE IF Over(p) THEN over ELSE row
            words == IF p.nonce = 0 THEN merged.words
                     ELSE Fulfilled(merged.words, p.nonce, p.word)
<1>1. MergedRow(row, p) = [merged EXCEPT !.words = words]
  <2>1. CASE Over(row)
    BY <2>1 DEF MergedRow
  <2>2. CASE ~Over(row) /\ p.step > row.step
    BY <2>2 DEF MergedRow
  <2>3. CASE ~Over(row) /\ ~(p.step > row.step)
    BY <2>3 DEF MergedRow
  <2>. QED
    BY <2>1, <2>2, <2>3
<1>2. MergedRow(row, p).phase = merged.phase /\ MergedRow(row, p).step = merged.step
  <2>. HIDE DEF words
  <2>. QED
    BY <1>1 DEF Row
<1>3. /\ Over(row) => merged.phase = "OVER"
      /\ ~Over(row) => merged.step = IF p.step > row.step THEN p.step ELSE row.step
  BY DEF Row, Over
<1>. QED
  BY <1>2, <1>3

-----------------------------------------------------------------------------
(* The snapshot, session by session                                        *)

ListOK(list) == DOMAIN list \subseteq Rounds /\ \A r \in DOMAIN list : list[r] \in Row
Hides(list, r) == r \in Optimistic(list) \cap confirmed

\* The item of a session that the next snapshot has: the row of its bet, its row
\* in the list, or what was published of it.
NewItem(list, r) ==
  IF Hides(list, r) THEN Reconciled(list, OptimisticItem(list, r))
  ELSE IF r \in DOMAIN list THEN Reconciled(list, Projected(list, r))
  ELSE published[r]

LEMMA RowsAreOK ==
  ASSUME NEW store \in [Rounds -> Row], NEW isReady \in BOOLEAN
  PROVE  /\ ListOK(SessionRows(store, isReady))
         /\ DOMAIN SessionRows(store, isReady) = {r \in Rounds : isReady /\ Listed(store[r])}
         /\ \A r \in DOMAIN SessionRows(store, isReady) :
              SessionRows(store, isReady)[r] = store[r]
BY DEF ListOK, SessionRows, Restrict

\* The keys of the items.
LEMMA ItemKeys ==
  ASSUME NEW list, NEW r
  PROVE  /\ Projected(list, r).key = <<"session", r>>
         /\ OptimisticItem(list, r).key =
              IF r \in confirmed THEN <<"session", r>> ELSE <<"pending", r>>
<1>1. \A key, phase, step, word : Shown(key, phase, step, word).key = key
  BY DEF Shown
<1>2. Projected(list, r).key = <<"session", r>>
  BY <1>1 DEF Projected
<1>. DEFINE base == Shown(<<"session", r>>, "WAITING_RANDOMNESS", 0, 0)
<1>3. [base EXCEPT !.key = <<"pending", r>>].key = <<"pending", r>>
  BY DEF Shown
<1>4. base.key = <<"session", r>>
  BY <1>1
<1>. HIDE DEF base
<1>5. CASE r \notin confirmed
  <2>1. OptimisticItem(list, r) = [base EXCEPT !.key = <<"pending", r>>]
    BY <1>5 DEF OptimisticItem, base
  <2>. QED
    BY <1>2, <1>3, <1>5, <2>1
<1>6. CASE r \in confirmed /\ r \in DOMAIN list
  <2>1. OptimisticItem(list, r) = base
    BY <1>6 DEF OptimisticItem, base
  <2>. QED
    BY <1>2, <1>4, <1>6, <2>1
<1>7. CASE r \in confirmed /\ r \notin DOMAIN list
  <2>1. OptimisticItem(list, r) =
          Shown(base.key, IF patches[r].phase = "NONE" THEN base.phase ELSE patches[r].phase,
                patches[r].step, patches[r].word)
    BY <1>7 DEF OptimisticItem, base
  <2>. QED
    BY <1>1, <1>2, <1>4, <1>7, <2>1
<1>. QED
  BY <1>5, <1>6, <1>7

\* What was published of a session has its key.
LEMMA PublishedKey ==
  ASSUME NEW r, PublishedOf(r)
  PROVE  published[r] = NoItem \/ published[r].key = <<"session", r>>
BY DEF PublishedOf, OfSession

LEMMA ReconciledKey ==
  ASSUME \A q \in Rounds : PublishedOf(q), NEW list, NEW i, NEW q \in Rounds,
         i.key \in {<<"session", q>>, <<"pending", q>>}
  PROVE  /\ Reconciled(list, i).key = i.key
         /\ i.key = <<"session", q>> =>
              Reconciled(list, i) = IF ~Over(i) /\ Over(Released(list)[q])
                                    THEN Released(list)[q] ELSE i
<1>1. Released(list)[q] \in {NoItem, published[q]}
  BY DEF Released
<1>2. ~Over(NoItem)
  BY DEF Over, NoItem
<1>3. i.key = <<"session", q>> => i.key[1] = "session" /\ i.key[2] = q
  OBVIOUS
<1>4. i.key = <<"pending", q>> => i.key[1] # "session"
  OBVIOUS
<1>5. Over(Released(list)[q]) => Released(list)[q].key = <<"session", q>>
  BY <1>1, <1>2, PublishedKey
<1>. QED
  BY <1>3, <1>4, <1>5 DEF Reconciled

\* A snapshot has one item of a session at most, and this is it.
LEMMA ViewItem ==
  ASSUME StateTypes, \A q \in Rounds : PublishedOf(q),
         NEW list, ListOK(list), NEW r \in Rounds
  PROVE  OfSession(View(list), r) = {NewItem(list, r)} \ {NoItem}
<1>. DEFINE S == {i \in Items(list) : i.key = <<"session", r>>}
            hidden == OptimisticItem(list, r)
            own == Projected(list, r)
<1>1. NoItem.key # <<"session", r>>
  BY DEF NoItem
<1>2. Optimistic(list) \subseteq Rounds /\ DOMAIN list \subseteq Rounds
  BY DEF Optimistic, StateTypes, ListOK
<1>3. ASSUME NEW i \in Items(list)
      PROVE  /\ \E q \in Rounds : i.key \in {<<"session", q>>, <<"pending", q>>}
             /\ i.key = <<"session", r>> =>
                  IF Hides(list, r) THEN i = hidden ELSE r \in DOMAIN list /\ i = own
  <2>1. CASE \E q \in Optimistic(list) : i = OptimisticItem(list, q)
    <3>1. PICK q \in Optimistic(list) : i = OptimisticItem(list, q)
      BY <2>1
    <3>2. i.key = IF q \in confirmed THEN <<"session", q>> ELSE <<"pending", q>>
      BY <3>1, ItemKeys
    <3>3. i.key = <<"session", r>> => q = r /\ q \in confirmed
      BY <3>2
    <3>. QED
      BY <1>2, <3>1, <3>2, <3>3 DEF Hides
  <2>2. CASE \E q \in DOMAIN list \ (Optimistic(list) \cap confirmed) : i = Projected(list, q)
    <3>1. PICK q \in DOMAIN list \ (Optimistic(list) \cap confirmed) : i = Projected(list, q)
      BY <2>2
    <3>2. i.key = <<"session", q>>
      BY <3>1, ItemKeys
    <3>3. i.key = <<"session", r>> => q = r
      BY <3>2
    <3>. QED
      BY <1>2, <3>1, <3>2, <3>3 DEF Hides
  <2>. QED
    BY <2>1, <2>2 DEF Items
<1>4. Hides(list, r) => hidden \in Items(list) /\ hidden.key = <<"session", r>>
  BY ItemKeys DEF Hides, Items
<1>5. ~Hides(list, r) /\ r \in DOMAIN list => own \in Items(list) /\ own.key = <<"session", r>>
  BY ItemKeys DEF Hides, Items
<1>6. S = IF Hides(list, r) THEN {hidden} ELSE IF r \in DOMAIN list THEN {own} ELSE {}
  <2>. HIDE DEF hidden, own
  <2>. QED
    BY <1>3, <1>4, <1>5
<1>7. OfSession(View(list), r) = {Reconciled(list, i) : i \in S}
                                  \cup {j \in Dropped(list) : j.key = <<"session", r>>}
  <2>1. \A i \in Items(list) : Reconciled(list, i).key = i.key
    BY <1>3, ReconciledKey
  <2>. QED
    BY <2>1 DEF OfSession, View
<1>8. \A q \in Rounds : Released(list)[q] = NoItem \/ Released(list)[q].key = <<"session", q>>
  BY PublishedKey DEF Released
<1>9. {j \in Dropped(list) : j.key = <<"session", r>>} =
        IF S = {} THEN {Released(list)[r]} \ {NoItem} ELSE {}
  <2>1. ASSUME NEW j \in Dropped(list), j.key = <<"session", r>>
        PROVE  S = {} /\ j = Released(list)[r] /\ j # NoItem
    <3>1. PICK q \in Rounds : /\ j = Released(list)[q] /\ j # NoItem
                              /\ \A i \in Items(list) : i.key # <<"session", q>>
      BY DEF Dropped
    <3>2. q = r
      BY <1>8, <2>1, <3>1
    <3>. QED
      BY <3>1, <3>2
  <2>2. ASSUME S = {}, Released(list)[r] # NoItem
        PROVE  Released(list)[r] \in Dropped(list)
               /\ Released(list)[r].key = <<"session", r>>
    BY <1>8, <2>2 DEF Dropped
  <2>. HIDE DEF S
  <2>. QED
    BY <2>1, <2>2
<1>10. r \notin DOMAIN list => Released(list)[r] = published[r]
  BY DEF Released
<1>11. \A i \in S : Reconciled(list, i) # NoItem
  BY <1>1, ReconciledKey
<1>. HIDE DEF S, hidden, own
<1>12. CASE Hides(list, r)
  <2>1. S = {hidden} /\ NewItem(list, r) = Reconciled(list, hidden)
    BY <1>6, <1>12 DEF NewItem, hidden
  <2>. QED
    BY <1>7, <1>9, <1>11, <2>1
<1>13. CASE ~Hides(list, r) /\ r \in DOMAIN list
  <2>1. S = {own} /\ NewItem(list, r) = Reconciled(list, own)
    BY <1>6, <1>13 DEF NewItem, own
  <2>. QED
    BY <1>7, <1>9, <1>11, <2>1
<1>14. CASE ~Hides(list, r) /\ r \notin DOMAIN list
  <2>1. S = {} /\ NewItem(list, r) = published[r]
    BY <1>6, <1>14 DEF NewItem
  <2>. QED
    BY <1>7, <1>9, <1>10, <1>14, <2>1
<1>. QED
  BY <1>12, <1>13, <1>14

\* Publishing makes it the published one.
LEMMA PublishItem ==
  ASSUME StateTypes, \A q \in Rounds : PublishedOf(q),
         NEW list, ListOK(list), NEW isReady, Publish(list, isReady), NEW r \in Rounds
  PROVE  published'[r] = NewItem(list, r) /\ PublishedOf(r)'
<1>1. OfSession(View(list), r) = {NewItem(list, r)} \ {NoItem}
  BY ViewItem
<1>2. published'[r] = NewItem(list, r)
  BY <1>1 DEF Publish
<1>3. OfSession(snapshot', r) = OfSession(View(list), r)
  BY DEF Publish
<1>. QED
  BY <1>1, <1>2, <1>3 DEF PublishedOf

\* What Reconciled gives for the item of a session.
LEMMA NewItemCases ==
  ASSUME \A q \in Rounds : PublishedOf(q), NEW list, NEW r \in Rounds,
         Hides(list, r) \/ r \in DOMAIN list
  PROVE  LET i == IF Hides(list, r) THEN OptimisticItem(list, r) ELSE Projected(list, r)
         IN  /\ i.key = <<"session", r>>
             /\ NewItem(list, r) = IF ~Over(i) /\ Over(Released(list)[r])
                                   THEN Released(list)[r] ELSE i
<1>. DEFINE i == IF Hides(list, r) THEN OptimisticItem(list, r) ELSE Projected(list, r)
<1>1. i.key = <<"session", r>>
  BY ItemKeys DEF Hides
<1>2. NewItem(list, r) = Reconciled(list, i)
  BY DEF NewItem
<1>. HIDE DEF i
<1>3. Reconciled(list, i) = IF ~Over(i) /\ Over(Released(list)[r])
                            THEN Released(list)[r] ELSE i
  BY <1>1, ReconciledKey
<1>. QED
  BY <1>1, <1>2, <1>3 DEF i

\* A session with a row, or with a confirmed row of its bet, is in the snapshot.
LEMMA NewItemIsThere ==
  ASSUME StateTypes, \A q \in Rounds : PublishedOf(q), NEW list, NEW r \in Rounds,
         r \in DOMAIN list \/ r \in optimistic \cap confirmed
  PROVE  NewItem(list, r) # NoItem
<1>1. Hides(list, r) \/ r \in DOMAIN list
  BY DEF Hides, Optimistic
<1>2. NoItem.key # <<"session", r>> /\ ~Over(NoItem)
  BY DEF NoItem, Over
<1>. QED
  BY <1>1, <1>2, NewItemCases

\* The phase of the item that a listed row gives.
LEMMA ProjectedPhase ==
  ASSUME NEW list, NEW r \in Rounds
  PROVE  LET row == MergedRow(list[r], patches[r])
         IN  /\ Projected(list, r).phase = row.phase
             /\ row.phase # "OVER" => Projected(list, r).step = row.step
BY DEF Projected, Shown

\* What was published stays, and a published result stays a result: it is only
\* released for a row that is over, which no row of a bet hides.
LEMMA NewItemStays ==
  ASSUME StateTypes, \A q \in Rounds : PublishedOf(q),
         NEW list, ListOK(list), NEW r \in Rounds, published[r] # NoItem
  PROVE  NewItem(list, r) # NoItem /\ (Over(published[r]) => Over(NewItem(list, r)))
<1>1. CASE Hides(list, r) \/ r \in DOMAIN list
  <2>. DEFINE i == IF Hides(list, r) THEN OptimisticItem(list, r) ELSE Projected(list, r)
  <2>1. NewItem(list, r) = IF ~Over(i) /\ Over(Released(list)[r])
                           THEN Released(list)[r] ELSE i
    BY <1>1, NewItemCases
  <2>2. i.key = <<"session", r>>
    BY <1>1, NewItemCases
  <2>3. CASE r \in DOMAIN list /\ Over(list[r])
    <3>1. MergedRow(list[r], patches[r]).phase = "OVER"
      BY <2>3, MergedStep DEF ListOK, StateTypes
    <3>2. Projected(list, r).phase = "OVER"
      BY <3>1, ProjectedPhase
    <3>3. ~Hides(list, r)
      BY <2>3, <3>2 DEF Hides, Optimistic
    <3>4. Over(i)
      BY <3>2, <3>3 DEF Over
    <3>. HIDE DEF i
    <3>5. NoItem.key # <<"session", r>>
      BY DEF NoItem
    <3>. QED
      BY <2>1, <2>2, <3>4, <3>5
  <2>4. CASE ~(r \in DOMAIN list /\ Over(list[r]))
    <3>1. Released(list)[r] = published[r]
      BY <2>4 DEF Released
    <3>2. NoItem.key # <<"session", r>> /\ ~Over(NoItem)
      BY DEF NoItem, Over
    <3>. HIDE DEF i
    <3>. QED
      BY <2>1, <2>2, <3>1, <3>2
  <2>. QED
    BY <2>3, <2>4
<1>2. CASE ~(Hides(list, r) \/ r \in DOMAIN list)
  BY <1>2 DEF NewItem
<1>. QED
  BY <1>1, <1>2

\* Where an item that asks for an action has its step from: the patch, when the
\* session is not listed; else the patch or the listed row, whichever is ahead;
\* or what was published, when it is in neither.
LEMMA NewItemAsks ==
  ASSUME StateTypes, \A q \in Rounds : PublishedOf(q),
         NEW list, ListOK(list), NEW r \in Rounds,
         NewItem(list, r).phase = "WAITING_PLAYER_ACTION"
  PROVE  IF r \in DOMAIN list
         THEN /\ ~Over(list[r])
              /\ NewItem(list, r).step = IF patches[r].step > list[r].step
                                         THEN patches[r].step ELSE list[r].step
         ELSE NewItem(list, r) = published[r] \/ NewItem(list, r).step = patches[r].step
<1>1. CASE Hides(list, r) \/ r \in DOMAIN list
  <2>. DEFINE i == IF Hides(list, r) THEN OptimisticItem(list, r) ELSE Projected(list, r)
  <2>1. NewItem(list, r) = i
    <3>1. NewItem(list, r) = IF ~Over(i) /\ Over(Released(list)[r])
                             THEN Released(list)[r] ELSE i
      BY <1>1, NewItemCases
    <3>. QED
      BY <3>1 DEF Over
  <2>2. CASE Hides(list, r) /\ r \in DOMAIN list
    <3>1. OptimisticItem(list, r) = Shown(<<"session", r>>, "WAITING_RANDOMNESS", 0, 0)
      BY <2>2 DEF OptimisticItem, Hides
    <3>2. NewItem(list, r).phase = "WAITING_RANDOMNESS"
      BY <2>1, <2>2, <3>1 DEF Shown
    <3>. QED
      BY <3>2
  <2>3. CASE Hides(list, r) /\ r \notin DOMAIN list
    <3>. DEFINE base == Shown(<<"session", r>>, "WAITING_RANDOMNESS", 0, 0)
                phase == IF patches[r].phase = "NONE" THEN base.phase ELSE patches[r].phase
    <3>1. OptimisticItem(list, r) = Shown(base.key, phase, patches[r].step, patches[r].word)
      BY <2>3 DEF OptimisticItem, Hides
    <3>2. i = OptimisticItem(list, r)
      BY <2>3
    <3>. HIDE DEF phase, base, i
    <3>3. i.phase = phase /\ (phase # "OVER" => i.step = patches[r].step)
      BY <3>1, <3>2 DEF Shown
    <3>. QED
      BY <2>1, <2>3, <3>3
  <2>4. CASE ~Hides(list, r) /\ r \in DOMAIN list
    <3>1. Projected(list, r).phase = "WAITING_PLAYER_ACTION" /\ i = Projected(list, r)
      BY <2>1, <2>4
    <3>2. /\ MergedRow(list[r], patches[r]).phase = "WAITING_PLAYER_ACTION"
          /\ i.step = MergedRow(list[r], patches[r]).step
      BY <3>1, ProjectedPhase
    <3>3. list[r] \in Row /\ patches[r] \in Patch
      BY <2>4 DEF ListOK, StateTypes
    <3>4. ~Over(list[r])
      BY <3>2, <3>3, MergedStep
    <3>. HIDE DEF i
    <3>. QED
      BY <2>1, <2>4, <3>2, <3>3, <3>4, MergedStep
  <2>. QED
    BY <1>1, <2>2, <2>3, <2>4
<1>2. CASE ~(Hides(list, r) \/ r \in DOMAIN list)
  BY <1>2 DEF NewItem
<1>. QED
  BY <1>1, <1>2

-----------------------------------------------------------------------------
(* The invariant                                                           *)

\* A publication keeps what ViewIInv says of the snapshot, with or without the
\* pruning: a patch that goes has a row that knows as much.
LEMMA PublishKeeps ==
  ASSUME ViewIInv, NEW store \in [Rounds -> Row], NEW isReady \in BOOLEAN,
         \A r \in Rounds : Listed(rows[r]) => Listed(store[r]),
         Publish(SessionRows(store, isReady), isReady),
         rows' = store, ready' = isReady,
         patches' \in {patches, Pruned(SessionRows(store, isReady))},
         UNCHANGED <<call, optimistic, confirmed>>,
         NEW r \in Rounds
  PROVE  PublishedOf(r)' /\ BetsInv(r)' /\ EchoInv(r)'
<1>. DEFINE list == SessionRows(store, isReady)
<1>1. StateTypes /\ (\A q \in Rounds : PublishedOf(q)) /\ BetsInv(r) /\ EchoInv(r)
  BY DEF ViewIInv
<1>2. /\ ListOK(list)
      /\ r \in DOMAIN list <=> isReady /\ Listed(store[r])
      /\ r \in DOMAIN list => list[r] = store[r]
  BY RowsAreOK
<1>3. Publish(list, isReady) /\ patches' \in {patches, Pruned(list)}
  OBVIOUS
<1>. HIDE DEF list
<1>4. published'[r] = NewItem(list, r) /\ PublishedOf(r)'
  BY <1>1, <1>2, <1>3, PublishItem
<1>5. BetsInv(r)'
  <2>1. Sending(r)' <=> Sending(r)
    BY DEF Sending
  <2>2. published[r] # NoItem => NewItem(list, r) # NoItem
    BY <1>1, <1>2, NewItemStays
  <2>3. r \in DOMAIN list => NewItem(list, r) # NoItem
    BY <1>1, NewItemIsThere
  <2>. QED
    BY <1>1, <1>2, <1>4, <2>1, <2>2, <2>3 DEF BetsInv
<1>6. EchoInv(r)'
  <2>. SUFFICES ASSUME NewItem(list, r).phase = "WAITING_PLAYER_ACTION"
                PROVE  /\ NewItem(list, r).step \in Steps
                       /\ \/ patches'[r].step >= NewItem(list, r).step
                          \/ /\ Listed(store[r])
                             /\ isReady => ~Over(store[r]) /\ store[r].step >= NewItem(list, r).step
    BY <1>4 DEF EchoInv
  <2>1. /\ patches[r] \in Patch /\ patches[r].step \in Nat /\ patches[r].step \in Steps
        /\ store[r] \in Row /\ store[r].step \in Nat /\ store[r].step \in Steps
    BY <1>1, StepsAreNats DEF StateTypes, Patch, Row
  <2>2. CASE r \in DOMAIN list
    <3>1. /\ ~Over(store[r])
          /\ NewItem(list, r).step = IF patches[r].step > store[r].step
                                     THEN patches[r].step ELSE store[r].step
      BY <1>1, <1>2, <2>2, NewItemAsks
    <3>2. CASE patches[r].step > store[r].step
      <4>1. ~CaughtUp(list[r], patches[r])
        BY <1>2, <2>1, <2>2, <3>2 DEF CaughtUp
      <4>2. patches'[r] = patches[r]
        BY <1>3, <4>1 DEF Pruned
      <4>. QED
        BY <2>1, <3>1, <3>2, <4>2
    <3>3. CASE ~(patches[r].step > store[r].step)
      BY <1>2, <2>1, <2>2, <3>1, <3>3
    <3>. QED
      BY <3>2, <3>3
  <2>3. CASE r \notin DOMAIN list
    <3>1. patches'[r] = patches[r]
      BY <1>3, <2>3 DEF Pruned
    <3>2. NewItem(list, r) = published[r] \/ NewItem(list, r).step = patches[r].step
      BY <1>1, <1>2, <2>3, NewItemAsks
    <3>3. CASE NewItem(list, r) = published[r]
      BY <1>1, <1>2, <2>3, <3>1, <3>3 DEF EchoInv
    <3>4. CASE NewItem(list, r).step = patches[r].step
      BY <2>1, <3>1, <3>4
    <3>. QED
      BY <3>2, <3>3, <3>4
  <2>. QED
    BY <2>2, <2>3
<1>. QED
  BY <1>4, <1>5, <1>6

-----------------------------------------------------------------------------
\* What the faults, the feed and the chain do to their variables.
LEMMA FaultCounts ==
  ASSUME StateTypes, NEW kind \in {"lost", "overtaken", "toggled"}, NEW n \in Nat,
         Fault(kind, n)
  PROVE  /\ faults' \in [lost : Nat, overtaken : Nat, toggled : Nat]
         /\ faults'.lost = IF kind = "lost" THEN faults.lost + n ELSE faults.lost
<1>1. faults \in [lost : Nat, overtaken : Nat, toggled : Nat]
      /\ faults' = [faults EXCEPT ![kind] = faults[kind] + n]
  BY DEF StateTypes, Fault
<1>2. CASE kind = "lost"
  <2>1. faults' = [faults EXCEPT !.lost = faults.lost + n]
    BY <1>1, <1>2
  <2>. QED
    BY <1>1, <1>2, <2>1
<1>3. CASE kind = "overtaken"
  <2>1. faults' = [faults EXCEPT !.overtaken = faults.overtaken + n]
    BY <1>1, <1>3
  <2>. QED
    BY <1>1, <1>3, <2>1
<1>4. CASE kind = "toggled"
  <2>1. faults' = [faults EXCEPT !.toggled = faults.toggled + n]
    BY <1>1, <1>4
  <2>. QED
    BY <1>1, <1>4, <2>1
<1>. QED
  BY <1>2, <1>3, <1>4

FedTypes == /\ flash' \in Seq(Event) /\ indexed' \in Seq(Event)
            /\ faults' \in [lost : Nat, overtaken : Nat, toggled : Nat]

LEMMA FeedAppends ==
  ASSUME StateTypes, NEW events \in Seq(Event), Feed(events)
  PROVE  /\ FedTypes
         /\ faults'.lost = 0 => /\ faults.lost = 0
                                /\ Range(flash) \cup Range(events) \subseteq Range(flash')
         /\ Range(flash') \subseteq Range(flash) \cup Range(events)
         /\ Range(indexed') \subseteq Range(indexed) \cup Range(events)
<1>1. PICK k \in 0..Len(events) :
        /\ Fault("lost", k)
        /\ flash' = flash \o SubSeq(events, k + 1, Len(events))
        /\ indexed' = indexed \o SubSeq(events, k + 1, Len(events))
  BY DEF Feed
<1>2. Len(events) \in Nat /\ k \in Nat
  BY LenProperties
<1>3. /\ faults' \in [lost : Nat, overtaken : Nat, toggled : Nat]
      /\ faults'.lost = faults.lost + k
  BY <1>1, <1>2, FaultCounts
<1>4. faults.lost \in Nat /\ flash \in Seq(Event) /\ indexed \in Seq(Event)
  BY DEF StateTypes
<1>5. /\ flash' \in Seq(Event) /\ Range(flash) \subseteq Range(flash')
      /\ k = 0 => Range(events) \subseteq Range(flash')
      /\ Range(flash') \subseteq Range(flash) \cup Range(events)
  BY <1>1, <1>4, FedAppends
<1>6. indexed' \in Seq(Event) /\ Range(indexed') \subseteq Range(indexed) \cup Range(events)
  BY <1>1, <1>4, FedAppends
<1>. QED
  BY <1>2, <1>3, <1>4, <1>5, <1>6 DEF FedTypes

LEMMA GoesMoves ==
  ASSUME StateTypes, NEW r \in Rounds, NEW phase \in Waiting \cup {"OVER"},
         NEW word \in Steps, Goes(r, phase, word)
  PROVE  /\ chain' \in [Rounds -> [phase : Phases, step : Steps, word : Steps]]
         /\ chain'[r].phase = phase
         /\ chain'[r].step = IF phase \in Waiting THEN chain[r].step + 1 ELSE chain[r].step
         /\ chain'[r].word = IF word = 0 THEN chain[r].word ELSE word
         /\ \A q \in Rounds \ {r} : chain'[q] = chain[q]
         /\ Moved(r, phase, word) \in Event
<1>1. /\ chain[r] \in [phase : Phases, step : Steps, word : Steps]
      /\ chain \in [Rounds -> [phase : Phases, step : Steps, word : Steps]]
      /\ phase \in Phases
  BY DEF StateTypes, Phases
<1>. DEFINE step == IF phase \in Waiting THEN chain[r].step + 1 ELSE chain[r].step
            next == [phase |-> phase, step |-> step,
                     word |-> IF word = 0 THEN chain[r].word ELSE word]
<1>2. chain[r].step \in 0..MaxSteps /\ (phase \in Waiting => chain[r].step < MaxSteps)
  BY <1>1 DEF Goes, Steps
<1>3. step \in Steps /\ (phase \in Waiting => chain[r].step + 1 \in Steps) /\ 0 \in Steps
  BY <1>2, ViewAssumption DEF Steps
<1>4. chain' = [chain EXCEPT ![r] = next]
  <2>. DEFINE word1 == IF word = 0 THEN chain[r].word ELSE word
              moved == [chain[r] EXCEPT !.phase = phase, !.step = step, !.word = word1]
  <2>. HIDE DEF step
  <2>1. moved = next
    <3>1. word1 \in Steps
      BY <1>1
    <3>2. chain[r] = [phase |-> chain[r].phase, step |-> chain[r].step, word |-> chain[r].word]
      BY <1>1
    <3>. HIDE DEF word1
    <3>3. moved \in [phase : Phases, step : Steps, word : Steps]
          /\ moved.phase = phase /\ moved.step = step /\ moved.word = word1
      BY <1>1, <1>3, <3>1
    <3>. HIDE DEF moved
    <3>4. moved = [phase |-> moved.phase, step |-> moved.step, word |-> moved.word]
      BY <3>3
    <3>. QED
      BY <3>3, <3>4 DEF word1
  <2>. USE DEF step
  <2>2. chain' = [chain EXCEPT ![r].phase = phase, ![r].step = step, ![r].word = word1]
    BY <1>1 DEF Goes
  <2>. HIDE DEF step, word1
  <2>3. chain' = [chain EXCEPT ![r] = moved]
    BY <1>1, <2>2
  <2>. QED
    BY <2>1, <2>3
<1>5. /\ next \in [phase : Phases, step : Steps, word : Steps] /\ next.phase = phase
      /\ next.step = IF phase \in Waiting THEN chain[r].step + 1 ELSE chain[r].step
      /\ next.word = IF word = 0 THEN chain[r].word ELSE word
  BY <1>1, <1>3
<1>6. Moved(r, phase, word) \in Event
  BY <1>1, <1>3 DEF Moved, Event
<1>. HIDE DEF next
<1>. QED
  BY <1>1, <1>4, <1>5, <1>6

LEMMA OpenedIsEvent ==
  ASSUME NEW r \in Rounds
  PROVE  Opened(r) \in Event
BY StepsAreNats DEF Opened, Event, Phases

\* While neither the calls nor what they remember of a round changes, and the
\* feed delivers what it had, the pushed openings stay remembered.
LEMMA OpensStay ==
  ASSUME NEW r \in Rounds, OpensInv(r), call'[r] = call[r],
         UNCHANGED <<pendingOpens, recentOpens, confirmedOpens>>,
         chain'[r].phase = "NONE" <=> chain[r].phase = "NONE",
         faults'.lost = 0 => faults.lost = 0 /\ Range(flash) \subseteq Range(flash')
  PROVE  OpensInv(r)'
BY DEF OpensInv, PushedRemembered, Opened

\* While the view and the stores stay, so does what is said of them.
LEMMA ViewStays ==
  ASSUME NEW r \in Rounds, PublishedOf(r), BetsInv(r), EchoInv(r),
         UNCHANGED <<call, rows, patches, ready, optimistic, published, snapshot>>,
         confirmed \subseteq confirmed'
  PROVE  PublishedOf(r)' /\ BetsInv(r)' /\ EchoInv(r)'
BY DEF PublishedOf, BetsInv, EchoInv, Sending, OfSession

\* A step of the chain with what it feeds to the channels.
LEMMA ChainKeeps ==
  ASSUME ViewIInv, NEW r \in Rounds, NEW phase \in Waiting \cup {"OVER"},
         NEW word \in Steps, Goes(r, phase, word), NEW events \in Seq(Event), Feed(events),
         chain[r].phase = "NONE" => /\ call[r] # "none"
                                    /\ Opened(r) \in Range(events),
         UNCHANGED <<ready, storeVars, openVars, call, viewVars>>,
         submitted' \in [Rounds -> Steps], receipts' \in [Rounds -> Steps]
  PROVE  ViewIInv'
<1>1. StateTypes
  BY DEF ViewIInv
<1>2. /\ chain' \in [Rounds -> [phase : Phases, step : Steps, word : Steps]]
      /\ chain'[r].phase = phase /\ \A q \in Rounds \ {r} : chain'[q] = chain[q]
  BY <1>1, GoesMoves
<1>3. /\ FedTypes
      /\ faults'.lost = 0 => /\ faults.lost = 0
                             /\ Range(flash) \cup Range(events) \subseteq Range(flash')
  BY <1>1, FeedAppends
<1>4. StateTypes'
  BY <1>1, <1>2, <1>3 DEF StateTypes, FedTypes, storeVars, openVars
<1>5. ASSUME NEW q \in Rounds
      PROVE  PublishedOf(q)' /\ BetsInv(q)' /\ EchoInv(q)' /\ OpensInv(q)'
  <2>1. PublishedOf(q) /\ BetsInv(q) /\ EchoInv(q) /\ OpensInv(q)
    BY DEF ViewIInv
  <2>2. PublishedOf(q)' /\ BetsInv(q)' /\ EchoInv(q)'
    BY <2>1, ViewStays DEF storeVars, openVars, viewVars
  <2>3. phase # "NONE"
    BY DEF Waiting
  <2>4. CASE q = r /\ chain[r].phase = "NONE"
    <3>1. Opened(q) = Opened(r) /\ (faults'.lost = 0 => Opened(r) \in Range(flash'))
      BY <1>3, <2>4
    <3>2. PushedRemembered(q)'
      BY <2>4, <3>1 DEF PushedRemembered, Opened
    <3>. QED
      BY <2>1, <2>2, <2>4, <3>2 DEF OpensInv, openVars
  <2>5. CASE ~(q = r /\ chain[r].phase = "NONE")
    <3>1. chain'[q].phase = "NONE" <=> chain[q].phase = "NONE"
      BY <1>2, <2>3, <2>5
    <3>2. OpensInv(q)'
      BY <1>3, <2>1, <3>1, OpensStay DEF openVars
    <3>. QED
      BY <2>2, <3>2
  <2>. QED
    BY <2>4, <2>5
<1>. QED
  BY <1>4, <1>5 DEF ViewIInv

LEMMA OneEvent ==
  ASSUME NEW e \in Event
  PROVE  <<e>> \in Seq(Event) /\ Range(<<e>>) = {e}
<1>1. DOMAIN <<e>> = {1} /\ <<e>>[1] = e
  OBVIOUS
<1>. QED
  BY <1>1 DEF Range

LEMMA TwoEvents ==
  ASSUME NEW e \in Event, NEW f \in Event
  PROVE  <<e, f>> \in Seq(Event) /\ Range(<<e, f>>) = {e, f}
<1>1. <<e, f>> \in Seq(Event) /\ DOMAIN <<e, f>> = {1, 2}
      /\ <<e, f>>[1] = e /\ <<e, f>>[2] = f
  OBVIOUS
<1>. QED
  BY <1>1 DEF Range

LEMMA LandKeeps ==
  ASSUME ViewIInv, NEW r \in Rounds, Land(r)
  PROVE  ViewIInv'
<1>1. PICK phase \in Waiting \cup {"OVER"} :
        Goes(r, phase, 0) /\ Feed(<<Opened(r), Moved(r, phase, 0)>>)
  BY DEF Land
<1>2. StateTypes /\ 0 \in Steps
  BY StepsAreNats DEF ViewIInv
<1>3. Opened(r) \in Event /\ Moved(r, phase, 0) \in Event
  BY <1>1, <1>2, OpenedIsEvent, GoesMoves
<1>. DEFINE events == <<Opened(r), Moved(r, phase, 0)>>
<1>4. events \in Seq(Event) /\ Opened(r) \in Range(events) /\ Feed(events)
  BY <1>1, <1>3, TwoEvents
<1>5. call[r] # "none"
  BY DEF Land, Sending
<1>6. /\ UNCHANGED <<ready, storeVars, openVars, call, viewVars>>
      /\ submitted' \in [Rounds -> Steps] /\ receipts' \in [Rounds -> Steps]
  BY <1>2 DEF Land, callVars, StateTypes
<1>. HIDE DEF events
<1>. QED
  BY <1>1, <1>2, <1>4, <1>5, <1>6, ChainKeeps

LEMMA ProgressKeeps ==
  ASSUME ViewIInv, NEW r \in Rounds, Progress(r)
  PROVE  ViewIInv'
<1>1. PICK phase \in Waiting \cup {"OVER"}, word \in {0, chain[r].step} :
        /\ chain[r].phase \in Waiting
        /\ Goes(r, phase, word) /\ Feed(<<Moved(r, phase, word)>>)
  BY DEF Progress, Waiting
<1>2. StateTypes /\ word \in Steps
  BY StepsAreNats DEF ViewIInv, StateTypes
<1>3. <<Moved(r, phase, word)>> \in Seq(Event)
  BY <1>1, <1>2, GoesMoves, OneEvent
<1>4. chain[r].phase # "NONE"
  BY <1>1 DEF Waiting
<1>5. /\ UNCHANGED <<ready, storeVars, openVars, call, viewVars>>
      /\ submitted' \in [Rounds -> Steps] /\ receipts' \in [Rounds -> Steps]
  BY <1>2 DEF Progress, callVars, StateTypes
<1>. QED
  BY <1>1, <1>2, <1>3, <1>4, <1>5, ChainKeeps

LEMMA SubmitKeeps ==
  ASSUME ViewIInv, NEW r \in Rounds, Submit(r)
  PROVE  ViewIInv'
<1>1. PICK phase \in Waiting \cup {"OVER"} :
        /\ Goes(r, phase, 0) /\ Feed(<<Moved(r, phase, 0)>>)
        /\ submitted' = [submitted EXCEPT ![r] = Moved(r, phase, 0).step]
  BY DEF Submit
<1>2. StateTypes /\ 0 \in Steps
  BY StepsAreNats DEF ViewIInv
<1>3. Moved(r, phase, 0) \in Event
  BY <1>1, <1>2, GoesMoves
<1>4. <<Moved(r, phase, 0)>> \in Seq(Event) /\ Moved(r, phase, 0).step \in Steps
  BY <1>3, OneEvent DEF Event
<1>5. chain[r].phase # "NONE"
  BY DEF Submit, Echoed
<1>6. /\ UNCHANGED <<ready, storeVars, openVars, call, viewVars>>
      /\ submitted' \in [Rounds -> Steps] /\ receipts' \in [Rounds -> Steps]
  BY <1>1, <1>2, <1>4 DEF Submit, StateTypes
<1>. QED
  BY <1>1, <1>2, <1>4, <1>5, <1>6, ChainKeeps

LEMMA CancelKeeps ==
  ASSUME ViewIInv, NEW r \in Rounds, CancelStuckRandomness(r)
  PROVE  ViewIInv'
<1>1. Goes(r, "OVER", 0) /\ Feed(<<Moved(r, "OVER", 0)>>) /\ chain[r].phase # "NONE"
  BY DEF CancelStuckRandomness, Echoed
<1>2. StateTypes /\ 0 \in Steps /\ "OVER" \in Waiting \cup {"OVER"}
  BY StepsAreNats DEF ViewIInv
<1>3. <<Moved(r, "OVER", 0)>> \in Seq(Event)
  BY <1>1, <1>2, GoesMoves, OneEvent
<1>4. /\ UNCHANGED <<ready, storeVars, openVars, call, viewVars>>
      /\ submitted' \in [Rounds -> Steps] /\ receipts' \in [Rounds -> Steps]
  BY <1>2 DEF CancelStuckRandomness, callVars, StateTypes
<1>. QED
  BY <1>1, <1>2, <1>3, <1>4, ChainKeeps

-----------------------------------------------------------------------------
\* The newest of the steps that are known is one of them, or 0.
LEMMA LatestOf ==
  ASSUME NEW a \in Steps, NEW b \in Steps, NEW c \in Steps
  PROVE  /\ Latest({a, b, c}) \in Steps
         /\ \A n \in {0, a, b, c} : Latest({a, b, c}) >= n
<1>. DEFINE S == {0} \cup {a, b, c}
<1>1. 0 \in Nat /\ a \in Nat /\ b \in Nat /\ c \in Nat /\ S \subseteq Steps
  BY StepsAreNats
<1>2. \E m \in S : \A n \in S : m >= n
  <2>. DEFINE m1 == IF a >= b THEN a ELSE b
              m2 == IF c >= m1 THEN c ELSE m1
  <2>1. m2 \in S /\ m2 >= 0 /\ m2 >= a /\ m2 >= b /\ m2 >= c
    BY <1>1
  <2>. HIDE DEF m2
  <2>. QED
    BY <2>1
<1>3. Max(S) \in S /\ \A n \in S : Max(S) >= n
  <2>. HIDE DEF S
  <2>. QED
    BY <1>2 DEF Max
<1>. QED
  BY <1>1, <1>3 DEF Latest

LEMMA RemembersSteps ==
  ASSUME receipts \in [Rounds -> Steps], NEW r \in Rounds,
         NEW logged, NEW n \in Steps, logged \in {{}, {n}}
  PROVE  Remember(r, logged) \in [Rounds -> Steps]
<1>1. 0 \in Steps
  BY StepsAreNats
<1>2. Latest(logged) \in Steps
  <2>1. CASE logged = {}
    <3>1. Latest({0, 0, 0}) \in Steps
      BY <1>1, LatestOf
    <3>2. {0} \cup {} = {0} \cup {0, 0, 0}
      OBVIOUS
    <3>. QED
      BY <2>1, <3>1, <3>2 DEF Latest
  <2>2. CASE logged = {n}
    <3>1. Latest({n, n, n}) \in Steps
      BY LatestOf
    <3>2. {n} = {n, n, n}
      OBVIOUS
    <3>. QED
      BY <2>2, <3>1, <3>2
  <2>. QED
    BY <2>1, <2>2
<1>. DEFINE l == Latest(logged)
            old == receipts[r]
<1>3. old \in Steps /\ l \in Steps
  BY <1>2
<1>. HIDE DEF l
<1>4. Latest({old, l}) \in Steps
  <2>1. Latest({old, l, l}) \in Steps
    BY <1>3, LatestOf
  <2>2. {old, l} = {old, l, l}
    OBVIOUS
  <2>. QED
    BY <2>1, <2>2
<1>5. Remember(r, logged) = [receipts EXCEPT ![r] = Latest({old, l})]
  BY DEF Remember, l
<1>. QED
  BY <1>4, <1>5

-----------------------------------------------------------------------------
\* Steps that publish.
LEMMA RenderKeeps ==
  ASSUME ViewIInv, Render
  PROVE  ViewIInv'
<1>1. StateTypes /\ rows \in [Rounds -> Row] /\ ready \in BOOLEAN
  BY DEF ViewIInv, StateTypes
<1>2. /\ Publish(SessionRows(rows, ready), ready) /\ rows' = rows /\ ready' = ready
      /\ patches' = patches /\ UNCHANGED <<call, optimistic, confirmed>>
      /\ UNCHANGED <<faults, chainVars, openVars, callVars>>
  BY DEF Render, List, storeVars, openVars, callVars
<1>3. StateTypes'
  BY <1>1, <1>2 DEF StateTypes, chainVars, callVars
<1>4. ASSUME NEW r \in Rounds
      PROVE  PublishedOf(r)' /\ BetsInv(r)' /\ EchoInv(r)' /\ OpensInv(r)'
  <2>1. PublishedOf(r)' /\ BetsInv(r)' /\ EchoInv(r)'
    BY <1>1, <1>2, PublishKeeps
  <2>2. OpensInv(r)'
    BY <1>2, OpensStay DEF ViewIInv, chainVars, openVars
  <2>. QED
    BY <2>1, <2>2
<1>. QED
  BY <1>3, <1>4 DEF ViewIInv

\* Pruning leaves patches.
LEMMA PrunedArePatches ==
  ASSUME StateTypes, NEW list
  PROVE  Pruned(list) \in [Rounds -> Patch]
<1>1. InitialPatch \in Patch
  BY StepsAreNats DEF InitialPatch, Patch, Phases
<1>. QED
  BY <1>1 DEF Pruned, StateTypes

LEMMA ToggleKeeps ==
  ASSUME ViewIInv, ToggleWallet
  PROVE  ViewIInv'
<1>. DEFINE list == SessionRows(rows, ~ready)
<1>1. StateTypes /\ rows \in [Rounds -> Row] /\ ready \in BOOLEAN /\ (~ready) \in BOOLEAN
  BY DEF ViewIInv, StateTypes
<1>2. /\ Publish(list, ~ready) /\ rows' = rows /\ ready' = ~ready
      /\ patches' = Pruned(list) /\ UNCHANGED <<call, optimistic, confirmed>>
      /\ UNCHANGED <<chainVars, openVars, callVars>>
  BY DEF ToggleWallet, Rerender, openVars, callVars
<1>3. /\ faults' \in [lost : Nat, overtaken : Nat, toggled : Nat]
      /\ faults'.lost = faults.lost
  <2>1. Fault("toggled", IF ready THEN 1 ELSE 0)
    BY DEF ToggleWallet
  <2>2. (IF ready THEN 1 ELSE 0) \in Nat
    OBVIOUS
  <2>. QED
    BY <1>1, <2>1, <2>2, FaultCounts
<1>4. patches' \in [Rounds -> Patch]
  BY <1>1, <1>2, PrunedArePatches
<1>5. StateTypes'
  BY <1>1, <1>2, <1>3, <1>4 DEF StateTypes, chainVars, callVars
<1>6. ASSUME NEW r \in Rounds
      PROVE  PublishedOf(r)' /\ BetsInv(r)' /\ EchoInv(r)' /\ OpensInv(r)'
  <2>1. PublishedOf(r)' /\ BetsInv(r)' /\ EchoInv(r)'
    BY <1>1, <1>2, PublishKeeps
  <2>2. OpensInv(r)'
    BY <1>2, <1>3, OpensStay DEF ViewIInv, chainVars, openVars, callVars
  <2>. QED
    BY <2>1, <2>2
<1>. QED
  BY <1>5, <1>6 DEF ViewIInv

LEMMA TakesOne ==
  ASSUME StateTypes, NEW queue \in Seq(Event), NEW i, Takes(queue, i)
  PROVE  /\ i \in DOMAIN queue /\ queue[i] \in Event
         /\ queue[i].round \in Rounds
         /\ RemoveAt(queue, i) \in Seq(Event)
         /\ \A e \in Range(queue) : e # queue[i] => e \in Range(RemoveAt(queue, i))
         /\ queue[i] \in Range(queue) /\ Range(RemoveAt(queue, i)) \subseteq Range(queue)
         /\ faults' \in [lost : Nat, overtaken : Nat, toggled : Nat]
         /\ faults'.lost = faults.lost
<1>1. i \in DOMAIN queue /\ Fault("overtaken", IF i = 1 THEN 0 ELSE 1)
  BY DEF Takes
<1>2. (IF i = 1 THEN 0 ELSE 1) \in Nat
  OBVIOUS
<1>3. queue[i] \in Event
  BY <1>1, LenProperties, ElementOfSeq
<1>4. queue[i].round \in Rounds
  BY <1>3 DEF Event
<1>. QED
  BY <1>1, <1>2, <1>3, <1>4, FaultCounts, RemoveAtKeeps

\* The indexed channel moves a row; a change is published at once while the
\* wallet is ready.
LEMMA DeliverIndexedKeeps ==
  ASSUME ViewIInv, DeliverIndexed
  PROVE  ViewIInv'
<1>1. StateTypes
  BY DEF ViewIInv
<1>2. PICK i \in DOMAIN indexed :
        /\ Takes(indexed, i)
        /\ indexed' = RemoveAt(indexed, i)
        /\ LET store == [rows EXCEPT ![indexed[i].round] = Evolved(@, indexed[i])]
           IN  /\ rows' = store
               /\ IF ready /\ store # rows THEN Rerender(store, ready)
                  ELSE UNCHANGED <<patches, viewVars>>
  BY DEF DeliverIndexed
<1>. DEFINE q == indexed[i].round
            store == [rows EXCEPT ![q] = Evolved(rows[q], indexed[i])]
            list == SessionRows(store, ready)
<1>3. /\ indexed[i] \in Event /\ q \in Rounds /\ indexed' \in Seq(Event)
      /\ faults' \in [lost : Nat, overtaken : Nat, toggled : Nat]
      /\ faults'.lost = faults.lost
  BY <1>1, <1>2, TakesOne DEF StateTypes
<1>4. rows' = store
  BY <1>2
<1>5. IF ready /\ store # rows THEN Publish(list, ready) /\ patches' = Pruned(list)
      ELSE UNCHANGED <<patches, viewVars>>
  BY <1>2 DEF Rerender
<1>6. UNCHANGED <<chain, flash, logs, ready, openVars, callVars>>
  BY DEF DeliverIndexed
<1>7. rows[q] \in Row /\ Evolved(rows[q], indexed[i]) \in Row
      /\ (Listed(rows[q]) => Listed(Evolved(rows[q], indexed[i])))
  BY <1>1, <1>3, EvolvedIsRow DEF StateTypes
<1>8. store \in [Rounds -> Row] /\ \A r \in Rounds : Listed(rows[r]) => Listed(store[r])
  <2>. DEFINE evolved == Evolved(rows[q], indexed[i])
  <2>1. rows \in [Rounds -> Row] /\ evolved \in Row
        /\ (Listed(rows[q]) => Listed(evolved))
    BY <1>1, <1>7 DEF StateTypes
  <2>2. store = [rows EXCEPT ![q] = evolved]
    OBVIOUS
  <2>. HIDE DEF evolved, q, store
  <2>. QED
    BY <1>3, <2>1, <2>2 DEF Listed
<1>. HIDE DEF store, q
<1>9. StateTypes' /\ UNCHANGED <<call, optimistic, confirmed>>
  <2>1. patches' \in [Rounds -> Patch]
    BY <1>1, <1>5, PrunedArePatches DEF StateTypes
  <2>. QED
    BY <1>1, <1>3, <1>4, <1>6, <1>8, <2>1 DEF StateTypes, openVars, callVars
<1>10. ASSUME NEW r \in Rounds
       PROVE  PublishedOf(r)' /\ BetsInv(r)' /\ EchoInv(r)' /\ OpensInv(r)'
  <2>0. PublishedOf(r) /\ BetsInv(r) /\ EchoInv(r) /\ OpensInv(r) /\ ready \in BOOLEAN
    BY <1>1 DEF ViewIInv, StateTypes
  <2>1. OpensInv(r)'
    BY <1>3, <1>6, <2>0, OpensStay DEF openVars, callVars
  <2>2. CASE ready /\ store # rows
    <3>1. PublishedOf(r)' /\ BetsInv(r)' /\ EchoInv(r)'
      BY <1>4, <1>5, <1>6, <1>8, <1>9, <2>0, <2>2, PublishKeeps
    <3>. QED
      BY <2>1, <3>1
  <2>3. CASE ~(ready /\ store # rows)
    <3>1. UNCHANGED <<patches, published, snapshot, call, optimistic, confirmed, ready>>
      BY <1>5, <1>6, <1>9, <2>3 DEF viewVars
    <3>2. ready => rows' = rows
      BY <1>4, <2>3
    <3>3. Listed(rows[r]) => Listed(rows'[r])
      BY <1>4, <1>8
    <3>4. PublishedOf(r)' /\ BetsInv(r)'
      BY <2>0, <3>1, <3>2 DEF PublishedOf, OfSession, BetsInv, Sending
    <3>5. EchoInv(r)'
      BY <2>0, <3>1, <3>2, <3>3 DEF EchoInv
    <3>. QED
      BY <2>1, <3>4, <3>5
  <2>. QED
    BY <2>2, <2>3
<1>. QED
  BY <1>9, <1>10 DEF ViewIInv

\* The flashblock channel moves a patch, and an opening confirms its bet or is
\* remembered until the hash of the bet is known.
LEMMA DeliverFlashKeeps ==
  ASSUME ViewIInv, DeliverFlash
  PROVE  ViewIInv'
<1>1. StateTypes
  BY DEF ViewIInv
<1>2. PICK i \in DOMAIN flash :
        /\ Takes(flash, i)
        /\ flash' = RemoveAt(flash, i)
        /\ patches' = [patches EXCEPT ![flash[i].round] = Patched(patches[flash[i].round], flash[i])]
        /\ IF flash[i].phase = "NONE" THEN SeenOpen(flash[i].round) ELSE UNCHANGED openVars
  BY DEF DeliverFlash
<1>. DEFINE q == flash[i].round
<1>3. /\ flash[i] \in Event /\ q \in Rounds /\ flash' \in Seq(Event)
      /\ \A e \in Range(flash) : e # flash[i] => e \in Range(flash')
      /\ faults' \in [lost : Nat, overtaken : Nat, toggled : Nat]
      /\ faults'.lost = faults.lost
  BY <1>1, <1>2, TakesOne DEF StateTypes
<1>4. UNCHANGED <<chain, indexed, logs, ready, rows, callVars, viewVars>>
  BY DEF DeliverFlash
<1>5. patches[q] \in Patch /\ Patched(patches[q], flash[i]) \in Patch
      /\ Patched(patches[q], flash[i]).step >= patches[q].step
  BY <1>1, <1>3, PatchedIsPatch DEF StateTypes
<1>6. patches' \in [Rounds -> Patch]
      /\ \A r \in Rounds : patches'[r] = patches[r] \/ patches'[r].step >= patches[r].step
  <2>. DEFINE p == Patched(patches[q], flash[i])
  <2>1. p \in Patch /\ p.step >= patches[q].step /\ patches' = [patches EXCEPT ![q] = p]
    BY <1>2, <1>5
  <2>. HIDE DEF p, q
  <2>. QED
    BY <1>1, <1>3, <2>1 DEF StateTypes
<1>7. flash[i].phase # "NONE" => flash[i] # Opened(q) /\ \A r \in Rounds : flash[i] # Opened(r)
  BY DEF Opened
<1>8. \A r \in Rounds : r # q => flash[i] # Opened(r)
  BY DEF Opened
<1>. HIDE DEF q
<1>9. /\ optimistic' = optimistic /\ confirmed \subseteq confirmed' /\ confirmed' \subseteq Rounds
      /\ pendingOpens' \subseteq pendingOpens
      /\ confirmedOpens \subseteq confirmedOpens' /\ recentOpens \subseteq recentOpens'
      /\ pendingOpens \subseteq pendingOpens' \cup confirmedOpens'
      /\ flash[i].phase = "NONE" => IF q \in pendingOpens THEN q \in confirmedOpens'
                                    ELSE q \in recentOpens'
  <2>1. confirmed \subseteq Rounds /\ optimistic \subseteq Rounds
    BY <1>1 DEF StateTypes
  <2>2. CASE flash[i].phase = "NONE"
    <3>1. SeenOpen(q)
      BY <1>2, <2>2 DEF q
    <3>. QED
      BY <2>1, <2>2, <3>1 DEF SeenOpen
  <2>3. CASE flash[i].phase # "NONE"
    BY <1>2, <2>1, <2>3 DEF openVars
  <2>. QED
    BY <2>2, <2>3
<1>10. StateTypes'
  BY <1>1, <1>3, <1>4, <1>6, <1>9 DEF StateTypes, callVars
<1>11. ASSUME NEW r \in Rounds
       PROVE  PublishedOf(r)' /\ BetsInv(r)' /\ EchoInv(r)' /\ OpensInv(r)'
  <2>0. PublishedOf(r) /\ BetsInv(r) /\ EchoInv(r) /\ OpensInv(r)
    BY DEF ViewIInv
  <2>1. PublishedOf(r)' /\ BetsInv(r)'
    BY <1>4, <1>9, <2>0 DEF PublishedOf, OfSession, BetsInv, Sending, viewVars, callVars
  <2>2. EchoInv(r)'
    <3>. SUFFICES ASSUME published[r].phase = "WAITING_PLAYER_ACTION",
                         patches[r].step >= published[r].step, patches'[r] # patches[r]
                  PROVE  patches'[r].step >= published[r].step
      BY <1>4, <2>0 DEF EchoInv, viewVars
    <3>1. patches'[r].step >= patches[r].step
      BY <1>6
    <3>2. published[r].step \in Steps /\ patches[r] \in Patch /\ patches'[r] \in Patch
      BY <1>1, <1>6, <2>0 DEF EchoInv, StateTypes
    <3>3. published[r].step \in Nat /\ patches[r].step \in Nat /\ patches'[r].step \in Nat
      BY <3>2, StepsAreNats DEF Patch
    <3>. QED
      BY <3>1, <3>3
  <2>3. OpensInv(r)'
    <3>1. call' = call /\ chain' = chain
      BY <1>4 DEF callVars
    <3>2. ASSUME faults.lost = 0, chain[r].phase # "NONE", Opened(r) \notin Range(flash')
          PROVE  /\ call[r] = "sent" => r \in recentOpens'
                 /\ call[r] = "accepted" => r \in confirmedOpens'
      <4>1. CASE Opened(r) \notin Range(flash)
        BY <1>9, <2>0, <3>2, <4>1 DEF OpensInv, PushedRemembered
      <4>2. CASE Opened(r) \in Range(flash)
        <5>1. flash[i] = Opened(r)
          BY <1>3, <3>2, <4>2
        <5>2. r = q /\ flash[i].phase = "NONE"
          BY <1>7, <1>8, <5>1
        <5>3. call[r] = "sent" => r \notin pendingOpens
          BY <2>0 DEF OpensInv
        <5>4. call[r] = "accepted" => r \in pendingOpens \cup confirmedOpens
          BY <2>0 DEF OpensInv
        <5>. QED
          BY <1>9, <5>2, <5>3, <5>4
      <4>. QED
        BY <4>1, <4>2
    <3>3. PushedRemembered(r)'
      BY <1>3, <3>1, <3>2 DEF PushedRemembered, Opened
    <3>. QED
      BY <1>9, <2>0, <3>1, <3>3 DEF OpensInv
  <2>. QED
    BY <2>1, <2>2, <2>3
<1>. QED
  BY <1>10, <1>11 DEF ViewIInv

-----------------------------------------------------------------------------
\* Steps of a call.
callView == <<rows, patches, ready, published, snapshot, chain, flash, indexed,
              faults, submitted, receipts>>

LEMMA CallKeeps ==
  ASSUME ViewIInv, UNCHANGED callView,
         call' \in [Rounds -> {"none", "past", "sent", "accepted", "returned", "failed"}],
         optimistic' \subseteq Rounds, confirmed' \subseteq Rounds,
         \A r \in Rounds : BetsInv(r)' /\ OpensInv(r)'
  PROVE  ViewIInv'
<1>1. StateTypes'
  BY DEF ViewIInv, StateTypes, callView
<1>2. ASSUME NEW r \in Rounds PROVE PublishedOf(r)' /\ EchoInv(r)'
  BY DEF ViewIInv, PublishedOf, OfSession, EchoInv, callView
<1>. QED
  BY <1>1, <1>2 DEF ViewIInv

\* A new bet drops the rows of bets that the store has taken over: they are
\* listed, hence published.
LEMMA OpenSessionKeeps ==
  ASSUME ViewIInv, NEW r \in Rounds, OpenSession(r)
  PROVE  ViewIInv'
<1>1. StateTypes
  BY DEF ViewIInv
<1>2. /\ ready /\ call[r] = "none" /\ call' = [call EXCEPT ![r] = "sent"]
      /\ optimistic' = {r} \cup (optimistic \ (confirmed \cap DOMAIN List))
      /\ confirmed' = confirmed \ DOMAIN List
      /\ UNCHANGED callView /\ UNCHANGED <<pendingOpens, recentOpens, confirmedOpens>>
  BY DEF OpenSession, RequireReadyWallet, callView, chainVars, storeVars, viewVars
<1>3. call' \in [Rounds -> {"none", "past", "sent", "accepted", "returned", "failed"}]
      /\ call'[r] = "sent" /\ \A q \in Rounds \ {r} : call'[q] = call[q]
  BY <1>1, <1>2 DEF StateTypes
<1>4. DOMAIN List = {q \in Rounds : ready /\ Listed(rows[q])}
  BY <1>1, RowsAreOK DEF List, StateTypes
<1>5. ASSUME NEW q \in Rounds PROVE BetsInv(q)' /\ OpensInv(q)'
  <2>1. BetsInv(q) /\ OpensInv(q)
    BY DEF ViewIInv
  <2>2. q \in DOMAIN List => published[q] # NoItem
    BY <1>4, <2>1 DEF BetsInv
  <2>3. BetsInv(q)'
    <3>1. ready' /\ Listed(rows'[q]) => published'[q] # NoItem
      BY <1>2, <2>1 DEF BetsInv, callView
    <3>. QED
      BY <1>2, <1>3, <2>1, <2>2, <3>1 DEF BetsInv, Sending, callView
  <2>4. OpensInv(q)'
    BY <1>2, <1>3, <2>1 DEF OpensInv, PushedRemembered, Opened, callView
  <2>. QED
    BY <2>3, <2>4
<1>. QED
  BY <1>1, <1>2, <1>3, <1>5, CallKeeps DEF StateTypes

LEMMA AcceptKeeps ==
  ASSUME ViewIInv, NEW r \in Rounds, Accept(r)
  PROVE  ViewIInv'
<1>1. StateTypes
  BY DEF ViewIInv
<1>2. /\ call[r] = "sent" /\ call' = [call EXCEPT ![r] = "accepted"]
      /\ IF r \in recentOpens
         THEN /\ recentOpens' = recentOpens \ {r}
              /\ confirmedOpens' = confirmedOpens \cup {r}
              /\ confirmed' = confirmed \cup ({r} \cap optimistic)
              /\ UNCHANGED <<pendingOpens, optimistic>>
         ELSE /\ pendingOpens' = pendingOpens \cup {r}
              /\ UNCHANGED <<recentOpens, confirmedOpens, confirmed, optimistic>>
      /\ UNCHANGED callView
  BY DEF Accept, callView, chainVars, storeVars, viewVars
<1>3. call' \in [Rounds -> {"none", "past", "sent", "accepted", "returned", "failed"}]
      /\ call'[r] = "accepted" /\ \A q \in Rounds \ {r} : call'[q] = call[q]
  BY <1>1, <1>2 DEF StateTypes
<1>4. optimistic' = optimistic /\ confirmed \subseteq confirmed' /\ confirmed' \subseteq Rounds
  BY <1>1, <1>2 DEF StateTypes
<1>5. ASSUME NEW q \in Rounds PROVE BetsInv(q)' /\ OpensInv(q)'
  <2>1. BetsInv(q) /\ OpensInv(q)
    BY DEF ViewIInv
  <2>2. BetsInv(q)'
    <3>1. ready' /\ Listed(rows'[q]) => published'[q] # NoItem
      BY <1>2, <2>1 DEF BetsInv, callView
    <3>. QED
      BY <1>2, <1>3, <1>4, <2>1, <3>1 DEF BetsInv, Sending, callView
  <2>3. OpensInv(q)'
    BY <1>2, <1>3, <2>1 DEF OpensInv, PushedRemembered, Opened, callView
  <2>. QED
    BY <2>2, <2>3
<1>. QED
  BY <1>1, <1>2, <1>3, <1>4, <1>5, CallKeeps DEF StateTypes

LEMMA ReturnKeeps ==
  ASSUME ViewIInv, NEW r \in Rounds, Return(r)
  PROVE  ViewIInv'
<1>1. StateTypes
  BY DEF ViewIInv
<1>. DEFINE logged == {1} \cap 1..chain[r].step
<1>2. /\ call[r] = "accepted" /\ call' = [call EXCEPT ![r] = "returned"]
      /\ receipts' = Remember(r, logged)
      /\ pendingOpens' = pendingOpens \ {r} /\ confirmedOpens' = confirmedOpens \ {r}
      /\ confirmed' = confirmed \cup ({r} \cap optimistic)
      /\ UNCHANGED <<faults, chainVars, ready, storeVars, optimistic, recentOpens,
                     submitted, viewVars>>
  BY DEF Return
<1>3. receipts' \in [Rounds -> Steps]
  <2>1. logged \in {{}, {1}} /\ 1 \in Steps
    BY ViewAssumption DEF Steps
  <2>. HIDE DEF logged
  <2>. QED
    BY <1>1, <1>2, <2>1, RemembersSteps DEF StateTypes
<1>. HIDE DEF logged
<1>4. call' \in [Rounds -> {"none", "past", "sent", "accepted", "returned", "failed"}]
      /\ call'[r] = "returned" /\ \A q \in Rounds \ {r} : call'[q] = call[q]
  BY <1>1, <1>2 DEF StateTypes
<1>5. StateTypes'
  BY <1>1, <1>2, <1>3, <1>4 DEF StateTypes, chainVars, storeVars
<1>6. ASSUME NEW q \in Rounds
      PROVE  PublishedOf(q)' /\ BetsInv(q)' /\ EchoInv(q)' /\ OpensInv(q)'
  <2>1. PublishedOf(q) /\ BetsInv(q) /\ EchoInv(q) /\ OpensInv(q)
    BY DEF ViewIInv
  <2>2. PublishedOf(q)' /\ EchoInv(q)'
    BY <1>2, <2>1 DEF PublishedOf, OfSession, EchoInv, storeVars, viewVars
  <2>3. BetsInv(q)'
    <3>1. ready' /\ Listed(rows'[q]) => published'[q] # NoItem
      BY <1>2, <2>1 DEF BetsInv, storeVars, viewVars
    <3>. QED
      BY <1>2, <1>4, <2>1, <3>1 DEF BetsInv, Sending, viewVars
  <2>4. OpensInv(q)'
    BY <1>2, <1>4, <2>1 DEF OpensInv, PushedRemembered, Opened, chainVars
  <2>. QED
    BY <2>2, <2>3, <2>4
<1>. QED
  BY <1>5, <1>6 DEF ViewIInv

LEMMA FailKeeps ==
  ASSUME ViewIInv, NEW r \in Rounds, Fail(r)
  PROVE  ViewIInv'
<1>1. StateTypes
  BY DEF ViewIInv
<1>2. /\ Sending(r) /\ confirmedOpens' = confirmedOpens \ {r}
      /\ UNCHANGED callView /\ UNCHANGED <<pendingOpens, recentOpens>>
      /\ \/ /\ call' = [call EXCEPT ![r] = "returned"]
            /\ confirmed' = confirmed \cup ({r} \cap optimistic) /\ optimistic' = optimistic
         \/ /\ call' = [call EXCEPT ![r] = "failed"]
            /\ optimistic' = optimistic \ {r} /\ confirmed' = confirmed \ {r}
  BY DEF Fail, callView, chainVars, storeVars, viewVars
<1>3. call' \in [Rounds -> {"none", "past", "sent", "accepted", "returned", "failed"}]
      /\ call'[r] \in {"returned", "failed"} /\ \A q \in Rounds \ {r} : call'[q] = call[q]
  BY <1>1, <1>2 DEF StateTypes
<1>4. optimistic' \subseteq Rounds /\ confirmed' \subseteq Rounds
  BY <1>1, <1>2 DEF StateTypes
<1>5. ASSUME NEW q \in Rounds PROVE BetsInv(q)' /\ OpensInv(q)'
  <2>1. BetsInv(q) /\ OpensInv(q)
    BY DEF ViewIInv
  <2>2. BetsInv(q)'
    <3>1. ready' /\ Listed(rows'[q]) => published'[q] # NoItem
      BY <1>2, <2>1 DEF BetsInv, callView
    <3>2. CASE q = r
      <4>1. call'[q] = "returned" => optimistic' = optimistic /\ (q \in optimistic => q \in confirmed')
        BY <1>1, <1>2, <3>2 DEF StateTypes
      <4>2. call'[q] = "failed" => q \notin optimistic'
        BY <1>1, <1>2, <3>2 DEF StateTypes
      <4>3. q \in optimistic \/ published[q] # NoItem
        BY <1>2, <2>1, <3>2 DEF BetsInv
      <4>. QED
        BY <1>2, <1>3, <3>1, <3>2, <4>1, <4>2, <4>3 DEF BetsInv, Sending, callView
    <3>3. CASE q # r
      BY <1>2, <1>3, <2>1, <3>1, <3>3 DEF BetsInv, Sending, callView
    <3>. QED
      BY <3>2, <3>3
  <2>3. OpensInv(q)'
    BY <1>2, <1>3, <2>1 DEF OpensInv, PushedRemembered, Opened, callView
  <2>. QED
    BY <2>2, <2>3
<1>. QED
  BY <1>2, <1>3, <1>4, <1>5, CallKeeps

LEMMA SubmitReturnsKeeps ==
  ASSUME ViewIInv, NEW r \in Rounds, SubmitReturns(r)
  PROVE  ViewIInv'
<1>1. StateTypes
  BY DEF ViewIInv
<1>2. /\ submitted' = [submitted EXCEPT ![r] = 0]
      /\ receipts' = Remember(r, {submitted[r]})
      /\ UNCHANGED <<faults, chainVars, ready, storeVars, openVars, call, viewVars>>
  BY DEF SubmitReturns
<1>3. receipts' \in [Rounds -> Steps] /\ submitted' \in [Rounds -> Steps]
  <2>1. submitted[r] \in Steps /\ 0 \in Steps
    BY <1>1, StepsAreNats DEF StateTypes
  <2>. QED
    BY <1>1, <1>2, <2>1, RemembersSteps DEF StateTypes
<1>4. StateTypes'
  BY <1>1, <1>2, <1>3 DEF StateTypes, chainVars, storeVars, openVars
<1>5. ASSUME NEW q \in Rounds
      PROVE  PublishedOf(q)' /\ BetsInv(q)' /\ EchoInv(q)' /\ OpensInv(q)'
  <2>1. PublishedOf(q) /\ BetsInv(q) /\ EchoInv(q) /\ OpensInv(q)
    BY DEF ViewIInv
  <2>2. PublishedOf(q)' /\ BetsInv(q)' /\ EchoInv(q)'
    BY <1>2, <2>1, ViewStays DEF storeVars, openVars, viewVars
  <2>3. OpensInv(q)'
    BY <1>2, <2>1, OpensStay DEF openVars, chainVars
  <2>. QED
    BY <2>2, <2>3
<1>. QED
  BY <1>4, <1>5 DEF ViewIInv

-----------------------------------------------------------------------------
\* The page starts empty, with the logs of an earlier visit to be replayed.
LEMMA InitView == Init => ViewIInv
<1>. SUFFICES ASSUME Init PROVE ViewIInv
  OBVIOUS
<1>0. 0 \in Steps /\ 1 \in Steps /\ 1 \in Rounds
  BY ViewAssumption DEF Steps, Rounds
<1>1. /\ flash = <<>> /\ faults = [lost |-> 0, overtaken |-> 0, toggled |-> 0]
      /\ ready = TRUE
      /\ rows = [r \in Rounds |-> InitialRow] /\ patches = [r \in Rounds |-> InitialPatch]
      /\ optimistic = {} /\ confirmed = {}
      /\ pendingOpens = {} /\ recentOpens = {} /\ confirmedOpens = {}
      /\ submitted = [r \in Rounds |-> 0] /\ receipts = [r \in Rounds |-> 0]
      /\ published = [r \in Rounds |-> NoItem] /\ snapshot = {}
  BY DEF Init
<1>2. InitialRow \in Row /\ InitialPatch \in Patch
  BY <1>0 DEF InitialRow, Row, NoWords, InitialPatch, Patch, Phases
<1>3. Unborn \in [phase : Phases, step : Steps, word : Steps]
  BY <1>0 DEF Unborn, Phases
<1>4. CASE /\ chain = [r \in Rounds |-> Unborn] /\ indexed = <<>>
           /\ call = [r \in Rounds |-> "none"]
  <2>1. StateTypes
    BY <1>0, <1>1, <1>2, <1>3, <1>4 DEF StateTypes
  <2>2. ASSUME NEW r \in Rounds
        PROVE  PublishedOf(r) /\ BetsInv(r) /\ EchoInv(r) /\ OpensInv(r)
    <3>1. call[r] = "none" /\ chain[r].phase = "NONE" /\ rows[r] = InitialRow
          /\ published[r] = NoItem
      BY <1>1, <1>4 DEF Unborn
    <3>2. PublishedOf(r) /\ BetsInv(r) /\ EchoInv(r)
      BY <1>1, <3>1 DEF PublishedOf, OfSession, BetsInv, Sending, Listed, Over, InitialRow,
                        EchoInv, NoItem
    <3>. QED
      BY <1>1, <3>1, <3>2 DEF OpensInv, PushedRemembered
  <2>. QED
    BY <2>1, <2>2 DEF ViewIInv
<1>5. ASSUME NEW phase \in Waiting, NEW over \in BOOLEAN,
             indexed = PastLogs(phase, over),
             chain = [r \in Rounds |-> IF r > 1 THEN Unborn ELSE
               [phase |-> IF over THEN "OVER" ELSE phase, step |-> 1, word |-> 0]],
             call = [r \in Rounds |-> IF r = 1 THEN "past" ELSE "none"]
      PROVE  ViewIInv
  <2>1. indexed \in Seq(Event)
    <3>. DEFINE e1 == Opened(1)
                e2 == [round |-> 1, phase |-> phase, step |-> 1, word |-> 0]
                e3 == [round |-> 1, phase |-> "OVER", step |-> 0, word |-> 0]
                tail == IF over THEN <<e3>> ELSE <<>>
    <3>1. e1 \in Event /\ e2 \in Event /\ e3 \in Event
      BY <1>0, OpenedIsEvent DEF Event, Phases
    <3>2. indexed = <<e1, e2>> \o tail
      BY <1>5 DEF PastLogs
    <3>. HIDE DEF e1, e2, e3
    <3>3. <<e1, e2>> \in Seq(Event) /\ tail \in Seq(Event)
      BY <3>1
    <3>. HIDE DEF tail
    <3>. QED
      BY <3>2, <3>3, ConcatProperties
  <2>2. chain \in [Rounds -> [phase : Phases, step : Steps, word : Steps]]
    BY <1>0, <1>3, <1>5 DEF Phases
  <2>3. StateTypes
    BY <1>0, <1>1, <1>2, <1>5, <2>1, <2>2 DEF StateTypes
  <2>4. ASSUME NEW r \in Rounds
        PROVE  PublishedOf(r) /\ BetsInv(r) /\ EchoInv(r) /\ OpensInv(r)
    <3>1. /\ call[r] \in {"none", "past"} /\ rows[r] = InitialRow
          /\ call[r] = "none" => chain[r].phase = "NONE"
          /\ published[r] = NoItem
      BY <1>1, <1>5, ViewAssumption DEF Unborn, Rounds
    <3>2. PublishedOf(r) /\ BetsInv(r) /\ EchoInv(r)
      BY <1>1, <3>1 DEF PublishedOf, OfSession, BetsInv, Sending, Listed, Over, InitialRow,
                        EchoInv, NoItem
    <3>. QED
      BY <1>1, <3>1, <3>2 DEF OpensInv, PushedRemembered
  <2>. QED
    BY <2>3, <2>4 DEF ViewIInv
<1>. QED
  BY <1>4, <1>5 DEF Init

LEMMA StepView == ViewIInv /\ [Next]_vars => ViewIInv'
<1>. SUFFICES ASSUME ViewIInv, [Next]_vars PROVE ViewIInv'
  OBVIOUS
<1>1. CASE UNCHANGED vars
  <2>1. /\ UNCHANGED callView /\ UNCHANGED <<call, optimistic, confirmed>>
        /\ UNCHANGED <<pendingOpens, recentOpens, confirmedOpens>>
    BY <1>1 DEF vars, callView, chainVars, storeVars, openVars, callVars, viewVars
  <2>2. ASSUME NEW r \in Rounds PROVE BetsInv(r)' /\ OpensInv(r)'
    BY <2>1 DEF ViewIInv, BetsInv, Sending, OpensInv, PushedRemembered, Opened, callView
  <2>. QED
    BY <2>1, <2>2, CallKeeps DEF ViewIInv, StateTypes
<1>2. CASE Render \/ DeliverIndexed \/ DeliverFlash \/ ToggleWallet
  BY <1>2, RenderKeeps, DeliverIndexedKeeps, DeliverFlashKeeps, ToggleKeeps
<1>3. ASSUME NEW r \in Rounds,
             \/ Land(r) \/ Progress(r)
             \/ OpenSession(r) \/ Accept(r) \/ Return(r) \/ Fail(r)
             \/ Submit(r) \/ SubmitReturns(r) \/ CancelStuckRandomness(r)
      PROVE  ViewIInv'
  BY <1>3, LandKeeps, ProgressKeeps, OpenSessionKeeps, AcceptKeeps, ReturnKeeps,
     FailKeeps, SubmitKeeps, SubmitReturnsKeeps, CancelKeeps
<1>. QED
  BY <1>1, <1>2, <1>3 DEF Next

LEMMA ViewInvariant == Spec => []ViewIInv
BY InitView, StepView, PTL DEF Spec

-----------------------------------------------------------------------------
(* The properties                                                          *)

\* The snapshot only changes by a publication of a list of the store's rows.
LEMMA SnapshotIsPublished ==
  ASSUME ViewIInv, Next
  PROVE  \/ UNCHANGED viewVars
         \/ \E store \in [Rounds -> Row], isReady \in BOOLEAN :
              Publish(SessionRows(store, isReady), isReady)
<1>1. StateTypes
  BY DEF ViewIInv
<1>2. CASE Render
  BY <1>1, <1>2 DEF Render, List, StateTypes
<1>3. CASE DeliverIndexed
  <2>1. PICK i \in DOMAIN indexed :
          LET store == [rows EXCEPT ![indexed[i].round] = Evolved(@, indexed[i])]
          IN  /\ rows' = store
              /\ IF ready /\ store # rows THEN Rerender(store, ready)
                 ELSE UNCHANGED <<patches, viewVars>>
    BY <1>3 DEF DeliverIndexed
  <2>2. \/ UNCHANGED viewVars
        \/ Publish(SessionRows(rows', ready), ready)
    BY <2>1 DEF Rerender
  <2>3. rows' \in [Rounds -> Row] /\ ready \in BOOLEAN
    BY <1>1, <1>3, DeliverIndexedKeeps DEF ViewIInv, StateTypes
  <2>. QED
    BY <2>2, <2>3
<1>4. CASE ToggleWallet
  <2>1. Publish(SessionRows(rows, ~ready), ~ready) /\ (~ready) \in BOOLEAN
        /\ rows \in [Rounds -> Row]
    BY <1>1, <1>4 DEF ToggleWallet, Rerender, StateTypes
  <2>. QED
    BY <2>1
<1>5. CASE DeliverFlash
  BY <1>5 DEF DeliverFlash
<1>6. ASSUME NEW r \in Rounds,
             \/ Land(r) \/ Progress(r)
             \/ OpenSession(r) \/ Accept(r) \/ Return(r) \/ Fail(r)
             \/ Submit(r) \/ SubmitReturns(r) \/ CancelStuckRandomness(r)
      PROVE  UNCHANGED viewVars
  BY <1>6 DEF Land, Progress, OpenSession, Accept, Return, Fail, Submit, SubmitReturns,
              CancelStuckRandomness
<1>. QED
  BY <1>2, <1>3, <1>4, <1>5, <1>6 DEF Next

\* A session that a game was shown is in every later snapshot, and a result it
\* was shown stays a result, whatever the channels, the pruning of the patches,
\* the calls and the wallet status do.
THEOREM ViewResultsStay == Spec => ResultsStay
<1>1. ASSUME ViewIInv, [Next]_vars,
             NEW r \in Rounds, NEW i \in OfSession(snapshot, r)
      PROVE  \E j \in OfSession(snapshot', r) : Over(i) => Over(j)
  <2>1. i = published[r] /\ published[r] # NoItem
    BY <1>1 DEF ViewIInv, PublishedOf
  <2>2. CASE UNCHANGED <<snapshot, published>>
    BY <1>1, <2>2
  <2>3. ASSUME NEW store \in [Rounds -> Row], NEW isReady \in BOOLEAN,
               Publish(SessionRows(store, isReady), isReady)
        PROVE  \E j \in OfSession(snapshot', r) : Over(i) => Over(j)
    <3>. DEFINE list == SessionRows(store, isReady)
    <3>1. ListOK(list) /\ StateTypes /\ \A q \in Rounds : PublishedOf(q)
      BY <1>1, RowsAreOK DEF ViewIInv
    <3>2. snapshot' = View(list)
      BY <2>3 DEF Publish
    <3>. HIDE DEF list
    <3>3. OfSession(snapshot', r) = {NewItem(list, r)} \ {NoItem}
      BY <3>1, <3>2, ViewItem
    <3>4. NewItem(list, r) # NoItem /\ (Over(published[r]) => Over(NewItem(list, r)))
      BY <2>1, <3>1, NewItemStays
    <3>. QED
      BY <2>1, <3>3, <3>4
  <2>4. CASE UNCHANGED vars
    BY <2>2, <2>4 DEF vars, viewVars
  <2>5. CASE Next
    BY <1>1, <2>2, <2>3, <2>5, SnapshotIsPublished DEF viewVars
  <2>. QED
    BY <1>1, <2>4, <2>5
<1>2. ViewIInv /\ [Next]_vars =>
        [\A r \in Rounds : \A i \in OfSession(snapshot, r) :
           \E j \in OfSession(snapshot', r) : Over(i) => Over(j)]_vars
  BY <1>1
<1>. QED
  BY <1>2, ViewInvariant, PTL DEF Spec, ResultsStay

\* A bet of which a receipt, a push or a failure was reported has no pending row
\* beside its session, and a bet reported as placed has an item.
THEOREM ViewBetShownOnce == Spec => []BetShownOnce
<1>1. ASSUME ViewIInv, snapshot = View(List), NEW r \in Rounds
      PROVE  /\ call[r] \in {"returned", "failed"} =>
                  \A i \in snapshot : i.key # <<"pending", r>>
             /\ call[r] = "returned" => OfSession(snapshot, r) # {}
  <2>1. StateTypes /\ (\A q \in Rounds : PublishedOf(q)) /\ BetsInv(r)
    BY <1>1 DEF ViewIInv
  <2>2. ListOK(List)
    BY <2>1, RowsAreOK DEF List, StateTypes
  <2>3. ASSUME call[r] \in {"returned", "failed"}, NEW i \in snapshot, i.key = <<"pending", r>>
        PROVE  FALSE
    <3>1. CASE i \in Dropped(List)
      <4>1. PICK q \in Rounds : i = Released(List)[q] /\ i # NoItem
        BY <3>1 DEF Dropped
      <4>2. i = published[q]
        BY <4>1 DEF Released
      <4>3. i.key = <<"session", q>>
        BY <2>1, <4>1, <4>2, PublishedKey
      <4>. QED
        BY <2>3, <4>3
    <3>2. CASE \E j \in Items(List) : i = Reconciled(List, j)
      <4>1. PICK j \in Items(List) : i = Reconciled(List, j)
        BY <3>2
      <4>2. Optimistic(List) \subseteq Rounds /\ DOMAIN List \subseteq Rounds
        BY <2>1, <2>2 DEF Optimistic, StateTypes, ListOK
      <4>3. CASE \E q \in Optimistic(List) : j = OptimisticItem(List, q)
        <5>1. PICK q \in Optimistic(List) : j = OptimisticItem(List, q)
          BY <4>3
        <5>2. j.key = IF q \in confirmed THEN <<"session", q>> ELSE <<"pending", q>>
          BY <5>1, ItemKeys
        <5>3. i.key = j.key
          BY <2>1, <4>1, <4>2, <5>2, ReconciledKey
        <5>4. q = r /\ q \notin confirmed
          BY <2>3, <5>2, <5>3
        <5>5. r \in optimistic
          BY <5>1, <5>4 DEF Optimistic
        <5>. QED
          BY <2>1, <2>3, <5>4, <5>5 DEF BetsInv
      <4>4. CASE \E q \in DOMAIN List : j = Projected(List, q)
        <5>1. PICK q \in DOMAIN List : j = Projected(List, q)
          BY <4>4
        <5>2. j.key = <<"session", q>>
          BY <5>1, ItemKeys
        <5>3. i.key = j.key
          BY <2>1, <4>1, <4>2, <5>2, ReconciledKey
        <5>. QED
          BY <2>3, <5>2, <5>3
      <4>. QED
        BY <4>1, <4>3, <4>4 DEF Items
    <3>. QED
      BY <1>1, <2>3, <3>1, <3>2 DEF View
  <2>4. ASSUME call[r] = "returned" PROVE OfSession(snapshot, r) # {}
    <3>1. OfSession(snapshot, r) = {NewItem(List, r)} \ {NoItem}
      BY <1>1, <2>1, <2>2, ViewItem
    <3>2. r \in optimistic \cap confirmed \/ published[r] # NoItem
      BY <2>1, <2>4 DEF BetsInv
    <3>3. NewItem(List, r) # NoItem
      BY <2>1, <2>2, <3>2, NewItemIsThere, NewItemStays
    <3>. QED
      BY <3>1, <3>3
  <2>. QED
    BY <2>3, <2>4
<1>2. ViewIInv => BetShownOnce
  BY <1>1 DEF BetShownOnce
<1>. QED
  BY <1>2, ViewInvariant, PTL

\* When a game is asked to act, resolveEncodedSession finds a state of the
\* session that is at least as new as the one it is shown.
THEOREM ViewEchoFresh == Spec => []EchoFresh
<1>1. ASSUME ViewIInv, ready, NEW r \in Rounds, NEW i \in OfSession(snapshot, r),
             i.phase = "WAITING_PLAYER_ACTION"
      PROVE  Newest(r) >= i.step
  <2>1. StateTypes /\ EchoInv(r) /\ i = published[r]
    BY <1>1 DEF ViewIInv, PublishedOf
  <2>2. /\ i.step \in Steps
        /\ patches[r].step >= i.step \/ (Listed(rows[r]) /\ ~Over(rows[r]) /\ rows[r].step >= i.step)
    BY <1>1, <2>1 DEF EchoInv
  <2>3. receipts[r] \in Steps /\ patches[r].step \in Steps /\ rows[r].step \in Steps
    BY <2>1 DEF StateTypes, Patch, Row
  <2>4. DOMAIN List = {q \in Rounds : ready /\ Listed(rows[q])}
    BY <2>1, RowsAreOK DEF List, StateTypes
  <2>. DEFINE a == receipts[r]
              b == patches[r].step
              c == rows[r].step
  <2>5. CASE Listed(rows[r]) /\ ~Over(rows[r])
    <3>1. {s \in {r} \cap DOMAIN List : ~Over(rows[s])} = {r}
      BY <1>1, <2>4, <2>5
    <3>2. Newest(r) = Latest({a, b} \cup {rows[s].step : s \in {r}})
      BY <3>1 DEF Newest
    <3>3. {a, b} \cup {rows[s].step : s \in {r}} = {a, b, c}
      OBVIOUS
    <3>4. Newest(r) = Latest({a, b, c})
      BY <3>2, <3>3
    <3>. HIDE DEF a, b, c
    <3>5. Newest(r) \in Steps /\ Newest(r) >= b /\ Newest(r) >= c
      BY <2>3, <3>4, LatestOf DEF a, b, c
    <3>6. b >= i.step \/ c >= i.step
      BY <2>2 DEF b, c
    <3>7. i.step \in Nat /\ b \in Nat /\ c \in Nat /\ Newest(r) \in Nat
      BY <2>2, <2>3, <3>5, StepsAreNats DEF b, c
    <3>. QED
      BY <3>5, <3>6, <3>7
  <2>6. CASE ~(Listed(rows[r]) /\ ~Over(rows[r]))
    <3>1. {s \in {r} \cap DOMAIN List : ~Over(rows[s])} = {}
      BY <2>4, <2>6
    <3>2. Newest(r) = Latest({a, b} \cup {rows[s].step : s \in {}})
      BY <3>1 DEF Newest
    <3>3. {a, b} \cup {rows[s].step : s \in {}} = {a, b, b}
      OBVIOUS
    <3>4. Newest(r) = Latest({a, b, b})
      BY <3>2, <3>3
    <3>. HIDE DEF a, b
    <3>5. Newest(r) \in Steps /\ Newest(r) >= b
      BY <2>3, <3>4, LatestOf DEF a, b
    <3>6. b >= i.step
      BY <2>2, <2>6 DEF b
    <3>7. i.step \in Nat /\ b \in Nat /\ Newest(r) \in Nat
      BY <2>2, <2>3, <3>5, StepsAreNats DEF b
    <3>. QED
      BY <3>5, <3>6, <3>7
  <2>. QED
    BY <2>5, <2>6
<1>2. ViewIInv => EchoFresh
  BY <1>1 DEF EchoFresh
<1>. QED
  BY <1>2, ViewInvariant, PTL

\* A bet whose hash is known and whose opening was pushed, in either order, is
\* not reported as failed, unless the feed lost a log.
THEOREM ViewKeepsLanded == Spec => KeepsLanded
<1>1. ASSUME ViewIInv, [Next]_vars, NEW r \in Rounds,
             call[r] = "accepted", chain[r].phase # "NONE", faults.lost = 0,
             Opened(r) \notin Range(flash)
      PROVE  call'[r] # "failed"
  <2>1. StateTypes /\ r \in confirmedOpens
    BY <1>1 DEF ViewIInv, OpensInv, PushedRemembered
  <2>2. CASE call' = call
    BY <1>1, <2>2
  <2>3. ASSUME NEW q \in Rounds, Fail(q)
        PROVE  call'[r] # "failed"
    <3>1. q = r => call' = [call EXCEPT ![r] = "returned"]
      BY <2>1, <2>3 DEF Fail
    <3>2. q # r => call'[r] = call[r]
      BY <2>1, <2>3 DEF Fail, StateTypes
    <3>. QED
      BY <1>1, <2>1, <3>1, <3>2 DEF StateTypes
  <2>4. ASSUME NEW q \in Rounds, OpenSession(q) \/ Accept(q) \/ Return(q)
        PROVE  call'[r] # "failed"
    <3>1. \E c \in {"sent", "accepted", "returned"} : call' = [call EXCEPT ![q] = c]
      BY <2>4 DEF OpenSession, Accept, Return
    <3>. QED
      BY <1>1, <2>1, <3>1 DEF StateTypes
  <2>5. CASE UNCHANGED vars
    BY <2>2, <2>5 DEF vars, callVars
  <2>6. CASE Render \/ DeliverIndexed \/ DeliverFlash \/ ToggleWallet
    BY <2>2, <2>6 DEF Render, DeliverIndexed, DeliverFlash, ToggleWallet, callVars
  <2>7. ASSUME NEW q \in Rounds,
               Land(q) \/ Progress(q) \/ Submit(q) \/ SubmitReturns(q) \/ CancelStuckRandomness(q)
        PROVE  call'[r] # "failed"
    BY <2>2, <2>7 DEF Land, Progress, Submit, SubmitReturns, CancelStuckRandomness, callVars
  <2>. QED
    BY <1>1, <2>3, <2>4, <2>5, <2>6, <2>7 DEF Next
<1>2. ViewIInv /\ [Next]_vars =>
        [\A r \in Rounds :
           /\ call[r] = "accepted" /\ chain[r].phase # "NONE" /\ faults.lost = 0
           /\ Opened(r) \notin Range(flash)
           => call'[r] # "failed"]_vars
  BY <1>1
<1>. QED
  BY <1>2, ViewInvariant, PTL DEF Spec, KeepsLanded

-----------------------------------------------------------------------------
(* The stream: how far the page has got with a session                     *)

\* A level is a step or Final, and Final is of what is over.
LEMMA LevelIs ==
  ASSUME NEW row \in Row, NEW p \in Patch
  PROVE  /\ Level(row, p) \in Nat /\ Level(row, p) <= Final
         /\ Level(row, p) = Final <=> Over(row) \/ Over(p)
         /\ ~Over(row) /\ ~Over(p) =>
              Level(row, p) = IF row.opened /\ row.step > p.step THEN row.step ELSE p.step
<1>1. /\ row.step \in Nat /\ row.step <= MaxSteps /\ p.step \in Nat /\ p.step <= MaxSteps
      /\ MaxSteps \in Nat
  BY ViewAssumption DEF Row, Patch, Steps
<1>2. Final \in Nat /\ Final > MaxSteps
  BY <1>1 DEF Final
<1>3. CASE Over(row)
  BY <1>2, <1>3 DEF Level
<1>4. CASE ~Over(row) /\ Over(p)
  BY <1>1, <1>2, <1>4 DEF Level, Rank
<1>5. CASE ~Over(row) /\ ~Over(p)
  BY <1>1, <1>2, <1>5 DEF Level, Rank
<1>. QED
  BY <1>3, <1>4, <1>5

\* An event takes a row no further back, and gives it no waiting step but its own.
LEMMA EvolvedGoesOn ==
  ASSUME NEW row \in Row, NEW e \in Event, NEW p \in Patch,
         row.phase = "NONE" => row.step = 0
  PROVE  LET next == Evolved(row, e)
         IN  /\ Level(next, p) >= Level(row, p)
             /\ next.phase = "NONE" => next.step = 0
             /\ next.phase \in Waiting => \E x \in {row, e} : x.phase = next.phase /\ x.step = next.step
<1>. DEFINE next == Evolved(row, e)
<1>1. next \in Row
  BY EvolvedIsRow
<1>2. /\ row.step \in Steps /\ row.step \in Nat /\ e.step \in Nat /\ p.step \in Nat
      /\ row.phase \in Phases /\ e.phase \in Phases /\ row.opened \in BOOLEAN
  BY StepsAreNats DEF Row, Event, Patch
<1>3. /\ Level(row, p) \in Nat /\ Level(row, p) <= Final
      /\ Level(row, p) = Final <=> Over(row) \/ Over(p)
      /\ ~Over(row) /\ ~Over(p) =>
           Level(row, p) = IF row.opened /\ row.step > p.step THEN row.step ELSE p.step
  BY LevelIs
<1>4. /\ Level(next, p) \in Nat /\ Level(next, p) <= Final
      /\ Level(next, p) = Final <=> Over(next) \/ Over(p)
      /\ ~Over(next) /\ ~Over(p) =>
           Level(next, p) = IF next.opened /\ next.step > p.step THEN next.step ELSE p.step
  <2>. HIDE DEF next
  <2>. QED
    BY <1>1, LevelIs
<1>5. /\ Over(row) => Over(next)
      /\ ~Over(next) => (row.opened => next.opened) /\ next.step >= row.step
      /\ next.phase = "NONE" => next.step = 0
      /\ next.phase \in Waiting => \E x \in {row, e} : x.phase = next.phase /\ x.step = next.step
  <2>1. CASE e.phase = "NONE"
    <3>1. next = [row EXCEPT !.opened = TRUE]
      BY <2>1 DEF Evolved
    <3>2. next.phase = row.phase /\ next.step = row.step /\ next.opened = TRUE
      BY <3>1 DEF Row
    <3>. HIDE DEF next
    <3>. QED
      BY <1>2, <3>2 DEF Over
  <2>2. CASE e.phase = "OVER"
    <3>1. next = [row EXCEPT !.phase = "OVER", !.words = Fulfilled(row.words, row.step, e.word)]
      BY <2>2 DEF Evolved, Row
    <3>2. next.phase = "OVER"
      BY <3>1 DEF Row
    <3>. HIDE DEF next
    <3>. QED
      BY <3>2 DEF Over, Waiting
  <2>3. CASE e.phase \notin {"NONE", "OVER"}
    <3>1. CASE Over(row) \/ e.step <= row.step
      <4>1. next = row
        BY <2>3, <3>1 DEF Evolved
      <4>. HIDE DEF next
      <4>. QED
        BY <1>2, <4>1 DEF Over
    <3>2. CASE ~(Over(row) \/ e.step <= row.step)
      <4>1. next = [row EXCEPT !.step = e.step, !.phase = e.phase,
                               !.words = Fulfilled(row.words, e.step - 1, e.word)]
        BY <2>3, <3>2 DEF Evolved, Row
      <4>2. next.phase = e.phase /\ next.step = e.step /\ next.opened = row.opened
        BY <4>1 DEF Row
      <4>. HIDE DEF next
      <4>. QED
        BY <1>2, <2>3, <3>2, <4>2 DEF Over
    <3>. QED
      BY <3>1, <3>2
  <2>. QED
    BY <2>1, <2>2, <2>3
<1>6. next.step \in Nat /\ next.opened \in BOOLEAN /\ Final \in Nat
  <2>. HIDE DEF next
  <2>. QED
    BY <1>1, StepsAreNats DEF Row
<1>. HIDE DEF next
<1>7. Level(next, p) >= Level(row, p)
  <2>1. CASE Over(next) \/ Over(p)
    BY <1>3, <1>4, <1>6, <2>1
  <2>2. CASE ~Over(next) /\ ~Over(p)
    BY <1>2, <1>3, <1>4, <1>5, <1>6, <2>2
  <2>. QED
    BY <2>1, <2>2
<1>. QED
  BY <1>5, <1>7 DEF next

LEMMA PatchedGoesOn ==
  ASSUME NEW p \in Patch, NEW e \in Event, NEW row \in Row,
         p.phase = "NONE" => p.step = 0
  PROVE  LET next == Patched(p, e)
         IN  /\ Level(row, next) >= Level(row, p)
             /\ next.phase = "NONE" => next.step = 0
             /\ next.phase \in Waiting => \E x \in {p, e} : x.phase = next.phase /\ x.step = next.step
<1>. DEFINE next == Patched(p, e)
<1>1. next \in Patch /\ next.step >= p.step
  BY PatchedIsPatch
<1>2. /\ row.step \in Nat /\ e.step \in Nat /\ p.step \in Nat
      /\ p.phase \in Phases /\ e.phase \in Phases /\ row.opened \in BOOLEAN
  BY StepsAreNats DEF Row, Event, Patch
<1>3. /\ Level(row, p) \in Nat /\ Level(row, p) <= Final
      /\ Level(row, p) = Final <=> Over(row) \/ Over(p)
      /\ ~Over(row) /\ ~Over(p) =>
           Level(row, p) = IF row.opened /\ row.step > p.step THEN row.step ELSE p.step
  BY LevelIs
<1>4. /\ Level(row, next) \in Nat /\ Level(row, next) <= Final
      /\ Level(row, next) = Final <=> Over(row) \/ Over(next)
      /\ ~Over(row) /\ ~Over(next) =>
           Level(row, next) = IF row.opened /\ row.step > next.step THEN row.step ELSE next.step
  <2>. HIDE DEF next
  <2>. QED
    BY <1>1, LevelIs
<1>5. ASSUME NEW x \in Patch, NEW n
      PROVE  Answered(x, n, e.word).phase = x.phase /\ Answered(x, n, e.word).step = x.step
  <2>1. CASE e.word = 0
    BY <2>1 DEF Answered
  <2>2. CASE e.word # 0 /\ n = 0
    BY <2>2 DEF Answered, Patch
  <2>3. CASE e.word # 0 /\ n # 0
    BY <2>3 DEF Answered, Patch
  <2>. QED
    BY <2>1, <2>2, <2>3
<1>6. /\ Over(p) => Over(next)
      /\ next.phase = "NONE" => next.step = 0
      /\ next.phase \in Waiting => \E x \in {p, e} : x.phase = next.phase /\ x.step = next.step
  <2>1. CASE e.phase = "NONE" \/ Over(p)
    <3>1. next = p
      BY <2>1 DEF Patched
    <3>. HIDE DEF next
    <3>. QED
      BY <3>1
  <2>2. CASE e.phase = "OVER" /\ ~Over(p)
    <3>. DEFINE q == [p EXCEPT !.phase = "OVER"]
                nonce == IF p.asked # 0 THEN p.asked ELSE p.step
    <3>1. next = Answered(q, nonce, e.word)
      BY <2>2 DEF Patched
    <3>2. q \in Patch /\ q.phase = "OVER"
      BY DEF Patch, Phases
    <3>. HIDE DEF next, q, nonce
    <3>3. next.phase = "OVER"
      BY <1>5, <3>1, <3>2
    <3>. QED
      BY <2>2, <3>3 DEF Waiting
  <2>3. CASE e.phase \notin {"NONE", "OVER"} /\ ~Over(p)
    <3>1. CASE e.step <= p.step
      <4>1. next = p
        BY <2>3, <3>1 DEF Patched
      <4>. HIDE DEF next
      <4>. QED
        BY <4>1
    <3>2. CASE ~(e.step <= p.step)
      <4>. DEFINE q == [p EXCEPT !.step = e.step, !.phase = e.phase,
                          !.asked = IF e.phase = "WAITING_RANDOMNESS" THEN e.step ELSE p.asked]
      <4>1. q \in Patch /\ q.step = e.step /\ q.phase = e.phase
        BY DEF Patch, Event
      <4>2. next = Answered(q, e.step - 1, e.word)
        BY <2>3, <3>2 DEF Patched, Patch
      <4>. HIDE DEF next, q
      <4>3. next.phase = e.phase /\ next.step = e.step
        BY <1>5, <4>1, <4>2
      <4>. QED
        BY <2>3, <4>3
    <3>. QED
      BY <3>1, <3>2
  <2>. QED
    BY <2>1, <2>2, <2>3
<1>7. next.step \in Nat /\ Final \in Nat
  <2>. HIDE DEF next
  <2>. QED
    BY <1>1, StepsAreNats DEF Patch
<1>. HIDE DEF next
<1>8. Level(row, next) >= Level(row, p)
  <2>1. CASE Over(row) \/ Over(next)
    BY <1>3, <1>4, <1>7, <2>1
  <2>2. CASE ~Over(row) /\ ~Over(next)
    BY <1>1, <1>2, <1>3, <1>4, <1>6, <1>7, <2>2
  <2>. QED
    BY <2>1, <2>2
<1>. QED
  BY <1>6, <1>8 DEF next

\* A patch that a listed row has caught up with says nothing that the row does not.
LEMMA PrunedGoesOn ==
  ASSUME NEW row \in Row, NEW p \in Patch, Listed(row), CaughtUp(row, p)
  PROVE  Level(row, InitialPatch) = Level(row, p)
<1>1. /\ row.step \in Nat /\ p.step \in Nat /\ p.step <= row.step /\ (Over(p) => Over(row))
      /\ InitialPatch.step = 0 /\ ~Over(InitialPatch)
  BY StepsAreNats DEF Row, Patch, CaughtUp, InitialPatch, Over
<1>2. CASE Over(row)
  BY <1>2 DEF Level
<1>3. CASE ~Over(row)
  <2>1. row.opened /\ ~Over(p)
    BY <1>1, <1>3 DEF Listed
  <2>. QED
    BY <1>1, <1>3, <2>1 DEF Level, Rank
<1>. QED
  BY <1>2, <1>3

\* The item of a listed row is at the level that row and patch have, in a phase
\* that one of them is in at that step.
LEMMA ProjectedSays ==
  ASSUME StateTypes, NEW list, ListOK(list), NEW r \in DOMAIN list, Listed(list[r])
  PROVE  LET i == Projected(list, r)
         IN  /\ i.step = Level(list[r], patches[r])
             /\ Over(i) <=> i.step = Final
             /\ ~Over(i) => \E x \in {list[r], patches[r]} : x.phase = i.phase /\ x.step = i.step
<1>. DEFINE row == list[r]
            p == patches[r]
            ahead == [row EXCEPT !.step = p.step, !.phase = p.phase]
            over == [row EXCEPT !.phase = "OVER"]
            merged == IF Over(row) THEN row
                      ELSE IF p.step > row.step THEN ahead
                      ELSE IF Over(p) THEN over ELSE row
            words == IF p.nonce = 0 THEN merged.words
                     ELSE Fulfilled(merged.words, p.nonce, p.word)
            m == MergedRow(row, p)
<1>1. r \in Rounds /\ row \in Row /\ p \in Patch
  BY DEF ListOK, StateTypes
<1>2. m = [merged EXCEPT !.words = words]
  <2>1. CASE Over(row)
    BY <2>1 DEF MergedRow
  <2>2. CASE ~Over(row) /\ p.step > row.step
    BY <2>2 DEF MergedRow
  <2>3. CASE ~Over(row) /\ ~(p.step > row.step)
    BY <2>3 DEF MergedRow
  <2>. QED
    BY <2>1, <2>2, <2>3
<1>3. m.phase = merged.phase /\ m.step = merged.step
  <2>. HIDE DEF words, m
  <2>. QED
    BY <1>1, <1>2 DEF Row
<1>. DEFINE i == Projected(list, r)
<1>4. i.phase = m.phase /\ i.step = IF m.phase = "OVER" THEN Final ELSE m.step
  BY DEF Projected, Shown
<1>5. /\ row.step \in Nat /\ row.step < Final /\ p.step \in Nat /\ p.step < Final
      /\ row.opened \/ Over(row)
  <2>1. row.step \in 0..MaxSteps /\ p.step \in 0..MaxSteps
    BY <1>1 DEF Row, Patch, Steps
  <2>. QED
    BY <2>1, ViewAssumption DEF Final, Listed
<1>6. /\ Level(row, p) \in Nat /\ Level(row, p) <= Final
      /\ Level(row, p) = Final <=> Over(row) \/ Over(p)
      /\ ~Over(row) /\ ~Over(p) =>
           Level(row, p) = IF row.opened /\ row.step > p.step THEN row.step ELSE p.step
  BY <1>1, LevelIs
<1>. DEFINE Says == /\ i.step = Level(row, p)
                    /\ Over(i) <=> i.step = Final
                    /\ ~Over(i) => \E x \in {row, p} : x.phase = i.phase /\ x.step = i.step
<1>7. ASSUME Over(row) \/ Over(p) PROVE Says
  <2>1. merged.phase = "OVER"
    BY <1>1, <1>7 DEF Row, Over
  <2>. HIDE DEF i, m, merged
  <2>2. Over(i) /\ i.step = Final
    BY <1>3, <1>4, <2>1 DEF Over
  <2>. QED
    BY <1>6, <1>7, <2>2
<1>8. ASSUME ~Over(row), ~Over(p) PROVE Says
  <2>1. IF p.step > row.step THEN merged.phase = p.phase /\ merged.step = p.step
        ELSE merged.phase = row.phase /\ merged.step = row.step
    BY <1>1, <1>8 DEF Row
  <2>. HIDE DEF i, m, merged
  <2>2. ~Over(i) /\ i.phase = merged.phase /\ i.step = merged.step
    BY <1>3, <1>4, <1>8, <2>1 DEF Over
  <2>3. i.step = Level(row, p)
    BY <1>5, <1>6, <1>8, <2>1, <2>2
  <2>4. i.step # Final
    BY <1>5, <1>8, <2>1, <2>2
  <2>. QED
    BY <2>1, <2>2, <2>3, <2>4
<1>9. Says
  BY <1>7, <1>8
<1>. QED
  BY <1>9

\* The item that a session gets when it is listed or its bet's row is confirmed.
LEMMA NewItemSays ==
  ASSUME StateTypes, \A q \in Rounds : PublishedOf(q), NEW store \in [Rounds -> Row],
         NEW list, list = SessionRows(store, TRUE), NEW r \in Rounds,
         r \in optimistic \cap confirmed \/ Listed(store[r]),
         store[r].phase = "NONE" => store[r].step = 0,
         patches[r].phase = "NONE" => patches[r].step = 0,
         Over(published[r]) => Level(store[r], patches[r]) = Final
  PROVE  LET i == NewItem(list, r)
         IN  /\ i # NoItem /\ i.step = Level(store[r], patches[r])
             /\ Over(i) <=> i.step = Final
             /\ i.step # 0 /\ ~Over(i) =>
                  \E x \in {store[r], patches[r]} :
                    x.phase = i.phase /\ x.phase \in Waiting /\ x.step = i.step
<1>. DEFINE row == store[r]
            p == patches[r]
            own == Projected(list, r)
            hidden == OptimisticItem(list, r)
            i == IF Hides(list, r) THEN hidden ELSE own
<1>1. /\ ListOK(list) /\ (r \in DOMAIN list <=> Listed(row))
      /\ r \in DOMAIN list => list[r] = row
  BY RowsAreOK
<1>2. /\ row \in Row /\ p \in Patch
      /\ row.step \in Nat /\ row.step < Final /\ p.step \in Nat /\ p.step < Final
      /\ row.phase \in Phases /\ p.phase \in Phases
  <2>1. row \in Row /\ p \in Patch
    BY DEF StateTypes
  <2>2. row.step \in 0..MaxSteps /\ p.step \in 0..MaxSteps
    BY <2>1 DEF Row, Patch, Steps
  <2>. QED
    BY <2>1, <2>2, ViewAssumption DEF Final, Row, Patch
<1>3. /\ Level(row, p) \in Nat /\ Level(row, p) <= Final
      /\ Level(row, p) = Final <=> Over(row) \/ Over(p)
      /\ ~Over(row) /\ ~Over(p) =>
           Level(row, p) = IF row.opened /\ row.step > p.step THEN row.step ELSE p.step
  BY <1>2, LevelIs
<1>4. r \in DOMAIN list =>
        /\ own.step = Level(row, p)
        /\ Over(own) <=> own.step = Final
        /\ ~Over(own) => \E x \in {row, p} : x.phase = own.phase /\ x.step = own.step
  <2>. SUFFICES ASSUME r \in DOMAIN list
                PROVE  /\ own.step = Level(row, p)
                       /\ Over(own) <=> own.step = Final
                       /\ ~Over(own) => \E x \in {row, p} : x.phase = own.phase
                                                             /\ x.step = own.step
    OBVIOUS
  <2>1. list[r] = row /\ Listed(list[r]) /\ ListOK(list)
    BY <1>1
  <2>2. /\ own.step = Level(list[r], p)
        /\ Over(own) <=> own.step = Final
        /\ ~Over(own) => \E x \in {list[r], p} : x.phase = own.phase /\ x.step = own.step
    BY <2>1, ProjectedSays
  <2>. HIDE DEF own
  <2>. QED
    BY <2>1, <2>2
<1>5. Hides(list, r) \/ r \in DOMAIN list
  BY <1>1 DEF Hides, Optimistic
<1>6. /\ i.key = <<"session", r>>
      /\ NewItem(list, r) = IF ~Over(i) /\ Over(Released(list)[r]) THEN Released(list)[r] ELSE i
  BY <1>5, NewItemCases
<1>7. /\ i.step = Level(row, p) /\ (Over(i) <=> i.step = Final)
      /\ i.step # 0 /\ ~Over(i) =>
           \E x \in {row, p} : x.phase = i.phase /\ x.phase \in Waiting /\ x.step = i.step
  <2>1. CASE ~Hides(list, r)
    <3>1. i = own /\ r \in DOMAIN list
      BY <1>5, <2>1
    <3>. HIDE DEF own, i
    <3>2. ASSUME NEW x \in {row, p}, x.phase = own.phase, x.step = own.step,
                 own.step # 0, ~Over(own)
          PROVE  x.phase \in Waiting
      BY <1>2, <3>2 DEF Phases, Waiting, Over
    <3>. QED
      BY <1>4, <3>1, <3>2
  <2>2. CASE Hides(list, r) /\ r \in DOMAIN list
    <3>1. hidden = Shown(<<"session", r>>, "WAITING_RANDOMNESS", 0, 0)
      BY <2>2 DEF OptimisticItem, Hides
    <3>2. own.phase = "NONE"
      BY <2>2 DEF Hides, Optimistic
    <3>3. i = hidden
      BY <2>2
    <3>. HIDE DEF hidden
    <3>4. hidden.step = 0 /\ hidden.phase = "WAITING_RANDOMNESS"
      BY <3>1 DEF Shown
    <3>. HIDE DEF own, hidden, i
    <3>5. ~Over(own) /\ own.step = Level(row, p) /\ own.step # Final
      BY <1>4, <2>2, <3>2 DEF Over
    <3>6. own.step = 0
      BY <1>4, <2>2, <3>2, <3>5
    <3>. QED
      BY <3>3, <3>4, <3>5, <3>6 DEF Over
  <2>3. CASE Hides(list, r) /\ r \notin DOMAIN list
    <3>. DEFINE base == Shown(<<"session", r>>, "WAITING_RANDOMNESS", 0, 0)
                phase == IF p.phase = "NONE" THEN base.phase ELSE p.phase
    <3>1. hidden = Shown(base.key, phase, p.step, p.word)
      BY <2>3 DEF OptimisticItem, Hides
    <3>2. base.phase = "WAITING_RANDOMNESS"
      BY DEF Shown
    <3>3. ~row.opened /\ ~Over(row)
      BY <1>1, <2>3 DEF Listed
    <3>4. i = hidden
      BY <2>3
    <3>. HIDE DEF hidden, phase, base, i
    <3>5. hidden.phase = phase /\ hidden.step = IF phase = "OVER" THEN Final ELSE p.step
      BY <3>1 DEF Shown
    <3>6. CASE Over(p)
      <4>1. phase = "OVER"
        BY <3>6 DEF phase, Over
      <4>. QED
        BY <1>3, <3>4, <3>5, <3>6, <4>1 DEF Over
    <3>7. CASE ~Over(p)
      <4>1. phase # "OVER" /\ (p.phase # "NONE" => phase = p.phase /\ phase \in Waiting)
        BY <1>2, <3>2, <3>7 DEF phase, Over, Phases, Waiting
      <4>2. Level(row, p) = p.step
        BY <1>3, <3>3, <3>7
      <4>3. ~Over(i) /\ i.step = p.step /\ i.phase = phase
        BY <3>4, <3>5, <4>1 DEF Over
      <4>. QED
        BY <1>2, <4>1, <4>2, <4>3
    <3>. QED
      BY <3>6, <3>7
  <2>. QED
    BY <2>1, <2>2, <2>3
<1>. HIDE DEF i, own, hidden
<1>8. NewItem(list, r) = i
  <2>1. ASSUME Over(Released(list)[r]) PROVE Over(i)
    <3>1. ~Over(NoItem)
      BY DEF Over, NoItem
    <3>2. Over(published[r])
      BY <2>1, <3>1 DEF Released
    <3>. QED
      BY <1>7, <3>2
  <2>. QED
    BY <1>6, <2>1
<1>9. i # NoItem
  BY <1>6 DEF NoItem
<1>. QED
  BY <1>7, <1>8, <1>9

\* A result is published of a session that the row or the patch knows to be over.
LEMMA OverIsKnown ==
  ASSUME StateTypes, \A q \in Rounds : PublishedOf(q), NEW store \in [Rounds -> Row],
         NEW isReady \in BOOLEAN, NEW list, list = SessionRows(store, isReady),
         NEW r \in Rounds,
         Over(published[r]) => Level(store[r], patches[r]) = Final,
         Over(NewItem(list, r))
  PROVE  Level(store[r], patches[r]) = Final
<1>. DEFINE own == Projected(list, r)
            hidden == OptimisticItem(list, r)
            i == IF Hides(list, r) THEN hidden ELSE own
<1>1. /\ ListOK(list) /\ (r \in DOMAIN list => Listed(store[r]) /\ list[r] = store[r])
      /\ store[r] \in Row /\ patches[r] \in Patch
  BY RowsAreOK DEF StateTypes
<1>2. Level(store[r], patches[r]) = Final <=> Over(store[r]) \/ Over(patches[r])
  BY <1>1, LevelIs
<1>3. CASE ~(Hides(list, r) \/ r \in DOMAIN list)
  BY <1>3 DEF NewItem
<1>4. CASE Hides(list, r) \/ r \in DOMAIN list
  <2>1. NewItem(list, r) = IF ~Over(i) /\ Over(Released(list)[r]) THEN Released(list)[r] ELSE i
    BY <1>4, NewItemCases
  <2>2. Over(Released(list)[r]) => Over(published[r])
    BY DEF Released, NoItem, Over
  <2>3. ASSUME Over(i) PROVE Over(store[r]) \/ Over(patches[r])
    <3>1. CASE ~Hides(list, r)
      <4>1. own.step = Level(list[r], patches[r]) /\ (Over(own) <=> own.step = Final)
        BY <1>1, <1>4, <3>1, ProjectedSays
      <4>2. i = own
        BY <3>1
      <4>. HIDE DEF own, i
      <4>. QED
        BY <1>1, <1>2, <1>4, <2>3, <3>1, <4>1, <4>2
    <3>2. CASE Hides(list, r) /\ r \in DOMAIN list
      <4>1. hidden = Shown(<<"session", r>>, "WAITING_RANDOMNESS", 0, 0)
        BY <3>2 DEF OptimisticItem, Hides
      <4>. QED
        BY <2>3, <3>2, <4>1 DEF Shown, Over
    <3>3. CASE Hides(list, r) /\ r \notin DOMAIN list
      <4>. DEFINE base == Shown(<<"session", r>>, "WAITING_RANDOMNESS", 0, 0)
                  p == patches[r]
      <4>1. hidden = Shown(base.key, IF p.phase = "NONE" THEN base.phase ELSE p.phase,
                           p.step, p.word)
        BY <3>3 DEF OptimisticItem, Hides
      <4>2. base.phase = "WAITING_RANDOMNESS" /\ i = hidden
        BY <3>3 DEF Shown
      <4>. HIDE DEF base, i, hidden
      <4>3. hidden.phase = IF p.phase = "NONE" THEN base.phase ELSE p.phase
        BY <4>1 DEF Shown
      <4>. QED
        BY <2>3, <4>2, <4>3 DEF Over
    <3>. QED
      BY <1>4, <3>1, <3>2, <3>3
  <2>. HIDE DEF i
  <2>. QED
    BY <1>2, <2>1, <2>2, <2>3
<1>. QED
  BY <1>3, <1>4

-----------------------------------------------------------------------------
(* The stream: its invariant                                               *)

\* Every waiting step that is claimed after a step was claimed before it.
ClaimsStay(r) == \A x \in Claims(r)' : \E y \in Claims(r) : y.phase = x.phase /\ y.step = x.step

LEMMA ClaimsStillAgree ==
  ASSUME StateTypes, NEW r \in Rounds, ClaimsAgree(r), ClaimsStay(r), chain' = chain,
         rows'[r].phase = "NONE" => rows'[r].step = 0,
         patches'[r].phase = "NONE" => patches'[r].step = 0
  PROVE  ClaimsAgree(r)'
<1>1. ASSUME NEW x \in Claims(r)', NEW y \in Claims(r)'
      PROVE  x.step <= chain[r].step /\ (x.step = y.step => x.phase = y.phase)
  BY <1>1 DEF ClaimsStay, ClaimsAgree
<1>. QED
  BY <1>1 DEF ClaimsAgree

\* What a game was shown of a session is not taken back by a push: a session
\* that it saw is still there, further on or as it was.
Advances(r) ==
  /\ OfSession(watched, r) # {} => OfSession(watched', r) # {}
  /\ \A i \in OfSession(watched, r), j \in OfSession(watched', r) :
       j.step > i.step \/ (j.step = i.step /\ (i.phase \in Waiting /\ i.step # 0
                                               /\ j.phase \in Waiting => j.phase = i.phase))

\* A publication, with or without the pruning, of rows that have gone on.
LEMMA PublishStreams ==
  ASSUME StreamInv, NEW store \in [Rounds -> Row], NEW isReady \in BOOLEAN,
         NEW list, list = SessionRows(store, isReady), NEW r \in Rounds,
         Publish(list, isReady),
         Listed(rows[r]) => Listed(store[r]),
         Level(store[r], patches[r]) >= Level(rows[r], patches[r]),
         store[r].phase = "NONE" => store[r].step = 0,
         store[r].phase \in Waiting /\ store[r].step # 0 =>
           \E y \in Claims(r) : y.phase = store[r].phase /\ y.step = store[r].step,
         rows'[r] = store[r], patches'[r] \in {patches[r], Pruned(list)[r]},
         UNCHANGED <<optimistic, confirmed, chain>>,
         Range(flash') \subseteq Range(flash), Range(indexed') \subseteq Range(indexed)
  PROVE  PublishedKnown(r)' /\ WatchedOf(r)' /\ ClaimsAgree(r)' /\ Advances(r)
<1>. DEFINE item == NewItem(list, r)
            old == Level(rows[r], patches[r])
            new == Level(store[r], patches[r])
<1>1. /\ StateTypes /\ (\A q \in Rounds : PublishedOf(q))
      /\ PublishedKnown(r) /\ WatchedOf(r) /\ ClaimsAgree(r)
  BY DEF StreamInv, ViewIInv
<1>2. ListOK(list) /\ (r \in DOMAIN list <=> isReady /\ Listed(store[r]))
      /\ (r \in DOMAIN list => list[r] = store[r])
  BY RowsAreOK
<1>3. /\ store[r] \in Row /\ patches[r] \in Patch /\ rows[r] \in Row
      /\ old \in Nat /\ new \in Nat /\ old <= Final /\ new <= Final /\ new >= old
      /\ Final \in Nat
  BY <1>1, LevelIs, StepsAreNats DEF StateTypes
<1>4. published'[r] = item /\ OfSession(View(list), r) = {item} \ {NoItem}
      /\ (published[r] # NoItem => item # NoItem)
  BY <1>1, <1>2, PublishItem, ViewItem, NewItemStays
<1>5. Level(rows'[r], patches'[r]) = new
  <2>1. CASE patches'[r] = patches[r]
    BY <2>1
  <2>2. CASE patches'[r] # patches[r]
    <3>1. r \in DOMAIN list /\ CaughtUp(list[r], patches[r]) /\ patches'[r] = InitialPatch
      BY <2>2 DEF Pruned
    <3>. QED
      BY <1>2, <1>3, <3>1, PrunedGoesOn
  <2>. QED
    BY <2>1, <2>2
<1>6. Over(published[r]) => new = Final
  <2>1. ~Over(NoItem)
    BY DEF Over, NoItem
  <2>2. Over(published[r]) => old = Final
    BY <1>1, <2>1 DEF PublishedKnown
  <2>. QED
    BY <1>3, <2>2
<1>7. item # NoItem => Listed(store[r]) \/ r \in optimistic \cap confirmed
  <2>1. CASE Hides(list, r) \/ r \in DOMAIN list
    BY <1>2, <2>1 DEF Hides, Optimistic
  <2>2. CASE ~(Hides(list, r) \/ r \in DOMAIN list)
    <3>1. item = published[r]
      BY <2>2 DEF NewItem
    <3>. QED
      BY <1>1, <3>1 DEF PublishedKnown
  <2>. QED
    BY <2>1, <2>2
<1>8. isReady /\ item # NoItem =>
        /\ item.step = new /\ (Over(item) <=> item.step = Final)
        /\ item.step # 0 /\ ~Over(item) =>
             \E x \in {store[r], patches[r]} :
               x.phase = item.phase /\ x.phase \in Waiting /\ x.step = item.step
  <2>1. patches[r].phase = "NONE" => patches[r].step = 0
    BY <1>1 DEF ClaimsAgree
  <2>. HIDE DEF item
  <2>. QED
    BY <1>1, <1>6, <1>7, <2>1, NewItemSays DEF item
<1>9. Over(item) => new = Final
  <2>. HIDE DEF new
  <2>. QED
    BY <1>1, <1>6, OverIsKnown DEF new
<1>10. IF isReady THEN OfSession(watched', r) = {item} \ {NoItem}
       ELSE watched' = watched
  BY <1>4 DEF Publish
<1>. HIDE DEF item, old, new
<1>11. PublishedKnown(r)'
  BY <1>4, <1>5, <1>7, <1>9 DEF PublishedKnown
<1>12. WatchedOf(r)'
  <2>1. CASE isReady
    <3>. SUFFICES ASSUME item # NoItem
                  PROVE  /\ item.step \in Nat /\ item.step <= new
                         /\ \/ item.step = 0
                            \/ item.step = Final /\ item.phase = "OVER"
                            \/ item.step \in 1..MaxSteps /\ item.phase \in Waiting
      BY <1>4, <1>5, <1>10, <2>1 DEF WatchedOf
    <3>1. item.step = new
      BY <1>8, <2>1
    <3>2. CASE item.step # 0 /\ ~Over(item)
      <4>1. item.phase \in Waiting
        BY <1>8, <2>1, <3>2
      <4>2. item.step # Final /\ item.step \in Nat /\ item.step <= Final
        BY <1>3, <1>8, <2>1, <3>1, <3>2
      <4>3. item.step \in 1..MaxSteps
        BY <3>2, <4>2, ViewAssumption DEF Final
      <4>. QED
        BY <1>3, <3>1, <4>1, <4>3
    <3>3. CASE item.step = 0
      BY <1>3, <3>1, <3>3
    <3>4. CASE Over(item)
      BY <1>3, <1>8, <2>1, <3>1, <3>4 DEF Over
    <3>. QED
      BY <3>2, <3>3, <3>4
  <2>2. CASE ~isReady
    <3>1. ASSUME NEW i \in OfSession(watched, r)
          PROVE  i.step \in Nat /\ i.step <= new /\ item # NoItem
      BY <1>1, <1>3, <1>4 DEF WatchedOf, old
    <3>. QED
      BY <1>1, <1>4, <1>5, <1>10, <2>2, <3>1 DEF WatchedOf
  <2>. QED
    BY <2>1, <2>2
<1>13. ASSUME NEW j \in OfSession(watched', r), j.phase \in Waiting, j.step # 0
       PROVE  \E y \in Claims(r) : y.phase = j.phase /\ y.step = j.step
  <2>1. CASE isReady
    <3>1. j = item /\ item # NoItem /\ ~Over(item)
      BY <1>10, <1>13, <2>1 DEF Over, Waiting
    <3>2. PICK x \in {store[r], patches[r]} :
            x.phase = item.phase /\ x.phase \in Waiting /\ x.step = item.step
      BY <1>8, <1>13, <2>1, <3>1
    <3>3. CASE x = store[r]
      BY <1>13, <3>1, <3>2, <3>3
    <3>4. CASE x = patches[r]
      <4>1. patches[r] \in Claims(r)
        BY <1>13, <3>1, <3>2, <3>4 DEF Claims
      <4>. QED
        BY <3>1, <3>2, <3>4, <4>1
    <3>. QED
      BY <3>3, <3>4
  <2>2. CASE ~isReady
    <3>1. j \in Claims(r)
      BY <1>10, <1>13, <2>2 DEF Claims
    <3>. QED
      BY <3>1
  <2>. QED
    BY <2>1, <2>2
<1>14. patches'[r] = patches[r] \/ patches'[r] = InitialPatch
  BY DEF Pruned
<1>15. ClaimsStay(r)
  <2>. SUFFICES ASSUME NEW x \in Claims(r)'
                PROVE  \E y \in Claims(r) : y.phase = x.phase /\ y.step = x.step
    BY DEF ClaimsStay
  <2>1. CASE x \in OfSession(watched', r) /\ x.phase \in Waiting /\ x.step # 0
    BY <1>13, <2>1
  <2>2. CASE x = rows'[r] /\ x.phase \in Waiting /\ x.step # 0
    BY <2>2
  <2>3. CASE x = patches'[r] /\ x.phase \in Waiting /\ x.step # 0
    <3>1. x = patches[r]
      BY <1>14, <2>3 DEF InitialPatch, Waiting
    <3>2. x \in Claims(r)
      BY <2>3, <3>1 DEF Claims
    <3>. QED
      BY <3>2
  <2>4. CASE x \in Range(flash') \cup Range(indexed') /\ x.round = r /\ x.phase \in Waiting
    <3>1. x \in Claims(r)
      BY <2>4 DEF Claims
    <3>. QED
      BY <3>1
  <2>. QED
    BY <2>1, <2>2, <2>3, <2>4 DEF Claims
<1>16. ClaimsAgree(r)'
  <2>1. patches'[r].phase = "NONE" => patches'[r].step = 0
    BY <1>1, <1>14 DEF ClaimsAgree, InitialPatch
  <2>. QED
    BY <1>1, <1>15, <2>1, ClaimsStillAgree
<1>17. Advances(r)
  <2>1. CASE ~isReady
    BY <1>1, <1>10, <2>1 DEF Advances, WatchedOf, OfSession
  <2>2. CASE isReady
    <3>1. OfSession(watched, r) # {} => item # NoItem
      BY <1>1, <1>4 DEF WatchedOf
    <3>2. ASSUME NEW i \in OfSession(watched, r), NEW j \in OfSession(watched', r)
          PROVE  j.step > i.step \/ (j.step = i.step /\ (i.phase \in Waiting /\ i.step # 0
                                               /\ j.phase \in Waiting => j.phase = i.phase))
      <4>1. j = item /\ item # NoItem /\ j.step = new
        BY <1>8, <1>10, <2>2
      <4>2. i.step \in Nat /\ i.step <= old
        BY <1>1 DEF WatchedOf, old
      <4>3. j.step > i.step \/ j.step = i.step
        BY <1>3, <4>1, <4>2
      <4>4. ASSUME j.step = i.step, i.phase \in Waiting, i.step # 0, j.phase \in Waiting
            PROVE  j.phase = i.phase
        <5>1. PICK y \in Claims(r) : y.phase = j.phase /\ y.step = j.step
          BY <1>13, <4>4
        <5>2. i \in Claims(r)
          BY <4>4 DEF Claims
        <5>. QED
          BY <1>1, <4>4, <5>1, <5>2 DEF ClaimsAgree
      <4>. QED
        BY <4>3, <4>4
    <3>. QED
      BY <1>10, <2>2, <3>1, <3>2 DEF Advances
  <2>. QED
    BY <2>1, <2>2
<1>. QED
  BY <1>11, <1>12, <1>16, <1>17

\* A step that does not publish.
LEMMA StreamStays ==
  ASSUME StreamInv, NEW r \in Rounds, UNCHANGED <<published, watched>>,
         rows'[r] \in Row, patches'[r] \in Patch,
         Level(rows'[r], patches'[r]) >= Level(rows[r], patches[r]),
         Listed(rows[r]) => Listed(rows'[r]),
         r \in optimistic \cap confirmed => Listed(rows'[r]) \/ r \in optimistic' \cap confirmed'
  PROVE  PublishedKnown(r)' /\ WatchedOf(r)' /\ Advances(r)
<1>. DEFINE old == Level(rows[r], patches[r])
            new == Level(rows'[r], patches'[r])
<1>1. StateTypes /\ PublishedKnown(r) /\ WatchedOf(r)
  BY DEF StreamInv, ViewIInv
<1>2. old \in Nat /\ new \in Nat /\ new <= Final /\ Final \in Nat /\ new >= old
  BY <1>1, LevelIs, StepsAreNats DEF StateTypes
<1>. HIDE DEF old, new
<1>3. PublishedKnown(r)'
  BY <1>1, <1>2 DEF PublishedKnown, old, new
<1>4. \A i \in OfSession(watched, r) : i.step \in Nat /\ i.step <= new
  BY <1>1, <1>2 DEF WatchedOf, old
<1>5. WatchedOf(r)'
  BY <1>1, <1>4 DEF WatchedOf, OfSession, new
<1>6. Advances(r)
  BY <1>1 DEF Advances, WatchedOf, OfSession
<1>. QED
  BY <1>3, <1>5, <1>6

StreamStep == StreamInv' /\ \A r \in Rounds : Advances(r)

\* A waiting row or patch makes a claim.
LEMMA RowClaims ==
  ASSUME NEW r \in Rounds, NEW x \in {rows[r], patches[r]},
         x.phase \in Waiting, x.step # 0
  PROVE  x \in Claims(r)
BY DEF Claims

LEMMA RenderStreams ==
  ASSUME StreamInv, Render
  PROVE  StreamStep
<1>1. ViewIInv /\ StateTypes /\ rows \in [Rounds -> Row] /\ ready \in BOOLEAN
  BY DEF StreamInv, ViewIInv, StateTypes
<1>2. ViewIInv'
  BY <1>1, RenderKeeps
<1>3. /\ Publish(SessionRows(rows, ready), ready) /\ rows' = rows /\ patches' = patches
      /\ UNCHANGED <<optimistic, confirmed, chain, flash, indexed, call, confirmedOpens>>
  BY DEF Render, List, storeVars, openVars, callVars, chainVars
<1>4. ASSUME NEW r \in Rounds
      PROVE  PublishedKnown(r)' /\ ConfirmedOpen(r)' /\ WatchedOf(r)' /\ ClaimsAgree(r)'
             /\ Advances(r)
  <2>1. ClaimsAgree(r) /\ ConfirmedOpen(r)
    BY DEF StreamInv
  <2>2. Level(rows[r], patches[r]) >= Level(rows[r], patches[r])
    <3>1. Level(rows[r], patches[r]) \in Nat
      BY <1>1, LevelIs DEF StateTypes
    <3>. QED
      BY <3>1
  <2>3. rows[r].phase \in Waiting /\ rows[r].step # 0 =>
          \E y \in Claims(r) : y.phase = rows[r].phase /\ y.step = rows[r].step
    BY RowClaims
  <2>4. rows[r].phase = "NONE" => rows[r].step = 0
    BY <2>1 DEF ClaimsAgree
  <2>5. PublishedKnown(r)' /\ WatchedOf(r)' /\ ClaimsAgree(r)' /\ Advances(r)
    BY <1>1, <1>3, <2>2, <2>3, <2>4, PublishStreams
  <2>6. ConfirmedOpen(r)'
    BY <1>3, <2>1 DEF ConfirmedOpen, Sending
  <2>. QED
    BY <2>5, <2>6
<1>. QED
  BY <1>2, <1>4 DEF StreamStep, StreamInv

LEMMA ToggleStreams ==
  ASSUME StreamInv, ToggleWallet
  PROVE  StreamStep
<1>. DEFINE list == SessionRows(rows, ~ready)
<1>1. ViewIInv /\ StateTypes /\ rows \in [Rounds -> Row] /\ (~ready) \in BOOLEAN
  BY DEF StreamInv, ViewIInv, StateTypes
<1>2. ViewIInv'
  BY <1>1, ToggleKeeps
<1>3. /\ Publish(list, ~ready) /\ rows' = rows /\ patches' = Pruned(list)
      /\ UNCHANGED <<optimistic, confirmed, chain, flash, indexed, call, confirmedOpens>>
  BY DEF ToggleWallet, Rerender, openVars, callVars, chainVars
<1>. HIDE DEF list
<1>4. ASSUME NEW r \in Rounds
      PROVE  PublishedKnown(r)' /\ ConfirmedOpen(r)' /\ WatchedOf(r)' /\ ClaimsAgree(r)'
             /\ Advances(r)
  <2>1. ClaimsAgree(r) /\ ConfirmedOpen(r)
    BY DEF StreamInv
  <2>2. Level(rows[r], patches[r]) >= Level(rows[r], patches[r])
    <3>1. Level(rows[r], patches[r]) \in Nat
      BY <1>1, LevelIs DEF StateTypes
    <3>. QED
      BY <3>1
  <2>3. rows[r].phase \in Waiting /\ rows[r].step # 0 =>
          \E y \in Claims(r) : y.phase = rows[r].phase /\ y.step = rows[r].step
    BY RowClaims
  <2>4. rows[r].phase = "NONE" => rows[r].step = 0
    BY <2>1 DEF ClaimsAgree
  <2>5. PublishedKnown(r)' /\ WatchedOf(r)' /\ ClaimsAgree(r)' /\ Advances(r)
    BY <1>1, <1>3, <2>2, <2>3, <2>4, PublishStreams DEF list
  <2>6. ConfirmedOpen(r)'
    BY <1>3, <2>1 DEF ConfirmedOpen, Sending
  <2>. QED
    BY <2>5, <2>6
<1>. QED
  BY <1>2, <1>4 DEF StreamStep, StreamInv

LEMMA DeliverIndexedStreams ==
  ASSUME StreamInv, DeliverIndexed
  PROVE  StreamStep
<1>1. ViewIInv /\ StateTypes
  BY DEF StreamInv, ViewIInv
<1>2. PICK i \in DOMAIN indexed :
        /\ Takes(indexed, i)
        /\ indexed' = RemoveAt(indexed, i)
        /\ LET store == [rows EXCEPT ![indexed[i].round] = Evolved(@, indexed[i])]
           IN  /\ rows' = store
               /\ IF ready /\ store # rows THEN Rerender(store, ready)
                  ELSE UNCHANGED <<patches, viewVars>>
  BY DEF DeliverIndexed
<1>. DEFINE e == indexed[i]
            q == e.round
            store == [rows EXCEPT ![q] = Evolved(rows[q], e)]
            list == SessionRows(store, ready)
<1>3. /\ e \in Event /\ q \in Rounds /\ e \in Range(indexed)
      /\ Range(indexed') \subseteq Range(indexed)
  BY <1>1, <1>2, TakesOne DEF StateTypes
<1>4. rows' = store
  BY <1>2
<1>5. IF ready /\ store # rows THEN Publish(list, ready) /\ patches' = Pruned(list)
      ELSE UNCHANGED <<patches, viewVars>>
  BY <1>2 DEF Rerender
<1>6. UNCHANGED <<optimistic, confirmed, chain, flash, call, confirmedOpens>>
  BY DEF DeliverIndexed, openVars, callVars
<1>7. ViewIInv' /\ store \in [Rounds -> Row] /\ ready \in BOOLEAN /\ rows \in [Rounds -> Row]
      /\ patches \in [Rounds -> Patch]
  <2>1. ViewIInv'
    BY <1>1, DeliverIndexedKeeps
  <2>. QED
    BY <1>1, <1>4, <2>1 DEF ViewIInv, StateTypes
<1>8. \A r \in Rounds : store[r] = IF r = q THEN Evolved(rows[r], e) ELSE rows[r]
  <2>. DEFINE next == Evolved(rows[q], e)
  <2>1. store = [rows EXCEPT ![q] = next]
    OBVIOUS
  <2>. HIDE DEF next, store
  <2>2. \A r \in Rounds : store[r] = IF r = q THEN next ELSE rows[r]
    BY <1>3, <1>7, <2>1
  <2>. QED
    BY <2>2 DEF next
<1>. HIDE DEF store, e
<1>9. ASSUME NEW r \in Rounds
      PROVE  PublishedKnown(r)' /\ ConfirmedOpen(r)' /\ WatchedOf(r)' /\ ClaimsAgree(r)'
             /\ Advances(r)
  <2>1. ClaimsAgree(r) /\ ConfirmedOpen(r) /\ PublishedKnown(r) /\ WatchedOf(r)
    BY DEF StreamInv
  <2>2. rows[r] \in Row /\ patches[r] \in Patch
    BY <1>7
  <2>3. /\ rows[r].phase = "NONE" => rows[r].step = 0
        /\ patches[r].phase = "NONE" => patches[r].step = 0
    BY <2>1 DEF ClaimsAgree
  <2>4. /\ Listed(rows[r]) => Listed(store[r])
        /\ Level(store[r], patches[r]) >= Level(rows[r], patches[r])
        /\ store[r].phase = "NONE" => store[r].step = 0
        /\ store[r].phase \in Waiting => \E x \in {rows[r], e} :
             /\ x.phase = store[r].phase /\ x.step = store[r].step
             /\ x = e => e.round = r
    <3>1. CASE r = q
      <4>1. store[r] = Evolved(rows[r], e)
        BY <1>8, <3>1
      <4>2. Listed(rows[r]) => Listed(store[r])
        BY <1>3, <2>2, <4>1, EvolvedIsRow
      <4>3. /\ Level(store[r], patches[r]) >= Level(rows[r], patches[r])
            /\ store[r].phase = "NONE" => store[r].step = 0
            /\ store[r].phase \in Waiting => \E x \in {rows[r], e} :
                 x.phase = store[r].phase /\ x.step = store[r].step
        BY <1>3, <2>2, <2>3, <4>1, EvolvedGoesOn
      <4>. QED
        BY <3>1, <4>2, <4>3
    <3>2. CASE r # q
      <4>1. store[r] = rows[r]
        BY <1>8, <3>2
      <4>2. Level(rows[r], patches[r]) \in Nat
        BY <2>2, LevelIs
      <4>3. rows[r] # e
        <5>1. CASE rows[r] = e
          <6>1. DOMAIN rows[r] = {"opened", "step", "phase", "words"}
                /\ DOMAIN e = {"round", "phase", "step", "word"}
            BY <1>3, <2>2 DEF Row, Event
          <6>. QED
            BY <5>1, <6>1
        <5>. QED
          BY <5>1
      <4>. QED
        BY <2>3, <4>1, <4>2, <4>3
    <3>. QED
      BY <3>1, <3>2
  <2>5. store[r].phase \in Waiting /\ store[r].step # 0 =>
          \E y \in Claims(r) : y.phase = store[r].phase /\ y.step = store[r].step
    <3>. SUFFICES ASSUME store[r].phase \in Waiting, store[r].step # 0
                  PROVE  \E y \in Claims(r) : y.phase = store[r].phase /\ y.step = store[r].step
      OBVIOUS
    <3>1. PICK x \in {rows[r], e} : /\ x.phase = store[r].phase /\ x.step = store[r].step
                                    /\ x = e => e.round = r
      BY <2>4
    <3>2. x \in Claims(r)
      <4>1. CASE x = rows[r]
        BY <3>1, <4>1, RowClaims
      <4>2. CASE x = e
        BY <1>3, <3>1, <4>2 DEF Claims
      <4>. QED
        BY <4>1, <4>2
    <3>. QED
      BY <3>1, <3>2
  <2>6. ConfirmedOpen(r)'
    BY <1>6, <2>1 DEF ConfirmedOpen, Sending
  <2>7. CASE ready /\ store # rows
    <3>1. PublishedKnown(r)' /\ WatchedOf(r)' /\ ClaimsAgree(r)' /\ Advances(r)
      BY <1>3, <1>4, <1>5, <1>6, <1>7, <2>4, <2>5, <2>7, PublishStreams
    <3>. QED
      BY <2>6, <3>1
  <2>8. CASE ~(ready /\ store # rows)
    <3>1. UNCHANGED <<patches, published, watched>>
      BY <1>5, <2>8 DEF viewVars
    <3>2. rows'[r] = store[r] /\ rows'[r] \in Row /\ patches'[r] = patches[r]
      BY <1>4, <1>7, <3>1
    <3>3. PublishedKnown(r)' /\ WatchedOf(r)' /\ Advances(r)
      BY <1>6, <2>2, <2>4, <3>1, <3>2, StreamStays
    <3>4. ClaimsStay(r)
      <4>. SUFFICES ASSUME NEW x \in Claims(r)'
                    PROVE  \E y \in Claims(r) : y.phase = x.phase /\ y.step = x.step
        BY DEF ClaimsStay
      <4>1. CASE x = rows'[r] /\ x.phase \in Waiting /\ x.step # 0
        BY <2>5, <3>2, <4>1
      <4>2. CASE x \in {patches'[r]} \cup OfSession(watched', r) /\ x.phase \in Waiting /\ x.step # 0
        <5>1. x \in Claims(r)
          BY <3>1, <3>2, <4>2 DEF Claims
        <5>. QED
          BY <5>1
      <4>3. CASE x \in Range(flash') \cup Range(indexed') /\ x.round = r /\ x.phase \in Waiting
        <5>1. x \in Claims(r)
          BY <1>3, <1>6, <4>3 DEF Claims
        <5>. QED
          BY <5>1
      <4>. QED
        BY <4>1, <4>2, <4>3 DEF Claims
    <3>5. ClaimsAgree(r)'
      BY <1>1, <1>6, <2>1, <2>3, <2>4, <3>2, <3>4, ClaimsStillAgree
    <3>. QED
      BY <2>6, <3>3, <3>5
  <2>. QED
    BY <2>7, <2>8
<1>. QED
  BY <1>7, <1>9 DEF StreamStep, StreamInv

LEMMA DeliverFlashStreams ==
  ASSUME StreamInv, DeliverFlash
  PROVE  StreamStep
<1>1. ViewIInv /\ StateTypes
  BY DEF StreamInv, ViewIInv
<1>2. PICK i \in DOMAIN flash :
        /\ Takes(flash, i)
        /\ flash' = RemoveAt(flash, i)
        /\ patches' = [patches EXCEPT ![flash[i].round] = Patched(patches[flash[i].round], flash[i])]
        /\ IF flash[i].phase = "NONE" THEN SeenOpen(flash[i].round) ELSE UNCHANGED openVars
  BY DEF DeliverFlash
<1>. DEFINE e == flash[i]
            q == e.round
<1>3. /\ e \in Event /\ q \in Rounds /\ e \in Range(flash)
      /\ Range(flash') \subseteq Range(flash)
  BY <1>1, <1>2, TakesOne DEF StateTypes
<1>4. UNCHANGED <<chain, indexed, rows, call, published, watched>>
  BY DEF DeliverFlash, callVars, viewVars
<1>5. ViewIInv' /\ rows \in [Rounds -> Row] /\ patches \in [Rounds -> Patch]
      /\ patches' \in [Rounds -> Patch]
  <2>1. ViewIInv'
    BY <1>1, DeliverFlashKeeps
  <2>. QED
    BY <1>1, <2>1 DEF ViewIInv, StateTypes
<1>6. \A r \in Rounds : patches'[r] = IF r = q THEN Patched(patches[r], e) ELSE patches[r]
  <2>. DEFINE next == Patched(patches[q], e)
  <2>1. patches' = [patches EXCEPT ![q] = next]
    BY <1>2
  <2>. HIDE DEF next, e
  <2>2. \A r \in Rounds : patches'[r] = IF r = q THEN next ELSE patches[r]
    BY <1>3, <1>5, <2>1
  <2>. QED
    BY <2>2 DEF next
<1>7. /\ optimistic' = optimistic
      /\ \/ UNCHANGED <<confirmed, confirmedOpens>>
         \/ /\ q \in pendingOpens
            /\ confirmed' = confirmed \cup ({q} \cap optimistic)
            /\ confirmedOpens' = confirmedOpens \cup {q}
  BY <1>2 DEF SeenOpen, openVars
<1>. HIDE DEF e
<1>8. ASSUME NEW r \in Rounds
      PROVE  PublishedKnown(r)' /\ ConfirmedOpen(r)' /\ WatchedOf(r)' /\ ClaimsAgree(r)'
             /\ Advances(r)
  <2>1. ClaimsAgree(r) /\ ConfirmedOpen(r) /\ OpensInv(r)
    BY <1>1 DEF StreamInv, ViewIInv
  <2>2. rows[r] \in Row /\ patches[r] \in Patch /\ patches'[r] \in Patch
    BY <1>5
  <2>3. /\ rows[r].phase = "NONE" => rows[r].step = 0
        /\ patches[r].phase = "NONE" => patches[r].step = 0
    BY <2>1 DEF ClaimsAgree
  <2>4. ConfirmedOpen(r)'
    BY <1>4, <1>7, <2>1 DEF ConfirmedOpen, OpensInv, Sending
  <2>5. /\ Level(rows[r], patches'[r]) >= Level(rows[r], patches[r])
        /\ patches'[r].phase = "NONE" => patches'[r].step = 0
        /\ patches'[r].phase \in Waiting /\ patches'[r].step # 0 =>
             \E y \in Claims(r) : y.phase = patches'[r].phase /\ y.step = patches'[r].step
    <3>1. CASE r = q
      <4>1. patches'[r] = Patched(patches[r], e)
        BY <1>6, <3>1
      <4>2. /\ Level(rows[r], patches'[r]) >= Level(rows[r], patches[r])
            /\ patches'[r].phase = "NONE" => patches'[r].step = 0
            /\ patches'[r].phase \in Waiting => \E x \in {patches[r], e} :
                 x.phase = patches'[r].phase /\ x.step = patches'[r].step
        BY <1>3, <2>2, <2>3, <4>1, PatchedGoesOn
      <4>3. ASSUME patches'[r].phase \in Waiting, patches'[r].step # 0
            PROVE  \E y \in Claims(r) : y.phase = patches'[r].phase /\ y.step = patches'[r].step
        <5>1. PICK x \in {patches[r], e} :
                x.phase = patches'[r].phase /\ x.step = patches'[r].step
          BY <4>2, <4>3
        <5>2. CASE x = patches[r]
          BY <4>3, <5>1, <5>2, RowClaims
        <5>3. CASE x = e
          <6>1. e \in Claims(r)
            BY <1>3, <3>1, <4>3, <5>1, <5>3 DEF Claims
          <6>. QED
            BY <5>1, <5>3, <6>1
        <5>. QED
          BY <5>1, <5>2, <5>3
      <4>. QED
        BY <4>2, <4>3
    <3>2. CASE r # q
      <4>1. patches'[r] = patches[r] /\ Level(rows[r], patches[r]) \in Nat
        BY <1>6, <2>2, <3>2, LevelIs
      <4>. QED
        BY <2>3, <4>1, RowClaims
    <3>. QED
      BY <3>1, <3>2
  <2>6. PublishedKnown(r)' /\ WatchedOf(r)' /\ Advances(r)
    <3>1. r \in optimistic \cap confirmed => r \in optimistic' \cap confirmed'
      BY <1>7
    <3>2. rows'[r] = rows[r] /\ rows'[r] \in Row /\ UNCHANGED <<published, watched>>
      BY <1>4, <2>2
    <3>. QED
      BY <2>2, <2>5, <3>1, <3>2, StreamStays
  <2>7. ClaimsStay(r)
    <3>. SUFFICES ASSUME NEW x \in Claims(r)'
                  PROVE  \E y \in Claims(r) : y.phase = x.phase /\ y.step = x.step
      BY DEF ClaimsStay
    <3>1. CASE x = patches'[r] /\ x.phase \in Waiting /\ x.step # 0
      BY <2>5, <3>1
    <3>2. CASE x \in {rows'[r]} \cup OfSession(watched', r) /\ x.phase \in Waiting /\ x.step # 0
      <4>1. x \in Claims(r)
        BY <1>4, <3>2 DEF Claims
      <4>. QED
        BY <4>1
    <3>3. CASE x \in Range(flash') \cup Range(indexed') /\ x.round = r /\ x.phase \in Waiting
      <4>1. x \in Claims(r)
        BY <1>3, <1>4, <3>3 DEF Claims
      <4>. QED
        BY <4>1
    <3>. QED
      BY <3>1, <3>2, <3>3 DEF Claims
  <2>8. ClaimsAgree(r)'
    BY <1>1, <1>4, <2>1, <2>3, <2>5, <2>7, ClaimsStillAgree
  <2>. QED
    BY <2>4, <2>6, <2>8
<1>. QED
  BY <1>5, <1>8 DEF StreamStep, StreamInv

-----------------------------------------------------------------------------
\* Steps of the chain.  Only they make a new claim: of the next step.
LEMMA ClaimNats ==
  ASSUME StreamInv, NEW r \in Rounds, NEW x \in Claims(r)
  PROVE  x.step \in Nat
<1>1. StateTypes /\ WatchedOf(r)
  BY DEF StreamInv, ViewIInv
<1>2. CASE x \in {rows[r], patches[r]}
  BY <1>1, <1>2, StepsAreNats DEF StateTypes, Row, Patch
<1>3. CASE x \in OfSession(watched, r)
  BY <1>1, <1>3 DEF WatchedOf
<1>4. CASE x \in Range(flash) \cup Range(indexed)
  <2>1. Range(flash) \subseteq Event /\ Range(indexed) \subseteq Event
    <3>1. ASSUME NEW queue \in Seq(Event) PROVE Range(queue) \subseteq Event
      BY RangeEquality, LenProperties, ElementOfSeq
    <3>. QED
      BY <1>1, <3>1 DEF StateTypes
  <2>2. x \in Event
    BY <1>4, <2>1
  <2>. QED
    BY <2>2, StepsAreNats DEF Event
<1>. QED
  BY <1>2, <1>3, <1>4 DEF Claims

LEMMA ChainStreams ==
  ASSUME StreamInv, ViewIInv', NEW r \in Rounds, NEW phase \in Waiting \cup {"OVER"},
         NEW word \in Steps, Goes(r, phase, word), NEW events \in Seq(Event), Feed(events),
         \A e \in Range(events) : e.phase \in Waiting => e = Moved(r, phase, word),
         UNCHANGED <<storeVars, openVars, call, viewVars>>
  PROVE  StreamStep
<1>1. ViewIInv /\ StateTypes
  BY DEF StreamInv, ViewIInv
<1>2. /\ chain'[r].step = IF phase \in Waiting THEN chain[r].step + 1 ELSE chain[r].step
      /\ \A q \in Rounds \ {r} : chain'[q] = chain[q]
      /\ \A q \in Rounds : chain[q].step \in Nat
  BY <1>1, GoesMoves, StepsAreNats DEF StateTypes
<1>3. /\ Range(flash') \subseteq Range(flash) \cup Range(events)
      /\ Range(indexed') \subseteq Range(indexed) \cup Range(events)
  BY <1>1, FeedAppends
<1>. DEFINE e == Moved(r, phase, word)
<1>4. e.round = r /\ e.phase = phase /\ (phase \in Waiting => e.step = chain[r].step + 1)
  BY DEF Moved, Waiting
<1>5. UNCHANGED <<rows, patches, published, watched, optimistic, confirmed, confirmedOpens, call>>
  BY DEF storeVars, openVars, viewVars
<1>. HIDE DEF e
<1>6. ASSUME NEW q \in Rounds
      PROVE  PublishedKnown(q)' /\ ConfirmedOpen(q)' /\ WatchedOf(q)' /\ ClaimsAgree(q)'
             /\ Advances(q)
  <2>1. ClaimsAgree(q) /\ ConfirmedOpen(q)
    BY DEF StreamInv
  <2>2. rows[q] \in Row /\ patches[q] \in Patch
    BY <1>1 DEF StateTypes
  <2>3. Level(rows[q], patches[q]) \in Nat
    BY <2>2, LevelIs
  <2>4. ConfirmedOpen(q)'
    BY <1>5, <2>1 DEF ConfirmedOpen, Sending
  <2>5. PublishedKnown(q)' /\ WatchedOf(q)' /\ Advances(q)
    <3>1. Level(rows'[q], patches'[q]) >= Level(rows[q], patches[q])
          /\ rows'[q] \in Row /\ patches'[q] \in Patch
      BY <1>5, <2>2, <2>3
    <3>2. /\ UNCHANGED <<published, watched>> /\ (Listed(rows[q]) => Listed(rows'[q]))
          /\ r \in optimistic \cap confirmed => r \in optimistic' \cap confirmed'
      BY <1>5
    <3>. QED
      BY <1>5, <3>1, <3>2, StreamStays
  <2>6. ASSUME NEW x \in Claims(q)'
        PROVE  x \in Claims(q) \/ (q = r /\ phase \in Waiting /\ x = e)
    BY <1>3, <1>4, <1>5, <2>6 DEF Claims, e
  <2>7. ASSUME NEW x \in Claims(q)', NEW y \in Claims(q)'
        PROVE  x.step <= chain'[q].step /\ (x.step = y.step => x.phase = y.phase)
    <3>1. \A z \in Claims(q) : z.step \in Nat /\ z.step <= chain[q].step
      BY <2>1, ClaimNats DEF ClaimsAgree
    <3>2. chain[q].step \in Nat /\ chain'[q].step \in Nat /\ chain'[q].step >= chain[q].step
      BY <1>2
    <3>3. q = r /\ phase \in Waiting =>
            e.step = chain[q].step + 1 /\ chain'[q].step = chain[q].step + 1
      BY <1>2, <1>4
    <3>4. x.step <= chain'[q].step
      <4>1. CASE x \in Claims(q)
        BY <3>1, <3>2, <4>1
      <4>2. CASE x \notin Claims(q)
        BY <2>6, <3>2, <3>3, <4>2
      <4>. QED
        BY <4>1, <4>2
    <3>5. ASSUME x.step = y.step PROVE x.phase = y.phase
      <4>1. CASE x \in Claims(q) /\ y \in Claims(q)
        BY <2>1, <3>5, <4>1 DEF ClaimsAgree
      <4>2. CASE x \notin Claims(q) /\ y \notin Claims(q)
        BY <2>6, <4>2
      <4>3. CASE x \in Claims(q) /\ y \notin Claims(q)
        BY <2>6, <3>1, <3>2, <3>3, <3>5, <4>3
      <4>4. CASE x \notin Claims(q) /\ y \in Claims(q)
        BY <2>6, <3>1, <3>2, <3>3, <3>5, <4>4
      <4>. QED
        BY <4>1, <4>2, <4>3, <4>4
    <3>. QED
      BY <3>4, <3>5
  <2>8. ClaimsAgree(q)'
    BY <1>5, <2>1, <2>7 DEF ClaimsAgree
  <2>. QED
    BY <2>4, <2>5, <2>8
<1>. QED
  BY <1>6 DEF StreamStep, StreamInv

LEMMA ChainStepStreams ==
  ASSUME StreamInv, ViewIInv', NEW r \in Rounds,
         Land(r) \/ Progress(r) \/ Submit(r) \/ CancelStuckRandomness(r)
  PROVE  StreamStep
<1>1. StateTypes /\ 0 \in Steps /\ "OVER" \in Waiting \cup {"OVER"}
  BY StepsAreNats DEF StreamInv, ViewIInv
<1>2. ASSUME NEW phase \in Waiting \cup {"OVER"}, NEW word \in Steps, Goes(r, phase, word),
             Feed(<<Moved(r, phase, word)>>),
             UNCHANGED <<storeVars, openVars, call, viewVars>>
      PROVE  StreamStep
  <2>. DEFINE events == <<Moved(r, phase, word)>>
  <2>1. events \in Seq(Event) /\ Range(events) = {Moved(r, phase, word)} /\ Feed(events)
    BY <1>1, <1>2, GoesMoves, OneEvent
  <2>. HIDE DEF events
  <2>2. \A e \in Range(events) : e.phase \in Waiting => e = Moved(r, phase, word)
    BY <2>1
  <2>. QED
    BY <1>2, <2>1, <2>2, ChainStreams
<1>3. CASE Land(r)
  <2>1. PICK phase \in Waiting \cup {"OVER"} :
          Goes(r, phase, 0) /\ Feed(<<Opened(r), Moved(r, phase, 0)>>)
    BY <1>3 DEF Land
  <2>. DEFINE events == <<Opened(r), Moved(r, phase, 0)>>
  <2>2. /\ events \in Seq(Event) /\ Range(events) = {Opened(r), Moved(r, phase, 0)}
        /\ Feed(events)
    BY <1>1, <2>1, GoesMoves, OpenedIsEvent, TwoEvents
  <2>. HIDE DEF events
  <2>3. \A e \in Range(events) : e.phase \in Waiting => e = Moved(r, phase, 0)
    BY <2>2 DEF Opened, Waiting
  <2>4. UNCHANGED <<storeVars, openVars, call, viewVars>>
    BY <1>3 DEF Land, callVars
  <2>. QED
    BY <1>1, <2>1, <2>2, <2>3, <2>4, ChainStreams
<1>4. CASE Progress(r)
  <2>1. PICK phase \in Waiting \cup {"OVER"}, word \in {0, chain[r].step} :
          Goes(r, phase, word) /\ Feed(<<Moved(r, phase, word)>>)
    BY <1>4 DEF Progress
  <2>2. word \in Steps
    BY <1>1 DEF StateTypes
  <2>3. UNCHANGED <<storeVars, openVars, call, viewVars>>
    BY <1>4 DEF Progress, callVars
  <2>. QED
    BY <1>2, <2>1, <2>2, <2>3
<1>5. CASE Submit(r)
  <2>1. PICK phase \in Waiting \cup {"OVER"} :
          Goes(r, phase, 0) /\ Feed(<<Moved(r, phase, 0)>>)
    BY <1>5 DEF Submit
  <2>2. UNCHANGED <<storeVars, openVars, call, viewVars>>
    BY <1>5 DEF Submit
  <2>. QED
    BY <1>1, <1>2, <2>1, <2>2
<1>6. CASE CancelStuckRandomness(r)
  <2>1. Goes(r, "OVER", 0) /\ Feed(<<Moved(r, "OVER", 0)>>)
        /\ UNCHANGED <<storeVars, openVars, call, viewVars>>
    BY <1>6 DEF CancelStuckRandomness, callVars
  <2>. QED
    BY <1>1, <1>2, <2>1
<1>. QED
  BY <1>3, <1>4, <1>5, <1>6

-----------------------------------------------------------------------------
\* Steps of a call: the row of a bet is confirmed by its push or its receipt,
\* and only dropped once it is listed, or while it is not confirmed.
LEMMA CallStreams ==
  ASSUME StreamInv, ViewIInv',
         UNCHANGED <<rows, patches, published, watched, chain, flash, indexed>>,
         \A r \in Rounds : /\ ConfirmedOpen(r)'
                           /\ r \in optimistic \cap confirmed =>
                                Listed(rows[r]) \/ r \in optimistic' \cap confirmed'
  PROVE  StreamStep
<1>1. ViewIInv /\ StateTypes
  BY DEF StreamInv, ViewIInv
<1>2. ASSUME NEW r \in Rounds
      PROVE  PublishedKnown(r)' /\ WatchedOf(r)' /\ ClaimsAgree(r)' /\ Advances(r)
  <2>1. rows[r] \in Row /\ patches[r] \in Patch /\ ClaimsAgree(r)
    BY <1>1 DEF StateTypes, StreamInv
  <2>2. Level(rows[r], patches[r]) \in Nat
    BY <2>1, LevelIs
  <2>3. /\ Level(rows'[r], patches'[r]) >= Level(rows[r], patches[r])
        /\ rows'[r] \in Row /\ patches'[r] \in Patch
        /\ Listed(rows[r]) => Listed(rows'[r])
        /\ r \in optimistic \cap confirmed => Listed(rows'[r]) \/ r \in optimistic' \cap confirmed'
    BY <2>1, <2>2
  <2>4. PublishedKnown(r)' /\ WatchedOf(r)' /\ Advances(r)
    BY <2>3, StreamStays
  <2>5. ClaimsAgree(r)'
    BY <2>1 DEF ClaimsAgree, Claims, OfSession
  <2>. QED
    BY <2>4, <2>5
<1>. QED
  BY <1>2 DEF StreamStep, StreamInv

LEMMA CallStepStreams ==
  ASSUME StreamInv, ViewIInv', NEW r \in Rounds,
         OpenSession(r) \/ Accept(r) \/ Return(r) \/ Fail(r) \/ SubmitReturns(r)
  PROVE  StreamStep
<1>1. StateTypes /\ \A q \in Rounds : ConfirmedOpen(q)
  BY DEF StreamInv, ViewIInv
<1>2. UNCHANGED <<rows, patches, published, watched, chain, flash, indexed>>
  BY DEF OpenSession, Accept, Return, Fail, SubmitReturns, storeVars, viewVars, chainVars
<1>3. ASSUME NEW q \in Rounds
      PROVE  /\ ConfirmedOpen(q)'
             /\ q \in optimistic \cap confirmed =>
                  Listed(rows[q]) \/ q \in optimistic' \cap confirmed'
  <2>1. CASE OpenSession(r)
    <3>1. /\ call[r] = "none" /\ call' = [call EXCEPT ![r] = "sent"]
          /\ optimistic' = {r} \cup (optimistic \ (confirmed \cap DOMAIN List))
          /\ confirmed' = confirmed \ DOMAIN List /\ confirmedOpens' = confirmedOpens
      BY <2>1 DEF OpenSession
    <3>2. DOMAIN List = {s \in Rounds : ready /\ Listed(rows[s])}
      BY <1>1, RowsAreOK DEF List, StateTypes
    <3>3. call'[r] = "sent" /\ \A s \in Rounds \ {r} : call'[s] = call[s]
      BY <1>1, <3>1 DEF StateTypes
    <3>. QED
      BY <1>1, <3>1, <3>2, <3>3 DEF ConfirmedOpen, Sending
  <2>2. CASE Accept(r)
    <3>1. /\ call[r] = "sent" /\ call' = [call EXCEPT ![r] = "accepted"]
          /\ optimistic' = optimistic
          /\ \/ UNCHANGED <<confirmed, confirmedOpens>>
             \/ /\ confirmed' = confirmed \cup ({r} \cap optimistic)
                /\ confirmedOpens' = confirmedOpens \cup {r}
      BY <2>2 DEF Accept
    <3>2. call'[r] = "accepted" /\ \A s \in Rounds \ {r} : call'[s] = call[s]
      BY <1>1, <3>1 DEF StateTypes
    <3>. QED
      BY <1>1, <3>1, <3>2 DEF ConfirmedOpen, Sending
  <2>3. CASE Return(r)
    <3>1. /\ call' = [call EXCEPT ![r] = "returned"] /\ optimistic' = optimistic
          /\ confirmed' = confirmed \cup ({r} \cap optimistic)
          /\ confirmedOpens' = confirmedOpens \ {r}
      BY <2>3 DEF Return
    <3>2. call'[r] = "returned" /\ \A s \in Rounds \ {r} : call'[s] = call[s]
      BY <1>1, <3>1 DEF StateTypes
    <3>. QED
      BY <1>1, <3>1, <3>2 DEF ConfirmedOpen, Sending
  <2>4. CASE Fail(r)
    <3>1. Sending(r) /\ confirmedOpens' = confirmedOpens \ {r}
      BY <2>4 DEF Fail
    <3>2. \/ /\ call' = [call EXCEPT ![r] = "returned"]
             /\ confirmed' = confirmed \cup ({r} \cap optimistic) /\ optimistic' = optimistic
          \/ /\ r \notin confirmedOpens /\ call' = [call EXCEPT ![r] = "failed"]
             /\ optimistic' = optimistic \ {r} /\ confirmed' = confirmed \ {r}
      BY <2>4 DEF Fail
    <3>3. call'[r] \in {"returned", "failed"} /\ \A s \in Rounds \ {r} : call'[s] = call[s]
      BY <1>1, <3>2 DEF StateTypes
    <3>. QED
      BY <1>1, <3>1, <3>2, <3>3 DEF ConfirmedOpen, Sending
  <2>5. CASE SubmitReturns(r)
    BY <1>1, <2>5 DEF SubmitReturns, openVars, ConfirmedOpen, Sending
  <2>. QED
    BY <2>1, <2>2, <2>3, <2>4, <2>5
<1>. QED
  BY <1>2, <1>3, CallStreams

-----------------------------------------------------------------------------
LEMMA InitStream == Init => StreamInv
<1>. SUFFICES ASSUME Init PROVE StreamInv
  OBVIOUS
<1>1. ViewIInv /\ StateTypes
  BY InitView DEF ViewIInv
<1>2. /\ flash = <<>> /\ rows = [r \in Rounds |-> InitialRow]
      /\ patches = [r \in Rounds |-> InitialPatch] /\ confirmed = {}
      /\ published = [r \in Rounds |-> NoItem] /\ watched = {}
  BY DEF Init
<1>3. /\ InitialRow.phase = "NONE" /\ InitialRow.step = 0
      /\ InitialPatch.phase = "NONE" /\ InitialPatch.step = 0
  BY DEF InitialRow, InitialPatch
<1>4. Range(flash) = {}
  BY <1>2 DEF Range
<1>5. \E phase \in Waiting : \A e \in Range(indexed) :
        e.phase \in Waiting =>
          e = [round |-> 1, phase |-> phase, step |-> 1, word |-> 0] /\ chain[1].step = 1
  <2>1. CASE indexed = <<>>
    BY <2>1 DEF Range, Waiting
  <2>2. ASSUME NEW phase \in Waiting, NEW over \in BOOLEAN,
               indexed = PastLogs(phase, over), chain[1].step = 1
        PROVE  \A e \in Range(indexed) :
                 e.phase \in Waiting => e = [round |-> 1, phase |-> phase, step |-> 1, word |-> 0]
    <3>. DEFINE e1 == Opened(1)
                e2 == [round |-> 1, phase |-> phase, step |-> 1, word |-> 0]
                e3 == [round |-> 1, phase |-> "OVER", step |-> 0, word |-> 0]
                tail == IF over THEN <<e3>> ELSE <<>>
                first == <<e1, e2>>
    <3>0. 0 \in Steps /\ 1 \in Steps /\ 1 \in Rounds
      BY ViewAssumption DEF Steps, Rounds
    <3>1. e1 \in Event /\ e2 \in Event /\ e3 \in Event
      BY <3>0, OpenedIsEvent DEF Event, Phases
    <3>2. indexed = first \o tail /\ e1.phase = "NONE" /\ e3.phase = "OVER"
      BY <2>2 DEF PastLogs, Opened
    <3>. HIDE DEF e1, e2, e3
    <3>3. first \in Seq(Event) /\ Range(first) = {e1, e2}
      BY <3>1, TwoEvents
    <3>4. tail \in Seq(Event) /\ Range(tail) \subseteq {e3}
      <4>1. CASE over
        BY <3>1, <4>1, OneEvent
      <4>2. CASE ~over
        BY <4>2 DEF Range
      <4>. QED
        BY <4>1, <4>2
    <3>. HIDE DEF tail, first
    <3>5. Range(indexed) \subseteq {e1, e2, e3}
      BY <3>2, <3>3, <3>4, RangeConcatenation
    <3>. QED
      BY <3>2, <3>5 DEF e2, Waiting
  <2>3. \/ indexed = <<>>
        \/ \E phase \in Waiting, over \in BOOLEAN :
             indexed = PastLogs(phase, over) /\ chain[1].step = 1
    <3>1. 1 \in Rounds /\ ~(1 > 1)
      BY ViewAssumption DEF Rounds
    <3>. QED
      BY <3>1 DEF Init
  <2>. QED
    BY <2>1, <2>2, <2>3
<1>6. ASSUME NEW r \in Rounds
      PROVE  PublishedKnown(r) /\ ConfirmedOpen(r) /\ WatchedOf(r) /\ ClaimsAgree(r)
  <2>1. Claims(r) \subseteq {e \in Range(indexed) : e.round = r /\ e.phase \in Waiting}
    BY <1>2, <1>3, <1>4 DEF Claims, OfSession, Waiting
  <2>2. ASSUME NEW x \in Claims(r), NEW y \in Claims(r)
        PROVE  x.step <= chain[r].step /\ (x.step = y.step => x.phase = y.phase)
    BY <1>5, <2>1
  <2>. QED
    BY <1>2, <1>3, <2>2 DEF PublishedKnown, ConfirmedOpen, WatchedOf, OfSession, ClaimsAgree
<1>. QED
  BY <1>1, <1>6 DEF StreamInv

LEMMA StepStream ==
  ASSUME StreamInv, Next
  PROVE  StreamStep
<1>1. ViewIInv'
  BY StepView DEF StreamInv
<1>2. CASE Render \/ DeliverIndexed \/ DeliverFlash \/ ToggleWallet
  BY <1>2, RenderStreams, DeliverIndexedStreams, DeliverFlashStreams, ToggleStreams
<1>3. ASSUME NEW r \in Rounds,
             \/ Land(r) \/ Progress(r)
             \/ OpenSession(r) \/ Accept(r) \/ Return(r) \/ Fail(r)
             \/ Submit(r) \/ SubmitReturns(r) \/ CancelStuckRandomness(r)
      PROVE  StreamStep
  BY <1>1, <1>3, ChainStepStreams, CallStepStreams
<1>. QED
  BY <1>2, <1>3 DEF Next

LEMMA StutterStream == StreamInv /\ UNCHANGED vars => StreamInv'
<1>. SUFFICES ASSUME StreamInv, UNCHANGED vars PROVE StreamInv'
  OBVIOUS
<1>1. ViewIInv'
  BY StepView DEF StreamInv
<1>2. UNCHANGED <<rows, patches, published, watched, chain, flash, indexed,
                  optimistic, confirmed, confirmedOpens, call>>
  BY DEF vars, viewVars, storeVars, chainVars, openVars, callVars
<1>3. \A r \in Rounds : ConfirmedOpen(r)'
  BY <1>2 DEF StreamInv, ConfirmedOpen, Sending
<1>. QED
  BY <1>1, <1>2, <1>3, CallStreams DEF StreamStep

\* What the stream says of a session whose items are known.
LEMMA StreamIs ==
  ASSUME NEW items, NEW r \in Rounds, \A i, j \in OfSession(items, r) : i = j
  PROVE  StreamOf(items)[r] =
           IF OfSession(items, r) = {} THEN [phase |-> "ABSENT", step |-> -1]
           ELSE IF \E i \in OfSession(items, r) : i.step = 0 THEN [phase |-> "OPEN", step |-> 0]
           ELSE LET i == CHOOSE j \in OfSession(items, r) : TRUE
                IN  [phase |-> i.phase, step |-> i.step]
BY DEF StreamOf

LEMMA StreamOfItem ==
  ASSUME NEW items, NEW r \in Rounds, NEW i \in OfSession(items, r),
         \A j, k \in OfSession(items, r) : j = k
  PROVE  StreamOf(items)[r] = IF i.step = 0 THEN [phase |-> "OPEN", step |-> 0]
                              ELSE [phase |-> i.phase, step |-> i.step]
<1>1. OfSession(items, r) = {i}
  OBVIOUS
<1>2. (CHOOSE j \in OfSession(items, r) : TRUE) = i
  BY <1>1
<1>. QED
  BY <1>1, <1>2, StreamIs

\* While the wallet is ready a game sees every session go forward only, and end
\* with one result, however the channels, the calls and the renders interleave.
THEOREM ViewStream == Spec => StreamSpec
<1>1. ASSUME Init PROVE Stream!Init
  <2>1. \A r \in Rounds : OfSession(watched, r) = {}
    BY <1>1 DEF Init, OfSession
  <2>2. \A r \in Rounds : StreamOf(watched)[r] = [phase |-> "ABSENT", step |-> -1]
    BY <2>1, StreamIs
  <2>. QED
    BY <2>2 DEF Stream!Init, Stream!Absent, StreamOf
<1>2. ASSUME StreamInv, StreamStep PROVE Stream!Push
  <2>1. ASSUME NEW r \in Rounds
        PROVE  /\ StreamOf(watched)'[r] \in Stream!Views
               /\ \/ StreamOf(watched)'[r] = StreamOf(watched)[r]
                  \/ StreamOf(watched)'[r].step > StreamOf(watched)[r].step
    <3>. DEFINE old == OfSession(watched, r)
                new == OfSession(watched', r)
                before == StreamOf(watched)[r]
                after == StreamOf(watched')[r]
                Seen(i) == /\ i.step \in Nat
                           /\ \/ i.step = 0
                              \/ i.step = Final /\ i.phase = "OVER"
                              \/ i.step \in 1..MaxSteps /\ i.phase \in Waiting
                View1(i) == IF i.step = 0 THEN [phase |-> "OPEN", step |-> 0]
                            ELSE [phase |-> i.phase, step |-> i.step]
    <3>1. /\ \A i, j \in old : i = j
          /\ \A i \in old : Seen(i)
      BY <1>2 DEF StreamInv, WatchedOf
    <3>2. /\ \A i, j \in new : i = j
          /\ \A i \in new : Seen(i)
      BY <1>2 DEF StreamStep, StreamInv, WatchedOf
    <3>3. /\ old # {} => new # {}
          /\ \A i \in old, j \in new :
               j.step > i.step \/ (j.step = i.step /\ (i.phase \in Waiting /\ i.step # 0
                                               /\ j.phase \in Waiting => j.phase = i.phase))
      BY <1>2 DEF StreamStep, Advances
    <3>4. /\ old = {} => before = [phase |-> "ABSENT", step |-> -1]
          /\ new = {} => after = [phase |-> "ABSENT", step |-> -1]
      BY <3>1, <3>2, StreamIs
    <3>5. /\ \A i \in old : before = View1(i)
          /\ \A i \in new : after = View1(i)
      BY <3>1, <3>2, StreamOfItem
    <3>6. StreamOf(watched)'[r] = after
      BY DEF StreamOf, OfSession
    <3>. HIDE DEF old, new, before, after
    <3>7. ASSUME NEW i, Seen(i)
          PROVE  View1(i) \in Stream!Views /\ View1(i).step = i.step /\ i.step \in Nat
      <4>1. CASE i.step = 0
        BY <4>1 DEF Stream!Views
      <4>2. CASE i.step = Final /\ i.phase = "OVER" /\ i.step # 0
        BY <4>2, StepsAreNats DEF Stream!Views
      <4>3. CASE i.step \in 1..MaxSteps /\ i.phase \in Waiting
        <5>1. View1(i) = [phase |-> i.phase, step |-> i.step]
          BY <4>3
        <5>2. i.step \in 1..(Final - 1)
          BY <4>3, ViewAssumption DEF Final
        <5>. QED
          BY <4>3, <5>1, <5>2 DEF Stream!Views, Stream!Known, Waiting
      <4>. QED
        BY <3>7, <4>1, <4>2, <4>3
    <3>8. after \in Stream!Views
      <4>1. CASE new = {}
        BY <3>4, <4>1 DEF Stream!Views, Stream!Absent
      <4>2. CASE new # {}
        BY <3>2, <3>5, <3>7, <4>2
      <4>. QED
        BY <4>1, <4>2
    <3>9. after = before \/ after.step > before.step
      <4>1. CASE new = {}
        BY <3>3, <3>4, <4>1
      <4>2. CASE old = {} /\ new # {}
        <5>1. PICK j \in new : after = View1(j)
          BY <3>5, <4>2
        <5>2. after.step \in Nat /\ before.step = -1
          BY <3>2, <3>4, <3>7, <4>2, <5>1
        <5>. QED
          BY <5>2
      <4>3. CASE old # {} /\ new # {}
        <5>1. PICK i \in old, j \in new : TRUE
          BY <4>3
        <5>2. /\ before = View1(i) /\ after = View1(j) /\ Seen(i) /\ Seen(j)
              /\ before.step = i.step /\ after.step = j.step
          BY <3>1, <3>2, <3>5, <3>7
        <5>3. CASE j.step > i.step
          BY <5>2, <5>3
        <5>4. CASE j.step = i.step
          <6>1. i.step = 0 => after = before
            BY <5>2, <5>4
          <6>2. i.step # 0 => i.phase = j.phase
            <7>1. CASE i.step = Final
              BY <5>2, <5>4, <7>1, ViewAssumption DEF Final
            <7>2. CASE i.step # Final /\ i.step # 0
              BY <3>3, <5>2, <5>4, <7>2
            <7>. QED
              BY <7>1, <7>2, StepsAreNats
          <6>. QED
            BY <5>2, <5>4, <6>1, <6>2
        <5>. QED
          BY <3>3, <5>3, <5>4
      <4>. QED
        BY <4>1, <4>2, <4>3
    <3>. QED
      BY <3>6, <3>8, <3>9 DEF before
  <2>2. StreamOf(watched)' \in [Rounds -> Stream!Views]
    <3>1. StreamOf(watched)' = [r \in Rounds |-> StreamOf(watched)'[r]]
      BY DEF StreamOf
    <3>. QED
      BY <2>1, <3>1
  <2>. QED
    BY <2>1, <2>2 DEF Stream!Push
<1>3. ASSUME UNCHANGED vars PROVE UNCHANGED StreamOf(watched)
  BY <1>3 DEF vars, viewVars, StreamOf, OfSession
<1>4. StreamInv /\ [Next]_vars => StreamInv' /\ [Stream!Push]_(StreamOf(watched))
  BY <1>2, <1>3, StepStream, StutterStream DEF StreamStep
<1>. QED
  BY <1>1, <1>4, InitStream, PTL DEF Spec, StreamSpec, Stream!Spec

-----------------------------------------------------------------------------
(* The end: what the game sees when everything is delivered                *)

\* The chain is ahead of what the page and the channels have of a session, and agrees with it where they meet.
EventsOf(queue, r) == {e \in Range(queue) : e.round = r}
Told(r) == {rows[r], patches[r]} \cup EventsOf(flash, r) \cup EventsOf(indexed, r)
ChainAhead(r) ==
  /\ chain[r].phase \in Waiting <=> chain[r].step # 0 /\ ~Over(chain[r])
  /\ chain[r].phase = "NONE" => EventsOf(flash, r) \cup EventsOf(indexed, r) = {}
  /\ chain[r].word <= chain[r].step
  /\ \A e \in EventsOf(flash, r) \cup EventsOf(indexed, r) :
       e.phase \in Waiting <=> e.step # 0
  /\ \A x \in Told(r) :
       /\ x.step <= chain[r].step /\ Rank(x) <= Rank(chain[r])
       /\ Rank(x) = Rank(chain[r]) /\ Rank(x) # 0 => x.phase = chain[r].phase

\* Unless a log was lost, the indexed channel has what the row misses.
RowFollows(r) ==
  chain[r].phase # "NONE" =>
    /\ rows[r].opened \/ Opened(r) \in Range(indexed)
    /\ \E x \in {rows[r]} \cup EventsOf(indexed, r) : Rank(x) = Rank(chain[r])

\* Unless an event was overtaken as well, a channel has the events of a session
\* in their order, none is missing after the first, and each has the word for
\* the step before it, where `now' is the session on the chain.
InTurn(queue, r) ==
  \A i, j \in DOMAIN queue :
    i < j /\ queue[i].round = r /\ queue[j].round = r => Rank(queue[i]) < Rank(queue[j])
AllAfter(queue, r, step, now) ==
  \A n \in (step + 1)..now.step : \E e \in EventsOf(queue, r) : e.step = n
StepBefore(e, now) == IF Over(e) THEN now.step ELSE e.step - 1
QueueInv(queue, r, now) ==
  /\ InTurn(queue, r)
  /\ \A e \in EventsOf(queue, r) :
       /\ e.step # 0 => AllAfter(queue, r, e.step, now)
       /\ e.word # 0 => e.word = StepBefore(e, now) /\ e.word <= now.word

\* So the row gets every word under its own step ...
RowWords(r) ==
  /\ AllAfter(indexed, r, rows[r].step, chain[r])
  /\ \A e \in EventsOf(indexed, r) : e.phase # "NONE" => Rank(e) > Rank(rows[r])
  /\ \A n \in Steps : rows[r].words[n] \in {0, n} /\ rows[r].words[n] <= chain[r].word
  /\ \/ chain[r].word = 0 \/ rows[r].words[chain[r].word] # 0
     \/ \E e \in EventsOf(indexed, r) : e.word = chain[r].word

\* ... and a patch adds none under another.
PatchWord(r) ==
  LET p == patches[r]
  IN  /\ p.step # 0 /\ ~Over(p) => AllAfter(flash, r, p.step, chain[r])
      /\ p.step = 0 => p.asked = 0 /\ p.nonce = 0
      /\ p.phase = "WAITING_RANDOMNESS" => p.asked = p.step
      /\ p.nonce # 0 => p.word = p.nonce
      /\ p.word <= chain[r].word
      /\ \A e \in EventsOf(flash, r) : Over(e) /\ e.word # 0 =>
           \A x \in {p} \cup EventsOf(flash, r) :
             x.step = chain[r].step => x.phase \in {"WAITING_RANDOMNESS", "OVER"}

WordsInv(r) ==
  /\ QueueInv(flash, r, chain[r]) /\ QueueInv(indexed, r, chain[r])
  /\ RowWords(r) /\ PatchWord(r)
ArrivesInv(r) ==
  /\ ChainAhead(r)
  /\ faults.lost = 0 => RowFollows(r)
  /\ faults.lost = 0 /\ faults.overtaken = 0 => WordsInv(r)
Arrives == \A r \in Rounds : ArrivesInv(r)

\* A rank is a step or Final, and Final is of what is over.
LEMMA RankIs ==
  ASSUME NEW x, x.step \in Steps
  PROVE  /\ Rank(x) \in Nat /\ Rank(x) <= Final /\ Final \in Nat
         /\ Rank(x) = Final <=> Over(x)
         /\ ~Over(x) => Rank(x) = x.step
         /\ x.step \in Nat /\ x.step < Final
<1>1. x.step \in 0..MaxSteps /\ MaxSteps \in Nat
  BY ViewAssumption DEF Steps
<1>. QED
  BY <1>1 DEF Rank, Final

\* A fault is counted under its kind.
LEMMA FaultsGrow ==
  ASSUME StateTypes, NEW kind \in {"lost", "overtaken", "toggled"}, NEW n \in Nat,
         Fault(kind, n)
  PROVE  /\ faults'.lost = 0 => faults.lost = 0 /\ (kind = "lost" => n = 0)
         /\ faults'.overtaken = 0 => faults.overtaken = 0 /\ (kind = "overtaken" => n = 0)
<1>1. faults \in [lost : Nat, overtaken : Nat, toggled : Nat]
      /\ faults' = [faults EXCEPT ![kind] = faults[kind] + n]
  BY DEF StateTypes, Fault
<1>2. CASE kind = "lost"
  <2>1. faults' = [faults EXCEPT !.lost = faults.lost + n]
    BY <1>1, <1>2
  <2>. QED
    BY <1>1, <1>2, <2>1
<1>3. CASE kind = "overtaken"
  <2>1. faults' = [faults EXCEPT !.overtaken = faults.overtaken + n]
    BY <1>1, <1>3
  <2>. QED
    BY <1>1, <1>3, <2>1
<1>4. CASE kind = "toggled"
  <2>1. faults' = [faults EXCEPT !.toggled = faults.toggled + n]
    BY <1>1, <1>4
  <2>. QED
    BY <1>1, <1>4, <2>1
<1>. QED
  BY <1>2, <1>3, <1>4

\* The events of a queue are what its places hold.
LEMMA EventsAre ==
  ASSUME NEW queue \in Seq(Event)
  PROVE  /\ DOMAIN queue = 1..Len(queue) /\ Len(queue) \in Nat
         /\ Range(queue) \subseteq Event
         /\ \A i \in DOMAIN queue : queue[i] \in Range(queue) /\ queue[i] \in Event
         /\ \A e \in Range(queue) : \E i \in DOMAIN queue : e = queue[i]
         /\ \A e \in Range(queue) :
              /\ e.step \in Steps /\ e.step \in Nat /\ e.round \in Rounds
              /\ e.word \in Steps /\ e.word \in Nat
              /\ Rank(e) \in Nat /\ Rank(e) <= Final
              /\ Rank(e) = Final <=> Over(e)
              /\ ~Over(e) => Rank(e) = e.step
<1>1. DOMAIN queue = 1..Len(queue) /\ Len(queue) \in Nat
      /\ \A i \in DOMAIN queue : queue[i] \in Event
  BY LenProperties, ElementOfSeq
<1>2. Range(queue) \subseteq Event
  BY <1>1 DEF Range
<1>3. ASSUME NEW e \in Range(queue)
      PROVE  /\ e.step \in Steps /\ e.step \in Nat /\ e.round \in Rounds
             /\ e.word \in Steps /\ e.word \in Nat
    BY <1>2, StepsAreNats DEF Event
<1>4. ASSUME NEW e \in Range(queue)
      PROVE  /\ Rank(e) \in Nat /\ Rank(e) <= Final
             /\ Rank(e) = Final <=> Over(e)
             /\ ~Over(e) => Rank(e) = e.step
    BY <1>3, RankIs
<1>. QED
  BY <1>1, <1>2, <1>3, <1>4 DEF Range

\* Taking the head of a queue.
LEMMA HeadGoes ==
  ASSUME NEW queue \in Seq(Event), 1 \in DOMAIN queue
  PROVE  LET rest == RemoveAt(queue, 1)
         IN  /\ rest \in Seq(Event) /\ Len(rest) = Len(queue) - 1
             /\ \A j \in DOMAIN rest : j + 1 \in DOMAIN queue /\ rest[j] = queue[j + 1]
<1>1. Len(queue) \in Nat /\ DOMAIN queue = 1..Len(queue) /\ Len(queue) >= 1
  BY LenProperties
<1>. DEFINE after == SubSeq(queue, 2, Len(queue))
<1>2. /\ after \in Seq(Event) /\ Len(after) = Len(queue) - 1
      /\ \A j \in 1..(Len(queue) - 1) : after[j] = queue[j + 1]
  <2>1. \A j \in 2..Len(queue) : queue[j] \in Event
    BY <1>1, ElementOfSeq
  <2>2. 2 \in Int /\ Len(queue) \in Int
    BY <1>1
  <2>. HIDE DEF after
  <2>3. /\ after \in Seq(Event)
        /\ Len(after) = IF 2 <= Len(queue) THEN Len(queue) - 2 + 1 ELSE 0
        /\ \A j \in 1..(Len(queue) - 2 + 1) : after[j] = queue[2 + j - 1]
    BY <2>1, <2>2, SubSeqProperties DEF after
  <2>4. Len(queue) - 2 + 1 = Len(queue) - 1 /\ \A j \in Int : 2 + j - 1 = j + 1
    BY <1>1
  <2>5. Len(after) = Len(queue) - 1
    <3>1. CASE 2 <= Len(queue)
      BY <2>3, <2>4, <3>1
    <3>2. CASE ~(2 <= Len(queue))
      <4>1. Len(queue) = 1
        BY <1>1, <3>2
      <4>. QED
        BY <2>3, <4>1
    <3>. QED
      BY <3>1, <3>2
  <2>6. ASSUME NEW j \in 1..(Len(queue) - 1) PROVE after[j] = queue[j + 1]
    <3>1. j \in 1..(Len(queue) - 2 + 1) /\ 2 + j - 1 = j + 1
      BY <2>4
    <3>. QED
      BY <2>3, <3>1
  <2>. QED
    BY <2>3, <2>5, <2>6
<1>3. RemoveAt(queue, 1) = after
  <2>1. SubSeq(queue, 1, 0) = <<>>
    BY <1>1
  <2>2. RemoveAt(queue, 1) = SubSeq(queue, 1, 0) \o after
    BY DEF RemoveAt
  <2>. HIDE DEF after
  <2>. QED
    BY <1>2, <2>1, <2>2
<1>. HIDE DEF after
<1>4. DOMAIN after = 1..(Len(queue) - 1)
  BY <1>2, LenProperties
<1>5. ASSUME NEW j \in DOMAIN after
      PROVE  j + 1 \in DOMAIN queue /\ after[j] = queue[j + 1]
  BY <1>1, <1>2, <1>4
<1>. QED
  BY <1>2, <1>3, <1>5

LEMMA HeadInTurn ==
  ASSUME NEW queue \in Seq(Event), 1 \in DOMAIN queue, NEW r, InTurn(queue, r)
  PROVE  LET rest == RemoveAt(queue, 1)
         IN  /\ InTurn(rest, r)
             /\ queue[1].round = r =>
                  \A e \in EventsOf(rest, r) : Rank(queue[1]) < Rank(e)
<1>. DEFINE rest == RemoveAt(queue, 1)
<1>1. /\ rest \in Seq(Event)
      /\ \A j \in DOMAIN rest : j + 1 \in DOMAIN queue /\ rest[j] = queue[j + 1]
  BY HeadGoes
<1>2. DOMAIN rest \subseteq Nat \ {0}
  BY <1>1, LenProperties
<1>. HIDE DEF rest
<1>3. InTurn(rest, r)
  BY <1>1, <1>2 DEF InTurn
<1>4. ASSUME queue[1].round = r, NEW e \in EventsOf(rest, r)
      PROVE  Rank(queue[1]) < Rank(e)
  <2>1. e \in Range(rest) /\ e.round = r
    BY DEF EventsOf
  <2>2. PICK j \in DOMAIN rest : e = rest[j]
    BY <1>1, <2>1, EventsAre
  <2>3. j + 1 \in DOMAIN queue /\ e = queue[j + 1] /\ 1 < j + 1
    BY <1>1, <1>2, <2>2
  <2>. QED
    BY <1>4, <2>1, <2>3 DEF InTurn
<1>. QED
  BY <1>3, <1>4 DEF rest

\* Events of a higher rank may be appended.
LEMMA AppendInTurn ==
  ASSUME NEW s \in Seq(Event), NEW t \in Seq(Event), NEW r, InTurn(s, r), InTurn(t, r),
         \A d \in EventsOf(s, r), e \in EventsOf(t, r) : Rank(d) < Rank(e)
  PROVE  InTurn(s \o t, r)
<1>. DEFINE both == s \o t
<1>1. /\ Len(s) \in Nat /\ DOMAIN s = 1..Len(s) /\ Len(t) \in Nat /\ DOMAIN t = 1..Len(t)
  BY LenProperties
<1>2. /\ both \in Seq(Event) /\ DOMAIN both = 1..(Len(s) + Len(t))
      /\ \A j \in 1..Len(s) : both[j] = s[j]
      /\ \A j \in (Len(s) + 1)..(Len(s) + Len(t)) : both[j] = t[j - Len(s)]
  BY <1>1, ConcatProperties, LenProperties
<1>. HIDE DEF both
<1>3. ASSUME NEW i \in DOMAIN both, NEW j \in DOMAIN both, i < j,
             both[i].round = r, both[j].round = r
      PROVE  Rank(both[i]) < Rank(both[j])
  <2>0. i \in Nat /\ j \in Nat /\ i >= 1 /\ j >= 1 /\ i <= Len(s) + Len(t) /\ j <= Len(s) + Len(t)
    BY <1>1, <1>2
  <2>1. CASE j <= Len(s)
    <3>1. i \in DOMAIN s /\ j \in DOMAIN s /\ both[i] = s[i] /\ both[j] = s[j]
      BY <1>1, <1>2, <1>3, <2>0, <2>1
    <3>. QED
      BY <1>3, <3>1 DEF InTurn
  <2>2. CASE i > Len(s)
    <3>1. i - Len(s) \in DOMAIN t /\ j - Len(s) \in DOMAIN t /\ i - Len(s) < j - Len(s)
          /\ both[i] = t[i - Len(s)] /\ both[j] = t[j - Len(s)]
      BY <1>1, <1>2, <1>3, <2>0, <2>2
    <3>. QED
      BY <1>3, <3>1 DEF InTurn
  <2>3. CASE i <= Len(s) /\ j > Len(s)
    <3>1. i \in DOMAIN s /\ j - Len(s) \in DOMAIN t /\ both[i] = s[i] /\ both[j] = t[j - Len(s)]
      BY <1>1, <1>2, <1>3, <2>0, <2>3
    <3>2. both[i] \in EventsOf(s, r) /\ both[j] \in EventsOf(t, r)
      BY <1>3, <3>1 DEF EventsOf, Range
    <3>. QED
      BY <3>2
  <2>. QED
    BY <1>1, <2>0, <2>1, <2>2, <2>3
<1>. QED
  BY <1>3 DEF InTurn, both

-----------------------------------------------------------------------------
(* What an event does to a row and to a patch, field by field              *)

LEMMA FulfilledIs ==
  ASSUME NEW words \in [Steps -> Steps], NEW nonce \in Steps, NEW word \in Steps
  PROVE  LET next == Fulfilled(words, nonce, word)
         IN  /\ next \in [Steps -> Steps]
             /\ \A n \in Steps \ {nonce} : next[n] = words[n]
             /\ next[nonce] = IF words[nonce] = 0 THEN word ELSE words[nonce]
BY DEF Fulfilled

LEMMA EvolvedIs ==
  ASSUME NEW row \in Row, NEW e \in Event
  PROVE  LET next == Evolved(row, e)
         IN  /\ row.opened \/ e.phase = "NONE" => next.opened
             /\ e.phase = "NONE" =>
                  next.step = row.step /\ next.phase = row.phase /\ next.words = row.words
             /\ e.phase = "OVER" =>
                  /\ next.step = row.step /\ next.phase = "OVER"
                  /\ next.words = Fulfilled(row.words, row.step, e.word)
             /\ e.phase \in Waiting /\ (Over(row) \/ e.step <= row.step) => next = row
             /\ e.phase \in Waiting /\ ~Over(row) /\ ~(e.step <= row.step) =>
                  /\ next.step = e.step /\ next.phase = e.phase
                  /\ next.words = Fulfilled(row.words, e.step - 1, e.word)
<1>1. CASE e.phase = "NONE"
  <2>1. Evolved(row, e) = [row EXCEPT !.opened = TRUE]
    BY <1>1 DEF Evolved
  <2>. QED
    BY <1>1, <2>1 DEF Row, Waiting
<1>2. CASE e.phase = "OVER"
  <2>. DEFINE words == Fulfilled(row.words, row.step, e.word)
  <2>1. Evolved(row, e) = [row EXCEPT !.phase = "OVER", !.words = words]
    BY <1>2 DEF Evolved, Row
  <2>. HIDE DEF words
  <2>2. /\ Evolved(row, e).opened = row.opened /\ Evolved(row, e).step = row.step
        /\ Evolved(row, e).phase = "OVER" /\ Evolved(row, e).words = words
    BY <2>1 DEF Row
  <2>. QED
    BY <1>2, <2>2 DEF words, Waiting
<1>3. CASE e.phase \notin {"NONE", "OVER"} /\ (Over(row) \/ e.step <= row.step)
  <2>1. Evolved(row, e) = row
    BY <1>3 DEF Evolved
  <2>. QED
    BY <1>3, <2>1
<1>4. CASE e.phase \notin {"NONE", "OVER"} /\ ~(Over(row) \/ e.step <= row.step)
  <2>. DEFINE words == Fulfilled(row.words, e.step - 1, e.word)
  <2>1. Evolved(row, e) = [row EXCEPT !.step = e.step, !.phase = e.phase, !.words = words]
    BY <1>4 DEF Evolved, Row
  <2>. HIDE DEF words
  <2>2. /\ Evolved(row, e).opened = row.opened /\ Evolved(row, e).step = e.step
        /\ Evolved(row, e).phase = e.phase /\ Evolved(row, e).words = words
    BY <2>1 DEF Row
  <2>. QED
    BY <1>4, <2>2 DEF words
<1>. QED
  BY <1>1, <1>2, <1>3, <1>4

\* The rank of a row becomes the higher one of the row's and the event's, and
\* its phase is of the one it is from.
LEMMA EvolvedRank ==
  ASSUME NEW row \in Row, NEW e \in Event
  PROVE  LET next == Evolved(row, e)
         IN  /\ next.step \in {row.step, e.step}
             /\ \E x \in {row, e} : Rank(next) = Rank(x) /\ next.phase = x.phase
             /\ Rank(next) >= Rank(row)
             /\ e.phase # "NONE" => Rank(next) >= Rank(e)
<1>. DEFINE next == Evolved(row, e)
<1>0. /\ row.step \in Steps /\ e.step \in Steps /\ e.phase \in Phases
      /\ next \in Row
  BY EvolvedIsRow DEF Row, Event
<1>1. next.step \in Steps
  BY <1>0 DEF Row
<1>2. \A x \in {row, e, next} :
        /\ Rank(x) \in Nat /\ Rank(x) <= Final /\ Final \in Nat
        /\ Rank(x) = Final <=> Over(x)
        /\ ~Over(x) => Rank(x) = x.step
        /\ x.step \in Nat /\ x.step < Final
  BY <1>0, <1>1, RankIs
<1>3. CASE e.phase = "NONE"
  <2>1. next.step = row.step /\ next.phase = row.phase
    BY <1>3, EvolvedIs
  <2>2. Rank(next) = Rank(row)
    BY <2>1 DEF Rank, Over
  <2>. QED
    BY <1>2, <1>3, <2>1, <2>2
<1>4. CASE e.phase = "OVER"
  <2>1. next.step = row.step /\ next.phase = e.phase
    BY <1>4, EvolvedIs
  <2>2. Rank(next) = Rank(e) /\ Rank(e) = Final
    BY <1>4, <2>1 DEF Rank, Over
  <2>. QED
    BY <1>2, <2>1, <2>2
<1>5. CASE e.phase \in Waiting /\ (Over(row) \/ e.step <= row.step)
  <2>1. next = row
    BY <1>5, EvolvedIs
  <2>2. ~Over(e)
    BY <1>5 DEF Over, Waiting
  <2>. QED
    BY <1>2, <1>5, <2>1, <2>2
<1>6. CASE e.phase \in Waiting /\ ~Over(row) /\ ~(e.step <= row.step)
  <2>1. next.step = e.step /\ next.phase = e.phase
    BY <1>6, EvolvedIs
  <2>2. Rank(next) = Rank(e) /\ ~Over(e)
    BY <1>6, <2>1 DEF Rank, Over, Waiting
  <2>. QED
    BY <1>2, <1>6, <2>1, <2>2
<1>. QED
  BY <1>0, <1>3, <1>4, <1>5, <1>6 DEF Phases

LEMMA AnsweredIs ==
  ASSUME NEW p \in Patch, NEW n \in Steps, NEW word \in Steps
  PROVE  LET next == Answered(p, n, word)
         IN  /\ next.step = p.step /\ next.phase = p.phase /\ next.asked = p.asked
             /\ next.word = IF word = 0 THEN p.word ELSE word
             /\ next.nonce = IF word = 0 \/ n = 0 THEN p.nonce ELSE n
<1>1. CASE word = 0
  BY <1>1 DEF Answered
<1>2. CASE word # 0 /\ n = 0
  <2>1. Answered(p, n, word) = [p EXCEPT !.word = word]
    BY <1>2 DEF Answered
  <2>. QED
    BY <1>2, <2>1 DEF Patch
<1>3. CASE word # 0 /\ n # 0
  <2>1. Answered(p, n, word) = [p EXCEPT !.word = word, !.nonce = n]
    BY <1>3 DEF Answered
  <2>. QED
    BY <1>3, <2>1 DEF Patch
<1>. QED
  BY <1>1, <1>2, <1>3

LEMMA PatchedIs ==
  ASSUME NEW p \in Patch, NEW e \in Event
  PROVE  LET next == Patched(p, e)
             n == IF p.asked # 0 THEN p.asked ELSE p.step
         IN  /\ e.phase = "NONE" \/ Over(p) => next = p
             /\ e.phase = "OVER" /\ ~Over(p) =>
                  /\ next.step = p.step /\ next.phase = "OVER" /\ next.asked = p.asked
                  /\ next.word = IF e.word = 0 THEN p.word ELSE e.word
                  /\ next.nonce = IF e.word = 0 \/ n = 0 THEN p.nonce ELSE n
             /\ e.phase \in Waiting /\ e.step <= p.step => next = p
             /\ e.phase \in Waiting /\ ~Over(p) /\ ~(e.step <= p.step) =>
                  /\ next.step = e.step /\ next.phase = e.phase
                  /\ next.asked = IF e.phase = "WAITING_RANDOMNESS" THEN e.step ELSE p.asked
                  /\ next.word = IF e.word = 0 THEN p.word ELSE e.word
                  /\ next.nonce = IF e.word = 0 \/ e.step - 1 = 0 THEN p.nonce ELSE e.step - 1
<1>1. /\ p.step \in Steps /\ p.asked \in Steps /\ p.step \in Nat
      /\ e.word \in Steps /\ e.step \in Steps /\ e.step \in Nat /\ e.phase \in Phases
  BY StepsAreNats DEF Patch, Event
<1>2. CASE e.phase = "NONE" \/ Over(p)
  <2>1. Patched(p, e) = p
    BY <1>2 DEF Patched
  <2>. QED
    BY <1>2, <2>1 DEF Waiting
<1>3. CASE e.phase = "OVER" /\ ~Over(p)
  <2>. DEFINE q == [p EXCEPT !.phase = "OVER"]
              n == IF p.asked # 0 THEN p.asked ELSE p.step
  <2>1. /\ q \in Patch /\ n \in Steps /\ q.step = p.step /\ q.phase = "OVER"
        /\ q.asked = p.asked /\ q.nonce = p.nonce /\ q.word = p.word
    BY <1>1 DEF Patch, Phases
  <2>2. Patched(p, e) = Answered(q, n, e.word)
    BY <1>3 DEF Patched
  <2>. HIDE DEF q, n
  <2>3. LET next == Patched(p, e)
        IN  /\ next.step = p.step /\ next.phase = "OVER" /\ next.asked = p.asked
            /\ next.word = IF e.word = 0 THEN p.word ELSE e.word
            /\ next.nonce = IF e.word = 0 \/ n = 0 THEN p.nonce ELSE n
    BY <1>1, <2>1, <2>2, AnsweredIs
  <2>. QED
    BY <1>3, <2>3 DEF n, Waiting
<1>4. CASE e.phase \notin {"NONE", "OVER"} /\ ~Over(p) /\ e.step <= p.step
  <2>1. Patched(p, e) = p
    BY <1>4 DEF Patched
  <2>. QED
    BY <1>4, <2>1
<1>5. CASE e.phase \notin {"NONE", "OVER"} /\ ~Over(p) /\ ~(e.step <= p.step)
  <2>. DEFINE asked == IF e.phase = "WAITING_RANDOMNESS" THEN e.step ELSE p.asked
              q == [p EXCEPT !.step = e.step, !.phase = e.phase, !.asked = asked]
  <2>1. /\ q \in Patch /\ q.step = e.step /\ q.phase = e.phase
        /\ q.asked = asked /\ q.nonce = p.nonce /\ q.word = p.word
    BY <1>1 DEF Patch
  <2>2. e.step - 1 \in Steps
    BY <1>1, <1>5, ViewAssumption DEF Steps
  <2>3. Patched(p, e) = Answered(q, e.step - 1, e.word)
    BY <1>5 DEF Patched, Patch
  <2>. HIDE DEF q, asked
  <2>4. LET next == Patched(p, e)
        IN  /\ next.step = e.step /\ next.phase = e.phase /\ next.asked = asked
            /\ next.word = IF e.word = 0 THEN p.word ELSE e.word
            /\ next.nonce = IF e.word = 0 \/ e.step - 1 = 0 THEN p.nonce ELSE e.step - 1
    BY <1>1, <2>1, <2>2, <2>3, AnsweredIs
  <2>. QED
    BY <1>5, <2>4 DEF asked
<1>. QED
  BY <1>2, <1>3, <1>4, <1>5

LEMMA PatchedRank ==
  ASSUME NEW p \in Patch, NEW e \in Event
  PROVE  LET next == Patched(p, e)
         IN  /\ next.step \in {p.step, e.step}
             /\ \E x \in {p, e} : Rank(next) = Rank(x) /\ next.phase = x.phase
<1>. DEFINE next == Patched(p, e)
<1>0. e.phase \in Phases
  BY DEF Event
<1>1. CASE e.phase = "NONE" \/ Over(p) \/ (e.phase \in Waiting /\ e.step <= p.step)
  <2>1. next = p
    BY <1>1, PatchedIs
  <2>. QED
    BY <2>1
<1>2. CASE e.phase = "OVER" /\ ~Over(p)
  <2>1. next.step = p.step /\ next.phase = e.phase
    BY <1>2, PatchedIs
  <2>. QED
    BY <1>2, <2>1 DEF Rank, Over
<1>3. CASE e.phase \in Waiting /\ ~Over(p) /\ ~(e.step <= p.step)
  <2>1. next.step = e.step /\ next.phase = e.phase
    BY <1>3, PatchedIs
  <2>. QED
    BY <2>1 DEF Rank, Over
<1>. QED
  BY <1>0, <1>1, <1>2, <1>3 DEF Phases

-----------------------------------------------------------------------------
(* What a channel has of a session                                         *)

\* What the head of an ordered queue leaves, and what it tells of the rest: a
\* result comes last.
LEMMA QueueRest ==
  ASSUME NEW queue \in Seq(Event), 1 \in DOMAIN queue, NEW r, NEW now, now.step \in Nat,
         QueueInv(queue, r, now),
         \A e \in EventsOf(queue, r) : e.phase \in Waiting <=> e.step # 0
  PROVE  LET rest == RemoveAt(queue, 1)
             head == queue[1]
         IN  /\ QueueInv(rest, r, now)
             /\ EventsOf(rest, r) \subseteq EventsOf(queue, r)
             /\ \A e \in EventsOf(queue, r) : e = head \/ e \in EventsOf(rest, r)
             /\ head.round = r =>
                  /\ head \in EventsOf(queue, r)
                  /\ \A e \in EventsOf(rest, r) : Rank(head) < Rank(e)
                  /\ head.step # 0 => AllAfter(rest, r, head.step, now)
                  /\ Over(head) => \A n \in Nat : AllAfter(queue, r, n, now) =>
                                     n >= now.step /\ AllAfter(rest, r, n, now)
             /\ \A n \in Nat : AllAfter(queue, r, n, now)
                                 /\ (head.round = r => head.step <= n)
                               => AllAfter(rest, r, n, now)
<1>. DEFINE rest == RemoveAt(queue, 1)
            head == queue[1]
<1>1. /\ rest \in Seq(Event) /\ head \in Range(queue)
      /\ \A e \in Range(queue) : e # head => e \in Range(rest)
      /\ Range(rest) \subseteq Range(queue)
  BY RemoveAtKeeps
<1>2. /\ InTurn(rest, r)
      /\ head.round = r => \A e \in EventsOf(rest, r) : Rank(head) < Rank(e)
  BY HeadInTurn DEF QueueInv
<1>3. /\ EventsOf(rest, r) \subseteq EventsOf(queue, r)
      /\ \A e \in EventsOf(queue, r) : e = head \/ e \in EventsOf(rest, r)
      /\ head.round = r => head \in EventsOf(queue, r)
  BY <1>1 DEF EventsOf
<1>4. \A e \in EventsOf(queue, r) :
        /\ e.step \in Nat /\ Rank(e) \in Nat /\ Rank(e) <= Final
        /\ Rank(e) = Final <=> Over(e)
        /\ ~Over(e) => Rank(e) = e.step
        /\ Over(e) => e.step = 0
  <2>1. \A e \in EventsOf(queue, r) : Over(e) => e.phase \notin Waiting
    BY DEF Over, Waiting
  <2>. QED
    BY <2>1, EventsAre DEF EventsOf
<1>5. Final \in Nat
  BY StepsAreNats
<1>. HIDE DEF rest, head
<1>6. ASSUME NEW n \in Nat, AllAfter(queue, r, n, now), head.round = r => head.step <= n
      PROVE  AllAfter(rest, r, n, now)
  <2>. SUFFICES ASSUME NEW m \in (n + 1)..now.step
                PROVE  \E e \in EventsOf(rest, r) : e.step = m
    BY DEF AllAfter
  <2>1. PICK e \in EventsOf(queue, r) : e.step = m
    BY <1>6 DEF AllAfter
  <2>2. e # head
    <3>1. e.round = r
      BY DEF EventsOf
    <3>2. m \in Nat /\ m > n
      OBVIOUS
    <3>3. CASE e = head
      <4>1. head.step <= n /\ head.step = m
        BY <1>6, <2>1, <3>1, <3>3
      <4>. QED
        BY <3>2, <4>1
    <3>. QED
      BY <3>3
  <2>. QED
    BY <1>3, <2>1, <2>2
<1>7. ASSUME head.round = r, head.step # 0
      PROVE  AllAfter(rest, r, head.step, now)
  <2>1. AllAfter(queue, r, head.step, now) /\ head.step \in Nat
    BY <1>3, <1>4, <1>7 DEF QueueInv
  <2>. QED
    BY <1>6, <2>1
<1>8. ASSUME head.round = r, Over(head), NEW n \in Nat, AllAfter(queue, r, n, now)
      PROVE  n >= now.step /\ AllAfter(rest, r, n, now)
  <2>1. CASE n >= now.step
    BY <2>1 DEF AllAfter
  <2>2. CASE n < now.step
    <3>1. now.step \in (n + 1)..now.step
      BY <2>2
    <3>2. PICK e \in EventsOf(queue, r) : e.step = now.step
      BY <1>8, <3>1 DEF AllAfter
    <3>3. e.step # 0 /\ ~Over(e)
      BY <1>4, <2>2, <3>2
    <3>4. e # head
      BY <1>8, <3>3
    <3>5. Rank(head) < Rank(e) /\ Rank(head) = Final /\ Rank(e) <= Final
          /\ Rank(head) \in Nat /\ Rank(e) \in Nat
      BY <1>2, <1>3, <1>4, <1>8, <3>2, <3>4
    <3>. QED
      BY <1>5, <3>5
  <2>. QED
    BY <2>1, <2>2
<1>9. ASSUME NEW e \in EventsOf(rest, r), e.step # 0
      PROVE  AllAfter(rest, r, e.step, now)
  <2>1. e \in EventsOf(queue, r) /\ AllAfter(queue, r, e.step, now)
    BY <1>3, <1>9 DEF QueueInv
  <2>2. e.step \in Nat /\ ~Over(e) /\ Rank(e) = e.step /\ e.step < Final
    BY <1>4, <1>5, <1>9, <2>1
  <2>3. ASSUME head.round = r PROVE head.step <= e.step
    <3>1. Rank(head) < e.step /\ Rank(head) \in Nat /\ head.step \in Nat
      BY <1>2, <1>3, <1>4, <1>9, <2>2, <2>3
    <3>2. head.step <= Rank(head)
      BY <1>3, <1>4, <1>5, <2>3, <3>1
    <3>. QED
      BY <2>2, <3>1, <3>2
  <2>. QED
    BY <1>6, <2>1, <2>2, <2>3
<1>10. QueueInv(rest, r, now)
  BY <1>2, <1>3, <1>9 DEF QueueInv
<1>. QED
  BY <1>2, <1>3, <1>6, <1>7, <1>8, <1>10 DEF rest, head

\* A queue of a session of which nothing is removed or appended.
LEMMA QueueOther ==
  ASSUME NEW queue \in Seq(Event), NEW events \in Seq(Event), NEW r, NEW now,
         QueueInv(queue, r, now), EventsOf(events, r) = {}
  PROVE  QueueInv(queue \o events, r, now)
         /\ EventsOf(queue \o events, r) = EventsOf(queue, r)
<1>1. Range(queue \o events) = Range(queue) \cup Range(events)
  BY RangeConcatenation
<1>2. EventsOf(queue \o events, r) = EventsOf(queue, r)
  BY <1>1 DEF EventsOf
<1>3. InTurn(events, r)
  BY EventsAre DEF InTurn, EventsOf
<1>4. InTurn(queue \o events, r)
  BY <1>3, AppendInTurn DEF QueueInv
<1>. QED
  BY <1>2, <1>4 DEF QueueInv, AllAfter

\* The chain goes on and tells the channel: what it tells is of a higher rank
\* than all before it, and is the next step or the result.
LEMMA QueueGrows ==
  ASSUME NEW queue \in Seq(Event), NEW events \in Seq(Event), NEW r, NEW now, NEW next,
         QueueInv(queue, r, now), InTurn(events, r),
         now.step \in Nat, now.word \in Nat, next.word \in Nat, next.word >= now.word,
         \A d \in EventsOf(queue, r) : ~Over(d) /\ d.step <= now.step
         /\ \A e \in EventsOf(events, r) : Rank(d) < Rank(e),
         next.step = now.step
         \/ /\ next.step = now.step + 1
            /\ \E e \in EventsOf(events, r) : e.step = next.step,
         \A e \in EventsOf(events, r) :
           /\ e.step \in {0, next.step}
           /\ e.word # 0 => e.word = StepBefore(e, next) /\ e.word <= next.word
  PROVE  /\ QueueInv(queue \o events, r, next)
         /\ EventsOf(queue \o events, r) = EventsOf(queue, r) \cup EventsOf(events, r)
         /\ \A n \in Nat : AllAfter(queue, r, n, now) => AllAfter(queue \o events, r, n, next)
<1>. DEFINE both == queue \o events
<1>1. Range(both) = Range(queue) \cup Range(events)
  BY RangeConcatenation
<1>2. EventsOf(both, r) = EventsOf(queue, r) \cup EventsOf(events, r)
  BY <1>1 DEF EventsOf
<1>3. InTurn(both, r)
  BY AppendInTurn DEF QueueInv
<1>. HIDE DEF both
<1>4. ASSUME NEW n \in Nat, AllAfter(queue, r, n, now)
      PROVE  AllAfter(both, r, n, next)
  <2>. SUFFICES ASSUME NEW m \in (n + 1)..next.step
                PROVE  \E e \in EventsOf(both, r) : e.step = m
    BY DEF AllAfter
  <2>1. CASE m <= now.step
    <3>1. m \in (n + 1)..now.step
      BY <2>1
    <3>. QED
      BY <1>2, <1>4, <3>1 DEF AllAfter
  <2>2. CASE ~(m <= now.step)
    <3>1. m = next.step /\ next.step = now.step + 1
      BY <2>2
    <3>. QED
      BY <1>2, <3>1
  <2>. QED
    BY <2>1, <2>2
<1>5. ASSUME NEW e \in EventsOf(both, r)
      PROVE  /\ e.step # 0 => AllAfter(both, r, e.step, next)
             /\ e.word # 0 => e.word = StepBefore(e, next) /\ e.word <= next.word
  <2>1. CASE e \in EventsOf(queue, r)
    <3>1. e.step \in Nat /\ e.word \in Nat
      BY <2>1, EventsAre DEF EventsOf
    <3>2. e.step # 0 => AllAfter(both, r, e.step, next)
      BY <1>4, <2>1, <3>1 DEF QueueInv
    <3>3. e.word # 0 => e.word = e.step - 1 /\ e.word <= now.word
      BY <2>1 DEF QueueInv, StepBefore
    <3>4. e.word # 0 => e.word = StepBefore(e, next) /\ e.word <= next.word
      BY <2>1, <3>1, <3>3 DEF StepBefore
    <3>. QED
      BY <3>2, <3>4
  <2>2. CASE e \in EventsOf(events, r)
    <3>1. e.step # 0 => AllAfter(both, r, e.step, next)
      <4>1. e.step # 0 => e.step = next.step
        BY <2>2
      <4>2. next.step \in Nat
        OBVIOUS
      <4>3. e.step # 0 => (e.step + 1)..next.step = {}
        BY <4>1, <4>2
      <4>. QED
        BY <4>3 DEF AllAfter
    <3>. QED
      BY <2>2, <3>1
  <2>. QED
    BY <1>2, <2>1, <2>2
<1>6. QueueInv(both, r, next)
  BY <1>3, <1>5 DEF QueueInv
<1>. QED
  BY <1>2, <1>4, <1>6 DEF both

\* The queues that are read.
LEMMA QueueFacts ==
  ASSUME StateTypes, NEW r \in Rounds
  PROVE  /\ flash \in Seq(Event) /\ indexed \in Seq(Event)
         /\ chain[r].step \in Steps /\ chain[r].step \in Nat
         /\ chain[r].word \in Steps /\ chain[r].word \in Nat
         /\ chain[r].phase \in Phases
         /\ rows[r] \in Row /\ rows[r].step \in Steps /\ rows[r].step \in Nat
         /\ rows[r].words \in [Steps -> Steps]
         /\ patches[r] \in Patch /\ patches[r].step \in Steps /\ patches[r].step \in Nat
         /\ patches[r].word \in Steps /\ patches[r].word \in Nat
         /\ \A e \in EventsOf(flash, r) \cup EventsOf(indexed, r) :
              /\ e \in Event /\ e.round = r /\ e.step \in Steps /\ e.step \in Nat
              /\ e.word \in Steps /\ e.word \in Nat /\ e.phase \in Phases
         /\ \A x \in Told(r) \cup {chain[r]} :
              /\ Rank(x) \in Nat /\ Rank(x) <= Final /\ Final \in Nat
              /\ Rank(x) = Final <=> Over(x)
              /\ ~Over(x) => Rank(x) = x.step
              /\ x.step \in Nat /\ x.step < Final
<1>1. /\ flash \in Seq(Event) /\ indexed \in Seq(Event)
      /\ chain[r] \in [phase : Phases, step : Steps, word : Steps]
      /\ rows[r] \in Row /\ patches[r] \in Patch
  BY DEF StateTypes
<1>2. /\ chain[r].step \in Steps /\ chain[r].word \in Steps /\ chain[r].phase \in Phases
      /\ rows[r].step \in Steps /\ rows[r].words \in [Steps -> Steps]
      /\ patches[r].step \in Steps /\ patches[r].word \in Steps
  BY <1>1 DEF Row, Patch
<1>3. ASSUME NEW e \in EventsOf(flash, r) \cup EventsOf(indexed, r)
      PROVE  /\ e \in Event /\ e.round = r /\ e.step \in Steps /\ e.step \in Nat
             /\ e.word \in Steps /\ e.word \in Nat /\ e.phase \in Phases
  <2>1. e \in Event /\ e.round = r
    BY <1>1, EventsAre DEF EventsOf
  <2>. QED
    BY <2>1, StepsAreNats DEF Event
<1>4. \A x \in Told(r) \cup {chain[r]} : x.step \in Steps
  BY <1>2, <1>3 DEF Told
<1>. QED
  BY <1>1, <1>2, <1>3, <1>4, RankIs, StepsAreNats

\* The row takes up the head of its queue.
LEMMA RowWordsGo ==
  ASSUME StateTypes, NEW r \in Rounds, ChainAhead(r), WordsInv(r), 1 \in DOMAIN indexed,
         indexed[1].round = r, rows'[r] = Evolved(rows[r], indexed[1]),
         indexed' = RemoveAt(indexed, 1), chain' = chain
  PROVE  RowWords(r)'
<1>. DEFINE e == indexed[1]
            rest == RemoveAt(indexed, 1)
            row == rows[r]
            next == Evolved(row, e)
            now == chain[r]
<1>1. /\ QueueInv(indexed, r, now) /\ RowWords(r)
      /\ \A d \in EventsOf(indexed, r) : d.phase \in Waiting <=> d.step # 0
  BY DEF WordsInv, ChainAhead
<1>2. /\ indexed \in Seq(Event) /\ now.step \in Nat /\ now.word \in Nat
      /\ row \in Row /\ row.step \in Steps /\ row.step \in Nat /\ row.words \in [Steps -> Steps]
  BY QueueFacts
<1>3. /\ QueueInv(rest, r, now)
      /\ EventsOf(rest, r) \subseteq EventsOf(indexed, r)
      /\ \A d \in EventsOf(indexed, r) : d = e \/ d \in EventsOf(rest, r)
      /\ e \in EventsOf(indexed, r)
      /\ \A d \in EventsOf(rest, r) : Rank(e) < Rank(d)
      /\ e.step # 0 => AllAfter(rest, r, e.step, now)
      /\ Over(e) => \A n \in Nat : AllAfter(indexed, r, n, now) =>
                      n >= now.step /\ AllAfter(rest, r, n, now)
      /\ \A n \in Nat : AllAfter(indexed, r, n, now) /\ e.step <= n
                          => AllAfter(rest, r, n, now)
  BY <1>1, <1>2, QueueRest
<1>4. /\ e \in Event /\ e.step \in Steps /\ e.step \in Nat
      /\ e.word \in Steps /\ e.word \in Nat /\ e.phase \in Phases
  BY <1>3, QueueFacts
<1>. DEFINE Goal == /\ AllAfter(rest, r, next.step, now)
                    /\ \A d \in EventsOf(rest, r) : d.phase # "NONE" => Rank(d) > Rank(next)
                    /\ \A n \in Steps : next.words[n] \in {0, n} /\ next.words[n] <= now.word
                    /\ \/ now.word = 0 \/ next.words[now.word] # 0
                       \/ \E d \in EventsOf(rest, r) : d.word = now.word
<1>5. /\ AllAfter(indexed, r, row.step, now)
      /\ \A d \in EventsOf(indexed, r) : d.phase # "NONE" => Rank(d) > Rank(row)
      /\ \A n \in Steps : row.words[n] \in {0, n} /\ row.words[n] <= now.word
      /\ \/ now.word = 0 \/ row.words[now.word] # 0
         \/ \E d \in EventsOf(indexed, r) : d.word = now.word
      /\ e.word # 0 => e.word = StepBefore(e, now) /\ e.word <= now.word
  BY <1>1, <1>3 DEF RowWords, QueueInv
<1>6. /\ Rank(e) \in Nat /\ Rank(row) \in Nat /\ Rank(e) <= Final /\ Final \in Nat
      /\ Rank(e) = Final <=> Over(e)
      /\ Rank(row) = Final <=> Over(row)
      /\ ~Over(e) => Rank(e) = e.step
      /\ ~Over(row) => Rank(row) = row.step
      /\ row.step <= now.step
      /\ now.word \in Steps
      /\ \A d \in EventsOf(rest, r) : Rank(d) \in Nat
  BY <1>3, QueueFacts DEF Told, ChainAhead
<1>. HIDE DEF e, rest, row, next, now
\* The words, when the head answers step n.
<1>7. ASSUME NEW n \in Steps, next.words = Fulfilled(row.words, n, e.word), e.word \in {0, n}
      PROVE  /\ \A m \in Steps : next.words[m] \in {0, m} /\ next.words[m] <= now.word
             /\ \/ now.word = 0 \/ next.words[now.word] # 0
                \/ \E d \in EventsOf(rest, r) : d.word = now.word
  <2>1. /\ \A m \in Steps \ {n} : next.words[m] = row.words[m]
        /\ next.words[n] = IF row.words[n] = 0 THEN e.word ELSE row.words[n]
    <3>1. row.words \in [Steps -> Steps] /\ e.word \in Steps
      BY <1>2, <1>4
    <3>2. LET given == Fulfilled(row.words, n, e.word)
          IN  /\ \A m \in Steps \ {n} : given[m] = row.words[m]
              /\ given[n] = IF row.words[n] = 0 THEN e.word ELSE row.words[n]
      BY <3>1, FulfilledIs
    <3>. QED
      BY <1>7, <3>2
  <2>2. \A m \in Steps : next.words[m] \in {0, m} /\ next.words[m] <= now.word
    BY <1>2, <1>5, <1>7, <2>1
  <2>3. ASSUME now.word # 0
        PROVE  next.words[now.word] # 0 \/ \E d \in EventsOf(rest, r) : d.word = now.word
    <3>1. CASE row.words[now.word] # 0
      BY <1>6, <2>1, <3>1
    <3>2. CASE \E d \in EventsOf(rest, r) : d.word = now.word
      BY <3>2
    <3>3. CASE e.word = now.word
      BY <1>6, <1>7, <2>1, <2>3, <3>3
    <3>. QED
      BY <1>3, <1>5, <2>3, <3>1, <3>2, <3>3
  <2>. QED
    BY <2>2, <2>3
<1>8. ASSUME e.phase = "NONE" PROVE Goal
  <2>1. next.step = row.step /\ next.phase = row.phase /\ next.words = row.words
    BY <1>2, <1>4, <1>8, EvolvedIs DEF next
  <2>2. Rank(next) = Rank(row)
    BY <2>1 DEF Rank, Over
  <2>3. e.step = 0
    BY <1>1, <1>3, <1>4, <1>8 DEF Waiting
  <2>4. AllAfter(rest, r, next.step, now)
    BY <1>2, <1>3, <1>5, <2>1, <2>3
  <2>5. e.word = 0
    BY <1>4, <1>5, <1>8, <2>3 DEF StepBefore, Over
  <2>6. \/ now.word = 0 \/ next.words[now.word] # 0
        \/ \E d \in EventsOf(rest, r) : d.word = now.word
    BY <1>3, <1>5, <2>1, <2>5
  <2>. QED
    BY <1>3, <1>5, <2>1, <2>2, <2>4, <2>6
<1>9. ASSUME e.phase = "OVER" PROVE Goal
  <2>1. next.step = row.step /\ next.phase = "OVER"
        /\ next.words = Fulfilled(row.words, row.step, e.word)
    BY <1>2, <1>4, <1>9, EvolvedIs DEF next
  <2>2. Over(e) /\ Rank(next) = Final
    BY <1>9, <2>1 DEF Rank, Over
  <2>3. row.step = now.step /\ AllAfter(rest, r, next.step, now)
    BY <1>2, <1>3, <1>5, <1>6, <2>1, <2>2
  <2>4. \A d \in EventsOf(rest, r) : Rank(d) > Rank(next)
    BY <1>3, <1>6, <2>2
  <2>5. e.word \in {0, row.step}
    BY <1>5, <2>2, <2>3 DEF StepBefore
  <2>. QED
    BY <1>2, <1>7, <2>1, <2>3, <2>4, <2>5
<1>10. ASSUME e.phase \in Waiting PROVE Goal
  <2>1. e.step # 0 /\ ~Over(e) /\ e.phase # "NONE"
    BY <1>1, <1>3, <1>10 DEF Over, Waiting
  <2>2. ~Over(row) /\ ~(e.step <= row.step)
    BY <1>2, <1>3, <1>4, <1>5, <1>6, <2>1
  <2>3. next.step = e.step /\ next.phase = e.phase
        /\ next.words = Fulfilled(row.words, e.step - 1, e.word)
    BY <1>2, <1>4, <1>10, <2>2, EvolvedIs DEF next
  <2>4. Rank(next) = Rank(e)
    BY <2>3 DEF Rank, Over
  <2>5. AllAfter(rest, r, next.step, now)
    BY <1>3, <2>1, <2>3
  <2>6. e.step - 1 \in Steps /\ e.word \in {0, e.step - 1}
    <3>1. e.step - 1 \in Steps
      BY <1>4, <2>1, ViewAssumption DEF Steps
    <3>. QED
      BY <1>5, <2>1, <3>1 DEF StepBefore
  <2>7. \A d \in EventsOf(rest, r) : Rank(d) > Rank(next)
    BY <1>3, <1>6, <2>4
  <2>. QED
    BY <1>7, <2>3, <2>5, <2>6, <2>7
<1>11. Goal
  BY <1>4, <1>8, <1>9, <1>10 DEF Phases
<1>12. rows'[r] = next /\ indexed' = rest /\ chain'[r] = now
  BY DEF next, rest, now, row, e
<1>. HIDE DEF Goal
<1>. QED
  BY <1>11, <1>12 DEF RowWords, Goal

\* The patch takes up the head of its queue.
LEMMA PatchWordGo ==
  ASSUME StateTypes, NEW r \in Rounds, ChainAhead(r), WordsInv(r), 1 \in DOMAIN flash,
         flash[1].round = r, patches'[r] = Patched(patches[r], flash[1]),
         flash' = RemoveAt(flash, 1), chain' = chain
  PROVE  PatchWord(r)'
<1>. DEFINE e == flash[1]
            rest == RemoveAt(flash, 1)
            p == patches[r]
            next == Patched(p, e)
            now == chain[r]
<1>1. /\ QueueInv(flash, r, now) /\ PatchWord(r)
      /\ \A d \in EventsOf(flash, r) : d.phase \in Waiting <=> d.step # 0
  BY DEF WordsInv, ChainAhead
<1>2. /\ flash \in Seq(Event) /\ now.step \in Nat /\ now.word \in Nat
      /\ p \in Patch /\ p.step \in Steps /\ p.step \in Nat /\ p.word \in Nat
  BY QueueFacts
<1>3. /\ EventsOf(rest, r) \subseteq EventsOf(flash, r)
      /\ e \in EventsOf(flash, r)
      /\ e.step # 0 => AllAfter(rest, r, e.step, now)
      /\ Over(e) => \A n \in Nat : AllAfter(flash, r, n, now) => n >= now.step
      /\ \A n \in Nat : AllAfter(flash, r, n, now) /\ e.step <= n
                          => AllAfter(rest, r, n, now)
  BY <1>1, <1>2, QueueRest
<1>4. /\ e \in Event /\ e.step \in Nat /\ e.word \in Nat /\ e.phase \in Phases
      /\ p.step <= now.step
  BY <1>3, QueueFacts DEF Told, ChainAhead
<1>5. /\ p.step # 0 /\ ~Over(p) => AllAfter(flash, r, p.step, now)
      /\ p.step = 0 => p.asked = 0 /\ p.nonce = 0
      /\ p.phase = "WAITING_RANDOMNESS" => p.asked = p.step
      /\ p.nonce # 0 => p.word = p.nonce
      /\ p.word <= now.word
      /\ \A d \in EventsOf(flash, r) : Over(d) /\ d.word # 0 =>
           \A x \in {p} \cup EventsOf(flash, r) :
             x.step = now.step => x.phase \in {"WAITING_RANDOMNESS", "OVER"}
      /\ e.word # 0 => e.word = StepBefore(e, now) /\ e.word <= now.word
  BY <1>1, <1>3 DEF PatchWord, QueueInv
<1>. DEFINE Goal == /\ next.step # 0 /\ ~Over(next) => AllAfter(rest, r, next.step, now)
                    /\ next.step = 0 => next.asked = 0 /\ next.nonce = 0
                    /\ next.phase = "WAITING_RANDOMNESS" => next.asked = next.step
                    /\ next.nonce # 0 => next.word = next.nonce
                    /\ next.word <= now.word
                    /\ \A d \in EventsOf(rest, r) : Over(d) /\ d.word # 0 =>
                         \A x \in {next} \cup EventsOf(rest, r) :
                           x.step = now.step => x.phase \in {"WAITING_RANDOMNESS", "OVER"}
<1>. HIDE DEF e, rest, p, next, now
<1>6. ASSUME next = p, Over(p) \/ e.step <= p.step PROVE Goal
  <2>1. next.step # 0 /\ ~Over(next) => AllAfter(rest, r, next.step, now)
    BY <1>2, <1>3, <1>5, <1>6
  <2>. QED
    BY <1>3, <1>5, <1>6, <2>1
<1>7. ASSUME e.phase = "NONE" \/ Over(p) PROVE Goal
  <2>1. next = p
    BY <1>2, <1>4, <1>7, PatchedIs DEF next
  <2>2. e.phase = "NONE" => e.step = 0
    BY <1>1, <1>3 DEF Waiting
  <2>3. Over(p) \/ e.step <= p.step
    BY <1>2, <1>7, <2>2
  <2>. QED
    BY <1>6, <2>1, <2>3
<1>8. ASSUME e.phase = "OVER", ~Over(p) PROVE Goal
  <2>. DEFINE n == IF p.asked # 0 THEN p.asked ELSE p.step
  <2>1. /\ next.step = p.step /\ next.phase = "OVER" /\ next.asked = p.asked
        /\ next.word = IF e.word = 0 THEN p.word ELSE e.word
        /\ next.nonce = IF e.word = 0 \/ n = 0 THEN p.nonce ELSE n
    BY <1>2, <1>4, <1>8, PatchedIs DEF next
  <2>2. Over(e) /\ Over(next)
    BY <1>8, <2>1 DEF Over
  <2>3. ASSUME e.word # 0, n # 0 PROVE n = e.word
    <3>1. p.step # 0
      BY <1>5, <2>3
    <3>2. p.step = now.step
      BY <1>2, <1>3, <1>4, <1>5, <1>8, <2>2, <3>1
    <3>3. p.phase = "WAITING_RANDOMNESS"
      BY <1>3, <1>5, <1>8, <2>2, <2>3, <3>2 DEF Over
    <3>4. n = p.step
      BY <1>5, <3>3
    <3>. QED
      BY <1>5, <2>2, <2>3, <3>2, <3>4 DEF StepBefore
  <2>4. n = 0 => p.nonce = 0
    BY <1>5
  <2>. HIDE DEF n
  <2>5. next.nonce # 0 => next.word = next.nonce
    BY <1>5, <2>1, <2>3, <2>4
  <2>6. next.step = 0 => next.asked = 0 /\ next.nonce = 0
    BY <1>5, <2>1 DEF n
  <2>. QED
    BY <1>3, <1>5, <2>1, <2>2, <2>5, <2>6
<1>9. ASSUME e.phase \in Waiting, ~Over(p) PROVE Goal
  <2>1. CASE e.step <= p.step
    <3>1. next = p
      BY <1>2, <1>4, <1>9, <2>1, PatchedIs DEF next
    <3>. QED
      BY <1>6, <2>1, <3>1
  <2>2. CASE ~(e.step <= p.step)
    <3>1. /\ next.step = e.step /\ next.phase = e.phase
          /\ next.asked = IF e.phase = "WAITING_RANDOMNESS" THEN e.step ELSE p.asked
          /\ next.word = IF e.word = 0 THEN p.word ELSE e.word
          /\ next.nonce = IF e.word = 0 \/ e.step - 1 = 0 THEN p.nonce ELSE e.step - 1
      BY <1>2, <1>4, <1>9, <2>2, PatchedIs DEF next
    <3>2. e.step # 0 /\ (e.word # 0 => e.word = e.step - 1)
      BY <1>1, <1>3, <1>5, <1>9 DEF StepBefore, Over, Waiting
    <3>3. next.nonce # 0 => next.word = next.nonce
      BY <1>5, <3>1, <3>2
    <3>4. next.word <= now.word
      BY <1>5, <3>1
    <3>. QED
      BY <1>3, <1>5, <3>1, <3>2, <3>3, <3>4
  <2>. QED
    BY <2>1, <2>2
<1>10. Goal
  BY <1>4, <1>7, <1>8, <1>9 DEF Phases
<1>11. patches'[r] = next /\ flash' = rest /\ chain'[r] = now
  BY DEF next, rest, now, p, e
<1>. HIDE DEF Goal
<1>. QED
  BY <1>10, <1>11 DEF PatchWord, Goal

-----------------------------------------------------------------------------
(* The steps                                                               *)

\* The chain stays ahead of what is made of what was told, or is empty.
LEMMA AheadStays ==
  ASSUME StateTypes, NEW r \in Rounds, ChainAhead(r), chain'[r] = chain[r],
         EventsOf(flash', r) \subseteq EventsOf(flash, r),
         EventsOf(indexed', r) \subseteq EventsOf(indexed, r),
         \A x \in {rows'[r], patches'[r]} :
           /\ x.step = 0 \/ \E y \in Told(r) : x.step = y.step
           /\ Rank(x) = 0 \/ \E y \in Told(r) : Rank(x) = Rank(y) /\ x.phase = y.phase
  PROVE  ChainAhead(r)'
<1>1. chain[r].step \in Nat /\ Rank(chain[r]) \in Nat
  BY QueueFacts
<1>2. ASSUME NEW x \in Told(r)'
      PROVE  /\ x.step <= chain[r].step /\ Rank(x) <= Rank(chain[r])
             /\ Rank(x) = Rank(chain[r]) /\ Rank(x) # 0 => x.phase = chain[r].phase
  <2>1. CASE x \in EventsOf(flash', r) \cup EventsOf(indexed', r)
    BY <2>1 DEF ChainAhead, Told
  <2>2. CASE x \in {rows'[r], patches'[r]}
    <3>1. x.step <= chain[r].step
      BY <1>1, <2>2 DEF ChainAhead
    <3>2. CASE Rank(x) = 0
      BY <1>1, <3>1, <3>2
    <3>3. CASE Rank(x) # 0
      <4>1. PICK y \in Told(r) : Rank(x) = Rank(y) /\ x.phase = y.phase
        BY <2>2, <3>3
      <4>. QED
        BY <3>1, <4>1 DEF ChainAhead
    <3>. QED
      BY <3>2, <3>3
  <2>. QED
    BY <2>1, <2>2 DEF Told
<1>3. Rank(chain'[r]) = Rank(chain[r])
  OBVIOUS
<1>. QED
  BY <1>2, <1>3 DEF ChainAhead

LEMMA PatchStays ==
  ASSUME StateTypes, NEW r \in Rounds, PatchWord(r), QueueInv(flash, r, chain[r]),
         chain'[r] = chain[r], EventsOf(flash', r) = EventsOf(flash, r),
         patches'[r] \in {patches[r], InitialPatch}
  PROVE  PatchWord(r)'
<1>1. chain[r].step \in Nat /\ chain[r].word \in Nat
  BY QueueFacts
<1>2. CASE patches'[r] = patches[r]
  BY <1>2 DEF PatchWord, AllAfter
<1>3. CASE patches'[r] = InitialPatch
  <2>1. /\ InitialPatch.step = 0 /\ InitialPatch.asked = 0 /\ InitialPatch.nonce = 0
        /\ InitialPatch.word = 0 /\ InitialPatch.phase = "NONE"
    BY DEF InitialPatch
  <2>2. \A d \in EventsOf(flash, r) : Over(d) /\ d.word # 0 => chain[r].step # 0
    BY <1>1 DEF QueueInv, StepBefore
  <2>3. \A d \in EventsOf(flash, r) : Over(d) /\ d.word # 0 =>
          \A x \in {InitialPatch} \cup EventsOf(flash, r) :
            x.step = chain[r].step => x.phase \in {"WAITING_RANDOMNESS", "OVER"}
    BY <2>1, <2>2 DEF PatchWord
  <2>. QED
    BY <1>1, <1>3, <2>1, <2>3 DEF PatchWord
<1>. QED
  BY <1>2, <1>3

\* Nothing but a patch that is pruned changes.
LEMMA ArrivesStay ==
  ASSUME StateTypes, NEW r \in Rounds, ArrivesInv(r),
         UNCHANGED <<chain, flash, indexed, rows>>,
         patches'[r] \in {patches[r], InitialPatch},
         faults'.lost = 0 => faults.lost = 0,
         faults'.overtaken = 0 => faults.overtaken = 0
  PROVE  ArrivesInv(r)'
<1>1. ChainAhead(r)'
  <2>1. InitialPatch.step = 0 /\ Rank(InitialPatch) = 0
    BY DEF InitialPatch, Rank, Over
  <2>2. \A x \in {rows'[r], patches'[r]} :
          /\ x.step = 0 \/ \E y \in Told(r) : x.step = y.step
          /\ Rank(x) = 0 \/ \E y \in Told(r) : Rank(x) = Rank(y) /\ x.phase = y.phase
    BY <2>1 DEF Told
  <2>. QED
    BY <2>2, AheadStays DEF ArrivesInv
<1>2. faults.lost = 0 => RowFollows(r)'
  BY DEF ArrivesInv, RowFollows
<1>3. faults.lost = 0 /\ faults.overtaken = 0 => WordsInv(r)'
  <2>. SUFFICES ASSUME WordsInv(r) PROVE WordsInv(r)'
    BY DEF ArrivesInv
  <2>1. PatchWord(r)'
    BY PatchStays DEF WordsInv
  <2>2. RowWords(r)'
    BY DEF WordsInv, RowWords
  <2>3. QueueInv(flash', r, chain'[r]) /\ QueueInv(indexed', r, chain'[r])
    BY DEF WordsInv
  <2>. QED
    BY <2>1, <2>2, <2>3 DEF WordsInv
<1>. QED
  BY <1>1, <1>2, <1>3 DEF ArrivesInv

\* The steps of the page: the renders, the wallet and the calls.
LEMMA PageArrives ==
  ASSUME StateTypes, Arrives,
         \/ Render \/ ToggleWallet
         \/ \E r \in Rounds :
              OpenSession(r) \/ Accept(r) \/ Return(r) \/ Fail(r) \/ SubmitReturns(r)
  PROVE  Arrives'
<1>. SUFFICES /\ UNCHANGED <<chain, flash, indexed, rows>>
              /\ \A r \in Rounds : patches'[r] \in {patches[r], InitialPatch}
              /\ faults'.lost = 0 => faults.lost = 0
              /\ faults'.overtaken = 0 => faults.overtaken = 0
  BY ArrivesStay DEF Arrives
<1>1. CASE Render
  BY <1>1 DEF Render, chainVars, storeVars
<1>2. CASE ToggleWallet
  <2>. DEFINE n == IF ready THEN 1 ELSE 0
  <2>1. n \in Nat /\ Fault("toggled", n)
    BY <1>2 DEF ToggleWallet
  <2>. HIDE DEF n
  <2>2. /\ faults'.lost = 0 => faults.lost = 0
        /\ faults'.overtaken = 0 => faults.overtaken = 0
    BY <2>1, FaultsGrow
  <2>3. \A r \in Rounds : patches'[r] \in {patches[r], InitialPatch}
    BY <1>2 DEF ToggleWallet, Rerender, Pruned
  <2>. QED
    BY <1>2, <2>2, <2>3 DEF ToggleWallet, chainVars
<1>3. CASE \E r \in Rounds :
             OpenSession(r) \/ Accept(r) \/ Return(r) \/ Fail(r) \/ SubmitReturns(r)
  <2>1. UNCHANGED <<faults, chainVars, storeVars>>
    BY <1>3 DEF OpenSession, Accept, Return, Fail, SubmitReturns
  <2>. QED
    BY <2>1 DEF chainVars, storeVars
<1>. QED
  BY <1>1, <1>2, <1>3

\* An event of the indexed channel goes into a row.
LEMMA IndexedArrives ==
  ASSUME StateTypes, Arrives, DeliverIndexed
  PROVE  Arrives'
<1>1. PICK i \in DOMAIN indexed :
        /\ Takes(indexed, i)
        /\ indexed' = RemoveAt(indexed, i)
        /\ rows' = [rows EXCEPT ![indexed[i].round] = Evolved(@, indexed[i])]
        /\ UNCHANGED patches \/ patches' = Pruned(SessionRows(rows', ready))
  BY DEF DeliverIndexed, Rerender
<1>. DEFINE e == indexed[i]
<1>2. /\ indexed \in Seq(Event) /\ rows \in [Rounds -> Row]
      /\ chain' = chain /\ flash' = flash
  BY DEF DeliverIndexed, StateTypes
<1>3. /\ e \in Event /\ e.round \in Rounds /\ e \in Range(indexed)
      /\ \A d \in Range(indexed) : d # e => d \in Range(indexed')
      /\ Range(indexed') \subseteq Range(indexed)
  BY <1>1, <1>2, TakesOne
<1>4. /\ faults'.lost = 0 => faults.lost = 0
      /\ faults'.overtaken = 0 => faults.overtaken = 0 /\ i = 1
  <2>. DEFINE n == IF i = 1 THEN 0 ELSE 1
  <2>1. n \in Nat /\ Fault("overtaken", n) /\ (n = 0 => i = 1)
    BY <1>1 DEF Takes
  <2>. HIDE DEF n
  <2>. QED
    BY <2>1, FaultsGrow
<1>5. \A r \in Rounds : patches'[r] \in {patches[r], InitialPatch}
  BY <1>1 DEF Pruned
<1>6. /\ rows'[e.round] = Evolved(rows[e.round], e)
      /\ \A r \in Rounds \ {e.round} : rows'[r] = rows[r]
  BY <1>1, <1>2, <1>3
<1>7. /\ e \in EventsOf(indexed, e.round)
      /\ \A r \in Rounds : EventsOf(indexed', r) \subseteq EventsOf(indexed, r)
      /\ \A r \in Rounds \ {e.round} : EventsOf(indexed', r) = EventsOf(indexed, r)
  BY <1>3 DEF EventsOf
<1>. HIDE DEF e
<1>8. \A r \in Rounds : rows[r] \in Row
  BY <1>2
<1>9. ASSUME NEW r \in Rounds PROVE ChainAhead(r)'
  <2>1. ChainAhead(r)
    BY DEF Arrives, ArrivesInv
  <2>2. /\ rows'[r].step = 0 \/ \E y \in Told(r) : rows'[r].step = y.step
        /\ \E y \in Told(r) : Rank(rows'[r]) = Rank(y) /\ rows'[r].phase = y.phase
    <3>1. CASE r = e.round
      <4>1. rows'[r] = Evolved(rows[r], e) /\ e \in Told(r) /\ rows[r] \in Told(r)
        BY <1>6, <1>7, <3>1 DEF Told
      <4>2. /\ Evolved(rows[r], e).step \in {rows[r].step, e.step}
            /\ \E x \in {rows[r], e} : /\ Rank(Evolved(rows[r], e)) = Rank(x)
                                      /\ Evolved(rows[r], e).phase = x.phase
        BY <1>3, <1>8, EvolvedRank
      <4>. QED
        BY <4>1, <4>2
    <3>2. CASE r # e.round
      BY <1>6, <3>2 DEF Told
    <3>. QED
      BY <3>1, <3>2
  <2>3. /\ patches'[r].step = 0 \/ \E y \in Told(r) : patches'[r].step = y.step
        /\ \/ Rank(patches'[r]) = 0
           \/ \E y \in Told(r) : Rank(patches'[r]) = Rank(y) /\ patches'[r].phase = y.phase
    <3>1. InitialPatch.step = 0 /\ Rank(InitialPatch) = 0
      BY DEF InitialPatch, Rank, Over
    <3>. QED
      BY <1>5, <3>1 DEF Told
  <2>4. \A x \in {rows'[r], patches'[r]} :
          /\ x.step = 0 \/ \E y \in Told(r) : x.step = y.step
          /\ Rank(x) = 0 \/ \E y \in Told(r) : Rank(x) = Rank(y) /\ x.phase = y.phase
    BY <2>2, <2>3
  <2>. QED
    BY <1>2, <1>7, <2>1, <2>4, AheadStays
<1>10. ASSUME NEW r \in Rounds, faults'.lost = 0 PROVE RowFollows(r)'
  <2>1. RowFollows(r)
    BY <1>4, <1>10 DEF Arrives, ArrivesInv
  <2>. SUFFICES ASSUME chain[r].phase # "NONE"
                PROVE  /\ rows'[r].opened \/ Opened(r) \in Range(indexed')
                       /\ \E x \in {rows'[r]} \cup EventsOf(indexed', r) :
                            Rank(x) = Rank(chain[r])
    BY <1>2 DEF RowFollows
  <2>2. CASE r = e.round
    <3>1. rows'[r] = Evolved(rows[r], e)
      BY <1>6, <2>2
    <3>2. /\ rows[r].opened \/ e.phase = "NONE" => rows'[r].opened
          /\ Rank(rows'[r]) >= Rank(rows[r])
          /\ e.phase # "NONE" => Rank(rows'[r]) >= Rank(e)
      BY <1>3, <1>8, <3>1, EvolvedIs, EvolvedRank
    <3>3. rows'[r].opened \/ Opened(r) \in Range(indexed')
      <4>1. Opened(r).phase = "NONE"
        BY DEF Opened
      <4>. QED
        BY <1>3, <2>1, <3>2, <4>1 DEF RowFollows
    <3>4. /\ ChainAhead(r) /\ ChainAhead(r)'
      BY <1>9 DEF Arrives, ArrivesInv
    <3>5. Rank(rows'[r]) <= Rank(chain[r])
      BY <1>2, <3>4 DEF ChainAhead, Told
    <3>6. /\ Rank(chain[r]) \in Nat /\ Rank(rows[r]) \in Nat /\ Rank(e) \in Nat
          /\ Rank(rows'[r]) \in Nat
      <4>1. e \in Told(r) /\ rows[r] \in Told(r)
        BY <1>7, <2>2 DEF Told
      <4>2. Rank(chain[r]) \in Nat /\ Rank(rows[r]) \in Nat /\ Rank(e) \in Nat
        BY <4>1, QueueFacts
      <4>3. \E x \in {rows[r], e} : Rank(rows'[r]) = Rank(x)
        BY <1>3, <1>8, <3>1, EvolvedRank
      <4>. QED
        BY <4>2, <4>3
    <3>7. e.phase = "NONE" => Rank(e) = 0
      <4>1. e.phase \in Waiting <=> e.step # 0
        BY <1>7, <2>2, <3>4 DEF ChainAhead
      <4>. QED
        BY <4>1 DEF Rank, Over, Waiting
    <3>8. PICK x \in {rows[r]} \cup EventsOf(indexed, r) : Rank(x) = Rank(chain[r])
      BY <2>1 DEF RowFollows
    <3>9. CASE x \in {rows[r], e}
      <4>1. Rank(rows'[r]) = Rank(chain[r])
        BY <3>2, <3>5, <3>6, <3>7, <3>8, <3>9
      <4>. QED
        BY <3>3, <4>1
    <3>10. CASE x \notin {rows[r], e}
      <4>1. x \in EventsOf(indexed', r)
        BY <1>3, <3>8, <3>10 DEF EventsOf
      <4>. QED
        BY <3>3, <3>8, <4>1
    <3>. QED
      BY <3>9, <3>10
  <2>3. CASE r # e.round
    <3>1. Opened(r) # e
      BY <2>3 DEF Opened
    <3>2. rows'[r] = rows[r] /\ EventsOf(indexed', r) = EventsOf(indexed, r)
      BY <1>6, <1>7, <2>3
    <3>. QED
      BY <1>3, <2>1, <3>1, <3>2 DEF RowFollows
  <2>. QED
    BY <2>2, <2>3
<1>11. ASSUME NEW r \in Rounds, faults'.lost = 0, faults'.overtaken = 0
       PROVE  WordsInv(r)'
  <2>1. WordsInv(r) /\ ChainAhead(r) /\ i = 1
    BY <1>4, <1>11 DEF Arrives, ArrivesInv
  <2>2. QueueInv(indexed', r, chain[r])
    <3>1. /\ QueueInv(indexed, r, chain[r]) /\ chain[r].step \in Nat
          /\ \A d \in EventsOf(indexed, r) : d.phase \in Waiting <=> d.step # 0
      BY <2>1, QueueFacts DEF WordsInv, ChainAhead
    <3>. QED
      BY <1>1, <1>2, <2>1, <3>1, QueueRest
  <2>3. RowWords(r)'
    <3>1. CASE r = e.round
      <4>1. rows'[r] = Evolved(rows[r], indexed[1]) /\ indexed[1].round = r
        BY <1>6, <2>1, <3>1 DEF e
      <4>. QED
        BY <1>1, <1>2, <2>1, <4>1, RowWordsGo
    <3>2. CASE r # e.round
      <4>1. rows'[r] = rows[r] /\ EventsOf(indexed', r) = EventsOf(indexed, r)
        BY <1>6, <1>7, <3>2
      <4>2. \A n : AllAfter(indexed', r, n, chain[r]) <=> AllAfter(indexed, r, n, chain[r])
        BY <4>1 DEF AllAfter
      <4>. QED
        BY <1>2, <2>1, <4>1, <4>2 DEF WordsInv, RowWords
    <3>. QED
      BY <3>1, <3>2
  <2>4. PatchWord(r)'
    BY <1>2, <1>5, <2>1, PatchStays DEF WordsInv
  <2>. QED
    BY <1>2, <2>1, <2>2, <2>3, <2>4 DEF WordsInv
<1>. QED
  BY <1>9, <1>10, <1>11 DEF Arrives, ArrivesInv

\* An event of the flashblock channel goes into a patch.
LEMMA FlashArrives ==
  ASSUME StateTypes, Arrives, DeliverFlash
  PROVE  Arrives'
<1>1. PICK i \in DOMAIN flash :
        /\ Takes(flash, i)
        /\ flash' = RemoveAt(flash, i)
        /\ patches' = [patches EXCEPT ![flash[i].round] = Patched(@, flash[i])]
  BY DEF DeliverFlash
<1>. DEFINE e == flash[i]
<1>2. /\ flash \in Seq(Event) /\ patches \in [Rounds -> Patch]
      /\ chain' = chain /\ indexed' = indexed /\ rows' = rows
  BY DEF DeliverFlash, StateTypes
<1>3. /\ e \in Event /\ e.round \in Rounds /\ e \in Range(flash)
      /\ \A d \in Range(flash) : d # e => d \in Range(flash')
      /\ Range(flash') \subseteq Range(flash)
  BY <1>1, <1>2, TakesOne
<1>4. /\ faults'.lost = 0 => faults.lost = 0
      /\ faults'.overtaken = 0 => faults.overtaken = 0 /\ i = 1
  <2>. DEFINE n == IF i = 1 THEN 0 ELSE 1
  <2>1. n \in Nat /\ Fault("overtaken", n) /\ (n = 0 => i = 1)
    BY <1>1 DEF Takes
  <2>. HIDE DEF n
  <2>. QED
    BY <2>1, FaultsGrow
<1>5. /\ patches'[e.round] = Patched(patches[e.round], e)
      /\ \A r \in Rounds \ {e.round} : patches'[r] = patches[r]
  BY <1>1, <1>2, <1>3
<1>6. /\ e \in EventsOf(flash, e.round)
      /\ \A r \in Rounds : EventsOf(flash', r) \subseteq EventsOf(flash, r)
      /\ \A r \in Rounds \ {e.round} : EventsOf(flash', r) = EventsOf(flash, r)
  BY <1>3 DEF EventsOf
<1>. HIDE DEF e
<1>7. \A r \in Rounds : patches[r] \in Patch
  BY <1>2
<1>8. ASSUME NEW r \in Rounds PROVE ChainAhead(r)'
  <2>1. ChainAhead(r)
    BY DEF Arrives, ArrivesInv
  <2>2. \A x \in {rows'[r], patches'[r]} :
          /\ \E y \in Told(r) : x.step = y.step
          /\ \E y \in Told(r) : Rank(x) = Rank(y) /\ x.phase = y.phase
    <3>1. CASE r = e.round
      <4>1. patches'[r] = Patched(patches[r], e) /\ e \in Told(r) /\ patches[r] \in Told(r)
        BY <1>5, <1>6, <3>1 DEF Told
      <4>2. /\ Patched(patches[r], e).step \in {patches[r].step, e.step}
            /\ \E x \in {patches[r], e} : /\ Rank(Patched(patches[r], e)) = Rank(x)
                                         /\ Patched(patches[r], e).phase = x.phase
        BY <1>3, <1>7, PatchedRank
      <4>3. rows'[r] \in Told(r)
        BY <1>2 DEF Told
      <4>. QED
        BY <4>1, <4>2, <4>3
    <3>2. CASE r # e.round
      BY <1>2, <1>5, <3>2 DEF Told
    <3>. QED
      BY <3>1, <3>2
  <2>. QED
    BY <1>2, <1>6, <2>1, <2>2, AheadStays
<1>9. ASSUME NEW r \in Rounds, faults'.lost = 0 PROVE RowFollows(r)'
  BY <1>2, <1>4, <1>9 DEF Arrives, ArrivesInv, RowFollows
<1>10. ASSUME NEW r \in Rounds, faults'.lost = 0, faults'.overtaken = 0
       PROVE  WordsInv(r)'
  <2>1. WordsInv(r) /\ ChainAhead(r) /\ i = 1
    BY <1>4, <1>10 DEF Arrives, ArrivesInv
  <2>2. QueueInv(flash', r, chain[r])
    <3>1. /\ QueueInv(flash, r, chain[r]) /\ chain[r].step \in Nat
          /\ \A d \in EventsOf(flash, r) : d.phase \in Waiting <=> d.step # 0
      BY <2>1, QueueFacts DEF WordsInv, ChainAhead
    <3>. QED
      BY <1>1, <1>2, <2>1, <3>1, QueueRest
  <2>3. PatchWord(r)'
    <3>1. CASE r = e.round
      <4>1. patches'[r] = Patched(patches[r], flash[1]) /\ flash[1].round = r
        BY <1>5, <2>1, <3>1 DEF e
      <4>. QED
        BY <1>1, <1>2, <2>1, <4>1, PatchWordGo
    <3>2. CASE r # e.round
      <4>1. patches'[r] = patches[r] /\ EventsOf(flash', r) = EventsOf(flash, r)
        BY <1>5, <1>6, <3>2
      <4>. QED
        BY <1>2, <2>1, <4>1, PatchStays DEF WordsInv
    <3>. QED
      BY <3>1, <3>2
  <2>4. RowWords(r)'
    BY <1>2, <2>1 DEF WordsInv, RowWords
  <2>. QED
    BY <1>2, <2>1, <2>2, <2>3, <2>4 DEF WordsInv
<1>. QED
  BY <1>8, <1>9, <1>10 DEF Arrives, ArrivesInv

\* The logs of a step of the chain, and the session it may be of.
Tells(r, phase, word, events) ==
  /\ ~Over(chain[r])
  /\ events = IF chain[r].phase = "NONE" THEN <<Opened(r), Moved(r, phase, word)>>
              ELSE <<Moved(r, phase, word)>>
  /\ word # 0 => word = chain[r].step /\ chain[r].phase = "WAITING_RANDOMNESS"

\* They are of its round, in turn, and beyond all that was told before.
LEMMA TellsBeyond ==
  ASSUME StateTypes, NEW r \in Rounds, NEW phase \in Waiting \cup {"OVER"},
         NEW word \in Steps, Goes(r, phase, word), ChainAhead(r),
         NEW events, Tells(r, phase, word, events)
  PROVE  LET m == Moved(r, phase, word)
             now == chain[r]
             next == chain'[r]
         IN  /\ events \in Seq(Event) /\ InTurn(events, r)
             /\ \A e \in Range(events) : e.round = r
             /\ EventsOf(events, r) = Range(events) /\ m \in Range(events)
             /\ \A e \in Range(events) : e = m \/ (e = Opened(r) /\ now.phase = "NONE")
             /\ now.phase = "NONE" => Opened(r) \in Range(events)
             /\ m.phase = phase /\ m.word = word /\ next.phase = phase
             /\ m.step = IF phase = "OVER" THEN 0 ELSE next.step
             /\ next.step = IF phase = "OVER" THEN now.step ELSE now.step + 1
             /\ next.word = IF word = 0 THEN now.word ELSE word
             /\ next.word \in Nat /\ next.word >= now.word /\ next.word <= next.step
             /\ next.step \in Nat /\ Rank(next) \in Nat
             /\ Rank(m) = Rank(next) /\ Rank(now) < Rank(m) /\ Rank(Opened(r)) = 0
             /\ Rank(now) = now.step
<1>. DEFINE m == Moved(r, phase, word)
            o == Opened(r)
            now == chain[r]
            next == chain'[r]
<1>1. /\ m \in Event /\ o \in Event
      /\ next.phase = phase
      /\ next.step = IF phase \in Waiting THEN now.step + 1 ELSE now.step
      /\ next.word = IF word = 0 THEN now.word ELSE word
      /\ next \in [phase : Phases, step : Steps, word : Steps]
  BY GoesMoves, OpenedIsEvent
<1>2. /\ m.round = r /\ m.phase = phase /\ m.word = word
      /\ m.step = IF phase = "OVER" THEN 0 ELSE now.step + 1
      /\ o.round = r /\ o.phase = "NONE" /\ o.step = 0 /\ o.word = 0
  BY DEF Moved, Opened
<1>3. /\ now.step \in Steps /\ now.step \in Nat /\ now.word \in Nat /\ word \in Nat
      /\ next.step \in Steps /\ next.step \in Nat
      /\ now.phase \in Phases /\ ~Over(now)
      /\ now.word <= now.step
      /\ now.phase \in Waiting <=> now.step # 0
  <2>1. now.word <= now.step /\ (now.phase \in Waiting <=> now.step # 0 /\ ~Over(now))
    BY DEF ChainAhead
  <2>. QED
    BY <1>1, <2>1, QueueFacts, StepsAreNats DEF Tells
<1>4. /\ word # 0 => word = now.step
      /\ events = IF now.phase = "NONE" THEN <<o, m>> ELSE <<m>>
  BY DEF Tells
<1>. HIDE DEF m, o, now, next
<1>5. phase \in Waiting <=> phase # "OVER"
  BY DEF Waiting
<1>6. /\ m.step = IF phase = "OVER" THEN 0 ELSE next.step
      /\ next.step = IF phase = "OVER" THEN now.step ELSE now.step + 1
      /\ next.word \in Nat /\ next.word >= now.word /\ next.word <= next.step
  <2>1. CASE phase = "OVER"
    BY <1>1, <1>2, <1>3, <1>4, <1>5, <2>1
  <2>2. CASE phase # "OVER"
    BY <1>1, <1>2, <1>3, <1>4, <1>5, <2>2
  <2>. QED
    BY <2>1, <2>2
<1>7. /\ Rank(next) \in Nat /\ Rank(m) = Rank(next) /\ Rank(o) = 0
      /\ Rank(now) = now.step /\ Rank(now) < Rank(m)
  <2>1. Rank(now) = now.step /\ now.step < Final /\ Final \in Nat
    BY <1>3, RankIs
  <2>2. Rank(o) = 0
    BY <1>2 DEF Rank, Over
  <2>3. CASE phase = "OVER"
    <3>1. Rank(next) = Final /\ Rank(m) = Final
      BY <1>1, <1>2, <2>3 DEF Rank, Over
    <3>. QED
      BY <2>1, <2>2, <3>1
  <2>4. CASE phase # "OVER"
    <3>1. Rank(next) = next.step /\ Rank(m) = m.step /\ next.step = now.step + 1
      BY <1>1, <1>2, <1>6, <2>4 DEF Rank, Over
    <3>. QED
      BY <1>3, <1>6, <2>1, <2>2, <2>4, <3>1
  <2>. QED
    BY <2>3, <2>4
<1>8. /\ events \in Seq(Event) /\ InTurn(events, r)
      /\ Range(events) = IF now.phase = "NONE" THEN {o, m} ELSE {m}
  <2>1. CASE now.phase = "NONE"
    <3>1. events = <<o, m>>
      BY <1>4, <2>1
    <3>2. Rank(o) < Rank(m)
      BY <1>3, <1>7
    <3>3. <<o, m>> \in Seq(Event) /\ Range(<<o, m>>) = {o, m}
      BY <1>1, TwoEvents
    <3>4. InTurn(<<o, m>>, r)
      <4>1. DOMAIN <<o, m>> = {1, 2} /\ <<o, m>>[1] = o /\ <<o, m>>[2] = m
        OBVIOUS
      <4>. QED
        BY <3>2, <4>1 DEF InTurn
    <3>. QED
      BY <2>1, <3>1, <3>3, <3>4
  <2>2. CASE now.phase # "NONE"
    <3>1. events = <<m>>
      BY <1>4, <2>2
    <3>2. <<m>> \in Seq(Event) /\ Range(<<m>>) = {m}
      BY <1>1, OneEvent
    <3>3. InTurn(<<m>>, r)
      <4>1. DOMAIN <<m>> = {1}
        OBVIOUS
      <4>. QED
        BY <4>1 DEF InTurn
    <3>. QED
      BY <2>2, <3>1, <3>2, <3>3
  <2>. QED
    BY <2>1, <2>2
<1>9. EventsOf(events, r) = Range(events) /\ \A e \in Range(events) : e.round = r
  BY <1>2, <1>8 DEF EventsOf
<1>10. /\ m \in Range(events)
       /\ \A e \in Range(events) : e = m \/ (e = o /\ now.phase = "NONE")
       /\ now.phase = "NONE" => o \in Range(events)
  BY <1>8
<1>11. /\ m.phase = phase /\ m.word = word /\ next.phase = phase
       /\ m.step = IF phase = "OVER" THEN 0 ELSE next.step
       /\ next.step = IF phase = "OVER" THEN now.step ELSE now.step + 1
       /\ next.word = IF word = 0 THEN now.word ELSE word
       /\ next.step \in Nat
  BY <1>1, <1>2, <1>3, <1>6
<1>. QED
  BY <1>6, <1>7, <1>8, <1>9, <1>10, <1>11 DEF m, o, now, next

\* Unless a log is lost, both channels get them all.
LEMMA FeedTells ==
  ASSUME StateTypes, NEW events \in Seq(Event), Feed(events)
  PROVE  /\ faults'.lost = 0 =>
              /\ faults.lost = 0
              /\ flash' = flash \o events /\ indexed' = indexed \o events
              /\ Range(flash') = Range(flash) \cup Range(events)
              /\ Range(indexed') = Range(indexed) \cup Range(events)
         /\ faults'.overtaken = 0 => faults.overtaken = 0
         /\ Range(flash') \subseteq Range(flash) \cup Range(events)
         /\ Range(indexed') \subseteq Range(indexed) \cup Range(events)
<1>1. PICK k \in 0..Len(events) :
        /\ Fault("lost", k)
        /\ flash' = flash \o SubSeq(events, k + 1, Len(events))
        /\ indexed' = indexed \o SubSeq(events, k + 1, Len(events))
  BY DEF Feed
<1>2. k \in Nat /\ flash \in Seq(Event) /\ indexed \in Seq(Event)
  BY LenProperties DEF StateTypes
<1>3. /\ faults'.lost = 0 => faults.lost = 0 /\ k = 0
      /\ faults'.overtaken = 0 => faults.overtaken = 0
  BY <1>1, <1>2, FaultsGrow
<1>4. k = 0 => flash' = flash \o events /\ indexed' = indexed \o events
  <2>1. SubSeq(events, 1, Len(events)) = events
    BY SubSeqFull
  <2>. QED
    BY <1>1, <2>1
<1>5. /\ Range(flash \o events) = Range(flash) \cup Range(events)
      /\ Range(indexed \o events) = Range(indexed) \cup Range(events)
  BY <1>2, RangeConcatenation
<1>. QED
  BY <1>3, <1>4, <1>5, FeedAppends

\* A step of the chain tells nothing of other rounds.
LEMMA OtherArrives ==
  ASSUME StateTypes, NEW q \in Rounds, ArrivesInv(q), NEW events \in Seq(Event),
         Feed(events), EventsOf(events, q) = {}, UNCHANGED <<rows, patches>>,
         chain'[q] = chain[q]
  PROVE  ArrivesInv(q)'
<1>1. flash \in Seq(Event) /\ indexed \in Seq(Event)
  BY DEF StateTypes
<1>2. /\ EventsOf(flash', q) \subseteq EventsOf(flash, q)
      /\ EventsOf(indexed', q) \subseteq EventsOf(indexed, q)
  BY FeedTells DEF EventsOf
<1>3. ChainAhead(q)'
  <2>1. \A x \in {rows'[q], patches'[q]} : x \in Told(q)
    BY DEF Told
  <2>. QED
    BY <1>2, <2>1, AheadStays DEF ArrivesInv
<1>4. ASSUME faults'.lost = 0 PROVE RowFollows(q)'
  <2>1. /\ RowFollows(q) /\ Range(indexed) \subseteq Range(indexed')
    BY <1>4, FeedTells DEF ArrivesInv
  <2>2. EventsOf(indexed, q) \subseteq EventsOf(indexed', q)
    BY <2>1 DEF EventsOf
  <2>. QED
    BY <2>1, <2>2 DEF RowFollows
<1>5. ASSUME faults'.lost = 0, faults'.overtaken = 0 PROVE WordsInv(q)'
  <2>1. WordsInv(q) /\ flash' = flash \o events /\ indexed' = indexed \o events
    BY <1>5, FeedTells DEF ArrivesInv
  <2>2. /\ QueueInv(flash', q, chain[q]) /\ EventsOf(flash', q) = EventsOf(flash, q)
        /\ QueueInv(indexed', q, chain[q]) /\ EventsOf(indexed', q) = EventsOf(indexed, q)
    BY <1>1, <2>1, QueueOther DEF WordsInv
  <2>3. PatchWord(q)'
    BY <2>1, <2>2, PatchStays DEF WordsInv
  <2>4. RowWords(q)'
    BY <2>1, <2>2 DEF WordsInv, RowWords, AllAfter
  <2>. QED
    BY <2>2, <2>3, <2>4 DEF WordsInv
<1>. QED
  BY <1>3, <1>4, <1>5 DEF ArrivesInv

\* Of its own round it tells what it did.
LEMMA OwnArrives ==
  ASSUME StateTypes, NEW r \in Rounds, ArrivesInv(r),
         NEW phase \in Waiting \cup {"OVER"}, NEW word \in Steps, Goes(r, phase, word),
         NEW events \in Seq(Event), Tells(r, phase, word, events), Feed(events),
         UNCHANGED <<rows, patches>>
  PROVE  ArrivesInv(r)'
<1>. DEFINE m == Moved(r, phase, word)
            o == Opened(r)
            now == chain[r]
            next == chain'[r]
            news == EventsOf(events, r)
<1>0. ChainAhead(r)
  BY DEF ArrivesInv
<1>1. /\ InTurn(events, r)
      /\ news = Range(events) /\ m \in news
      /\ \A e \in news : e = m \/ (e = o /\ now.phase = "NONE")
      /\ now.phase = "NONE" => o \in Range(events)
      /\ m.phase = phase /\ m.word = word /\ next.phase = phase
      /\ m.step = IF phase = "OVER" THEN 0 ELSE next.step
      /\ next.step = IF phase = "OVER" THEN now.step ELSE now.step + 1
      /\ next.word = IF word = 0 THEN now.word ELSE word
      /\ next.word \in Nat /\ next.word >= now.word /\ next.word <= next.step
      /\ next.step \in Nat /\ Rank(next) \in Nat
      /\ Rank(m) = Rank(next) /\ Rank(now) < Rank(m) /\ Rank(o) = 0
      /\ Rank(now) = now.step
  <2>1. /\ InTurn(events, r) /\ EventsOf(events, r) = Range(events) /\ m \in Range(events)
        /\ \A e \in Range(events) : e = m \/ (e = o /\ now.phase = "NONE")
        /\ now.phase = "NONE" => o \in Range(events)
    BY <1>0, TellsBeyond
  <2>2. /\ m.phase = phase /\ m.word = word /\ next.phase = phase
        /\ m.step = IF phase = "OVER" THEN 0 ELSE next.step
        /\ next.step = IF phase = "OVER" THEN now.step ELSE now.step + 1
        /\ next.word = IF word = 0 THEN now.word ELSE word
        /\ next.word \in Nat /\ next.word >= now.word /\ next.word <= next.step
    BY <1>0, TellsBeyond
  <2>3. /\ next.step \in Nat /\ Rank(next) \in Nat
        /\ Rank(m) = Rank(next) /\ Rank(now) < Rank(m) /\ Rank(o) = 0
        /\ Rank(now) = now.step
    BY <1>0, TellsBeyond
  <2>. HIDE DEF m, o, now, next
  <2>. QED
    BY <2>1, <2>2, <2>3
<1>2. /\ flash \in Seq(Event) /\ indexed \in Seq(Event)
      /\ now.step \in Nat /\ now.word \in Nat
      /\ ChainAhead(r)
  BY QueueFacts DEF ArrivesInv
<1>3. \A x \in Told(r) : /\ x.step <= now.step /\ Rank(x) <= Rank(now)
                         /\ x.step \in Nat /\ Rank(x) \in Nat
  BY <1>2, QueueFacts DEF ChainAhead
<1>4. /\ word # 0 => word = now.step /\ now.phase = "WAITING_RANDOMNESS"
      /\ ~Over(now)
      /\ o.phase = "NONE" /\ o.step = 0 /\ o.word = 0
      /\ now.phase = "NONE" => EventsOf(flash, r) \cup EventsOf(indexed, r) = {}
  BY <1>2 DEF Tells, Opened, ChainAhead
<1>. HIDE DEF m, o, now, next, news
<1>5. /\ EventsOf(flash', r) \subseteq EventsOf(flash, r) \cup news
      /\ EventsOf(indexed', r) \subseteq EventsOf(indexed, r) \cup news
  BY <1>1, FeedTells DEF EventsOf, news
<1>6. ChainAhead(r)'
  <2>1. \A e \in news : e.phase \in Waiting <=> e.step # 0
    BY <1>1, <1>2, <1>4 DEF Waiting
  <2>2. /\ phase \in Waiting <=> next.step # 0 /\ phase # "OVER"
        /\ phase # "NONE"
    BY <1>1, <1>2 DEF Waiting
  <2>3. \A e \in EventsOf(flash', r) \cup EventsOf(indexed', r) :
          e.phase \in Waiting <=> e.step # 0
    BY <1>2, <1>5, <2>1 DEF ChainAhead
  <2>4. ASSUME NEW x \in Told(r)'
        PROVE  /\ x.step <= next.step /\ Rank(x) <= Rank(next)
               /\ Rank(x) = Rank(next) /\ Rank(x) # 0 => x.phase = next.phase
    <3>1. x \in Told(r) \cup {m, o}
      BY <1>1, <1>5, <2>4 DEF Told
    <3>2. CASE x \in Told(r)
      <4>1. Rank(x) < Rank(next) /\ x.step <= now.step
        BY <1>1, <1>2, <1>3, <3>2
      <4>. QED
        BY <1>1, <1>2, <1>3, <3>2, <4>1
    <3>3. CASE x = m
      BY <1>1, <3>3
    <3>4. CASE x = o
      BY <1>1, <1>4, <3>4
    <3>. QED
      BY <3>1, <3>2, <3>3, <3>4
  <2>. QED
    BY <1>1, <2>2, <2>3, <2>4 DEF ChainAhead, next, Over
<1>7. ASSUME faults'.lost = 0 PROVE RowFollows(r)'
  <2>1. /\ RowFollows(r)
        /\ Range(indexed') = Range(indexed) \cup Range(events)
    BY <1>7, FeedTells DEF ArrivesInv
  <2>2. m \in EventsOf(indexed', r)
    BY <1>1, <2>1 DEF EventsOf, news
  <2>3. rows'[r].opened \/ o \in Range(indexed')
    BY <1>1, <2>1 DEF RowFollows, now, o
  <2>. QED
    BY <1>1, <2>2, <2>3 DEF RowFollows, o, next
<1>8. ASSUME faults'.lost = 0, faults'.overtaken = 0 PROVE WordsInv(r)'
  <2>1. WordsInv(r) /\ flash' = flash \o events /\ indexed' = indexed \o events
    BY <1>8, FeedTells DEF ArrivesInv
  <2>2. ASSUME NEW queue \in {flash, indexed}
        PROVE  /\ QueueInv(queue \o events, r, next)
               /\ EventsOf(queue \o events, r) = EventsOf(queue, r) \cup news
               /\ \A n \in Nat : AllAfter(queue, r, n, now)
                                   => AllAfter(queue \o events, r, n, next)
               /\ \A d \in EventsOf(queue, r) : ~Over(d)
    <3>1. queue \in Seq(Event) /\ QueueInv(queue, r, now)
      BY <1>2, <2>1 DEF WordsInv, now
    <3>2. ASSUME NEW d \in EventsOf(queue, r)
          PROVE  /\ ~Over(d) /\ d.step <= now.step
                 /\ \A e \in news : Rank(d) < Rank(e)
      <4>1. d \in Told(r) /\ d \in EventsOf(flash, r) \cup EventsOf(indexed, r)
        BY DEF Told
      <4>2. Rank(d) <= Rank(now) /\ d.step <= now.step /\ Rank(d) \in Nat
        BY <1>3, <4>1
      <4>3. /\ Rank(d) = Final <=> Over(d)
            /\ Rank(now) = Final <=> Over(now)
            /\ Rank(now) <= Final /\ Final \in Nat
        BY <4>1, QueueFacts DEF now
      <4>4. ~Over(d)
        BY <1>1, <1>2, <1>4, <4>2, <4>3
      <4>5. \A e \in news : e = m
        BY <1>1, <1>4, <4>1
      <4>. QED
        BY <1>1, <1>2, <4>2, <4>4, <4>5
    <3>3. \/ next.step = now.step
          \/ next.step = now.step + 1 /\ \E e \in news : e.step = next.step
      BY <1>1
    <3>4. ASSUME NEW e \in news
          PROVE  /\ e.step \in {0, next.step}
                 /\ e.word # 0 => e.word = StepBefore(e, next) /\ e.word <= next.word
      <4>1. CASE e = m
        <5>1. m.step \in {0, next.step}
          BY <1>1
        <5>2. word # 0 => word = StepBefore(m, next) /\ word <= next.word
          <6>1. Over(m) <=> phase = "OVER"
            BY <1>1 DEF Over
          <6>2. StepBefore(m, next) = now.step
            <7>1. CASE phase = "OVER"
              BY <1>1, <6>1, <7>1 DEF StepBefore
            <7>2. CASE phase # "OVER"
              <8>1. m.step = now.step + 1
                BY <1>1, <7>2
              <8>. QED
                BY <1>2, <6>1, <7>2, <8>1 DEF StepBefore
            <7>. QED
              BY <7>1, <7>2
          <6>. QED
            BY <1>1, <1>4, <6>2
        <5>. QED
          BY <1>1, <4>1, <5>1, <5>2
      <4>2. CASE e = o
        BY <1>4, <4>2
      <4>. QED
        BY <1>1, <4>1, <4>2
    <3>. QED
      BY <1>1, <1>2, <3>1, <3>2, <3>3, <3>4, QueueGrows DEF news
  <2>3. /\ QueueInv(flash', r, next) /\ EventsOf(flash', r) = EventsOf(flash, r) \cup news
        /\ QueueInv(indexed', r, next)
        /\ EventsOf(indexed', r) = EventsOf(indexed, r) \cup news
        /\ \A n \in Nat : AllAfter(flash, r, n, now) => AllAfter(flash', r, n, next)
        /\ \A n \in Nat : AllAfter(indexed, r, n, now) => AllAfter(indexed', r, n, next)
        /\ \A d \in EventsOf(flash, r) : ~Over(d)
    BY <2>1, <2>2
  <2>4. RowWords(r)'
    <3>. DEFINE row == rows[r]
    <3>1. /\ AllAfter(indexed, r, row.step, now)
          /\ \A e \in EventsOf(indexed, r) : e.phase # "NONE" => Rank(e) > Rank(row)
          /\ \A n \in Steps : row.words[n] \in {0, n} /\ row.words[n] <= now.word
          /\ \/ now.word = 0 \/ row.words[now.word] # 0
             \/ \E e \in EventsOf(indexed, r) : e.word = now.word
          /\ row.step \in Nat /\ Rank(row) \in Nat /\ Rank(row) <= Rank(now)
          /\ row.words \in [Steps -> Steps]
      BY <1>3, <2>1, QueueFacts DEF WordsInv, RowWords, now, Told
    <3>. HIDE DEF row
    <3>2. AllAfter(indexed', r, row.step, next)
      BY <2>3, <3>1
    <3>3. \A e \in EventsOf(indexed', r) : e.phase # "NONE" => Rank(e) > Rank(row)
      <4>1. Rank(m) > Rank(row)
        BY <1>1, <1>2, <3>1
      <4>. QED
        BY <1>1, <1>4, <2>3, <3>1, <4>1
    <3>4. \A n \in Steps : row.words[n] \in {0, n} /\ row.words[n] <= next.word
      <4>1. \A n \in Steps : row.words[n] \in Nat
        BY <3>1, StepsAreNats
      <4>. QED
        BY <1>1, <1>2, <3>1, <4>1
    <3>5. \/ next.word = 0 \/ row.words[next.word] # 0
          \/ \E e \in EventsOf(indexed', r) : e.word = next.word
      <4>1. CASE word = 0
        BY <1>1, <2>3, <3>1, <4>1
      <4>2. CASE word # 0
        BY <1>1, <2>3, <4>2
      <4>. QED
        BY <4>1, <4>2
    <3>. QED
      BY <3>2, <3>3, <3>4, <3>5 DEF RowWords, row, next
  <2>5. PatchWord(r)'
    <3>. DEFINE p == patches[r]
    <3>1. /\ p.step # 0 /\ ~Over(p) => AllAfter(flash, r, p.step, now)
          /\ p.step = 0 => p.asked = 0 /\ p.nonce = 0
          /\ p.phase = "WAITING_RANDOMNESS" => p.asked = p.step
          /\ p.nonce # 0 => p.word = p.nonce
          /\ p.word <= now.word
          /\ p.step \in Nat /\ p.word \in Nat /\ p \in Told(r)
      BY <2>1, QueueFacts DEF WordsInv, PatchWord, now, Told
    <3>. HIDE DEF p
    <3>2. p.step # 0 /\ ~Over(p) => AllAfter(flash', r, p.step, next)
      BY <2>3, <3>1
    <3>3. p.word <= next.word
      BY <1>1, <1>2, <3>1
    <3>4. ASSUME NEW d \in EventsOf(flash', r), Over(d), d.word # 0,
                 NEW x \in {p} \cup EventsOf(flash', r), x.step = next.step
          PROVE  x.phase \in {"WAITING_RANDOMNESS", "OVER"}
      <4>1. d = m
        BY <1>1, <1>4, <2>3, <3>4
      <4>2. phase = "OVER" /\ word # 0
        BY <1>1, <3>4, <4>1 DEF Over
      <4>3. /\ next.step = now.step /\ now.phase = "WAITING_RANDOMNESS"
            /\ now.step # 0
        <5>1. now.phase \in Waiting => now.step # 0
          BY <1>2 DEF ChainAhead, now
        <5>. QED
          BY <1>1, <1>4, <4>2, <5>1 DEF Waiting
      <4>4. CASE x = m
        BY <1>1, <4>2, <4>4
      <4>5. CASE x # m
        <5>1. x \in Told(r)
          BY <1>1, <2>3, <3>1, <3>4, <4>3, <4>5 DEF Told
        <5>2. CASE Over(x)
          BY <5>2 DEF Over
        <5>3. CASE ~Over(x)
          <6>1. Rank(x) = x.step
            BY <5>1, <5>3, QueueFacts
          <6>2. Rank(x) = Rank(now) /\ Rank(x) # 0
            BY <1>1, <3>4, <4>3, <6>1
          <6>. QED
            BY <1>2, <4>3, <5>1, <6>2 DEF ChainAhead, now
        <5>. QED
          BY <5>2, <5>3
      <4>. QED
        BY <4>4, <4>5
    <3>. QED
      BY <3>1, <3>2, <3>3, <3>4 DEF PatchWord, p, next
  <2>. QED
    BY <2>3, <2>4, <2>5 DEF WordsInv, next
<1>. QED
  BY <1>6, <1>7, <1>8 DEF ArrivesInv

LEMMA ChainArrives ==
  ASSUME StateTypes, Arrives, NEW r \in Rounds,
         Land(r) \/ Progress(r) \/ Submit(r) \/ CancelStuckRandomness(r)
  PROVE  Arrives'
<1>. DEFINE Logs(phase, word) ==
              IF chain[r].phase = "NONE" THEN <<Opened(r), Moved(r, phase, word)>>
              ELSE <<Moved(r, phase, word)>>
<1>1. UNCHANGED <<rows, patches>>
  BY DEF Land, Progress, Submit, CancelStuckRandomness, storeVars
<1>2. 0 \in Steps /\ chain[r].step \in Steps
  BY StepsAreNats DEF StateTypes
<1>3. \E phase \in Waiting \cup {"OVER"}, word \in Steps :
        /\ Goes(r, phase, word) /\ Feed(Logs(phase, word))
        /\ Tells(r, phase, word, Logs(phase, word))
  <2>1. CASE Land(r)
    <3>1. PICK phase \in Waiting \cup {"OVER"} :
            Goes(r, phase, 0) /\ Feed(<<Opened(r), Moved(r, phase, 0)>>)
      BY <2>1 DEF Land
    <3>2. chain[r].phase = "NONE"
      <4>1. r \in r..MaxRounds
        BY ViewAssumption DEF Rounds
      <4>. QED
        BY <2>1, <4>1 DEF Land
    <3>3. Tells(r, phase, 0, Logs(phase, 0))
      BY <3>2 DEF Tells, Over
    <3>. QED
      BY <1>2, <3>1, <3>2, <3>3
  <2>2. CASE Progress(r)
    <3>1. PICK phase \in Waiting \cup {"OVER"}, word \in {0, chain[r].step} :
            /\ \/ chain[r].phase = "WAITING_RANDOMNESS" /\ (word = 0 => phase = "OVER")
               \/ chain[r].phase = "WAITING_PLAYER_ACTION" /\ phase = "OVER" /\ word = 0
            /\ Goes(r, phase, word) /\ Feed(<<Moved(r, phase, word)>>)
      BY <2>2 DEF Progress
    <3>2. chain[r].phase # "NONE" /\ Tells(r, phase, word, Logs(phase, word))
      BY <3>1 DEF Tells, Over
    <3>3. word \in Steps
      BY <1>2
    <3>. QED
      BY <3>1, <3>2, <3>3
  <2>3. CASE Submit(r)
    <3>1. PICK phase \in Waiting \cup {"OVER"} :
            Goes(r, phase, 0) /\ Feed(<<Moved(r, phase, 0)>>)
      BY <2>3 DEF Submit
    <3>2. chain[r].phase = "WAITING_PLAYER_ACTION"
      BY <2>3 DEF Submit, Echoed
    <3>3. Tells(r, phase, 0, Logs(phase, 0))
      BY <3>2 DEF Tells, Over
    <3>. QED
      BY <1>2, <3>1, <3>2, <3>3
  <2>4. CASE CancelStuckRandomness(r)
    <3>1. Goes(r, "OVER", 0) /\ Feed(<<Moved(r, "OVER", 0)>>)
          /\ chain[r].phase = "WAITING_RANDOMNESS"
      BY <2>4 DEF CancelStuckRandomness, Echoed
    <3>2. Tells(r, "OVER", 0, Logs("OVER", 0))
      BY <3>1 DEF Tells, Over
    <3>. QED
      BY <1>2, <3>1, <3>2
  <2>. QED
    BY <2>1, <2>2, <2>3, <2>4
<1>4. PICK phase \in Waiting \cup {"OVER"}, word \in Steps :
        /\ Goes(r, phase, word) /\ Feed(Logs(phase, word))
        /\ Tells(r, phase, word, Logs(phase, word))
  BY <1>3
<1>. DEFINE events == Logs(phase, word)
<1>5. Goes(r, phase, word) /\ Feed(events) /\ Tells(r, phase, word, events)
  BY <1>4
<1>. HIDE DEF events
<1>6. events \in Seq(Event) /\ \A e \in Range(events) : e.round = r
  BY <1>5, TellsBeyond DEF Arrives, ArrivesInv
<1>7. ASSUME NEW q \in Rounds PROVE ArrivesInv(q)'
  <2>1. CASE q = r
    BY <1>1, <1>5, <1>6, <2>1, OwnArrives DEF Arrives
  <2>2. CASE q # r
    <3>1. chain'[q] = chain[q]
      BY <1>5, <2>2, GoesMoves
    <3>2. EventsOf(events, q) = {}
      BY <1>6, <2>2 DEF EventsOf
    <3>. QED
      BY <1>1, <1>5, <1>6, <3>1, <3>2, OtherArrives DEF Arrives
  <2>. QED
    BY <2>1, <2>2
<1>. QED
  BY <1>7 DEF Arrives

\* A session that nothing is known of.
LEMMA UntoldArrives ==
  ASSUME NEW r \in Rounds, rows[r] = InitialRow, patches[r] = InitialPatch,
         chain[r] = Unborn, EventsOf(flash, r) = {}, EventsOf(indexed, r) = {},
         flash \in Seq(Event), indexed \in Seq(Event)
  PROVE  ArrivesInv(r)
<1>1. /\ InitialRow.step = 0 /\ InitialRow.phase = "NONE" /\ InitialRow.words = NoWords
      /\ InitialPatch.step = 0 /\ InitialPatch.phase = "NONE" /\ InitialPatch.asked = 0
      /\ InitialPatch.nonce = 0 /\ InitialPatch.word = 0
      /\ Unborn.phase = "NONE" /\ Unborn.step = 0 /\ Unborn.word = 0
  BY DEF InitialRow, InitialPatch, Unborn
<1>2. /\ Rank(rows[r]) = 0 /\ Rank(patches[r]) = 0 /\ Rank(chain[r]) = 0
      /\ ~Over(chain[r]) /\ chain[r].phase \notin Waiting
  BY <1>1 DEF Rank, Over, Waiting
<1>3. ChainAhead(r)
  BY <1>1, <1>2 DEF ChainAhead, Told
<1>4. RowFollows(r)
  BY <1>1 DEF RowFollows
<1>5. /\ \A queue \in Seq(Event) : EventsOf(queue, r) = {} => QueueInv(queue, r, chain[r])
  BY EventsAre DEF QueueInv, InTurn, EventsOf
<1>6. AllAfter(indexed, r, 0, chain[r])
  <2>1. (0 + 1)..0 = {}
    OBVIOUS
  <2>. QED
    BY <1>1, <2>1 DEF AllAfter
<1>7. RowWords(r)
  <2>1. \A n \in Steps : NoWords[n] = 0
    BY DEF NoWords
  <2>. QED
    BY <1>1, <1>6, <2>1 DEF RowWords
<1>8. PatchWord(r)
  BY <1>1 DEF PatchWord
<1>. QED
  BY <1>3, <1>4, <1>5, <1>7, <1>8 DEF ArrivesInv, WordsInv

\* A session of an earlier visit, whose logs are to be replayed.
LEMMA PastArrives ==
  ASSUME NEW phase \in Waiting, NEW over \in BOOLEAN, 1 \in Rounds,
         rows[1] = InitialRow, patches[1] = InitialPatch, flash = <<>>,
         indexed = PastLogs(phase, over),
         chain[1] = [phase |-> IF over THEN "OVER" ELSE phase, step |-> 1, word |-> 0]
  PROVE  /\ ArrivesInv(1) /\ \A e \in Range(indexed) : e.round = 1
         /\ indexed \in Seq(Event)
<1>. DEFINE e1 == Opened(1)
            e2 == [round |-> 1, phase |-> phase, step |-> 1, word |-> 0]
            e3 == [round |-> 1, phase |-> "OVER", step |-> 0, word |-> 0]
            tail == IF over THEN <<e3>> ELSE <<>>
            first == <<e1, e2>>
            now == chain[1]
<1>0. 0 \in Steps /\ 1 \in Steps /\ 1 \in Rounds
  BY ViewAssumption DEF Steps, Rounds
<1>1. /\ InitialRow.step = 0 /\ InitialRow.phase = "NONE" /\ InitialRow.words = NoWords
      /\ InitialPatch.step = 0 /\ InitialPatch.phase = "NONE" /\ InitialPatch.asked = 0
      /\ InitialPatch.nonce = 0 /\ InitialPatch.word = 0
      /\ \A n \in Steps : NoWords[n] = 0
      /\ Rank(rows[1]) = 0 /\ Rank(patches[1]) = 0
  BY DEF InitialRow, InitialPatch, NoWords, Rank, Over
<1>2. /\ e1 \in Event /\ e2 \in Event /\ e3 \in Event
      /\ e1.phase = "NONE" /\ e1.step = 0 /\ e1.word = 0 /\ e1.round = 1
      /\ e2.phase = phase /\ e2.step = 1 /\ e2.word = 0 /\ e2.round = 1
      /\ e3.phase = "OVER" /\ e3.step = 0 /\ e3.word = 0 /\ e3.round = 1
  BY <1>0, OpenedIsEvent DEF Event, Phases, Opened
<1>3. /\ Final \in Nat /\ Final > 1
      /\ Rank(e1) = 0 /\ Rank(e2) = 1 /\ Rank(e3) = Final
  <2>1. Final \in Nat /\ Final > 1
    BY ViewAssumption DEF Final
  <2>. QED
    BY <1>2, <2>1 DEF Rank, Over, Waiting
<1>4. /\ now.step = 1 /\ now.word = 0 /\ now.phase # "NONE"
      /\ now.phase = IF over THEN "OVER" ELSE phase
      /\ now.phase \in Waiting <=> ~Over(now)
      /\ Rank(now) = IF over THEN Final ELSE 1
  BY DEF Rank, Over, Waiting
<1>5. indexed = first \o tail
  BY DEF PastLogs
<1>. HIDE DEF e1, e2, e3, now
<1>6. first \in Seq(Event) /\ Range(first) = {e1, e2} /\ InTurn(first, 1)
  <2>1. first \in Seq(Event) /\ Range(first) = {e1, e2}
    BY <1>2, TwoEvents
  <2>2. DOMAIN first = {1, 2} /\ first[1] = e1 /\ first[2] = e2
    OBVIOUS
  <2>3. Rank(e1) < Rank(e2)
    BY <1>3
  <2>. HIDE DEF first
  <2>. QED
    BY <2>1, <2>2, <2>3 DEF InTurn
<1>7. tail \in Seq(Event) /\ Range(tail) = (IF over THEN {e3} ELSE {}) /\ InTurn(tail, 1)
  <2>1. CASE over
    <3>1. DOMAIN <<e3>> = {1}
      OBVIOUS
    <3>2. InTurn(<<e3>>, 1)
      BY <3>1 DEF InTurn
    <3>. QED
      BY <1>2, <2>1, <3>2, OneEvent
  <2>2. CASE ~over
    BY <2>2 DEF Range, InTurn
  <2>. QED
    BY <2>1, <2>2
<1>. HIDE DEF tail, first
<1>8. /\ indexed \in Seq(Event)
      /\ Range(indexed) = {e1, e2} \cup IF over THEN {e3} ELSE {}
      /\ EventsOf(indexed, 1) = Range(indexed) /\ \A e \in Range(indexed) : e.round = 1
  <2>1. indexed \in Seq(Event) /\ Range(indexed) = {e1, e2} \cup IF over THEN {e3} ELSE {}
    <3>1. indexed \in Seq(Event)
      BY <1>5, <1>6, <1>7, ConcatProperties
    <3>2. Range(indexed) = Range(first) \cup Range(tail)
      BY <1>5, <1>6, <1>7, RangeConcatenation
    <3>. QED
      BY <1>6, <1>7, <3>1, <3>2
  <2>2. \A e \in Range(indexed) : e.round = 1
    BY <1>2, <2>1
  <2>. QED
    BY <2>1, <2>2 DEF EventsOf
<1>9. EventsOf(flash, 1) = {} /\ flash \in Seq(Event)
  BY DEF EventsOf, Range
<1>10. ChainAhead(1)
  <2>1. Told(1) = {rows[1], patches[1]} \cup Range(indexed)
    BY <1>8, <1>9 DEF Told
  <2>2. \A e \in Range(indexed) : e.phase \in Waiting <=> e.step # 0
    BY <1>2, <1>8 DEF Waiting
  <2>3. \A x \in Told(1) :
          /\ x.step <= now.step /\ Rank(x) <= Rank(now)
          /\ Rank(x) = Rank(now) /\ Rank(x) # 0 => x.phase = now.phase
    BY <1>1, <1>2, <1>3, <1>4, <1>8, <2>1
  <2>. QED
    BY <1>4, <1>8, <1>9, <2>2, <2>3 DEF ChainAhead, now
<1>11. RowFollows(1)
  <2>1. \E x \in EventsOf(indexed, 1) : Rank(x) = Rank(now)
    BY <1>3, <1>4, <1>8
  <2>2. e1 \in Range(indexed)
    BY <1>8
  <2>. QED
    BY <2>1, <2>2 DEF RowFollows, e1, now
<1>12. InTurn(indexed, 1)
  <2>1. \A d \in EventsOf(first, 1), e \in EventsOf(tail, 1) : Rank(d) < Rank(e)
    BY <1>3, <1>6, <1>7 DEF EventsOf
  <2>. QED
    BY <1>5, <1>6, <1>7, <2>1, AppendInTurn
<1>13. /\ AllAfter(indexed, 1, 0, now) /\ AllAfter(indexed, 1, 1, now)
  <2>1. (0 + 1)..now.step = {1} /\ (1 + 1)..now.step = {}
    BY <1>4
  <2>. QED
    BY <1>2, <1>8, <2>1 DEF AllAfter
<1>14. QueueInv(indexed, 1, now)
  <2>1. ASSUME NEW e \in EventsOf(indexed, 1)
        PROVE  e.word = 0 /\ (e.step # 0 => AllAfter(indexed, 1, e.step, now))
    <3>1. e \in {e1, e2, e3}
      BY <1>8
    <3>. QED
      BY <1>2, <1>13, <3>1
  <2>. QED
    BY <1>12, <2>1 DEF QueueInv
<1>15. QueueInv(flash, 1, now)
  BY <1>9 DEF QueueInv, InTurn
<1>16. RowWords(1)
  <2>1. \A e \in EventsOf(indexed, 1) : e.phase # "NONE" => Rank(e) > 0
    BY <1>2, <1>3, <1>8
  <2>2. \A n \in Steps : rows[1].words[n] = 0
    BY <1>1
  <2>. QED
    BY <1>1, <1>4, <1>13, <2>1, <2>2 DEF RowWords, now
<1>17. PatchWord(1)
  BY <1>1, <1>4, <1>9 DEF PatchWord, now
<1>. QED
  BY <1>8, <1>10, <1>11, <1>14, <1>15, <1>16, <1>17 DEF ArrivesInv, WordsInv, now

LEMMA InitArrives == Init => Arrives
<1>. SUFFICES ASSUME Init PROVE Arrives
  OBVIOUS
<1>1. /\ flash = <<>> /\ rows = [r \in Rounds |-> InitialRow]
      /\ patches = [r \in Rounds |-> InitialPatch]
  BY DEF Init
<1>2. EventsOf(flash, 1) = {} /\ flash \in Seq(Event) /\ \A r : EventsOf(flash, r) = {}
  BY <1>1 DEF EventsOf, Range
<1>3. 1 \in Rounds /\ ~(1 > 1)
  BY ViewAssumption DEF Rounds
<1>4. CASE chain = [r \in Rounds |-> Unborn] /\ indexed = <<>>
  <2>1. \A r : EventsOf(indexed, r) = {}
    BY <1>4 DEF EventsOf, Range
  <2>2. ASSUME NEW r \in Rounds PROVE ArrivesInv(r)
    BY <1>1, <1>2, <1>4, <2>1, UntoldArrives
  <2>. QED
    BY <2>2 DEF Arrives
<1>5. ASSUME NEW phase \in Waiting, NEW over \in BOOLEAN,
             indexed = PastLogs(phase, over),
             chain = [r \in Rounds |-> IF r > 1 THEN Unborn ELSE
               [phase |-> IF over THEN "OVER" ELSE phase, step |-> 1, word |-> 0]]
      PROVE  Arrives
  <2>1. /\ ArrivesInv(1) /\ \A e \in Range(indexed) : e.round = 1
        /\ indexed \in Seq(Event)
    <3>1. /\ chain[1] = [phase |-> IF over THEN "OVER" ELSE phase, step |-> 1, word |-> 0]
          /\ rows[1] = InitialRow /\ patches[1] = InitialPatch
      BY <1>1, <1>3, <1>5
    <3>. QED
      BY <1>1, <1>3, <1>5, <3>1, PastArrives
  <2>2. ASSUME NEW r \in Rounds, r # 1 PROVE ArrivesInv(r)
    <3>1. chain[r] = Unborn
      <4>1. r > 1
        BY <2>2, ViewAssumption DEF Rounds
      <4>. QED
        BY <1>5, <4>1
    <3>2. EventsOf(indexed, r) = {}
      BY <2>1, <2>2 DEF EventsOf
    <3>. QED
      BY <1>1, <1>2, <2>1, <3>1, <3>2, UntoldArrives
  <2>. QED
    BY <2>1, <2>2 DEF Arrives
<1>. QED
  BY <1>4, <1>5 DEF Init

LEMMA StepArrives == StateTypes /\ Arrives /\ [Next]_vars => Arrives'
<1>. SUFFICES ASSUME StateTypes, Arrives, [Next]_vars PROVE Arrives'
  OBVIOUS
<1>1. CASE UNCHANGED vars
  <2>1. UNCHANGED <<chain, flash, indexed, rows, patches, faults>>
    BY <1>1 DEF vars, chainVars, storeVars
  <2>. QED
    BY <2>1, ArrivesStay DEF Arrives
<1>2. CASE DeliverIndexed \/ DeliverFlash
  BY <1>2, IndexedArrives, FlashArrives
<1>3. CASE Render \/ ToggleWallet
  BY <1>3, PageArrives
<1>4. ASSUME NEW r \in Rounds,
             \/ Land(r) \/ Progress(r)
             \/ OpenSession(r) \/ Accept(r) \/ Return(r) \/ Fail(r)
             \/ Submit(r) \/ SubmitReturns(r) \/ CancelStuckRandomness(r)
      PROVE  Arrives'
  BY <1>4, ChainArrives, PageArrives
<1>. QED
  BY <1>1, <1>2, <1>3, <1>4 DEF Next

-----------------------------------------------------------------------------
\* The words that a merged row has: its own, and the one that the patch answers.
LEMMA MergedWords ==
  ASSUME NEW row \in Row, NEW p \in Patch
  PROVE  MergedRow(row, p).words =
           IF p.nonce = 0 THEN row.words ELSE Fulfilled(row.words, p.nonce, p.word)
<1>. DEFINE ahead == [row EXCEPT !.step = p.step, !.phase = p.phase]
            over == [row EXCEPT !.phase = "OVER"]
            merged == IF Over(row) THEN row
                      ELSE IF p.step > row.step THEN ahead
                      ELSE IF Over(p) THEN over ELSE row
            words == IF p.nonce = 0 THEN merged.words
                     ELSE Fulfilled(merged.words, p.nonce, p.word)
<1>1. MergedRow(row, p) = [merged EXCEPT !.words = words]
  <2>1. CASE Over(row)
    BY <2>1 DEF MergedRow
  <2>2. CASE ~Over(row) /\ p.step > row.step
    BY <2>2 DEF MergedRow
  <2>3. CASE ~Over(row) /\ ~(p.step > row.step)
    BY <2>3 DEF MergedRow
  <2>. QED
    BY <2>1, <2>2, <2>3
<1>2. MergedRow(row, p).words = words
  <2>. HIDE DEF words
  <2>. QED
    BY <1>1 DEF Row
<1>3. merged.words = row.words
  BY DEF Row
<1>. HIDE DEF merged
<1>. QED
  BY <1>2, <1>3

\* When every word is under its own step, and the last one is known, it is the
\* word of the item.
LEMMA LatestWordIs ==
  ASSUME NEW row \in Row, NEW p \in Patch, NEW last \in Steps,
         \A n \in Steps : row.words[n] \in {0, n} /\ row.words[n] <= last,
         last = 0 \/ row.words[last] # 0,
         p.nonce # 0 => p.word = p.nonce, p.word <= last
  PROVE  LatestWord(MergedRow(row, p), p) = last
<1>. DEFINE words == MergedRow(row, p).words
            known == {n \in Steps : words[n] # 0}
<1>1. /\ row.words \in [Steps -> Steps] /\ p.nonce \in Steps /\ p.word \in Steps
      /\ p.word \in Nat /\ last \in Nat /\ Steps \subseteq Nat
  BY StepsAreNats DEF Row, Patch
<1>2. words = IF p.nonce = 0 THEN row.words ELSE Fulfilled(row.words, p.nonce, p.word)
  BY MergedWords
<1>3. LatestWord(MergedRow(row, p), p) = IF known # {} THEN words[Max(known)] ELSE p.word
  BY DEF LatestWord
<1>. HIDE DEF words
<1>4. \A n \in Steps : words[n] \in {0, n} /\ words[n] <= last
  <2>1. CASE p.nonce = 0
    BY <1>2, <2>1
  <2>2. CASE p.nonce # 0
    <3>1. \A n \in Steps \ {p.nonce} : words[n] = row.words[n]
      BY <1>1, <1>2, <2>2, FulfilledIs
    <3>2. words[p.nonce] = IF row.words[p.nonce] = 0 THEN p.word ELSE row.words[p.nonce]
      BY <1>1, <1>2, <2>2, FulfilledIs
    <3>. QED
      BY <1>1, <2>2, <3>1, <3>2
  <2>. QED
    BY <2>1, <2>2
<1>5. last = 0 \/ words[last] # 0
  <2>1. CASE p.nonce = 0
    BY <1>2, <2>1
  <2>2. CASE p.nonce # 0 /\ last # 0
    <3>1. \A n \in Steps \ {p.nonce} : words[n] = row.words[n]
      BY <1>1, <1>2, <2>2, FulfilledIs
    <3>2. words[p.nonce] = IF row.words[p.nonce] = 0 THEN p.word ELSE row.words[p.nonce]
      BY <1>1, <1>2, <2>2, FulfilledIs
    <3>. QED
      BY <2>2, <3>1, <3>2
  <2>. QED
    BY <2>1, <2>2
<1>6. CASE last = 0
  <2>1. ASSUME NEW n \in Steps PROVE words[n] = 0
    <3>1. n \in Nat /\ words[n] \in {0, n} /\ words[n] <= 0
      BY <1>1, <1>4, <1>6
    <3>. QED
      BY <3>1
  <2>2. p.word = 0
    BY <1>1, <1>6
  <2>. QED
    BY <1>3, <1>6, <2>1, <2>2
<1>7. CASE last # 0
  <2>1. last \in known /\ \A n \in known : last >= n /\ n \in Nat
    BY <1>1, <1>4, <1>5, <1>7
  <2>2. words[last] = last
    BY <1>4, <1>5, <1>7
  <2>. HIDE DEF known
  <2>3. Max(known) \in known /\ \A n \in known : Max(known) >= n
    BY <2>1 DEF Max
  <2>4. Max(known) = last
    <3>. DEFINE max == Max(known)
    <3>1. max \in Nat /\ last >= max /\ max >= last
      BY <2>1, <2>3
    <3>. HIDE DEF max
    <3>2. max = last
      BY <1>1, <3>1
    <3>. QED
      BY <3>2 DEF max
  <2>. QED
    BY <1>3, <2>1, <2>2, <2>4
<1>. QED
  BY <1>6, <1>7

\* A listed session that has a state is shown by its row.
LEMMA NewItemIsOwn ==
  ASSUME StateTypes, \A q \in Rounds : PublishedOf(q),
         NEW list, ListOK(list), NEW r \in DOMAIN list, list[r] = rows[r],
         Listed(rows[r]), rows[r].phase = "NONE" => rows[r].step = 0,
         patches[r].phase = "NONE" => patches[r].step = 0,
         Over(published[r]) => Level(rows[r], patches[r]) = Final,
         Level(rows[r], patches[r]) # 0
  PROVE  NewItem(list, r) = Projected(list, r)
<1>. DEFINE own == Projected(list, r)
<1>1. r \in Rounds
  BY DEF ListOK
<1>2. /\ own.step = Level(rows[r], patches[r])
      /\ Over(own) <=> own.step = Final
      /\ ~Over(own) => \E x \in {rows[r], patches[r]} : x.phase = own.phase /\ x.step = own.step
  <2>1. /\ own.step = Level(list[r], patches[r])
        /\ Over(own) <=> own.step = Final
        /\ ~Over(own) => \E x \in {list[r], patches[r]} : x.phase = own.phase
                                                          /\ x.step = own.step
    BY ProjectedSays
  <2>. HIDE DEF own
  <2>. QED
    BY <2>1
<1>3. ~Hides(list, r)
  <2>1. SUFFICES ASSUME Hides(list, r) PROVE FALSE
    OBVIOUS
  <2>2. own.phase = "NONE"
    BY <2>1 DEF Hides, Optimistic
  <2>. HIDE DEF own
  <2>. QED
    BY <1>2, <2>2 DEF Over
<1>4. NewItem(list, r) = IF ~Over(own) /\ Over(Released(list)[r])
                         THEN Released(list)[r] ELSE own
  BY <1>1, <1>3, NewItemCases
<1>5. ASSUME Over(Released(list)[r]) PROVE Over(own)
  <2>1. ~Over(NoItem)
    BY DEF Over, NoItem
  <2>2. Over(published[r])
    BY <1>1, <1>5, <2>1 DEF Released
  <2>. HIDE DEF own
  <2>. QED
    BY <1>2, <2>2
<1>. HIDE DEF own
<1>. QED
  BY <1>4, <1>5 DEF own

\* When everything is delivered, the row of a session is where the chain is.
LEMMA RowArrived ==
  ASSUME StreamInv, NEW r \in Rounds, ArrivesInv(r), flash = <<>>, indexed = <<>>,
         faults.lost = 0, chain[r].phase # "NONE"
  PROVE  /\ rows[r].opened
         /\ Level(rows[r], patches[r]) = Rank(chain[r]) /\ Rank(chain[r]) # 0
         /\ \A x \in {rows[r], patches[r]} :
              ~Over(x) /\ x.step = Rank(chain[r]) => x.phase = chain[r].phase
         /\ faults.overtaken = 0 =>
              LatestWord(MergedRow(rows[r], patches[r]), patches[r]) = chain[r].word
<1>. DEFINE row == rows[r]
            p == patches[r]
            now == chain[r]
<1>1. StateTypes
  BY DEF StreamInv, ViewIInv
<1>2. EventsOf(flash, r) = {} /\ EventsOf(indexed, r) = {} /\ Range(indexed) = {}
  BY DEF EventsOf, Range
<1>3. /\ row \in Row /\ p \in Patch /\ now.phase \in Phases /\ now.word \in Steps
      /\ \A x \in {row, p, now} :
           /\ Rank(x) \in Nat /\ Rank(x) <= Final /\ Final \in Nat
           /\ Rank(x) = Final <=> Over(x)
           /\ ~Over(x) => Rank(x) = x.step
           /\ x.step \in Nat /\ x.step < Final
  <2>1. {row, p, now} \subseteq Told(r) \cup {chain[r]}
    BY DEF Told
  <2>. QED
    BY <1>1, <2>1, QueueFacts
<1>4. row.opened /\ Rank(row) = Rank(now)
  BY <1>2 DEF ArrivesInv, RowFollows
<1>5. Rank(now) # 0
  <2>1. now.phase \in Waiting => now.step # 0
    BY DEF ArrivesInv, ChainAhead
  <2>2. now.phase \in Waiting \/ Over(now)
    BY <1>3 DEF Phases, Over, Waiting
  <2>. QED
    BY <1>3, <2>1, <2>2
<1>6. \A x \in {row, p} :
        /\ Rank(x) <= Rank(now)
        /\ Rank(x) = Rank(now) /\ Rank(x) # 0 => x.phase = now.phase
  BY DEF ArrivesInv, ChainAhead, Told
<1>7. Level(row, p) = Rank(now)
  <2>1. /\ Level(row, p) = Final <=> Over(row) \/ Over(p)
        /\ ~Over(row) /\ ~Over(p) =>
             Level(row, p) = IF row.opened /\ row.step > p.step THEN row.step ELSE p.step
    BY <1>3, LevelIs
  <2>. HIDE DEF row, p, now
  <2>2. CASE Over(row) \/ Over(p)
    BY <1>3, <1>4, <1>6, <2>1, <2>2
  <2>3. CASE ~Over(row) /\ ~Over(p)
    BY <1>3, <1>4, <1>6, <2>1, <2>3
  <2>. QED
    BY <2>2, <2>3
<1>8. \A x \in {row, p} : ~Over(x) /\ x.step = Rank(now) => x.phase = now.phase
  BY <1>3, <1>5, <1>6
<1>9. ASSUME faults.overtaken = 0
      PROVE  LatestWord(MergedRow(row, p), p) = now.word
  <2>1. RowWords(r) /\ PatchWord(r)
    BY <1>9 DEF ArrivesInv, WordsInv
  <2>2. /\ \A n \in Steps : row.words[n] \in {0, n} /\ row.words[n] <= now.word
        /\ now.word = 0 \/ row.words[now.word] # 0
    BY <1>2, <2>1 DEF RowWords
  <2>3. (p.nonce # 0 => p.word = p.nonce) /\ p.word <= now.word
    BY <2>1 DEF PatchWord
  <2>. HIDE DEF row, p, now
  <2>. QED
    BY <1>3, <2>2, <2>3, LatestWordIs
<1>. QED
  BY <1>4, <1>5, <1>7, <1>8, <1>9

LEMMA Arrived == StreamInv /\ Arrives => Converged
<1>. SUFFICES ASSUME StreamInv, Arrives, Quiet, faults.lost = 0,
                     NEW r \in Rounds, chain[r].phase # "NONE"
              PROVE  \E i \in OfSession(snapshot, r) :
                       LET truth == Shown(i.key, chain[r].phase, chain[r].step, chain[r].word)
                       IN  /\ i.phase = truth.phase /\ i.step = truth.step
                           /\ faults.overtaken = 0 => i.word = truth.word
  BY DEF Converged
<1>. DEFINE row == rows[r]
            p == patches[r]
            now == chain[r]
            own == Projected(List, r)
<1>1. /\ StateTypes /\ \A q \in Rounds : PublishedOf(q)
      /\ PublishedKnown(r) /\ ClaimsAgree(r) /\ ArrivesInv(r)
  BY DEF StreamInv, ViewIInv, Arrives
<1>2. flash = <<>> /\ indexed = <<>> /\ ready /\ snapshot = View(List)
  BY DEF Quiet
<1>3. /\ row.opened /\ Level(row, p) = Rank(now) /\ Rank(now) # 0
      /\ \A x \in {row, p} : ~Over(x) /\ x.step = Rank(now) => x.phase = now.phase
      /\ faults.overtaken = 0 => LatestWord(MergedRow(row, p), p) = now.word
  BY <1>1, <1>2, RowArrived
<1>4. ListOK(List) /\ r \in DOMAIN List /\ List[r] = row /\ Listed(row)
  <2>1. Listed(row)
    BY <1>3 DEF Listed
  <2>2. rows \in [Rounds -> Row] /\ ready \in BOOLEAN
    BY <1>1 DEF StateTypes
  <2>. QED
    BY <1>2, <2>1, <2>2, RowsAreOK DEF List
<1>5. NewItem(List, r) = own
  <2>1. Over(published[r]) => Level(row, p) = Final
    <3>1. ~Over(NoItem)
      BY DEF Over, NoItem
    <3>. QED
      BY <1>1, <3>1 DEF PublishedKnown
  <2>2. (row.phase = "NONE" => row.step = 0) /\ (p.phase = "NONE" => p.step = 0)
    BY <1>1 DEF ClaimsAgree
  <2>. QED
    BY <1>1, <1>3, <1>4, <2>1, <2>2, NewItemIsOwn
<1>6. own \in OfSession(snapshot, r)
  <2>1. OfSession(View(List), r) = {own} \ {NoItem}
    BY <1>1, <1>4, <1>5, ViewItem
  <2>2. own # NoItem
    BY <1>1, <1>4, <1>5, NewItemIsThere
  <2>. QED
    BY <1>2, <2>1, <2>2
<1>7. /\ own.step = Level(row, p)
      /\ Over(own) <=> own.step = Final
      /\ ~Over(own) => \E x \in {row, p} : x.phase = own.phase /\ x.step = own.step
  <2>1. /\ own.step = Level(List[r], p)
        /\ Over(own) <=> own.step = Final
        /\ ~Over(own) => \E x \in {List[r], p} : x.phase = own.phase /\ x.step = own.step
    BY <1>1, <1>4, ProjectedSays
  <2>. HIDE DEF own
  <2>. QED
    BY <1>4, <2>1
<1>8. own.word = LatestWord(MergedRow(row, p), p)
  <2>1. own = LET m == MergedRow(List[r], p)
              IN  Shown(<<"session", r>>, m.phase, m.step, LatestWord(m, p))
    BY DEF Projected
  <2>. QED
    BY <1>4, <2>1 DEF Shown
<1>. DEFINE truth == Shown(own.key, now.phase, now.step, now.word)
<1>9. /\ truth.phase = now.phase /\ truth.word = now.word
      /\ truth.step = IF Over(now) THEN Final ELSE now.step
  BY DEF Shown, Over
<1>10. Rank(now) = (IF Over(now) THEN Final ELSE now.step) /\ now.step < Final
  <2>1. now.step < Final
    BY <1>1, QueueFacts
  <2>. QED
    BY <2>1 DEF Rank
<1>11. /\ own.phase = truth.phase /\ own.step = truth.step
       /\ faults.overtaken = 0 => own.word = truth.word
  <2>. HIDE DEF own, truth, row, p, now
  <2>1. own.step = truth.step
    BY <1>3, <1>7, <1>9, <1>10
  <2>2. own.phase = now.phase
    <3>1. CASE Over(now)
      <4>1. Over(own)
        BY <1>3, <1>7, <1>10, <3>1
      <4>. QED
        BY <3>1, <4>1 DEF Over
    <3>2. CASE ~Over(now)
      <4>0. now.step \in Nat /\ Final \in Nat
        BY <1>1, QueueFacts DEF now
      <4>1. ~Over(own) /\ own.step = Rank(now)
        BY <1>3, <1>7, <1>10, <3>2, <4>0
      <4>2. PICK x \in {row, p} : x.phase = own.phase /\ x.step = own.step
        BY <1>7, <4>1
      <4>3. ~Over(x)
        BY <4>1, <4>2 DEF Over
      <4>. QED
        BY <1>3, <4>1, <4>2, <4>3
    <3>. QED
      BY <3>1, <3>2
  <2>. QED
    BY <1>3, <1>8, <1>9, <2>1, <2>2
<1>. HIDE DEF own
<1>. QED
  BY <1>6, <1>11

\* When both channels have delivered everything and the page has rendered, the
\* game sees every session as the chain has it, in whichever order the events,
\* the calls and the renders came.
THEOREM ViewConverges == Spec => []Converged
<1>1. StreamInv /\ [Next]_vars => StreamInv'
  BY StepStream, StutterStream DEF StreamStep
<1>2. StreamInv => StateTypes
  BY DEF StreamInv, ViewIInv
<1>. QED
  BY <1>1, <1>2, InitStream, InitArrives, StepArrives, Arrived, PTL DEF Spec

-----------------------------------------------------------------------------
(* The types of what is shown.                                             *)

\* A set of steps that is not empty has a last one.
LEMMA LastStep ==
  ASSUME NEW known \in SUBSET Steps, known # {}
  PROVE  Max(known) \in known
<1>. DEFINE behind == {MaxSteps - n : n \in known}
<1>1. MaxSteps \in Nat /\ \A n \in known : n \in 0..MaxSteps
  BY ViewAssumption DEF Steps
<1>2. behind \subseteq Nat /\ behind # {}
  BY <1>1
<1>3. PICK x \in behind : \A y \in behind : ~(<<y, x>> \in OpToRel(<, Nat))
  BY <1>2, NatLessThanWellFounded, WFMin
<1>4. \A y \in behind : ~(y < x)
  BY <1>2, <1>3 DEF OpToRel
<1>5. PICK n \in known : x = MaxSteps - n
  OBVIOUS
<1>6. ASSUME NEW m \in known PROVE n >= m
  <2>1. ~(MaxSteps - m < MaxSteps - n)
    BY <1>4, <1>5
  <2>2. n \in 0..MaxSteps /\ m \in 0..MaxSteps
    BY <1>1
  <2>. HIDE DEF behind
  <2>. QED
    BY <1>1, <2>1, <2>2
<1>. QED
  BY <1>6 DEF Max

\* Whatever is shown of a step and a word is an item.
LEMMA ShownIsItem ==
  ASSUME NEW key \in Keys, NEW phase \in Phases, NEW step \in Steps, NEW word \in Steps
  PROVE  Shown(key, phase, step, word) \in Item
BY DEF Shown, Item

\* A row with its patch merged in is as one of the store, but for its opening.
LEMMA MergedIsRow ==
  ASSUME NEW row \in Row, NEW p \in Patch
  PROVE  LET merged == MergedRow(row, p)
         IN  merged.phase \in Phases /\ merged.step \in Steps /\ merged.words \in [Steps -> Steps]
<1>1. /\ row.words \in [Steps -> Steps] /\ row.phase \in Phases /\ row.step \in Steps
      /\ p.word \in Steps /\ p.phase \in Phases /\ p.step \in Steps
  BY DEF Row, Patch
<1>2. MergedRow(row, p).words \in [Steps -> Steps]
  <2>1. p.nonce \in Steps
    BY DEF Patch
  <2>2. Fulfilled(row.words, p.nonce, p.word) \in [Steps -> Steps]
    BY <1>1, <2>1 DEF Fulfilled
  <2>. QED
    BY <1>1, <2>2, MergedWords
<1>. DEFINE ahead == [row EXCEPT !.step = p.step, !.phase = p.phase]
            over == [row EXCEPT !.phase = "OVER"]
            merged == IF Over(row) THEN row
                      ELSE IF p.step > row.step THEN ahead
                      ELSE IF Over(p) THEN over ELSE row
            words == IF p.nonce = 0 THEN merged.words
                     ELSE Fulfilled(merged.words, p.nonce, p.word)
<1>3. MergedRow(row, p) = [merged EXCEPT !.words = words]
  <2>1. CASE Over(row)
    BY <2>1 DEF MergedRow
  <2>2. CASE ~Over(row) /\ p.step > row.step
    BY <2>2 DEF MergedRow
  <2>3. CASE ~Over(row) /\ ~(p.step > row.step)
    BY <2>3 DEF MergedRow
  <2>. QED
    BY <2>1, <2>2, <2>3
<1>4. merged \in Row
  BY <1>1 DEF Row, Phases
<1>5. MergedRow(row, p).phase = merged.phase /\ MergedRow(row, p).step = merged.step
  <2>. HIDE DEF words, merged
  <2>. QED
    BY <1>3, <1>4 DEF Row
<1>6. merged.phase \in Phases /\ merged.step \in Steps
  <2>. HIDE DEF merged
  <2>. QED
    BY <1>4 DEF Row
<1>. QED
  BY <1>2, <1>5, <1>6

LEMMA LatestIsStep ==
  ASSUME NEW row, row.words \in [Steps -> Steps], NEW p \in Patch
  PROVE  LatestWord(row, p) \in Steps
<1>. DEFINE known == {n \in Steps : row.words[n] # 0}
<1>1. known # {} => Max(known) \in Steps
  BY LastStep
<1>2. p.word \in Steps
  BY DEF Patch
<1>. HIDE DEF known
<1>3. LatestWord(row, p) = IF known # {} THEN row.words[Max(known)] ELSE p.word
  BY DEF LatestWord, known
<1>. QED
  BY <1>1, <1>2, <1>3

\* Rows of sessions and rows of bets give items.
LEMMA ProjectedIsItem ==
  ASSUME StateTypes, NEW list, ListOK(list), NEW r \in DOMAIN list
  PROVE  Projected(list, r) \in Item
<1>1. r \in Rounds /\ list[r] \in Row /\ patches[r] \in Patch
  BY DEF StateTypes, ListOK
<1>. DEFINE row == MergedRow(list[r], patches[r])
<1>2. row.phase \in Phases /\ row.step \in Steps /\ row.words \in [Steps -> Steps]
  BY <1>1, MergedIsRow
<1>3. Projected(list, r) =
        Shown(<<"session", r>>, row.phase, row.step, LatestWord(row, patches[r]))
  BY DEF Projected
<1>. HIDE DEF row
<1>4. <<"session", r>> \in Keys /\ LatestWord(row, patches[r]) \in Steps
  BY <1>1, <1>2, LatestIsStep DEF Keys
<1>. QED
  BY <1>2, <1>3, <1>4, ShownIsItem

LEMMA OptimisticIsItem ==
  ASSUME StateTypes, NEW list, NEW r \in Rounds
  PROVE  OptimisticItem(list, r) \in Item
<1>. DEFINE p == patches[r]
            base == Shown(<<"session", r>>, "WAITING_RANDOMNESS", 0, 0)
            hidden == Shown(<<"pending", r>>, "WAITING_RANDOMNESS", 0, 0)
            early == Shown(<<"session", r>>, IF p.phase = "NONE" THEN "WAITING_RANDOMNESS" ELSE p.phase,
                           p.step, p.word)
<1>1. 0 \in Steps /\ "WAITING_RANDOMNESS" \in Phases /\ p.phase \in Phases
      /\ p.step \in Steps /\ p.word \in Steps
      /\ <<"session", r>> \in Keys /\ <<"pending", r>> \in Keys
  BY StepsAreNats DEF StateTypes, Patch, Phases, Waiting, Keys
<1>2. base \in Item /\ hidden \in Item /\ early \in Item
  BY <1>1, ShownIsItem
<1>3. OptimisticItem(list, r) \in {base, hidden, early}
  <2>1. [base EXCEPT !.key = <<"pending", r>>] = hidden
    BY DEF Shown
  <2>2. base.phase = "WAITING_RANDOMNESS" /\ base.key = <<"session", r>>
    BY DEF Shown
  <2>3. CASE r \notin confirmed
    BY <2>1, <2>3 DEF OptimisticItem
  <2>4. CASE r \in confirmed /\ r \in DOMAIN list
    BY <2>4 DEF OptimisticItem
  <2>5. CASE r \in confirmed /\ r \notin DOMAIN list
    <3>1. OptimisticItem(list, r) =
            Shown(base.key, IF p.phase = "NONE" THEN base.phase ELSE p.phase, p.step, p.word)
      BY <2>5 DEF OptimisticItem
    <3>. HIDE DEF base
    <3>. QED
      BY <2>2, <3>1
  <2>. QED
    BY <2>3, <2>4, <2>5
<1>. QED
  BY <1>2, <1>3

\* What was published, what the game was shown, and the history of it.
ItemTypes ==
  /\ published \in [Rounds -> Item \cup {NoItem}]
  /\ snapshot \subseteq Item /\ watched \subseteq Item

\* So do the results that replace them and what was missing.
LEMMA ViewIsItems ==
  ASSUME StateTypes, ItemTypes, NEW list, ListOK(list)
  PROVE  View(list) \subseteq Item
<1>1. Items(list) \subseteq Item
  <2>1. ASSUME NEW i \in Items(list) PROVE i \in Item
    <3>1. CASE \E r \in Optimistic(list) : i = OptimisticItem(list, r)
      BY <3>1, OptimisticIsItem DEF Optimistic, StateTypes
    <3>2. CASE \E r \in DOMAIN list : i = Projected(list, r)
      BY <3>2, ProjectedIsItem
    <3>. QED
      BY <3>1, <3>2 DEF Items
  <2>. QED
    BY <2>1
<1>2. \A r \in Rounds : Released(list)[r] \in Item \cup {NoItem}
  BY DEF Released, ItemTypes
<1>3. ~Over(NoItem)
  BY DEF Over, NoItem
<1>4. ASSUME NEW i \in Items(list) PROVE Reconciled(list, i) \in Item
  <2>1. i \in Item /\ i.key[2] \in Rounds
    BY <1>1 DEF Item, Keys
  <2>. QED
    BY <1>2, <1>3, <2>1 DEF Reconciled
<1>5. Dropped(list) \subseteq Item
  BY <1>2 DEF Dropped
<1>. QED
  BY <1>4, <1>5 DEF View

LEMMA PublishTypes ==
  ASSUME StateTypes, ItemTypes, NEW list, ListOK(list), NEW isReady, Publish(list, isReady)
  PROVE  ItemTypes'
<1>1. View(list) \subseteq Item
  BY ViewIsItems
<1>2. snapshot' \subseteq Item /\ watched' \subseteq Item
  BY <1>1 DEF Publish, ItemTypes
<1>3. ASSUME NEW r \in Rounds
      PROVE  (IF OfSession(View(list), r) = {} THEN NoItem
              ELSE CHOOSE i \in OfSession(View(list), r) : TRUE) \in Item \cup {NoItem}
  BY <1>1 DEF OfSession
<1>. QED
  BY <1>2, <1>3 DEF Publish, ItemTypes

-----------------------------------------------------------------------------
(* The types of the whole page.                                            *)

\* The bounds, and the sets that match bets with sessions.
FaultTypes == faults \in [{"lost", "overtaken", "toggled"} -> 0..MaxFaults]
LogTypes == logs \in 0..MaxLogs
OpenTypes ==
  /\ confirmed \subseteq optimistic
  /\ pendingOpens \cup recentOpens \cup confirmedOpens \subseteq Rounds

\* Faults and logs are counted up to their bounds and no further.
LEMMA FaultsBounded ==
  ASSUME StateTypes, FaultTypes, NEW kind \in {"lost", "overtaken", "toggled"}, NEW n \in Nat,
         Fault(kind, n)
  PROVE  FaultTypes'
<1>1. /\ faults["lost"] \in 0..MaxFaults /\ faults["overtaken"] \in 0..MaxFaults
      /\ faults["toggled"] \in 0..MaxFaults /\ MaxFaults \in Nat
  BY ViewAssumption DEF FaultTypes
<1>2. n + faults["lost"] + faults["overtaken"] + faults["toggled"] <= MaxFaults
      /\ faults' = [faults EXCEPT ![kind] = faults[kind] + n]
  BY DEF Fault
<1>3. faults[kind] + n \in 0..MaxFaults
  BY <1>1, <1>2
<1>. QED
  BY <1>2, <1>3 DEF FaultTypes

LEMMA FeedBounded ==
  ASSUME StateTypes, FaultTypes, LogTypes, NEW events, Len(events) \in Nat, Feed(events)
  PROVE  FaultTypes' /\ LogTypes'
<1>1. PICK k \in 0..Len(events) : Fault("lost", k)
  BY DEF Feed
<1>2. FaultTypes'
  BY <1>1, FaultsBounded
<1>3. logs' = logs + Len(events) /\ logs' <= MaxLogs /\ logs \in 0..MaxLogs
  BY DEF Feed, LogTypes
<1>4. LogTypes'
  BY <1>3, ViewAssumption DEF LogTypes
<1>. QED
  BY <1>2, <1>4

LEMMA NextBounded ==
  ASSUME StateTypes, FaultTypes, LogTypes, Next
  PROVE  FaultTypes' /\ LogTypes'
<1>1. CASE Render
  BY <1>1 DEF Render, chainVars, FaultTypes, LogTypes
<1>2. CASE DeliverIndexed
  <2>1. PICK i \in DOMAIN indexed : Fault("overtaken", IF i = 1 THEN 0 ELSE 1)
    BY <1>2 DEF DeliverIndexed, Takes
  <2>. QED
    BY <1>2, <2>1, FaultsBounded DEF DeliverIndexed, LogTypes
<1>3. CASE DeliverFlash
  <2>1. PICK i \in DOMAIN flash : Fault("overtaken", IF i = 1 THEN 0 ELSE 1)
    BY <1>3 DEF DeliverFlash, Takes
  <2>. QED
    BY <1>3, <2>1, FaultsBounded DEF DeliverFlash, LogTypes
<1>4. CASE ToggleWallet
  <2>1. Fault("toggled", IF ready THEN 1 ELSE 0) /\ logs' = logs
    BY <1>4 DEF ToggleWallet, chainVars
  <2>. QED
    BY <2>1, FaultsBounded DEF LogTypes
<1>5. ASSUME NEW r \in Rounds, OpenSession(r) \/ Accept(r) \/ Return(r) \/ Fail(r) \/ SubmitReturns(r)
      PROVE  FaultTypes' /\ LogTypes'
  BY <1>5 DEF OpenSession, Accept, Return, Fail, SubmitReturns, chainVars, FaultTypes, LogTypes
<1>6. ASSUME NEW r \in Rounds, Land(r) \/ Progress(r) \/ Submit(r) \/ CancelStuckRandomness(r)
      PROVE  FaultTypes' /\ LogTypes'
  <2>1. \E e, f : Feed(<<e>>) \/ Feed(<<e, f>>)
    BY <1>6 DEF Land, Progress, Submit, CancelStuckRandomness
  <2>2. PICK e, f : Feed(<<e>>) \/ Feed(<<e, f>>)
    BY <2>1
  <2>3. Len(<<e>>) \in Nat /\ Len(<<e, f>>) \in Nat
    OBVIOUS
  <2>. QED
    BY <2>2, <2>3, FeedBounded
<1>. QED
  BY <1>1, <1>2, <1>3, <1>4, <1>5, <1>6 DEF Next

\* A row of a bet goes together with its confirmation.
LEMMA NextOpens ==
  ASSUME StateTypes, OpenTypes, Next
  PROVE  OpenTypes'
<1>1. CASE Render \/ DeliverIndexed \/ ToggleWallet
  BY <1>1 DEF Render, DeliverIndexed, ToggleWallet, openVars, OpenTypes
<1>2. CASE DeliverFlash
  <2>1. PICK i \in DOMAIN flash :
          IF flash[i].phase = "NONE" THEN SeenOpen(flash[i].round) ELSE UNCHANGED openVars
    BY <1>2 DEF DeliverFlash
  <2>2. flash[i].round \in Rounds
    <3>1. flash \in Seq(Event) /\ DOMAIN flash = 1..Len(flash)
      BY LenProperties DEF StateTypes
    <3>2. flash[i] \in Event
      BY <3>1, ElementOfSeq
    <3>. QED
      BY <3>2 DEF Event
  <2>. QED
    BY <2>1, <2>2 DEF SeenOpen, openVars, OpenTypes
<1>3. ASSUME NEW r \in Rounds,
             OpenSession(r) \/ Accept(r) \/ Return(r) \/ Fail(r)
      PROVE  OpenTypes'
  BY <1>3 DEF OpenSession, Accept, Return, Fail, OpenTypes
<1>4. ASSUME NEW r \in Rounds,
             \/ Land(r) \/ Progress(r) \/ Submit(r) \/ SubmitReturns(r)
             \/ CancelStuckRandomness(r)
      PROVE  OpenTypes'
  BY <1>4 DEF Land, Progress, Submit, SubmitReturns, CancelStuckRandomness, openVars, OpenTypes
<1>. QED
  BY <1>1, <1>2, <1>3, <1>4 DEF Next

\* Items come from publications alone.
LEMMA NextItems ==
  ASSUME ViewIInv, ItemTypes, Next
  PROVE  ItemTypes'
<1>1. CASE UNCHANGED viewVars
  BY <1>1 DEF viewVars, ItemTypes
<1>2. ASSUME NEW store \in [Rounds -> Row], NEW isReady \in BOOLEAN,
             Publish(SessionRows(store, isReady), isReady)
      PROVE  ItemTypes'
  BY <1>2, RowsAreOK, PublishTypes DEF ViewIInv
<1>. QED
  BY <1>1, <1>2, SnapshotIsPublished

\* The page keeps its types for every number of bets, steps, logs and faults: a
\* confirmed bet has a row, and whatever is shown is an item, of a step and with
\* a word that the session can have.
THEOREM ViewTypeCorrect == Spec => []TypeOK
<1>. DEFINE Rest == ItemTypes /\ FaultTypes /\ LogTypes /\ OpenTypes
<1>1. Init => Rest
  <2>. SUFFICES ASSUME Init PROVE Rest
    OBVIOUS
  <2>1. ItemTypes /\ OpenTypes
    BY DEF Init, ItemTypes, OpenTypes
  <2>2. FaultTypes
    BY ViewAssumption DEF Init, FaultTypes
  <2>3. logs = Len(indexed)
    BY DEF Init
  <2>4. ASSUME indexed = <<>> PROVE LogTypes
    BY <2>3, <2>4, ViewAssumption DEF LogTypes
  <2>5. ASSUME NEW phase \in Waiting, NEW over \in BOOLEAN, indexed = PastLogs(phase, over)
        PROVE  LogTypes
    <3>1. Len(indexed) \in {2, 3}
      BY <2>5 DEF PastLogs
    <3>. QED
      BY <2>3, <3>1, ViewAssumption DEF LogTypes
  <2>6. LogTypes
    BY <2>4, <2>5 DEF Init
  <2>. QED
    BY <2>1, <2>2, <2>6
<1>2. ViewIInv /\ Rest /\ [Next]_vars => Rest'
  <2>. SUFFICES ASSUME ViewIInv, Rest, [Next]_vars PROVE Rest'
    OBVIOUS
  <2>1. CASE UNCHANGED vars
    BY <2>1 DEF vars, chainVars, openVars, viewVars, ItemTypes, FaultTypes, LogTypes, OpenTypes
  <2>2. CASE Next
    BY <2>2, NextItems, NextBounded, NextOpens DEF ViewIInv
  <2>. QED
    BY <2>1, <2>2
<1>3. ViewIInv /\ Rest => TypeOK
  BY DEF ViewIInv, StateTypes, ItemTypes, FaultTypes, LogTypes, OpenTypes, TypeOK
<1>. QED
  BY <1>1, <1>2, <1>3, ViewInvariant, PTL DEF Spec
=============================================================================

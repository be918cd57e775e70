--------------------------- MODULE EventFeedProofs ---------------------------
(***************************************************************************)
(* Theorems about EventFeed, for every number of blocks, logs and failed   *)
(* calls: what its channels hear is each log once, the past first and in   *)
(* order, and nothing but a failed timestamp look-up loses a log.          *)
(*                                                                         *)
(* The loops do one of three things with the next log (LoopCases): skip it *)
(* because it is marked, ask for its timestamp, or hand it out.  No other  *)
(* action but a timer delivers anything.                                   *)
(***************************************************************************)
EXTENDS EventFeed, TLAPS

-----------------------------------------------------------------------------
(* Sequences and logs.                                                     *)

\* What appending an element does to a sequence.
LEMMA AppendFacts ==
  ASSUME NEW S, NEW s \in Seq(S), NEW e \in S
  PROVE  /\ Append(s, e) \in Seq(S)
         /\ Len(s) \in Nat /\ DOMAIN s = 1..Len(s)
         /\ DOMAIN Append(s, e) = 1..(Len(s) + 1)
         /\ \A i \in DOMAIN s : Append(s, e)[i] = s[i]
         /\ Append(s, e)[Len(s) + 1] = e
OBVIOUS

LEMMA AppendSet ==
  ASSUME NEW S, NEW s \in Seq(S), NEW e \in S
  PROVE  ToSet(Append(s, e)) = ToSet(s) \cup {e}
<1>1. \A x : x \in ToSet(Append(s, e)) <=> \E i \in 1..(Len(s) + 1) : x = Append(s, e)[i]
  BY AppendFacts DEF ToSet
<1>2. \A x : x \in ToSet(s) <=> \E i \in 1..Len(s) : x = s[i]
  BY AppendFacts DEF ToSet
<1>3. \A i \in 1..(Len(s) + 1) : i \in 1..Len(s) \/ i = Len(s) + 1
  BY AppendFacts
<1>4. 1..Len(s) \subseteq 1..(Len(s) + 1) /\ Len(s) + 1 \in 1..(Len(s) + 1)
  BY AppendFacts
<1>. QED
  BY <1>1, <1>2, <1>3, <1>4, AppendFacts

\* A sequence without repetitions has none after a new element is appended.
LEMMA AppendsOnce ==
  ASSUME NEW S, NEW s \in Seq(S), NEW e \in S, IsInjective(s), e \notin ToSet(s)
  PROVE  IsInjective(Append(s, e))
<1>1. /\ \A k \in DOMAIN s : s[k] # e
      /\ \A k, m \in DOMAIN s : s[k] = s[m] => k = m
  BY DEF ToSet, IsInjective
<1>2. ASSUME NEW i \in DOMAIN Append(s, e), NEW j \in DOMAIN Append(s, e),
             Append(s, e)[i] = Append(s, e)[j]
      PROVE  i = j
  <2>1. /\ i \in DOMAIN s => Append(s, e)[i] = s[i]
        /\ j \in DOMAIN s => Append(s, e)[j] = s[j]
        /\ Append(s, e)[Len(s) + 1] = e
        /\ i \in DOMAIN s \/ i = Len(s) + 1
        /\ j \in DOMAIN s \/ j = Len(s) + 1
    BY AppendFacts
  <2>. QED
    BY <1>1, <1>2, <2>1
<1>. QED
  BY <1>2 DEF IsInjective

\* A log has a natural block number from 1 on, and an index.
LEMMA LogType ==
  ASSUME NEW l \in Log
  PROVE  /\ l[1] \in 1..MaxBlocks /\ l[1] \in Nat /\ l[1] >= 1
         /\ l[2] \in Nat
BY FeedAssumption DEF Log

\* A log that is mined stays where it is when a block is mined.
LEMMA MinedStays ==
  ASSUME TypeOK, NEW n \in 0..MaxLogs, chain' = Append(chain, n),
         NEW first \in Int, NEW last \in Int, last <= Len(chain)
  PROVE  Logs(first, last)' = Logs(first, last)
<1>1. \A i \in 1..Len(chain) : chain'[i] = chain[i]
  BY DEF TypeOK
<1>2. \A l \in Log : l[1] \in first..last => l[1] \in 1..Len(chain)
  BY LogType DEF TypeOK
<1>. QED
  BY <1>1, <1>2 DEF Logs

-----------------------------------------------------------------------------
(* Deliveries.                                                             *)

\* The log goes out on the channels `now' at once and on `later' by a timer.
Hands(log, now, later) ==
  /\ now \subseteq Channels /\ later \subseteq Channels /\ now \cap later = {}
  /\ timers' = timers \cup {<<c, log>> : c \in later}
  /\ delivered' = [c \in Channels |-> IF c \in now THEN Append(delivered[c], log)
                                      ELSE delivered[c]]

LEMMA HandsEffect ==
  ASSUME TypeOK, NEW log \in Log, NEW now, NEW later, Hands(log, now, later)
  PROVE  /\ timers' \subseteq Channels \X Log
         /\ delivered' \in [Channels -> Seq(Log)]
         /\ \A c \in Channels :
              /\ Received(c)' = IF c \in now THEN Received(c) \cup {log}
                                             ELSE Received(c)
              /\ UnderWay(c)' = IF c \in later THEN UnderWay(c) \cup {log}
                                               ELSE UnderWay(c)
<1>1. /\ delivered \in [Channels -> Seq(Log)] /\ timers \subseteq Channels \X Log
      /\ now \subseteq Channels /\ later \subseteq Channels
  BY DEF TypeOK, Hands
<1>2. \A c \in Channels : /\ Append(delivered[c], log) \in Seq(Log)
                          /\ ToSet(Append(delivered[c], log))
                               = ToSet(delivered[c]) \cup {log}
  BY <1>1, AppendFacts, AppendSet
<1>3. timers' \subseteq Channels \X Log /\ delivered' \in [Channels -> Seq(Log)]
  BY <1>1, <1>2 DEF Hands
<1>4. ASSUME NEW c \in Channels
      PROVE  /\ Received(c)' = IF c \in now THEN Received(c) \cup {log}
                                            ELSE Received(c)
             /\ UnderWay(c)' = IF c \in later THEN UnderWay(c) \cup {log}
                                              ELSE UnderWay(c)
  <2>1. delivered'[c] = IF c \in now THEN Append(delivered[c], log) ELSE delivered[c]
    BY DEF Hands
  <2>2. Received(c)' = IF c \in now THEN Received(c) \cup {log} ELSE Received(c)
    BY <1>2, <2>1 DEF Received
  <2>3. \A l \in Log :
          <<c, l>> \in timers' <=> <<c, l>> \in timers \/ (c \in later /\ l = log)
    BY DEF Hands
  <2>. QED
    BY <2>2, <2>3 DEF UnderWay
<1>. QED
  BY <1>3, <1>4

\* What HandOut does, in the phases it is called in.
LEMMA HandOutHands ==
  ASSUME TypeOK, NEW log \in Log, HandOut(log), phase \in {"replay", "scan"}
  PROVE  \E now, later :
           /\ Hands(log, now, later)
           /\ phase = "replay" => now = {"indexed"} /\ later = {}
           /\ phase = "scan" /\ ~stopped => now \cup later = Channels
           /\ phase = "scan" /\ stopped => now = {} /\ later = {}
<1>1. delivered \in [Channels -> Seq(Log)] /\ stopped \in BOOLEAN
  BY DEF TypeOK
<1>2. delivered = [c \in Channels |-> delivered[c]]
  BY <1>1
<1>3. CASE phase = "replay"
  <2>1. /\ timers' = timers
        /\ delivered' = [delivered EXCEPT !["indexed"] = Append(@, log)]
    BY <1>3 DEF HandOut
  <2>2. Hands(log, {"indexed"}, {})
    BY <1>1, <1>2, <2>1 DEF Hands, Channels
  <2>. QED
    BY <1>3, <2>2
<1>4. CASE phase = "scan" /\ stopped
  <2>1. timers' = timers /\ delivered' = delivered
    BY <1>4 DEF HandOut
  <2>2. Hands(log, {}, {})
    BY <1>2, <2>1 DEF Hands
  <2>. QED
    BY <1>4, <2>2
<1>5. CASE phase = "scan" /\ ~stopped
  <2>1. PICK slow \in SUBSET Channels :
          /\ timers' = timers \cup {<<c, log>> : c \in slow}
          /\ delivered' = [c \in Channels |-> IF c \in slow THEN delivered[c]
                                              ELSE Append(delivered[c], log)]
    BY <1>5 DEF HandOut, Emit
  <2>2. Hands(log, Channels \ slow, slow)
    BY <2>1 DEF Hands
  <2>3. (Channels \ slow) \cup slow = Channels
    OBVIOUS
  <2>. QED
    BY <1>5, <2>2, <2>3
<1>. QED
  BY <1>1, <1>3, <1>4, <1>5

\* What a delivery of a log that was not under way keeps.
LEMMA OnceAfter ==
  ASSUME TypeOK, DeliveredOnce, NEW log \in Log, NEW now, NEW later,
         Hands(log, now, later),
         \A c \in Channels : log \notin Received(c) \cup UnderWay(c)
  PROVE  DeliveredOnce'
<1>. SUFFICES ASSUME NEW c \in Channels
              PROVE  /\ IsInjective(delivered'[c])
                     /\ Received(c)' \cap UnderWay(c)' = {}
  BY DEF DeliveredOnce
<1>1. /\ delivered[c] \in Seq(Log) /\ IsInjective(delivered[c])
      /\ log \notin ToSet(delivered[c])
      /\ Received(c) \cap UnderWay(c) = {}
  BY DEF TypeOK, DeliveredOnce, Received
<1>2. IsInjective(Append(delivered[c], log))
  BY <1>1, AppendsOnce
<1>3. IsInjective(delivered'[c])
  BY <1>1, <1>2 DEF Hands
<1>4. now \cap later = {}
  BY DEF Hands
<1>5. /\ Received(c)' = IF c \in now THEN Received(c) \cup {log} ELSE Received(c)
      /\ UnderWay(c)' = IF c \in later THEN UnderWay(c) \cup {log} ELSE UnderWay(c)
  BY HandsEffect
<1>6. Received(c)' \cap UnderWay(c)' = {}
  BY <1>1, <1>4, <1>5
<1>. QED
  BY <1>3, <1>6

\* A log after the replay may arrive at any time; one of the past, on the slow
\* channel only, and after its predecessors.
LEMMA OrderAfter ==
  ASSUME TypeOK, ReplayInOrder, NEW log \in Log, replayed' = replayed,
         \/ delivered'["indexed"] = delivered["indexed"]
         \/ delivered'["indexed"] = Append(delivered["indexed"], log),
         \/ Received("flashblock")' = Received("flashblock")
         \/ Received("flashblock")' = Received("flashblock") \cup {log},
         \/ log[1] > replayed
         \/ /\ Received("flashblock")' = Received("flashblock")
            /\ \A i \in DOMAIN delivered["indexed"] :
                 Before(delivered["indexed"][i], log)
  PROVE  ReplayInOrder'
<1>. DEFINE s == delivered["indexed"]
            t == delivered'["indexed"]
<1>1. s \in Seq(Log) /\ Append(s, log) \in Seq(Log) /\ replayed \in Nat
  BY FeedAssumption, AppendFacts DEF TypeOK, Channels
<1>2. \A i, j \in DOMAIN s : i < j /\ s[j][1] <= replayed => Before(s[i], s[j])
  BY DEF ReplayInOrder
<1>3. /\ log[1] \in Nat
      /\ log[1] <= replayed => \A i \in DOMAIN s : Before(s[i], log)
  BY <1>1, LogType
<1>4. \A i, j \in DOMAIN t : i < j /\ t[j][1] <= replayed => Before(t[i], t[j])
  <2>1. CASE t = s
    BY <1>2, <2>1
  <2>2. CASE t = Append(s, log)
    <3>1. /\ DOMAIN t = 1..(Len(s) + 1) /\ DOMAIN s = 1..Len(s)
          /\ \A i \in DOMAIN s : t[i] = s[i]
          /\ t[Len(s) + 1] = log /\ Len(s) \in Nat
      BY <1>1, <2>2, AppendFacts
    <3>. SUFFICES ASSUME NEW i \in DOMAIN t, NEW j \in DOMAIN t,
                         i < j, t[j][1] <= replayed
                  PROVE  Before(t[i], t[j])
      OBVIOUS
    <3>. HIDE DEF s, t
    <3>2. i \in DOMAIN s
      BY <3>1
    <3>3. CASE j \in DOMAIN s
      BY <1>2, <3>1, <3>2, <3>3
    <3>4. CASE j = Len(s) + 1
      BY <1>3, <3>1, <3>2, <3>4
    <3>. QED
      BY <3>1, <3>3, <3>4
  <2>. QED
    BY <2>1, <2>2
<1>5. \A l \in Received("flashblock")' : l[1] > replayed
  BY DEF ReplayInOrder
<1>. QED
  BY <1>4, <1>5 DEF ReplayInOrder

-----------------------------------------------------------------------------
(* What the loops do with the next log.                                    *)

others == <<chain, phase, head, fromBlock, stopped, replayed, unstamped, failures>>

Skips(log) ==
  /\ ~looking /\ log \in seen
  /\ todo' = todo \ {log}
  /\ UNCHANGED <<seen, stamped, looking, timers, delivered>>

Asks(log) ==
  /\ ~looking /\ log \notin seen
  /\ seen' = seen \cup {log} /\ looking' = TRUE
  /\ UNCHANGED <<todo, stamped, timers, delivered>>

\* The log is marked, now or since its timestamp was asked for.
Passes(log) ==
  /\ log \notin seen \/ looking
  /\ seen' = seen \cup {log} /\ looking' = FALSE
  /\ todo' = todo \ {log}
  /\ stamped' \subseteq stamped \cup {log[1]}
  /\ HandOut(log)

LEMMA LoopCases ==
  ASSUME TypeOK, MarkedFirst, NextLog \/ Stamp
  PROVE  \E log \in todo : /\ NextUp(log) /\ UNCHANGED others
                           /\ Skips(log) \/ Asks(log) \/ Passes(log)
<1>1. CASE NextLog
  BY <1>1 DEF NextLog, Skips, Asks, Passes, others, TypeOK
<1>2. CASE Stamp
  <2>1. PICK log \in todo : /\ NextUp(log) /\ HandOut(log)
                            /\ stamped' = stamped \cup {log[1]}
                            /\ todo' = todo \ {log}
    BY <1>2 DEF Stamp
  <2>2. log \in seen
    BY <1>2, <2>1 DEF Stamp, MarkedFirst, Channels
  <2>. QED
    BY <1>2, <2>1, <2>2 DEF Stamp, Passes, others
<1>. QED
  BY <1>1, <1>2

-----------------------------------------------------------------------------
(* The inductive invariant.                                                *)

LEMMA InitInv == Init => IInv
<1>. SUFFICES ASSUME Init PROVE IInv
  OBVIOUS
<1>1. \A c \in Channels : delivered[c] = <<>> /\ Received(c) = {} /\ UnderWay(c) = {}
  BY DEF Init, Received, UnderWay, ToSet
<1>2. TypeOK
  <2>1. <<>> \in Seq(0..MaxLogs) /\ <<>> \in Seq(Log) /\ Len(<<>>) = 0
    OBVIOUS
  <2>2. delivered \in [Channels -> Seq(Log)]
    BY <2>1 DEF Init
  <2>3. /\ chain \in Seq(0..MaxLogs) /\ Len(chain) <= MaxBlocks
        /\ phase \in Phases /\ head \in 0..MaxBlocks
        /\ fromBlock \in 0..MaxBlocks + 1
    BY <2>1, FeedAssumption DEF Init, Phases
  <2>4. /\ todo \subseteq Log /\ looking \in BOOLEAN
        /\ seen \subseteq Log /\ unstamped \subseteq Log
        /\ stamped \subseteq 1..MaxBlocks
        /\ timers \subseteq Channels \X Log
        /\ stopped \in BOOLEAN
    BY DEF Init
  <2>5. replayed \in 0..MaxBlocks /\ failures \in 0..MaxFailures
    BY FeedAssumption DEF Init
  <2>. QED
    BY <2>2, <2>3, <2>4, <2>5 DEF TypeOK
<1>3. PhaseInv
  BY <1>1 DEF Init, PhaseInv
<1>4. Logs(1, fromBlock - 1) = {}
  BY DEF Init, Logs
<1>5. MarkedFirst /\ PassedMarked /\ MarkedHanded
  BY <1>1, <1>4 DEF Init, MarkedFirst, PassedMarked, MarkedHanded
<1>6. DeliveredOnce
  BY <1>1 DEF DeliveredOnce, IsInjective
<1>7. ReplayInOrder
  BY <1>1 DEF ReplayInOrder, Channels
<1>. QED
  BY <1>2, <1>3, <1>5, <1>6, <1>7 DEF IInv

\* What is said about deliveries and marks only, for a step that leaves them
\* alone.
Marks == /\ MarkedFirst /\ MarkedHanded /\ DeliveredOnce
         /\ ReplayInOrder

LEMMA CalmKeeps ==
  ASSUME IInv,
         UNCHANGED <<seen, timers, delivered, stopped, replayed, unstamped>>,
         \/ UNCHANGED <<looking, todo, phase>>
         \/ ~looking /\ ~looking'
  PROVE  Marks'
<1>1. \A c \in Channels : Received(c)' = Received(c) /\ UnderWay(c)' = UnderWay(c)
  BY DEF Received, UnderWay
<1>2. MarkedFirst'
  BY <1>1 DEF IInv, MarkedFirst, NextUp
<1>3. MarkedHanded'
  BY <1>1 DEF IInv, MarkedHanded, Handed, NextUp, Channels
<1>4. DeliveredOnce' /\ ReplayInOrder'
  BY <1>1 DEF IInv, DeliveredOnce, ReplayInOrder, Channels
<1>. QED
  BY <1>2, <1>3, <1>4 DEF Marks

\* The steps between the loops, and new blocks.
LEMMA CalmSteps ==
  ASSUME IInv,
         \/ \E n \in 0..MaxLogs : Mine(n)
         \/ StartHead \/ LoopEnds \/ PollTimer \/ PollHead \/ PollLogs
  PROVE  IInv'
<1>0. /\ TypeOK /\ PhaseInv /\ PassedMarked
      /\ MaxBlocks \in Nat /\ MaxFailures \in Nat /\ failures \in Nat
      /\ Len(chain) \in Nat /\ Len(chain) <= MaxBlocks
      /\ head \in Nat /\ fromBlock \in Nat /\ stopped \in BOOLEAN
  BY FeedAssumption DEF IInv, TypeOK
<1>1. ASSUME NEW n \in 0..MaxLogs, Mine(n) PROVE IInv'
  <2>1. /\ chain' = Append(chain, n) /\ Len(chain') = Len(chain) + 1
        /\ chain' \in Seq(0..MaxLogs) /\ Len(chain') <= MaxBlocks
    BY <1>0, <1>1 DEF Mine, TypeOK
  <2>2. TypeOK'
    BY <1>0, <1>1, <2>1 DEF Mine, TypeOK
  <2>3. /\ Logs(1, fromBlock - 1)' = Logs(1, fromBlock - 1)
        /\ Logs(fromBlock, head)' = Logs(fromBlock, head)
    <3>1. \A first, last \in Int :
            last <= Len(chain) => /\ Logs(first, last)' = Logs(first, last)
      BY <1>0, <2>1, MinedStays
    <3>2. fromBlock - 1 <= Len(chain) /\ head <= Len(chain)
      BY <1>0 DEF PassedMarked
    <3>3. /\ \A l \in Log : l[1] <= Len(chain) /\ l[1] >= 1
                             => chain'[l[1]] = chain[l[1]]
      BY <1>0, <2>1, LogType DEF TypeOK
    <3>. QED
      BY <1>0, <1>1, <3>2, <3>3, LogType DEF Logs, Mine
  <2>4. PassedMarked'
    BY <1>0, <1>1, <2>1, <2>3 DEF Mine, PassedMarked
  <2>5. PhaseInv'
    BY <1>0, <1>1 DEF Mine, PhaseInv, UnderWay
  <2>6. Marks'
    BY <1>1, CalmKeeps DEF Mine
  <2>. QED
    BY <2>2, <2>4, <2>5, <2>6 DEF IInv, Marks
<1>2. ASSUME StartHead PROVE IInv'
  <2>1. TypeOK'
    BY <1>0, <1>2 DEF StartHead, TypeOK, Phases, Fails
  <2>2. PhaseInv'
    BY <1>0, <1>2 DEF StartHead, PhaseInv, UnderWay
  <2>3. PassedMarked'
    <3>1. fromBlock = 0 /\ todo = {}
      BY <1>0, <1>2 DEF StartHead, PhaseInv
    <3>. QED
      BY <1>0, <1>2, <3>1 DEF StartHead, PassedMarked, Logs
  <2>4. Marks'
    <3>1. ~looking /\ ~looking'
      BY <1>0, <1>2 DEF StartHead, PhaseInv
    <3>. QED
      BY <1>2, <3>1, CalmKeeps DEF StartHead
  <2>. QED
    BY <2>1, <2>2, <2>3, <2>4 DEF IInv, Marks
<1>3. ASSUME LoopEnds PROVE IInv'
  <2>1. ~looking /\ ~looking'
    BY <1>0, <1>3 DEF LoopEnds, PhaseInv
  <2>2. TypeOK'
    BY <1>0, <1>3 DEF LoopEnds, TypeOK, Phases, Rest
  <2>3. PhaseInv'
    <3>1. phase = "replay" => replayed = head /\ fromBlock = 0
      BY <1>0 DEF PhaseInv
    <3>2. phase = "scan" => replayed < fromBlock /\ fromBlock <= head
      BY <1>0 DEF PhaseInv
    <3>3. replayed < fromBlock'
      BY <1>0, <1>3, <3>1, <3>2 DEF LoopEnds, TypeOK
    <3>. QED
      BY <1>0, <1>3, <2>1, <3>3 DEF LoopEnds, PhaseInv, UnderWay, Rest
  <2>4. PassedMarked'
    <3>1. /\ Logs(fromBlock, head) \subseteq seen
          /\ Logs(1, fromBlock - 1) \subseteq seen
      BY <1>0, <1>3 DEF LoopEnds, PassedMarked
    <3>2. Logs(1, head + 1 - 1) \subseteq seen
      BY <1>0, <3>1, LogType DEF Logs
    <3>3. chain' = chain /\ fromBlock' = head + 1 /\ todo' = {} /\ head' = head
          /\ seen' = seen
      BY <1>3 DEF LoopEnds
    <3>4. \A l \in Log : l[1] \in 1..(fromBlock' - 1) /\ l[2] <= chain'[l[1]]
                         => l \in seen'
      <4>. DEFINE mined(c, l) == l[2] <= c[l[1]]
      <4>1. \A l \in Log : l[1] \in 1..(head + 1 - 1) /\ mined(chain, l) => l \in seen
        BY <3>2 DEF Logs
      <4>2. fromBlock' - 1 = head + 1 - 1
        BY <1>0, <3>3
      <4>. HIDE DEF mined
      <4>3. \A l \in Log : l[1] \in 1..(fromBlock' - 1) /\ mined(chain', l)
                           => l \in seen'
        BY <3>3, <4>1, <4>2
      <4>. QED
        BY <4>3 DEF mined
    <3>5. Logs(1, fromBlock - 1)' \subseteq seen'
      BY <3>4 DEF Logs
    <3>6. phase' \notin {"replay", "scan"}
      BY <1>3 DEF LoopEnds, Rest
    <3>. QED
      BY <1>0, <3>3, <3>5, <3>6 DEF PassedMarked
  <2>5. Marks'
    BY <1>3, <2>1, CalmKeeps DEF LoopEnds
  <2>. QED
    BY <2>2, <2>3, <2>4, <2>5 DEF IInv, Marks
<1>4. ASSUME PollTimer PROVE IInv'
  <2>1. TypeOK' /\ PhaseInv' /\ PassedMarked'
    BY <1>0, <1>4 DEF PollTimer, TypeOK, Phases, PhaseInv, UnderWay,
                      PassedMarked, Logs
  <2>2. Marks'
    BY <1>0, <1>4, CalmKeeps DEF PollTimer, PhaseInv
  <2>. QED
    BY <2>1, <2>2 DEF IInv, Marks
<1>5. ASSUME PollHead PROVE IInv'
  <2>0. todo = {} /\ ~looking /\ ~looking'
    BY <1>0, <1>5 DEF PollHead, PhaseInv
  <2>1. TypeOK'
    BY <1>0, <1>5 DEF PollHead, TypeOK, Phases, Rest, Fails
  <2>2. PhaseInv'
    BY <1>0, <1>5, <2>0 DEF PollHead, PhaseInv, UnderWay, Rest
  <2>3. PassedMarked'
    BY <1>0, <1>5, <2>0 DEF PollHead, PassedMarked, Rest, Logs
  <2>4. Marks'
    BY <1>5, <2>0, CalmKeeps DEF PollHead
  <2>. QED
    BY <2>1, <2>2, <2>3, <2>4 DEF IInv, Marks
<1>6. ASSUME PollLogs PROVE IInv'
  <2>0. todo = {} /\ ~looking /\ ~looking'
    BY <1>0, <1>6 DEF PollLogs, PhaseInv
  <2>1. TypeOK'
    BY <1>0, <1>6 DEF PollLogs, TypeOK, Phases, Rest, Fails, Logs
  <2>2. PhaseInv'
    BY <1>0, <1>6, <2>0 DEF PollLogs, PhaseInv, UnderWay, Rest
  <2>3. PassedMarked'
    BY <1>0, <1>6, <2>0 DEF PollLogs, PassedMarked, Rest, Logs
  <2>4. Marks'
    BY <1>6, <2>0, CalmKeeps DEF PollLogs
  <2>. QED
    BY <2>1, <2>2, <2>3, <2>4 DEF IInv, Marks
<1>. QED
  BY <1>1, <1>2, <1>3, <1>4, <1>5, <1>6

\* Of the logs to do, one is the next.
LEMMA OneNext ==
  ASSUME TypeOK, NEW l \in todo, NEW k \in todo, NextUp(l), NextUp(k)
  PROVE  l = k
<1>1. l \in Log /\ k \in Log
  BY DEF TypeOK
<1>2. l # k => Before(l, k) /\ Before(k, l)
  BY DEF NextUp
<1>3. /\ l[1] \in Nat /\ l[2] \in Nat /\ k[1] \in Nat /\ k[2] \in Nat
  BY <1>1, LogType
<1>. QED
  BY <1>2, <1>3 DEF Before

\* A marked log is passed over.
LEMMA SkipStep ==
  ASSUME IInv, NEW log \in todo, NextUp(log), UNCHANGED others, Skips(log)
  PROVE  IInv'
<1>1. TypeOK'
  BY DEF IInv, TypeOK, others, Skips
<1>2. PhaseInv'
  <2>1. todo' \subseteq todo /\ phase \in {"replay", "scan"} /\ ~looking'
    BY DEF Skips, NextUp
  <2>2. \A c \in Channels : UnderWay(c)' = UnderWay(c)
    BY DEF Skips, UnderWay
  <2>. QED
    BY <2>1, <2>2 DEF IInv, PhaseInv, others, Skips
<1>3. PassedMarked'
  <2>1. /\ Logs(1, fromBlock - 1)' = Logs(1, fromBlock - 1)
        /\ Logs(fromBlock, head)' = Logs(fromBlock, head)
    BY DEF others, Logs
  <2>. QED
    BY <2>1 DEF IInv, PassedMarked, others, Skips, NextUp
<1>4. Marks'
  BY CalmKeeps DEF others, Skips
<1>. QED
  BY <1>1, <1>2, <1>3, <1>4 DEF IInv, Marks

\* A log is marked, and its timestamp asked for.
LEMMA AskStep ==
  ASSUME IInv, NEW log \in todo, NextUp(log), UNCHANGED others, Asks(log)
  PROVE  IInv'
<1>0. /\ log \in Log /\ looking' = TRUE /\ ~looking /\ seen' = seen \cup {log}
      /\ \A c \in Channels : Received(c)' = Received(c) /\ UnderWay(c)' = UnderWay(c)
      /\ \A l : NextUp(l)' <=> NextUp(l)
      /\ todo' = todo /\ stopped' = stopped /\ unstamped' = unstamped
      /\ replayed' = replayed
  BY DEF IInv, TypeOK, others, Asks, Received, UnderWay, NextUp
<1>1. TypeOK'
  BY <1>0 DEF IInv, TypeOK, others, Asks
<1>2. PhaseInv'
  BY <1>0 DEF IInv, PhaseInv, others, Asks, NextUp
<1>3. PassedMarked'
  <2>1. /\ Logs(1, fromBlock - 1)' = Logs(1, fromBlock - 1)
        /\ Logs(fromBlock, head)' = Logs(fromBlock, head)
    BY DEF others, Logs
  <2>. QED
    BY <2>1 DEF IInv, PassedMarked, others, Asks
<1>4. MarkedFirst'
  <2>1. \A c \in Channels : log \notin Received(c) \cup UnderWay(c)
    BY DEF IInv, MarkedFirst, Asks
  <2>2. \A l \in todo : NextUp(l) => l = log
    BY OneNext DEF IInv
  <2>. QED
    BY <1>0, <2>1, <2>2 DEF IInv, MarkedFirst
<1>5. MarkedHanded'
  <2>1. \A l : Handed(l)' <=> Handed(l)
    BY <1>0 DEF Handed, Channels
  <2>. QED
    BY <1>0, <2>1 DEF IInv, MarkedHanded
<1>6. DeliveredOnce' /\ ReplayInOrder'
  BY <1>0 DEF IInv, DeliveredOnce, ReplayInOrder, Channels, Asks
<1>. QED
  BY <1>1, <1>2, <1>3, <1>4, <1>5, <1>6 DEF IInv

\* A log is marked and handed out.
LEMMA PassStep ==
  ASSUME IInv, NEW log \in todo, NextUp(log), UNCHANGED others, Passes(log)
  PROVE  IInv'
<1>0. /\ log \in Log /\ looking' = FALSE /\ seen' = seen \cup {log}
      /\ todo' = todo \ {log} /\ stopped' = stopped /\ unstamped' = unstamped
      /\ replayed' = replayed /\ phase' = phase /\ fromBlock' = fromBlock
      /\ head' = head /\ chain' = chain /\ failures' = failures
      /\ phase \in {"replay", "scan"} /\ stopped \in BOOLEAN /\ TypeOK
      /\ head \in Nat /\ fromBlock \in Nat /\ replayed \in Nat
  BY FeedAssumption DEF IInv, TypeOK, others, Passes, NextUp
<1>1. PICK now, later :
        /\ Hands(log, now, later)
        /\ phase = "replay" => now = {"indexed"} /\ later = {}
        /\ phase = "scan" /\ ~stopped => now \cup later = Channels
        /\ phase = "scan" /\ stopped => now = {} /\ later = {}
  BY <1>0, HandOutHands DEF Passes
<1>2. /\ timers' \subseteq Channels \X Log
      /\ delivered' \in [Channels -> Seq(Log)]
      /\ \A c \in Channels :
           /\ Received(c)' = IF c \in now THEN Received(c) \cup {log} ELSE Received(c)
           /\ UnderWay(c)' = IF c \in later THEN UnderWay(c) \cup {log} ELSE UnderWay(c)
  BY <1>0, <1>1, HandsEffect
<1>3. \A c \in Channels : log \notin Received(c) \cup UnderWay(c)
  BY DEF IInv, MarkedFirst, Passes
<1>4. /\ log[1] \in Nat /\ fromBlock <= log[1] /\ log[1] <= head
      /\ phase = "replay" => replayed = head /\ timers = {}
      /\ phase = "scan" => log[1] > replayed
  <2>1. log \in Logs(fromBlock, head)
    BY DEF IInv, PassedMarked
  <2>2. log[1] \in Nat /\ log[1] \in fromBlock..head
    BY <2>1, LogType DEF Logs
  <2>3. /\ phase = "replay" => replayed = head /\ timers = {}
        /\ phase = "scan" => fromBlock > replayed
    BY DEF IInv, PhaseInv
  <2>. QED
    BY <1>0, <2>2, <2>3
<1>5. TypeOK'
  <2>1. stamped' \subseteq 1..MaxBlocks
    BY <1>0, LogType DEF TypeOK, Passes
  <2>. QED
    BY <1>0, <1>2, <2>1 DEF TypeOK
<1>6. DeliveredOnce'
  BY <1>0, <1>1, <1>3, OnceAfter DEF IInv
<1>7. PhaseInv'
  <2>1. \A c \in Channels : \A l \in UnderWay(c)' : l[1] > replayed
    BY <1>0, <1>1, <1>2, <1>4 DEF IInv, PhaseInv
  <2>2. ASSUME phase = "replay"
        PROVE  /\ timers' = {}
               /\ \A i \in DOMAIN delivered'["indexed"], k \in todo' :
                    Before(delivered'["indexed"][i], k)
    <3>1. /\ now = {"indexed"} /\ later = {} /\ timers = {}
      BY <1>1, <1>4, <2>2
    <3>2. delivered'["indexed"] = Append(delivered["indexed"], log)
      BY <1>1, <3>1 DEF Hands, Channels
    <3>3. delivered["indexed"] \in Seq(Log)
      BY <1>0 DEF TypeOK, Channels
    <3>4. /\ \A i \in DOMAIN delivered["indexed"], k \in todo :
               Before(delivered["indexed"][i], k)
          /\ \A k \in todo' : k \in todo /\ Before(log, k)
      BY <1>0, <2>2 DEF IInv, PhaseInv, NextUp
    <3>5. \A i \in DOMAIN delivered'["indexed"] :
            \/ i \in DOMAIN delivered["indexed"]
               /\ delivered'["indexed"][i] = delivered["indexed"][i]
            \/ delivered'["indexed"][i] = log
      BY <3>2, <3>3, AppendFacts
    <3>6. timers' = {}
      BY <1>1, <3>1 DEF Hands
    <3>. QED
      BY <3>4, <3>5, <3>6
  <2>. QED
    BY <1>0, <2>1, <2>2 DEF IInv, PhaseInv
<1>8. ReplayInOrder'
  <2>1. /\ delivered'["indexed"] \in {delivered["indexed"],
                                      Append(delivered["indexed"], log)}
        /\ Received("flashblock")' \in {Received("flashblock"),
                                        Received("flashblock") \cup {log}}
    BY <1>1, <1>2 DEF Hands, Channels
  <2>2. CASE phase = "scan"
    BY <1>0, <1>4, <2>1, <2>2, OrderAfter DEF IInv
  <2>3. CASE phase = "replay"
    <3>1. Received("flashblock")' = Received("flashblock")
      BY <1>1, <1>2, <2>3 DEF Channels
    <3>2. \A i \in DOMAIN delivered["indexed"] :
            Before(delivered["indexed"][i], log)
      BY <2>3 DEF IInv, PhaseInv
    <3>. QED
      BY <1>0, <2>1, <3>1, <3>2, OrderAfter DEF IInv
  <2>. QED
    BY <1>0, <2>2, <2>3
<1>9. PassedMarked'
  <2>1. /\ Logs(1, fromBlock - 1)' = Logs(1, fromBlock - 1)
        /\ Logs(fromBlock, head)' = Logs(fromBlock, head)
    BY <1>0 DEF Logs
  <2>. QED
    BY <1>0, <2>1 DEF IInv, PassedMarked
<1>10. MarkedFirst'
  BY <1>0, <1>2 DEF IInv, MarkedFirst
<1>11. MarkedHanded'
  <2>. SUFFICES ASSUME ~stopped, NEW l \in seen', l \notin unstamped
                PROVE  Handed(l)'
    BY <1>0 DEF MarkedHanded
  <2>1. CASE l = log
    <3>1. phase = "replay" => Handed(log)'
      BY <1>0, <1>1, <1>2, <1>4 DEF Handed, Channels
    <3>2. phase = "scan" => Handed(log)'
      <4>1. phase = "scan" => now \cup later = Channels
        BY <1>1
      <4>. QED
        BY <1>0, <1>2, <4>1 DEF Handed, Channels
    <3>. QED
      BY <1>0, <2>1, <3>1, <3>2
  <2>2. CASE l # log
    <3>1. l \in seen /\ (Handed(l) \/ (l \in todo /\ NextUp(l)))
      BY <1>0, <2>2 DEF IInv, MarkedHanded, NextUp
    <3>2. Handed(l)
      BY <1>0, <2>2, <3>1, OneNext
    <3>. QED
      BY <1>0, <1>2, <3>2 DEF Handed, Channels
  <2>. QED
    BY <2>1, <2>2
<1>. QED
  BY <1>5, <1>6, <1>7, <1>8, <1>9, <1>10, <1>11 DEF IInv

\* Replay begins: what is delivered so far is nothing.
LEMMA StartLogsStep ==
  ASSUME IInv, StartLogs
  PROVE  IInv'
<1>0. /\ phase = "startLogs" /\ seen = {} /\ timers = {} /\ ~looking
      /\ \A c \in Channels : delivered[c] = <<>>
      /\ \A c \in Channels : Received(c) = {} /\ UnderWay(c) = {}
      /\ \A c \in Channels : Received(c)' = {} /\ UnderWay(c)' = {}
      /\ fromBlock = 0 /\ todo = {}
      /\ UNCHANGED <<chain, head, fromBlock, looking, seen, stamped, timers,
                     delivered, stopped, unstamped>>
  BY DEF IInv, PhaseInv, StartLogs, Received, UnderWay, ToSet
<1>1. \/ phase' = "replay" /\ todo' = Logs(1, head) /\ replayed' = head
      \/ phase' \in {"ended", "dead"} /\ todo' = {} /\ replayed' = replayed
  BY <1>0 DEF StartLogs
<1>2. TypeOK'
  <2>1. failures' \in 0..MaxFailures
    BY FeedAssumption DEF IInv, TypeOK, StartLogs, Fails
  <2>2. Logs(1, head) \subseteq Log
    BY DEF Logs
  <2>. QED
    BY <1>0, <1>1, <2>1, <2>2 DEF IInv, TypeOK, Phases
<1>3. PhaseInv'
  <2>1. \A c \in Channels : delivered'[c] = <<>>
    BY <1>0
  <2>2. DOMAIN delivered'["indexed"] = {}
    BY <2>1 DEF Channels
  <2>. QED
    BY <1>0, <1>1, <2>2 DEF PhaseInv
<1>4. PassedMarked'
  <2>1. /\ fromBlock' = 0 /\ chain' = chain /\ head' = head /\ seen' = seen
        /\ head \in Nat /\ head <= Len(chain) /\ Len(chain) \in Nat
    BY <1>0 DEF IInv, TypeOK, PassedMarked
  <2>2. \A l \in Log : l[1] >= 1 /\ l[1] \in Nat
    BY LogType
  <2>3. Logs(fromBlock, head)' = Logs(1, head)
    BY <2>1, <2>2 DEF Logs
  <2>4. Logs(1, fromBlock - 1)' = {}
    BY <2>1, <2>2 DEF Logs
  <2>. QED
    BY <1>1, <2>1, <2>3, <2>4 DEF PassedMarked
<1>5. MarkedFirst' /\ MarkedHanded'
  BY <1>0 DEF MarkedFirst, MarkedHanded
<1>6. DeliveredOnce'
  BY <1>0 DEF IInv, DeliveredOnce
<1>7. ReplayInOrder'
  BY <1>0 DEF ReplayInOrder, Channels
<1>. QED
  BY <1>2, <1>3, <1>4, <1>5, <1>6, <1>7 DEF IInv

\* A timestamp call fails: the log being asked for is marked and never handed out.
LEMMA StampFailsStep ==
  ASSUME IInv, StampFails
  PROVE  IInv'
<1>1. PICK log \in todo : NextUp(log) /\ unstamped' = unstamped \cup {log}
  BY DEF StampFails
<1>2. /\ log \in Log /\ looking' = FALSE /\ todo' = {}
      /\ phase \in {"replay", "scan"}
      /\ phase' \in {"dead", "ended", "idle"}
      /\ phase' = "idle" => phase = "scan"
      /\ UNCHANGED <<chain, head, fromBlock, seen, stamped, timers, delivered,
                     stopped, replayed>>
      /\ \A c \in Channels : Received(c)' = Received(c) /\ UnderWay(c)' = UnderWay(c)
  BY <1>1 DEF IInv, TypeOK, StampFails, Rest, NextUp, Received, UnderWay
<1>3. TypeOK'
  <2>1. failures' \in 0..MaxFailures
    BY FeedAssumption DEF IInv, TypeOK, StampFails, Fails
  <2>. QED
    BY <1>1, <1>2, <2>1 DEF IInv, TypeOK, Phases
<1>4. PhaseInv'
  BY <1>2 DEF IInv, PhaseInv
<1>5. PassedMarked'
  <2>1. Logs(1, fromBlock - 1)' = Logs(1, fromBlock - 1)
    BY <1>2 DEF Logs
  <2>. QED
    BY <1>2, <2>1 DEF IInv, PassedMarked
<1>6. MarkedFirst'
  BY <1>2 DEF IInv, MarkedFirst
<1>7. MarkedHanded'
  <2>. SUFFICES ASSUME ~stopped, NEW l \in seen, l \notin unstamped, l # log
                PROVE  Handed(l)'
    BY <1>1, <1>2 DEF MarkedHanded
  <2>1. Handed(l) \/ (l \in todo /\ NextUp(l))
    BY DEF IInv, MarkedHanded, NextUp
  <2>2. Handed(l)
    BY <1>1, <2>1, OneNext DEF IInv
  <2>. QED
    BY <1>2, <2>2 DEF Handed, Channels
<1>8. DeliveredOnce' /\ ReplayInOrder'
  BY <1>2 DEF IInv, DeliveredOnce, ReplayInOrder, Channels
<1>. QED
  BY <1>3, <1>4, <1>5, <1>6, <1>7, <1>8 DEF IInv

\* A timer fires; its log came after the replay.
LEMMA FireStep ==
  ASSUME IInv, NEW c \in Channels, NEW log \in Log, Fire(c, log)
  PROVE  IInv'
<1>0. /\ UNCHANGED <<chain, phase, head, fromBlock, todo, looking, seen, stamped,
                     stopped, replayed, unstamped, failures>>
      /\ <<c, log>> \in timers /\ timers' = timers \ {<<c, log>>}
      /\ log \in UnderWay(c) /\ log \notin Received(c) /\ log \in seen
      /\ log[1] > replayed /\ delivered \in [Channels -> Seq(Log)]
      /\ phase \notin {"start", "startLogs", "replay"}
      /\ stopped \in BOOLEAN
  BY DEF IInv, TypeOK, Fire, UnderWay, DeliveredOnce, MarkedFirst, PhaseInv
<1>1. \A d \in Channels :
        UnderWay(d)' = IF d = c THEN UnderWay(c) \ {log} ELSE UnderWay(d)
  BY <1>0 DEF UnderWay
<1>2. /\ Append(delivered[c], log) \in Seq(Log)
      /\ ToSet(Append(delivered[c], log)) = Received(c) \cup {log}
      /\ IsInjective(Append(delivered[c], log))
  <2>1. delivered[c] \in Seq(Log) /\ log \notin ToSet(delivered[c])
    BY <1>0 DEF Received
  <2>2. IsInjective(delivered[c])
    BY DEF IInv, DeliveredOnce
  <2>. QED
    BY <2>1, <2>2, AppendFacts, AppendSet, AppendsOnce DEF Received
<1>3. /\ delivered' \in [Channels -> Seq(Log)]
      /\ \A d \in Channels :
           delivered'[d] = IF d = c /\ ~stopped THEN Append(delivered[d], log)
                                                ELSE delivered[d]
  BY <1>0, <1>2 DEF Fire
<1>4. \A d \in Channels :
        Received(d)' = IF d = c /\ ~stopped THEN Received(d) \cup {log}
                                            ELSE Received(d)
  BY <1>2, <1>3 DEF Received
<1>5. TypeOK'
  BY <1>0, <1>3 DEF IInv, TypeOK
<1>6. PhaseInv'
  BY <1>0, <1>1 DEF IInv, PhaseInv
<1>7. PassedMarked'
  <2>1. /\ Logs(1, fromBlock - 1)' = Logs(1, fromBlock - 1)
        /\ Logs(fromBlock, head)' = Logs(fromBlock, head)
    BY <1>0 DEF Logs
  <2>. QED
    BY <1>0, <2>1 DEF IInv, PassedMarked
<1>8. MarkedFirst'
  <2>1. \A l : NextUp(l)' <=> NextUp(l)
    BY <1>0 DEF NextUp
  <2>2. \A d \in Channels :
          Received(d)' \cup UnderWay(d)' \subseteq Received(d) \cup UnderWay(d)
    BY <1>0, <1>1, <1>4
  <2>. QED
    BY <1>0, <2>1, <2>2 DEF IInv, MarkedFirst
<1>9. MarkedHanded'
  <2>. SUFFICES ASSUME ~stopped
                PROVE  \A l : /\ NextUp(l)' <=> NextUp(l)
                              /\ Handed(l)' <=> Handed(l)
    BY <1>0 DEF IInv, MarkedHanded
  <2>1. \A d \in Channels :
          Received(d)' \cup UnderWay(d)' = Received(d) \cup UnderWay(d)
    BY <1>0, <1>1, <1>4
  <2>. QED
    BY <1>0, <2>1 DEF Handed, NextUp, Channels
<1>10. DeliveredOnce'
  <2>1. \A d \in Channels : IsInjective(delivered'[d])
    BY <1>2, <1>3 DEF IInv, DeliveredOnce
  <2>2. \A d \in Channels : Received(d)' \cap UnderWay(d)' = {}
    BY <1>1, <1>4 DEF IInv, DeliveredOnce
  <2>. QED
    BY <2>1, <2>2 DEF DeliveredOnce
<1>11. ReplayInOrder'
  <2>1. /\ delivered'["indexed"] \in {delivered["indexed"],
                                      Append(delivered["indexed"], log)}
        /\ Received("flashblock")' \in {Received("flashblock"),
                                        Received("flashblock") \cup {log}}
    BY <1>3, <1>4 DEF Channels
  <2>. QED
    BY <1>0, <2>1, OrderAfter DEF IInv
<1>. QED
  BY <1>5, <1>6, <1>7, <1>8, <1>9, <1>10, <1>11 DEF IInv

\* The feed is stopped.
LEMMA StopStep ==
  ASSUME IInv, Stop
  PROVE  IInv'
<1>0. /\ UNCHANGED <<chain, head, fromBlock, todo, looking, seen, stamped,
                     delivered, replayed, unstamped, failures>>
      /\ stopped' = TRUE /\ timers' = {}
      /\ phase' = IF phase = "idle" THEN "ended" ELSE phase
      /\ \A c \in Channels : Received(c)' = Received(c) /\ UnderWay(c)' = {}
  BY DEF Stop, Received, UnderWay
<1>1. TypeOK'
  BY <1>0 DEF IInv, TypeOK, Phases
<1>2. PhaseInv'
  BY <1>0 DEF IInv, PhaseInv
<1>3. PassedMarked'
  <2>1. /\ Logs(1, fromBlock - 1)' = Logs(1, fromBlock - 1)
        /\ Logs(fromBlock, head)' = Logs(fromBlock, head)
    BY <1>0 DEF Logs
  <2>. QED
    BY <1>0, <2>1 DEF IInv, PassedMarked
<1>4. MarkedFirst'
  <2>1. \A l : NextUp(l)' => NextUp(l)
    BY <1>0 DEF NextUp
  <2>. QED
    BY <1>0, <2>1 DEF IInv, MarkedFirst
<1>5. MarkedHanded' /\ DeliveredOnce' /\ ReplayInOrder'
  BY <1>0 DEF IInv, MarkedHanded, DeliveredOnce, ReplayInOrder, Channels
<1>. QED
  BY <1>1, <1>2, <1>3, <1>4, <1>5 DEF IInv

LEMMA StepInv == IInv /\ [Next]_vars => IInv'
<1>. SUFFICES ASSUME IInv, [Next]_vars PROVE IInv'
  OBVIOUS
<1>1. CASE \/ \E n \in 0..MaxLogs : Mine(n)
           \/ StartHead \/ LoopEnds \/ PollTimer \/ PollHead \/ PollLogs
  BY <1>1, CalmSteps
<1>2. CASE StartLogs
  BY <1>2, StartLogsStep
<1>3. CASE NextLog \/ Stamp
  BY <1>3, LoopCases, SkipStep, AskStep, PassStep DEF IInv
<1>4. CASE StampFails
  BY <1>4, StampFailsStep
<1>5. CASE \E c \in Channels, l \in Log : Fire(c, l)
  BY <1>5, FireStep
<1>6. CASE Stop
  BY <1>6, StopStep
<1>7. CASE UNCHANGED vars
  <2>1. /\ Logs(1, fromBlock - 1)' = Logs(1, fromBlock - 1)
        /\ Logs(fromBlock, head)' = Logs(fromBlock, head)
        /\ \A c \in Channels : Received(c)' = Received(c) /\ UnderWay(c)' = UnderWay(c)
        /\ \A l : NextUp(l)' <=> NextUp(l)
    BY <1>7 DEF vars, Logs, Received, UnderWay, NextUp
  <2>2. TypeOK' /\ PhaseInv'
    BY <1>7, <2>1 DEF IInv, TypeOK, PhaseInv, vars
  <2>3. PassedMarked'
    BY <1>7, <2>1 DEF IInv, PassedMarked, vars
  <2>4. Marks'
    BY <1>7, CalmKeeps DEF vars
  <2>. QED
    BY <2>2, <2>3, <2>4 DEF IInv, Marks
<1>. QED
  BY <1>1, <1>2, <1>3, <1>4, <1>5, <1>6, <1>7 DEF Next, Run

THEOREM FeedInvariant == Spec => []IInv
BY InitInv, StepInv, PTL DEF Spec

-----------------------------------------------------------------------------
\* Every variable keeps its type.
THEOREM FeedTypeCorrect == Spec => []TypeOK
<1>1. IInv => TypeOK
  BY DEF IInv
<1>. QED
  BY <1>1, FeedInvariant, PTL

\* No channel hears a log twice, however often ranges are retried.
THEOREM FeedDeliveredOnce == Spec => []DeliveredOnce
<1>1. IInv => DeliveredOnce
  BY DEF IInv
<1>. QED
  BY <1>1, FeedInvariant, PTL

\* While the feed runs, a log of a range it has moved past was handed out on
\* every channel it is for, unless its own timestamp call failed.
THEOREM FeedLostOnlyUnstamped == Spec => []LostOnlyUnstamped
<1>1. IInv => LostOnlyUnstamped
  <2>. SUFFICES ASSUME IInv, ~stopped,
                       NEW l \in Logs(1, fromBlock - 1), l \notin unstamped
                PROVE  Handed(l)
    BY DEF LostOnlyUnstamped
  <2>1. l \in seen
    BY DEF IInv, PassedMarked
  <2>2. l \notin todo
    <3>1. l[1] \in Nat /\ fromBlock \in Nat /\ l[1] <= fromBlock - 1
      BY FeedAssumption, LogType DEF Logs, IInv, TypeOK
    <3>2. \A k \in todo : k[1] >= fromBlock
      BY LogType, FeedAssumption DEF Logs, IInv, TypeOK, PassedMarked
    <3>. QED
      BY <3>1, <3>2
  <2>. QED
    BY <2>1, <2>2 DEF IInv, MarkedHanded, NextUp
<1>. QED
  BY <1>1, FeedInvariant, PTL

\* The slow channel hears the past in chain order and before anything live, and
\* the fast channel hears nothing of the past.
THEOREM FeedReplaysInOrder == Spec => []ReplayInOrder
<1>1. IInv => ReplayInOrder
  BY DEF IInv
<1>. QED
  BY <1>1, FeedInvariant, PTL
=============================================================================

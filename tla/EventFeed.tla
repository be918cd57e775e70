------------------------------ MODULE EventFeed ------------------------------
(***************************************************************************)
(* The simulator's event feed (session-events.ts): it polls the local      *)
(* chain for the host contract's logs and fans each one out to two         *)
(* channels, a fast one (`flashblock') and a slow one (`indexed').  Every  *)
(* `await' of a chain call is a point where the feed may be stopped, blocks*)
(* be mined and timers fire, and every such call may fail.                 *)
(*                                                                         *)
(* Each lag is read from a slider when a log is handed out, so a later log *)
(* may have the shorter lag: timers fire in any order.                     *)
(***************************************************************************)
EXTENDS Integers, SequencesExt

CONSTANTS
  MaxBlocks,       \* bound: blocks mined
  MaxLogs,         \* bound: logs of the host in one block
  MaxFailures      \* bound: chain calls that fail

ASSUME FeedAssumption ==
  MaxBlocks \in Nat /\ MaxLogs \in Nat /\ MaxFailures \in Nat

VARIABLES
  chain,       \* how many logs each mined block has
  phase,       \* where the feed's one asynchronous thread is
  head,        \* the block number it read last
  fromBlock,   \* the next block it has not processed
  todo,        \* the logs of the range it reads that it has not gone through
  looking,     \* whether it awaits the timestamp of the next of them
  seen,        \* logs marked as processed
  stamped,     \* blocks with a cached timestamp
  timers,      \* delayed deliveries: <<channel, log>>
  delivered,   \* what each channel's listeners received, in order
  stopped,
  replayed,    \* history: the block number replay ended at
  unstamped,   \* history: logs whose timestamp call failed
  failures     \* history: failed calls

vars == <<chain, phase, head, fromBlock, todo, looking, seen, stamped, timers,
          delivered, stopped, replayed, unstamped, failures>>

Channels == {"flashblock", "indexed"}
\* Blocks number from 1; a log is identified by its block and its index.
Log == (1..MaxBlocks) \X (1..MaxLogs)
Logs(first, last) == {l \in Log : l[1] \in first..last /\ l[2] <= chain[l[1]]}
Before(l, k) == l[1] < k[1] \/ (l[1] = k[1] /\ l[2] < k[2])

Phases == {"start", "startLogs", "replay", "idle", "head", "logs", "scan",
           "dead", "ended"}

Init ==
  /\ chain = <<>> /\ phase = "start" /\ head = 0 /\ fromBlock = 0
  /\ todo = {} /\ looking = FALSE /\ seen = {} /\ stamped = {}
  /\ timers = {} /\ delivered = [c \in Channels |-> <<>>] /\ stopped = FALSE
  /\ replayed = 0 /\ unstamped = {} /\ failures = 0

-----------------------------------------------------------------------------
Mine(n) ==
  /\ Len(chain) < MaxBlocks
  /\ chain' = Append(chain, n)
  /\ UNCHANGED <<phase, head, fromBlock, todo, looking, seen, stamped, timers,
                 delivered, stopped, replayed, unstamped, failures>>

\* The end of a poll, successful or not: the next one is scheduled.
Rest == phase' = IF stopped THEN "ended" ELSE "idle"

Fails == failures < MaxFailures /\ failures' = failures + 1

\* start() before its first log: an error rejects it, and nothing restarts it.
StartHead ==
  /\ phase = "start"
  /\ \/ phase' = "startLogs" /\ head' = Len(chain) /\ UNCHANGED failures
     \/ phase' = "dead" /\ Fails /\ UNCHANGED head
  /\ UNCHANGED <<chain, fromBlock, todo, looking, seen, stamped, timers,
                 delivered, stopped, replayed, unstamped>>

StartLogs ==
  /\ phase = "startLogs"
  /\ \/ /\ ~stopped
        /\ phase' = "replay" /\ todo' = Logs(1, head) /\ replayed' = head
        /\ UNCHANGED failures
     \/ stopped /\ phase' = "ended" /\ UNCHANGED <<todo, replayed, failures>>
     \/ phase' = "dead" /\ Fails /\ UNCHANGED <<todo, replayed>>
  /\ UNCHANGED <<chain, head, fromBlock, looking, seen, stamped, timers,
                 delivered, stopped, unstamped>>

\* A channel either has no lag, so its listeners run at once, or a timer.
Emit(log) ==
  \E slow \in SUBSET Channels :
    /\ timers' = timers \cup {<<c, log>> : c \in slow}
    /\ delivered' = [c \in Channels |-> IF c \in slow THEN delivered[c]
                                        ELSE Append(delivered[c], log)]

\* Mutant: replayed logs go through the delays of live ones.
HandOutAlike(log) ==
  IF stopped THEN UNCHANGED <<timers, delivered>> ELSE Emit(log)

\* What the loops do with a log that has its timestamp: replay hands it to the
\* slow channel without delay, a poll to both, unless it was stopped.
HandOut(log) ==
  CASE phase = "replay" ->
         /\ delivered' = [delivered EXCEPT !["indexed"] = Append(@, log)]
         /\ UNCHANGED timers
    [] phase = "scan" /\ stopped -> UNCHANGED <<timers, delivered>>
    [] phase = "scan" /\ ~stopped -> Emit(log)

\* The loops go through the logs of their range in chain order.
NextUp(log) ==
  /\ phase \in {"replay", "scan"}
  /\ log \in todo
  /\ \A k \in todo \ {log} : Before(log, k)

\* Mutant: nothing is marked as seen.
NextLogUnmarked ==
  \E log \in todo :
     /\ NextUp(log) /\ ~looking
     /\ \/ /\ log[1] \in stamped
           /\ HandOut(log)
           /\ todo' = todo \ {log}
           /\ UNCHANGED looking
        \/ /\ log[1] \notin stamped
           /\ looking' = TRUE
           /\ UNCHANGED <<todo, timers, delivered>>
     /\ UNCHANGED <<chain, phase, head, fromBlock, seen, stamped, stopped,
                    replayed, unstamped, failures>>
\* normalize() up to its await: a log is marked as seen before its timestamp
\* is asked for.  The timestamp of a cached block needs no call.
NextLog ==
  \E log \in todo :
     /\ NextUp(log) /\ ~looking
     /\ seen' = seen \cup {log}
     /\ \/ /\ log \in seen
           /\ todo' = todo \ {log}
           /\ UNCHANGED <<looking, timers, delivered>>
        \/ /\ log \notin seen /\ log[1] \in stamped
           /\ HandOut(log)
           /\ todo' = todo \ {log}
           /\ UNCHANGED looking
        \/ /\ log \notin seen /\ log[1] \notin stamped
           /\ looking' = TRUE
           /\ UNCHANGED <<todo, timers, delivered>>
     /\ UNCHANGED <<chain, phase, head, fromBlock, stamped, stopped, replayed,
                    unstamped, failures>>

Stamp ==
  /\ looking
  /\ \E log \in todo :
       /\ NextUp(log)
       /\ stamped' = stamped \cup {log[1]}
       /\ HandOut(log)
       /\ todo' = todo \ {log}
  /\ looking' = FALSE
  /\ UNCHANGED <<chain, phase, head, fromBlock, seen, stopped, replayed,
                 unstamped, failures>>

\* The timestamp call throws: out of the poll's loop, to be retried, or out of
\* start(), for good.
StampFails ==
  /\ looking
  /\ Fails
  /\ \E log \in todo : NextUp(log) /\ unstamped' = unstamped \cup {log}
  /\ todo' = {}
  /\ looking' = FALSE
  /\ IF phase = "replay" THEN phase' = "dead" ELSE Rest
  /\ UNCHANGED <<chain, head, fromBlock, seen, stamped, timers, delivered,
                 stopped, replayed>>

\* The loop is done: the range up to `head' has been processed.
LoopEnds ==
  /\ phase \in {"replay", "scan"} /\ todo = {}
  /\ fromBlock' = head + 1
  /\ IF phase = "replay" THEN phase' = "head" ELSE Rest
  /\ UNCHANGED <<chain, head, todo, looking, seen, stamped, timers, delivered,
                 stopped, replayed, unstamped, failures>>

PollTimer ==
  /\ phase = "idle"
  /\ phase' = "head"
  /\ UNCHANGED <<chain, head, fromBlock, todo, looking, seen, stamped, timers,
                 delivered, stopped, replayed, unstamped, failures>>

\* Mutant: the newest block waits for the next one.
PollHeadLate ==
  /\ phase = "head"
  /\ \/ /\ head' = Len(chain)
        /\ IF head' > fromBlock THEN phase' = "logs" ELSE Rest
        /\ UNCHANGED failures
     \/ Fails /\ Rest /\ UNCHANGED head
  /\ UNCHANGED <<chain, fromBlock, todo, looking, seen, stamped, timers,
                 delivered, stopped, replayed, unstamped>>
PollHead ==
  /\ phase = "head"
  /\ \/ /\ head' = Len(chain)
        /\ IF head' >= fromBlock THEN phase' = "logs" ELSE Rest
        /\ UNCHANGED failures
     \/ Fails /\ Rest /\ UNCHANGED head
  /\ UNCHANGED <<chain, fromBlock, todo, looking, seen, stamped, timers,
                 delivered, stopped, replayed, unstamped>>

\* Mutant: a failed request moves on to the next range.
PollLogsSkips ==
  /\ phase = "logs"
  /\ \/ /\ phase' = "scan" /\ todo' = Logs(fromBlock, head)
        /\ UNCHANGED <<failures, fromBlock>>
     \/ Fails /\ Rest /\ fromBlock' = head + 1 /\ UNCHANGED todo
  /\ UNCHANGED <<chain, head, looking, seen, stamped, timers,
                 delivered, stopped, replayed, unstamped>>
PollLogs ==
  /\ phase = "logs"
  /\ \/ phase' = "scan" /\ todo' = Logs(fromBlock, head) /\ UNCHANGED failures
     \/ Fails /\ Rest /\ UNCHANGED todo
  /\ UNCHANGED <<chain, head, fromBlock, looking, seen, stamped, timers,
                 delivered, stopped, replayed, unstamped>>

\* A delayed delivery.
Fire(c, log) ==
  /\ <<c, log>> \in timers
  /\ timers' = timers \ {<<c, log>>}
  /\ delivered' = IF stopped THEN delivered
                  ELSE [delivered EXCEPT ![c] = Append(@, log)]
  /\ UNCHANGED <<chain, phase, head, fromBlock, todo, looking, seen, stamped,
                 stopped, replayed, unstamped, failures>>

\* stop(): both kinds of timer are cleared, a call in flight is not.
Stop ==
  /\ ~stopped
  /\ stopped' = TRUE
  /\ timers' = {}
  /\ phase' = IF phase = "idle" THEN "ended" ELSE phase
  /\ UNCHANGED <<chain, head, fromBlock, todo, looking, seen, stamped,
                 delivered, replayed, unstamped, failures>>

Run == StartHead \/ StartLogs \/ NextLog \/ Stamp \/ StampFails \/ LoopEnds
       \/ PollTimer \/ PollHead \/ PollLogs

Next ==
  \/ \E n \in 0..MaxLogs : Mine(n)
  \/ Run
  \/ \E c \in Channels, l \in Log : Fire(c, l)
  \/ Stop

Spec == Init /\ [][Next]_vars

\* Chain calls answer and timers fire; nothing makes blocks or a stop happen.
FairSpec ==
  /\ Spec
  /\ WF_vars(Run)
  /\ \A c \in Channels, l \in Log : WF_vars(Fire(c, l))

-----------------------------------------------------------------------------
TypeOK ==
  /\ chain \in Seq(0..MaxLogs) /\ Len(chain) <= MaxBlocks
  /\ phase \in Phases
  /\ head \in 0..MaxBlocks /\ fromBlock \in 0..MaxBlocks + 1
  /\ todo \subseteq Log /\ looking \in BOOLEAN
  /\ seen \subseteq Log /\ unstamped \subseteq Log
  /\ stamped \subseteq 1..MaxBlocks
  /\ timers \subseteq Channels \X Log
  /\ delivered \in [Channels -> Seq(Log)]
  /\ stopped \in BOOLEAN
  /\ replayed \in 0..MaxBlocks /\ failures \in 0..MaxFailures

Received(c) == ToSet(delivered[c])
UnderWay(c) == {l \in Log : <<c, l>> \in timers}

\* Retried ranges and replays never deliver a log twice on a channel: what the
\* reducers behind the channels count is each event of the chain once.
\* (`seen' against the ranges of start and poll.)
DeliveredOnce ==
  \A c \in Channels :
    /\ IsInjective(delivered[c])
    /\ Received(c) \cap UnderWay(c) = {}

Handed(l) ==
  /\ l \in Received("indexed") \cup UnderWay("indexed")
  /\ l[1] > replayed => l \in Received("flashblock") \cup UnderWay("flashblock")

\* While the feed is not stopped, every log of a range it has moved past
\* reached the slow channel or is on its way, unless the timestamp call of
\* that very log failed; and so for the fast channel, except for replayed logs.
\* (fromBlock advances only after the loop.)
LostOnlyUnstamped ==
  ~stopped => \A l \in Logs(1, fromBlock - 1) \ unstamped : Handed(l)

\* The comment on the poll's catch: a failed poll is retried and nothing is
\* lost.  It is: a retried range skips a log already marked as seen.
NothingLost ==
  ~stopped =>
    \A l \in Logs(1, fromBlock - 1) :
      l \in Received("indexed") \cup UnderWay("indexed")

\* Replay comes first: the slow channel hears the logs of the past in chain
\* order before any live one, so rows are rebuilt before they are evolved, and
\* the fast channel never hears them, so no old round is announced as new.
\* (historical logs go to indexedListeners only, without lag.)
ReplayInOrder ==
  /\ \A i, j \in DOMAIN delivered["indexed"] :
       i < j /\ delivered["indexed"][j][1] <= replayed
         => Before(delivered["indexed"][i], delivered["indexed"][j])
  /\ \A l \in Received("flashblock") : l[1] > replayed

\* Every log of a mined block reaches the slow channel in the end, however
\* often the chain calls of the poll fail, as long as nobody stops the feed,
\* start() itself did not fail, and the log's timestamp call did not.
\* (The poll reschedules itself in every outcome.)
LogsArrive ==
  \A l \in Log :
    (l \in Logs(1, Len(chain)))
      ~> (\/ l \in Received("indexed") \cup unstamped
          \/ stopped \/ phase = "dead")

\* What the proofs add.  A log is marked before it is handed out, and not yet
\* handed out while its timestamp is asked for ...
MarkedFirst ==
  \A c \in Channels :
    /\ Received(c) \cup UnderWay(c) \subseteq seen
    /\ looking => \A l \in todo :
                    NextUp(l) => l \in seen /\ l \notin Received(c) \cup UnderWay(c)

\* ... the logs of all ranges up to fromBlock, and of the current range up to
\* the next log, are marked ...
PassedMarked ==
  /\ fromBlock <= Len(chain) + 1 /\ head <= Len(chain)
  /\ Logs(1, fromBlock - 1) \subseteq seen
  /\ todo \subseteq Logs(fromBlock, head)
  /\ phase \in {"replay", "scan"} => Logs(fromBlock, head) \subseteq todo \cup seen

\* ... and, unless the feed was stopped, every marked log was handed out, but
\* those whose timestamp failed or is being asked for.
MarkedHanded ==
  ~stopped => \A l \in seen \ unstamped : Handed(l) \/ (looking /\ NextUp(l))

\* Nothing is handed out before the replay, the replay has no timers and hands
\* the past out in order, and later ranges lie after it.
PhaseInv ==
  /\ looking => todo # {}
  /\ todo # {} => phase \in {"replay", "scan"}
  /\ phase \in {"start", "startLogs", "replay"} => fromBlock = 0
  /\ phase \in {"start", "startLogs"} =>
       /\ seen = {} /\ timers = {} /\ replayed = 0
       /\ \A c \in Channels : delivered[c] = <<>>
  /\ phase = "replay" =>
       /\ replayed = head /\ timers = {}
       /\ \A i \in DOMAIN delivered["indexed"], k \in todo :
            Before(delivered["indexed"][i], k)
  /\ phase \in {"idle", "head", "logs", "scan"} => fromBlock > replayed
  /\ phase \in {"logs", "scan"} => head >= fromBlock
  /\ \A c \in Channels : \A l \in UnderWay(c) : l[1] > replayed

IInv ==
  /\ TypeOK
  /\ PhaseInv
  /\ MarkedFirst
  /\ PassedMarked
  /\ MarkedHanded
  /\ DeliveredOnce
  /\ ReplayInOrder
=============================================================================

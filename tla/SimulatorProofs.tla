-------------------------- MODULE SimulatorProofs --------------------------
(***************************************************************************)
(* Theorems about the two parts that MCSimulator runs.                     *)
(*                                                                         *)
(* The local node and the page that follows it, for any contracts folder   *)
(* and any number of boots, starts and failures: there is one runtime at a *)
(* time, and deployed.json lists the games of each file whole.  The page's *)
(* steps leave what the second is about alone, and the watcher's what the  *)
(* first is about.                                                         *)
(*                                                                         *)
(* The coinflip game in its frame: the round on the stage is that of its   *)
(* own session.  The answer to openSession, the snapshots on their way and *)
(* the toss come in any order, and the page may be mounted anew between    *)
(* any two.                                                                *)
(***************************************************************************)
EXTENDS LocalStack, CoinflipGuest, SequenceTheorems, FiniteSetTheorems, TLAPS

-----------------------------------------------------------------------------
(* One runtime                                                             *)

LEMMA RuntimeInitial == StackInit => RuntimeInv
<1> SUFFICES ASSUME StackInit PROVE RuntimeInv
  OBVIOUS
<1>1. CallsOfEffects
  BY DEF StackInit, CallsOfEffects, None
<1>2. OneRuntime
  BY DEF StackInit, OneRuntime, None
<1> QED BY <1>1, <1>2 DEF RuntimeInv

\* The effect runs for a new configuration: the only call that is current is
\* its own, and the runtime of the one before is stopped.
LEMMA EffectKeeps ==
  ASSUME RuntimeInv, NEW configuration, RunEffect(configuration)
  PROVE  RuntimeInv'
<1> USE DEF RuntimeInv
<1> DEFINE new == [effect |-> effects + 1, of |-> configuration]
<1>1. /\ effects' = effects + 1 /\ applied' = configuration /\ pending' = pending \cup {new}
      /\ live' = live \ {runtime} /\ runtime' = None /\ starting' /\ error' = NoError
  BY DEF RunEffect
<1>2. effects \in Nat /\ \A call \in pending : call.effect \in 1..effects
  BY DEF CallsOfEffects
<1>3. CallsOfEffects'
  <2>1. \A call \in pending : call.effect \in 1..effects' /\ call.effect # effects'
    BY <1>1, <1>2
  <2>2. new.effect = effects' /\ new.of = applied' /\ effects' \in 1..effects'
    BY <1>1, <1>2
  <2> HIDE DEF new
  <2>3. new = [effect |-> new.effect, of |-> new.of]
    BY DEF new
  <2> QED BY <1>1, <1>2, <2>1, <2>2, <2>3 DEF CallsOfEffects, Current
<1>4. OneRuntime'
  <2>1. live' = {runtime'} \ {None}
    BY <1>1 DEF OneRuntime
  <2>2. \E call \in pending' : Current(call)'
    <3>1. new \in pending' /\ new.effect = effects'
      BY <1>1
    <3> QED BY <3>1 DEF Current
  <2> QED BY <1>1, <2>1, <2>2 DEF OneRuntime
<1> QED BY <1>3, <1>4

\* A step that no effect of the page sees.
LEMMA RuntimeUntouched ==
  ASSUME RuntimeInv,
         UNCHANGED <<applied, effects, pending, live, runtime, starting, error>>
  PROVE  RuntimeInv'
BY DEF RuntimeInv, CallsOfEffects, Current, OneRuntime

LEMMA RuntimeKeeps == RuntimeInv /\ [StackNext]_stackVars => RuntimeInv'
<1> SUFFICES ASSUME RuntimeInv, [StackNext]_stackVars PROVE RuntimeInv'
  OBVIOUS
<1>1. CASE Boot \/ Exit \/ DeployInfrastructure \/ WriteDeployed
  BY <1>1, RuntimeUntouched
     DEF Boot, Exit, DeployInfrastructure, WriteDeployed, pageVars, runtimeVars
<1>2. CASE Watch \/ SyncFails \/ Develop
  BY <1>2, RuntimeUntouched DEF Watch, SyncFails, Develop, pageVars, runtimeVars
<1>3. CASE Poll
  BY <1>3, RuntimeUntouched DEF Poll, runtimeVars
<1>4. ASSUME NEW answer \in fetches, Answered(answer) PROVE RuntimeInv'
  <2>1. CASE autoFilled \/ applied # NotApplied
    BY <1>4, <2>1, RuntimeUntouched DEF Answered, runtimeVars
  <2>2. CASE ~autoFilled /\ applied = NotApplied
    BY <1>4, <2>2, EffectKeeps DEF Answered
  <2> QED BY <2>1, <2>2
<1>5. ASSUME NEW game, Start(game) PROVE RuntimeInv'
  BY <1>5, EffectKeeps DEF Start
<1>6. ASSUME NEW call \in pending, Created(call) PROVE RuntimeInv'
  <2>1. /\ pending' = pending \ {call}
        /\ UNCHANGED <<applied, effects, error>>
        /\ (starting' => starting)
    BY <1>6 DEF Created
  <2>2. CallsOfEffects'
    BY <2>1 DEF RuntimeInv, CallsOfEffects, Current
  <2>4. CASE Current(call)
    <3>1. runtime' = effects /\ live' = live \cup {effects} /\ ~starting'
      BY <1>6, <2>4 DEF Created, Current
    <3>2. effects # None /\ starting
      BY <2>4 DEF RuntimeInv, CallsOfEffects, OneRuntime, Current, None
    <3>3. runtime = None /\ error = NoError
      BY <3>2 DEF RuntimeInv, OneRuntime, CallsOfEffects
    <3>4. OneRuntime'
      <4>1. live' = {runtime'} \ {None}
        BY <3>1, <3>2, <3>3 DEF RuntimeInv, OneRuntime
      <4>2. \A other \in pending' : ~Current(other)'
        BY <2>1, <2>4 DEF RuntimeInv, CallsOfEffects, Current
      <4> QED BY <2>1, <3>1, <3>3, <4>1, <4>2 DEF OneRuntime
    <3> QED BY <2>2, <3>4 DEF RuntimeInv
  <2>5. CASE ~Current(call)
    <3>1. UNCHANGED <<runtime, live, starting>>
      BY <1>6, <2>5 DEF Created
    <3>2. OneRuntime'
      BY <2>1, <2>5, <3>1 DEF RuntimeInv, OneRuntime, Current
    <3> QED BY <2>2, <3>2 DEF RuntimeInv
  <2> QED BY <2>4, <2>5
<1>7. ASSUME NEW call \in pending, NotCreated(call) PROVE RuntimeInv'
  <2>1. /\ pending' = pending \ {call}
        /\ UNCHANGED <<applied, effects, live, runtime>>
        /\ (starting' => starting /\ error' = NoError)
    BY <1>7 DEF NotCreated, RuntimeInv, CallsOfEffects
  <2>2. CallsOfEffects'
    BY <2>1 DEF RuntimeInv, CallsOfEffects, Current
  <2>3. CASE Current(call)
    <3>1. \A other \in pending' : ~Current(other)'
      BY <2>1, <2>3 DEF RuntimeInv, CallsOfEffects, Current
    <3>2. runtime = None
      BY <2>3 DEF RuntimeInv, OneRuntime
    <3> QED BY <1>7, <2>1, <2>2, <2>3, <3>1, <3>2 DEF NotCreated, RuntimeInv, OneRuntime
  <2>4. CASE ~Current(call)
    BY <1>7, <2>1, <2>2, <2>4 DEF NotCreated, RuntimeInv, OneRuntime, Current
  <2> QED BY <2>3, <2>4
<1>8. CASE UNCHANGED stackVars
  BY <1>8, RuntimeUntouched DEF stackVars, pageVars, runtimeVars
<1> QED
  BY <1>1, <1>2, <1>3, <1>4, <1>5, <1>6, <1>7, <1>8
     DEF StackNext, NodeStep, PageStep

\* At most one runtime follows the chain, however often the configuration
\* changes while calls for earlier ones are under way; it is that of the last
\* configuration, beside no error; and the page says that it starts one exactly
\* while that call runs.
\* (The cancelled flags of the runtime effect of App.tsx.)
THEOREM StackOneRuntime == StackSpec => []OneRuntime
<1>1. RuntimeInv => OneRuntime
  BY DEF RuntimeInv
<1> QED BY RuntimeInitial, RuntimeKeeps, <1>1, PTL DEF StackSpec

-----------------------------------------------------------------------------
(* Files are listed whole                                                  *)

LEMMA ListedInitial == StackInit => ListedInv
<1> SUFFICES ASSUME StackInit PROVE ListedInv
  OBVIOUS
<1>1. SyncShape /\ ~Deploying
  BY DEF StackInit, ContractsInit, NoSync, SyncShape, Deploying
<1>2. /\ folder \in [ContractFiles -> Revisions \cup {Missing}]
      /\ entries = [f \in ContractFiles |-> NoEntry] /\ ~written
  BY DEF StackInit, ContractsInit
<1>3. entries = [f \in ContractFiles |-> Entry(entries[f].revision, entries[f].games)]
  BY <1>2 DEF NoEntry, Entry
<1>4. \A f \in ContractFiles :
        WholeOf(entries[f].games, f) /\ entries[f].games \subseteq registered
  BY <1>2 DEF NoEntry, Entry, WholeOf
<1>5. WatcherWhole
  BY <1>1, <1>2, <1>3, <1>4 DEF WatcherWhole, SyncWhole
<1> QED BY <1>2, <1>5 DEF ListedInv, ListedWhole

\* A step of the page or one that touches neither the entries nor the sync.
LEMMA ListedUntouched ==
  ASSUME ListedInv, UNCHANGED <<folder, entries, sync, registered, file, written, host>>,
         UNCHANGED node \/ node' \notin {"off", "booting"} \/ ~written
  PROVE  ListedInv'
BY DEF ListedInv, WatcherWhole, SyncShape, SyncWhole, Deploying, ListedWhole

\* A step of the watcher that replaces one entry at most by one that is whole.
LEMMA EntryKeeps ==
  ASSUME ListedInv, NEW f \in ContractFiles, NEW entry,
         entry = Entry(entry.revision, entry.games),
         WholeOf(entry.games, f), entry.games \subseteq registered',
         entries' = [entries EXCEPT ![f] = entry],
         registered \subseteq registered',
         SyncShape', SyncWhole', folder' \in [ContractFiles -> Revisions \cup {Missing}],
         UNCHANGED <<file, written, host, node>>
  PROVE  ListedInv'
<1>1. entries = [o \in ContractFiles |-> Entry(entries[o].revision, entries[o].games)]
  BY DEF ListedInv, WatcherWhole
<1>2. entries'[f] = entry /\ \A o \in ContractFiles \ {f} : entries'[o] = entries[o]
  BY <1>1
<1>3. entries' = [o \in ContractFiles |-> Entry(entries'[o].revision, entries'[o].games)]
  <2>1. \A o \in ContractFiles : entries[o] = Entry(entries[o].revision, entries[o].games)
    BY <1>1
  <2>2. \A o \in ContractFiles : entries'[o] = Entry(entries'[o].revision, entries'[o].games)
    BY <1>2, <2>1
  <2>3. entries' = [o \in ContractFiles |-> entries'[o]]
    BY <1>1
  <2> QED BY <2>2, <2>3
<1>4. \A o \in ContractFiles :
        WholeOf(entries'[o].games, o) /\ entries'[o].games \subseteq registered'
  BY <1>2 DEF ListedInv, WatcherWhole
<1>5. WatcherWhole'
  BY <1>3, <1>4 DEF WatcherWhole
<1> QED BY <1>5 DEF ListedInv, ListedWhole

\* A step of the sync that leaves the entries alone, or one of the developer.
LEMMA SyncKeeps ==
  ASSUME ListedInv, UNCHANGED <<entries, file, written, host, node>>,
         registered \subseteq registered',
         SyncShape', SyncWhole', folder' \in [ContractFiles -> Revisions \cup {Missing}]
  PROVE  ListedInv'
BY DEF ListedInv, WatcherWhole, ListedWhole

\* A sync that starts has no file in turn.
LEMMA NewSyncShape == ASSUME sync' = NewSync \/ sync' = NoSync PROVE SyncShape' /\ ~Deploying'
<1>1. CASE sync' = NewSync
  <2> DEFINE changed == \E f \in ContractFiles : folder[f] = Missing /\ entries[f] # NoEntry
             todo == SetToSortSeq({f \in ContractFiles : folder[f] # Missing}, <)
  <2>1. sync' = [NoSync EXCEPT !.running = TRUE, !.changed = changed, !.todo = todo]
    BY <1>1 DEF NewSync
  <2> HIDE DEF changed, todo
  <2> QED BY <2>1 DEF NoSync, SyncShape, Deploying
<1>2. CASE sync' = NoSync
  BY <1>2 DEF NoSync, SyncShape, Deploying
<1> QED BY <1>1, <1>2

\* A revision that fails leaves the games of its file's entry.
LEMMA RevisionOnly ==
  ASSUME NEW f \in ContractFiles, NEW revision,
         entries = [o \in ContractFiles |-> Entry(entries[o].revision, entries[o].games)]
  PROVE  [entries EXCEPT ![f].revision = revision] = [entries EXCEPT ![f] = Entry(revision, entries[f].games)]
<1>1. entries[f] = [revision |-> entries[f].revision, games |-> entries[f].games]
  BY DEF Entry
<1>2. [entries[f] EXCEPT !.revision = revision] = Entry(revision, entries[f].games)
  BY <1>1 DEF Entry
<1>3. [entries EXCEPT ![f].revision = revision]
        = [entries EXCEPT ![f] = [entries[f] EXCEPT !.revision = revision]]
  OBVIOUS
<1> QED BY <1>2, <1>3

LEMMA WatchKeeps == ListedInv /\ (Watch \/ SyncFails) => ListedInv'
<1> SUFFICES ASSUME ListedInv, Watch \/ SyncFails PROVE ListedInv'
  OBVIOUS
<1>a. UNCHANGED <<file, written, host, node>>
  BY DEF Watch, SyncFails, nodeVars
<1>b. /\ folder \in [ContractFiles -> Revisions \cup {Missing}] /\ SyncShape /\ SyncWhole
      /\ entries = [f \in ContractFiles |-> Entry(entries[f].revision, entries[f].games)]
      /\ \A f \in ContractFiles :
           WholeOf(entries[f].games, f) /\ entries[f].games \subseteq registered
  BY DEF ListedInv, WatcherWhole
<1>1. CASE DebounceFires
  BY <1>1, <1>a, ListedUntouched DEF DebounceFires, chainVars
<1>2. CASE SyncStarts
  <2>1. sync' = NewSync /\ entries' = Listed(folder) /\ UNCHANGED <<folder, registered>>
    BY <1>2 DEF SyncStarts, chainVars
  <2>2. \A f \in ContractFiles :
          /\ Listed(folder)[f] = Entry(Listed(folder)[f].revision, Listed(folder)[f].games)
          /\ WholeOf(Listed(folder)[f].games, f) /\ Listed(folder)[f].games \subseteq registered
    <3> SUFFICES ASSUME NEW f \in ContractFiles
        PROVE  /\ Listed(folder)[f] = Entry(Listed(folder)[f].revision, Listed(folder)[f].games)
               /\ WholeOf(Listed(folder)[f].games, f) /\ Listed(folder)[f].games \subseteq registered
      OBVIOUS
    <3>1. CASE folder[f] = Missing
      BY <3>1 DEF Listed, NoEntry, Entry, WholeOf
    <3>2. CASE folder[f] # Missing
      <4>1. Listed(folder)[f] = entries[f]
        BY <3>2 DEF Listed
      <4>2. entries[f] = Entry(entries[f].revision, entries[f].games)
        BY <1>b
      <4> QED BY <1>b, <4>1, <4>2
    <3> QED BY <3>1, <3>2
  <2>3. Listed(folder) = [f \in ContractFiles |-> Listed(folder)[f]]
    BY DEF Listed
  <2>4. entries' = [f \in ContractFiles |-> Entry(entries'[f].revision, entries'[f].games)]
    BY <2>1, <2>2, <2>3
  <2>5. WatcherWhole'
    BY <1>b, <2>1, <2>2, <2>4, NewSyncShape DEF WatcherWhole, SyncWhole
  <2> QED BY <1>a, <2>1, <2>5 DEF ListedInv, ListedWhole
<1>3. ASSUME NEW f \in ContractFiles, SkipFile(f) \/ Compile(f) PROVE ListedInv'
  <2>1. UNCHANGED <<folder, entries, registered>>
    BY <1>3 DEF SkipFile, Compile, chainVars
  <2>2. SyncShape' /\ SyncWhole'
    <3>1. CASE SkipFile(f)
      <4>1. sync' = [sync EXCEPT !.todo = Tail(@)] /\ sync.file = 0
        BY <3>1 DEF SkipFile, Turn, Reading
      <4>2. SyncShape' /\ sync'.file = 0
        BY <1>b, <4>1 DEF SyncShape
      <4> QED BY <4>2 DEF SyncWhole, Deploying
    <3>2. CASE Compile(f)
      <4>1. /\ sync' = [sync EXCEPT !.todo = Tail(@), !.file = f, !.made = {}, !.revision = folder[f]]
            /\ folder[f] \in Revisions \ Broken
        BY <1>b, <3>2 DEF Compile, Known
      <4>2. SyncShape' /\ sync'.file = f /\ sync'.made = {} /\ sync'.revision = folder[f]
        BY <1>b, <4>1 DEF SyncShape
      <4>3. IsFiniteSet({})
        BY FS_EmptySet
      <4> QED BY <4>1, <4>2, <4>3 DEF SyncWhole
    <3> QED BY <1>3, <3>1, <3>2
  <2> QED BY <1>a, <1>b, <2>1, <2>2, SyncKeeps
<1>4. ASSUME NEW f \in ContractFiles, CompileFails(f) PROVE ListedInv'
  <2>1. /\ entries' = [entries EXCEPT ![f].revision = folder[f]] /\ UNCHANGED <<folder, registered>>
        /\ sync' = [sync EXCEPT !.todo = Tail(@)] /\ sync.file = 0
    BY <1>4 DEF CompileFails, Turn, Reading, chainVars
  <2>2. SyncShape' /\ sync'.file = 0
    BY <1>b, <2>1 DEF SyncShape
  <2>3. SyncWhole'
    BY <2>2 DEF SyncWhole, Deploying
  <2> DEFINE entry == Entry(folder[f], entries[f].games)
  <2>4. entries' = [entries EXCEPT ![f] = entry]
    BY <1>b, <2>1, RevisionOnly
  <2>5. entry = Entry(entry.revision, entry.games) /\ entry.games = entries[f].games
    BY DEF Entry
  <2> HIDE DEF entry
  <2> QED BY <1>a, <1>b, <2>1, <2>2, <2>3, <2>4, <2>5, EntryKeeps
<1>5. CASE DeployGame
  <2> DEFINE game == Game(sync.file, sync.revision, deployments + 1)
  <2>1. /\ sync' = [sync EXCEPT !.made = @ \cup {game}] /\ registered' = registered \cup {game}
        /\ UNCHANGED <<folder, entries>> /\ Deploying
    BY <1>5 DEF DeployGame
  <2>2. game.file = sync.file /\ game.revision = sync.revision
    BY DEF Game
  <2> HIDE DEF game
  <2>3. /\ SyncShape' /\ sync'.file = sync.file /\ sync'.revision = sync.revision
        /\ sync'.made = sync.made \cup {game}
    BY <1>b, <2>1 DEF SyncShape
  <2>4. IsFiniteSet(sync.made \cup {game})
    BY <1>b, <2>1, FS_AddElement DEF SyncWhole
  <2>5. SyncWhole'
    BY <1>b, <2>1, <2>2, <2>3, <2>4 DEF SyncWhole
  <2> QED BY <1>a, <1>b, <2>1, <2>3, <2>5, SyncKeeps
<1>6. CASE FileDeployed
  <2> DEFINE entry == Entry(sync.revision, sync.made)
  <2>1. /\ entries' = [entries EXCEPT ![sync.file] = entry] /\ UNCHANGED <<folder, registered>>
        /\ sync' = [sync EXCEPT !.file = 0, !.changed = TRUE] /\ Deploying /\ Remaining = 0
    BY <1>6 DEF FileDeployed, chainVars
  <2>2. SyncShape' /\ sync'.file = 0
    BY <1>b, <2>1 DEF SyncShape
  <2>3. SyncWhole'
    BY <2>2 DEF SyncWhole, Deploying
  <2>4. Cardinality(sync.made) = GamesIn[sync.revision]
    <3>1. Cardinality(sync.made) \in Nat
      BY <1>b, <2>1, FS_CardinalityType DEF SyncWhole
    <3>2. GamesIn[sync.revision] \in Nat
      BY <1>b, <2>1, GameContractsAssumption DEF SyncWhole
    <3> QED BY <2>1, <3>1, <3>2 DEF Remaining
  <2>5. entry = Entry(entry.revision, entry.games) /\ entry.games = sync.made
    BY DEF Entry
  <2>6. WholeOf(sync.made, sync.file) /\ sync.made \subseteq registered /\ sync.file \in ContractFiles
    BY <1>b, <2>1, <2>4 DEF SyncWhole, WholeOf
  <2> HIDE DEF entry
  <2> QED BY <1>a, <1>b, <2>1, <2>2, <2>3, <2>5, <2>6, EntryKeeps
<1>7. CASE DeployFails
  <2> DEFINE f == sync.file
             entry == Entry(sync.revision, entries[f].games)
  <2>1. /\ entries' = [entries EXCEPT ![f].revision = sync.revision] /\ UNCHANGED <<folder, registered>>
        /\ sync' = [sync EXCEPT !.file = 0] /\ Deploying
    BY <1>7 DEF DeployFails
  <2>2. SyncShape' /\ sync'.file = 0
    BY <1>b, <2>1 DEF SyncShape
  <2>3. SyncWhole'
    BY <2>2 DEF SyncWhole, Deploying
  <2>4. f \in ContractFiles
    BY <1>b, <2>1 DEF SyncWhole
  <2>5. entries' = [entries EXCEPT ![f] = entry]
    BY <1>b, <2>1, <2>4, RevisionOnly
  <2>6. entry = Entry(entry.revision, entry.games) /\ entry.games = entries[f].games
    BY DEF Entry
  <2> HIDE DEF entry
  <2> QED BY <1>a, <1>b, <2>1, <2>2, <2>3, <2>4, <2>5, <2>6, EntryKeeps
<1> QED
  BY <1>1, <1>2, <1>3, <1>4, <1>5, <1>6, <1>7 DEF Watch, WatcherStep, FileStep, SyncFails

\* The file is written with what the entries list, or stays as it is.
LEMMA WriteKeeps == ListedInv /\ WriteDeployed => ListedInv'
<1> SUFFICES ASSUME ListedInv, WriteDeployed PROVE ListedInv'
  OBVIOUS
<1>1. /\ sync' = NoSync /\ UNCHANGED <<folder, entries, registered, host>> /\ node' = "ready"
  BY DEF WriteDeployed, SyncEnds, chainVars
<1>2. WatcherWhole'
  BY <1>1, NewSyncShape DEF ListedInv, WatcherWhole, SyncWhole
<1>3. CASE UNCHANGED <<file, written>>
  BY <1>1, <1>2, <1>3 DEF ListedInv, ListedWhole
<1>4. CASE file' = Deployed(host, CurrentGames) /\ written' = TRUE
  <2>1. file'.host = host' /\ file'.games = CurrentGames
    BY <1>1, <1>4 DEF Deployed
  <2>2. CurrentGames \subseteq registered
    BY DEF CurrentGames, ListedInv, WatcherWhole
  <2>3. ASSUME NEW f \in ContractFiles
        PROVE  {g \in CurrentGames : g.file = f} = entries[f].games
    <3>1. \A o \in ContractFiles : \A g \in entries[o].games : g.file = o
      BY DEF ListedInv, WatcherWhole, WholeOf
    <3> QED BY <3>1 DEF CurrentGames
  <2>4. \A f \in ContractFiles : WholeOf({g \in CurrentGames : g.file = f}, f)
    BY <2>3 DEF ListedInv, WatcherWhole
  <2>5. \A f \in ContractFiles : WholeOf({g \in file'.games : g.file = f}, f)
    BY <2>1, <2>4
  <2>6. ListedWhole'
    <3> SUFFICES ASSUME NEW f \in ContractFiles, {g \in file'.games : g.file = f} # {}
        PROVE \E r \in Revisions \ Broken :
                /\ \A g \in {g \in file'.games : g.file = f} : g.revision = r
                /\ Cardinality({g \in file'.games : g.file = f}) = GamesIn[r]
      BY <1>1, <2>1, <2>2 DEF ListedWhole
    <3> QED BY <2>5 DEF WholeOf
  <2> QED BY <1>1, <1>2, <2>5, <2>6 DEF ListedInv
<1> QED BY <1>3, <1>4 DEF WriteDeployed

LEMMA ListedKeeps == ListedInv /\ [StackNext]_stackVars => ListedInv'
<1> SUFFICES ASSUME ListedInv, [StackNext]_stackVars PROVE ListedInv'
  OBVIOUS
<1>1. CASE Boot
  <2>1. ~written
    BY <1>1 DEF Boot, ListedInv
  <2> QED BY <1>1, <2>1, ListedUntouched DEF Boot, contractVars, watcherVars, chainVars
<1>2. CASE DeployInfrastructure
  <2>1. ~written' /\ sync' = NewSync /\ UNCHANGED <<folder, entries, registered>>
    BY <1>2 DEF DeployInfrastructure, chainVars, ListedInv
  <2>2. WatcherWhole'
    BY <2>1, NewSyncShape DEF ListedInv, WatcherWhole, SyncWhole
  <2> QED BY <2>1, <2>2 DEF ListedInv, ListedWhole
<1>3. CASE Watch \/ SyncFails
  BY <1>3, WatchKeeps
<1>4. CASE WriteDeployed
  BY <1>4, WriteKeeps
<1>5. CASE Exit
  <2>1. ~written' /\ sync' = NoSync /\ entries' = [f \in ContractFiles |-> NoEntry] /\ UNCHANGED folder
    BY <1>5 DEF Exit, ForgetWatcher
  <2>2. entries' = [f \in ContractFiles |-> Entry(entries'[f].revision, entries'[f].games)]
    BY <2>1 DEF NoEntry, Entry
  <2>3. \A f \in ContractFiles :
          WholeOf(entries'[f].games, f) /\ entries'[f].games \subseteq registered'
    BY <2>1 DEF NoEntry, Entry, WholeOf
  <2>4. WatcherWhole'
    BY <2>1, <2>2, <2>3, NewSyncShape DEF ListedInv, WatcherWhole, SyncWhole
  <2> QED BY <2>1, <2>4 DEF ListedInv, ListedWhole
<1>6. CASE Develop
  <2>1. PICK f \in ContractFiles, r \in Revisions \cup {Missing} : Edit(f, r)
    BY <1>6 DEF Develop
  <2>2. UNCHANGED <<entries, sync, registered, file, written, host, node>>
        /\ folder' = [folder EXCEPT ![f] = r]
    BY <1>6, <2>1 DEF Develop, Edit, chainVars, nodeVars
  <2>3. folder' \in [ContractFiles -> Revisions \cup {Missing}]
    BY <2>2 DEF ListedInv, WatcherWhole
  <2>4. SyncShape' /\ SyncWhole'
    BY <2>2 DEF ListedInv, WatcherWhole, SyncShape, SyncWhole, Deploying
  <2> QED BY <2>2, <2>3, <2>4, SyncKeeps
<1>7. CASE PageStep \/ \E game \in {BuiltIn, Own} : Start(game)
  <2>1. UNCHANGED <<contractVars, file, written, host, node>>
    BY <1>7 DEF PageStep, Poll, Answered, Created, NotCreated, Start, nodeVars
  <2> QED BY <2>1, ListedUntouched DEF contractVars, watcherVars, chainVars
<1>8. CASE UNCHANGED stackVars
  BY <1>8, ListedUntouched DEF stackVars, contractVars, watcherVars, chainVars, nodeVars
<1> QED BY <1>1, <1>2, <1>3, <1>4, <1>5, <1>6, <1>7, <1>8 DEF StackNext, NodeStep

\* What a node that runs has written lists games that are registered on its
\* host, and of each contract file all the games of one revision or none,
\* whichever compilation or deployment failed halfway, whatever the developer
\* saved meanwhile, and whichever boot wrote what was there before.
\* (deployGamesFromFile and the entry that sync keeps when it throws.)
THEOREM StackListsWhole == StackSpec => []ListedWhole
<1>1. ListedInv => ListedWhole
  BY DEF ListedInv
<1> QED BY ListedInitial, ListedKeeps, <1>1, PTL DEF StackSpec

-----------------------------------------------------------------------------
(* The round of the coinflip game                                          *)

\* Before anything has happened there is no round.
LEMMA FlipInitial == FlipInit => FlipIInv
<1> SUFFICES ASSUME FlipInit PROVE FlipIInv
  OBVIOUS
<1> USE DEF FlipInit
<1>1. FlipTypes
  <2>1. wire \in Seq(Snapshots)
    OBVIOUS
  <2>2. revealed \in [BetIds -> Nat] /\ rows \in Snapshots \cup {Nothing}
        /\ opens \in [BetIds -> {"none", "asked", "landed", "returned", "refused", "lost"}]
    OBVIOUS
  <2> QED BY <2>1, <2>2 DEF FlipTypes, RoundTypes, NoRound, Round
<1>2. SeenIsPast
  BY DEF SeenIsPast
<1>3. RoundIsOfBet
  BY DEF RoundIsOfBet, NoRound, Round
<1>4. ShowsItsSession
  BY DEF ShowsItsSession, NoRound, Round
<1> QED BY <1>1, <1>2, <1>3, <1>4 DEF FlipIInv

\* A snapshot of the host stays past when the host learns more of a session
\* that is not over.
LEMMA PastStays ==
  ASSUME NEW items, Past(items), rows' # Nothing,
         \A b \in BetIds : rows[b] \in Results => rows'[b] = rows[b]
  PROVE  Past(items)'
BY DEF Past

\* A step that changes neither the round nor the bets and what was revealed,
\* and in which no snapshot appears, keeps the invariant if no session that is
\* over changes.
LEMMA QuietKeeps ==
  ASSUME FlipIInv,
         rows' \in Snapshots \cup {Nothing},
         rows # Nothing => rows' # Nothing /\ \A b \in BetIds : rows[b] \in Results => rows'[b] = rows[b],
         UNCHANGED <<opens, wire, revealed, snapshot, round>>
  PROVE  FlipIInv'
<1> USE DEF FlipIInv
<1>1. FlipTypes'
  BY DEF FlipTypes
<1>2. SeenIsPast'
  BY DEF SeenIsPast, Past
<1>3. RoundIsOfBet'
  BY DEF RoundIsOfBet
<1>4. ShowsItsSession'
  <2>1. ASSUME round.status \in {"landing", "done"}
        PROVE  rows[round.bet] \in Results /\ rows'[round.bet] = rows[round.bet]
    <3>1. round.bet \in BetIds
      BY <2>1 DEF RoundIsOfBet, FlipTypes, RoundTypes
    <3>2. rows[round.bet] \in Results
      BY <2>1 DEF ShowsItsSession
    <3>3. rows # Nothing
      BY <2>1 DEF RoundIsOfBet
    <3> QED BY <3>1, <3>2, <3>3
  <2> QED BY <2>1 DEF ShowsItsSession
<1> QED BY <1>1, <1>2, <1>3, <1>4

\* The round is the one it was, or it lay waiting and the session that a past
\* snapshot has is over, so the host has the same result.
TakesResult(r, s) ==
  /\ r.status = "waiting" /\ s.status \in {"landing", "done"} /\ s.bet = r.bet
  /\ rows # Nothing /\ rows[s.bet] \in Results
  /\ s.payout = PayoutOf(rows[s.bet])
  /\ rows[s.bet] # "cancelled" => (s.won <=> rows[s.bet] = "won")
LEMMA SettledResult ==
  ASSUME FlipTypes, NEW r \in RoundTypes, r.status = "waiting" => r.bet \in BetIds,
         NEW items \in Snapshots \cup {Nothing}, items # Nothing => Past(items)
  PROVE  /\ Settled(r, items) \in RoundTypes
         /\ Settled(r, items) = r \/ TakesResult(r, Settled(r, items))
<1> DEFINE s == Settled(r, items)
<1>1. CASE r.status # "waiting" \/ items = Nothing
  BY <1>1 DEF Settled
<1>2. CASE r.status = "waiting" /\ items # Nothing /\ items[r.bet] \notin Results
  BY <1>2 DEF Settled
<1>3. CASE r.status = "waiting" /\ items # Nothing /\ items[r.bet] \in Results
  <2> DEFINE result == items[r.bet]
             won == IF result = "cancelled" THEN PayoutOf(result) > 0 ELSE result = "won"
             status == IF fastMode THEN "done" ELSE "landing"
  <2>1. s = Round(r.bet, status, won, PayoutOf(result))
    BY <1>3 DEF Settled
  <2>2. result \in Results /\ rows # Nothing /\ rows[r.bet] = result
    BY <1>3 DEF Past
  <2>3. PayoutOf(result) \in 0..2 /\ won \in BOOLEAN
    <3>1. CASE result = "won"
      BY <3>1 DEF PayoutOf
    <3>2. CASE result = "lost"
      BY <3>2 DEF PayoutOf
    <3>3. CASE result = "cancelled"
      BY <3>3 DEF PayoutOf
    <3> QED BY <2>2, <3>1, <3>2, <3>3 DEF Results
  <2>4. status \in {"landing", "done"} /\ r.bet \in BetIds
    BY <1>3
  <2>5. s.bet = r.bet /\ s.status = status /\ s.won = won /\ s.payout = PayoutOf(result)
    BY <2>1 DEF Round
  <2>6. s \in RoundTypes
    BY <2>1, <2>3, <2>4 DEF Round, RoundTypes
  <2>7. TakesResult(r, s)
    BY <1>3, <2>2, <2>4, <2>5 DEF TakesResult
  <2> QED BY <2>6, <2>7
<1> QED BY <1>1, <1>2, <1>3

\* A round that takes a result, in whichever step, keeps what is said of it.
LEMMA SettlingKeeps ==
  ASSUME FlipIInv, NEW r \in RoundTypes, r.bet = round.bet,
         r.bet # 0, r.status \notin {"none", "landing", "done"} \/ r = round,
         round' \in RoundTypes, round' = r \/ TakesResult(r, round'),
         round.status # "done" \/ round' = round,
         revealed' = IF round'.status = "done" /\ round.status # "done"
              THEN [revealed EXCEPT ![round'.bet] = @ + (IF round.status = "landing" THEN 2 ELSE 1)]
              ELSE revealed,
         opens'[r.bet] # "none", \A b \in BetIds : opens'[b] = "none" => opens[b] = "none",
         UNCHANGED rows
  PROVE  revealed' \in [BetIds -> Nat] /\ RoundIsOfBet' /\ ShowsItsSession'
<1>1. r.bet \in BetIds /\ round'.bet = r.bet /\ opens[r.bet] # "none"
  BY DEF RoundTypes, TakesResult, FlipIInv, RoundIsOfBet
<1>2. revealed \in [BetIds -> Nat]
  BY DEF FlipIInv, FlipTypes
<1>3. revealed' \in [BetIds -> Nat] /\ \A b \in BetIds \ {r.bet} : revealed'[b] = revealed[b]
  BY <1>1, <1>2
<1>4. round'.status # "none"
  BY <1>1 DEF TakesResult, FlipIInv, RoundIsOfBet
<1>5. round'.status \in {"landing", "done"} => rows # Nothing
  BY DEF TakesResult, FlipIInv, RoundIsOfBet
<1>6. RoundIsOfBet'
  BY <1>1, <1>3, <1>4, <1>5 DEF RoundIsOfBet, FlipIInv
<1>7. revealed'[r.bet] > 0 <=> round'.status = "done"
  <2>1. revealed[r.bet] > 0 <=> round.status = "done"
    BY <1>1 DEF FlipIInv, ShowsItsSession
  <2>2. CASE round'.status = "done" /\ round.status # "done"
    BY <1>1, <1>2, <2>2
  <2>3. CASE ~(round'.status = "done" /\ round.status # "done")
    BY <2>1, <2>3
  <2> QED BY <2>2, <2>3
<1>8. round'.status \in {"landing", "done"} =>
        /\ rows[round'.bet] \in Results
        /\ round'.payout = PayoutOf(rows[round'.bet])
        /\ rows[round'.bet] # "cancelled" => (round'.won <=> rows[round'.bet] = "won")
  BY DEF TakesResult, FlipIInv, ShowsItsSession
<1> QED BY <1>1, <1>3, <1>6, <1>7, <1>8 DEF ShowsItsSession
-----------------------------------------------------------------------------
\* The snapshots that are on their way, one more or one less, are past.
LEMMA PastOnTheWay ==
  ASSUME FlipIInv, Len(wire) \in Nat,
         UNCHANGED <<opens, rows, revealed, snapshot, round>>,
         \/ UNCHANGED wire
         \/ wire' = << >>
         \/ rows # Nothing /\ wire' = Append(wire, rows)
  PROVE  FlipIInv'
<1> USE DEF FlipIInv
<1>1. wire \in Seq(Snapshots) /\ (rows # Nothing => rows \in Snapshots /\ Past(rows))
  BY DEF FlipTypes, Past
<1>2. wire' \in Seq(Snapshots) /\ \A i \in DOMAIN wire' : Past(wire'[i])
  <2>1. CASE UNCHANGED wire
    BY <1>1, <2>1 DEF SeenIsPast
  <2>2. CASE wire' = << >>
    BY <2>2
  <2>3. CASE rows # Nothing /\ wire' = Append(wire, rows)
    <3>1. wire' \in Seq(Snapshots) /\ DOMAIN wire' = 1..(Len(wire) + 1)
      BY <1>1, <2>3
    <3>2. ASSUME NEW i \in DOMAIN wire' PROVE Past(wire'[i])
      <4>1. CASE i = Len(wire) + 1
        BY <1>1, <2>3, <4>1
      <4>2. CASE i # Len(wire) + 1
        BY <1>1, <2>3, <3>1, <4>2 DEF SeenIsPast
      <4> QED BY <4>1, <4>2
    <3> QED BY <3>1, <3>2
  <2> QED BY <2>1, <2>2, <2>3
<1>3. FlipTypes'
  BY <1>2 DEF FlipTypes
<1>4. SeenIsPast'
  BY <1>2 DEF SeenIsPast, Past
<1>5. RoundIsOfBet' /\ ShowsItsSession'
  BY DEF RoundIsOfBet, ShowsItsSession
<1> QED BY <1>3, <1>4, <1>5

\* A step that gives a bet a new stage, and perhaps changes the round, where
\* no snapshot changes.
LEMMA BetKeeps ==
  ASSUME FlipIInv,
         opens' \in [BetIds -> {"none", "asked", "landed", "returned", "refused", "lost"}],
         round' \in RoundTypes, revealed' \in [BetIds -> Nat],
         RoundIsOfBet', ShowsItsSession',
         UNCHANGED <<rows, wire, snapshot>>
  PROVE  FlipIInv'
<1>1. FlipTypes' /\ SeenIsPast'
  BY DEF FlipIInv, FlipTypes, SeenIsPast, Past
<1> QED BY <1>1 DEF FlipIInv

\* There is no round after the page was mounted anew or its bet was refused.
LEMMA NoneKeeps ==
  ASSUME FlipIInv, round' = NoRound, UNCHANGED <<rows, revealed>>,
         \A b \in BetIds : opens'[b] = "none" => opens[b] = "none"
  PROVE  round' \in RoundTypes /\ RoundIsOfBet' /\ ShowsItsSession'
BY DEF FlipIInv, RoundIsOfBet, ShowsItsSession, NoRound, Round, RoundTypes

LEMMA FlipKeeps == FlipIInv /\ [FlipNext]_flipVars => FlipIInv'
<1> SUFFICES ASSUME FlipIInv, [FlipNext]_flipVars PROVE FlipIInv'
  OBVIOUS
<1>t. /\ opens \in [BetIds -> {"none", "asked", "landed", "returned", "refused", "lost"}]
      /\ wire \in Seq(Snapshots) /\ Len(wire) \in Nat
      /\ round \in RoundTypes /\ revealed \in [BetIds -> Nat]
      /\ rows \in Snapshots \cup {Nothing} /\ snapshot \in Snapshots \cup {Nothing}
      /\ Nothing \notin Snapshots
  BY CoinflipGuestAssumption DEF FlipIInv, FlipTypes
<1>1. CASE HostLoads
  <2>1. [b \in BetIds |-> "none"] \in Snapshots
    BY DEF Snapshots
  <2> QED BY <1>1, <2>1, QuietKeeps DEF HostLoads, guestSide
<1>2. ASSUME NEW b \in BetIds, ShowOpen(b) \/ ShowOver(b) PROVE FlipIInv'
  <2>1. PICK shown \in {"open"} \cup Results : rows' = [rows EXCEPT ![b] = shown]
    BY <1>2 DEF ShowOpen, ShowOver
  <2>2. rows \in Snapshots /\ rows[b] \notin Results
    BY <1>2, <1>t DEF ShowOpen, ShowOver, Results
  <2>3. rows' \in Snapshots /\ \A o \in BetIds : rows[o] \in Results => rows'[o] = rows[o]
    BY <2>1, <2>2 DEF Snapshots
  <2> QED BY <1>2, <1>t, <2>3, QuietKeeps DEF ShowOpen, ShowOver, guestSide
<1>3. ASSUME NEW b \in BetIds, Land(b) PROVE FlipIInv'
  <2>1. opens' \in [BetIds -> {"none", "asked", "landed", "returned", "refused", "lost"}]
        /\ \A o \in BetIds : opens'[o] = "none" <=> opens[o] = "none"
    BY <1>3, <1>t DEF Land
  <2>2. RoundIsOfBet' /\ ShowsItsSession'
    BY <1>3, <1>t, <2>1 DEF Land, guestSide, FlipIInv, RoundIsOfBet, ShowsItsSession, RoundTypes
  <2> QED BY <1>3, <1>t, <2>1, <2>2, BetKeeps DEF Land, guestSide
<1>4. CASE Connect \/ PushChange
  BY <1>4, <1>t, PastOnTheWay DEF Connect, PushChange, guestSide
<1>5. CASE Remount
  <2>1. round' \in RoundTypes /\ RoundIsOfBet' /\ ShowsItsSession'
    BY <1>5, NoneKeeps DEF Remount
  <2>2. FlipTypes' /\ SeenIsPast'
    BY <1>5, <1>t, <2>1 DEF Remount, FlipTypes, SeenIsPast
  <2> QED BY <2>1, <2>2 DEF FlipIInv
<1>6. CASE HandshakeEnds \/ SetFastMode
  BY <1>6, <1>t, QuietKeeps DEF HandshakeEnds, SetFastMode, hostSide
<1>7. ASSUME NEW b \in BetIds, PlaceBet(b) PROVE FlipIInv'
  <2>1. opens' \in [BetIds -> {"none", "asked", "landed", "returned", "refused", "lost"}]
        /\ opens'[b] = "asked" /\ \A o \in BetIds : opens'[o] = "none" => opens[o] = "none"
    BY <1>7, <1>t DEF PlaceBet
  <2>2. round' \in RoundTypes /\ round'.bet = b /\ round'.status = "opening" /\ b # 0
    BY <1>7, CoinflipGuestAssumption DEF PlaceBet, Round, RoundTypes, BetIds
  <2>3. revealed[b] = 0 /\ UNCHANGED <<rows, revealed, wire, snapshot>>
    BY <1>7 DEF PlaceBet, FlipIInv, RoundIsOfBet
  <2>4. RoundIsOfBet' /\ ShowsItsSession'
    BY <2>1, <2>2, <2>3 DEF FlipIInv, RoundIsOfBet, ShowsItsSession
  <2> QED BY <1>t, <2>1, <2>2, <2>3, <2>4, BetKeeps
<1>8. ASSUME NEW b \in BetIds, OpenRefused(b) PROVE FlipIInv'
  <2>1. opens' \in [BetIds -> {"none", "asked", "landed", "returned", "refused", "lost"}]
        /\ \A o \in BetIds : opens'[o] = "none" <=> opens[o] = "none"
    BY <1>8, <1>t DEF OpenRefused
  <2>2. UNCHANGED <<rows, revealed, wire, snapshot>>
    BY <1>8 DEF OpenRefused
  <2>3. round' \in RoundTypes /\ RoundIsOfBet' /\ ShowsItsSession'
    <3>1. CASE round.bet = b
      BY <1>8, <2>1, <2>2, <3>1, NoneKeeps DEF OpenRefused
    <3>2. CASE round.bet # b
      BY <1>8, <1>t, <2>1, <2>2, <3>2 DEF OpenRefused, FlipIInv, RoundIsOfBet, ShowsItsSession, RoundTypes
    <3> QED BY <3>1, <3>2
  <2> QED BY <1>t, <2>1, <2>2, <2>3, BetKeeps
<1>9. ASSUME NEW b \in BetIds, OpenReturns(b) PROVE FlipIInv'
  <2>1. opens' \in [BetIds -> {"none", "asked", "landed", "returned", "refused", "lost"}]
        /\ opens'[b] = "returned" /\ opens[b] # "none"
        /\ \A o \in BetIds : opens'[o] = "none" <=> opens[o] = "none"
    BY <1>9, <1>t DEF OpenReturns
  <2>2. UNCHANGED <<rows, wire, snapshot>>
    BY <1>9 DEF OpenReturns
  <2>3. CASE round.bet = b /\ round.status = "opening"
    <3> DEFINE r == Round(b, "waiting", FALSE, 0)
    <3>1. r \in RoundTypes /\ r.bet = b /\ r.status = "waiting"
      BY DEF Round, RoundTypes
    <3>2. round' = Settled(r, snapshot)
      BY <1>9, <2>3 DEF OpenReturns
    <3>3. round' \in RoundTypes /\ (round' = r \/ TakesResult(r, round'))
      BY <1>t, <3>1, <3>2, SettledResult DEF FlipIInv, SeenIsPast
    <3>4. b # 0
      BY CoinflipGuestAssumption DEF BetIds
    <3>5. Reveals(round')
      BY <1>9 DEF OpenReturns
    <3> HIDE DEF r
    <3>6. revealed' \in [BetIds -> Nat] /\ RoundIsOfBet' /\ ShowsItsSession'
      BY <2>1, <2>2, <2>3, <3>1, <3>3, <3>4, <3>5, SettlingKeeps DEF Reveals
    <3> QED BY <2>1, <2>2, <3>3, <3>6, BetKeeps
  <2>4. CASE ~(round.bet = b /\ round.status = "opening")
    <3>1. UNCHANGED <<round, revealed>>
      BY <1>9, <2>4 DEF OpenReturns, Reveals
    <3>2. RoundIsOfBet' /\ ShowsItsSession'
      BY <1>t, <2>1, <2>2, <3>1 DEF FlipIInv, RoundIsOfBet, ShowsItsSession, RoundTypes
    <3> QED BY <1>t, <2>1, <2>2, <3>1, <3>2, BetKeeps
  <2> QED BY <2>3, <2>4
<1>10. CASE SetState
  <2>1. /\ Head(wire) \in Snapshots /\ Past(Head(wire)) /\ Tail(wire) \in Seq(Snapshots)
        /\ \A i \in DOMAIN Tail(wire) : Past(Tail(wire)[i])
    <3>1. wire # << >> /\ wire \in Seq(Snapshots) /\ \A i \in DOMAIN wire : Past(wire[i])
      BY <1>10, <1>t DEF SetState, FlipIInv, SeenIsPast
    <3>2. Head(wire) = wire[1] /\ 1 \in DOMAIN wire /\ Tail(wire) \in Seq(Snapshots)
      BY <3>1
    <3>3. \A i \in DOMAIN Tail(wire) : i + 1 \in DOMAIN wire /\ Tail(wire)[i] = wire[i + 1]
      BY <3>1
    <3> QED BY <3>1, <3>2, <3>3
  <2>2. UNCHANGED <<opens, rows>> /\ wire' = Tail(wire) /\ snapshot' = Head(wire)
    BY <1>10 DEF SetState
  <2>3. round' \in RoundTypes /\ (round' = round \/ TakesResult(round, round'))
    <3>1. round.status = "waiting" => round.bet \in BetIds
      BY <1>t DEF FlipIInv, RoundIsOfBet, RoundTypes
    <3>2. round' = Settled(round, Head(wire))
      BY <1>10 DEF SetState
    <3> QED BY <1>t, <2>1, <3>1, <3>2, SettledResult DEF FlipIInv
  <2>4. revealed' \in [BetIds -> Nat] /\ RoundIsOfBet' /\ ShowsItsSession'
    <3>1. Reveals(round')
      BY <1>10 DEF SetState
    <3>2. CASE round.bet = 0
      <4>1. UNCHANGED <<round, revealed>>
        BY <2>3, <3>1, <3>2 DEF Reveals, TakesResult, FlipIInv, RoundIsOfBet
      <4> QED BY <1>t, <2>2, <3>2, <4>1 DEF FlipIInv, RoundIsOfBet, ShowsItsSession
    <3>3. CASE round.bet # 0
      <4>1. opens'[round.bet] # "none" /\ (round.status = "done" => round' = round)
        BY <2>2, <2>3, <3>3 DEF TakesResult, FlipIInv, RoundIsOfBet
      <4> QED BY <1>t, <2>2, <2>3, <3>1, <3>3, <4>1, SettlingKeeps DEF Reveals
    <3> QED BY <3>2, <3>3
  <2>5. FlipTypes'
    BY <1>t, <2>1, <2>2, <2>3, <2>4 DEF FlipTypes
  <2>6. SeenIsPast'
    BY <2>1, <2>2 DEF SeenIsPast, Past
  <2> QED BY <2>4, <2>5, <2>6 DEF FlipIInv
<1>11. CASE Landed
  <2>1. UNCHANGED <<opens, rows, wire, snapshot>>
    BY <1>11 DEF Landed, hostSide
  <2>2. round.bet \in BetIds /\ round.status = "landing"
    BY <1>11, <1>t DEF Landed, FlipIInv, RoundIsOfBet, RoundTypes
  <2>3. /\ round' \in RoundTypes /\ round'.bet = round.bet /\ round'.status = "done"
        /\ round'.won = round.won /\ round'.payout = round.payout
    BY <1>11, <1>t DEF Landed, RoundTypes
  <2>4. revealed' = [revealed EXCEPT ![round.bet] = @ + 2]
    BY <1>11, <2>2, <2>3 DEF Landed, Reveals
  <2>5. revealed' \in [BetIds -> Nat] /\ revealed'[round.bet] > 0
        /\ \A b \in BetIds \ {round.bet} : revealed'[b] = revealed[b]
    BY <1>t, <2>2, <2>4
  <2>6. RoundIsOfBet' /\ ShowsItsSession'
    BY <2>1, <2>2, <2>3, <2>5 DEF FlipIInv, RoundIsOfBet, ShowsItsSession
  <2> QED BY <1>t, <2>1, <2>3, <2>5, <2>6, BetKeeps
<1>12. CASE UNCHANGED flipVars
  BY <1>12, <1>t, QuietKeeps DEF flipVars, hostSide, guestSide
<1> QED
  BY <1>1, <1>2, <1>3, <1>4, <1>5, <1>6, <1>7, <1>8, <1>9, <1>10, <1>11, <1>12
     DEF FlipNext, BetStep

\* However the answer to openSession, the snapshots of the host and the timer
\* of the toss interleave, and however often the frame is mounted anew, the
\* round on the stage ends as its own session does, and it is revealed to the
\* host once its coins lie and not before.  (The settle effect and the reveal
\* effect of the coinflip page.)
THEOREM FlipShowsItsSession == FlipSpec => []ShowsItsSession
<1>1. FlipIInv => ShowsItsSession
  BY DEF FlipIInv
<1> QED BY FlipInitial, FlipKeeps, <1>1, PTL DEF FlipSpec
=============================================================================

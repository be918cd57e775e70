----------------------------- MODULE LocalStack -----------------------------
(***************************************************************************)
(* The local node (local-node/index.ts) and the simulator page (App.tsx    *)
(* with config.ts and runtime.ts) that start side by side.  The node makes *)
(* sure there is a chain, deploys the casino host, scans the contracts     *)
(* folder and then writes deployed.json; the page polls that file, fills   *)
(* its panel from the first answer and starts a runtime for it.            *)
(*                                                                         *)
(* The infrastructure of a boot is one host, a number on its chain: on a   *)
(* new chain the deployer's nonces start over, so the first host has the   *)
(* same address as the one before.  The chain may outlive the node.        *)
(***************************************************************************)
EXTENDS GameContracts

CONSTANT
  MaxFetches   \* bound: answers to the page's polls under way

ASSUME LocalStackAssumption == MaxFetches \in Nat

None == 0
BuiltIn == "CoinflipGame"
Own == "own"            \* a game that the developer deployed with other tools

VARIABLES
  node,        \* off, booting, scanning or ready
  boots,
  chain,       \* off, or how many hosts were deployed on the chain that runs
  whitelist,   \* the built-in or own games of the hosts on the chain
  host,        \* the host of this boot
  file,        \* deployed.json
  written,     \* history: whether this boot wrote the file
  \* the page
  fetches,     \* answers to polls that are on their way
  detected,    \* what the panel shows of the last one
  autoFilled,
  proxy,       \* of the configuration in the panel
  applied,     \* appliedConfig, of it the proxy and the game
  effects,     \* how often the runtime effect ran; the last one is current
  pending,     \* calls of createSimulatorRuntime
  live,        \* runtimes that were not stopped
  runtime,     \* the one on the page
  starting, clicked,
  error        \* why the last call failed, or none

nodeVars == <<node, boots, chain, whitelist, host, file, written>>
panelVars == <<fetches, detected, autoFilled, proxy>>
runtimeVars == <<applied, effects, pending, live, runtime, starting, error, clicked>>
pageVars == <<panelVars, runtimeVars>>
stackVars == <<contractVars, events, nodeVars, pageVars>>

Off == -1
Deployed(h, games) == [host |-> h, games |-> games]
NoFile == Deployed(None, {})
Configured(h, game) == [proxy |-> h, game |-> game]
NotApplied == Configured(None, "none")
NoError == ""
NoChain == "nothing there"
FailedCall == "call failed"

\* A node of an earlier day may have left its file, and the page the addresses
\* that it saved then.
StackInit ==
  /\ ContractsInit
  /\ node = "off" /\ boots = 0 /\ chain = Off /\ whitelist = {} /\ host = None
  /\ file \in {NoFile, Deployed(1, {})} /\ written = FALSE
  /\ fetches = {} /\ detected = NoFile /\ autoFilled = FALSE
  /\ proxy \in {None, 1}
  /\ applied = NotApplied /\ effects = 0 /\ pending = {} /\ live = {} /\ runtime = None
  /\ starting = FALSE /\ error = NoError /\ clicked = FALSE

-----------------------------------------------------------------------------
\* ensureChain: the chain that answers, or a new one.
Boot ==
  /\ node = "off" /\ events < MaxEvents /\ events' = events + 1
  /\ node' = "booting" /\ boots' = boots + 1
  /\ chain' = IF chain = Off THEN 0 ELSE chain
  /\ UNCHANGED <<contractVars, whitelist, host, file, written, pageVars>>

\* main up to the scan: the host is there, the coinflip game is registered on
\* it, and the first sync starts.
DeployInfrastructure ==
  /\ node = "booting"
  /\ node' = "scanning" /\ chain' = chain + 1 /\ host' = chain + 1
  /\ whitelist' = whitelist \cup {<<chain + 1, BuiltIn>>}
  /\ sync' = NewSync
  /\ UNCHANGED <<folder, events, entries, queued, debounce, watching, good, missed,
                 chainVars, boots, file, written, pageVars>>

\* writeDeployed runs after the first scan and then for every change.
Watch ==
  /\ WatcherStep
  /\ UNCHANGED <<nodeVars, pageVars>>
SyncFails == DeployFails /\ UNCHANGED <<nodeVars, pageVars>>
WriteDeployed ==
  /\ SyncEnds
  /\ IF node = "scanning" \/ sync.changed
     THEN file' = Deployed(host, CurrentGames) /\ written' = TRUE
     ELSE UNCHANGED <<file, written>>
  /\ node' = "ready"
  /\ UNCHANGED <<boots, chain, whitelist, host, pageVars>>

\* A signal or an error: a sync that throws ends the process as well, since
\* nobody handles the rejection of its queue.  Only a signal takes the chain.
Exit ==
  /\ node # "off"
  /\ node' = "off" /\ host' = None /\ written' = FALSE
  /\ \/ chain' = Off /\ whitelist' = {} /\ registered' = {}
     \/ UNCHANGED <<chain, whitelist, registered>>
  /\ ForgetWatcher
  /\ UNCHANGED <<folder, events, deployments, boots, file, pageVars>>

Develop ==
  /\ \E f \in ContractFiles, r \in Revisions \cup {Missing} : Edit(f, r)
  /\ UNCHANGED <<nodeVars, pageVars>>

-----------------------------------------------------------------------------
\* A poll reads the file; one that is missing or half written answers nothing.
Poll ==
  /\ file # NoFile /\ Cardinality(fetches) < MaxFetches
  /\ fetches' = fetches \cup {file}
  /\ UNCHANGED <<contractVars, events, nodeVars, detected, autoFilled, proxy, runtimeVars>>

\* The runtime effect for a new configuration: the cleanup of the one before,
\* which stops what that one created, then another call.
RunEffect(configuration) ==
  /\ applied' = configuration
  /\ effects' = effects + 1
  /\ pending' = pending \cup {[effect |-> effects + 1, of |-> configuration]}
  /\ live' = live \ {runtime} /\ runtime' = None
  /\ starting' = TRUE /\ error' = NoError

\* The first answer fills the panel and starts the runtime, unless the
\* developer clicked before; the later ones only list games.  The game is the
\* first that is listed, or the one whose address the page has saved.
Answered(answer) ==
  /\ answer \in fetches
  /\ fetches' = fetches \ {answer} /\ detected' = answer /\ autoFilled' = TRUE
  /\ IF autoFilled THEN UNCHANGED <<proxy, runtimeVars>>
     ELSE /\ proxy' = answer.host
          /\ IF applied = NotApplied
             THEN /\ \E game \in {BuiltIn, Own} : RunEffect(Configured(answer.host, game))
                  /\ UNCHANGED clicked
             ELSE UNCHANGED runtimeVars
  /\ UNCHANGED <<contractVars, events, nodeVars>>

Start(game) ==
  /\ events < MaxEvents /\ events' = events + 1
  /\ RunEffect(Configured(proxy, game)) /\ clicked' = TRUE
  /\ UNCHANGED <<contractVars, nodeVars, panelVars>>

\* createSimulatorRuntime needs addresses, a chain and the token on it.  It tries
\* to register a game that the host does not know: without a name or an address
\* it does not, and nobody learns that it failed.  A call of an effect that was
\* cleaned up meanwhile stops what it made.
Current(call) == call.effect = effects
Reachable(call) == call.of.proxy \in 1..chain
MayRegister(call) ==
  \/ whitelist' = whitelist \cup {<<call.of.proxy, call.of.game>>}
  \/ UNCHANGED whitelist
\* Mutant: what a superseded call made is kept.
CreatedAnyway(call) ==
  /\ call \in pending /\ Reachable(call)
  /\ pending' = pending \ {call} /\ MayRegister(call)
  /\ runtime' = call.effect /\ live' = live \cup {call.effect} /\ starting' = FALSE
  /\ UNCHANGED <<contractVars, events, node, boots, chain, host, file, written,
                 panelVars, applied, effects, error, clicked>>
Created(call) ==
  /\ call \in pending /\ Reachable(call)
  /\ pending' = pending \ {call} /\ MayRegister(call)
  /\ IF Current(call)
     THEN runtime' = call.effect /\ live' = live \cup {call.effect} /\ starting' = FALSE
     ELSE UNCHANGED <<runtime, live, starting>>
  /\ UNCHANGED <<contractVars, events, node, boots, chain, host, file, written,
                 panelVars, applied, effects, error, clicked>>
\* It fails where there is nothing, and on a chain that is there when a request
\* to it fails (one of the events that are bounded); nobody tries again.
NotCreated(call) ==
  /\ call \in pending
  /\ pending' = pending \ {call}
  /\ \E why \in {NoChain, FailedCall} :
       /\ IF why = NoChain THEN ~Reachable(call) /\ UNCHANGED events
          ELSE Reachable(call) /\ events < MaxEvents /\ events' = events + 1
       /\ IF Current(call) THEN error' = why /\ starting' = FALSE
          ELSE UNCHANGED <<error, starting>>
  /\ UNCHANGED <<contractVars, nodeVars, panelVars, applied, effects, live, runtime, clicked>>

-----------------------------------------------------------------------------
NodeStep == DeployInfrastructure \/ Watch \/ WriteDeployed
PageStep ==
  \/ Poll
  \/ \E answer \in fetches : Answered(answer)
  \/ \E call \in pending : Created(call) \/ NotCreated(call)
StackNext ==
  \/ Boot \/ NodeStep \/ SyncFails \/ Exit \/ Develop \/ PageStep
  \/ \E game \in {BuiltIn, Own} : Start(game)
StackSpec == StackInit /\ [][StackNext]_stackVars

\* At most one runtime follows the chain: the one on the page, which is of the
\* configuration that was applied last, beside no error; and the page says that
\* it starts one exactly while the call for that configuration is under way.
\* (The cancelled flags of the effect, App.tsx; feeds poll until stopped.)
OneRuntime ==
  /\ live = {runtime} \ {None}
  /\ runtime # None => runtime = effects /\ ~starting /\ error = NoError
  /\ starting <=> \E call \in pending : Current(call)

\* What makes it inductive: every call is of an effect that ran, the last one's
\* of the configuration that is applied.
CallsOfEffects ==
  /\ effects \in Nat /\ (starting => error = NoError)
  /\ \A call \in pending :
       /\ call = [effect |-> call.effect, of |-> call.of] /\ call.effect \in 1..effects
       /\ Current(call) => call.of = applied
RuntimeInv == CallsOfEffects /\ OneRuntime

\* What the running node lists it has registered, and of every file all the
\* games of one revision or none: never those before one that failed, and
\* never some of an old revision beside some of a new one.
\* (deployGamesFromFile, and the entry that sync keeps when it throws.)
ListedWhole ==
  written =>
    /\ file.host = host /\ file.games \subseteq registered
    /\ \A f \in ContractFiles :
         LET games == {g \in file.games : g.file = f}
         IN  games # {} => \E r \in Revisions \ Broken :
               /\ \A g \in games : g.revision = r
               /\ Cardinality(games) = GamesIn[r]

\* What makes it inductive: each entry is whole, and so is what it will be
\* replaced by once the last game of the file that is in turn is deployed.
WholeOf(games, f) ==
  /\ \A g \in games : g.file = f
  /\ games # {} => \E r \in Revisions \ Broken :
       (\A g \in games : g.revision = r) /\ Cardinality(games) = GamesIn[r]
SyncShape ==
  sync = [running |-> sync.running, changed |-> sync.changed, todo |-> sync.todo,
          file |-> sync.file, revision |-> sync.revision, made |-> sync.made]
SyncWhole ==
  Deploying =>
    /\ sync.file \in ContractFiles /\ sync.revision \in Revisions \ Broken
    /\ IsFiniteSet(sync.made) /\ sync.made \subseteq registered
    /\ \A g \in sync.made : g.file = sync.file /\ g.revision = sync.revision
WatcherWhole ==
  /\ folder \in [ContractFiles -> Revisions \cup {Missing}] /\ SyncShape /\ SyncWhole
  /\ entries = [f \in ContractFiles |-> Entry(entries[f].revision, entries[f].games)]
  /\ \A f \in ContractFiles :
       WholeOf(entries[f].games, f) /\ entries[f].games \subseteq registered
ListedInv ==
  /\ WatcherWhole
  /\ node \in {"off", "booting"} => ~written
  /\ written => \A f \in ContractFiles : WholeOf({g \in file.games : g.file = f}, f)
  /\ ListedWhole

\* Where the node stays up, the panel lists in the end the games of the text
\* that each file has, those of removed files no more, and for a file that does
\* not compile or deploy those of the last text that did, as long as this boot
\* has seen it.  Out of reach: a file that changed after the first scan had read
\* it, until the folder changes again.
\* (The debounced queue, currentGames, writeDeployed and the poll of the page.)
UpToDate(f) ==
  LET games == {g \in detected.games : g.file = f}
  IN  \/ f \in missed
      \/ (folder[f] \in Broken \/ Failed(f)) /\ games = good[f]
      \/ folder[f] = Missing /\ games = {}
      \/ /\ folder[f] \notin Broken \cup {Missing}
         /\ \A g \in games : g.revision = folder[f]
         /\ Cardinality(games) = GamesIn[folder[f]]
\* And nobody has to click: the page starts a runtime, and if it is one for the
\* built-in game then on a host that knows this game.  The premise: the first
\* file that it reads is not one that an earlier boot left, and no request of
\* the start fails, since it starts once.  (The poll fills the panel once; main
\* registers the game before it writes the file.)
BuiltInKnown == applied.game = BuiltIn => <<applied.proxy, BuiltIn>> \in whitelist
StartsAlone ==
  file = NoFile /\ [](boots <= 1 /\ error # FailedCall)
    => <>(clicked \/ (runtime # None /\ BuiltInKnown))
StackComesUp ==
  <>[](node = "ready") => <>[](\A f \in ContractFiles : UpToDate(f)) /\ StartsAlone
=============================================================================

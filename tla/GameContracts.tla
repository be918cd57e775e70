---------------------------- MODULE GameContracts ----------------------------
(***************************************************************************)
(* The watcher of the contracts folder (local-node/game-contracts.ts).     *)
(* Every game in a source file that the developer drops in is compiled,    *)
(* deployed and registered on the host; syncs run one after the other, the *)
(* first before the folder is watched.  The developer writes the files     *)
(* meanwhile.                                                              *)
(*                                                                         *)
(* A file holds a revision, which stands for its text: how many games it   *)
(* defines that can be deployed, or that it does not compile.  Revisions   *)
(* do not import one another.  A watch event is not lost.                  *)
(***************************************************************************)
EXTENDS Integers, SequencesExt

CONSTANTS
  FileCount,   \* the files are numbered in the order of their names
  Revisions,   \* what a file can hold
  Broken,      \* the revisions that do not compile
  GamesIn,     \* how many games each of the others defines
  MaxEvents    \* bound: changes to the folder, deployments that fail, and what
               \* else happens from outside

ContractFiles == 1..FileCount
ASSUME GameContractsAssumption ==
  /\ FileCount \in Nat /\ MaxEvents \in Nat
  /\ Broken \subseteq Revisions /\ GamesIn \in [Revisions \ Broken -> Nat]

Missing == "missing"     \* no file, no entry, nothing in deployment

VARIABLES
  folder,      \* what each file holds
  events,      \* how many of those there were
  entries,     \* deployed: per file the revision and the games of its entry
  sync,        \* the sync that runs: files to do, and what it has deployed
  queued,      \* syncs on the queue behind it
  debounce,    \* whether the timer is armed
  watching,
  deployments, \* how many games were deployed
  registered,  \* the games that are registered on the host
  good,        \* history: the games of each file's last revision that deployed
  missed       \* history: files changed after the first scan had read them

watcherVars == <<entries, sync, queued, debounce, watching, good, missed>>
chainVars == <<deployments, registered>>
contractVars == <<folder, watcherVars, chainVars>>

Game(file, revision, address) == [file |-> file, revision |-> revision, address |-> address]
Entry(revision, games) == [revision |-> revision, games |-> games]
NoEntry == Entry(Missing, {})

NoSync ==
  [running |-> FALSE, changed |-> FALSE, todo |-> << >>, file |-> 0,
   revision |-> Missing, made |-> {}]
NewSync ==
  [NoSync EXCEPT
     !.running = TRUE,
     !.changed = \E f \in ContractFiles : folder[f] = Missing /\ entries[f] # NoEntry,
     !.todo = SetToSortSeq({f \in ContractFiles : folder[f] # Missing}, <)]

\* Starting a sync drops the entries of files that are gone.
Listed(present) == [f \in ContractFiles |-> IF present[f] = Missing THEN NoEntry ELSE entries[f]]
CurrentGames == UNION {entries[f].games : f \in ContractFiles}

ContractsInit ==
  /\ folder \in [ContractFiles -> Revisions \cup {Missing}] /\ events = 0
  /\ entries = [f \in ContractFiles |-> NoEntry] /\ sync = NoSync
  /\ queued = 0 /\ debounce = FALSE /\ watching = FALSE
  /\ deployments = 0 /\ registered = {}
  /\ good = [f \in ContractFiles |-> {}] /\ missed = {}

-----------------------------------------------------------------------------
\* The developer saves, creates or removes a file; the watch callback arms the
\* timer anew.
Edit(f, revision) ==
  /\ events < MaxEvents /\ folder[f] # revision
  /\ folder' = [folder EXCEPT ![f] = revision] /\ events' = events + 1
  /\ debounce' = (debounce \/ watching)
  /\ missed' = IF sync.running /\ ~watching /\ f \notin ToSet(sync.todo)
               THEN missed \cup {f} ELSE missed
  /\ UNCHANGED <<entries, sync, queued, watching, good, chainVars>>

\* Mutant: a change is dropped while a sync runs.
DebounceFiresIdle ==
  /\ debounce /\ debounce' = FALSE
  /\ queued' = IF sync.running THEN queued ELSE queued + 1
  /\ UNCHANGED <<folder, events, entries, sync, watching, good, missed, chainVars>>
DebounceFires ==
  /\ debounce /\ debounce' = FALSE
  /\ queued' = queued + 1
  /\ UNCHANGED <<folder, events, entries, sync, watching, good, missed, chainVars>>

SyncStarts ==
  /\ queued > 0 /\ ~sync.running
  /\ queued' = queued - 1 /\ sync' = NewSync /\ entries' = Listed(folder)
  /\ good' = [f \in ContractFiles |-> IF folder[f] = Missing THEN {} ELSE good[f]]
  /\ missed' = {}
  /\ UNCHANGED <<folder, events, debounce, watching, chainVars>>

\* The next file: gone again, known, broken, or with games to deploy.
Reading == sync.running /\ sync.file = 0 /\ sync.todo # << >>
Turn(f) == Reading /\ f = Head(sync.todo)
Known(f) == folder[f] \in {Missing, entries[f].revision}
SkipFile(f) ==
  /\ Turn(f) /\ Known(f)
  /\ sync' = [sync EXCEPT !.todo = Tail(@)]
  /\ UNCHANGED <<folder, events, entries, queued, debounce, watching, good, missed, chainVars>>
\* Mutant: a file that does not compile loses the games it had.
CompileFailsBare(f) ==
  /\ Turn(f) /\ ~Known(f) /\ folder[f] \in Broken
  /\ entries' = [entries EXCEPT ![f] = Entry(folder[f], {})]
  /\ sync' = [sync EXCEPT !.todo = Tail(@)]
  /\ UNCHANGED <<folder, events, queued, debounce, watching, good, missed, chainVars>>
CompileFails(f) ==
  /\ Turn(f) /\ ~Known(f) /\ folder[f] \in Broken
  /\ entries' = [entries EXCEPT ![f].revision = folder[f]]
  /\ sync' = [sync EXCEPT !.todo = Tail(@)]
  /\ UNCHANGED <<folder, events, queued, debounce, watching, good, missed, chainVars>>
Compile(f) ==
  /\ Turn(f) /\ ~Known(f) /\ folder[f] \notin Broken
  /\ sync' = [sync EXCEPT !.todo = Tail(@), !.file = f, !.made = {},
                          !.revision = folder[f]]
  /\ UNCHANGED <<folder, events, entries, queued, debounce, watching, good, missed, chainVars>>

\* deployGamesFromFile: each game is deployed and registered; if one fails, the
\* revision is remembered as broken and the games of the last good one stay.
\* The one that fails may be on the chain by then, only not registered.
Deploying == sync.file # 0
Remaining == GamesIn[sync.revision] - Cardinality(sync.made)
DeployGame ==
  /\ Deploying /\ Remaining > 0
  /\ LET game == Game(sync.file, sync.revision, deployments + 1)
     IN  /\ sync' = [sync EXCEPT !.made = @ \cup {game}]
         /\ registered' = registered \cup {game}
  /\ deployments' = deployments + 1
  /\ UNCHANGED <<folder, events, entries, queued, debounce, watching, good, missed>>
\* Mutant: the games before the one that failed are listed.
DeployFailsHalfway ==
  /\ Deploying /\ Remaining > 0 /\ events < MaxEvents
  /\ events' = events + 1
  /\ entries' = [entries EXCEPT ![sync.file] = Entry(sync.revision, sync.made)]
  /\ sync' = [sync EXCEPT !.file = 0, !.changed = TRUE]
  /\ UNCHANGED <<folder, chainVars, queued, debounce, watching, good, missed>>
DeployFails ==
  /\ Deploying /\ Remaining > 0 /\ events < MaxEvents
  /\ events' = events + 1 /\ deployments' \in {deployments, deployments + 1}
  /\ entries' = [entries EXCEPT ![sync.file].revision = sync.revision]
  /\ sync' = [sync EXCEPT !.file = 0]
  /\ UNCHANGED <<folder, registered, queued, debounce, watching, good, missed>>
FileDeployed ==
  /\ Deploying /\ Remaining = 0
  /\ entries' = [entries EXCEPT ![sync.file] = Entry(sync.revision, sync.made)]
  /\ sync' = [sync EXCEPT !.file = 0, !.changed = TRUE]
  /\ good' = [good EXCEPT ![sync.file] = sync.made]
  /\ UNCHANGED <<folder, events, queued, debounce, watching, missed, chainVars>>

\* The end of a sync; after the first the folder is watched.
SyncEnds ==
  /\ sync.running /\ sync.todo = << >> /\ ~Deploying
  /\ sync' = NoSync /\ watching' = TRUE
  /\ UNCHANGED <<folder, events, entries, queued, debounce, good, missed, chainVars>>

FileStep == \E f \in ContractFiles : SkipFile(f) \/ CompileFails(f) \/ Compile(f)
WatcherStep == DebounceFires \/ SyncStarts \/ FileStep \/ DeployGame \/ FileDeployed

\* The process ends with everything that it has in memory.
ForgetWatcher ==
  /\ entries' = [f \in ContractFiles |-> NoEntry] /\ sync' = NoSync
  /\ queued' = 0 /\ debounce' = FALSE /\ watching' = FALSE
  /\ good' = [f \in ContractFiles |-> {}] /\ missed' = {}

\* A revision whose deployment failed: nothing deploys it before another change.
Failed(f) ==
  /\ entries[f].revision \notin Broken \cup {Missing}
  /\ Cardinality({g \in entries[f].games : g.revision = entries[f].revision})
       < GamesIn[entries[f].revision]
=============================================================================

----------------------------- MODULE ConfigSync -----------------------------
(***************************************************************************)
(* Synchronising the configuration of a unit with that of another one:     *)
(* the replication module (modules/replication), the SYNC_FROM, SAVE and   *)
(* CONFIG_VERSION commands of the remote control (core/RemoteControl.cpp), *)
(* the tasks they start (core/tasks/FetchRemoteConfig.cpp, SyncConfig.cpp, *)
(* core/config/RemoteConfigCollector.cpp), the module manager that stops   *)
(* and starts modules under them, and the main loop, shutdown and restart  *)
(* of the kernel (core/kernel.cpp, main.cpp).                              *)
(*                                                                         *)
(* Tasks are run by Scheduling, which TaskScheduler implements.  Threads:  *)
(* the main thread, the thread of the replication module, one pool thread  *)
(* per fetch.  The other modules only react to being stopped.  Assertions  *)
(* are those of a release build: they do nothing.                          *)
(***************************************************************************)
EXTENDS ConfigManager, Sequences, FiniteSets

CONSTANTS
    None,
    Replication,        \* the name of the replication module
    Round,              \* the rounds the replication module may make
    Request,            \* the SYNC_FROM requests that clients send
    Autocommit,         \* the autocommit flag of each request
    General,            \* the "also sync general config" flag of each request
    File,               \* our configuration file at first
    Master,             \* the configurations the other unit goes through
    Installed,          \* modules whose shared library is in the plugin path
    Broken,             \* module configurations with which the module does not start
    Rank                \* position of each module in our configuration file

Module == DOMAIN Rank

Id == Round \cup Request

\* The tasks: what a replication round and a request create.
Task ==
    {<<k, r>> : k \in {"local", "remote"}, r \in Round}
        \cup {<<k, i>> : k \in {"fetch", "sync"}, i \in Id}
        \cup {<<"abort", q>> : q \in Request}

Fetch(i) == <<"fetch", i>>
Sync(i) == <<"sync", i>>

Client == {"main", Replication}


Target ==
    [t \in Task |-> IF t[1] \in {"remote", "fetch"} THEN "POOL" ELSE "MAIN"]

OnSuccess == [t \in Task |-> IF t[1] = "fetch" THEN Sync(t[2]) ELSE None]


OnFailure ==
    [t \in Task |-> IF t[1] = "fetch" /\ t[2] \in Request THEN <<"abort", t[2]>>
                    ELSE None]

VARIABLES
    queue, stage, success, waiting, \* the scheduler
    main,     \* where the main thread is
    run,      \* tasks that update() still has to run
    closing,  \* the kernel is in shutdown()
    running,  \* is_running_
    cm,       \* the ConfigManager
    backup,   \* the copy of it that SyncConfig takes
    disk,     \* the configuration file
    files,    \* the additional files of modules on disk
    autosave, \* autosave_, read when the kernel is built
    loaded,   \* modules_ of the module manager
    actor,    \* the thread of each module
    rpc,      \* where the replication thread is
    seen,     \* its current round and the versions it has read
    master,   \* which of its configurations the other unit runs
    col,      \* what each fetch has collected
    reply     \* the last answer to each SYNC_FROM request

schedVars == <<queue, stage, success, waiting>>
unitVars == <<cm, backup, disk, files, autosave, loaded>>
replVars == <<rpc, seen>>
mainVars == <<main, run, closing, running>>
vars == <<schedVars, unitVars, replVars, mainVars, actor, master, col, reply>>

Sched == INSTANCE Scheduling

\* The level of a module, from its configuration.
Level(c, m) == c.modules[m].level

\* modules_ after loadModule() of the modules in names, in the order of rank:
\* it is a std::set ordered by level alone, so the first of each level stays.
LoadedFrom(c, names, rank) ==
    {m \in names \cap Installed : \A o \in names \cap Installed :
        o # m /\ Level(c, o) = Level(c, m) => rank[m] < rank[o]}

\* The modules that cannot be initialised with their configuration.
Failing(c, mods) == {m \in mods : c.modules[m].data \in Broken}

\* The states of the threads after initModules(), which throws at the first
\* module that cannot be initialised.
Started(c, mods) ==
    [m \in Module |->
        IF m \in mods /\ \A o \in Failing(c, mods) : Level(c, m) < Level(c, o)
        THEN "running" ELSE "none"]

\* The ConfigManager of a kernel built from the file.
Booted(file) ==
    [Constructed(Put(file.kconfig, Entry("kernel-cfg", "path")))
        EXCEPT !.modules = file.modules]

\* Kernel::module_manager_init throws, and main() exits, without plugin directories,
\* if a library is missing or if a module cannot be initialised.
Bootable(file) ==
    LET c == Booted(file)
    IN  /\ {"plugin_directories", "instance_name"} \subseteq DOMAIN file.kconfig
        /\ DOMAIN file.modules \subseteq Installed
        /\ Failing(c, LoadedFrom(c, DOMAIN c.modules, Rank)) = {}

Autosaves(c) == "autosave" \in DOMAIN c.kconfig /\ c.kconfig["autosave"]

\* What save_config() writes to the file.
Saved == get_application_config(cm)

EmptyCollector ==
    [pc |-> "version", ok |-> FALSE, version |-> 0, general |-> [x \in {} |-> 0], list |-> {},
     modules |-> [m \in {} |-> 0]]

Init ==
    /\ Sched!Init
    /\ main = "poll" /\ run = 0 /\ closing = FALSE /\ running = TRUE
    /\ disk = File
    /\ cm = Booted(File) /\ backup = cm
    /\ files = [m \in Module |-> IF has_config(cm, m) THEN cm.modules[m].data ELSE None]
    /\ autosave = Autosaves(cm)
    /\ loaded = LoadedFrom(cm, DOMAIN cm.modules, Rank)
    /\ actor = Started(cm, loaded)
    /\ rpc = IF actor[Replication] = "running" THEN "loop" ELSE "off"
    /\ seen = [round |-> None, local |-> 0, remote |-> None]
    /\ master = 1
    /\ col = [i \in Id |-> EmptyCollector]
    /\ reply = [q \in Request |-> "none"]

TypeOK ==
    /\ Sched!TypeOK
    /\ main \in {"poll", "update", "task", "stop", "apply", "halt", "dead"}
    /\ run \in Nat /\ closing \in BOOLEAN /\ running \in BOOLEAN
    /\ loaded \subseteq Module
    /\ actor \in [Module -> {"none", "running", "stopping", "exited"}]
    /\ rpc \in {"off", "poll", "loop", "local", "ask", "remote", "decide"}
    /\ seen.local \in Nat /\ seen.remote \in Nat \cup {None}
    /\ master \in DOMAIN Master
    /\ \A i \in Id : col[i].pc \in {"version", "general", "list", "modules", "end"}
    /\ reply \in [Request -> {"none", "DELAYED", "Success", "Failed", "Aborted", "lost"}]

-----------------------------------------------------------------------------
(* The other unit *)

\* Somebody changes its configuration and increments the version.
MasterEdit ==
    /\ master < Len(Master)
    /\ master' = master + 1
    /\ UNCHANGED <<schedVars, unitVars, replVars, mainVars, actor, col, reply>>

Remote == Master[master]

-----------------------------------------------------------------------------
(* Pool threads *)

\* A pool thread starts or ends the run() of its task.
PoolThread(t) ==
    /\ Target[t] = "POOL"
    /\ Sched!Begin(t) \/ Sched!Complete(t)
    /\ UNCHANGED <<unitVars, replVars, mainVars, actor, master, col, reply>>

\* GetRemoteConfigVersion: an answer, or a timeout.
GetRemoteVersion(r, ok) ==
    /\ Sched!Finish(<<"remote", r>>, ok)
    /\ seen' = [seen EXCEPT !.remote = IF ok THEN Remote.version ELSE None]
    /\ UNCHANGED <<unitVars, rpc, mainVars, actor, master, col, reply>>

\* RemoteConfigCollector::fetch_config() asks one question at a time, and the
\* other unit may change between two answers.
Collect(i, pc, new) ==
    /\ stage[Fetch(i)] = "running"
    /\ col[i].pc = pc
    /\ col' = [col EXCEPT ![i] = new]
    /\ UNCHANGED <<schedVars, unitVars, replVars, mainVars, actor, master, reply>>

FetchVersion(i) ==
    Collect(i, "version", [col[i] EXCEPT !.version = Remote.version, !.pc = "general"])

FetchGeneral(i) ==
    Collect(i, "general", [col[i] EXCEPT !.general = get_exportable_general_config(Remote),
                                         !.pc = "list"])

FetchList(i) ==
    Collect(i, "list", [col[i] EXCEPT !.list = DOMAIN Remote.modules, !.pc = "modules"])

\* The modules whose configuration is still to be fetched.
Unfetched(i) == col[i].list \ DOMAIN col[i].modules

FetchModule(i) ==
    \E m \in Unfetched(i) \cap DOMAIN Remote.modules :
        /\ \A o \in Unfetched(i) : Rank[m] <= Rank[o]
        /\ Collect(i, "modules",
                   [col[i] EXCEPT !.modules = Put(@, Entry(m, Remote.modules[m]))])

\* Mutant of FetchCompare: the second answer is not compared.
FetchCompareNothing(i) ==
    /\ Unfetched(i) = {}
    /\ Collect(i, "modules", [col[i] EXCEPT !.ok = TRUE, !.pc = "end"])

\* The version is asked for again and compared with the first answer.
FetchCompare(i) ==
    /\ Unfetched(i) = {}
    /\ Collect(i, "modules",
               [col[i] EXCEPT !.ok = (Remote.version = col[i].version), !.pc = "end"])

FetchEnd(i) ==
    /\ col[i].pc = "end"
    /\ Sched!Finish(Fetch(i), col[i].ok)
    /\ UNCHANGED <<unitVars, replVars, mainVars, actor, master, col, reply>>

\* No answer in time, or a module that is not loaded there any more.
FetchFail(i) ==
    /\ col[i].pc # "end"
    /\ Sched!Finish(Fetch(i), FALSE)
    /\ UNCHANGED <<unitVars, replVars, mainVars, actor, master, col, reply>>

PoolStep ==
    \/ \E t \in Task : PoolThread(t)
    \/ \E r \in Round, ok \in BOOLEAN : GetRemoteVersion(r, ok)
    \/ \E i \in Id : \/ FetchVersion(i) \/ FetchGeneral(i) \/ FetchList(i)
                     \/ FetchModule(i) \/ FetchCompare(i) \/ FetchEnd(i) \/ FetchFail(i)

-----------------------------------------------------------------------------
(* Module threads *)

\* A module other than the replication module sees the stop signal.
ModuleExit(m) ==
    /\ m # Replication
    /\ actor[m] = "stopping"
    /\ actor' = [actor EXCEPT ![m] = "exited"]
    /\ UNCHANGED <<schedVars, unitVars, replVars, mainVars, master, col, reply>>

\* The loop of ReplicationModule::run: it sees the signal only in its reactor,
\* between two looks at the clock.
ReplicationPoll ==
    /\ \/ rpc = "loop" /\ rpc' = "poll"
       \/ rpc = "poll" /\ actor[Replication] # "stopping" /\ rpc' = "loop"
    /\ UNCHANGED <<schedVars, unitVars, seen, mainVars, actor, master, col, reply>>

ReplicationExit ==
    /\ actor[Replication] = "stopping"
    /\ rpc = "poll"
    /\ rpc' = "off"
    /\ actor' = [actor EXCEPT ![Replication] = "exited"]
    /\ UNCHANGED <<schedVars, unitVars, seen, mainVars, master, col, reply>>

FreshRounds == {r \in Round : stage[<<"local", r>>] = "new"}

\* replicate(), whenever the delay has passed, what the last round has started
\* being over or not: the local version is read on the main thread...
ReplicationLocal ==
    /\ rpc = "loop"
    /\ FreshRounds # {}
    /\ LET r == CHOOSE r \in FreshRounds : TRUE
       IN  /\ Sched!Submit(Replication, <<"local", r>>, TRUE)
           /\ seen' = [seen EXCEPT !.round = r]
    /\ rpc' = "local"
    /\ UNCHANGED <<unitVars, mainVars, actor, master, col, reply>>

\* ...then the remote version by a pool thread...
ReplicationRemote ==
    /\ rpc = "ask"
    /\ Sched!Submit(Replication, <<"remote", seen.round>>, TRUE)
    /\ rpc' = "remote"
    /\ UNCHANGED <<unitVars, seen, mainVars, actor, master, col, reply>>

\* (the wait() for either task returns)
ReplicationReturn ==
    /\ Sched!Return(Replication)
    /\ rpc' = IF rpc = "local" THEN "ask" ELSE "decide"
    /\ UNCHANGED <<unitVars, seen, mainVars, actor, master, col, reply>>

RemoteIsNewer == IF seen.remote = None THEN FALSE ELSE seen.remote > seen.local

\* ...and if the remote version is greater, start_sync() begins a fetch.
ReplicationDecide ==
    /\ rpc = "decide"
    /\ \/ RemoteIsNewer /\ Sched!Submit(Replication, Fetch(seen.round), FALSE)
       \/ ~RemoteIsNewer /\ UNCHANGED schedVars
    /\ rpc' = "poll"
    /\ UNCHANGED <<unitVars, seen, mainVars, actor, master, col, reply>>

ModuleStep ==
    \/ \E m \in Module : ModuleExit(m)
    \/ ReplicationPoll \/ ReplicationExit \/ ReplicationLocal \/ ReplicationRemote
    \/ ReplicationReturn \/ ReplicationDecide

-----------------------------------------------------------------------------
(* The main thread: Kernel::run *)

\* The reactor has handled what there was, and update() reads the queue's length.
EndPoll ==
    /\ main = "poll"
    /\ main' = "update"
    /\ run' = Len(queue')
    /\ UNCHANGED <<replVars, closing, actor, master, col>>

PollNothing ==
    /\ UNCHANGED <<schedVars, unitVars, running, reply>>
    /\ EndPoll

\* handle_control_request: RESTART
PollRestart ==
    /\ running' = FALSE
    /\ UNCHANGED <<schedVars, unitVars, reply>>
    /\ EndPoll

\* RemoteControl::handle_sync_from
PollSyncFrom(q) ==
    /\ main = "poll"
    /\ reply[q] = "none"
    /\ Sched!Submit("main", Fetch(q), FALSE)
    /\ reply' = [reply EXCEPT ![q] = "DELAYED"]
    /\ UNCHANGED <<unitVars, running>>
    /\ EndPoll

\* RemoteControl::handle_save
PollSave ==
    /\ disk' = Saved
    /\ UNCHANGED <<schedVars, cm, backup, files, autosave, loaded, running, reply>>
    /\ EndPoll

\* Mutant of UpdateBegin: the queue is run until it is empty.
UpdateBeginAny(t) ==
    /\ main = "update"
    /\ Target[t] = "MAIN"
    /\ Sched!Begin(t)
    /\ main' = "task"
    /\ UNCHANGED <<unitVars, replVars, run, closing, running, actor, master, col, reply>>

\* update() runs the next MAIN task.
UpdateBegin(t) ==
    /\ main = "update"
    /\ run > 0
    /\ Target[t] = "MAIN"
    /\ Sched!Begin(t)
    /\ main' = "task"
    /\ UNCHANGED <<unitVars, replVars, run, closing, running, actor, master, col, reply>>

UpdateTaskDone(t) ==
    /\ main = "task"
    /\ Target[t] = "MAIN"
    /\ Sched!Complete(t)
    /\ main' = "update"
    /\ run' = run - 1
    /\ UNCHANGED <<unitVars, replVars, closing, running, actor, master, col, reply>>

\* Back to the reactor.  The loop of run() ends when is_running_ is false: the
\* modules are told to stop, and the loop of shutdown() goes on for 5 seconds.
UpdateEnd ==
    /\ main = "update"
    /\ run = 0
    /\ main' = "poll"
    /\ \/ /\ running \/ closing
          /\ UNCHANGED <<closing, actor>>
       \/ /\ ~running /\ ~closing
          /\ closing' = TRUE
          /\ actor' = [m \in Module |-> IF actor[m] = "running" THEN "stopping"
                                        ELSE actor[m]]
    /\ UNCHANGED <<schedVars, unitVars, replVars, run, running, master, col, reply>>

\* The 5 seconds are over, whatever the modules that were told to stop do.
ShutdownEnd ==
    /\ main = "poll"
    /\ closing
    /\ disk' = IF autosave THEN Saved ELSE disk
    /\ main' = "halt"
    /\ UNCHANGED <<schedVars, cm, backup, files, autosave, loaded, replVars, run,
                   closing, running, actor, master, col, reply>>

-----------------------------------------------------------------------------
(* The bodies of the MAIN tasks *)

GetLocalVersion(r) ==
    /\ Sched!Finish(<<"local", r>>, TRUE)
    /\ seen' = [seen EXCEPT !.local = cm.version]
    /\ UNCHANGED <<unitVars, rpc, mainVars, actor, master, col, reply>>

AbortResponse(q) ==
    /\ Sched!Finish(<<"abort", q>>, TRUE)
    /\ reply' = [reply EXCEPT ![q] = "Aborted"]
    /\ UNCHANGED <<unitVars, replVars, mainVars, actor, master, col>>

\* Mutant of Commits: a round does not commit.
CommitsRequest(i) == i \in Request /\ Autocommit[i]

\* The replication module always asks for both.
SyncsGeneral(i) == i \in Round \/ (i \in Request /\ General[i])
Commits(i) == i \in Round \/ (i \in Request /\ Autocommit[i])

\* SyncConfig::do_run and sync_config, up to stopModules().
SyncStart(i) ==
    /\ main = "task"
    /\ stage[Sync(i)] = "running"
    /\ main' = "stop"
    /\ backup' = cm
    /\ cm' = IF SyncsGeneral(i) THEN set_kconfig(cm, col[i].general) ELSE cm
    /\ running' = (running /\ ~SyncsGeneral(i))
    /\ UNCHANGED <<schedVars, disk, files, autosave, loaded, replVars, run, closing,
                   actor, master, col, reply>>

\* stopModules(): one module after the other, the highest level first; the main
\* thread sends the stop signal and then waits for the thread to exit.
StopModule(m) ==
    /\ main \in {"stop", "halt"}
    /\ m \in loaded
    /\ \A o \in loaded : actor[o] # "none" => Level(cm, o) <= Level(cm, m)
    /\ \/ /\ actor[m] = "running"
          /\ actor' = [actor EXCEPT ![m] = "stopping"]
       \/ /\ actor[m] = "exited"
          /\ actor' = [actor EXCEPT ![m] = "none"]
    /\ UNCHANGED <<schedVars, unitVars, replVars, mainVars, master, col, reply>>

AllStopped == \A m \in loaded : actor[m] = "none"

\* Mutant of SyncStopped: a soft stop, which does not wait for the threads.
SyncStoppedSoft ==
    /\ main = "stop"
    /\ loaded' = {}
    /\ main' = "apply"
    /\ UNCHANGED <<schedVars, cm, backup, disk, files, autosave, replVars, run, closing,
                   running, actor, master, col, reply>>

SyncStopped ==
    /\ main = "stop"
    /\ AllStopped
    /\ loaded' = {}
    /\ main' = "apply"
    /\ UNCHANGED <<schedVars, cm, backup, disk, files, autosave, replVars, run, closing,
                   running, actor, master, col, reply>>

\* The configurations of the modules after the import.
Imported(i) == {m \in col[i].list : is_module_importable(cm, m)}

\* Mutant of Restored: everything is restored from the backup.
RestoredAll(i) == DOMAIN backup.modules

Restored(i) ==
    {m \in (col[i].list \ Imported(i)) \cup get_non_importable_modules(backup) :
        has_config(backup, m)}

AfterImport(i) ==
    config_version(
        [cm EXCEPT !.modules = Put(Put(@, Only(col[i].modules, Imported(i))),
                                   Only(backup.modules, Restored(i)))],
        col[i].version)

\* The rest of sync_config(): import, load, set the version, start, save.
SyncApply(i) ==
    LET c == AfterImport(i)
        rank == [m \in col[i].list |-> col[i].modules[m].level]
        mods == LoadedFrom(c, {m \in col[i].list : has_config(c, m)}, rank)
        ok == Failing(c, mods) = {}
    IN  /\ main = "apply"
        /\ stage[Sync(i)] = "running"
        /\ cm' = c
        /\ files' = [m \in Module |-> IF m \in Imported(i) THEN col[i].modules[m].data
                                      ELSE files[m]]
        /\ loaded' = mods
        /\ actor' = Started(c, mods)
        /\ rpc' = IF actor'[Replication] = "running" THEN "loop" ELSE "off"
        /\ disk' = IF ok /\ Commits(i) THEN get_application_config(c) ELSE disk
        /\ reply' = [q \in Request |-> IF q # i THEN reply[q]
                                       ELSE IF ok THEN "Success" ELSE "Failed"]
        /\ Sched!Finish(Sync(i), ok)
        /\ main' = "task"
        /\ UNCHANGED <<backup, autosave, seen, run, closing, running, master, col>>

\* The destructor of the kernel has stopped the modules, and main() builds a new
\* kernel from the file.  Tasks of the old kernel are gone.  Modules start as they
\* did the first time.
Boot ==
    /\ main = "halt"
    /\ AllStopped
    /\ \/ /\ Bootable(disk)
          /\ main' = "poll" /\ run' = 0 /\ closing' = FALSE /\ running' = TRUE
          /\ cm' = Booted(disk) /\ backup' = cm'
          /\ autosave' = Autosaves(cm')
          /\ loaded' = LoadedFrom(cm', DOMAIN cm'.modules, Rank)
          /\ actor' = Started(cm', loaded')
          /\ rpc' = IF actor'[Replication] = "running" THEN "loop" ELSE "off"
          /\ queue' = <<>>
          /\ stage' = [t \in Task |-> IF stage[t] = "new" THEN "new" ELSE "complete"]
          /\ waiting' = [c \in Client |-> None]
          /\ reply' = [q \in Request |-> IF reply[q] = "DELAYED" THEN "lost" ELSE reply[q]]
          /\ UNCHANGED <<success, disk, files, seen, master, col>>
       \/ /\ ~Bootable(disk)
          /\ main' = "dead"
          /\ UNCHANGED <<schedVars, unitVars, replVars, run, closing, running, actor,
                         master, col, reply>>

MainStep ==
    \/ PollNothing \/ PollRestart \/ PollSave \/ UpdateEnd \/ ShutdownEnd \/ SyncStopped \/ Boot
    \/ \E q \in Request : PollSyncFrom(q) \/ AbortResponse(q)
    \/ \E t \in Task : UpdateBegin(t) \/ UpdateTaskDone(t)
    \/ \E r \in Round : GetLocalVersion(r)
    \/ \E m \in Module : StopModule(m)
    \/ \E i \in Id : SyncStart(i) \/ SyncApply(i)

Next == MasterEdit \/ PoolStep \/ ModuleStep \/ MainStep

Spec == Init /\ [][Next]_vars

\* Threads go on when they can, the other unit answers or the timeout strikes, and
\* the 5 seconds of shutdown() pass.  Nobody has to edit, to send requests or to
\* start a round.
Fairness ==
    /\ WF_vars(MainStep /\ disk' = disk)
    /\ WF_vars(\E i \in Id : SyncApply(i))
    /\ SF_vars(ShutdownEnd)
    /\ \A t \in Task : WF_vars(PoolThread(t))
    /\ \A r \in Round : WF_vars(\E ok \in BOOLEAN : GetRemoteVersion(r, ok))
    /\ \A i \in Id : WF_vars(\/ FetchVersion(i) \/ FetchGeneral(i) \/ FetchList(i)
                             \/ FetchModule(i) \/ FetchCompare(i) \/ FetchEnd(i) \/ FetchFail(i))
    /\ \A m \in Module : WF_vars(ModuleExit(m))
    /\ WF_vars(ReplicationPoll) /\ WF_vars(ReplicationExit) /\ WF_vars(ReplicationRemote)
    /\ WF_vars(ReplicationReturn) /\ WF_vars(ReplicationDecide)

FairSpec == Spec /\ Fairness

-----------------------------------------------------------------------------
(* Properties *)

\* A fetch that succeeds has read one configuration of the other unit, though it
\* asked for its parts one by one: comparing the version before and after is
\* enough, as long as every change increments the version.
FetchIsSnapshot ==
    \A i \in Id : success[Fetch(i)] =>
        \E k \in DOMAIN Master :
            /\ col[i].version = Master[k].version
            /\ col[i].general = get_exportable_general_config(Master[k])
            /\ col[i].modules = Master[k].modules

\* Whoever reads our version between two tasks, in memory or in the file, can rely
\* on it: the configurations of the modules are those of that version.
VersionTellsModules ==
    main \in {"poll", "update", "halt"} =>
        \A k \in DOMAIN Master :
            LET imported == DOMAIN Master[k].modules \ get_non_importable_modules(cm)
                of == Only(Master[k].modules, imported)
            IN  /\ cm.version = Master[k].version => Only(cm.modules, imported) = of
                /\ FileVersion(disk.kconfig) = Master[k].version =>
                      Only(disk.modules, imported) = of

\* <no_import>: neither the configuration nor the files of these modules are added,
\* erased or updated, through any number of synchronisations, saves and restarts.
NoImportKept ==
    \A m \in File.kconfig["no_import"] :
        /\ Only(cm.modules, {m}) = Only(File.modules, {m})
        /\ Only(disk.modules, {m}) = Only(File.modules, {m})
        /\ files[m] = IF m \in DOMAIN File.modules THEN File.modules[m].data ELSE None

\* The instance name is never synchronised, neither in memory nor in the file.
InstanceNameKept ==
    \A kconfig \in {cm.kconfig, disk.kconfig} :
        Only(kconfig, {"instance_name"}) = Only(File.kconfig, {"instance_name"})

\* The configuration of modules changes only while no module thread exists, so no
\* module runs with one half of the old and one half of the new configuration.
NoModuleRunsDuringImport ==
    [][cm'.modules # cm.modules => \A m \in Module : actor[m] = "none"]_vars

\* The main thread waits for the replication thread to exit, which waits for the
\* main thread to run a task: stopModules() against fetch_local_version().
JoinsWaiter ==
    /\ main \in {"stop", "halt"}
    /\ actor[Replication] = "stopping"
    /\ rpc = "local" /\ stage[<<"local", seen.round>>] = "queued"


\* A synchronisation of the replication module that succeeds has its effect: the
\* unit restarts and then runs with the configuration that this round, or another
\* synchronisation, has fetched, unless it blocks on the way as OnlyJoinBlocks says.
SyncTakesEffect ==
    \A r \in Round : success[Sync(r)] ~>
        \/ /\ running /\ main = "poll"
           /\ \E o \in Id : success[Sync(o)] /\ cm.version = col[o].version
        \/ JoinsWaiter


-----------------------------------------------------------------------------
(* What comments and documents say, and the code does not do *)

\* SyncConfig::do_run asserts that the fetch task is complete.
FetchCompleteAtSync ==
    \A i \in Id : stage[Sync(i)] = "running" => stage[Fetch(i)] = "complete"

\* The number that CONFIG_VERSION returns only increases while the kernel runs.
VersionIncreases == [][main # "halt" => cm'.version >= cm.version]_vars

\* The main thread that stops the modules for a synchronisation comes back to its
\* reactor, where it answers CONFIG_VERSION.
ReactorServed == main = "stop" ~> main = "poll"

\* A unit that restarts to apply a general configuration comes up again.
UnitComesBack == main # "dead"
=============================================================================

---------------------------------- MODULE Queues -----------------------------------
(***************************************************************************)
(* The server's engine: the scheduler's timers, the database thread's      *)
(* statements, the database connection both threads use, the list of those *)
(* that wait to log in, spawns and raids, the registries of handlers that  *)
(* are read again while the game runs, and the calls into scripts.  The    *)
(* models share no state: focus picks one, as in modules World and         *)
(* Society, and the fairness of the queues is asked of the part in focus.  *)
(***************************************************************************)
EXTENDS Integers, FiniteSets

CONSTANTS
    Events, NoEvent, Stoppable, IdMod,
    Callers, GameThread, DbTasks, WithCallback, NoTask,
    TxnLength, Unchecked, MaxLosses, MaxTxns, MaxStatements,
    Players, Premium, AlwaysLogin, Nobody, MaxPlayers, Step, MaxTime, MaxEntries,
    Spawned, NumBlocks, RateSpawn, StartupFails, Names, Repeated, NumEvents, MaxReloads,
    MaxChecks,
    Handlers, KindOf, HasDefault, Watchers, Learners, MaxChains, MaxEnvs, MaxRefused,
    Calling, Optional,
    None

ASSUME ConstantsAssumption ==
    /\ NoEvent \notin Events /\ Stoppable \subseteq Events /\ IdMod \in Nat \ {0}
    /\ GameThread \in Callers /\ WithCallback \subseteq DbTasks /\ NoTask \notin DbTasks
    /\ TxnLength \in Nat \ {0} /\ Unchecked \subseteq 1..TxnLength
    /\ MaxLosses \in Nat /\ MaxTxns \in Nat /\ MaxStatements \in Nat
    /\ Premium \subseteq Players /\ AlwaysLogin \subseteq Players /\ Nobody \notin Players
    /\ MaxPlayers \in Nat /\ Step \in Nat \ {0} /\ MaxTime \in Nat /\ MaxEntries \in Nat

\* Monsters are finitely many objects.
ASSUME SpawnsAndRaidsAssumption ==
    /\ IsFiniteSet(Spawned) /\ NumBlocks \in Nat /\ RateSpawn \in Nat
    /\ NumEvents \in [Names -> Nat] /\ MaxReloads \in Nat /\ MaxChecks \in Nat \ {0}
    /\ None \notin Names \X (0..MaxReloads)

\* Every handler has a registry; weapons have defaults, and monsters use spells.
ASSUME RegistriesAssumption ==
    /\ Handlers \subseteq [key : DOMAIN KindOf, origin : {"xml", "lua"}, fragile : BOOLEAN]
    /\ \A k \in DOMAIN KindOf :
          KindOf[k] \in {"action", "talk", "move", "weapon", "creature", "spell", "think", "timer"}
    /\ HasDefault \subseteq {k \in DOMAIN KindOf : KindOf[k] = "weapon"}
    /\ \A m \in DOMAIN Learners : Learners[m] \subseteq {k \in DOMAIN KindOf : KindOf[k] = "spell"}
    /\ MaxChains \in Nat /\ MaxChains >= 2

ASSUME HooksAssumption == MaxEnvs \in Nat /\ MaxRefused \in Nat

VARIABLES
    focus,   \* the part this behaviour is about
    threadState, lastEventId, eventId, ready, timers, handing, ioStopped, stopAsked,
    owner, dispatcherOpen, taskList,
    workerState, tasks, pc, inHand, call, afterFlush, accepted, executed, callbacks,
    databaseLock, retryQueries, game, next, net, alive, inTxn, buffer, durable, losses,
    txns, statements,
    priorityWaitList, waitList, online, now,
    spawn, monsters,
    raids, raidState, checks, reloads, ghosts,
    handler, eventsList, learnt, globals,
    missing, frames, lua, envs, answer

Se == INSTANCE Scheduler
Dt == INSTANCE DatabaseTasks WITH threadState <- workerState, Tasks <- DbTasks
Db == INSTANCE Database
Wl == INSTANCE WaitingList
Sw == INSTANCE Spawns
Re == INSTANCE Registries

schedulerVars == <<threadState, lastEventId, eventId, ready, timers, handing, ioStopped,
                   stopAsked, owner, dispatcherOpen, taskList>>
databaseTasksVars == <<workerState, tasks, pc, inHand, call, afterFlush, accepted,
                       executed, callbacks>>
databaseVars == <<databaseLock, retryQueries, game, next, net, alive, inTxn, buffer,
                  durable, losses, txns, statements>>
waitingListVars == <<priorityWaitList, waitList, online, now>>
spawnVars == <<spawn, monsters>>
raidVars == <<raids, raidState, checks, reloads, ghosts>>
registryVars == <<handler, eventsList, learnt, globals>>
hookVars == <<missing, frames, lua, envs, answer>>

vars == <<focus, schedulerVars, databaseTasksVars, databaseVars, waitingListVars, spawnVars,
          raidVars, registryVars, hookVars>>

Init ==
    /\ focus \in {"scheduler", "database tasks", "database", "waiting list", "spawns",
                  "raids", "registries", "hooks"}
    /\ Se!Init
    /\ Dt!Init
    /\ Db!Init
    /\ Wl!Init
    /\ Sw!SpawnsInit
    /\ Sw!RaidsInit
    /\ Re!RegistriesInit
    /\ Re!HooksInit

\* The other parts stay as they are.
Only(part) ==
    /\ focus = part /\ UNCHANGED focus
    /\ IF part = "scheduler" THEN TRUE ELSE UNCHANGED schedulerVars
    /\ IF part = "database tasks" THEN TRUE ELSE UNCHANGED databaseTasksVars
    /\ IF part = "database" THEN TRUE ELSE UNCHANGED databaseVars
    /\ IF part = "waiting list" THEN TRUE ELSE UNCHANGED waitingListVars
    /\ IF part = "spawns" THEN TRUE ELSE UNCHANGED spawnVars
    /\ IF part = "raids" THEN TRUE ELSE UNCHANGED raidVars
    /\ IF part = "registries" THEN TRUE ELSE UNCHANGED registryVars
    /\ IF part = "hooks" THEN TRUE ELSE UNCHANGED hookVars

Next ==
    \/ Only("scheduler") /\ Se!Next
    \/ Only("database tasks") /\ Dt!Next
    \/ Only("database") /\ Db!Next
    \/ Only("waiting list") /\ Wl!Next
    \/ Only("spawns") /\ Sw!SpawnsNext
    \/ Only("raids") /\ Sw!RaidsNext
    \/ Only("registries") /\ Re!RegistriesNext
    \/ Only("hooks") /\ Re!HooksNext

\* Threads that can run do run, and time passes (see the parts).
Fairness ==
    /\ WF_vars(Only("scheduler") /\ Se!IoStep) /\ WF_vars(Only("scheduler") /\ Se!DispatcherRun)
    /\ \A i \in Se!Ids : WF_vars(Only("scheduler") /\ Se!Expire(i))
    /\ WF_vars(Only("database tasks") /\ Dt!WorkerStep) /\ WF_vars(Only("database tasks") /\ Dt!FlushStep)
    /\ \A c \in Callers : WF_vars(Only("database tasks") /\ Dt!Signal(c))
    /\ WF_vars(Only("database") /\ Db!GameStep) /\ SF_vars(Only("database") /\ Db!NetStep)

Spec == Init /\ [][Next]_vars /\ Fairness

-----------------------------------------------------------------------------

\* A part is looked at when it moves; the others are in their initial states.
Of(part, P) == focus = part => P

TypeOK ==
    /\ Of("scheduler", Se!TypeOK) /\ Of("database tasks", Dt!TypeOK) /\ Of("database", Db!TypeOK) /\ Of("waiting list", Wl!TypeOK)
    /\ Of("spawns", Sw!SpawnsTypeOK) /\ Of("raids", Sw!RaidsTypeOK) /\ Of("registries", Re!RegistriesTypeOK) /\ Of("hooks", Re!HooksTypeOK)

\* Scheduler::addEvent, DatabaseTasks::flush, WaitingList::clientLogin, Raids::startup and
\* reload, GlobalEvents: an event is owned by one side until it is freed, a statement is
\* executed once, a player waits in one place, timers that repeat go on in one chain, and
\* what spawns and registries point at is there, every key with the same handler after a reload.
HandledOnce ==
    /\ Of("scheduler", Se!OwnedOnce) /\ Of("database tasks", Dt!ExactlyOnce) /\ Of("waiting list", Wl!QueuedOnce)
    /\ Of("raids", Sw!RaidsGoOn) /\ Of("registries", Re!ChainsRun)
    /\ Of("spawns", Sw!SpawnReferences) /\ Of("spawns", Sw!RemovalChecked) /\ Of("registries", Re!SameHandler) /\ Of("registries", Re!PointersLive)

\* DBTransaction and Database::executeQuery: a transaction is saved as a whole, and no
\* statement of the other thread slips into it.  LuaScriptInterface: a call into a script gives
\* the Lua stack and the environments back whatever happens in it, and fails closed.
TransactionsWhole ==
    /\ Of("database", Db!AllOrNothing) /\ Of("database", Db!TxnIsolated)
    /\ Of("hooks", Re!StackBalanced) /\ Of("hooks", Re!FailsClosed)

\* As in the parts.
CapacityRespected == Wl!CapacityRespected
BoundedReordering == Dt!BoundedReordering
JoinUnlessMissed == focus = "database tasks" => Dt!JoinUnlessMissed

\* Scheduler::addEvent, DatabaseTasks::threadMain and Database::executeQuery: every event that is
\* not stopped runs, every accepted statement is executed, and who asks the database is answered.
EverythingRuns ==
    /\ focus = "scheduler" => Se!EveryEventRuns
    /\ focus = "database tasks" => Dt!EveryStatementExecuted
    /\ focus = "database" => Db!NetReturns
=============================================================================

----------------------------- MODULE Lifecycle -----------------------------
(***************************************************************************)
(* The life of the server process (otserv.cpp, signals.cpp, server.cpp,    *)
(* game.cpp): startServer and io_service::run on the main thread, the      *)
(* loader and every game task on the dispatcher's thread.                  *)
(*                                                                         *)
(* A step of the game thread ends where another thread can see what it did *)
(* (gameState, the dispatcher's queue and state, running, acceptors) or    *)
(* can do something in between.  The dispatcher's queue is FIFO and loses  *)
(* no wakeup (Dispatcher), and a scheduler or database thread that was     *)
(* shut down ends: Scheduler and DatabaseTasks say when that is so.        *)
(* g_loaderSignal is assumed not to wake spuriously.                       *)
(*                                                                         *)
(* teardowns counts the runs of Game::shutdown (there is at most one);     *)
(* notified says the loader has signalled.                                 *)
(***************************************************************************)
EXTENDS Naturals, Sequences

CONSTANTS Players,          \* the characters clients log in with
          Privileged,       \* those with PlayerFlag_CanAlwaysLogin
          MaxRequests,      \* bound: signals, script requests, logins and logouts handed in
          StartupShutdown   \* may an onStartup script call Game.setGameState(SHUTDOWN)?

ASSUME LifecycleAssumption ==
    Privileged \subseteq Players /\ MaxRequests \in Nat /\ StartupShutdown \in BOOLEAN

VARIABLES main, notified, place, taskList, dispatcher, ended, databaseStarted,
          gameState, online, checked, acceptors, running, deathTimer, requests, teardowns

netVars    == <<checked, requests>>
serverVars == <<acceptors, running, deathTimer>>
threadVars == <<dispatcher, ended, databaseStarted>>
vars == <<main, notified, place, taskList, threadVars, gameState, online, netVars,
          serverVars, teardowns>>

\* The calls of setGameState that arrive as tasks, by signal, talkaction or globalevent.
Requests == {<<"setGameState", s>> : s \in {"NORMAL", "CLOSED", "SHUTDOWN"}}
                \cup {<<"saveGameState", "">>}

TaskSet == Requests \cup ({"login", "logout"} \X Players)
             \cup {<<"mainLoader", "">>, <<"shutdown", "">>, <<"terminate", "">>}

GameStates == {"STARTUP", "INIT", "NORMAL", "CLOSED", "SHUTDOWN", "MAINTAIN"}

TypeOK ==
    /\ main \in {"boot", "starting", "waiting", "loaded", "io", "join", "exit"}
    /\ notified \in BOOLEAN
    /\ place \in {"idle", "loading", "initialised", "serving", "saving", "closing",
                  "kicking", "stopping", "stopServices"}
    /\ taskList \in Seq(TaskSet)
    /\ dispatcher \in {"RUNNING", "CLOSING", "TERMINATED"}
    /\ ended \subseteq {"scheduler", "database", "dispatcher"}
    /\ databaseStarted \in BOOLEAN
    /\ gameState \in GameStates
    /\ online \subseteq Players
    /\ checked \subseteq Players
    /\ acceptors \in BOOLEAN /\ running \in BOOLEAN /\ deathTimer \in BOOLEAN
    /\ requests \in 0 .. MaxRequests
    /\ teardowns \in 0 .. 1

Init ==
    /\ main = "boot"
    /\ notified = FALSE
    /\ place = "idle"
    /\ taskList = <<>>
    /\ dispatcher = "TERMINATED"
    /\ ended = {}
    /\ databaseStarted = FALSE
    /\ gameState = "NORMAL"
    /\ online = {}
    /\ checked = {}
    /\ acceptors = FALSE /\ running = FALSE /\ deathTimer = FALSE
    /\ requests = 0
    /\ teardowns = 0

-----------------------------------------------------------------------------
(* The main thread                                                         *)

\* startServer up to the wait: the threads start and the loader is queued.
StartServer ==
    /\ main = "boot"
    /\ main' = "starting"
    /\ dispatcher' = "RUNNING"
    /\ taskList' = <<<<"mainLoader", "">>>>
    /\ UNCHANGED <<notified, place, ended, databaseStarted, gameState, online, netVars,
                   serverVars, teardowns>>

\* g_loaderSignal.wait(g_loaderUniqueLock) has no predicate.
WaitForLoader ==
    /\ main = "starting"
    /\ main' = "waiting"
    /\ UNCHANGED <<notified, place, taskList, threadVars, gameState, online, netVars,
                   serverVars, teardowns>>

\* serviceManager.is_running() means that a port was added; run() sets running.
RunServices ==
    /\ main = "loaded"
    /\ acceptors
    /\ running' = TRUE
    /\ main' = "io"
    /\ UNCHANGED <<notified, place, taskList, threadVars, gameState, online, netVars,
                   acceptors, deathTimer, teardowns>>

\* "No services running": startServer shuts the threads down itself.
NoServices ==
    /\ main = "loaded"
    /\ ~acceptors
    /\ ended' = ended \cup {"scheduler", "database"}
    /\ taskList' = Append(taskList, <<"terminate", "">>)
    /\ main' = "join"
    /\ UNCHANGED <<notified, place, dispatcher, databaseStarted, gameState, online, netVars,
                   serverVars, teardowns>>

\* The death timer expires: die() stops the io_service and run() returns.
Die ==
    /\ main = "io"
    /\ deathTimer
    /\ main' = "join"
    /\ checked' = {}
    /\ UNCHANGED <<notified, place, taskList, threadVars, gameState, online, requests,
                   serverVars, teardowns>>

\* The joins at the end of startServer; a thread that never started is not joinable.
JoinThreads ==
    /\ main = "join"
    /\ {"scheduler", "dispatcher"} \cup (IF databaseStarted THEN {"database"} ELSE {}) \subseteq ended
    /\ main' = "exit"
    /\ UNCHANGED <<notified, place, taskList, threadVars, gameState, online, netVars,
                   serverVars, teardowns>>

\* Dispatcher::addTask
AddTask(k) == taskList' = IF dispatcher = "RUNNING" THEN Append(taskList, k) ELSE taskList

\* A signal, handled by the io_service (Signals::asyncWait), or a script's request.
Request(k) ==
    /\ main = "io"
    /\ requests < MaxRequests
    /\ requests' = requests + 1
    /\ AddTask(k)
    /\ UNCHANGED <<main, notified, place, threadVars, gameState, online, checked,
                   serverVars, teardowns>>

\* onRecvFirstMessage reads gameState on the network's thread ...
CheckFirstMessage(p) ==
    /\ main = "io"
    /\ p \notin checked
    /\ requests < MaxRequests
    /\ requests' = requests + 1
    /\ gameState \notin {"SHUTDOWN", "STARTUP", "MAINTAIN"}
    /\ checked' = checked \cup {p}
    /\ UNCHANGED <<main, notified, place, taskList, threadVars, gameState, online,
                   serverVars, teardowns>>

\* ... and queues the login after the database has answered.
QueueLogin(p) ==
    /\ main = "io"
    /\ p \in checked
    /\ checked' = checked \ {p}
    /\ AddTask(<<"login", p>>)
    /\ UNCHANGED <<main, notified, place, threadVars, gameState, online, requests,
                   serverVars, teardowns>>

-----------------------------------------------------------------------------
(* The loader: the first task of the game thread                           *)

Idle(op) == place = "idle" /\ taskList # <<>> /\ Head(taskList)[1] = op

\* g_loaderSignal.notify_all() wakes the main thread only if it waits.
NotifyLoader ==
    /\ notified' = TRUE
    /\ main' = IF main = "waiting" THEN "loaded" ELSE main

\* The first lines of setGameState: a shutdown cannot be stopped.
NextState(s) == IF gameState = "SHUTDOWN" THEN gameState ELSE s

\* STARTUP, the config, the key, the database connection; then the database thread starts.
LoadDatabase ==
    /\ Idle("mainLoader")
    /\ gameState' = NextState("STARTUP")
    /\ databaseStarted' = TRUE
    /\ place' = "loading"
    /\ UNCHANGED <<main, notified, taskList, dispatcher, ended, online, netVars,
                   serverVars, teardowns>>

\* Seeded fault: An error return without startupErrorMessage.
LoadFails_Silent ==
    /\ place = "loading" \/ Idle("mainLoader")
    /\ gameState' = NextState("STARTUP")
    /\ place' = "idle"
    /\ taskList' = Tail(taskList)
    /\ UNCHANGED <<main, notified, threadVars, online, netVars, serverVars, teardowns>>

\* startupErrorMessage and return, before or after the database thread started.
LoadFails ==
    /\ place = "loading" \/ Idle("mainLoader")
    /\ gameState' = NextState("STARTUP")
    /\ place' = "idle"
    /\ taskList' = Tail(taskList)
    /\ NotifyLoader
    /\ UNCHANGED <<threadVars, online, netVars, serverVars, teardowns>>

\* setGameState(INIT) loads the rest and runs the onStartup scripts.
LoadInit ==
    /\ place = "loading"
    /\ gameState' = NextState("INIT")
    /\ place' = "initialised"
    /\ UNCHANGED <<main, notified, taskList, threadVars, online, netVars, serverVars, teardowns>>

\* The same, with an onStartup script that shuts the server down (nobody is online yet).
LoadInitShutdown ==
    /\ StartupShutdown
    /\ place = "loading"
    /\ gameState' = "SHUTDOWN"
    /\ AddTask(<<"shutdown", "">>)
    /\ dispatcher' = "CLOSING"
    /\ place' = "initialised"
    /\ UNCHANGED <<main, notified, ended, databaseStarted, online, netVars, serverVars, teardowns>>

\* services->add for the four protocols; Game::start.
AddServices ==
    /\ place = "initialised"
    /\ acceptors' = TRUE
    /\ place' = "serving"
    /\ UNCHANGED <<main, notified, taskList, threadVars, gameState, online, netVars,
                   running, deathTimer, teardowns>>

LoadDone ==
    /\ place = "serving"
    /\ gameState' = NextState("NORMAL")
    /\ place' = "idle"
    /\ taskList' = Tail(taskList)
    /\ NotifyLoader
    /\ UNCHANGED <<threadVars, online, netVars, serverVars, teardowns>>

-----------------------------------------------------------------------------
(* The other tasks of the game thread                                      *)

\* Is the task at the head of the list a setGameState(s) that does something?
Enters(s) ==
    /\ Idle("setGameState")
    /\ Head(taskList)[2] = s
    /\ gameState \notin {"SHUTDOWN", s}

SetIgnored ==
    /\ Idle("setGameState")
    /\ gameState \in {"SHUTDOWN", Head(taskList)[2]}
    /\ taskList' = Tail(taskList)
    /\ UNCHANGED <<main, notified, place, threadVars, gameState, online, netVars,
                   serverVars, teardowns>>

SetNormal ==
    /\ Enters("NORMAL")
    /\ gameState' = "NORMAL"
    /\ taskList' = Tail(taskList)
    /\ UNCHANGED <<main, notified, place, threadVars, online, netVars, serverVars, teardowns>>

\* CLOSED is visible before the players are kicked.
SetClosed ==
    /\ Enters("CLOSED")
    /\ gameState' = "CLOSED"
    /\ place' = "closing"
    /\ UNCHANGED <<main, notified, taskList, threadVars, online, netVars, serverVars, teardowns>>

\* Kick everyone without CanAlwaysLogin and save; gameState is not NORMAL, so it stays.
KickForClose ==
    /\ place = "closing"
    /\ online' = online \cap Privileged
    /\ place' = "idle"
    /\ taskList' = Tail(taskList)
    /\ UNCHANGED <<main, notified, threadVars, gameState, netVars, serverVars, teardowns>>

SetShutdown ==
    /\ Enters("SHUTDOWN")
    /\ gameState' = "SHUTDOWN"
    /\ place' = "kicking"
    /\ UNCHANGED <<main, notified, taskList, threadVars, online, netVars, serverVars, teardowns>>

\* Kick everyone, save, and queue Game::shutdown behind what is already queued.
KickAll ==
    /\ place = "kicking"
    /\ online' = {}
    /\ AddTask(<<"shutdown", "">>)
    /\ place' = "stopping"
    /\ UNCHANGED <<main, notified, threadVars, gameState, netVars, serverVars, teardowns>>

\* Seeded fault: g_dispatcher.stop() is missing.
StopThreads_Open ==
    /\ place = "stopping"
    /\ dispatcher' = dispatcher
    /\ place' = "idle"
    /\ taskList' = Tail(taskList)
    /\ UNCHANGED <<main, notified, ended, databaseStarted, gameState, online, netVars,
                   serverVars, teardowns>>

\* g_scheduler.stop(), g_databaseTasks.stop(), g_dispatcher.stop()
StopThreads ==
    /\ place = "stopping"
    /\ dispatcher' = "CLOSING"
    /\ place' = "idle"
    /\ taskList' = Tail(taskList)
    /\ UNCHANGED <<main, notified, ended, databaseStarted, gameState, online, netVars,
                   serverVars, teardowns>>

\* saveGameState: MAINTAIN while the world is written.
BeginSave ==
    /\ Idle("saveGameState")
    /\ gameState' = IF gameState = "NORMAL" THEN "MAINTAIN" ELSE gameState
    /\ place' = "saving"
    /\ UNCHANGED <<main, notified, taskList, threadVars, online, netVars, serverVars, teardowns>>

EndSave ==
    /\ place = "saving"
    /\ gameState' = IF gameState = "MAINTAIN" THEN "NORMAL" ELSE gameState
    /\ place' = "idle"
    /\ taskList' = Tail(taskList)
    /\ UNCHANGED <<main, notified, threadVars, online, netVars, serverVars, teardowns>>

\* Seeded fault: login() trusts the first test.
Login_NoSecondTest ==
    /\ Idle("login")
    /\ LET p == Head(taskList)[2]
       IN  online' = online \cup {p}
    /\ taskList' = Tail(taskList)
    /\ UNCHANGED <<main, notified, place, threadVars, gameState, netVars, serverVars, teardowns>>

\* ProtocolGame::login tests CLOSED again; it does not test SHUTDOWN or MAINTAIN.
Login ==
    /\ Idle("login")
    /\ LET p == Head(taskList)[2]
       IN  online' = IF gameState = "CLOSED" /\ p \notin Privileged THEN online ELSE online \cup {p}
    /\ taskList' = Tail(taskList)
    /\ UNCHANGED <<main, notified, place, threadVars, gameState, netVars, serverVars, teardowns>>

Logout ==
    /\ Idle("logout")
    /\ online' = online \ {Head(taskList)[2]}
    /\ taskList' = Tail(taskList)
    /\ UNCHANGED <<main, notified, place, threadVars, gameState, netVars, serverVars, teardowns>>

\* Game::shutdown: the three shutdowns, the clears and cleanup ...
GameShutdown ==
    /\ Idle("shutdown")
    /\ ended' = ended \cup {"scheduler", "database"}
    /\ taskList' = Append(taskList, <<"terminate", "">>)
    /\ place' = "stopServices"
    /\ teardowns' = teardowns + 1
    /\ UNCHANGED <<main, notified, dispatcher, databaseStarted, gameState, online, netVars,
                   serverVars>>

\* Seeded fault: stop() without the death timer.
StopServices_NoTimer ==
    /\ place = "stopServices"
    /\ running' = FALSE
    /\ acceptors' = IF running THEN FALSE ELSE acceptors
    /\ deathTimer' = deathTimer
    /\ place' = "idle"
    /\ taskList' = Tail(taskList)
    /\ UNCHANGED <<main, notified, threadVars, gameState, online, netVars, teardowns>>

\* ... then serviceManager->stop(), which does nothing unless run() was called,
\* and ConnectionManager::closeAll.
StopServices ==
    /\ place = "stopServices"
    /\ running' = FALSE
    /\ acceptors' = IF running THEN FALSE ELSE acceptors
    /\ deathTimer' = (deathTimer \/ running)
    /\ place' = "idle"
    /\ taskList' = Tail(taskList)
    /\ UNCHANGED <<main, notified, threadVars, gameState, online, netVars, teardowns>>

\* The task Dispatcher::shutdown queued; threadMain returns at the end of the batch.
Terminate ==
    /\ Idle("terminate")
    /\ dispatcher' = "TERMINATED"
    /\ ended' = ended \cup {"dispatcher"}
    /\ taskList' = Tail(taskList)
    /\ UNCHANGED <<main, notified, place, databaseStarted, gameState, online, netVars,
                   serverVars, teardowns>>

-----------------------------------------------------------------------------

MainStep == WaitForLoader \/ RunServices \/ NoServices \/ Die \/ JoinThreads

LoaderStep ==
    LoadDatabase \/ LoadFails \/ LoadInit \/ LoadInitShutdown \/ AddServices \/ LoadDone

GameStep ==
    \/ LoaderStep
    \/ SetIgnored \/ SetNormal \/ SetClosed \/ KickForClose \/ SetShutdown \/ KickAll
    \/ StopThreads \/ BeginSave \/ EndSave \/ Login \/ Logout
    \/ GameShutdown \/ StopServices \/ Terminate

NetStep ==
    \/ \E k \in Requests \cup ({"logout"} \X Players) : Request(k)
    \/ \E p \in Players : CheckFirstMessage(p) \/ QueueLogin(p)

Next == StartServer \/ MainStep \/ GameStep \/ NetStep

\* The game thread and the main thread run whenever they can.
Spec == Init /\ [][Next]_vars /\ WF_vars(MainStep) /\ WF_vars(GameStep)

-----------------------------------------------------------------------------
(* Properties                                                              *)

\* While the server is closed only players with CanAlwaysLogin are in the game:
\* a login whose first message was accepted while the server was open is tested
\* again when its task runs after the kick.
ClosedKeepsOut == gameState = "CLOSED" /\ place = "idle" => online \subseteq Privileged

\* The process exits with no accepted task left: what was queued behind
\* Game::shutdown still runs, and nothing gets behind the terminating task.
ExitLeavesNothing == main = "exit" => taskList = <<>> /\ place = "idle" /\ checked = {}

\* Every way out of the loader wakes a main thread that is already waiting.
LoaderSignalArrives == (main = "waiting" /\ ~notified) ~> (main # "waiting")

\* A shutdown ends the process, provided run() was called before Game::shutdown ran.
ShutdownExits == (gameState = "SHUTDOWN" /\ running /\ teardowns = 0) ~> (main = "exit")

=============================================================================

--------------------------- MODULE LifecycleProofs ---------------------------
(***************************************************************************)
(* Theorems about Lifecycle, for any players and any number of requests.   *)
(* Both rest on where the tasks are that begin and end the server's life:  *)
(* mainLoader is alone in the list while it can still fail, there is one   *)
(* shutdown, and nothing is behind the terminating task.                   *)
(***************************************************************************)
EXTENDS Lifecycle, TLAPS

At(i, op) == i \in 1 .. Len(taskList) /\ taskList[i][1] = op

\* KickForClose, as long as the server is closed.
ClosedOut == gameState = "CLOSED" /\ place # "closing" => online \subseteq Privileged

\* Only a running io_service accepts logins.
ChecksRun == checked # {} => main = "io"

\* The task under way is at the head of the list until it is done.
UnderWay ==
    /\ place \in {"loading", "initialised", "serving"} => At(1, "mainLoader")
    /\ place = "saving" => At(1, "saveGameState")
    /\ place \in {"closing", "kicking", "stopping"} => At(1, "setGameState")
    /\ place = "stopServices" => At(1, "shutdown")

Booting ==
    main = "boot" => /\ taskList = <<>> /\ place = "idle" /\ dispatcher = "TERMINATED"
                     /\ ended = {} /\ ~acceptors /\ ~running /\ teardowns = 0
                     /\ gameState # "SHUTDOWN"

\* Nothing else happened before the loader is in setGameState(INIT).
LoaderFirst ==
    \A i \in Nat : At(i, "mainLoader") =>
        /\ i = 1 /\ main \in {"starting", "waiting"}
        /\ place \in {"idle", "loading", "initialised", "serving"}
        /\ teardowns = 0
        /\ place = "serving" => acceptors
        /\ place \in {"idle", "loading"} =>
               /\ Len(taskList) = 1 /\ dispatcher = "RUNNING"
               /\ gameState # "SHUTDOWN" /\ ~acceptors

\* A main thread that finds no port open after the loader finds an empty list.
LoaderFailed ==
    main \in {"starting", "waiting", "loaded"} =>
        /\ ~running
        /\ \/ acceptors \/ At(1, "mainLoader")
           \/ /\ taskList = <<>> /\ place = "idle" /\ dispatcher = "RUNNING"
              /\ gameState # "SHUTDOWN" /\ teardowns = 0

\* setGameState(SHUTDOWN) goes through once, and stops the dispatcher behind
\* the task it queues.
OneShutdown ==
    /\ \A i, j \in Nat : At(i, "shutdown") /\ At(j, "shutdown") => i = j
    /\ \A i \in Nat : At(i, "shutdown") =>
           /\ gameState = "SHUTDOWN" /\ place # "kicking"
           /\ dispatcher = "CLOSING" \/ place = "stopping"
           /\ teardowns = 0 \/ place = "stopServices"
    /\ place \in {"kicking", "stopping"} => gameState = "SHUTDOWN" /\ teardowns = 0
    /\ teardowns # 0 => gameState = "SHUTDOWN" /\ dispatcher # "RUNNING"

\* Dispatcher::shutdown's task is the last one accepted.
TerminateLast ==
    /\ \A i \in Nat : At(i, "terminate") =>
           /\ i = Len(taskList)
           /\ \/ teardowns # 0 /\ dispatcher = "CLOSING"
              \/ main = "join" /\ place = "idle" /\ i = 1 /\ dispatcher = "RUNNING"
    /\ dispatcher = "TERMINATED" => taskList = <<>> /\ place = "idle"
    /\ "dispatcher" \in ended => dispatcher = "TERMINATED"
    /\ main = "exit" => "dispatcher" \in ended

\* The inductive invariant, without the types.
Rest ==
    /\ ClosedOut /\ ChecksRun /\ UnderWay /\ Booting
    /\ LoaderFirst /\ LoaderFailed /\ OneShutdown /\ TerminateLast

IInv == TypeOK /\ Rest

-----------------------------------------------------------------------------
(* The list of tasks                                                       *)

\* The head of the list, and the list as the invariants see it.
LEMMA HeadAt ==
    ASSUME taskList \in Seq(TaskSet), NEW op
    PROVE  Idle(op) <=> place = "idle" /\ At(1, op)
BY DEF Idle, At

LEMMA AtList ==
    ASSUME taskList \in Seq(TaskSet)
    PROVE  /\ Len(taskList) \in Nat /\ (taskList = <<>> <=> Len(taskList) = 0)
           /\ \A i, op : At(i, op) => i \in 1 .. Len(taskList)
           /\ \A i, op, other : At(i, op) /\ At(i, other) => op = other
BY DEF At

\* The list after a step: as it was, without its head, with one task more.
LEMMA Unmoved ==
    ASSUME UNCHANGED taskList
    PROVE  \A i, op : At(i, op)' <=> At(i, op)
BY DEF At

LEMMA Popped ==
    ASSUME taskList \in Seq(TaskSet), taskList # <<>>, taskList' = Tail(taskList)
    PROVE  /\ taskList' \in Seq(TaskSet) /\ Len(taskList') = Len(taskList) - 1
           /\ taskList' = <<>> <=> Len(taskList) = 1
           /\ \A i, op : At(i, op)' => i \in Nat \ {0} /\ At(i + 1, op)
<1>1. /\ taskList' \in Seq(TaskSet) /\ Len(taskList') = Len(taskList) - 1
      /\ Len(taskList) \in Nat
  OBVIOUS
<1>2. \A s \in Seq(TaskSet) : s = <<>> <=> Len(s) = 0
  OBVIOUS
<1>3. \A i, op : At(i, op)' => i \in Nat \ {0} /\ At(i + 1, op)
  BY DEF At
<1>4. taskList' = <<>> <=> Len(taskList') = 0
  BY <1>1, <1>2
<1>5. Len(taskList') = 0 <=> Len(taskList) = 1
  BY <1>1
<1> QED
  BY <1>1, <1>3, <1>4, <1>5

LEMMA Pushed ==
    ASSUME taskList \in Seq(TaskSet), NEW k \in TaskSet, taskList' = Append(taskList, k)
    PROVE  /\ taskList' \in Seq(TaskSet) /\ Len(taskList') = Len(taskList) + 1
           /\ \A i, op : At(i, op)' <=> \/ At(i, op)
                                        \/ i = Len(taskList) + 1 /\ k[1] = op
BY DEF At
\* What the steps append, and whom a login is of.
LEMMA TasksAre ==
    /\ \A op \in {"shutdown", "terminate", "mainLoader"} : <<op, "">> \in TaskSet
    /\ \A p \in Players : <<"login", p>> \in TaskSet
    /\ \A k \in Requests \cup ({"logout"} \X Players) : k \in TaskSet
    /\ \A k \in TaskSet : k[1] = "login" => k[2] \in Players
<1>1. \A op \in {"shutdown", "terminate", "mainLoader"} : <<op, "">> \in TaskSet
  BY DEF TaskSet
<1>2. \A p \in Players : <<"login", p>> \in TaskSet
  BY DEF TaskSet
<1>3. \A k \in Requests \cup ({"logout"} \X Players) : k \in TaskSet
  <2>1. {"logout"} \X Players \subseteq {"login", "logout"} \X Players
    OBVIOUS
  <2> QED
    BY <2>1 DEF TaskSet
<1>4. ASSUME NEW k \in TaskSet, k[1] = "login"
      PROVE  k[2] \in Players
  <2>1. ASSUME k \in {<<"setGameState", t>> : t \in {"NORMAL", "CLOSED", "SHUTDOWN"}}
        PROVE  k[1] = "setGameState"
    BY <2>1
  <2>2. ASSUME k = <<"saveGameState", "">> PROVE k[1] = "saveGameState"
    BY <2>2
  <2>3. ASSUME k = <<"mainLoader", "">> PROVE k[1] = "mainLoader"
    BY <2>3
  <2>4. ASSUME k = <<"shutdown", "">> PROVE k[1] = "shutdown"
    BY <2>4
  <2>5. ASSUME k = <<"terminate", "">> PROVE k[1] = "terminate"
    BY <2>5
  <2>6. ASSUME k \in {"login", "logout"} \X Players PROVE k[2] \in Players
    BY <2>6
  <2> QED
    BY <1>4, <2>1, <2>2, <2>3, <2>4, <2>5, <2>6 DEF TaskSet, Requests
<1> QED
  BY <1>1, <1>2, <1>3, <1>4

\* Every step keeps the types; in particular Game::shutdown runs once.
LEMMA TypeStep == IInv /\ [Next]_vars => TypeOK'
<1> SUFFICES ASSUME IInv, [Next]_vars PROVE TypeOK'
  OBVIOUS
<1> USE DEF threadVars, netVars, serverVars
<1>1. TypeOK /\ taskList \in Seq(TaskSet)
  BY DEF IInv, TypeOK
<1>2. taskList # <<>> => Tail(taskList) \in Seq(TaskSet) /\ Head(taskList) \in TaskSet
  BY <1>1
<1>3. place # "idle" => taskList # <<>>
  BY <1>1 DEF IInv, Rest, UnderWay, At, TypeOK
<1>4. ASSUME NEW k \in TaskSet PROVE Append(taskList, k) \in Seq(TaskSet)
  BY <1>1
<1>5. CASE StartServer
  <2> DEFINE k == <<"mainLoader", "">>
  <2>1. k \in TaskSet /\ taskList' = <<k>>
    BY <1>5, TasksAre DEF StartServer
  <2> HIDE DEF k
  <2>2. taskList' \in Seq(TaskSet)
    BY <2>1
  <2> QED
    BY <1>1, <1>5, <2>2 DEF StartServer, TypeOK
<1>6. CASE WaitForLoader
  BY <1>1, <1>2, <1>3, <1>6 DEF WaitForLoader, TypeOK, GameStates
<1>7. CASE RunServices
  BY <1>1, <1>2, <1>3, <1>7 DEF RunServices, TypeOK, GameStates
<1>8. CASE NoServices
  <2>1. taskList' \in Seq(TaskSet)
    BY <1>1, <1>4, <1>8, TasksAre DEF NoServices
  <2> QED
    BY <1>1, <1>8, <2>1 DEF NoServices, TypeOK, GameStates
<1>9. CASE Die
  BY <1>1, <1>2, <1>3, <1>9 DEF Die, TypeOK, GameStates
<1>10. CASE JoinThreads
  BY <1>1, <1>2, <1>3, <1>10 DEF JoinThreads, TypeOK, GameStates
<1>11. CASE LoadDatabase
  BY <1>1, <1>2, <1>3, <1>11 DEF LoadDatabase, TypeOK, GameStates, NextState, Idle
<1>12. CASE LoadFails
  BY <1>1, <1>2, <1>3, <1>12 DEF LoadFails, TypeOK, GameStates, NextState, Idle, NotifyLoader
<1>13. CASE LoadInit
  BY <1>1, <1>2, <1>3, <1>13 DEF LoadInit, TypeOK, GameStates, NextState, Idle
<1>14. CASE LoadInitShutdown
  <2>1. taskList' \in Seq(TaskSet)
    BY <1>1, <1>4, <1>14, TasksAre DEF LoadInitShutdown, AddTask
  <2> QED
    BY <1>1, <1>14, <2>1 DEF LoadInitShutdown, TypeOK, GameStates
<1>15. CASE AddServices
  BY <1>1, <1>2, <1>3, <1>15 DEF AddServices, TypeOK, GameStates
<1>16. CASE LoadDone
  BY <1>1, <1>2, <1>3, <1>16 DEF LoadDone, TypeOK, GameStates, NextState, Idle, NotifyLoader
<1>17. CASE SetIgnored
  BY <1>1, <1>2, <1>3, <1>17 DEF SetIgnored, TypeOK, GameStates, Idle
<1>18. CASE SetNormal
  BY <1>1, <1>2, <1>3, <1>18 DEF SetNormal, TypeOK, GameStates, Idle, Enters
<1>19. CASE SetClosed
  BY <1>1, <1>2, <1>3, <1>19 DEF SetClosed, TypeOK, GameStates, Idle, Enters
<1>20. CASE KickForClose
  BY <1>1, <1>2, <1>3, <1>20 DEF KickForClose, TypeOK, GameStates
<1>21. CASE SetShutdown
  BY <1>1, <1>2, <1>3, <1>21 DEF SetShutdown, TypeOK, GameStates, Idle, Enters
<1>22. CASE KickAll
  <2>1. taskList' \in Seq(TaskSet)
    BY <1>1, <1>4, <1>22, TasksAre DEF KickAll, AddTask
  <2> QED
    BY <1>1, <1>22, <2>1 DEF KickAll, TypeOK, GameStates
<1>23. CASE StopThreads
  BY <1>1, <1>2, <1>3, <1>23 DEF StopThreads, TypeOK, GameStates
<1>24. CASE BeginSave
  BY <1>1, <1>2, <1>3, <1>24 DEF BeginSave, TypeOK, GameStates, Idle
<1>25. CASE EndSave
  BY <1>1, <1>2, <1>3, <1>25 DEF EndSave, TypeOK, GameStates
<1>26. CASE Login
  <2>1. Head(taskList)[2] \in Players
    BY <1>2, <1>26, TasksAre DEF Login, Idle
  <2> QED
    BY <1>1, <1>2, <1>26, <2>1 DEF Login, TypeOK, GameStates, Idle
<1>27. CASE Logout
  BY <1>1, <1>2, <1>3, <1>27 DEF Logout, TypeOK, GameStates, Idle
<1>28. CASE GameShutdown
  <2>1. taskList' \in Seq(TaskSet)
    BY <1>1, <1>4, <1>28, TasksAre DEF GameShutdown
  <2>2. teardowns = 0
    BY <1>1, <1>28, HeadAt, AtList DEF GameShutdown, IInv, Rest, OneShutdown, Idle
  <2>5. teardowns' = teardowns + 1
    BY <1>28 DEF GameShutdown
  <2>3. teardowns' \in 0 .. 1
    BY <2>2, <2>5
  <2>4. ended' \subseteq {"scheduler", "database", "dispatcher"}
    BY <1>1, <1>28 DEF GameShutdown, TypeOK
  <2> QED
    BY <1>1, <1>28, <2>1, <2>3, <2>4 DEF GameShutdown, TypeOK
<1>29. CASE StopServices
  BY <1>1, <1>2, <1>3, <1>29 DEF StopServices, TypeOK, GameStates
<1>30. CASE Terminate
  BY <1>1, <1>2, <1>3, <1>30 DEF Terminate, TypeOK, GameStates, Idle
<1>31. ASSUME NEW k \in Requests \cup ({"logout"} \X Players), Request(k)
       PROVE  TypeOK'
  <2>1. taskList' \in Seq(TaskSet)
    BY <1>1, <1>4, <1>31, TasksAre DEF Request, AddTask
  <2> QED
    BY <1>1, <1>31, <2>1, LifecycleAssumption DEF Request, TypeOK
<1>32. ASSUME NEW p \in Players, CheckFirstMessage(p)
       PROVE  TypeOK'
  BY <1>1, <1>32, LifecycleAssumption DEF CheckFirstMessage, TypeOK
<1>33. ASSUME NEW p \in Players, QueueLogin(p)
       PROVE  TypeOK'
  <2>1. taskList' \in Seq(TaskSet)
    BY <1>1, <1>4, <1>33, TasksAre DEF QueueLogin, AddTask
  <2> QED
    BY <1>1, <1>33, <2>1 DEF QueueLogin, TypeOK
<1>34. CASE UNCHANGED vars
  BY <1>1, <1>34 DEF vars, TypeOK
<1> QED
  BY <1>5, <1>6, <1>7, <1>8, <1>9, <1>10, <1>11, <1>12, <1>13, <1>14, <1>15,
    <1>16, <1>17, <1>18, <1>19, <1>20, <1>21, <1>22, <1>23, <1>24, <1>25,
    <1>26, <1>27, <1>28, <1>29, <1>30, <1>31, <1>32, <1>33, <1>34
  DEF Next, MainStep, LoaderStep, GameStep, NetStep

\* The main thread, which adds no task.
LEMMA MainSteps ==
    ASSUME IInv, WaitForLoader \/ RunServices \/ Die \/ JoinThreads
    PROVE  Rest'
<1> USE DEF IInv, Rest, WaitForLoader, RunServices, Die, JoinThreads,
    threadVars, netVars, serverVars
<1>1. taskList \in Seq(TaskSet)
  BY DEF TypeOK
<1>2. \A i, op : At(i, op)' <=> At(i, op)
  BY Unmoved
<1>3. ClosedOut' /\ ChecksRun' /\ UnderWay' /\ Booting'
  BY <1>1, <1>2, AtList, HeadAt
  DEF TypeOK, ClosedOut, ChecksRun, UnderWay, Booting, LoaderFailed
<1>4. LoaderFirst' /\ LoaderFailed'
  BY <1>1, <1>2, AtList, HeadAt
  DEF TypeOK, LoaderFirst, LoaderFailed, UnderWay, Booting
<1>5. OneShutdown'
  BY <1>1, <1>2, AtList, HeadAt DEF TypeOK, OneShutdown, TerminateLast, UnderWay
<1>6. TerminateLast'
  BY <1>1, <1>2, AtList, HeadAt DEF TypeOK, OneShutdown, TerminateLast, UnderWay
<1> QED
  BY <1>3, <1>4, <1>5, <1>6 DEF Rest

\* The first step of a task, which stays at the head of the list.
LEMMA Begun ==
    ASSUME IInv, SetClosed \/ SetShutdown \/ BeginSave
    PROVE  Rest'
<1> USE DEF IInv, Rest, SetClosed, SetShutdown, BeginSave, threadVars,
    netVars, serverVars, Enters
<1>1. taskList \in Seq(TaskSet)
  BY DEF TypeOK
<1>2. \A i, op : At(i, op)' <=> At(i, op)
  BY Unmoved
<1>3. ClosedOut' /\ ChecksRun' /\ UnderWay' /\ Booting'
  BY <1>1, <1>2, AtList, HeadAt
  DEF TypeOK, ClosedOut, ChecksRun, UnderWay, Booting, LoaderFailed
<1>4. LoaderFirst' /\ LoaderFailed'
  BY <1>1, <1>2, AtList, HeadAt
  DEF TypeOK, LoaderFirst, LoaderFailed, UnderWay, Booting
<1>5. OneShutdown'
  BY <1>1, <1>2, AtList, HeadAt DEF TypeOK, OneShutdown, TerminateLast, UnderWay
<1>6. TerminateLast'
  BY <1>1, <1>2, AtList, HeadAt DEF TypeOK, OneShutdown, TerminateLast, UnderWay
<1> QED
  BY <1>3, <1>4, <1>5, <1>6 DEF Rest

\* The steps of the loader before the last.
LEMMA Loading ==
    ASSUME IInv, LoadDatabase \/ LoadInit \/ AddServices
    PROVE  Rest'
<1> USE DEF IInv, Rest, LoadDatabase, LoadInit, AddServices, threadVars,
    netVars, serverVars, NextState
<1>1. taskList \in Seq(TaskSet)
  BY DEF TypeOK
<1>2. \A i, op : At(i, op)' <=> At(i, op)
  BY Unmoved
<1>3. ClosedOut' /\ ChecksRun' /\ UnderWay' /\ Booting'
  BY <1>1, <1>2, AtList, HeadAt
  DEF TypeOK, ClosedOut, ChecksRun, UnderWay, Booting, LoaderFailed
<1>4. LoaderFirst' /\ LoaderFailed'
  BY <1>1, <1>2, AtList, HeadAt
  DEF TypeOK, LoaderFirst, LoaderFailed, UnderWay, Booting
<1>5. OneShutdown'
  BY <1>1, <1>2, AtList, HeadAt DEF TypeOK, OneShutdown, TerminateLast, UnderWay
<1>6. TerminateLast'
  BY <1>1, <1>2, AtList, HeadAt DEF TypeOK, OneShutdown, TerminateLast, UnderWay
<1> QED
  BY <1>3, <1>4, <1>5, <1>6 DEF Rest

\* The last step of the loader.
LEMMA Loaded ==
    ASSUME IInv, LoadFails \/ LoadDone
    PROVE  Rest'
<1> USE DEF IInv, Rest, LoadFails, LoadDone, threadVars, netVars, serverVars,
    NextState, NotifyLoader
<1>1. taskList \in Seq(TaskSet)
  BY DEF TypeOK
<1>2. taskList' = Tail(taskList) /\ \E op : At(1, op)
  BY <1>1, HeadAt DEF UnderWay
<1>3. /\ taskList # <<>> /\ Len(taskList') = Len(taskList) - 1
      /\ taskList' = <<>> <=> Len(taskList) = 1
      /\ \A i, op : At(i, op)' => i \in Nat \ {0} /\ At(i + 1, op)
  BY <1>2, <1>1, AtList, Popped
<1>4. ClosedOut' /\ ChecksRun' /\ UnderWay' /\ Booting'
  BY <1>1, <1>3, AtList, HeadAt
  DEF TypeOK, ClosedOut, ChecksRun, UnderWay, Booting, LoaderFailed
<1>5. LoaderFirst' /\ LoaderFailed'
  BY <1>1, <1>3, AtList, HeadAt
  DEF TypeOK, LoaderFirst, LoaderFailed, UnderWay, Booting
<1>6. OneShutdown'
  BY <1>1, <1>3, AtList, HeadAt DEF TypeOK, OneShutdown, TerminateLast, UnderWay
<1>7. TerminateLast'
  BY <1>1, <1>3, AtList, HeadAt DEF TypeOK, OneShutdown, TerminateLast, UnderWay
<1> QED
  BY <1>4, <1>5, <1>6, <1>7 DEF Rest

\* Tasks that end and leave the threads alone.
LEMMA Ended ==
    ASSUME IInv, SetIgnored \/ SetNormal \/ KickForClose \/ EndSave
    PROVE  Rest'
<1> USE DEF IInv, Rest, SetIgnored, SetNormal, KickForClose, EndSave,
    threadVars, netVars, serverVars, Enters
<1>1. taskList \in Seq(TaskSet)
  BY DEF TypeOK
<1>2. taskList' = Tail(taskList) /\ \E op : At(1, op)
  BY <1>1, HeadAt DEF UnderWay
<1>3. /\ taskList # <<>> /\ Len(taskList') = Len(taskList) - 1
      /\ taskList' = <<>> <=> Len(taskList) = 1
      /\ \A i, op : At(i, op)' => i \in Nat \ {0} /\ At(i + 1, op)
  BY <1>2, <1>1, AtList, Popped
<1>4. ClosedOut' /\ ChecksRun' /\ UnderWay' /\ Booting'
  BY <1>1, <1>3, AtList, HeadAt
  DEF TypeOK, ClosedOut, ChecksRun, UnderWay, Booting, LoaderFailed
<1>5. LoaderFirst' /\ LoaderFailed'
  BY <1>1, <1>3, AtList, HeadAt
  DEF TypeOK, LoaderFirst, LoaderFailed, UnderWay, Booting
<1>6. OneShutdown'
  BY <1>1, <1>3, AtList, HeadAt DEF TypeOK, OneShutdown, TerminateLast, UnderWay
<1>7. TerminateLast'
  BY <1>1, <1>3, AtList, HeadAt DEF TypeOK, OneShutdown, TerminateLast, UnderWay
<1> QED
  BY <1>4, <1>5, <1>6, <1>7 DEF Rest

\* A player enters or leaves the game.
LEMMA PlayersMove ==
    ASSUME IInv, Login \/ Logout
    PROVE  Rest'
<1> USE DEF IInv, Rest, Login, Logout, threadVars, netVars, serverVars
<1>1. taskList \in Seq(TaskSet)
  BY DEF TypeOK
<1>2. taskList' = Tail(taskList) /\ \E op : At(1, op)
  BY <1>1, HeadAt DEF UnderWay
<1>3. /\ taskList # <<>> /\ Len(taskList') = Len(taskList) - 1
      /\ taskList' = <<>> <=> Len(taskList) = 1
      /\ \A i, op : At(i, op)' => i \in Nat \ {0} /\ At(i + 1, op)
  BY <1>2, <1>1, AtList, Popped
<1>4. ClosedOut' /\ ChecksRun' /\ UnderWay' /\ Booting'
  BY <1>1, <1>3, AtList, HeadAt
  DEF TypeOK, ClosedOut, ChecksRun, UnderWay, Booting, LoaderFailed
<1>5. LoaderFirst' /\ LoaderFailed'
  BY <1>1, <1>3, AtList, HeadAt
  DEF TypeOK, LoaderFirst, LoaderFailed, UnderWay, Booting
<1>6. OneShutdown'
  BY <1>1, <1>3, AtList, HeadAt DEF TypeOK, OneShutdown, TerminateLast, UnderWay
<1>7. TerminateLast'
  BY <1>1, <1>3, AtList, HeadAt DEF TypeOK, OneShutdown, TerminateLast, UnderWay
<1> QED
  BY <1>4, <1>5, <1>6, <1>7 DEF Rest

\* The end of setGameState(SHUTDOWN): the dispatcher accepts no more.
LEMMA StopThreadsStep ==
    ASSUME IInv, StopThreads
    PROVE  Rest'
<1> USE DEF IInv, Rest, StopThreads, threadVars, netVars, serverVars
<1>1. taskList \in Seq(TaskSet)
  BY DEF TypeOK
<1>2. taskList' = Tail(taskList) /\ \E op : At(1, op)
  BY <1>1, HeadAt DEF UnderWay
<1>3. /\ taskList # <<>> /\ Len(taskList') = Len(taskList) - 1
      /\ taskList' = <<>> <=> Len(taskList) = 1
      /\ \A i, op : At(i, op)' => i \in Nat \ {0} /\ At(i + 1, op)
  BY <1>2, <1>1, AtList, Popped
<1>4. ClosedOut' /\ ChecksRun' /\ UnderWay' /\ Booting'
  BY <1>1, <1>3, AtList, HeadAt
  DEF TypeOK, ClosedOut, ChecksRun, UnderWay, Booting, LoaderFailed
<1>5. LoaderFirst' /\ LoaderFailed'
  BY <1>1, <1>3, AtList, HeadAt
  DEF TypeOK, LoaderFirst, LoaderFailed, UnderWay, Booting
<1>6. OneShutdown'
  BY <1>1, <1>3, AtList, HeadAt DEF TypeOK, OneShutdown, TerminateLast, UnderWay
<1>7. TerminateLast'
  BY <1>1, <1>3, AtList, HeadAt DEF TypeOK, OneShutdown, TerminateLast, UnderWay
<1> QED
  BY <1>4, <1>5, <1>6, <1>7 DEF Rest

\* The end of Game::shutdown, with only the terminating task behind it.
LEMMA StopServicesStep ==
    ASSUME IInv, StopServices
    PROVE  Rest'
<1> USE DEF IInv, Rest, StopServices, threadVars, netVars, serverVars
<1>1. taskList \in Seq(TaskSet)
  BY DEF TypeOK
<1>2. taskList' = Tail(taskList) /\ \E op : At(1, op)
  BY <1>1, HeadAt DEF UnderWay
<1>3. /\ taskList # <<>> /\ Len(taskList') = Len(taskList) - 1
      /\ taskList' = <<>> <=> Len(taskList) = 1
      /\ \A i, op : At(i, op)' => i \in Nat \ {0} /\ At(i + 1, op)
  BY <1>2, <1>1, AtList, Popped
<1>4. /\ At(1, "shutdown")
      /\ \A i \in Nat : ~At(i, "shutdown")' /\ ~At(i, "mainLoader")'
      /\ \A i \in Nat : At(i, "terminate")' =>
             i = Len(taskList') /\ teardowns # 0 /\ dispatcher = "CLOSING"
  <2>1. At(1, "shutdown")
    BY DEF UnderWay
  <2>2. ASSUME NEW i \in Nat, At(i, "mainLoader")' PROVE FALSE
    BY <1>3, <2>2 DEF LoaderFirst
  <2>3. ASSUME NEW i \in Nat, At(i, "shutdown")' PROVE FALSE
    <3>1. i # 0 /\ At(i + 1, "shutdown") /\ i + 1 \in Nat
      BY <1>3, <2>3
    <3>2. i + 1 = 1
      BY <2>1, <3>1 DEF OneShutdown
    <3> QED
      BY <3>1, <3>2
  <2>4. ASSUME NEW i \in Nat, At(i, "terminate")'
        PROVE  i = Len(taskList') /\ teardowns # 0 /\ dispatcher = "CLOSING"
    <3>1. i + 1 \in Nat /\ At(i + 1, "terminate")
      BY <1>3, <2>4
    <3>2. i + 1 = Len(taskList)
      BY <1>1, <3>1, AtList DEF TerminateLast
    <3>3. teardowns # 0 /\ dispatcher = "CLOSING"
      BY <3>1 DEF TerminateLast
    <3> QED
      BY <3>2, <3>3
  <2> QED
    BY <2>1, <2>2, <2>3, <2>4
<1>5. ClosedOut' /\ ChecksRun' /\ UnderWay' /\ Booting'
  BY <1>1, <1>3, <1>4, AtList, HeadAt
  DEF TypeOK, ClosedOut, ChecksRun, UnderWay, Booting, LoaderFailed
<1>6. LoaderFirst' /\ LoaderFailed'
  BY <1>1, <1>3, <1>4, AtList, HeadAt
  DEF TypeOK, LoaderFirst, LoaderFailed, UnderWay, Booting
<1>7. OneShutdown'
  BY <1>1, <1>3, <1>4, AtList, HeadAt DEF TypeOK, OneShutdown, TerminateLast, UnderWay
<1>8. TerminateLast'
  BY <1>1, <1>3, <1>4, AtList, HeadAt DEF TypeOK, OneShutdown, TerminateLast, UnderWay
<1> QED
  BY <1>5, <1>6, <1>7, <1>8 DEF Rest

\* The end of the game thread.
LEMMA TerminateStep ==
    ASSUME IInv, Terminate
    PROVE  Rest'
<1> USE DEF IInv, Rest, Terminate, threadVars, netVars, serverVars
<1>1. taskList \in Seq(TaskSet)
  BY DEF TypeOK
<1>2. taskList' = Tail(taskList) /\ \E op : At(1, op)
  BY <1>1, HeadAt DEF UnderWay
<1>3. /\ taskList # <<>> /\ Len(taskList') = Len(taskList) - 1
      /\ taskList' = <<>> <=> Len(taskList) = 1
      /\ \A i, op : At(i, op)' => i \in Nat \ {0} /\ At(i + 1, op)
  BY <1>2, <1>1, AtList, Popped
<1>4. /\ place = "idle" /\ At(1, "terminate") /\ Len(taskList) = 1 /\ taskList' = <<>>
      /\ \A i, op : ~At(i, op)'
  <2>1. At(1, "terminate") /\ place = "idle"
    BY <1>1, HeadAt
  <2>2. Len(taskList) = 1
    BY <2>1 DEF TerminateLast
  <2>3. ASSUME NEW i, NEW op, At(i, op)' PROVE FALSE
    <3>1. i \in Nat \ {0} /\ i + 1 \in 1 .. 1
      BY <1>1, <1>3, <2>2, <2>3, AtList
    <3> QED
      BY <3>1
  <2> QED
    BY <1>3, <2>1, <2>2, <2>3
<1>5. ClosedOut' /\ ChecksRun' /\ UnderWay' /\ Booting'
  BY <1>1, <1>3, <1>4, AtList, HeadAt
  DEF TypeOK, ClosedOut, ChecksRun, UnderWay, Booting, LoaderFailed
<1>6. LoaderFirst' /\ LoaderFailed'
  BY <1>1, <1>3, <1>4, AtList, HeadAt
  DEF TypeOK, LoaderFirst, LoaderFailed, UnderWay, Booting
<1>7. OneShutdown'
  BY <1>1, <1>3, <1>4, AtList, HeadAt DEF TypeOK, OneShutdown, TerminateLast, UnderWay
<1>8. TerminateLast'
  BY <1>1, <1>3, <1>4, AtList, HeadAt DEF TypeOK, OneShutdown, TerminateLast, UnderWay
<1> QED
  BY <1>5, <1>6, <1>7, <1>8 DEF Rest

\* startServer gives up: the list is empty, and the task it adds the last.
LEMMA NoServicesStep ==
    ASSUME IInv, NoServices
    PROVE  Rest'
<1> DEFINE k == <<"terminate", "">>
<1>0. /\ main = "loaded" /\ ~acceptors /\ taskList' = Append(taskList, k)
      /\ ended' = ended \cup {"scheduler", "database"} /\ main' = "join"
      /\ UNCHANGED <<place, dispatcher, gameState, online, checked, acceptors, running, teardowns>>
  BY DEF NoServices, threadVars, netVars, serverVars
<1>1. /\ taskList \in Seq(TaskSet) /\ taskList = <<>> /\ place = "idle"
      /\ dispatcher = "RUNNING" /\ gameState # "SHUTDOWN" /\ teardowns = 0 /\ ~running
      /\ checked = {} /\ "dispatcher" \notin ended
  BY <1>0 DEF IInv, Rest, TypeOK, LoaderFailed, LoaderFirst, ChecksRun, TerminateLast
<1>2. k \in TaskSet /\ k[1] = "terminate"
  BY TasksAre
<1> HIDE DEF k
<1>3. Len(taskList') = 1 /\ \A i, op : At(i, op)' => i = 1 /\ op = "terminate"
  <2>1. taskList' = <<k>>
    BY <1>0, <1>1, <1>2
  <2> QED
    BY <1>2, <2>1 DEF At
<1>4. ClosedOut' /\ ChecksRun' /\ UnderWay' /\ Booting' /\ LoaderFailed'
  BY <1>0, <1>1
  DEF IInv, Rest, ClosedOut, ChecksRun, UnderWay, Booting, LoaderFailed
<1>5. LoaderFirst' /\ OneShutdown'
  BY <1>0, <1>1, <1>3 DEF LoaderFirst, OneShutdown
<1>6. TerminateLast'
  BY <1>0, <1>1, <1>3 DEF TerminateLast
<1> QED
  BY <1>4, <1>5, <1>6 DEF Rest

\* The loader is the first task.
LEMMA StartServerStep ==
    ASSUME IInv, StartServer
    PROVE  Rest'
<1> DEFINE k == <<"mainLoader", "">>
<1>0. /\ main = "boot" /\ taskList' = <<k>> /\ dispatcher' = "RUNNING" /\ main' = "starting"
      /\ UNCHANGED <<place, ended, gameState, online, checked, acceptors, running, teardowns>>
  BY DEF StartServer, netVars, serverVars
<1>1. /\ place = "idle" /\ gameState # "SHUTDOWN" /\ teardowns = 0
      /\ ~running /\ ~acceptors /\ ended = {} /\ checked = {}
  BY <1>0 DEF IInv, Rest, Booting, ChecksRun
<1>2. k \in TaskSet /\ k[1] = "mainLoader"
  BY TasksAre
<1> HIDE DEF k
<1>3. Len(taskList') = 1 /\ \A i, op : At(i, op)' <=> i = 1 /\ op = "mainLoader"
  BY <1>0, <1>2 DEF At
<1>4. ClosedOut' /\ ChecksRun' /\ UnderWay' /\ Booting'
  BY <1>0, <1>1 DEF IInv, Rest, ClosedOut, ChecksRun, UnderWay, Booting
<1>5. LoaderFirst' /\ LoaderFailed'
  BY <1>0, <1>1, <1>3 DEF LoaderFirst, LoaderFailed
<1>6. OneShutdown' /\ TerminateLast'
  BY <1>0, <1>1, <1>3 DEF OneShutdown, TerminateLast
<1> QED
  BY <1>4, <1>5, <1>6 DEF Rest

\* Game::shutdown, after which nothing gets into the list.
LEMMA GameShutdownStep ==
    ASSUME IInv, GameShutdown
    PROVE  Rest'
<1> DEFINE k == <<"terminate", "">>
<1>0. /\ Idle("shutdown") /\ taskList' = Append(taskList, k) /\ place' = "stopServices"
      /\ ended' = ended \cup {"scheduler", "database"} /\ teardowns' = teardowns + 1
      /\ UNCHANGED <<main, dispatcher, gameState, online, checked, acceptors, running>>
  BY DEF GameShutdown, threadVars, netVars, serverVars, AddTask
<1>1. /\ taskList \in Seq(TaskSet) /\ Len(taskList) \in Nat
      /\ taskList = <<>> <=> Len(taskList) = 0
      /\ \A i, op : At(i, op) => i \in 1 .. Len(taskList)
      /\ \A i, op, other : At(i, op) /\ At(i, other) => op = other
  BY AtList DEF IInv, TypeOK
<1>2. k \in TaskSet /\ k[1] = "terminate"
  BY TasksAre
<1> HIDE DEF k
<1>3. taskList' = Append(taskList, k) =>
          /\ Len(taskList') = Len(taskList) + 1 /\ taskList' # <<>>
          /\ \A i, op : At(i, op)' <=> At(i, op) \/ (i = Len(taskList) + 1 /\ op = "terminate")
  BY <1>1, <1>2, Pushed
<1>4. /\ Len(taskList') = Len(taskList) + 1 /\ taskList' # <<>>
      /\ \A i, op : At(i, op)' <=> At(i, op) \/ (i = Len(taskList) + 1 /\ op = "terminate")
  BY <1>0, <1>3
<1>5. /\ place = "idle" /\ At(1, "shutdown") /\ teardowns = 0 /\ dispatcher = "CLOSING"
      /\ gameState = "SHUTDOWN"
      /\ \A i \in Nat : ~At(i, "terminate") /\ ~At(i, "mainLoader")
  <2>1. place = "idle" /\ At(1, "shutdown")
    BY <1>0, <1>1, HeadAt
  <2>2. teardowns = 0 /\ dispatcher = "CLOSING" /\ gameState = "SHUTDOWN"
    BY <2>1 DEF IInv, Rest, OneShutdown
  <2>3. ASSUME NEW i \in Nat, At(i, "terminate") PROVE FALSE
    BY <1>1, <2>1, <2>2, <2>3 DEF IInv, Rest, TerminateLast
  <2>4. ASSUME NEW i \in Nat, At(i, "mainLoader") PROVE FALSE
    BY <1>1, <2>1, <2>4 DEF IInv, Rest, LoaderFirst
  <2> QED
    BY <2>1, <2>2, <2>3, <2>4
<1>6. ClosedOut' /\ ChecksRun' /\ UnderWay' /\ Booting'
  BY <1>0, <1>1, <1>4, <1>5
  DEF IInv, Rest, TypeOK, ClosedOut, ChecksRun, UnderWay, Booting, LoaderFailed
<1>7. LoaderFirst'
  BY <1>0, <1>1, <1>4, <1>5 DEF IInv, Rest, LoaderFirst, UnderWay
<1>8. LoaderFailed'
  BY <1>0, <1>1, <1>4, <1>5 DEF IInv, Rest, LoaderFailed, LoaderFirst, UnderWay
<1>9. OneShutdown'
  BY <1>0, <1>1, <1>4, <1>5 DEF IInv, Rest, TypeOK, OneShutdown, UnderWay
<1>10. TerminateLast'
  BY <1>0, <1>1, <1>4, <1>5 DEF IInv, Rest, TerminateLast
<1> QED
  BY <1>6, <1>7, <1>8, <1>9, <1>10 DEF Rest

\* The kick of setGameState(SHUTDOWN), and the task it queues.
LEMMA KickAllStep ==
    ASSUME IInv, KickAll
    PROVE  Rest'
<1> DEFINE k == <<"shutdown", "">>
<1>0. /\ place = "kicking" /\ online' = {} /\ place' = "stopping"
      /\ taskList' = Append(taskList, k) \/ UNCHANGED taskList
      /\ UNCHANGED <<main, dispatcher, ended, gameState, checked, acceptors, running, teardowns>>
  BY DEF KickAll, threadVars, netVars, serverVars, AddTask
<1>1. /\ taskList \in Seq(TaskSet) /\ Len(taskList) \in Nat
      /\ taskList = <<>> <=> Len(taskList) = 0
      /\ \A i, op : At(i, op) => i \in 1 .. Len(taskList)
      /\ \A i, op, other : At(i, op) /\ At(i, other) => op = other
  BY AtList DEF IInv, TypeOK
<1>2. k \in TaskSet /\ k[1] = "shutdown"
  BY TasksAre
<1> HIDE DEF k
<1>3. taskList' = Append(taskList, k) =>
          /\ Len(taskList') = Len(taskList) + 1 /\ taskList' # <<>>
          /\ \A i, op : At(i, op)' <=> At(i, op) \/ (i = Len(taskList) + 1 /\ op = "shutdown")
  BY <1>1, <1>2, Pushed
<1>4. /\ Len(taskList') \in {Len(taskList), Len(taskList) + 1}
      /\ taskList' = <<>> => taskList = <<>>
      /\ \A i, op : At(i, op)' => At(i, op) \/ (i = Len(taskList) + 1 /\ op = "shutdown")
      /\ \A i, op : At(i, op) => At(i, op)'
  BY <1>0, <1>3, Unmoved
<1>5. /\ At(1, "setGameState") /\ gameState = "SHUTDOWN" /\ teardowns = 0 /\ taskList # <<>>
      /\ \A i \in Nat : ~At(i, "terminate") /\ ~At(i, "shutdown") /\ ~At(i, "mainLoader")
  <2>1. At(1, "setGameState") /\ gameState = "SHUTDOWN" /\ teardowns = 0
    BY <1>0 DEF IInv, Rest, UnderWay, OneShutdown
  <2>2. ASSUME NEW i \in Nat, At(i, "mainLoader") PROVE FALSE
    BY <1>0, <2>2 DEF IInv, Rest, LoaderFirst
  <2>3. ASSUME NEW i \in Nat, At(i, "terminate") PROVE FALSE
    BY <1>0, <2>1, <2>3 DEF IInv, Rest, TerminateLast
  <2>4. ASSUME NEW i \in Nat, At(i, "shutdown") PROVE FALSE
    BY <1>0, <2>4 DEF IInv, Rest, OneShutdown
  <2> QED
    BY <1>1, <2>1, <2>2, <2>3, <2>4
<1>6. ClosedOut' /\ ChecksRun' /\ UnderWay' /\ Booting'
  BY <1>0, <1>1, <1>4, <1>5
  DEF IInv, Rest, TypeOK, ClosedOut, ChecksRun, UnderWay, Booting, LoaderFailed
<1>7. LoaderFirst'
  BY <1>0, <1>1, <1>4, <1>5 DEF IInv, Rest, LoaderFirst, UnderWay
<1>8. LoaderFailed'
  BY <1>0, <1>1, <1>4, <1>5 DEF IInv, Rest, LoaderFailed, LoaderFirst, UnderWay
<1>9. OneShutdown'
  BY <1>0, <1>1, <1>4, <1>5 DEF IInv, Rest, TypeOK, OneShutdown, UnderWay
<1>10. TerminateLast'
  BY <1>0, <1>1, <1>4, <1>5 DEF IInv, Rest, TerminateLast
<1> QED
  BY <1>6, <1>7, <1>8, <1>9, <1>10 DEF Rest

\* A script of the startup that shuts the server down.
LEMMA LoadInitShutdownStep ==
    ASSUME IInv, LoadInitShutdown
    PROVE  Rest'
<1> DEFINE k == <<"shutdown", "">>
<1>0. /\ place = "loading" /\ gameState' = "SHUTDOWN" /\ place' = "initialised"
      /\ dispatcher = "RUNNING" => taskList' = Append(taskList, k)
      /\ dispatcher' = "CLOSING"
      /\ UNCHANGED <<main, ended, online, checked, acceptors, running, teardowns>>
  BY DEF LoadInitShutdown, threadVars, netVars, serverVars, AddTask
<1>1. /\ taskList \in Seq(TaskSet) /\ Len(taskList) \in Nat
      /\ taskList = <<>> <=> Len(taskList) = 0
      /\ \A i, op : At(i, op) => i \in 1 .. Len(taskList)
      /\ \A i, op, other : At(i, op) /\ At(i, other) => op = other
  BY AtList DEF IInv, TypeOK
<1>2. k \in TaskSet /\ k[1] = "shutdown"
  BY TasksAre
<1> HIDE DEF k
<1>3. taskList' = Append(taskList, k) =>
          /\ Len(taskList') = Len(taskList) + 1 /\ taskList' # <<>>
          /\ \A i, op : At(i, op)' <=> At(i, op) \/ (i = Len(taskList) + 1 /\ op = "shutdown")
  BY <1>1, <1>2, Pushed
<1>5. /\ At(1, "mainLoader") /\ teardowns = 0 /\ taskList # <<>> /\ Len(taskList) = 1
      /\ dispatcher = "RUNNING" /\ main \in {"starting", "waiting"} /\ "dispatcher" \notin ended
      /\ \A i \in Nat : ~At(i, "terminate") /\ ~At(i, "shutdown")
  <2>1. At(1, "mainLoader")
    BY <1>0 DEF IInv, Rest, UnderWay
  <2>2. /\ teardowns = 0 /\ Len(taskList) = 1 /\ dispatcher = "RUNNING"
        /\ main \in {"starting", "waiting"} /\ gameState # "SHUTDOWN"
    BY <1>0, <2>1 DEF IInv, Rest, LoaderFirst
  <2>3. ASSUME NEW i \in Nat, At(i, "terminate") PROVE FALSE
    BY <1>0, <2>2, <2>3 DEF IInv, Rest, TerminateLast
  <2>4. ASSUME NEW i \in Nat, At(i, "shutdown") PROVE FALSE
    BY <2>2, <2>4 DEF IInv, Rest, OneShutdown
  <2>5. "dispatcher" \notin ended
    BY <2>2 DEF IInv, Rest, TerminateLast
  <2> QED
    BY <1>1, <2>1, <2>2, <2>3, <2>4, <2>5
<1>4. /\ Len(taskList') = Len(taskList) + 1 /\ taskList' # <<>>
      /\ \A i, op : At(i, op)' <=> At(i, op) \/ (i = Len(taskList) + 1 /\ op = "shutdown")
  BY <1>0, <1>3, <1>5
<1>6. ClosedOut' /\ ChecksRun' /\ UnderWay' /\ Booting'
  BY <1>0, <1>1, <1>4, <1>5
  DEF IInv, Rest, TypeOK, ClosedOut, ChecksRun, UnderWay, Booting, LoaderFailed
<1>7. LoaderFirst'
  BY <1>0, <1>1, <1>4, <1>5 DEF IInv, Rest, LoaderFirst, UnderWay
<1>8. LoaderFailed'
  BY <1>0, <1>1, <1>4, <1>5 DEF IInv, Rest, LoaderFailed, LoaderFirst, UnderWay
<1>9. OneShutdown'
  BY <1>0, <1>1, <1>4, <1>5 DEF IInv, Rest, TypeOK, OneShutdown, UnderWay
<1>10. TerminateLast'
  BY <1>0, <1>1, <1>4, <1>5 DEF IInv, Rest, TerminateLast
<1> QED
  BY <1>6, <1>7, <1>8, <1>9, <1>10 DEF Rest

\* A request of the network thread, or of a script, while the io_service runs.
LEMMA Asked ==
    ASSUME IInv, NEW k \in TaskSet, k[1] \notin {"mainLoader", "shutdown", "terminate"},
           main = "io", AddTask(k),
           UNCHANGED <<main, place, dispatcher, ended, gameState, online, acceptors, running,
                       teardowns>>
    PROVE  Rest'
<1>0. /\ main = "io"
      /\ \/ taskList' = Append(taskList, k) /\ dispatcher = "RUNNING"
         \/ UNCHANGED taskList
      /\ UNCHANGED <<main, place, dispatcher, ended, gameState, online, acceptors,
                     running, teardowns>>
  BY DEF AddTask
<1>1. /\ taskList \in Seq(TaskSet) /\ Len(taskList) \in Nat
      /\ taskList = <<>> <=> Len(taskList) = 0
      /\ \A i, op : At(i, op) => i \in 1 .. Len(taskList)
      /\ \A i, op, other : At(i, op) /\ At(i, other) => op = other
  BY AtList DEF IInv, TypeOK
<1>3. taskList' = Append(taskList, k) =>
          /\ Len(taskList') = Len(taskList) + 1 /\ taskList' # <<>>
          /\ \A i, op : At(i, op)' <=> At(i, op) \/ (i = Len(taskList) + 1 /\ op = k[1])
  BY <1>1, Pushed
<1>4. /\ taskList' = <<>> => taskList = <<>>
      /\ UNCHANGED Len(taskList) \/ (dispatcher = "RUNNING" /\ Len(taskList') = Len(taskList) + 1)
      /\ \A i : \A op \in {"mainLoader", "shutdown", "terminate"} : At(i, op)' => At(i, op)
      /\ \A i, op : At(i, op) => At(i, op)'
  BY <1>0, <1>3, Unmoved
<1>5. \A i \in Nat : At(i, "terminate") => dispatcher # "RUNNING"
  BY <1>0 DEF IInv, Rest, TerminateLast
<1>6. ClosedOut' /\ ChecksRun' /\ UnderWay' /\ Booting'
  BY <1>0, <1>1, <1>4, <1>5
  DEF IInv, Rest, TypeOK, ClosedOut, ChecksRun, UnderWay, Booting, LoaderFailed
<1>7. LoaderFirst'
  BY <1>0, <1>1, <1>4, <1>5 DEF IInv, Rest, LoaderFirst, UnderWay
<1>8. LoaderFailed'
  BY <1>0, <1>1, <1>4, <1>5 DEF IInv, Rest, LoaderFailed, LoaderFirst, UnderWay
<1>9. OneShutdown'
  BY <1>0, <1>1, <1>4, <1>5 DEF IInv, Rest, TypeOK, OneShutdown, UnderWay
<1>10. TerminateLast'
  BY <1>0, <1>1, <1>4, <1>5 DEF IInv, Rest, TerminateLast
<1> QED
  BY <1>6, <1>7, <1>8, <1>9, <1>10 DEF Rest

\* The network thread, and the requests it passes on.
LEMMA NetSteps == IInv /\ NetStep => Rest'
<1> SUFFICES ASSUME IInv, NetStep PROVE Rest'
  OBVIOUS
<1>1. ASSUME NEW k \in Requests \cup ({"logout"} \X Players), Request(k)
      PROVE  Rest'
  <2>1. k[1] \in {"setGameState", "saveGameState", "logout"}
    <3>1. CASE k \in {<<"setGameState", t>> : t \in {"NORMAL", "CLOSED", "SHUTDOWN"}}
      BY <3>1
    <3>2. CASE k = <<"saveGameState", "">>
      BY <3>2
    <3>3. CASE k \in {"logout"} \X Players
      BY <3>3
    <3> QED
      BY <3>1, <3>2, <3>3 DEF Requests
  <2>2. /\ main = "io" /\ AddTask(k)
        /\ UNCHANGED <<main, place, dispatcher, ended, gameState, online, acceptors,
                       running, teardowns>>
    BY <1>1 DEF Request, threadVars, serverVars
  <2> QED
    BY <2>1, <2>2, TasksAre, Asked
<1>2. ASSUME NEW p \in Players, QueueLogin(p)
      PROVE  Rest'
  <2> DEFINE k == <<"login", p>>
  <2>1. k[1] = "login" /\ k \in TaskSet
    BY TasksAre
  <2>2. /\ main = "io" /\ AddTask(k)
        /\ UNCHANGED <<main, place, dispatcher, ended, gameState, online, acceptors,
                       running, teardowns>>
    BY <1>2 DEF QueueLogin, threadVars, serverVars
  <2> HIDE DEF k
  <2> QED
    BY <2>1, <2>2, Asked
<1>3. ASSUME NEW p \in Players, CheckFirstMessage(p)
      PROVE  Rest'
  <2>1. /\ main = "io"
        /\ UNCHANGED <<main, place, taskList, dispatcher, ended, gameState, online, acceptors,
                       running, teardowns>>
    BY <1>3 DEF CheckFirstMessage, threadVars, serverVars
  <2>2. \A i, op : At(i, op)' <=> At(i, op)
    BY <2>1, Unmoved
  <2> QED
    BY <2>1, <2>2 DEF IInv, Rest, ClosedOut, ChecksRun, UnderWay, Booting, LoaderFirst,
                      LoaderFailed, OneShutdown, TerminateLast
<1> QED
  BY <1>1, <1>2, <1>3 DEF NetStep

LEMMA InitIInv == Init => IInv
<1> SUFFICES ASSUME Init PROVE IInv
  OBVIOUS
<1>1. taskList = <<>> /\ \A i, op : ~At(i, op)
  BY DEF Init, At
<1>2. TypeOK
  <2>1. taskList \in Seq(TaskSet)
    BY <1>1
  <2>2. requests \in 0 .. MaxRequests /\ teardowns \in 0 .. 1
    BY LifecycleAssumption DEF Init
  <2>3. online \subseteq Players /\ checked \subseteq Players /\ gameState \in GameStates
    BY DEF Init, GameStates
  <2>4. /\ notified \in BOOLEAN /\ databaseStarted \in BOOLEAN
        /\ acceptors \in BOOLEAN /\ running \in BOOLEAN /\ deathTimer \in BOOLEAN
    BY DEF Init
  <2>5. main = "boot" /\ place = "idle" /\ dispatcher = "TERMINATED" /\ ended = {}
    BY DEF Init
  <2> QED
    BY <2>1, <2>2, <2>3, <2>4, <2>5 DEF TypeOK
<1>3. Rest
  BY <1>1 DEF Init, Rest, ClosedOut, ChecksRun, UnderWay, Booting, LoaderFirst,
              LoaderFailed, OneShutdown, TerminateLast
<1> QED
  BY <1>2, <1>3 DEF IInv

LEMMA NextIInv == IInv /\ [Next]_vars => IInv'
<1> SUFFICES ASSUME IInv, [Next]_vars PROVE Rest'
  BY TypeStep DEF IInv
<1>1. CASE MainStep
  BY <1>1, MainSteps, NoServicesStep DEF MainStep
<1>2. CASE LoaderStep
  BY <1>2, Loading, Loaded, LoadInitShutdownStep DEF LoaderStep
<1>3. CASE GameStep
  BY <1>2, <1>3, Begun, Ended, PlayersMove, KickAllStep, StopThreadsStep, GameShutdownStep,
     StopServicesStep, TerminateStep DEF GameStep
<1>4. CASE UNCHANGED vars
  <2>1. \A i, op : At(i, op)' <=> At(i, op)
    BY <1>4, Unmoved DEF vars
  <2> QED
    BY <1>4, <2>1 DEF vars, threadVars, netVars, serverVars, IInv, Rest, ClosedOut, ChecksRun,
       UnderWay, Booting, LoaderFirst, LoaderFailed, OneShutdown, TerminateLast
<1> QED
  BY <1>1, <1>3, <1>4, StartServerStep, NetSteps DEF Next

-----------------------------------------------------------------------------
(* The theorems                                                            *)

\* Of every behaviour: what the lemmas above say of one step.
THEOREM InductiveInvariant == Spec => []IInv
BY InitIInv, NextIInv, PTL DEF Spec

\* The state of the server keeps its types; in particular Game::shutdown runs
\* at most once, however the shutdown was asked for, and however often.
THEOREM TypeCorrect == Spec => []TypeOK
<1>1. IInv => TypeOK
  BY DEF IInv
<1> QED
  BY <1>1, InductiveInvariant, PTL

\* While the server is closed nobody without CanAlwaysLogin is in the game: not
\* those online when it closed, nor those whose login was already under way.
THEOREM ClosedServerKeepsOut == Spec => []ClosedKeepsOut
<1>1. IInv => ClosedKeepsOut
  BY DEF IInv, Rest, ClosedOut, ClosedKeepsOut
<1> QED
  BY <1>1, InductiveInvariant, PTL

\* startServer returns only when every accepted task has run, none is half done
\* and no login is on its way: whichever of its two ways out it took.
THEOREM ExitIsClean == Spec => []ExitLeavesNothing
<1>1. IInv => ExitLeavesNothing
  BY DEF IInv, Rest, ChecksRun, TerminateLast, ExitLeavesNothing
<1> QED
  BY <1>1, InductiveInvariant, PTL
=============================================================================

--------------------------- MODULE DatabaseTasks ---------------------------
(***************************************************************************)
(* The asynchronous database queue (databasetasks.h, databasetasks.cpp):   *)
(* game code and the network thread (ban checks) queue statements, one     *)
(* worker thread executes them, and Game::saveGameState and Game::shutdown *)
(* drain the queue on the game thread with flush().                        *)
(*                                                                         *)
(* A critical section under taskLock is one step.  Both threads use the    *)
(* one Database object, whose databaseLock serialises the statements, so   *)
(* a statement is one step and executed is their order at the database.    *)
(* The callback of a task is handed to the dispatcher in a later step.     *)
(***************************************************************************)
EXTENDS Naturals, Sequences, FiniteSets

CONSTANTS Callers,        \* threads that call addTask
          GameThread,     \* the caller that also flushes, stops and shuts down
          Tasks,
          WithCallback,   \* the tasks that carry a callback
          NoTask

VARIABLES threadState, tasks,
          pc,         \* the worker's place in threadMain
          inHand,     \* the task each of worker and game thread has popped and not finished
          call,       \* each caller's place
          afterFlush, \* where flush() returns to on the game thread
          accepted, executed, callbacks   \* histories

vars == <<threadState, tasks, pc, inHand, call, afterFlush, accepted, executed, callbacks>>

Hands == {"worker", "flush"}

Members(s) == {s[i] : i \in DOMAIN s}

InFlight == {inHand[h] : h \in Hands} \ {NoTask}

TypeOK ==
    /\ threadState \in {"RUNNING", "CLOSING", "TERMINATED"}
    /\ tasks \in Seq(Tasks)
    /\ pc \in {"check", "lock", "wait", "woken", "run", "post", "done"}
    /\ inHand \in [Hands -> Tasks \cup {NoTask}]
    /\ call \in [Callers -> {"idle", "signal", "flush", "run", "post", "notify"}]
    /\ afterFlush \in {"idle", "notify"}
    /\ accepted \in Seq(Tasks) /\ executed \in Seq(Tasks) /\ callbacks \in Seq(Tasks)

\* start(): the worker runs with an empty queue.
Init ==
    /\ threadState = "RUNNING"
    /\ tasks = <<>>
    /\ pc = "check"
    /\ inHand = [h \in Hands |-> NoTask]
    /\ call = [c \in Callers |-> "idle"]
    /\ afterFlush = "idle"
    /\ accepted = <<>> /\ executed = <<>> /\ callbacks = <<>>

-----------------------------------------------------------------------------
Goto(c, place) == call' = [call EXCEPT ![c] = place]

\* addTask: outside RUNNING the statement is dropped, silently.
AddTask(c, t) ==
    /\ call[c] = "idle"
    /\ t \notin Members(accepted)
    /\ threadState = "RUNNING"
    /\ tasks' = Append(tasks, t)
    /\ accepted' = Append(accepted, t)
    /\ Goto(c, IF tasks = <<>> THEN "signal" ELSE "idle")
    /\ UNCHANGED <<threadState, pc, inHand, afterFlush, executed, callbacks>>

NotifyOne == IF pc = "wait" THEN "woken" ELSE pc

\* The end of addTask and of shutdown.
Signal(c) ==
    /\ call[c] \in {"signal", "notify"}
    /\ pc' = NotifyOne
    /\ Goto(c, "idle")
    /\ UNCHANGED <<threadState, tasks, inHand, afterFlush, accepted, executed, callbacks>>

\* ThreadHolder::stop, from Game::setGameState.
Stop ==
    /\ call[GameThread] = "idle"
    /\ threadState = "RUNNING"
    /\ threadState' = "CLOSING"
    /\ UNCHANGED <<tasks, pc, inHand, call, afterFlush, accepted, executed, callbacks>>

\* Game::saveGameState calls flush().
Flush ==
    /\ call[GameThread] = "idle"
    /\ Goto(GameThread, "flush")
    /\ afterFlush' = "idle"
    /\ UNCHANGED <<threadState, tasks, pc, inHand, accepted, executed, callbacks>>

\* Seeded fault: shutdown() without flush().
Shutdown_NoFlush ==
    /\ call[GameThread] = "idle"
    /\ threadState # "TERMINATED"
    /\ threadState' = "TERMINATED"
    /\ Goto(GameThread, "notify")
    /\ afterFlush' = "notify"
    /\ UNCHANGED <<tasks, pc, inHand, accepted, executed, callbacks>>

\* shutdown(): the state changes under the lock, then flush(), then notify_one().
Shutdown ==
    /\ call[GameThread] = "idle"
    /\ threadState # "TERMINATED"
    /\ threadState' = "TERMINATED"
    /\ Goto(GameThread, "flush")
    /\ afterFlush' = "notify"
    /\ UNCHANGED <<tasks, pc, inHand, accepted, executed, callbacks>>

\* Seeded fault: front() without pop_front().
Pop_Keeps(h) ==
    /\ inHand' = [inHand EXCEPT ![h] = Head(tasks)]
    /\ tasks' = tasks

\* Seeded fault: back() for front().
Pop_Last(h) ==
    /\ inHand' = [inHand EXCEPT ![h] = tasks[Len(tasks)]]
    /\ tasks' = SubSeq(tasks, 1, Len(tasks) - 1)

Pop(h) ==
    /\ inHand' = [inHand EXCEPT ![h] = Head(tasks)]
    /\ tasks' = Tail(tasks)

\* runTask: the statement at the database ...
Execute(h) == executed' = Append(executed, inHand[h])

\* Seeded fault: An empty callback is posted.
PostCallback_Empty(h) ==
    /\ callbacks' = IF inHand[h] \in WithCallback THEN Append(callbacks, inHand[h]) ELSE Append(callbacks, NoTask)
    /\ inHand' = [inHand EXCEPT ![h] = NoTask]

\* ... and then the callback, handed to g_dispatcher.addTask.
PostCallback(h) ==
    /\ callbacks' = IF inHand[h] \in WithCallback THEN Append(callbacks, inHand[h]) ELSE callbacks
    /\ inHand' = [inHand EXCEPT ![h] = NoTask]

FlushPop ==
    /\ call[GameThread] = "flush" /\ tasks # <<>>
    /\ Pop("flush")
    /\ Goto(GameThread, "run")
    /\ UNCHANGED <<threadState, pc, afterFlush, accepted, executed, callbacks>>

FlushExecute ==
    /\ call[GameThread] = "run"
    /\ Execute("flush")
    /\ Goto(GameThread, "post")
    /\ UNCHANGED <<threadState, tasks, pc, inHand, afterFlush, accepted, callbacks>>

FlushPost ==
    /\ call[GameThread] = "post"
    /\ PostCallback("flush")
    /\ Goto(GameThread, "flush")
    /\ UNCHANGED <<threadState, tasks, pc, afterFlush, accepted, executed>>

FlushReturn ==
    /\ call[GameThread] = "flush" /\ tasks = <<>>
    /\ Goto(GameThread, afterFlush)
    /\ UNCHANGED <<threadState, tasks, pc, inHand, afterFlush, accepted, executed, callbacks>>

FlushStep == FlushPop \/ FlushExecute \/ FlushPost \/ FlushReturn

-----------------------------------------------------------------------------
(* threadMain: the state is tested before the lock is taken                *)

CheckState ==
    /\ pc = "check"
    /\ pc' = IF threadState = "TERMINATED" THEN "done" ELSE "lock"
    /\ UNCHANGED <<threadState, tasks, inHand, call, afterFlush, accepted, executed, callbacks>>

WaitForSignal ==
    /\ pc = "lock" /\ tasks = <<>>
    /\ pc' = "wait"
    /\ UNCHANGED <<threadState, tasks, inHand, call, afterFlush, accepted, executed, callbacks>>

SpuriousWakeup ==
    /\ pc = "wait"
    /\ pc' = "woken"
    /\ UNCHANGED <<threadState, tasks, inHand, call, afterFlush, accepted, executed, callbacks>>

WorkerPop ==
    /\ pc \in {"lock", "woken"} /\ tasks # <<>>
    /\ Pop("worker")
    /\ pc' = "run"
    /\ UNCHANGED <<threadState, call, afterFlush, accepted, executed, callbacks>>

\* Seeded fault: A wait with the predicate !tasks.empty().
WokenForNothing_WaitsAgain ==
    /\ pc = "woken" /\ tasks = <<>>
    /\ pc' = "wait"
    /\ UNCHANGED <<threadState, tasks, inHand, call, afterFlush, accepted, executed, callbacks>>

WokenForNothing ==
    /\ pc = "woken" /\ tasks = <<>>
    /\ pc' = "check"
    /\ UNCHANGED <<threadState, tasks, inHand, call, afterFlush, accepted, executed, callbacks>>

WorkerExecute ==
    /\ pc = "run"
    /\ Execute("worker")
    /\ pc' = "post"
    /\ UNCHANGED <<threadState, tasks, inHand, call, afterFlush, accepted, callbacks>>

WorkerPost ==
    /\ pc = "post"
    /\ PostCallback("worker")
    /\ pc' = "check"
    /\ UNCHANGED <<threadState, tasks, call, afterFlush, accepted, executed>>

WorkerStep ==
    CheckState \/ WaitForSignal \/ WorkerPop \/ WokenForNothing \/ WorkerExecute \/ WorkerPost

Next ==
    \/ WorkerStep \/ SpuriousWakeup
    \/ FlushStep \/ Flush \/ Stop \/ Shutdown
    \/ \E c \in Callers : Signal(c) \/ \E t \in Tasks : AddTask(c, t)

\* Threads that can run do run; flush() is on the game thread's stack.
Fairness ==
    /\ WF_vars(WorkerStep) /\ WF_vars(FlushStep)
    /\ \A c \in Callers : WF_vars(Signal(c))

Spec == Init /\ [][Next]_vars

FairSpec == Spec /\ Fairness

-----------------------------------------------------------------------------
(* Properties                                                              *)

\* No statement is lost or executed twice, although worker and flush() pop
\* from the same queue.
ExactlyOnce ==
    /\ Len(accepted) =
          Len(executed) + Len(tasks)
             + Cardinality({h \in Hands : inHand[h] # NoTask /\ inHand[h] \notin Members(executed)})
    /\ Members(accepted) = Members(executed) \cup Members(tasks) \cup InFlight

\* A statement can overtake an earlier one only while the other thread still
\* has that earlier one in hand: flush() may pass the worker, by one statement.
BoundedReordering ==
    [][\A i, j \in DOMAIN accepted :
          /\ i < j
          /\ accepted[j] \in Members(executed') \ Members(executed)
          /\ accepted[i] \notin Members(executed')
          => accepted[i] \in InFlight]_vars

\* Every accepted statement is executed, also across stop() and shutdown().
EveryStatementExecuted ==
    \A t \in Tasks : (t \in Members(accepted)) ~> (t \in Members(executed))

\* shutdown()'s notify_one ends the worker, so that g_databaseTasks.join()
\* returns, unless the worker is between its test of the state and its wait:
\* there it has seen a state that is not TERMINATED, and the signal comes too early.
JoinUnlessMissed ==
    (call[GameThread] = "notify" /\ pc # "lock") ~> (pc = "done")
=============================================================================

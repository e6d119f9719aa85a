----------------------------- MODULE Dispatcher -----------------------------
(***************************************************************************)
(* The dispatcher (tasks.h, tasks.cpp): the game thread and the queue of   *)
(* tasks other threads hand to it.  A critical section under taskLock is   *)
(* one step; taskSignal.notify_one() in addTask happens after the unlock   *)
(* and is a step of its own.  The wait on taskSignal has no predicate and  *)
(* may wake spuriously.  threadState is an atomic that stop() writes       *)
(* without the lock.                                                       *)
(*                                                                         *)
(* taskList, tmpTaskList and threadState are the members of the same name. *)
(* accepted and handled are histories: the tasks pushed on taskList and    *)
(* the tasks taken off tmpTaskList, in order.  deleted is the set of Task  *)
(* objects that have been freed.                                           *)
(***************************************************************************)
EXTENDS Naturals, Sequences

CONSTANTS Producers,      \* threads that call addTask: scheduler, network, database, main
          GameThread,     \* the dispatcher's own thread: tasks call addTask, stop and shutdown too
          Tasks,          \* the Task objects callers create
          Expiring,       \* those created with an expiration time
          TermTask        \* the task shutdown() creates

ASSUME ConstantsAssumption ==
    /\ GameThread \notin Producers
    /\ Expiring \subseteq Tasks
    /\ TermTask \notin Tasks

VARIABLES threadState, taskList, tmpTaskList, pc, doSignal, accepted, handled, deleted

vars == <<threadState, taskList, tmpTaskList, pc, doSignal, accepted, handled, deleted>>

Callers == Producers \cup {GameThread}

AllTasks == Tasks \cup {TermTask}

Members(s) == {s[i] : i \in DOMAIN s}

\* The game thread's place in threadMain.  "exec" is inside (*task)().
Places == {"check", "lock", "wait", "woken", "run", "exec", "done"}

TypeOK ==
    /\ threadState \in {"RUNNING", "CLOSING", "TERMINATED"}
    /\ taskList \in Seq(AllTasks)
    /\ tmpTaskList \in Seq(AllTasks)
    /\ pc \in Places
    /\ doSignal \in [Callers -> BOOLEAN]
    /\ accepted \in Seq(AllTasks)
    /\ handled \in Seq(AllTasks)
    /\ deleted \subseteq AllTasks

\* start(): the thread exists and runs threadMain.
Init ==
    /\ threadState = "RUNNING"
    /\ taskList = <<>>
    /\ tmpTaskList = <<>>
    /\ pc = "check"
    /\ doSignal = [c \in Callers |-> FALSE]
    /\ accepted = <<>>
    /\ handled = <<>>
    /\ deleted = {}

-----------------------------------------------------------------------------
(* The calls.  The game thread calls from inside a task.                   *)

CanCall(c) == ~doSignal[c] /\ (c = GameThread => pc = "exec")

\* Seeded fault: Push of a null pointer.
Push_Null(k) ==
    /\ taskList' = Append(taskList, "nullptr")
    /\ accepted' = Append(accepted, k)

\* Seeded fault: push_front for push_back.
Push_Front(k) ==
    /\ taskList' = <<k>> \o taskList
    /\ accepted' = Append(accepted, k)

Push(k) ==
    /\ taskList' = Append(taskList, k)
    /\ accepted' = Append(accepted, k)

\* Seeded fault: The test of taskList.empty() inverted.
AddTask_SignalOnlyBusy(c, k) ==
    /\ CanCall(c)
    /\ k \notin Members(accepted) \cup deleted
    /\ threadState = "RUNNING"
    /\ doSignal' = [doSignal EXCEPT ![c] = (taskList # <<>>)]
    /\ Push(k)
    /\ UNCHANGED <<threadState, tmpTaskList, pc, handled, deleted>>

\* addTask while the thread is RUNNING: the caller will signal if the list was empty.
AddTask(c, k) ==
    /\ CanCall(c)
    /\ k \notin Members(accepted) \cup deleted
    /\ threadState = "RUNNING"
    /\ doSignal' = [doSignal EXCEPT ![c] = (taskList = <<>>)]
    /\ Push(k)
    /\ UNCHANGED <<threadState, tmpTaskList, pc, handled, deleted>>

\* addTask in any other state frees the task.
RejectTask(c, k) ==
    /\ CanCall(c)
    /\ k \notin Members(accepted) \cup deleted
    /\ threadState # "RUNNING"
    /\ deleted' = deleted \cup {k}
    /\ UNCHANGED <<threadState, taskList, tmpTaskList, pc, doSignal, accepted, handled>>

\* The only thread that ever waits on taskSignal is the game thread.
NotifyOne == IF pc = "wait" THEN "woken" ELSE pc

\* The end of addTask, after the unlock.
Signal(c) ==
    /\ doSignal[c]
    /\ doSignal' = [doSignal EXCEPT ![c] = FALSE]
    /\ pc' = NotifyOne
    /\ UNCHANGED <<threadState, taskList, tmpTaskList, accepted, handled, deleted>>

\* ThreadHolder::stop, called by Game::setGameState from inside a task.  The
\* server never calls it after shutdown(): setGameState calls it before the task
\* that runs Game::shutdown begins, and startServer's own shutdown() is reached
\* only when no service, and so no signal handler, runs.
Stop ==
    /\ CanCall(GameThread)
    /\ TermTask \notin Members(accepted)
    /\ threadState' = "CLOSING"
    /\ UNCHANGED <<taskList, tmpTaskList, pc, doSignal, accepted, handled, deleted>>

\* Seeded fault: shutdown() without notify_one.
Shutdown_NoSignal(c) ==
    /\ CanCall(c)
    /\ TermTask \notin Members(accepted)
    /\ Push(TermTask)
    /\ pc' = pc
    /\ UNCHANGED <<threadState, tmpTaskList, doSignal, handled, deleted>>

\* Dispatcher::shutdown: the push ignores threadState and signals under the lock.
\* The server calls it once, from Game::shutdown or from startServer.
Shutdown(c) ==
    /\ CanCall(c)
    /\ TermTask \notin Members(accepted)
    /\ Push(TermTask)
    /\ pc' = NotifyOne
    /\ UNCHANGED <<threadState, tmpTaskList, doSignal, handled, deleted>>

-----------------------------------------------------------------------------
(* threadMain                                                              *)

\* while (getState() != THREAD_STATE_TERMINATED)
CheckState ==
    /\ pc = "check"
    /\ pc' = IF threadState = "TERMINATED" THEN "done" ELSE "lock"
    /\ UNCHANGED <<threadState, taskList, tmpTaskList, doSignal, accepted, handled, deleted>>

\* Seeded fault: A copy of the list for the swap.
Swap_NoClear ==
    /\ tmpTaskList' = taskList
    /\ taskList' = taskList
    /\ pc' = "run"
    /\ UNCHANGED <<threadState, doSignal, accepted, handled, deleted>>

\* tmpTaskList.swap(taskList); tmpTaskList was cleared.
Swap ==
    /\ tmpTaskList' = taskList
    /\ taskList' = <<>>
    /\ pc' = "run"
    /\ UNCHANGED <<threadState, doSignal, accepted, handled, deleted>>

TakeTasks ==
    /\ pc = "lock"
    /\ taskList # <<>>
    /\ Swap

WaitForSignal ==
    /\ pc = "lock"
    /\ taskList = <<>>
    /\ pc' = "wait"
    /\ UNCHANGED <<threadState, taskList, tmpTaskList, doSignal, accepted, handled, deleted>>

SpuriousWakeup ==
    /\ pc = "wait"
    /\ pc' = "woken"
    /\ UNCHANGED <<threadState, taskList, tmpTaskList, doSignal, accepted, handled, deleted>>

\* wait returned and holds the lock again: the swap is not guarded by a second test.
TakeAfterWait == pc = "woken" /\ Swap

\* The loop body's end for the first task of tmpTaskList: delete task.
Retire ==
    /\ handled' = Append(handled, Head(tmpTaskList))
    /\ tmpTaskList' = Tail(tmpTaskList)
    /\ deleted' = deleted \cup {Head(tmpTaskList)}

\* hasExpired() is true: the task is freed without running.
DropExpired ==
    /\ pc = "run" /\ tmpTaskList # <<>>
    /\ Head(tmpTaskList) \in Expiring
    /\ Retire
    /\ UNCHANGED <<threadState, taskList, pc, doSignal, accepted>>

\* Seeded fault: delete before the call.
BeginTask_Deletes ==
    /\ pc = "run" /\ tmpTaskList # <<>>
    /\ Head(tmpTaskList) # TermTask
    /\ pc' = "exec"
    /\ deleted' = deleted \cup {Head(tmpTaskList)}
    /\ UNCHANGED <<threadState, taskList, tmpTaskList, doSignal, accepted, handled>>

BeginTask ==
    /\ pc = "run" /\ tmpTaskList # <<>>
    /\ Head(tmpTaskList) # TermTask
    /\ pc' = "exec"
    /\ UNCHANGED <<threadState, taskList, tmpTaskList, doSignal, accepted, handled, deleted>>

EndTask ==
    /\ pc = "exec"
    /\ ~doSignal[GameThread]
    /\ Retire
    /\ pc' = "run"
    /\ UNCHANGED <<threadState, taskList, doSignal, accepted>>

\* The task shutdown() made: setState(TERMINATED).  Its notify_one finds nobody waiting.
RunTermTask ==
    /\ pc = "run" /\ tmpTaskList # <<>>
    /\ Head(tmpTaskList) = TermTask
    /\ threadState' = "TERMINATED"
    /\ Retire
    /\ UNCHANGED <<taskList, pc, doSignal, accepted>>

EndBatch ==
    /\ pc = "run" /\ tmpTaskList = <<>>
    /\ pc' = "check"
    /\ UNCHANGED <<threadState, taskList, tmpTaskList, doSignal, accepted, handled, deleted>>

GameStep ==
    CheckState \/ TakeTasks \/ WaitForSignal \/ TakeAfterWait \/ DropExpired
        \/ BeginTask \/ EndTask \/ RunTermTask \/ EndBatch

Next ==
    \/ GameStep
    \/ SpuriousWakeup
    \/ Stop
    \/ \E c \in Callers :
          \/ Signal(c)
          \/ Shutdown(c)
          \/ \E k \in Tasks : AddTask(c, k) \/ RejectTask(c, k)

\* A thread that can run runs; a condition variable owes nobody a spurious wakeup.
Fairness == WF_vars(GameStep) /\ \A c \in Callers : WF_vars(Signal(c))

Spec == Init /\ [][Next]_vars

FairSpec == Spec /\ Fairness

-----------------------------------------------------------------------------
(* Properties                                                              *)

\* No wakeup is lost: addTask signals only when the list was empty, and the
\* signal comes after the unlock, so whenever the game thread sleeps on a list
\* that is not empty some caller is still about to signal.
NoLostWakeup == pc = "wait" /\ taskList # <<>> => \E c \in Callers : doSignal[c]

\* Handling follows acceptance: what has been handled, the batch being run and
\* the list are together exactly the tasks accepted, in the order of addTask.
FifoConservation == accepted = handled \o tmpTaskList \o taskList

\* No task is touched after its delete: a queued task has not been freed, and
\* no task is queued twice (it would be freed twice).
NoUseAfterDelete ==
    /\ \A k \in Members(taskList) \cup Members(tmpTaskList) : k \notin deleted
    /\ \A i, j \in DOMAIN accepted : accepted[i] = accepted[j] => i = j

\* The promise of TaskQueue, with its obligation to handle what was accepted.
Abstract == INSTANCE TaskQueue WITH Tasks <- Tasks, TermTask <- TermTask,
                                   accepted <- accepted, handled <- handled
ImplementsTaskQueue == Abstract!Spec

\* shutdown() ends the thread: startServer's g_dispatcher.join() returns.
JoinReturns == (TermTask \in Members(accepted)) ~> (pc = "done")
=============================================================================

-------------------------- MODULE DispatcherProofs --------------------------
(***************************************************************************)
(* Theorems about Dispatcher for any number of producers and tasks.  The   *)
(* inductive invariant adds to the type invariant what the game thread's   *)
(* place says of tmpTaskList: it is empty wherever the lists are about to  *)
(* be swapped, and not empty while a task is executing.                    *)
(***************************************************************************)
EXTENDS Dispatcher, SequenceTheorems, TLAPS

\* Outside the for loop of threadMain, tmpTaskList has been cleared.
BatchShape ==
    /\ pc \in {"check", "lock", "wait", "woken", "done"} => tmpTaskList = <<>>
    /\ pc = "exec" => tmpTaskList # <<>>

IInv == TypeOK /\ BatchShape /\ NoLostWakeup /\ FifoConservation

-----------------------------------------------------------------------------
\* Moving the head of the second sequence to the end of the first one keeps
\* their concatenation.
LEMMA MoveHead ==
    ASSUME NEW S, NEW a \in Seq(S), NEW b \in Seq(S), b # <<>>
    PROVE  Append(a, Head(b)) \o Tail(b) = a \o b
<1>1. Head(b) \in S /\ Tail(b) \in Seq(S)
  BY HeadTailProperties
<1>2. <<Head(b)>> \in Seq(S)
  BY <1>1
<1>3. Append(a, Head(b)) = a \o <<Head(b)>>
  BY <1>1, AppendIsConcat
<1>4. (a \o <<Head(b)>>) \o Tail(b) = a \o (<<Head(b)>> \o Tail(b))
  BY <1>1, <1>2, ConcatAssociative
<1>5. <<Head(b)>> \o Tail(b) = b
  <2>1. <<Head(b)>> \o Tail(b) \in Seq(S)
    BY <1>1, <1>2, ConcatProperties
  <2>2. Len(<<Head(b)>> \o Tail(b)) = Len(b)
    BY <1>1, <1>2, ConcatProperties, HeadTailProperties, LenProperties
  <2>3. \A i \in 1 .. Len(b) : (<<Head(b)>> \o Tail(b))[i] = b[i]
    BY <1>1, <1>2, ConcatProperties, HeadTailProperties, LenProperties
  <2> QED
    BY <2>1, <2>2, <2>3, SeqEqual
<1> QED
  BY <1>3, <1>4, <1>5

-----------------------------------------------------------------------------
LEMMA InitIInv == Init => IInv
BY DEF Init, IInv, TypeOK, BatchShape, NoLostWakeup, FifoConservation, Places, Callers

\* A push preserves the conservation law.
LEMMA PushFifo ==
    ASSUME IInv, NEW k \in AllTasks, Push(k), UNCHANGED <<tmpTaskList, handled>>
    PROVE  /\ taskList' \in Seq(AllTasks)
           /\ accepted' \in Seq(AllTasks)
           /\ FifoConservation'
<1> DEFINE front == handled \o tmpTaskList
<1>1. front \in Seq(AllTasks)
  BY ConcatProperties DEF IInv, TypeOK
<1>2. <<k>> \in Seq(AllTasks)
  OBVIOUS
<1>3. accepted = front \o taskList /\ taskList \in Seq(AllTasks) /\ accepted \in Seq(AllTasks)
  BY DEF IInv, TypeOK, FifoConservation
<1>4. Append(accepted, k) = accepted \o <<k>> /\ Append(taskList, k) = taskList \o <<k>>
  BY <1>3, AppendIsConcat
<1> HIDE DEF front
<1>5. (front \o taskList) \o <<k>> = front \o (taskList \o <<k>>)
  BY <1>1, <1>2, <1>3, ConcatAssociative
<1>6. accepted' = front \o taskList'
  BY <1>3, <1>4, <1>5 DEF Push
<1>7. taskList' \in Seq(AllTasks) /\ accepted' \in Seq(AllTasks)
  BY <1>3, AppendProperties DEF Push
<1>8. FifoConservation'
  BY <1>6, Zenon DEF FifoConservation, front
<1> QED
  BY <1>7, <1>8

\* Taking the first task off the batch preserves the conservation law.
LEMMA RetireFifo ==
    ASSUME IInv, tmpTaskList # <<>>, Retire, UNCHANGED <<accepted, taskList>>
    PROVE  /\ tmpTaskList' \in Seq(AllTasks)
           /\ handled' \in Seq(AllTasks)
           /\ deleted' \subseteq AllTasks
           /\ FifoConservation'
<1>1. /\ Head(tmpTaskList) \in AllTasks
      /\ Tail(tmpTaskList) \in Seq(AllTasks)
  BY HeadTailProperties DEF IInv, TypeOK
<1>2. Append(handled, Head(tmpTaskList)) \o Tail(tmpTaskList) = handled \o tmpTaskList
  BY MoveHead DEF IInv, TypeOK
<1>3. FifoConservation'
  BY <1>2 DEF IInv, Retire, FifoConservation
<1> QED
  BY <1>1, <1>3 DEF IInv, TypeOK, Retire

\* The swap preserves the conservation law because the batch was empty.
LEMMA SwapFifo ==
    ASSUME IInv, tmpTaskList = <<>>, Swap
    PROVE  FifoConservation'
<1>1. handled \o <<>> = handled
  BY ConcatEmptySeq DEF IInv, TypeOK
<1>2. handled \o taskList \in Seq(AllTasks)
  BY ConcatProperties DEF IInv, TypeOK
<1>3. (handled \o taskList) \o <<>> = handled \o taskList
  BY <1>2, ConcatEmptySeq
<1> QED
  BY <1>1, <1>3 DEF IInv, Swap, FifoConservation

LEMMA NextIInv == IInv /\ [Next]_vars => IInv'
<1> SUFFICES ASSUME IInv, [Next]_vars PROVE IInv'
  OBVIOUS
<1> USE DEF IInv
<1>1. ASSUME NEW c \in Callers, NEW k \in Tasks, AddTask(c, k) PROVE IInv'
  <2>1. k \in AllTasks /\ Push(k) /\ UNCHANGED <<tmpTaskList, handled>>
    BY <1>1 DEF AddTask, AllTasks
  <2>2. TypeOK' /\ FifoConservation'
    BY <1>1, <2>1, PushFifo DEF AddTask, TypeOK
  <2>3. BatchShape'
    BY <1>1 DEF AddTask, BatchShape
  <2>4. NoLostWakeup'
    <3>1. CASE taskList = <<>>
      BY <1>1, <3>1 DEF AddTask, NoLostWakeup, TypeOK
    <3>2. CASE taskList # <<>>
      <4>1. doSignal' = doSignal
        BY <1>1, <3>2 DEF AddTask, CanCall, TypeOK
      <4> QED
        BY <1>1, <3>2, <4>1 DEF AddTask, NoLostWakeup
    <3> QED
      BY <3>1, <3>2
  <2> QED
    BY <2>2, <2>3, <2>4
<1>2. ASSUME NEW c \in Callers, NEW k \in Tasks, RejectTask(c, k) PROVE IInv'
  BY <1>2 DEF RejectTask, TypeOK, AllTasks, BatchShape, NoLostWakeup, FifoConservation
<1>3. ASSUME NEW c \in Callers, Signal(c) PROVE IInv'
  BY <1>3 DEF Signal, NotifyOne, TypeOK, Places, BatchShape, NoLostWakeup, FifoConservation
<1>4. CASE Stop
  BY <1>4 DEF Stop, TypeOK, BatchShape, NoLostWakeup, FifoConservation
<1>5. ASSUME NEW c \in Callers, Shutdown(c) PROVE IInv'
  <2>1. TermTask \in AllTasks /\ Push(TermTask) /\ UNCHANGED <<tmpTaskList, handled>>
    BY <1>5 DEF Shutdown, AllTasks
  <2>2. TypeOK' /\ FifoConservation'
    BY <1>5, <2>1, PushFifo DEF Shutdown, NotifyOne, TypeOK, Places
  <2>3. BatchShape' /\ NoLostWakeup'
    BY <1>5 DEF Shutdown, NotifyOne, BatchShape, NoLostWakeup
  <2> QED
    BY <2>2, <2>3
<1>6. CASE CheckState
  BY <1>6 DEF CheckState, TypeOK, Places, BatchShape, NoLostWakeup, FifoConservation
<1>7. CASE TakeTasks \/ TakeAfterWait
  <2>1. tmpTaskList = <<>> /\ Swap
    BY <1>7 DEF TakeTasks, TakeAfterWait, BatchShape
  <2>2. TypeOK' /\ BatchShape' /\ NoLostWakeup'
    BY <2>1 DEF Swap, TypeOK, Places, BatchShape, NoLostWakeup
  <2> QED
    BY <2>1, <2>2, SwapFifo
<1>8. CASE WaitForSignal \/ SpuriousWakeup
  BY <1>8 DEF WaitForSignal, SpuriousWakeup, TypeOK, Places, BatchShape, NoLostWakeup,
              FifoConservation
<1>9. CASE DropExpired \/ EndTask \/ RunTermTask
  <2>1. tmpTaskList # <<>> /\ Retire /\ UNCHANGED <<accepted, taskList>>
    BY <1>9 DEF DropExpired, EndTask, RunTermTask, BatchShape
  <2>2. TypeOK' /\ FifoConservation'
    BY <1>9, <2>1, RetireFifo DEF DropExpired, EndTask, RunTermTask, TypeOK, Places
  <2>3. BatchShape' /\ NoLostWakeup'
    BY <1>9 DEF DropExpired, EndTask, RunTermTask, BatchShape, NoLostWakeup
  <2> QED
    BY <2>2, <2>3
<1>10. CASE BeginTask \/ EndBatch
  BY <1>10 DEF BeginTask, EndBatch, TypeOK, Places, BatchShape, NoLostWakeup, FifoConservation
<1>11. CASE UNCHANGED vars
  BY <1>11 DEF vars, TypeOK, BatchShape, NoLostWakeup, FifoConservation
<1> QED
  BY <1>1, <1>2, <1>3, <1>4, <1>5, <1>6, <1>7, <1>8, <1>9, <1>10, <1>11 DEF Next, GameStep

-----------------------------------------------------------------------------
\* The inductive invariant holds in every reachable state of the dispatcher.
THEOREM InductiveInvariant == Spec => []IInv
<1> QED
  BY InitIInv, NextIInv, PTL DEF Spec

\* Type correctness of the dispatcher's state.
THEOREM TypeCorrect == Spec => []TypeOK
<1>1. IInv => TypeOK
  BY DEF IInv
<1> QED
  BY <1>1, InductiveInvariant, PTL

\* addTask's signal is never lost, whatever the number of calling threads.
THEOREM WakeupNotLost == Spec => []NoLostWakeup
<1>1. IInv => NoLostWakeup
  BY DEF IInv
<1> QED
  BY <1>1, InductiveInvariant, PTL

\* Tasks are handled in the order of addTask, none lost and none repeated.
THEOREM FifoOrder == Spec => []FifoConservation
<1>1. IInv => FifoConservation
  BY DEF IInv
<1> QED
  BY <1>1, InductiveInvariant, PTL

-----------------------------------------------------------------------------
(* The life of a Task object.  Freed tasks went through the queue or were  *)
(* refused by addTask, which is never called for the terminating task.     *)

DInv == NoUseAfterDelete /\ (TermTask \in deleted => TermTask \in Members(accepted))

\* A push of a task that was never accepted nor freed keeps all objects apart.
LEMMA PushFresh ==
    ASSUME IInv, DInv, NEW k \in AllTasks, k \notin Members(accepted), k \notin deleted,
           Push(k), UNCHANGED <<tmpTaskList, deleted>>
    PROVE  DInv'
<1>1. taskList \in Seq(AllTasks) /\ accepted \in Seq(AllTasks)
  BY DEF IInv, TypeOK
<1>2. /\ DOMAIN taskList' = 1 .. (Len(taskList) + 1)
      /\ \A i \in 1 .. Len(taskList) : taskList'[i] = taskList[i]
      /\ taskList'[Len(taskList) + 1] = k
      /\ DOMAIN taskList = 1 .. Len(taskList) /\ Len(taskList) \in Nat
  BY <1>1 DEF Push
<1>3. /\ DOMAIN accepted' = 1 .. (Len(accepted) + 1)
      /\ \A i \in 1 .. Len(accepted) : accepted'[i] = accepted[i]
      /\ accepted'[Len(accepted) + 1] = k
      /\ DOMAIN accepted = 1 .. Len(accepted) /\ Len(accepted) \in Nat
  BY <1>1 DEF Push
<1>4. Members(taskList') \subseteq Members(taskList) \cup {k}
  BY <1>2 DEF Members
<1>5. \A q \in Members(taskList') \cup Members(tmpTaskList') : q \notin deleted'
  BY <1>4 DEF DInv, NoUseAfterDelete
<1>6. \A i, j \in DOMAIN accepted' : accepted'[i] = accepted'[j] => i = j
  BY <1>3 DEF DInv, NoUseAfterDelete, Members
<1>7. Members(accepted) \subseteq Members(accepted')
  BY <1>3 DEF Members
<1> QED
  BY <1>5, <1>6, <1>7 DEF DInv, NoUseAfterDelete

\* Where the elements of three concatenated sequences are.
LEMMA ThreePieces ==
    ASSUME NEW S, NEW x \in Seq(S), NEW y \in Seq(S), NEW z \in Seq(S), NEW w, w = x \o y \o z
    PROVE  /\ \A i \in 1 .. Len(y) : Len(x) + i \in DOMAIN w /\ w[Len(x) + i] = y[i]
           /\ \A i \in 1 .. Len(z) :
                 Len(x) + Len(y) + i \in DOMAIN w /\ w[Len(x) + Len(y) + i] = z[i]
<1> DEFINE v == x \o y
<1>1. Len(x) \in Nat /\ Len(y) \in Nat /\ Len(z) \in Nat
  BY LenProperties
<1>2. /\ v \in Seq(S) /\ Len(v) = Len(x) + Len(y)
      /\ \A i \in 1 .. Len(x) + Len(y) : v[i] = IF i <= Len(x) THEN x[i] ELSE y[i - Len(x)]
  BY ConcatProperties
<1> HIDE DEF v
<1>3. /\ v \o z \in Seq(S) /\ Len(v \o z) = Len(v) + Len(z)
      /\ \A i \in 1 .. Len(v) + Len(z) :
            (v \o z)[i] = IF i <= Len(v) THEN v[i] ELSE z[i - Len(v)]
  <2>1. v \in Seq(S)
    BY <1>2
  <2> QED
    BY <2>1, ConcatProperties, Zenon
<1>4. w = v \o z
  BY DEF v
<1>5. DOMAIN w = 1 .. Len(x) + Len(y) + Len(z)
  BY <1>2, <1>3, <1>4, LenProperties
<1>6. ASSUME NEW i \in 1 .. Len(y) PROVE Len(x) + i \in DOMAIN w /\ w[Len(x) + i] = y[i]
  <2>1. /\ Len(x) + i \in 1 .. Len(x) + Len(y) + Len(z)
        /\ Len(x) + i \in 1 .. Len(x) + Len(y)
        /\ ~(Len(x) + i <= Len(x)) /\ (Len(x) + i) - Len(x) = i
        /\ Len(x) + i <= Len(x) + Len(y)
    BY <1>1
  <2>2. w[Len(x) + i] = v[Len(x) + i]
    BY <2>1, <1>2, <1>3, <1>4
  <2>3. v[Len(x) + i] = y[i]
    BY <2>1, <1>2
  <2> QED
    BY <2>1, <2>2, <2>3, <1>5
<1>7. ASSUME NEW i \in 1 .. Len(z)
      PROVE  Len(x) + Len(y) + i \in DOMAIN w /\ w[Len(x) + Len(y) + i] = z[i]
  <2>1. /\ Len(x) + Len(y) + i \in 1 .. Len(x) + Len(y) + Len(z)
        /\ ~(Len(x) + Len(y) + i <= Len(x) + Len(y))
        /\ (Len(x) + Len(y) + i) - (Len(x) + Len(y)) = i
    BY <1>1
  <2> QED
    BY <2>1, <1>2, <1>3, <1>4, <1>5
<1> QED
  BY <1>6, <1>7

\* Where the queued tasks stand among the accepted ones.
LEMMA QueuedAt ==
    ASSUME IInv
    PROVE  /\ \A i \in DOMAIN tmpTaskList :
                 /\ Len(handled) + i \in DOMAIN accepted
                 /\ accepted[Len(handled) + i] = tmpTaskList[i]
           /\ \A i \in DOMAIN taskList :
                 /\ Len(handled) + Len(tmpTaskList) + i \in DOMAIN accepted
                 /\ accepted[Len(handled) + Len(tmpTaskList) + i] = taskList[i]
<1>1. /\ handled \in Seq(AllTasks) /\ tmpTaskList \in Seq(AllTasks) /\ taskList \in Seq(AllTasks)
      /\ accepted = handled \o tmpTaskList \o taskList
  BY DEF IInv, TypeOK, FifoConservation
<1>2. DOMAIN tmpTaskList = 1 .. Len(tmpTaskList) /\ DOMAIN taskList = 1 .. Len(taskList)
  BY <1>1, LenProperties
<1> QED
  BY <1>1, <1>2, ThreePieces

\* The task at the head of the batch occurs nowhere else in the two lists.
LEMMA HeadIsUnique ==
    ASSUME IInv, DInv, tmpTaskList # <<>>
    PROVE  /\ Head(tmpTaskList) \notin Members(Tail(tmpTaskList)) \cup Members(taskList)
           /\ Head(tmpTaskList) \in Members(accepted)
           /\ Members(Tail(tmpTaskList)) \subseteq Members(tmpTaskList)
<1>1. /\ Len(handled) \in Nat /\ Len(taskList) \in Nat
      /\ Len(tmpTaskList) \in Nat /\ Len(tmpTaskList) # 0
      /\ DOMAIN taskList = 1 .. Len(taskList)
      /\ DOMAIN tmpTaskList = 1 .. Len(tmpTaskList)
  BY LenProperties, EmptySeq DEF IInv, TypeOK
<1>2. /\ Head(tmpTaskList) = tmpTaskList[1]
      /\ DOMAIN Tail(tmpTaskList) = 1 .. (Len(tmpTaskList) - 1)
      /\ \A i \in 1 .. (Len(tmpTaskList) - 1) : Tail(tmpTaskList)[i] = tmpTaskList[i + 1]
  BY HeadTailProperties, LenProperties DEF IInv, TypeOK
<1>3. \A i, j \in DOMAIN accepted : accepted[i] = accepted[j] => i = j
  BY DEF DInv, NoUseAfterDelete
<1>4. /\ 1 \in DOMAIN tmpTaskList
      /\ Len(handled) + 1 \in DOMAIN accepted
      /\ accepted[Len(handled) + 1] = Head(tmpTaskList)
  <2>1. 1 \in DOMAIN tmpTaskList
    BY <1>1
  <2> QED
    BY <2>1, <1>2, QueuedAt, Zenon
<1>5. ASSUME NEW i \in DOMAIN Tail(tmpTaskList) PROVE Tail(tmpTaskList)[i] # Head(tmpTaskList)
  <2>1. i + 1 \in DOMAIN tmpTaskList /\ Len(handled) + (i + 1) # Len(handled) + 1
    BY <1>1, <1>2
  <2>2. /\ Len(handled) + (i + 1) \in DOMAIN accepted
        /\ accepted[Len(handled) + (i + 1)] = Tail(tmpTaskList)[i]
    BY <2>1, <1>2, QueuedAt
  <2> QED
    BY <2>1, <2>2, <1>3, <1>4
<1>6. ASSUME NEW i \in DOMAIN taskList PROVE taskList[i] # Head(tmpTaskList)
  <2>1. Len(handled) + Len(tmpTaskList) + i # Len(handled) + 1
    BY <1>1
  <2>2. /\ Len(handled) + Len(tmpTaskList) + i \in DOMAIN accepted
        /\ accepted[Len(handled) + Len(tmpTaskList) + i] = taskList[i]
    BY QueuedAt
  <2> QED
    BY <2>1, <2>2, <1>3, <1>4
<1>7. Members(Tail(tmpTaskList)) \subseteq Members(tmpTaskList)
  <2>1. \A i \in DOMAIN Tail(tmpTaskList) : i + 1 \in DOMAIN tmpTaskList
    BY <1>1, <1>2
  <2> QED
    BY <2>1, <1>2 DEF Members
<1> QED
  BY <1>4, <1>5, <1>6, <1>7, Zenon DEF Members

LEMMA NextDInv == IInv /\ DInv /\ [Next]_vars => DInv'
<1> SUFFICES ASSUME IInv, DInv, [Next]_vars PROVE DInv'
  OBVIOUS
<1>1. ASSUME NEW c \in Callers, NEW k \in Tasks, AddTask(c, k) PROVE DInv'
  BY <1>1, PushFresh DEF AddTask, AllTasks
<1>2. ASSUME NEW c \in Callers, Shutdown(c) PROVE DInv'
  BY <1>2, PushFresh DEF Shutdown, AllTasks, DInv
<1>3. ASSUME NEW c \in Callers, NEW k \in Tasks, RejectTask(c, k) PROVE DInv'
  <2>1. k # TermTask
    BY ConstantsAssumption
  <2>2. k \notin Members(taskList) \cup Members(tmpTaskList)
    BY <1>3, QueuedAt DEF RejectTask, Members
  <2> QED
    BY <1>3, <2>1, <2>2 DEF RejectTask, DInv, NoUseAfterDelete
<1>4. CASE DropExpired \/ EndTask \/ RunTermTask
  <2>1. tmpTaskList # <<>> /\ Retire /\ UNCHANGED <<accepted, taskList>>
    BY <1>4 DEF DropExpired, EndTask, RunTermTask, BatchShape, IInv
  <2> QED
    BY <2>1, HeadIsUnique DEF Retire, DInv, NoUseAfterDelete
<1>5. CASE TakeTasks \/ TakeAfterWait
  <2>1. Swap
    BY <1>5 DEF TakeTasks, TakeAfterWait
  <2>2. Members(taskList') = {}
    BY <2>1 DEF Swap, Members
  <2> QED
    BY <2>1, <2>2 DEF Swap, DInv, NoUseAfterDelete
<1>6. ASSUME NEW c \in Callers, Signal(c) PROVE DInv'
  BY <1>6 DEF Signal, DInv, NoUseAfterDelete
<1>7. CASE Stop \/ CheckState \/ WaitForSignal \/ SpuriousWakeup \/ BeginTask \/ EndBatch
             \/ UNCHANGED vars
  BY <1>7 DEF Stop, CheckState, WaitForSignal, SpuriousWakeup, BeginTask, EndBatch, vars,
              DInv, NoUseAfterDelete
<1> QED
  BY <1>1, <1>2, <1>3, <1>4, <1>5, <1>6, <1>7 DEF Next, GameStep

\* No Task object is touched after its delete or freed twice, on whichever of
\* the three paths (executed, expired, refused) it ends.
THEOREM NeverUsedAfterDelete == Spec => []NoUseAfterDelete
<1>1. Init => DInv
  BY DEF Init, DInv, NoUseAfterDelete, Members
<1>2. DInv => NoUseAfterDelete
  BY DEF DInv
<1> QED
  BY <1>1, <1>2, NextDInv, InductiveInvariant, PTL DEF Spec

-----------------------------------------------------------------------------
\* Every step of the threads is a step of the abstract queue or leaves it alone.
LEMMA StepRefines == IInv /\ [Next]_vars => [Abstract!Next]_(Abstract!qvars)
<1> SUFFICES ASSUME IInv, [Next]_vars PROVE [Abstract!Next]_(Abstract!qvars)
  OBVIOUS
<1>1. ASSUME NEW c \in Callers, NEW k \in Tasks, AddTask(c, k) PROVE Abstract!Accept(k)
  BY <1>1 DEF AddTask, Push, Members, Abstract!Accept, Abstract!Members
<1>2. ASSUME NEW c \in Callers, Shutdown(c) PROVE Abstract!Accept(TermTask)
  BY <1>2 DEF Shutdown, Push, Members, Abstract!Accept, Abstract!Members
<1>3. CASE DropExpired \/ EndTask \/ RunTermTask
  <2>1. tmpTaskList # <<>> /\ Retire /\ UNCHANGED accepted
    BY <1>3 DEF DropExpired, EndTask, RunTermTask, BatchShape, IInv
  <2>2. Head(tmpTaskList) = tmpTaskList[1] /\ 1 \in DOMAIN tmpTaskList
    BY <2>1, EmptySeq, LenProperties, HeadTailProperties DEF IInv, TypeOK
  <2>3. /\ Len(handled) + 1 \in DOMAIN accepted
        /\ accepted[Len(handled) + 1] = Head(tmpTaskList)
    BY <2>2, QueuedAt, Zenon
  <2>4. Len(handled) < Len(accepted)
    BY <2>3, LenProperties DEF IInv, TypeOK
  <2>5. Abstract!Handle
    BY <2>1, <2>3, <2>4 DEF Retire, Abstract!Handle
  <2> QED
    BY <2>5 DEF Abstract!Next
<1>4. CASE Stop \/ CheckState \/ TakeTasks \/ TakeAfterWait \/ WaitForSignal \/ SpuriousWakeup
             \/ BeginTask \/ EndBatch \/ UNCHANGED vars
  BY <1>4 DEF Stop, CheckState, TakeTasks, TakeAfterWait, Swap, WaitForSignal, SpuriousWakeup,
              BeginTask, EndBatch, vars, Abstract!qvars
<1>5. ASSUME NEW c \in Callers, Signal(c) PROVE UNCHANGED Abstract!qvars
  BY <1>5 DEF Signal, Abstract!qvars
<1>6. ASSUME NEW c \in Callers, NEW k \in Tasks, RejectTask(c, k) PROVE UNCHANGED Abstract!qvars
  BY <1>6 DEF RejectTask, Abstract!qvars
<1> QED
  BY <1>1, <1>2, <1>3, <1>4, <1>5, <1>6 DEF Next, GameStep, Abstract!Next

\* The dispatcher with its threads, locks and signals implements the queue its
\* callers reason about (the safety part of ImplementsTaskQueue).
THEOREM RefinesTaskQueue == Spec => Abstract!SafeSpec
<1>1. Init => Abstract!Init
  BY DEF Init, Abstract!Init
<1> QED
  BY <1>1, StepRefines, InductiveInvariant, PTL DEF Spec, Abstract!SafeSpec
=============================================================================

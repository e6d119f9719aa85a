------------------------------ MODULE Scheduler ------------------------------
(***************************************************************************)
(* The scheduler (scheduler.h, scheduler.cpp): delayed tasks.  addEvent,   *)
(* stopEvent and shutdown only post a handler; the scheduler's one thread  *)
(* runs the handlers of its io_context in order, and hands the task of an  *)
(* expired timer to the dispatcher.                                        *)
(*                                                                         *)
(* ready is the io_context's queue: posted handlers and completions of     *)
(* timer waits.  timers is eventIdTimerMap; timers[id] is the event whose  *)
(* wait is armed on that timer, or NoEvent once the wait has completed and *)
(* only its handler is still to run.  boost::asio is external: an expired  *)
(* or cancelled wait queues its handler with the outcome fixed, and a      *)
(* timer that is destroyed or re-armed cancels its wait.                   *)
(*                                                                         *)
(* The dispatcher is used by its promise (module TaskQueue): an open FIFO  *)
(* that may close.  Event ids are uint32_t; IdMod stands for 2^32.         *)
(***************************************************************************)
EXTENDS Naturals, Sequences, FiniteSets

CONSTANTS Events,     \* SchedulerTask objects
          NoEvent,
          Stoppable,  \* those whose creator keeps the id addEvent returned
          IdMod       \* the number of values of lastEventId

VARIABLES threadState, lastEventId,
          eventId,        \* the id addEvent gave to each event
          ready, timers,
          handing,        \* the event between the test of the state and g_dispatcher.addTask
          ioStopped,      \* io_context.stop() was called: run() has returned
          stopAsked,      \* events for which stopEvent was called
          owner,          \* who owns each task object
          dispatcherOpen, taskList

vars == <<threadState, lastEventId, eventId, ready, timers, handing, ioStopped, stopAsked,
          owner, dispatcherOpen, taskList>>

Ids == 0 .. IdMod - 1

Members(s) == {s[i] : i \in DOMAIN s}

Posted == ({"add", "fired", "aborted"} \X Events) \cup ({"stop"} \X Ids)
             \cup {<<"shutdown", 0>>}

TypeOK ==
    /\ threadState \in {"RUNNING", "CLOSING", "TERMINATED"}
    /\ lastEventId \in Ids
    /\ eventId \in [Events -> Ids]
    /\ ready \in Seq(Posted)
    /\ DOMAIN timers \subseteq Ids
    /\ \A i \in DOMAIN timers : timers[i] \in Events \cup {NoEvent}
    /\ handing \in Events \cup {NoEvent}
    /\ ioStopped \in BOOLEAN /\ dispatcherOpen \in BOOLEAN
    /\ stopAsked \subseteq Events
    /\ owner \in [Events -> {"caller", "scheduler", "dispatcher", "executed", "deleted"}]
    /\ taskList \in Seq(Events)

Init ==
    /\ threadState = "RUNNING"
    /\ lastEventId = 0
    /\ eventId = [e \in Events |-> 0]
    /\ ready = <<>>
    /\ timers = <<>>
    /\ handing = NoEvent
    /\ ioStopped = FALSE
    /\ stopAsked = {}
    /\ owner = [e \in Events |-> "caller"]
    /\ dispatcherOpen = TRUE
    /\ taskList = <<>>

Give(e, who) == owner' = [owner EXCEPT ![e] = who]

-----------------------------------------------------------------------------
(* Calls, from the game thread                                             *)

\* addEvent: ++lastEventId wraps; the id is not checked against active ones.  It is read
\* from the task once more after the handler is posted, when the other thread may have
\* freed the task: an event waits longer than that takes, and the id is taken to be right.
AddEvent(e) ==
    /\ owner[e] = "caller"
    /\ lastEventId' = (lastEventId + 1) % IdMod
    /\ eventId' = [eventId EXCEPT ![e] = lastEventId']
    /\ ready' = Append(ready, <<"add", e>>)
    /\ Give(e, "scheduler")
    /\ UNCHANGED <<threadState, timers, handing, ioStopped, stopAsked, dispatcherOpen, taskList>>

\* stopEvent with the id of an event added earlier; id 0 is ignored.
StopEvent(e) ==
    /\ owner[e] # "caller" /\ e \notin stopAsked
    /\ stopAsked' = stopAsked \cup {e}
    /\ ready' = IF eventId[e] = 0 THEN ready ELSE Append(ready, <<"stop", eventId[e]>>)
    /\ UNCHANGED <<threadState, lastEventId, eventId, timers, handing, ioStopped, owner,
                   dispatcherOpen, taskList>>

\* Game::setGameState stops the scheduler and then the dispatcher.  CLOSING
\* changes nothing in the scheduler (addEvent does not test it), so that the
\* two calls are one step; the dispatcher closes.
Stop ==
    /\ threadState = "RUNNING"
    /\ threadState' = "CLOSING"
    /\ dispatcherOpen' = FALSE
    /\ UNCHANGED <<lastEventId, eventId, ready, timers, handing, ioStopped, stopAsked, owner,
                   taskList>>

Shutdown ==
    /\ threadState # "TERMINATED"
    /\ threadState' = "TERMINATED"
    /\ ready' = Append(ready, <<"shutdown", 0>>)
    /\ UNCHANGED <<lastEventId, eventId, timers, handing, ioStopped, stopAsked, owner,
                   dispatcherOpen, taskList>>

-----------------------------------------------------------------------------
(* The scheduler thread                                                    *)

\* The completions a cancel of these timers queues: none for a wait already completed.
Aborts(ids) ==
    LET waits == {timers[i] : i \in ids \cap DOMAIN timers} \ {NoEvent}
    IN  CHOOSE s \in [1 .. Cardinality(waits) -> {<<"aborted", e>> : e \in waits}] :
            \A i, j \in DOMAIN s : s[i] = s[j] => i = j

\* The thread is in run(), between two handlers, and h is the next one.
Idle == ~ioStopped /\ handing = NoEvent

NextHandler(op) == Idle /\ ready # <<>> /\ Head(ready)[1] = op

\* The handler addEvent posted.  emplace keeps the timer of an id that is
\* still active, and expires_from_now cancels the wait armed on it.
RunAdd ==
    /\ NextHandler("add")
    /\ LET e == Head(ready)[2]
           i == eventId[e]
       IN  /\ timers' = [j \in DOMAIN timers \cup {i} |-> IF j = i THEN e ELSE timers[j]]
           /\ ready' = Tail(ready) \o Aborts({i})
    /\ UNCHANGED <<threadState, lastEventId, eventId, handing, ioStopped, stopAsked, owner,
                   dispatcherOpen, taskList>>

Disarm(ids) == [j \in DOMAIN timers |-> IF j \in ids THEN NoEvent ELSE timers[j]]

\* The handler stopEvent posted.
RunStop ==
    /\ NextHandler("stop")
    /\ LET i == Head(ready)[2]
       IN  /\ timers' = Disarm({i})
           /\ ready' = Tail(ready) \o Aborts({i})
    /\ UNCHANGED <<threadState, lastEventId, eventId, handing, ioStopped, stopAsked, owner,
                   dispatcherOpen, taskList>>

\* The handler shutdown posted: cancel everything and leave run().
RunShutdown ==
    /\ NextHandler("shutdown")
    /\ timers' = Disarm(DOMAIN timers)
    /\ ready' = Tail(ready) \o Aborts(DOMAIN timers)
    /\ ioStopped' = TRUE
    /\ UNCHANGED <<threadState, lastEventId, eventId, handing, stopAsked, owner,
                   dispatcherOpen, taskList>>

\* The delay of a wait has passed; its handler is queued.
Expire(i) ==
    /\ Idle
    /\ i \in DOMAIN timers /\ timers[i] # NoEvent
    /\ timers' = Disarm({i})
    /\ ready' = Append(ready, <<"fired", timers[i]>>)
    /\ UNCHANGED <<threadState, lastEventId, eventId, handing, ioStopped, stopAsked, owner,
                   dispatcherOpen, taskList>>

\* eventIdTimerMap.erase destroys the timer, with any wait armed on it.
Erase(i) ==
    /\ timers' = [j \in DOMAIN timers \ {i} |-> timers[j]]
    /\ ready' = Tail(ready) \o Aborts({i})

\* The handler of a cancelled wait, or of any wait after shutdown: the task is freed.
RunAborted ==
    /\ \/ NextHandler("aborted")
       \/ NextHandler("fired") /\ threadState = "TERMINATED"
    /\ Erase(eventId[Head(ready)[2]])
    /\ Give(Head(ready)[2], "deleted")
    /\ UNCHANGED <<threadState, lastEventId, eventId, handing, ioStopped, stopAsked,
                   dispatcherOpen, taskList>>

\* The handler of an expired wait passed its tests ...
RunFired ==
    /\ NextHandler("fired") /\ threadState # "TERMINATED"
    /\ Erase(eventId[Head(ready)[2]])
    /\ handing' = Head(ready)[2]
    /\ UNCHANGED <<threadState, lastEventId, eventId, ioStopped, stopAsked, owner,
                   dispatcherOpen, taskList>>

\* ... and calls g_dispatcher.addTask, which frees the task when it is closed.
HandOver ==
    /\ handing # NoEvent
    /\ handing' = NoEvent
    /\ Give(handing, IF dispatcherOpen THEN "dispatcher" ELSE "deleted")
    /\ taskList' = IF dispatcherOpen THEN Append(taskList, handing) ELSE taskList
    /\ UNCHANGED <<threadState, lastEventId, eventId, ready, timers, ioStopped, stopAsked,
                   dispatcherOpen>>

\* The dispatcher's side.
DispatcherRun ==
    /\ taskList # <<>>
    /\ Give(Head(taskList), "executed")
    /\ taskList' = Tail(taskList)
    /\ UNCHANGED <<threadState, lastEventId, eventId, ready, timers, handing, ioStopped,
                   stopAsked, dispatcherOpen>>

IoStep == RunAdd \/ RunStop \/ RunShutdown \/ RunAborted \/ RunFired \/ HandOver

Next ==
    \/ IoStep
    \/ \E i \in DOMAIN timers : Expire(i)
    \/ DispatcherRun \/ Stop \/ Shutdown
    \/ \E e \in Events : AddEvent(e)
    \/ \E e \in Stoppable : StopEvent(e)

\* Threads run and time passes; nobody is obliged to call.
Fairness ==
    /\ WF_vars(IoStep) /\ WF_vars(DispatcherRun)
    /\ \A i \in Ids : WF_vars(Expire(i))

Spec == Init /\ [][Next]_vars /\ Fairness

-----------------------------------------------------------------------------
(* Properties                                                              *)

\* The places that hold the task of event e.
Holders(e) ==
    {<<"ready", i>> : i \in {j \in DOMAIN ready : ready[j] \in {"add", "fired", "aborted"} \X {e}}}
    \cup {<<"timer", i>> : i \in {j \in DOMAIN timers : timers[j] = e}}
    \cup {<<"handing", 0>> : x \in {handing} \cap {e}}
    \cup {<<"taskList", i>> : i \in {j \in DOMAIN taskList : taskList[j] = e}}

\* A task object that was handed over and not freed is held in exactly one
\* place, and a freed or executed one nowhere: no double free, no use after
\* free, whatever the order of expiry, stopEvent, id reuse and shutdown.
OwnedOnce ==
    \A e \in Events :
        Cardinality(Holders(e)) = IF owner[e] \in {"scheduler", "dispatcher"} THEN 1 ELSE 0

Reused(e) == \E f \in Events \ {e} : owner[f] # "caller" /\ eventId[f] = eventId[e]

\* An event nobody stopped is executed, unless the server shuts down or its
\* id was given to another event: a wrapped lastEventId can lose events.
EveryEventRuns ==
    \A e \in Events :
        (owner[e] = "scheduler") ~>
            (\/ owner[e] = "executed" \/ e \in stopAsked \/ Reused(e)
             \/ threadState = "TERMINATED" \/ ~dispatcherOpen)

=============================================================================

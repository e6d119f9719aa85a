----------------------------- MODULE WorldProofs ------------------------------
(***************************************************************************)
(* Theorems about World, for any requests, paths, tiles and monsters.      *)
(***************************************************************************)
EXTENDS World, Sequences, SequenceTheorems, FiniteSets, FiniteSetTheorems, TLAPS

-----------------------------------------------------------------------------
(* Walks: what has steps left or a request waiting has an event to come     *)

WkEvents == {"none", "pending", "spent"}
WkWaiting == Requests \cup {Wa!Attack, None}
WkWalks == [list : Nat, event : WkEvents, strays : Nat, cancel : BOOLEAN]
WkTasks == [walkTask : WkWaiting, walkEvent : WkWaiting, action : WkWaiting]
WkItems == {i \in [kind : {"walk", "path", "task"}, what : WkWaiting \cup Nat] :
               /\ i.kind = "path" => i.what \in Nat \ {0}
               /\ i.kind = "task" => i.what \in Requests \cup {Wa!Attack}}
WkBodies == [blocked : BOOLEAN, halted : BOOLEAN]
WkAsked == [Requests -> [sent : BOOLEAN, done : Nat]]

WkStates ==
    [walk : WkWalks, tasks : WkTasks, posted : Seq(WkItems), body : WkBodies,
     asked : WkAsked, stranded : SUBSET {"walk", "task"}]

Queued(s, kind) == \E k \in 1..Len(s.posted) : s.posted[k].kind = kind

\* An event that was posted has its task in the queue.
WkSpent(s) == s.walk.event = "spent" => Queued(s, "walk")
\* Steps that are left have an event, and a request kept for the end of the walk has one
\* or a path to come, but for the exceptions.
WkSteps(s) == s.walk.list > 0 /\ "walk" \notin s.stranded /\ ~s.body.halted => s.walk.event # "none"
WkKept(s) == s.tasks.walkTask # None /\ "task" \notin s.stranded => s.walk.event # "none" \/ Queued(s, "path")

\* Where a request is put off: after the walk, a moment later, or already in the queue.
At(s, q, k) == s.posted[k].kind = "task" /\ s.posted[k].what = q
Put(s, q) == \E k \in 1..Len(s.posted) : At(s, q, k)
Away(s, q) == s.tasks.walkTask # q /\ s.tasks.walkEvent # q /\ s.tasks.action # q

\* A request is in one of these places, or done, or none of this.
WkSingle(s, q) ==
    /\ s.asked[q].done \in 0..1
    /\ ~s.asked[q].sent \/ s.asked[q].done = 1 => Away(s, q) /\ ~Put(s, q)
    /\ ~s.asked[q].sent => s.asked[q].done = 0
    /\ s.tasks.walkTask = q => s.tasks.walkEvent # q /\ s.tasks.action # q
    /\ s.tasks.walkEvent = q => s.tasks.action # q
    /\ Put(s, q) => Away(s, q)
    /\ \A j, k \in 1..Len(s.posted) : At(s, q, j) /\ At(s, q, k) => j = k
WkOnce(s) == \A q \in Requests : WkSingle(s, q)

WkGood(s) == s \in WkStates /\ WkSpent(s) /\ WkSteps(s) /\ WkKept(s) /\ WkOnce(s)

\* A step that only drops requests or passes one from the walk to its event.
WkLess(s, t) ==
    /\ t.posted = s.posted /\ t.asked = s.asked
    /\ \A q \in Requests :
          /\ t.tasks.walkTask = q => s.tasks.walkTask = q
          /\ t.tasks.walkEvent = q => \/ s.tasks.walkEvent = q
                                      \/ s.tasks.walkTask = q /\ t.tasks.walkTask = None
          /\ t.tasks.action = q => s.tasks.action = q

\* It leaves a request where it was, or nowhere.
LEMMA WkLessOnce ==
    ASSUME NEW s, NEW t, WkLess(s, t), WkOnce(s)
    PROVE  WkOnce(t)
<1> SUFFICES ASSUME NEW q \in Requests PROVE WkSingle(t, q)
  BY DEF WkOnce
<1>1. WkSingle(s, q) /\ q # None
  BY WalkAssumption DEF WkOnce
<1>2. /\ t.posted = s.posted /\ t.asked = s.asked
      /\ t.tasks.walkTask = q => s.tasks.walkTask = q
      /\ t.tasks.walkEvent = q => s.tasks.walkEvent = q \/ (s.tasks.walkTask = q /\ t.tasks.walkTask = None)
      /\ t.tasks.action = q => s.tasks.action = q
  BY DEF WkLess
<1>3. Put(t, q) = Put(s, q)
  BY <1>2 DEF Put, At
<1>4. Away(s, q) => Away(t, q)
  BY <1>2 DEF Away
<1>5. \A j, k \in 1..Len(t.posted) : At(t, q, j) /\ At(t, q, k) => j = k
  BY <1>1, <1>2 DEF WkSingle, At
<1>6. /\ t.tasks.walkTask = q => t.tasks.walkEvent # q /\ t.tasks.action # q
      /\ t.tasks.walkEvent = q => t.tasks.action # q
  BY <1>1, <1>2 DEF WkSingle
<1> QED BY <1>1, <1>2, <1>3, <1>4, <1>5, <1>6 DEF WkSingle

\* Creature::addEventWalk
LEMMA WkNewEvent ==
    ASSUME NEW s \in WkStates
    PROVE  LET t == Wa!NewEvent(s)
           IN  /\ t \in WkStates /\ t.walk.event = "pending" /\ t.walk.list = s.walk.list
               /\ t.tasks = s.tasks /\ t.posted = s.posted /\ t.body = s.body /\ t.asked = s.asked
<1> DEFINE t == Wa!NewEvent(s)
           w == [s.walk EXCEPT !.event = "pending", !.strays = IF s.walk.event = "pending" THEN @ + 1 ELSE @]
<1>1. s.walk \in WkWalks
  BY DEF WkStates
<1>2. w \in WkWalks /\ w.event = "pending" /\ w.list = s.walk.list
  <2>1. CASE s.walk.event = "pending"
    <3>1. w = [s.walk EXCEPT !.event = "pending", !.strays = s.walk.strays + 1]
      BY <2>1
    <3>2. s.walk.strays + 1 \in Nat
      BY <1>1 DEF WkWalks
    <3> QED BY <1>1, <3>1, <3>2 DEF WkWalks, WkEvents
  <2>2. CASE s.walk.event # "pending"
    BY <1>1, <2>2 DEF WkWalks, WkEvents
  <2> QED BY <2>1, <2>2
<1>3. t = [s EXCEPT !.walk = w, !.stranded = {}]
  BY DEF Wa!NewEvent, WkStates
<1> HIDE DEF w, t
<1>4. /\ t \in WkStates /\ t.walk = w
      /\ t.tasks = s.tasks /\ t.posted = s.posted /\ t.body = s.body /\ t.asked = s.asked
  BY <1>2, <1>3 DEF WkStates
<1> QED BY <1>2, <1>4 DEF t

\* Creature::stopEventWalk
LEMMA WkStop ==
    ASSUME NEW s \in WkStates
    PROVE  LET t == Wa!StopEventWalk(s)
           IN  /\ t \in WkStates /\ t.walk.event = "none" /\ t.walk.list = s.walk.list /\ t.walk.cancel = s.walk.cancel
               /\ t.tasks = s.tasks /\ t.posted = s.posted /\ t.body = s.body /\ t.asked = s.asked /\ t.stranded = s.stranded
<1> DEFINE t == Wa!StopEventWalk(s)
           w == [s.walk EXCEPT !.event = "none"]
<1>1. s.walk \in WkWalks
  BY DEF WkStates
<1>2. w \in WkWalks /\ w.event = "none" /\ w.list = s.walk.list /\ w.cancel = s.walk.cancel
  BY <1>1 DEF WkWalks, WkEvents
<1>3. t = [s EXCEPT !.walk = w]
  BY <1>1 DEF Wa!StopEventWalk, WkStates, WkWalks
<1> HIDE DEF w, t
<1>4. /\ t \in WkStates /\ t.walk = w /\ t.stranded = s.stranded
      /\ t.tasks = s.tasks /\ t.posted = s.posted /\ t.body = s.body /\ t.asked = s.asked
  BY <1>2, <1>3 DEF WkStates
<1> QED BY <1>2, <1>4 DEF t

\* What a step may count on between a task's being taken and its end.
WkFit(s) == s \in WkStates /\ WkOnce(s)
WkGoes(s) == WkSteps(s) /\ WkKept(s)

\* With an event to come nothing is stuck.
LEMMA WkPending ==
    ASSUME NEW s \in WkStates, s.walk.event = "pending"
    PROVE  WkSpent(s) /\ WkGoes(s)
BY DEF WkSpent, WkGoes, WkSteps, WkKept

\* A step that drops nothing and brings nothing.
LEMMA WkKeeps ==
    ASSUME NEW s, NEW t, t.tasks = s.tasks, t.posted = s.posted, t.asked = s.asked, WkOnce(s)
    PROVE  WkOnce(t)
<1>1. WkLess(s, t)
  BY DEF WkLess
<1> QED BY <1>1, WkLessOnce

\* Creature::addEventWalk
LEMMA WkBegins ==
    ASSUME NEW s, WkFit(s)
    PROVE  LET t == Wa!NewEvent(s)
           IN  WkFit(t) /\ WkSpent(t) /\ WkGoes(t) /\ t.walk.event = "pending"
<1> DEFINE t == Wa!NewEvent(s)
<1>1. /\ t \in WkStates /\ t.walk.event = "pending"
      /\ t.tasks = s.tasks /\ t.posted = s.posted /\ t.asked = s.asked
  BY WkNewEvent DEF WkFit
<1> HIDE DEF t
<1>2. WkOnce(t)
  BY <1>1, WkKeeps DEF WkFit
<1> QED BY <1>1, <1>2, WkPending DEF WkFit, t

\* Creature::cancelNextWalk
LEMMA WkCancel ==
    ASSUME NEW s, WkFit(s), NEW b \in BOOLEAN
    PROVE  LET t == [s EXCEPT !.walk.cancel = b]
           IN  /\ WkFit(t) /\ t.walk.event = s.walk.event /\ t.walk.list = s.walk.list
               /\ t.tasks = s.tasks /\ t.posted = s.posted /\ t.body = s.body /\ t.asked = s.asked /\ t.stranded = s.stranded
<1> DEFINE t == [s EXCEPT !.walk.cancel = b]
           w == [s.walk EXCEPT !.cancel = b]
<1>1. s \in WkStates /\ s.walk \in WkWalks
  BY DEF WkStates, WkFit
<1>2. w \in WkWalks /\ w.event = s.walk.event /\ w.list = s.walk.list
  BY <1>1 DEF WkWalks, WkEvents
<1>3. t = [s EXCEPT !.walk = w]
  BY DEF WkStates
<1> HIDE DEF w, t
<1>4. /\ t \in WkStates /\ t.walk = w /\ t.stranded = s.stranded
      /\ t.tasks = s.tasks /\ t.posted = s.posted /\ t.body = s.body /\ t.asked = s.asked
  BY <1>1, <1>2, <1>3 DEF WkStates
<1>5. WkOnce(t)
  BY <1>4, WkKeeps DEF WkFit
<1> QED BY <1>2, <1>4, <1>5 DEF t, WkFit

\* Player::setNextActionTask
LEMMA WkAction ==
    ASSUME NEW s \in WkStates, NEW q \in WkWaiting
    PROVE  LET t == Wa!SetNextActionTask(s, q)
           IN  /\ t \in WkStates /\ t.tasks.action = q
               /\ t.tasks.walkTask = s.tasks.walkTask /\ t.tasks.walkEvent = s.tasks.walkEvent
               /\ t.walk = s.walk /\ t.posted = s.posted /\ t.body = s.body /\ t.asked = s.asked /\ t.stranded = s.stranded
<1> DEFINE t == Wa!SetNextActionTask(s, q)
           w == [s.tasks EXCEPT !.action = q]
<1>1. s.tasks \in WkTasks
  BY DEF WkStates
<1>2. w \in WkTasks /\ w.action = q /\ w.walkTask = s.tasks.walkTask /\ w.walkEvent = s.tasks.walkEvent
  BY <1>1 DEF WkTasks
<1>3. t = [s EXCEPT !.tasks = w]
  BY DEF WkStates, Wa!SetNextActionTask
<1> HIDE DEF w, t
<1>4. /\ t \in WkStates /\ t.tasks = w /\ t.walk = s.walk
      /\ t.posted = s.posted /\ t.body = s.body /\ t.asked = s.asked /\ t.stranded = s.stranded
  BY <1>2, <1>3 DEF WkStates
<1> QED BY <1>2, <1>4 DEF t

\* Player::setNextWalkActionTask
LEMMA WkWalkTask ==
    ASSUME NEW s \in WkStates, NEW q \in WkWaiting
    PROVE  LET t == Wa!SetNextWalkActionTask(s, q)
           IN  /\ t \in WkStates /\ t.tasks.action = s.tasks.action
               /\ t.tasks.walkTask = q /\ t.tasks.walkEvent = None
               /\ t.walk = s.walk /\ t.posted = s.posted /\ t.body = s.body /\ t.asked = s.asked /\ t.stranded = s.stranded
<1> DEFINE t == Wa!SetNextWalkActionTask(s, q)
           w == [s.tasks EXCEPT !.walkEvent = None, !.walkTask = q]
<1>1. s.tasks \in WkTasks /\ None \in WkWaiting
  BY DEF WkStates, WkWaiting
<1>2. w \in WkTasks /\ w.action = s.tasks.action /\ w.walkTask = q /\ w.walkEvent = None
  BY <1>1 DEF WkTasks
<1>3. t = [s EXCEPT !.tasks = w]
  BY DEF WkStates, Wa!SetNextWalkActionTask
<1> HIDE DEF w, t
<1>4. /\ t \in WkStates /\ t.tasks = w /\ t.walk = s.walk
      /\ t.posted = s.posted /\ t.body = s.body /\ t.asked = s.asked /\ t.stranded = s.stranded
  BY <1>2, <1>3 DEF WkStates
<1> QED BY <1>2, <1>4 DEF t

\* The same with nothing to keep.
LEMMA WkActionFree ==
    ASSUME NEW s, WkFit(s), NEW q \in {Wa!Attack, None}
    PROVE  LET t == Wa!SetNextActionTask(s, q)
           IN  /\ WkFit(t) /\ t.tasks.walkTask = s.tasks.walkTask
               /\ t.walk = s.walk /\ t.posted = s.posted /\ t.body = s.body /\ t.asked = s.asked /\ t.stranded = s.stranded
<1> DEFINE t == Wa!SetNextActionTask(s, q)
<1>1. /\ t \in WkStates /\ t.tasks.action = q
      /\ t.tasks.walkTask = s.tasks.walkTask /\ t.tasks.walkEvent = s.tasks.walkEvent
      /\ t.walk = s.walk /\ t.posted = s.posted /\ t.body = s.body /\ t.asked = s.asked /\ t.stranded = s.stranded
  BY WkAction DEF WkWaiting, WkFit
<1> HIDE DEF t
<1>2. q \notin Requests
  BY WalkAssumption DEF Wa!Attack
<1>3. WkLess(s, t)
  BY <1>1, <1>2 DEF WkLess
<1> QED BY <1>1, <1>3, WkLessOnce DEF WkFit, t

\* Player::onWalkAborted
LEMMA WkAborted ==
    ASSUME NEW s, WkFit(s)
    PROVE  LET t == Wa!OnWalkAborted(s)
           IN  /\ WkFit(t) /\ t.tasks.walkTask = None
               /\ t.walk = s.walk /\ t.posted = s.posted /\ t.body = s.body /\ t.asked = s.asked /\ t.stranded = s.stranded
<1> DEFINE t == Wa!OnWalkAborted(s)
<1>1. /\ t \in WkStates /\ t.tasks.action = s.tasks.action
      /\ t.tasks.walkTask = None /\ t.tasks.walkEvent = None
      /\ t.walk = s.walk /\ t.posted = s.posted /\ t.body = s.body /\ t.asked = s.asked /\ t.stranded = s.stranded
  BY WkWalkTask DEF WkWaiting, WkFit, Wa!OnWalkAborted
<1> HIDE DEF t
<1>2. None \notin Requests
  BY WalkAssumption
<1>3. WkLess(s, t)
  BY <1>1, <1>2 DEF WkLess
<1> QED BY <1>1, <1>3, WkLessOnce DEF WkFit, t

\* Player::onWalkComplete
LEMMA WkComplete ==
    ASSUME NEW s, WkFit(s)
    PROVE  LET t == Wa!OnWalkComplete(s)
           IN  /\ WkFit(t) /\ t.tasks.walkTask = None
               /\ t.walk = s.walk /\ t.posted = s.posted /\ t.body = s.body /\ t.asked = s.asked /\ t.stranded = s.stranded
<1>1. CASE s.tasks.walkTask = None
  BY <1>1 DEF Wa!OnWalkComplete
<1>2. CASE s.tasks.walkTask # None
  <2> DEFINE t == Wa!OnWalkComplete(s)
             w == [s.tasks EXCEPT !.walkEvent = s.tasks.walkTask, !.walkTask = None]
  <2>1. s \in WkStates /\ s.tasks \in WkTasks /\ None \in WkWaiting /\ None \notin Requests
    BY WalkAssumption DEF WkStates, WkWaiting, WkFit
  <2>2. w \in WkTasks /\ w.action = s.tasks.action /\ w.walkTask = None /\ w.walkEvent = s.tasks.walkTask
    BY <2>1 DEF WkTasks
  <2>3. t = [s EXCEPT !.tasks = w]
    BY <1>2, <2>1 DEF WkStates, Wa!OnWalkComplete
  <2> HIDE DEF w, t
  <2>4. /\ t \in WkStates /\ t.tasks = w /\ t.walk = s.walk
        /\ t.posted = s.posted /\ t.body = s.body /\ t.asked = s.asked /\ t.stranded = s.stranded
    BY <2>1, <2>2, <2>3 DEF WkStates
  <2>5. WkLess(s, t)
    BY <2>1, <2>2, <2>4 DEF WkLess
  <2> QED BY <2>2, <2>4, <2>5, WkLessOnce DEF WkFit, t
<1> QED BY <1>1, <1>2

\* Creature::onCreatureMove for a teleport: it leaves everything to the exceptions.
LEMMA WkTeleported ==
    ASSUME NEW s, WkFit(s)
    PROVE  LET t == Wa!Teleport(s)
           IN  WkFit(t) /\ WkSpent(t) /\ WkGoes(t) /\ t.posted = s.posted /\ t.asked = s.asked
<1> DEFINE u == Wa!StopEventWalk(s)
           t == Wa!Teleport(s)
<1>1. u \in WkStates /\ u.walk.event = "none" /\ u.tasks = s.tasks /\ u.posted = s.posted /\ u.asked = s.asked
  BY WkStop DEF WkFit
<1>2. t = [u EXCEPT !.stranded = {"walk", "task"}]
  BY DEF Wa!Teleport
<1> HIDE DEF t, u
<1>3. /\ t \in WkStates /\ t.walk.event = "none" /\ t.stranded = {"walk", "task"}
      /\ t.tasks = s.tasks /\ t.posted = s.posted /\ t.asked = s.asked
  BY <1>1, <1>2 DEF WkStates
<1>4. WkOnce(t)
  BY <1>3, WkKeeps DEF WkFit
<1>5. WkSpent(t) /\ WkGoes(t)
  BY <1>3 DEF WkSpent, WkGoes, WkSteps, WkKept
<1> QED BY <1>3, <1>4, <1>5 DEF t, WkFit

\* listWalkDir
LEMMA WkList ==
    ASSUME NEW s, WkFit(s), NEW n \in Nat
    PROVE  LET t == [s EXCEPT !.walk.list = n]
           IN  /\ WkFit(t) /\ t.walk.list = n /\ t.walk.event = s.walk.event
               /\ t.tasks = s.tasks /\ t.posted = s.posted /\ t.body = s.body /\ t.asked = s.asked /\ t.stranded = s.stranded
<1> DEFINE t == [s EXCEPT !.walk.list = n]
           w == [s.walk EXCEPT !.list = n]
<1>1. s \in WkStates /\ s.walk \in WkWalks
  BY DEF WkStates, WkFit
<1>2. w \in WkWalks /\ w.list = n /\ w.event = s.walk.event
  BY <1>1 DEF WkWalks, WkEvents
<1>3. t = [s EXCEPT !.walk = w]
  BY DEF WkStates
<1> HIDE DEF w, t
<1>4. /\ t \in WkStates /\ t.walk = w /\ t.stranded = s.stranded
      /\ t.tasks = s.tasks /\ t.posted = s.posted /\ t.body = s.body /\ t.asked = s.asked
  BY <1>1, <1>2, <1>3 DEF WkStates
<1>5. WkOnce(t)
  BY <1>4, WkKeeps DEF WkFit
<1> QED BY <1>2, <1>4, <1>5 DEF t, WkFit

\* stranded
LEMMA WkStranded ==
    ASSUME NEW s, WkFit(s)
    PROVE  LET t == [s EXCEPT !.stranded = @ \cup {"task"}]
           IN  /\ WkFit(t) /\ t.walk = s.walk /\ t.stranded = s.stranded \cup {"task"}
               /\ t.tasks = s.tasks /\ t.posted = s.posted /\ t.body = s.body /\ t.asked = s.asked
<1> DEFINE t == [s EXCEPT !.stranded = @ \cup {"task"}]
<1>1. s \in WkStates
  BY DEF WkFit
<1>2. /\ t \in WkStates /\ t.walk = s.walk /\ t.stranded = s.stranded \cup {"task"}
      /\ t.tasks = s.tasks /\ t.posted = s.posted /\ t.body = s.body /\ t.asked = s.asked
  BY <1>1 DEF WkStates
<1> HIDE DEF t
<1>3. WkOnce(t)
  BY <1>2, WkKeeps DEF WkFit
<1> QED BY <1>2, <1>3 DEF t, WkFit

\* Creature::getNextStep
LEMMA WkStep ==
    ASSUME NEW s, WkFit(s), s.walk.list > 0, NEW t \in Wa!TakeStep(s)
    PROVE  /\ WkFit(t) /\ t.posted = s.posted /\ t.asked = s.asked
           /\ WkGoes(s) => WkGoes(t)
<1> DEFINE free == Wa!SetNextActionTask(s, None)
           out == [free EXCEPT !.walk.list = @ - 1]
           n == s.walk.list - 1
<1>1. /\ WkFit(free) /\ free.tasks.walkTask = s.tasks.walkTask
      /\ free.walk = s.walk /\ free.posted = s.posted /\ free.body = s.body /\ free.asked = s.asked /\ free.stranded = s.stranded
  BY WkActionFree
<1>2. n \in Nat
  BY DEF WkFit, WkStates, WkWalks
<1>3. t \in {out, Wa!Teleport(out)}
  BY DEF Wa!TakeStep
<1>4. out = [free EXCEPT !.walk.list = n]
  BY <1>1 DEF WkFit, WkStates
<1> HIDE DEF free, out, n
<1>5. /\ WkFit(out) /\ out.walk.list = n /\ out.walk.event = s.walk.event
      /\ out.tasks = free.tasks /\ out.posted = s.posted /\ out.body = s.body /\ out.asked = s.asked /\ out.stranded = s.stranded
  BY <1>1, <1>2, <1>4, WkList
<1>6. WkGoes(s) => WkGoes(out)
  BY <1>1, <1>5 DEF WkGoes, WkSteps, WkKept, Queued
<1>7. CASE t = out
  BY <1>5, <1>6, <1>7
<1>8. CASE t = Wa!Teleport(out)
  BY <1>5, <1>8, WkTeleported
<1> QED BY <1>3, <1>7, <1>8

\* Creature::onWalk: if the walk goes on, it has an event.
LEMMA WkOnWalk ==
    ASSUME NEW s, WkFit(s), NEW t \in Wa!OnWalk(s)
    PROVE  /\ WkFit(t) /\ WkSpent(t)
           /\ WkGoes(s) => WkGoes(t)
<1> DEFINE moved == IF s.walk.list > 0 THEN Wa!TakeStep(s) ELSE {Wa!OnWalkComplete(Wa!StopEventWalk(s))}
           aborted(x) == IF x.walk.cancel
                         THEN [Wa!OnWalkAborted(x) EXCEPT !.walk.list = 0, !.walk.cancel = FALSE] ELSE x
           again(x) == IF x.walk.event = "none" THEN x ELSE Wa!NewEvent([x EXCEPT !.walk.cancel = FALSE])
<1>1. PICK a \in moved \cup {s} : t = again(aborted(a))
  BY DEF Wa!OnWalk
<1>2. WkFit(a) /\ (WkGoes(s) => WkGoes(a))
  <2>1. CASE a = s
    BY <2>1
  <2>2. CASE a \in moved /\ s.walk.list > 0
    BY <2>2, WkStep
  <2>3. CASE a \in moved /\ ~(s.walk.list > 0)
    <3> DEFINE u == Wa!StopEventWalk(s)
    <3>1. u \in WkStates /\ u.walk.list = s.walk.list /\ u.tasks = s.tasks /\ u.posted = s.posted /\ u.asked = s.asked
      BY WkStop DEF WkFit
    <3>2. a = Wa!OnWalkComplete(u)
      BY <2>3
    <3> HIDE DEF u
    <3>3. WkFit(u)
      BY <3>1, WkKeeps DEF WkFit
    <3>4. WkFit(a) /\ a.tasks.walkTask = None /\ a.walk = u.walk
      BY <3>2, <3>3, WkComplete
    <3>5. WkGoes(a)
      BY <2>3, <3>1, <3>4 DEF WkGoes, WkSteps, WkKept
    <3> QED BY <3>4, <3>5
  <2> QED BY <1>1, <2>1, <2>2, <2>3
<1> DEFINE b == aborted(a)
<1>3. WkFit(b) /\ (WkGoes(s) => WkGoes(b))
  <2>1. CASE ~a.walk.cancel
    BY <1>2, <2>1
  <2>2. CASE a.walk.cancel
    <3> DEFINE u == Wa!OnWalkAborted(a)
               v == [u EXCEPT !.walk.list = 0]
    <3>1. WkFit(u) /\ u.tasks.walkTask = None
      BY <1>2, WkAborted
    <3>2. b = [v EXCEPT !.walk.cancel = FALSE]
      <4>1. b = [u EXCEPT !.walk.list = 0, !.walk.cancel = FALSE]
        BY <2>2
      <4> HIDE DEF b, u
      <4>2. u \in WkStates /\ u.walk \in WkWalks
        BY <3>1 DEF WkFit, WkStates
      <4> QED BY <4>1, <4>2 DEF WkStates, WkWalks
    <3> HIDE DEF u, b
    <3>3. WkFit(v) /\ v.walk.list = 0 /\ v.tasks = u.tasks
      <4>1. WkFit(u) /\ 0 \in Nat
        BY <3>1
      <4> QED BY ONLY <4>1, WkList, SMTT(60)
    <3> HIDE DEF v
    <3>4. WkFit(b) /\ b.walk.list = 0 /\ b.tasks.walkTask = None
      BY <3>1, <3>2, <3>3, WkCancel
    <3>5. WkGoes(b)
      BY <3>4 DEF WkGoes, WkSteps, WkKept
    <3> QED BY <3>4, <3>5
  <2> QED BY <2>1, <2>2
<1>4. t = again(b)
  BY <1>1
<1> HIDE DEF b
<1>5. CASE b.walk.event = "none"
  BY <1>3, <1>4, <1>5 DEF WkSpent
<1>6. CASE b.walk.event # "none"
  <2> DEFINE u == [b EXCEPT !.walk.cancel = FALSE]
  <2>1. WkFit(u)
    BY <1>3, WkCancel
  <2>2. t = Wa!NewEvent(u)
    BY <1>4, <1>6
  <2> HIDE DEF u
  <2> QED BY <2>1, <2>2, WkBegins
<1> QED BY <1>5, <1>6

\* Creature::startAutoWalk: a new walk has an event, and one that is refused changes nothing.
LEMMA WkStart ==
    ASSUME NEW s, WkFit(s), WkSpent(s), WkSteps(s), NEW path \in Nat, NEW t \in Wa!StartAutoWalk(s, path)
    PROVE  WkGood(t)
<1> DEFINE listed == [s EXCEPT !.walk.list = path]
           first == [listed EXCEPT !.walk.cancel = FALSE]
<1>1. /\ WkFit(listed) /\ listed.walk.event = s.walk.event /\ listed.posted = s.posted
  BY WkList
<1>2. CASE s.body.blocked
  <2> DEFINE u == [s EXCEPT !.stranded = @ \cup {"task"}]
  <2>1. t = u
    BY <1>2 DEF Wa!StartAutoWalk
  <2>2. WkFit(u) /\ u.walk = s.walk /\ u.stranded = s.stranded \cup {"task"} /\ u.posted = s.posted /\ u.body = s.body
    BY WkStranded
  <2> HIDE DEF u
  <2>3. WkSpent(u) /\ WkSteps(u) /\ WkKept(u)
    BY <2>2 DEF WkSpent, WkSteps, WkKept, Queued
  <2> QED BY <2>1, <2>2, <2>3 DEF WkGood, WkFit
<1>3. CASE ~s.body.blocked /\ t = Wa!AddEventWalk(listed)
  <2> HIDE DEF listed
  <2>1. /\ WkFit(first) /\ first.walk.event = listed.walk.event /\ first.posted = listed.posted
    BY <1>1, WkCancel
  <2>2. t = IF listed.walk.event # "none" THEN first ELSE Wa!NewEvent(first)
    BY <1>3 DEF Wa!AddEventWalk
  <2> HIDE DEF first
  <2>3. CASE listed.walk.event # "none"
    <3>1. WkSpent(first) /\ WkSteps(first) /\ WkKept(first)
      BY <1>1, <2>1, <2>3 DEF WkSpent, WkSteps, WkKept, Queued
    <3> QED BY <2>1, <2>2, <2>3, <3>1 DEF WkGood, WkFit
  <2>4. CASE listed.walk.event = "none"
    BY <2>1, <2>2, <2>4, WkBegins DEF WkGood, WkFit, WkGoes
  <2> QED BY <2>3, <2>4
<1>4. CASE ~s.body.blocked /\ \E u \in Wa!OnWalk(first) : t = Wa!NewEvent(u)
  <2> HIDE DEF listed
  <2>1. WkFit(first)
    BY <1>1, WkCancel
  <2> HIDE DEF first
  <2>2. PICK u \in Wa!OnWalk(first) : t = Wa!NewEvent(u)
    BY <1>4
  <2>3. WkFit(u)
    BY <2>1, WkOnWalk
  <2> QED BY <2>2, <2>3, WkBegins DEF WkGood, WkFit, WkGoes
<1> QED BY <1>2, <1>3, <1>4 DEF Wa!StartAutoWalk

\* Game::playerAutoWalk
LEMMA WkAutoWalk ==
    ASSUME NEW s, WkFit(s), WkSpent(s), WkSteps(s), NEW path \in Nat, NEW t \in Wa!AutoWalk(s, path)
    PROVE  WkGood(t)
<1>1. CASE t \in Wa!StartAutoWalk(s, path)
  BY <1>1, WkStart
<1>2. CASE t = Wa!Teleport(s)
  BY <1>2, WkTeleported DEF WkGood, WkFit, WkGoes
<1>3. CASE t = [s EXCEPT !.stranded = @ \cup {"task"}]
  <2>1. WkFit(t) /\ t.walk = s.walk /\ t.stranded = s.stranded \cup {"task"} /\ t.posted = s.posted /\ t.body = s.body
    BY <1>3, WkStranded
  <2>2. WkSpent(t) /\ WkSteps(t) /\ WkKept(t)
    BY <2>1 DEF WkSpent, WkSteps, WkKept, Queued
  <2> QED BY <2>1, <2>2 DEF WkGood, WkFit
<1> QED BY <1>1, <1>2, <1>3 DEF Wa!AutoWalk

\* Dispatcher::addTask: the task is the last in the queue.
LEMMA WkPost ==
    ASSUME NEW s \in WkStates, NEW kind, NEW what, [kind |-> kind, what |-> what] \in WkItems
    PROVE  LET t == Wa!Post(s, kind, what)
           IN  /\ t \in WkStates /\ t.walk = s.walk /\ t.tasks = s.tasks /\ t.body = s.body /\ t.asked = s.asked /\ t.stranded = s.stranded
               /\ \A x : Queued(t, x) <=> Queued(s, x) \/ kind = x
               /\ \A q : Put(t, q) <=> Put(s, q) \/ (kind = "task" /\ what = q)
               /\ \A q \in Requests :
                     WkOnce(s) /\ ~(kind = "task" /\ what = q /\ Put(s, q)) =>
                        \A j, k \in 1..Len(t.posted) : At(t, q, j) /\ At(t, q, k) => j = k
<1> DEFINE t == Wa!Post(s, kind, what)
           i == [kind |-> kind, what |-> what]
           n == Len(s.posted)
<1>1. s.posted \in Seq(WkItems) /\ n \in Nat
  BY DEF WkStates
<1>2. t = [s EXCEPT !.posted = Append(s.posted, i)]
  BY DEF Wa!Post
<1>4. i.kind = kind /\ i.what = what /\ i \in WkItems
  OBVIOUS
<1> HIDE DEF t, i
<1>3. /\ t \in WkStates /\ t.posted = Append(s.posted, i)
      /\ t.walk = s.walk /\ t.tasks = s.tasks /\ t.body = s.body /\ t.asked = s.asked /\ t.stranded = s.stranded
  <2>1. Append(s.posted, i) \in Seq(WkItems)
    BY <1>1, <1>4
  <2> QED BY <1>2, <2>1 DEF WkStates
<1>5. /\ Len(t.posted) = n + 1
      /\ \A k \in 1..n : t.posted[k] = s.posted[k]
      /\ t.posted[n + 1] = i
  BY <1>1, <1>3
<1> HIDE DEF n
<1>6. 1..Len(t.posted) = 1..n \cup {n + 1} /\ n + 1 \notin 1..n
  BY <1>1, <1>5
<1>7. \A x : Queued(t, x) <=> Queued(s, x) \/ kind = x
  BY <1>4, <1>5, <1>6 DEF Queued, n
<1>8. \A q : Put(t, q) <=> Put(s, q) \/ (kind = "task" /\ what = q)
  BY <1>4, <1>5, <1>6 DEF Put, At, n
<1>9. ASSUME NEW q \in Requests, WkOnce(s), ~(kind = "task" /\ what = q /\ Put(s, q)),
             NEW j \in 1..Len(t.posted), NEW k \in 1..Len(t.posted), At(t, q, j), At(t, q, k)
      PROVE  j = k
  <2>1. \A m \in 1..n : At(t, q, m) => At(s, q, m) /\ Put(s, q)
    BY <1>5 DEF At, Put, n
  <2>2. At(t, q, n + 1) => kind = "task" /\ what = q
    BY <1>4, <1>5 DEF At
  <2>3. \A l, m \in 1..n : At(s, q, l) /\ At(s, q, m) => l = m
    BY <1>9 DEF WkOnce, WkSingle, n
  <2> QED BY <1>6, <1>9, <2>1, <2>2, <2>3
<1> QED BY <1>3, <1>7, <1>8, <1>9 DEF t

\* A request that has just been sent, or is tried again, is nowhere else.
WkReady(s, r) == WkGood(s) /\ s.asked[r].sent /\ s.asked[r].done = 0 /\ Away(s, r) /\ ~Put(s, r)

\* Far away: the request waits for the end of the walk that will be posted.
LEMMA WkApproach ==
    ASSUME NEW s, NEW r \in Requests, WkReady(s, r), NEW t \in Wa!Approach(s, r)
    PROVE  WkGood(t)
<1>1. CASE t = s
  BY <1>1 DEF WkReady
<1>2. CASE t # s
  <2>1. PICK path \in Wa!Paths : t = Wa!SetNextWalkActionTask(Wa!Post(s, "path", path), r)
    BY <1>2 DEF Wa!Approach
  <2> DEFINE p == Wa!Post(s, "path", path)
  <2>2. s \in WkStates /\ WkGood(s) /\ WkOnce(s) /\ r \in WkWaiting
    BY DEF WkReady, WkGood, WkWaiting
  <2>3. [kind |-> "path", what |-> path] \in WkItems
    BY WalkAssumption DEF WkItems, Wa!Paths
  <2>4. /\ p \in WkStates /\ p.walk = s.walk /\ p.tasks = s.tasks /\ p.body = s.body /\ p.asked = s.asked /\ p.stranded = s.stranded
        /\ \A x : Queued(p, x) <=> Queued(s, x) \/ "path" = x
        /\ \A q : Put(p, q) <=> Put(s, q)
        /\ \A q \in Requests : \A j, k \in 1..Len(p.posted) : At(p, q, j) /\ At(p, q, k) => j = k
    BY <2>2, <2>3, WkPost
  <2> HIDE DEF p
  <2>5. /\ t \in WkStates /\ t.tasks.action = p.tasks.action /\ t.tasks.walkTask = r /\ t.tasks.walkEvent = None
        /\ t.walk = p.walk /\ t.posted = p.posted /\ t.body = p.body /\ t.asked = p.asked /\ t.stranded = p.stranded
    BY <2>1, <2>2, <2>4, WkWalkTask DEF p
  <2>6. WkSpent(t) /\ WkSteps(t) /\ WkKept(t)
    <3>1. Queued(t, "path") /\ (Queued(s, "walk") => Queued(t, "walk"))
      <4>1. \A x : Queued(t, x) <=> Queued(p, x)
        BY <2>5 DEF Queued
      <4>2. \A x : Queued(p, x) <=> Queued(s, x) \/ "path" = x
        BY <2>4
      <4> QED BY ONLY <4>1, <4>2
    <3>2. WkSpent(t)
      BY <2>2, <2>4, <2>5, <3>1 DEF WkSpent, WkGood
    <3>3. WkSteps(t)
      BY <2>2, <2>4, <2>5 DEF WkSteps, WkGood
    <3>4. WkKept(t)
      BY <3>1 DEF WkKept
    <3> QED BY <3>2, <3>3, <3>4
  <2>7. ASSUME NEW q \in Requests PROVE WkSingle(t, q)
    <3>1. WkSingle(s, q) /\ q # None
      BY <2>2, WalkAssumption DEF WkOnce
    <3>2. /\ Put(t, q) <=> Put(s, q)
          /\ \A j, k \in 1..Len(t.posted) : At(t, q, j) /\ At(t, q, k) => j = k
      <4>1. Put(t, q) <=> Put(p, q)
        BY <2>5 DEF Put, At
      <4>2. Put(p, q) <=> Put(s, q)
        BY <2>4
      <4>3. \A j, k \in 1..Len(p.posted) : At(p, q, j) /\ At(p, q, k) => j = k
        BY <2>4
      <4>4. \A j, k \in 1..Len(t.posted) : At(t, q, j) /\ At(t, q, k) => j = k
        BY <2>5, <4>3 DEF At
      <4> QED BY <4>1, <4>2, <4>4
    <3>3. CASE q = r
      BY <2>4, <2>5, <3>1, <3>2, <3>3 DEF WkSingle, WkReady, Away
    <3>4. CASE q # r
      BY <2>4, <2>5, <3>1, <3>2, <3>4 DEF WkSingle, Away
    <3> QED BY <3>3, <3>4
  <2> QED BY <2>5, <2>6, <2>7 DEF WkGood, WkOnce
<1> QED BY <1>1, <1>2

\* Too early: the request waits in the action task.
LEMMA WkWait ==
    ASSUME NEW s, NEW r \in Requests, WkReady(s, r)
    PROVE  WkGood(Wa!SetNextActionTask(s, r))
<1> DEFINE t == Wa!SetNextActionTask(s, r)
<1>1. s \in WkStates /\ WkGood(s) /\ WkOnce(s) /\ r \in WkWaiting
  BY DEF WkReady, WkGood, WkWaiting
<1>2. /\ t \in WkStates /\ t.tasks.action = r
      /\ t.tasks.walkTask = s.tasks.walkTask /\ t.tasks.walkEvent = s.tasks.walkEvent
      /\ t.walk = s.walk /\ t.posted = s.posted /\ t.body = s.body /\ t.asked = s.asked /\ t.stranded = s.stranded
  BY <1>1, WkAction
<1> HIDE DEF t
<1>3. WkSpent(t) /\ WkSteps(t) /\ WkKept(t)
  BY <1>1, <1>2 DEF WkSpent, WkSteps, WkKept, Queued, WkGood
<1>4. ASSUME NEW q \in Requests PROVE WkSingle(t, q)
  <2>1. WkSingle(s, q)
    BY <1>1 DEF WkOnce
  <2>2. /\ Put(t, q) <=> Put(s, q)
        /\ \A j, k \in 1..Len(t.posted) : At(t, q, j) /\ At(t, q, k) => j = k
    BY <1>2, <2>1 DEF Put, At, WkSingle
  <2>3. CASE q = r
    BY <1>2, <2>1, <2>2, <2>3 DEF WkSingle, WkReady, Away
  <2>4. CASE q # r
    BY <1>2, <2>1, <2>2, <2>4 DEF WkSingle, Away
  <2> QED BY <2>3, <2>4
<1> QED BY <1>2, <1>3, <1>4 DEF WkGood, WkOnce, t

\* The request is carried out, and is nowhere from then on.
LEMMA WkDo ==
    ASSUME NEW s, NEW r \in Requests, WkReady(s, r), NEW t \in Wa!Do(s, r)
    PROVE  WkGood(t)
<1>1. CASE t = s
  BY <1>1 DEF WkReady
<1>2. CASE t # s
  <2> DEFINE a == [s.asked EXCEPT ![r].done = 1]
  <2>1. s \in WkStates /\ WkGood(s) /\ WkOnce(s) /\ s.asked \in WkAsked
    BY DEF WkReady, WkGood, WkStates
  <2>2. a \in WkAsked /\ (\A q \in Requests : q # r => a[q] = s.asked[q]) /\ a[r].done = 1 /\ a[r].sent = s.asked[r].sent
    BY <2>1 DEF WkAsked
  <2>3. t = [s EXCEPT !.asked = a]
    BY <1>2, <2>1 DEF Wa!Do, WkReady, WkAsked, WkStates
  <2> HIDE DEF a
  <2>4. /\ t \in WkStates /\ t.walk = s.walk /\ t.tasks = s.tasks /\ t.body = s.body /\ t.asked = a
        /\ t.stranded = s.stranded /\ t.posted = s.posted
    BY <2>1, <2>2, <2>3 DEF WkStates
  <2>5. WkSpent(t) /\ WkSteps(t) /\ WkKept(t)
    BY <2>1, <2>4 DEF WkSpent, WkSteps, WkKept, Queued, WkGood
  <2>6. ASSUME NEW q \in Requests PROVE WkSingle(t, q)
    <3>1. WkSingle(s, q)
      BY <2>1 DEF WkOnce
    <3>2. /\ Put(t, q) <=> Put(s, q)
          /\ \A j, k \in 1..Len(t.posted) : At(t, q, j) /\ At(t, q, k) => j = k
      <4>1. Put(t, q) <=> Put(s, q)
        BY <2>4 DEF Put, At
      <4>2. \A j, k \in 1..Len(t.posted) : At(t, q, j) /\ At(t, q, k) => j = k
        BY <2>4, <3>1 DEF At, WkSingle
      <4> QED BY <4>1, <4>2
    <3>3. CASE q = r
      <4>1. Away(t, q) /\ ~Put(t, q)
        BY <2>4, <3>2, <3>3 DEF WkReady, Away
      <4>2. t.asked[q].done = 1 /\ t.asked[q].done \in 0..1
        BY <2>2, <2>4, <3>3
      <4>3. t.asked[q].sent
        BY <2>2, <2>4, <3>3, Zenon DEF WkReady
      <4>4. /\ t.tasks.walkTask # q
            /\ t.tasks.walkEvent # q
            /\ Put(t, q) => Away(t, q)
        BY <4>1 DEF Away
      <4> QED BY <3>2, <4>1, <4>2, <4>3, <4>4, Zenon DEF WkSingle
    <3>4. CASE q # r
      BY <2>2, <2>4, <3>1, <3>2, <3>4 DEF WkSingle, Away
    <3> QED BY <3>3, <3>4
  <2> QED BY <2>4, <2>5, <2>6 DEF WkGood, WkOnce
<1> QED BY <1>1, <1>2

\* Nothing else of a request is forgotten with the action task.
LEMMA WkFree ==
    ASSUME NEW s, NEW r \in Requests, WkReady(s, r)
    PROVE  WkReady(Wa!SetNextActionTask(s, None), r)
<1> DEFINE t == Wa!SetNextActionTask(s, None)
<1>1. s \in WkStates /\ WkGood(s) /\ WkFit(s) /\ None # r /\ None \in WkWaiting
  BY WalkAssumption DEF WkReady, WkGood, WkFit, WkWaiting
<1>2. /\ WkFit(t) /\ t.tasks.walkTask = s.tasks.walkTask
      /\ t.walk = s.walk /\ t.posted = s.posted /\ t.body = s.body /\ t.asked = s.asked /\ t.stranded = s.stranded
  BY <1>1, WkActionFree
<1>3. t.tasks.action = None /\ t.tasks.walkEvent = s.tasks.walkEvent
  BY <1>1, WkAction
<1> HIDE DEF t
<1>4. WkSpent(t) /\ WkSteps(t) /\ WkKept(t)
  BY <1>1, <1>2 DEF WkSpent, WkSteps, WkKept, Queued, WkGood
<1>5. Away(t, r) /\ ~Put(t, r)
  BY <1>1, <1>2, <1>3 DEF Away, Put, At, WkReady
<1> QED BY <1>2, <1>4, <1>5 DEF WkReady, WkGood, WkFit, t

\* A request of any kind, that is tried for the first time or again.
LEMMA WkRetry ==
    ASSUME NEW s, NEW r \in Requests, WkReady(s, r), NEW t \in Wa!MoveThing(s, r) \cup Wa!Retry(s, r)
    PROVE  WkGood(t)
<1> DEFINE free == Wa!SetNextActionTask(s, None)
<1>1. WkReady(free, r)
  BY WkFree
<1>2. \/ t = s \/ t = Wa!SetNextActionTask(s, r) \/ t \in Wa!Approach(s, r) \/ t \in Wa!Do(s, r)
      \/ t \in Wa!Approach(free, r) \/ t \in Wa!Do(free, r)
  BY DEF Wa!Retry, Wa!UseItem, Wa!UseItemEx, Wa!UseWithCreature, Wa!MoveItem, Wa!PushCreature,
         Wa!MoveThing, Wa!RotateItem, Wa!RequestTrade, Wa!Wait
<1> HIDE DEF free
<1>3. CASE t = s
  BY <1>3 DEF WkReady
<1>4. CASE t = Wa!SetNextActionTask(s, r)
  BY <1>4, WkWait
<1> QED BY <1>1, <1>2, <1>3, <1>4, WkApproach, WkDo

\* The dispatcher takes the first task out of the queue.
LEMMA WkTail ==
    ASSUME NEW s, WkGood(s), s.posted # <<>>
    PROVE  LET t == [s EXCEPT !.posted = Tail(@)]
               i == Head(s.posted)
           IN  /\ WkFit(t) /\ i \in WkItems
               /\ t.walk = s.walk /\ t.tasks = s.tasks /\ t.body = s.body /\ t.asked = s.asked /\ t.stranded = s.stranded
               /\ \A x : Queued(s, x) /\ x # i.kind => Queued(t, x)
               /\ i.kind = "task" /\ i.what \in Requests => Put(s, i.what) /\ ~Put(t, i.what)
<1> DEFINE t == [s EXCEPT !.posted = Tail(@)]
           i == Head(s.posted)
           n == Len(s.posted)
           m == n - 1
<1>1. s \in WkStates /\ s.posted \in Seq(WkItems) /\ WkOnce(s)
  BY DEF WkGood, WkStates
<1>2. n \in Nat /\ n > 0 /\ m \in Nat
  BY <1>1
<1>3. /\ t \in WkStates /\ t.posted = Tail(s.posted)
      /\ t.walk = s.walk /\ t.tasks = s.tasks /\ t.body = s.body /\ t.asked = s.asked /\ t.stranded = s.stranded
  <2>1. Tail(s.posted) \in Seq(WkItems)
    BY <1>1
  <2> QED BY <1>1, <2>1 DEF WkStates
<1>4. i \in WkItems /\ i = s.posted[1]
  BY <1>1, <1>2
<1>5. Len(t.posted) = m /\ \A k \in 1..m : t.posted[k] = s.posted[k + 1]
  BY <1>1, <1>3
<1> HIDE DEF t, i
<1>6. /\ 1 \in 1..n
      /\ \A k \in 1..n : k # 1 => k - 1 \in 1..m /\ (k - 1) + 1 = k
      /\ \A k \in 1..m : k + 1 \in 1..n /\ k + 1 # 1
      /\ \A j, k \in 1..m : j + 1 = k + 1 => j = k
  BY <1>2
<1> HIDE DEF n, m
<1>7. ASSUME NEW x, Queued(s, x), x # i.kind PROVE Queued(t, x)
  <2>1. PICK k \in 1..n : s.posted[k].kind = x
    BY <1>7 DEF Queued, n
  <2>2. k - 1 \in 1..m /\ (k - 1) + 1 = k
    BY <1>4, <1>6, <1>7, <2>1
  <2>3. t.posted[k - 1] = s.posted[k]
    BY <1>5, <2>2
  <2> QED BY <1>5, <2>1, <2>2, <2>3 DEF Queued
<1>8. ASSUME NEW q, NEW k \in 1..m, At(t, q, k) PROVE At(s, q, k + 1)
  BY <1>5, <1>8 DEF At
<1>9. ASSUME NEW q \in Requests PROVE WkSingle(t, q)
  <2>1. WkSingle(s, q)
    BY <1>1, <1>9 DEF WkOnce
  <2>2. Put(t, q) => Put(s, q)
    BY <1>5, <1>6, <1>8, Zenon DEF Put, n
  <2>3. ASSUME NEW j \in 1..m, NEW k \in 1..m, At(t, q, j), At(t, q, k) PROVE j = k
    <3>1. j + 1 = k + 1
      <4>1. At(s, q, j + 1) /\ At(s, q, k + 1) /\ j + 1 \in 1..n /\ k + 1 \in 1..n
        BY <1>6, <1>8, <2>3
      <4> QED BY <2>1, <4>1, Zenon DEF WkSingle, n
    <3> QED BY <1>6, <2>3, <3>1
  <2>4. \A j, k \in 1..Len(t.posted) : At(t, q, j) /\ At(t, q, k) => j = k
    BY <1>5, <2>3
  <2>5. Away(t, q) <=> Away(s, q)
    BY <1>3 DEF Away
  <2> QED BY <1>3, <2>1, <2>2, <2>4, <2>5 DEF WkSingle
<1>10. ASSUME i.kind = "task", i.what \in Requests PROVE Put(s, i.what) /\ ~Put(t, i.what)
  <2>1. At(s, i.what, 1)
    BY <1>4, <1>10 DEF At
  <2>2. ASSUME NEW k \in 1..m, At(t, i.what, k) PROVE FALSE
    <3>1. At(s, i.what, k + 1) /\ k + 1 \in 1..n /\ k + 1 # 1
      BY <1>6, <1>8, <2>2
    <3> QED BY <1>1, <1>6, <1>10, <2>1, <3>1 DEF WkOnce, WkSingle, n
  <2>3. ~Put(t, i.what)
    BY <1>5, <2>2 DEF Put
  <2> QED BY <1>6, <2>1, <2>3 DEF Put, n
<1> QED BY <1>3, <1>4, <1>7, <1>9, <1>10 DEF WkFit, WkOnce, t, i

\* A state of the walk is what its next one becomes.
LEMMA WkBecome ==
    ASSUME NEW t, WkGood(t), Wa!Become(t)
    PROVE  WkGood(Wa!Now)'
<1>1. t \in WkStates
  BY DEF WkGood
<1>2. t = [walk |-> t.walk, tasks |-> t.tasks, posted |-> t.posted, body |-> t.body, asked |-> t.asked, stranded |-> t.stranded]
  BY <1>1 DEF WkStates
<1>3. (Wa!Now)' = t
  BY <1>2 DEF Wa!Become, Wa!Now
<1> QED BY <1>3

\* Dispatcher::threadMain: whatever the task is
LEMMA WkRuns ==
    ASSUME WkGood(Wa!Now), Wa!RunPosted
    PROVE  WkGood(Wa!Now)'
<1> DEFINE now == Wa!Now
           s == [now EXCEPT !.posted = Tail(@)]
           i == Head(now.posted)
<1>1. now.posted = posted
  BY DEF Wa!Now
<1>2. PICK t \in CASE i.kind = "walk" -> Wa!OnWalk(s)
                   [] i.kind = "path" -> Wa!AutoWalk(s, i.what)
                   [] i.kind = "task" /\ i.what = Wa!Attack -> {s, Wa!SetNextActionTask(s, Wa!Attack)}
                   [] OTHER -> Wa!Retry(s, i.what) : Wa!Become(t)
  BY <1>1 DEF Wa!RunPosted
<1>3. now.posted # <<>> /\ WkGood(now) /\ WkOnce(now)
  BY <1>1 DEF Wa!RunPosted, WkGood
<1> HIDE DEF now
<1>4. /\ WkFit(s) /\ i \in WkItems
      /\ s.walk = now.walk /\ s.tasks = now.tasks /\ s.body = now.body /\ s.asked = now.asked /\ s.stranded = now.stranded
      /\ \A x : Queued(now, x) /\ x # i.kind => Queued(s, x)
      /\ i.kind = "task" /\ i.what \in Requests => Put(now, i.what) /\ ~Put(s, i.what)
  BY <1>3, WkTail
<1> HIDE DEF s, i
<1>5. WkSteps(s) /\ (i.kind # "walk" => WkSpent(s)) /\ (i.kind # "path" => WkKept(s))
  BY <1>3, <1>4 DEF WkGood, WkSteps, WkSpent, WkKept
<1>6. WkGood(t)
  <2>1. CASE i.kind = "walk"
    <3>1. t \in Wa!OnWalk(s) /\ WkGoes(s)
      BY <1>2, <1>5, <2>1 DEF WkGoes
    <3> QED BY <1>4, <3>1, WkOnWalk DEF WkGood, WkFit, WkGoes
  <2>2. CASE i.kind = "path"
    <3>1. i.what \in Nat
      BY <1>4, <2>2 DEF WkItems
    <3>2. t \in Wa!AutoWalk(s, i.what)
      BY <1>2, <2>2
    <3> QED BY <1>4, <1>5, <2>2, <3>1, <3>2, WkAutoWalk
  <2>3. CASE i.kind = "task" /\ i.what = Wa!Attack
    <3>1. t \in {s, Wa!SetNextActionTask(s, Wa!Attack)}
      BY <1>2, <2>3
    <3>2. WkGood(s)
      BY <1>4, <1>5, <2>3 DEF WkGood, WkFit
    <3> DEFINE u == Wa!SetNextActionTask(s, Wa!Attack)
    <3>3. /\ WkFit(u) /\ u.tasks.walkTask = s.tasks.walkTask
          /\ u.walk = s.walk /\ u.posted = s.posted /\ u.body = s.body /\ u.stranded = s.stranded
      BY <1>4, WkActionFree
    <3> HIDE DEF u
    <3>4. WkGood(u)
      BY <3>2, <3>3 DEF WkGood, WkFit, WkSpent, WkSteps, WkKept, Queued
    <3> QED BY <3>1, <3>2, <3>4 DEF u
  <2>4. CASE i.kind = "task" /\ i.what # Wa!Attack
    <3>1. i.what \in Requests /\ t \in Wa!Retry(s, i.what)
      BY <1>2, <1>4, <2>4 DEF WkItems
    <3>2. WkGood(s)
      BY <1>4, <1>5, <2>4 DEF WkGood, WkFit
    <3>3. WkSingle(now, i.what) /\ Put(now, i.what) /\ ~Put(s, i.what)
      BY <1>3, <1>4, <2>4, <3>1 DEF WkOnce
    <3>4. Away(s, i.what)
      BY <1>4, <3>3 DEF WkSingle, Away
    <3>5. s.asked[i.what].sent
      BY <1>4, <3>3, Zenon DEF WkSingle
    <3>6. s.asked[i.what].done = 0
      <4>1. now.asked[i.what].done \in 0..1
        BY <3>3, Zenon DEF WkSingle
      <4>2. now.asked[i.what].done # 1
        BY <3>3, Zenon DEF WkSingle
      <4> QED BY <1>4, <4>1, <4>2
    <3> QED BY <3>1, <3>2, <3>3, <3>4, <3>5, <3>6, WkRetry DEF WkReady
  <2>5. i.kind \in {"walk", "path", "task"}
    BY <1>4 DEF WkItems
  <2> QED BY <2>1, <2>2, <2>3, <2>4, <2>5
<1> QED BY <1>2, <1>6, WkBecome

\* A request is sent.
LEMMA WkAsk ==
    ASSUME WkGood(Wa!Now), NEW r \in Requests, Wa!Ask(r)
    PROVE  WkGood(Wa!Now)'
<1> DEFINE now == Wa!Now
           s == [now EXCEPT !.asked[r].sent = TRUE]
           a == [now.asked EXCEPT ![r].sent = TRUE]
<1>1. ~now.asked[r].sent
  BY DEF Wa!Ask, Wa!Now
<1>2. PICK t \in Wa!MoveThing(s, r) \cup Wa!Retry(s, r) : Wa!Become(t)
  BY DEF Wa!Ask
<1>3. now \in WkStates /\ now.asked \in WkAsked /\ WkOnce(now) /\ WkGood(now)
  BY DEF WkGood, WkStates
<1> HIDE DEF now
<1>4. /\ a \in WkAsked /\ \A q \in Requests : q # r => a[q] = now.asked[q]
      /\ a[r].sent /\ a[r].done = now.asked[r].done
  BY <1>3 DEF WkAsked
<1>5. s = [now EXCEPT !.asked = a]
  BY <1>3 DEF WkStates
<1> HIDE DEF a, s
<1>6. /\ s \in WkStates /\ s.walk = now.walk /\ s.tasks = now.tasks /\ s.posted = now.posted
      /\ s.body = now.body /\ s.asked = a /\ s.stranded = now.stranded
  BY <1>3, <1>4, <1>5 DEF WkStates
<1>7. WkSpent(s) /\ WkSteps(s) /\ WkKept(s)
  BY <1>3, <1>6 DEF WkSpent, WkSteps, WkKept, Queued, WkGood
<1>8. ASSUME NEW q \in Requests PROVE (Put(s, q) <=> Put(now, q)) /\ (Away(s, q) <=> Away(now, q))
  BY <1>6 DEF Put, At, Away
<1>9. Away(s, r) /\ ~Put(s, r) /\ a[r].done = 0
  <2>1. WkSingle(now, r)
    BY <1>3 DEF WkOnce
  <2>2. Away(now, r) /\ ~Put(now, r)
    BY <1>1, <2>1, Zenon DEF WkSingle
  <2>3. now.asked[r].done = 0
    BY <1>1, <2>1, Zenon DEF WkSingle
  <2> QED BY <1>4, <1>8, <2>2, <2>3
<1>10. ASSUME NEW q \in Requests PROVE WkSingle(s, q)
  <2>1. WkSingle(now, q)
    BY <1>3 DEF WkOnce
  <2>2. \A j, k \in 1..Len(s.posted) : At(s, q, j) /\ At(s, q, k) => j = k
    BY <1>6, <2>1 DEF At, WkSingle
  <2>3. CASE q = r
    <3>1. a[r].done \in 0..1 /\ a[r].done # 1
      BY <1>9
    <3> QED BY <1>4, <1>6, <1>9, <2>2, <2>3, <3>1, Zenon DEF WkSingle, Away
  <2>4. CASE q # r
    BY <1>4, <1>6, <1>8, <2>1, <2>2, <2>4 DEF WkSingle, Away
  <2> QED BY <2>3, <2>4
<1>11. WkReady(s, r)
  BY <1>4, <1>6, <1>7, <1>9, <1>10 DEF WkReady, WkGood, WkOnce
<1> QED BY <1>2, <1>11, WkRetry, WkBecome

\* Creature::setSpeed
LEMMA WkSpeed ==
    ASSUME WkGood(Wa!Now), NEW b \in BOOLEAN, Wa!SetSpeed(b)
    PROVE  WkGood(Wa!Now)'
<1> DEFINE now == Wa!Now
           s == [now EXCEPT !.body.halted = ~b]
           w == [now.body EXCEPT !.halted = ~b]
<1>1. now \in WkStates /\ now.body \in WkBodies /\ WkOnce(now) /\ WkGood(now)
  BY DEF WkGood, WkStates
<1>2. now.body = body /\ now.walk = click
  BY DEF Wa!Now
<1> DEFINE out == IF ~b THEN [Wa!StopEventWalk(s) EXCEPT !.walk.cancel = TRUE, !.stranded = @ \cup {"task"}]
                  ELSE IF now.body.halted /\ now.walk.list > 0 THEN Wa!AddEventWalk(s)
                  ELSE s
<1>3. Wa!Become(out)
  BY <1>2 DEF Wa!SetSpeed
<1> HIDE DEF now
<1>4. w \in WkBodies /\ (w.halted <=> ~b)
  BY <1>1 DEF WkBodies
<1>5. s = [now EXCEPT !.body = w]
  BY <1>1 DEF WkStates
<1> HIDE DEF s, w
<1>6. /\ s \in WkStates /\ s.walk = now.walk /\ s.tasks = now.tasks /\ s.posted = now.posted
      /\ s.body = w /\ s.asked = now.asked /\ s.stranded = now.stranded
  BY <1>1, <1>4, <1>5 DEF WkStates
<1>7. WkFit(s)
  BY <1>1, <1>6, WkKeeps DEF WkFit
<1>8. CASE ~b
  <2> DEFINE u == Wa!StopEventWalk(s)
             v == [u EXCEPT !.walk.cancel = TRUE]
  <2>1. /\ u \in WkStates /\ u.walk.event = "none" /\ u.tasks = s.tasks /\ u.posted = s.posted
        /\ u.body = s.body /\ u.asked = s.asked
    BY <1>6, WkStop
  <2>2. out = [u EXCEPT !.walk.cancel = TRUE, !.stranded = @ \cup {"task"}]
    BY <1>8
  <2> HIDE DEF u, out
  <2>3. WkFit(u)
    BY <1>7, <2>1, WkKeeps DEF WkFit
  <2>4. WkFit(v) /\ v.walk.event = "none" /\ v.body = s.body
    BY <2>1, <2>3, WkCancel
  <2>5. out = [v EXCEPT !.stranded = @ \cup {"task"}]
    BY <2>1, <2>2 DEF WkStates
  <2> HIDE DEF v
  <2>6. WkFit(out) /\ out.walk = v.walk /\ out.stranded = v.stranded \cup {"task"} /\ out.body = s.body
    BY <2>4, <2>5, WkStranded
  <2>7. WkSpent(out) /\ WkSteps(out) /\ WkKept(out)
    BY <1>4, <1>6, <1>8, <2>4, <2>6 DEF WkSpent, WkSteps, WkKept
  <2> QED BY <1>3, <2>6, <2>7, WkBecome DEF WkGood, WkFit
<1>9. CASE b /\ now.body.halted /\ now.walk.list > 0
  <2> DEFINE u == [s EXCEPT !.walk.cancel = FALSE]
  <2>1. WkFit(u) /\ u.walk.event = s.walk.event /\ u.posted = s.posted
    BY <1>7, WkCancel
  <2>2. out = IF s.walk.event # "none" THEN u ELSE Wa!NewEvent(u)
    BY <1>9 DEF Wa!AddEventWalk
  <2> HIDE DEF u, out
  <2>3. CASE s.walk.event # "none"
    <3>1. WkSpent(u) /\ WkSteps(u) /\ WkKept(u)
      BY <1>1, <1>6, <2>1, <2>3 DEF WkSpent, WkSteps, WkKept, Queued, WkGood
    <3> QED BY <1>3, <2>1, <2>2, <2>3, <3>1, WkBecome DEF WkGood, WkFit
  <2>4. CASE s.walk.event = "none"
    BY <1>3, <2>1, <2>2, <2>4, WkBegins, WkBecome DEF WkGood, WkFit, WkGoes
  <2> QED BY <2>3, <2>4
<1>10. CASE b /\ ~(now.body.halted /\ now.walk.list > 0)
  <2>1. out = s
    BY <1>10
  <2> HIDE DEF out
  <2>2. WkSpent(s) /\ WkSteps(s) /\ WkKept(s)
    BY <1>1, <1>6, <1>10 DEF WkSpent, WkSteps, WkKept, Queued, WkGood
  <2> QED BY <1>3, <1>7, <2>1, <2>2, WkBecome DEF WkGood, WkFit
<1> QED BY <1>8, <1>9, <1>10

\* Creature::setMovementBlocked
LEMMA WkBlocked ==
    ASSUME WkGood(Wa!Now), NEW b \in BOOLEAN, Wa!SetMovementBlocked(b)
    PROVE  WkGood(Wa!Now)'
<1> DEFINE now == Wa!Now
           w == [now.body EXCEPT !.blocked = b]
           s == [now EXCEPT !.body = w]
           t == [now EXCEPT !.body.blocked = b, !.walk.cancel = TRUE]
<1>1. now \in WkStates /\ now.body \in WkBodies /\ WkOnce(now) /\ WkGood(now)
  BY DEF WkGood, WkStates
<1>2. Wa!Become(t)
  BY DEF Wa!SetMovementBlocked
<1> HIDE DEF now
<1>3. w \in WkBodies /\ w.halted = now.body.halted
  BY <1>1 DEF WkBodies
<1>4. t = [s EXCEPT !.walk.cancel = TRUE]
  BY <1>1 DEF WkStates
<1> HIDE DEF w, t
<1>5. /\ s \in WkStates /\ s.walk = now.walk /\ s.tasks = now.tasks /\ s.posted = now.posted
      /\ s.body = w /\ s.asked = now.asked /\ s.stranded = now.stranded
  BY <1>1, <1>3 DEF WkStates
<1> HIDE DEF s
<1>6. WkFit(s)
  BY <1>1, <1>5, WkKeeps DEF WkFit
<1>7. /\ WkFit(t) /\ t.walk.event = s.walk.event /\ t.walk.list = s.walk.list
      /\ t.tasks = s.tasks /\ t.posted = s.posted /\ t.body = s.body /\ t.stranded = s.stranded
  BY <1>4, <1>6, WkCancel
<1>8. WkSpent(t) /\ WkSteps(t) /\ WkKept(t)
  BY <1>1, <1>3, <1>5, <1>7 DEF WkSpent, WkSteps, WkKept, Queued, WkGood
<1> QED BY <1>2, <1>7, <1>8, WkBecome DEF WkGood, WkFit

\* The scheduler posts a task that is in no place any more.
LEMMA WkExpire ==
    ASSUME NEW s, WkGood(s), NEW r \in Requests \cup {Wa!Attack}, r \in Requests => WkReady(s, r)
    PROVE  WkGood(Wa!Post(s, "task", r))
<1> DEFINE t == Wa!Post(s, "task", r)
<1>1. s \in WkStates /\ WkOnce(s) /\ [kind |-> "task", what |-> r] \in WkItems
  BY DEF WkGood, WkItems, WkWaiting
<1>2. /\ t \in WkStates /\ t.walk = s.walk /\ t.tasks = s.tasks /\ t.body = s.body /\ t.asked = s.asked /\ t.stranded = s.stranded
      /\ \A x : Queued(t, x) <=> Queued(s, x) \/ "task" = x
  BY <1>1, WkPost
<1>3. /\ \A q : Put(t, q) <=> Put(s, q) \/ r = q
      /\ \A q \in Requests : ~(r = q /\ Put(s, q)) =>
            \A j, k \in 1..Len(t.posted) : At(t, q, j) /\ At(t, q, k) => j = k
  BY <1>1, WkPost
<1> HIDE DEF t
<1>4. WkSpent(t) /\ WkSteps(t) /\ WkKept(t)
  <2>1. /\ Queued(s, "walk") => Queued(t, "walk")
        /\ Queued(s, "path") => Queued(t, "path")
    BY <1>2
  <2> QED BY <1>2, <2>1 DEF WkSpent, WkSteps, WkKept, WkGood
<1>5. ASSUME NEW q \in Requests PROVE WkSingle(t, q)
  <2>1. WkSingle(s, q) /\ (Away(t, q) <=> Away(s, q))
    BY <1>1, <1>2 DEF WkOnce, Away
  <2>2. CASE q = r
    <3>1. Away(s, q) /\ ~Put(s, q) /\ s.asked[q].sent /\ s.asked[q].done = 0
      BY <2>2 DEF WkReady
    <3>2. \A j, k \in 1..Len(t.posted) : At(t, q, j) /\ At(t, q, k) => j = k
      BY <1>3, <3>1
    <3>3. s.asked[q].done \in 0..1 /\ s.asked[q].done # 1
      BY <3>1
    <3> QED BY <1>2, <2>1, <3>1, <3>2, <3>3, Zenon DEF WkSingle, Away
  <2>3. CASE q # r
    <3>1. Put(t, q) <=> Put(s, q)
      BY <1>3, <2>3
    <3>2. \A j, k \in 1..Len(t.posted) : At(t, q, j) /\ At(t, q, k) => j = k
      BY <1>3, <2>3
    <3> QED BY <1>2, <2>1, <3>1, <3>2 DEF WkSingle, Away
  <2> QED BY <2>2, <2>3
<1> QED BY <1>2, <1>4, <1>5 DEF WkGood, WkOnce, t

\* One that waited has been sent, and was not carried out yet.
LEMMA WkWaited ==
    ASSUME NEW s, WkGood(s), NEW r \in Requests, ~Away(s, r)
    PROVE  s.asked[r].sent /\ s.asked[r].done = 0 /\ ~Put(s, r)
<1>1. WkSingle(s, r)
  BY DEF WkGood, WkOnce
<1>2. s.asked[r].sent /\ ~Put(s, r) /\ s.asked[r].done # 1 /\ s.asked[r].done \in 0..1
  BY <1>1, Zenon DEF WkSingle
<1> QED BY <1>2

\* Player::setNextActionTask: its event comes
LEMMA WkExpireAction ==
    ASSUME WkGood(Wa!Now), Wa!ExpireAction
    PROVE  WkGood(Wa!Now)'
<1> DEFINE s == Wa!Now
           r == s.tasks.action
           u == Wa!SetNextActionTask(s, None)
<1>1. r # None /\ Wa!Become(Wa!Post(u, "task", r))
  BY DEF Wa!ExpireAction, Wa!Now
<1> HIDE DEF s
<1>2. s \in WkStates /\ WkFit(s) /\ WkOnce(s) /\ WkGood(s) /\ None \in WkWaiting /\ None \notin Requests
  BY WalkAssumption DEF WkGood, WkFit, WkWaiting, s
<1>3. r \in Requests \cup {Wa!Attack}
  BY <1>1, <1>2 DEF WkStates, WkTasks, WkWaiting
<1>4. /\ WkFit(u) /\ u.tasks.walkTask = s.tasks.walkTask
      /\ u.walk = s.walk /\ u.posted = s.posted /\ u.body = s.body /\ u.asked = s.asked /\ u.stranded = s.stranded
  BY <1>2, WkActionFree
<1>5. u.tasks.action = None /\ u.tasks.walkEvent = s.tasks.walkEvent
  BY <1>2, WkAction
<1> HIDE DEF u, r
<1>6. WkGood(u)
  BY <1>2, <1>4 DEF WkGood, WkFit, WkSpent, WkSteps, WkKept, Queued
<1>7. ASSUME r \in Requests PROVE WkReady(u, r)
  <2>1. s.asked[r].sent /\ s.asked[r].done = 0 /\ ~Put(s, r)
    BY <1>2, <1>7, WkWaited DEF Away, r
  <2>2. Away(u, r)
    BY <1>2, <1>4, <1>5, <1>7 DEF WkOnce, WkSingle, Away, r
  <2>3. ~Put(u, r)
    BY <1>4, <2>1 DEF Put, At
  <2> QED BY <1>4, <1>6, <2>1, <2>2, <2>3 DEF WkReady
<1> QED BY <1>1, <1>3, <1>6, <1>7, WkExpire, WkBecome

\* Player::setNextWalkTask: its event comes
LEMMA WkExpireTask ==
    ASSUME WkGood(Wa!Now), Wa!ExpireWalkTask
    PROVE  WkGood(Wa!Now)'
<1> DEFINE s == Wa!Now
           r == s.tasks.walkEvent
           w == [s.tasks EXCEPT !.walkEvent = None]
           u == [s EXCEPT !.tasks.walkEvent = None]
<1>1. r # None /\ Wa!Become(Wa!Post(u, "task", r))
  BY DEF Wa!ExpireWalkTask, Wa!Now
<1> HIDE DEF s
<1>2. /\ s \in WkStates /\ s.tasks \in WkTasks /\ WkOnce(s) /\ WkGood(s) /\ None \in WkWaiting
      /\ None \notin Requests
  BY WalkAssumption DEF WkGood, WkStates, WkWaiting, s
<1>3. r \in WkWaiting /\ r \in Requests \cup {Wa!Attack}
  BY <1>1, <1>2 DEF WkTasks, WkWaiting
<1>4. w \in WkTasks /\ w.action = s.tasks.action /\ w.walkTask = s.tasks.walkTask /\ w.walkEvent = None
  BY <1>2 DEF WkTasks
<1>5. u = [s EXCEPT !.tasks = w]
  BY <1>2 DEF WkStates
<1> HIDE DEF u, r, w
<1>6. /\ u \in WkStates /\ u.tasks = w
      /\ u.walk = s.walk /\ u.posted = s.posted /\ u.body = s.body /\ u.asked = s.asked /\ u.stranded = s.stranded
  BY <1>2, <1>4, <1>5 DEF WkStates
<1>7. WkLess(s, u)
  BY <1>2, <1>4, <1>6 DEF WkLess
<1>8. WkGood(u)
  BY <1>2, <1>4, <1>6, <1>7, WkLessOnce DEF WkGood, WkSpent, WkSteps, WkKept, Queued
<1>9. ASSUME r \in Requests PROVE WkReady(u, r)
  <2>1. s.asked[r].sent /\ s.asked[r].done = 0 /\ ~Put(s, r)
    BY <1>2, <1>9, WkWaited DEF Away, r
  <2>2. Away(u, r)
    BY <1>2, <1>4, <1>6, <1>9 DEF WkOnce, WkSingle, Away, r
  <2>3. ~Put(u, r)
    BY <1>6, <2>1 DEF Put, At
  <2> QED BY <1>6, <1>8, <2>1, <2>2, <2>3 DEF WkReady
<1> QED BY <1>1, <1>3, <1>8, <1>9, WkExpire, WkBecome

\* Creature::addEventWalk: the event of a walk comes, or one that was forgotten.
LEMMA WkExpireWalk ==
    ASSUME WkGood(Wa!Now), Wa!ExpireWalk \/ Wa!ExpireStray
    PROVE  WkGood(Wa!Now)'
<1> DEFINE s == Wa!Now
<1>1. PICK w : /\ \/ w = [s.walk EXCEPT !.event = "spent"]
                  \/ s.walk.strays > 0 /\ w = [s.walk EXCEPT !.strays = @ - 1]
               /\ Wa!Become(Wa!Post([s EXCEPT !.walk = w], "walk", None))
  <2>1. s.walk = click
    BY DEF Wa!Now
  <2>2. CASE Wa!ExpireWalk
    <3>1. Wa!Become(Wa!Post([s EXCEPT !.walk.event = "spent"], "walk", None))
      BY <2>2 DEF Wa!ExpireWalk
    <3>2. [s EXCEPT !.walk.event = "spent"] = [s EXCEPT !.walk = [s.walk EXCEPT !.event = "spent"]]
      BY DEF Wa!Now
    <3> QED BY <3>1, <3>2
  <2>3. CASE Wa!ExpireStray
    <3>1. s.walk.strays > 0 /\ Wa!Become(Wa!Post([s EXCEPT !.walk.strays = @ - 1], "walk", None))
      BY <2>1, <2>3 DEF Wa!ExpireStray
    <3>2. [s EXCEPT !.walk.strays = @ - 1] = [s EXCEPT !.walk = [s.walk EXCEPT !.strays = @ - 1]]
      BY DEF Wa!Now
    <3> QED BY <3>1, <3>2
  <2> QED BY <2>2, <2>3
<1> DEFINE u == [s EXCEPT !.walk = w]
           t == Wa!Post(u, "walk", None)
<1> HIDE DEF s
<1>2. s \in WkStates /\ s.walk \in WkWalks /\ WkOnce(s) /\ WkGood(s)
  BY DEF WkGood, WkStates, s
<1>3. w \in WkWalks /\ w.list = s.walk.list /\ (w.event = s.walk.event \/ w.event = "spent")
  <2>1. CASE w = [s.walk EXCEPT !.event = "spent"]
    BY <1>2, <2>1 DEF WkWalks, WkEvents
  <2>2. CASE s.walk.strays > 0 /\ w = [s.walk EXCEPT !.strays = @ - 1]
    <3>1. s.walk.strays - 1 \in Nat /\ w = [s.walk EXCEPT !.strays = s.walk.strays - 1]
      BY <1>2, <2>2 DEF WkWalks
    <3> QED BY <1>2, <3>1 DEF WkWalks, WkEvents
  <2> QED BY <1>1, <2>1, <2>2
<1>4. /\ u \in WkStates /\ u.walk = w /\ u.tasks = s.tasks /\ u.posted = s.posted
      /\ u.body = s.body /\ u.asked = s.asked /\ u.stranded = s.stranded
  BY <1>2, <1>3 DEF WkStates
<1>5. Wa!Become(t)
  BY <1>1
<1> HIDE DEF u
<1>6. WkOnce(u)
  BY <1>2, <1>4, WkKeeps
<1>7. [kind |-> "walk", what |-> None] \in WkItems
  BY DEF WkItems, WkWaiting
<1>8. /\ t \in WkStates /\ t.walk = w /\ t.tasks = s.tasks /\ t.body = s.body /\ t.asked = s.asked /\ t.stranded = s.stranded
      /\ \A x : Queued(t, x) <=> Queued(u, x) \/ "walk" = x
  BY <1>4, <1>7, WkPost
<1>9. /\ \A q : Put(t, q) <=> Put(u, q)
      /\ \A q \in Requests : \A j, k \in 1..Len(t.posted) : At(t, q, j) /\ At(t, q, k) => j = k
  BY <1>4, <1>6, <1>7, WkPost
<1> HIDE DEF t
<1>10. WkSpent(t) /\ WkSteps(t) /\ WkKept(t)
  <2>1. Queued(t, "walk") /\ (Queued(s, "path") => Queued(t, "path"))
    BY <1>4, <1>8 DEF Queued
  <2>2. s.walk.event # "none" => t.walk.event # "none"
    BY <1>3, <1>8
  <2> QED BY <1>2, <1>3, <1>8, <2>1, <2>2 DEF WkSpent, WkSteps, WkKept, WkGood
<1>11. ASSUME NEW q \in Requests PROVE WkSingle(t, q)
  <2>1. WkSingle(u, q)
    BY <1>6 DEF WkOnce
  <2>2. (Put(t, q) <=> Put(u, q)) /\ \A j, k \in 1..Len(t.posted) : At(t, q, j) /\ At(t, q, k) => j = k
    BY <1>9
  <2> QED BY <1>4, <1>8, <2>1, <2>2 DEF WkSingle, Away
<1> QED BY <1>5, <1>8, <1>10, <1>11, WkBecome DEF WkGood, WkOnce

\* The steps that only begin, stop or end a walk.
LEMMA WkOther ==
    ASSUME WkGood(Wa!Now),
           \/ \E path \in Wa!Paths : Wa!ClientAutoWalk(path) \/ Wa!GoToFollowCreature(path)
           \/ Wa!GoToFollowCreature(0) \/ Wa!PlayerMove \/ Wa!StopAutoWalk \/ Wa!OnAttacking
           \/ \E b \in BOOLEAN : Wa!SetFollowCreature(b)
           \/ Wa!TeleportPlayer
    PROVE  WkGood(Wa!Now)'
<1> DEFINE s == Wa!Now
<1>1. /\ s \in WkStates /\ WkFit(s) /\ WkGood(s) /\ WkSpent(s) /\ WkSteps(s) /\ WkKept(s)
      /\ s.walk = click /\ s.tasks = walkTasks
  BY DEF WkGood, WkFit, Wa!Now
<1>2. ASSUME NEW path \in Wa!Paths, Wa!ClientAutoWalk(path) PROVE WkGood(Wa!Now)'
  <2>1. PICK t \in Wa!AutoWalk(s, path) : Wa!Become(t)
    BY <1>2 DEF Wa!ClientAutoWalk
  <2>2. path \in Nat
    BY <1>2, WalkAssumption DEF Wa!Paths
  <2> HIDE DEF s
  <2> QED BY <1>1, <2>1, <2>2, WkAutoWalk, WkBecome
<1>3. ASSUME NEW path \in Wa!Paths \cup {0}, Wa!GoToFollowCreature(path) PROVE WkGood(Wa!Now)'
  <2>1. PICK t \in IF path = 0 THEN {[s EXCEPT !.walk.list = 0]} ELSE Wa!StartAutoWalk(s, path) : Wa!Become(t)
    BY <1>3 DEF Wa!GoToFollowCreature
  <2>2. path \in Nat /\ s.tasks.walkTask = None
    BY <1>1, <1>3, WalkAssumption DEF Wa!Paths, Wa!GoToFollowCreature
  <2> HIDE DEF s
  <2>3. CASE path = 0
    <3> DEFINE u == [s EXCEPT !.walk.list = 0]
    <3>1. t = u
      BY <2>1, <2>3
    <3>2. /\ WkFit(u) /\ u.walk.list = 0 /\ u.walk.event = s.walk.event
          /\ u.tasks = s.tasks /\ u.posted = s.posted
      BY <1>1, WkList
    <3> HIDE DEF u
    <3>3. WkSpent(u) /\ WkSteps(u) /\ WkKept(u)
      BY <1>1, <2>2, <3>2 DEF WkSpent, WkSteps, WkKept, Queued
    <3> QED BY <2>1, <3>1, <3>2, <3>3, WkBecome DEF WkGood, WkFit
  <2>4. CASE path # 0
    BY <1>1, <2>1, <2>2, <2>4, WkStart, WkBecome
  <2> QED BY <2>3, <2>4
<1>4. ASSUME Wa!PlayerMove PROVE WkGood(Wa!Now)'
  <2> DEFINE u == Wa!SetNextWalkActionTask(s, None)
  <2>1. PICK t \in Wa!StartAutoWalk(u, 1) : Wa!Become(t)
    BY <1>4 DEF Wa!PlayerMove
  <2> HIDE DEF s
  <2>2. u = Wa!OnWalkAborted(s)
    BY DEF Wa!OnWalkAborted
  <2> HIDE DEF u
  <2>3. /\ WkFit(u)
        /\ u.walk = s.walk /\ u.posted = s.posted /\ u.body = s.body /\ u.stranded = s.stranded
    BY <1>1, <2>2, WkAborted
  <2>4. WkSpent(u) /\ WkSteps(u)
    BY <1>1, <2>3 DEF WkSpent, WkSteps, Queued
  <2> QED BY <2>1, <2>3, <2>4, WkStart, WkBecome
<1>5. ASSUME Wa!StopAutoWalk PROVE WkGood(Wa!Now)'
  <2> DEFINE u == [s EXCEPT !.walk.cancel = TRUE]
  <2>1. Wa!Become(u)
    BY <1>5 DEF Wa!StopAutoWalk
  <2> HIDE DEF s
  <2>2. /\ WkFit(u) /\ u.walk.event = s.walk.event /\ u.walk.list = s.walk.list
        /\ u.tasks = s.tasks /\ u.posted = s.posted /\ u.body = s.body /\ u.stranded = s.stranded
    BY <1>1, WkCancel
  <2> HIDE DEF u
  <2>3. WkSpent(u) /\ WkSteps(u) /\ WkKept(u)
    BY <1>1, <2>2 DEF WkSpent, WkSteps, WkKept, Queued
  <2> QED BY <2>1, <2>2, <2>3, WkBecome DEF WkGood, WkFit
<1>6. ASSUME Wa!OnAttacking PROVE WkGood(Wa!Now)'
  <2> DEFINE u == Wa!SetNextActionTask(s, Wa!Attack)
  <2>1. Wa!Become(u)
    BY <1>6 DEF Wa!OnAttacking
  <2> HIDE DEF s
  <2>2. /\ WkFit(u) /\ u.tasks.walkTask = s.tasks.walkTask
        /\ u.walk = s.walk /\ u.posted = s.posted /\ u.body = s.body /\ u.stranded = s.stranded
    BY <1>1, WkActionFree
  <2> HIDE DEF u
  <2>3. WkSpent(u) /\ WkSteps(u) /\ WkKept(u)
    BY <1>1, <2>2 DEF WkSpent, WkSteps, WkKept, Queued
  <2> QED BY <2>1, <2>2, <2>3, WkBecome DEF WkGood, WkFit
<1>7. ASSUME NEW b \in BOOLEAN, Wa!SetFollowCreature(b) PROVE WkGood(Wa!Now)'
  <2> DEFINE stop == [s EXCEPT !.walk.cancel = TRUE]
             none == [s EXCEPT !.walk.list = 0]
             out == Wa!OnWalkAborted(none)
  <2>1. Wa!Become(IF ~b THEN stop ELSE IF s.walk.list = 0 THEN s ELSE out)
    BY <1>1, <1>7 DEF Wa!SetFollowCreature
  <2> HIDE DEF s
  <2>2. CASE ~b
    <3>1. /\ WkFit(stop) /\ stop.walk.event = s.walk.event /\ stop.walk.list = s.walk.list
          /\ stop.tasks = s.tasks /\ stop.posted = s.posted /\ stop.body = s.body /\ stop.stranded = s.stranded
      BY <1>1, WkCancel
    <3>2. Wa!Become(stop)
      BY <2>1, <2>2
    <3> HIDE DEF stop
    <3>3. WkSpent(stop) /\ WkSteps(stop) /\ WkKept(stop)
      BY <1>1, <3>1 DEF WkSpent, WkSteps, WkKept, Queued
    <3> QED BY <3>1, <3>2, <3>3, WkBecome DEF WkGood, WkFit
  <2>3. CASE b /\ s.walk.list = 0
    BY <1>1, <2>1, <2>3, WkBecome
  <2>4. CASE b /\ s.walk.list # 0
    <3>1. /\ WkFit(none) /\ none.walk.list = 0 /\ none.walk.event = s.walk.event
          /\ none.posted = s.posted
      BY <1>1, WkList
    <3>2. Wa!Become(out)
      BY <2>1, <2>4
    <3> HIDE DEF none
    <3>3. /\ WkFit(out) /\ out.tasks.walkTask = None /\ out.walk = none.walk /\ out.posted = none.posted
      BY <3>1, WkAborted
    <3> HIDE DEF out
    <3>4. WkSpent(out) /\ WkSteps(out) /\ WkKept(out)
      BY <1>1, <3>1, <3>3 DEF WkSpent, WkSteps, WkKept, Queued
    <3> QED BY <3>2, <3>3, <3>4, WkBecome DEF WkGood, WkFit
  <2> QED BY <2>2, <2>3, <2>4
<1>8. ASSUME Wa!TeleportPlayer PROVE WkGood(Wa!Now)'
  <2>1. Wa!Become(Wa!Teleport(s))
    BY <1>8 DEF Wa!TeleportPlayer
  <2> HIDE DEF s
  <2> QED BY <1>1, <2>1, WkTeleported, WkBecome DEF WkGood, WkFit, WkGoes
<1> QED BY <1>2, <1>3, <1>4, <1>5, <1>6, <1>7, <1>8

\* Every step of the walk
LEMMA WkNext ==
    ASSUME WkGood(Wa!Now), Wa!WalkNext
    PROVE  WkGood(Wa!Now)'
<1>1. CASE \E r \in Requests : Wa!Ask(r)
  BY <1>1, WkAsk
<1>2. CASE \E b \in BOOLEAN : Wa!SetSpeed(b)
  BY <1>2, WkSpeed
<1>3. CASE \E b \in BOOLEAN : Wa!SetMovementBlocked(b)
  BY <1>3, WkBlocked
<1>4. CASE Wa!ExpireWalk \/ Wa!ExpireStray
  BY <1>4, WkExpireWalk
<1>5. CASE Wa!ExpireAction \/ Wa!ExpireWalkTask
  BY <1>5, WkExpireAction, WkExpireTask
<1>6. CASE Wa!RunPosted
  BY <1>6, WkRuns
<1> QED BY <1>1, <1>2, <1>3, <1>4, <1>5, <1>6, WkOther DEF Wa!WalkNext

\* Nothing walks when the player appears.
LEMMA WkInit ==
    ASSUME Wa!WalkInit
    PROVE  WkGood(Wa!Now)
<1>1. /\ click = [list |-> 0, event |-> "none", strays |-> 0, cancel |-> FALSE]
      /\ walkTasks = [walkTask |-> None, walkEvent |-> None, action |-> None]
      /\ posted = <<>> /\ stranded = {}
      /\ body = [blocked |-> FALSE, halted |-> FALSE]
      /\ asked = [r \in Requests |-> [sent |-> FALSE, done |-> 0]]
  BY DEF Wa!WalkInit
<1> DEFINE s == Wa!Now
<1>2. /\ s.walk = click /\ s.tasks = walkTasks /\ s.posted = posted /\ s.body = body /\ s.asked = asked /\ s.stranded = stranded
      /\ s = [walk |-> click, tasks |-> walkTasks, posted |-> posted, body |-> body, asked |-> asked, stranded |-> stranded]
  BY DEF Wa!Now
<1>3. s \in WkStates
  <2>1. click \in WkWalks /\ walkTasks \in WkTasks /\ body \in WkBodies /\ stranded \in SUBSET {"walk", "task"}
    BY <1>1 DEF WkWalks, WkEvents, WkTasks, WkWaiting, WkBodies
  <2>2. posted \in Seq(WkItems) /\ asked \in WkAsked
    BY <1>1 DEF WkAsked
  <2> QED BY <1>2, <2>1, <2>2 DEF WkStates
<1>4. Len(posted) = 0
  BY <1>1
<1> HIDE DEF s
<1>5. WkSpent(s) /\ WkSteps(s) /\ WkKept(s)
  BY <1>1, <1>2 DEF WkSpent, WkSteps, WkKept
<1>6. ASSUME NEW q \in Requests PROVE WkSingle(s, q)
  <2>1. q # None
    BY <1>6, WalkAssumption
  <2>2. Away(s, q)
    BY <1>1, <1>2, <2>1 DEF Away
  <2>3. 1..Len(s.posted) = {}
    BY <1>2, <1>4
  <2>4. s.asked[q].done = 0 /\ s.asked[q].done \in 0..1
    BY <1>1, <1>2
  <2> QED BY <2>2, <2>3, <2>4 DEF WkSingle, Put, Away
<1> QED BY <1>3, <1>5, <1>6 DEF WkGood, WkOnce, s

\* A request is in at most one place.
LEMMA WkCounted ==
    ASSUME WkGood(Wa!Now)
    PROVE  Wa!ServedOnce
<1> DEFINE s == Wa!Now
<1>1. /\ s.walk = click /\ s.tasks = walkTasks /\ s.posted = posted /\ s.asked = asked
      /\ s \in WkStates /\ WkOnce(s)
  BY DEF Wa!Now, WkGood
<1> HIDE DEF s
<1> SUFFICES ASSUME NEW r \in Requests PROVE asked[r].done + Wa!Copies(r) <= 1
  BY DEF Wa!ServedOnce
<1> DEFINE C == {k \in DOMAIN posted : posted[k].kind = "task" /\ posted[k].what = r}
           Here(q) == IF q = r THEN 1 ELSE 0
<1>7. Wa!Copies(r) = Here(walkTasks.walkTask) + Here(walkTasks.walkEvent) + Here(walkTasks.action) + Cardinality(C)
  <2>1. Wa!Cardinality(C) = Cardinality(C)
    BY DEF Wa!Cardinality, Cardinality
  <2>2. Wa!Copies(r) = Here(walkTasks.walkTask) + Here(walkTasks.walkEvent) + Here(walkTasks.action) + Wa!Cardinality(C)
    BY DEF Wa!Copies
  <2> HIDE DEF C, Here
  <2> QED BY <2>1, <2>2
<1>2. WkSingle(s, r)
  BY <1>1 DEF WkOnce
<1>3. posted \in Seq(WkItems) /\ DOMAIN posted = 1..Len(posted)
  BY <1>1 DEF WkStates
<1>4. \A k \in DOMAIN posted : k \in C <=> At(s, r, k)
  BY <1>1 DEF At
<1>5. CASE ~Put(s, r)
  <2>1. C = {}
    BY <1>1, <1>3, <1>4, <1>5 DEF Put
  <2>2. Cardinality(C) = 0
    BY <2>1, FS_EmptySet
  <2>3. CASE asked[r].done = 1
    <3>1. Here(walkTasks.walkTask) = 0 /\ Here(walkTasks.walkEvent) = 0 /\ Here(walkTasks.action) = 0
      BY <1>1, <1>2, <2>3 DEF WkSingle, Away
    <3> HIDE DEF C, Here
    <3> QED BY <1>7, <2>2, <2>3, <3>1
  <2>4. CASE asked[r].done # 1
    <3>1. asked[r].done = 0
      BY <1>1, <1>2, <2>4 DEF WkSingle
    <3>2. \/ Here(walkTasks.walkTask) = 1 /\ Here(walkTasks.walkEvent) = 0 /\ Here(walkTasks.action) = 0
          \/ Here(walkTasks.walkTask) = 0 /\ Here(walkTasks.walkEvent) = 1 /\ Here(walkTasks.action) = 0
          \/ Here(walkTasks.walkTask) = 0 /\ Here(walkTasks.walkEvent) = 0 /\ Here(walkTasks.action) \in 0..1
      BY <1>1, <1>2 DEF WkSingle
    <3> HIDE DEF C, Here
    <3> QED BY <1>7, <2>2, <3>1, <3>2
  <2> QED BY <2>3, <2>4
<1>6. CASE Put(s, r)
  <2>1. PICK k \in DOMAIN posted : At(s, r, k)
    BY <1>1, <1>3, <1>6 DEF Put
  <2>2. C = {k}
    BY <1>1, <1>2, <1>3, <1>4, <2>1 DEF WkSingle
  <2>3. Cardinality(C) = 1
    BY <2>2, FS_Singleton
  <2>4. /\ walkTasks.walkTask # r /\ walkTasks.walkEvent # r /\ walkTasks.action # r
        /\ asked[r].done = 0
    BY <1>1, <1>2, <1>6 DEF WkSingle, Away
  <2>5. Here(walkTasks.walkTask) = 0 /\ Here(walkTasks.walkEvent) = 0 /\ Here(walkTasks.action) = 0
    BY <2>4
  <2> HIDE DEF C, Here
  <2> QED BY <1>7, <2>3, <2>4, <2>5
<1> QED BY <1>5, <1>6

\* What the strengthened invariant says of the walk and of what waits for it
LEMMA WkServes ==
    ASSUME WkGood(Wa!Now)
    PROVE  Wa!WalkGoesOn /\ Wa!WalkTaskServed
<1> DEFINE s == Wa!Now
<1>1. /\ s.walk = click /\ s.tasks = walkTasks /\ s.posted = posted /\ s.body = body /\ s.stranded = stranded
      /\ s \in WkStates /\ WkSpent(s) /\ WkSteps(s) /\ WkKept(s)
  BY DEF Wa!Now, WkGood
<1> HIDE DEF s
<1>2. DOMAIN posted = 1..Len(posted) /\ click.event \in WkEvents
  BY <1>1 DEF WkStates, WkWalks
<1>3. \A kind : Queued(s, kind) => \E k \in DOMAIN posted : posted[k].kind = kind
  BY <1>1, <1>2 DEF Queued
<1>4. click.event # "none" => Wa!WalkComes
  BY <1>1, <1>2, <1>3 DEF Wa!WalkComes, WkSpent, WkEvents
<1>5. Wa!WalkGoesOn
  BY <1>1, <1>4 DEF Wa!WalkGoesOn, WkSteps
<1>6. Wa!WalkTaskServed
  BY <1>1, <1>3, <1>4 DEF Wa!WalkTaskServed, WkKept
<1> QED BY <1>5, <1>6

\* Creature::onWalk, Player::setNextWalkActionTask and setNextActionTask: a walk with steps left
\* has an event to come, a request kept for its end has a walk that goes on or a path to come,
\* and a request is never carried out twice and never waits in two places.
THEOREM WalksServed == Spec => []WalkServed
<1>1. Init => WkGood(Wa!Now)
  <2>1. Init => Wa!WalkInit
    BY DEF Init
  <2> QED BY <2>1, WkInit
<1>2. WkGood(Wa!Now) /\ [Next]_vars => WkGood(Wa!Now)'
  <2> SUFFICES ASSUME WkGood(Wa!Now), [Next]_vars PROVE WkGood(Wa!Now)'
    OBVIOUS
  <2>1. CASE UNCHANGED walkVars
    <3>1. (Wa!Now)' = Wa!Now
      BY <2>1 DEF walkVars, Wa!Now
    <3> QED BY <3>1
  <2>2. CASE Wa!WalkNext
    BY <2>2, WkNext
  <2>3. UNCHANGED walkVars \/ Wa!WalkNext
    <3>1. UNCHANGED vars => UNCHANGED walkVars
      BY DEF vars
    <3>2. \A part : Only(part) /\ part # "walk" => UNCHANGED walkVars
      BY DEF Only
    <3>3. Next => \/ Wa!WalkNext \/ Only("creatures") \/ Only("conditions") \/ Only("tile") \/ Only("decay")
                  \/ Only("combat") \/ Only("hunting") \/ Only("steps") \/ Only("paths") \/ Only("map cache")
      BY DEF Next
    <3> QED BY <3>1, <3>2, <3>3
  <2> QED BY <2>1, <2>2, <2>3
<1>3. WkGood(Wa!Now) => WalkServed
  BY WkCounted, WkServes DEF WalkServed, Of
<1> QED BY <1>1, <1>2, <1>3, PTL DEF Spec

-----------------------------------------------------------------------------
(* The challenge of a monster                                               *)

HnFields == {"target", "path", "updating", "toSpawn", "weak", "attackTicks", "defenseTicks",
             "cooldown", "changeTicks", "focus", "posted"}
HnShape(s) ==
    /\ DOMAIN s = {"h", "l", "v"} /\ DOMAIN s.h = HnFields /\ DOMAIN s.v = {"who", "left"}
    /\ s.h.focus \in Int /\ s.h.cooldown \in Int /\ s.h.changeTicks \in Int /\ s.v.left \in Int

\* As long as it must go on with its challenger it neither flees nor looks for another one,
\* for what is left of both terms is as long as that.
HnVow(s, left) ==
    s.v.who # None =>
        /\ s.h.target = s.v.who /\ s.v.left >= 1
        /\ s.h.focus >= left * Interval /\ s.h.cooldown >= left * Interval

HnGood(s) == HnShape(s) /\ HnVow(s, s.v.left)
\* In the middle of a thought the terms are one interval longer than what it must go on.
HnMiddle(s) == HnShape(s) /\ HnVow(s, s.v.left + 1)

HnSame(s, t) == t.v = s.v /\ t.h.focus = s.h.focus /\ t.h.cooldown = s.h.cooldown

\* Taking a target keeps the challenge and the terms.
LEMMA HnSelect ==
    ASSUME NEW s, HnShape(s), NEW c
    PROVE  LET t == Hu!selectTarget(s, c) IN HnShape(t) /\ HnSame(s, t) /\ t.h.target = c
<1> DEFINE r == Hu!setFollowCreature(s, c)
           t == Hu!selectTarget(s, c)
<1>1. HnShape(r) /\ HnSame(s, r) /\ r.h.target = c
  <2>1. CASE s.h.target = c
    BY <2>1 DEF Hu!setFollowCreature, HnShape, HnSame
  <2>2. CASE s.h.target # c
    <3>1. r = [s EXCEPT !.h = [s.h EXCEPT !.target = c, !.path = FALSE, !.updating = c # None]]
      BY <2>2 DEF Hu!setFollowCreature
    <3>2. r.h = [s.h EXCEPT !.target = c, !.path = FALSE, !.updating = c # None] /\ r.v = s.v
          /\ DOMAIN r = DOMAIN s
      BY <3>1 DEF HnShape
    <3> HIDE DEF r
    <3> QED BY <3>2 DEF HnShape, HnSame, HnFields
  <2> QED BY <2>1, <2>2
<1> HIDE DEF r
<1>2. t = [r EXCEPT !.h = [r.h EXCEPT !.posted = IF @ < MaxAttacks THEN @ + 1 ELSE @]]
  BY DEF Hu!selectTarget, r
<1> HIDE DEF t
<1>3. t.h = [r.h EXCEPT !.posted = IF @ < MaxAttacks THEN @ + 1 ELSE @] /\ t.v = r.v /\ DOMAIN t = DOMAIN r
  BY <1>1, <1>2 DEF HnShape
<1>4. HnShape(t) /\ HnSame(s, t) /\ t.h.target = c
  BY <1>1, <1>3 DEF HnShape, HnSame, HnFields
<1> QED BY <1>4 DEF t

\* Monster::searchTarget leaves all as it is, or takes a target.
LEMMA HnSearchTarget ==
    ASSUME NEW s, NEW type \in {"nearest", "random", "attackrange", "default"}, NEW fair, NEW inReach
    PROVE  \A t \in Hu!searchTarget(s, type, fair, inReach) : t = s \/ \E c : t = Hu!selectTarget(s, c)
<1> DEFINE good == Hu!ToSet(s.l) \cap fair
           result == {c \in good \ {s.h.target} : type = "random" \/ c \in inReach}
           others == Hu!SelectSeq(s.l, LAMBDA c : c \in good \ {s.h.target})
           first == IF others = <<>> THEN {s} ELSE {Hu!selectTarget(s, others[1])}
           all == Hu!searchTarget(s, type, fair, inReach)
           some(S) == {Hu!selectTarget(s, c) : c \in S}
           Fine(S) == \A t \in S : t = s \/ \E c : t = Hu!selectTarget(s, c)
<1>1. Fine(first) /\ Fine({s}) /\ Fine(some(result)) /\ Fine(some(good))
  <2>1. Fine(some(result)) /\ Fine(some(good)) /\ Fine({s})
    <3> HIDE DEF result, good
    <3> QED OBVIOUS
  <2>2. Fine(first)
    <3> HIDE DEF others
    <3> QED OBVIOUS
  <2> QED BY <2>1, <2>2
<1>2. all = CASE type = "nearest" ->
                   IF result # {} THEN some(result)
                   ELSE IF good # {} THEN some(good) ELSE first
              [] type # "nearest" /\ result # {} -> some(result)
              [] type = "attackrange" /\ result = {} -> {s}
              [] type \in {"random", "default"} /\ result = {} -> first
  BY DEF Hu!searchTarget
<1> HIDE DEF first, result, good, all, some, others
<1>3. all \in {first, {s}, some(result), some(good)}
  <2>1. CASE type = "nearest"
    BY <1>2, <2>1
  <2>2. CASE type # "nearest" /\ result # {}
    BY <1>2, <2>2
  <2>3. CASE type = "attackrange" /\ result = {}
    BY <1>2, <2>3
  <2>4. CASE type \in {"random", "default"} /\ result = {}
    BY <1>2, <2>4
  <2> QED BY <2>1, <2>2, <2>3, <2>4
<1>4. Fine(all)
  BY <1>1, <1>3
<1> QED BY <1>4 DEF all

\* At the beginning of a thought one of those it must still make is counted.
LEMMA HnKeeps ==
    ASSUME NEW s, HnGood(s)
    PROVE  HnMiddle(Hu!Keeps(s))
<1> DEFINE t == Hu!Keeps(s)
<1> USE HuntAssumption
<1>1. CASE s.v.left = 0
  <2>1. t = s /\ s.v.who = None
    BY <1>1 DEF Hu!Keeps, HnGood, HnVow
  <2> QED BY <2>1 DEF HnGood, HnMiddle, HnVow
<1>2. CASE s.v.left = 1
  <2>1. t = [s EXCEPT !.v = [who |-> None, left |-> 0]]
    BY <1>2 DEF Hu!Keeps, Hu!NoVow
  <2>2. DOMAIN t = DOMAIN s /\ t.h = s.h /\ t.v = [who |-> None, left |-> 0]
    BY <2>1 DEF HnGood, HnShape
  <2> HIDE DEF t
  <2>3. t.v.who = None /\ t.v.left = 0 /\ DOMAIN t.v = {"who", "left"}
    BY <2>2
  <2>4. HnShape(t)
    BY <2>2, <2>3 DEF HnGood, HnShape
  <2>5. HnMiddle(t)
    BY <2>3, <2>4 DEF HnMiddle, HnVow
  <2> QED BY <2>5 DEF t
<1>3. CASE s.v.left \notin {0, 1}
  <2>1. t = [s EXCEPT !.v = [who |-> s.v.who, left |-> s.v.left - 1]]
    BY <1>3 DEF Hu!Keeps
  <2>2. DOMAIN t = DOMAIN s /\ t.h = s.h /\ t.v = [who |-> s.v.who, left |-> s.v.left - 1]
    BY <2>1 DEF HnGood, HnShape
  <2> HIDE DEF t
  <2>3. t.v.who = s.v.who /\ t.v.left = s.v.left - 1 /\ DOMAIN t.v = {"who", "left"}
    BY <2>2
  <2>4. HnShape(t)
    BY <2>2, <2>3 DEF HnGood, HnShape
  <2>5. HnVow(t, t.v.left + 1)
    <3>1. t.v.left + 1 = s.v.left
      BY <2>3 DEF HnGood, HnShape
    <3>2. s.v.left >= 1 => t.v.left >= 1
      BY <1>3, <2>3 DEF HnGood, HnShape
    <3> QED BY <2>2, <2>3, <3>1, <3>2 DEF HnGood, HnVow
  <2> QED BY <2>4, <2>5 DEF HnMiddle, t
<1> QED BY <1>1, <1>2, <1>3

\* The one that is followed is lost sight of, or the way is to be searched again.
LEMMA HnUpdate ==
    ASSUME NEW s, HnMiddle(s), NEW news
    PROVE  HnMiddle(Hu!Update(s, news))
<1> DEFINE t == Hu!Update(s, news)
           l == Hu!SelectSeq(s.l, LAMBDA x : x # s.h.target)
<1>1. CASE news = "lost"
  <2> DEFINE h == [s.h EXCEPT !.target = None, !.path = FALSE, !.updating = FALSE]
             v == IF s.v.who = s.h.target THEN [who |-> None, left |-> 0] ELSE s.v
  <2>1. t = [s EXCEPT !.l = l, !.h = h, !.v = v]
    BY <1>1 DEF Hu!Update, Hu!NoVow
  <2> HIDE DEF l, t
  <2>2. DOMAIN t = DOMAIN s /\ t.h = h /\ t.v = v
    BY <2>1 DEF HnMiddle, HnShape
  <2>3. h.focus = s.h.focus /\ h.cooldown = s.h.cooldown /\ h.changeTicks = s.h.changeTicks /\ DOMAIN h = DOMAIN s.h
    BY DEF HnMiddle, HnShape, HnFields
  <2>4. v.who = None /\ v.left \in Int /\ DOMAIN v = {"who", "left"}
    <3>1. CASE s.v.who = s.h.target
      BY <3>1
    <3>2. CASE s.v.who # s.h.target
      BY <3>2 DEF HnMiddle, HnShape, HnVow
    <3> QED BY <3>1, <3>2
  <2> HIDE DEF h, v
  <2>5. HnShape(t) /\ t.v.who = None
    BY <2>2, <2>3, <2>4 DEF HnMiddle, HnShape
  <2> QED BY <2>5 DEF t, HnMiddle, HnVow
<1>2. CASE news # "lost"
  <2> DEFINE h == [s.h EXCEPT !.updating = @ \/ news = "again"]
  <2>1. t = [s EXCEPT !.h = h]
    BY <1>2 DEF Hu!Update
  <2> HIDE DEF t
  <2>2. DOMAIN t = DOMAIN s /\ t.h = h /\ t.v = s.v
    BY <2>1 DEF HnMiddle, HnShape
  <2>3. /\ h.focus = s.h.focus /\ h.cooldown = s.h.cooldown /\ h.changeTicks = s.h.changeTicks
        /\ h.target = s.h.target /\ DOMAIN h = DOMAIN s.h
    BY DEF HnMiddle, HnShape, HnFields
  <2> HIDE DEF h
  <2>4. HnShape(t) /\ HnVow(t, t.v.left + 1)
    BY <2>2, <2>3 DEF HnMiddle, HnShape, HnVow
  <2> QED BY <2>4 DEF t, HnMiddle
<1> QED BY <1>1, <1>2

\* A search for the way.
LEMMA HnUpdatePath ==
    ASSUME NEW s, HnMiddle(s)
    PROVE  \A t \in Hu!UpdatePath(s) : HnMiddle(t)
<1>1. ASSUME NEW t, HnMiddle(t)
      PROVE  HnMiddle(Hu!onFollowCreatureComplete(t))
  <2> DEFINE u == Hu!onFollowCreatureComplete(t)
  <2>1. u = t \/ \E l : u = [t EXCEPT !.l = l]
    BY DEF Hu!onFollowCreatureComplete
  <2>2. CASE u = t
    BY <1>1, <2>2
  <2>3. CASE \E l : u = [t EXCEPT !.l = l]
    <3>1. DOMAIN u = DOMAIN t /\ u.h = t.h /\ u.v = t.v
      BY <1>1, <2>3 DEF HnMiddle, HnShape
    <3> HIDE DEF u
    <3>2. HnMiddle(u)
      BY <1>1, <3>1 DEF HnMiddle, HnShape, HnVow
    <3> QED BY <3>2 DEF u
  <2> QED BY <2>1, <2>2, <2>3
<1>2. ASSUME NEW found \in BOOLEAN
      PROVE  HnMiddle([s EXCEPT !.h.path = found, !.h.updating = FALSE])
  <2> DEFINE h == [s.h EXCEPT !.path = found, !.updating = FALSE]
             t == [s EXCEPT !.h.path = found, !.h.updating = FALSE]
  <2>1. DOMAIN t = DOMAIN s /\ t.h = h /\ t.v = s.v
    BY DEF HnMiddle, HnShape
  <2>2. /\ h.focus = s.h.focus /\ h.cooldown = s.h.cooldown /\ h.changeTicks = s.h.changeTicks
        /\ h.target = s.h.target /\ DOMAIN h = DOMAIN s.h
    BY DEF HnMiddle, HnShape, HnFields
  <2> HIDE DEF h, t
  <2>3. HnShape(t) /\ HnVow(t, t.v.left + 1)
    BY <2>1, <2>2 DEF HnMiddle, HnShape, HnVow
  <2> QED BY <2>3 DEF t, HnMiddle
<1>3. ASSUME NEW t \in Hu!UpdatePath(s)
      PROVE  \/ t = s
             \/ \E found \in BOOLEAN :
                    LET r == [s EXCEPT !.h.path = found, !.h.updating = FALSE]
                    IN  t = r \/ t = Hu!onFollowCreatureComplete(r)
  BY <1>3 DEF Hu!UpdatePath
<1> QED BY <1>1, <1>2, <1>3

\* Who goes on with a challenge does not flee, and is released by a search for want of a way.
LEMMA HnSearch ==
    ASSUME NEW s, HnMiddle(s), NEW fair, NEW inReach
    PROVE  \A t \in Hu!Search(s, fair, inReach) : HnMiddle(t)
<1>1. ASSUME NEW t, t = s \/ \E c : t = Hu!selectTarget(s, c)
      PROVE  HnShape(t) /\ HnSame(s, t)
  <2>1. CASE t = s
    BY <2>1 DEF HnMiddle, HnSame
  <2>2. CASE \E c : t = Hu!selectTarget(s, c)
    BY <2>2, HnSelect DEF HnMiddle
  <2> QED BY <1>1, <2>1, <2>2
<1>2. ASSUME NEW t, t = s \/ \E c : t = Hu!selectTarget(s, c)
      PROVE  HnMiddle([t EXCEPT !.v = IF t.h.target = s.h.target THEN t.v ELSE Hu!NoVow])
  <2> DEFINE u == [t EXCEPT !.v = IF t.h.target = s.h.target THEN t.v ELSE Hu!NoVow]
  <2>1. HnShape(t) /\ HnSame(s, t)
    BY <1>1, <1>2
  <2>2. DOMAIN u = DOMAIN t /\ u.h = t.h /\ u.v = IF t.h.target = s.h.target THEN t.v ELSE [who |-> None, left |-> 0]
    BY <2>1 DEF HnShape, Hu!NoVow
  <2> HIDE DEF u
  <2>3. CASE t.h.target = s.h.target
    <3>1. u.v = s.v /\ u.h.target = s.h.target /\ u.h.focus = s.h.focus /\ u.h.cooldown = s.h.cooldown
      BY <2>1, <2>2, <2>3 DEF HnSame
    <3>2. HnShape(u)
      BY <2>1, <2>2, <2>3 DEF HnShape
    <3>3. HnVow(u, u.v.left + 1)
      BY <3>1 DEF HnMiddle, HnVow
    <3> QED BY <3>2, <3>3 DEF HnMiddle, u
  <2>4. CASE t.h.target # s.h.target
    <3>1. u.v.who = None /\ u.v.left = 0 /\ DOMAIN u.v = {"who", "left"}
      BY <2>2, <2>4
    <3>2. HnShape(u)
      BY <2>1, <2>2, <3>1 DEF HnShape
    <3> QED BY <3>1, <3>2 DEF HnMiddle, HnVow, u
  <2> QED BY <2>3, <2>4
<1>3. ASSUME NEW t \in Hu!searchTarget(s, "attackrange", fair, inReach), Hu!isFleeing(s.h)
      PROVE  HnMiddle(t)
  <2>1. t = s \/ \E c : t = Hu!selectTarget(s, c)
    BY HnSearchTarget
  <2>2. HnShape(t) /\ HnSame(s, t)
    BY <1>1, <2>1
  <2>3. s.v.who = None
    <3> SUFFICES ASSUME s.v.who # None
                 PROVE  FALSE
        OBVIOUS
    <3>1. /\ s.v.left \in Int /\ s.v.left >= 1 /\ s.h.focus \in Int
          /\ s.h.focus >= (s.v.left + 1) * Interval /\ s.h.focus <= 0
      BY <1>3 DEF HnMiddle, HnVow, HnShape, Hu!isFleeing
    <3>2. \A n \in Int : n >= 1 => (n + 1) * Interval > 0
      BY HuntAssumption
    <3>3. (s.v.left + 1) * Interval > 0 /\ (s.v.left + 1) * Interval \in Int
      BY <3>1, <3>2, HuntAssumption
    <3> QED BY <3>1, <3>3
  <2> QED BY <2>2, <2>3 DEF HnMiddle, HnVow, HnSame
<1>4. ASSUME NEW t \in Hu!Search(s, fair, inReach)
      PROVE  \/ t = s
             \/ \E r \in Hu!searchTarget(s, "default", fair, inReach) :
                    t = [r EXCEPT !.v = IF r.h.target = s.h.target THEN r.v ELSE Hu!NoVow]
             \/ Hu!isFleeing(s.h) /\ t \in Hu!searchTarget(s, "attackrange", fair, inReach)
  BY <1>4 DEF Hu!Search
<1>5. \A r \in Hu!searchTarget(s, "default", fair, inReach) : r = s \/ \E c : r = Hu!selectTarget(s, c)
  BY HnSearchTarget
<1> QED BY <1>2, <1>3, <1>4, <1>5

\* Monster::onThinkTarget: who goes on with a challenge changes no target.
LEMMA HnThinkTarget ==
    ASSUME NEW s, HnMiddle(s), NEW chance \in BOOLEAN, NEW fair, NEW inReach
    PROVE  \A t \in Hu!onThinkTarget(s, chance, fair, inReach) : HnGood(t)
<1> DEFINE left == Hu!AtLeastZero(s.h.cooldown - Interval)
           term == Hu!AtLeastZero(s.h.focus - Interval)
           changed == IF s.h.cooldown > 0 /\ left = 0 THEN ChangeSpeed ELSE s.h.changeTicks
           h1 == [s.h EXCEPT !.focus = term, !.cooldown = left, !.changeTicks = changed]
           s1 == [s EXCEPT !.h = h1]
           ticks == s1.h.changeTicks + Interval
           h2 == [h1 EXCEPT !.changeTicks = ticks]
           s2 == [s1 EXCEPT !.h = h2]
           h3 == [h1 EXCEPT !.changeTicks = 0, !.cooldown = ChangeSpeed, !.focus = 0]
           s3 == [s1 EXCEPT !.h = h3]
           kind == IF TargetDistance <= 1 THEN "random" ELSE "nearest"
<1> USE HuntAssumption
<1>1. /\ s.h.cooldown \in Int /\ s.h.focus \in Int /\ s.h.changeTicks \in Int /\ s.v.left \in Int
      /\ HnShape(s) /\ HnVow(s, s.v.left + 1)
  BY DEF HnMiddle, HnShape
<1>2. /\ left \in Int /\ left >= s.h.cooldown - Interval /\ (left = 0 => s.h.cooldown <= Interval)
      /\ term \in Int /\ term >= s.h.focus - Interval
      /\ changed \in Int
  BY <1>1 DEF Hu!AtLeastZero
<1>3. \A n \in Int : (n + 1) * Interval = n * Interval + Interval /\ n * Interval \in Int
  OBVIOUS
<1> HIDE DEF left, term, changed
<1>4. ASSUME NEW h, DOMAIN h = HnFields, h.focus \in Int, h.cooldown \in Int, h.changeTicks \in Int
      PROVE  HnShape([s EXCEPT !.h = h]) /\ [s EXCEPT !.h = h].h = h /\ [s EXCEPT !.h = h].v = s.v
  <2> DEFINE r == [s EXCEPT !.h = h]
  <2>1. DOMAIN r = DOMAIN s /\ r.h = h /\ r.v = s.v
    BY <1>1 DEF HnShape
  <2> HIDE DEF r
  <2>2. HnShape(r)
    BY <1>1, <1>4, <2>1 DEF HnShape
  <2> QED BY <2>1, <2>2 DEF r
<1>5. DOMAIN h1 = HnFields /\ h1.focus = term /\ h1.cooldown = left /\ h1.changeTicks = changed /\ h1.target = s.h.target
  BY <1>1 DEF HnShape, HnFields
<1> HIDE DEF h1
<1>6. HnShape(s1) /\ s1.h = h1 /\ s1.v = s.v
  BY <1>2, <1>4, <1>5
<1>7. HnGood(s1)
  <2> SUFFICES ASSUME s.v.who # None
               PROVE  /\ s.h.target = s.v.who /\ s.v.left >= 1
                      /\ term >= s.v.left * Interval /\ left >= s.v.left * Interval
      BY <1>5, <1>6 DEF HnGood, HnVow
  <2>1. /\ s.h.target = s.v.who /\ s.v.left >= 1
        /\ s.h.focus >= (s.v.left + 1) * Interval /\ s.h.cooldown >= (s.v.left + 1) * Interval
    BY <1>1 DEF HnVow
  <2>2. (s.v.left + 1) * Interval = s.v.left * Interval + Interval /\ s.v.left * Interval \in Int
    BY <1>1, <1>3
  <2> QED BY <1>1, <1>2, <2>1, <2>2
<1>8. left = 0 => s.v.who = None
  <2> SUFFICES ASSUME left = 0, s.v.who # None
               PROVE  FALSE
      OBVIOUS
  <2>1. s.v.left >= 1 /\ s.h.cooldown >= (s.v.left + 1) * Interval /\ s.h.cooldown <= Interval
    BY <1>1, <1>2 DEF HnVow
  <2>2. \A n \in Int : n >= 1 => (n + 1) * Interval > Interval
    BY <1>3
  <2>3. (s.v.left + 1) * Interval \in Int /\ (s.v.left + 1) * Interval > Interval
    BY <1>1, <2>1, <2>2
  <2> QED BY <1>1, <2>1, <2>3
<1>9. ASSUME NEW h, DOMAIN h = HnFields, h.focus \in Int, h.cooldown \in Int, h.changeTicks \in Int, left = 0
      PROVE  HnShape([s1 EXCEPT !.h = h]) /\ [s1 EXCEPT !.h = h].v.who = None
  <2> DEFINE r == [s1 EXCEPT !.h = h]
  <2>1. DOMAIN r = DOMAIN s1 /\ r.h = h /\ r.v = s1.v
    BY <1>6 DEF HnShape
  <2> HIDE DEF r, s1
  <2>2. HnShape(r)
    BY <1>6, <1>9, <2>1 DEF HnShape
  <2> QED BY <1>6, <1>8, <1>9, <2>1, <2>2 DEF r
<1> HIDE DEF s1
<1>10. left = 0 => HnGood(s2)
  <2>1. ticks \in Int
    BY <1>2, <1>5, <1>6
  <2> HIDE DEF ticks
  <2>2. DOMAIN h2 = HnFields /\ h2.focus = term /\ h2.cooldown = left /\ h2.changeTicks = ticks
    BY <1>5 DEF HnFields
  <2> HIDE DEF h2
  <2> QED BY <1>2, <1>9, <2>1, <2>2 DEF HnGood, HnVow
<1>11. left = 0 => HnShape(s3) /\ s3.v.who = None
  <2>1. DOMAIN h3 = HnFields /\ h3.focus = 0 /\ h3.cooldown = ChangeSpeed /\ h3.changeTicks = 0
    BY <1>5 DEF HnFields
  <2>2. h3.focus \in Int /\ h3.cooldown \in Int /\ h3.changeTicks \in Int
    BY <2>1
  <2> HIDE DEF h3
  <2> QED BY <1>9, <2>1, <2>2
<1>12. ASSUME NEW t \in Hu!searchTarget(s3, kind, fair, inReach), left = 0
       PROVE  HnGood(t)
  <2>1. t = s3 \/ \E c : t = Hu!selectTarget(s3, c)
    BY <1>12, HnSearchTarget
  <2>2. HnShape(s3) /\ s3.v.who = None
    BY <1>11, <1>12
  <2>3. CASE t = s3
    BY <2>2, <2>3 DEF HnGood, HnVow
  <2>4. CASE \E c : t = Hu!selectTarget(s3, c)
    <3> HIDE DEF s3
    <3> QED BY <2>2, <2>4, HnSelect DEF HnGood, HnVow, HnSame
  <2> QED BY <2>1, <2>3, <2>4
<1>13. ASSUME NEW t \in Hu!onThinkTarget(s, chance, fair, inReach)
       PROVE  \/ ChangeSpeed = 0 /\ t = s
              \/ t = s1
              \/ left = 0 /\ (t = s2 \/ t = s3 \/ t \in Hu!searchTarget(s3, kind, fair, inReach))
  <2> DEFINE t1 == [s EXCEPT !.h.focus = Hu!AtLeastZero(@ - Interval), !.h.cooldown = left,
                             !.h.changeTicks = IF s.h.cooldown > 0 /\ left = 0 THEN ChangeSpeed ELSE @]
  <2>2. t1 = s1
    BY <1>1 DEF s1, h1, term, changed, HnShape
  <2>3. [t1 EXCEPT !.h.changeTicks = ticks] = s2
    BY <2>2, <1>6 DEF HnShape
  <2>4. [t1 EXCEPT !.h.changeTicks = 0, !.h.cooldown = ChangeSpeed, !.h.focus = 0] = s3
    BY <2>2, <1>6 DEF HnShape
  <2> HIDE DEF s2, s3
  <2>5. Hu!onThinkTarget(s, chance, fair, inReach) =
            IF ChangeSpeed = 0 THEN {s}
            ELSE IF ~(left = 0) THEN {t1}
            ELSE IF t1.h.changeTicks + Interval < ChangeSpeed
                 THEN {[t1 EXCEPT !.h.changeTicks = t1.h.changeTicks + Interval]}
            ELSE LET u == [t1 EXCEPT !.h.changeTicks = 0, !.h.cooldown = ChangeSpeed, !.h.focus = 0]
                 IN  IF ~chance THEN {u} ELSE Hu!searchTarget(u, kind, fair, inReach)
    BY Zenon DEF Hu!onThinkTarget, left
  <2> HIDE DEF t1
  <2>1. Hu!onThinkTarget(s, chance, fair, inReach) =
            IF ChangeSpeed = 0 THEN {s}
            ELSE IF ~(left = 0) THEN {s1}
            ELSE IF ticks < ChangeSpeed THEN {s2}
            ELSE IF ~chance THEN {s3} ELSE Hu!searchTarget(s3, kind, fair, inReach)
    BY <2>2, <2>3, <2>4, <2>5
  <2> HIDE DEF ticks, kind
  <2> QED BY <1>13, <2>1
<1>14. HnGood(s)
  <2> SUFFICES ASSUME s.v.who # None
               PROVE  HnVow(s, s.v.left)
      BY <1>1 DEF HnGood, HnVow
  <2>1. (s.v.left + 1) * Interval = s.v.left * Interval + Interval /\ s.v.left * Interval \in Int
    BY <1>1, <1>3
  <2> QED BY <1>1, <2>1 DEF HnVow
<1> HIDE DEF s2, s3, kind
<1> QED BY <1>7, <1>10, <1>11, <1>12, <1>13, <1>14 DEF HnGood, HnVow

HnInv == HnGood(Hu!Now)

\* What the state of the monster says, and what it must say after a step.
LEMMA HnFacts ==
    HnInv <=> /\ DOMAIN hunter = HnFields /\ DOMAIN vow = {"who", "left"}
              /\ hunter.focus \in Int /\ hunter.cooldown \in Int /\ hunter.changeTicks \in Int /\ vow.left \in Int
              /\ vow.who # None => /\ hunter.target = vow.who /\ vow.left >= 1
                                   /\ hunter.focus >= vow.left * Interval
                                   /\ hunter.cooldown >= vow.left * Interval
BY DEF HnInv, HnGood, HnShape, HnVow, Hu!Now

\* The new state is one with what is left alone, or without a challenge.
LEMMA HnAfter ==
    ASSUME HnInv, DOMAIN hunter' = HnFields, hunter'.changeTicks \in Int,
           hunter'.focus = hunter.focus, hunter'.cooldown = hunter.cooldown,
           \/ vow' = vow /\ (vow.who # None => hunter'.target = hunter.target)
           \/ vow' = [who |-> None, left |-> 0]
    PROVE  HnInv'
<1>1. /\ DOMAIN hunter = HnFields /\ DOMAIN vow = {"who", "left"}
      /\ hunter.focus \in Int /\ hunter.cooldown \in Int /\ vow.left \in Int
      /\ vow.who # None => /\ hunter.target = vow.who /\ vow.left >= 1
                           /\ hunter.focus >= vow.left * Interval
                           /\ hunter.cooldown >= vow.left * Interval
  BY HnFacts
<1>2. HnShape(Hu!Now)' /\ HnVow(Hu!Now, Hu!Now.v.left)'
  <2>1. CASE vow' = vow /\ (vow.who # None => hunter'.target = hunter.target)
    BY <1>1, <2>1 DEF HnShape, HnVow, Hu!Now
  <2>2. CASE vow' = [who |-> None, left |-> 0]
    <3>1. vow'.who = None /\ vow'.left = 0 /\ DOMAIN vow' = {"who", "left"}
      BY <2>2
    <3> QED BY <1>1, <3>1 DEF HnShape, HnVow, Hu!Now
  <2> QED BY <2>1, <2>2
<1> QED BY <1>2 DEF HnInv, HnGood

\* Monster::onThink
LEMMA HnThink == HnInv /\ Hu!Think => HnInv'
<1> SUFFICES ASSUME HnInv, Hu!Think
             PROVE  HnInv'
    OBVIOUS
<1>1. PICK news \in {"none", "lost", "again"}, chance \in BOOLEAN, fair, inReach \in SUBSET Hu!ToSet(targets),
           K \in SUBSET {k \in DOMAIN summons : Hu!Callable(k, hunter.defenseTicks + Interval)} :
          \E a \in Hu!UpdatePath(Hu!Update(Hu!Keeps(Hu!Now), news)) :
          \E b \in Hu!Search(a, fair, inReach) :
          \E c \in Hu!onThinkTarget(b, chance, fair, inReach) :
             Hu!onThinkDefense(c, K)
  BY DEF Hu!Think
<1>2. HnMiddle(Hu!Update(Hu!Keeps(Hu!Now), news))
  BY HnKeeps, HnUpdate DEF HnInv
<1>3. PICK a : HnMiddle(a) /\ \E b \in Hu!Search(a, fair, inReach) :
          \E c \in Hu!onThinkTarget(b, chance, fair, inReach) : Hu!onThinkDefense(c, K)
  BY <1>1, <1>2, HnUpdatePath
<1>4. PICK b : HnMiddle(b) /\ \E c \in Hu!onThinkTarget(b, chance, fair, inReach) : Hu!onThinkDefense(c, K)
  BY <1>3, HnSearch
<1>5. PICK c : HnGood(c) /\ Hu!onThinkDefense(c, K)
  BY <1>4, HnThinkTarget
<1>6. PICK ticks : /\ hunter' = [c EXCEPT !.h.defenseTicks = ticks].h
                   /\ vow' = [c EXCEPT !.h.defenseTicks = ticks].v
  BY <1>5 DEF Hu!onThinkDefense, Hu!Become
<1>7. hunter' = [c.h EXCEPT !.defenseTicks = ticks] /\ vow' = c.v
  BY <1>5, <1>6 DEF HnGood, HnShape
<1>8. /\ DOMAIN hunter' = HnFields /\ hunter'.focus = c.h.focus /\ hunter'.cooldown = c.h.cooldown
      /\ hunter'.changeTicks = c.h.changeTicks /\ hunter'.target = c.h.target
  BY <1>5, <1>7 DEF HnGood, HnShape, HnFields
<1>9. HnShape(Hu!Now)' /\ HnVow(Hu!Now, Hu!Now.v.left)'
  BY <1>5, <1>7, <1>8 DEF HnGood, HnShape, HnVow, Hu!Now
<1> QED BY <1>9 DEF HnInv, HnGood

\* Monster::doAttacking: a challenge ends with its target.
LEMMA HnAttacking ==
    ASSUME HnInv, NEW interval, Hu!doAttacking(interval)
    PROVE  HnInv'
<1>1. PICK distance \in Hu!Distances, C \in SUBSET Hu!Slots, last \in Hu!Slots \cup {0} :
          LET ticks == hunter.attackTicks + interval
              reached == IF last = 0 THEN Hu!Slots ELSE 1..last
          IN  /\ hunter' = [hunter EXCEPT
                    !.attackTicks = IF interval # 0 /\ \A i \in Hu!Spells \cap reached : AttackSpells[i].speed <= ticks
                                    THEN 0 ELSE ticks,
                    !.posted = IF interval = 0 THEN @ - 1 ELSE @,
                    !.target = IF last = 0 THEN @ ELSE None,
                    !.path = @ /\ last = 0, !.updating = @ /\ last = 0]
              /\ vow' = IF last # 0 /\ vow.who = hunter.target THEN [who |-> None, left |-> 0] ELSE vow
  BY Zenon DEF Hu!doAttacking, Hu!NoVow
<1>2. /\ DOMAIN hunter = HnFields /\ hunter.changeTicks \in Int
      /\ vow.who # None => hunter.target = vow.who
  BY HnFacts
<1>3. /\ DOMAIN hunter' = HnFields /\ hunter'.changeTicks = hunter.changeTicks
      /\ hunter'.focus = hunter.focus /\ hunter'.cooldown = hunter.cooldown
      /\ hunter'.target = IF last = 0 THEN hunter.target ELSE None
  BY <1>1, <1>2 DEF HnFields
<1>4. \/ vow' = vow /\ (vow.who # None => hunter'.target = hunter.target)
      \/ vow' = [who |-> None, left |-> 0]
  BY <1>1, <1>2, <1>3
<1> QED BY <1>2, <1>3, <1>4, HnAfter

\* Monster::challengeCreature begins the terms anew.
LEMMA HnChallenge ==
    ASSUME HnInv, NEW c, Hu!ChallengeCreature(c)
    PROVE  HnInv'
<1> DEFINE s == Hu!selectTarget(Hu!Now, c)
           t == [s EXCEPT !.h.cooldown = Challenge, !.h.focus = Challenge, !.h.changeTicks = 0,
                          !.v = [who |-> c, left |-> Challenge \div Interval]]
<1>1. HnShape(s) /\ s.h.target = c
  BY HnSelect DEF HnInv, HnGood
<1>2. hunter' = t.h /\ vow' = t.v
  BY DEF Hu!ChallengeCreature, Hu!Become
<1> HIDE DEF s
<1>3. /\ t.h = [s.h EXCEPT !.cooldown = Challenge, !.focus = Challenge, !.changeTicks = 0]
      /\ t.v = [who |-> c, left |-> Challenge \div Interval]
  BY <1>1 DEF HnShape
<1> HIDE DEF t
<1>4. /\ DOMAIN hunter' = HnFields /\ hunter'.focus = Challenge /\ hunter'.cooldown = Challenge
      /\ hunter'.changeTicks = 0 /\ hunter'.target = c
  BY <1>1, <1>2, <1>3 DEF HnShape, HnFields
<1>5. vow'.who = c /\ vow'.left = Challenge \div Interval /\ DOMAIN vow' = {"who", "left"}
  BY <1>2, <1>3
<1>6. /\ Challenge \div Interval \in Int /\ Challenge \div Interval >= 1
      /\ Challenge >= (Challenge \div Interval) * Interval
  <2>1. \A n \in Int, k \in Nat \ {0} : n \div k \in Int /\ n >= (n \div k) * k /\ (n >= k => n \div k >= 1)
    OBVIOUS
  <2> QED BY <2>1, HuntAssumption
<1>7. HnShape(Hu!Now)' /\ HnVow(Hu!Now, Hu!Now.v.left)'
  BY <1>4, <1>5, <1>6, HuntAssumption DEF HnShape, HnVow, Hu!Now
<1> QED BY <1>7 DEF HnInv, HnGood

\* Each action of the monster and of those around it.
LEMMA HnStep == (focus = "hunting" => HnInv) /\ [Next]_vars => (focus = "hunting" => HnInv)'
<1> SUFFICES ASSUME focus = "hunting" => HnInv, [Next]_vars, focus' = "hunting"
             PROVE  HnInv'
    OBVIOUS
<1>1. CASE UNCHANGED vars
  BY <1>1 DEF vars, huntVars, HnInv, HnGood, HnShape, HnVow, Hu!Now
<1>2. CASE Next
  <2>1. focus = "hunting" /\ Hu!HuntingNext
    BY <1>2 DEF Next, Only
  <2>2. HnInv
    BY <2>1
  <2>3. ASSUME UNCHANGED vow,
               \/ UNCHANGED hunter
               \/ \E n : hunter' = [hunter EXCEPT !.posted = n]
               \/ \E w : hunter' = [hunter EXCEPT !.weak = w]
               \/ \E t : hunter' = [hunter EXCEPT !.toSpawn = t]
        PROVE  HnInv'
    <3>1. DOMAIN hunter = HnFields /\ hunter.changeTicks \in Int
      BY <2>2, HnFacts
    <3>2. /\ DOMAIN hunter' = HnFields /\ hunter'.changeTicks = hunter.changeTicks
          /\ hunter'.focus = hunter.focus /\ hunter'.cooldown = hunter.cooldown /\ hunter'.target = hunter.target
      BY <2>3, <3>1 DEF HnFields
    <3> QED BY <2>2, <2>3, <3>1, <3>2, HnAfter
  <2>4. CASE Hu!Think
    BY <2>2, <2>4, HnThink
  <2>5. CASE Hu!Attack
    BY <2>2, <2>3, <2>5, HnAttacking DEF Hu!Attack
  <2>6. CASE Hu!Swing
    BY <2>2, <2>3, <2>6, HnAttacking DEF Hu!Swing
  <2>7. CASE Hu!Pass
    BY <2>3, <2>7 DEF Hu!Pass
  <2>8. CASE Hu!ChangeHealth
    BY <2>3, <2>8 DEF Hu!ChangeHealth
  <2>9. CASE Hu!WalkToSpawn
    BY <2>3, <2>9 DEF Hu!WalkToSpawn
  <2>10. CASE Hu!OnWalkComplete
    BY <2>3, <2>10 DEF Hu!OnWalkComplete
  <2>11. CASE Hu!SummonDies
    BY <2>3, <2>11 DEF Hu!SummonDies
  <2>12. ASSUME NEW c \in Prey, Hu!Found(c)
         PROVE  HnInv'
    BY <2>3, <2>12 DEF Hu!Found
  <2>13. ASSUME NEW c \in Prey, Hu!ChallengeCreature(c)
         PROVE  HnInv'
    BY <2>2, <2>13, HnChallenge
  <2> QED BY <2>1, <2>4, <2>5, <2>6, <2>7, <2>8, <2>9, <2>10, <2>11, <2>12, <2>13 DEF Hu!HuntingNext
<1> QED BY <1>1, <1>2

\* Monster::challengeCreature: however weak it becomes, whoever comes and goes, and whatever
\* its speed to change is, a challenged monster goes on with its challenger until the
\* challenge has run out, it loses sight of him or finds no way.
THEOREM ChallengeKept == Spec => []ChallengeHolds
<1>1. Init => (focus = "hunting" => HnInv)
  <2> SUFFICES ASSUME Init
               PROVE  HnInv
      OBVIOUS
  <2>1. /\ hunter = [target |-> None, path |-> FALSE, updating |-> FALSE, toSpawn |-> FALSE, weak |-> FALSE,
                     attackTicks |-> 0, defenseTicks |-> 0, cooldown |-> 0, changeTicks |-> 0, focus |-> 0, posted |-> 0]
        /\ vow = [who |-> None, left |-> 0]
    BY DEF Init, Hu!HuntingInit, Hu!NoVow
  <2>2. /\ DOMAIN hunter = HnFields /\ hunter.focus = 0 /\ hunter.cooldown = 0 /\ hunter.changeTicks = 0
        /\ DOMAIN vow = {"who", "left"} /\ vow.who = None /\ vow.left = 0
    BY <2>1 DEF HnFields
  <2> QED BY <2>2, HnFacts
<1>2. (focus = "hunting" => HnInv) => ChallengeHolds
  BY HnFacts DEF Of, ChallengeHolds, Hu!ChallengeHolds
<1> QED BY <1>1, <1>2, HnStep, PTL DEF Spec

-----------------------------------------------------------------------------
(* The steps of a monster that keeps its distance                           *)

StGood == me \in Field /\ you \in Stands /\ me # you

\* The offset of the monster from what it follows.
StX == me[1] - you[1]
StY == me[2] - you[2]

\* The first set that is not empty, as the code tries them.
LEMMA StFirst4 ==
    ASSUME NEW A, NEW B, NEW C, NEW D
    PROVE  LET F == Hu!FirstOf(<<A, B, C, D>>)
           IN  /\ F \in {A, B, C, D}
               /\ F = A \/ A = {}
               /\ F = {} <=> A = {} /\ B = {} /\ C = {} /\ D = {}
<1> DEFINE s == <<A, B, C, D>>
           First(i) == s[i] # {} /\ \A j \in 1..i - 1 : s[j] = {}
<1>1. DOMAIN s = 1..4 /\ s[1] = A /\ s[2] = B /\ s[3] = C /\ s[4] = D
  OBVIOUS
<1> HIDE DEF s
<1>2. Hu!FirstOf(s) = IF \E i \in 1..4 : s[i] # {} THEN s[CHOOSE i \in 1..4 : First(i)] ELSE {}
  BY <1>1 DEF Hu!FirstOf
<1>3. CASE \E i \in 1..4 : s[i] # {}
  <2>1. \E i \in 1..4 : First(i)
    <3>1. CASE s[1] # {}
      BY <3>1
    <3>2. CASE s[1] = {} /\ s[2] # {}
      <4>1. First(2)
        BY <3>2
      <4> QED BY <4>1
    <3>3. CASE s[1] = {} /\ s[2] = {} /\ s[3] # {}
      <4>1. First(3)
        BY <3>3
      <4> QED BY <4>1
    <3>4. CASE s[1] = {} /\ s[2] = {} /\ s[3] = {} /\ s[4] # {}
      <4>1. First(4)
        BY <3>4
      <4> QED BY <4>1
    <3> QED BY <1>3, <3>1, <3>2, <3>3, <3>4
  <2>2. PICK k \in 1..4 : First(k) /\ Hu!FirstOf(s) = s[k]
    BY <1>2, <1>3, <2>1
  <2>3. k = 1 \/ s[1] = {}
    BY <2>2
  <2>4. k \in {1, 2, 3, 4}
    BY <2>2
  <2>5. Hu!FirstOf(s) # {}
    BY <2>2
  <2> QED BY <1>1, <2>2, <2>3, <2>4, <2>5 DEF s
<1>4. CASE ~\E i \in 1..4 : s[i] # {}
  <2>1. Hu!FirstOf(s) = {}
    BY <1>2, <1>4
  <2>2. s[1] = {} /\ s[2] = {} /\ s[3] = {} /\ s[4] = {}
    BY <1>4
  <2> QED BY <1>1, <2>1, <2>2 DEF s
<1> QED BY <1>3, <1>4

\* Of five choices, with what the last is tried after.
LEMMA StFirst5 ==
    ASSUME NEW A, NEW B, NEW C, NEW D, NEW E
    PROVE  LET F == Hu!FirstOf(<<A, B, C, D, E>>)
           IN  /\ F \in {A, B, C, D, E}
               /\ F \in {A, B, C, D} \/ (A = {} /\ B = {} /\ C = {} /\ D = {})
               /\ F = {} <=> A = {} /\ B = {} /\ C = {} /\ D = {} /\ E = {}
<1> DEFINE s == <<A, B, C, D, E>>
           First(i) == s[i] # {} /\ \A j \in 1..i - 1 : s[j] = {}
<1>1. DOMAIN s = 1..5 /\ s[1] = A /\ s[2] = B /\ s[3] = C /\ s[4] = D /\ s[5] = E
  OBVIOUS
<1> HIDE DEF s
<1>2. Hu!FirstOf(s) = IF \E i \in 1..5 : s[i] # {} THEN s[CHOOSE i \in 1..5 : First(i)] ELSE {}
  BY <1>1 DEF Hu!FirstOf
<1>3. CASE \E i \in 1..5 : s[i] # {}
  <2>1. \E i \in 1..5 : First(i)
    <3>1. CASE s[1] # {}
      BY <3>1
    <3>2. CASE s[1] = {} /\ s[2] # {}
      <4>1. First(2)
        BY <3>2
      <4> QED BY <4>1
    <3>3. CASE s[1] = {} /\ s[2] = {} /\ s[3] # {}
      <4>1. First(3)
        BY <3>3
      <4> QED BY <4>1
    <3>4. CASE s[1] = {} /\ s[2] = {} /\ s[3] = {} /\ s[4] # {}
      <4>1. First(4)
        BY <3>4
      <4> QED BY <4>1
    <3>5. CASE s[1] = {} /\ s[2] = {} /\ s[3] = {} /\ s[4] = {} /\ s[5] # {}
      <4>1. First(5)
        BY <3>5
      <4> QED BY <4>1
    <3> QED BY <1>3, <3>1, <3>2, <3>3, <3>4, <3>5
  <2>2. PICK k \in 1..5 : First(k) /\ Hu!FirstOf(s) = s[k]
    BY <1>2, <1>3, <2>1
  <2>3. k # 5 \/ (s[1] = {} /\ s[2] = {} /\ s[3] = {} /\ s[4] = {})
    BY <2>2
  <2>4. k \in {1, 2, 3, 4, 5}
    BY <2>2
  <2>5. Hu!FirstOf(s) # {}
    BY <2>2
  <2> QED BY <1>1, <2>2, <2>3, <2>4, <2>5 DEF s
<1>4. CASE ~\E i \in 1..5 : s[i] # {}
  <2>1. Hu!FirstOf(s) = {}
    BY <1>2, <1>4
  <2>2. s[1] = {} /\ s[2] = {} /\ s[3] = {} /\ s[4] = {} /\ s[5] = {}
    BY <1>4
  <2> QED BY <1>1, <2>1, <2>2 DEF s
<1> QED BY <1>3, <1>4

\* What the answers of the two kinds of choice have in common.
StOpposite(d) == <<-d[1], -d[2]>>

\* The target is on a diagonal: two straight steps lead away from it.
LEMMA StSlanted ==
    ASSUME NEW h, NEW v, NEW first \in {h, v}, NEW flee \in BOOLEAN
    PROVE  LET F == Hu!Slanted(h, v, first, flee)
           IN  /\ \A d \in F : Hu!Can(d) /\ d \in {h, v, Hu!Plus(h, v), StOpposite(h), StOpposite(v)}
               /\ F = {} => /\ ~Hu!Can(h) /\ ~Hu!Can(v) /\ ~Hu!Can(Hu!Plus(h, v))
                            /\ flee => ~Hu!Can(StOpposite(h)) /\ ~Hu!Can(StOpposite(v))
<1> DEFINE last == IF first = h THEN v ELSE h
           extra(d, o) == IF Hu!Can(StOpposite(d)) /\ Hu!Can(Hu!Plus(StOpposite(d), o)) THEN {StOpposite(d)} ELSE {}
           A == Hu!AnyOf({h, v})
           B == Hu!AnyOf({Hu!Plus(h, v)})
           C == IF flee THEN Hu!AnyOf({StOpposite(h), StOpposite(v)}) ELSE {}
           D == extra(first, last)
           E == extra(last, first)
           F == Hu!Slanted(h, v, first, flee)
<1>1. F = Hu!FirstOf(<<A, B, C, D, E>>)
  BY DEF Hu!Slanted, StOpposite
<1>2. /\ \A d \in A : Hu!Can(d) /\ d \in {h, v}
      /\ \A d \in B : Hu!Can(d) /\ d = Hu!Plus(h, v)
      /\ \A d \in C : Hu!Can(d) /\ d \in {StOpposite(h), StOpposite(v)}
      /\ \A d \in D : Hu!Can(d) /\ d \in {StOpposite(h), StOpposite(v)}
      /\ \A d \in E : Hu!Can(d) /\ d \in {StOpposite(h), StOpposite(v)}
  BY DEF Hu!AnyOf
<1>3. /\ A = {} => ~Hu!Can(h) /\ ~Hu!Can(v)
      /\ B = {} => ~Hu!Can(Hu!Plus(h, v))
      /\ C = {} /\ flee => ~Hu!Can(StOpposite(h)) /\ ~Hu!Can(StOpposite(v))
  BY DEF Hu!AnyOf
<1> HIDE DEF A, B, C, D, E, F
<1>4. F \in {A, B, C, D, E} /\ (F = {} <=> A = {} /\ B = {} /\ C = {} /\ D = {} /\ E = {})
  BY <1>1, StFirst5
<1>5. ASSUME NEW d \in F
      PROVE  Hu!Can(d) /\ d \in {h, v, Hu!Plus(h, v), StOpposite(h), StOpposite(v)}
  BY <1>2, <1>4
<1> QED BY <1>3, <1>4, <1>5 DEF F

\* It is on one side: one straight step leads away, two keep the distance.
LEMMA StSideways ==
    ASSUME NEW away, NEW low, NEW high, NEW a, NEW b, NEW offset \in Int, NEW flee \in BOOLEAN,
           (a = low /\ b = high) \/ (a = high /\ b = low)
    PROVE  LET F == Hu!Sideways(away, low, high, <<a, b>>, offset, flee)
               slants == {Hu!Plus(away, low), Hu!Plus(away, high)}
           IN  /\ \A d \in F : Hu!Can(d)
               /\ \A d \in F : \/ d \in {away, low, high} \cup slants
                               \/ /\ flee /\ d = StOpposite(away)
                                  /\ ~Hu!Can(away) /\ ~Hu!Can(low) /\ ~Hu!Can(high)
               /\ F = {} => /\ ~Hu!Can(away) /\ \A d \in slants : ~Hu!Can(d)
                            /\ offset <= 0 => ~Hu!Can(low)
                            /\ offset >= 0 => ~Hu!Can(high)
                            /\ flee => ~Hu!Can(low) /\ ~Hu!Can(high) /\ ~Hu!Can(StOpposite(away))
<1> DEFINE slant(side) == Hu!Plus(away, side)
           slants == {slant(low), slant(high)}
           both == Hu!AnyOf({slant(low), slant(high)})
           A == Hu!AnyOf({away})
           B == IF offset = 0 THEN Hu!AnyOf({low, high}) ELSE Hu!AnyOf({IF offset < 0 THEN low ELSE high})
           C == IF flee THEN Hu!AnyOf({low, high}) ELSE {}
           T == Hu!FirstOf(<<Hu!AnyOf({a}), Hu!AnyOf({slant(a)}),
                             Hu!AnyOf({b}), Hu!AnyOf({slant(b)})>>)
           D == CASE both = {} -> {}
                  [] Hu!Cardinality(both) = 2 -> both
                  [] OTHER -> T
           E == IF flee THEN Hu!AnyOf({StOpposite(away)}) ELSE {}
           F == Hu!Sideways(away, low, high, <<a, b>>, offset, flee)
<1>1. F = Hu!FirstOf(<<A, B, C, D, E>>)
  BY DEF Hu!Sideways, StOpposite
<1>2. /\ \A d \in A : Hu!Can(d) /\ d = away
      /\ \A d \in B : Hu!Can(d) /\ d \in {low, high}
      /\ \A d \in C : Hu!Can(d) /\ d \in {low, high}
      /\ \A d \in E : Hu!Can(d) /\ d = StOpposite(away) /\ flee
      /\ \A d \in both : Hu!Can(d) /\ d \in slants
  BY DEF Hu!AnyOf
<1>3. /\ A = {} => ~Hu!Can(away)
      /\ B = {} => (offset <= 0 => ~Hu!Can(low)) /\ (offset >= 0 => ~Hu!Can(high))
      /\ C = {} /\ flee => ~Hu!Can(low) /\ ~Hu!Can(high)
      /\ E = {} /\ flee => ~Hu!Can(StOpposite(away))
      /\ both = {} => \A d \in slants : ~Hu!Can(d)
  BY DEF Hu!AnyOf
<1>4. D \in {{}, both, T}
  <2>1. CASE both = {}
    <3>1. Hu!Cardinality(both) = 2 => both \in {{}, both, T}
      OBVIOUS
    <3> QED BY <2>1
  <2>2. CASE both # {} /\ Hu!Cardinality(both) = 2
    BY <2>2
  <2>3. CASE both # {} /\ Hu!Cardinality(both) # 2
    BY <2>3
  <2> QED BY <2>1, <2>2, <2>3
<1>5. both # {} => D \in {both, T}
  <2>1. CASE Hu!Cardinality(both) = 2
    BY <2>1
  <2>2. CASE Hu!Cardinality(both) # 2
    BY <2>2
  <2> QED BY <2>1, <2>2
<1>6. /\ \A d \in T : Hu!Can(d) /\ d \in {low, high} \cup slants
      /\ both # {} => T # {}
  <2> DEFINE T1 == Hu!AnyOf({a})
             T2 == Hu!AnyOf({slant(a)})
             T3 == Hu!AnyOf({b})
             T4 == Hu!AnyOf({slant(b)})
  <2>1. {a, b} = {low, high} /\ {slant(a), slant(b)} = slants
    <3> HIDE DEF slant
    <3>2. slants = {slant(low), slant(high)}
      BY DEF slant
    <3> HIDE DEF slants
    <3>3. CASE a = low /\ b = high
      BY <3>2, <3>3
    <3>4. CASE a = high /\ b = low
      <4>1. \A c, d : {c, d} = {d, c}
        OBVIOUS
      <4> QED BY <3>2, <3>4, <4>1
    <3> QED BY <3>3, <3>4
  <2>2. /\ \A d \in T1 : Hu!Can(d) /\ d = a
        /\ \A d \in T2 : Hu!Can(d) /\ d = slant(a)
        /\ \A d \in T3 : Hu!Can(d) /\ d = b
        /\ \A d \in T4 : Hu!Can(d) /\ d = slant(b)
        /\ T2 = {} => ~Hu!Can(slant(a))
        /\ T4 = {} => ~Hu!Can(slant(b))
    BY DEF Hu!AnyOf
  <2>3. /\ T \in {T1, T2, T3, T4}
        /\ T = {} <=> T1 = {} /\ T2 = {} /\ T3 = {} /\ T4 = {}
    <3> HIDE DEF T1, T2, T3, T4
    <3>1. T = Hu!FirstOf(<<T1, T2, T3, T4>>)
      BY DEF T1, T2, T3, T4
    <3> QED BY <3>1, StFirst4
  <2> HIDE DEF T1, T2, T3, T4, T, slants, both
  <2>4. \A d \in T : Hu!Can(d) /\ d \in {low, high} \cup slants
    BY <2>1, <2>2, <2>3
  <2>5. T = {} => \A d \in slants : ~Hu!Can(d)
    BY <2>1, <2>2, <2>3
  <2>6. both # {} => T # {}
    BY <2>5, <1>2
  <2> QED BY <2>4, <2>6
<1> HIDE DEF A, B, C, D, E, T, F, both, slants
<1>7. /\ F \in {A, B, C, D, E}
      /\ F \in {A, B, C, D} \/ (A = {} /\ B = {} /\ C = {} /\ D = {})
      /\ F = {} <=> A = {} /\ B = {} /\ C = {} /\ D = {} /\ E = {}
  BY <1>1, StFirst5
<1>8. \A d \in D : Hu!Can(d) /\ d \in {low, high} \cup slants
  BY <1>2, <1>4, <1>6
<1>9. D = {} => \A d \in slants : ~Hu!Can(d)
  BY <1>3, <1>5, <1>6
<1>10. ASSUME NEW d \in F
       PROVE  /\ Hu!Can(d)
              /\ \/ d \in {away, low, high} \cup slants
                 \/ /\ flee /\ d = StOpposite(away)
                    /\ ~Hu!Can(away) /\ ~Hu!Can(low) /\ ~Hu!Can(high)
  <2>1. CASE F \in {A, B, C, D}
    BY <2>1, <1>2, <1>8
  <2>2. CASE F = E /\ A = {} /\ B = {} /\ C = {} /\ D = {}
    BY <2>2, <1>2, <1>3
  <2> QED BY <2>1, <2>2, <1>7
<1>11. F = {} => /\ ~Hu!Can(away) /\ \A d \in slants : ~Hu!Can(d)
                 /\ offset <= 0 => ~Hu!Can(low)
                 /\ offset >= 0 => ~Hu!Can(high)
                 /\ flee => ~Hu!Can(low) /\ ~Hu!Can(high) /\ ~Hu!Can(StOpposite(away))
  BY <1>3, <1>7, <1>9
<1> QED BY <1>10, <1>11 DEF F, slants

\* A distance counts the longer of the two sides.
StFar(u, v) == Hu!Further(Hu!Abs(u), Hu!Abs(v))

\* The distance after a step, by the offset.
LEMMA StDistance ==
    ASSUME StGood
    PROVE  /\ StX \in Int /\ StY \in Int /\ ~(StX = 0 /\ StY = 0)
           /\ Hu!Distance(me, you) = StFar(StX, StY)
           /\ \A u, v \in Int : Hu!Distance(Hu!To(me, <<u, v>>), you) = StFar(StX + u, StY + v)
<1>1. me \in Int \X Int /\ you \in Int \X Int /\ me # you
  BY StepsAssumption DEF StGood
<1>2. PICK a \in Int, b \in Int, c \in Int, d \in Int : me = <<a, b>> /\ you = <<c, d>> /\ (a # c \/ b # d)
  BY <1>1
<1>3. StX = a - c /\ StY = b - d
  BY <1>2 DEF StX, StY
<1>4. Hu!Distance(me, you) = StFar(StX, StY)
  BY <1>2, <1>3 DEF Hu!Distance, StFar
<1>5. ASSUME NEW u \in Int, NEW v \in Int
      PROVE  Hu!Distance(Hu!To(me, <<u, v>>), you) = StFar(StX + u, StY + v)
  <2>1. Hu!To(me, <<u, v>>) = <<a + u, b + v>>
    BY <1>2 DEF Hu!To
  <2>2. a + u - c = StX + u /\ b + v - d = StY + v
    BY <1>3
  <2> QED BY <1>2, <2>1, <2>2 DEF Hu!Distance, StFar
<1>6. StX \in Int /\ StY \in Int /\ ~(StX = 0 /\ StY = 0)
  BY <1>2, <1>3
<1> QED BY <1>4, <1>5, <1>6

\* On which side of the target it is, and what is chosen there.
StDiagonal(flee) ==
    \E h \in {Hu!East, Hu!West}, v \in {Hu!South, Hu!North} : \E first \in {h, v} :
        /\ StX = h[1] * Hu!Abs(StX) /\ StY = v[2] * Hu!Abs(StX) /\ StX # 0
        /\ Hu!getDistanceStep(flee) = Hu!Slanted(h, v, first, flee)
StUpright(flee) ==
    \E away \in {Hu!South, Hu!North} :
        /\ Hu!Abs(StX) < Hu!Abs(StY) /\ StY = away[2] * Hu!Abs(StY)
        /\ Hu!getDistanceStep(flee) = Hu!Sideways(away, Hu!West, Hu!East, <<Hu!West, Hu!East>>, StX, flee)
StLevel(flee) ==
    \E away \in {Hu!East, Hu!West} : \E a, b \in {Hu!North, Hu!South} :
        /\ a # b /\ Hu!Abs(StY) < Hu!Abs(StX) /\ StX = away[1] * Hu!Abs(StX)
        /\ Hu!getDistanceStep(flee) = Hu!Sideways(away, Hu!North, Hu!South, <<a, b>>, StY, flee)

\* getDistanceStep asks each of the eight directions once.
LEMMA StArms ==
    ASSUME StGood, NEW flee \in BOOLEAN, ~(~flee /\ Hu!Distance(me, you) = StepDistance)
    PROVE  StDiagonal(flee) \/ StUpright(flee) \/ StLevel(flee)
<1> DEFINE G == Hu!getDistanceStep(flee)
           NW == Hu!PlayerNorthWest(flee)
           SE == Hu!PlayerSouthEast(flee)
           SW == Hu!PlayerSouthWest(flee)
           NE == Hu!PlayerNorthEast(flee)
           PN == Hu!PlayerNorth(flee)
           PS == Hu!PlayerSouth(flee)
           PW == Hu!PlayerWest(flee)
           PE == Hu!PlayerEast(flee)
           c1 == Hu!Abs(StX) = Hu!Abs(StY) /\ StX > 0 /\ StY > 0
           c2 == Hu!Abs(StX) = Hu!Abs(StY) /\ StX < 0 /\ StY < 0
           c3 == Hu!Abs(StX) = Hu!Abs(StY) /\ StX > 0 /\ StY < 0
           c4 == Hu!Abs(StX) = Hu!Abs(StY) /\ StX < 0 /\ StY > 0
           c5 == Hu!Abs(StY) > Hu!Abs(StX) /\ StY > 0
           c6 == Hu!Abs(StY) > Hu!Abs(StX) /\ StY < 0
           c7 == Hu!Abs(StX) > Hu!Abs(StY) /\ StX > 0
           c8 == Hu!Abs(StX) > Hu!Abs(StY) /\ StX < 0
<1>1. StX \in Int /\ StY \in Int /\ ~(StX = 0 /\ StY = 0)
  BY StDistance
<1>2. G = CASE ~flee /\ Hu!Distance(me, you) = StepDistance -> {}
            [] OTHER -> CASE c1 -> NW [] c2 -> SE [] c3 -> SW [] c4 -> NE
                          [] c5 -> PN [] c6 -> PS [] c7 -> PW [] c8 -> PE
  BY DEF Hu!getDistanceStep, StX, StY
<1>3. c1 \/ c2 \/ c3 \/ c4 \/ c5 \/ c6 \/ c7 \/ c8
  BY <1>1 DEF Hu!Abs
<1>4. /\ c1 => ~c2 /\ ~c3 /\ ~c4 /\ ~c5 /\ ~c6 /\ ~c7 /\ ~c8
      /\ c2 => ~c1 /\ ~c3 /\ ~c4 /\ ~c5 /\ ~c6 /\ ~c7 /\ ~c8
      /\ c3 => ~c1 /\ ~c2 /\ ~c4 /\ ~c5 /\ ~c6 /\ ~c7 /\ ~c8
      /\ c4 => ~c1 /\ ~c2 /\ ~c3 /\ ~c5 /\ ~c6 /\ ~c7 /\ ~c8
      /\ c5 => ~c1 /\ ~c2 /\ ~c3 /\ ~c4 /\ ~c6 /\ ~c7 /\ ~c8
      /\ c6 => ~c1 /\ ~c2 /\ ~c3 /\ ~c4 /\ ~c5 /\ ~c7 /\ ~c8
      /\ c7 => ~c1 /\ ~c2 /\ ~c3 /\ ~c4 /\ ~c5 /\ ~c6 /\ ~c8
      /\ c8 => ~c1 /\ ~c2 /\ ~c3 /\ ~c4 /\ ~c5 /\ ~c6 /\ ~c7
  BY <1>1 DEF Hu!Abs
<1>5. /\ c1 => StX = Hu!Abs(StX) /\ StY = Hu!Abs(StX)
      /\ c2 => StX = -Hu!Abs(StX) /\ StY = -Hu!Abs(StX)
      /\ c3 => StX = Hu!Abs(StX) /\ StY = -Hu!Abs(StX)
      /\ c4 => StX = -Hu!Abs(StX) /\ StY = Hu!Abs(StX)
      /\ c5 => StY = Hu!Abs(StY)
      /\ c6 => StY = -Hu!Abs(StY)
      /\ c7 => StX = Hu!Abs(StX)
      /\ c8 => StX = -Hu!Abs(StX)
      /\ c1 \/ c2 \/ c3 \/ c4 => StX # 0
      /\ c5 \/ c6 => Hu!Abs(StX) < Hu!Abs(StY)
      /\ c7 \/ c8 => Hu!Abs(StY) < Hu!Abs(StX)
      /\ Hu!Abs(StX) \in Int /\ Hu!Abs(StY) \in Int
  BY <1>1 DEF Hu!Abs
<1>6. /\ Hu!East[1] = 1 /\ Hu!West[1] = -1 /\ Hu!South[2] = 1 /\ Hu!North[2] = -1
      /\ Hu!North # Hu!South
      /\ \A n \in Int : 1 * n = n /\ (-1) * n = -n
  BY DEF Hu!East, Hu!West, Hu!South, Hu!North
<1> HIDE DEF G, NW, SE, SW, NE, PN, PS, PW, PE, c1, c2, c3, c4, c5, c6, c7, c8
<1>7. /\ c1 => G = NW
      /\ c2 => G = SE
      /\ c3 => G = SW
      /\ c4 => G = NE
      /\ c5 => G = PN
      /\ c6 => G = PS
      /\ c7 => G = PW
      /\ c8 => G = PE
  BY <1>2, <1>4
<1>8. CASE c1
  BY <1>5, <1>6, <1>7, <1>8 DEF G, NW, StDiagonal, Hu!PlayerNorthWest
<1>9. CASE c2
  BY <1>5, <1>6, <1>7, <1>9 DEF G, SE, StDiagonal, Hu!PlayerSouthEast
<1>10. CASE c3
  BY <1>5, <1>6, <1>7, <1>10 DEF G, SW, StDiagonal, Hu!PlayerSouthWest
<1>11. CASE c4
  BY <1>5, <1>6, <1>7, <1>11 DEF G, NE, StDiagonal, Hu!PlayerNorthEast
<1>12. CASE c5
  BY <1>5, <1>6, <1>7, <1>12 DEF G, PN, StUpright, Hu!PlayerNorth, StX
<1>13. CASE c6
  BY <1>5, <1>6, <1>7, <1>13 DEF G, PS, StUpright, Hu!PlayerSouth, StX
<1>14. CASE c7
  BY <1>5, <1>6, <1>7, <1>14 DEF G, PW, StLevel, Hu!PlayerWest, StY
<1>15. CASE c8
  BY <1>5, <1>6, <1>7, <1>15 DEF G, PE, StLevel, Hu!PlayerEast, StY
<1> QED BY <1>3, <1>8, <1>9, <1>10, <1>11, <1>12, <1>13, <1>14, <1>15

\* The opposite of nothing, as the provers need it said.
LEMMA StMinusZero == \A n : n = 0 => -n = 0
<1>1. \A m \in Int : -m = 0 - m
  OBVIOUS
<1>2. \A m \in Int : m = 0 => 0 - m = 0
  OBVIOUS
<1>3. 0 \in Int
  OBVIOUS
<1>4. \A m \in Int : m = 0 => -m = 0
  BY <1>1, <1>2, Zenon
<1> QED BY <1>3, <1>4, Zenon

\* What each step does to the distance, by arithmetic.
LEMMA StMeasure ==
    ASSUME NEW x \in Int, NEW y \in Int
    PROVE  /\ \A i, j \in {1, -1} :
                 /\ Hu!Abs(x) = Hu!Abs(y) /\ (IF i = 1 THEN x > 0 ELSE x < 0) /\ (IF j = 1 THEN y > 0 ELSE y < 0)
                 => /\ \A s \in {<<i, 0>>, <<0, j>>, <<i, j>>, <<-i, 0>>, <<0, -j>>} :
                          StFar(x + s[1], y + s[2]) >= StFar(x, y)
                    /\ StFar(x - i, y) <= StFar(x, y) /\ StFar(x, y - j) <= StFar(x, y)
           /\ \A j \in {1, -1} :
                 /\ Hu!Abs(x) < Hu!Abs(y) /\ (IF j = 1 THEN y > 0 ELSE y < 0)
                 => /\ \A s \in {<<0, j>>, <<1, 0>>, <<-1, 0>>, <<1, j>>, <<-1, j>>} :
                          /\ StFar(x + s[1], y + s[2]) >= StFar(x, y)
                          /\ StFar(y + s[2], x + s[1]) >= StFar(y, x)
                    /\ StFar(x, y - j) < StFar(x, y) /\ StFar(y - j, x) < StFar(y, x)
                    /\ x < 0 => StFar(x + 1, y) <= StFar(x, y) /\ StFar(y, x + 1) <= StFar(y, x)
                    /\ x > 0 => StFar(x - 1, y) <= StFar(x, y) /\ StFar(y, x - 1) <= StFar(y, x)
<1> USE DEF StFar, Hu!Further, Hu!Abs
<1>1. ASSUME NEW i \in {1, -1}, NEW j \in {1, -1},
             Hu!Abs(x) = Hu!Abs(y), IF i = 1 THEN x > 0 ELSE x < 0, IF j = 1 THEN y > 0 ELSE y < 0
      PROVE  /\ \A s \in {<<i, 0>>, <<0, j>>, <<i, j>>, <<-i, 0>>, <<0, -j>>} :
                   StFar(x + s[1], y + s[2]) >= StFar(x, y)
             /\ StFar(x - i, y) <= StFar(x, y) /\ StFar(x, y - j) <= StFar(x, y)
  <2>1. /\ StFar(x + i, y) >= StFar(x, y) /\ StFar(x, y + j) >= StFar(x, y)
        /\ StFar(x + i, y + j) >= StFar(x, y)
        /\ StFar(x - i, y) = StFar(x, y) /\ StFar(x, y - j) = StFar(x, y)
    BY <1>1
  <2>2. x + 0 = x /\ y + 0 = y /\ x + (-i) = x - i /\ y + (-j) = y - j
    BY <1>1
  <2>3. StFar(x, y) \in Int
    OBVIOUS
  <2> HIDE DEF StFar
  <2> QED BY <2>1, <2>2, <2>3
<1>2. ASSUME NEW j \in {1, -1}, Hu!Abs(x) < Hu!Abs(y), IF j = 1 THEN y > 0 ELSE y < 0
      PROVE  /\ \A s \in {<<0, j>>, <<1, 0>>, <<-1, 0>>, <<1, j>>, <<-1, j>>} :
                   /\ StFar(x + s[1], y + s[2]) >= StFar(x, y)
                   /\ StFar(y + s[2], x + s[1]) >= StFar(y, x)
             /\ StFar(x, y - j) < StFar(x, y) /\ StFar(y - j, x) < StFar(y, x)
             /\ x < 0 => StFar(x + 1, y) <= StFar(x, y) /\ StFar(y, x + 1) <= StFar(y, x)
             /\ x > 0 => StFar(x - 1, y) <= StFar(x, y) /\ StFar(y, x - 1) <= StFar(y, x)
  <2>1. ASSUME NEW u \in {-1, 0, 1}, NEW w \in {0, j}
        PROVE  /\ StFar(x + u, y + w) >= StFar(x, y)
               /\ StFar(y + w, x + u) >= StFar(y, x)
    BY <1>2, <2>1
  <2>2. /\ StFar(x, y - j) < StFar(x, y) /\ StFar(y - j, x) < StFar(y, x)
        /\ x < 0 => StFar(x + 1, y) <= StFar(x, y) /\ StFar(y, x + 1) <= StFar(y, x)
        /\ x > 0 => StFar(x - 1, y) <= StFar(x, y) /\ StFar(y, x - 1) <= StFar(y, x)
    BY <1>2
  <2> HIDE DEF StFar
  <2>3. \A s \in {<<0, j>>, <<1, 0>>, <<-1, 0>>, <<1, j>>, <<-1, j>>} :
            /\ StFar(x + s[1], y + s[2]) >= StFar(x, y)
            /\ StFar(y + s[2], x + s[1]) >= StFar(y, x)
    <3>1. \A s \in {<<0, j>>, <<1, 0>>, <<-1, 0>>, <<1, j>>, <<-1, j>>} :
              s[1] \in {-1, 0, 1} /\ s[2] \in {0, j}
      OBVIOUS
    <3> QED BY <2>1, <3>1
  <2> QED BY <2>2, <2>3
<1> HIDE DEF StFar, Hu!Further, Hu!Abs
<1> QED BY <1>1, <1>2

\* A step chosen leads nowhere nearer, but for fleeing when no other straight one is possible.
StApartBy(flee) ==
    \A d \in Hu!getDistanceStep(flee) :
        /\ Hu!Can(d)
        /\ \/ Hu!Distance(Hu!To(me, d), you) >= Hu!Distance(me, you)
           \/ flee /\ \A e \in Hu!AnyOf(Hu!Straight) : Hu!Distance(Hu!To(me, e), you) < Hu!Distance(me, you)

\* Where none is chosen, there is none that leads away, and for fleeing none at all.
StNoneBy(flee) ==
    Hu!getDistanceStep(flee) = {} =>
        \A d \in Hu!AnyOf(Hu!Straight \cup {<<Hu!Sign(StX), Hu!Sign(StY)>>}) :
            ~flee /\ Hu!Distance(Hu!To(me, d), you) <= Hu!Distance(me, you)

\* The target is on a diagonal.
LEMMA StDiagonalBy ==
    ASSUME StGood, NEW flee \in BOOLEAN, StDiagonal(flee)
    PROVE  StApartBy(flee) /\ StNoneBy(flee)
<1> USE DEF Hu!East, Hu!West, Hu!South, Hu!North
<1>1. PICK h \in {Hu!East, Hu!West}, v \in {Hu!South, Hu!North} : \E first \in {h, v} :
          /\ StX = h[1] * Hu!Abs(StX) /\ StY = v[2] * Hu!Abs(StX) /\ StX # 0
          /\ Hu!getDistanceStep(flee) = Hu!Slanted(h, v, first, flee)
  BY DEF StDiagonal
<1>2. PICK i \in {1, -1}, j \in {1, -1} : h = <<i, 0>> /\ v = <<0, j>>
  OBVIOUS
<1> HIDE DEF Hu!East, Hu!West, Hu!South, Hu!North
<1>3. StX \in Int /\ StY \in Int
  BY StDistance
<1>4. Hu!Abs(StX) = Hu!Abs(StY) /\ (IF i = 1 THEN StX > 0 ELSE StX < 0) /\ (IF j = 1 THEN StY > 0 ELSE StY < 0)
  <2>1. StX = i * Hu!Abs(StX) /\ StY = j * Hu!Abs(StX) /\ StX # 0
    BY <1>1, <1>2
  <2>2. CASE i = 1 /\ j = 1
    BY <2>1, <2>2, <1>3 DEF Hu!Abs
  <2>3. CASE i = 1 /\ j = -1
    BY <2>1, <2>3, <1>3 DEF Hu!Abs
  <2>4. CASE i = -1 /\ j = 1
    BY <2>1, <2>4, <1>3 DEF Hu!Abs
  <2>5. CASE i = -1 /\ j = -1
    BY <2>1, <2>5, <1>3 DEF Hu!Abs
  <2> QED BY <2>2, <2>3, <2>4, <2>5
<1>5. /\ Hu!Plus(h, v) = <<i, j>> /\ StOpposite(h) = <<-i, 0>> /\ StOpposite(v) = <<0, -j>>
      /\ <<Hu!Sign(StX), Hu!Sign(StY)>> = <<i, j>>
  <2>1. h[1] = i /\ h[2] = 0 /\ v[1] = 0 /\ v[2] = j
    BY <1>2
  <2>2. i + 0 = i /\ 0 + j = j
    OBVIOUS
  <2>3. Hu!Plus(h, v) = <<i, j>>
    BY <2>1, <2>2 DEF Hu!Plus, Hu!To
  <2>4. StOpposite(h) = <<-i, 0>> /\ StOpposite(v) = <<0, -j>>
    <3>1. -h[2] = 0 /\ -v[1] = 0
      BY <2>1, StMinusZero, Zenon
    <3> QED BY <2>1, <3>1 DEF StOpposite
  <2>5. Hu!Sign(StX) = i /\ Hu!Sign(StY) = j
    BY <1>3, <1>4 DEF Hu!Sign
  <2> QED BY <2>3, <2>4, <2>5
<1>6. /\ \A s \in {h, v, <<i, j>>, <<-i, 0>>, <<0, -j>>} :
             StFar(StX + s[1], StY + s[2]) >= StFar(StX, StY)
      /\ StFar(StX - i, StY) <= StFar(StX, StY) /\ StFar(StX, StY - j) <= StFar(StX, StY)
  BY <1>2, <1>3, <1>4, StMeasure
<1>7. \A s \in {h, v, <<i, j>>, <<-i, 0>>, <<0, -j>>} :
          Hu!Distance(Hu!To(me, s), you) = StFar(StX + s[1], StY + s[2])
  BY <1>2, StDistance
<1>8. /\ \A d \in Hu!getDistanceStep(flee) : Hu!Can(d) /\ d \in {h, v, <<i, j>>, <<-i, 0>>, <<0, -j>>}
      /\ Hu!getDistanceStep(flee) = {} =>
             /\ ~Hu!Can(h) /\ ~Hu!Can(v) /\ ~Hu!Can(<<i, j>>)
             /\ flee => ~Hu!Can(<<-i, 0>>) /\ ~Hu!Can(<<0, -j>>)
  <2>1. PICK first \in {h, v} : Hu!getDistanceStep(flee) = Hu!Slanted(h, v, first, flee)
    BY <1>1
  <2> QED BY <1>5, <2>1, StSlanted
<1>9. StApartBy(flee)
  <2>1. ASSUME NEW d \in Hu!getDistanceStep(flee)
        PROVE  Hu!Can(d) /\ Hu!Distance(Hu!To(me, d), you) >= Hu!Distance(me, you)
    <3>1. Hu!Can(d) /\ d \in {h, v, <<i, j>>, <<-i, 0>>, <<0, -j>>}
      BY <1>8
    <3>2. StFar(StX + d[1], StY + d[2]) >= StFar(StX, StY)
      BY <1>6, <3>1
    <3>3. Hu!Distance(Hu!To(me, d), you) = StFar(StX + d[1], StY + d[2])
      BY <1>7, <3>1
    <3> QED BY <3>1, <3>2, <3>3, StDistance
  <2> QED BY <2>1 DEF StApartBy
<1>10. StNoneBy(flee)
  <2>1. ASSUME Hu!getDistanceStep(flee) = {},
               NEW d \in Hu!Straight \cup {<<Hu!Sign(StX), Hu!Sign(StY)>>}, Hu!Can(d)
        PROVE  ~flee /\ Hu!Distance(Hu!To(me, d), you) <= Hu!Distance(me, you)
    <3>1. d \in {h, v, <<i, j>>, <<-i, 0>>, <<0, -j>>}
      BY <1>2, <1>5 DEF Hu!Straight, Hu!East, Hu!West, Hu!South, Hu!North
    <3>2. ~flee /\ (d = <<-i, 0>> \/ d = <<0, -j>>)
      BY <1>8, <2>1, <3>1
    <3>3. CASE d = <<-i, 0>>
      <4>1. Hu!Distance(Hu!To(me, d), you) = StFar(StX + (-i), StY + 0)
        BY <1>7, <3>3
      <4>2. StX + (-i) = StX - i /\ StY + 0 = StY
        BY <1>3
      <4> QED BY <1>6, <3>2, <4>1, <4>2, StDistance
    <3>4. CASE d = <<0, -j>>
      <4>1. Hu!Distance(Hu!To(me, d), you) = StFar(StX + 0, StY + (-j))
        BY <1>7, <3>4
      <4>2. StY + (-j) = StY - j /\ StX + 0 = StX
        BY <1>3
      <4> QED BY <1>6, <3>2, <4>1, <4>2, StDistance
    <3> QED BY <3>2, <3>3, <3>4
  <2> QED BY <2>1 DEF StNoneBy, Hu!AnyOf
<1> QED BY <1>9, <1>10

\* Either side of a target that is straight away, by what both have in common.
LEMMA StSidewaysBy ==
    ASSUME StGood, NEW flee \in BOOLEAN, NEW away, NEW low, NEW high, NEW a, NEW b, NEW offset \in Int,
           (a = low /\ b = high) \/ (a = high /\ b = low),
           Hu!getDistanceStep(flee) = Hu!Sideways(away, low, high, <<a, b>>, offset, flee),
           {away, low, high, StOpposite(away)} = Hu!Straight,
           <<Hu!Sign(StX), Hu!Sign(StY)>> =
               IF offset = 0 THEN away ELSE IF offset < 0 THEN Hu!Plus(away, low) ELSE Hu!Plus(away, high),
           Hu!Distance(me, you) \in Int,
           \A s \in {away, low, high, Hu!Plus(away, low), Hu!Plus(away, high)} :
               Hu!Distance(Hu!To(me, s), you) >= Hu!Distance(me, you),
           Hu!Distance(Hu!To(me, StOpposite(away)), you) < Hu!Distance(me, you),
           Hu!Distance(Hu!To(me, StOpposite(away)), you) \in Int,
           offset < 0 => Hu!Distance(Hu!To(me, high), you) <= Hu!Distance(me, you),
           offset > 0 => Hu!Distance(Hu!To(me, low), you) <= Hu!Distance(me, you)
    PROVE  StApartBy(flee) /\ StNoneBy(flee)
<1> DEFINE G == Hu!getDistanceStep(flee)
           slants == {Hu!Plus(away, low), Hu!Plus(away, high)}
<1>1. /\ \A d \in G : Hu!Can(d)
      /\ \A d \in G : \/ d \in {away, low, high} \cup slants
                      \/ /\ flee /\ d = StOpposite(away)
                         /\ ~Hu!Can(away) /\ ~Hu!Can(low) /\ ~Hu!Can(high)
      /\ G = {} => /\ ~Hu!Can(away) /\ \A d \in slants : ~Hu!Can(d)
                   /\ offset <= 0 => ~Hu!Can(low)
                   /\ offset >= 0 => ~Hu!Can(high)
                   /\ flee => ~Hu!Can(low) /\ ~Hu!Can(high) /\ ~Hu!Can(StOpposite(away))
  BY StSideways
<1> HIDE DEF G
<1>2. ASSUME NEW d \in G
      PROVE  /\ Hu!Can(d)
             /\ \/ Hu!Distance(Hu!To(me, d), you) >= Hu!Distance(me, you)
                \/ flee /\ \A e \in Hu!AnyOf(Hu!Straight) : Hu!Distance(Hu!To(me, e), you) < Hu!Distance(me, you)
  <2>1. CASE d \in {away, low, high} \cup slants
    BY <1>1, <2>1
  <2>2. CASE /\ flee /\ d = StOpposite(away)
             /\ ~Hu!Can(away) /\ ~Hu!Can(low) /\ ~Hu!Can(high)
    <3>1. \A e \in Hu!AnyOf(Hu!Straight) : e = StOpposite(away)
      BY <2>2 DEF Hu!AnyOf
    <3> QED BY <1>1, <2>2, <3>1
  <2> QED BY <1>1, <2>1, <2>2
<1>3. ASSUME G = {}, NEW d \in Hu!Straight \cup {<<Hu!Sign(StX), Hu!Sign(StY)>>}, Hu!Can(d)
      PROVE  ~flee /\ Hu!Distance(Hu!To(me, d), you) <= Hu!Distance(me, you)
  <2>1. d \in {low, high, StOpposite(away)}
    BY <1>1, <1>3
  <2>2. CASE d = StOpposite(away)
    BY <1>1, <1>3, <2>2
  <2>3. CASE d = low
    <3>1. offset > 0 /\ ~flee
      BY <1>1, <1>3, <2>3
    <3> QED BY <2>3, <3>1
  <2>4. CASE d = high
    <3>1. offset < 0 /\ ~flee
      BY <1>1, <1>3, <2>4
    <3> QED BY <2>4, <3>1
  <2> QED BY <2>1, <2>2, <2>3, <2>4
<1> QED BY <1>2, <1>3 DEF StApartBy, StNoneBy, Hu!AnyOf, G

\* The target is above or below.
LEMMA StUprightBy ==
    ASSUME StGood, NEW flee \in BOOLEAN, StUpright(flee)
    PROVE  StApartBy(flee) /\ StNoneBy(flee)
<1> USE DEF Hu!East, Hu!West, Hu!South, Hu!North
<1>1. PICK away \in {Hu!South, Hu!North} :
          /\ Hu!Abs(StX) < Hu!Abs(StY) /\ StY = away[2] * Hu!Abs(StY)
          /\ Hu!getDistanceStep(flee) = Hu!Sideways(away, Hu!West, Hu!East, <<Hu!West, Hu!East>>, StX, flee)
  BY DEF StUpright
<1>2. PICK j \in {1, -1} : away = <<0, j>>
  OBVIOUS
<1>3. StX \in Int /\ StY \in Int
  BY StDistance
<1>4. IF j = 1 THEN StY > 0 ELSE StY < 0
  <2>1. StY = j * Hu!Abs(StY)
    BY <1>1, <1>2
  <2>2. CASE j = 1
    BY <1>1, <1>3, <2>1, <2>2 DEF Hu!Abs
  <2>3. CASE j = -1
    BY <1>1, <1>3, <2>1, <2>3 DEF Hu!Abs
  <2> QED BY <2>2, <2>3
<1>5. /\ Hu!Plus(away, Hu!West) = <<-1, j>> /\ Hu!Plus(away, Hu!East) = <<1, j>>
      /\ StOpposite(away) = <<0, -j>>
  <2>1. away[1] = 0 /\ away[2] = j /\ 0 + (-1) = -1 /\ 0 + 1 = 1 /\ j + 0 = j
    BY <1>2
  <2>2. Hu!Plus(away, Hu!West) = <<-1, j>> /\ Hu!Plus(away, Hu!East) = <<1, j>>
    BY <2>1 DEF Hu!Plus, Hu!To
  <2>3. StOpposite(away) = <<0, -j>>
    <3>1. -away[1] = 0
      BY <2>1, StMinusZero, Zenon
    <3> QED BY <2>1, <3>1 DEF StOpposite
  <2> QED BY <2>2, <2>3
<1>6. /\ StX = 0 => Hu!Sign(StX) = 0
      /\ StX < 0 => Hu!Sign(StX) = -1
      /\ StX > 0 => Hu!Sign(StX) = 1
      /\ Hu!Sign(StY) = j
  BY <1>3, <1>4 DEF Hu!Sign
<1>7. <<Hu!Sign(StX), Hu!Sign(StY)>> =
          IF StX = 0 THEN away ELSE IF StX < 0 THEN Hu!Plus(away, Hu!West) ELSE Hu!Plus(away, Hu!East)
  <2> USE <1>2, <1>3, <1>5, <1>6
  <2>1. CASE StX = 0
    BY <2>1
  <2>2. CASE StX < 0
    BY <2>2
  <2>3. CASE StX > 0
    BY <2>3
  <2> QED BY <2>1, <2>2, <2>3
<1>8. {away, Hu!West, Hu!East, StOpposite(away)} = Hu!Straight
  <2>1. CASE j = 1
    BY <1>2, <1>5, <2>1 DEF Hu!Straight
  <2>2. CASE j = -1
    BY <1>2, <1>5, <2>2 DEF Hu!Straight
  <2> QED BY <2>1, <2>2
<1>9. /\ \A s \in {away, Hu!West, Hu!East, <<-1, j>>, <<1, j>>} :
             StFar(StX + s[1], StY + s[2]) >= StFar(StX, StY)
      /\ StFar(StX, StY - j) < StFar(StX, StY)
      /\ StX < 0 => StFar(StX + 1, StY) <= StFar(StX, StY)
      /\ StX > 0 => StFar(StX - 1, StY) <= StFar(StX, StY)
  <2>1. /\ \A s \in {<<0, j>>, <<1, 0>>, <<-1, 0>>, <<1, j>>, <<-1, j>>} :
               StFar(StX + s[1], StY + s[2]) >= StFar(StX, StY)
        /\ StFar(StX, StY - j) < StFar(StX, StY)
        /\ StX < 0 => StFar(StX + 1, StY) <= StFar(StX, StY)
        /\ StX > 0 => StFar(StX - 1, StY) <= StFar(StX, StY)
    BY <1>1, <1>3, <1>4, StMeasure
  <2> QED BY <1>2, <2>1
<1>10. /\ Hu!Distance(me, you) = StFar(StX, StY)
       /\ \A u, v \in Int : Hu!Distance(Hu!To(me, <<u, v>>), you) = StFar(StX + u, StY + v)
  BY StDistance
<1>11. \A u, v \in Int : StFar(u, v) \in Int
  BY DEF StFar, Hu!Further, Hu!Abs
<1>12. \A s \in {away, Hu!West, Hu!East, <<-1, j>>, <<1, j>>} :
          Hu!Distance(Hu!To(me, s), you) >= Hu!Distance(me, you)
  <2>1. \A s \in {away, Hu!West, Hu!East, <<-1, j>>, <<1, j>>} :
            Hu!Distance(Hu!To(me, s), you) = StFar(StX + s[1], StY + s[2])
    BY <1>2, <1>10
  <2> QED BY <1>9, <1>10, <2>1
<1>13. /\ Hu!Distance(Hu!To(me, StOpposite(away)), you) < Hu!Distance(me, you)
       /\ Hu!Distance(Hu!To(me, StOpposite(away)), you) \in Int /\ Hu!Distance(me, you) \in Int
  <2>1. Hu!Distance(Hu!To(me, StOpposite(away)), you) = StFar(StX + 0, StY + (-j))
    BY <1>5, <1>10
  <2>2. StX + 0 = StX /\ StY + (-j) = StY - j /\ StY - j \in Int
    BY <1>3
  <2> QED BY <1>3, <1>9, <1>10, <1>11, <2>1, <2>2
<1>14. /\ StX < 0 => Hu!Distance(Hu!To(me, Hu!East), you) <= Hu!Distance(me, you)
       /\ StX > 0 => Hu!Distance(Hu!To(me, Hu!West), you) <= Hu!Distance(me, you)
  <2>1. /\ Hu!Distance(Hu!To(me, Hu!East), you) = StFar(StX + 1, StY + 0)
        /\ Hu!Distance(Hu!To(me, Hu!West), you) = StFar(StX + (-1), StY + 0)
    BY <1>10
  <2>2. StY + 0 = StY /\ StX + (-1) = StX - 1
    BY <1>3
  <2> QED BY <1>9, <1>10, <2>1, <2>2
<1> HIDE DEF Hu!East, Hu!West, Hu!South, Hu!North
<1>15. \A s \in {away, Hu!West, Hu!East, Hu!Plus(away, Hu!West), Hu!Plus(away, Hu!East)} :
           Hu!Distance(Hu!To(me, s), you) >= Hu!Distance(me, you)
  BY <1>5, <1>12
<1> QED BY <1>1, <1>3, <1>7, <1>8, <1>13, <1>14, <1>15, StSidewaysBy

\* The target is to the left or to the right.
LEMMA StLevelBy ==
    ASSUME StGood, NEW flee \in BOOLEAN, StLevel(flee)
    PROVE  StApartBy(flee) /\ StNoneBy(flee)
<1> USE DEF Hu!East, Hu!West, Hu!South, Hu!North
<1>1. PICK away \in {Hu!East, Hu!West}, a, b \in {Hu!North, Hu!South} :
          /\ a # b /\ Hu!Abs(StY) < Hu!Abs(StX) /\ StX = away[1] * Hu!Abs(StX)
          /\ Hu!getDistanceStep(flee) = Hu!Sideways(away, Hu!North, Hu!South, <<a, b>>, StY, flee)
  BY DEF StLevel
<1>2. PICK j \in {1, -1} : away = <<j, 0>>
  OBVIOUS
<1>3. StX \in Int /\ StY \in Int
  BY StDistance
<1>4. IF j = 1 THEN StX > 0 ELSE StX < 0
  <2>1. StX = j * Hu!Abs(StX)
    BY <1>1, <1>2
  <2>2. CASE j = 1
    BY <1>1, <1>3, <2>1, <2>2 DEF Hu!Abs
  <2>3. CASE j = -1
    BY <1>1, <1>3, <2>1, <2>3 DEF Hu!Abs
  <2> QED BY <2>2, <2>3
<1>5. /\ Hu!Plus(away, Hu!North) = <<j, -1>> /\ Hu!Plus(away, Hu!South) = <<j, 1>>
      /\ StOpposite(away) = <<-j, 0>>
  <2>1. away[1] = j /\ away[2] = 0 /\ 0 + (-1) = -1 /\ 0 + 1 = 1 /\ j + 0 = j
    BY <1>2
  <2>2. Hu!Plus(away, Hu!North) = <<j, -1>> /\ Hu!Plus(away, Hu!South) = <<j, 1>>
    BY <2>1 DEF Hu!Plus, Hu!To
  <2>3. StOpposite(away) = <<-j, 0>>
    <3>1. -away[2] = 0
      BY <2>1, StMinusZero, Zenon
    <3> QED BY <2>1, <3>1 DEF StOpposite
  <2> QED BY <2>2, <2>3
<1>6. /\ StY = 0 => Hu!Sign(StY) = 0
      /\ StY < 0 => Hu!Sign(StY) = -1
      /\ StY > 0 => Hu!Sign(StY) = 1
      /\ Hu!Sign(StX) = j
  BY <1>3, <1>4 DEF Hu!Sign
<1>7. <<Hu!Sign(StX), Hu!Sign(StY)>> =
          IF StY = 0 THEN away ELSE IF StY < 0 THEN Hu!Plus(away, Hu!North) ELSE Hu!Plus(away, Hu!South)
  <2> USE <1>2, <1>3, <1>5, <1>6
  <2>1. CASE StY = 0
    BY <2>1
  <2>2. CASE StY < 0
    BY <2>2
  <2>3. CASE StY > 0
    BY <2>3
  <2> QED BY <2>1, <2>2, <2>3
<1>8. {away, Hu!North, Hu!South, StOpposite(away)} = Hu!Straight
  <2>1. CASE j = 1
    BY <1>2, <1>5, <2>1 DEF Hu!Straight
  <2>2. CASE j = -1
    BY <1>2, <1>5, <2>2 DEF Hu!Straight
  <2> QED BY <2>1, <2>2
<1>9. /\ \A s \in {away, Hu!North, Hu!South, <<j, -1>>, <<j, 1>>} :
             StFar(StX + s[1], StY + s[2]) >= StFar(StX, StY)
      /\ StFar(StX - j, StY) < StFar(StX, StY)
      /\ StY < 0 => StFar(StX, StY + 1) <= StFar(StX, StY)
      /\ StY > 0 => StFar(StX, StY - 1) <= StFar(StX, StY)
  <2>1. /\ \A s \in {<<0, j>>, <<1, 0>>, <<-1, 0>>, <<1, j>>, <<-1, j>>} :
               StFar(StX + s[2], StY + s[1]) >= StFar(StX, StY)
        /\ StFar(StX - j, StY) < StFar(StX, StY)
        /\ StY < 0 => StFar(StX, StY + 1) <= StFar(StX, StY)
        /\ StY > 0 => StFar(StX, StY - 1) <= StFar(StX, StY)
    BY <1>1, <1>3, <1>4, StMeasure
  <2>2. /\ StFar(StX + j, StY + 0) >= StFar(StX, StY)
        /\ StFar(StX + 0, StY + 1) >= StFar(StX, StY)
        /\ StFar(StX + 0, StY + (-1)) >= StFar(StX, StY)
        /\ StFar(StX + j, StY + 1) >= StFar(StX, StY)
        /\ StFar(StX + j, StY + (-1)) >= StFar(StX, StY)
    BY <2>1
  <2> QED BY <1>2, <2>1, <2>2
<1>10. /\ Hu!Distance(me, you) = StFar(StX, StY)
       /\ \A u, v \in Int : Hu!Distance(Hu!To(me, <<u, v>>), you) = StFar(StX + u, StY + v)
  BY StDistance
<1>11. \A u, v \in Int : StFar(u, v) \in Int
  BY DEF StFar, Hu!Further, Hu!Abs
<1>12. \A s \in {away, Hu!North, Hu!South, <<j, -1>>, <<j, 1>>} :
          Hu!Distance(Hu!To(me, s), you) >= Hu!Distance(me, you)
  <2>1. \A s \in {away, Hu!North, Hu!South, <<j, -1>>, <<j, 1>>} :
            Hu!Distance(Hu!To(me, s), you) = StFar(StX + s[1], StY + s[2])
    BY <1>2, <1>10
  <2> QED BY <1>9, <1>10, <2>1
<1>13. /\ Hu!Distance(Hu!To(me, StOpposite(away)), you) < Hu!Distance(me, you)
       /\ Hu!Distance(Hu!To(me, StOpposite(away)), you) \in Int /\ Hu!Distance(me, you) \in Int
  <2>1. Hu!Distance(Hu!To(me, StOpposite(away)), you) = StFar(StX + (-j), StY + 0)
    BY <1>5, <1>10
  <2>2. StY + 0 = StY /\ StX + (-j) = StX - j /\ StX - j \in Int
    BY <1>3
  <2> QED BY <1>3, <1>9, <1>10, <1>11, <2>1, <2>2
<1>14. /\ StY < 0 => Hu!Distance(Hu!To(me, Hu!South), you) <= Hu!Distance(me, you)
       /\ StY > 0 => Hu!Distance(Hu!To(me, Hu!North), you) <= Hu!Distance(me, you)
  <2>1. /\ Hu!Distance(Hu!To(me, Hu!South), you) = StFar(StX + 0, StY + 1)
        /\ Hu!Distance(Hu!To(me, Hu!North), you) = StFar(StX + 0, StY + (-1))
    BY <1>10
  <2>2. StX + 0 = StX /\ StY + (-1) = StY - 1
    BY <1>3
  <2> QED BY <1>9, <1>10, <2>1, <2>2
<1> HIDE DEF Hu!East, Hu!West, Hu!South, Hu!North
<1>15. \A s \in {away, Hu!North, Hu!South, Hu!Plus(away, Hu!North), Hu!Plus(away, Hu!South)} :
           Hu!Distance(Hu!To(me, s), you) >= Hu!Distance(me, you)
  BY <1>5, <1>12
<1>16. (a = Hu!North /\ b = Hu!South) \/ (a = Hu!South /\ b = Hu!North)
  BY <1>1
<1> QED BY <1>1, <1>3, <1>7, <1>8, <1>13, <1>14, <1>15, <1>16, StSidewaysBy

\* The type invariant's part that the choice of a step needs: it and what it follows are
\* on tiles, and never on the same.
LEMMA StStep == (focus = "steps" => StGood) /\ [Next]_vars => (focus = "steps" => StGood)'
<1> SUFFICES ASSUME focus = "steps" => StGood, [Next]_vars, focus' = "steps"
             PROVE  StGood'
    OBVIOUS
<1>1. CASE UNCHANGED vars
  BY <1>1 DEF vars, stepVars, StGood
<1>2. CASE Next
  <2>1. focus = "steps" /\ Hu!StepsNext
    BY <1>2 DEF Next, Only
  <2>2. StGood
    BY <2>1
  <2>3. ASSUME NEW d, Hu!StepTo(d)
        PROVE  StGood'
    BY <2>2, <2>3 DEF Hu!StepTo, StGood
  <2>4. CASE Hu!Follow
    BY <2>2, <2>4 DEF Hu!Follow, StGood
  <2>5. CASE Hu!WalkList
    BY <2>3, <2>5 DEF Hu!WalkList
  <2>6. CASE Hu!Dance
    BY <2>3, <2>6 DEF Hu!Dance
  <2>7. CASE Hu!RandomStep
    BY <2>3, <2>7 DEF Hu!RandomStep
  <2>8. CASE Hu!TargetMoves
    BY <2>2, <2>8 DEF Hu!TargetMoves, StGood
  <2>9. CASE Hu!ChangeMood
    BY <2>2, <2>9 DEF Hu!ChangeMood, StGood
  <2>10. CASE Hu!Clutters
    BY <2>2, <2>10 DEF Hu!Clutters, StGood
  <2>11. CASE Hu!Cleared
    BY <2>2, <2>11 DEF Hu!Cleared, StGood
  <2> QED BY <2>1, <2>4, <2>5, <2>6, <2>7, <2>8, <2>9, <2>10, <2>11 DEF Hu!StepsNext
<1> QED BY <1>1, <1>2

\* Monster::getDistanceStep, on any field: a step that is chosen is possible and leads no
\* nearer, but for fleeing when every straight step does; and where no step is chosen though
\* the distance is to be kept, none would lead away.
THEOREM StepsKeepApart == Spec => []StepsApart
<1>1. Init => (focus = "steps" => StGood)
  BY DEF Init, Hu!StepsInit, StGood
<1>2. StGood => Hu!StepsApart /\ Hu!NeverCornered
  <2> SUFFICES ASSUME StGood
               PROVE  Hu!StepsApart /\ Hu!NeverCornered
      OBVIOUS
  <2>1. ASSUME NEW flee \in BOOLEAN, ~(~flee /\ Hu!Distance(me, you) = StepDistance)
        PROVE  StApartBy(flee) /\ StNoneBy(flee)
    BY <2>1, StArms, StDiagonalBy, StUprightBy, StLevelBy
  <2>2. ASSUME NEW flee \in BOOLEAN, ~flee /\ Hu!Distance(me, you) = StepDistance
        PROVE  Hu!getDistanceStep(flee) = {}
    BY <2>2 DEF Hu!getDistanceStep
  <2>3. Hu!StepsApart
    <3>1. ASSUME NEW flee \in BOOLEAN, NEW d \in Hu!getDistanceStep(flee)
          PROVE  /\ Hu!Can(d)
                 /\ \/ Hu!Distance(Hu!To(me, d), you) >= Hu!Distance(me, you)
                    \/ flee /\ \A e \in Hu!AnyOf(Hu!Straight) :
                                   Hu!Distance(Hu!To(me, e), you) < Hu!Distance(me, you)
      BY <2>1, <2>2 DEF StApartBy
    <3> QED BY <3>1 DEF Hu!StepsApart, Hu!Can, Hu!canWalkTo
  <2>4. Hu!NeverCornered
    BY <2>1 DEF StNoneBy, Hu!NeverCornered, StX, StY
  <2> QED BY <2>3, <2>4
<1>3. (focus = "steps" => StGood) => StepsApart
  BY <1>2 DEF Of, StepsApart
<1> QED BY <1>1, <1>3, StStep, PTL DEF Spec

-----------------------------------------------------------------------------
(* The map a monster carries                                                *)

CaPlaces == Int \X Int
CaOn(c) == c = [o \in Pa!Offsets |-> c[o]]
CaNot0(o) == o # <<0, 0>>

\* It says of each offset what a tile would say.
CaCells(c, p, blocked, who) ==
    \A o \in Pa!Offsets : CaNot0(o) => c[o] \in {"stale", Pa!queryAdd(p, Pa!At(p, o), blocked, who)}

CaGood ==
    /\ spot \in CaPlaces /\ CaOn(cache)
    /\ other = {} \/ \E p \in CachePlaces : other = {p}
    /\ loaded => CaCells(cache, spot, shut, other)

\* A place has one offset, and an offset one place.
LEMMA CaOffset ==
    ASSUME NEW p \in CaPlaces
    PROVE  /\ \A o \in Pa!Offsets : Pa!At(p, o) \in CaPlaces /\ Pa!From(p, Pa!At(p, o)) = o
           /\ \A q \in CaPlaces : Pa!From(p, q) \in CaPlaces /\ Pa!At(p, Pa!From(p, q)) = q
           /\ \A o \in CaPlaces : Pa!At(p, o) = p => ~CaNot0(o)
<1> USE CacheAssumption DEF CaPlaces, Pa!Offsets, Pa!At, Pa!From, CaNot0
<1>1. \A o \in Pa!Offsets : Pa!At(p, o) \in CaPlaces /\ Pa!From(p, Pa!At(p, o)) = o
  <2> SUFFICES ASSUME NEW x \in Int, NEW y \in Int, <<x, y>> \in Pa!Offsets
               PROVE  Pa!At(p, <<x, y>>) \in CaPlaces /\ Pa!From(p, Pa!At(p, <<x, y>>)) = <<x, y>>
      OBVIOUS
  <2> QED OBVIOUS
<1>2. \A q \in CaPlaces : Pa!From(p, q) \in CaPlaces /\ Pa!At(p, Pa!From(p, q)) = q
  OBVIOUS
<1>3. \A o \in CaPlaces : Pa!At(p, o) = p => ~CaNot0(o)
  OBVIOUS
<1> QED BY <1>1, <1>2, <1>3

\* Creature::updateTileCache writes the one cell of the tile.
LEMMA CaUpdate ==
    ASSUME NEW c, CaOn(c), NEW p \in CaPlaces, NEW q \in CaPlaces, NEW blocked, NEW who
    PROVE  LET d == Pa!updateTileCache(c, p, q, blocked, who)
           IN  /\ CaOn(d)
               /\ \A o \in Pa!Offsets : d[o] = IF Pa!At(p, o) = q THEN Pa!queryAdd(p, q, blocked, who) ELSE c[o]
<1> DEFINE d == Pa!updateTileCache(c, p, q, blocked, who)
<1>0. c = [o \in Pa!Offsets |-> c[o]]
  BY DEF CaOn
<1>1. d = IF Pa!From(p, q) \in Pa!Offsets
          THEN [o \in Pa!Offsets |-> IF o = Pa!From(p, q) THEN Pa!queryAdd(p, q, blocked, who) ELSE c[o]] ELSE c
  BY <1>0 DEF Pa!updateTileCache
<1> HIDE DEF d
<1>2. CaOn(d)
  BY <1>0, <1>1 DEF CaOn
<1>3. ASSUME NEW o \in Pa!Offsets
      PROVE  d[o] = IF Pa!At(p, o) = q THEN Pa!queryAdd(p, q, blocked, who) ELSE c[o]
  <2>1. Pa!At(p, o) = q <=> o = Pa!From(p, q)
    BY CaOffset
  <2> QED BY <2>1, <1>1
<1> QED BY <1>2, <1>3 DEF d

\* Creature::updateMapCache writes every cell.
LEMMA CaWhole ==
    ASSUME NEW p \in CaPlaces
    PROVE  CaOn(Pa!updateMapCache(p)) /\ CaCells(Pa!updateMapCache(p), p, shut, other)
BY DEF CaOn, CaCells, Pa!updateMapCache

\* A step of one tile: each cell is asked anew, left stale, or was that of the same tile.
LEMMA CaColumns ==
    ASSUME NEW q, NEW c, CaOn(c), NEW dx \in -1..1, NEW dy \in -1..1, NEW o \in Pa!Offsets
    PROVE  LET rows == IF dy = 0 THEN c ELSE Pa!ShiftRows(c, dy, q)
               columns == IF dx = 0 THEN rows ELSE Pa!ShiftColumns(rows, dx, Pa!Abs(dy), dy = 1, q)
               e == <<o[1] + dx, o[2] + dy>>
           IN  /\ CaOn(columns)
               /\ \/ columns[o] \in {"stale", Pa!queryAdd(q, Pa!At(q, o), shut, other)}
                  \/ e \in Pa!Offsets /\ columns[o] = c[e]
<1> DEFINE rows == IF dy = 0 THEN c ELSE Pa!ShiftRows(c, dy, q)
           columns == IF dx = 0 THEN rows ELSE Pa!ShiftColumns(rows, dx, Pa!Abs(dy), dy = 1, q)
           Ask(e) == Pa!queryAdd(q, Pa!At(q, e), shut, other)
           Edge(d, n) == IF d = -1 THEN -n ELSE n
<1> USE CacheAssumption
<1>1. PICK x \in -W..W, y \in -H..H : o = <<x, y>>
  BY DEF Pa!Offsets
<1>2. /\ Pa!Abs(dy) = IF dy = 0 THEN 0 ELSE 1
      /\ dx \in {-1, 0, 1} /\ dy \in {-1, 0, 1}
  BY DEF Pa!Abs
<1>3. dy = 0 => rows = c
  OBVIOUS
<1>4. dy # 0 => rows = [e \in Pa!Offsets |-> IF e[2] = Edge(dy, H) THEN Ask(e) ELSE c[<<e[1], e[2] + dy>>]]
  BY DEF Pa!ShiftRows
<1>5. dx = 0 => columns = rows
  OBVIOUS
<1>6. dx # 0 => columns = [e \in Pa!Offsets |->
                  IF e[1] = Edge(dx, W) THEN Ask(e)
                  ELSE IF dy = 1 /\ e[2] \in {-H, H} THEN "stale"
                  ELSE IF e[2] < Pa!Abs(dy) - H THEN rows[e] ELSE rows[<<e[1] + dx, e[2]>>]]
  BY DEF Pa!ShiftColumns
<1>7. c = [e \in Pa!Offsets |-> c[e]]
  BY DEF CaOn
<1> HIDE DEF rows, columns, Ask
<1>8. CaOn(rows)
  <2>1. CASE dy = 0
    BY <2>1, <1>3, <1>7 DEF CaOn
  <2>2. CASE dy # 0
    BY <2>2, <1>4 DEF CaOn
  <2> QED BY <2>1, <2>2
<1>9. CaOn(columns)
  <2>1. CASE dx = 0
    BY <2>1, <1>5, <1>8
  <2>2. CASE dx # 0
    BY <2>2, <1>6 DEF CaOn
  <2> QED BY <2>1, <2>2
<1>10. ASSUME NEW a \in -W..W
       PROVE  \/ dy # 0 /\ y = Edge(dy, H) /\ rows[<<a, y>>] = Ask(<<a, y>>)
              \/ (dy = 0 \/ y # Edge(dy, H)) /\ y + dy \in -H..H /\ rows[<<a, y>>] = c[<<a, y + dy>>]
  <2>1. <<a, y>> \in Pa!Offsets
    BY DEF Pa!Offsets
  <2>2. CASE dy = 0
    BY <2>2, <1>3
  <2>3. CASE dy # 0
    <3>1. rows[<<a, y>>] = IF y = Edge(dy, H) THEN Ask(<<a, y>>) ELSE c[<<a, y + dy>>]
      BY <2>1, <2>3, <1>4
    <3> QED BY <2>3, <3>1, <1>2
  <2> QED BY <2>2, <2>3
<1>11. \/ columns[o] \in {"stale", Ask(o)}
       \/ <<x + dx, y + dy>> \in Pa!Offsets /\ columns[o] = c[<<x + dx, y + dy>>]
  <2>1. CASE dx = 0
    <3>1. columns[o] = rows[<<x, y>>] /\ x + dx = x
      BY <2>1, <1>1, <1>5
    <3> QED BY <3>1, <1>1, <1>10 DEF Pa!Offsets
  <2>2. CASE dx # 0
    <3>1. columns[o] = IF x = Edge(dx, W) THEN Ask(o)
                       ELSE IF dy = 1 /\ y \in {-H, H} THEN "stale"
                       ELSE IF y < Pa!Abs(dy) - H THEN rows[<<x, y>>] ELSE rows[<<x + dx, y>>]
      BY <2>2, <1>1, <1>6
    <3>2. CASE x = Edge(dx, W) \/ (dy = 1 /\ y \in {-H, H})
      BY <3>1, <3>2
    <3>3. CASE x # Edge(dx, W) /\ ~(dy = 1 /\ y \in {-H, H}) /\ y < Pa!Abs(dy) - H
      <4>1. dy = -1 /\ y = Edge(dy, H)
        BY <3>3, <1>2
      <4>2. rows[<<x, y>>] = Ask(<<x, y>>)
        BY <4>1, <1>10
      <4> QED BY <3>1, <3>3, <4>2, <1>1
    <3>4. CASE x # Edge(dx, W) /\ ~(dy = 1 /\ y \in {-H, H}) /\ ~(y < Pa!Abs(dy) - H)
      <4>1. x + dx \in -W..W
        BY <2>2, <3>4, <1>2
      <4>2. dy = 0 \/ y # Edge(dy, H)
        BY <3>4, <1>2
      <4>3. y + dy \in -H..H /\ rows[<<x + dx, y>>] = c[<<x + dx, y + dy>>]
        BY <4>1, <4>2, <1>10
      <4>4. columns[o] = rows[<<x + dx, y>>]
        BY <3>1, <3>4
      <4> QED BY <4>1, <4>3, <4>4 DEF Pa!Offsets
    <3> QED BY <3>2, <3>3, <3>4
  <2> QED BY <2>1, <2>2
<1>12. o[1] = x /\ o[2] = y
  BY <1>1
<1> QED BY <1>9, <1>11, <1>12 DEF rows, columns, Ask

\* What the tile says changes for the two tiles of the step alone.
LEMMA CaQuery ==
    ASSUME NEW p, NEW q, NEW t, t # p, t # q, NEW blocked, NEW who
    PROVE  Pa!queryAdd(p, t, blocked, who) = Pa!queryAdd(q, t, blocked, who)
BY DEF Pa!queryAdd

\* A step keeps the map right: the tile it left is looked at again.
LEMMA CaShift ==
    ASSUME CaGood, loaded, NEW q \in CaPlaces, Pa!NextTo(spot, q)
    PROVE  CaOn(Pa!Shifted(spot, q)) /\ CaCells(Pa!Shifted(spot, q), q, shut, other)
<1> DEFINE dx == q[1] - spot[1]
           dy == q[2] - spot[2]
           rows == IF dy = 0 THEN cache ELSE Pa!ShiftRows(cache, dy, q)
           columns == IF dx = 0 THEN rows ELSE Pa!ShiftColumns(rows, dx, Pa!Abs(dy), dy = 1, q)
           shifted == Pa!updateTileCache(columns, q, spot, shut, other)
<1>1. Pa!Shifted(spot, q) = shifted
  BY DEF Pa!Shifted
<1>2. dx \in -1..1 /\ dy \in -1..1
  BY DEF Pa!NextTo, Pa!Abs, CaPlaces, CaGood
<1>3. spot \in CaPlaces /\ CaOn(cache) /\ CaCells(cache, spot, shut, other)
  BY DEF CaGood
<1> HIDE DEF dx, dy, rows
<1>4. ASSUME NEW o \in Pa!Offsets
      PROVE  /\ CaOn(columns)
             /\ \/ columns[o] \in {"stale", Pa!queryAdd(q, Pa!At(q, o), shut, other)}
                \/ <<o[1] + dx, o[2] + dy>> \in Pa!Offsets /\ columns[o] = cache[<<o[1] + dx, o[2] + dy>>]
  BY <1>2, <1>3, CaColumns DEF rows
<1> HIDE DEF columns
<1>5. <<0, 0>> \in Pa!Offsets
  BY CacheAssumption DEF Pa!Offsets
<1>6. CaOn(columns)
  BY <1>4, <1>5
<1>7. /\ CaOn(shifted)
      /\ \A o \in Pa!Offsets :
            shifted[o] = IF Pa!At(q, o) = spot THEN Pa!queryAdd(q, spot, shut, other) ELSE columns[o]
  BY <1>3, <1>6, CaUpdate
<1> HIDE DEF shifted
<1>8. ASSUME NEW o \in Pa!Offsets, CaNot0(o)
      PROVE  shifted[o] \in {"stale", Pa!queryAdd(q, Pa!At(q, o), shut, other)}
  <2>1. CASE Pa!At(q, o) = spot
    BY <2>1, <1>7
  <2>2. CASE Pa!At(q, o) # spot
    <3>1. shifted[o] = columns[o]
      BY <2>2, <1>7
    <3>2. CASE columns[o] \in {"stale", Pa!queryAdd(q, Pa!At(q, o), shut, other)}
      BY <3>1, <3>2
    <3>3. CASE <<o[1] + dx, o[2] + dy>> \in Pa!Offsets /\ columns[o] = cache[<<o[1] + dx, o[2] + dy>>]
      <4> DEFINE e == <<o[1] + dx, o[2] + dy>>
      <4>1. Pa!At(spot, e) = Pa!At(q, o)
        BY <1>3, CacheAssumption DEF CaPlaces, Pa!At, Pa!Offsets, dx, dy
      <4>2. CaNot0(e)
        BY <4>1, <2>2, <1>3 DEF CaPlaces, CaNot0, Pa!At
      <4>3. Pa!At(q, o) # q
        <5>1. o \in CaPlaces
          BY CacheAssumption DEF Pa!Offsets, CaPlaces
        <5> QED BY <5>1, <1>8, CaOffset
      <4>4. cache[e] \in {"stale", Pa!queryAdd(spot, Pa!At(q, o), shut, other)}
        BY <3>3, <4>1, <4>2, <1>3 DEF CaCells
      <4>5. Pa!queryAdd(spot, Pa!At(q, o), shut, other) = Pa!queryAdd(q, Pa!At(q, o), shut, other)
        BY <2>2, <4>3, CaQuery
      <4> QED BY <3>1, <3>3, <4>4, <4>5
    <3> QED BY <3>2, <3>3, <1>4
  <2> QED BY <2>1, <2>2
<1> QED BY <1>1, <1>7, <1>8 DEF CaCells

\* The variables of the map, as World's other parts see them.
LEMMA CaInit == Init => CaGood
<1> SUFFICES ASSUME Init
             PROVE  CaGood
    OBVIOUS
<1>1. /\ spot = CHOOSE p \in Tiles \ CachePlaces : TRUE
      /\ other = {} /\ loaded = FALSE /\ cache = [o \in Pa!Offsets |-> "shut"]
  BY DEF Init, Pa!MapCacheInit
<1>2. spot \in CaPlaces
  BY <1>1, CacheAssumption DEF CaPlaces
<1> QED BY <1>1, <1>2 DEF CaGood, CaOn

\* Creature::onCreatureAppear, or a monster that begins to look around.
LEMMA CaLoad == CaGood /\ Pa!Load => CaGood'
<1> SUFFICES ASSUME CaGood, Pa!Load
             PROVE  CaGood'
    OBVIOUS
<1>1. /\ cache' = Pa!updateMapCache(spot) /\ spot' = spot /\ shut' = shut /\ other' = other /\ ghost' = ghost
  BY DEF Pa!Load
<1>2. CaOn(cache') /\ CaCells(cache', spot, shut, other)
  BY <1>1, CaWhole DEF CaGood
<1> QED BY <1>1, <1>2 DEF CaGood, CaOn, CaCells, Pa!queryAdd

\* Creature::onCreatureMove of the monster itself, by a step or by a teleport.
LEMMA CaMove == CaGood /\ Pa!onCreatureMove => CaGood'
<1> SUFFICES ASSUME CaGood, Pa!onCreatureMove
             PROVE  CaGood'
    OBVIOUS
<1>1. PICK q \in Tiles, teleport \in BOOLEAN :
          /\ teleport \/ Pa!NextTo(spot, q)
          /\ spot' = q /\ shut' = shut /\ other' = other /\ ghost' = ghost /\ loaded' = loaded
          /\ cache' = IF ~loaded THEN cache ELSE IF teleport THEN Pa!updateMapCache(q) ELSE Pa!Shifted(spot, q)
  BY DEF Pa!onCreatureMove
<1>2. q \in CaPlaces
  BY CacheAssumption DEF CaPlaces
<1>3. CaOn(cache') /\ (loaded => CaCells(cache', q, shut, other))
  <2>1. CASE ~loaded
    BY <2>1, <1>1 DEF CaGood
  <2>2. CASE loaded /\ teleport
    BY <2>2, <1>1, <1>2, CaWhole
  <2>3. CASE loaded /\ ~teleport
    BY <2>3, <1>1, <1>2, CaShift
  <2> QED BY <2>1, <2>2, <2>3
<1> QED BY <1>1, <1>2, <1>3 DEF CaGood, CaOn, CaCells, Pa!queryAdd

\* An item that comes to a tile or goes: the cell of that tile is written.
LEMMA CaTile == CaGood /\ Pa!TileItem => CaGood'
<1> SUFFICES ASSUME CaGood, Pa!TileItem
             PROVE  CaGood'
    OBVIOUS
<1>1. PICK d \in CacheDoors :
          /\ shut' = (IF d \in shut THEN shut \ {d} ELSE shut \cup {d})
          /\ cache' = (IF loaded THEN Pa!updateTileCache(cache, spot, d, shut', other) ELSE cache)
          /\ spot' = spot /\ other' = other /\ ghost' = ghost /\ loaded' = loaded
  BY DEF Pa!TileItem, Pa!Change
<1>2. d \in CaPlaces /\ spot \in CaPlaces /\ CaOn(cache)
  BY CacheAssumption DEF CaPlaces, CaGood
<1>3. CASE ~loaded
  BY <1>1, <1>3 DEF CaGood, CaOn
<1>4. CASE loaded
  <2>1. /\ CaOn(cache')
        /\ \A o \in Pa!Offsets : cache'[o] = IF Pa!At(spot, o) = d THEN Pa!queryAdd(spot, d, shut', other) ELSE cache[o]
    BY <1>1, <1>2, <1>4, CaUpdate
  <2>2. \A t : t # d => Pa!queryAdd(spot, t, shut', other) = Pa!queryAdd(spot, t, shut, other)
    BY <1>1 DEF Pa!queryAdd
  <2>3. ASSUME NEW o \in Pa!Offsets, CaNot0(o)
        PROVE  cache'[o] \in {"stale", Pa!queryAdd(spot, Pa!At(spot, o), shut', other)}
    <3>1. CASE Pa!At(spot, o) = d
      BY <3>1, <2>1
    <3>2. CASE Pa!At(spot, o) # d
      BY <3>2, <2>1, <2>2, <2>3, <1>4 DEF CaGood, CaCells
    <3> QED BY <3>1, <3>2
  <2>4. CaCells(cache', spot, shut', other)
    BY <2>3 DEF CaCells
  <2> QED BY <1>1, <1>2, <2>1, <2>4 DEF CaGood, CaOn, CaCells, Pa!queryAdd
<1> QED BY <1>3, <1>4

\* Another creature moves: the cells of its old tile and of its new one are written.
LEMMA CaOther == CaGood /\ Pa!OtherMoves => CaGood'
<1> SUFFICES ASSUME CaGood, Pa!OtherMoves
             PROVE  CaGood'
    OBVIOUS
<1> DEFINE updated(c, T, to) == IF T = {} THEN c
                                ELSE Pa!updateTileCache(c, spot, CHOOSE p \in T : TRUE, shut, to)
<1>1. PICK to \in {{}} \cup {{p} : p \in CachePlaces} :
          /\ cache' = (IF ~loaded THEN cache ELSE updated(updated(cache, to, to), other, to))
          /\ other' = to /\ spot' = spot /\ shut' = shut /\ ghost' = ghost /\ loaded' = loaded
  BY DEF Pa!OtherMoves
<1>2. /\ spot \in CaPlaces /\ CaOn(cache) /\ \A p \in CachePlaces : p \in CaPlaces
      /\ other = {} \/ \E p \in CachePlaces : other = {p}
      /\ to = {} \/ \E p \in CachePlaces : to = {p}
  BY CacheAssumption DEF CaPlaces, CaGood
<1>3. CASE ~loaded
  BY <1>1, <1>2, <1>3 DEF CaGood, CaOn
<1>4. CASE loaded
  <2>1. ASSUME NEW c, CaOn(c), NEW T, T = {} \/ \E p \in CachePlaces : T = {p}
        PROVE  /\ CaOn(updated(c, T, to))
               /\ \A o \in Pa!Offsets : updated(c, T, to)[o] =
                      IF Pa!At(spot, o) \in T THEN Pa!queryAdd(spot, Pa!At(spot, o), shut, to) ELSE c[o]
    <3>1. CASE T = {}
      BY <2>1, <3>1
    <3>2. CASE T # {}
      <4>1. PICK p \in CachePlaces : T = {p}
        BY <2>1, <3>2
      <4>2. (CHOOSE x \in T : TRUE) = p
        BY <4>1
      <4>3. updated(c, T, to) = Pa!updateTileCache(c, spot, p, shut, to)
        BY <3>2, <4>2
      <4> HIDE DEF updated
      <4>4. /\ CaOn(updated(c, T, to))
            /\ \A o \in Pa!Offsets : updated(c, T, to)[o] =
                   IF Pa!At(spot, o) = p THEN Pa!queryAdd(spot, p, shut, to) ELSE c[o]
        <5>1. p \in CaPlaces /\ spot \in CaPlaces
          BY <1>2
        <5> QED BY <5>1, <2>1, <4>3, CaUpdate
      <4> QED BY <4>1, <4>4
    <3> QED BY <3>1, <3>2
  <2> DEFINE c1 == updated(cache, to, to)
             c2 == updated(c1, other, to)
  <2> HIDE DEF updated
  <2>2. /\ CaOn(c1)
        /\ \A o \in Pa!Offsets : c1[o] =
               IF Pa!At(spot, o) \in to THEN Pa!queryAdd(spot, Pa!At(spot, o), shut, to) ELSE cache[o]
    BY <1>2, <2>1
  <2> HIDE DEF c1
  <2>3. /\ CaOn(c2)
        /\ \A o \in Pa!Offsets : c2[o] =
               IF Pa!At(spot, o) \in other THEN Pa!queryAdd(spot, Pa!At(spot, o), shut, to) ELSE c1[o]
    BY <1>2, <2>1, <2>2
  <2>4. cache' = c2
    BY <1>1, <1>4 DEF c1
  <2> HIDE DEF c2
  <2>5. \A t : t \notin to /\ t \notin other => Pa!queryAdd(spot, t, shut, to) = Pa!queryAdd(spot, t, shut, other)
    BY DEF Pa!queryAdd
  <2>6. ASSUME NEW o \in Pa!Offsets, CaNot0(o)
        PROVE  c2[o] \in {"stale", Pa!queryAdd(spot, Pa!At(spot, o), shut, to)}
    <3>1. CASE Pa!At(spot, o) \in other
      BY <3>1, <2>3
    <3>2. CASE Pa!At(spot, o) \notin other /\ Pa!At(spot, o) \in to
      BY <3>2, <2>2, <2>3
    <3>3. CASE Pa!At(spot, o) \notin other /\ Pa!At(spot, o) \notin to
      <4>1. c2[o] = cache[o]
        BY <3>3, <2>2, <2>3
      <4>2. cache[o] \in {"stale", Pa!queryAdd(spot, Pa!At(spot, o), shut, other)}
        BY <1>4, <2>6 DEF CaGood, CaCells
      <4> QED BY <4>1, <4>2, <3>3, <2>5
    <3> QED BY <3>1, <3>2, <3>3
  <2>7. CaOn(cache') /\ CaCells(cache', spot, shut, to)
    BY <2>3, <2>4, <2>6 DEF CaCells
  <2> QED BY <1>1, <1>2, <2>7 DEF CaGood, CaOn, CaCells, Pa!queryAdd
<1> QED BY <1>3, <1>4

\* A ghost that becomes visible, or the other way: its cell is left stale.
LEMMA CaGhost == CaGood /\ Pa!setGhostMode => CaGood'
<1> SUFFICES ASSUME CaGood, Pa!setGhostMode
             PROVE  CaGood'
    OBVIOUS
<1>1. /\ cache' = [o \in Pa!Offsets |-> IF Pa!At(spot, o) \in other /\ loaded THEN "stale" ELSE cache[o]]
      /\ spot' = spot /\ shut' = shut /\ other' = other /\ loaded' = loaded
  BY DEF Pa!setGhostMode
<1>2. \A t : t \notin other => Pa!queryAdd(spot, t, shut, other) = Pa!queryAdd(spot, t, shut, other)'
  BY <1>1 DEF Pa!queryAdd
<1>3. loaded => \A o \in Pa!Offsets : CaNot0(o) =>
          cache'[o] = "stale" \/ cache'[o] \in {"stale", Pa!queryAdd(spot, Pa!At(spot, o), shut, other)'}
  BY <1>1, <1>2 DEF CaGood, CaCells, Pa!At
<1> QED BY <1>1, <1>3 DEF CaGood, CaOn, CaCells, Pa!At

\* Steps of the other parts leave the map alone, or it is not the part looked at.
LEMMA CaStep == (focus = "map cache" => CaGood) /\ [Next]_vars => (focus = "map cache" => CaGood)'
<1> SUFFICES ASSUME focus = "map cache" => CaGood, [Next]_vars, focus' = "map cache"
             PROVE  CaGood'
    OBVIOUS
<1>1. CASE UNCHANGED vars
  BY <1>1 DEF vars, mapCacheVars, CaGood, CaOn, CaCells, Pa!queryAdd
<1>2. CASE Next
  <2>1. focus = "map cache" /\ Pa!MapCacheNext
    BY <1>2 DEF Next, Only
  <2>2. CASE Pa!Load
    BY <2>1, <2>2, CaLoad
  <2>3. CASE Pa!onCreatureMove
    BY <2>1, <2>3, CaMove
  <2>4. CASE Pa!TileItem
    BY <2>1, <2>4, CaTile
  <2>5. CASE Pa!OtherMoves
    BY <2>1, <2>5, CaOther
  <2>6. CASE Pa!setGhostMode
    BY <2>1, <2>6, CaGhost
  <2> QED BY <2>1, <2>2, <2>3, <2>4, <2>5, <2>6 DEF Pa!MapCacheNext
<1> QED BY <1>1, <1>2

\* Creature::onCreatureMove and updateTileCache: whatever moves, opens and closes, and
\* however far the monster walks, a cell of its map that is not stale is right.
THEOREM MapCacheRight == Spec => []CacheRight
<1>1. Init => (focus = "map cache" => CaGood)
  BY CaInit
<1>2. (focus = "map cache" => CaGood) => CacheRight
  BY DEF Of, CacheRight, CaGood, CaCells, CaNot0, Pa!CacheRight
<1> QED BY <1>1, <1>2, CaStep, PTL DEF Spec

\* Monster::getDistanceStep and challengeCreature: a monster keeps its distance and its promise.
THEOREM HuntKept == Spec => []HuntRight
<1>1. StepsApart /\ ChallengeHolds => HuntRight
  BY DEF HuntRight
<1>2. QED BY <1>1, StepsKeepApart, ChallengeKept, PTL
=============================================================================

-------------------------------- MODULE Walk ---------------------------------
(***************************************************************************)
(* How a player walks and does what needs a walk first (creature.cpp,      *)
(* player.cpp, game.cpp).  A walk is a list of steps and a scheduler event *)
(* that takes the next one.  To use or move something far away the server  *)
(* posts playerAutoWalk with a path and keeps the request in walkTask,     *)
(* which is scheduled once the walk is complete; a request that comes too  *)
(* early after the last action waits in the action task, a scheduler event *)
(* that the player's own attacks use too.                                  *)
(*                                                                         *)
(* Of what kind a request is, whether its item is in reach, whether there  *)
(* is a path to it, and whether the player has to wait after its last      *)
(* action, is left open each time; so is where a step leads.  The list of  *)
(* steps is therefore its length.  Nobody may throw far                    *)
(* (PlayerFlag_CanThrowFar), and attacks are not of the classic speed.     *)
(***************************************************************************)
EXTENDS Integers, FiniteSets, SequencesExt

CONSTANTS Requests,   \* what the client asks for, each once
          MaxSteps,   \* bound: steps of a path
          MaxPosted,  \* bound: tasks in the dispatcher's queue
          MaxStrays,  \* bound: forgotten events
          None

VARIABLES walk,       \* listWalkDir, eventWalk and cancelNextWalk; events no longer owned
          tasks,      \* walkTask, walkTaskEvent and actionTaskEvent
          posted,     \* tasks of the player in the dispatcher's queue
          body,       \* what keeps the player from acting and walking
          asked,      \* of each request: whether the client has sent it, how often it was done
          stranded    \* "walk", "task": stopped, and not cleared

walkVars == <<walk, tasks, posted, body, asked, stranded>>

Attack == "attack"
Paths == 1..MaxSteps
Waiting == Requests \cup {Attack, None}

WalkTypeOK ==
    /\ walk \in [list : 0..MaxSteps, event : {"none", "pending", "spent"}, strays : 0..MaxStrays, cancel : BOOLEAN]
    /\ tasks \in [walkTask : Waiting, walkEvent : Waiting, action : Waiting]
    /\ \A k \in DOMAIN posted : posted[k].kind \in {"walk", "path", "task"}
    /\ body \in [blocked : BOOLEAN, halted : BOOLEAN]
    /\ asked \in [Requests -> [sent : BOOLEAN, done : 0..1]]
    /\ stranded \subseteq {"walk", "task"}

WalkInit ==
    /\ posted = <<>> /\ stranded = {}
    /\ walk = [list |-> 0, event |-> "none", strays |-> 0, cancel |-> FALSE]
    /\ tasks = [walkTask |-> None, walkEvent |-> None, action |-> None]
    /\ body = [blocked |-> FALSE, halted |-> FALSE]
    /\ asked = [r \in Requests |-> [sent |-> FALSE, done |-> 0]]

-----------------------------------------------------------------------------
(* A state s is a record of the variables; what may end in several ways    *)
(* gives a set of states.                                                  *)

Now == [walk |-> walk, tasks |-> tasks, posted |-> posted, body |-> body,
        asked |-> asked, stranded |-> stranded]

Become(s) ==
    /\ walk' = s.walk /\ tasks' = s.tasks /\ posted' = s.posted
    /\ body' = s.body /\ asked' = s.asked /\ stranded' = s.stranded

Post(s, kind, what) == [s EXCEPT !.posted = Append(@, [kind |-> kind, what |-> what])]

SetNextWalkActionTask(s, t) == [s EXCEPT !.tasks.walkEvent = None, !.tasks.walkTask = t]
SetNextActionTask(s, t) == [s EXCEPT !.tasks.action = t]

StopEventWalk(s) == [s EXCEPT !.walk.event = "none"]

\* Seeded fault: What waited for the walk is posted and goes on waiting.
OnWalkComplete_Keeps(s) ==
    IF s.tasks.walkTask = None THEN s ELSE [s EXCEPT !.tasks.walkEvent = s.tasks.walkTask]

\* Player::onWalkComplete and onWalkAborted.
OnWalkComplete(s) ==
    IF s.tasks.walkTask = None THEN s
    ELSE [s EXCEPT !.tasks.walkEvent = s.tasks.walkTask, !.tasks.walkTask = None]
OnWalkAborted(s) == SetNextWalkActionTask(s, None)

\* A new event for the walk.  One that is still pending is forgotten, but will come.
NewEvent(s) ==
    [s EXCEPT !.walk.event = "pending", !.stranded = {},
              !.walk.strays = IF s.walk.event = "pending" THEN @ + 1 ELSE @]

\* Creature::addEventWalk, but for the first step.
AddEventWalk(s) ==
    LET kept == [s EXCEPT !.walk.cancel = FALSE]
    IN  IF s.walk.event # "none" THEN kept ELSE NewEvent(kept)

\* Creature::onCreatureMove for a teleport.
Teleport(s) == [StopEventWalk(s) EXCEPT !.stranded = {"walk", "task"}]

\* Creature::getNextStep, Player::onWalk and internalMoveCreature: the next step, which
\* may end in a teleport.
TakeStep(s) ==
    LET out == [SetNextActionTask(s, None) EXCEPT !.walk.list = @ - 1]
    IN  {out, Teleport(out)}

\* Creature::onWalk, of an event that came after the walk delay or before it.
OnWalk(s) ==
    LET moved == IF s.walk.list > 0 THEN TakeStep(s) ELSE {OnWalkComplete(StopEventWalk(s))}
        aborted(t) == IF t.walk.cancel
                      THEN [OnWalkAborted(t) EXCEPT !.walk.list = 0, !.walk.cancel = FALSE] ELSE t
        again(t) == IF t.walk.event = "none" THEN t ELSE NewEvent([t EXCEPT !.walk.cancel = FALSE])
    IN  {again(aborted(t)) : t \in moved \cup {s}}

\* Creature::startAutoWalk, whose first step is taken at once when it is the only one and
\* the player has rested since the last.
StartAutoWalk(s, path) ==
    LET listed == [s EXCEPT !.walk.list = path]
        first == [listed EXCEPT !.walk.cancel = FALSE]
    IN  IF s.body.blocked THEN {[s EXCEPT !.stranded = @ \cup {"task"}]}
        ELSE {AddEventWalk(listed)}
             \cup IF path = 1 /\ s.walk.event = "none" THEN {NewEvent(t) : t \in OnWalk(first)} ELSE {}

-----------------------------------------------------------------------------
(* Requests                                                                *)

\* Too far away: Player::getPathTo finds no way, or the player is sent there and the request
\* is kept until that walk is complete.
Approach(s, r) == {s} \cup {SetNextWalkActionTask(Post(s, "path", path), r) : path \in Paths}

\* Too early after the last action.
Wait(s, r) == {SetNextActionTask(s, r)}

\* The request is carried out, or refused for a reason of its own.
Do(s, r) == {s, [s EXCEPT !.asked[r].done = @ + 1]}

\* Game::playerUseItem.
UseItem(s, r) == Approach(s, r) \cup Wait(s, r) \cup Do(SetNextActionTask(s, None), r)

\* Game::playerUseItemEx: the item or what it is used on may be too far away; an item at
\* hand is taken along.
UseItemEx(s, r) == Approach(s, r) \cup Wait(s, r) \cup Do(SetNextActionTask(s, None), r)

\* Game::playerUseWithCreature: the creature may be out of sight.
UseWithCreature(s, r) == {s} \cup UseItemEx(s, r)

\* Game::playerMoveItem: the item, or the wall it is hung on, may be too far away.
MoveItem(s, r) ==
    LET free == SetNextActionTask(s, None)
    IN  Wait(s, r) \cup Approach(free, r) \cup Do(free, r)

\* Game::playerMoveCreature: one that is rooted keeps the action task as it is.
PushCreature(s, r) ==
    LET free == SetNextActionTask(s, None)
    IN  Wait(s, r) \cup {s} \cup Approach(free, r) \cup Do(free, r)

\* Game::playerMoveThing for a creature: one next to the player is pushed a moment later.
MoveThing(s, r) == {SetNextActionTask(s, r)} \cup PushCreature(s, r)

\* Game::playerRotateItem and playerRequestTrade.
RotateItem(s, r) == Approach(s, r) \cup Do(s, r)
RequestTrade(s, r) == {s} \cup RotateItem(s, r)

\* A request, of any kind, that is tried again, and one that has just come.
Retry(s, r) ==
    UseItem(s, r) \cup UseItemEx(s, r) \cup UseWithCreature(s, r) \cup MoveItem(s, r)
    \cup PushCreature(s, r) \cup RotateItem(s, r) \cup RequestTrade(s, r)

Room == Len(posted) < MaxPosted

Ask(r) ==
    /\ Room /\ ~asked[r].sent
    /\ LET s == [Now EXCEPT !.asked[r].sent = TRUE]
       IN  \E t \in MoveThing(s, r) \cup Retry(s, r) : Become(t)

-----------------------------------------------------------------------------
(* The other steps                                                         *)

\* Game::playerMove: a step with an arrow key.
PlayerMove ==
    /\ ~body.blocked
    /\ \E t \in StartAutoWalk(SetNextWalkActionTask(Now, None), 1) : Become(t)

\* Game::playerAutoWalk: a click on the map, or the way to a request.  With the cliport
\* condition the player is teleported instead, and what waits for the walk goes on waiting.
AutoWalk(s, path) == StartAutoWalk(s, path) \cup {Teleport(s)} \cup {[s EXCEPT !.stranded = @ \cup {"task"}]}

ClientAutoWalk(path) == \E t \in AutoWalk(Now, path) : Become(t)

\* Game::playerStopAutoWalk.
StopAutoWalk == Become([Now EXCEPT !.walk.cancel = TRUE])

\* Player::doAttacking, when it is time: the next attack takes the place of the action task.
OnAttacking == tasks.action # Attack /\ Become(SetNextActionTask(Now, Attack))

\* Creature::setFollowCreature, of a creature in sight or of nobody.
SetFollowCreature(someone) ==
    Become(IF ~someone THEN [Now EXCEPT !.walk.cancel = TRUE]
           ELSE IF walk.list = 0 THEN Now
           ELSE OnWalkAborted([Now EXCEPT !.walk.list = 0]))

\* Player::goToFollowCreature, with or without a path.
GoToFollowCreature(path) ==
    /\ tasks.walkTask = None /\ ~body.blocked
    /\ \E t \in IF path = 0 THEN {[Now EXCEPT !.walk.list = 0]} ELSE StartAutoWalk(Now, path) : Become(t)

\* Creature::setSpeed, to a speed above zero or not.
SetSpeed(moving) ==
    LET s == [Now EXCEPT !.body.halted = ~moving]
    IN  Become(IF ~moving THEN [StopEventWalk(s) EXCEPT !.walk.cancel = TRUE, !.stranded = @ \cup {"task"}]
               ELSE IF body.halted /\ walk.list > 0 THEN AddEventWalk(s)
               ELSE s)

\* Creature::setMovementBlocked.
SetMovementBlocked(state) == Become([Now EXCEPT !.body.blocked = state, !.walk.cancel = TRUE])

\* player:teleportTo.
TeleportPlayer == Become(Teleport(Now))

\* The scheduler posts the task of an event whose time has come.
ExpireWalk ==
    /\ Room /\ walk.event = "pending"
    /\ Become(Post([Now EXCEPT !.walk.event = "spent"], "walk", None))
ExpireStray ==
    /\ Room /\ walk.strays > 0
    /\ Become(Post([Now EXCEPT !.walk.strays = @ - 1], "walk", None))
ExpireAction ==
    /\ Room /\ tasks.action # None
    /\ Become(Post(SetNextActionTask(Now, None), "task", tasks.action))
ExpireWalkTask ==
    /\ Room /\ tasks.walkEvent # None
    /\ Become(Post([Now EXCEPT !.tasks.walkEvent = None], "task", tasks.walkEvent))

\* The dispatcher runs the next task.  An attack plans the next one, or is not due yet.
RunPosted ==
    /\ posted # <<>>
    /\ LET s == [Now EXCEPT !.posted = Tail(@)]
           what == Head(posted).what
       IN  \E t \in CASE Head(posted).kind = "walk" -> OnWalk(s)
                      [] Head(posted).kind = "path" -> AutoWalk(s, what)
                      [] Head(posted).kind = "task" /\ what = Attack -> {s, SetNextActionTask(s, Attack)}
                      [] OTHER -> Retry(s, what) :
             t.walk.strays <= MaxStrays /\ Len(t.posted) <= MaxPosted /\ Become(t)

WalkNext ==
    \/ \E r \in Requests : Ask(r)
    \/ \E path \in Paths : ClientAutoWalk(path) \/ GoToFollowCreature(path)
    \/ GoToFollowCreature(0) \/ PlayerMove \/ StopAutoWalk \/ OnAttacking
    \/ \E b \in BOOLEAN : SetFollowCreature(b) \/ SetSpeed(b) \/ SetMovementBlocked(b)
    \/ TeleportPlayer
    \/ ExpireWalk \/ ExpireStray \/ ExpireAction \/ ExpireWalkTask \/ RunPosted

-----------------------------------------------------------------------------

WalkComes == walk.event = "pending" \/ walk.strays > 0 \/ \E k \in DOMAIN posted : posted[k].kind = "walk"

\* Creature::addEventWalk and stopEventWalk: a player with steps left to take has an event
\* that takes the next one, unless a teleport, a root or a loss of all speed stopped it.
WalkGoesOn == walk.list > 0 /\ "walk" \notin stranded /\ ~body.halted => WalkComes

\* Player::setNextWalkActionTask: a request kept for the end of a walk has a walk that is
\* going on or about to begin, with the same exceptions.
WalkTaskServed ==
    tasks.walkTask # None /\ "task" \notin stranded =>
       WalkComes \/ \E k \in DOMAIN posted : posted[k].kind = "path"

Copies(r) ==
    (IF tasks.walkTask = r THEN 1 ELSE 0) + (IF tasks.walkEvent = r THEN 1 ELSE 0)
    + (IF tasks.action = r THEN 1 ELSE 0) + Cardinality({k \in DOMAIN posted : posted[k].kind = "task" /\ posted[k].what = r})

\* However often a request is put off, stopped and tried again, it is carried out once.
ServedOnce == \A r \in Requests : asked[r].done + Copies(r) <= 1
=============================================================================

------------------------------ MODULE Creatures ------------------------------
(***************************************************************************)
(* Creatures in the game: who is in it, which check list calls its onThink,*)
(* who attacks, follows, targets or commands whom, and the reference       *)
(* counts that decide when a Creature object is deleted (game.cpp,         *)
(* creature.cpp, monster.cpp).                                             *)
(*                                                                         *)
(* Everything runs on the game thread.  A state s is a record of the       *)
(* members, and the methods are operators from state to state; an action   *)
(* is one task, except checkCreatures, which is one step for each creature *)
(* of the list so that what happens in the middle of the walk can be seen. *)
(*                                                                         *)
(* Abstractions.  A position is a place, and creatures see each other when *)
(* they are at the same place.  A list that is searched, but whose order   *)
(* never decides, is a set.  The order of a spectator vector decides only  *)
(* whether somebody hears of an event before or after the creature it is   *)
(* about: `early' are those that do.  Monsters are hostile, their types    *)
(* have no scripts, and a creature that is convinced has no summons.       *)
(***************************************************************************)
EXTENDS Naturals, FiniteSets, FiniteSetsExt, SequencesExt

CONSTANTS Persons,     \* Player objects
          Monsters,    \* the addresses of Monster objects
          Places,
          Buckets,     \* checkCreatureLists
          MaxTasks,    \* bound on the tasks other than checks
          None

VARIABLES cs,      \* the creatures
          walk,    \* the walk of checkCreatures: its list and who was visited, or None
          tasks    \* the number of tasks so far

Creatures == Persons \cup Monsters

creatureVars == <<cs, walk, tasks>>

\* The members of Creature and Monster before a creature is in the game.
NoCreatures ==
    [life |-> [c \in Creatures |-> "none"],         \* none, placed, removed, deleted
     place |-> [c \in Creatures |-> CHOOSE p \in Places : TRUE],
     dead |-> {},                                   \* health is 0
     refs |-> [c \in Creatures |-> 0],              \* referenceCounter
     creatureCheck |-> {},
     list |-> [c \in Creatures |-> None],           \* the check list that holds it
     targetList |-> [c \in Creatures |-> {}],
     friendList |-> [c \in Creatures |-> {}],
     summons |-> [c \in Creatures |-> {}],
     master |-> [c \in Creatures |-> None],
     attacked |-> [c \in Creatures |-> None],
     follow |-> [c \in Creatures |-> None],
     release |-> [c \in Creatures |-> 0],           \* ToReleaseCreatures
     deaths |-> {}]                                 \* executeDeath tasks

CreaturesTypeOK ==
    /\ \A c \in Creatures :
        /\ cs.life[c] \in {"none", "placed", "removed", "deleted"} /\ cs.place[c] \in Places
        /\ cs.refs[c] \in Nat /\ cs.release[c] \in Nat
        /\ cs.list[c] \in Buckets \cup {None}
        /\ {cs.master[c], cs.attacked[c], cs.follow[c]} \subseteq Creatures \cup {None}
        /\ cs.targetList[c] \cup cs.friendList[c] \cup cs.summons[c] \subseteq Creatures
    /\ cs.dead \cup cs.creatureCheck \cup cs.deaths \subseteq Creatures
    /\ walk = None \/ (walk.index \in Buckets /\ walk.visited \subseteq Creatures)

-----------------------------------------------------------------------------
(* Reference counts                                                        *)

Count(c, set) == IF c \in set THEN 1 ELSE 0

InGame(s) == {c \in Creatures : s.life[c] = "placed"}

Spectators(s, p) == {c \in InGame(s) : s.place[c] = p}

Sees(s, a, b) == s.place[a] = s.place[b]

\* Monster::clearTargetList, clearFriendList
ClearLists(s, m) ==
    [s EXCEPT !.refs = [c \in Creatures |-> @[c] - Count(c, s.targetList[m]) - Count(c, s.friendList[m])],
              !.targetList[m] = {}, !.friendList[m] = {}]

\* removeMaster of each of the summons in set, which forget their target as well
RemoveMasters(s, set) ==
    [s EXCEPT !.refs = [c \in Creatures |-> @[c] - Count(c, set)],
              !.master = [c \in Creatures |-> IF c \in set THEN None ELSE @[c]],
              !.attacked = [c \in Creatures |-> IF c \in set THEN None ELSE @[c]]]

\* ~Monster and ~Creature
Delete(s, c) ==
    LET freed == RemoveMasters(ClearLists(s, c), s.summons[c])
    IN  [freed EXCEPT !.life[c] = "deleted", !.place[c] = CHOOSE p \in Places : TRUE,
                      !.summons[c] = {}, !.master[c] = None, !.attacked[c] = None,
                      !.follow[c] = None, !.dead = @ \ {c}, !.deaths = @ \ {c}]

\* decrementReferenceCounter deletes the object when nobody refers to it any more;
\* deleting one can release others.
Reap(s) ==
    LET once(t, i) ==
            FoldSet(LAMBDA c, u : Delete(u, c), t,
                    {c \in Creatures : t.life[c] = "removed" /\ t.refs[c] = 0})
    IN  FoldLeft(once, s, [i \in 1 .. Cardinality(Creatures) |-> i])

\* Game::cleanup
Cleanup(s) ==
    Reap([s EXCEPT !.refs = [c \in Creatures |-> @[c] - s.release[c]],
                   !.release = [c \in Creatures |-> 0]])

-----------------------------------------------------------------------------
(* Check lists and idle monsters                                           *)

\* Game::addCreatureCheck; b is the random list.
AddCreatureCheck(s, c, b) ==
    IF s.list[c] # None THEN [s EXCEPT !.creatureCheck = @ \cup {c}]
    ELSE [s EXCEPT !.creatureCheck = @ \cup {c}, !.list[c] = b, !.refs[c] = @ + 1]

\* Game::removeCreatureCheck
RemoveCreatureCheck(s, c) ==
    IF s.list[c] # None THEN [s EXCEPT !.creatureCheck = @ \ {c}] ELSE s

\* Monster::setIdle
SetIdle(s, m, idle, b) ==
    CASE s.life[m] = "removed" \/ m \in s.dead -> s
      [] idle -> RemoveCreatureCheck(ClearLists(s, m), m)
      [] OTHER -> AddCreatureCheck(s, m, b)

IsSummon(s, c) == s.master[c] # None

\* Monster::updateIdleStatus
UpdateIdleStatus(s, m, b) == SetIdle(s, m, ~IsSummon(s, m) /\ s.targetList[m] = {}, b)

-----------------------------------------------------------------------------
(* Targets, friends, masters                                               *)

HasPlayerMaster(s, c) == s.master[c] \in Persons

IsFriend(s, m, c) ==
    IF HasPlayerMaster(s, m) THEN s.master[m] \in {c, s.master[c]}
    ELSE c \in Monsters /\ ~IsSummon(s, c)

IsOpponent(s, m, c) ==
    IF HasPlayerMaster(s, m) THEN c # s.master[m]
    ELSE c \in Persons \/ HasPlayerMaster(s, c)

\* addFriend and addTarget
OnCreatureFound(s, m, c, b) ==
    LET friend == IsFriend(s, m, c) /\ c \notin s.friendList[m]
        target == IsOpponent(s, m, c) /\ c \notin s.targetList[m]
        found == [s EXCEPT !.friendList[m] = IF friend THEN @ \cup {c} ELSE @,
                           !.targetList[m] = IF target THEN @ \cup {c} ELSE @,
                           !.refs[c] = @ + Count(TRUE, {friend}) + Count(TRUE, {target})]
    IN  IF Sees(s, m, c) THEN UpdateIdleStatus(found, m, b) ELSE s

\* removeFriend, removeTarget: decided by what the creature is now, not by what it was when found.
OnCreatureLeave(s, m, c, b) ==
    LET friend == IsFriend(s, m, c) /\ c \in s.friendList[m]
        opponent == IsOpponent(s, m, c)
        left == [s EXCEPT !.friendList[m] = IF friend THEN @ \ {c} ELSE @,
                          !.targetList[m] = IF opponent THEN @ \ {c} ELSE @,
                          !.refs[c] = @ - Count(TRUE, {friend})
                                        - Count(TRUE, {opponent /\ c \in s.targetList[m]})]
    IN  IF opponent THEN UpdateIdleStatus(left, m, b) ELSE left

UpdateTargetList(s, m, b) ==
    LET gone == {c \in Creatures : c \in s.dead \/ ~Sees(s, m, c)}
        pruned == [s EXCEPT !.targetList[m] = @ \ gone, !.friendList[m] = @ \ gone,
                            !.refs = [c \in Creatures |-> @[c] - Count(c, gone \cap s.targetList[m])
                                                               - Count(c, gone \cap s.friendList[m])]]
    IN  FoldSet(LAMBDA c, t : OnCreatureFound(t, m, c, b), pruned,
                Spectators(s, s.place[m]) \ {m})

\* The summons take over the target of their master if they can see it; a player that
\* gives up its target stops chasing.
SetAttackedCreature(s, a, c) ==
    LET can(x) == c = None \/ Sees(s, x, c)
        given(x) == x = a \/ (x \in s.summons[a] /\ can(a))
    IN  [s EXCEPT !.attacked = [x \in Creatures |->
            IF ~given(x) THEN @[x] ELSE IF can(x) THEN c ELSE None],
              !.follow[a] = IF a \in Persons /\ c = None THEN None ELSE @]

SetFollowCreature(s, a, c) ==
    [s EXCEPT !.follow[a] = IF c = None \/ Sees(s, a, c) \/ @ = c THEN c ELSE None]

SetMaster(s, c, m) ==
    [s EXCEPT !.master[c] = m,
              !.summons = [x \in Creatures |-> IF x = m THEN @[x] \cup {c} ELSE @[x] \ {c}],
              !.refs[c] = @ + Count(TRUE, {m # None}) - Count(TRUE, {s.master[c] # None})]

\* Monster::isTarget and selectTarget
SelectTarget(s, m, c) ==
    IF s.life[c] = "placed" /\ c \in s.targetList[m]
    THEN SetFollowCreature(SetAttackedCreature(s, m, c), m, c)
    ELSE s

OnCreatureDisappear(s, a, c) ==
    LET lost == IF s.attacked[a] = c THEN SetAttackedCreature(s, a, None) ELSE s
    IN  IF s.follow[a] = c THEN SetFollowCreature(lost, a, None) ELSE lost

\* Everybody in set hears of an event about c: early, c itself, then the others.
Notify(s, set, early, c, hear(_, _)) ==
    LET some(t, part) == FoldSet(LAMBDA x, u : hear(u, x), t, part)
    IN  some(some(some(s, (set \cap early) \ {c}), set \cap {c}), set \ (early \cup {c}))

-----------------------------------------------------------------------------
(* Entering, leaving and moving                                            *)

\* Creature::onRemoveCreature and Monster::onRemoveCreature
OnRemoveCreature(s, x, c, b) ==
    LET lost == OnCreatureDisappear(s, x, c)
        alone == IF lost.master[c] # None /\ lost.life[lost.master[c]] = "placed"
                 THEN SetMaster(lost, c, None) ELSE lost
    IN  CASE x = c -> IF c \in Monsters THEN SetIdle(alone, c, TRUE, b) ELSE alone
          [] x # c /\ x \in Monsters -> OnCreatureLeave(lost, x, c, b)
          [] OTHER -> lost

\* Game::removeCreature up to the summons
RemoveOne(s, c, early, b) ==
    LET heard == Notify(s, Spectators(s, s.place[c]), early, c,
                        LAMBDA t, x : OnRemoveCreature(t, x, c, b))
        removed == [heard EXCEPT !.life[c] = "removed", !.release[c] = @ + 1]
    IN  IF s.life[c] = "placed" THEN RemoveCreatureCheck(removed, c) ELSE s

RemoveCreature(s, c, early, b) ==
    LET one == RemoveOne(s, c, early, b)
    IN  IF s.life[c] # "placed" THEN s
        ELSE FoldSet(LAMBDA x, t : RemoveOne(t, x, early, b), one, one.summons[c])

\* onCreatureAppear of a monster that is at the place already, or of the one that appears
OnCreatureAppear(s, x, c, b) ==
    CASE x \notin Monsters -> s
      [] x = c -> UpdateIdleStatus(UpdateTargetList(s, c, b), c, b)
      [] OTHER -> OnCreatureFound(s, x, c, b)

\* Game::placeCreature of a new object
PlaceCreature(s, c, p, early, b) ==
    LET placed == [s EXCEPT !.life[c] = "placed", !.place[c] = p, !.refs[c] = 1]
    IN  AddCreatureCheck(Notify(placed, Spectators(placed, p), early, c,
                                LAMBDA t, x : OnCreatureAppear(t, x, c, b)), c, b)

\* The end of Creature::onCreatureMove: a target that is out of sight is given up.
GiveUpUnseen(s, x, c) ==
    LET check(t, y) == IF y # None /\ c \in {x, y} /\ ~Sees(t, x, y) THEN OnCreatureDisappear(t, x, y) ELSE t
        followed == check(s, s.follow[x])
    IN  check(followed, followed.attacked[x])

\* Creature::onCreatureMove: the summons a master has left too far behind are removed.
Creature_onCreatureMove(s, x, c, far, early, b) ==
    LET behind == IF x = c THEN s.summons[c] \cap far ELSE {}
    IN  GiveUpUnseen(FoldSet(LAMBDA y, t : RemoveOne(t, y, early, b), s, behind), x, c)

\* Monster::onCreatureMove; an opponent in the way, or any if there is no target, is picked.
Monster_onCreatureMove(s, x, c, from, blocker, b) ==
    LET sees == s.place[x] = s.place[c]
        saw == s.place[x] = from
        seen == CASE sees /\ ~saw -> OnCreatureFound(s, x, c, b)
                  [] ~sees /\ saw -> OnCreatureLeave(s, x, c, b)
                  [] OTHER -> s
        idle == UpdateIdleStatus(seen, x, b)
        pick == IF idle.follow[x] = None THEN c ELSE blocker
    IN  IF x = c THEN UpdateIdleStatus(UpdateTargetList(s, x, b), x, b)
        ELSE IF ~IsSummon(idle, x) /\ pick \notin {None, idle.follow[x]} /\ IsOpponent(idle, x, pick)
             THEN SelectTarget(idle, x, pick) ELSE idle

\* Map::moveCreature
MoveCreature(s, c, to, far, blocker, early, b) ==
    LET from == s.place[c]
        moved == [s EXCEPT !.place[c] = to]
        hear(t, x) ==
            LET u == Creature_onCreatureMove(t, x, c, far, early, b)
            IN  IF x \in Monsters THEN Monster_onCreatureMove(u, x, c, from, blocker, b) ELSE u
    IN  Notify(moved, Spectators(s, from) \cup Spectators(s, to), early, c, hear)

\* changeHealth to 0 posts executeDeath; a monster is woken up first.
Kill(s, c, b) ==
    LET woken == IF c \in Monsters THEN SetIdle(s, c, FALSE, b) ELSE s
    IN  [woken EXCEPT !.dead = @ \cup {c}, !.deaths = @ \cup {c}]

\* Monster::death
MonsterDeath(s, m, b) ==
    LET calm == SetAttackedCreature(s, m, None)
        killed == FoldSet(LAMBDA x, t : Kill(t, x, b), calm, s.summons[m])
    IN  ClearLists([RemoveMasters(killed, s.summons[m]) EXCEPT !.summons[m] = {},
                    !.attacked = killed.attacked], m)

\* Creature::onDeath
OnDeath(s, c, early, b) ==
    LET died == IF c \in Monsters THEN MonsterDeath(s, c, b) ELSE s
        alone == IF died.master[c] # None THEN SetMaster(died, c, None) ELSE died
    IN  RemoveCreature(alone, c, early, b)

-----------------------------------------------------------------------------
(* Thinking                                                                *)

\* goToFollowCreature of a summon that finds no path drops the target (onFollowCreatureComplete).
OnFollowCreatureComplete(s, m, path) ==
    IF ~path /\ IsSummon(s, m) /\ s.follow[m] \in s.targetList[m]
    THEN [s EXCEPT !.targetList[m] = @ \ {s.follow[m]}, !.refs[s.follow[m]] = @ - 1]
    ELSE s

\* Creature::onThink: a target that became invisible is given up, the path is renewed.
Creature_onThink(s, c, unseen, path) ==
    LET drop(t, x) == IF x \in unseen /\ t.master[c] # x THEN OnCreatureDisappear(t, c, x) ELSE t
        followed == drop(s, s.follow[c])
        seen == drop(followed, followed.attacked[c])
    IN  OnFollowCreatureComplete(seen, c, path)

\* The part of Monster::onThink of a monster that is awake; pick is the target searchTarget finds.
Hunt(s, m, pick) ==
    LET order == s.attacked[s.master[m]]
    IN  CASE IsSummon(s, m) /\ s.attacked[m] = None ->
                IF order # None THEN SelectTarget(s, m, order) ELSE SetFollowCreature(s, m, s.master[m])
          [] IsSummon(s, m) /\ s.attacked[m] # None ->
                SetFollowCreature(s, m, IF s.attacked[m] = m THEN None ELSE s.attacked[m])
          [] OTHER -> IF pick # None THEN SelectTarget(s, m, pick) ELSE s

\* Monster::onThinkDefense: the new summon appears first and gets its master after that.
SummonMonster(s, m, c, early, b) ==
    SetMaster(PlaceCreature(s, c, s.place[m], early, b), c, m)

-----------------------------------------------------------------------------
(* The tasks                                                               *)

\* One player is in the game, and next to it one monster.
CreaturesInit ==
    LET p == CHOOSE c \in Persons : TRUE
        m == CHOOSE c \in Monsters : TRUE
        here == CHOOSE q \in Places : TRUE
        b == CHOOSE q \in Buckets : TRUE
    IN  /\ cs = PlaceCreature(PlaceCreature(NoCreatures, p, here, {}, b), m, here, {}, b)
        /\ walk = None
        /\ tasks = 0

\* The deletions are those of the decrements that the task has made.
Task(s) ==
    /\ tasks < MaxTasks /\ tasks' = tasks + 1
    /\ cs' = Reap(s)
    /\ UNCHANGED walk

Place(c) ==
    /\ cs.life[c] = "none"
    /\ \E p \in Places, early \in {{}, Creatures}, b \in Buckets :
          Task(PlaceCreature(cs, c, p, early, b))

\* A logout, a script, a raid or a spawn that clears.
Depart(c) ==
    /\ cs.life[c] = "placed"
    /\ \E early \in {{}, Creatures}, b \in Buckets : Task(RemoveCreature(cs, c, early, b))

Move(c) ==
    /\ cs.life[c] = "placed"
    /\ \E to \in Places \ {cs.place[c]}, blocker \in InGame(cs) \cup {None}, far \in {{}, Creatures},
          early \in {{}, Creatures}, b \in Buckets :
          Task(MoveCreature(cs, c, to, far, blocker, early, b))

\* Player::setAttackedCreature, with and without chasing
Attack(p) ==
    /\ p \in InGame(cs) \cap Persons
    /\ \E c \in (InGame(cs) \ {p}) \cup {None}, chase \in BOOLEAN :
          LET set == SetAttackedCreature(cs, p, c)
          IN  Task(IF set.attacked[p] = c
                   THEN SetFollowCreature(set, p, IF chase THEN c ELSE None) ELSE set)

\* A hit of a creature whose health does not suffice.
Hit(c) ==
    /\ cs.life[c] = "placed" /\ c \notin cs.dead
    /\ \E b \in Buckets : Task(Kill(cs, c, b))

\* Game::executeDeath
ExecuteDeath(c) ==
    /\ c \in cs.deaths
    /\ \E early \in {{}, Creatures}, b \in Buckets :
          Task([IF cs.life[c] = "placed" THEN OnDeath(cs, c, early, b) ELSE cs
                EXCEPT !.deaths = @ \ {c}])

\* The convince spell: a wild monster becomes the summon of a player.
Convince(p, m) ==
    /\ {p, m} \subseteq InGame(cs) /\ ~IsSummon(cs, m) /\ cs.summons[m] = {}
    /\ Task(SetMaster(cs, m, p))

Summon(m, c) ==
    /\ cs.life[m] = "placed" /\ cs.life[c] = "none" /\ ~IsSummon(cs, m)
    /\ \E early \in {{}, Creatures}, b \in Buckets : Task(SummonMonster(cs, m, c, early, b))

\* checkCreatureWalk and checkDecay end with cleanup()
CleanupTask == cs' = Cleanup(cs) /\ UNCHANGED <<walk, tasks>>

CheckCreatures ==
    /\ walk = None
    /\ \E index \in Buckets : walk' = [index |-> index, visited |-> {}]
    /\ UNCHANGED <<cs, tasks>>

\* One turn of the loop of checkCreatures.
CheckOne(c) ==
    /\ walk # None /\ cs.list[c] = walk.index /\ c \notin walk.visited
    /\ walk' = [walk EXCEPT !.visited = @ \cup {c}] /\ UNCHANGED tasks
    /\ \/ /\ c \notin cs.creatureCheck
          /\ cs' = [cs EXCEPT !.list[c] = None, !.release[c] = @ + 1]
       \/ c \in cs.creatureCheck /\ c \in cs.dead /\ UNCHANGED cs
       \/ /\ c \in cs.creatureCheck \cap Persons /\ c \notin cs.dead
          /\ \E unseen \in {{}, Creatures} : cs' = Reap(Creature_onThink(cs, c, unseen, TRUE))
       \/ /\ c \in cs.creatureCheck \cap Monsters /\ c \notin cs.dead
          /\ \E unseen \in {{}, Creatures}, path \in BOOLEAN, pick \in cs.targetList[c] \cup {None},
                b \in Buckets :
                LET thought == UpdateIdleStatus(Creature_onThink(cs, c, unseen, path), c, b)
                IN  cs' = Reap(IF c \in thought.creatureCheck THEN Hunt(thought, c, pick) ELSE thought)

\* The end of the loop.
CheckDone ==
    /\ walk # None /\ {c \in Creatures : cs.list[c] = walk.index} \subseteq walk.visited
    /\ walk' = None
    /\ cs' = Cleanup(cs)
    /\ UNCHANGED tasks

CreaturesNext ==
    \/ \E c \in Creatures : Hit(c) \/ Depart(c) \/ CheckOne(c)
    \/ \E c \in Creatures : walk = None /\ (Place(c) \/ Move(c) \/ ExecuteDeath(c))
    \/ \E p \in Persons : walk = None /\ (Attack(p) \/ \E m \in Monsters : Convince(p, m))
    \/ \E m \in Creatures, c \in Monsters : Summon(m, c)
    \/ CleanupTask \/ CheckCreatures \/ CheckDone

-----------------------------------------------------------------------------
(* Properties                                                              *)

\* The counts are exact: one for being in the game, for the check list, for each pending
\* release, and for each list that holds the creature; and a deleted object is in none.
ReferencesExact ==
    \A c \in Creatures :
        /\ cs.refs[c] = Count(c, InGame(cs)) + Count(TRUE, {cs.list[c] # None}) + cs.release[c]
                        + Cardinality({m \in Creatures : c \in cs.targetList[m]})
                        + Cardinality({m \in Creatures : c \in cs.friendList[m]})
                        + Cardinality({m \in Creatures : c \in cs.summons[m]})
        /\ cs.life[c] = "deleted" => cs.refs[c] = 0

\* A creature in the game never points at a creature that left it, though these pointers
\* are not counted.
NoDangling ==
    \A c \in InGame(cs) : {cs.attacked[c], cs.follow[c], cs.master[c]} \subseteq InGame(cs) \cup {None}

\* A living monster in the game with a target is checked: it never sleeps through an attack.
AwakeWithTarget ==
    \A m \in InGame(cs) \cap Monsters :
        m \notin cs.dead /\ cs.targetList[m] # {} => m \in cs.creatureCheck /\ cs.list[m] # None
=============================================================================

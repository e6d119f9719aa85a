---------------------------------- MODULE Hunting ----------------------------------
(***************************************************************************)
(* How a hostile monster, no summon, hunts (monster.cpp): which of its     *)
(* targets it takes and when it changes, its challenge by a player, and    *)
(* its spells, whose paces share one counter of ticks for attacks and one  *)
(* for defence, both set back when every spell had its turn.               *)
(*                                                                         *)
(* It thinks once in Interval of time or later.  Besides, an attack        *)
(* without an interval is posted when it takes a target.  Who is a fair    *)
(* target, in reach and in sight is nondeterministic, and so are chances.  *)
(* The monster follows what it attacks.                                    *)
(*                                                                         *)
(* How a monster chooses its steps (monster.cpp): to keep its distance     *)
(* from the creature it follows, to dance around it, to flee from it, and  *)
(* how it clears the tile it is about to step on of a crate or of a weaker *)
(* monster.                                                                *)
(*                                                                         *)
(* A step is a vector <<dx, dy>>; y grows southwards.  The tile is large   *)
(* enough for one creature or one crate; the limit of 20 items pushed from *)
(* one tile is not reached.  The search for a way is in Paths, the clock   *)
(* of the steps in Walk; here a found way is any step that the tile lets   *)
(* happen.                                                                 *)
(***************************************************************************)
EXTENDS Integers, Sequences, FiniteSets, SequencesExt, Functions

CONSTANTS Prey,            \* the creatures that come into its target list
          AttackSpells,    \* sequence of [speed, range, melee]; range 0: any
          DefenseSpeed,    \* of its one spell of defence
          SummonMax,       \* summonBlock.max, for each kind of summon
          MaxSummons,      \* mType->info.maxSummons
          SummonSpeed,     \* summonBlock.speed
          Interval,        \* EVENT_CREATURE_THINK_INTERVAL
          ChangeSpeed,     \* mType->info.changeTargetSpeed
          Challenge,       \* the 8000 ms of challengeCreature
          TargetDistance,  \* mType->info.targetDistance
          MaxPosted,       \* bound on posted attacks
          Field,           \* the tiles: <<x, y>>
          Dim,             \* pairs of tiles that do not see each other
          Stands,          \* bound: where the creature it follows may be
          Clutter,         \* bound: where a crate or a weaker monster may come up
          StepDistance,    \* mType->info.targetDistance
          AttackRange,     \* range of its spells
          None

VARIABLES hunter,    \* target, its path, updating, walkingToSpawn, the ticks, posted attacks, and
                     \* weak: its health is at most runAwayHealth
          targets,   \* targetList
          summons,   \* kind -> number
          since,     \* time since the last use of each attack spell, up to its speed
          due,       \* time until its next turn to think, or Turn: it has thought and attacks next
          vow,       \* who challenged it, and how many of its thoughts it must go on with them
          me, you,   \* positions of the monster and of the creature it follows
          walkDir,   \* listWalkDir: at most one step here
          fleeing,   \* isFleeing()
          stepTime,  \* stepDuration
          thing      \* [kind: "none", "crate", "critter" or "dying", at]

huntVars == <<hunter, targets, summons, since, due, vow>>

Slots == DOMAIN AttackSpells
Spells == {i \in Slots : ~AttackSpells[i].melee}
LongestSpell == IF Spells = {} THEN 0 ELSE Max({AttackSpells[i].speed : i \in Spells})
Turn == Interval + 1
\* Distances that make a difference: within each range, and beyond.
Distances == {1} \cup {AttackSpells[i].range + 1 : i \in {j \in Slots : AttackSpells[j].range # 0}}
NoVow == [who |-> None, left |-> 0]

HuntingTypeOK ==
    /\ hunter.target \in Prey \cup {None}
    /\ hunter.attackTicks \in 0..(LongestSpell + Interval) /\ hunter.defenseTicks \in 0..(DefenseSpeed + SummonSpeed)
    /\ hunter.cooldown \in 0..Max({Challenge, ChangeSpeed}) /\ hunter.focus \in 0..Challenge
    /\ hunter.changeTicks \in 0..ChangeSpeed
    /\ hunter.posted \in 0..MaxPosted
    /\ ToSet(targets) \subseteq Prey /\ Len(targets) = Cardinality(ToSet(targets))
    /\ \A i \in Slots : since[i] \in 0..AttackSpells[i].speed
    /\ due \in 0..Turn

HuntingInit ==
    /\ hunter = [target |-> None, path |-> FALSE, updating |-> FALSE, toSpawn |-> FALSE, weak |-> FALSE,
                 attackTicks |-> 0, defenseTicks |-> 0, cooldown |-> 0, changeTicks |-> 0, focus |-> 0, posted |-> 0]
    /\ targets = <<>> /\ summons = [k \in DOMAIN SummonMax |-> 0]
    /\ since = [i \in Slots |-> AttackSpells[i].speed] /\ due = Interval /\ vow = NoVow

-----------------------------------------------------------------------------
(* Targets.  A state s is a record of hunter, targets and vow.             *)

Now == [h |-> hunter, l |-> targets, v |-> vow]
Become(s) == hunter' = s.h /\ targets' = s.l /\ vow' = s.v

isFleeing(h) == h.weak /\ h.focus <= 0

\* Creature::setFollowCreature: the way to the one it follows already is kept.
setFollowCreature(s, c) ==
    IF s.h.target = c THEN s ELSE [s EXCEPT !.h.target = c, !.h.path = FALSE, !.h.updating = c # None]

\* Monster::selectTarget, for a fair target in the list; the attack is posted.
selectTarget(s, c) ==
    LET t == setFollowCreature(s, c)
    IN [t EXCEPT !.h.posted = IF @ < MaxPosted THEN @ + 1 ELSE @]

\* Monster::searchTarget with the targets that are fair and those it could
\* attack from here: the states it may leave.
searchTarget(s, type, fair, inReach) ==
    LET good == ToSet(s.l) \cap fair
        result == {c \in good \ {s.h.target} : type = "random" \/ c \in inReach}
        others == SelectSeq(s.l, LAMBDA c : c \in good \ {s.h.target})
        first == IF others = <<>> THEN {s} ELSE {selectTarget(s, others[1])}
    IN CASE type = "nearest" ->
                IF result # {} THEN {selectTarget(s, c) : c \in result}
                ELSE IF good # {} THEN {selectTarget(s, c) : c \in good} ELSE first
         [] type # "nearest" /\ result # {} -> {selectTarget(s, c) : c \in result}
         [] type = "attackrange" /\ result = {} -> {s}
         [] type \in {"random", "default"} /\ result = {} -> first

\* Monster::onFollowCreatureComplete
onFollowCreatureComplete(s) ==
    LET c == s.h.target
        rest == SelectSeq(s.l, LAMBDA x : x # c)
    IN IF c \notin ToSet(s.l) THEN s
       ELSE [s EXCEPT !.l = IF s.h.path THEN <<c>> \o rest ELSE Append(rest, c)]

\* The search for a way, if one is due: it ends with a way or without, and
\* some ways of it do not get to onFollowCreatureComplete.
UpdatePath(s) ==
    IF ~s.h.updating THEN {s}
    ELSE UNION {LET t == [s EXCEPT !.h.path = found, !.h.updating = FALSE]
                IN {t, onFollowCreatureComplete(t)} : found \in BOOLEAN}

\* The one that is followed was lost sight of, or the way must be searched again.
Update(s, news) ==
    IF news = "lost"
    THEN [s EXCEPT !.l = SelectSeq(@, LAMBDA x : x # s.h.target),
                   !.h.target = None, !.h.path = FALSE, !.h.updating = FALSE,
                   !.v = IF @.who = s.h.target THEN NoVow ELSE @]
    ELSE [s EXCEPT !.h.updating = @ \/ news = "again"]

\* A search because the way is lost releases it from a challenge; in a search
\* that is made for fleeing or for a change it is not released.
Search(s, fair, inReach) ==
    IF s.l = <<>> THEN {s}
    ELSE IF s.h.target = None \/ ~s.h.path
         THEN {[t EXCEPT !.v = IF t.h.target = s.h.target THEN t.v ELSE NoVow] :
                 t \in searchTarget(s, "default", fair, inReach)}
    ELSE IF isFleeing(s.h) /\ s.h.target \notin inReach THEN searchTarget(s, "attackrange", fair, inReach)
    ELSE {s}

AtLeastZero(n) == IF n < 0 THEN 0 ELSE n

\* Monster::onThinkTarget; chance: changeTargetChance
onThinkTarget(s, chance, fair, inReach) ==
    IF ChangeSpeed = 0 THEN {s}
    ELSE LET left == AtLeastZero(s.h.cooldown - Interval)
             t == [s EXCEPT !.h.focus = AtLeastZero(@ - Interval), !.h.cooldown = left,
                            !.h.changeTicks = IF s.h.cooldown > 0 /\ left = 0 THEN ChangeSpeed ELSE @]
             may == left = 0
             ticks == t.h.changeTicks + Interval
         IN IF ~may THEN {t}
            ELSE IF ticks < ChangeSpeed THEN {[t EXCEPT !.h.changeTicks = ticks]}
            ELSE LET u == [t EXCEPT !.h.changeTicks = 0, !.h.cooldown = ChangeSpeed, !.h.focus = 0]
                 IN IF ~chance THEN {u}
                    ELSE searchTarget(u, IF TargetDistance <= 1 THEN "random" ELSE "nearest", fair, inReach)

Keeps(s) == IF s.v.left = 0 THEN s ELSE [s EXCEPT !.v = IF @.left = 1 THEN NoVow ELSE [who |-> @.who, left |-> @.left - 1]]

-----------------------------------------------------------------------------
(* Spells and summons                                                      *)

\* Monster::canUseSpell for slot i at a distance.
canUseSpell(i, ticks, interval, distance) ==
    LET sb == AttackSpells[i]
    IN /\ IF sb.melee THEN ~isFleeing(hunter) /\ since[i] >= sb.speed
          ELSE sb.speed <= ticks /\ ticks % sb.speed < interval
       /\ sb.range # 0 => distance <= sb.range

\* A melee swing out of reach: the next one need not wait.
OutOfReach(i, distance) ==
    /\ AttackSpells[i].melee /\ ~isFleeing(hunter) /\ since[i] >= AttackSpells[i].speed
    /\ AttackSpells[i].range # 0 /\ distance > AttackSpells[i].range

\* Monster::doAttacking.  The spells cast are those of C; the one of slot
\* last, if any, leaves it without a target.
doAttacking(interval) ==
    \E distance \in Distances, C \in SUBSET Slots, last \in Slots \cup {0} :
        LET ticks == hunter.attackTicks + interval
            reached == IF last = 0 THEN Slots ELSE 1..last
        IN /\ last # 0 => last \in C
           /\ C \subseteq {i \in reached : canUseSpell(i, ticks, interval, distance)}
           /\ hunter' = [hunter EXCEPT
                  !.attackTicks = IF interval # 0 /\ \A i \in Spells \cap reached : AttackSpells[i].speed <= ticks
                                  THEN 0 ELSE ticks,
                  !.posted = IF interval = 0 THEN @ - 1 ELSE @,
                  !.target = IF last = 0 THEN @ ELSE None,
                  !.path = @ /\ last = 0, !.updating = @ /\ last = 0]
           /\ targets' = IF last = 0 THEN targets ELSE SelectSeq(targets, LAMBDA c : c # hunter.target)
           /\ vow' = IF last # 0 /\ vow.who = hunter.target THEN NoVow ELSE vow
           /\ since' = [i \in Slots |-> IF i \in C THEN 0
                                        ELSE IF OutOfReach(i, distance) /\ i \in reached THEN AttackSpells[i].speed
                                        ELSE since[i]]

\* Creature::onAttacking asks for sight first.
Attack ==
    /\ due = Turn /\ due' = Interval
    /\ \/ hunter.target # None /\ doAttacking(Interval)
       \/ UNCHANGED <<hunter, targets, since, vow>>
    /\ UNCHANGED summons

Total(S) == FoldFunction(+, 0, S)

\* The summons that come at these ticks: each kind at most once in a thought.
Callable(k, ticks) == SummonSpeed <= ticks /\ ticks % SummonSpeed < Interval /\ summons[k] < SummonMax[k]

\* Monster::onThinkDefense
onThinkDefense(s, K) ==
    LET ticks == s.h.defenseTicks + Interval
        may == Total(summons) < MaxSummons /\ s.h.path
    IN /\ K # {} => may /\ Cardinality(K) + Total(summons) <= MaxSummons
       /\ summons' = [k \in DOMAIN summons |-> IF k \in K THEN summons[k] + 1 ELSE summons[k]]
       /\ Become([s EXCEPT !.h.defenseTicks =
              IF DefenseSpeed <= ticks /\ (may => SummonSpeed <= ticks) THEN 0 ELSE ticks])

\* Monster::onThink, at its turn in Game::checkCreatures, before its attack.
Think ==
    /\ due = 0 /\ due' = Turn
    /\ \E news \in IF hunter.target = None THEN {"none"} ELSE {"none", "lost", "again"},
          chance \in BOOLEAN, fair, inReach \in SUBSET ToSet(targets),
          K \in SUBSET {k \in DOMAIN summons : Callable(k, hunter.defenseTicks + Interval)} :
          /\ inReach \subseteq fair
          /\ \E a \in UpdatePath(Update(Keeps(Now), news)) :
             \E b \in Search(a, fair, inReach) :
             \E c \in onThinkTarget(b, chance, fair, inReach) :
                onThinkDefense(c, K)
    /\ UNCHANGED since

\* A posted Game::checkCreatureAttack
Swing ==
    /\ hunter.posted > 0
    /\ \/ hunter.target # None /\ doAttacking(0)
       \/ hunter' = [hunter EXCEPT !.posted = @ - 1] /\ UNCHANGED <<targets, since, vow>>
    /\ UNCHANGED <<summons, due>>

Pass ==
    /\ due \in 1..Interval /\ due' = due - 1
    /\ since' = [i \in Slots |-> IF since[i] < AttackSpells[i].speed THEN since[i] + 1 ELSE since[i]]
    /\ UNCHANGED <<hunter, targets, summons, vow>>

\* Monster::onCreatureFound: a creature comes into sight.
Found(c) ==
    /\ c \notin ToSet(targets)
    /\ targets' \in {<<c>> \o targets, Append(targets, c)}
    /\ hunter' = [hunter EXCEPT !.toSpawn = FALSE]
    /\ UNCHANGED <<summons, since, due, vow>>

\* Monster::challengeCreature
ChallengeCreature(c) ==
    /\ c \in ToSet(targets)
    /\ LET s == selectTarget(Now, c)
       IN Become([s EXCEPT !.h.cooldown = Challenge, !.h.focus = Challenge, !.h.changeTicks = 0,
                           !.v = [who |-> c, left |-> Challenge \div Interval]])
    /\ UNCHANGED <<summons, since, due>>

\* Its health goes below runAwayHealth, or above.
ChangeHealth == hunter' = [hunter EXCEPT !.weak = ~@] /\ UNCHANGED <<targets, summons, since, due, vow>>

\* Monster::walkToSpawn, when the last target is gone; Monster::onWalkComplete
WalkToSpawn ==
    /\ ~hunter.toSpawn /\ targets = <<>> /\ hunter' = [hunter EXCEPT !.toSpawn = TRUE]
    /\ UNCHANGED <<targets, summons, since, due, vow>>

OnWalkComplete ==
    /\ hunter.toSpawn /\ hunter' = [hunter EXCEPT !.toSpawn = FALSE]
    /\ UNCHANGED <<targets, summons, since, due, vow>>

SummonDies ==
    /\ \E k \in DOMAIN summons : summons[k] > 0 /\ summons' = [summons EXCEPT ![k] = @ - 1]
    /\ UNCHANGED <<hunter, targets, since, due, vow>>

\* Its thought and its attack are one task.
HuntingNext ==
    \/ Think \/ Attack
    \/ /\ due # Turn
       /\ \/ Swing \/ Pass \/ ChangeHealth \/ WalkToSpawn \/ OnWalkComplete \/ SummonDies
          \/ \E c \in Prey : Found(c) \/ ChallengeCreature(c)

-----------------------------------------------------------------------------
(* Properties                                                              *)

\* A challenged monster goes on with its challenger until the challenge has
\* run out, however weak it is and whoever else comes, as long as it finds a
\* way and sees it.
ChallengeHolds == vow.who # None => hunter.target = vow.who

\* No spell can be cast before its speed has passed since it was last cast
\* (as far as turns of Interval can tell), by a turn or by a posted attack.
SpellPace ==
    \A i \in Slots :
        (\/ due = Turn /\ canUseSpell(i, hunter.attackTicks + Interval, Interval, 1)
         \/ canUseSpell(i, hunter.attackTicks, 0, 1))
           => since[i] >= Interval * (AttackSpells[i].speed \div Interval)

-----------------------------------------------------------------------------
(* Steps                                                                   *)

stepVars == <<me, you, walkDir, fleeing, stepTime, thing>>

North == <<0, -1>>
South == <<0, 1>>
West == <<-1, 0>>
East == <<1, 0>>
Straight == {North, South, West, East}
Around == {<<x, y>> : x \in -1..1, y \in -1..1} \ {<<0, 0>>}
Nothing == [kind |-> "none", at |-> <<0, 0>>]

To(p, d) == <<p[1] + d[1], p[2] + d[2]>>
Plus(d, e) == To(d, e)
Abs(n) == IF n < 0 THEN -n ELSE n
Sign(n) == IF n > 0 THEN 1 ELSE IF n < 0 THEN -1 ELSE 0
Further(a, b) == IF a > b THEN a ELSE b
Distance(p, q) == Further(Abs(p[1] - q[1]), Abs(p[2] - q[2]))

StepsTypeOK ==
    /\ me \in Field /\ you \in Stands /\ me # you
    /\ walkDir \in {<<>>} \cup {<<d>> : d \in Around}
    /\ fleeing \in BOOLEAN /\ stepTime \in 0..2
    /\ thing.kind \in {"none", "crate", "critter", "dying"}
    /\ thing.kind # "none" => thing.at \in Field \ {me, you}

StepsInit ==
    /\ you \in Stands /\ me \in Field \ {you} /\ walkDir = <<>>
    /\ fleeing = FALSE /\ stepTime = 0 /\ thing = Nothing

-----------------------------------------------------------------------------
(* Where it can step.  A crate is no obstacle: it pushes items.            *)

isSightClear(p, q) == <<p, q>> \notin Dim

Occupied(p) == p = me \/ p = you \/ (thing.kind \in {"critter", "dying"} /\ thing.at = p)

canWalkTo(p, d) == To(p, d) \in Field /\ ~Occupied(To(p, d))

Can(d) == canWalkTo(me, d)

\* Any of the steps in D that is possible.
AnyOf(D) == {d \in D : Can(d)}

\* The answers of a choice are tried in order: the first set that is not empty.
FirstOf(choices) ==
    IF \E i \in DOMAIN choices : choices[i] # {}
    THEN choices[CHOOSE i \in DOMAIN choices : choices[i] # {} /\ \A j \in 1..i - 1 : choices[j] = {}]
    ELSE {}

getRandomStep == AnyOf(Straight)

canUseAttack(p) == Distance(p, you) <= AttackRange /\ isSightClear(p, you)

\* Steps that keep the distance, and with keepAttack the attack; with
\* keepDistance those away from the target's side are left out.
getDanceStep(keepAttack, keepDistance) ==
    {d \in AnyOf(Straight) :
        /\ ~keepDistance \/ d[1] * (you[1] - me[1]) + d[2] * (you[2] - me[2]) >= 0
        /\ Distance(To(me, d), you) = Distance(me, you)
        /\ keepAttack => (canUseAttack(me) => canUseAttack(To(me, d)))}

-----------------------------------------------------------------------------
(* getDistanceStep.  h and v are the straight steps away from the target.  *)

Slanted(h, v, first, flee) ==
    LET last == IF first = h THEN v ELSE h
        opposite(d) == <<-d[1], -d[2]>>
        extra(d, other) == IF Can(opposite(d)) /\ Can(Plus(opposite(d), other)) THEN {opposite(d)} ELSE {}
    IN FirstOf(<<AnyOf({h, v}), AnyOf({Plus(h, v)}),
                 IF flee THEN AnyOf({opposite(h), opposite(v)}) ELSE {},
                 extra(first, last), extra(last, first)>>)

\* The target is north-west, south-east, south-west, north-east: the extra
\* step is tried west or east first, south first if the target is south-east.
PlayerNorthWest(flee) == Slanted(East, South, East, flee)
PlayerSouthEast(flee) == Slanted(West, North, North, flee)
PlayerSouthWest(flee) == Slanted(East, North, East, flee)
PlayerNorthEast(flee) == Slanted(West, South, West, flee)

\* Seeded fault: The last resort of who flees is taken before the sides.
Sideways_Back(away, low, high, order, offset, flee) ==
    LET slant(side) == Plus(away, side)
        both == AnyOf({slant(low), slant(high)})
    IN FirstOf(<<AnyOf({away}),
                 IF flee THEN AnyOf({<<-away[1], -away[2]>>}) ELSE {},
                 IF offset = 0 THEN AnyOf({low, high}) ELSE AnyOf({IF offset < 0 THEN low ELSE high}),
                 IF flee THEN AnyOf({low, high}) ELSE {},
                 CASE both = {} -> {}
                   [] Cardinality(both) = 2 -> both
                   [] OTHER -> FirstOf(<<AnyOf({order[1]}), AnyOf({slant(order[1])}),
                                         AnyOf({order[2]}), AnyOf({slant(order[2])})>>)>>)

\* away, the two sides (the first is that with an offset below zero), the order in which slanted ways are
\* tried, and offset: of the monster, along the sides.
Sideways(away, low, high, order, offset, flee) ==
    LET slant(side) == Plus(away, side)
        both == AnyOf({slant(low), slant(high)})
    IN FirstOf(<<AnyOf({away}),
                 IF offset = 0 THEN AnyOf({low, high}) ELSE AnyOf({IF offset < 0 THEN low ELSE high}),
                 IF flee THEN AnyOf({low, high}) ELSE {},
                 CASE both = {} -> {}
                   [] Cardinality(both) = 2 -> both
                   [] OTHER -> FirstOf(<<AnyOf({order[1]}), AnyOf({slant(order[1])}),
                                         AnyOf({order[2]}), AnyOf({slant(order[2])})>>),
                 IF flee THEN AnyOf({<<-away[1], -away[2]>>}) ELSE {}>>)

PlayerNorth(flee) == Sideways(South, West, East, <<West, East>>, me[1] - you[1], flee)
PlayerSouth(flee) == Sideways(North, West, East, <<West, East>>, me[1] - you[1], flee)
PlayerWest(flee) == Sideways(East, North, South, <<South, North>>, me[2] - you[2], flee)
PlayerEast(flee) == Sideways(West, North, South, <<North, South>>, me[2] - you[2], flee)

\* Whether getDistanceStep leaves it to the search of a way.
LeavesIt(flee) == ~flee /\ (Distance(me, you) > StepDistance \/ ~isSightClear(me, you))

\* The steps it may answer; none is an answer, too.
getDistanceStep(flee) ==
    LET x == me[1] - you[1]
        y == me[2] - you[2]
    IN CASE ~flee /\ Distance(me, you) = StepDistance -> {}
         [] OTHER ->
            CASE Abs(x) = Abs(y) /\ x > 0 /\ y > 0 -> PlayerNorthWest(flee)
              [] Abs(x) = Abs(y) /\ x < 0 /\ y < 0 -> PlayerSouthEast(flee)
              [] Abs(x) = Abs(y) /\ x > 0 /\ y < 0 -> PlayerSouthWest(flee)
              [] Abs(x) = Abs(y) /\ x < 0 /\ y > 0 -> PlayerNorthEast(flee)
              [] Abs(y) > Abs(x) /\ y > 0 -> PlayerNorth(flee)
              [] Abs(y) > Abs(x) /\ y < 0 -> PlayerSouth(flee)
              [] Abs(x) > Abs(y) /\ x > 0 -> PlayerWest(flee)
              [] Abs(x) > Abs(y) /\ x < 0 -> PlayerEast(flee)

\* A target that is near slows it down.
StepDuration ==
    IF ~fleeing /\ Distance(me, you) = StepDistance THEN stepTime
    ELSE IF Distance(me, you) <= 1 THEN (IF stepTime < 2 THEN stepTime + 1 ELSE stepTime)
    ELSE IF stepTime > 0 THEN stepTime - 1 ELSE 0

\* Creature::goToFollowCreature.  The way that a search finds is one step
\* here, or none.
GoToFollow ==
    \/ /\ (fleeing \/ StepDistance > 1) /\ ~LeavesIt(fleeing)
       /\ \/ getDistanceStep(fleeing) = {} /\ walkDir' = walkDir
          \/ \E d \in getDistanceStep(fleeing) : walkDir' = <<d>>
       /\ stepTime' = StepDuration
    \/ /\ ~fleeing /\ (StepDistance > 1 => LeavesIt(FALSE))
       /\ \/ walkDir' = <<>>
          \/ \E d \in Around : To(me, d) \in Field \ {you} /\ walkDir' = <<d>>
       /\ UNCHANGED stepTime

-----------------------------------------------------------------------------
(* A step.  What is on the tile is pushed out of the way, or removed.      *)

Free(p) == p \in Field /\ ~Occupied(p) /\ ~(thing.kind = "crate" /\ thing.at = p)

\* Monster::pushItem: to a tile around it that takes it and is in sight.
pushItem(at) == {p \in {To(at, d) : d \in Around} : Free(p) /\ isSightClear(at, p)}

pushItems(at) ==
    IF pushItem(at) = {} THEN {Nothing} ELSE {[thing EXCEPT !.at = p] : p \in pushItem(at)}

pushCreature(at) == {p \in {To(at, d) : d \in Straight} : Free(p)}

\* Monster::pushCreatures kills what it cannot push: it lies there until its
\* death is carried out.
pushCreatures(at) ==
    IF pushCreature(at) = {} THEN {[thing EXCEPT !.kind = "dying"]}
    ELSE {[thing EXCEPT !.at = p] : p \in pushCreature(at)}

\* Monster::getNextStep for a step from the list, and Creature::onWalk with it.
StepTo(d) ==
    LET at == To(me, d)
    IN \E t \in CASE thing.kind = "crate" /\ thing.at = at -> pushItems(at)
                 [] thing.kind = "critter" /\ thing.at = at -> pushCreatures(at)
                 [] OTHER -> {thing} :
          /\ thing' = t
          /\ me' = IF at \in Field /\ at # you /\ ~(t.kind \in {"critter", "dying"} /\ t.at = at) THEN at ELSE me
          /\ UNCHANGED <<you, fleeing, stepTime>>

WalkList == walkDir # <<>> /\ StepTo(walkDir[1]) /\ walkDir' = <<>>

\* Target dancing: the list is empty and it attacks what it follows.
Dance ==
    /\ walkDir = <<>>
    /\ \E d \in getDanceStep(~fleeing, ~fleeing) : StepTo(d)
    /\ UNCHANGED walkDir

\* The target was lost: any step.
RandomStep == walkDir = <<>> /\ (\E d \in getRandomStep : StepTo(d)) /\ UNCHANGED walkDir

Follow == GoToFollow /\ UNCHANGED <<me, you, fleeing, thing>>

TargetMoves ==
    /\ \E p \in Stands \ {me, you} : ~(thing.kind # "none" /\ thing.at = p) /\ you' = p
    /\ UNCHANGED <<me, walkDir, fleeing, stepTime, thing>>

\* Its health falls below runAwayHealth, or it is challenged or healed.
ChangeMood == fleeing' = ~fleeing /\ UNCHANGED <<me, you, walkDir, stepTime, thing>>

\* A crate is thrown there, a weaker monster comes.
Clutters ==
    /\ thing = Nothing
    /\ \E p \in Clutter \ {me, you}, k \in {"crate", "critter"} : thing' = [kind |-> k, at |-> p]
    /\ UNCHANGED <<me, you, walkDir, fleeing, stepTime>>

\* Game::executeDeath of a monster that could not be pushed; the crate is taken away.
Cleared == thing.kind \in {"dying", "crate"} /\ thing' = Nothing /\ UNCHANGED <<me, you, walkDir, fleeing, stepTime>>

StepsNext == Follow \/ WalkList \/ Dance \/ RandomStep \/ TargetMoves \/ ChangeMood \/ Clutters \/ Cleared

-----------------------------------------------------------------------------
(* Properties                                                              *)

\* A step chosen to keep the distance is possible and never leads nearer to
\* the target; only fleeing it may, when every straight step does.
StepsApart ==
    \A flee \in BOOLEAN :
        ~LeavesIt(flee) =>
            \A d \in getDistanceStep(flee) :
                /\ To(me, d) \in Field /\ ~Occupied(To(me, d))
                /\ \/ Distance(To(me, d), you) >= Distance(me, you)
                   \/ flee /\ \A e \in AnyOf(Straight) : Distance(To(me, e), you) < Distance(me, you)

\* A monster that may step away, or one that flees and can move along any
\* axis, does not stand still.
NeverCornered ==
    \A flee \in BOOLEAN :
        (~LeavesIt(flee) /\ getDistanceStep(flee) = {} /\ ~(~flee /\ Distance(me, you) = StepDistance)) =>
            \A d \in AnyOf(Straight \cup {<<Sign(me[1] - you[1]), Sign(me[2] - you[2])>>}) :
                ~flee /\ Distance(To(me, d), you) <= Distance(me, you)
=============================================================================

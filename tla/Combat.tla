------------------------------- MODULE Combat --------------------------------
(***************************************************************************)
(* Blows and deaths (combat.cpp, creature.cpp, player.cpp, game.cpp).  A   *)
(* blow is blocked, may be reflected, changed by scripts and taken out of  *)
(* the mana of a player with a magic shield before it takes health; what a *)
(* creature lost to each attacker is kept in its damageMap.  Who reaches 0 *)
(* is killed by a task that is posted then, and its killers are told and   *)
(* given experience.                                                       *)
(*                                                                         *)
(* Who may fight whom is a constant; whether a blow of theirs is allowed,  *)
(* how much of it is blocked, absorbed, reflected or leeched, and what a   *)
(* script makes of it, is left open each time.  Nobody carries an item     *)
(* that boosts a mana drain, scripts that prepare a death hurt nobody, and *)
(* experience is not shared in a party.                                    *)
(*                                                                         *)
(* The conditions of one player (condition.cpp, creature.cpp).  A          *)
(* condition changes the player when it starts, is renewed when another of *)
(* its type and id is added, and must take back what it did when it ends:  *)
(* by time, by a script, by its opposite, by death.                        *)
(*                                                                         *)
(* Haste and paralysis are not changed in the middle of a step: they are   *)
(* then added or removed by a scheduled task.                              *)
(*                                                                         *)
(* A condition is a record; `value' is its speedDelta, its skill or stat,  *)
(* its outfit, light level or drunkenness.  One tick is the interval of    *)
(* executeConditions.  What a condition sends to the client is left out.   *)
(***************************************************************************)
EXTENDS Integers, Sequences, FiniteSets, SequencesExt, FiniteSetsExt

CONSTANTS Fighters,
          Mages,       \* the fighters that are players
          Summons,     \* Summons[c]: the master of c, or None
          Quarrels,    \* pairs: who strikes whom
          Groups,      \* sets: who is in the game
          MaxHealth, MaxMana,
          Experience,  \* getLostExperience
          MaxPoints,   \* bound: of one attacker
          MaxBlow,     \* bound: the value of a blow
          MaxDeaths,   \* bound: posted deaths
          MaxConditions,   \* bound on the conditions at one time
          MaxTime,         \* bound on the clock
          None

VARIABLES fighter,  \* of each Fighter its health, mana, damageMap, lastHitCreatureId, and whether it is in the game
          lost,     \* lost[t][a]: the health and mana that t lost to a since its damageMap was empty
          deaths,   \* posted executeDeath tasks
          told,     \* of a death just now: who was told of the kill how often, what was gained
          player,   \* the player with conditions: these, and what they have made of it
          clock,    \* OTSYS_TIME
          forced    \* the scheduled forceAddCondition and forceRemoveCondition

combatVars == <<fighter, lost, deaths, told>>

NoPoints == [a \in Fighters |-> 0]
Nobody == [kills |-> NoPoints, gained |-> 0]

CombatTypeOK ==
    /\ fighter \in [Fighters -> [in : BOOLEAN, health : 0..MaxHealth, mana : 0..MaxMana,
                                 points : [Fighters -> 0..MaxPoints], lastHit : Fighters \cup {None}]]
    /\ lost \in [Fighters -> [Fighters -> Int]]
    /\ \A k \in DOMAIN deaths : deaths[k] \in Fighters
    /\ told.kills \in [Fighters -> Nat] /\ told.gained \in Nat

CombatInit ==
    /\ \E group \in Groups :
       fighter = [c \in Fighters |-> [in |-> c \in group, health |-> MaxHealth,
                                       mana |-> IF c \in Mages THEN MaxMana ELSE 0,
                                       points |-> NoPoints, lastHit |-> None]]
    /\ lost = [c \in Fighters |-> NoPoints]
    /\ deaths = <<>>
    /\ told = Nobody

-----------------------------------------------------------------------------
(* Health and mana.  A state s is a record of the variables; what may end  *)
(* in several ways gives a set of states.                                  *)

Now == [f |-> fighter, lost |-> lost, deaths |-> deaths, told |-> Nobody]

Become(s) ==
    /\ \A c \in Fighters : \A a \in Fighters : s.f[c].points[a] <= MaxPoints
    /\ Len(s.deaths) <= MaxDeaths
    /\ fighter' = s.f /\ lost' = s.lost /\ deaths' = s.deaths /\ told' = s.told

Least(x, y) == IF x < y THEN x ELSE y
Most(x, y) == IF x > y THEN x ELSE y
Abs(x) == IF x < 0 THEN -x ELSE x

IsDead(s, c) == s.f[c].health = 0

\* Creature::changeHealth: who is at 0 now is to die.
ChangeHealth(s, c, n) ==
    LET health == IF n > 0 THEN s.f[c].health + Least(n, MaxHealth - s.f[c].health)
                  ELSE Most(0, s.f[c].health + n)
        x == [s EXCEPT !.f[c].health = health]
    IN  IF health = 0 THEN [x EXCEPT !.deaths = Append(@, c)] ELSE x

\* Player::changeMana.
ChangeMana(s, c, n) ==
    [s EXCEPT !.f[c].mana = IF n > 0 THEN @ + Least(n, MaxMana - @) ELSE Most(0, @ + n)]

\* Creature::addDamagePoints.
AddDamagePoints(s, c, a, n) ==
    IF n <= 0 THEN s ELSE [s EXCEPT !.f[c].points[a] = @ + n, !.f[c].lastHit = a]

Loss(s, x, c, a) ==
    [x EXCEPT !.lost[c][a] = @ + (s.f[c].health - x.f[c].health) + (s.f[c].mana - x.f[c].mana)]

\* Creature::drainHealth, with its overrides.
DrainHealth(s, c, a, n) ==
    LET x == ChangeHealth(s, c, -n)
    IN  IF a = None THEN [x EXCEPT !.f[c].lastHit = None]
        ELSE AddDamagePoints(Loss(s, x, c, a), c, a, n)

\* Player::drainMana; a negative loss is a gain, and no damage.
DrainMana(s, c, a, n) ==
    LET x == ChangeMana(s, c, -n)
    IN  IF a = None \/ n <= 0 THEN x ELSE AddDamagePoints(Loss(s, x, c, a), c, a, n)

\* Creature::onIdleStatus, once the creature is out of every fight.
OnIdleStatus(s, c) ==
    IF IsDead(s, c) THEN s
    ELSE [s EXCEPT !.f[c].points = NoPoints, !.f[c].lastHit = None, !.lost[c] = NoPoints]

-----------------------------------------------------------------------------
(* A blow is a record of its two values, of which a wound has negative     *)
(* ones, of its type, and of whether scripts may still change it.          *)

Values == 0..MaxBlow
Sign(type) == IF type = "healing" THEN 1 ELSE -1
Blow(type, n, m, scripts) ==
    [primary |-> Sign(type) * n, secondary |-> Sign(type) * m, type |-> type, scripts |-> scripts]

\* CreatureEvent::executeHealthChange: the script gives values and a type.
ExecuteHealthChange(d) ==
    {[d EXCEPT !.primary = Sign(d.type) * Abs(@), !.secondary = Sign(d.type) * Abs(@), !.scripts = FALSE]}
    \cup {Blow(type, n, 0, FALSE) : type \in {"physical", "healing"}, n \in Values}

\* CreatureEvent::executeManaChange: the values of the script keep their signs.
ExecuteManaChange(d) ==
    {[d EXCEPT !.primary = n, !.secondary = m] : n \in -1..MaxBlow, m \in -1..MaxBlow} \cup {d}

\* Game::combatChangeHealth: healing, of who is not dead.
Heal(s, c, d) == IF IsDead(s, c) THEN s ELSE ChangeHealth(s, c, d.primary)

\* The magic shield.  Results are pairs of a state and what is left of the blow.
ManaShield(s, a, c, d) ==
    LET n == d.primary + d.secondary
        changed == IF d.scripts THEN ExecuteManaChange(d) \cup {d} ELSE {d}
        drained(e) ==
            LET all == e.primary + e.secondary
                mana == Least(s.f[c].mana, all)
                left == e.primary - mana
            IN  [s |-> IF all = 0 THEN s ELSE DrainMana(s, c, a, mana),
                 d |-> IF all = 0 THEN [e EXCEPT !.primary = 0, !.secondary = 0]
                       ELSE IF left < 0 THEN [e EXCEPT !.primary = 0, !.secondary = Most(0, @ + left)]
                       ELSE [e EXCEPT !.primary = left]]
    IN  {[s |-> s, d |-> d]}
        \cup IF c \in Mages /\ Least(s.f[c].mana, n) # 0 THEN {drained(e) : e \in changed} ELSE {}

\* The wound itself: no more than the health that is left, and nothing if a script that
\* prepares the death says so, which may have healed the creature.
Wound(s, a, c, d) ==
    LET health == s.f[c].health
        n == IF d.primary + d.secondary = 0 THEN 0
             ELSE IF d.primary >= health THEN health
             ELSE d.primary + Least(d.secondary, health - d.primary)
        prepared == IF n < health THEN {s} ELSE {s, [s EXCEPT !.f[c].health = MaxHealth]}
    IN  IF n = 0 THEN {s}
        ELSE {DrainHealth(x, c, a, n) : x \in prepared} \cup IF n < health THEN {} ELSE prepared

\* Game::combatChangeHealth of a blow that scripts have changed, or that none is for.
Strike(s, a, c, d) ==
    IF d.primary > 0 THEN {Heal(s, c, d)}
    ELSE IF d.type = "healing" THEN {s}
    ELSE UNION {Wound(r.s, a, c, r.d) :
                  r \in ManaShield(s, a, c, [d EXCEPT !.primary = Abs(@), !.secondary = Abs(@)])}

\* Game::combatChangeHealth.  Scripts come after the magic shield, and then all of it again.
CombatChangeHealth(s, a, c, d) ==
    LET once == [d EXCEPT !.scripts = FALSE]
        abs == [d EXCEPT !.primary = Abs(@), !.secondary = Abs(@)]
        shielded == IF d.primary > 0 \/ d.type = "healing" THEN {[s |-> s, d |-> d]} ELSE ManaShield(s, a, c, abs)
        again(r) == IF r.d.primary + r.d.secondary = 0 THEN {r.s}
                    ELSE UNION {Strike(r.s, a, c, e) : e \in ExecuteHealthChange(r.d)}
    IN  {s} \cup Strike(s, a, c, once)
        \cup IF d.scripts THEN UNION {again(r) : r \in shielded} ELSE {}

\* Game::combatChangeMana.
CombatChangeMana(s, a, c, n) ==
    IF c \notin Mages THEN {s}
    ELSE {s} \cup IF n > 0 THEN {ChangeMana(s, c, n)}
                  ELSE {DrainMana(s, c, a, Least(s.f[c].mana, m)) : m \in 1 .. -n}

\* The same of a drain, after the scripts if it reaches mana.
DrainByCombat(s, a, c, d) ==
    CombatChangeMana(s, a, c, d.primary)
    \cup IF d.scripts /\ s.f[c].mana > 0
         THEN UNION {CombatChangeMana(s, a, c, e.primary + e.secondary) : e \in ExecuteManaChange(d)} ELSE {}

\* Creature::blockHit: shield and armour take something off.
Blocked(d) == {Blow(d.type, n, m, d.scripts) : n \in 0..Abs(d.primary), m \in 0..Abs(d.secondary)}

\* Player::blockHit: a part of the blow may come back.
BlockHit(s, a, c, d) ==
    LET back == IF a # None /\ c \in Mages /\ d.type # "healing"
                THEN CombatChangeHealth(s, c, a, Blow(d.type, 1, 0, TRUE)) ELSE {}
    IN  {[s |-> x, d |-> e] : x \in {s} \cup back, e \in Blocked(d)}

\* Game::combatBlockHit: what is not blocked goes on; a player in ghost mode takes nothing.
CombatBlockHit(s, a, c, d) == {r \in BlockHit(s, a, c, d) : r.d.primary # 0 \/ r.d.secondary # 0}

\* Combat::canDoCombat and canTargetCreature, of a creature that may have left.
CanDoCombat(s, a, c) == s.f[c].in /\ (a = None \/ (<<a, c>> \in Quarrels /\ s.f[a].in))

\* Combat::doTargetCombat: a blow, a healing or a drain, and what the caster leeches of it.
DoTargetCombat(s, a, c, d) ==
    LET hit == IF d.type = "manadrain" THEN DrainByCombat(s, a, c, d)
               ELSE UNION {CombatChangeHealth(r.s, a, c, r.d) : r \in CombatBlockHit(s, a, c, d)}
        leech(x) == IF a \in Mages /\ d.type # "healing"
                    THEN CombatChangeHealth(x, None, a, Blow("healing", 1, 0, FALSE))
                         \cup CombatChangeMana(x, None, a, 1)
                    ELSE {x}
    IN  {s} \cup UNION {leech(x) : x \in hit}

\* Combat::doAreaCombat: whoever is in the area, one after the other.
DoAreaCombat(s, a, d) ==
    FoldLeft(LAMBDA S, c : UNION {DoTargetCombat(x, a, c, d) : x \in S},
             {s}, SetToSeq({c \in Fighters : <<a, c>> \in Quarrels /\ s.f[c].in}))

-----------------------------------------------------------------------------
(* Death                                                                   *)

MasterOf(s, c) == IF Summons[c] # None /\ s.f[Summons[c]].in THEN Summons[c] ELSE None

\* Creature::onKilledCreature: a summon's master is told too.
OnKilledCreature(s, c) ==
    LET m == MasterOf(s, c)
        x == [s EXCEPT !.told.kills[c] = @ + 1]
    IN  IF m = None THEN x ELSE [x EXCEPT !.told.kills[m] = @ + 1]

\* Creature::getDamageRatio and getGainedExperience, with Player's.
GainedExperience(s, c, a) ==
    LET total == FoldLeft(LAMBDA n, b : n + s.f[c].points[b], 0, SetToSeq(Fighters))
        points == s.f[c].points[a]
    IN  IF total = 0 THEN 0
        ELSE IF c \in Mages THEN (3 * Experience * points) \div (4 * total)
        ELSE (Experience * points) \div total

\* Creature::onGainExperience and Player::onGainExperience: half of a summon's part is its
\* master's.
OnGainExperience(s, a, gained) ==
    [s EXCEPT !.told.gained = @ + IF a \in Mages THEN gained
                                  ELSE IF MasterOf(s, a) # None THEN gained \div 2 ELSE 0]

\* In Creature::onDeath: who hurt it most, if not too long ago.
MostDamage(s, c) ==
    LET known == {a \in Fighters : s.f[a].in /\ s.f[c].points[a] > 0}
    IN  {None} \cup {a \in known : \A b \in known : s.f[c].points[b] <= s.f[c].points[a]}

\* In Creature::onDeath: whether the one that hurt it most is told beside the last one.
TellsMost(s, last, most) ==
    LET lastMaster == IF last = None THEN None ELSE MasterOf(s, last)
    IN  /\ most \notin {None, last, lastMaster}
        /\ MasterOf(s, most) # last
        /\ lastMaster # None => MasterOf(s, most) # lastMaster

\* Creature::dropCorpse, Player::dropCorpse and Player::death.  A player killed by a player
\* in a pvp zone stays in the game, healed.
Die(s, c, last) ==
    {[s EXCEPT !.f[c].in = FALSE, !.f[c].health = IF c \in Mages THEN MaxHealth ELSE 0]}
    \cup IF c \in Mages /\ last # None /\ (last \in Mages \/ MasterOf(s, last) \in Mages)
         THEN {OnIdleStatus([s EXCEPT !.f[c].health = MaxHealth], c)} ELSE {}

\* Creature::onDeath.
OnDeath(s, c) ==
    LET hit == s.f[c].lastHit
        last == IF hit # None /\ s.f[hit].in THEN hit ELSE None
        told1 == IF last = None THEN s ELSE OnKilledCreature(s, last)
        shared == FoldLeft(LAMBDA x, a : OnGainExperience(x, a, GainedExperience(s, c, a)),
                           told1, SetToSeq({a \in Fighters \ {c} : s.f[a].in}))
        told2(most) == IF TellsMost(s, last, most) THEN OnKilledCreature(shared, most) ELSE shared
    IN  UNION {Die(told2(most), c, last) : most \in MostDamage(s, c)}

-----------------------------------------------------------------------------
(* Steps                                                                   *)

Owner(s, a) == IF a # None /\ s.f[a].in THEN a ELSE None

\* Combat::doCombat, of a spell or a weapon, on one creature and on an area.
DoCombat(a, c, d) ==
    /\ CanDoCombat(Now, a, c)
    /\ \E s \in DoTargetCombat(Now, a, c, d) : Become(s)
DoCombatArea(a, d) ==
    /\ fighter[a].in
    /\ \E s \in DoAreaCombat(Now, a, d) : Become(s)

\* ConditionDamage::doDamage: the owner may have left.
DoDamage(a, c, d) ==
    /\ CanDoCombat(Now, None, c) /\ ~IsDead(Now, c)
    /\ \E r \in CombatBlockHit(Now, Owner(Now, a), c, d) :
       \E s \in CombatChangeHealth(r.s, Owner(Now, a), c, r.d) : Become(s)

\* ConditionRegeneration::executeCondition: in the round that a condition killed its owner.
Regenerate(c) == fighter[c].in /\ Become(ChangeHealth(Now, c, 1))

\* creature:setHealth and addHealth.
SetHealth(c, n) ==
    /\ fighter[c].in
    /\ Become(IF n > 0 THEN [Now EXCEPT !.f[c].health = n] ELSE DrainHealth(Now, c, None, fighter[c].health))
AddHealth(c, type) ==
    /\ fighter[c].in
    /\ \E s \in CombatChangeHealth(Now, None, c, Blow(type, 1, 0, FALSE)) : Become(s)

\* player:addMana.
AddMana(c, n) ==
    /\ fighter[c].in /\ c \in Mages
    /\ \E s \in CombatChangeMana(Now, None, c, n) \cup {ChangeMana(Now, c, n)} : Become(s)

\* Weapon::onUsedWeapon: a weapon that costs health.
UseWeapon(a) == fighter[a].in /\ Become(ChangeHealth(ChangeMana(Now, a, -1), a, -1))

\* Player::onEndCondition of the fight, or Monster::setIdle.
BecomeIdle(c) == fighter[c].in /\ Become(OnIdleStatus(Now, c))

\* Game::removeCreature, with the summons.
Leave(c) ==
    /\ fighter[c].in /\ ~IsDead(Now, c)
    /\ Become([Now EXCEPT !.f = [b \in Fighters |-> IF b = c \/ Summons[b] = c
                                                    THEN [fighter[b] EXCEPT !.in = FALSE] ELSE fighter[b]]])

\* Game::executeDeath, which does not ask whether the creature is dead.
ExecuteDeath ==
    /\ deaths # <<>>
    /\ LET c == Head(deaths)
           s == [Now EXCEPT !.deaths = Tail(@)]
       IN  IF ~s.f[c].in THEN Become(s) ELSE \E t \in OnDeath(s, c) : Become(t)

Victims == {q[2] : q \in Quarrels}

\* Blocks make every smaller blow of these.
Blows == {Blow("physical", MaxBlow - m, m, TRUE) : m \in Values}

CombatNext ==
    \/ \E q \in Quarrels : \E d \in Blows : DoCombat(q[1], q[2], d) \/ DoDamage(q[1], q[2], d)
    \/ \E q \in Quarrels : DoCombat(q[1], q[2], Blow("manadrain", MaxBlow, 0, TRUE))
    \/ \E q \in Quarrels : DoCombat(q[1], q[2], Blow("healing", MaxBlow, 0, TRUE))
    \/ \E a \in Fighters : \E d \in Blows : DoCombatArea(a, d)
    \/ \E c \in Fighters : Leave(c)
    \/ \E c \in Victims : Regenerate(c) \/ UseWeapon(c) \/ BecomeIdle(c)
    \/ \E c \in Victims : SetHealth(c, 0) \/ SetHealth(c, 1) \/ AddHealth(c, "physical") \/ AddHealth(c, "healing")
    \/ \E c \in Victims : AddMana(c, 1) \/ AddMana(c, -1)
    \/ ExecuteDeath

-----------------------------------------------------------------------------

\* Creature::addDamagePoints: the points an attacker has on a creature are the health and the
\* mana the creature lost to it, however the blow was blocked, shielded, changed or too large.
PointsExact == \A c, a \in Fighters : fighter[c].points[a] = lost[c][a]

\* Creature::changeHealth: who is at 0 and in the game is about to be killed.
DeathComes == \A c \in Fighters : fighter[c].in /\ fighter[c].health = 0 => c \in Range(deaths)

\* Creature::onDeath: nobody is told of a kill twice, and no more experience is gained than
\* was lost.
KillsShared == (\A a \in Fighters : told.kills[a] <= 1) /\ told.gained <= Experience

-----------------------------------------------------------------------------
(* Conditions                                                              *)

conditionVars == <<player, clock, forced>>

\* What spells (id combat) and worn items (id of the slot, no end) add.
Spells ==
    [type : {"haste"}, id : {"combat"}, ticks : {2}, value : {1, 2}]
    \cup [type : {"haste"}, id : {"feet"}, ticks : {-1}, value : {1}]
    \cup [type : {"paralyze"}, id : {"combat"}, ticks : {1}, value : {-1}]
    \cup [type : {"attributes"}, id : {"combat"}, ticks : {1, 2}, value : {1, 2}]
    \cup [type : {"invisible"}, id : {"combat", "ring"}, ticks : {2}, value : {0}]
    \cup [type : {"drunk"}, id : {"combat"}, ticks : {1}, value : {1, 2}]
    \cup [type : {"outfit", "light"}, id : {"combat"}, ticks : {1}, value : {1}]
    \cup [type : {"fire", "regeneration"}, id : {"combat"}, ticks : {1, 2}, value : {0}]

Speeds == {"haste", "paralyze"}

\* The end of a condition that has none.
Never == MaxTime + 10

ConditionsInit ==
    /\ player = [conditions |-> <<>>, varSpeed |-> 0, varSkill |-> 0, outfit |-> 0,
                 light |-> 0, drunkenness |-> 0, shown |-> TRUE, health |-> MaxHealth]
    /\ clock = 0
    /\ forced = {}

ConditionsTypeOK ==
    /\ \A i \in DOMAIN player.conditions :
          player.conditions[i] \in [type : {c.type : c \in Spells}, id : {c.id : c \in Spells},
                                    ticks : -1 .. 2, value : Int, endTime : Int]
    /\ {player.varSpeed, player.varSkill, player.outfit, player.light, player.drunkenness} \subseteq Int
    /\ player.shown \in BOOLEAN /\ player.health \in 0 .. MaxHealth /\ clock \in 0 .. MaxTime
    /\ \A f \in forced : f.add \in BOOLEAN

-----------------------------------------------------------------------------
(* Start, end and renewal                                                  *)

Of(s, type) == {i \in DOMAIN s.conditions : s.conditions[i].type = type}

\* Creature::hasCondition: one that has not run out
HasCondition(s, type) ==
    \E i \in Of(s, type) : s.conditions[i].endTime >= clock \/ s.conditions[i].ticks = -1

(* What a condition of each class changes, from the value `from' to `to': from 0 when *)
(* it starts, to 0 when it ends.                                                       *)

\* ConditionSpeed, by Game::changeSpeed
SpeedEffect(s, from, to) == [s EXCEPT !.varSpeed = (@ - from) + to]

\* ConditionAttributes: the skills and stats of the old one are taken back.
AttributesEffect(s, from, to) == [s EXCEPT !.varSkill = (@ - from) + to]

OutfitEffect(s, to) == [s EXCEPT !.outfit = to]

LightEffect(s, to) == [s EXCEPT !.light = to]

DrunkEffect(s, to) == [s EXCEPT !.drunkenness = to]

\* ConditionInvisible: the end of one shows the player only if it was the last.
InvisibleEffect(s) == [s EXCEPT !.shown = Of(s, "invisible") = {}]

Effect(s, type, from, to) ==
    CASE type \in Speeds -> SpeedEffect(s, from, to)
      [] type = "attributes" -> AttributesEffect(s, from, to)
      [] type = "outfit" -> OutfitEffect(s, to)
      [] type = "light" -> LightEffect(s, to)
      [] type = "drunk" -> DrunkEffect(s, to)
      [] type = "invisible" -> InvisibleEffect(s)
      [] OTHER -> s

\* Condition::startCondition: the time of the end is set.
StartCondition(s, c) ==
    LET endTime == IF c.ticks = -1 THEN Never ELSE c.ticks + clock
    IN  Effect([s EXCEPT !.conditions = Append(@, c @@ [endTime |-> endTime])], c.type, 0, c.value)

\* The condition is taken out of the list before it takes back its effect.
EndCondition(s, i) ==
    Effect([s EXCEPT !.conditions = RemoveAt(@, i)], s.conditions[i].type, s.conditions[i].value, 0)

\* Condition::updateCondition: a shorter one does not replace a longer one.
UpdateCondition(old, c) ==
    /\ ~(old.ticks = -1 /\ c.ticks > 0)
    /\ ~(c.ticks >= 0 /\ old.endTime > clock + c.ticks)

\* The new condition is longer, or for a drunk stronger; a change of speed always counts,
\* unless the old one has no end.
Renews(old, c) ==
    CASE c.type \in Speeds -> ~(old.ticks = -1 /\ c.ticks > 0)
      [] c.type = "drunk" -> c.value > old.value
      [] c.type = "fire" -> c.ticks > old.ticks            \* the greater total damage
      [] OTHER -> UpdateCondition(old, c)

\* addCondition of the classes: condition i is renewed by c.  A ConditionDrunk keeps its own value.
RenewCondition(s, i, c) ==
    LET old == s.conditions[i]
        value == IF c.type = "drunk" THEN old.value ELSE c.value
        new == [c EXCEPT !.value = value] @@ [endTime |-> c.ticks + clock]
    IN  IF Renews(old, c) THEN Effect([s EXCEPT !.conditions[i] = new], c.type, old.value, c.value) ELSE s

\* removeCondition(type) that is not put off
RemoveConditions(s, type) ==
    LET once(t, i) == IF Of(t, type) = {} THEN t ELSE EndCondition(t, Min(Of(t, type)))
    IN  FoldLeft(once, s, [i \in 1 .. Len(s.conditions) |-> i])

Opposite(type) == IF type = "haste" THEN "paralyze" ELSE "haste"

-----------------------------------------------------------------------------
(* Creature::addCondition and removeCondition.  walking is getWalkDelay() > 0, and *)
(* rest the tasks that stay scheduled.                                             *)

\* Paralysis is not removed in the middle of a step: forceRemoveCondition is scheduled.
RemoveCondition(s, type, walking, rest) ==
    IF type = "paralyze" /\ walking
    THEN player' = s /\ forced' = rest \cup {[add |-> FALSE, type |-> type]}
    ELSE player' = RemoveConditions(s, type) /\ forced' = rest

\* A new condition is started, and onAddCondition then removes its opposite.
AddNew(c, walking, rest) ==
    LET s == StartCondition(player, c)
    IN  /\ Len(player.conditions) < MaxConditions
        /\ IF c.type \in Speeds /\ HasCondition(s, Opposite(c.type))
           THEN RemoveCondition(s, Opposite(c.type), walking, rest)
           ELSE player' = s /\ forced' = rest

AddCondition(c, walking, rest) ==
    LET same == {i \in Of(player, c.type) : player.conditions[i].id = c.id}
    IN  IF same # {} THEN player' = RenewCondition(player, Min(same), c) /\ forced' = rest
        ELSE AddNew(c, walking, rest)

\* addCondition of a spell, an item or a script.  Haste waits for the end of the step of a
\* player that is paralysed.
Cast(c, walking) ==
    /\ IF c.type = "haste" /\ HasCondition(player, "paralyze") /\ walking
       THEN forced' = forced \cup {[add |-> TRUE, c |-> c]} /\ UNCHANGED player
       ELSE AddCondition(c, walking, forced)
    /\ UNCHANGED clock

\* removeCondition of an item that is taken off, or of a spell that dispels.
Dispel(type, walking) ==
    Of(player, type) # {} /\ RemoveCondition(player, type, walking, forced) /\ UNCHANGED clock

\* Game::forceAddCondition
ForceAdd(walking) ==
    /\ \E f \in forced : f.add /\ AddCondition(f.c, walking, forced \ {f})
    /\ UNCHANGED clock

\* Game::forceRemoveCondition, whatever has been added since
ForceRemove ==
    /\ \E f \in forced :
          ~f.add /\ player' = RemoveConditions(player, f.type) /\ forced' = forced \ {f}
    /\ UNCHANGED clock

\* Seeded fault: Health falls below zero.
ExecuteDamage_Below(s, i, field) ==
    LET hit == [s EXCEPT !.health = @ - 1]
    IN  IF field THEN [hit EXCEPT !.conditions[i].endTime = @ + 1]
        ELSE [hit EXCEPT !.conditions[i].ticks = @ - 1]

\* ConditionDamage: one round of the damage list; on a field of its kind (onTickCondition)
\* the round is kept and the end put off.  ConditionRegeneration: the health gained.
ExecuteDamage(s, i, field) ==
    LET hit == [s EXCEPT !.health = Max({0, @ - 1})]
    IN  IF field THEN [hit EXCEPT !.conditions[i].endTime = @ + 1]
        ELSE [hit EXCEPT !.conditions[i].ticks = Max({0, @ - 1})]

\* Condition::executeCondition: the ticks are counted down, but the end is decided by the time.
ExecuteCondition(s, i, field) ==
    LET c == s.conditions[i]
        counted == [s EXCEPT !.conditions[i].ticks = IF @ = -1 THEN @ ELSE Max({0, @ - 1})]
        done == CASE c.type = "fire" -> ExecuteDamage(s, i, field)
                  [] c.type = "regeneration" -> [counted EXCEPT !.health = Min({MaxHealth, @ + 1})]
                  [] c.type = "light" -> [counted EXCEPT !.light = Max({0, @ - 1})]
                  [] OTHER -> counted
    IN  IF c.ticks = -1 \/ done.conditions[i].endTime >= clock + 1 THEN done ELSE EndCondition(done, i)

\* Creature::executeConditions, one interval later.  From the last to the first, so that
\* an end moves no condition that is still to come.
ExecuteConditions(field) ==
    /\ clock < MaxTime /\ clock' = clock + 1
    /\ player' = FoldLeft(LAMBDA s, k : ExecuteCondition(s, Len(player.conditions) + 1 - k, field), player,
                          [k \in DOMAIN player.conditions |-> k])
    /\ UNCHANGED forced

\* Player::death: all conditions that would be saved are ended.
Death ==
    /\ player' = FoldLeft(LAMBDA s, k : LET i == Len(player.conditions) + 1 - k
                                        IN  IF s.conditions[i].ticks # -1 /\ s.conditions[i].id = "combat"
                                            THEN EndCondition(s, i) ELSE s,
                          player, [k \in DOMAIN player.conditions |-> k])
    /\ player.conditions # <<>>
    /\ UNCHANGED <<clock, forced>>

ConditionsNext ==
    \/ \E walking \in BOOLEAN :
          \/ \E c \in Spells : Cast(c, walking)
          \/ \E type \in {c.type : c \in Spells} : Dispel(type, walking)
          \/ ForceAdd(walking)
    \/ ForceRemove \/ Death \/ \E field \in BOOLEAN : ExecuteConditions(field)

-----------------------------------------------------------------------------
(* Properties                                                              *)

Total(types) ==
    FoldLeft(LAMBDA sum, c : sum + (IF c.type \in types THEN c.value ELSE 0), 0, player.conditions)

\* What the conditions have added to speed and skills is exactly what the ones in the list
\* will take back, and a player is shown as invisible exactly while such a condition lasts.
EffectsExact ==
    /\ player.varSpeed = Total(Speeds)
    /\ player.varSkill = Total({"attributes"})
    /\ player.shown = (Of(player, "invisible") = {})
    /\ player.drunkenness > 0 => Of(player, "drunk") # {}
=============================================================================

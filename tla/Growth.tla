---------------------------------- MODULE Growth -----------------------------------
(***************************************************************************)
(* How a player grows and is thrown back: a skill by its tries, the magic  *)
(* level by the mana spent, the level by experience.  What is stored is a  *)
(* level and the rest beyond it; what was earned is spread over both, and  *)
(* scripts run in the middle of it that may train the same skill again.    *)
(*                                                                         *)
(* A skill's percent right after a loss is that of the wrong level: it is  *)
(* computed from the tries that led to the level and not from those that   *)
(* lead to the next (player.cpp:493).  fell says so until the skill is     *)
(* trained or the player logs in again.  At the highest magic level the    *)
(* percent and the client are left as they were (player.cpp:1483).         *)
(*                                                                         *)
(* A loss never takes more than there is: so it is for a death; a script   *)
(* can take more mana than was ever spent, and manaSpent would wrap.       *)
(*                                                                         *)
(* What a player wears and what it gains by it (movement.cpp, player.cpp,  *)
(* Game::transformItem).  The abilities of an item are added to a player   *)
(* when it is put on and taken back when it is taken off, by move events   *)
(* that may turn the item into another type meanwhile: transformItem then  *)
(* takes it off and puts it on again, inside of the event that called it.  *)
(*                                                                         *)
(* An ability is a number that is added (a skill, speed), a condition with *)
(* the slot as its id, or a set of conditions that are suppressed, one set *)
(* of bits for all that is worn: two items that suppress the same stop     *)
(* doing so when one of them is taken off.  Abilities in percent of what a      *)
(* player has are left out.  Scripts do not transform a worn item that has *)
(* a bonus and turns into another when it is taken off, or one that is not *)
(* enabled into one of another kind: what they gave would stay.            *)
(***************************************************************************)
EXTENDS Integers, Sequences, FiniteSets, FiniteSetsExt

CONSTANTS SkillTries,  \* getReqSkillTries of each level; the last two are equal
          ManaNeeded,  \* getReqMana of each magic level; the last two are equal
          ExpNeeded,   \* getExpForLevel of each level from 1
          FirstSkill,  \* MINIMUM_SKILL_LEVEL
          HPGain,      \* getHPGain of the vocation; mana and capacity grow alike
          Amounts,     \* bound: what is gained at once
          Rewards,     \* bound: what a script of an advance gives, 0 if nothing
          Gear,        \* the items
          Types,       \* what transforms into what, what it gives and needs:
                       \* [on, off, decayTo, bonus, condition, suppresses, level, slots, event, kind]
          FirstType,   \* FirstType[i]: the type of item i at first
          Scripted,    \* pairs of types: scripts transform one into the other
          Slots,       \* the slots of the inventory
          MaxLevel,    \* the level of the player
          Pack, Gone,  \* where an item that is not worn may be
          None

VARIABLES skill,      \* [level, tries, percent, earned, fell, told]; told is what the client shows
          magic,      \* magLevel, manaSpent and magLevelPercent, by the same names
          rank,       \* [level, experience, healthMax, health, bonus]
          gear,       \* of each item its type and where it is
          abilities   \* inventoryAbilities, the sum of the bonuses, the slots of the conditions,
                      \* conditionSuppressions, the level

growthVars == <<skill, magic, rank>>

Top(need) == CHOOSE l \in DOMAIN need : l + 1 \in DOMAIN need /\ need[l] >= need[l + 1]
Total(need, first, l) == LET sum[k \in first..l] == IF k = first THEN 0 ELSE sum[k - 1] + need[k] IN sum[l]
Full(need, first) == Total(need, first, Top(need))
Owned(need, first, s) == Total(need, first, s.level) + s.tries
MostExp == ExpNeeded[Len(ExpNeeded)]

\* Player::getBasisPointLevel, in percent.
getBasisPointLevel(count, next) ==
    LET p == (count * 100) \div next IN IF next = 0 \/ p > 100 THEN 0 ELSE p

getMaxHealth(r) == IF r.healthMax + r.bonus < 1 THEN 1 ELSE r.healthMax + r.bonus

GrowthTypeOK ==
    /\ skill.level \in FirstSkill..Top(SkillTries) /\ skill.tries \in Nat /\ skill.percent \in 0..100
    /\ magic.level \in 0..Top(ManaNeeded) /\ magic.tries \in Nat /\ magic.percent \in 0..100
    /\ rank.level \in DOMAIN ExpNeeded /\ rank.experience \in 0..(MostExp - 1)
    /\ rank.healthMax \in Nat /\ rank.health \in Nat /\ rank.bonus \in -1..1

Told(s) == [s EXCEPT !.told = <<s.level, s.percent>>]

-----------------------------------------------------------------------------
(* Training.  The script of an advance (playerAdvance) runs in the loop,   *)
(* with the level raised and the rest not yet added.                       *)

RECURSIVE addSkillAdvance(_, _, _), SkillLoop(_, _, _, _, _)
addSkillAdvance(s, count, reward) ==
    IF SkillTries[s.level] >= SkillTries[s.level + 1] \/ count = 0 THEN s
    ELSE SkillLoop(s, count, reward, SkillTries[s.level + 1], FALSE)

\* The client is told if a level was reached (update) or the percent changed.
SkillLoop(s, count, reward, next, update) ==
    IF s.tries + count < next
      THEN LET p == getBasisPointLevel(s.tries + count, next)
               t == [s EXCEPT !.tries = @ + count, !.percent = p, !.fell = FALSE]
           IN IF update \/ p # s.percent THEN Told(t) ELSE t
    ELSE LET up == addSkillAdvance([s EXCEPT !.level = @ + 1, !.tries = 0, !.percent = 0], reward, 0)
             after == SkillTries[up.level + 1]
         IN IF next >= after THEN Told([up EXCEPT !.percent = 0, !.fell = FALSE])
            ELSE SkillLoop(up, count - (next - s.tries), 0, after, TRUE)

RECURSIVE addManaSpent(_, _, _), ManaLoop(_, _, _, _, _)
addManaSpent(s, amount, reward) ==
    IF ManaNeeded[s.level] >= ManaNeeded[s.level + 1] \/ amount = 0 THEN s
    ELSE ManaLoop(s, amount, reward, ManaNeeded[s.level + 1], FALSE)

ManaLoop(s, amount, reward, next, update) ==
    IF s.tries + amount < next
      THEN LET p == getBasisPointLevel(s.tries + amount, next)
               t == [s EXCEPT !.tries = @ + amount, !.percent = p]
           IN IF update \/ p # s.percent THEN Told(t) ELSE t
    ELSE LET up == addManaSpent([s EXCEPT !.level = @ + 1, !.tries = 0], reward, 0)
             after == ManaNeeded[up.level + 1]
         IN IF next >= after THEN up ELSE ManaLoop(up, amount - (next - s.tries), 0, after, TRUE)

\* What was earned; beyond the highest level it is lost.
Earn(s, n, full) == [s EXCEPT !.earned = IF @ + n > full THEN full ELSE @ + n]

TrainSkill(n, reward) ==
    /\ skill' = LET s == addSkillAdvance(skill, n, reward)
                    rewarded == IF s.level > skill.level THEN reward ELSE 0
                IN Earn(s, n + rewarded, Full(SkillTries, FirstSkill))
    /\ UNCHANGED <<magic, rank>>

TrainMagic(n, reward) ==
    /\ magic' = LET s == addManaSpent(magic, n, reward)
                    rewarded == IF s.level > magic.level THEN reward ELSE 0
                IN Earn(s, n + rewarded, Full(ManaNeeded, 0))
    /\ UNCHANGED <<skill, rank>>

\* Player::addExperience; nothing more once the table of this instance ends.
LevelFor(r, exp) == CHOOSE l \in DOMAIN ExpNeeded : /\ l >= r.level /\ exp < ExpNeeded[l + 1]
                                                     /\ \A k \in r.level..(l - 1) : exp >= ExpNeeded[k + 1]
addExperience(r, n) ==
    LET exp == r.experience + n
        l == LevelFor(r, exp)
        up == [r EXCEPT !.experience = exp, !.level = l,
                        !.healthMax = @ + HPGain * (l - r.level), !.health = @ + HPGain * (l - r.level)]
    IN IF l # r.level THEN [up EXCEPT !.health = getMaxHealth(up)] ELSE up

\* playerAdvance runs at the end, when nothing but the percent is left to do.
GainExperience(n, reward) ==
    /\ rank.experience + n + reward < MostExp
    /\ rank' = LET r == addExperience(rank, n)
               IN IF r.level > rank.level /\ reward > 0 THEN addExperience(r, reward) ELSE r
    /\ UNCHANGED <<skill, magic>>

-----------------------------------------------------------------------------
(* Losing.                                                                 *)

RECURSIVE SkillDown(_, _), ManaDown(_, _)
SkillDown(s, count) ==
    IF count <= s.tries THEN [s EXCEPT !.tries = @ - count]
    ELSE IF s.level <= FirstSkill THEN [s EXCEPT !.level = FirstSkill, !.tries = 0]
    ELSE SkillDown([s EXCEPT !.tries = SkillTries[s.level], !.level = @ - 1], count - s.tries)

removeSkillTries(s, count) ==
    LET t == SkillDown(s, count)
    IN [t EXCEPT !.percent = getBasisPointLevel(t.tries, SkillTries[t.level]), !.fell = TRUE, !.earned = @ - count]

ManaDown(s, amount) ==
    IF amount > s.tries /\ s.level > 0
      THEN ManaDown([s EXCEPT !.tries = ManaNeeded[s.level], !.level = @ - 1], amount - s.tries)
      ELSE [s EXCEPT !.tries = @ - amount]

removeManaSpent(s, amount) ==
    IF amount = 0 THEN s
    ELSE LET t == ManaDown(s, amount)
             next == ManaNeeded[t.level + 1]
         IN [t EXCEPT !.percent = IF next > ManaNeeded[t.level] THEN getBasisPointLevel(t.tries, next) ELSE 0,
                      !.earned = @ - amount]

\* Levels are lost as long as the experience is not enough for them, their gains with them.
RECURSIVE LevelsDown(_)
LevelsDown(r) ==
    IF r.level > 1 /\ r.experience < ExpNeeded[r.level]
      THEN LevelsDown([r EXCEPT !.level = @ - 1, !.healthMax = IF @ > HPGain THEN @ - HPGain ELSE 0])
      ELSE r

\* By a script, with notify: the client is told of what changed.
Notified(old, new) == IF <<old.level, old.percent>> # <<new.level, new.percent>> THEN Told(new) ELSE new

LoseSkill(n) ==
    /\ n <= skill.earned
    /\ skill' = Notified(skill, removeSkillTries(skill, n))
    /\ UNCHANGED <<magic, rank>>

LoseMagic(n) ==
    /\ n <= magic.earned
    /\ magic' = Notified(magic, removeManaSpent(magic, n))
    /\ UNCHANGED <<skill, rank>>

\* Player::removeExperience.
LoseExperience(n) ==
    /\ rank.experience > 0 /\ n > 0
    /\ rank' = LET r == LevelsDown([rank EXCEPT !.experience = IF @ > n THEN @ - n ELSE 0])
               IN IF r.level # rank.level THEN [r EXCEPT !.health = getMaxHealth(r)] ELSE r
    /\ UNCHANGED <<skill, magic>>

\* Player::death takes the same share of each (one in divisor) and the player is removed;
\* loadPlayer reads him again and drops a rest that is more than a level asks for.  What he
\* still wears is put on again, with its bonus.
Loaded(s, need) ==
    LET t == [s EXCEPT !.tries = IF @ > need[s.level + 1] THEN 0 ELSE @]
    IN Told([t EXCEPT !.percent = getBasisPointLevel(t.tries, need[s.level + 1]), !.fell = FALSE])

LoadedRank(r, bonus) ==
    LET t == [r EXCEPT !.experience = IF @ < ExpNeeded[r.level] \/ @ > ExpNeeded[r.level + 1]
                                        THEN ExpNeeded[r.level] ELSE @,
                       !.bonus = bonus]
    IN [t EXCEPT !.health = IF bonus # 0 /\ @ > getMaxHealth(t) THEN getMaxHealth(t) ELSE @]

Die(divisor, bonus) ==
    /\ skill' = Loaded(removeSkillTries(skill, Owned(SkillTries, FirstSkill, skill) \div divisor), SkillTries)
    /\ magic' = Loaded(removeManaSpent(magic, Owned(ManaNeeded, 0, magic) \div divisor), ManaNeeded)
    /\ rank' = LET r == LevelsDown([rank EXCEPT !.experience = @ - (@ \div divisor)])
               IN LoadedRank([r EXCEPT !.health = r.healthMax], bonus)

Relog ==
    /\ skill' = Loaded(skill, SkillTries) /\ magic' = Loaded(magic, ManaNeeded) /\ rank' = LoadedRank(rank, rank.bonus)

-----------------------------------------------------------------------------
(* Bonuses on the maximal health, and blows.                               *)

\* setVarStats(STAT_MAXHITPOINTS, modifier).
setVarStats(modifier) ==
    /\ rank.bonus + modifier \in -1..1
    /\ rank' = LET r == [rank EXCEPT !.bonus = @ + modifier]
               IN [r EXCEPT !.health = IF @ > getMaxHealth(r) THEN getMaxHealth(r) ELSE @]
    /\ UNCHANGED <<skill, magic>>

Hurt ==
    /\ rank.health > 1 /\ rank' = [rank EXCEPT !.health = 1]
    /\ UNCHANGED <<skill, magic>>

GrowthInit ==
    /\ skill = [level |-> FirstSkill, tries |-> 0, percent |-> 0, earned |-> 0, fell |-> FALSE,
                told |-> <<FirstSkill, 0>>]
    /\ magic = [level |-> 0, tries |-> 0, percent |-> 0, earned |-> 0, fell |-> FALSE, told |-> <<0, 0>>]
    /\ rank = [level |-> 1, experience |-> 0, healthMax |-> HPGain, health |-> HPGain, bonus |-> 0]

GrowthNext ==
    \/ \E n \in Amounts, r \in Rewards : TrainSkill(n, r) \/ TrainMagic(n, r) \/ GainExperience(n, r)
    \/ \E n \in Amounts : LoseSkill(n) \/ LoseMagic(n) \/ LoseExperience(n)
    \/ \E d \in {2, 3}, bonus \in {0, rank.bonus} : Die(d, bonus)
    \/ Relog
    \/ \E m \in {-1, 1} : setVarStats(m)
    \/ Hurt

-----------------------------------------------------------------------------
(* Properties.                                                             *)

\* addSkillAdvance, removeSkillTries, addManaSpent, removeManaSpent: what a level and the
\* rest beyond it amount to is what was earned and not lost, to the last try, through
\* advances that scripts reward, deaths and logins.
EarnedExact ==
    /\ Owned(SkillTries, FirstSkill, skill) = skill.earned
    /\ Owned(ManaNeeded, 0, magic) = magic.earned

\* The level is the one the experience is enough for, and the maximal health has the gain of
\* every level just once; nobody has more than his maximum.
LevelExact ==
    /\ ExpNeeded[rank.level] <= rank.experience /\ rank.experience < ExpNeeded[rank.level + 1]
    /\ rank.healthMax = HPGain * rank.level /\ rank.health <= getMaxHealth(rank)

\* The client is told of every change, and the percent is that of the way to the next level.
PercentTold ==
    /\ skill.told = <<skill.level, skill.percent>>
    /\ magic.level < Top(ManaNeeded) => magic.told = <<magic.level, magic.percent>>
    /\ ~skill.fell => skill.percent = getBasisPointLevel(skill.tries, SkillTries[skill.level + 1])
    /\ magic.level < Top(ManaNeeded) =>
        magic.percent = getBasisPointLevel(magic.tries, ManaNeeded[magic.level + 1])

-----------------------------------------------------------------------------
(* Worn equipment                                                          *)

equipmentVars == <<gear, abilities>>

Type == DOMAIN Types

EquipmentTypeOK ==
    /\ gear \in [Gear -> [type : Type, at : Slots \cup {Pack, Gone}]]
    /\ \A i, j \in Gear : (i # j /\ gear[i].at = gear[j].at) => gear[i].at \in {Pack, Gone}
    /\ abilities.enabled \subseteq Slots /\ abilities.conditions \subseteq Slots
    /\ abilities.suppressed \subseteq UNION {Types[t].suppresses : t \in Type}
    /\ abilities.bonus \in Int /\ abilities.level \in 0..MaxLevel

EquipmentInit ==
    /\ gear = [i \in Gear |-> [type |-> FirstType[i], at |-> Pack]]
    /\ abilities = [enabled |-> {}, bonus |-> 0, conditions |-> {}, suppressed |-> {}, level |-> MaxLevel]

-----------------------------------------------------------------------------
(* A state s is a record of both variables.                                *)

Now == [g |-> gear, a |-> abilities]

Become(s) == gear' = s.g /\ abilities' = s.a

TypeOf(s, i) == Types[s.g[i].type]

Enable(s, slot) == [s EXCEPT !.a.enabled = @ \cup {slot}]
Disable(s, slot) == [s EXCEPT !.a.enabled = @ \ {slot}]

\* The abilities of a type, in EquipItem and in DeEquipItem.
AddAbilities(s, it, slot) ==
    [s EXCEPT !.a.bonus = @ + it.bonus, !.a.conditions = IF it.condition THEN @ \cup {slot} ELSE @,
              !.a.suppressed = @ \cup it.suppresses]

RemoveAbilities(s, it, slot) ==
    [s EXCEPT !.a.bonus = @ - it.bonus, !.a.conditions = IF it.condition THEN @ \ {slot} ELSE @,
              !.a.suppressed = @ \ it.suppresses]

\* MoveEvents::getEvent: a type has both events, for its slots, or none.
HasEvent(s, i, slot) == TypeOf(s, i).event /\ slot \in TypeOf(s, i).slots

\* MoveEvent::EquipItem, what is asked of the player.
MayEquip(s, i, slot) == HasEvent(s, i, slot) => s.a.level >= TypeOf(s, i).level

RECURSIVE EquipItem(_, _, _), DeEquipItem(_, _, _), TransformItem(_, _, _)

\* MoveEvents::onPlayerEquip, with what its caller does: nothing if it is refused.
EquipItem(s, i, slot) ==
    LET it == TypeOf(s, i)
        x == IF it.on # None THEN TransformItem(s, i, it.on) ELSE Enable(s, slot)
    IN  IF ~HasEvent(s, i, slot) \/ ~MayEquip(s, i, slot) \/ slot \in s.a.enabled THEN s
        ELSE AddAbilities(x, it, slot)

\* MoveEvents::onPlayerDeEquip: the type is the one that the item had when it was called.
DeEquipItem(s, i, slot) ==
    LET it == TypeOf(s, i)
        off == Disable(s, slot)
        x == IF it.off # None THEN TransformItem(off, i, it.off) ELSE off
    IN  IF ~HasEvent(s, i, slot) THEN off
        ELSE IF slot \notin s.a.enabled THEN s
        ELSE RemoveAbilities(x, it, slot)

\* Game::transformItem.  An item of another kind is a new one, which is put on before the
\* old one is taken off; an item that is nowhere stays as it is.
TransformItem(s, i, type) ==
    LET slot == s.g[i].at
        retyped(x) == [x EXCEPT !.g[i].type = type]
        old(x) == [x EXCEPT !.g[i].type = s.g[i].type, !.g[i].at = Gone]
        renew(x) == [x EXCEPT !.g[i] = [type |-> EquipItem(retyped(s), i, slot).g[i].type, at |-> slot]]
    IN  CASE s.g[i].type = type \/ slot = Gone -> s
          [] s.g[i].type # type /\ slot = Pack -> retyped(s)
          [] s.g[i].type # type /\ slot \in Slots /\ Types[type].kind = TypeOf(s, i).kind ->
                EquipItem(retyped(DeEquipItem(s, i, slot)), i, slot)
          [] s.g[i].type # type /\ slot \in Slots /\ Types[type].kind # TypeOf(s, i).kind ->
                renew(DeEquipItem(old(EquipItem(retyped(s), i, slot)), i, slot))

\* Game::internalMoveItem: the item is at its new place when the old one is told.
MoveTo(s, i, at) ==
    LET moved == [s EXCEPT !.g[i].at = at]
        x == IF s.g[i].at \in Slots THEN DeEquipItem(moved, i, s.g[i].at) ELSE moved
    IN  IF at \in Slots THEN EquipItem(x, i, at) ELSE x

-----------------------------------------------------------------------------
(* What happens                                                            *)

\* Player::queryAdd: into an empty slot of the item, if the player may wear it there.
PutOn ==
    \E i \in Gear, slot \in Slots :
        /\ gear[i].at \notin {slot, Gone}
        /\ slot \in TypeOf(Now, i).slots
        /\ \A j \in Gear : gear[j].at # slot
        /\ MayEquip(Now, i, slot)
        /\ Become(MoveTo(Now, i, slot))

TakeOff == \E i \in Gear : gear[i].at \in Slots /\ Become(MoveTo(Now, i, Pack))

\* Game::internalRemoveItem: the item has no parent when its slot is told.
Destroy == \E i \in Gear : gear[i].at # Gone /\ Become(MoveTo(Now, i, Gone))

\* Game::internalDecayItem, of what is worn or of what decays in the backpack.
DecayItem ==
    \E i \in Gear :
        /\ gear[i].at # Gone
        /\ LET to == TypeOf(Now, i).decayTo
           IN  to # None /\ Become(IF to = Gone THEN MoveTo(Now, i, Gone) ELSE TransformItem(Now, i, to))

\* A script transforms an item.
ScriptTransforms ==
    \E i \in Gear, pair \in Scripted :
        gear[i].at # Gone /\ gear[i].type = pair[1] /\ Become(TransformItem(Now, i, pair[2]))

\* The player dies or advances: what it wears stays on.
LevelChanges == \E n \in 0..MaxLevel : n # abilities.level /\ Become([Now EXCEPT !.a.level = n])

\* Player::onCreatureAppear: what is worn is put on again, in the order of the slots.
LogIn ==
    LET fresh == [Now EXCEPT !.a = [enabled |-> {}, bonus |-> 0, conditions |-> {}, suppressed |-> {},
                                    level |-> abilities.level]]
        worn == {i \in Gear : gear[i].at \in Slots}
    IN  Become(FoldSet(LAMBDA i, s : EquipItem(s, i, gear[i].at), fresh, worn))

EquipmentNext == PutOn \/ TakeOff \/ Destroy \/ DecayItem \/ ScriptTransforms \/ LevelChanges \/ LogIn

-----------------------------------------------------------------------------
(* Properties                                                              *)

InSlot(slot) == {i \in Gear : gear[i].at = slot}

\* What a player has gained is what the items give that are enabled in its slots, once each,
\* although items change their type while they are put on and taken off, and what is taken
\* back is read from the type of the item; and nothing is suppressed by what is not worn.
AbilitiesExact ==
    LET active == {i \in Gear : gear[i].at \in abilities.enabled}
    IN  /\ abilities.bonus = FoldSet(LAMBDA i, n : n + TypeOf(Now, i).bonus, 0, active)
        /\ abilities.conditions = {gear[i].at : i \in {j \in active : TypeOf(Now, j).condition}}
        /\ abilities.suppressed \subseteq UNION {TypeOf(Now, i).suppresses : i \in active}

\* A slot is enabled for the item in it: an empty one gives nothing.
EnabledIsWorn == \A slot \in abilities.enabled : InSlot(slot) # {}
=============================================================================

------------------------------- MODULE Casting -------------------------------
(***************************************************************************)
(* A player that casts spells, uses runes and strikes with its weapon      *)
(* (spells.cpp, weapons.cpp, actions.cpp, Game::playerUseItemEx,           *)
(* Player::doAttacking).  All of it is checked, then done, and paid for    *)
(* only after it was done; what must wait is put into the one task that a  *)
(* player has for actions, and the swing of the weapon uses the same task. *)
(*                                                                         *)
(* Time is counted in ticks.  What is near, in sight and of the right      *)
(* level or vocation is nondeterministic; walking to an item that is too   *)
(* far away is in Walk.                                                    *)
(***************************************************************************)
EXTENDS Integers, FiniteSets

CONSTANTS Spells,      \* [kind: "instant" or "rune", group: "combat" or "heal", mana, soul, needTarget]
          Hands,       \* what it may hold: "wand", "bow" and "fist"
          WandMana,    \* mana that a wand takes
          Charges,     \* of a rune, and arrows, at first
          MaxMana, MaxSoul,
          Cooldown,    \* of a spell, ticks
          ExDelay,     \* EX_ACTIONS_DELAY_INTERVAL
          AttackSpeed, \* ticks between two swings
          MaxTimers,   \* bound on the timers of swings
          Reflects,    \* whether the target may reflect damage, which a mana shield takes from the mana
          None

VARIABLES caster,  \* mana, soul, hand, exhaustion, nextAction, swing, task, timers, and
         \* classic: CLASSIC_ATTACK_SPEED
          stock,   \* charges and arrows
          tally    \* what was finished, if a cost was not paid in full; since: ticks since the last cast of a group

castingVars == <<caster, stock, tally>>

Groups == {"combat", "heal"}
Runes == {sp \in Spells : sp.kind = "rune"}
Instants == Spells \ Runes
Attack == [kind |-> "attack"]
MinTicks == 1   \* SCHEDULER_MINTICKS

CastingTypeOK ==
    /\ caster.mana \in 0..MaxMana /\ caster.soul \in 0..MaxSoul /\ caster.hand \in Hands
    /\ caster.exhaust \in [Groups -> 0..Cooldown]
    /\ caster.wait \in 0..ExDelay /\ caster.swing \in 0..AttackSpeed
    /\ caster.task = None \/ caster.task.what \in Runes \cup {Attack}
    /\ caster.timers \in 0..MaxTimers
    /\ stock.charges \in 0..Charges /\ stock.arrows \in 0..Charges

CastingInit ==
    /\ caster = [mana |-> MaxMana, soul |-> MaxSoul, hand |-> "fist", exhaust |-> [g \in Groups |-> 0],
                 wait |-> 0, swing |-> 0, task |-> None, timers |-> 0, classic |-> FALSE]
    /\ stock = [charges |-> Charges, arrows |-> Charges]
    /\ tally = [runes |-> 0, shots |-> 0, short |-> FALSE, since |-> [g \in Groups |-> Cooldown]]

-----------------------------------------------------------------------------
(* A state s is a record of the variables.                                 *)

Now == [c |-> caster, k |-> stock, t |-> tally]

Become(s) == caster' = s.c /\ stock' = s.k /\ tally' = s.t

AtMost(a, b) == IF a < b THEN a ELSE b

\* Player::setNextActionTask: one task, the one before is stopped.
SetNextActionTask(s, what, due) == [s EXCEPT !.c.task = IF what = None THEN None ELSE [what |-> what, due |-> due]]

\* Player::setNextAction never brings it forward.
SetNextAction(s) == [s EXCEPT !.c.wait = ExDelay]

CanDoAction(s) == s.c.wait = 0

\* Player::changeMana stops at zero; addManaSpent trains by the whole cost.
ChangeMana(s, cost) ==
    [s EXCEPT !.c.mana = @ - AtMost(cost, @), !.t.short = @ \/ s.c.mana < cost]

\* Player::changeSoul
ChangeSoul(s, cost) == [s EXCEPT !.c.soul = @ - AtMost(cost, @)]

\* Spell::playerSpellCheck, that part of it which depends on this state.
PlayerSpellCheck(s, sp) ==
    /\ s.c.exhaust[sp.group] = 0
    /\ s.c.mana >= sp.mana
    /\ s.c.soul >= sp.soul

AddExhaust(s, g) == [s EXCEPT !.c.exhaust[g] = Cooldown]

\* Spell::postCastSpell
PostCastSpell(s, sp) ==
    LET t == AddExhaust(s, sp.group)
    IN  ChangeSoul(ChangeMana([t EXCEPT !.t.since[sp.group] = 0], sp.mana), sp.soul)

\* What Combat::doTargetCombat does to the one who strikes, when the target reflects it.
Struck(s) == {s} \cup (IF Reflects /\ s.c.mana > 0 THEN {[s EXCEPT !.c.mana = @ - 1]} ELSE {})

\* executeCastSpell of a spell: the script says if it was cast; if not, it did nothing.
ExecuteCastSpell(s, sp) ==
    {[cast |-> FALSE, s |-> s]} \cup {[cast |-> TRUE, s |-> t] : t \in IF sp.group = "combat" THEN Struck(s) ELSE {s}}

\* InstantSpell::playerCastInstant: the name of a target that is not there exhausts.
PlayerCastInstant(s, sp) ==
    IF ~PlayerSpellCheck(s, sp) THEN {s}
    ELSE (IF sp.needTarget THEN {AddExhaust(s, "heal")} ELSE {s})
         \cup {IF r.cast THEN PostCastSpell(r.s, sp) ELSE r.s : r \in ExecuteCastSpell(s, sp)}

\* RuneSpell::executeUse, and the item that is transformed into one with a charge less, or into none.
TakeCharge(s) == [s EXCEPT !.k.charges = @ - 1]

ExecuteUse(s, sp) ==
    IF ~PlayerSpellCheck(s, sp) THEN {s}
    ELSE {s} \cup {IF r.cast THEN TakeCharge([PostCastSpell(r.s, sp) EXCEPT !.t.runes = @ + 1]) ELSE r.s :
                   r \in ExecuteCastSpell(s, sp)}

\* Actions::useItemEx: the delay is set in any case.
UseItemEx(s, sp) == ExecuteUse(SetNextAction(s), sp)

\* Game::playerUseItemEx of a rune that is there: now, or when the delay is over.
UseRune(s, sp) ==
    IF s.k.charges = 0 THEN {s}
    ELSE IF ~CanDoAction(s) THEN {SetNextActionTask(s, sp, s.c.wait)}
    ELSE UseItemEx(SetNextActionTask(s, None, 0), sp)

\* Player::getWeapon: a bow counts with an arrow for it; then fists.
GetWeapon(s) == IF s.c.hand = "bow" /\ s.k.arrows = 0 THEN "fist" ELSE s.c.hand

\* Weapon::playerWeaponCheck
PlayerWeaponCheck(s, weapon) == weapon = "wand" => s.c.mana >= WandMana

\* Weapon::onUsedWeapon and decrementItemCount
OnUsedWeapon(s, weapon) ==
    IF weapon = "wand" THEN ChangeMana(s, WandMana)
    ELSE IF weapon = "bow" THEN [s EXCEPT !.k.arrows = @ - 1, !.t.shots = @ + 1]
    ELSE s

\* Weapon::internalUseWeapon strikes; one at a tile, after a miss, strikes nobody.
InternalUseWeapon(s, weapon) ==
    {OnUsedWeapon(t, weapon) : t \in Struck(s) \cup (IF weapon = "bow" THEN {s} ELSE {})}

\* useWeapon of a weapon and Weapon::useFist: done, or not when out of reach.
UseWeapon(s, weapon) ==
    {[done |-> FALSE, s |-> s]}
    \cup (IF PlayerWeaponCheck(s, weapon) THEN {[done |-> TRUE, s |-> t] : t \in InternalUseWeapon(s, weapon)} ELSE {})

\* The timer of the next swing: the task of actions, or one more event.
NextSwing(s, delay) ==
    IF s.c.classic THEN [s EXCEPT !.c.timers = AtMost(@ + 1, MaxTimers)]
    ELSE SetNextActionTask(s, Attack, IF delay < MinTicks THEN MinTicks ELSE delay)

\* Player::doAttacking: a bow waits for the delay of actions, it interrupts the swing.
DoAttacking(s) ==
    IF s.c.swing > 0 THEN {s}
    ELSE LET weapon == GetWeapon(s)
         IN  IF weapon = "bow" /\ ~s.c.classic /\ ~CanDoAction(s) THEN {NextSwing(s, s.c.wait)}
             ELSE {LET t == NextSwing(r.s, AttackSpeed)
                   IN  IF r.done THEN [t EXCEPT !.c.swing = AttackSpeed] ELSE t : r \in UseWeapon(s, weapon)}

-----------------------------------------------------------------------------
\* Game::playerSaySpell and Spells::playerSaySpell
SaySpell == \E sp \in Instants : \E t \in PlayerCastInstant(Now, sp) : Become(t)

UseARune == \E sp \in Runes : \E t \in UseRune(Now, sp) : Become(t)

\* Another item, a potion, that is used on something.
UseAnItem ==
    IF CanDoAction(Now) THEN Become(SetNextAction(SetNextActionTask(Now, None, 0))) ELSE UNCHANGED castingVars

\* The task of actions runs: the event is over, but its id is still in actionTaskEvent.
TaskRuns ==
    /\ caster.task # None /\ caster.task.due = 0
    /\ LET s == [Now EXCEPT !.c.task = None]
       IN  \E t \in IF caster.task.what = Attack THEN DoAttacking(s) ELSE UseRune(s, caster.task.what) : Become(t)

\* A timer of classic swings runs, Game::checkCreatureAttack.
TimerRuns ==
    /\ caster.timers > 0
    /\ \E t \in DoAttacking([Now EXCEPT !.c.timers = @ - 1]) : Become(t)

\* Creature::onAttacking, on every think of the player.
OnAttacking == \E t \in DoAttacking(Now) : Become(t)

\* Player::onWalk stops the task and delays the next action.
OnWalk == Become(SetNextAction(SetNextActionTask(Now, None, 0)))

Equip == \E h \in Hands : caster' = [caster EXCEPT !.hand = h] /\ UNCHANGED <<stock, tally>>

\* A potion, a regeneration or a level restores the mana and the soul.
Restore == caster' = [caster EXCEPT !.mana = MaxMana, !.soul = MaxSoul] /\ UNCHANGED <<stock, tally>>

Less(n) == IF n > 0 THEN n - 1 ELSE 0

Tick ==
    /\ caster' = [caster EXCEPT !.exhaust = [g \in Groups |-> Less(@[g])], !.wait = Less(@), !.swing = Less(@),
                                !.task = IF @ = None THEN None ELSE [what |-> @.what, due |-> Less(@.due)]]
    /\ tally' = [tally EXCEPT !.since = [g \in Groups |-> AtMost(@[g] + 1, Cooldown)]]
    /\ UNCHANGED stock

\* Game::reload of the configuration
ReloadConfig == caster' = [caster EXCEPT !.classic = ~@] /\ UNCHANGED <<stock, tally>>

CastingNext ==
    \/ SaySpell \/ UseARune \/ UseAnItem
    \/ TaskRuns \/ TimerRuns \/ OnAttacking
    \/ OnWalk \/ Equip \/ Restore \/ Tick \/ ReloadConfig

-----------------------------------------------------------------------------
(* Everything that was finished was paid for, once: a charge for each rune *)
(* and an arrow for each shot, and the mana that it trains by, although it *)
(* is only checked before.                                                 *)
AllPaid ==
    /\ stock.charges + tally.runes = Charges
    /\ stock.arrows + tally.shots = Charges
    /\ ~Reflects => ~tally.short

(* No spell of a group is finished within the cooldown of the one before,  *)
(* whichever ways the two came, nor an action within the delay of another. *)
CooldownKept ==
    /\ \A g \in Groups : caster.exhaust[g] + tally.since[g] >= Cooldown
    /\ \A g \in Groups : tally.since[g] < Cooldown => caster.exhaust[g] > 0

=============================================================================

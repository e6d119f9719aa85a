------------------------------- MODULE Skulls --------------------------------
(***************************************************************************)
(* Skulls, grudges and protection zone locks (player.cpp, party.cpp).      *)
(* Who attacks an unmarked player keeps a grudge (attackedSet) and wears a *)
(* white skull until out of every fight; who kills without right collects  *)
(* skullTicks and goes red, then black.  What a client shows at the head   *)
(* of another depends on both: it is computed when it is sent, so every    *)
(* change of a skull, a grudge or a party has to be sent to the clients    *)
(* that see one.                                                           *)
(*                                                                         *)
(* There is one party, guilds and wars are left open, as is the kind of    *)
(* zone that a fight is in.  Nobody has PlayerFlag_NotGainInFight, scripts *)
(* set no skull, and the temple where the dead wake up is out of sight.    *)
(***************************************************************************)
EXTENDS Integers, FiniteSets, FiniteSetsExt

CONSTANTS Duelists,              \* the players
          WorldType,             \* "pvp", "no-pvp" or "pvp-enforced"
          FragTime, KillsToRed, KillsToBlack,
          MaxSkullTicks          \* bound: of skullTicks

VARIABLES duel,     \* of each player what the model keeps of it
          comrades, \* the members of the party, its leader included
          seen,     \* pairs of players: the client of one shows the other
          shown     \* shown[v][t]: the skull that the client of v has for t

skullVars == <<duel, comrades, seen, shown>>

NoSkull == "none"
Skull == {NoSkull, "yellow", "green", "white", "red", "black"}

SkullsTypeOK ==
    /\ duel \in [Duelists -> [in : BOOLEAN, skull : Skull \ {"yellow", "green"}, ticks : 0..MaxSkullTicks,
                              inFight : BOOLEAN, pzLocked : BOOLEAN, attacked : SUBSET Duelists]]
    /\ comrades \subseteq {c \in Duelists : duel[c].in}
    /\ \A q \in seen : duel[q[1]].in /\ duel[q[2]].in
    /\ shown \in [Duelists -> [Duelists -> Skull]]

Unmarked == [in |-> TRUE, skull |-> NoSkull, ticks |-> 0, inFight |-> FALSE, pzLocked |-> FALSE, attacked |-> {}]

SkullsInit ==
    /\ duel = [c \in Duelists |-> Unmarked]
    /\ comrades = {}
    /\ seen = {<<c, c>> : c \in Duelists}
    /\ shown = [v \in Duelists |-> [t \in Duelists |-> NoSkull]]

-----------------------------------------------------------------------------
(* A state s is a record of the variables.                                 *)

Now == [d |-> duel, party |-> comrades, seen |-> seen, shown |-> shown]

\* What a client has for whom it does not show does not matter.
Become(s) ==
    /\ duel' = s.d /\ comrades' = s.party /\ seen' = s.seen
    /\ shown' = [v \in Duelists |-> [t \in Duelists |-> IF <<v, t>> \in s.seen THEN s.shown[v][t] ELSE NoSkull]]

IsPartner(s, c, d) == c # d /\ {c, d} \subseteq s.party

HasAttacked(s, c, d) == d \in s.d[c].attacked

\* Player::getSkullClient: what v makes of t.
GetSkullClient(s, v, t) ==
    CASE WorldType # "pvp" -> NoSkull
      [] WorldType = "pvp" /\ s.d[t].skull # NoSkull -> s.d[t].skull
      [] WorldType = "pvp" /\ s.d[t].skull = NoSkull /\ HasAttacked(s, t, v) -> "yellow"
      [] WorldType = "pvp" /\ s.d[t].skull = NoSkull /\ ~HasAttacked(s, t, v) ->
            IF IsPartner(s, v, t) THEN "green" ELSE NoSkull

\* ProtocolGame::sendCreatureSkull, for a set of pairs.
SendCreatureSkulls(s, pairs) ==
    IF WorldType # "pvp" THEN s
    ELSE [s EXCEPT !.shown = [v \in Duelists |-> [t \in Duelists |->
             IF <<v, t>> \in pairs \cap s.seen THEN GetSkullClient(s, v, t) ELSE @[v][t]]]]

SendCreatureSkull(s, v, t) == SendCreatureSkulls(s, {<<v, t>>})

\* Game::updateCreatureSkull, to all that see it.
UpdateCreatureSkull(s, c) == SendCreatureSkulls(s, Duelists \X {c})

SetSkull(s, c, skull) == UpdateCreatureSkull([s EXCEPT !.d[c].skull = skull], c)

AddInFightTicks(s, c) == [s EXCEPT !.d[c].inFight = TRUE]

AddAttacked(s, c, d) == IF c = d THEN s ELSE [s EXCEPT !.d[c].attacked = @ \cup {d}]

RemoveAttacked(s, c, d) == [s EXCEPT !.d[c].attacked = @ \ {d}]

\* Player::onEndCondition, of being in a fight.
OnEndCondition(s, c) ==
    LET x == [s EXCEPT !.d[c].inFight = FALSE, !.d[c].pzLocked = FALSE, !.d[c].attacked = {}]
    IN  IF x.d[c].skull \in {"red", "black"} THEN x ELSE SetSkull(x, c, NoSkull)

-----------------------------------------------------------------------------
(* Attacks.  ally: they are guild mates; war: their guilds are at war;     *)
(* arena: both are in a pvp zone.                                          *)

\* Player::onAttackedCreature, of another player that is not in a pvp zone.
OnAttackedCreature(s, a, t, ally, war) ==
    LET lock(x) == [x EXCEPT !.d[a].pzLocked = TRUE]
        s1 == AddInFightTicks(IF WorldType = "pvp-enforced" THEN lock(s) ELSE s, t)
        s2 == IF WorldType # "pvp-enforced" THEN lock(s1) ELSE s1
        s3 == AddAttacked(s2, a, t)
        s4 == IF s3.d[a].skull = NoSkull /\ s3.d[t].skull = NoSkull THEN SetSkull(s3, a, "white") ELSE s3
        quarrel ==
            CASE s1.d[a].skull = NoSkull /\ GetSkullClient(s1, a, t) = "yellow" ->
                    SendCreatureSkull(AddAttacked(s1, a, t), t, a)
              [] HasAttacked(s1, t, a) /\ ~(s1.d[a].skull = NoSkull /\ GetSkullClient(s1, a, t) = "yellow") -> s1
              [] ~HasAttacked(s1, t, a) ->
                    IF war THEN s2
                    ELSE IF s4.d[a].skull = NoSkull THEN SendCreatureSkull(s4, t, a) ELSE s4
    IN  AddInFightTicks(IF ally \/ IsPartner(s, a, t) THEN s ELSE quarrel, a)

\* Player::addUnjustifiedDead.
AddUnjustifiedDead(s, c) ==
    LET x == [s EXCEPT !.d[c].ticks = @ + FragTime]
        over(kills) == kills # 0 /\ x.d[c].ticks > (kills - 1) * FragTime
    IN  IF WorldType = "pvp-enforced" THEN s
        ELSE IF x.d[c].skull = "black" THEN x
        ELSE IF over(KillsToBlack) THEN SetSkull(x, c, "black")
        ELSE IF x.d[c].skull # "red" /\ over(KillsToRed) THEN SetSkull(x, c, "red")
        ELSE x

\* Player::onKilledCreature, for a player that was killed outside of a pvp zone.
OnKilledCreature(s, c, dead, lastHit, ally, war) ==
    LET right == \/ IsPartner(s, c, dead) \/ ~HasAttacked(s, c, dead) \/ HasAttacked(s, dead, c) \/ ally
        x == IF s.d[dead].skull = NoSkull /\ ~war THEN AddUnjustifiedDead(s, c) ELSE s
    IN  IF right THEN s
        ELSE IF lastHit /\ x.d[c].inFight THEN [x EXCEPT !.d[c].pzLocked = TRUE] ELSE x

\* Party::leaveParty and Party::disband send both ways between who goes and who stays.
BothWays(c, group) == ({c} \X group) \cup (group \X {c})

\* Party::disband.
Disband(s) == SendCreatureSkulls([s EXCEPT !.party = {}], s.party \X s.party)

\* Party::leaveParty: a party of one that is left is disbanded.
LeaveParty(s, c) ==
    LET rest == s.party \ {c}
        x == SendCreatureSkulls([s EXCEPT !.party = rest], BothWays(c, rest \cup {c}))
    IN  IF Cardinality(rest) <= 1 THEN Disband(x) ELSE x

\* Player::onRemoveCreature: a party is left, nobody sees the player, and what IOLoginData
\* saves is left of it: a red or black skull with what is left of its time, and a fight.
GoAway(s, c) ==
    LET x == IF c \in s.party THEN LeaveParty(s, c) ELSE s
        kept == IF x.d[c].skull \in {"red", "black"} THEN x.d[c].skull ELSE NoSkull
    IN  [x EXCEPT !.d[c] = [Unmarked EXCEPT !.in = FALSE, !.skull = kept, !.ticks = x.d[c].ticks,
                                            !.inFight = x.d[c].inFight],
                  !.seen = {q \in @ : c \notin {q[1], q[2]}}]

\* Player::death ends the fight; in a pvp zone the player wakes up in its temple.
Death(s, c, pvpZone) ==
    LET x == OnEndCondition(s, c)
    IN  IF pvpZone THEN [x EXCEPT !.seen = {q \in @ : c \notin {q[1], q[2]} \/ q[1] = q[2]}]
        ELSE GoAway(x, c)

\* Creature::onDeath: the last that hit it is told, then all that hurt it lose their grudge,
\* then who hurt it most is told.
OnDeath(s, c, hurt, last, most, pvpZone, ally, war) ==
    LET killed(x, k, lastHit) ==
            IF k \notin Duelists \/ pvpZone THEN x ELSE OnKilledCreature(x, k, c, lastHit, ally, war)
        s1 == killed(s, last, TRUE)
        s2 == [s1 EXCEPT !.d = [k \in Duelists |-> IF k \in hurt THEN RemoveAttacked(s1, k, c).d[k] ELSE s1.d[k]]]
        s3 == IF most = last THEN s2 ELSE killed(s2, most, FALSE)
    IN  Death(s3, c, pvpZone)

-----------------------------------------------------------------------------
(* What happens                                                            *)

Alive == {c \in Duelists : duel[c].in}

\* A player strikes another: it is told that it was attacked, too.
Strike ==
    \E a \in Alive : \E t \in Alive \ {a} : \E ally, war \in BOOLEAN :
        Become(OnAttackedCreature(AddInFightTicks(Now, t), a, t, ally, war))

\* A monster strikes, or a field of fire is laid.
Scuffle == \E c \in Alive : Become(AddInFightTicks(Now, c))

FightEnds == \E c \in Alive : duel[c].inFight /\ Become(OnEndCondition(Now, c))

Die ==
    \E c \in Alive : \E hurt \in SUBSET (Alive \ {c}) :
    \E last, most \in hurt \cup {"none"}, pvpZone, ally, war \in BOOLEAN :
        LET s == OnDeath(Now, c, hurt, last, most, pvpZone, ally, war)
        IN  /\ \A k \in Duelists : s.d[k].ticks <= MaxSkullTicks
            /\ Become(s)

\* Player::checkSkullTicks, when the player thinks.
CheckSkullTicks ==
    \E c \in Alive :
        LET x == [Now EXCEPT !.d[c].ticks = IF @ = 0 THEN 0 ELSE @ - 1]
        IN  /\ WorldType # "pvp-enforced"
            /\ Become(IF x.d[c].skull \in {"red", "black"} /\ x.d[c].ticks < 1 /\ ~x.d[c].inFight
                      THEN SetSkull(x, c, NoSkull) ELSE x)

\* ProtocolGame::AddCreature carries the skull.
Appear ==
    \E v, t \in Alive :
        /\ <<v, t>> \notin seen
        /\ Become([Now EXCEPT !.seen = @ \cup {<<v, t>>}, !.shown[v][t] = GetSkullClient(Now, v, t)])

Disappear == \E q \in seen : q[1] # q[2] /\ Become([Now EXCEPT !.seen = @ \ {q}])

\* A party of one, whose leader has invited somebody.
CreateParty ==
    \E c \in Alive : comrades = {} /\ Become(SendCreatureSkull([Now EXCEPT !.party = {c}], c, c))

JoinParty ==
    \E c \in Alive \ comrades :
        /\ comrades # {}
        /\ Become(SendCreatureSkulls([Now EXCEPT !.party = @ \cup {c}], BothWays(c, comrades \cup {c})))

LeaveOrDisband == \E c \in comrades : Become(LeaveParty(Now, c))

\* A player may leave the game at any time: it is kicked if it may not log out.
LogOut == \E c \in Alive : Become(GoAway(Now, c))

\* IOLoginData: a skull is loaded only while skullTicks are left, which are rounded up.
LogIn ==
    \E c \in Duelists \ Alive : \E ticks \in 0..duel[c].ticks :
        LET left == IF ticks > 0 THEN ticks + 2 ELSE 0
            c1 == [Unmarked EXCEPT !.skull = IF ticks > 0 THEN duel[c].skull ELSE NoSkull,
                                   !.ticks = IF left > MaxSkullTicks THEN MaxSkullTicks ELSE left,
                                   !.inFight = duel[c].inFight]
            x == [Now EXCEPT !.d[c] = c1, !.seen = @ \cup {<<c, c>>}]
        IN  Become([x EXCEPT !.shown[c][c] = GetSkullClient(x, c, c)])

SkullsNext ==
    \/ Strike \/ Scuffle \/ FightEnds \/ Die \/ CheckSkullTicks
    \/ Appear \/ Disappear
    \/ CreateParty \/ JoinParty \/ LeaveOrDisband
    \/ LogOut \/ LogIn

-----------------------------------------------------------------------------
(* Properties                                                              *)

\* A client shows of every player it sees the skull that getSkullClient has for it now,
\* although that depends on the skull of one, the grudges of the other and both parties, and
\* is sent only by whoever changes one of them.
SkullsShown == \A q \in seen : shown[q[1]][q[2]] = GetSkullClient(Now, q[1], q[2])

\* A white skull, a grudge and a protection zone lock last no longer than the fight: whoever
\* has one is in a fight, whose end takes it away.
NoGrudgeForever ==
    \A c \in Alive : (duel[c].skull = "white" \/ duel[c].pzLocked \/ duel[c].attacked # {}) => duel[c].inFight
=============================================================================

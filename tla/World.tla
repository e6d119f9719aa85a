----------------------------------- MODULE World -----------------------------------
(***************************************************************************)
(* The game world: creatures that appear, think, hunt, walk, fight and     *)
(* die, the conditions upon them, the tiles and maps they walk on, and     *)
(* what decays.  These parts share no state in the models, and all of them *)
(* run on the dispatcher's thread, so that a state of all of them together *)
(* is a state of each: focus picks the part a behaviour is about, and what *)
(* is invariant in every such behaviour is invariant in all their          *)
(* interleavings.                                                          *)
(***************************************************************************)
EXTENDS Integers

CONSTANTS
    Persons, Monsters, Places, Buckets, MaxTasks,
    MaxConditions, MaxTime, MaxHealth,
    Walkers, Hidden, Watchers, Senses, Splashes, Door, Fields, Barrier, Box, Dustbin, MaxStackPos, Embers,
    Ashes, Lasting, DecayBuckets, MaxReferences,
    Requests, MaxSteps, MaxWalkEvents, MaxStrays,
    Fighters, Mages, Summons, Quarrels, Groups, MaxMana, Experience,
    MaxPoints, MaxBlow, MaxDeaths,
    Prey, AttackSpells, DefenseSpeed, SummonMax, MaxSummons, SummonSpeed, Interval,
    ChangeSpeed, Challenge, TargetDistance, MaxAttacks, Field, Dim, Stands, Clutter,
    StepDistance, AttackRange,
    Ground, Roof, Crowded, PathDoors, Searches, MaxNodes, MaxClosed, Tiles, CacheDoors,
    CachePlaces, W, H,
    None

\* What a player asks for is neither his own attack nor nothing.
ASSUME WalkAssumption == MaxSteps \in Nat /\ "attack" \notin Requests /\ None \notin Requests \cup {"attack"}

\* A challenge lasts for one thought of the monster at least.
ASSUME HuntAssumption ==
    /\ Interval \in Nat \ {0} /\ ChangeSpeed \in Nat
    /\ Challenge \in Nat /\ Challenge >= Interval

ASSUME StepsAssumption == Field \cup Stands \subseteq Int \X Int

\* Tiles are at places of a map, the monster has a tile to stand on, and its map is as
\* large as the tiles around it at least.
ASSUME CacheAssumption ==
    /\ Tiles \cup CacheDoors \cup CachePlaces \subseteq Int \X Int /\ Tiles \ CachePlaces # {}
    /\ W \in Nat \ {0} /\ H \in Nat \ {0}

VARIABLES
    focus,   \* the part this behaviour is about
    cs, walk, tasks,
    player, clock, forced,
    tile, client,
    item, decayItems, toDecayItems, lastBucket, toReleaseItems,
    click, walkTasks, posted, body, asked, stranded,
    fighter, lost, deaths, told,
    hunter, targets, summons, since, due, vow,
    me, you, walkDir, fleeing, stepTime, thing,
    walls, search,
    spot, shut, other, ghost, loaded, cache

Cr == INSTANCE Creatures
Ti == INSTANCE Tile
Wa == INSTANCE Walk WITH walk <- click, tasks <- walkTasks, MaxPosted <- MaxWalkEvents
Cb == INSTANCE Combat
Hu == INSTANCE Hunting WITH MaxPosted <- MaxAttacks
Pa == INSTANCE Paths WITH Doors <- PathDoors, Places <- CachePlaces

creatureVars == <<cs, walk, tasks>>
conditionVars == <<player, clock, forced>>
tileVars == <<tile, client>>
decayVars == <<item, decayItems, toDecayItems, lastBucket, toReleaseItems>>
walkVars == <<click, walkTasks, posted, body, asked, stranded>>
combatVars == <<fighter, lost, deaths, told>>
huntVars == <<hunter, targets, summons, since, due, vow>>
stepVars == <<me, you, walkDir, fleeing, stepTime, thing>>
pathVars == <<walls, search>>
mapCacheVars == <<spot, shut, other, ghost, loaded, cache>>

vars == <<focus, creatureVars, conditionVars, tileVars, decayVars, walkVars, combatVars,
          huntVars, stepVars, pathVars, mapCacheVars>>

Init ==
    /\ focus \in {"creatures", "conditions", "tile", "decay", "walk", "combat",
                  "hunting", "steps", "paths", "map cache"}
    /\ Cr!CreaturesInit
    /\ Cb!ConditionsInit
    /\ Ti!TileInit
    /\ Ti!DecayInit
    /\ Wa!WalkInit
    /\ Cb!CombatInit
    /\ Hu!HuntingInit
    /\ Hu!StepsInit
    /\ Pa!PathsInit
    /\ Pa!MapCacheInit
    \* Of a part that does not move, one of its initial states is enough.
    /\ focus # "combat" => {c \in Fighters : fighter[c].in} = CHOOSE g \in Groups : TRUE
    /\ focus # "steps" => /\ you = CHOOSE p \in Stands : TRUE
                         /\ me = CHOOSE p \in Field \ {you} : TRUE
    /\ focus # "paths" => search.asked = CHOOSE a \in Searches : TRUE

\* The other parts stay as they are.
Only(part) ==
    /\ focus = part /\ UNCHANGED focus
    /\ IF part = "creatures" THEN TRUE ELSE UNCHANGED creatureVars
    /\ IF part = "conditions" THEN TRUE ELSE UNCHANGED conditionVars
    /\ IF part = "tile" THEN TRUE ELSE UNCHANGED tileVars
    /\ IF part = "decay" THEN TRUE ELSE UNCHANGED decayVars
    /\ IF part = "walk" THEN TRUE ELSE UNCHANGED walkVars
    /\ IF part = "combat" THEN TRUE ELSE UNCHANGED combatVars
    /\ IF part = "hunting" THEN TRUE ELSE UNCHANGED huntVars
    /\ IF part = "steps" THEN TRUE ELSE UNCHANGED stepVars
    /\ IF part = "paths" THEN TRUE ELSE UNCHANGED pathVars
    /\ IF part = "map cache" THEN TRUE ELSE UNCHANGED mapCacheVars

Next ==
    \/ Only("creatures") /\ Cr!CreaturesNext
    \/ Only("conditions") /\ Cb!ConditionsNext
    \/ Only("tile") /\ Ti!TileNext
    \/ Only("decay") /\ Ti!DecayNext
    \/ Only("walk") /\ Wa!WalkNext
    \/ Only("combat") /\ Cb!CombatNext
    \/ Only("hunting") /\ Hu!HuntingNext
    \/ Only("steps") /\ Hu!StepsNext
    \/ Only("paths") /\ Pa!PathsNext
    \/ Only("map cache") /\ Pa!MapCacheNext

Spec == Init /\ [][Next]_vars

-----------------------------------------------------------------------------

\* A part is looked at when it moves; the others are in their initial states.
Of(part, P) == focus = part => P

TypeOK ==
    /\ Of("creatures", Cr!CreaturesTypeOK) /\ Of("conditions", Cb!ConditionsTypeOK) /\ Of("tile", Ti!TileTypeOK) /\ Of("decay", Ti!DecayTypeOK)
    /\ Of("walk", Wa!WalkTypeOK) /\ Of("combat", Cb!CombatTypeOK) /\ Of("hunting", Hu!HuntingTypeOK)
    /\ Of("steps", Hu!StepsTypeOK) /\ Of("paths", Pa!PathsTypeOK) /\ Of("map cache", Pa!MapCacheTypeOK)

\* Creature::incrementReferenceCounter, Game::ReleaseItem and cleanup, Monster::updateIdleStatus,
\* Game::startDecay: nothing the game still refers to is deleted, and what nobody refers to is
\* deleted once; what is listed is looked after: a monster with somebody to attack thinks, and
\* an item marked as decaying is in a list that is checked.
ReferencesExact ==
    /\ Of("creatures", Cr!ReferencesExact) /\ Of("creatures", Cr!NoDangling) /\ Of("creatures", Cr!AwakeWithTarget)
    /\ Of("decay", Ti!DecayReferences) /\ Of("decay", Ti!DecayGoesOn)

\* Creature::addEventWalk and Player::setNextWalkActionTask: a walk with steps left has an
\* event for the next one, what waits for its end has one or a way to come, but for those a
\* teleport, a root or a loss of speed leaves behind; and it is done once.
WalkServed == Of("walk", Wa!WalkGoesOn) /\ Of("walk", Wa!WalkTaskServed) /\ Of("walk", Wa!ServedOnce)

\* What is kept beside its source agrees with it after every step: a player's speed, skills
\* and looks with the conditions, the client's copy of a tile with the tile, the flags of a
\* tile with its items, the damage maps with the blows; so that what has no health dies, and
\* its experience is shared out once (Game::executeDeath).
CopiesAgree ==
    /\ Of("conditions", Cb!EffectsExact) /\ Of("tile", Ti!CopyAgrees) /\ Of("tile", Ti!FlagsExact)
    /\ Of("combat", Cb!PointsExact) /\ Of("combat", Cb!DeathComes) /\ Of("combat", Cb!KillsShared)

\* Creature::onCreatureMove and updateTileCache: the map a monster carries agrees with the
\* tiles, however it was shifted.
CacheRight == Of("map cache", Pa!CacheRight)

\* Map::getPathMatching: a way that is found can be walked and is not longer than its nodes
\* say, none is missed, and what can be seen can be seen back.  Monster::doAttacking: a spell
\* is not cast again before its time.
WaysRight ==
    /\ Of("paths", Pa!PathWalks) /\ Of("paths", Pa!ParentsCheaper) /\ Of("paths", Pa!NoWayMissed) /\ Of("paths", Pa!Settled) /\ Of("paths", Pa!SightMutual)
    /\ Of("hunting", Hu!SpellPace)

\* Monster::getDistanceStep: a monster that keeps its distance comes no nearer, but for the last
\* resort of one that flees, and where it could go away it does not stand still.
StepsApart == Of("steps", Hu!StepsApart) /\ Of("steps", Hu!NeverCornered)

\* Monster::challengeCreature: who was challenged goes on with the challenger.
ChallengeHolds == Of("hunting", Hu!ChallengeHolds)

\* Monster::getDistanceStep and challengeCreature: both.
HuntRight == StepsApart /\ ChallengeHolds
=============================================================================

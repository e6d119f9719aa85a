---------------------------------- MODULE Spawns -----------------------------------
(***************************************************************************)
(* One spawn (spawn.cpp): an area of the map with blocks, each to be       *)
(* filled with one monster.  spawnedMap holds a reference to each monster, *)
(* filed under its block, or under 0 once it was found outside the area.   *)
(* The removal of a monster starts a check, at most one at a time; a check *)
(* starts the next one while the map has fewer monsters than blocks.       *)
(*                                                                         *)
(* A check comes no earlier than the shortest interval after the one that  *)
(* last touched a block, so that an empty block is due unless this very    *)
(* check emptied it.  Monsters are objects, used again once freed; their   *)
(* number bounds how many can stray.                                       *)
(*                                                                         *)
(* Raids (raids.cpp): a check every minute may start one raid, whose       *)
(* events then run one after the other, each scheduled by the one before;  *)
(* at most one raid is to be running.  A raid that is not repeated leaves  *)
(* the list when it starts and is never deleted.  A reload deletes the     *)
(* raids of the list and reads new ones.                                   *)
(*                                                                         *)
(* A Raid is named by the file's name and the reload that read it.  A      *)
(* scheduled event first waits and is then posted to the game thread, when *)
(* stopEvent no longer reaches it.  An event of a deleted Raid uses freed  *)
(* memory: what follows is not modelled, ghosts says that it can happen.   *)
(***************************************************************************)
EXTENDS Naturals, FiniteSets, FiniteSetsExt

CONSTANTS Spawned,       \* the objects
          NumBlocks,
          RateSpawn,     \* the monsters placed in one check
          StartupFails,  \* whether a monster may find no place at startup
          Names,         \* of the raids in raids.xml
          Repeated,      \* the names of those that are repeated
          NumEvents,     \* of each name: the events in the raid's file, which may have none
          MaxReloads,    \* bound on the reloads
          MaxChecks,     \* bound on the pending checks
          None

VARIABLES spawn,            \* the Spawn: its state, spawnedMap, whether checkSpawnEvent is set
          monsters,         \* of each Monster: where it is, its Spawn pointer, its references
          raids,            \* Raids: raidList, running, started
          raidState,        \* of each Raid: nextEvent, and where its event is
          checks,           \* the checks that wait and that are posted
          reloads, ghosts

spawnVars == <<spawn, monsters>>

Blocks == 1 .. NumBlocks
Unfiled == NumBlocks + 1

SpawnsTypeOK ==
    /\ spawn.phase \in {"loaded", "started", "cleared"}
    /\ spawn.filed \in [Spawned -> {0, Unfiled} \cup Blocks]
    /\ spawn.check \in BOOLEAN
    /\ monsters.at \in [Spawned -> {"freed", "zone", "outside", "removed"}]
    /\ monsters.spawn \in [Spawned -> BOOLEAN]
    /\ monsters.refs \in [Spawned -> 0 .. 2]

SpawnsInit ==
    /\ spawn = [phase |-> "loaded", filed |-> [m \in Spawned |-> Unfiled], check |-> FALSE]
    /\ monsters = [at |-> [m \in Spawned |-> "freed"], spawn |-> [m \in Spawned |-> FALSE],
                   refs |-> [m \in Spawned |-> 0]]

-----------------------------------------------------------------------------

SpawnedMap(s) == {m \in Spawned : s.filed[m] # Unfiled}

Empty(s) == {b \in Blocks : \A m \in Spawned : s.filed[m] # b}

\* decrementReferenceCounter for the monsters ms.
Release(ms, dropped) ==
    LET refs == [m \in Spawned |-> IF m \in dropped THEN ms.refs[m] - 1 ELSE ms.refs[m]]
    IN  [ms EXCEPT !.refs = refs,
                   !.at = [m \in Spawned |-> IF refs[m] = 0 THEN "freed" ELSE ms.at[m]],
                   !.spawn = [m \in Spawned |-> refs[m] > 0 /\ ms.spawn[m]]]

\* spawnMonster for the blocks bs: a new monster for each, with the reference of the game
\* and that of the spawn.
Fill(s, ms, bs) ==
    LET new == CHOOSE f \in [bs -> {m \in Spawned : ms.refs[m] = 0}] :
                   \A b1, b2 \in bs : f[b1] = f[b2] => b1 = b2
        isNew(m) == \E b \in bs : new[b] = m
    IN  [filed |-> [m \in Spawned |-> IF isNew(m) THEN CHOOSE b \in bs : new[b] = m ELSE s.filed[m]],
         at |-> [m \in Spawned |-> IF isNew(m) THEN "zone" ELSE ms.at[m]],
         spawn |-> [m \in Spawned |-> isNew(m) \/ ms.spawn[m]],
         refs |-> [m \in Spawned |-> IF isNew(m) THEN 2 ELSE ms.refs[m]]]

Placed(s, ms, bs) ==
    /\ Cardinality(bs) <= Cardinality({m \in Spawned : ms.refs[m] = 0})
    /\ monsters' = [at |-> Fill(s, ms, bs).at, spawn |-> Fill(s, ms, bs).spawn,
                    refs |-> Fill(s, ms, bs).refs]

\* A monster of each block, except those that find no place.
Startup ==
    /\ spawn.phase = "loaded"
    /\ \E bs \in IF StartupFails THEN SUBSET Blocks ELSE {Blocks} :
          /\ Placed(spawn, monsters, bs)
          /\ spawn' = [spawn EXCEPT !.phase = "started", !.filed = Fill(spawn, monsters, bs).filed]

-----------------------------------------------------------------------------
(* The monsters of the spawn                                               *)

Alive(m) == monsters.at[m] \in {"zone", "outside"}

Wander(m) ==
    /\ spawn.phase = "started" /\ Alive(m)
    /\ \E place \in {"zone", "outside"} : monsters' = [monsters EXCEPT !.at[m] = place]
    /\ UNCHANGED spawn

\* Monster::onRemoveCreature, for death and despawn; the game's reference goes with the
\* next Game::cleanup.
RemoveMonster(m) ==
    /\ spawn.phase = "started" /\ Alive(m)
    /\ monsters' = Release([monsters EXCEPT !.at[m] = "removed"], {m})
    /\ spawn' = [spawn EXCEPT !.check = @ \/ monsters.spawn[m]]

-----------------------------------------------------------------------------
(* The check                                                               *)

Removed == {m \in SpawnedMap(spawn) : monsters.at[m] = "removed"}

\* cleanup(): removed monsters are let go, strayed ones filed under 0.
Cleanup ==
    [spawn EXCEPT !.filed = [m \in Spawned |->
        IF m \in Removed THEN Unfiled
        ELSE IF @[m] # Unfiled /\ monsters.at[m] = "outside" THEN 0 ELSE @[m]]]

\* The blocks that try in vain, because a player is near, stay empty until the next check.
CheckSpawn ==
    /\ spawn.check
    /\ \E bs \in SUBSET (Empty(Cleanup) \ {spawn.filed[m] : m \in Removed}) :
          LET after == [Cleanup EXCEPT !.filed = Fill(Cleanup, Release(monsters, Removed), bs).filed]
          IN  /\ Cardinality(bs) <= RateSpawn
              /\ Placed(Cleanup, Release(monsters, Removed), bs)
              /\ spawn' = [after EXCEPT !.check = Cardinality(SpawnedMap(after)) < NumBlocks]

\* Spawns::clear and ~Spawn, at shutdown.
Clear ==
    /\ spawn.phase = "started"
    /\ spawn' = [phase |-> "cleared", filed |-> [m \in Spawned |-> Unfiled], check |-> FALSE]
    /\ monsters' = Release([monsters EXCEPT !.spawn = [m \in Spawned |-> @[m] /\ m \notin SpawnedMap(spawn)]],
                           SpawnedMap(spawn))

SpawnsNext ==
    \/ Startup \/ CheckSpawn \/ Clear
    \/ \E m \in Spawned : Wander(m) \/ RemoveMonster(m)

-----------------------------------------------------------------------------

\* Spawn::spawnedMap and the reference counts: a monster has the references of the game and
\* of the one entry that files it, no block has two monsters, and only a monster that is
\* filed points to the Spawn.
SpawnReferences ==
    /\ \A m \in Spawned :
          monsters.refs[m] = Cardinality({m} \cap SpawnedMap(spawn)) + (IF Alive(m) THEN 1 ELSE 0)
    /\ \A m \in Spawned : monsters.spawn[m] => m \in SpawnedMap(spawn)
    /\ \A m1, m2 \in SpawnedMap(spawn) : spawn.filed[m1] = spawn.filed[m2] /\ m1 # m2 => spawn.filed[m1] = 0

\* Monster::onRemoveCreature: a removed monster never waits in the map without a check to
\* let it go.
RemovalChecked == Removed # {} => spawn.check

\* An empty block has a check that will fill it (checkSpawn goes on while the map of the
\* spawned creatures is smaller than the map of the blocks).
EmptyBlockChecked == spawn.phase = "started" /\ Empty(spawn) # {} => spawn.check

-----------------------------------------------------------------------------
(* Raids                                                                   *)

raidVars == <<raids, raidState, checks, reloads, ghosts>>

RaidObjects == Names \X (0 .. MaxReloads)

RaidsTypeOK ==
    /\ raids.raidList \subseteq RaidObjects
    /\ raids.running \in RaidObjects \cup {None}
    /\ raids.started \in BOOLEAN
    /\ raidState.nextEvent \in [RaidObjects -> Nat]
    /\ \A r \in RaidObjects : raidState.nextEvent[r] <= NumEvents[r[1]]
    /\ raidState.event \in [RaidObjects -> {"none", "waits", "posted"}]
    /\ checks \in [waiting : 0 .. MaxChecks, posted : 0 .. MaxChecks]
    /\ reloads \in 0 .. MaxReloads
    /\ ghosts \in BOOLEAN

Loaded(n) == Names \X {n}

RaidsInit ==
    /\ raids = [raidList |-> Loaded(0), running |-> None, started |-> FALSE]
    /\ raidState = [nextEvent |-> [r \in RaidObjects |-> 0], event |-> [r \in RaidObjects |-> "none"]]
    /\ checks = [waiting |-> 0, posted |-> 0]
    /\ reloads = 0 /\ ghosts = FALSE

-----------------------------------------------------------------------------

StartRaids ==
    /\ ~raids.started
    /\ raids' = [raids EXCEPT !.started = TRUE]
    /\ checks' = [checks EXCEPT !.waiting = 1]
    /\ UNCHANGED <<raidState, reloads, ghosts>>

\* Raid::startRaid, with the answer of getNextRaidEvent.
StartRaid(s, r) == IF s.nextEvent[r] < NumEvents[r[1]] THEN [s EXCEPT !.event[r] = "waits"] ELSE s

\* The timers of the scheduler fire and post their tasks.
PostCheck ==
    /\ checks.waiting > 0
    /\ checks' = [waiting |-> checks.waiting - 1, posted |-> checks.posted + 1]
    /\ UNCHANGED <<raids, raidState, reloads, ghosts>>

PostEvent(r) ==
    /\ raidState.event[r] = "waits"
    /\ raidState' = [raidState EXCEPT !.event[r] = "posted"]
    /\ UNCHANGED <<raids, checks, reloads, ghosts>>

\* checkRaids: the first raid whose margin has passed and whose chance comes up.
CheckRaids ==
    /\ checks.posted > 0
    /\ checks' = [waiting |-> checks.waiting + 1, posted |-> checks.posted - 1]
    /\ \/ UNCHANGED <<raids, raidState>>
       \/ \E r \in raids.raidList :
             /\ raids.running = None
             /\ raids' = [raids EXCEPT !.running = r, !.raidList = IF r[1] \in Repeated THEN @ ELSE @ \ {r}]
             /\ raidState' = StartRaid(raidState, r)
    /\ UNCHANGED <<reloads, ghosts>>

\* Game.startRaid of a script.
LuaStartRaid(r) ==
    /\ r \in raids.raidList /\ raids.running = None
    /\ raids' = [raids EXCEPT !.running = r]
    /\ raidState' = StartRaid(raidState, r)
    /\ UNCHANGED <<checks, reloads, ghosts>>

\* resetRaid(): whichever raid was running, none is now.
ResetRaid(r) ==
    /\ raidState' = [raidState EXCEPT !.nextEvent[r] = 0, !.event[r] = "none"]
    /\ raids' = [raids EXCEPT !.running = None]

\* An event that fails ends the raid.
ExecuteRaidEvent(r) ==
    LET next == raidState.nextEvent[r] + 1
    IN  /\ raidState.event[r] = "posted"
        /\ \/ ResetRaid(r)
           \/ /\ next < NumEvents[r[1]]
              /\ raidState' = [raidState EXCEPT !.nextEvent[r] = next, !.event[r] = "waits"]
              /\ UNCHANGED raids
        /\ UNCHANGED <<checks, reloads, ghosts>>

\* Raids::clear, loadFromXml and startup.  Only what still waits is stopped, and of the
\* checks only the last one; a raid that left the list keeps its event.
Reload ==
    /\ reloads < MaxReloads
    /\ checks.waiting = 0 => checks.posted < MaxChecks
    /\ reloads' = reloads + 1
    /\ ghosts' = (ghosts \/ \E r \in raids.raidList : raidState.event[r] = "posted")
    /\ raids' = [raidList |-> Loaded(reloads'), running |-> None, started |-> TRUE]
    /\ raidState' = [raidState EXCEPT !.event =
                        [r \in RaidObjects |-> IF r \in raids.raidList THEN "none" ELSE @[r]]]
    /\ checks' = [checks EXCEPT !.waiting = IF @ = 0 THEN 1 ELSE @]

RaidsNext ==
    \/ StartRaids \/ PostCheck \/ CheckRaids \/ Reload
    \/ \E r \in RaidObjects : PostEvent(r) \/ LuaStartRaid(r) \/ ExecuteRaidEvent(r)

-----------------------------------------------------------------------------

\* Raids::checkRaids starts nothing while a raid is running, so that raids would stop for
\* good if one ever stayed running without an event to come, or if no check came any more.
\* Only a raid without any event does: it is started and never reset.
RaidsGoOn ==
    /\ raids.running # None =>
          raidState.event[raids.running] # "none" \/ NumEvents[raids.running[1]] = 0
    /\ raids.started => checks.waiting + checks.posted > 0

\* "Another raid is already executing.": a raid with events to come is the running one.
OneRaid == \A r \in RaidObjects : raidState.event[r] # "none" => r = raids.running
=============================================================================

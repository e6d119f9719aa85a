---------------------------------- MODULE Society ----------------------------------
(***************************************************************************)
(* Players with each other and with the server: the sessions that compete  *)
(* for one character, channels and guilds, houses, skulls, spells and      *)
(* weapons, saved players, storage values and the scripts behind them.  As *)
(* in module World the parts share no state and focus picks one.           *)
(***************************************************************************)
EXTENDS Integers, TLC

CONSTANTS
    Sessions,
    People, Guilds, Rankless, Addresses, PrivateIds,
    Occupants, Beds, Things, MaxWarnings, MaxHouseTasks,
    Persons, Goods, Cursed, Accounts, StorageKeys, Values, Wide, Absent,
    MaxEnvs, MaxNesting, MaxOverflows, ScriptItems, Timers,
    Duelists, WorldType, FragTime, KillsToRed, KillsToBlack, MaxSkullTicks,
    CastSpells, Hands, WandMana, Charges, MaxMana, MaxSoul, Cooldown, ExDelay,
    AttackSpeed, MaxTimers, Reflects,
    None

\* None is none of what a pointer may point to; the bounds and settings are numbers.
ASSUME SessionAssumption == None \notin Sessions

ASSUME ChatAssumption == None \notin People \cup Guilds \cup Addresses /\ PrivateIds \subseteq Nat

ASSUME SkullAssumption == FragTime \in Nat /\ MaxSkullTicks \in Nat

\* The lists of a house and of its door are named by strings.
ASSUME HousesAssumption ==
    /\ Occupants # {} /\ None \notin Occupants \cup Beds \cup {"guests", "subOwners", "door"}
    /\ MaxWarnings \in Nat

\* Somebody has the goods at first.
ASSUME PersistenceAssumption == Persons # {} /\ Cursed \subseteq Persons

\* game_storage is a table of its own.
ASSUME StorageAssumption == "game" \notin Accounts

\* Scripts do not call each other deeper than there are environments: what happens beyond is
\* looked at in Scripts alone.
ASSUME ScriptAssumption ==
    MaxEnvs \in Nat \ {0} /\ MaxNesting \in 1..MaxEnvs /\ MaxOverflows \in Nat /\ None \notin Timers

ASSUME CastingAssumption ==
    /\ {MaxMana, MaxSoul, Cooldown, ExDelay, AttackSpeed, MaxTimers, WandMana, Charges} \subseteq Nat
    /\ "fist" \in Hands
    /\ \A sp \in CastSpells : sp.group \in {"combat", "heal"} /\ sp.mana \in Nat /\ sp.soul \in Nat

VARIABLES
    focus,   \* the part this behaviour is about
    stage, closed, gone, released, player, eventConnect, acceptPackets, client,
    isConnecting, inGame, toRelease, refs, bufferedProtocols, sendAllEvents, taskList,
    present, belongs, guilds, chat,
    house, people, bedSleepersMap, houseTasks,
    loggedIn, mem, disk, storedConditionList, faults,
    accountStorageMap, storageMap, tables, written,
    scriptEnvIndex, frames, tempItems, tempResults, items, timers, references,
    duel, comrades, seen, shown,
    caster, stock, tally

Se == INSTANCE Session
Ch == INSTANCE Chat
Ho == INSTANCE Houses
Pe == INSTANCE Persistence WITH online <- loggedIn
Sc == INSTANCE Scripts
Sk == INSTANCE Skulls
Ca == INSTANCE Casting WITH Spells <- CastSpells

sessionVars == <<stage, closed, gone, released, player, eventConnect, acceptPackets,
                 client, isConnecting, inGame, toRelease, refs, bufferedProtocols,
                 sendAllEvents, taskList>>
chatVars == <<present, belongs, guilds, chat>>
houseVars == <<house, people, bedSleepersMap, houseTasks>>
persistenceVars == <<loggedIn, mem, disk, storedConditionList, faults>>
storageVars == <<accountStorageMap, storageMap, tables, written>>
scriptVars == <<scriptEnvIndex, frames, tempItems, tempResults, items, timers,
                references>>
skullVars == <<duel, comrades, seen, shown>>
castingVars == <<caster, stock, tally>>

vars == <<focus, sessionVars, chatVars, houseVars, persistenceVars, storageVars,
          scriptVars, skullVars, castingVars>>

Init ==
    /\ focus \in {"session", "chat", "houses", "persistence", "storage", "scripts",
                  "skulls", "casting"}
    /\ Se!Init
    /\ Ch!ChatInit
    /\ Ho!HousesInit
    /\ Pe!PersistenceInit
    /\ Pe!StorageInit
    /\ Sc!ScriptsInit
    /\ Sk!SkullsInit
    /\ Ca!CastingInit

\* The other parts stay as they are.
Only(part) ==
    /\ focus = part /\ UNCHANGED focus
    /\ IF part = "session" THEN TRUE ELSE UNCHANGED sessionVars
    /\ IF part = "chat" THEN TRUE ELSE UNCHANGED chatVars
    /\ IF part = "houses" THEN TRUE ELSE UNCHANGED houseVars
    /\ IF part = "persistence" THEN TRUE ELSE UNCHANGED persistenceVars
    /\ IF part = "storage" THEN TRUE ELSE UNCHANGED storageVars
    /\ IF part = "scripts" THEN TRUE ELSE UNCHANGED scriptVars
    /\ IF part = "skulls" THEN TRUE ELSE UNCHANGED skullVars
    /\ IF part = "casting" THEN TRUE ELSE UNCHANGED castingVars

Next ==
    \/ Only("session") /\ Se!Next
    \/ Only("chat") /\ Ch!ChatNext
    \/ Only("houses") /\ Ho!HousesNext
    \/ Only("persistence") /\ Pe!PersistenceNext
    \/ Only("storage") /\ Pe!StorageNext
    \/ Only("scripts") /\ Sc!ScriptsNext
    \/ Only("skulls") /\ Sk!SkullsNext
    \/ Only("casting") /\ Ca!CastingNext

Spec == Init /\ [][Next]_vars

-----------------------------------------------------------------------------

\* A part is looked at when it moves; the others are in their initial states.
Of(part, P) == focus = part => P

TypeOK ==
    /\ Of("session", Se!TypeOK) /\ Of("chat", Ch!ChatTypeOK) /\ Of("houses", Ho!HousesTypeOK)
    /\ Of("persistence", Pe!PersistenceTypeOK) /\ Of("storage", Pe!StorageTypeOK)
    /\ Of("scripts", Sc!ScriptsTypeOK) /\ Of("skulls", Sk!SkullsTypeOK) /\ Of("casting", Ca!CastingTypeOK)

\* ProtocolGame::connect and release, Game::ReleaseCreature: a character has one client, a
\* Player object lives as long as it is used, one of them is in the game, and protocols are
\* served as long as they exist.
SessionsExact ==
    /\ Of("session", Se!ClientAgrees) /\ Of("session", Se!ReferencesExact)
    /\ Of("session", Se!OnePlayerInGame) /\ Of("session", Se!AutosendServes)

\* Who leaves is forgotten: channels keep no player that left the game, guilds and their
\* members point at each other (but for players that a setGuild without a rank left behind),
\* so do beds and sleepers, timers and their references, who attacked whom and the skulls
\* shown.
PointersAgree ==
    /\ Of("chat", Ch!NobodyLeftBehind) /\ Of("chat", Ch!PrivateChannels) /\ Of("chat", Ch!GuildsAgree)
    /\ Of("houses", Ho!SleepersAgree) /\ Of("scripts", Sc!TimersRegistered)
    /\ Of("skulls", Sk!SkullsShown) /\ Of("skulls", Sk!NoGrudgeForever)

\* House::setOwner and setAccessList: nobody stays in a house without being invited.
StrangersLeave == Ho!StrangersLeave

\* IOLoginData::savePlayer, Game::saveAccountStorageValues, ScriptEnvironment::resetEnv,
\* Spell::postCastSpell and Weapon::onUsedWeapon: goods, storage values and items made by
\* scripts are neither lost nor doubled, and what is cast and shot is paid for.
Conserved ==
    /\ Of("persistence", Pe!Conserved) /\ Of("storage", Pe!StorageKept) /\ Of("scripts", Sc!CreatedItemsKept)
    /\ Of("casting", Ca!AllPaid) /\ Of("casting", Ca!CooldownKept)

\* IOLoginData::savePlayer: what is saved of a player in the game is the whole of a state it
\* is in.
SavedWhole == Pe!SavedWhole

-----------------------------------------------------------------------------
(* The small instance of Society.cfg                                       *)

\* The people and two of the sessions change places; as only one part moves, one permutation
\* serves them all.
Twins == Sessions \ {CHOOSE s \in Sessions : TRUE}

PartSymmetry ==
    {f \in Permutations(People \cup Twins) :
        /\ \A q \in People : f[q] \in People
        /\ \A x, y \in DOMAIN f : f[x] = x <=> f[y] = y}

SpellsKnown ==
    {[kind |-> "instant", group |-> "combat", mana |-> 1, soul |-> 0, needTarget |-> FALSE],
     [kind |-> "instant", group |-> "heal", mana |-> 1, soul |-> 0, needTarget |-> TRUE],
     [kind |-> "rune", group |-> "combat", mana |-> 0, soul |-> 1, needTarget |-> TRUE]}
=============================================================================

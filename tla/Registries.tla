-------------------------------- MODULE Registries ---------------------------------
(***************************************************************************)
(* The handlers that scripts and XML files register (baseevents.cpp and    *)
(* the registries of actions, movements, talkactions, creature events,     *)
(* global events, weapons and spells), what Game::reload makes of them,    *)
(* and who points into them: creatures to their events, monsters to        *)
(* spells, the scheduler to the two chains of the global events.           *)
(*                                                                         *)
(* A handler is declared in an XML file, whose registry has an interface   *)
(* of its own, or by a Lua script.  A fragile one is in a file that is     *)
(* being edited, which may fail to load; the XML indices themselves load.  *)
(* No creature event is declared by both an XML file and a script.         *)
(*                                                                         *)
(* The hooks by which the engine asks scripts (events.cpp, and the         *)
(* handlers of creatureevent.cpp, globalevent.cpp, actions.cpp,            *)
(* talkaction.cpp, movement.cpp, weapons.cpp, spells.cpp, combat.cpp,      *)
(* chat.cpp, npc.cpp, monster.cpp): each takes an environment, pushes the  *)
(* script's function and its arguments on the one Lua stack, says how many *)
(* arguments that were, calls, takes the answer off the stack and gives    *)
(* the environment back; or it gives up in between.                        *)
(*                                                                         *)
(* frames is the C++ stack of hooks whose scripts run: a script calls the  *)
(* engine, which may fire other hooks.  The values that a script leaves to *)
(* the engine are abstracted to what the conversions tell apart.  What an  *)
(* environment holds is in Scripts.                                        *)
(***************************************************************************)
EXTENDS Integers, Sequences, FiniteSets, FiniteSetsExt, SequencesExt

CONSTANTS Handlers,    \* [key, origin, fragile]: what the files declare, origin "xml" or "lua"
          KindOf,      \* KindOf[k]: the registry of key k
          HasDefault,  \* the weapons that loadDefaults has one for
          Watchers,    \* creatures
          Learners,    \* Learners[m]: the spells that monster m uses
          MaxChains,   \* bound on the pending events of the global events
          MaxEnvs,     \* 16
          MaxRefused,  \* bound: how many hooks find no environment left
          Calling,     \* bound: names of hooks whose scripts fire other hooks
          Optional,    \* bound: names of hooks that scripts may not define
          None

VARIABLES handler,     \* handler[k]: the number of entries of k by the origin of their scripts
          eventsList,  \* eventsList[c]: the events of creature c, those whose entry was erased in "lost"
          learnt,      \* learnt[m]: those of its spells that monster m points to, the erased in "lost"
          globals,     \* [id: thinkEventId and timerEventId, pending: what each event runs]
          missing,     \* hooks of class Events that are not set: their event is -1
          frames,      \* the hooks whose scripts run, with the height of the Lua stack below each
          lua,         \* height of the Lua stack
          envs,        \* scriptEnvIndex + 1
          answer       \* what the last hook answered, until another one fires

Keys == DOMAIN KindOf
Of1(kind) == {k \in Keys : KindOf[k] = kind}
CreatureEvents == Of1("creature")
Chains == {"think", "timer"}
Ids == 1..MaxChains
Stale == -1   \* an id whose event has run

\* How many entries of a key have a script of each origin, or none; of two
\* movements of one key the order of loading decides which is used.
Entry == {"xml", "lua", "cleared", "default"}
Nothing == [e \in Entry |-> 0]
One(e) == [Nothing EXCEPT ![e] = 1]

registryVars == <<handler, eventsList, learnt, globals>>

Fragile(h) == h.fragile
Solid(k) == \A h \in Handlers : h.key = k => ~Fragile(h)
Declared(k, origin) == \E h \in Handlers : h.key = k /\ h.origin = origin

-----------------------------------------------------------------------------
(* A state s is a record of the variables.                                 *)

Now == [reg |-> handler, list |-> eventsList, spell |-> learnt, ge |-> globals]

Become(s) ==
    /\ handler' = s.reg
    /\ eventsList' = s.list
    /\ learnt' = s.spell
    /\ globals' = s.ge

\* The entries of spells are pointed to: they are lost with the entry.
LoseSpells(s, lost) ==
    [s EXCEPT !.spell = [m \in DOMAIN Learners |->
        [has |-> s.spell[m].has \ lost, lost |-> s.spell[m].lost \cup (s.spell[m].has \cap lost)]]]

\* clear of actions, talkactions, movements, weapons: all the entries of an origin.
Without(entries, origin) ==
    [e \in Entry |-> IF e = origin \/ (e = "default" /\ origin = "xml") THEN 0 ELSE entries[e]]

ClearMap(s, kind, origin) ==
    [s EXCEPT !.reg = [k \in Keys |-> IF KindOf[k] = kind THEN Without(s.reg[k], origin) ELSE s.reg[k]]]

\* CreatureEvents::clear keeps the entries, without a script.
ClearEvents(s, origin) ==
    [s EXCEPT !.reg = [k \in Keys |-> IF k \in CreatureEvents /\ s.reg[k] = One(origin) THEN One("cleared")
                                      ELSE s.reg[k]]]

ClearSpells(s, origin) ==
    LoseSpells(ClearMap(s, "spell", origin), {k \in Of1("spell") : s.reg[k] = One(origin)})

\* GlobalEvents::clear: stopEvent of both members.
ClearGlobals(s, origin) ==
    LET stopped == [i \in Ids |-> IF \E c \in Chains : s.ge.id[c] = i THEN "none" ELSE s.ge.pending[i]]
    IN  ClearMap(ClearMap([s EXCEPT !.ge = [id |-> [c \in Chains |-> 0], pending |-> stopped]], "think", origin),
                 "timer", origin)

FreeId(ge) == CHOOSE i \in Ids : ge.pending[i] = "none"

\* addEvent, its id in one of the two members
Schedule(ge, what, member) ==
    [id |-> [ge.id EXCEPT ![member] = FreeId(ge)], pending |-> [ge.pending EXCEPT ![FreeId(ge)] = what]]

\* GlobalEvents::registerEvent and registerLuaEvent: the first of a kind starts the chain.
RegisterGlobal(ge, kind, begins) ==
    IF begins /\ ge.id[kind] = 0 THEN Schedule(ge, kind, kind) ELSE ge

\* CreatureEvents::registerEvent and registerLuaEvent: an entry without a script is reused.
RegisterEvent(entries, origin) ==
    IF entries \in {Nothing, One("cleared")} THEN One(origin) ELSE entries

\* registerEvent and registerLuaEvent of actions, talkactions, spells, global events: the first stays.
RegisterFirst(entries, origin) == IF entries = Nothing THEN One(origin) ELSE entries

\* Weapons::registerLuaEvent takes the place of what is there.
RegisterWeapon(entries, origin) == IF entries = Nothing \/ origin = "lua" THEN One(origin) ELSE entries

\* Actions::registerEvent and registerLuaEvent
RegisterAction(entries) == RegisterFirst(entries, "xml")
RegisterLuaAction(entries) == RegisterFirst(entries, "lua")

\* MoveEvents::addEvent keeps them all; registerEvent and registerLuaEvent.
AddEvent(entries, origin) == [entries EXCEPT ![origin] = @ + 1]
RegisterMove(entries) == AddEvent(entries, "xml")
RegisterLuaMove(entries) == AddEvent(entries, "lua")

\* The entries of k with a handler of an origin more.
Register(k, entries, origin) ==
    CASE KindOf[k] = "creature"   -> RegisterEvent(entries, origin)
      [] KindOf[k] = "weapon"     -> RegisterWeapon(entries, origin)
      [] KindOf[k] = "move"       -> IF origin = "lua" THEN RegisterLuaMove(entries) ELSE RegisterMove(entries)
      [] KindOf[k] = "action"     -> IF origin = "lua" THEN RegisterLuaAction(entries) ELSE RegisterAction(entries)
      [] OTHER                    -> RegisterFirst(entries, origin)

\* BaseEvents::loadFromXml and Scripts::loadScripts: those of bad fail to load.
Load(s, kinds, origin, bad) ==
    LET keys == {k \in Keys : KindOf[k] \in kinds /\ Declared(k, origin) /\ k \notin bad}
        begins(kind) == \E k \in keys : KindOf[k] = kind /\ s.reg[k] = Nothing
        think == RegisterGlobal(s.ge, "think", begins("think"))
    IN  [s EXCEPT !.reg = [k \in Keys |-> IF k \in keys THEN Register(k, s.reg[k], origin) ELSE s.reg[k]],
                  !.ge = RegisterGlobal(think, "timer", begins("timer"))]

LoadDefaults(s) ==
    [s EXCEPT !.reg = [k \in Keys |-> IF k \in HasDefault /\ s.reg[k] = Nothing THEN One("default") ELSE s.reg[k]]]

\* CreatureEvents::removeInvalidEvents
RemoveInvalidEvents(s) ==
    LET invalid == {k \in CreatureEvents : s.reg[k] = One("cleared")}
    IN  [s EXCEPT !.reg = [k \in Keys |-> IF k \in invalid THEN Nothing ELSE s.reg[k]],
                  !.list = [c \in Watchers |-> [has |-> s.list[c].has \ invalid,
                                                lost |-> s.list[c].lost \cup (s.list[c].has \cap invalid)]]]

\* Monsters::reload, with deserializeSpell for every monster: a spell that is missing is left out.
ReloadMonsters(s) ==
    [s EXCEPT !.spell = [m \in DOMAIN Learners |-> [has |-> {k \in Learners[m] : s.reg[k] # Nothing}, lost |-> {}]]]

\* BaseEvents::reload of a registry
ReloadMap(s, kind, bad) == Load(ClearMap(s, kind, "xml"), {kind}, "xml", bad)
ReloadEvents(s, bad) == Load(ClearEvents(s, "xml"), {"creature"}, "xml", bad)
ReloadGlobals(s, bad) == Load(ClearGlobals(s, "xml"), Chains, "xml", bad)
ReloadSpells(s, bad) == ReloadMonsters(Load(ClearSpells(s, "xml"), {"spell"}, "xml", bad))
ReloadWeapons(s, bad) == LoadDefaults(ReloadMap(s, "weapon", bad))

Kinds == {KindOf[k] : k \in Keys}

ClearLua(s) == ClearGlobals(ClearMap(ClearMap(ClearMap(ClearEvents(s, "lua"), "action", "lua"),
                                              "move", "lua"), "talk", "lua"), "lua")

\* RELOAD_TYPE_SCRIPTS
ReloadScripts(s, bad) ==
    LET t == LoadDefaults(ClearMap(ClearLua(s), "weapon", "lua"))
    IN  RemoveInvalidEvents(Load(ClearSpells(t, "lua"), Kinds, "lua", bad))

\* RELOAD_TYPE_ALL
ReloadAll(s, bad) ==
    LET t == ReloadMap(ReloadEvents(ReloadMap(ReloadSpells(s, bad), "action", bad), bad), "move", bad)
        u == ReloadMap(ReloadMap(t, "talk", bad), "weapon", bad)
        w == ReloadGlobals(LoadDefaults(ClearMap(u, "weapon", "lua")), bad)
    IN  RemoveInvalidEvents(Load(ClearSpells(ClearLua(w), "lua"), Kinds, "lua", bad))

\* Game::reload
Reload(s, what, bad) ==
    CASE what = "actions"         -> ReloadMap(s, "action", bad)
      [] what = "talkactions"     -> ReloadMap(s, "talk", bad)
      [] what = "movements"       -> ReloadMap(s, "move", bad)
      [] what = "weapons"         -> ReloadWeapons(s, bad)
      [] what = "creaturescripts" -> RemoveInvalidEvents(ReloadEvents(s, bad))
      [] what = "globalevents"    -> ReloadGlobals(s, bad)
      [] what = "spells"          -> ReloadSpells(s, bad)
      [] what = "monsters"        -> ReloadMonsters(s)
      [] what = "scripts"         -> ReloadScripts(s, bad)
      [] what = "all"             -> ReloadAll(s, bad)

Commands == {"actions", "talkactions", "movements", "weapons", "creaturescripts", "globalevents",
             "spells", "monsters", "scripts", "all"}

Empty == [reg |-> [k \in Keys |-> Nothing],
          list |-> [c \in Watchers |-> [has |-> {}, lost |-> {}]],
          spell |-> [m \in DOMAIN Learners |-> [has |-> {}, lost |-> {}]],
          ge |-> [id |-> [c \in Chains |-> 0], pending |-> [i \in Ids |-> "none"]]]

\* ScriptingManager::loadScriptSystems, then the scripts and the monsters
StartUp == ReloadMonsters(Load(LoadDefaults(Load(Empty, Kinds, "xml", {})), Kinds, "lua", {}))

RegistriesInit ==
    /\ handler = StartUp.reg
    /\ eventsList = StartUp.list
    /\ learnt = StartUp.spell
    /\ globals = StartUp.ge

-----------------------------------------------------------------------------
Room == Cardinality({i \in Ids : globals.pending[i] = "none"}) >= 2

\* luaGameReload: the files of bad happen to be broken
LuaReload ==
    \E what \in Commands, bad \in SUBSET {h.key : h \in {x \in Handlers : Fragile(x)}} :
        Room /\ Become(Reload(Now, what, bad))

\* Creature::registerCreatureEvent and unregisterCreatureEvent, getEventByName finds those that are loaded.
RegisterCreatureEvent(c, k) ==
    /\ handler[k] \notin {Nothing, One("cleared")}
    /\ eventsList' = [eventsList EXCEPT ![c].has = @ \cup {k}]
    /\ UNCHANGED <<handler, learnt, globals>>

UnregisterCreatureEvent(c, k) ==
    /\ handler[k] \notin {Nothing, One("cleared")}
    /\ eventsList' = [eventsList EXCEPT ![c].has = @ \ {k}]
    /\ UNCHANGED <<handler, learnt, globals>>

\* An event of the chain leaves the scheduler, the members that hold its id are not told.
Fired(s, i) ==
    [s EXCEPT !.ge = [id |-> [c \in Chains |-> IF s.ge.id[c] = i THEN Stale ELSE s.ge.id[c]],
                      pending |-> [s.ge.pending EXCEPT ![i] = "none"]]]

Alive(s, kind) == {k \in Keys : KindOf[k] = kind /\ s.reg[k] # Nothing}

\* GlobalEvents::think goes on while there is one, with its id in timerEventId.
Think ==
    \E i \in Ids :
        /\ globals.pending[i] = "think"
        /\ LET s == Fired(Now, i)
           IN  Become(IF Alive(s, "think") = {} THEN s ELSE [s EXCEPT !.ge = Schedule(@, "think", "timer")])

\* GlobalEvents::timer goes on with its id in thinkEventId; one whose script returns false is erased.
Timer ==
    \E i \in Ids, failing \in SUBSET {k \in Alive(Now, "timer") : ~Solid(k)} :
        /\ globals.pending[i] = "timer"
        /\ LET s == [Fired(Now, i) EXCEPT !.reg = [k \in Keys |-> IF k \in failing THEN Nothing ELSE handler[k]]]
           IN  Become(IF Alive(s, "timer") = {} THEN s ELSE [s EXCEPT !.ge = Schedule(@, "timer", "think")])

RegistriesNext ==
    \/ LuaReload
    \/ \E c \in Watchers, k \in CreatureEvents : RegisterCreatureEvent(c, k) \/ UnregisterCreatureEvent(c, k)
    \/ Think
    \/ Timer

-----------------------------------------------------------------------------
RegistriesTypeOK ==
    /\ handler \in [Keys -> [Entry -> Nat]]
    /\ \A k \in Keys : KindOf[k] # "move" => handler[k] = Nothing \/ \E e \in Entry : handler[k] = One(e)
    /\ \A c \in Watchers : eventsList[c].has \cup eventsList[c].lost \subseteq CreatureEvents
    /\ \A c \in Chains : globals.id[c] \in Ids \cup {0, Stale}

(* A key whose files all load has the handler that it had at the start, no *)
(* matter what was reloaded in which order.                                *)
SameHandler == \A k \in Keys : Solid(k) => handler[k] = StartUp.reg[k]

(* No creature is left with an erased event, and no monster with an erased *)
(* spell, as long as the files of those events load and the monsters use   *)
(* no spell of a Lua script.                                               *)
PointersLive ==
    /\ \A c \in Watchers : \A k \in eventsList[c].lost : ~Solid(k)
    /\ \A c \in Watchers : \A k \in eventsList[c].has : handler[k] # Nothing
    /\ \A m \in DOMAIN Learners : \A k \in learnt[m].lost : Declared(k, "lua")

\* The files of k load, and only those of one origin declare it.
Own(k, origin) == Solid(k) /\ \A o \in {"xml", "lua"} : Declared(k, o) <=> o = origin

(* The chains of the global events never stop, when each origin declares   *)
(* one event of each kind that loads and that the other does not declare.  *)
ChainsRun ==
    \A kind \in Chains :
        (\A o \in {"xml", "lua"} : \E k \in Of1(kind) : Own(k, o))
        => \E i \in Ids : globals.pending[i] = kind

-----------------------------------------------------------------------------
(* Calls into scripts                                                      *)

hookVars == <<missing, frames, lua, envs, answer>>

-----------------------------------------------------------------------------
(* A hook: what it pushes, how many arguments it says it has pushed, how   *)
(* many results it wants and takes off, and how it reads them.             *)

Hook(name, reads, pushed, params, results, taken) ==
    [name |-> name, reads |-> reads, pushed |-> pushed, params |-> params, results |-> results, taken |-> taken]

\* LuaScriptInterface::callFunction: true or false.  It takes one value off, be it the result or the error.
Asks(name, pushed, params) == Hook(name, "boolean", pushed, params, 1, 1)

\* LuaScriptInterface::callVoidFunction
Tells(name, pushed, params) == Hook(name, "nothing", pushed, params, 0, 0)

\* A ReturnValue
Permits(name, pushed, params) == Hook(name, "code", pushed, params, 1, 1)

\* A number that the script may change: experience or skill tries
Counts(name, pushed, params) == Hook(name, "number", pushed, params, 1, 1)

\* Damage: two values and two types come back
Changes(name, pushed, params) == Hook(name, "damage", pushed, params, 4, 4)

\* The lowest and the highest value of a spell's damage
Rolls(name, pushed, params) == Hook(name, "range", pushed, params, 2, 2)

\* lua_pcall without results
Runs(name, pushed, params) == Hook(name, "nothing", pushed, params, 0, 0)

\* true, false or a type of speech
Speaks(name, pushed, params) == Hook(name, "speech", pushed, params, 1, 1)

eventMonsterOnSpawn == Asks("eventMonsterOnSpawn", <<"Monster", "Position", "boolean", "boolean">>, 4)
eventCreatureOnChangeOutfit == Asks("eventCreatureOnChangeOutfit", <<"Creature", "Outfit">>, 2)
eventCreatureOnAreaCombat == Permits("eventCreatureOnAreaCombat", <<"Creature", "Tile", "boolean">>, 3)
eventCreatureOnTargetCombat == Permits("eventCreatureOnTargetCombat", <<"Creature", "Creature">>, 2)
eventCreatureOnHear == Tells("eventCreatureOnHear", <<"Creature", "Creature", "string", "integer">>, 4)
eventCreatureOnChangeZone == Tells("eventCreatureOnChangeZone", <<"Creature", "integer", "integer">>, 3)
eventCreatureOnUpdateStorage == Tells("eventCreatureOnUpdateStorage", <<"Creature", "integer", "integer",
        "integer", "boolean">>, 5)
eventPartyOnJoin == Asks("eventPartyOnJoin", <<"Party", "Player">>, 2)
eventPartyOnLeave == Asks("eventPartyOnLeave", <<"Party", "Player">>, 2)
eventPartyOnDisband == Asks("eventPartyOnDisband", <<"Party">>, 1)
eventPartyOnShareExperience == Counts("eventPartyOnShareExperience", <<"Party", "integer">>, 2)
eventPartyOnInvite == Asks("eventPartyOnInvite", <<"Party", "Player">>, 2)
eventPartyOnRevokeInvitation == Asks("eventPartyOnRevokeInvitation", <<"Party", "Player">>, 2)
eventPartyOnPassLeadership == Asks("eventPartyOnPassLeadership", <<"Party", "Player">>, 2)
eventPlayerOnLook == Tells("eventPlayerOnLook", <<"Player", "Thing", "Position", "integer">>, 4)
eventPlayerOnLookInBattleList == Tells("eventPlayerOnLookInBattleList", <<"Player", "Creature", "integer">>, 3)
eventPlayerOnLookInTrade == Tells("eventPlayerOnLookInTrade", <<"Player", "Player", "Item", "integer">>, 4)
eventPlayerOnLookInShop == Asks("eventPlayerOnLookInShop", <<"Player", "ItemType", "integer">>, 3)
eventPlayerOnMoveItem == Permits("eventPlayerOnMoveItem", <<"Player", "Item", "integer", "Position",
        "Position", "Cylinder", "Cylinder">>, 7)
eventPlayerOnItemMoved == Tells("eventPlayerOnItemMoved", <<"Player", "Item", "integer", "Position",
        "Position", "Cylinder", "Cylinder">>, 7)
eventPlayerOnMoveCreature == Asks("eventPlayerOnMoveCreature", <<"Player", "Creature", "Position", "Position">>, 4)
eventPlayerOnReportRuleViolation == Tells("eventPlayerOnReportRuleViolation", <<"Player", "string",
        "integer", "integer", "string", "string">>, 6)
eventPlayerOnReportBug == Asks("eventPlayerOnReportBug", <<"Player", "string">>, 2)
eventPlayerOnTurn == Asks("eventPlayerOnTurn", <<"Player", "integer">>, 2)
eventPlayerOnTradeRequest == Asks("eventPlayerOnTradeRequest", <<"Player", "Player", "Item">>, 3)
eventPlayerOnTradeAccept == Asks("eventPlayerOnTradeAccept", <<"Player", "Player", "Item", "Item">>, 4)
eventPlayerOnTradeCompleted == Tells("eventPlayerOnTradeCompleted", <<"Player", "Player", "Item", "Item",
        "boolean">>, 5)
eventPlayerOnGainExperience == Counts("eventPlayerOnGainExperience", <<"Player", "Creature", "integer",
        "integer">>, 4)
eventPlayerOnLoseExperience == Counts("eventPlayerOnLoseExperience", <<"Player", "integer">>, 2)
eventPlayerOnGainSkillTries == Counts("eventPlayerOnGainSkillTries", <<"Player", "integer", "integer", "boolean">>, 4)
eventPlayerOnNetworkMessage == Tells("eventPlayerOnNetworkMessage", <<"Player", "integer", "NetworkMessage">>, 3)
eventPlayerOnUpdateInventory == Tells("eventPlayerOnUpdateInventory", <<"Player", "Item", "integer", "boolean">>, 4)
eventPlayerOnAccountManager == Tells("eventPlayerOnAccountManager", <<"Player", "string">>, 2)
eventPlayerOnRotateItem == Tells("eventPlayerOnRotateItem", <<"Player", "Item">>, 2)
eventPlayerOnSpellCheck == Asks("eventPlayerOnSpellCheck", <<"Player", "Spell">>, 2)
eventMonsterOnDropLoot == Tells("eventMonsterOnDropLoot", <<"Monster", "Container">>, 2)

EventHooks ==
    {eventMonsterOnSpawn, eventCreatureOnChangeOutfit, eventCreatureOnAreaCombat, eventCreatureOnTargetCombat,
     eventCreatureOnHear, eventCreatureOnChangeZone, eventCreatureOnUpdateStorage, eventPartyOnJoin,
     eventPartyOnLeave, eventPartyOnDisband, eventPartyOnShareExperience, eventPartyOnInvite,
     eventPartyOnRevokeInvitation, eventPartyOnPassLeadership, eventPlayerOnLook, eventPlayerOnLookInBattleList,
     eventPlayerOnLookInTrade, eventPlayerOnLookInShop, eventPlayerOnMoveItem, eventPlayerOnItemMoved,
     eventPlayerOnMoveCreature, eventPlayerOnReportRuleViolation, eventPlayerOnReportBug, eventPlayerOnTurn,
     eventPlayerOnTradeRequest, eventPlayerOnTradeAccept, eventPlayerOnTradeCompleted,
     eventPlayerOnGainExperience, eventPlayerOnLoseExperience, eventPlayerOnGainSkillTries,
     eventPlayerOnNetworkMessage, eventPlayerOnUpdateInventory, eventPlayerOnAccountManager,
     eventPlayerOnRotateItem, eventPlayerOnSpellCheck, eventMonsterOnDropLoot}

\* Handlers of creatures and global events.
executeOnLogin == Asks("executeOnLogin", <<"Player">>, 1)
executeOnLogout == Asks("executeOnLogout", <<"Player">>, 1)
executeOnThink == Asks("executeOnThink", <<"Creature", "integer">>, 2)
executeOnPrepareDeath == Asks("executeOnPrepareDeath", <<"Creature", "Creature">>, 2)
executeOnDeath == Asks("executeOnDeath", <<"Creature", "Thing", "Creature", "Creature", "boolean", "boolean">>, 6)
executeAdvance == Asks("executeAdvance", <<"Player", "integer", "integer", "integer">>, 4)
executeOnKill == Tells("executeOnKill", <<"Creature", "Creature">>, 2)
executeModalWindow == Tells("executeModalWindow", <<"Player", "integer", "integer", "integer">>, 4)
executeTextEdit == Asks("executeTextEdit", <<"Player", "Thing", "string", "integer">>, 4)
executeHealthChange == Changes("executeHealthChange", <<"Creature", "Creature", "CombatDamage",
        "CombatDamage", "CombatDamage", "CombatDamage", "CombatDamage">>, 7)
executeManaChange == Changes("executeManaChange", <<"Creature", "Creature", "CombatDamage", "CombatDamage",
        "CombatDamage", "CombatDamage", "CombatDamage">>, 7)
executeExtendedOpcode == Tells("executeExtendedOpcode", <<"Player", "integer", "string">>, 3)
GlobalEvent_executeRecord == Asks("GlobalEvent_executeRecord", <<"integer", "integer">>, 2)
GlobalEvent_executeEvent == Asks("GlobalEvent_executeEvent", <<"integer">>, 1)
ScriptEvent_executeEvent == Asks("ScriptEvent_executeEvent", <<>>, 0)

\* Handlers of items, words and steps.
executeUse == Asks("executeUse", <<"Player", "Thing", "Position", "Thing", "Position", "boolean">>, 6)
executeSay == Asks("executeSay", <<"Player", "string", "string", "integer">>, 4)
executeStep == Asks("executeStep", <<"Creature", "Thing", "Position", "Position">>, 4)
executeEquip == Asks("executeEquip", <<"Player", "Thing", "integer", "boolean">>, 4)
executeAddRemItem == Asks("executeAddRemItem", <<"Thing", "Thing", "Position">>, 3)
executeUseWeapon == Asks("executeUseWeapon", <<"Player", "Variant">>, 2)

\* Handlers of spells and combat.
CombatSpell_executeCastSpell == Asks("CombatSpell_executeCastSpell", <<"Creature", "Variant">>, 2)
InstantSpell_executeCastSpell == Asks("InstantSpell_executeCastSpell", <<"Creature", "Variant">>, 2)
RuneSpell_executeCastSpell == Asks("RuneSpell_executeCastSpell", <<"Creature", "Variant", "boolean">>, 3)
getMinMaxValues == Rolls("getMinMaxValues", <<"Player", "integer", "integer">>, 3)
onTileCombat == Asks("onTileCombat", <<"Creature", "Position">>, 2)
onTargetCombat == Runs("onTargetCombat", <<"Creature", "Creature">>, 2)

\* Handlers of channels, NPCs and monsters.
Npc_onCreatureAppear == Tells("Npc_onCreatureAppear", <<"Creature">>, 1)
Npc_onCreatureDisappear == Tells("Npc_onCreatureDisappear", <<"Creature">>, 1)
Npc_onCreatureMove == Tells("Npc_onCreatureMove", <<"Creature", "Position", "Position">>, 3)
Npc_onCreatureSay == Tells("Npc_onCreatureSay", <<"Creature", "integer", "string">>, 3)
Npc_onPlayerTrade == Tells("Npc_onPlayerTrade", <<"Player", "integer", "integer", "integer", "boolean",
        "boolean">>, 6)
Npc_onPlayerCloseChannel == Tells("Npc_onPlayerCloseChannel", <<"Player">>, 1)
Npc_onPlayerEndTrade == Tells("Npc_onPlayerEndTrade", <<"Player">>, 1)
Npc_onThink == Tells("Npc_onThink", <<>>, 0)
executeCanJoinEvent == Asks("executeCanJoinEvent", <<"Player">>, 1)
executeOnJoinEvent == Tells("executeOnJoinEvent", <<"Player">>, 1)
executeOnLeaveEvent == Asks("executeOnLeaveEvent", <<"Player">>, 1)
executeOnSpeakEvent == Speaks("executeOnSpeakEvent", <<"Player", "integer", "string">>, 3)
Monster_onCreatureAppear == Asks("Monster_onCreatureAppear", <<"Monster", "Creature">>, 2)
Monster_onRemoveCreature == Asks("Monster_onRemoveCreature", <<"Monster", "Creature">>, 2)
Monster_onCreatureMove == Asks("Monster_onCreatureMove", <<"Monster", "Creature", "Position", "Position">>, 4)
Monster_onCreatureSay == Tells("Monster_onCreatureSay", <<"Monster", "Creature", "integer", "string">>, 4)
Monster_onThink == Asks("Monster_onThink", <<"Monster", "integer">>, 2)

HandlerHooks ==
    {executeOnLogin, executeOnLogout, executeOnThink, executeOnPrepareDeath, executeOnDeath, executeAdvance,
     executeOnKill, executeModalWindow, executeTextEdit, executeHealthChange, executeManaChange,
     executeExtendedOpcode, GlobalEvent_executeRecord, GlobalEvent_executeEvent, executeUse, executeSay,
     executeStep, executeEquip, executeAddRemItem, executeUseWeapon, Npc_onCreatureAppear,
     Npc_onCreatureDisappear, Npc_onCreatureMove, Npc_onCreatureSay, Npc_onPlayerTrade,
     Npc_onPlayerCloseChannel, Npc_onPlayerEndTrade, Npc_onThink, CombatSpell_executeCastSpell,
     InstantSpell_executeCastSpell, RuneSpell_executeCastSpell, getMinMaxValues, onTileCombat, onTargetCombat,
     executeCanJoinEvent, executeOnJoinEvent, executeOnLeaveEvent, executeOnSpeakEvent,
     ScriptEvent_executeEvent, Monster_onCreatureAppear, Monster_onRemoveCreature, Monster_onCreatureMove,
     Monster_onCreatureSay, Monster_onThink}

AllHooks == EventHooks \cup HandlerHooks

HooksTypeOK ==
    /\ missing \subseteq Optional
    /\ \A k \in DOMAIN frames : frames[k].hook \in AllHooks /\ frames[k].below \in Nat
    /\ lua \in Nat /\ envs \in 0..(MaxEnvs + MaxRefused)
    /\ answer = None \/ answer.how \in {"unset", "refused", "failed", "done"}

HooksInit == missing = {} /\ frames = <<>> /\ lua = 0 /\ envs = 0 /\ answer = None

-----------------------------------------------------------------------------
(* Firing a hook                                                           *)

Running == frames # <<>>
May == Running => Last(frames).hook.name \in Calling

\* What the engine goes on with if the script is not run to its end: true
\* or the value as it was if the hook is not set, and else a refusal.
Otherwise(h, how) ==
    CASE h.reads \in {"boolean", "speech"} -> IF how = "unset" THEN "yes" ELSE "no"
      [] h.reads = "code" -> IF how = "unset" THEN "NOERROR" ELSE "NOTPOSSIBLE"
      [] h.reads \in {"number", "damage", "range"} -> "kept"
      [] OTHER -> "nothing"

Answered(h, how, value) == answer' = [hook |-> h.name, reads |-> h.reads, how |-> how, value |-> value]

Unset(h) ==
    /\ May /\ h \in EventHooks /\ h.name \in missing
    /\ Answered(h, "unset", Otherwise(h, "unset"))
    /\ UNCHANGED <<missing, frames, lua, envs>>

\* LuaScriptInterface::reserveScriptEnv: a refused environment stays counted.
Refused(h) ==
    /\ May /\ h.name \notin missing /\ envs >= MaxEnvs /\ envs < MaxEnvs + MaxRefused
    /\ envs' = envs + 1
    /\ Answered(h, "refused", Otherwise(h, "refused"))
    /\ UNCHANGED <<missing, frames, lua>>

\* The function and the arguments are pushed, and the error handler of
\* protectedCall is put below them.
Fire(h) ==
    /\ May /\ h.name \notin missing /\ envs < MaxEnvs
    /\ envs' = envs + 1
    /\ lua' = lua + 1 + Len(h.pushed)
    /\ frames' = Append(frames, [hook |-> h, below |-> lua])
    /\ answer' = None
    /\ UNCHANGED missing

-----------------------------------------------------------------------------
(* The script ends                                                         *)

\* Lua::getInteger<uint64_t>: a fraction is out of range and becomes the largest number, a negative one wraps.
getInteger(value) ==
    CASE value \in {"fraction", "negative"} -> "huge"
      [] value = "number" -> "changed"
      [] OTHER -> "zero"

\* What the hook makes of a value that the script returned.
Reads(h, value) ==
    CASE h.reads = "boolean" -> IF value \in {"nil", "false"} THEN "no" ELSE "yes"
      [] h.reads = "code" -> IF value \in {"nil", "false", "true"} THEN "NOERROR" ELSE "some code"
      [] h.reads = "number" -> getInteger(value)
      [] h.reads \in {"damage", "range"} -> IF value = "number" THEN "changed" ELSE "zero"
      [] h.reads = "speech" -> IF value \in {"true", "number"} THEN "yes" ELSE "no"
      [] OTHER -> "nothing"

Values == {"nil", "false", "true", "number", "fraction", "negative"}

\* lua_pcall takes the function and as many arguments as it was told; then it
\* leaves the results, or one value, the error, which is taken off.
Height(h, failed) ==
    lua - (h.params + 1) + (IF failed THEN 1 ELSE h.results) - (IF failed THEN 1 ELSE h.taken)

Return(failed, value) ==
    LET h == Last(frames).hook
    IN /\ Running
       /\ lua' = Height(h, failed)
       /\ frames' = Front(frames)
       /\ envs' = envs - 1
       /\ IF failed THEN Answered(h, "failed", Otherwise(h, "failed")) ELSE Answered(h, "done", Reads(h, value))
       /\ UNCHANGED missing

\* Events::load, at the start or at a reload, even by a script: what the files do not define is not set.
LoadEvents ==
    /\ \E S \in SUBSET Optional : missing' = S
    /\ UNCHANGED <<frames, lua, envs, answer>>

HooksNext ==
    \/ LoadEvents
    \/ \E h \in AllHooks : Unset(h) \/ Refused(h) \/ Fire(h)
    \/ \E failed \in BOOLEAN, value \in Values : (failed => value = "nil") /\ Return(failed, value)

-----------------------------------------------------------------------------
(* Properties                                                              *)

\* Every hook leaves the Lua stack as it found it, whether its script ends
\* well or fails, and however hooks are nested: the stack holds what the
\* running hooks have pushed and nothing else.
StackBalanced ==
    lua = IF Running THEN Last(frames).below + 1 + Len(Last(frames).hook.pushed) ELSE 0

\* A script that fails, or cannot be run, never lets anything happen: a
\* question is answered with no, a number is left as it was.  And a script
\* that ends well is the only one that changes a number.
FailsClosed ==
    answer # None =>
        /\ answer.how \in {"refused", "failed"} => answer.value \in {"no", "NOTPOSSIBLE", "kept", "nothing"}
        /\ answer.value \in {"changed", "huge", "zero"} => answer.how = "done"
=============================================================================

---------------------------------- MODULE Clients ----------------------------------
(***************************************************************************)
(* One character and its client: the map and the creatures the client is   *)
(* shown, its container windows and shops, and what the character has:     *)
(* items, money, skills and levels, worn equipment, and all of it as bytes *)
(* in the database.  As in module World the parts share no state in the    *)
(* models and focus picks one.                                             *)
(***************************************************************************)
EXTENDS Integers

CONSTANTS
    Containers, Stacks, Bows, Shield, ContainerCapacity, StackSize, Strength,
    Customers, Merchants, Callbacks, Worths, CoinStack, CoinLimit, MaxMoney,
    Me, Others, SeenMonsters, Width, Height, LastFloor, Surface, VX, VY, Reach, Spots,
    ViewPaths, KnownLimit, MaxCached,
    Bags, Coins, Changing, Grounds, Cids, MaxInside,
    SetByScript, ItemKinds, MaxAttrs, Ailments, MaxAilments, Furniture,
    SkillTries, ManaNeeded, ExpNeeded, FirstSkill, HPGain, Amounts, Rewards, Gear,
    GearTypes, FirstType, Scripted, GearSlots, MaxLevel, Pack, Gone,
    None

VARIABLES
    focus,   \* the part this behaviour is about
    inv, units,
    inGame, window, shopPlayerSet, registry,
    purse, owned, hung,
    where, hidden, senses, described, display, mistaken, known, remembered, cached,
    at, in, inside, face, opened, screen,
    item, conds, tile, saved, kept,
    skill, magic, rank,
    gear, abilities

In == INSTANCE Inventory
Vi == INSTANCE View WITH screen <- display, Monsters <- SeenMonsters, Paths <- ViewPaths
Wi == INSTANCE Windows
Se == INSTANCE Serialization WITH Scripted <- SetByScript, Kinds <- ItemKinds
Gr == INSTANCE Growth WITH Types <- GearTypes, Slots <- GearSlots

inventoryVars == <<inv, units>>
shopVars == <<inGame, window, shopPlayerSet, registry>>
moneyVars == <<purse, owned, hung>>
viewVars == <<where, hidden, senses, described, display, mistaken, known, remembered,
              cached>>
windowVars == <<at, in, inside, face, opened, screen>>
serializationVars == <<item, conds, tile, saved, kept>>
growthVars == <<skill, magic, rank>>
equipmentVars == <<gear, abilities>>

vars == <<focus, inventoryVars, shopVars, moneyVars, viewVars, windowVars,
          serializationVars, growthVars, equipmentVars>>

Init ==
    /\ focus \in {"inventory", "shops", "money", "view", "windows", "serialization",
                  "growth", "equipment"}
    /\ In!InventoryInit
    /\ In!ShopsInit
    /\ In!MoneyInit
    /\ Vi!ViewInit
    /\ Wi!WindowsInit
    /\ Se!SerializationInit
    /\ Gr!GrowthInit
    /\ Gr!EquipmentInit
    \* Of a part that does not move, one of its initial states is enough.
    /\ focus # "view" => ~senses

\* The other parts stay as they are.
Only(part) ==
    /\ focus = part /\ UNCHANGED focus
    /\ IF part = "inventory" THEN TRUE ELSE UNCHANGED inventoryVars
    /\ IF part = "shops" THEN TRUE ELSE UNCHANGED shopVars
    /\ IF part = "money" THEN TRUE ELSE UNCHANGED moneyVars
    /\ IF part = "view" THEN TRUE ELSE UNCHANGED viewVars
    /\ IF part = "windows" THEN TRUE ELSE UNCHANGED windowVars
    /\ IF part = "serialization" THEN TRUE ELSE UNCHANGED serializationVars
    /\ IF part = "growth" THEN TRUE ELSE UNCHANGED growthVars
    /\ IF part = "equipment" THEN TRUE ELSE UNCHANGED equipmentVars

Next ==
    \/ Only("inventory") /\ In!InventoryNext
    \/ Only("shops") /\ In!ShopsNext
    \/ Only("money") /\ In!MoneyNext
    \/ Only("view") /\ Vi!ViewNext
    \/ Only("windows") /\ Wi!WindowsNext
    \/ Only("serialization") /\ Se!SerializationNext
    \/ Only("growth") /\ Gr!GrowthNext
    \/ Only("equipment") /\ Gr!EquipmentNext

Spec == Init /\ [][Next]_vars

-----------------------------------------------------------------------------

\* A part is looked at when it moves; the others are in their initial states.
Of(part, P) == focus = part => P

TypeOK ==
    /\ Of("inventory", In!InventoryTypeOK) /\ Of("shops", In!ShopsTypeOK) /\ Of("money", In!MoneyTypeOK)
    /\ Of("view", Vi!ViewTypeOK) /\ Of("windows", Wi!WindowsTypeOK) /\ Of("serialization", Se!SerializationTypeOK)
    /\ Of("growth", Gr!GrowthTypeOK) /\ Of("equipment", Gr!EquipmentTypeOK)

\* ProtocolGame::sendMoveCreature and checkCreatureAsKnown, Player::onSendContainer and
\* openShopWindow: what the client shows is what the server means it to show, its windows are
\* of what is in reach, and both sides of a trade with an NPC agree.
ClientAgrees ==
    /\ Of("view", Vi!WindowComplete) /\ Of("view", Vi!DisplayAgrees) /\ Of("view", Vi!KnownAgrees) /\ Of("view", Vi!SpectatorsRight)
    /\ Of("windows", Wi!WindowsTrue) /\ Of("windows", Wi!WindowsReach) /\ Of("shops", In!WindowsAgree)

\* Game::internalMoveItem and internalAddItem, addMoney and removeMoney: no item is in two
\* places or inside itself, no count and no coin gets lost but by Player::addThing without a
\* slot (see NothingLost), and the weights are those of what
\* is carried.  What is saved is read again.  Player::addSkillAdvance to removeExperience,
\* MoveEvent::EquipItem and DeEquipItem: what a player earned and wears is what his levels
\* and his bonuses say.
ItemsConserved ==
    /\ Of("inventory", In!WellFormed) /\ Of("inventory", In!NothingLost) /\ Of("inventory", In!WeightsExact)
    /\ Of("money", In!MoneyExact)
    /\ Of("serialization", Se!AttributesAgree) /\ Of("serialization", Se!ItemReturns)
    /\ Of("serialization", Se!TileReturns) /\ Of("serialization", Se!ConditionsReturn)
    /\ Of("growth", Gr!EarnedExact) /\ Of("growth", Gr!LevelExact) /\ Of("growth", Gr!PercentTold)
    /\ Of("equipment", Gr!AbilitiesExact) /\ Of("equipment", Gr!EnabledIsWorn)
=============================================================================

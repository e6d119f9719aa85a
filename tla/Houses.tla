-------------------------------- MODULE Houses --------------------------------
(***************************************************************************)
(* One house: its owner, its access lists, who is inside, its beds, the    *)
(* things left in it, and its transfer by trade, by script and for unpaid  *)
(* rent (house.cpp, housetile.cpp, bed.cpp).                               *)
(*                                                                         *)
(* A list of guests has players, a guild rank ("rank") and "everyone"; the *)
(* house has one door with a list.  A thing is in the house, with a        *)
(* player, or in the depot of a player, unless it was lost.  Nobody has    *)
(* the right to edit all houses, and houses are not owned by account.  A   *)
(* bed is one item for its two halves, which are always changed together.  *)
(***************************************************************************)
EXTENDS Naturals, FiniteSets, FiniteSetsExt

CONSTANTS Occupants,      \* the players
          Beds, Things,
          MaxWarnings,    \* seven in the code
          MaxHouseTasks,  \* bound on the tasks
          None

VARIABLES house,     \* the House, its beds and what is in it
          people,    \* the players: where they are, what they edit, their rank and money
          bedSleepersMap,
          houseTasks

houseVars == <<house, people, bedSleepersMap, houseTasks>>

Lists == {"guests", "subOwners", "door"}

Entries == Occupants \cup {"rank", "everyone"}

\* The place of what lies in the house, on the floor or in a chest that stays
Indoors == <<"house", None>>

\* ... and of what a copy of a player had that was not saved
Lost == <<"lost", None>>

HousesTypeOK ==
    /\ house.owner \in Occupants \cup {None}
    /\ house.lists \in [Lists -> SUBSET Entries]
    /\ house.transferItem \subseteq [from : Occupants, to : Occupants]
    /\ house.warnings \in 0 .. MaxWarnings
    /\ house.sleeper \in [Beds -> Occupants \cup {None}]
    /\ \A t \in Things : house.lies[t] \in {Indoors, Lost} \cup ({"carried", "depot"} \X Occupants)
    /\ people.where \in [Occupants -> {"offline", "street", "house", "room"}]
    /\ people.saved \in [Occupants -> {"street", "house", "room"}]
    /\ people.money \in [Occupants -> Nat]
    /\ people.ranked \subseteq Occupants /\ people.kicks \subseteq Occupants
    /\ people.editing \in [Occupants -> Lists \cup {None}]
    /\ bedSleepersMap \in [Occupants -> Beds \cup {None}]

HousesInit ==
    /\ house = [owner |-> CHOOSE p \in Occupants : TRUE,
                lists |-> [l \in Lists |-> {}], transferItem |-> {}, warnings |-> 0,
                sleeper |-> [b \in Beds |-> None],
                lies |-> [t \in Things |-> Indoors]]
    /\ people = [where |-> [p \in Occupants |-> "offline"], saved |-> [p \in Occupants |-> "street"],
                 money |-> [p \in Occupants |-> 1], ranked |-> {}, kicks |-> {},
                 editing |-> [p \in Occupants |-> None]]
    /\ bedSleepersMap = [p \in Occupants |-> None]
    /\ houseTasks = 0

-----------------------------------------------------------------------------
(* Access                                                                  *)

\* AccessList::isInList
IsInList(list, p, ranked) == "everyone" \in list \/ p \in list \/ ("rank" \in list /\ p \in ranked)

GetHouseAccessLevel(h, p) ==
    CASE p = h.owner -> 3
      [] p # h.owner /\ IsInList(h.lists["subOwners"], p, people.ranked) -> 2
      [] OTHER -> IF IsInList(h.lists["guests"], p, people.ranked) THEN 1 ELSE 0

IsInvited(h, p) == GetHouseAccessLevel(h, p) > 0

CanEditAccessList(p, l) ==
    GetHouseAccessLevel(house, p) = 3 \/ (GetHouseAccessLevel(house, p) = 2 /\ l = "guests")

\* Door::canUse
CanUseDoor(p) ==
    GetHouseAccessLevel(house, p) >= 2 \/ IsInList(house.lists["door"], p, people.ranked)

Inside(w) == {p \in Occupants : w.where[p] \in {"house", "room"}}

\* internalTeleport to the entry, which is always possible.
ToEntry(w, set) == [w EXCEPT !.where = [p \in Occupants |-> IF p \in set THEN "street" ELSE @[p]]]

\* The lists are set, and then everybody inside who is not invited any more is kicked.
KickUninvited(h, w) == ToEntry(w, {p \in Inside(w) : ~IsInvited(h, p)})

-----------------------------------------------------------------------------
(* Beds                                                                    *)

\* BedItem::wakeUp: the sleeper regenerates, in the game or in the database.
WakeUp(h, b) == [h EXCEPT !.sleeper[b] = None]

\* Game::removeBedSleeper of those who are woken up
RemoveBedSleepers(set) == [p \in Occupants |-> IF p \in set THEN None ELSE bedSleepersMap[p]]

\* BedItem::canUse: a sleeper with a higher level is left alone.
CanUseBed(p, b) ==
    \/ house.sleeper[b] = None
    \/ GetHouseAccessLevel(house, p) = 3
    \/ GetHouseAccessLevel(house, house.sleeper[b]) <= GetHouseAccessLevel(house, p)

\* BedItem::trySleep and sleep.  Only the owner wakes somebody up; a player that goes to
\* bed is kicked by a scheduled task, before its next action is due.
UseBed(p, b) ==
    /\ p \in Inside(people) \ people.kicks /\ CanUseBed(p, b)
    /\ IF house.sleeper[b] = None
       THEN /\ house' = [house EXCEPT !.sleeper[b] = p]
            /\ bedSleepersMap' = [bedSleepersMap EXCEPT ![p] = b]
            /\ people' = [people EXCEPT !.kicks = @ \cup {p}]
       ELSE /\ p = house.owner
            /\ house' = WakeUp(house, b)
            /\ bedSleepersMap' = RemoveBedSleepers({house.sleeper[b]})
            /\ UNCHANGED people

-----------------------------------------------------------------------------
(* Changes of owner                                                        *)

\* House::transferToDepot: where everything in the house goes.  It is to the owner's depot,
\* in the game or in a copy of the player.  A copy that is not found leaves all where it is,
\* and what savePlayer does not save is lost with the copy: its answer is ignored.
Destinations(h) ==
    {<<"depot", h.owner>>} \cup (IF people.where[h.owner] = "offline" THEN {Indoors, Lost} ELSE {})

TransferToDepot(h, to) ==
    [h EXCEPT !.lies = [t \in Things |-> IF h.lies[t] = Indoors THEN to ELSE h.lies[t]]]

\* What setOwner ends: everything the old owner and his guests have in the house.
Vacate(h, to) ==
    [TransferToDepot(h, to) EXCEPT !.lists = [l \in Lists |-> {}], !.sleeper = [b \in Beds |-> None]]

\* Seeded fault: A new owner finds the invited guests of the old one.
SetOwner_KicksUninvited(h, p) ==
    IF p = h.owner THEN house' = h /\ UNCHANGED <<people, bedSleepersMap>>
    ELSE IF h.owner = None
    THEN house' = [h EXCEPT !.owner = p, !.warnings = 0] /\ UNCHANGED <<people, bedSleepersMap>>
    ELSE /\ \E to \in Destinations(h) : house' = [Vacate(h, to) EXCEPT !.owner = p, !.warnings = 0]
         /\ people' = KickUninvited(house', people)
         /\ bedSleepersMap' = RemoveBedSleepers({h.sleeper[b] : b \in Beds})

\* House::setOwner
SetOwner(h, p) ==
    IF p = h.owner THEN house' = h /\ UNCHANGED <<people, bedSleepersMap>>
    ELSE IF h.owner = None
    THEN house' = [h EXCEPT !.owner = p, !.warnings = 0] /\ UNCHANGED <<people, bedSleepersMap>>
    ELSE /\ \E to \in Destinations(h) : house' = [Vacate(h, to) EXCEPT !.owner = p, !.warnings = 0]
         /\ people' = ToEntry(people, Inside(people))
         /\ bedSleepersMap' = RemoveBedSleepers({h.sleeper[b] : b \in Beds})

\* The house is given, bought or left by a script, with the owner in or out of the game.
SetOwnerByScript == \E p \in Occupants \cup {None} : p # house.owner /\ SetOwner(house, p)

\* luaHouseStartTrade: the transfer item is made once, and the trade begins.
StartTrade(p, q) ==
    /\ "offline" \notin {people.where[p], people.where[q]}
    /\ house.owner = p /\ q # p /\ house.transferItem = {}
    /\ house' = [house EXCEPT !.transferItem = {[from |-> p, to |-> q]}]
    /\ UNCHANGED <<people, bedSleepersMap>>

\* onTradeEvent of the transfer item: resetTransferItem, or executeTransfer, whoever
\* owns the house by then.
CancelTrade ==
    /\ house.transferItem # {}
    /\ house' = [house EXCEPT !.transferItem = {}]
    /\ UNCHANGED <<people, bedSleepersMap>>

ExecuteTransfer ==
    \E item \in house.transferItem : SetOwner([house EXCEPT !.transferItem = {}], item.to)

\* Seeded fault: one warning more.
PayHouses_Late ==
    /\ house.owner # None /\ \A p \in Occupants : people.where[p] = "offline"
    /\ IF people.money[house.owner] > 0
       THEN /\ people' = [people EXCEPT !.money[house.owner] = @ - 1]
            /\ UNCHANGED <<house, bedSleepersMap>>
       ELSE IF house.warnings <= MaxWarnings
       THEN /\ house' = [house EXCEPT !.warnings = @ + 1]
            /\ UNCHANGED <<people, bedSleepersMap>>
       ELSE SetOwner(house, None)

\* Houses::payHouses when the server starts and the rent is due: it is paid from the bank,
\* or the owner is warned by a letter, and in the end the house is lost.
PayHouses ==
    /\ house.owner # None /\ \A p \in Occupants : people.where[p] = "offline"
    /\ IF people.money[house.owner] > 0
       THEN /\ people' = [people EXCEPT !.money[house.owner] = @ - 1]
            /\ UNCHANGED <<house, bedSleepersMap>>
       ELSE IF house.warnings < MaxWarnings
       THEN /\ house' = [house EXCEPT !.warnings = @ + 1]
            /\ UNCHANGED <<people, bedSleepersMap>>
       ELSE SetOwner(house, None)

\* ... when loadPlayerById does not find the owner
PayHousesOfNobody ==
    /\ house.owner # None /\ \A p \in Occupants : people.where[p] = "offline"
    /\ SetOwner(house, None)

\* loadHouseInfo and readAttr of the beds: the map of the sleepers is not saved.
Restart ==
    /\ \A p \in Occupants : people.where[p] = "offline"
    /\ bedSleepersMap' = [p \in Occupants |->
            IF \E b \in Beds : house.sleeper[b] = p THEN CHOOSE b \in Beds : house.sleeper[b] = p ELSE None]
    /\ UNCHANGED <<house, people>>

-----------------------------------------------------------------------------
(* Players                                                                 *)

\* Map::placeCreature, queryDestination: who is not invited any more appears at the entry.
\* onCreatureAppear wakes the player up.
Login(p) ==
    LET bed == bedSleepersMap[p]
    IN  /\ people.where[p] = "offline"
        /\ people' = [people EXCEPT !.where[p] = IF IsInvited(house, p) THEN people.saved[p] ELSE "street"]
        /\ house' = IF bed = None THEN house ELSE WakeUp(house, bed)
        /\ bedSleepersMap' = RemoveBedSleepers({p})

\* A logout, or the task that kicks a sleeper; it ends a trade as well.
Leave(p) ==
    /\ people.where[p] # "offline"
    /\ people' = [people EXCEPT !.where[p] = "offline", !.kicks = @ \ {p}, !.editing[p] = None,
                                !.saved[p] = people.where[p]]
    /\ house' = [house EXCEPT !.transferItem = {item \in @ : p \notin {item.from, item.to}}]
    /\ UNCHANGED bedSleepersMap

\* HouseTile::queryAdd, and the door inside the house
Walk(p, to) ==
    /\ \/ people.where[p] = "street" /\ to = "house" /\ IsInvited(house, p)
       \/ people.where[p] = "house" /\ to = "room" /\ CanUseDoor(p)
       \/ people.where[p] = "room" /\ to = "house"
       \/ people.where[p] = "house" /\ to = "street"
    /\ people' = [people EXCEPT !.where[p] = to]
    /\ UNCHANGED <<house, bedSleepersMap>>

\* House::kickPlayer
KickPlayer(p, q) ==
    /\ people.where[p] # "offline" /\ q \in Inside(people)
    /\ GetHouseAccessLevel(house, p) >= GetHouseAccessLevel(house, q)
    /\ people' = ToEntry(people, {q})
    /\ UNCHANGED <<house, bedSleepersMap>>

\* The spells that open the window of a list
SetEditHouse(p, l) ==
    /\ people.where[p] # "offline" /\ CanEditAccessList(p, l)
    /\ people' = [people EXCEPT !.editing[p] = l]
    /\ UNCHANGED <<house, bedSleepersMap>>

\* Game::playerUpdateHouseWindow tests the right again; House::setAccessList.
UpdateHouseWindow(p, list) ==
    LET l == people.editing[p]
        set == [house EXCEPT !.lists[l] = list]
        closed == [people EXCEPT !.editing[p] = None]
    IN  /\ l # None
        /\ IF ~CanEditAccessList(p, l) THEN UNCHANGED house /\ people' = closed
           ELSE house' = set /\ people' = IF l = "door" THEN closed ELSE KickUninvited(set, closed)
        /\ UNCHANGED bedSleepersMap

\* Entering or leaving the guild moves nobody.
ChangeRank(p) ==
    /\ people' = [people EXCEPT !.ranked = IF p \in @ THEN @ \ {p} ELSE @ \cup {p}]
    /\ UNCHANGED <<house, bedSleepersMap>>

\* HouseTile::queryRemove and queryAdd for a thing, by a player anywhere
MoveThing(p, t) ==
    /\ people.where[p] # "offline" /\ IsInvited(house, p)
    /\ \/ house.lies[t] = Indoors /\ house' = [house EXCEPT !.lies[t] = <<"carried", p>>]
       \/ house.lies[t] = <<"carried", p>> /\ house' = [house EXCEPT !.lies[t] = Indoors]
    /\ UNCHANGED <<people, bedSleepersMap>>

HousesNext ==
    /\ houseTasks < MaxHouseTasks /\ houseTasks' = houseTasks + 1
    /\ \/ SetOwnerByScript \/ CancelTrade \/ ExecuteTransfer \/ PayHouses \/ PayHousesOfNobody \/ Restart
       \/ \E p \in Occupants :
             \/ Login(p) \/ Leave(p) \/ ChangeRank(p)
             \/ \E b \in Beds : UseBed(p, b)
             \/ \E to \in {"street", "house", "room"} : Walk(p, to)
             \/ \E q \in Occupants : KickPlayer(p, q) \/ StartTrade(p, q)
             \/ \E l \in Lists : SetEditHouse(p, l)
             \/ \E list \in {{}, {"rank"}, {"everyone"}} \cup {{q} : q \in Occupants} : UpdateHouseWindow(p, list)
             \/ \E t \in Things : MoveThing(p, t)

-----------------------------------------------------------------------------
(* Properties                                                              *)

\* A bed and the map of sleepers agree, nobody sleeps in two beds, and a player in the game
\* is in no bed, except one that is about to be kicked.
SleepersAgree ==
    /\ \A p \in Occupants, b \in Beds : house.sleeper[b] = p <=> bedSleepersMap[p] = b
    /\ \A p \in Occupants :
          people.where[p] # "offline" /\ p \notin people.kicks => bedSleepersMap[p] = None

\* A house that changes hands is left empty of people, sleepers and things, which are in the
\* depot of the owner at once if he is in the game; and whenever the guests or the sub-owners
\* are set, nobody stays inside without an invitation.
StrangersLeave ==
    [][/\ house'.owner # house.owner /\ house.owner # None =>
             /\ Inside(people') = {}
             /\ \A b \in Beds : house'.sleeper[b] = None
             /\ \A t \in Things : house.lies[t] = Indoors => house'.lies[t] \in Destinations(house)
       /\ (\E l \in {"guests", "subOwners"} : house'.lists[l] # house.lists[l]) =>
             \A p \in Inside(people') : IsInvited(house, p)']_houseVars
=============================================================================

------------------------------ MODULE Inventory ------------------------------
(***************************************************************************)
(* Things that are moved between a tile, a player and containers: the      *)
(* queries and the operations of the cylinders (tile.cpp, container.cpp,   *)
(* player.cpp) and the moves of game.cpp that are built from them.         *)
(*                                                                         *)
(* The player wears a backpack, what is in his right and left hand, and    *)
(* ammunition.  Stacks are all of one kind.  A thing that does not exist   *)
(* lies nowhere (None); it stands for what is made next, by a script or by *)
(* cloning a stack.  Every thing, and every unit of a stack, weighs one.   *)
(* The order inside a cylinder is abstracted: where the code takes the     *)
(* first that fits, the model takes any.  What the player offers in a      *)
(* trade at the time of a move (module Trade) is any thing, or None.       *)
(*                                                                         *)
(* Shop windows of NPCs (npc.cpp and the shop part of player.cpp).         *)
(*                                                                         *)
(* Player and Npc point at each other, and the callbacks of a window are   *)
(* slots of the one registry of Lua, which gives a released slot to the    *)
(* next function that asks: whoever closes a window has to forget both     *)
(* pointers and to release the slots once.  A window's two callbacks are   *)
(* taken and released together and are one slot here.                      *)
(*                                                                         *)
(* A script that ends a trade opens no window (the NPC library of data/    *)
(* only says a word), and openShopWindow is called by the NPC's own script.*)
(*                                                                         *)
(* The coins of a player: Game::addMoney and Game::removeMoney.  A purse   *)
(* is the stacks of coins the player carries, in the order removeMoney     *)
(* takes them in.  A stack that addMoney makes stays apart from the older  *)
(* ones, and what does not fit falls on the tile and counts as owned.      *)
(***************************************************************************)
EXTENDS Integers, FiniteSets, FiniteSetsExt, SequencesExt

CONSTANTS Containers, Stacks, Bows, Shield,
          ContainerCapacity,   \* how many things a container holds
          StackSize,           \* of a stack (100)
          Strength,            \* the capacity of the player
          Customers, Merchants,
          Callbacks,             \* slots of LUA_REGISTRYINDEX
          Worths,                \* of a coin of each currency: 1, 100, 10000
          CoinStack,             \* 100 coins
          CoinLimit,             \* 2^16: the count of coins is cast to 16 bits
          MaxMoney,              \* bound: what a player ever owns
          None

VARIABLES inv,     \* where things are, their counts, the weights that are kept; astray is
                   \* what the last operation gave to Player::addThing without a slot, as far
                   \* as NothingLost allows for it, and crammed the containers that had no
                   \* room for what was added to them
          units,   \* how much was made, not removed, and not given away like that before
          inGame,         \* the players and NPCs in the game
          window,         \* Player::shopOwner, callbacks and shopItemList
          shopPlayerSet,  \* Npc::shopPlayerSet
          registry,       \* the slots in use
          purse, owned,   \* the stacks of coins, and what they should be worth
          hung            \* addMoney does not return any more

inventoryVars == <<inv, units>>

Slots == {"backpack", "right", "left", "ammo"}

AllThings == Containers \cup Stacks \cup Bows \cup {Shield}

Cylinders == {"tile", "player"} \cup Containers

InventoryTypeOK ==
    /\ inv.in \in [AllThings -> {"tile", None} \cup Slots \cup Containers]
    /\ inv.count \in [Stacks -> 0 .. StackSize]
    /\ inv.totalWeight \in [Containers -> Int] /\ inv.inventoryWeight \in Int
    /\ inv.astray \in Nat /\ inv.crammed \subseteq Containers /\ units \in Nat

InventoryInit ==
    /\ inv = [in |-> [i \in AllThings |-> IF i \in Stacks THEN None ELSE "tile"],
              count |-> [i \in Stacks |-> 0],
              totalWeight |-> [c \in Containers |-> 0], inventoryWeight |-> 0,
              astray |-> 0, crammed |-> {}]
    /\ units = Cardinality(AllThings \ Stacks)

-----------------------------------------------------------------------------
(* Cylinders                                                               *)

Parent(v, i) == IF v.in[i] \in Slots THEN "player" ELSE v.in[i]

Contents(v, c) == {i \in AllThings : Parent(v, i) = c}

\* The container and those around it
Holders(v, c) ==
    LET up[d \in Containers] == {d} \cup (IF v.in[d] \in Containers THEN up[v.in[d]] ELSE {})
    IN  IF c \in Containers THEN up[c] ELSE {}

TopParent(v, c) ==
    IF c \notin Containers THEN c
    ELSE CHOOSE t \in {"tile", "player", None} : \E d \in Holders(v, c) : Parent(v, d) = t

Carried(v, i) == v.in[i] # None /\ TopParent(v, Parent(v, i)) = "player"

GetWeight(v, i) ==
    CASE i \in Stacks -> v.count[i]
      [] i \in Containers -> 1 + v.totalWeight[i]
      [] OTHER -> 1

\* Container::updateItemWeight
UpdateItemWeight(v, c, diff) ==
    [v EXCEPT !.totalWeight = [d \in Containers |-> @[d] + IF d \in Holders(v, c) THEN diff ELSE 0]]

\* Player::updateInventoryWeight, called from the notifications of what is carried
Notify(v, cylinders) ==
    IF \E c \in cylinders : TopParent(v, c) = "player"
    THEN [v EXCEPT !.inventoryWeight = MapThenSumSet(LAMBDA i : GetWeight(v, i), Contents(v, "player"))]
    ELSE v

Inside(v, i) == {j \in AllThings : i \in Containers /\ v.in[j] # None /\ i \in Holders(v, v.in[j])}

Units(v, set) ==
    MapThenSumSet(LAMBDA i : IF i \in Stacks THEN v.count[i] ELSE 1, {i \in set : v.in[i] # None})

Vanish(v, set) ==
    [v EXCEPT !.in = [j \in AllThings |-> IF j \in set THEN None ELSE @[j]],
              !.count = [j \in Stacks |-> IF j \in set THEN 0 ELSE @[j]],
              !.totalWeight = [c \in Containers |-> IF c \in set THEN 0 ELSE @[c]]]

\* addThing of the three cylinders.  A slot has room for one; Player::addThing without a
\* slot does nothing, and the thing, which has no parent by then, is lost.
AddThing(v, c, index, i) ==
    LET placed == [v EXCEPT !.in = [j \in AllThings |->
                        IF j = i THEN IF c = "player" THEN index ELSE c
                        ELSE IF c = "player" /\ @[j] = index THEN None ELSE @[j]]]
        amount == Units(v, Inside(v, i)) + (IF i \in Stacks THEN v.count[i] ELSE 1)
    IN  IF c = "player" /\ index \notin Slots
        THEN Vanish([v EXCEPT !.astray = @ + amount], {i} \cup Inside(v, i))
        ELSE UpdateItemWeight(placed, c, GetWeight(v, i))

UpdateThing(v, i, count) ==
    UpdateItemWeight([v EXCEPT !.count[i] = count], Parent(v, i), count - v.count[i])

RemoveThing(v, i, m) ==
    IF i \in Stacks /\ m # v.count[i] THEN UpdateThing(v, i, v.count[i] - m)
    ELSE LET left == UpdateItemWeight([v EXCEPT !.in[i] = None], Parent(v, i), - GetWeight(v, i))
         IN  IF i \in Stacks THEN [left EXCEPT !.count[i] = 0] ELSE left

-----------------------------------------------------------------------------
(* Queries                                                                 *)

Equals(i, j) == {i, j} \subseteq Stacks

HasRoom(v, i) == i \in Stacks /\ v.count[i] < StackSize

Worn(v, slot) == {i \in AllThings : v.in[i] = slot}

HasCapacity(v, i, count) ==
    \/ Carried(v, i)
    \/ (IF i \in Stacks THEN count ELSE GetWeight(v, i)) <= Strength - v.inventoryWeight

\* Indices of the player that are no slot: INDEX_WHEREEVER, and CONST_SLOT_WHEREEVER (0),
\* which a client sends for a drop on the capacity window.
Anywhere == {"any", "window"}

\* The slots a thing may be worn in; the hands that hold a two-handed weapon hold no more.
Fits(v, slot, i) ==
    \/ slot \in Anywhere
    \/ slot = "backpack" /\ i \in Containers
    \/ slot = "ammo" /\ i \in Stacks
    \/ slot = "right" /\ i = Shield /\ Worn(v, "left") = {}
    \/ slot = "left" /\ i \in Bows /\ Worn(v, "right") = {}

\* Player::queryAdd, without the movement scripts.  Without a slot nothing but the capacity
\* is asked: onPlayerEquip's answer takes the place of NOTENOUGHROOM.
PlayerQueryAdd(v, index, i, count) ==
    IF ~Fits(v, index, i) \/ ~HasCapacity(v, i, count) THEN "no"
    ELSE IF \E j \in Worn(v, index) : ~Equals(i, j)
    THEN IF Carried(v, i) THEN "needExchange" ELSE "no"
    ELSE "ok"

\* Container::queryAdd: not into itself, and the top parent is asked for the weight.
ContainerQueryAdd(v, c, index, i, count) ==
    IF \/ i \in Holders(v, c)
       \/ index = "any" /\ Cardinality(Contents(v, c)) >= ContainerCapacity
       \/ TopParent(v, c) = "player" /\ ~HasCapacity(v, i, count)
    THEN "no" ELSE "ok"

QueryAdd(v, c, index, i, count) ==
    CASE c = "tile" -> "ok"
      [] c = "player" -> PlayerQueryAdd(v, index, i, count)
      [] OTHER -> ContainerQueryAdd(v, c, index, i, count)

Room(v, set) == MapThenSumSet(LAMBDA j : StackSize - v.count[j], {j \in set : HasRoom(v, j)})

\* Container::queryMaxCount
ContainerMaxCount(v, c, index, i, count) ==
    LET freeSlots == ContainerCapacity - Cardinality(Contents(v, c))
        into == IF index = "any" THEN Contents(v, c) \ {i} ELSE {index} \cap Stacks
        free == IF freeSlots > 0 THEN freeSlots ELSE 0
    IN  IF i \notin Stacks THEN free
        ELSE free * StackSize +
             IF ContainerQueryAdd(v, c, "slot", i, count) = "ok" THEN Room(v, into) ELSE 0

\* Player::queryMaxCount: every slot and every container he carries, or one slot
PlayerMaxCount(v, index, i, count) ==
    LET n == IF i \in Stacks THEN StackSize ELSE 1
        InSlot(slot, j) ==
            IF Worn(v, slot) = {} THEN IF PlayerQueryAdd(v, slot, i, j) = "ok" THEN n ELSE 0
            ELSE IF /\ \E k \in Worn(v, slot) : Equals(i, k)
                    /\ index = "any" => HasCapacity(v, i, Room(v, Worn(v, slot)))
            THEN Room(v, Worn(v, slot)) ELSE 0
    IN  IF index # "any" THEN InSlot(index, count)
        ELSE MapThenSumSet(LAMBDA slot : InSlot(slot, GetWeight(v, i)), Slots) +
             MapThenSumSet(LAMBDA c : ContainerMaxCount(v, c, "any", i, GetWeight(v, i)),
                           {c \in Containers : Carried(v, c)})

QueryMaxCount(v, c, index, i, count) ==
    CASE c = "tile" -> IF count > 1 THEN count ELSE 1
      [] c = "player" -> PlayerMaxCount(v, index, i, count)
      [] OTHER -> ContainerMaxCount(v, c, index, i, count)

\* Where a thing goes: the cylinder, the index ("any", "slot" for a free one, a slot of the
\* player, or the thing that is there), and the thing that is met.
To(c, index, j) == [cyl |-> c, index |-> index, item |-> j]

\* Container::queryDestination: autostack, unless the thing is in the container already
ContainerDestination(v, c, index, i) ==
    LET like == {j \in Contents(v, c) \ {i} : Equals(i, j) /\ HasRoom(v, j)}
        met == IF index \in AllThings THEN index ELSE None
    IN  CASE index = "up" -> {To(IF v.in[c] \in Containers THEN v.in[c] ELSE c, "any", None)}
          [] index \in Containers -> {To(index, "any", None)}
          [] index \notin Containers \cup {"up"} ->
               IF v.in[i] = c \/ like = {} \/ met \in like THEN {To(c, index, met)}
               ELSE {To(c, j, j) : j \in like}

\* The search of Player::queryDestination: a free slot, a stack in a slot, and then the
\* containers, those that are less deep first.  What is offered in a trade is passed over:
\* by a stack with all that is in it, by another thing only if it is worn.  A container is
\* open to a stack as long as it has room without what is passed over, and the index is
\* then that of a thing in it.
PlayerSearch(v, index, i, offered) ==
    LET passed == {i, offered}
        stack == {j \in Worn(v, "ammo") \ passed : Equals(i, j) /\ HasRoom(v, j)}
        free == {s \in Slots : Worn(v, s) = {} /\ PlayerQueryAdd(v, s, i, GetWeight(v, i)) = "ok"}
        bags == {c \in Containers :
                    /\ Carried(v, c) /\ i \notin Holders(v, c)
                    /\ offered \in Holders(v, c) => i \notin Stacks /\ v.in[offered] \notin Slots}
        like(c) == {j \in Contents(v, c) \ passed : Equals(i, j) /\ HasRoom(v, j)}
        within(c) == IF i \in Stacks THEN Contents(v, c) \ passed ELSE Contents(v, c)
        open(c) == /\ Cardinality(within(c)) < ContainerCapacity
                   /\ ContainerQueryAdd(v, c, "slot", i, GetWeight(v, i)) = "ok"
        takes == {c \in bags : like(c) # {} \/ open(c)}
        depth(c) == Cardinality(Holders(v, c))
        first == {c \in takes : \A d \in takes : depth(c) <= depth(d)}
        place(c) == IF like(c) # {} THEN {To(c, j, j) : j \in like(c)}
                    ELSE IF within(c) = Contents(v, c) THEN {To(c, "slot", None)}
                    ELSE {To(c, j, None) : j \in Contents(v, c)}
        into == UNION {place(c) : c \in first}
    IN  CASE free # {} -> {To("player", s, None) : s \in free}
          [] free = {} /\ stack # {} /\ HasCapacity(v, i, GetWeight(v, i)) ->
               {To("player", "ammo", j) : j \in stack}
          [] OTHER -> IF into = {} THEN {To("player", index, None)} ELSE into

QueryDestination(v, c, index, i, offered) ==
    CASE c = "tile" ->
           LET down == Contents(v, "tile")
           IN  IF down = {} THEN {To(c, "any", None)} ELSE {To(c, "any", j) : j \in down}
      [] c \in Containers -> ContainerDestination(v, c, index, i)
      [] c = "player" /\ index \in Anywhere -> PlayerSearch(v, index, i, offered)
      [] OTHER ->
           IF Worn(v, index) = {} THEN {To(c, index, None)}
           ELSE {IF j \in Containers THEN To(j, "any", None) ELSE To(c, index, j) : j \in Worn(v, index)}

\* internalMoveItem asks until the cylinder answers with itself.
RECURSIVE Destinations(_, _, _, _, _)
Destinations(v, c, index, i, offered) ==
    UNION {IF d.cyl = c THEN {d} ELSE Destinations(v, d.cyl, d.index, i, offered) :
           d \in QueryDestination(v, c, index, i, offered)}

-----------------------------------------------------------------------------
(* Moves                                                                   *)

Fresh(v) == {i \in Stacks : v.in[i] = None}

\* How many of count things the stack that is met takes
Merges(v, d, i, count) ==
    IF Equals(i, d.item) THEN Min({StackSize - v.count[d.item], count}) ELSE 0

Merge(v, j, n) == IF n > 0 THEN UpdateThing(v, j, v.count[j] + n) ELSE v

\* The stack n of i is put on its own: i itself, if nothing is left of it, or a clone.
Clone(v, c, index, i, n) ==
    LET j == CHOOSE k \in Fresh(v) : TRUE
    IN  IF c = "player" /\ index \notin Slots THEN [v EXCEPT !.astray = @ + n]
        ELSE AddThing([v EXCEPT !.count[j] = n], c, index, j)

\* Seeded fault: The rest of a stack that was merged is not cloned.
Moved_NoRest(v, d, i, m, n) ==
    IF i \notin Stacks THEN AddThing(RemoveThing(v, i, m), d.cyl, d.index, i)
    ELSE IF n = 0 THEN Clone(RemoveThing(v, i, m), d.cyl, d.index, i, m)
    ELSE Merge(RemoveThing(v, i, m), d.item, n)

\* m of i leave their place; n of them are merged, and the rest is cloned.
Moved(v, d, i, m, n) ==
    IF i \notin Stacks THEN AddThing(RemoveThing(v, i, m), d.cyl, d.index, i)
    ELSE IF m > n THEN Clone(Merge(RemoveThing(v, i, m), d.item, n), d.cyl, d.index, i, m - n)
    ELSE Merge(RemoveThing(v, i, m), d.item, n)

\* The rest of internalMoveItem, once the destination d is free to take the thing
MoveInto(v, d, i, count) ==
    LET max == QueryMaxCount(v, d.cyl, d.index, i, count)
        m == IF i \in Stacks THEN Min({count, max}) ELSE max
    IN  IF max = 0 THEN v
        ELSE Notify(Moved(v, d, i, m, Merges(v, d, i, m)), {Parent(v, i), d.cyl})

\* The thing in the way goes to where the other comes from, if that can take it.
Exchange(v, d, i) ==
    LET from == Parent(v, i)
        j == d.item
        size == GetWeight(v, j)
        may == /\ QueryAdd(v, from, IF from = "player" THEN v.in[i] ELSE i, j, size) = "ok"
               /\ QueryMaxCount(v, from, "any", j, size) > 0
    IN  IF may THEN Notify(AddThing(RemoveThing(v, j, size), from, "slot", j), {d.cyl, from}) ELSE v

\* Game::internalMoveItem
InternalMoveItem(v, d, i, count) ==
    LET answer == QueryAdd(v, d.cyl, d.index, i, count)
        swapped == Exchange(v, d, i)
    IN  IF i = d.item THEN v
        ELSE CASE answer = "ok" -> MoveInto(v, d, i, count)
               [] answer = "needExchange" ->
                    IF QueryAdd(swapped, d.cyl, d.index, i, count) # "ok" THEN swapped
                    ELSE MoveInto(swapped, [d EXCEPT !.item = None], i, count)
               [] OTHER -> v

\* What he may be offering that the search for a place meets
Offers == {None} \cup {i \in AllThings : Carried(inv, i)}

\* What went astray is forgotten, and so is what was crammed and is no longer overfull.
Settled ==
    [inv EXCEPT !.astray = 0,
                !.crammed = {c \in @ : Cardinality(Contents(inv, c)) > ContainerCapacity}]

\* The indices a player, or a script, names in cylinder c for i
Indices(c, i) ==
    CASE c = "tile" -> {"any"}
      [] c = "player" -> {"window"} \cup Slots \cup {x \in {"any"} : inv.in[i] = "tile"}
      [] OTHER -> {"up", "any"} \cup Contents(inv, c)
                      \cup IF Cardinality(Contents(inv, c)) < ContainerCapacity THEN {"slot"} ELSE {}

\* Where i ends up, whatever index is named and whatever is offered meanwhile
Reachable(i) ==
    UNION {Destinations(Settled, c, index, i, offered) :
           <<c, index, offered>> \in UNION {{c} \X Indices(c, i) \X {None} : c \in Cylinders}
                                       \cup {"player"} \X (Anywhere \cap Indices("player", i)) \X Offers}

\* Game::playerMoveItem, once the player is near and the thing may be moved; and, with the
\* index "any", what is picked up from the map to be hung up or used.
MoveItem ==
    \E i \in AllThings :
        /\ inv.in[i] # None
        /\ \E count \in 1 .. (IF i \in Stacks THEN inv.count[i] ELSE 1), d \in Reachable(i) :
              /\ i \in Stacks => Fresh(RemoveThing(inv, i, count)) # {}
              /\ inv' = InternalMoveItem(Settled, d, i, count)
        /\ units' = units - inv.astray

\* Game::internalAddItem.  What a merge leaves is added again, anywhere; the rest is handed
\* up if that is refused, but the rest of the addition of a rest is handed up to nobody.
RECURSIVE InternalAddItem(_, _, _, _, _, _)
InternalAddItem(v, c, index, i, count, offered) ==
    LET new == IF i \in Stacks THEN [v EXCEPT !.count[i] = count] ELSE v
        Outcome(d) ==
            LET n == Merges(v, d, i, count)
                max == QueryMaxCount(new, c, "any", i, count)
                merged == Merge(v, d.item, n)
                full == {d.cyl} \cap {k \in Containers : Cardinality(Contents(v, k)) >= ContainerCapacity}
                placed == AddThing([new EXCEPT !.crammed = @ \cup full], d.cyl, d.index, i)
            IN  IF QueryAdd(new, d.cyl, d.index, i, count) # "ok" \/ max < count
                THEN {[inv |-> v, refused |-> TRUE, rest |-> 0]}
                ELSE IF n \in {0, count}
                THEN {[inv |-> Notify(IF n = 0 THEN placed ELSE merged, {d.cyl}),
                       refused |-> FALSE, rest |-> 0]}
                ELSE {[inv |-> again.inv, refused |-> FALSE, rest |-> IF again.refused THEN count - n ELSE 0] :
                      again \in InternalAddItem(merged, c, "any", i, count - n, offered)}
    IN  UNION {Outcome(d) : d \in QueryDestination(new, c, index, i, offered)}

\* Game::internalPlayerAddItem: what the player cannot take falls to the ground.  No script
\* of data/ names a slot.
InternalPlayerAddItem(v, i, count, offered) ==
    LET rest(added) == IF added.refused THEN count ELSE added.rest
    IN  UNION {IF rest(added) = 0 THEN {added.inv}
               ELSE {dropped.inv : dropped \in InternalAddItem(added.inv, "tile", "any", i, rest(added), offered)} :
               added \in InternalAddItem(v, "player", "window", i, count, offered)}

\* A loss in an addition is accounted for only if the player offers something he wears.
Excused(v, offered) ==
    [v EXCEPT !.astray = IF offered # None /\ inv.in[offered] \in Slots THEN @ ELSE 0]

PlayerAddItem ==
    \E i \in AllThings :
        /\ inv.in[i] = None
        /\ \E count \in 1 .. (IF i \in Stacks THEN StackSize ELSE 1) :
              /\ units' = units - inv.astray + count
              /\ inv' \in UNION {{Excused(v, offered) : v \in InternalPlayerAddItem(Settled, i, count, offered)} :
                                offered \in Offers}

\* Game::internalRemoveItem, with all that is inside
InternalRemoveItem(v, i, count) ==
    LET left == Notify(RemoveThing(v, i, count), {Parent(v, i)})
    IN  Vanish(left, Inside(v, i) \cup ({i} \cap Containers))

RemoveItem ==
    \E i \in AllThings :
        /\ inv.in[i] # None
        /\ \E count \in 1 .. (IF i \in Stacks THEN inv.count[i] ELSE 1) :
              /\ inv' = InternalRemoveItem(Settled, i, count)
              /\ units' = units - inv.astray - count - Units(inv, Inside(inv, i))

\* Player::removeItemOfType and internalRemoveItems: all of it, or nothing is taken.
RemoveItemOfType ==
    \E amount \in 1 .. 2 * StackSize :
        /\ \E taken \in SUBSET {j \in Stacks : Carried(inv, j)} : \E last \in taken :
               LET rest == amount - Units(inv, taken \ {last})
               IN  /\ rest \in 1 .. inv.count[last]
                   /\ inv' = FoldSet(LAMBDA j, v : InternalRemoveItem(v, j, v.count[j]),
                                     InternalRemoveItem(Settled, last, rest), taken \ {last})
        /\ units' = units - inv.astray - amount

InventoryNext == MoveItem \/ PlayerAddItem \/ RemoveItem \/ RemoveItemOfType

-----------------------------------------------------------------------------
(* Properties                                                              *)

\* What a container holds is the sum of what is in it, however deep it is; and the weight
\* the player carries, by which his capacity is tested, is that of what he wears.
WeightsExact ==
    /\ \A c \in Containers :
          inv.in[c] # None => inv.totalWeight[c] = MapThenSumSet(LAMBDA i : GetWeight(inv, i), Contents(inv, c))
    /\ inv.inventoryWeight = MapThenSumSet(LAMBDA i : GetWeight(inv, i), Contents(inv, "player"))

\* No container is inside itself, a slot has one thing, no stack is empty or too large, and
\* a two-handed weapon is alone in the hands.  No container is overfull, except one of a
\* player who was given a stack while he offered what lies in it: the search of
\* Player::queryDestination does not count that.  No move of his has this outcome.
WellFormed ==
    /\ \A set \in SUBSET Containers \ {{}} : \E c \in set : inv.in[c] \notin set
    /\ \A slot \in Slots : Cardinality(Worn(inv, slot)) <= 1
    /\ \A c \in Containers :
          \/ Cardinality(Contents(inv, c)) <= ContainerCapacity
          \/ c \in inv.crammed
    /\ \A i \in Stacks : inv.in[i] # None => inv.count[i] \in 1 .. StackSize
    /\ Worn(inv, "left") # {} => Worn(inv, "right") = {}

\* Whatever is moved, merged, split, exchanged, added or refused: nothing is made, and
\* nothing is lost but by Player::addThing without a slot, and this only to who drops a thing
\* on the capacity window, or picks it up to use it, and to who is given one while he offers
\* something he wears.
NothingLost == Units(inv, AllThings) + inv.astray = units

-----------------------------------------------------------------------------
(* Shops                                                                   *)

shopVars == <<inGame, window, shopPlayerSet, registry>>

ShopsTypeOK ==
    /\ inGame \subseteq Customers \cup Merchants
    /\ window.owner \in [Customers -> Merchants \cup {None}]
    /\ window.callback \in [Customers -> Callbacks \cup {None}]
    /\ window.items \in [Customers -> BOOLEAN]
    /\ shopPlayerSet \in [Merchants -> SUBSET Customers]
    /\ registry \subseteq Callbacks

ShopsInit ==
    /\ inGame = {}
    /\ window = [owner |-> [p \in Customers |-> None], callback |-> [p \in Customers |-> None],
                 items |-> [p \in Customers |-> FALSE]]
    /\ shopPlayerSet = [m \in Merchants |-> {}]
    /\ registry = {}

-----------------------------------------------------------------------------
(* Windows.  A state s is a record of the variables above.                 *)

Shops == [window |-> window, sets |-> shopPlayerSet, registry |-> registry]

Becomes(s) == window' = s.window /\ shopPlayerSet' = s.sets /\ registry' = s.registry

SetShopOwner(s, p, m, c) == [s EXCEPT !.window.owner[p] = m, !.window.callback[p] = c]

\* Seeded fault: onPlayerEndTrade without removeShopPlayer.
OnPlayerEndTrade_Keeps(s, m, p, c) ==
    [s EXCEPT !.registry = @ \ {c}]

\* Npc::onPlayerEndTrade.
OnPlayerEndTrade(s, m, p, c) ==
    [s EXCEPT !.registry = @ \ {c}, !.sets[m] = @ \ {p}]

\* Player::closeShopWindow.
CloseShopWindow(s, p) ==
    LET m == s.window.owner[p]
        ended == IF m = None THEN s
                 ELSE OnPlayerEndTrade(SetShopOwner(s, p, None, None), m, p, s.window.callback[p])
    IN  [ended EXCEPT !.window.items[p] = FALSE]

\* openShopWindow, both forms, once the arguments are checked.
OpenShopWindow(s, p, m, c) ==
    LET closed == CloseShopWindow([s EXCEPT !.registry = @ \cup {c}], p)
        added == [closed EXCEPT !.sets[m] = @ \cup {p}, !.window.items[p] = TRUE]
    IN  SetShopOwner(added, p, m, c)

\* Npc::closeAllShopWindows: whoever is in the set is closed, with whatever NPC it trades,
\* and is out of the set.
CloseAllShopWindows(s, m) ==
    LET closed == FoldSet(LAMBDA p, t : CloseShopWindow(t, p), s, s.sets[m])
    IN  [closed EXCEPT !.sets[m] = {}]

-----------------------------------------------------------------------------
(* The steps                                                               *)

Enter(x) ==
    /\ x \notin inGame /\ inGame' = inGame \cup {x}
    /\ UNCHANGED <<window, shopPlayerSet, registry>>

\* The global openShopWindow: the callbacks are taken before the player is looked up, and
\* stay in the registry if there is none.
LuaOpenShopWindow(p, m) ==
    /\ m \in inGame
    /\ \E c \in Callbacks \ registry :
          Becomes(IF p \in inGame THEN OpenShopWindow(Shops, p, m, c)
                  ELSE [Shops EXCEPT !.registry = @ \cup {c}])
    /\ UNCHANGED inGame

\* npc:openShopWindow looks first.
LuaNpcOpenShopWindow(p, m) ==
    /\ {p, m} \subseteq inGame
    /\ \E c \in Callbacks \ registry : Becomes(OpenShopWindow(Shops, p, m, c))
    /\ UNCHANGED inGame

\* closeShopWindow and npc:closeShopWindow of an NPC's script: of this NPC's window only,
\* and the list of items is kept.
LuaCloseShopWindow(p, m) ==
    /\ {p, m} \subseteq inGame /\ window.owner[p] = m
    /\ Becomes(OnPlayerEndTrade(SetShopOwner(Shops, p, None, None), m, p, window.callback[p]))
    /\ UNCHANGED inGame

PlayerCloseShop(p) ==
    /\ p \in inGame
    /\ Becomes(CloseShopWindow(Shops, p))
    /\ UNCHANGED inGame

\* Player::onRemoveCreature and Npc::onRemoveCreature.
RemovePlayer(p) ==
    /\ p \in inGame /\ inGame' = inGame \ {p}
    /\ Becomes(CloseShopWindow(Shops, p))

RemoveNpc(m) ==
    /\ m \in inGame /\ inGame' = inGame \ {m}
    /\ Becomes(CloseAllShopWindows(Shops, m))

\* Npcs::reload closes all windows of all NPCs, then Npc::reset forgets the sets.
Reload ==
    /\ Becomes([FoldSet(LAMBDA m, t : CloseAllShopWindows(t, m), Shops, inGame \cap Merchants)
                  EXCEPT !.sets = [m \in Merchants |-> IF m \in inGame THEN {} ELSE @[m]]])
    /\ UNCHANGED inGame

ShopsNext ==
    \/ \E x \in Customers \cup Merchants : Enter(x)
    \/ \E p \in Customers :
          \/ PlayerCloseShop(p) \/ RemovePlayer(p)
          \/ \E m \in Merchants :
                LuaOpenShopWindow(p, m) \/ LuaNpcOpenShopWindow(p, m) \/ LuaCloseShopWindow(p, m)
    \/ \E m \in Merchants : RemoveNpc(m)
    \/ Reload

-----------------------------------------------------------------------------

\* Player::closeShopWindow and Npc::closeAllShopWindows: a player's shop owner is in the
\* game and knows the player, an NPC knows no other player, and each window has registered
\* callbacks of its own.
WindowsAgree ==
    \A p \in Customers :
       /\ \A m \in Merchants : window.owner[p] = m <=> p \in shopPlayerSet[m]
       /\ window.owner[p] # None =>
             /\ {p, window.owner[p]} \subseteq inGame
             /\ window.callback[p] \in registry
             /\ \A q \in Customers \ {p} : window.callback[q] # window.callback[p]

-----------------------------------------------------------------------------
(* Money                                                                   *)

moneyVars == <<purse, owned, hung>>

Coin == [worth : Worths, count : 1..CoinStack]

MoneyTypeOK ==
    /\ \A i \in DOMAIN purse : purse[i] \in Coin
    /\ owned \in 0..MaxMoney /\ hung \in BOOLEAN

MoneyInit == purse = <<>> /\ owned = 0 /\ hung = FALSE

-----------------------------------------------------------------------------

WorthOf(stack) == stack.worth * stack.count
Total(stacks) == FoldLeft(LAMBDA sum, stack : sum + WorthOf(stack), 0, stacks)

\* The stacks that n coins of one currency are handed out in.
RECURSIVE CoinStacksOf(_, _)
CoinStacksOf(worth, n) ==
    IF n = 0 THEN <<>>
    ELSE LET count == Min({CoinStack, n})
         IN  <<[worth |-> worth, count |-> count]>> \o CoinStacksOf(worth, n - count)

\* Game::addMoney, from the dearest currency down.
AddMoney(money) ==
    FoldLeft(LAMBDA acc, worth : [left |-> acc.left % worth,
                                  stacks |-> acc.stacks \o CoinStacksOf(worth, acc.left \div worth)],
             [left |-> money, stacks |-> <<>>], SetToSortSeq(Worths, >)).stacks

\* The moneyMap of Game::removeMoney: the stacks by what they are worth.
InOrder(stacks) ==
    FoldLeft(LAMBDA sorted, x : SelectSeq(sorted, LAMBDA y : WorthOf(y) <= WorthOf(x)) \o <<x>>
                                  \o SelectSeq(sorted, LAMBDA y : WorthOf(y) > WorthOf(x)),
             <<>>, stacks)

RemoveCount(due, worth) == (due + worth - 1) \div worth

\* It takes the stacks from the least valuable one and breaks the first that is worth more
\* than what is due: the change is added, then as many coins are removed as cover the rest.
TakeStack(acc, stack) ==
    IF acc.due = 0 THEN [acc EXCEPT !.left = Append(@, stack)]
    ELSE IF WorthOf(stack) <= acc.due THEN [acc EXCEPT !.due = @ - WorthOf(stack)]
    ELSE LET n == RemoveCount(acc.due, stack.worth)
             change == AddMoney(stack.worth * n - acc.due)
             rest == IF n = stack.count THEN <<>> ELSE <<[stack EXCEPT !.count = @ - n]>>
         IN  [due |-> 0, left |-> acc.left \o change \o rest]

RemoveMoney(stacks, money) ==
    FoldLeft(TakeStack, [due |-> money, left |-> <<>>], InOrder(stacks)).left

\* The loop of addMoney takes min(100, the coins left in 16 bits) at a time: from 2^16
\* coins on it comes to a multiple of 2^16, takes none, and goes on for ever.
Earn(money) ==
    /\ ~hung /\ owned + money <= MaxMoney
    /\ IF money \div Max(Worths) >= CoinLimit
       THEN hung' = TRUE /\ UNCHANGED <<purse, owned>>
       ELSE /\ purse' = InOrder(purse \o AddMoney(money)) /\ owned' = owned + money
            /\ UNCHANGED hung

\* What the player cannot pay is not paid.
Pay(money) ==
    /\ ~hung /\ money <= Total(purse)
    /\ purse' = InOrder(RemoveMoney(purse, money)) /\ owned' = owned - money
    /\ UNCHANGED hung

MoneyNext == \E money \in 1..MaxMoney : Earn(money) \/ Pay(money)

-----------------------------------------------------------------------------

\* Game::removeMoney takes exactly the price, whichever stacks it has to break.
MoneyExact == ~hung => Total(purse) = owned

\* luaPlayerAddMoney: the money asked for is given.
AddMoneyReturns == ~hung
=============================================================================
